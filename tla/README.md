# A TLA+ model of cppdap

cppdap is a C++ implementation of the Debug Adapter Protocol: two programs
exchange requests, responses and events as JSON messages over a byte stream.
This directory holds TLA+ modules of the library and of its example debugger,
TLC configurations that check them on small instances, and TLAPS proofs for
every size.

Paths below are relative to the repository.

## The system

| Part | Source | State | Operations |
|---|---|---|---|
| Chan | `src/chan.h` | queue, closed flag, sleepers on a condition variable | put, take, close, reset |
| RWMutex | `src/rwmutex.h` | two counters, a mutex that a writer keeps, sleepers | lock and unlock for readers and writers, moves of RLock and WLock |
| Content stream | `src/content_stream.cpp` | the reader's buffer and mode | read (scan or match the header, parse the length, take the content), write, close |
| Session | `src/session.cpp`, `include/dap/session.h` | handler maps, sequence counter, inbox, two threads, send mutex | connect, startProcessingMessages, register handlers, send a request or an event, receive, dispatch, answer, destroy |
| promise, future | `include/dap/future.h` | value, flag, condition variable | set_value, get, wait, wait_for, wait_until |
| Streams | `src/io.cpp`, `src/string_buffer.h` | bytes, closed flag | read, write, isOpen, close; copies to a log by the spies |
| Socket | `src/socket.cpp` | file descriptor under an RWMutex | read, write, isOpen, close, accept, connect |
| Server | `src/network.cpp` | listening socket, thread, stopped flag | start, stop, accept loop |
| any, type information | `include/dap/any.h`, `src/typeof.cpp` | buffer or heap storage; a reference count | construct, copy, move, assign, reset; initialize, terminate |
| Serialization | `include/dap/serialization.h`, `src/*json_serializer*` | a JSON document | encode and decode a value, with three back ends |
| Protocol | `include/dap/protocol.h`, `src/protocol_*.cpp` | none | the fields of every message |
| Example | `examples/hello_debugger.cpp` | a line, breakpoints, two events, a log | the handlers of a debug adapter, `main()` |

How they interact: `send()` takes a number, registers the response handler,
encodes the message and writes it through ContentWriter under `sendMutex`.  The
receive thread reads messages through ContentReader, runs response handlers
itself, which set promises, and puts requests and events as closures into the
inbox, a Chan.  The dispatch thread takes and runs them; a request's handler
answers from there or keeps the callback and answers later from any thread.  The
destructor closes the inbox and both streams and joins the two threads.  The
stream is a pipe, a file or a socket; a socket guards its descriptor with an
RWMutex so that `close()` can interrupt the threads inside it.

What makes it hard: many threads write one stream in two writes per message;
answers may overtake the return of `send()`, come twice, late, or never; the
stream breaks or is closed at any step; condition variables are notified
sparingly; the destructor meets both threads anywhere; descriptor numbers are
reused; values change their representation in three different JSON libraries.
`PROJECT.json` lists these hazards at their lines.

## Modules

| Module | Models | Notes |
|---|---|---|
| `Channel`, `Chan` | what Chan promises; `chan.h` | an atomic FIFO; every method one step under the mutex, `take` sleeps, is woken (maybe spuriously) and re-checks |
| `RWLock`, `RWMutex` | what RWMutex promises; `rwmutex.h` | a writer keeps the mutex between lock and unlock, as `lock.release()` does |
| `ContentStream` | `content_stream.cpp` | byte by byte |
| `Session` | `session.cpp`, the send glue of `session.h` | one endpoint |
| `SessionPeer` | the other end and the transport | `Session` composed with any peer; the properties |
| `Pipe` | `Pipe` and `RW` of `io.cpp` | bytes, condition variable, partial reads |
| `Future` | `future.h` | every kind of wait |
| `PipeCall` | requests over two pipes | `Pipe` and `Future` composed as `Session::send()` uses them |
| `Socket` | `Socket::Shared`, `Socket::accept` | threads in its methods, the kernel's descriptors |
| `Network` | `Socket::connect`, the binding constructor, `network.cpp` | a shared connection, or a server, over `Socket` |
| `TypeInfos`, `AnyStorage` | `typeof.cpp`; `any.h` | life time of the type information and of values |
| `Json` | JSON documents and dap values as trees | classes of scalars |
| `NlohmannJson`, `RapidJson`, `JsonCpp` | the three back ends | one operator per overload |
| `Serialization` | `serialization.h`, the field loops of `typeof.h` | on top of any back end |
| `Codec` | a message on its way there and back | the properties of the serializers |
| `Declarations`, `Protocol` | `protocol.h`; `protocol_*.cpp` | members with their types; DAP_FIELD lists |
| `Values` | `Codec` and `AnyStorage` | one specification for the run |
| `HelloDebugger` | `hello_debugger.cpp`, the spies of `io.cpp` | a client of the session |
| `SyncDebuggerProofs` | | proofs about `RWMutex`, `Chan` and `HelloDebugger` |
| `PipeAnyProofs` | | proofs about `PipeCall` and `AnyStorage` |
| `NetworkProofs` | | proofs about `Network` |
| `ContentStreamFrames`, `ContentStreamProofs` | | proofs about `ContentStream`: frames in bytes; the invariant, its steps, the theorems |
| `SessionInvariant`, `SessionSteps`, `SessionProofs` | | proofs about `SessionPeer`: the invariant, its steps, the theorems |
| `MC...` | | instances for TLC |

An operator whose comment begins with "Mutant:" is a deliberately wrong version
of the definition that follows it.  No specification uses it; putting it in
place of that definition must break a property, which shows that the property
looks at the code.  `PROJECT.json` pairs them.

### Session

The calls are the actors.  A member of `ReqCalls` is one `send(request)`, of
`EvtCalls` one `send(event)`, of `PeerRequests` one request of the peer, which
acts when it is answered.  `spc` says where each is:

    idle -> numbered -> ready -> header -> content -> sent | failed -> done

The steps are cut where another thread can see a difference: taking the number
(line 108), registering the handler (110), locking `sendMutex` and testing
`isOpen()` (477-480), and the two writes of `ContentWriter::write`.  The receive
thread is at `loop` (isOpen), `read` or `put`; the dispatch thread at `take`,
`run` or `answering`; `dtor` follows the five statements of `~Impl`.

Data is abstracted.  A message is its kind, its sender's identity, its name and
whether its body can be decoded; `Noise` is bytes without a header and `Garbage`
a frame that is no message.  `wire` keeps halves of messages, so that torn
frames could be seen.  `nextSeq` is unbounded and `Wrap` reduces it modulo
`SeqMod`, which stands for 2^32; `emplace` keeps an older entry, as in the code.
The inbox is used with the atomic behaviour of `Channel`, which `Chan` is shown
to implement.  The transport enters through `isOpen()`, `read()` and `close()`:
a pipe closes for both ends, a socket or file only reports the end of the data,
and closing a non-closable file does nothing.

### ContentStream

Bytes are ASCII codes.  `Buffer(k)` is one `reader->read()` that returned `k`
bytes, any number between one and what was asked for.  Every other step of
`read()` waits until the buffer holds what it needs (`Full`) or the stream has
ended (`Starved`).  `strchr` also finds the terminating zero, so a zero byte is
consumed by `matchAny`; the model has this.  The sender writes messages and
pieces of headers, and may end the stream in the middle of a message; another
thread of the receiver may close the reader.

### Pipe, Future and PipeCall

A method of Pipe or of the shared state of a future holds the mutex from its
first to its last access and is one step; only `cv.wait()` gives it up.  A thread
is `out`, `asleep`, or `woken` and about to look again, for whatever reason it
woke.  `ReadLoop` is one turn of `Pipe::read()`: it copies what is there and
sleeps again while bytes are missing.  `TimesOut` evaluates the predicate once
more, as `wait_for` with a predicate does.

In `PipeCall` a message is two bytes, for the two writes of ContentWriter.  A
caller sends under `sendMutex`, waits with or without a timeout, and may send the
next request while the answer to the previous one is still on its way.  Either
side may close its ReaderWriter, whose reader and writer close one after the
other.

### Socket and Network

`Socket` has the RWMutex as `RWLock` promises it.  `read()`, `write()` and
`accept()` keep the read lock through their system call, which works on the
number `s` had when it began (`used`); `isOpen()` and `close()` are cut between
their two locks.  `file` says for each descriptor number whose it is, so that a
number given back and handed out again can be told apart; `OtherOpens` is the
rest of the program.  The kernel is modelled from its use: blocking calls end at
`::shutdown`, an error or the end of the data; reading `SO_ERROR` clears it;
`send` takes bytes while there is room.  The build is the one for Linux.

`Network` adds the callers.  A behaviour is about a connection (`connect()` with
or without a timeout, then any methods from several threads, then `~Shared`) or
about a server (`start()` and `stop()` from several threads beside the accept
loop).  The timeout's arithmetic is the code's, in `uint32_t`.

### Values

A JSON node is a record of a kind, a class of scalar, items and members.  The
classes are the ones the serializers tell apart: integers that fit 32 bits, need
64, or exceed the signed range; doubles with or without a fraction; strings with
or without a NUL.  `Deserialize` gives the set of values a call may leave: none
when it returns false, `Undefined` when it breaks a precondition of the JSON
library.  `Protocol` has the field list of every struct that is serialized, and
`Declarations` the members and types; a member without a DAP_FIELD is kept apart.
`Codec` sends every struct with every field varied from one back end to another
and back, reuses a Serializer, and lets a peer put any kind of JSON in place of
each field.

`AnyStorage` follows `value`, `type` and `heap` of each any and the place every
value lives in; three types stand for all (trivial, in the buffer with a
destructor, too large for the buffer).  `TypeInfos` counts references; values may
live in global state, as `dap.h` describes for `initialize()` and `terminate()`.

### HelloDebugger

The threads are `main()`, the receive thread and the dispatch thread.  Each
handler gives the messages it sends, in order, and every message is written to
stdout and copied to the log under `sendMutex`; requests are copied to the log by
the reader's spy.  The error handler closes the log and fires `terminate`.
`alive` turns false when `main()` returns and its locals, which the handlers
reference, are gone.

## Runs

| Run | Question | Result |
|---|---|---|
| `chan` | do notifications on an empty queue only suffice, does close release every taker, is it a FIFO | holds |
| `rwmutex` | is no writer stranded, and is it the readers-writer lock of `RWLock` | holds |
| `content_stream` | does read() return the messages, in order, promptly, whatever lies between them; does kClose stop | holds |
| `session_safety` | two requests and events of both sides at once, answered in any order or twice, with a failing writer, up to the last number before the wrap | holds |
| `session_lifecycle` | a request each way over pipe and socket, garbage, destruction at any point: does everything end, is everything dispatched and reported | holds |
| `net` | does nobody touch a foreign descriptor or lose one; do close, start and stop return, but for what `bind_failure` shows; is a stopped server quiet | holds |
| `pipes` | is no wakeup lost, are messages whole, does every wait end with its own answer in spite of timeouts and late answers | holds |
| `debugger` | does the log keep the order of stdout, does continue stop at the nearest breakpoint, are requests answered while `main()` returns, are locals alive | holds |
| `values` | does every message survive each pair of back ends, are malformed ones refused, does an any keep its value | holds |
| `any_move` | does `get()` return the contained value, as `any.h:55` says, after moves of any type | violated |
| `bind_failure` | is a socket that cannot be created or bound reported, as `network.h:50` says | violated |
| `future_unassigned` | is every future assigned, as `session.h:212` says | violated |

The last three are disagreements between the code and what its comments say:

* Moving an any leaves its member `heap` behind.  The moved-from any deletes the
  block with its next value while the target still points into it; if it gets no
  other value, nobody deletes the block.  In `values` only types without
  resources are moved.
* When `bind()` or `listen()` fails, and after a failing `::socket()` `bind()`
  always does, the constructor of Socket drops the last reference inside
  `lock()`, and `~Shared` waits for the write lock while the same thread holds
  the read lock: `Server::start()` never returns.  It keeps the server's mutex,
  so no other `start()` or `stop()` returns either; `CallsReturn` of the run
  `net` excepts this state (`WaitsForItself`) and nothing else.
* A promise whose answer cannot be decoded, or is lost with the connection, is
  never completed: the handler has been removed, or nothing empties
  `responseMap`.

### Other differences met while modelling

They are part of the modules, and the properties above are stated with these
exceptions; no run is devoted to them.

* An event without "body" is decoded with a deserializer whose `field()` always
  fails (`Decodes`), so an event type with fields, even optional ones, is
  dropped; `session.cpp:410` calls the body optional.
* After an orderly shutdown `Socket::isOpen()` stays true, because it looks for
  a pending error only (`socket.cpp:160`).  With kClose the reader takes the end
  of the data for a bad header and closes the socket
  (`content_stream.cpp:51-54`), and `onClose` (`session.h:249`) is called; with
  kIgnore, and over standard input in both modes, the receive thread spins and
  `onClose` is not called until the session closes the stream itself.
  `ClosedIsReported` is about the streams whose end is noticed.
* `close()` does nothing on a file opened as not closable (`io.cpp:116`), so over
  standard input the receive loop never ends and `~Session` waits for it; this is
  how `hello_debugger` ends when its client keeps stdin open.
* With kClose a header with no length, or length 0, is dropped without closing
  the reader (`content_stream.cpp:73`).
* `isOpen()` forgets a descriptor in error without closing it
  (`socket.cpp:168`, `forgotten` in the model).
* A timeout above 71 minutes wraps to a short one (`socket.cpp:311`).
* RapidJSON's reader takes only 32-bit integers in an any and cuts strings at a
  NUL (`rapid_json_serializer.cpp:95`); its writer merges a second struct into a
  used Serializer, where `serialization.h:132` promises the last value.
* `StackFrameFormat` does not list the field `hex` it inherits
  (`protocol_types.cpp:292`), so it is not sent.
* `serialization.h:44` has deserialize() return false for an object that is not
  of the correct type.  A variant takes a value of any type
  (`serialization.h:113`); nlohmann's and JsonCpp's readers take anything for an
  object (`nlohmann_json_serializer.cpp:72`), for example in
  `StartDebuggingRequest.configuration`, and JsonCpp's takes a double without a
  fraction for an integer; nlohmann's takes an array for a struct without
  required fields (`nlohmann_json_serializer.cpp:135`), and a struct without
  fields is read from anything.  `Taken` in `Codec` lists these, and
  `RequiredIsChecked` allows no others.
* RapidJSON's reader calls `MemberCount()` and `Size()` before it knows that it
  has an object or an array, against their preconditions, and JsonCpp's aborts
  on text that is not JSON.  `Undefined` stands for both, and
  `RequiredIsChecked` says that there are no other cases.
* In `hello_debugger` a breakpoint on the last line is set but not called
  verified (line 383), and a session error before ConfigurationDone leaves
  `main()` waiting for `configured` (line 452), although the comment on line 464
  has it stop at a session error.

### Bounds

* `chan`: three takers, two values, queue of at most three.  Lost wakeups need
  two sleepers and one re-check; three leave one over.
* `rwmutex`: four lock objects, so two readers and two writers can meet.
* `content_stream`: three items, chunks of three bytes, "C:" for
  "Content-Length:" and "\r\n" for "\r\n\r\n".  A length of two digits, a body
  that begins like a header and every unfinished header occur.  The length wraps
  at `SizeMod`; the writer's messages are shorter.
* `session_safety`: two requests, one event, one event of the peer, two answers
  per request, and two messages unread in the connection at once, which lets any
  two answers arrive in either order.  `SeqMod` is 3, the number of calls: the
  last number before the wrap is taken and none comes twice.  The two requests are interchangeable, and only
  invariants are checked, so symmetry is sound.
* `session_lifecycle`: one request each way, one answer, one piece of garbage,
  in both modes and over two transports; each thread meets `~Impl` at every step.
* `net`: two threads and the accept loop, two descriptors, three calls per
  thread, one arrival.  A write is two units and the buffer has room for one, so
  writes are cut.  A millisecond is 4, a second 8 and the wrap of `uint32_t` at
  16 of the model's microseconds; the timeouts 0, 3 and 5 are none, one that
  fills whole seconds and a half, and one that wraps.
* `pipes`: two callers and two requests, by the same caller or by both.  A late
  answer needs two requests of one caller, a mixed message two callers.
* `debugger`: a program of three lines and any three of twelve requests, with
  and without a log.
* `values`: all structs of the protocol; two anys with three heap blocks, two
  contents, two calls of `initialize()`.

Deadlock checking is off where the system may stop: calls that are done, a stream
that has ended, a message that was sent back.

### Fairness

Weak fairness on every thread of the library, on a call once begun, on the
destructor once begun, on a woken thread, on the end of a timeout, and on holders
of an RWMutex releasing it.  The operating system's scheduler gives this; locks
are held for a bounded time, or until a system call ends that `::shutdown` ends.
Nothing makes a program start a call, a client send, or a peer answer.
`CooperativeSpec` adds a program that starts its session and a peer that answers,
so that the violated liveness property cannot be blamed on idleness.  Handlers,
`onConnect` and `onError` are assumed to return.

## Proofs

All are checked by TLAPS, for every value of the constants that satisfies the
named assumptions (`SeqMod` positive, calls and payloads distinct, finitely many
locks, the names of the two pipes and their readers, threads and descriptors
that are not the null values, a positive number of source lines, requests that
are requests, a free block for an any that has none, bytes that are numbers
and messages that are neither empty nor too long for a `size_t`).

* `SyncDebuggerProofs`.  For `Chan`, `ChanTypes /\ TakersAreWoken` is inductive, and every
  step is a step of `Channel` (safety part).  For `RWMutex` the inductive
  invariant is the type invariant, the exact counters, exclusion and
  `NoLostWakeup`.  The counters are needed because the code decides by them whom
  to let in and whether to notify.  `RWMutexSafe`, `CountersAreExact`,
  `NoWriterIsStranded` and the refinement of `RWLock` follow.
* `ContentStreamFrames` and `ContentStreamProofs`: the reader has to find in the
  bytes the messages that the writer has put there.  The inductive invariant
  `Inv` says where they are (`Placed`).  The bytes not used yet, in the buffer and
  in the stream, hold the frames of the messages that are sent and not returned,
  in order, and between them no separator; read() is outside of all frames, or in
  the first of them, and then it has passed a known part of the header and `len`
  is the number that the digits passed so far stand for.  The first frame may
  thus begin before the bytes that are left.  A message whose header is written
  and whose content is not, or was cut off, follows as a frame that is too short.
  The exception is `Dead`, a reader closed where it can return nothing more.
  `ContentStreamFrames` has what is true of bytes alone: what appending to them
  and dropping from them does to `At` and to frames, that the digits of `Decimal`
  lead `MatchDigit` back to the length, digit by digit, and that a name found
  outside of the frames is not followed by a number and a separator, or is the
  name of the first frame.  `ContentStreamProofs` has one lemma per action.  A
  fact for every length is proved from the smallest natural number for which it
  would fail (`StrongInduction`, from the library's theorem that a well-founded
  relation has minimal elements; the set of numbers is its parameter).

  `FramesAreFound` (`ReceivedInOrder`) assumes `Unmistakable`, and it is not true
  without it: after a message that was cut off, a reader with kIgnore scans the
  beginning of that message, and if its body holds a whole header with a separator
  read() returns a part of the body.  No body of the library does, since none of
  the three JSON libraries writes a carriage return that is not escaped; and in
  "Content-Length:" the first letter does not occur a second time, which is why
  scanning byte by byte cannot step over a name.  `InvalidDataEndsIt`
  (`NothingAfterInvalidData`) assumes `Foreign` too: junk after a header's name
  that consists of blanks, or of zeros, belongs to a header with no length, which
  read() drops without closing (line 73), as it does with a name alone.  Some of
  the junk of run `content_stream` is not `Foreign`; there the property rests on
  the run.
* `SessionInvariant`, `SessionSteps` and `SessionProofs`: `IInv` has nine parts,
  proved one after the other, each for every action of the session and the peer:
  * `TypeOK`;
  * `LockInv`: `sendMutex` is held by exactly the call that is writing;
  * `FrameInv`: while the writer is open the wire ends in a whole message or in
    the header of the lock's holder.  Without this `FramesIntact` is not
    inductive, because a failed writer may leave a header alone at the end;
  * `NumberInv`: numbers are taken once, below `nextSeq`, and written unchanged;
  * `PipelineInv`: a request is in one place between the connection and its
    handler, so it is answered by one thread;
  * `ResponseInv`: a response in flight and an entry of `responseMap` carry the
    number of their call;
  * `PromiseInv`: a call that is still in the map has not been set;
  * `ShutdownInv`: after `~Impl` begins only the session's threads are inside;
  * `SentInv`: a response was not sent only if the writer had failed.

  The last part puts them together and derives `SessionTypes`,
  `SendKeepsFrames`, `NumbersAreUnique`, `FutureHoldsItsAnswer`,
  `PromiseIsSetOnce`, `SentHandlerIsLate` and `NobodyOutlivesTheSession`.
  Uniqueness and matching are conditional on `NotWrapped`, at most 2^32 numbers:
  beyond it the code does reuse keys.

  `HandlerIsWaiting` needs one invariant more, `WaitInv`, on top of `IInv`.
  `HandlerWaits` speaks of a call none of whose answers has been read, and which
  ones were read the state says only by what the connection lacks.  The model
  therefore numbers the answers to a call (the field `nth`, which the session
  does not look at).  `Waits(c)` says that the answers in the connection have
  different numbers up to the last one given, that a call between `put` and its
  first write has its entry, and that a call on the wire has its entry or lacks
  one of its answers.  That no other answer takes the entry away is
  `ResponseFindsItsCall`: an answer that finds a handler finds that of its own
  request.
* `PipeAnyProofs`, the pipe: `ReadsWhole` speaks of a finished read, but a read is put
  together from several turns while others write.  The inductive
  invariant is about the whole stream between the writer and the reader: what the
  reader has copied followed by what is in the deque is a sequence of messages,
  each header followed by its content, except that the last may be a header whose
  content is still to come (`Stream`, `Whole`), and then its sender holds
  `sendMutex` (`AtEnd`).  A turn of `read()` moves bytes from one part to the
  other (`Turned`), and a write appends half a message (`Appends`).  `FutureInv`
  says that a waiter sleeps only without a value and that a value, in the future
  and in the hands of the caller, is the answer to the request waited for.  From
  these follow `SleepersAreWoken`, `MessagesAreWhole` and `FutureGetsOwnAnswer`.
* `NetworkProofs`: `OwnDescriptor` is about the numbers that threads carry into
  system calls.  It is inductive only with the locks: whoever is in a call holds
  the read lock and uses what the member `s` still is (`LocksInv`), and `s` is the
  only open file of the socket that was not forgotten (`FilesInv`).  A method
  returns to where it was called from, so its effect on the callers is known only
  with `ConnectionInv` and `ServerInv`: which of `connect()`, the users of the
  connection, `start()` and `stop()` can be where, who holds `Server::mutex`, and
  that a server that is not stopped listens on a socket that is up.  From these
  follow `DescriptorIsOwn`, `DescriptorsAreGivenBack`, `StopIsQuiet`,
  `SelectWaitsAsTold`, and the action properties `StopReportsNoError` and
  `TruncationIsFinal`.
* `SyncDebuggerProofs`, the debugger: `LogFollowsStdout` counts the messages in the log that
  are no requests; each is the one at that place of stdout, and stdout is ahead by
  the message whose writer holds `sendMutex`.  It is inductive with the types.
  `UsesLiveLocals` needs `Lifetime`: what the inbox and the receive thread hold
  are the last requests the client has sent, so that nothing is left behind the
  one that fires `terminate`.  `RunStopsAtNearest` is about the loop of
  `Debugger::run()` for any number of lines: the first line it finds is at the
  least distance ahead, around the end of the source.
* `PipeAnyProofs`, any: an any is empty, has its value in its buffer, or has it in a
  block that nobody else has (`Sound`).  Each member function is a composition of
  `ResetStorage`, `Alloc`, `CopyConstruct` and assignments to the members, between which
  `Sound` is broken; the lemmas say what each part leaves (`Emptied`, `FilledAt`)
  and that the whole keeps `Sound`.  The hypothesis of `ValuesAreKept`, that no
  any with a value on the heap is moved, is the one that run `any_move` shows to
  be needed; `NoValueIsLost` also excludes moved strings, because a moved-from any
  forgets the value in its buffer without running its destructor.
  `TypeInfosOutliveAnys` needs no hypothesis: the reference count is the number of
  `initialize()` calls without `terminate()`, and one until the program exits
  (`Counted`).

Each of these invariants was checked by TLC on the instance of its run before it
was proved.

`RWMutexSafe`, `CountersAreExact`, `NumbersAreUnique` and `SessionTypes` state
invariants that no run lists, since a checked property contains or needs them
(`ImplementsRWLock` has the exclusion, `ResponseMatched` fails when a number is
used twice).

Only model-checked:

* everything with `~>` or `[]<>`, and the fairness half of `ImplementsChannel`:
  liveness is out of the prover's reach;
* `NothingAfterInvalidData` for junk that is not `Foreign` (see above);
* `RoundTrip`, `ConformingIsKept` and `RequiredIsChecked` of `Codec`: its
  operators are RECURSIVE, over documents of any depth, and the prover does not
  take modules that have such operators.

## Not modelled

* The error handler of a session and the mutexes inside EventHandlers: each is
  held for one access, which is part of the action that makes it, and what a
  program does in an error handler (`session.cpp:166` calls it with the mutex
  held) is the program's.
* `getPayload()` called by the program itself instead of
  `startProcessingMessages()`, destroying a session or stopping a server from one
  of its own callbacks, and calls on a destroyed session.
* `connect()` of a session is one step although it assigns two objects
  (`session.cpp:76`).
* `StringBuffer`, the formatting of `writef()` and of error messages: sequential,
  without state that others see.
* The Windows and macOS branches of `socket.cpp`.  The macOS branch closes the
  descriptor under the read lock, which its comment calls a race; it is the
  mutant of `OwnDescriptor`.
* `optional.h` beyond what the serializers do with it, `traits.h` (compile time),
  `protocol_gen.go` (a build tool whose output is modelled),
  `simple_net_client_server.cpp` (a client without state), the fuzzer (a driver).

Simplifications inside the modelled parts: response-sent handlers are a choice
instead of a map; the program destroys a session only when none of its own
threads is inside, and drops deferred callbacks then; assigning to an RLock or
WLock that holds something, and assigning an any to itself, which the library
never does, are not modelled; what a closed log file receives is not followed.
