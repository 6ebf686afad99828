---------------------------- MODULE ContentStream ----------------------------
(***************************************************************************)
(* ContentWriter and ContentReader (src/content_stream.cpp): messages are  *)
(* framed by a header that gives their length, and found again in a stream *)
(* that hands out its bytes in pieces of any size.                         *)
(*                                                                         *)
(* The sender writes messages with a ContentWriter and, now and then,      *)
(* bytes that belong to no message.  It may end the stream at any point,   *)
(* in the middle of a message too.  The receiver calls read() in a loop,   *)
(* as the receive thread of a session does, and another of its threads may *)
(* close the reader meanwhile.                                             *)
(*                                                                         *)
(* Bytes are ASCII codes.  The header's name "Content-Length:" and the     *)
(* "\r\n\r\n" behind it are constants: shorter words do for checking.      *)
(***************************************************************************)
EXTENDS Naturals, Sequences

CONSTANTS
    Name,        \* the bytes of "Content-Length:"
    Separator,   \* the bytes of "\r\n\r\n"
    Bodies,      \* the messages that are written
    Junks,       \* the byte strings that are written between messages
    ChunkSize,   \* the size of the chunk in buffer(): 256
    SizeMod,     \* 2^w for a size_t of w bits
    MaxItems     \* bound: how many messages and pieces of junk are written

ASSUME StreamAssumption ==
    /\ Name \in Seq(Nat) \ {<<>>} /\ Separator \in Seq(Nat) \ {<<>>}
    /\ Bodies \subseteq Seq(Nat) \ {<<>>} /\ Junks \subseteq Seq(Nat)
    /\ \A m \in Bodies : Len(m) < SizeMod
    /\ ChunkSize \in Nat \ {0} /\ SizeMod \in Nat \ {0} /\ MaxItems \in Nat

VARIABLES
    onInvalidData,  \* "kIgnore" or "kClose"
    stream,         \* the bytes written and not yet read
    ended,          \* the sender has closed its end
    open,           \* the reader has not been closed by the receiver
    writing,        \* the message whose header is written and whose content is not
    sent,           \* the messages written in full
    clean,          \* how many of them were written before the first bad junk
    junk,           \* how many pieces of junk were written
    bad,            \* one of them was not just a header's name
    buf, pc, len,   \* the buffer, position in read() and parsed length
    received        \* the messages that read() returned

sender == <<ended, writing, sent, clean, junk, bad>>
vars == <<onInvalidData, stream, open, sender, buf, pc, len, received>>

Init ==
    /\ onInvalidData \in {"kIgnore", "kClose"}
    /\ stream = <<>> /\ ended = FALSE /\ open = TRUE
    /\ writing = <<>> /\ sent = <<>> /\ clean = 0 /\ junk = 0 /\ bad = FALSE
    /\ buf = <<>> /\ pc = "out" /\ len = 0
    /\ received = <<>>
-----------------------------------------------------------------------------
(* std::to_string(msg.size()).                                             *)
Decimal[n \in Nat] ==
    IF n < 10 THEN <<48 + n>> ELSE Append(Decimal[n \div 10], 48 + (n % 10))

Header(m) == Name \o <<32>> \o Decimal[Len(m)] \o Separator

CanWrite == open /\ ~ended /\ writing = <<>> /\ Len(sent) + junk < MaxItems

(* ContentWriter::write, its first write and its second.                   *)
WriteHeader(m) ==
    /\ CanWrite
    /\ stream' = stream \o Header(m)
    /\ writing' = m
    /\ UNCHANGED <<onInvalidData, open, ended, sent, clean, junk, bad, buf, pc, len, received>>

WriteContent ==
    /\ open /\ ~ended /\ writing # <<>>
    /\ stream' = stream \o writing
    /\ sent' = Append(sent, writing)
    /\ clean' = IF bad THEN clean ELSE clean + 1
    /\ writing' = <<>>
    /\ UNCHANGED <<onInvalidData, open, ended, junk, bad, buf, pc, len, received>>

WriteJunk(j) ==
    /\ CanWrite
    /\ stream' = stream \o j
    /\ junk' = junk + 1
    /\ bad' = (bad \/ j # Name)
    /\ UNCHANGED <<onInvalidData, open, ended, writing, sent, clean, buf, pc, len, received>>

(* The sender is gone, maybe with a part of the content written.           *)
End ==
    /\ ~ended
    /\ ended' = TRUE
    /\ \E k \in 0 .. Len(writing) :
          /\ k = 0 \/ k < Len(writing)
          /\ stream' = stream \o SubSeq(writing, 1, k)
    /\ UNCHANGED <<onInvalidData, open, writing, sent, clean, junk, bad>>
    /\ UNCHANGED <<buf, pc, len, received>>

(* ContentReader::close, from another thread.                              *)
Close ==
    /\ open
    /\ open' = FALSE
    /\ UNCHANGED <<onInvalidData, stream, sender, buf, pc, len, received>>
-----------------------------------------------------------------------------
(* Mutant: one byte more than the content is waited for.                   *)
NeedOneMore == CASE pc = "name" -> Len(Name)
                 [] pc \in {"blanks", "digits"} -> 1
                 [] pc = "separator" -> Len(Separator)
                 [] pc = "content" -> len + 1
                 [] OTHER -> 0

(* How many bytes the step read() is at wants in the buffer.               *)
Need == CASE pc = "name" -> Len(Name)
          [] pc \in {"blanks", "digits"} -> 1
          [] pc = "separator" -> Len(Separator)
          [] pc = "content" -> len
          [] OTHER -> 0

(* buffer(): what it reads is never more than is missing, and the stream   *)
(* may return less than it is asked for.                                   *)
Buffer(k) ==
    /\ Len(buf) < Need /\ open
    /\ k <= ChunkSize /\ Len(buf) + k <= Need /\ k <= Len(stream)
    /\ buf' = buf \o SubSeq(stream, 1, k)
    /\ stream' = SubSeq(stream, k + 1, Len(stream))
    /\ UNCHANGED <<onInvalidData, open, sender, pc, len, received>>

(* buffer() returned true, or false because nothing more will come.        *)
Full == Len(buf) >= Need

Starved == ~Full /\ (~open \/ (ended /\ stream = <<>>))

(* match(): the word lies in the bytes, behind the first k of them.        *)
At(word, bytes, k) ==
    /\ k + Len(word) <= Len(bytes)
    /\ \A i \in 1 .. Len(word) : bytes[k + i] = word[i]

Starts(word) == Full /\ At(word, buf, 0)

Drop(n) == buf' = SubSeq(buf, n + 1, Len(buf))

Goto(step) == pc' = step /\ UNCHANGED <<received, open>>

(* read() returns the empty string, and the caller takes no notice.        *)
ReturnNothing == pc' = "out" /\ UNCHANGED <<received, open>>

BadHeader ==
    /\ pc' = "out"
    /\ open' = (open /\ onInvalidData # "kClose")
    /\ UNCHANGED received

Quiet == UNCHANGED <<onInvalidData, stream, sender>>

Read ==
    /\ pc = "out" /\ open
    /\ Goto("name")
    /\ UNCHANGED <<buf, len>> /\ Quiet

MatchName ==
    /\ pc = "name" /\ Starts(Name)
    /\ Drop(Len(Name))
    /\ Goto("blanks")
    /\ len' = 0 /\ Quiet

(* Mutant: scan() drops all the bytes it looked at.                        *)
ScanOnFast ==
    /\ pc = "name" /\ onInvalidData = "kIgnore"
    /\ Full /\ ~Starts(Name)
    /\ Drop(Len(Name))
    /\ Goto("name")
    /\ UNCHANGED len /\ Quiet

(* scan() drops one byte and looks again.                                  *)
ScanOn ==
    /\ pc = "name" /\ onInvalidData = "kIgnore"
    /\ Full /\ ~Starts(Name)
    /\ Drop(1)
    /\ Goto("name")
    /\ UNCHANGED len /\ Quiet

NoName ==
    /\ pc = "name"
    /\ \/ Starved /\ onInvalidData = "kIgnore" /\ ReturnNothing
       \/ ~Starts(Name) /\ (Full \/ Starved) /\ onInvalidData = "kClose" /\ BadHeader
    /\ UNCHANGED <<buf, len>> /\ Quiet

(* matchAny() looks the byte up with strchr, which also finds the zero at  *)
(* the end of the list: a zero byte is dropped and ends the loop.          *)
MatchBlanks ==
    /\ pc = "blanks"
    /\ \/ Full /\ Head(buf) \in {32, 9} /\ Drop(1) /\ Goto("blanks")
       \/ Full /\ Head(buf) = 0 /\ Drop(1) /\ Goto("digits")
       \/ Full /\ Head(buf) \notin {32, 9, 0} /\ UNCHANGED buf /\ Goto("digits")
       \/ Starved /\ UNCHANGED buf /\ Goto("digits")
    /\ UNCHANGED len /\ Quiet

MatchDigit ==
    /\ pc = "digits" /\ Full /\ Head(buf) \in 48 .. 57
    /\ len' = (len * 10 + Head(buf) - 48) % SizeMod
    /\ Drop(1)
    /\ Goto("digits")
    /\ Quiet

EndOfDigits ==
    /\ pc = "digits"
    /\ \/ Full /\ Head(buf) = 0 /\ Drop(1)
       \/ Full /\ Head(buf) \notin (48 .. 57) \cup {0} /\ UNCHANGED buf
       \/ Starved /\ UNCHANGED buf
    /\ IF len = 0 THEN ReturnNothing ELSE Goto("separator")
    /\ UNCHANGED len /\ Quiet

(* Mutant: a header without its end is ignored whatever the mode.          *)
MatchSeparatorLenient ==
    /\ pc = "separator"
    /\ \/ Starts(Separator) /\ Drop(Len(Separator)) /\ Goto("content")
       \/ (Full \/ Starved) /\ ~Starts(Separator) /\ UNCHANGED buf /\ ReturnNothing
    /\ UNCHANGED len /\ Quiet

(* A number must be followed by the separator.                             *)
MatchSeparator ==
    /\ pc = "separator"
    /\ \/ Starts(Separator) /\ Drop(Len(Separator)) /\ Goto("content")
       \/ (Full \/ Starved) /\ ~Starts(Separator) /\ UNCHANGED buf /\ BadHeader
    /\ UNCHANGED len /\ Quiet

ReturnContent ==
    /\ pc = "content" /\ Full
    /\ received' = Append(received, SubSeq(buf, 1, len))
    /\ Drop(len)
    /\ pc' = "out"
    /\ UNCHANGED <<open, len>> /\ Quiet

LoseContent ==
    /\ pc = "content" /\ Starved
    /\ ReturnNothing
    /\ UNCHANGED <<buf, len>> /\ Quiet

ReadStep ==
    \/ \E k \in 1 .. ChunkSize : Buffer(k)
    \/ Read
    \/ MatchName
    \/ ScanOn
    \/ NoName
    \/ MatchBlanks
    \/ MatchDigit
    \/ EndOfDigits
    \/ MatchSeparator
    \/ ReturnContent
    \/ LoseContent

Next ==
    \/ \E m \in Bodies : WriteHeader(m)
    \/ WriteContent
    \/ \E j \in Junks : WriteJunk(j)
    \/ End
    \/ Close
    \/ ReadStep

Spec == Init /\ [][Next]_vars /\ WF_vars(ReadStep)
-----------------------------------------------------------------------------
(***************************************************************************)
(* What the bytes must be like for a frame never to be found where none    *)
(* was written.  The reader knows a frame by the separator behind its      *)
(* header and by nothing else: read() goes on after a message that was cut *)
(* off, and what it scans then is the beginning of that message.           *)
(***************************************************************************)
(* The bytes that matchAny() takes for blanks or for digits.               *)
Skipped == {0, 9, 32} \cup (48 .. 57)

(* The name and the separator can be told apart from what is next to them, *)
(* and no message or junk holds a separator, or the end of one that the    *)
(* piece before it began.                                                  *)
Unmistakable ==
    /\ Name[1] \notin Skipped
    /\ \A i \in 2 .. Len(Name) : Name[i] # Name[1]
    /\ \A i \in 1 .. Len(Separator) : Separator[i] # Name[1]
    /\ Separator[1] \notin (48 .. 57) \cup {0}
    /\ \A m \in Bodies \cup Junks : \A k \in 0 .. Len(m) : ~At(Separator, m, k)
    /\ \A j \in Junks : j # <<>> /\ \A i \in 2 .. Len(Separator) : j[1] # Separator[i]

(* The bytes that a reader with kClose can get past outside of a message,  *)
Passed == Skipped \cup {Name[i] : i \in 1 .. Len(Name)}

(* and junk that has another byte, or is just a header's name.             *)
Foreign == \A j \in Junks : j = Name \/ \E i \in 1 .. Len(j) : j[i] \notin Passed
-----------------------------------------------------------------------------
(* What read() returns is what write() was given, in the same order and    *)
(* with none left out, however the stream cuts the bytes up, whatever      *)
(* incomplete headers lie between two messages and wherever it ends        *)
(* (content_stream.cpp:49-103).                                            *)
ReceivedInOrder == At(received, sent, 0)

(* With kClose nothing is returned that came after invalid data            *)
(* (content_stream.cpp:52-54, 78-80, 163-168).  The exception the code     *)
(* makes is a header's name with no length: it is dropped and read() can   *)
(* go on with the next message (line 73).                                  *)
NothingAfterInvalidData ==
    onInvalidData = "kClose" => Len(received) <= clean

(* A message written in full is returned, without anything having to       *)
(* follow it: buffer() never waits for a byte it does not need             *)
(* (content_stream.cpp:143-161), and scan() finds the next header behind   *)
(* any junk.  The reader may be closed first, and with kClose invalid data *)
(* may come before the message.                                            *)
MessagesArrive ==
    \A n \in 1 .. MaxItems :
        Len(sent) >= n /\ (onInvalidData = "kIgnore" \/ n <= clean)
            ~> Len(received) >= n \/ ~open
=============================================================================
