------------------------ MODULE ContentStreamProofs ------------------------
(***************************************************************************)
(* The reader of ContentStream returns what its writer was given.  The     *)
(* invariant says that the bytes which are not used yet hold the frames of *)
(* the messages that are not returned yet, in order and with no separator  *)
(* between them, and that read() is either outside of these frames or in   *)
(* the first of them, with as much of its length as it has read.           *)
(***************************************************************************)
EXTENDS ContentStreamFrames

(* The time each step may take, and the time of a second attempt.          *)
USE SMTT(30), SMTT(60)

(* The bytes that read() has not used yet.                                 *)
Pending == buf \o stream

(* Invalid data stops this reader, and can be told from valid data.        *)
Closing == onInvalidData = "kClose" /\ Foreign

(* Closed with no message to come: outside of read(), or in a read() that  *)
(* finds the buffer empty where a number or the separator should be.       *)
Dead == ~open /\ (pc = "out" \/ (buf = <<>> /\ pc \in {"digits", "separator"}))

(* Invalid data was written, and it stops the reader.                      *)
Blocking == Closing /\ bad

(* The bytes not used yet fit the messages that are still to be returned,  *)
(* and read() is where it can be in them.                                  *)
Placed == Fitting(Pending, Len(received), sent, writing, ended, pc, len, clean, Blocking)

(* The positions in read().                                                *)
Steps == {"out", "name", "blanks", "digits", "separator", "content"}

(* The types of the variables.                                             *)
Types ==
    /\ onInvalidData \in {"kIgnore", "kClose"}
    /\ buf \in Seq(Nat) /\ stream \in Seq(Nat)
    /\ ended \in BOOLEAN /\ open \in BOOLEAN /\ bad \in BOOLEAN
    /\ writing \in Bodies \cup {<<>>} /\ sent \in Seq(Bodies)
    /\ received \in Seq(Seq(Nat))
    /\ clean \in Nat /\ len \in Nat
    /\ pc \in Steps

(* What was returned is what was sent, as far as it goes, and what counts  *)
(* as sent before invalid data.                                            *)
Counts ==
    /\ Len(received) <= Len(sent)
    /\ \A i \in 1 .. Len(received) : received[i] = sent[i]
    /\ clean <= Len(sent)
    /\ ~bad => clean = Len(sent)
    /\ Closing => Len(received) <= clean

(* The inductive invariant. ReceivedInOrder alone is not inductive: that   *)
(* the next message returned is the next one sent depends on where its     *)
(* frame lies in the bytes, and on how much of its header was read.        *)
Inv == Types /\ Counts /\ (Dead \/ Placed)

(* What the types say of the arguments of Fitting.                         *)
LEMMA InvTypes ==
    ASSUME Types, Counts
    PROVE  /\ Pending \in Seq(Nat) /\ sent \in Seq(Bodies)
           /\ Len(received) \in 0 .. Len(sent) /\ writing \in Bodies \cup {<<>>}
           /\ clean \in 0 .. Len(sent)
           /\ Len(received) \in Nat /\ Len(sent) \in Nat /\ clean \in Nat
<1>1. buf \in Seq(Nat) /\ stream \in Seq(Nat) /\ sent \in Seq(Bodies) /\ received \in Seq(Seq(Nat))
  BY ZenonT(40) DEF Types
<1>2. Len(received) \in Nat /\ Len(sent) \in Nat
  BY <1>1, Length, ZenonT(40)
<1>3. clean \in Nat /\ Len(received) <= Len(sent) /\ clean <= Len(sent)
  BY ZenonT(40) DEF Types, Counts
<1>4. Len(received) \in 0 .. Len(sent) /\ clean \in 0 .. Len(sent)
  BY <1>2, <1>3
<1>5. Pending \in Seq(Nat)
  BY <1>1, Concat, ZenonT(40) DEF Pending
<1> QED
  BY <1>1, <1>2, <1>3, <1>4, <1>5, ZenonT(40) DEF Types

(* The buffer is the beginning of the bytes not used yet.                  *)
LEMMA BufferedBytes ==
    ASSUME Types
    PROVE  /\ Len(buf) \in Nat /\ Len(stream) \in Nat /\ Len(Pending) = Len(buf) + Len(stream)
           /\ \A i \in 1 .. Len(buf) : Pending[i] = buf[i]
<1>1. buf \in Seq(Nat) /\ stream \in Seq(Nat)
  BY ZenonT(40) DEF Types
<1> QED
  BY <1>1, Concat, ZenonT(40) DEF Pending

(* Its first byte is the first of them.                                    *)
LEMMA HeadOfBuffer ==
    ASSUME Types, Len(buf) >= 1
    PROVE  Head(buf) = Pending[1] /\ 1 <= Len(Pending) /\ 1 \in 0 .. Len(buf)
<1>1. Len(buf) \in Nat /\ Len(stream) \in Nat /\ Len(Pending) = Len(buf) + Len(stream)
  BY BufferedBytes, ZenonT(40)
<1>2. \A i \in 1 .. Len(buf) : Pending[i] = buf[i]
  BY BufferedBytes, ZenonT(40)
<1>3. 1 \in 1 .. Len(buf) /\ 1 \in 0 .. Len(buf) /\ 1 <= Len(Pending)
  BY <1>1
<1>4. buf \in Seq(Nat) /\ buf # <<>>
  <2>1. buf \in Seq(Nat)
    BY ZenonT(40) DEF Types
  <2> QED
    BY <2>1
<1>5. Head(buf) = buf[1]
  BY <1>4
<1> QED
  BY <1>2, <1>3, <1>5, ZenonT(40)

(* Dropping bytes off the buffer takes them from the bytes not used yet.   *)
LEMMA Dropped ==
    ASSUME Types, NEW n \in 0 .. Len(buf), Drop(n), stream' = stream
    PROVE  buf' \in Seq(Nat) /\ Pending' \in Seq(Nat) /\ Suffix(Pending', Pending, n)
<1>1. buf \in Seq(Nat) /\ stream \in Seq(Nat)
  BY ZenonT(40) DEF Types
<1>2. buf' = SubSeq(buf, n + 1, Len(buf))
  BY ZenonT(40) DEF Drop
<1>3. Pending' = SubSeq(buf, n + 1, Len(buf)) \o stream
  BY <1>2, ZenonT(40) DEF Pending
<1> QED
  BY <1>1, <1>2, <1>3, Dropping, ZenonT(40) DEF Pending

(* match looks at the bytes not used yet.                                  *)
LEMMA PrefixAt ==
    ASSUME Types, NEW word \in Seq(Nat), Len(word) <= Len(buf)
    PROVE  At(word, buf, 0) <=> At(word, Pending, 0)
<1>1. buf \in Seq(Nat)
  BY ZenonT(40) DEF Types
<1>2. At(word, buf, 0) <=> Len(word) <= Len(buf) /\ \A i \in 1 .. Len(word) : buf[i] = word[i]
  BY <1>1, Prefix, ZenonT(40)
<1>3. Len(word) \in Nat
  BY Length, ZenonT(40)
<1>4. Len(buf) \in Nat /\ Len(stream) \in Nat /\ Len(Pending) = Len(buf) + Len(stream)
  BY BufferedBytes, ZenonT(40)
<1>5. 0 + Len(word) <= Len(Pending)
  BY <1>3, <1>4
<1>6. ASSUME NEW i \in 1 .. Len(word) PROVE Pending[0 + i] = buf[i]
  <2>1. i \in 1 .. Len(buf) /\ 0 + i = i
    BY <1>3, <1>4
  <2> QED
    BY <2>1, BufferedBytes, ZenonT(40)
<1> QED
  BY <1>2, <1>5, <1>6, ZenonT(40) DEF At

(* How many bytes each step waits for.                                     *)
LEMMA NeedName ==
    ASSUME pc = "name" PROVE Need = Len(Name)
BY DEF Need

LEMMA NeedByte ==
    ASSUME pc \in {"blanks", "digits"} PROVE Need = 1
BY DEF Need

LEMMA NeedSeparator ==
    ASSUME pc = "separator" PROVE Need = Len(Separator)
BY DEF Need

LEMMA NeedContent ==
    ASSUME pc = "content" PROVE Need = len
BY DEF Need

(* The general step of read(): it returns no message, and what it leads to *)
(* fits the bytes left, or the reader is dead.                             *)
LEMMA Moves ==
    ASSUME Types, Counts, Quiet, UNCHANGED received,
           buf' \in Seq(Nat), open' \in BOOLEAN, len' \in Nat, pc' \in Steps,
           \/ Dead'
           \/ Fitting(Pending', Len(received), sent, writing, ended, pc', len', clean, Blocking)
    PROVE  Inv'
<1>1. /\ onInvalidData' = onInvalidData /\ stream' = stream /\ ended' = ended /\ writing' = writing
      /\ sent' = sent /\ clean' = clean /\ bad' = bad /\ received' = received
  BY DEF Quiet, sender
<1>2. Blocking' = Blocking /\ Closing' = Closing
  BY <1>1, ZenonT(40) DEF Blocking, Closing
<1>3. Types'
  BY <1>1, ZenonT(40) DEF Types, Steps
<1>4. Counts'
  BY <1>1, <1>2, ZenonT(40) DEF Counts
<1>5. ASSUME Fitting(Pending', Len(received), sent, writing, ended, pc', len', clean, Blocking)
      PROVE  Placed'
  BY <1>1, <1>2, <1>5, ZenonT(40) DEF Placed
<1> QED
  BY <1>3, <1>4, <1>5, ZenonT(40) DEF Inv

(* read() begins.                                                          *)
LEMMA ReadInv ==
    ASSUME Inv, Read PROVE Inv'
<1>1. /\ Types /\ Counts /\ Quiet /\ UNCHANGED <<received, open, buf, len>>
      /\ pc' = "name" /\ pc = "out" /\ open
  BY DEF Inv, Read, Goto
<1>2. Placed
  BY <1>1, ZenonT(40) DEF Inv, Dead
<1>3. /\ Pending \in Seq(Nat) /\ sent \in Seq(Bodies)
      /\ Len(received) \in 0 .. Len(sent) /\ writing \in Bodies \cup {<<>>}
      /\ clean \in 0 .. Len(sent)
  BY <1>1, InvTypes, ZenonT(40)
<1>4. PICK s \in [Nat -> Int] :
        Fits(Pending, s, Len(received), sent, writing, ended, pc, len, clean, Blocking)
  BY <1>2, ZenonT(40) DEF Placed, Fitting
<1>5. 0 <= s[Len(received) + 1]
  BY <1>1, <1>4 DEF Fits, Place
<1>6. "name" # "content"
  OBVIOUS
<1>7. Fitting(Pending, Len(received), sent, writing, ended, "name", len, clean, Blocking)
  BY <1>4, <1>5, <1>6, Resting, ZenonT(40)
<1>8. Pending' = Pending
  BY <1>1 DEF Pending, Quiet
<1>9. Fitting(Pending', Len(received), sent, writing, ended, pc', len', clean, Blocking)
  BY <1>1, <1>7, <1>8, ZenonT(40)
<1>10. buf' \in Seq(Nat) /\ open' \in BOOLEAN /\ len' \in Nat /\ pc' \in Steps
  BY <1>1 DEF Types, Steps
<1> QED
  BY <1>1, <1>9, <1>10, Moves, ZenonT(40)

(* It finds the name,                                                      *)
LEMMA MatchNameInv ==
    ASSUME Unmistakable, Inv, MatchName PROVE Inv'
<1>1. /\ Types /\ Counts /\ Quiet /\ received' = received /\ open' = open /\ pc = "name"
      /\ pc' = "blanks" /\ len' = 0 /\ stream' = stream /\ Drop(Len(Name))
      /\ Full /\ At(Name, buf, 0)
  BY DEF Inv, MatchName, Goto, Starts, Quiet
<1>2. Placed
  BY <1>1 DEF Inv, Dead
<1>3. /\ Pending \in Seq(Nat) /\ sent \in Seq(Bodies)
      /\ Len(received) \in 0 .. Len(sent) /\ writing \in Bodies \cup {<<>>}
      /\ clean \in 0 .. Len(sent)
  BY <1>1, InvTypes, ZenonT(40)
<1>4. Name \in Seq(Nat) /\ Len(Name) \in Nat /\ Len(buf) \in Nat
  BY <1>1, Constants, BufferedBytes, ZenonT(40)
<1>5. Len(Name) <= Len(buf) /\ Len(Name) \in 0 .. Len(buf)
  BY <1>1, <1>4, NeedName DEF Full
<1>6. At(Name, Pending, 0)
  BY <1>1, <1>4, <1>5, PrefixAt, ZenonT(40)
<1>7. buf' \in Seq(Nat) /\ Pending' \in Seq(Nat) /\ Suffix(Pending', Pending, Len(Name))
  BY <1>1, <1>5, Dropped, ZenonT(40)
<1>8. Fitting(Pending, Len(received), sent, writing, ended, "name", len, clean, Blocking)
  BY <1>1, <1>2, ZenonT(40) DEF Placed
<1>9. Fitting(Pending', Len(received), sent, writing, ended, "blanks", 0, clean, Blocking)
  BY <1>3, <1>6, <1>7, <1>8, FoundName, ZenonT(40)
<1>10. Fitting(Pending', Len(received), sent, writing, ended, pc', len', clean, Blocking)
  BY <1>1, <1>9, ZenonT(40)
<1>11. open' \in BOOLEAN /\ len' \in Nat /\ pc' \in Steps
  BY <1>1 DEF Types, Steps
<1> QED
  BY <1>1, <1>7, <1>10, <1>11, Moves, ZenonT(40)

(* or drops a byte and looks again,                                        *)
LEMMA ScanOnInv ==
    ASSUME Inv, ScanOn PROVE Inv'
<1>1. /\ Types /\ Counts /\ Quiet /\ received' = received /\ open' = open /\ pc = "name"
      /\ pc' = "name" /\ len' = len /\ stream' = stream /\ Drop(1)
      /\ Full /\ ~At(Name, buf, 0) /\ onInvalidData = "kIgnore"
  BY DEF Inv, ScanOn, Goto, Starts, Quiet
<1>2. Placed
  BY <1>1 DEF Inv, Dead
<1>3. /\ Pending \in Seq(Nat) /\ sent \in Seq(Bodies)
      /\ Len(received) \in 0 .. Len(sent) /\ writing \in Bodies \cup {<<>>}
      /\ clean \in 0 .. Len(sent)
  BY <1>1, InvTypes, ZenonT(40)
<1>4. Name \in Seq(Nat) /\ Len(Name) \in Nat \ {0}
  BY Constants, ZenonT(40)
<1>12. Len(buf) \in Nat /\ Len(stream) \in Nat /\ Len(Pending) = Len(buf) + Len(stream)
  BY <1>1, BufferedBytes, ZenonT(40)
<1>5. Len(Name) <= Len(buf) /\ 1 \in 0 .. Len(buf) /\ Len(Name) <= Len(Pending)
  BY <1>1, <1>4, <1>12, NeedName DEF Full
<1>6. ~At(Name, Pending, 0)
  BY <1>1, <1>4, <1>5, PrefixAt, ZenonT(40)
<1>7. buf' \in Seq(Nat) /\ Pending' \in Seq(Nat) /\ Suffix(Pending', Pending, 1)
  BY <1>1, <1>5, Dropped, ZenonT(40)
<1>8. Fitting(Pending, Len(received), sent, writing, ended, "name", len, clean, Blocking)
  BY <1>1, <1>2, ZenonT(40) DEF Placed
<1>13. ~Over(Blocking)
  BY <1>1 DEF Over, Blocking, Closing
<1>9. Fitting(Pending', Len(received), sent, writing, ended, "name", len, clean, Blocking)
  BY <1>3, <1>5, <1>6, <1>7, <1>8, <1>13, Scanned, ZenonT(40)
<1>10. Fitting(Pending', Len(received), sent, writing, ended, pc', len', clean, Blocking)
  BY <1>1, <1>9, ZenonT(40)
<1>11. open' \in BOOLEAN /\ len' \in Nat /\ pc' \in Steps
  BY <1>1 DEF Types, Steps
<1> QED
  BY <1>1, <1>7, <1>10, <1>11, Moves, ZenonT(40)

(* or finds none.                                                          *)
LEMMA NoNameInv ==
    ASSUME Inv, NoName PROVE Inv'
<1>1. /\ Types /\ Counts /\ Quiet /\ received' = received
      /\ buf' = buf /\ stream' = stream /\ pc = "name"
      /\ pc' = "out" /\ len' = len
  BY DEF Inv, NoName, ReturnNothing, BadHeader, Quiet
<1>2. Placed
  BY <1>1 DEF Inv, Dead
<1>3. PICK s \in [Nat -> Int] :
        Fits(Pending, s, Len(received), sent, writing, ended, pc, len, clean, Blocking)
  BY <1>2, ZenonT(40) DEF Placed, Fitting
<1>4. 0 <= s[Len(received) + 1]
  BY <1>1, <1>3 DEF Fits, Place
<1>5. "out" # "content"
  OBVIOUS
<1>6. Fitting(Pending, Len(received), sent, writing, ended, "out", len, clean, Blocking)
  BY <1>3, <1>4, <1>5, Resting, ZenonT(40)
<1>7. Pending' = Pending
  BY <1>1 DEF Pending
<1>8. Fitting(Pending', Len(received), sent, writing, ended, pc', len', clean, Blocking)
  BY <1>1, <1>6, <1>7, ZenonT(40)
<1>9. buf' \in Seq(Nat) /\ len' \in Nat /\ pc' \in Steps
  BY <1>1 DEF Types, Steps
<1>10. open' \in BOOLEAN
  BY <1>1, ZenonT(40) DEF Types, NoName, ReturnNothing, BadHeader
<1> QED
  BY <1>1, <1>8, <1>9, <1>10, Moves, ZenonT(40)

(* A step that waits for one byte has none while it waits.                 *)
LEMMA EmptyBuffer ==
    ASSUME Types, pc \in {"blanks", "digits"}, ~Full
    PROVE  buf = <<>> /\ (stream = <<>> => Len(Pending) = 0)
<1>1. Len(buf) \in Nat /\ buf \in Seq(Nat)
  BY BufferedBytes, ZenonT(40) DEF Types
<1>2. ~(Len(buf) >= 1)
  BY NeedByte DEF Full
<1>3. Len(buf) = 0
  BY <1>1, <1>2
<1>4. buf = <<>>
  BY <1>1, <1>3
<1>5. ASSUME stream = <<>> PROVE Len(Pending) = 0
  <2>1. Len(stream) = 0
    BY <1>5
  <2>2. Len(Pending) = Len(buf) + Len(stream)
    BY BufferedBytes, ZenonT(40)
  <2> QED
    BY <1>3, <2>1, <2>2
<1> QED
  BY <1>4, <1>5

(* Where such a step goes when nothing comes.                              *)
LEMMA StarvedByte ==
    ASSUME Types, Counts, Placed, pc \in {"blanks", "digits"}, Starved,
           buf' = buf, stream' = stream,
           open' = open, pc' \in {"out", "digits", "separator"}
    PROVE  \/ Dead'
           \/ Fitting(Pending', Len(received), sent, writing, ended, pc', len, clean, Blocking)
<1>1. ~Full /\ (~open \/ stream = <<>>)
  BY ZenonT(40) DEF Starved
<1>2. buf = <<>> /\ (stream = <<>> => Len(Pending) = 0)
  BY <1>1, EmptyBuffer, ZenonT(40)
<1>3. CASE ~open
  BY <1>2, <1>3 DEF Dead
<1>4. CASE stream = <<>>
  <2>1. /\ Pending \in Seq(Nat) /\ sent \in Seq(Bodies)
        /\ Len(received) \in 0 .. Len(sent) /\ writing \in Bodies \cup {<<>>}
        /\ clean \in 0 .. Len(sent)
    BY InvTypes, ZenonT(40)
  <2>2. Len(Pending) = 0
    BY <1>2, <1>4, ZenonT(40)
  <2>3. pc' # "content"
    OBVIOUS
  <2>4. Fitting(Pending, Len(received), sent, writing, ended, pc, len, clean, Blocking)
    BY ZenonT(40) DEF Placed
  <2>5. Fitting(Pending, Len(received), sent, writing, ended, pc', len, clean, Blocking)
    BY <2>1, <2>2, <2>3, <2>4, Hungry, ZenonT(40)
  <2>6. Pending' = Pending
    BY DEF Pending
  <2> QED
    BY <2>5, <2>6, ZenonT(40)
<1> QED
  BY <1>1, <1>3, <1>4, ZenonT(40)

(* A step that waits for one byte and has it looks at the first of the     *)
(* bytes not used yet.                                                     *)
LEMMA FirstByte ==
    ASSUME Types, pc \in {"blanks", "digits"}, Full
    PROVE  Head(buf) = Pending[1] /\ 1 <= Len(Pending) /\ 1 \in 0 .. Len(buf)
<1>1. Len(buf) >= 1
  BY NeedByte DEF Full
<1> QED
  BY <1>1, HeadOfBuffer, ZenonT(40)

(* The loop over blanks.                                                   *)
LEMMA MatchBlanksInv ==
    ASSUME Unmistakable, Inv, MatchBlanks PROVE Inv'
<1> DEFINE Fit(q, step) ==
             Fitting(q, Len(received), sent, writing, ended, step, len, clean, Blocking)
<1>1. /\ Types /\ Counts /\ Quiet /\ received' = received /\ open' = open /\ pc = "blanks"
      /\ len' = len /\ stream' = stream
      /\ pc' = "blanks" \/ pc' = "digits"
  BY DEF Inv, MatchBlanks, Goto, Quiet
<1>2. Placed /\ pc \in {"blanks", "digits"}
  BY <1>1 DEF Inv, Dead
<1>3. /\ Pending \in Seq(Nat) /\ sent \in Seq(Bodies)
      /\ Len(received) \in 0 .. Len(sent) /\ writing \in Bodies \cup {<<>>}
      /\ clean \in 0 .. Len(sent)
  BY <1>1, InvTypes, ZenonT(40)
<1>4. Fit(Pending, "blanks")
  BY <1>1, <1>2, ZenonT(40) DEF Placed
<1>5. open' \in BOOLEAN /\ len' \in Nat /\ pc' \in Steps
  BY <1>1 DEF Types, Steps
<1>6. "blanks" \in {"blanks", "digits"} /\ "digits" # "content"
  OBVIOUS
<1>7. ASSUME Full, Head(buf) \in {32, 9}, Drop(1), pc' = "blanks" PROVE Inv'
  <2>1. Head(buf) = Pending[1] /\ 1 <= Len(Pending) /\ 1 \in 0 .. Len(buf)
    BY <1>1, <1>2, <1>7, FirstByte, ZenonT(40)
  <2>2. buf' \in Seq(Nat) /\ Pending' \in Seq(Nat) /\ Suffix(Pending', Pending, 1)
    BY <1>1, <1>7, <2>1, Dropped, ZenonT(40)
  <2>3. Pending[1] \in {32, 9}
    BY <1>7, <2>1, ZenonT(40)
  <2>4. Fit(Pending', "blanks")
    BY <1>3, <1>4, <2>1, <2>2, <2>3, BlankTaken, ZenonT(40)
  <2> QED
    BY <1>1, <1>5, <1>7, <2>2, <2>4, Moves, ZenonT(40)
<1>8. ASSUME Full, Head(buf) = 0, Drop(1), pc' = "digits" PROVE Inv'
  <2>1. Head(buf) = Pending[1] /\ 1 <= Len(Pending) /\ 1 \in 0 .. Len(buf)
    BY <1>1, <1>2, <1>8, FirstByte, ZenonT(40)
  <2>2. buf' \in Seq(Nat) /\ Pending' \in Seq(Nat) /\ Suffix(Pending', Pending, 1)
    BY <1>1, <1>8, <2>1, Dropped, ZenonT(40)
  <2>3. Pending[1] = 0
    BY <1>8, <2>1, ZenonT(40)
  <2>4. Fit(Pending', "digits")
    BY <1>3, <1>4, <1>6, <2>1, <2>2, <2>3, ZeroTaken, ZenonT(40)
  <2> QED
    BY <1>1, <1>5, <1>8, <2>2, <2>4, Moves, ZenonT(40)
<1>9. ASSUME Full, Head(buf) \notin {32, 9, 0}, buf' = buf, pc' = "digits" PROVE Inv'
  <2>1. Head(buf) = Pending[1]
    BY <1>1, <1>2, <1>9, FirstByte, ZenonT(40)
  <2>2. Pending[1] \notin {32, 9}
    BY <1>9, <2>1, ZenonT(40)
  <2>3. Fit(Pending, "digits")
    BY <1>3, <1>4, <2>2, BlanksEnd, ZenonT(40)
  <2>4. Pending' = Pending /\ buf' \in Seq(Nat)
    BY <1>1, <1>9 DEF Pending, Types
  <2>5. Fit(Pending', pc')
    BY <1>9, <2>3, <2>4, ZenonT(40)
  <2> QED
    BY <1>1, <1>5, <2>4, <2>5, Moves, ZenonT(40)
<1>10. ASSUME Starved, buf' = buf, pc' = "digits" PROVE Inv'
  <2>1. pc' \in {"out", "digits", "separator"}
    BY <1>10
  <2>2. Dead' \/ Fit(Pending', pc')
    BY <1>1, <1>2, <1>10, <2>1, StarvedByte, ZenonT(40)
  <2>3. buf' \in Seq(Nat)
    BY <1>1, <1>10 DEF Types
  <2> QED
    BY <1>1, <1>5, <2>2, <2>3, Moves, ZenonT(40)
<1> QED
  BY <1>7, <1>8, <1>9, <1>10, ZenonT(40) DEF MatchBlanks, Goto

(* The loop over digits,                                                   *)
LEMMA MatchDigitInv ==
    ASSUME Unmistakable, Inv, MatchDigit PROVE Inv'
<1>1. /\ Types /\ Counts /\ Quiet /\ received' = received /\ open' = open /\ pc = "digits"
      /\ pc' = "digits" /\ stream' = stream /\ Drop(1) /\ Full /\ Head(buf) \in 48 .. 57
      /\ len' = (len * 10 + Head(buf) - 48) % SizeMod
  BY DEF Inv, MatchDigit, Goto, Quiet
<1>2. pc \in {"blanks", "digits"}
  BY <1>1
<1>3. Head(buf) = Pending[1] /\ 1 <= Len(Pending) /\ 1 \in 0 .. Len(buf)
  BY <1>1, <1>2, FirstByte, ZenonT(40)
<1>4. Placed
  <2>1. Len(buf) \in Nat
    BY <1>1, BufferedBytes, ZenonT(40)
  <2>2. buf # <<>>
    BY <1>3, <2>1
  <2> QED
    BY <1>1, <2>2 DEF Inv, Dead
<1>5. /\ Pending \in Seq(Nat) /\ sent \in Seq(Bodies)
      /\ Len(received) \in 0 .. Len(sent) /\ writing \in Bodies \cup {<<>>}
      /\ clean \in 0 .. Len(sent)
  BY <1>1, InvTypes, ZenonT(40)
<1>6. buf' \in Seq(Nat) /\ Pending' \in Seq(Nat) /\ Suffix(Pending', Pending, 1)
  BY <1>1, <1>3, Dropped, ZenonT(40)
<1>7. Fitting(Pending, Len(received), sent, writing, ended, "digits", len, clean, Blocking)
  BY <1>1, <1>4, ZenonT(40) DEF Placed
<1>8. Pending[1] \in 48 .. 57
  BY <1>1, <1>3, ZenonT(40)
<1>9. Fitting(Pending', Len(received), sent, writing, ended, "digits",
              (len * 10 + Pending[1] - 48) % SizeMod, clean, Blocking)
  BY <1>3, <1>5, <1>6, <1>7, <1>8, DigitTaken, ZenonT(40)
<1>10. len' = (len * 10 + Pending[1] - 48) % SizeMod
  BY <1>1, <1>3, ZenonT(40)
<1>11. Fitting(Pending', Len(received), sent, writing, ended, pc', len', clean, Blocking)
  BY <1>1, <1>9, <1>10, ZenonT(40)
<1>12. len' \in Nat
  <2>1. len \in Nat /\ SizeMod \in Nat \ {0}
    BY <1>1, Constants, ZenonT(40) DEF Types
  <2> QED
    BY <2>1, <1>8, <1>10
<1>13. open' \in BOOLEAN /\ pc' \in Steps
  BY <1>1 DEF Types, Steps
<1> QED
  BY <1>1, <1>6, <1>11, <1>12, <1>13, Moves, ZenonT(40)

(* and its end.                                                            *)
LEMMA EndOfDigitsInv ==
    ASSUME Unmistakable, Inv, EndOfDigits PROVE Inv'
<1> DEFINE Fit(q, step) ==
             Fitting(q, Len(received), sent, writing, ended, step, len, clean, Blocking)
           next == IF len = 0 THEN "out" ELSE "separator"
<1>1. /\ Types /\ Counts /\ Quiet /\ received' = received /\ open' = open /\ pc = "digits"
      /\ len' = len /\ stream' = stream /\ pc' = next
  BY DEF Inv, EndOfDigits, Goto, ReturnNothing, Quiet
<1>2. pc \in {"blanks", "digits"} /\ next # "content" /\ pc' \in {"out", "digits", "separator"}
  BY <1>1
<1>3. /\ Pending \in Seq(Nat) /\ sent \in Seq(Bodies)
      /\ Len(received) \in 0 .. Len(sent) /\ writing \in Bodies \cup {<<>>}
      /\ clean \in 0 .. Len(sent)
  BY <1>1, InvTypes, ZenonT(40)
<1>4. open' \in BOOLEAN /\ len' \in Nat /\ pc' \in Steps
  BY <1>1 DEF Types, Steps
<1>5. ASSUME Placed PROVE Fit(Pending, "digits") /\ "digits" \in {"blanks", "digits"}
  BY <1>1, <1>5, ZenonT(40) DEF Placed
<1>6. ASSUME Full PROVE Placed
  <2>1. Head(buf) = Pending[1] /\ 1 <= Len(Pending) /\ 1 \in 0 .. Len(buf)
    BY <1>1, <1>2, <1>6, FirstByte, ZenonT(40)
  <2>2. Len(buf) \in Nat
    BY <1>1, BufferedBytes, ZenonT(40)
  <2>3. buf # <<>>
    BY <2>1, <2>2
  <2> QED
    BY <1>1, <2>3 DEF Inv, Dead
<1> HIDE DEF next
<1>7. ASSUME Full, Head(buf) = 0, Drop(1) PROVE Inv'
  <2>1. Head(buf) = Pending[1] /\ 1 <= Len(Pending) /\ 1 \in 0 .. Len(buf)
    BY <1>1, <1>2, <1>7, FirstByte, ZenonT(40)
  <2>2. buf' \in Seq(Nat) /\ Pending' \in Seq(Nat) /\ Suffix(Pending', Pending, 1)
    BY <1>1, <1>7, <2>1, Dropped, ZenonT(40)
  <2>3. Pending[1] = 0
    BY <1>7, <2>1, ZenonT(40)
  <2>4. Fit(Pending', next)
    BY <1>2, <1>3, <1>5, <1>6, <1>7, <2>1, <2>2, <2>3, ZeroTaken, ZenonT(40)
  <2>5. Fit(Pending', pc')
    BY <1>1, <2>4, ZenonT(40)
  <2> QED
    BY <1>1, <1>4, <2>2, <2>5, Moves, ZenonT(40)
<1>8. ASSUME Full, Head(buf) \notin (48 .. 57) \cup {0}, buf' = buf PROVE Inv'
  <2>1. Head(buf) = Pending[1]
    BY <1>1, <1>2, <1>8, FirstByte, ZenonT(40)
  <2>2. Pending[1] \notin 48 .. 57
    BY <1>8, <2>1, ZenonT(40)
  <2>3. Fit(Pending, next)
    BY <1>3, <1>5, <1>6, <1>8, <2>2, DigitsEnd, ZenonT(40) DEF next
  <2>4. Pending' = Pending /\ buf' \in Seq(Nat)
    BY <1>1, <1>8 DEF Pending, Types
  <2>5. Fit(Pending', pc')
    BY <1>1, <2>3, <2>4, ZenonT(40)
  <2> QED
    BY <1>1, <1>4, <2>4, <2>5, Moves, ZenonT(40)
<1>9. ASSUME Starved, buf' = buf PROVE Inv'
  <2>1. buf' \in Seq(Nat)
    BY <1>1, <1>9 DEF Types
  <2>2. ASSUME Placed PROVE Dead' \/ Fit(Pending', pc')
    BY <1>1, <1>2, <1>9, <2>2, StarvedByte, ZenonT(40)
  <2>3. ASSUME Dead PROVE Dead'
    BY <1>1, <1>2, <1>9, <2>3 DEF Dead, next
  <2>4. Dead' \/ Fit(Pending', pc')
    BY <2>2, <2>3, ZenonT(40) DEF Inv
  <2>5. Fit(Pending', pc')
           => Fitting(Pending', Len(received), sent, writing, ended, pc', len', clean, Blocking)
    BY <1>1, ZenonT(40)
  <2> QED
    BY <1>1, <1>4, <2>1, <2>4, <2>5, Moves, ZenonT(40)
<1> QED
  BY <1>7, <1>8, <1>9, ZenonT(40) DEF EndOfDigits

(* The separator, or a header without it.                                  *)
LEMMA MatchSeparatorInv ==
    ASSUME Unmistakable, Inv, MatchSeparator PROVE Inv'
<1> DEFINE Fit(q, step) ==
             Fitting(q, Len(received), sent, writing, ended, step, len, clean, Blocking)
<1>1. /\ Types /\ Counts /\ Quiet /\ received' = received /\ pc = "separator"
      /\ len' = len /\ stream' = stream
  BY DEF Inv, MatchSeparator, Goto, BadHeader, Quiet
<1>2. /\ Pending \in Seq(Nat) /\ sent \in Seq(Bodies)
      /\ Len(received) \in 0 .. Len(sent) /\ writing \in Bodies \cup {<<>>}
      /\ clean \in 0 .. Len(sent)
  BY <1>1, InvTypes, ZenonT(40)
<1>3. len' \in Nat
  BY <1>1 DEF Types
<1>4. Separator \in Seq(Nat) /\ Len(Separator) \in Nat \ {0}
  BY Constants, ZenonT(40)
<1>5. Len(buf) \in Nat /\ Len(stream) \in Nat /\ Len(Pending) = Len(buf) + Len(stream)
  BY <1>1, BufferedBytes, ZenonT(40)
<1>6. ASSUME Full PROVE Len(Separator) <= Len(buf) /\ Len(Separator) \in 0 .. Len(buf) /\ Placed
  <2>1. Len(Separator) <= Len(buf) /\ Len(Separator) \in 0 .. Len(buf) /\ Len(buf) # 0
    BY <1>1, <1>4, <1>5, <1>6, NeedSeparator DEF Full
  <2>2. buf # <<>>
    BY <2>1
  <2> QED
    BY <1>1, <2>1, <2>2 DEF Inv, Dead
<1>7. ASSUME Placed PROVE Fit(Pending, "separator")
  BY <1>1, <1>7, ZenonT(40) DEF Placed
<1>8. ASSUME Full, At(Separator, buf, 0), Drop(Len(Separator)), pc' = "content", open' = open
      PROVE  Inv'
  <2>1. At(Separator, Pending, 0)
    BY <1>1, <1>4, <1>6, <1>8, PrefixAt, ZenonT(40)
  <2>2. buf' \in Seq(Nat) /\ Pending' \in Seq(Nat) /\ Suffix(Pending', Pending, Len(Separator))
    BY <1>1, <1>6, <1>8, Dropped, ZenonT(40)
  <2>3. Fit(Pending', "content")
    BY <1>2, <1>6, <1>7, <1>8, <2>1, <2>2, SeparatorTaken, ZenonT(40)
  <2>4. Fitting(Pending', Len(received), sent, writing, ended, pc', len', clean, Blocking)
    BY <1>1, <1>8, <2>3, ZenonT(40)
  <2>5. open' \in BOOLEAN /\ pc' \in Steps
    BY <1>1, <1>8 DEF Types, Steps
  <2> QED
    BY <1>1, <1>3, <2>2, <2>4, <2>5, Moves, ZenonT(40)
<1>9. ASSUME Full \/ Starved, ~(Full /\ At(Separator, buf, 0)), buf' = buf, BadHeader
      PROVE  Inv'
  <2>1. buf' \in Seq(Nat) /\ pc' \in Steps /\ pc' = "out"
    BY <1>1, <1>9 DEF Types, Steps, BadHeader
  <2>2. open' \in BOOLEAN
    BY <1>1, <1>9, ZenonT(40) DEF Types, BadHeader
  <2>3. CASE ~open'
    BY <1>1, <1>3, <2>1, <2>2, <2>3, Moves, ZenonT(40) DEF Dead
  <2>4. CASE open'
    <3>1. open
      BY <1>9, <2>4, ZenonT(40) DEF BadHeader
    <3>2. Placed
      BY <3>1, ZenonT(40) DEF Inv, Dead
    <3>3. ~At(Separator, Pending, 0)
      <4>1. CASE Full
        BY <1>1, <1>4, <1>6, <1>9, <4>1, PrefixAt, ZenonT(40)
      <4>2. CASE ~Full
        <5>1. stream = <<>>
          BY <1>9, <3>1, <4>2, ZenonT(40) DEF Starved
        <5>2. Len(stream) = 0
          BY <5>1
        <5>3. ~(Len(buf) >= Len(Separator))
          BY <1>1, <4>2, NeedSeparator DEF Full
        <5>4. ~(0 + Len(Separator) <= Len(Pending))
          BY <1>4, <1>5, <5>2, <5>3
        <5> QED
          BY <5>4, ZenonT(40) DEF At
      <4> QED
        BY <4>1, <4>2
    <3>4. Fit(Pending, "out")
      BY <1>2, <1>7, <3>2, <3>3, SeparatorMissing, ZenonT(40)
    <3>5. Pending' = Pending
      BY <1>1, <1>9 DEF Pending
    <3>6. Fitting(Pending', Len(received), sent, writing, ended, pc', len', clean, Blocking)
      BY <1>1, <2>1, <3>4, <3>5, ZenonT(40)
    <3> QED
      BY <1>1, <1>3, <2>1, <2>2, <3>6, Moves, ZenonT(40)
  <2> QED
    BY <2>3, <2>4
<1> QED
  BY <1>8, <1>9, ZenonT(40) DEF MatchSeparator, Goto, Starts

(* The content that never comes,                                           *)
LEMMA LoseContentInv ==
    ASSUME Unmistakable, Inv, LoseContent PROVE Inv'
<1>1. /\ Types /\ Counts /\ Quiet /\ received' = received /\ open' = open /\ pc = "content"
      /\ pc' = "out" /\ len' = len /\ buf' = buf /\ stream' = stream /\ Starved
  BY DEF Inv, LoseContent, ReturnNothing, Quiet
<1>2. Placed
  BY <1>1 DEF Inv, Dead
<1>3. /\ Pending \in Seq(Nat) /\ sent \in Seq(Bodies)
      /\ Len(received) \in 0 .. Len(sent) /\ writing \in Bodies \cup {<<>>}
      /\ clean \in 0 .. Len(sent)
  BY <1>1, InvTypes, ZenonT(40)
<1>4. buf' \in Seq(Nat) /\ open' \in BOOLEAN /\ len' \in Nat /\ pc' \in Steps
  BY <1>1 DEF Types, Steps
<1>5. CASE ~open
  <2>1. Dead'
    BY <1>1, <1>5, ZenonT(40) DEF Dead
  <2> QED
    BY <1>1, <1>4, <2>1, Moves, ZenonT(40)
<1>6. CASE open
  <2>1. ended /\ stream = <<>> /\ ~Full
    BY <1>1, <1>6, ZenonT(40) DEF Starved
  <2>2. Len(buf) \in Nat /\ Len(stream) = 0 /\ Len(Pending) = Len(buf) + Len(stream) /\ len \in Nat
    BY <1>1, <2>1, BufferedBytes, ZenonT(40) DEF Types
  <2>3. ~(Len(buf) >= len)
    BY <1>1, <2>1, NeedContent, ZenonT(40) DEF Full
  <2>4. Len(Pending) < len
    BY <2>2, <2>3
  <2>5. Fitting(Pending, Len(received), sent, writing, ended, "content", len, clean, Blocking)
    BY <1>1, <1>2, ZenonT(40) DEF Placed
  <2>6. Over(ended)
    BY <2>1, ZenonT(40) DEF Over
  <2>7. Fitting(Pending, Len(received), sent, writing, ended, "out", len, clean, Blocking)
    BY <1>3, <2>4, <2>5, <2>6, Lost, ZenonT(40)
  <2>8. Pending' = Pending
    BY <1>1 DEF Pending
  <2>9. Fitting(Pending', Len(received), sent, writing, ended, pc', len', clean, Blocking)
    BY <1>1, <2>7, <2>8, ZenonT(40)
  <2> QED
    BY <1>1, <1>4, <2>9, Moves, ZenonT(40)
<1> QED
  BY <1>5, <1>6

(* and the content that is returned: the one step at which a message is    *)
(* received.                                                               *)
LEMMA ReturnContentInv ==
    ASSUME Inv, ReturnContent PROVE Inv'
<1> DEFINE r == Len(received)
           u == SubSeq(buf, 1, len)
<1>1. /\ Types /\ Counts /\ open' = open /\ pc = "content" /\ Full /\ Drop(len)
      /\ pc' = "out" /\ len' = len /\ stream' = stream /\ received' = Append(received, u)
      /\ onInvalidData' = onInvalidData /\ ended' = ended /\ writing' = writing
      /\ sent' = sent /\ clean' = clean /\ bad' = bad
  BY DEF Inv, ReturnContent, Quiet, sender
<1>2. Placed
  BY <1>1 DEF Inv, Dead
<1>3. /\ Pending \in Seq(Nat) /\ sent \in Seq(Bodies)
      /\ r \in 0 .. Len(sent) /\ writing \in Bodies \cup {<<>>}
      /\ clean \in 0 .. Len(sent)
      /\ r \in Nat /\ Len(sent) \in Nat /\ clean \in Nat
  BY <1>1, InvTypes, ZenonT(40)
<1>4. /\ Len(buf) \in Nat /\ Len(stream) \in Nat /\ Len(Pending) = Len(buf) + Len(stream)
      /\ len \in Nat
  BY <1>1, BufferedBytes, ZenonT(40) DEF Types
<1>5. len <= Len(buf)
  BY <1>1, <1>4, NeedContent DEF Full
<1>6. len \in 0 .. Len(buf) /\ len <= Len(Pending)
  BY <1>4, <1>5
<1>7. buf' \in Seq(Nat) /\ Pending' \in Seq(Nat) /\ Suffix(Pending', Pending, len)
  BY <1>1, <1>6, Dropped, ZenonT(40)
<1>8. Fitting(Pending, r, sent, writing, ended, "content", len, clean, Blocking)
  BY <1>1, <1>2, ZenonT(40) DEF Placed
<1>9. /\ r < Len(sent) /\ len = Len(sent[r + 1])
      /\ \A k \in 1 .. len : Pending[k] = sent[r + 1][k]
      /\ Blocking => r < clean
      /\ Fitting(Pending', r + 1, sent, writing, ended, "out", len, clean, Blocking)
  BY <1>3, <1>6, <1>7, <1>8, Returned, ZenonT(40)
<1>10. r + 1 \in 1 .. Len(sent) /\ r + 1 <= Len(sent)
  BY <1>3, <1>9
<1>11. sent[r + 1] \in Seq(Nat)
  BY <1>3, <1>10, Length, Constants, ZenonT(40)
<1>12. u \in Seq(Nat) /\ Len(u) = len /\ \A k \in 1 .. len : u[k] = buf[k]
  BY <1>1, <1>4, <1>6 DEF Types
<1>13. u = sent[r + 1]
  <2> DEFINE m == sent[r + 1]
  <2>1. ASSUME NEW k \in 1 .. len PROVE u[k] = m[k]
    <3>1. k \in 1 .. Len(buf)
      BY <1>4, <1>6
    <3>2. Pending[k] = buf[k]
      BY <1>1, <3>1, BufferedBytes, ZenonT(40)
    <3> QED
      BY <1>9, <1>12, <3>2, ZenonT(40)
  <2>2. Len(m) = len /\ m \in Seq(Nat)
    BY <1>9, <1>11, ZenonT(40)
  <2> HIDE DEF m, u
  <2>3. u = m
    BY <1>12, <2>1, <2>2, SameSequence
  <2> QED
    BY <2>3 DEF m
<1> HIDE DEF u
<1>14. received \in Seq(Seq(Nat))
  BY <1>1, ZenonT(40) DEF Types
<1>15. /\ received' \in Seq(Seq(Nat)) /\ Len(received') = r + 1 /\ received'[r + 1] = u
       /\ \A i \in 1 .. r : received'[i] = received[i]
  BY <1>1, <1>12, <1>14, Appended
<1>16. Types'
  BY <1>1, <1>7, <1>15 DEF Types, Steps
<1>17. Blocking' = Blocking /\ Closing' = Closing
  BY <1>1, ZenonT(40) DEF Blocking, Closing
<1>18. Counts'
  <2>1. ASSUME NEW i \in 1 .. Len(received') PROVE received'[i] = sent'[i]
    <3>1. CASE i = r + 1
      BY <1>1, <1>13, <1>15, <3>1, ZenonT(40)
    <3>2. CASE i # r + 1
      <4>1. i \in 1 .. r
        BY <1>3, <1>15, <3>2
      <4> QED
        BY <1>1, <1>15, <4>1, ZenonT(40) DEF Counts
    <3> QED
      BY <3>1, <3>2
  <2>2. ASSUME Closing PROVE r + 1 <= clean
    <3>1. CASE bad
      <4>1. r < clean
        BY <1>9, <2>2, <3>1, ZenonT(40) DEF Blocking
      <4> QED
        BY <1>3, <4>1
    <3>2. CASE ~bad
      <4>1. clean = Len(sent)
        BY <1>1, <3>2, ZenonT(40) DEF Counts
      <4> QED
        BY <1>10, <4>1, ZenonT(40)
    <3> QED
      BY <3>1, <3>2
  <2>3. Len(received') <= Len(sent') /\ (Closing' => Len(received') <= clean')
    BY <1>1, <1>10, <1>15, <1>17, <2>2, ZenonT(40)
  <2>4. clean' <= Len(sent') /\ (~bad' => clean' = Len(sent'))
    BY <1>1, ZenonT(40) DEF Counts
  <2> QED
    BY <2>1, <2>3, <2>4, ZenonT(40) DEF Counts
<1>19. Placed'
  BY <1>1, <1>9, <1>15, <1>17, ZenonT(40) DEF Placed
<1> QED
  BY <1>16, <1>18, <1>19, ZenonT(40) DEF Inv

(* buffer() moves bytes.                                                   *)
LEMMA BufferInv ==
    ASSUME Inv, NEW k \in 1 .. ChunkSize, Buffer(k) PROVE Inv'
<1>1. /\ Types /\ Counts /\ open /\ k <= Len(stream)
      /\ buf' = buf \o SubSeq(stream, 1, k) /\ stream' = SubSeq(stream, k + 1, Len(stream))
      /\ onInvalidData' = onInvalidData /\ ended' = ended /\ writing' = writing
      /\ sent' = sent /\ clean' = clean /\ bad' = bad /\ open' = open /\ pc' = pc /\ len' = len
      /\ received' = received
  BY DEF Inv, Buffer, sender
<1>2. Placed
  BY <1>1 DEF Inv, Dead
<1>3. buf \in Seq(Nat) /\ stream \in Seq(Nat) /\ Len(stream) \in Nat /\ k \in 1 .. Len(stream)
  <2>1. buf \in Seq(Nat) /\ stream \in Seq(Nat)
    BY <1>1, ZenonT(40) DEF Types
  <2>2. k \in Nat \ {0}
    BY StreamAssumption
  <2> QED
    BY <1>1, <2>1, <2>2
<1>4. buf' \in Seq(Nat) /\ stream' \in Seq(Nat) /\ Pending' = Pending
  BY <1>1, <1>3, Buffering, ZenonT(40) DEF Pending
<1>5. Types'
  BY <1>1, <1>4, ZenonT(40) DEF Types
<1>6. Blocking' = Blocking /\ Closing' = Closing
  BY <1>1, ZenonT(40) DEF Blocking, Closing
<1>7. Counts'
  BY <1>1, <1>6, ZenonT(40) DEF Counts
<1>8. Placed'
  BY <1>1, <1>2, <1>4, <1>6, ZenonT(40) DEF Placed
<1> QED
  BY <1>5, <1>7, <1>8, ZenonT(40) DEF Inv

(* Another thread closes the reader.                                       *)
LEMMA CloseInv ==
    ASSUME Inv, Close PROVE Inv'
<1>1. /\ Types /\ Counts /\ open /\ ~open' /\ open' = FALSE
      /\ onInvalidData' = onInvalidData /\ ended' = ended /\ writing' = writing
      /\ sent' = sent /\ clean' = clean /\ bad' = bad /\ pc' = pc /\ len' = len
      /\ received' = received /\ buf' = buf /\ stream' = stream
  BY DEF Inv, Close, sender
<1>2. Placed
  BY <1>1 DEF Inv, Dead
<1>3. Types'
  <2>1. open' \in BOOLEAN
    BY <1>1, ZenonT(40)
  <2> QED
    BY <1>1, <2>1, ZenonT(40) DEF Types
<1>4. Blocking' = Blocking /\ Closing' = Closing /\ Pending' = Pending
  BY <1>1, ZenonT(40) DEF Blocking, Closing, Pending
<1>5. Counts'
  BY <1>1, <1>4, ZenonT(40) DEF Counts
<1>6. Placed'
  BY <1>1, <1>2, <1>4, ZenonT(40) DEF Placed
<1> QED
  BY <1>3, <1>5, <1>6, ZenonT(40) DEF Inv

(* What is written comes behind the bytes not used yet.                    *)
LEMMA Written ==
    ASSUME Types, NEW u \in Seq(Nat), stream' = stream \o u, buf' = buf
    PROVE  stream' \in Seq(Nat) /\ Pending' = Pending \o u
<1>1. buf \in Seq(Nat) /\ stream \in Seq(Nat)
  BY ZenonT(40) DEF Types
<1>2. stream' \in Seq(Nat)
  BY <1>1, Concat, ZenonT(40)
<1>3. buf \o (stream \o u) = (buf \o stream) \o u
  BY <1>1
<1> QED
  BY <1>2, <1>3, ZenonT(40) DEF Pending

(* A header is written,                                                    *)
LEMMA WriteHeaderInv ==
    ASSUME Unmistakable, Inv, NEW m \in Bodies, WriteHeader(m) PROVE Inv'
<1>1. /\ Types /\ Counts /\ open /\ writing = <<>> /\ writing' = m
      /\ stream' = stream \o Header(m)
      /\ onInvalidData' = onInvalidData /\ ended' = ended /\ open' = open
      /\ sent' = sent /\ clean' = clean /\ bad' = bad /\ pc' = pc /\ len' = len
      /\ received' = received /\ buf' = buf
  BY DEF Inv, WriteHeader, CanWrite
<1>2. Placed
  BY <1>1 DEF Inv, Dead
<1>3. /\ Pending \in Seq(Nat) /\ sent \in Seq(Bodies)
      /\ Len(received) \in 0 .. Len(sent) /\ clean \in 0 .. Len(sent)
  BY <1>1, InvTypes, ZenonT(40)
<1>4. Header(m) \in Seq(Nat)
  BY Length, HeaderSize, ZenonT(40)
<1>5. stream' \in Seq(Nat) /\ Pending' = Pending \o Header(m)
  BY <1>1, <1>4, Written, ZenonT(40)
<1>6. Types'
  BY <1>1, <1>5, ZenonT(40) DEF Types
<1>7. Blocking' = Blocking /\ Closing' = Closing
  BY <1>1, ZenonT(40) DEF Blocking, Closing
<1>8. Counts'
  BY <1>1, <1>7, ZenonT(40) DEF Counts
<1>9. Fitting(Pending, Len(received), sent, <<>>, ended, pc, len, clean, Blocking)
  BY <1>1, <1>2, ZenonT(40) DEF Placed
<1>10. Fitting(Pending \o Header(m), Len(received), sent, m, ended, pc, len, clean, Blocking)
  BY <1>3, <1>9, FitHeader, ZenonT(40)
<1>11. Placed'
  BY <1>1, <1>5, <1>7, <1>10, ZenonT(40) DEF Placed
<1> QED
  BY <1>6, <1>8, <1>11, ZenonT(40) DEF Inv

(* the content,                                                            *)
LEMMA WriteContentInv ==
    ASSUME Inv, WriteContent PROVE Inv'
<1>1. /\ Types /\ Counts /\ open /\ ~ended /\ writing # <<>> /\ writing' = <<>>
      /\ stream' = stream \o writing /\ sent' = Append(sent, writing)
      /\ clean' = (IF bad THEN clean ELSE clean + 1)
      /\ onInvalidData' = onInvalidData /\ ended' = ended /\ open' = open
      /\ bad' = bad /\ pc' = pc /\ len' = len
      /\ received' = received /\ buf' = buf
  BY DEF Inv, WriteContent
<1>2. Placed
  BY <1>1 DEF Inv, Dead
<1>3. /\ Pending \in Seq(Nat) /\ sent \in Seq(Bodies)
      /\ Len(received) \in 0 .. Len(sent) /\ clean \in 0 .. Len(sent)
      /\ Len(received) \in Nat /\ Len(sent) \in Nat /\ clean \in Nat
  BY <1>1, InvTypes, ZenonT(40)
<1>4. writing \in Bodies /\ writing \in Seq(Nat)
  <2>1. writing \in Bodies
    BY <1>1, ZenonT(40) DEF Types
  <2> QED
    BY <2>1, Constants, ZenonT(40)
<1>5. stream' \in Seq(Nat) /\ Pending' = Pending \o writing
  BY <1>1, <1>4, Written, ZenonT(40)
<1>6. /\ sent' \in Seq(Bodies) /\ Len(sent') = Len(sent) + 1
      /\ \A i \in 1 .. Len(sent) : sent'[i] = sent[i]
  BY <1>1, <1>3, <1>4, Appended
<1>7. clean' \in Nat
  BY <1>1, <1>3
<1>8. Types'
  BY <1>1, <1>5, <1>6, <1>7, ZenonT(40) DEF Types
<1>9. Blocking' = Blocking /\ Closing' = Closing
  BY <1>1, ZenonT(40) DEF Blocking, Closing
<1>10. Len(received) <= Len(sent) /\ clean <= Len(sent) /\ (~bad => clean = Len(sent))
       /\ (Closing => Len(received) <= clean)
       /\ \A i \in 1 .. Len(received) : received[i] = sent[i]
  BY <1>1, ZenonT(40) DEF Counts
<1>11. Counts'
  <2>1. Len(received') <= Len(sent') /\ clean' <= Len(sent')
    BY <1>1, <1>3, <1>6, <1>10
  <2>2. ASSUME ~bad' PROVE clean' = Len(sent')
    <3>1. ~bad
      BY <1>1, <2>2, ZenonT(40)
    <3>2. clean' = clean + 1 /\ clean = Len(sent)
      BY <1>1, <1>10, <3>1, ZenonT(40)
    <3> QED
      BY <1>6, <3>2, ZenonT(40)
  <2>3. ASSUME Closing' PROVE Len(received') <= clean'
    <3>1. Len(received) <= clean
      BY <1>9, <1>10, <2>3, ZenonT(40)
    <3>2. clean' = clean \/ clean' = clean + 1
      BY <1>1, ZenonT(40)
    <3> QED
      BY <1>1, <1>3, <3>1, <3>2
  <2>4. ASSUME NEW i \in 1 .. Len(received') PROVE received'[i] = sent'[i]
    <3>1. i \in 1 .. Len(received) /\ i \in 1 .. Len(sent)
      BY <1>1, <1>3, <1>10
    <3> QED
      BY <1>1, <1>6, <1>10, <3>1, ZenonT(40)
  <2> QED
    BY <2>1, <2>2, <2>3, <2>4, ZenonT(40) DEF Counts
<1>12. ~Over(ended)
  BY <1>1, ZenonT(40) DEF Over
<1>13. Fitting(Pending \o writing, Len(received), sent', <<>>, ended, pc, len, clean, Blocking)
  BY <1>1, <1>2, <1>3, <1>4, <1>12, FitContent, ZenonT(40) DEF Placed
<1>14. Fitting(Pending \o writing, Len(received), sent', <<>>, ended, pc, len, clean', Blocking)
  <2>1. CASE bad
    BY <1>1, <1>13, <2>1, ZenonT(40)
  <2>2. CASE ~bad
    <3>1. ~Over(Blocking)
      BY <2>2, ZenonT(40) DEF Over, Blocking
    <3> QED
      BY <1>13, <3>1, Unblocked, ZenonT(40)
  <2> QED
    BY <2>1, <2>2
<1>15. Placed'
  BY <1>1, <1>5, <1>9, <1>14, ZenonT(40) DEF Placed
<1> QED
  BY <1>8, <1>11, <1>15, ZenonT(40) DEF Inv

(* bytes that belong to no message,                                        *)
LEMMA WriteJunkInv ==
    ASSUME Unmistakable, Inv, NEW j \in Junks, WriteJunk(j) PROVE Inv'
<1> DEFINE Fit(q, cl, blk) ==
             Fitting(q, Len(received), sent, <<>>, ended, pc, len, cl, blk)
<1>1. /\ Types /\ Counts /\ open /\ writing = <<>> /\ writing' = writing
      /\ stream' = stream \o j /\ bad' = (bad \/ j # Name)
      /\ onInvalidData' = onInvalidData /\ ended' = ended /\ open' = open
      /\ sent' = sent /\ clean' = clean /\ pc' = pc /\ len' = len
      /\ received' = received /\ buf' = buf
  BY ZenonT(40) DEF Inv, WriteJunk, CanWrite
<1>2. Placed
  BY <1>1, ZenonT(40) DEF Inv, Dead
<1>3. /\ Pending \in Seq(Nat) /\ sent \in Seq(Bodies)
      /\ Len(received) \in 0 .. Len(sent) /\ clean \in 0 .. Len(sent)
  BY <1>1, InvTypes, ZenonT(40)
<1>4. j \in Seq(Nat)
  BY Constants, ZenonT(40)
<1>5. stream' \in Seq(Nat) /\ Pending' = Pending \o j
  BY <1>1, <1>4, Written, ZenonT(40)
<1>6. bad' \in BOOLEAN
  BY <1>1, ZenonT(40) DEF Types
<1>7. Types'
  BY <1>1, <1>5, <1>6, ZenonT(40) DEF Types
<1>8. Closing' = Closing
  BY <1>1, ZenonT(40) DEF Closing
<1>9. Counts'
  BY <1>1, <1>8, ZenonT(40) DEF Counts
<1>10. Fit(Pending, clean, Blocking)
  BY <1>1, <1>2, ZenonT(40) DEF Placed
<1>11. Fit(Pending \o j, clean, Blocking)
  BY <1>3, <1>10, FitJunk, ZenonT(40)
<1>12. Fit(Pending \o j, clean, Blocking')
  <2>1. CASE ~Over(Blocking')
    BY <1>11, <2>1, Unblocked, ZenonT(40)
  <2>2. CASE Over(Blocking') /\ bad
    <3>1. bad' = bad
      <4>1. bad \in BOOLEAN
        BY <1>1, ZenonT(40) DEF Types
      <4> QED
        BY <1>1, <2>2, <4>1, ZenonT(40)
    <3>2. Blocking' = Blocking
      BY <1>8, <3>1, ZenonT(40) DEF Blocking
    <3> QED
      BY <1>11, <3>2, ZenonT(40)
  <2>3. CASE Over(Blocking') /\ ~bad
    <3>1. Closing' /\ bad'
      BY <2>3, ZenonT(40) DEF Over, Blocking
    <3>2. Foreign /\ j # Name
      BY <1>1, <1>8, <2>3, <3>1, ZenonT(40) DEF Closing
    <3>3. \E i \in 1 .. Len(j) : j[i] \notin Passed
      BY <3>2, ZenonT(40) DEF Foreign
    <3>4. clean = Len(sent)
      BY <1>1, <2>3, ZenonT(40) DEF Counts
    <3>5. Fit(Pending \o j, Len(sent), Blocking')
      BY <1>3, <1>10, <3>3, FitFirstJunk, ZenonT(40)
    <3> QED
      BY <3>4, <3>5, ZenonT(40)
  <2> QED
    BY <2>1, <2>2, <2>3, ZenonT(40)
<1>13. Placed'
  BY <1>1, <1>5, <1>12, ZenonT(40) DEF Placed
<1> QED
  BY <1>7, <1>9, <1>13, ZenonT(40) DEF Inv
(* and the sender ends.                                                    *)
LEMMA EndInv ==
    ASSUME Inv, End PROVE Inv'
<1>1. PICK k \in 0 .. Len(writing) :
        (k = 0 \/ k < Len(writing)) /\ stream' = stream \o SubSeq(writing, 1, k)
  BY ZenonT(40) DEF End
<1> DEFINE u == SubSeq(writing, 1, k)
<1>2. /\ Types /\ Counts /\ ~ended /\ ended' = TRUE
      /\ onInvalidData' = onInvalidData /\ writing' = writing /\ open' = open
      /\ sent' = sent /\ clean' = clean /\ bad' = bad /\ pc' = pc /\ len' = len
      /\ received' = received /\ buf' = buf
  BY ZenonT(40) DEF Inv, End
<1>3. /\ Pending \in Seq(Nat) /\ sent \in Seq(Bodies)
      /\ Len(received) \in 0 .. Len(sent) /\ clean \in 0 .. Len(sent)
      /\ writing \in Bodies \cup {<<>>}
  BY <1>2, InvTypes, ZenonT(40)
<1>4. u \in Seq(Nat)
  <2>1. writing \in Seq(Nat)
    <3>1. CASE writing \in Bodies
      BY <3>1, Constants, ZenonT(40)
    <3>2. CASE writing = <<>>
      BY <3>2
    <3> QED
      BY <1>3, <3>1, <3>2, ZenonT(40)
  <2> QED
    BY <2>1
<1>5. stream' \in Seq(Nat) /\ Pending' = Pending \o u
  BY <1>1, <1>2, <1>4, Written, ZenonT(40)
<1>6. Types'
  BY <1>2, <1>5, ZenonT(40) DEF Types
<1>7. Blocking' = Blocking /\ Closing' = Closing
  BY <1>2, ZenonT(40) DEF Blocking, Closing
<1>8. Counts'
  BY <1>2, <1>7, ZenonT(40) DEF Counts
<1>9. CASE Dead
  BY <1>2, <1>6, <1>8, <1>9, ZenonT(40) DEF Inv, Dead
<1>10. CASE Placed
  <2>1. ~Over(ended) /\ Over(ended')
    BY <1>2, ZenonT(40) DEF Over
  <2>2. Fitting(Pending, Len(received), sent, writing, ended, pc, len, clean, Blocking)
    BY <1>10, ZenonT(40) DEF Placed
  <2>3. Fitting(Pending \o u, Len(received), sent, writing, ended', pc, len, clean, Blocking)
    BY <1>1, <1>3, <2>1, <2>2, FitEnd, ZenonT(40)
  <2>4. Placed'
    BY <1>2, <1>5, <1>7, <2>3, ZenonT(40) DEF Placed
  <2> QED
    BY <1>6, <1>8, <2>4, ZenonT(40) DEF Inv
<1> QED
  BY <1>9, <1>10, ZenonT(40) DEF Inv

(* The invariant holds at the beginning.                                   *)
LEMMA InitInv ==
    ASSUME Init PROVE Inv
<1>1. /\ onInvalidData \in {"kIgnore", "kClose"}
      /\ stream = <<>> /\ ended = FALSE /\ open = TRUE
      /\ writing = <<>> /\ sent = <<>> /\ clean = 0 /\ bad = FALSE
      /\ buf = <<>> /\ pc = "out" /\ len = 0 /\ received = <<>>
  BY ZenonT(40) DEF Init
<1>2. Types
  <2>1. /\ stream \in Seq(Nat) /\ buf \in Seq(Nat)
        /\ sent \in Seq(Bodies) /\ received \in Seq(Seq(Nat))
    BY <1>1
  <2>2. clean \in Nat /\ len \in Nat
    BY <1>1
  <2>3. ended \in BOOLEAN /\ open \in BOOLEAN /\ bad \in BOOLEAN
    BY <1>1, ZenonT(40)
  <2>4. pc \in Steps
    BY <1>1 DEF Steps
  <2>5. writing \in Bodies \cup {<<>>} /\ onInvalidData \in {"kIgnore", "kClose"}
    BY <1>1, ZenonT(40)
  <2> QED
    BY <2>1, <2>2, <2>3, <2>4, <2>5, ZenonT(40) DEF Types
<1>3. Counts
  BY <1>1 DEF Counts
<1>4. Pending = <<>> /\ Len(received) = 0 /\ Len(sent) = 0 /\ Len(Pending) = 0
  BY <1>1 DEF Pending
<1>5. PICK s \in [Nat -> Int] : s[0 + 1] = 0
  <2> DEFINE f == [i \in Nat |-> 0]
  <2>1. f \in [Nat -> Int] /\ f[0 + 1] = 0
    OBVIOUS
  <2> QED
    BY <2>1, ZenonT(40)
<1>6. Gap(<<>>, 0, 0)
  BY DEF Gap
<1>7. Layout(<<>>, s, 0, <<>>, <<>>, FALSE)
  <2>1. Ending(<<>>, <<>>, FALSE, 0)
    BY DEF Ending
  <2>2. s[0 + 1] <= Len(<<>>) /\ 0 + 1 .. Len(<<>>) = {} /\ Len(<<>>) + 1 = 0 + 1
    BY <1>5
  <2> QED
    BY <1>5, <1>6, <2>1, <2>2, ZenonT(40) DEF Layout
<1>8. 0 <= s[0 + 1]
  BY <1>5
<1>9. Place(s[0 + 1], "out", 0, Current(0, <<>>, <<>>))
  BY <1>8, PlaceFree
<1>10. ~Blocking
  BY <1>1, ZenonT(40) DEF Blocking
<1>11. Fits(<<>>, s, 0, <<>>, <<>>, FALSE, "out", 0, 0, Blocking)
  BY <1>7, <1>9, <1>10, ZenonT(40) DEF Fits
<1>12. Fitting(<<>>, 0, <<>>, <<>>, FALSE, "out", 0, 0, Blocking)
  BY <1>11, ZenonT(40) DEF Fitting
<1>13. Placed
  BY <1>1, <1>4, <1>12, ZenonT(40) DEF Placed
<1> QED
  BY <1>2, <1>3, <1>13, ZenonT(40) DEF Inv

(* It depends on the variables only.                                       *)
LEMMA StutterInv ==
    ASSUME Inv, UNCHANGED vars PROVE Inv'
<1>1. /\ onInvalidData' = onInvalidData /\ stream' = stream /\ ended' = ended
      /\ writing' = writing /\ open' = open
      /\ sent' = sent /\ clean' = clean /\ bad' = bad /\ pc' = pc /\ len' = len
      /\ received' = received /\ buf' = buf
  BY DEF vars, sender
<1>2. Blocking' = Blocking /\ Closing' = Closing /\ Pending' = Pending
  BY <1>1, ZenonT(40) DEF Blocking, Closing, Pending
<1> QED
  BY <1>1, <1>2, ZenonT(40) DEF Inv, Types, Counts, Dead, Placed

(* Every step keeps it.                                                    *)
LEMMA NextInv ==
    ASSUME Unmistakable, Inv, [Next]_vars PROVE Inv'
<1>1. CASE UNCHANGED vars
  BY <1>1, StutterInv, ZenonT(40)
<1>2. CASE ReadStep
  BY <1>2, BufferInv, ReadInv, MatchNameInv, ScanOnInv, NoNameInv, MatchBlanksInv,
     MatchDigitInv, EndOfDigitsInv, MatchSeparatorInv, ReturnContentInv, LoseContentInv,
     ZenonT(40) DEF ReadStep
<1>3. CASE Next /\ ~ReadStep
  BY <1>3, WriteHeaderInv, WriteContentInv, WriteJunkInv, EndInv, CloseInv, ZenonT(40) DEF Next
<1> QED
  BY <1>1, <1>2, <1>3, ZenonT(40)

(* So it holds always.                                                     *)
LEMMA InvHolds ==
    ASSUME Unmistakable PROVE Spec => []Inv
<1>1. Init => Inv
  BY InitInv, ZenonT(40)
<1>2. Inv /\ [Next]_vars => Inv'
  BY NextInv, ZenonT(40)
<1> QED
  BY <1>1, <1>2, PTL DEF Spec

(* read() returns the messages that write() was given, in order and with   *)
(* none left out (ContentStream!ReceivedInOrder), for every header name,   *)
(* separator, set of messages and junk that cannot be mistaken for a       *)
(* frame, every chunk size and every number of messages: however the       *)
(* stream cuts up the bytes, wherever the sender ends and whenever the     *)
(* reader is closed (content_stream.cpp:49-103).                           *)
THEOREM FramesAreFound ==
    ASSUME Unmistakable PROVE Spec => []ReceivedInOrder
<1>1. Inv => ReceivedInOrder
  <2> SUFFICES ASSUME Inv PROVE ReceivedInOrder
    OBVIOUS
  <2> DEFINE S == Seq(Nat)
  <2>1. received \in Seq(S) /\ sent \in Seq(Bodies)
    BY ZenonT(40) DEF Inv, Types
  <2>2. Bodies \subseteq S
    BY Constants, ZenonT(40)
  <2> HIDE DEF S
  <2>3. sent \in Seq(S)
    BY <2>1, <2>2
  <2>4. Len(received) <= Len(sent) /\ \A i \in 1 .. Len(received) : sent[i] = received[i]
    BY ZenonT(40) DEF Inv, Counts
  <2>5. At(received, sent, 0)
    BY <2>1, <2>3, <2>4, Prefix, ZenonT(40)
  <2> QED
    BY <2>5, ZenonT(40) DEF ReceivedInOrder
<1> QED
  BY <1>1, InvHolds, PTL

(* With kClose read() returns no message that was written behind invalid   *)
(* data (content_stream.cpp:52-54, 78-80, 163-168), where invalid data is  *)
(* a header's name and no more, or has a byte that is neither a digit, a   *)
(* blank, a zero nor in the name.                                          *)
THEOREM InvalidDataEndsIt ==
    ASSUME Unmistakable, Foreign PROVE Spec => []NothingAfterInvalidData
<1>1. Inv => NothingAfterInvalidData
  BY ZenonT(40) DEF Inv, Counts, Closing, NothingAfterInvalidData
<1> QED
  BY <1>1, InvHolds, PTL
=============================================================================
