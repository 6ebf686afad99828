------------------------ MODULE ContentStreamFrames ------------------------
(***************************************************************************)
(* Where the frames of messages lie in the bytes that the reader has not   *)
(* used yet, and what becomes of them when bytes are written, taken away   *)
(* and dropped.  ContentStreamProofs puts this together to the proof that  *)
(* the reader finds each frame and nothing else.                           *)
(***************************************************************************)
EXTENDS ContentStream, Integers, WellFoundedInduction, TLAPS

(* The time each step may take, and the time of a second attempt.          *)
USE SMTT(30), SMTT(60)

(* Sequences with the same elements are the same.                          *)
LEMMA SameSequence ==
    ASSUME NEW S, NEW s \in Seq(S), NEW t \in Seq(S), Len(s) = Len(t),
           \A i \in 1 .. Len(s) : s[i] = t[i]
    PROVE  s = t
OBVIOUS

(* What Append does to each element.                                       *)
LEMMA Appended ==
    ASSUME NEW S, NEW s \in Seq(S), NEW e \in S
    PROVE  LET t == Append(s, e)
           IN  /\ t \in Seq(S) /\ Len(t) = Len(s) + 1 /\ t[Len(s) + 1] = e
               /\ \A i \in 1 .. Len(s) : t[i] = s[i]
OBVIOUS

(* The empty sequence adds nothing.                                        *)
LEMMA NothingAppended ==
    ASSUME NEW S, NEW s \in Seq(S)
    PROVE  s \o <<>> = s
OBVIOUS

(* Induction over the natural numbers, for a set in place of a predicate.  *)
LEMMA StrongInduction ==
    ASSUME NEW S,
           ASSUME NEW n \in Nat, \A k \in Nat : k < n => k \in S
           PROVE  n \in S
    PROVE  \A n \in Nat : n \in S
<1> DEFINE Out == Nat \ S
<1> SUFFICES ASSUME Out # {} PROVE FALSE
  OBVIOUS
<1>1. PICK x \in Out : \A y \in Out : ~(<<y, x>> \in OpToRel(<, Nat))
  <2>1. Out \subseteq Nat
    OBVIOUS
  <2> HIDE DEF Out
  <2> QED
    BY <2>1, NatLessThanWellFounded, WFMin, ZenonT(40)
<1>2. x \in Nat /\ \A k \in Nat : k < x => k \in S
  BY <1>1, ZenonT(40) DEF OpToRel
<1>3. x \in S
  BY <1>2
<1> QED
  BY <1>3

(* One unfolding of Decimal, with f for the numbers below n.               *)
Numeral(f, n) ==
    IF n < 10 THEN <<48 + n>> ELSE Append(f[n \div 10], 48 + (n % 10))

(* f agrees with the definition of Decimal as far as n.                    *)
UpTo(f, n) ==
    /\ f \in [0 .. n -> Seq(Nat)]
    /\ \A i \in 0 .. n : f[i] = Numeral(f, i)

(* Dividing by ten makes a number smaller.                                 *)
LEMMA Tenth ==
    ASSUME NEW n \in Nat, n >= 10
    PROVE  /\ n \div 10 \in Nat /\ n \div 10 < n /\ n \div 10 > 0
           /\ n % 10 \in 0 .. 9
           /\ n = 10 * (n \div 10) + (n % 10)
OBVIOUS

(* An unfolding gives a sequence of bytes if f does.                       *)
LEMMA NumeralType ==
    ASSUME NEW n \in Nat, NEW f, n >= 10 => f[n \div 10] \in Seq(Nat)
    PROVE  Numeral(f, n) \in Seq(Nat)
<1>1. CASE n < 10
  <2>1. <<48 + n>> \in Seq(Nat)
    OBVIOUS
  <2> QED
    BY <1>1, <2>1 DEF Numeral
<1>2. CASE n >= 10
  <2>1. 48 + (n % 10) \in Nat /\ f[n \div 10] \in Seq(Nat)
    BY <1>2, Tenth
  <2>2. Append(f[n \div 10], 48 + (n % 10)) \in Seq(Nat)
    BY <2>1
  <2> QED
    BY <1>2, <2>2 DEF Numeral
<1> QED
  BY <1>1, <1>2

(* An unfolding looks at f in one place only.                              *)
LEMMA SameNumeral ==
    ASSUME NEW n \in Nat, NEW f, NEW g, n >= 10 => f[n \div 10] = g[n \div 10]
    PROVE  Numeral(f, n) = Numeral(g, n)
<1>1. n < 10 \/ n >= 10
  OBVIOUS
<1> QED
  BY <1>1, ZenonT(40) DEF Numeral

(* The recursion can be followed as far as any n.                          *)
LEMMA UpToExists ==
    \A n \in Nat : \E f : UpTo(f, n)
<1> DEFINE S == {n \in Nat : \E f : UpTo(f, n)}
<1>1. ASSUME NEW x \in Nat, \A k \in Nat : k < x => k \in S
      PROVE  \E f : UpTo(f, x)
  <2>1. CASE x = 0
    <3> DEFINE f == [i \in 0 .. 0 |-> <<48>>]
    <3>1. <<48>> \in Seq(Nat)
      OBVIOUS
    <3>2. f \in [0 .. 0 -> Seq(Nat)] /\ f[0] = <<48>>
      BY <3>1
    <3>3. Numeral(f, 0) = <<48>>
      BY DEF Numeral
    <3>4. UpTo(f, 0)
      BY <3>2, <3>3 DEF UpTo
    <3> QED
      BY <2>1, <3>4
  <2>2. CASE x # 0
    <3>1. x - 1 \in Nat /\ x - 1 < x
      BY <2>2
    <3>2. PICK g : UpTo(g, x - 1)
      BY <1>1, <3>1
    <3> HIDE DEF S
    <3> DEFINE f == [i \in 0 .. x |-> IF i = x THEN Numeral(g, x) ELSE g[i]]
    <3>3. \A i \in 0 .. x - 1 : g[i] \in Seq(Nat) /\ g[i] = Numeral(g, i)
      BY <3>2 DEF UpTo
    <3>4. f[x] = Numeral(g, x) /\ \A i \in 0 .. x - 1 : f[i] = g[i]
      OBVIOUS
    <3>5. f = [i \in 0 .. x |-> f[i]]
      OBVIOUS
    <3> HIDE DEF f
    <3>6. ASSUME NEW i \in 0 .. x PROVE f[i] \in Seq(Nat) /\ f[i] = Numeral(f, i)
      <4>1. i \in Nat /\ (i = x \/ i \in 0 .. x - 1)
        OBVIOUS
      <4>2. i >= 10 => i \div 10 \in 0 .. x - 1
        BY <4>1, Tenth
      <4>3. i >= 10 => f[i \div 10] = g[i \div 10] /\ g[i \div 10] \in Seq(Nat)
        BY <4>2, <3>3, <3>4, ZenonT(40)
      <4>4. f[i] = Numeral(g, i)
        BY <4>1, <3>3, <3>4, ZenonT(40)
      <4>5. Numeral(g, i) \in Seq(Nat)
        BY <4>1, <4>3, NumeralType, ZenonT(40)
      <4>6. Numeral(f, i) = Numeral(g, i)
        BY <4>1, <4>3, SameNumeral, ZenonT(40)
      <4> QED
        BY <4>4, <4>5, <4>6, ZenonT(40)
    <3>7. f \in [0 .. x -> Seq(Nat)]
      BY <3>5, <3>6
    <3> QED
      BY <3>6, <3>7, ZenonT(40) DEF UpTo
  <2> QED
    BY <2>1, <2>2
<1>2. \A n \in Nat : n \in S
  <2>1. ASSUME NEW x \in Nat, \A k \in Nat : k < x => k \in S PROVE x \in S
    BY <2>1, <1>1
  <2> HIDE DEF S
  <2> QED
    BY <2>1, StrongInduction, ZenonT(40)
<1> QED
  BY <1>2

(* It leads to one value for each number.                                  *)
LEMMA UpToUnique ==
    ASSUME NEW n \in Nat, NEW f, UpTo(f, n), NEW k \in 0 .. n, NEW g, UpTo(g, k)
    PROVE  f[k] = g[k]
<1> DEFINE S == {i \in Nat : i <= k => f[i] = g[i]}
<1>1. ASSUME NEW x \in Nat, \A i \in Nat : i < x => i \in S
      PROVE  x <= k => f[x] = g[x]
  <2> SUFFICES ASSUME x <= k PROVE f[x] = g[x]
    OBVIOUS
  <2>1. x \in 0 .. k /\ x \in 0 .. n
    OBVIOUS
  <2>2. f[x] = Numeral(f, x) /\ g[x] = Numeral(g, x)
    BY <2>1, ZenonT(40) DEF UpTo
  <2>3. x >= 10 => f[x \div 10] = g[x \div 10]
    <3> SUFFICES ASSUME x >= 10 PROVE f[x \div 10] = g[x \div 10]
      OBVIOUS
    <3>1. x \div 10 \in Nat /\ x \div 10 < x /\ x \div 10 <= k
      BY Tenth
    <3> QED
      BY <1>1, <3>1
  <2> QED
    BY <2>2, <2>3, SameNumeral, ZenonT(40)
<1>2. \A i \in Nat : i \in S
  <2>1. ASSUME NEW x \in Nat, \A i \in Nat : i < x => i \in S PROVE x \in S
    BY <2>1, <1>1
  <2> HIDE DEF S
  <2> QED
    BY <2>1, StrongInduction, ZenonT(40)
<1> QED
  BY <1>2

(* Decimal is what its recursive definition says (std::to_string in        *)
(* ContentWriter::write, content_stream.cpp:193).                          *)
LEMMA DecimalUnfolds ==
    ASSUME NEW n \in Nat
    PROVE  Decimal[n] = Numeral(Decimal, n)
<1> DEFINE U(k) == CHOOSE f : UpTo(f, k)
           G == [k \in Nat |-> U(k)[k]]
<1>1. \A k \in Nat : UpTo(U(k), k)
  BY UpToExists
<1> HIDE DEF U
<1>2. ASSUME NEW k \in Nat PROVE G[k] = Numeral(G, k)
  <2>1. U(k)[k] = Numeral(U(k), k)
    <3>1. k \in 0 .. k
      OBVIOUS
    <3> QED
      BY <1>1, <3>1, ZenonT(40) DEF UpTo
  <2>2. k >= 10 => U(k)[k \div 10] = G[k \div 10]
    <3> SUFFICES ASSUME k >= 10 PROVE U(k)[k \div 10] = U(k \div 10)[k \div 10]
      BY Tenth
    <3>1. k \div 10 \in Nat /\ k \div 10 \in 0 .. k
      BY Tenth
    <3> QED
      BY <1>1, <3>1, UpToUnique, ZenonT(40)
  <2>3. G[k] = U(k)[k]
    OBVIOUS
  <2> HIDE DEF G
  <2> QED
    BY <2>1, <2>2, <2>3, SameNumeral, ZenonT(40)
<1>3. G = [k \in Nat |-> Numeral(G, k)]
  BY <1>2
<1> HIDE DEF G
<1>4. \E f : f = [k \in Nat |-> Numeral(f, k)]
  BY <1>3
<1>5. Decimal = CHOOSE f : f = [k \in Nat |-> Numeral(f, k)]
  BY DEF Decimal, Numeral
<1>6. Decimal = [k \in Nat |-> Numeral(Decimal, k)]
  BY <1>4, <1>5
<1> QED
  BY <1>6

(***************************************************************************)
(* v[d] is the number that the first d digits of n stand for.              *)
(***************************************************************************)
Values(v, n) ==
    /\ v \in [0 .. Len(Decimal[n]) -> Nat]
    /\ v[0] = 0 /\ v[Len(Decimal[n])] = n
    /\ \A d \in 1 .. Len(Decimal[n]) :
          /\ Decimal[n][d] \in 48 .. 57
          /\ v[d] = 10 * v[d - 1] + (Decimal[n][d] - 48)
          /\ v[d] <= n

(* The digits of n can be read back.                                       *)
Readable(n) ==
    /\ Decimal[n] \in Seq(Nat) /\ Len(Decimal[n]) \in Nat \ {0}
    /\ \E v : Values(v, n)

(* A number of one digit can be read back.                                 *)
LEMMA ReadableDigit ==
    ASSUME NEW x \in Nat, x < 10
    PROVE  Readable(x)
<1> DEFINE D == Decimal[x]
           v == [d \in 0 .. 1 |-> IF d = 0 THEN 0 ELSE x]
<1>1. Decimal[x] = <<48 + x>>
  BY DecimalUnfolds, ZenonT(40) DEF Numeral
<1>2. D \in Seq(Nat) /\ Len(D) = 1 /\ D[1] = 48 + x
  BY <1>1
<1>3. v \in [0 .. 1 -> Nat] /\ v[0] = 0 /\ v[1] = x
  OBVIOUS
<1> HIDE DEF v, D
<1>4. D[1] \in 48 .. 57 /\ v[1] = 10 * v[1 - 1] + (D[1] - 48) /\ v[1] <= x
  BY <1>2, <1>3
<1>5. \A d \in 1 .. 1 : d = 1
  OBVIOUS
<1>6. Values(v, x)
  BY <1>2, <1>3, <1>4, <1>5, ZenonT(40) DEF Values, D
<1> QED
  BY <1>2, <1>6 DEF Readable, D

(* So can one with a digit more.                                           *)
LEMMA ReadableAppend ==
    ASSUME NEW x \in Nat, x >= 10, Readable(x \div 10)
    PROVE  Readable(x)
<1> DEFINE y == x \div 10
           e == x % 10
           B == Decimal[y]
           D == Decimal[x]
           n1 == Len(B)
<1>1. y \in Nat /\ y < x /\ e \in 0 .. 9 /\ x = 10 * y + e
  BY Tenth
<1>2. PICK u : Values(u, y)
  BY DEF Readable
<1>3. D = Append(B, 48 + e)
  <2>1. ~(x < 10)
    OBVIOUS
  <2> QED
    BY <2>1, DecimalUnfolds, ZenonT(40) DEF Numeral
<1>4. B \in Seq(Nat) /\ n1 \in Nat \ {0}
  BY ZenonT(40) DEF Readable
<1> HIDE DEF y, e, B, D
<1>5. D \in Seq(Nat) /\ Len(D) = n1 + 1 /\ D[n1 + 1] = 48 + e /\ \A d \in 1 .. n1 : D[d] = B[d]
  BY <1>1, <1>3, <1>4
<1> DEFINE v == [d \in 0 .. n1 + 1 |-> IF d = n1 + 1 THEN x ELSE u[d]]
<1>6. /\ u \in [0 .. n1 -> Nat] /\ u[0] = 0 /\ u[n1] = y
      /\ \A d \in 1 .. n1 : B[d] \in 48 .. 57 /\ u[d] = 10 * u[d - 1] + (B[d] - 48) /\ u[d] <= y
  BY <1>2, ZenonT(40) DEF Values, B
<1> HIDE DEF n1
<1>7. v \in [0 .. n1 + 1 -> Nat]
  BY <1>4, <1>6
<1>8. v[n1 + 1] = x /\ \A d \in 0 .. n1 : v[d] = u[d]
  <2>1. n1 + 1 \in 0 .. n1 + 1 /\ \A d \in 0 .. n1 : d \in 0 .. n1 + 1 /\ d # n1 + 1
    BY <1>4
  <2> QED
    BY <2>1, ZenonT(40)
<1> HIDE DEF v
<1>9. ASSUME NEW d \in 1 .. n1 + 1
      PROVE  D[d] \in 48 .. 57 /\ v[d] = 10 * v[d - 1] + (D[d] - 48) /\ v[d] <= x
  <2>1. CASE d = n1 + 1
    <3>1. d - 1 = n1 /\ n1 \in 0 .. n1
      BY <2>1, <1>4
    <3>2. v[d - 1] = y /\ v[d] = x /\ D[d] = 48 + e
      BY <2>1, <3>1, <1>5, <1>6, <1>8, ZenonT(40)
    <3> QED
      BY <3>2, <1>1
  <2>2. CASE d # n1 + 1
    <3>1. d \in 1 .. n1 /\ d \in 0 .. n1 /\ d - 1 \in 0 .. n1
      BY <2>2, <1>4
    <3>2. /\ v[d] = u[d] /\ v[d - 1] = u[d - 1] /\ D[d] = B[d] /\ u[d] \in Nat
          /\ B[d] \in 48 .. 57 /\ u[d] = 10 * u[d - 1] + (B[d] - 48) /\ u[d] <= y
      BY <3>1, <1>5, <1>6, <1>8, ZenonT(40)
    <3>3. v[d] <= x
      BY <3>2, <1>1
    <3> QED
      BY <3>2, <3>3, ZenonT(40)
  <2> QED
    BY <2>1, <2>2
<1>10. v[0] = 0
  <2>1. 0 \in 0 .. n1
    BY <1>4
  <2> QED
    BY <2>1, <1>6, <1>8
<1>11. Values(v, x)
  BY <1>5, <1>7, <1>8, <1>9, <1>10, ZenonT(40) DEF Values, D
<1> QED
  BY <1>4, <1>5, <1>11 DEF Readable, D

(* Every number can be read back from its digits: what the reader's loop   *)
(* over digits computes (content_stream.cpp:65-72) is the number that the  *)
(* writer wrote.                                                           *)
LEMMA DigitsOf ==
    \A n \in Nat : Readable(n)
<1> DEFINE S == {n \in Nat : Readable(n)}
<1>1. ASSUME NEW x \in Nat, \A k \in Nat : k < x => k \in S PROVE x \in S
  <2>1. CASE x < 10
    BY <2>1, ReadableDigit
  <2>2. CASE x >= 10
    <3>1. x \div 10 \in Nat /\ x \div 10 < x
      BY <2>2, Tenth
    <3> QED
      BY <2>2, <3>1, <1>1, ReadableAppend
  <2> QED
    BY <2>1, <2>2
<1>2. \A n \in Nat : n \in S
  <2> HIDE DEF S
  <2> QED
    BY <1>1, StrongInduction, ZenonT(40)
<1> QED
  BY <1>2
-----------------------------------------------------------------------------
(* A message as it is written: its header and its content.                 *)
Frame(m) == Header(m) \o m

(* The word lies in p behind its first a bytes, as far as p goes. A        *)
(* negative a says that the beginning of the word was read already.        *)
Agrees(w, p, a) ==
    \A k \in 1 .. Len(w) : 1 <= a + k /\ a + k <= Len(p) => p[a + k] = w[k]

(* No separator begins in p between a and b.                               *)
Gap(p, a, b) == \A k \in Nat : a <= k /\ k < b => ~At(Separator, p, k)

(* The frame of m lies whole in p at a, and no separator lies between it   *)
(* and b, where the next one begins.                                       *)
Whole(p, m, a, b) ==
    /\ Agrees(Frame(m), p, a)
    /\ a + Len(Frame(m)) <= b /\ b <= Len(p)
    /\ Gap(p, a + Len(Frame(m)), b)

(* A flag as a formula that the provers leave alone.                       *)
Over(e) == e

(* The last message is there with its header and a part of its content:    *)
(* with no part of it unless the sender is gone.                           *)
Cut(p, w, e, a) ==
    /\ w # <<>>
    /\ Agrees(Frame(w), p, a)
    /\ a + Len(Header(w)) <= Len(p) /\ Len(p) < a + Len(Frame(w))
    /\ ~e => a + Len(Header(w)) = Len(p)

(* What comes behind the last whole message: nothing, or a frame that is   *)
(* cut off. One that was lost by the reader is nothing too.                *)
Ending(p, w, e, a) ==
    \/ a = Len(p) /\ (w = <<>> \/ e)
    \/ Cut(p, w, e, a)

(* The bytes p that the reader has not used yet: the frame of each message *)
(* from r + 1 on begins at s[i], all of them in order, what lies between   *)
(* them holds no separator, and the frame that is not complete comes last. *)
Layout(p, s, r, msgs, w, e) ==
    /\ \A i \in r + 1 .. Len(msgs) : Whole(p, msgs[i], s[i], s[i + 1])
    /\ Gap(p, 0, s[r + 1]) /\ s[r + 1] <= Len(p)
    /\ Ending(p, w, e, s[Len(msgs) + 1])

(* q is p without its first d bytes.                                       *)
Suffix(q, p, d) ==
    /\ Len(q) = Len(p) - d
    /\ \A k \in 1 .. Len(q) : q[k] = p[k + d]

(* q is p with bytes added.                                                *)
Longer(q, p) ==
    /\ Len(p) <= Len(q)
    /\ \A k \in 1 .. Len(p) : q[k] = p[k]

(* What the assumption on the constants says of each.                      *)
LEMMA Constants ==
    /\ Name \in Seq(Nat) /\ Len(Name) \in Nat \ {0}
    /\ Separator \in Seq(Nat) /\ Len(Separator) \in Nat \ {0}
    /\ \A m \in Bodies : m \in Seq(Nat) /\ Len(m) \in Nat \ {0} /\ m # <<>> /\ Len(m) < SizeMod
    /\ \A j \in Junks : j \in Seq(Nat) /\ Len(j) \in Nat
    /\ SizeMod \in Nat \ {0}
BY StreamAssumption

(* Where the bytes of a concatenation come from.                           *)
LEMMA Concat ==
    ASSUME NEW s \in Seq(Nat), NEW t \in Seq(Nat)
    PROVE  /\ s \o t \in Seq(Nat)
           /\ Len(s) \in Nat /\ Len(t) \in Nat /\ Len(s \o t) = Len(s) + Len(t)
           /\ \A k \in 1 .. Len(s) : (s \o t)[k] = s[k]
           /\ \A k \in 1 .. Len(t) : (s \o t)[Len(s) + k] = t[k]
OBVIOUS

(* Where the parts of a header are.                                        *)
LEMMA HeaderParts ==
    ASSUME NEW m \in Bodies
    PROVE  LET n == Len(Name)
               d == Len(Decimal[Len(m)])
               h == Header(m)
           IN  /\ h \in Seq(Nat) /\ Len(h) = n + 1 + d + Len(Separator)
               /\ d \in Nat \ {0}
               /\ \A k \in 1 .. n : h[k] = Name[k]
               /\ h[n + 1] = 32
               /\ \A k \in 1 .. d : h[n + 1 + k] = Decimal[Len(m)][k]
               /\ \A k \in 1 .. Len(Separator) : h[n + 1 + d + k] = Separator[k]
<1> DEFINE n == Len(Name)
           D == Decimal[Len(m)]
           h == Header(m)
           a == Name \o <<32>>
           b == a \o D
<1>1. D \in Seq(Nat) /\ Len(D) \in Nat \ {0}
  BY Constants, DigitsOf DEF Readable
<1>2. n \in Nat /\ Len(Separator) \in Nat
  BY Constants
<1> HIDE DEF D
<1>3. a \in Seq(Nat) /\ Len(a) = n + 1 /\ (\A k \in 1 .. n : a[k] = Name[k]) /\ a[n + 1] = 32
  BY Constants
<1> HIDE DEF a
<1>4. /\ b \in Seq(Nat) /\ Len(b) = n + 1 + Len(D)
      /\ (\A k \in 1 .. n + 1 : b[k] = a[k])
      /\ \A k \in 1 .. Len(D) : b[n + 1 + k] = D[k]
  <2>1. a \in Seq(Nat) /\ D \in Seq(Nat)
    BY <1>1, <1>3
  <2>2. /\ b \in Seq(Nat) /\ Len(b) = Len(a) + Len(D)
        /\ (\A k \in 1 .. Len(a) : b[k] = a[k])
        /\ \A k \in 1 .. Len(D) : b[Len(a) + k] = D[k]
    BY <2>1, Concat, ZenonT(40)
  <2> QED
    BY <2>2, <1>3, ZenonT(40)
<1>5. h = b \o Separator
  BY DEF Header, D, a
<1> HIDE DEF b, h
<1>6. /\ h \in Seq(Nat) /\ Len(h) = n + 1 + Len(D) + Len(Separator)
      /\ (\A k \in 1 .. n + 1 + Len(D) : h[k] = b[k])
      /\ \A k \in 1 .. Len(Separator) : h[n + 1 + Len(D) + k] = Separator[k]
  <2>1. /\ h \in Seq(Nat) /\ Len(h) = Len(b) + Len(Separator)
        /\ (\A k \in 1 .. Len(b) : h[k] = b[k])
        /\ \A k \in 1 .. Len(Separator) : h[Len(b) + k] = Separator[k]
    BY <1>4, <1>5, Constants, Concat, ZenonT(40)
  <2> QED
    BY <2>1, <1>4, ZenonT(40)
<1>7. (\A k \in 1 .. n : h[k] = Name[k]) /\ h[n + 1] = 32
  <2>1. \A k \in 1 .. n + 1 : k \in 1 .. n + 1 + Len(D)
    BY <1>1, <1>2
  <2>2. n + 1 \in 1 .. n + 1 /\ \A k \in 1 .. n : k \in 1 .. n + 1
    BY <1>2
  <2> QED
    BY <2>1, <2>2, <1>3, <1>4, <1>6, ZenonT(40)
<1>8. \A k \in 1 .. Len(D) : h[n + 1 + k] = D[k]
  <2>1. \A k \in 1 .. Len(D) : n + 1 + k \in 1 .. n + 1 + Len(D)
    BY <1>1, <1>2
  <2> QED
    BY <2>1, <1>4, <1>6, ZenonT(40)
<1> QED
  BY <1>1, <1>6, <1>7, <1>8, ZenonT(40) DEF D, h

(* Where the parts of a frame are.                                         *)
LEMMA FrameParts ==
    ASSUME NEW m \in Bodies
    PROVE  /\ Frame(m) \in Seq(Nat) /\ Len(Frame(m)) = Len(Header(m)) + Len(m)
           /\ Len(Header(m)) \in Nat /\ Len(m) \in Nat \ {0}
           /\ \A k \in 1 .. Len(Header(m)) : Frame(m)[k] = Header(m)[k]
           /\ \A k \in 1 .. Len(m) : Frame(m)[Len(Header(m)) + k] = m[k]
<1>1. Header(m) \in Seq(Nat) /\ m \in Seq(Nat) /\ Len(m) \in Nat \ {0}
  BY HeaderParts, Constants, ZenonT(40)
<1> QED
  BY <1>1 DEF Frame
-----------------------------------------------------------------------------
(* A word that is in p is in what is left of p, that much earlier.         *)
LEMMA AgreesLater ==
    ASSUME NEW p \in Seq(Nat), NEW q \in Seq(Nat), NEW d \in Nat, Suffix(q, p, d),
           NEW w \in Seq(Nat), NEW a \in Int, Agrees(w, p, a)
    PROVE  Agrees(w, q, a - d)
<1> SUFFICES ASSUME NEW k \in 1 .. Len(w), 1 <= a - d + k, a - d + k <= Len(q)
             PROVE  q[a - d + k] = w[k]
  BY DEF Agrees
<1>1. Len(w) \in Nat /\ Len(p) \in Nat /\ Len(q) \in Nat /\ Len(q) = Len(p) - d
  BY DEF Suffix
<1>2. a - d + k \in 1 .. Len(q) /\ a - d + k + d = a + k
  BY <1>1
<1>3. 1 <= a + k /\ a + k <= Len(p)
  BY <1>1, <1>2
<1>4. q[a - d + k] = p[a - d + k + d]
  BY <1>2, ZenonT(40) DEF Suffix
<1>5. p[a + k] = w[k]
  BY <1>3, ZenonT(40) DEF Agrees
<1> QED
  BY <1>2, <1>4, <1>5, ZenonT(40)

(* So is a gap,                                                            *)
LEMMA GapLater ==
    ASSUME NEW p \in Seq(Nat), NEW q \in Seq(Nat), NEW d \in Nat, Suffix(q, p, d),
           NEW a \in Int, NEW b \in Int, Gap(p, a, b)
    PROVE  Gap(q, a - d, b - d)
<1> SUFFICES ASSUME NEW k \in Nat, a - d <= k, k < b - d, At(Separator, q, k)
             PROVE  FALSE
  BY ZenonT(40) DEF Gap
<1>1. Len(p) \in Nat /\ Len(q) = Len(p) - d /\ Len(Separator) \in Nat
  BY Constants DEF Suffix
<1>2. k + d \in Nat /\ a <= k + d /\ k + d < b
  OBVIOUS
<1>3. k + Len(Separator) <= Len(q)
  BY ZenonT(40) DEF At
<1>4. k + d + Len(Separator) <= Len(p)
  BY <1>1, <1>3
<1>5. ASSUME NEW i \in 1 .. Len(Separator) PROVE p[k + d + i] = Separator[i]
  <2>1. k + i \in 1 .. Len(q) /\ k + i + d = k + d + i
    BY <1>1, <1>3
  <2>2. q[k + i] = p[k + i + d]
    BY <2>1, ZenonT(40) DEF Suffix
  <2>3. q[k + i] = Separator[i]
    BY ZenonT(40) DEF At
  <2> QED
    BY <2>1, <2>2, <2>3, ZenonT(40)
<1>6. At(Separator, p, k + d)
  BY <1>4, <1>5, ZenonT(40) DEF At
<1> QED
  BY <1>2, <1>6, ZenonT(40) DEF Gap

(* (every position is less by the bytes that were taken)                   *)
Earlier(s, d) == [i \in Nat |-> s[i] - d]

(* a whole frame,                                                          *)
LEMMA WholeLater ==
    ASSUME NEW p \in Seq(Nat), NEW q \in Seq(Nat), NEW d \in Nat, Suffix(q, p, d),
           NEW m \in Bodies, NEW a \in Int, NEW b \in Int, Whole(p, m, a, b)
    PROVE  Whole(q, m, a - d, b - d)
<1> DEFINE f == Len(Frame(m))
<1>1. Frame(m) \in Seq(Nat) /\ f \in Nat
  BY FrameParts
<1>2. Agrees(Frame(m), q, a - d)
  BY <1>1, AgreesLater, ZenonT(40) DEF Whole
<1>3. a + f <= b /\ b <= Len(p) /\ Gap(p, a + f, b)
  BY ZenonT(40) DEF Whole
<1>4. Gap(q, (a + f) - d, b - d)
  <2>1. a + f \in Int
    BY <1>1
  <2> QED
    BY <1>3, <2>1, GapLater, ZenonT(40)
<1>5. Len(q) = Len(p) - d /\ Len(p) \in Nat
  BY DEF Suffix
<1> HIDE DEF f
<1>6. (a + f) - d = (a - d) + f /\ (a - d) + f <= b - d /\ b - d <= Len(q)
  BY <1>1, <1>3, <1>5
<1>7. Gap(q, (a - d) + f, b - d)
  BY <1>4, <1>6, ZenonT(40)
<1> QED
  BY <1>2, <1>6, <1>7, ZenonT(40) DEF Whole, f

(* a frame that is cut off,                                                *)
LEMMA EndingLater ==
    ASSUME NEW p \in Seq(Nat), NEW q \in Seq(Nat), NEW d \in Nat, Suffix(q, p, d),
           NEW w \in Bodies \cup {<<>>}, NEW e, NEW a \in Int, Ending(p, w, e, a)
    PROVE  Ending(q, w, e, a - d)
<1>1. Len(q) = Len(p) - d /\ Len(p) \in Nat
  BY DEF Suffix
<1>2. CASE a = Len(p) /\ (w = <<>> \/ e)
  BY <1>1, <1>2 DEF Ending
<1>3. CASE Cut(p, w, e, a)
  <2> DEFINE f == Len(Frame(w))
             h == Len(Header(w))
  <2>1. w \in Bodies
    BY <1>3 DEF Cut
  <2>2. Frame(w) \in Seq(Nat) /\ f \in Nat /\ h \in Nat
    BY <2>1, FrameParts
  <2>3. Agrees(Frame(w), q, a - d)
    BY <1>3, <2>2, AgreesLater, ZenonT(40) DEF Cut
  <2>4. w # <<>> /\ a + h <= Len(p) /\ Len(p) < a + f /\ (~e => a + h = Len(p))
    BY <1>3, ZenonT(40) DEF Cut
  <2> HIDE DEF f, h
  <2>5. (a - d) + h <= Len(q) /\ Len(q) < (a - d) + f /\ (a + h = Len(p) => (a - d) + h = Len(q))
    BY <1>1, <2>2, <2>4
  <2>6. ~e => (a - d) + h = Len(q)
    BY <2>4, <2>5, ZenonT(40)
  <2> QED
    BY <2>3, <2>4, <2>5, <2>6, ZenonT(40) DEF Ending, Cut, f, h
<1> QED
  BY <1>2, <1>3, ZenonT(40) DEF Ending

(* and all of it: taking bytes away at the front keeps the layout.         *)
LEMMA LayoutLater ==
    ASSUME NEW p \in Seq(Nat), NEW q \in Seq(Nat), NEW d \in Nat, Suffix(q, p, d),
           NEW s \in [Nat -> Int], NEW r \in Nat, NEW msgs \in Seq(Bodies),
           NEW w \in Bodies \cup {<<>>}, NEW e, Layout(p, s, r, msgs, w, e)
    PROVE  Earlier(s, d) \in [Nat -> Int] /\ Layout(q, Earlier(s, d), r, msgs, w, e)
<1> DEFINE t == Earlier(s, d)
           n == Len(msgs)
<1>1. t \in [Nat -> Int] /\ \A i \in Nat : t[i] = s[i] - d /\ s[i] \in Int
  BY DEF Earlier
<1>2. n \in Nat /\ n + 1 \in Nat /\ r + 1 \in Nat /\ 0 - d <= 0
  OBVIOUS
<1> HIDE DEF t
<1>3. ASSUME NEW i \in r + 1 .. n PROVE Whole(q, msgs[i], t[i], t[i + 1])
  <2>1. i \in Nat /\ i + 1 \in Nat /\ msgs[i] \in Bodies
    BY <1>2
  <2>2. Whole(p, msgs[i], s[i], s[i + 1])
    BY ZenonT(40) DEF Layout
  <2>3. Whole(q, msgs[i], s[i] - d, s[i + 1] - d)
    BY <1>1, <2>1, <2>2, WholeLater, ZenonT(40)
  <2> QED
    BY <1>1, <2>1, <2>3, ZenonT(40)
<1>4. Gap(q, 0, t[r + 1])
  <2>1. Gap(p, 0, s[r + 1]) /\ s[r + 1] \in Int /\ 0 \in Int
    BY <1>1, <1>2 DEF Layout
  <2>2. Gap(q, 0 - d, s[r + 1] - d)
    BY <2>1, GapLater, ZenonT(40)
  <2>3. \A k \in Nat : 0 - d <= k
    OBVIOUS
  <2>4. Gap(q, 0, s[r + 1] - d)
    BY <2>2, <2>3, ZenonT(40) DEF Gap
  <2> QED
    BY <1>1, <1>2, <2>4, ZenonT(40)
<1>5. t[r + 1] <= Len(q)
  <2>1. s[r + 1] <= Len(p) /\ Len(q) = Len(p) - d /\ Len(p) \in Nat
    BY DEF Layout, Suffix
  <2>2. t[r + 1] = s[r + 1] - d /\ s[r + 1] \in Int
    BY <1>1, <1>2, ZenonT(40)
  <2> QED
    BY <2>1, <2>2
<1>6. Ending(q, w, e, t[n + 1])
  <2>1. Ending(p, w, e, s[n + 1]) /\ s[n + 1] \in Int
    BY <1>1, <1>2, ZenonT(40) DEF Layout
  <2>2. Ending(q, w, e, s[n + 1] - d)
    BY <2>1, EndingLater, ZenonT(40)
  <2> QED
    BY <1>1, <1>2, <2>2, ZenonT(40)
<1> QED
  BY <1>1, <1>3, <1>4, <1>5, <1>6, ZenonT(40) DEF Layout, t
-----------------------------------------------------------------------------
(* A word that is whole in p stays in anything longer.                     *)
LEMMA AgreesLonger ==
    ASSUME NEW p \in Seq(Nat), NEW q \in Seq(Nat), Longer(q, p),
           NEW w \in Seq(Nat), NEW a \in Int, Agrees(w, p, a), a + Len(w) <= Len(p)
    PROVE  Agrees(w, q, a)
<1> SUFFICES ASSUME NEW k \in 1 .. Len(w), 1 <= a + k, a + k <= Len(q)
             PROVE  q[a + k] = w[k]
  BY DEF Agrees
<1>1. a + k \in 1 .. Len(p) /\ a + k <= Len(p)
  OBVIOUS
<1>2. q[a + k] = p[a + k]
  BY <1>1, ZenonT(40) DEF Longer
<1>3. p[a + k] = w[k]
  BY <1>1, ZenonT(40) DEF Agrees
<1> QED
  BY <1>2, <1>3

(* The bytes added to p complete no separator that begins before b.        *)
Sealed(q, p, b) ==
    \/ b + Len(Separator) <= Len(p)
    \/ /\ b <= Len(p)
       /\ Len(q) > Len(p) => \A i \in 2 .. Len(Separator) : q[Len(p) + 1] # Separator[i]

(* Then a gap before b stays one.                                          *)
LEMMA GapLonger ==
    ASSUME NEW p \in Seq(Nat), NEW q \in Seq(Nat), Longer(q, p),
           NEW a \in Int, NEW b \in Int, Gap(p, a, b), Sealed(q, p, b)
    PROVE  Gap(q, a, b)
<1> SUFFICES ASSUME NEW k \in Nat, a <= k, k < b, At(Separator, q, k)
             PROVE  FALSE
  BY ZenonT(40) DEF Gap
<1> DEFINE l == Len(Separator)
<1>1. Len(p) \in Nat /\ Len(q) \in Nat /\ l \in Nat
  BY Constants
<1>2. k + l <= Len(q) /\ \A i \in 1 .. l : q[k + i] = Separator[i]
  BY ZenonT(40) DEF At
<1> HIDE DEF l
<1>3. CASE k + l <= Len(p)
  <2>1. ASSUME NEW i \in 1 .. l PROVE p[k + i] = Separator[i]
    <3>1. k + i \in 1 .. Len(p)
      BY <1>1, <1>3
    <3> QED
      BY <3>1, <1>2, ZenonT(40) DEF Longer
  <2>2. At(Separator, p, k)
    BY <1>3, <2>1, ZenonT(40) DEF At, l
  <2> QED
    BY <2>2, ZenonT(40) DEF Gap
<1>4. CASE ~(k + l <= Len(p))
  <2>1. ~(b + l <= Len(p))
    BY <1>1, <1>4
  <2>2. b <= Len(p) /\ (Len(q) > Len(p) => \A i \in 2 .. l : q[Len(p) + 1] # Separator[i])
    BY <2>1, ZenonT(40) DEF Sealed, l
  <2> DEFINE i == Len(p) + 1 - k
  <2>3. Len(q) > Len(p) /\ i \in 2 .. l /\ i \in 1 .. l /\ k + i = Len(p) + 1
    <3>1. k + l <= Len(q) /\ k + l > Len(p) /\ k < Len(p)
      BY <1>1, <1>2, <1>4, <2>2
    <3> QED
      BY <1>1, <3>1
  <2> HIDE DEF i
  <2> QED
    BY <1>2, <2>2, <2>3, ZenonT(40)
<1> QED
  BY <1>3, <1>4

(* Two gaps next to each other are one.                                    *)
LEMMA GapJoin ==
    ASSUME NEW q, NEW a \in Int, NEW b \in Int, NEW c \in Int, Gap(q, a, b), Gap(q, b, c)
    PROVE  Gap(q, a, c)
<1> SUFFICES ASSUME NEW k \in Nat, a <= k, k < c PROVE ~At(Separator, q, k)
  BY ZenonT(40) DEF Gap
<1>1. k < b \/ b <= k
  OBVIOUS
<1> QED
  BY <1>1, ZenonT(40) DEF Gap

(* A whole frame stays when bytes are added.                               *)
LEMMA WholeLonger ==
    ASSUME NEW p \in Seq(Nat), NEW q \in Seq(Nat), Longer(q, p),
           NEW m \in Bodies, NEW a \in Int, NEW b \in Int, Whole(p, m, a, b), Sealed(q, p, b)
    PROVE  Whole(q, m, a, b)
<1> DEFINE f == Len(Frame(m))
<1>1. Frame(m) \in Seq(Nat) /\ f \in Nat /\ Len(p) \in Nat /\ Len(q) \in Nat
  BY FrameParts
<1>2. Agrees(Frame(m), p, a) /\ a + f <= b /\ b <= Len(p) /\ Gap(p, a + f, b)
  BY ZenonT(40) DEF Whole
<1>3. Len(p) <= Len(q)
  BY ZenonT(40) DEF Longer
<1>4. Agrees(Frame(m), q, a)
  <2>1. a + f <= Len(p)
    BY <1>1, <1>2
  <2> QED
    BY <1>1, <1>2, <2>1, AgreesLonger, ZenonT(40)
<1>5. Gap(q, a + f, b)
  <2>1. a + f \in Int
    BY <1>1
  <2> QED
    BY <1>2, <2>1, GapLonger, ZenonT(40)
<1>6. b <= Len(q)
  BY <1>1, <1>2, <1>3
<1> QED
  BY <1>2, <1>4, <1>5, <1>6, ZenonT(40) DEF Whole

(* All the whole frames do.                                                *)
LEMMA LayoutLonger ==
    ASSUME NEW p \in Seq(Nat), NEW q \in Seq(Nat), Longer(q, p),
           NEW s \in [Nat -> Int], NEW msgs \in Seq(Bodies), NEW r \in 0 .. Len(msgs),
           NEW w, NEW e, Layout(p, s, r, msgs, w, e),
           \A i \in r + 1 .. Len(msgs) + 1 : Sealed(q, p, s[i])
    PROVE  /\ \A i \in r + 1 .. Len(msgs) : Whole(q, msgs[i], s[i], s[i + 1])
           /\ Gap(q, 0, s[r + 1]) /\ s[r + 1] <= Len(q)
<1> DEFINE n == Len(msgs)
<1>1. n \in Nat /\ r \in Nat /\ r + 1 \in r + 1 .. n + 1 /\ s[r + 1] \in Int /\ 0 \in Int
  OBVIOUS
<1>2. ASSUME NEW i \in r + 1 .. n PROVE Whole(q, msgs[i], s[i], s[i + 1])
  <2>1. i + 1 \in r + 1 .. n + 1 /\ s[i] \in Int /\ s[i + 1] \in Int /\ msgs[i] \in Bodies
    BY <1>1
  <2>2. Whole(p, msgs[i], s[i], s[i + 1])
    BY ZenonT(40) DEF Layout
  <2> QED
    BY <2>1, <2>2, WholeLonger, ZenonT(40)
<1>3. Gap(q, 0, s[r + 1])
  BY <1>1, GapLonger, ZenonT(40) DEF Layout
<1>4. s[r + 1] <= Len(q)
  <2>1. s[r + 1] <= Len(p) /\ Len(p) <= Len(q) /\ Len(p) \in Nat /\ Len(q) \in Nat
    BY DEF Layout, Longer
  <2> QED
    BY <1>1, <2>1
<1> QED
  BY <1>2, <1>3, <1>4, ZenonT(40)

(* Frames begin inside of p.                                               *)
LEMMA WithinBytes ==
    ASSUME NEW p \in Seq(Nat), NEW s \in [Nat -> Int], NEW msgs \in Seq(Bodies),
           NEW r \in 0 .. Len(msgs), NEW w, NEW e, Layout(p, s, r, msgs, w, e),
           NEW i \in r + 1 .. Len(msgs) + 1
    PROVE  s[i] <= Len(p)
<1> DEFINE n == Len(msgs)
<1>1. n \in Nat /\ r \in Nat
  OBVIOUS
<1>2. CASE i = r + 1
  BY <1>2, ZenonT(40) DEF Layout
<1>3. CASE i # r + 1
  <2>1. i - 1 \in r + 1 .. n /\ i - 1 + 1 = i
    BY <1>1, <1>3
  <2> QED
    BY <2>1, ZenonT(40) DEF Layout, Whole
<1> QED
  BY <1>2, <1>3
-----------------------------------------------------------------------------
(* A header is longer than its parts.                                      *)
LEMMA HeaderSize ==
    ASSUME NEW m \in Bodies
    PROVE  /\ Header(m) \in Seq(Nat) /\ Len(Header(m)) \in Nat
           /\ Len(Header(m)) > Len(Separator) /\ Len(Header(m)) > Len(Name) + 1
           /\ Header(m)[1] = Name[1]
           /\ Len(Decimal[Len(m)]) \in Nat
           /\ Len(Header(m)) = Len(Name) + 1 + Len(Decimal[Len(m)]) + Len(Separator)
<1> DEFINE d == Len(Decimal[Len(m)])
           h == Header(m)
<1>1. Len(Name) \in Nat \ {0} /\ 1 \in 1 .. Len(Name) /\ Len(Separator) \in Nat \ {0}
  BY Constants
<1>2. /\ h \in Seq(Nat) /\ Len(h) = Len(Name) + 1 + d + Len(Separator) /\ d \in Nat \ {0}
      /\ h[1] = Name[1]
  BY <1>1, HeaderParts, ZenonT(40)
<1> HIDE DEF d, h
<1>3. Len(h) \in Nat /\ Len(h) > Len(Separator) /\ Len(h) > Len(Name) + 1 /\ d \in Nat
  BY <1>1, <1>2
<1> QED
  BY <1>2, <1>3, ZenonT(40) DEF h, d

(* A first byte that no separator goes on with seals everything.           *)
LEMMA AllSealed ==
    ASSUME NEW p \in Seq(Nat), NEW q, NEW s \in [Nat -> Int], NEW msgs \in Seq(Bodies),
           NEW r \in 0 .. Len(msgs), NEW w, NEW e, Layout(p, s, r, msgs, w, e),
           Len(q) > Len(p) => \A i \in 2 .. Len(Separator) : q[Len(p) + 1] # Separator[i]
    PROVE  \A i \in r + 1 .. Len(msgs) + 1 : Sealed(q, p, s[i])
BY WithinBytes, ZenonT(40) DEF Sealed

(* Writing a header keeps the layout, with its message as the last one.    *)
LEMMA HeaderWritten ==
    ASSUME NEW p \in Seq(Nat), NEW m \in Bodies, NEW s \in [Nat -> Int],
           NEW msgs \in Seq(Bodies), NEW r \in 0 .. Len(msgs), NEW e,
           Unmistakable, Layout(p, s, r, msgs, <<>>, e)
    PROVE  Layout(p \o Header(m), s, r, msgs, m, e)
<1> DEFINE h == Header(m)
           q == p \o h
           n == Len(msgs)
<1>1. /\ h \in Seq(Nat) /\ Len(h) \in Nat \ {0} /\ h[1] = Name[1] /\ m # <<>>
      /\ Frame(m) \in Seq(Nat) /\ Len(Frame(m)) = Len(h) + Len(m) /\ Len(m) \in Nat \ {0}
      /\ \A k \in 1 .. Len(h) : Frame(m)[k] = h[k]
  <2>1. m # <<>> /\ Len(Separator) \in Nat
    BY Constants
  <2>2. h \in Seq(Nat) /\ Len(h) \in Nat \ {0} /\ h[1] = Name[1]
    <3>1. h \in Seq(Nat) /\ Len(h) \in Nat /\ Len(h) > Len(Separator) /\ h[1] = Name[1]
      BY HeaderSize, ZenonT(40)
    <3> QED
      BY <2>1, <3>1
  <2> QED
    BY <2>1, <2>2, FrameParts, ZenonT(40)
<1> HIDE DEF h
<1>2. /\ q \in Seq(Nat) /\ Len(p) \in Nat /\ Len(q) = Len(p) + Len(h)
      /\ \A k \in 1 .. Len(p) : q[k] = p[k]
      /\ \A k \in 1 .. Len(h) : q[Len(p) + k] = h[k]
  BY <1>1, Concat, ZenonT(40)
<1> HIDE DEF q
<1>3. Longer(q, p)
  BY <1>1, <1>2 DEF Longer
<1>4. \A i \in 2 .. Len(Separator) : q[Len(p) + 1] # Separator[i]
  <2>1. q[Len(p) + 1] = Name[1]
    <3>1. 1 \in 1 .. Len(h)
      BY <1>1
    <3> QED
      BY <3>1, <1>1, <1>2, ZenonT(40)
  <2>2. \A i \in 2 .. Len(Separator) : i \in 1 .. Len(Separator)
    BY Constants
  <2> QED
    BY <2>1, <2>2, ZenonT(40) DEF Unmistakable
<1>5. \A i \in r + 1 .. n + 1 : Sealed(q, p, s[i])
  BY <1>4, AllSealed, ZenonT(40)
<1>6. /\ \A i \in r + 1 .. n : Whole(q, msgs[i], s[i], s[i + 1])
      /\ Gap(q, 0, s[r + 1]) /\ s[r + 1] <= Len(q)
  BY <1>2, <1>3, <1>5, LayoutLonger, ZenonT(40)
<1>7. s[n + 1] = Len(p)
  BY ZenonT(40) DEF Layout, Ending, Cut
<1>8. Agrees(Frame(m), q, Len(p))
  <2> SUFFICES ASSUME NEW k \in 1 .. Len(Frame(m)), Len(p) + k <= Len(q)
               PROVE  q[Len(p) + k] = Frame(m)[k]
    BY ZenonT(40) DEF Agrees
  <2>1. k \in 1 .. Len(h)
    BY <1>1, <1>2
  <2> QED
    BY <2>1, <1>1, <1>2, ZenonT(40)
<1>9. Len(p) + Len(h) <= Len(q) /\ Len(q) < Len(p) + Len(Frame(m)) /\ Len(p) + Len(h) = Len(q)
  BY <1>1, <1>2
<1>10. Cut(q, m, e, s[n + 1])
  BY <1>1, <1>7, <1>8, <1>9, ZenonT(40) DEF Cut, h
<1> QED
  BY <1>6, <1>10, ZenonT(40) DEF Layout, Ending, q, h

(* t is s with the value v at i.                                           *)
Moved(s, t, i, v) ==
    /\ t \in [Nat -> Int] /\ t[i] = v
    /\ \A k \in Nat : k # i => t[k] = s[k]

(* There is always such a t.                                               *)
LEMMA Move ==
    ASSUME NEW s \in [Nat -> Int], NEW i \in Nat, NEW v \in Int
    PROVE  \E t : Moved(s, t, i, v)
<1> DEFINE t == [s EXCEPT ![i] = v]
<1>1. Moved(s, t, i, v)
  BY DEF Moved
<1> QED
  BY <1>1, ZenonT(40)

(* Writing junk keeps the layout: the next frame begins behind it.         *)
LEMMA JunkWritten ==
    ASSUME NEW p \in Seq(Nat), NEW j \in Junks, NEW s \in [Nat -> Int],
           NEW msgs \in Seq(Bodies), NEW r \in 0 .. Len(msgs), NEW e,
           Unmistakable, Layout(p, s, r, msgs, <<>>, e),
           NEW t, Moved(s, t, Len(msgs) + 1, Len(p \o j))
    PROVE  Layout(p \o j, t, r, msgs, <<>>, e)
<1> DEFINE q == p \o j
           n == Len(msgs)
<1>1. j \in Seq(Nat) /\ Len(j) \in Nat /\ j # <<>> /\ Len(Separator) \in Nat
  BY Constants DEF Unmistakable
<1>2. /\ q \in Seq(Nat) /\ Len(p) \in Nat /\ Len(q) = Len(p) + Len(j)
      /\ \A k \in 1 .. Len(p) : q[k] = p[k]
      /\ \A k \in 1 .. Len(j) : q[Len(p) + k] = j[k]
  BY <1>1, Concat, ZenonT(40)
<1>3. n \in Nat /\ n + 1 \in Nat /\ r \in Nat /\ Len(q) \in Int /\ Len(p) <= Len(q)
  <2>1. n \in Nat /\ n + 1 \in Nat /\ r \in Nat
    OBVIOUS
  <2>2. Len(q) = Len(p) + Len(j) /\ Len(p) \in Nat /\ Len(j) \in Nat
    BY <1>1, <1>2, ZenonT(40)
  <2> HIDE DEF q
  <2>3. Len(q) \in Int /\ Len(p) <= Len(q)
    BY <2>2
  <2> QED
    BY <2>1, <2>3, ZenonT(40)
<1>4. t \in [Nat -> Int] /\ t[n + 1] = Len(q) /\ \A i \in Nat : i # n + 1 => t[i] = s[i]
  BY ZenonT(40) DEF Moved
<1> HIDE DEF q
<1>5. Longer(q, p)
  BY <1>2, <1>3, ZenonT(40) DEF Longer
<1>6. \A i \in 2 .. Len(Separator) : q[Len(p) + 1] # Separator[i]
  <2>1. 1 \in 1 .. Len(j)
    BY <1>1
  <2>2. q[Len(p) + 1] = j[1]
    BY <2>1, <1>2, ZenonT(40)
  <2> QED
    BY <2>2, ZenonT(40) DEF Unmistakable
<1>7. \A i \in r + 1 .. n + 1 : Sealed(q, p, s[i])
  BY <1>6, AllSealed, ZenonT(40)
<1>8. /\ \A i \in r + 1 .. n : Whole(q, msgs[i], s[i], s[i + 1])
      /\ Gap(q, 0, s[r + 1]) /\ s[r + 1] <= Len(q)
  BY <1>2, <1>5, <1>7, LayoutLonger, ZenonT(40)
<1>9. s[n + 1] = Len(p)
  BY ZenonT(40) DEF Layout, Ending, Cut
<1>10. Gap(q, Len(p), Len(q))
  <2> SUFFICES ASSUME NEW k \in Nat, Len(p) <= k, k < Len(q), At(Separator, q, k)
               PROVE  FALSE
    BY ZenonT(40) DEF Gap
  <2> DEFINE l == k - Len(p)
  <2>1. l \in 0 .. Len(j) /\ Len(p) + l = k
    BY <1>1, <1>2
  <2>2. k + Len(Separator) <= Len(q) /\ \A i \in 1 .. Len(Separator) : q[k + i] = Separator[i]
    BY ZenonT(40) DEF At
  <2> HIDE DEF l
  <2>3. l + Len(Separator) <= Len(j)
    BY <1>1, <1>2, <2>1, <2>2
  <2>4. ASSUME NEW i \in 1 .. Len(Separator) PROVE j[l + i] = Separator[i]
    <3>1. l + i \in 1 .. Len(j) /\ Len(p) + (l + i) = k + i
      <4>1. /\ Len(p) \in Nat /\ Len(j) \in Nat /\ Len(Separator) \in Nat
            /\ l \in Nat /\ Len(p) + l = k
        BY <1>1, <1>2, <2>1
      <4>2. l + i \in 1 .. Len(j)
        BY <4>1, <2>3
      <4>3. Len(p) + (l + i) = k + i
        <5>1. i \in Nat /\ l \in Nat /\ Len(p) \in Nat
          BY <4>1
        <5>2. \A a, b, c \in Nat : a + (b + c) = (a + b) + c
          OBVIOUS
        <5>3. Len(p) + (l + i) = (Len(p) + l) + i
          BY <5>1, <5>2, ZenonT(40)
        <5> QED
          BY <4>1, <5>3, ZenonT(40)
      <4> QED
        BY <4>2, <4>3
    <3> QED
      BY <3>1, <1>2, <2>2, ZenonT(40)
  <2>5. At(Separator, j, l)
    BY <2>3, <2>4, ZenonT(40) DEF At
  <2> QED
    BY <2>1, <2>5, ZenonT(40) DEF Unmistakable
<1>11. ASSUME NEW i \in r + 1 .. n PROVE Whole(q, msgs[i], t[i], t[i + 1])
  <2>1. i \in Nat /\ i + 1 \in Nat /\ i # n + 1 /\ t[i] = s[i] /\ s[i] \in Int /\ msgs[i] \in Bodies
    <3>1. i \in Nat /\ i + 1 \in Nat /\ i # n + 1
      BY <1>3
    <3>2. s[i] \in Int /\ msgs[i] \in Bodies
      BY <1>3, <3>1
    <3> QED
      BY <3>1, <3>2, <1>4, ZenonT(40)
  <2>2. CASE i + 1 # n + 1
    BY <2>1, <2>2, <1>4, <1>8, ZenonT(40)
  <2>3. CASE i + 1 = n + 1
    <3> DEFINE f == s[i] + Len(Frame(msgs[i]))
    <3>1. Agrees(Frame(msgs[i]), q, s[i]) /\ f <= Len(p) /\ Gap(q, f, Len(p))
      BY <1>8, <1>9, <2>3, ZenonT(40) DEF Whole
    <3>2. f \in Int
      BY <2>1, FrameParts
    <3> HIDE DEF f
    <3>3. Gap(q, f, Len(q)) /\ f <= Len(q) /\ Len(q) <= Len(q)
      <4>1. Len(p) \in Int /\ Len(q) \in Int
        BY <1>2, <1>3
      <4>2. Gap(q, f, Len(q))
        BY <3>1, <3>2, <4>1, <1>10, GapJoin, ZenonT(40)
      <4>3. f <= Len(q) /\ Len(q) <= Len(q)
        BY <3>1, <3>2, <4>1, <1>3
      <4> QED
        BY <4>2, <4>3
    <3> QED
      BY <2>1, <2>3, <3>1, <3>3, <1>4, ZenonT(40) DEF Whole, f
  <2> QED
    BY <2>2, <2>3
<1>12. Gap(q, 0, t[r + 1]) /\ t[r + 1] <= Len(q)
  <2>1. CASE r = n
    <3>1. Gap(q, 0, Len(p)) /\ 0 \in Int /\ Len(p) \in Int /\ Len(q) <= Len(q)
      BY <1>2, <1>3, <1>8, <1>9, <2>1
    <3>2. Gap(q, 0, Len(q))
      BY <3>1, <1>3, <1>10, GapJoin, ZenonT(40)
    <3> QED
      BY <2>1, <3>1, <3>2, <1>4, ZenonT(40)
  <2>2. CASE r # n
    <3>1. r + 1 \in Nat /\ r + 1 # n + 1
      BY <1>3, <2>2
    <3> QED
      BY <3>1, <1>4, <1>8, ZenonT(40)
  <2> QED
    BY <2>1, <2>2
<1>13. Ending(q, <<>>, e, t[n + 1])
  BY <1>4, ZenonT(40) DEF Ending
<1> QED
  BY <1>4, <1>11, <1>12, <1>13, ZenonT(40) DEF Layout, q

(* The positions of frames are indexed by natural numbers.                 *)
LEMMA Index ==
    ASSUME NEW r \in Nat, NEW n \in Nat, NEW i \in r + 1 .. n + 1
    PROVE  i \in Nat /\ i + 1 \in Nat /\ i # n + 2
OBVIOUS

(* An index other than the last is that of a message written in full.      *)
LEMMA IndexBelow ==
    ASSUME NEW r \in Nat, NEW n \in Nat, NEW i \in r + 1 .. n + 1, i # n + 1
    PROVE  i \in r + 1 .. n /\ i \in 1 .. n /\ i + 1 # n + 2
OBVIOUS

(* The length and the elements of a sequence.                              *)
LEMMA Length ==
    ASSUME NEW S, NEW s \in Seq(S)
    PROVE  Len(s) \in Nat /\ \A i \in 1 .. Len(s) : s[i] \in S
OBVIOUS

(* u is the first k bytes of w, and not all of them.                       *)
Piece(u, w, k) ==
    /\ k \in 0 .. Len(w) /\ (k = 0 \/ k < Len(w))
    /\ u \in Seq(Nat) /\ Len(u) = k /\ \A i \in 1 .. k : u[i] = w[i]

(* SubSeq takes such a piece.                                              *)
LEMMA Beginning ==
    ASSUME NEW w \in Seq(Nat), NEW k \in 0 .. Len(w), k = 0 \/ k < Len(w)
    PROVE  Piece(SubSeq(w, 1, k), w, k)
BY DEF Piece

(* Arithmetic on the end of a frame.                                       *)
LEMMA RoomSum ==
    ASSUME NEW a \in Int, NEW b \in Int, NEW h \in Nat, NEW l \in Nat, NEW k \in Nat,
           NEW n \in Nat, h > l
    PROVE  /\ a + h <= n => a + l <= n
           /\ a + (h + k) <= b /\ b <= n => a + l <= n
OBVIOUS

(* The same, when the content is added,                                    *)
LEMMA BodyWhole ==
    ASSUME NEW a \in Int, NEW h \in Nat, NEW b \in Nat, NEW n \in Nat, a + h = n
    PROVE  a + (h + b) = n + b
OBVIOUS

(* and when a part of it is.                                               *)
LEMMA BodyPart ==
    ASSUME NEW a \in Int, NEW h \in Nat, NEW b \in Nat, NEW n \in Nat, NEW l \in 0 .. b,
           a + h = n, l < b
    PROVE  a + h <= n + l /\ n + l < a + (h + b)
OBVIOUS

(* With a header at the end, no frame begins too late for a separator.     *)
LEMMA Room ==
    ASSUME NEW p \in Seq(Nat), NEW s \in [Nat -> Int], NEW msgs \in Seq(Bodies),
           NEW r \in 0 .. Len(msgs), NEW w \in Bodies, NEW e, Layout(p, s, r, msgs, w, e),
           Cut(p, w, e, s[Len(msgs) + 1]),
           NEW i \in r + 1 .. Len(msgs) + 1
    PROVE  s[i] + Len(Separator) <= Len(p)
<1> DEFINE n == Len(msgs)
<1>1. n \in Nat /\ Len(p) \in Nat /\ Len(Separator) \in Nat
  BY Length, Constants, ZenonT(40)
<1>2. r \in Nat
  BY <1>1
<1>3. s[i] \in Int /\ s[i + 1] \in Int
  BY <1>1, <1>2, Index, ZenonT(40)
<1>4. CASE i = n + 1
  <2>1. s[i] + Len(Header(w)) <= Len(p)
    BY <1>4, ZenonT(40) DEF Cut
  <2>2. Len(Header(w)) \in Nat /\ Len(Header(w)) > Len(Separator)
    BY HeaderSize, ZenonT(40)
  <2> QED
    BY <2>1, <2>2, <1>1, <1>3, RoomSum, ZenonT(40)
<1>5. CASE i # n + 1
  <2> DEFINE m == msgs[i]
  <2>1. i \in r + 1 .. n /\ m \in Bodies
    <3>1. n \in Nat
      BY <1>1
    <3>2. i \in r + 1 .. n /\ i \in 1 .. n
      BY <3>1, <1>2, <1>5, IndexBelow, ZenonT(40)
    <3> QED
      BY <3>2, Length, ZenonT(40)
  <2>2. s[i] + Len(Frame(m)) <= s[i + 1] /\ s[i + 1] <= Len(p)
    BY <2>1, ZenonT(40) DEF Layout, Whole
  <2> HIDE DEF m
  <2>3. Len(Frame(m)) = Len(Header(m)) + Len(m) /\ Len(m) \in Nat
    BY <2>1, FrameParts, ZenonT(40)
  <2>4. Len(Header(m)) \in Nat /\ Len(Header(m)) > Len(Separator)
    BY <2>1, HeaderSize, ZenonT(40)
  <2>5. s[i] + (Len(Header(m)) + Len(m)) <= s[i + 1]
    BY <2>2, <2>3, ZenonT(40)
  <2> QED
    BY <2>2, <2>3, <2>4, <2>5, <1>1, <1>3, RoomSum, ZenonT(40)
<1> QED
  BY <1>4, <1>5

(* Adding bytes of the content makes more of the frame appear.             *)
LEMMA BodyAgrees ==
    ASSUME NEW p \in Seq(Nat), NEW q \in Seq(Nat), Longer(q, p), NEW w \in Bodies,
           NEW a \in Int, Agrees(Frame(w), p, a), a + Len(Header(w)) = Len(p),
           NEW l \in 0 .. Len(w), Len(q) = Len(p) + l,
           \A i \in 1 .. l : q[Len(p) + i] = w[i]
    PROVE  Agrees(Frame(w), q, a)
<1> SUFFICES ASSUME NEW k \in 1 .. Len(Frame(w)), 1 <= a + k, a + k <= Len(q)
             PROVE  q[a + k] = Frame(w)[k]
  BY ZenonT(40) DEF Agrees
<1> DEFINE h == Len(Header(w))
<1>1. /\ h \in Nat /\ Len(w) \in Nat /\ Len(p) \in Nat /\ Len(Frame(w)) \in Nat
      /\ \A i \in 1 .. Len(w) : Frame(w)[h + i] = w[i]
  BY FrameParts, Length, Constants, ZenonT(40)
<1>2. CASE a + k <= Len(p)
  <2>1. a + k \in 1 .. Len(p)
    BY <1>1, <1>2
  <2>2. q[a + k] = p[a + k]
    BY <2>1, ZenonT(40) DEF Longer
  <2>3. p[a + k] = Frame(w)[k]
    BY <1>2, ZenonT(40) DEF Agrees
  <2> QED
    BY <2>2, <2>3
<1>3. CASE ~(a + k <= Len(p))
  <2>1. ~(a + k <= a + h) /\ a + k <= (a + h) + l
    BY <1>3, ZenonT(40)
  <2>2. h \in Nat /\ Len(w) \in Nat /\ k \in Nat
    BY <1>1
  <2> HIDE DEF h
  <2>3. PICK i \in 1 .. l : i \in 1 .. Len(w) /\ (a + h) + i = a + k /\ h + i = k
    BY <2>1, <2>2
  <2>4. q[Len(p) + i] = w[i] /\ Len(p) = a + h
    BY ZenonT(40) DEF h
  <2> QED
    BY <2>3, <2>4, <1>1, ZenonT(40)
<1> QED
  BY <1>2, <1>3

(* Writing the content keeps the layout, with one whole frame more.        *)
LEMMA ContentWritten ==
    ASSUME NEW p \in Seq(Nat), NEW w \in Bodies, NEW s \in [Nat -> Int],
           NEW msgs \in Seq(Bodies), NEW r \in 0 .. Len(msgs), NEW e, ~Over(e),
           Layout(p, s, r, msgs, w, e),
           NEW t, Moved(s, t, Len(msgs) + 2, Len(p \o w))
    PROVE  Layout(p \o w, t, r, Append(msgs, w), <<>>, e)
<1> DEFINE q == p \o w
           n == Len(msgs)
           ms == Append(msgs, w)
<1>1. w \in Seq(Nat) /\ Len(w) \in Nat /\ w # <<>>
  BY Constants
<1>2. /\ q \in Seq(Nat) /\ Len(p) \in Nat /\ Len(q) = Len(p) + Len(w)
      /\ \A k \in 1 .. Len(p) : q[k] = p[k]
      /\ \A k \in 1 .. Len(w) : q[Len(p) + k] = w[k]
  BY <1>1, Concat, ZenonT(40)
<1> HIDE DEF q
<1>3. Len(q) \in Int /\ Len(p) <= Len(q)
  BY <1>1, <1>2
<1>4. Longer(q, p)
  BY <1>2, <1>3, ZenonT(40) DEF Longer
<1>5. Cut(p, w, e, s[n + 1])
  BY <1>1, ZenonT(40) DEF Layout, Ending, Over
<1>6. \A i \in r + 1 .. n + 1 : Sealed(q, p, s[i])
  BY <1>5, Room, ZenonT(40) DEF Sealed
<1>7. /\ \A i \in r + 1 .. n : Whole(q, msgs[i], s[i], s[i + 1])
      /\ Gap(q, 0, s[r + 1]) /\ s[r + 1] <= Len(q)
  BY <1>2, <1>4, <1>6, LayoutLonger, ZenonT(40)
<1>8. n \in Nat /\ n + 1 \in Nat /\ n + 2 \in Nat /\ r \in Nat /\ s[n + 1] \in Int
  <2>1. n \in Nat
    BY Length, ZenonT(40)
  <2>2. n + 1 \in Nat /\ n + 2 \in Nat /\ r \in Nat
    BY <2>1
  <2> QED
    BY <2>1, <2>2
<1>9. t \in [Nat -> Int] /\ t[n + 2] = Len(q) /\ \A i \in Nat : i # n + 2 => t[i] = s[i]
  BY ZenonT(40) DEF Moved, q
<1>10. Len(ms) = n + 1 /\ ms[n + 1] = w /\ \A i \in 1 .. n : ms[i] = msgs[i]
  OBVIOUS
<1> HIDE DEF ms
<1>11. Whole(q, w, s[n + 1], Len(q))
  <2> DEFINE a == s[n + 1]
             f == Len(Frame(w))
             h == Len(Header(w))
  <2>1. Agrees(Frame(w), p, a) /\ a + h = Len(p)
    BY <1>5, ZenonT(40) DEF Cut, Over
  <2>2. f = h + Len(w) /\ h \in Nat
    BY FrameParts, ZenonT(40)
  <2>3. Agrees(Frame(w), q, a)
    <3>1. Len(w) \in 0 .. Len(w)
      BY <1>1
    <3> QED
      BY <2>1, <3>1, <1>2, <1>4, <1>8, BodyAgrees, ZenonT(40)
  <2>4. a + f = Len(q)
    <3>2. a + (h + Len(w)) = Len(p) + Len(w)
      <4>1. a \in Int /\ h \in Nat /\ Len(w) \in Nat /\ Len(p) \in Nat /\ a + h = Len(p)
        BY <2>1, <2>2, <1>1, <1>2, <1>8, ZenonT(40)
      <4> QED
        BY <4>1, BodyWhole, ZenonT(40)
    <3> QED
      BY <2>2, <3>2, <1>2, ZenonT(40)
  <2>6. Len(q) <= Len(q)
    BY <1>3
  <2>5. Gap(q, Len(q), Len(q))
    BY <1>3 DEF Gap
  <2> QED
    BY <2>3, <2>4, <2>5, <2>6, ZenonT(40) DEF Whole
<1>12. ASSUME NEW i \in r + 1 .. n + 1 PROVE Whole(q, ms[i], t[i], t[i + 1])
  <2>4. n \in Nat /\ r \in Nat
    BY <1>8
  <2>1. i \in Nat /\ i + 1 \in Nat /\ i # n + 2
    BY <2>4, Index, ZenonT(40)
  <2>2. CASE i = n + 1
    <3>1. i + 1 = n + 2
      BY <2>2, <2>4
    <3> QED
      BY <2>1, <2>2, <3>1, <1>9, <1>10, <1>11, ZenonT(40)
  <2>3. CASE i # n + 1
    <3>1. i \in r + 1 .. n /\ i \in 1 .. n /\ i + 1 # n + 2
      BY <2>3, <2>4, IndexBelow, ZenonT(40)
    <3> QED
      BY <2>1, <3>1, <1>7, <1>9, <1>10, ZenonT(40)
  <2> QED
    BY <2>2, <2>3
<1>13. t[r + 1] = s[r + 1]
  <2>1. r + 1 \in Nat /\ r + 1 # n + 2
    BY <1>8
  <2> QED
    BY <2>1, <1>9, ZenonT(40)
<1>14. Ending(q, <<>>, e, t[Len(ms) + 1])
  <2>1. Len(ms) + 1 = n + 2
    BY <1>8, <1>10
  <2> QED
    BY <2>1, <1>9, ZenonT(40) DEF Ending
<1> QED
  BY <1>7, <1>9, <1>10, <1>12, <1>13, <1>14, ZenonT(40) DEF Layout, q, ms

(* A sender that ends, with a part of the content written or none, keeps   *)
(* the layout.                                                             *)
LEMMA SenderEnds ==
    ASSUME NEW p \in Seq(Nat), NEW w \in Bodies \cup {<<>>}, NEW s \in [Nat -> Int],
           NEW msgs \in Seq(Bodies), NEW r \in 0 .. Len(msgs), NEW e, ~Over(e),
           Layout(p, s, r, msgs, w, e),
           NEW u, NEW k, Piece(u, w, k), NEW g, Over(g)
    PROVE  Layout(p \o u, s, r, msgs, w, g)
<1> DEFINE q == p \o u
           n == Len(msgs)
<1>1. CASE w = <<>>
  <2>1. u \in Seq(Nat) /\ Len(u) = k /\ k = 0
    BY <1>1 DEF Piece
  <2>4. u = <<>>
    BY <2>1
  <2>2. p \o u = p
    BY <2>4, NothingAppended, ZenonT(40)
  <2>3. s[n + 1] = Len(p)
    BY <1>1, ZenonT(40) DEF Layout, Ending, Cut
  <2> QED
    BY <2>2, <2>3, ZenonT(40) DEF Layout, Ending, Over
<1>2. CASE w # <<>>
  <2>1. /\ w \in Bodies /\ w \in Seq(Nat) /\ Len(w) \in Nat \ {0}
        /\ k < Len(w) /\ k \in Nat /\ k \in 0 .. Len(w)
    BY <1>2, Constants DEF Piece
  <2>2. u \in Seq(Nat) /\ Len(u) = k /\ \A i \in 1 .. k : u[i] = w[i]
    BY ZenonT(40) DEF Piece
  <2>3. /\ q \in Seq(Nat) /\ Len(p) \in Nat /\ Len(q) = Len(p) + Len(u)
        /\ \A i \in 1 .. Len(p) : q[i] = p[i]
        /\ \A i \in 1 .. Len(u) : q[Len(p) + i] = u[i]
    BY <2>2, Concat, ZenonT(40)
  <2> HIDE DEF q
  <2>4. Longer(q, p)
    <3>1. Len(p) + k >= Len(p)
      BY <2>1, <2>3
    <3>2. Len(p) <= Len(q)
      BY <2>2, <2>3, <3>1
    <3> QED
      BY <2>3, <3>2, ZenonT(40) DEF Longer
  <2>5. Cut(p, w, e, s[n + 1])
    BY <1>2, ZenonT(40) DEF Layout, Ending, Over
  <2>6. \A i \in r + 1 .. n + 1 : Sealed(q, p, s[i])
    BY <2>1, <2>5, Room, ZenonT(40) DEF Sealed
  <2>7. /\ \A i \in r + 1 .. n : Whole(q, msgs[i], s[i], s[i + 1])
        /\ Gap(q, 0, s[r + 1]) /\ s[r + 1] <= Len(q)
    BY <2>3, <2>4, <2>6, LayoutLonger, ZenonT(40)
  <2>8. Cut(q, w, g, s[n + 1])
    <3> DEFINE a == s[n + 1]
               f == Len(Frame(w))
               h == Len(Header(w))
    <3>1. Agrees(Frame(w), p, a) /\ a + h = Len(p)
      BY <2>5, ZenonT(40) DEF Cut, Over
    <3>2. f = h + Len(w) /\ h \in Nat
      BY <2>1, FrameParts, ZenonT(40)
    <3>5. a \in Int
      <4>1. n \in Nat
        BY Length, ZenonT(40)
      <4>2. n + 1 \in Nat
        BY <4>1
      <4> QED
        BY <4>2
    <3>3. Agrees(Frame(w), q, a)
      <4>1. \A i \in 1 .. k : q[Len(p) + i] = w[i]
        BY <2>2, <2>3, ZenonT(40)
      <4> QED
        BY <2>1, <2>2, <2>3, <2>4, <3>1, <3>5, <4>1, BodyAgrees, ZenonT(40)
    <3>4. a + h <= Len(q) /\ Len(q) < a + f
      <4>1. Len(w) \in Nat
        BY <2>1
      <4>2. a + h <= Len(p) + k /\ Len(p) + k < a + (h + Len(w))
        BY <2>1, <2>3, <3>1, <3>2, <3>5, <4>1, BodyPart, ZenonT(40)
      <4> QED
        BY <2>2, <2>3, <3>2, <4>2, ZenonT(40)
    <3> QED
      BY <1>2, <3>3, <3>4, ZenonT(40) DEF Cut, Over
  <2> QED
    BY <2>7, <2>8, ZenonT(40) DEF Layout, Ending, q
<1> QED
  BY <1>1, <1>2, ZenonT(40)
-----------------------------------------------------------------------------
(* The message that the reader comes to next.                              *)
Current(r, msgs, w) == IF r < Len(msgs) THEN msgs[r + 1] ELSE w

(* Whether its frame is whole: that of a message sent is, that of the one  *)
(* being written is not.                                                   *)
Extent(p, r, msgs, w, m, x) ==
    \/ r < Len(msgs) /\ m = msgs[r + 1] /\ x + Len(Frame(m)) <= Len(p)
    \/ r = Len(msgs) /\ m = w /\ Len(p) < x + Len(Frame(m))

(* What ends before b ends before any length that is not less.             *)
LEMMA EndsBefore ==
    ASSUME NEW x \in Int, NEW b \in Int, NEW l \in Nat, NEW h \in Nat, NEW n \in Nat,
           NEW f, f = h + n, x + f <= b, b <= l
    PROVE  x + f <= l /\ x + h <= l
OBVIOUS

(* Unless nothing is left, the next frame is there with its header.        *)
LEMMA CurrentFrame ==
    ASSUME NEW p \in Seq(Nat), NEW s \in [Nat -> Int], NEW msgs \in Seq(Bodies),
           NEW r \in 0 .. Len(msgs), NEW w \in Bodies \cup {<<>>}, NEW e,
           Layout(p, s, r, msgs, w, e), s[r + 1] < Len(p)
    PROVE  LET m == Current(r, msgs, w)
               x == s[r + 1]
           IN  /\ m \in Bodies /\ Agrees(Frame(m), p, x) /\ x + Len(Header(m)) <= Len(p)
               /\ Extent(p, r, msgs, w, m, x)
<1> DEFINE m == Current(r, msgs, w)
           n == Len(msgs)
           x == s[r + 1]
<1>1. n \in Nat /\ Len(p) \in Nat
  BY Length, ZenonT(40)
<1>2. r \in Nat
  BY <1>1
<1>3. x \in Int /\ r + 1 \in Nat
  BY <1>2
<1>4. CASE r < n
  <2>1. m = msgs[r + 1]
    BY <1>4, ZenonT(40) DEF Current
  <2>2. r + 1 \in r + 1 .. n /\ r + 1 \in 1 .. n /\ r + 1 + 1 = r + 2 /\ r + 2 \in Nat
    BY <1>1, <1>2, <1>4
  <2>3. m \in Bodies
    BY <2>1, <2>2, Length, ZenonT(40)
  <2>4. Whole(p, m, x, s[r + 2])
    BY <2>1, <2>2, ZenonT(40) DEF Layout
  <2> HIDE DEF m, x
  <2>5. /\ Agrees(Frame(m), p, x) /\ x + Len(Frame(m)) <= s[r + 2] /\ s[r + 2] <= Len(p)
        /\ Gap(p, x + Len(Frame(m)), s[r + 2])
    BY <2>4, ZenonT(40) DEF Whole
  <2>6. Len(Frame(m)) = Len(Header(m)) + Len(m) /\ Len(Header(m)) \in Nat /\ Len(m) \in Nat
    BY <2>3, FrameParts, ZenonT(40)
  <2>7. s[r + 2] \in Int
    BY <2>2
  <2>8. x + Len(Frame(m)) <= Len(p) /\ x + Len(Header(m)) <= Len(p)
    <3>1. x + Len(Frame(m)) <= s[r + 2] /\ s[r + 2] <= Len(p)
      BY <2>5, ZenonT(40)
    <3> QED
      BY <1>1, <1>3, <2>6, <2>7, <3>1, EndsBefore, ZenonT(40)
  <2> QED
    BY <1>4, <2>1, <2>3, <2>5, <2>8, ZenonT(40) DEF m, x, Extent
<1>5. CASE ~(r < n)
  <2>1. m = w
    BY <1>5, ZenonT(40) DEF Current
  <2>2. r = n
    BY <1>1, <1>5
  <2>3. Ending(p, w, e, x)
    BY <2>2, ZenonT(40) DEF Layout
  <2>4. x # Len(p)
    BY <1>1, <1>3
  <2>5. Cut(p, w, e, x)
    BY <2>3, <2>4, ZenonT(40) DEF Ending
  <2> HIDE DEF m, x
  <2>6. /\ w # <<>> /\ Agrees(Frame(w), p, x)
        /\ x + Len(Header(w)) <= Len(p) /\ Len(p) < x + Len(Frame(w))
        /\ ~e => x + Len(Header(w)) = Len(p)
    BY <2>5, ZenonT(40) DEF Cut
  <2>7. w \in Bodies
    BY <2>6
  <2> QED
    BY <1>5, <2>1, <2>2, <2>6, <2>7, ZenonT(40) DEF m, x, Extent
<1> QED
  BY <1>4, <1>5

(* The bytes of a header are found in p.                                   *)
LEMMA HeaderByte ==
    ASSUME NEW m \in Bodies, NEW p \in Seq(Nat), NEW x \in Int, Agrees(Frame(m), p, x),
           x + Len(Header(m)) <= Len(p), NEW k \in 1 .. Len(Header(m)), 1 <= x + k
    PROVE  x + k <= Len(p) /\ p[x + k] = Header(m)[k]
<1> DEFINE h == Len(Header(m))
           f == Len(Frame(m))
<1>1. Len(p) \in Nat /\ h \in Nat /\ f = h + Len(m) /\ Len(m) \in Nat
  BY Length, FrameParts, ZenonT(40)
<1> HIDE DEF h, f
<1>2. x + k <= Len(p) /\ k \in 1 .. f
  BY <1>1 DEF h
<1>3. p[x + k] = Frame(m)[k]
  BY <1>2, ZenonT(40) DEF Agrees, f
<1>4. Frame(m)[k] = Header(m)[k]
  BY FrameParts, ZenonT(40)
<1> QED
  BY <1>2, <1>3, <1>4, ZenonT(40)

(* At the beginning of a frame the name comes next;                        *)
LEMMA NameAhead ==
    ASSUME NEW m \in Bodies, NEW p \in Seq(Nat), Agrees(Frame(m), p, 0),
           0 + Len(Header(m)) <= Len(p)
    PROVE  Len(Name) <= Len(p) /\ \A k \in 1 .. Len(Name) : p[k] = Name[k]
<1> DEFINE h == Len(Header(m))
<1>1. h \in Nat /\ h > Len(Name) + 1
  BY HeaderSize, ZenonT(40)
<1>2. Len(Name) \in Nat /\ Len(p) \in Nat
  BY Constants, Length, ZenonT(40)
<1>3. 0 + h <= Len(p)
  OBVIOUS
<1> HIDE DEF h
<1>4. ASSUME NEW k \in 1 .. Len(Name) PROVE p[k] = Name[k]
  <2>1. k \in 1 .. h /\ 1 <= 0 + k /\ 0 + k = k /\ 0 \in Int
    BY <1>1, <1>2
  <2>2. p[0 + k] = Header(m)[k]
    BY <2>1, HeaderByte, ZenonT(40) DEF h
  <2>3. Header(m)[k] = Name[k]
    BY HeaderParts, ZenonT(40)
  <2> QED
    BY <2>1, <2>2, <2>3, ZenonT(40)
<1>5. Len(Name) <= Len(p)
  BY <1>1, <1>2, <1>3
<1> QED
  BY <1>4, <1>5

(* A digit is no blank.                                                    *)
LEMMA DigitNoBlank == \A b \in 48 .. 57 : b # 32 /\ b # 9
OBVIOUS

(* behind the name, a blank;                                               *)
LEMMA BlankAhead ==
    ASSUME NEW m \in Bodies, NEW p \in Seq(Nat), NEW x \in Int, x = -Len(Name),
           Agrees(Frame(m), p, x), x + Len(Header(m)) <= Len(p)
    PROVE  p[1] = 32
<1> DEFINE h == Len(Header(m))
           k == Len(Name) + 1
<1>1. h \in Nat /\ h > Len(Name) + 1
  BY HeaderSize, ZenonT(40)
<1>2. Len(Name) \in Nat
  BY Constants, ZenonT(40)
<1>3. k \in 1 .. h /\ x + k = 1 /\ 1 <= x + k
  <2> HIDE DEF h
  <2> QED
    BY <1>1, <1>2
<1>4. Header(m)[k] = 32
  BY HeaderParts, ZenonT(40)
<1> HIDE DEF k
<1>5. p[x + k] = Header(m)[k]
  BY <1>3, HeaderByte, ZenonT(40)
<1> QED
  BY <1>3, <1>4, <1>5, ZenonT(40)

(* behind it and d digits, the next digit;                                 *)
LEMMA DigitAhead ==
    ASSUME NEW m \in Bodies, NEW p \in Seq(Nat), NEW d \in Nat, d < Len(Decimal[Len(m)]),
           NEW x \in Int, x = -(Len(Name) + 1 + d),
           Agrees(Frame(m), p, x), x + Len(Header(m)) <= Len(p)
    PROVE  p[1] = Decimal[Len(m)][d + 1]
<1> DEFINE h == Len(Header(m))
           c == Len(Decimal[Len(m)])
           k == Len(Name) + 1 + (d + 1)
<1>1. h \in Nat /\ h = Len(Name) + 1 + c + Len(Separator) /\ c \in Nat
  BY HeaderSize, ZenonT(40)
<1>2. Len(Name) \in Nat /\ Len(Separator) \in Nat
  BY Constants, ZenonT(40)
<1>3. d < c
  OBVIOUS
<1>4. k \in 1 .. h /\ x + k = 1 /\ 1 <= x + k /\ d + 1 \in 1 .. c
  <2> HIDE DEF h, c
  <2> QED
    BY <1>1, <1>2, <1>3
<1>5. Header(m)[k] = Decimal[Len(m)][d + 1]
  BY <1>4, HeaderParts, ZenonT(40)
<1> HIDE DEF k
<1>6. p[x + k] = Header(m)[k]
  BY <1>4, HeaderByte, ZenonT(40)
<1> QED
  BY <1>4, <1>5, <1>6, ZenonT(40)

(* The reader has read the name, the blank and d digits.                   *)
AtDigit(x, d) == x = -(Len(Name) + 1 + d)

(* It has read all the digits.                                             *)
AtSeparator(x, m) == AtDigit(x, Len(Decimal[Len(m)]))

(* Arithmetic of the position behind all the digits: what is left of the   *)
(* header is the separator.                                                *)
Behind(a, c, l, n, x, h) == x = -(a + 1 + c) /\ h = a + 1 + c + l /\ x + h <= n

(* (the bytes that are left of it)                                         *)
LEMMA AfterDigits ==
    ASSUME NEW a \in Nat, NEW c \in Nat, NEW l \in Nat, NEW n \in Nat, NEW x \in Int, NEW h \in Nat,
           Behind(a, c, l, n, x, h)
    PROVE  /\ l <= n /\ x + h = l
           /\ \A k \in 1 .. l : LET i == a + 1 + c + k IN i \in 1 .. h /\ x + i = k /\ 1 <= x + i
BY DEF Behind

(* behind the digits, the separator;                                       *)
LEMMA SeparatorAhead ==
    ASSUME NEW m \in Bodies, NEW p \in Seq(Nat), NEW x \in Int, AtSeparator(x, m),
           Agrees(Frame(m), p, x), x + Len(Header(m)) <= Len(p)
    PROVE  /\ Len(Separator) <= Len(p) /\ x + Len(Header(m)) = Len(Separator)
           /\ \A k \in 1 .. Len(Separator) : p[k] = Separator[k]
<1> DEFINE h == Len(Header(m))
           c == Len(Decimal[Len(m)])
           l == Len(Separator)
<1>1. h \in Nat /\ c \in Nat /\ Len(Name) \in Nat /\ l \in Nat /\ Len(p) \in Nat
  BY HeaderSize, Constants, Length, ZenonT(40)
<1>2. Behind(Len(Name), c, l, Len(p), x, h)
  BY HeaderSize, ZenonT(40) DEF Behind, AtSeparator, AtDigit
<1>3. /\ l <= Len(p) /\ x + h = l
      /\ \A k \in 1 .. l : LET i == Len(Name) + 1 + c + k IN i \in 1 .. h /\ x + i = k /\ 1 <= x + i
  BY <1>1, <1>2, AfterDigits, ZenonT(40)
<1>4. ASSUME NEW k \in 1 .. l PROVE p[k] = Separator[k]
  <2> DEFINE i == Len(Name) + 1 + c + k
  <2>1. i \in 1 .. h /\ x + i = k /\ 1 <= x + i
    BY <1>3, ZenonT(40)
  <2>2. Header(m)[i] = Separator[k]
    BY HeaderParts, ZenonT(40)
  <2> HIDE DEF i
  <2>3. p[x + i] = Header(m)[i]
    BY <2>1, HeaderByte, ZenonT(40)
  <2> QED
    BY <2>1, <2>2, <2>3, ZenonT(40)
<1> QED
  BY <1>3, <1>4, ZenonT(40)

(* and behind the header, the content.                                     *)
LEMMA ContentAhead ==
    ASSUME NEW m \in Bodies, NEW p \in Seq(Nat), NEW x \in Int, x = -Len(Header(m)),
           Agrees(Frame(m), p, x), NEW k \in 1 .. Len(m), k <= Len(p)
    PROVE  p[k] = m[k]
<1> DEFINE h == Len(Header(m))
           f == Len(Frame(m))
<1>1. h \in Nat /\ f = h + Len(m) /\ Len(m) \in Nat
  BY FrameParts, ZenonT(40)
<1>2. x = -h
  OBVIOUS
<1>3. h + k \in 1 .. f /\ x + (h + k) = k /\ 1 <= k
  <2> HIDE DEF h, f
  <2> QED
    BY <1>1, <1>2
<1>4. p[x + (h + k)] = Frame(m)[h + k]
  BY <1>3, ZenonT(40) DEF Agrees
<1>5. Frame(m)[h + k] = m[k]
  BY FrameParts, ZenonT(40)
<1> QED
  BY <1>3, <1>4, <1>5, ZenonT(40)

(* Positions are integers.                                                 *)
LEMMA Start ==
    ASSUME NEW s \in [Nat -> Int], NEW n \in Nat, NEW r \in 0 .. n
    PROVE  r \in Nat /\ r + 1 \in Nat /\ r + 2 \in Nat /\ s[r + 1] \in Int /\ s[r + 2] \in Int
OBVIOUS

(* A frame begins with the first byte of the name.                         *)
LEMMA NextName ==
    ASSUME NEW p \in Seq(Nat), NEW s \in [Nat -> Int], NEW msgs \in Seq(Bodies),
           NEW r \in 0 .. Len(msgs), NEW w \in Bodies \cup {<<>>}, NEW e,
           Layout(p, s, r, msgs, w, e), 0 <= s[r + 1], s[r + 1] < Len(p)
    PROVE  p[s[r + 1] + 1] = Name[1]
<1> DEFINE m == Current(r, msgs, w)
           x == s[r + 1]
<1>1. m \in Bodies /\ Agrees(Frame(m), p, x) /\ x + Len(Header(m)) <= Len(p)
  BY CurrentFrame, ZenonT(40)
<1>2. Len(msgs) \in Nat
  BY Length, ZenonT(40)
<1>3. x \in Int
  BY <1>2, Start, ZenonT(40)
<1>4. Len(Header(m)) \in Nat /\ Len(Header(m)) > Len(Name) + 1 /\ Header(m)[1] = Name[1]
  BY <1>1, HeaderSize, ZenonT(40)
<1>5. Len(Name) \in Nat
  BY Constants, ZenonT(40)
<1> DEFINE h == Len(Header(m))
<1>6. 1 \in 1 .. h /\ 1 <= x + 1
  <2>1. 0 <= x
    OBVIOUS
  <2>2. h \in Nat /\ h > Len(Name) + 1
    BY <1>4
  <2> HIDE DEF h, x
  <2> QED
    BY <2>1, <2>2, <1>3, <1>5
<1> HIDE DEF m, x
<1> QED
  BY <1>1, <1>3, <1>4, <1>6, HeaderByte, ZenonT(40) DEF x

(* A byte that no frame begins with is not in a frame.                     *)
LEMMA SkippedGap ==
    ASSUME NEW p \in Seq(Nat), NEW s \in [Nat -> Int], NEW msgs \in Seq(Bodies),
           NEW r \in 0 .. Len(msgs), NEW w \in Bodies \cup {<<>>}, NEW e,
           Layout(p, s, r, msgs, w, e), 0 <= s[r + 1], 1 <= Len(p), p[1] # Name[1]
    PROVE  1 <= s[r + 1]
<1> DEFINE x == s[r + 1]
<1>1. Len(msgs) \in Nat /\ Len(p) \in Nat
  BY Length, ZenonT(40)
<1>2. x \in Int
  BY <1>1, Start, ZenonT(40)
<1>3. 0 <= x
  OBVIOUS
<1>4. ASSUME x = 0 PROVE FALSE
  <2>1. x < Len(p) /\ x + 1 = 1
    <3> HIDE DEF x
    <3> QED
      BY <1>1, <1>4
  <2>2. p[x + 1] = Name[1]
    BY <1>3, <2>1, NextName, ZenonT(40)
  <2> QED
    BY <2>1, <2>2, ZenonT(40)
<1> HIDE DEF x
<1>5. 1 <= x
  BY <1>2, <1>3, <1>4
<1> QED
  BY <1>5 DEF x

(* An index that is neither the first nor beyond n.                        *)
LEMMA NextIndex ==
    ASSUME NEW x \in Int, NEW n \in Nat, NEW l \in Nat, 0 <= x, x # 0, x < n, n <= l
    PROVE  x < l /\ x + 1 \in 2 .. n /\ x + 1 \in 1 .. n
OBVIOUS

(* A name that begins no frame ends before the next one begins.            *)
LEMMA NameGap ==
    ASSUME NEW p \in Seq(Nat), NEW s \in [Nat -> Int], NEW msgs \in Seq(Bodies),
           NEW r \in 0 .. Len(msgs), NEW w \in Bodies \cup {<<>>}, NEW e,
           Unmistakable, Layout(p, s, r, msgs, w, e), 0 <= s[r + 1], At(Name, p, 0)
    PROVE  s[r + 1] = 0 \/ Len(Name) <= s[r + 1]
<1> DEFINE x == s[r + 1]
<1>1. Len(msgs) \in Nat /\ Len(p) \in Nat /\ Len(Name) \in Nat
  BY Length, Constants, ZenonT(40)
<1>2. x \in Int
  BY <1>1, Start, ZenonT(40)
<1>3. 0 <= x
  OBVIOUS
<1>4. Len(Name) <= Len(p) /\ \A i \in 1 .. Len(Name) : p[i] = Name[i]
  BY <1>1 DEF At
<1>5. ASSUME x # 0, x < Len(Name) PROVE FALSE
  <2>1. x < Len(p) /\ x + 1 \in 2 .. Len(Name) /\ x + 1 \in 1 .. Len(Name)
    <3>1. Len(Name) <= Len(p)
      BY <1>4, ZenonT(40)
    <3> QED
      BY <1>1, <1>2, <1>3, <1>5, <3>1, NextIndex, ZenonT(40)
  <2>2. p[x + 1] = Name[1]
    BY <1>3, <2>1, NextName, ZenonT(40)
  <2>3. p[x + 1] = Name[x + 1]
    BY <1>4, <2>1, ZenonT(40)
  <2>4. Name[x + 1] # Name[1]
    BY <2>1, ZenonT(40) DEF Unmistakable
  <2> QED
    BY <2>2, <2>3, <2>4, ZenonT(40)
<1> HIDE DEF x
<1>6. x = 0 \/ Len(Name) <= x
  BY <1>1, <1>2, <1>3, <1>5
<1> QED
  BY <1>6 DEF x

(* Without a name in front of the reader, no frame begins there.           *)
LEMMA ScanGap ==
    ASSUME NEW p \in Seq(Nat), NEW s \in [Nat -> Int], NEW msgs \in Seq(Bodies),
           NEW r \in 0 .. Len(msgs), NEW w \in Bodies \cup {<<>>}, NEW e,
           Layout(p, s, r, msgs, w, e), 0 <= s[r + 1], Len(Name) <= Len(p), ~At(Name, p, 0)
    PROVE  1 <= s[r + 1]
<1> DEFINE x == s[r + 1]
           m == Current(r, msgs, w)
<1>1. Len(msgs) \in Nat /\ Len(p) \in Nat /\ Len(Name) \in Nat \ {0}
  BY Length, Constants, ZenonT(40)
<1>2. x \in Int
  BY <1>1, Start, ZenonT(40)
<1>3. 0 <= x
  OBVIOUS
<1>4. ASSUME x = 0 PROVE FALSE
  <2>1. x < Len(p)
    <3> HIDE DEF x
    <3> QED
      BY <1>1, <1>4
  <2>2. m \in Bodies /\ Agrees(Frame(m), p, x) /\ x + Len(Header(m)) <= Len(p)
    BY <2>1, CurrentFrame, ZenonT(40)
  <2> HIDE DEF x, m
  <2>5. m \in Bodies /\ Agrees(Frame(m), p, 0) /\ 0 + Len(Header(m)) <= Len(p)
    BY <1>4, <2>2, ZenonT(40)
  <2>3. Len(Name) <= Len(p) /\ \A k \in 1 .. Len(Name) : p[k] = Name[k]
    BY <2>5, NameAhead, ZenonT(40)
  <2>4. Len(Name) <= Len(p)
    BY <2>3, ZenonT(40)
  <2>6. 0 + Len(Name) <= Len(p) /\ \A k \in 1 .. Len(Name) : 0 + k = k
    BY <1>1, <2>4
  <2>7. At(Name, p, 0)
    BY <2>3, <2>6, ZenonT(40) DEF At
  <2> QED
    BY <2>7, ZenonT(40)
<1> HIDE DEF x
<1>5. 1 <= x
  BY <1>2, <1>3, <1>4
<1> QED
  BY <1>5 DEF x

(* Outside of a frame there is no separator in front of the reader.        *)
LEMMA SeparatorGap ==
    ASSUME NEW p \in Seq(Nat), NEW s \in [Nat -> Int], NEW msgs \in Seq(Bodies),
           NEW r \in 0 .. Len(msgs), NEW w \in Bodies \cup {<<>>}, NEW e,
           Unmistakable, Layout(p, s, r, msgs, w, e), 0 <= s[r + 1]
    PROVE  ~At(Separator, p, 0)
<1> SUFFICES ASSUME At(Separator, p, 0) PROVE FALSE
  OBVIOUS
<1> DEFINE x == s[r + 1]
<1>1. Len(Separator) \in Nat \ {0} /\ Len(p) \in Nat /\ Len(msgs) \in Nat
  BY Length, Constants, ZenonT(40)
<1>2. x \in Int
  BY <1>1, Start, ZenonT(40)
<1>3. 1 <= Len(p) /\ 1 \in 1 .. Len(Separator) /\ p[1] = Separator[1]
  <2>1. 0 + Len(Separator) <= Len(p) /\ \A i \in 1 .. Len(Separator) : p[0 + i] = Separator[i]
    BY DEF At
  <2> QED
    BY <1>1, <2>1
<1>4. p[1] # Name[1]
  BY <1>3, ZenonT(40) DEF Unmistakable
<1>5. 1 <= x
  BY <1>3, <1>4, SkippedGap, ZenonT(40)
<1>6. 0 <= 0 /\ 0 < x /\ 0 \in Nat
  <2> HIDE DEF x
  <2> QED
    BY <1>2, <1>5
<1>7. Gap(p, 0, x)
  BY DEF Layout
<1> QED
  BY <1>6, <1>7, ZenonT(40) DEF Gap

(* The frame of m that begins at a ends before z.                          *)
Beyond(a, m, z) == a + Len(Frame(m)) < z

(* Byte z is one that a reader with kClose does not get past; it lies      *)
(* behind the first cl messages and in none of the frames.                 *)
Stop(p, s, r, msgs, cl, z) ==
    /\ 1 <= z /\ z <= Len(p) /\ p[z] \notin Passed
    /\ z <= s[cl + 1]
    /\ \A i \in r + 1 .. cl : Beyond(s[i], msgs[i], z)

(* There is such a byte.                                                   *)
Blocked(p, s, r, msgs, cl) == \E z \in Nat : Stop(p, s, r, msgs, cl, z)

(* Bytes that are added leave it where it is.                              *)
LEMMA BlockedLonger ==
    ASSUME NEW p \in Seq(Nat), NEW q \in Seq(Nat), Longer(q, p),
           NEW s \in [Nat -> Int], NEW t \in [Nat -> Int], NEW r \in Nat, NEW cl \in Nat,
           NEW msgs, NEW more, s[cl + 1] <= t[cl + 1],
           \A i \in r + 1 .. cl : t[i] = s[i] /\ more[i] = msgs[i],
           Blocked(p, s, r, msgs, cl)
    PROVE  Blocked(q, t, r, more, cl)
<1> PICK z \in Nat : Stop(p, s, r, msgs, cl, z)
  BY ZenonT(40) DEF Blocked
<1>1. \A i \in r + 1 .. cl : Beyond(t[i], more[i], z)
  BY ZenonT(40) DEF Stop
<1>2. Len(p) \in Nat /\ Len(q) \in Nat
  BY Length, ZenonT(40)
<1>3. cl + 1 \in Nat
  OBVIOUS
<1>4. s[cl + 1] \in Int /\ t[cl + 1] \in Int
  BY <1>3
<1>5. 1 <= z /\ z <= Len(p) /\ p[z] \notin Passed /\ z <= s[cl + 1]
  BY DEF Stop
<1>6. z <= Len(q) /\ z \in 1 .. Len(p)
  BY <1>2, <1>5 DEF Longer
<1>7. q[z] = p[z]
  BY <1>6, ZenonT(40) DEF Longer
<1>8. z <= t[cl + 1]
  BY <1>4, <1>5
<1>9. Stop(q, t, r, more, cl, z)
  BY <1>1, <1>5, <1>6, <1>7, <1>8, ZenonT(40) DEF Stop
<1> QED
  BY <1>9, ZenonT(40) DEF Blocked

(* So do bytes that are taken away before it.                              *)
LEMMA StopLater ==
    ASSUME NEW p \in Seq(Nat), NEW q \in Seq(Nat), NEW d \in Nat, Suffix(q, p, d),
           NEW s \in [Nat -> Int], NEW msgs \in Seq(Bodies),
           NEW r \in Nat, NEW r2 \in Nat, r <= r2,
           NEW cl \in 0 .. Len(msgs), NEW z \in Nat, Stop(p, s, r, msgs, cl, z), d < z
    PROVE  Blocked(q, Earlier(s, d), r2, msgs, cl)
<1> DEFINE y == z - d
<1>1. Len(p) \in Nat /\ Len(q) \in Nat /\ Len(msgs) \in Nat
  BY Length, ZenonT(40)
<1>2. cl + 1 \in Nat /\ cl \in Nat
  BY <1>1
<1>3. Earlier(s, d)[cl + 1] = s[cl + 1] - d /\ s[cl + 1] \in Int
  BY <1>2 DEF Earlier
<1>4. 1 <= z /\ z <= Len(p) /\ p[z] \notin Passed /\ z <= s[cl + 1]
  BY DEF Stop
<1>5. y \in Nat /\ 1 <= y /\ y <= Len(q) /\ y \in 1 .. Len(q) /\ y + d = z /\ y <= s[cl + 1] - d
  <2>1. Len(q) = Len(p) - d
    BY ZenonT(40) DEF Suffix
  <2>2. 1 <= z /\ z <= Len(p) /\ z <= s[cl + 1]
    BY <1>4, ZenonT(40)
  <2> QED
    BY <1>1, <1>3, <2>1, <2>2
<1>6. q[y] = p[z]
  BY <1>5, ZenonT(40) DEF Suffix
<1>7. ASSUME NEW i \in r2 + 1 .. cl
      PROVE  Beyond(Earlier(s, d)[i], msgs[i], y)
  <2>1. i \in r + 1 .. cl /\ i \in Nat /\ i \in 1 .. Len(msgs)
    BY <1>1, <1>2
  <2>2. Beyond(s[i], msgs[i], z)
    BY <2>1, ZenonT(40) DEF Stop
  <2>3. Earlier(s, d)[i] = s[i] - d /\ s[i] \in Int
    BY <2>1 DEF Earlier
  <2>4. msgs[i] \in Bodies
    BY <2>1, Length, ZenonT(40)
  <2>5. Frame(msgs[i]) \in Seq(Nat)
    BY <2>4, FrameParts, ZenonT(40)
  <2>6. Len(Frame(msgs[i])) \in Nat
    BY <2>5, Length, ZenonT(40)
  <2> DEFINE f == Len(Frame(msgs[i]))
             a == s[i]
  <2>7. a + f < z
    BY <2>2 DEF Beyond
  <2>8. (a - d) + f < z - d
    <3>1. a \in Int /\ f \in Nat
      BY <2>3, <2>6
    <3> HIDE DEF a, f
    <3> QED
      BY <2>7, <3>1
  <2> QED
    BY <2>3, <2>8, ZenonT(40) DEF Beyond
<1> HIDE DEF y
<1>8. y <= Earlier(s, d)[cl + 1]
  BY <1>3, <1>5, ZenonT(40)
<1>9. Stop(q, Earlier(s, d), r2, msgs, cl, y)
  BY <1>4, <1>5, <1>6, <1>7, <1>8, ZenonT(40) DEF Stop
<1> QED
  BY <1>5, <1>9, ZenonT(40) DEF Blocked

(* Bytes that can be passed are before it.                                 *)
LEMMA BlockedPassed ==
    ASSUME NEW p \in Seq(Nat), NEW q \in Seq(Nat), NEW d \in Nat, Suffix(q, p, d),
           NEW s \in [Nat -> Int], NEW msgs \in Seq(Bodies), NEW r \in Nat,
           NEW cl \in 0 .. Len(msgs), Blocked(p, s, r, msgs, cl),
           \A i \in 1 .. d : p[i] \in Passed
    PROVE  Blocked(q, Earlier(s, d), r, msgs, cl)
<1> PICK z \in Nat : Stop(p, s, r, msgs, cl, z)
  BY ZenonT(40) DEF Blocked
<1>1. 1 <= z /\ p[z] \notin Passed
  BY ZenonT(40) DEF Stop
<1>2. z \notin 1 .. d
  BY <1>1, ZenonT(40)
<1>3. d < z /\ r <= r
  BY <1>1, <1>2
<1> QED
  BY <1>3, StopLater, ZenonT(40)

(* Before that byte there is a whole frame, if the reader is in one;       *)
LEMMA StopFrame ==
    ASSUME NEW p, NEW s \in [Nat -> Int], NEW msgs \in Seq(Bodies), NEW r \in Nat,
           NEW cl \in 0 .. Len(msgs), r <= cl, NEW z \in Nat, Stop(p, s, r, msgs, cl, z),
           s[r + 1] <= 0
    PROVE  r < cl /\ r + 1 \in 1 .. Len(msgs) /\ Beyond(s[r + 1], msgs[r + 1], z)
<1>1. Len(msgs) \in Nat
  BY Length, ZenonT(40)
<1>2. 1 <= z /\ z <= s[cl + 1]
  BY DEF Stop
<1>3. r + 1 \in Nat /\ cl + 1 \in Nat /\ cl \in Nat
  BY <1>1
<1>4. s[r + 1] \in Int /\ s[cl + 1] \in Int
  BY <1>3
<1>5. r # cl
  BY <1>2, <1>4
<1>6. r < cl /\ r + 1 \in r + 1 .. cl /\ r + 1 \in 1 .. Len(msgs)
  BY <1>1, <1>3, <1>5
<1> QED
  BY <1>6, ZenonT(40) DEF Stop

(* so what is taken away of that frame is before it too.                   *)
LEMMA BlockedFrame ==
    ASSUME NEW p \in Seq(Nat), NEW q \in Seq(Nat), NEW d \in Nat, Suffix(q, p, d),
           NEW s \in [Nat -> Int], NEW msgs \in Seq(Bodies), NEW r \in Nat,
           NEW cl \in 0 .. Len(msgs), r <= cl, Blocked(p, s, r, msgs, cl),
           s[r + 1] <= 0, NEW r2 \in Nat, r <= r2,
           r < Len(msgs) => d <= s[r + 1] + Len(Frame(msgs[r + 1]))
    PROVE  r < cl /\ Blocked(q, Earlier(s, d), r2, msgs, cl)
<1> PICK z \in Nat : Stop(p, s, r, msgs, cl, z)
  BY ZenonT(40) DEF Blocked
<1>1. r < cl /\ r + 1 \in 1 .. Len(msgs) /\ Beyond(s[r + 1], msgs[r + 1], z)
  BY StopFrame, ZenonT(40)
<1>2. Len(msgs) \in Nat
  BY Length, ZenonT(40)
<1>3. r < Len(msgs) /\ r + 1 \in Nat
  BY <1>1, <1>2
<1>4. msgs[r + 1] \in Bodies
  BY <1>1, Length, ZenonT(40)
<1>5. Frame(msgs[r + 1]) \in Seq(Nat)
  BY <1>4, FrameParts, ZenonT(40)
<1> DEFINE f == Len(Frame(msgs[r + 1]))
           a == s[r + 1]
<1>6. f \in Nat
  BY <1>5, Length, ZenonT(40)
<1>7. a \in Int
  BY <1>3
<1>8. d <= a + f /\ a + f < z
  BY <1>1, <1>3, ZenonT(40) DEF Beyond
<1>9. d < z
  <2> HIDE DEF a, f
  <2> QED
    BY <1>6, <1>7, <1>8
<1> QED
  BY <1>1, <1>9, StopLater, ZenonT(40)

(* The reader has read the header of m.                                    *)
AtContent(x, m) == x = -Len(Header(m))

(* Then the rest of its frame is its content.                              *)
LEMMA ContentEnd ==
    ASSUME NEW m \in Bodies, NEW x \in Int, AtContent(x, m)
    PROVE  x + Len(Frame(m)) = Len(m) /\ x < 0 /\ Len(m) \in Nat \ {0}
<1> DEFINE h == Len(Header(m))
           l == Len(m)
           f == Len(Frame(m))
<1>1. h \in Nat /\ h > Len(Name) + 1 /\ Len(Name) \in Nat
  BY HeaderSize, Constants, ZenonT(40)
<1>2. f = h + l /\ l \in Nat \ {0}
  BY FrameParts, ZenonT(40)
<1>3. x = -h
  BY ZenonT(40) DEF AtContent
<1> HIDE DEF h, l, f
<1>4. x + f = l /\ x < 0
  BY <1>1, <1>2, <1>3
<1> QED
  BY <1>2, <1>4, ZenonT(40) DEF l, f

(* Taking the content of a message sent away leaves the layout of the      *)
(* messages behind it.                                                     *)
LEMMA FrameReturned ==
    ASSUME NEW p \in Seq(Nat), NEW s \in [Nat -> Int], NEW msgs \in Seq(Bodies),
           NEW r \in 0 .. Len(msgs), NEW w \in Bodies \cup {<<>>}, NEW e,
           Layout(p, s, r, msgs, w, e), r < Len(msgs), AtContent(s[r + 1], msgs[r + 1]),
           NEW q \in Seq(Nat), Suffix(q, p, Len(msgs[r + 1]))
    PROVE  LET t == Earlier(s, Len(msgs[r + 1]))
           IN  /\ t \in [Nat -> Int] /\ Layout(q, t, r + 1, msgs, w, e)
               /\ 0 <= t[r + 2]
<1> DEFINE m == msgs[r + 1]
           d == Len(m)
           t == Earlier(s, d)
           n == Len(msgs)
           x == s[r + 1]
           y == s[r + 2]
<1>1. n \in Nat /\ Len(p) \in Nat /\ Len(q) \in Nat
  BY Length, ZenonT(40)
<1>2. r \in Nat /\ r + 1 \in Nat /\ r + 2 \in Nat /\ x \in Int /\ y \in Int
  BY <1>1, Start, ZenonT(40)
<1>3. r + 1 \in r + 1 .. n /\ r + 1 \in 1 .. n /\ (r + 1) + 1 = r + 2
  BY <1>1, <1>2
<1>4. m \in Bodies
  BY <1>3, Length, ZenonT(40)
<1>5. x + Len(Frame(m)) = d /\ d \in Nat
  BY <1>2, <1>4, ContentEnd, ZenonT(40)
<1>6. Whole(p, m, x, y)
  BY <1>3 DEF Layout
<1>7. d <= y /\ y <= Len(p) /\ Gap(p, d, y)
  BY <1>5, <1>6, ZenonT(40) DEF Whole
<1>8. t \in [Nat -> Int] /\ Layout(q, t, r, msgs, w, e)
  BY <1>2, <1>5, LayoutLater, ZenonT(40)
<1>9. t[r + 2] = y - d
  BY <1>2 DEF Earlier
<1>10. 0 <= t[r + 2] /\ t[r + 2] <= Len(q)
  <2>1. Len(q) = Len(p) - d
    BY DEF Suffix
  <2> HIDE DEF y, d, t
  <2> QED
    BY <1>1, <1>2, <1>5, <1>7, <1>9, <2>1
<1>11. Gap(q, 0, t[r + 2])
  <2>1. Gap(q, d - d, y - d) /\ d \in Int
    <3>1. d \in Int
      BY <1>5
    <3> QED
      BY <1>2, <1>5, <1>7, <3>1, GapLater, ZenonT(40)
  <2>2. d - d = 0
    BY <2>1
  <2> QED
    BY <1>9, <2>1, <2>2, ZenonT(40)
<1>12. ASSUME NEW i \in r + 2 .. n PROVE i \in r + 1 .. n
  BY <1>1, <1>2
<1> HIDE DEF m, d, t, n, x, y
<1>13. \A i \in r + 2 .. n : Whole(q, msgs[i], t[i], t[i + 1])
  BY <1>8, <1>12, ZenonT(40) DEF Layout, n
<1>14. Ending(q, w, e, t[Len(msgs) + 1])
  BY <1>8, ZenonT(40) DEF Layout
<1>15. Layout(q, t, r + 1, msgs, w, e)
  BY <1>3, <1>10, <1>11, <1>13, <1>14, ZenonT(40) DEF Layout, n
<1> QED
  BY <1>8, <1>10, <1>15, ZenonT(40) DEF t, d, m

(* Arithmetic of a separator inside of a message.                          *)
LEMMA Inside ==
    ASSUME NEW k \in Nat, NEW l \in Nat, NEW n \in Nat, NEW b \in Nat, k + l <= n, n <= b,
           NEW i \in 1 .. l
    PROVE  k + i \in 1 .. b /\ k + i <= n
OBVIOUS

LEMMA InsideOf ==
    ASSUME NEW k \in Nat, NEW l \in Nat, NEW n \in Nat, NEW b \in Nat, k + l <= n, n <= b
    PROVE  k \in 0 .. b /\ k + l <= b
OBVIOUS

(* Giving up the content of a message that was cut off leaves junk with no *)
(* separator in it.                                                        *)
LEMMA FrameLost ==
    ASSUME NEW p \in Seq(Nat), NEW s \in [Nat -> Int], NEW msgs \in Seq(Bodies),
           NEW r, r = Len(msgs), NEW w \in Bodies, NEW e, Over(e), Unmistakable,
           AtContent(s[r + 1], w), Agrees(Frame(w), p, s[r + 1]), Len(p) <= Len(w),
           NEW t, Moved(s, t, r + 1, Len(p))
    PROVE  Layout(p, t, r, msgs, w, e)
<1>1. Len(msgs) \in Nat /\ Len(p) \in Nat /\ Len(Separator) \in Nat \ {0} /\ Len(w) \in Nat
  BY Length, Constants, ZenonT(40)
<1>1a. Len(Separator) \in Nat
  BY <1>1
<1>2. r + 1 \in Nat
  BY <1>1
<1>3. t \in [Nat -> Int] /\ t[r + 1] = Len(p) /\ s[r + 1] \in Int
  BY <1>2, ZenonT(40) DEF Moved
<1>4. ASSUME NEW k \in Nat, At(Separator, p, k) PROVE FALSE
  <2>1. k + Len(Separator) <= Len(p) /\ \A i \in 1 .. Len(Separator) : p[k + i] = Separator[i]
    BY <1>4, ZenonT(40) DEF At
  <2>2. ASSUME NEW i \in 1 .. Len(Separator) PROVE w[k + i] = Separator[i]
    <3>1. k + i \in 1 .. Len(w) /\ k + i <= Len(p)
      BY <1>1, <1>1a, <2>1, Inside, ZenonT(40)
    <3>2. p[k + i] = w[k + i]
      BY <1>3, <3>1, ContentAhead, ZenonT(40) DEF AtContent
    <3> QED
      BY <2>1, <3>2, ZenonT(40)
  <2>3. k \in 0 .. Len(w) /\ k + Len(Separator) <= Len(w)
    <3>1. k + Len(Separator) <= Len(p)
      BY <2>1, ZenonT(40)
    <3> QED
      BY <1>1, <1>1a, <3>1, InsideOf, ZenonT(40)
  <2>4. At(Separator, w, k)
    BY <2>2, <2>3, ZenonT(40) DEF At
  <2> QED
    BY <2>3, <2>4, ZenonT(40) DEF Unmistakable
<1>5. Gap(p, 0, t[r + 1])
  BY <1>4, ZenonT(40) DEF Gap
<1>6. r + 1 .. Len(msgs) = {}
  BY <1>1
<1>7. Ending(p, w, e, t[Len(msgs) + 1])
  BY <1>3, ZenonT(40) DEF Ending, Over
<1>8. t[r + 1] <= Len(p)
  BY <1>1, <1>3
<1>9. \A i \in r + 1 .. Len(msgs) : Whole(p, msgs[i], t[i], t[i + 1])
  BY <1>6
<1> QED
  BY <1>3, <1>5, <1>7, <1>8, <1>9, ZenonT(40) DEF Layout

(* In the loop over blanks: before the blank or behind it.                 *)
InBlanks(x, ln) == ln = 0 /\ (x = -Len(Name) \/ AtDigit(x, 0))

(* In the loop over digits: behind d of them, with their value.            *)
InDigits(x, ln, m) ==
    \E d \in 0 .. Len(Decimal[Len(m)]) :
        AtDigit(x, d) /\ \E v : Values(v, Len(m)) /\ ln = v[d]

(* Where read() can be with the next frame at x. Outside of all frames it  *)
(* may be at any step but at the content; inside, the step and the length  *)
(* are those that fit what it has read of the frame.                       *)
Place(x, step, ln, m) ==
    \/ 0 <= x /\ step # "content"
    \/ step = "blanks" /\ InBlanks(x, ln)
    \/ step = "digits" /\ InDigits(x, ln, m)
    \/ step = "separator" /\ ln = Len(m) /\ AtSeparator(x, m)
    \/ step = "content" /\ ~(0 <= x) /\ ln = Len(m) /\ AtContent(x, m)

(* The layout, the place in it and the byte that blocks: what holds of the *)
(* bytes p that are not used yet.                                          *)
Fits(p, s, r, msgs, w, e, step, ln, cl, blk) ==
    /\ Layout(p, s, r, msgs, w, e)
    /\ Place(s[r + 1], step, ln, Current(r, msgs, w))
    /\ blk => r <= cl /\ Blocked(p, s, r, msgs, cl)

(* It holds for some choice of where the frames begin.                     *)
Fitting(p, r, msgs, w, e, step, ln, cl, blk) ==
    \E s \in [Nat -> Int] : Fits(p, s, r, msgs, w, e, step, ln, cl, blk)

(* Outside of frames every step but one is possible.                       *)
LEMMA PlaceFree ==
    ASSUME NEW x, NEW step, NEW ln, NEW m, 0 <= x, step # "content"
    PROVE  Place(x, step, ln, m)
BY ZenonT(40) DEF Place

(* Inside of a frame its header is there to be read.                       *)
LEMMA RealFrame ==
    ASSUME NEW p \in Seq(Nat), NEW s \in [Nat -> Int], NEW msgs \in Seq(Bodies),
           NEW r \in 0 .. Len(msgs), NEW w \in Bodies \cup {<<>>}, NEW e,
           Layout(p, s, r, msgs, w, e), ~(0 <= s[r + 1])
    PROVE  LET m == Current(r, msgs, w)
               x == s[r + 1]
           IN  /\ x \in Int /\ x < 0
               /\ m \in Bodies /\ Agrees(Frame(m), p, x) /\ x + Len(Header(m)) <= Len(p)
               /\ Extent(p, r, msgs, w, m, x)
<1> DEFINE x == s[r + 1]
<1>1. Len(msgs) \in Nat /\ Len(p) \in Nat
  BY Length, ZenonT(40)
<1>2. x \in Int
  BY <1>1, Start, ZenonT(40)
<1>3. ~(0 <= x)
  OBVIOUS
<1>4. x < 0 /\ x < Len(p)
  <2> HIDE DEF x
  <2> QED
    BY <1>1, <1>2, <1>3
<1> QED
  BY <1>2, <1>4, CurrentFrame, ZenonT(40)

(* The general step of the reader: it takes d bytes away and goes to       *)
(* another step that fits where it is then.                                *)
LEMMA Advance ==
    ASSUME NEW p \in Seq(Nat), NEW s \in [Nat -> Int], NEW msgs \in Seq(Bodies),
           NEW r \in 0 .. Len(msgs), NEW w \in Bodies \cup {<<>>}, NEW e, NEW step, NEW ln,
           NEW cl \in 0 .. Len(msgs), NEW blk, Fits(p, s, r, msgs, w, e, step, ln, cl, blk),
           NEW q \in Seq(Nat), NEW d \in Nat, Suffix(q, p, d),
           NEW step2, NEW ln2, Place(s[r + 1] - d, step2, ln2, Current(r, msgs, w)),
           blk => \A i \in 1 .. d : p[i] \in Passed
    PROVE  Fitting(q, r, msgs, w, e, step2, ln2, cl, blk)
<1> DEFINE t == Earlier(s, d)
<1>1. Len(msgs) \in Nat
  BY Length, ZenonT(40)
<1>2. r \in Nat /\ r + 1 \in Nat
  BY <1>1, Start, ZenonT(40)
<1>3. t \in [Nat -> Int] /\ Layout(q, t, r, msgs, w, e)
  BY <1>2, LayoutLater, ZenonT(40) DEF Fits
<1>4. t[r + 1] = s[r + 1] - d
  BY <1>2 DEF Earlier
<1>5. ASSUME blk PROVE r <= cl /\ Blocked(q, t, r, msgs, cl)
  BY <1>2, <1>5, BlockedPassed, ZenonT(40) DEF Fits
<1> HIDE DEF t
<1>6. Fits(q, t, r, msgs, w, e, step2, ln2, cl, blk)
  BY <1>3, <1>4, <1>5, ZenonT(40) DEF Fits
<1> QED
  BY <1>3, <1>6, ZenonT(40) DEF Fitting

(* Arithmetic of bytes taken away before a frame.                          *)
LEMMA Shift ==
    ASSUME NEW x \in Int, NEW d \in Nat, d <= x
    PROVE  0 <= x - d
OBVIOUS

(* The step when those bytes are in no frame,                              *)
LEMMA AdvanceFree ==
    ASSUME NEW p \in Seq(Nat), NEW s \in [Nat -> Int], NEW msgs \in Seq(Bodies),
           NEW r \in 0 .. Len(msgs), NEW w \in Bodies \cup {<<>>}, NEW e, NEW step, NEW ln,
           NEW cl \in 0 .. Len(msgs), NEW blk, Fits(p, s, r, msgs, w, e, step, ln, cl, blk),
           NEW q \in Seq(Nat), NEW d \in Nat, Suffix(q, p, d), d <= s[r + 1],
           NEW step2, step2 # "content", NEW ln2,
           blk => \A i \in 1 .. d : p[i] \in Passed
    PROVE  Fitting(q, r, msgs, w, e, step2, ln2, cl, blk)
<1>1. Len(msgs) \in Nat
  BY Length, ZenonT(40)
<1>2. s[r + 1] \in Int
  BY <1>1, Start, ZenonT(40)
<1>3. 0 <= s[r + 1] - d
  BY <1>2, Shift, ZenonT(40)
<1>4. Place(s[r + 1] - d, step2, ln2, Current(r, msgs, w))
  BY <1>3, PlaceFree, ZenonT(40)
<1> QED
  BY <1>4, Advance, ZenonT(40)

(* and the step that takes none, outside of frames.                        *)
LEMMA Resting ==
    ASSUME NEW p, NEW s \in [Nat -> Int], NEW r, NEW msgs, NEW w, NEW e, NEW step, NEW ln,
           NEW cl, NEW blk, Fits(p, s, r, msgs, w, e, step, ln, cl, blk), 0 <= s[r + 1],
           NEW step2, step2 # "content", NEW ln2
    PROVE  Fitting(p, r, msgs, w, e, step2, ln2, cl, blk)
<1>1. Place(s[r + 1], step2, ln2, Current(r, msgs, w))
  BY PlaceFree, ZenonT(40)
<1>2. Fits(p, s, r, msgs, w, e, step2, ln2, cl, blk)
  BY <1>1, ZenonT(40) DEF Fits
<1> QED
  BY <1>2, ZenonT(40) DEF Fitting

(* The bytes that read() skips do not begin a frame.                       *)
LEMMA SkippedBytes ==
    ASSUME Unmistakable
    PROVE  /\ \A b \in Skipped : b \in Passed /\ b # Name[1]
           /\ \A i \in 1 .. Len(Name) : Name[i] \in Passed
<1>1. \A b \in Skipped : b \in Passed
  BY DEF Passed
<1>2. \A b \in Skipped : b # Name[1]
  BY ZenonT(40) DEF Unmistakable
<1>3. \A i \in 1 .. Len(Name) : Name[i] \in Passed
  BY DEF Passed
<1> QED
  BY <1>1, <1>2, <1>3

(* A length has at least one digit, and only digits.                       *)
LEMMA DigitCount ==
    ASSUME NEW m \in Bodies
    PROVE  /\ 0 \in 0 .. Len(Decimal[Len(m)]) /\ 0 < Len(Decimal[Len(m)])
           /\ Len(Decimal[Len(m)]) \in 0 .. Len(Decimal[Len(m)])
           /\ Len(Decimal[Len(m)]) \in Nat
           /\ \A d \in 1 .. Len(Decimal[Len(m)]) : Decimal[Len(m)][d] \in 48 .. 57
<1>1. Len(m) \in Nat
  BY Constants, ZenonT(40)
<1>2. Readable(Len(m))
  BY <1>1, DigitsOf, ZenonT(40)
<1>3. Len(Decimal[Len(m)]) \in Nat \ {0} /\ \E v : Values(v, Len(m))
  BY <1>2, ZenonT(40) DEF Readable
<1>4. \A d \in 1 .. Len(Decimal[Len(m)]) : Decimal[Len(m)][d] \in 48 .. 57
  BY <1>3, ZenonT(40) DEF Values
<1> DEFINE c == Len(Decimal[Len(m)])
<1>5. c \in Nat \ {0}
  BY <1>3, ZenonT(40)
<1>6. 0 \in 0 .. c /\ 0 < c /\ c \in 0 .. c /\ c \in Nat
  <2> HIDE DEF c
  <2> QED
    BY <1>5
<1> QED
  BY <1>4, <1>6, ZenonT(40)

(* Behind d digits there is another one, or the separator, and never a     *)
(* zero byte.                                                              *)
LEMMA DigitOrSeparator ==
    ASSUME NEW m \in Bodies, NEW p \in Seq(Nat), NEW x \in Int,
           NEW d \in 0 .. Len(Decimal[Len(m)]), AtDigit(x, d), Unmistakable,
           Agrees(Frame(m), p, x), x + Len(Header(m)) <= Len(p)
    PROVE  /\ p[1] # 0
           /\ \/ d < Len(Decimal[Len(m)]) /\ d + 1 \in 1 .. Len(Decimal[Len(m)])
                 /\ p[1] \in 48 .. 57 /\ p[1] = Decimal[Len(m)][d + 1]
              \/ d = Len(Decimal[Len(m)]) /\ p[1] \notin 48 .. 57
<1> DEFINE c == Len(Decimal[Len(m)])
<1>1. c \in Nat
  BY DigitCount, ZenonT(40)
<1>2. d \in Nat /\ ((d < c /\ d + 1 \in 1 .. c) \/ d = c)
  <2> HIDE DEF c
  <2>1. d \in 0 .. c
    BY DEF c
  <2> QED
    BY <1>1, <2>1
<1>3. ASSUME d < c, d + 1 \in 1 .. c PROVE p[1] \in 48 .. 57 /\ p[1] = Decimal[Len(m)][d + 1]
  <2>1. p[1] = Decimal[Len(m)][d + 1]
    BY <1>2, <1>3, DigitAhead, ZenonT(40) DEF AtDigit
  <2>2. Decimal[Len(m)][d + 1] \in 48 .. 57
    BY <1>3, DigitCount, ZenonT(40)
  <2> QED
    BY <2>1, <2>2, ZenonT(40)
<1>4. ASSUME d = c PROVE p[1] \notin 48 .. 57 /\ p[1] # 0
  <2>1. AtSeparator(x, m)
    BY <1>4, ZenonT(40) DEF AtSeparator
  <2>2. \A k \in 1 .. Len(Separator) : p[k] = Separator[k]
    BY <2>1, SeparatorAhead, ZenonT(40)
  <2>3. Len(Separator) \in Nat \ {0}
    BY Constants, ZenonT(40)
  <2>4. 1 \in 1 .. Len(Separator)
    BY <2>3
  <2>5. p[1] = Separator[1]
    BY <2>2, <2>4, ZenonT(40)
  <2>6. Separator[1] \notin (48 .. 57) \cup {0}
    BY ZenonT(40) DEF Unmistakable
  <2> QED
    BY <2>5, <2>6, ZenonT(40)
<1>5. \A b \in 48 .. 57 : b # 0
  OBVIOUS
<1> QED
  BY <1>2, <1>3, <1>4, <1>5, ZenonT(40)

(* Behind the blank there is a digit.                                      *)
LEMMA FirstDigit ==
    ASSUME NEW m \in Bodies, NEW p \in Seq(Nat), NEW x \in Int, AtDigit(x, 0),
           Agrees(Frame(m), p, x), x + Len(Header(m)) <= Len(p)
    PROVE  p[1] \in 48 .. 57
<1>1. 0 < Len(Decimal[Len(m)])
  BY DigitCount, ZenonT(40)
<1>2. Len(Decimal[Len(m)]) \in Nat
  BY DigitCount, ZenonT(40)
<1>3. 0 + 1 \in 1 .. Len(Decimal[Len(m)])
  BY <1>1, <1>2
<1>4. p[1] = Decimal[Len(m)][0 + 1]
  <2>1. 0 \in Nat
    OBVIOUS
  <2> QED
    BY <1>1, <2>1, DigitAhead, ZenonT(40) DEF AtDigit
<1> QED
  BY <1>3, <1>4, DigitCount, ZenonT(40)

(* matchAny takes a blank (content_stream.cpp:61-62).                      *)
LEMMA BlankTaken ==
    ASSUME NEW p \in Seq(Nat), NEW msgs \in Seq(Bodies), NEW r \in 0 .. Len(msgs),
           NEW w \in Bodies \cup {<<>>}, NEW e, NEW ln, NEW cl \in 0 .. Len(msgs), NEW blk,
           Unmistakable, Fitting(p, r, msgs, w, e, "blanks", ln, cl, blk),
           1 <= Len(p), p[1] \in {32, 9}, NEW q \in Seq(Nat), Suffix(q, p, 1)
    PROVE  Fitting(q, r, msgs, w, e, "blanks", ln, cl, blk)
<1> PICK s \in [Nat -> Int] : Fits(p, s, r, msgs, w, e, "blanks", ln, cl, blk)
  BY ZenonT(40) DEF Fitting
<1> DEFINE x == s[r + 1]
           m == Current(r, msgs, w)
<1>1. p[1] \in Skipped
  BY DEF Skipped
<1>2. p[1] \in Passed /\ p[1] # Name[1]
  BY <1>1, SkippedBytes, ZenonT(40)
<1>3. \A i \in 1 .. 1 : p[i] \in Passed
  BY <1>2
<1>4. Layout(p, s, r, msgs, w, e) /\ Place(x, "blanks", ln, m)
  BY ZenonT(40) DEF Fits
<1>5. 1 \in Nat /\ "blanks" # "content"
  OBVIOUS
<1>6. CASE 0 <= x
  <2>1. 1 <= x
    BY <1>2, <1>4, <1>6, SkippedGap, ZenonT(40)
  <2> QED
    BY <1>3, <1>5, <2>1, AdvanceFree, ZenonT(40)
<1>7. CASE ~(0 <= x)
  <2>1. InBlanks(x, ln)
    BY <1>4, <1>7 DEF Place
  <2>2. x \in Int /\ x < 0 /\ m \in Bodies /\ Agrees(Frame(m), p, x) /\ x + Len(Header(m)) <= Len(p)
    BY <1>4, <1>7, RealFrame, ZenonT(40)
  <2>3. ASSUME AtDigit(x, 0) PROVE FALSE
    <3>1. p[1] \in 48 .. 57
      BY <2>2, <2>3, FirstDigit, ZenonT(40)
    <3> QED
      BY <3>1, DigitNoBlank, ZenonT(40)
  <2>4. x = -Len(Name) /\ ln = 0
    BY <2>1, <2>3, ZenonT(40) DEF InBlanks
  <2>5. AtDigit(x - 1, 0)
    <3>1. Len(Name) \in Nat
      BY Constants, ZenonT(40)
    <3>2. x = -Len(Name) /\ x \in Int
      BY <2>2, <2>4, ZenonT(40)
    <3> HIDE DEF x
    <3> QED
      BY <3>1, <3>2 DEF AtDigit
  <2>6. Place(x - 1, "blanks", ln, m)
    BY <2>4, <2>5, ZenonT(40) DEF Place, InBlanks
  <2> QED
    BY <1>3, <1>5, <2>6, Advance, ZenonT(40)
<1> QED
  BY <1>6, <1>7

(* matchAny takes a zero byte, which is in no frame (lines 131-141).       *)
LEMMA ZeroTaken ==
    ASSUME NEW p \in Seq(Nat), NEW msgs \in Seq(Bodies), NEW r \in 0 .. Len(msgs),
           NEW w \in Bodies \cup {<<>>}, NEW e, NEW ln, NEW cl \in 0 .. Len(msgs), NEW blk,
           NEW step \in {"blanks", "digits"}, NEW step2, step2 # "content",
           Unmistakable, Fitting(p, r, msgs, w, e, step, ln, cl, blk),
           1 <= Len(p), p[1] = 0, NEW q \in Seq(Nat), Suffix(q, p, 1)
    PROVE  Fitting(q, r, msgs, w, e, step2, ln, cl, blk)
<1> PICK s \in [Nat -> Int] : Fits(p, s, r, msgs, w, e, step, ln, cl, blk)
  BY ZenonT(40) DEF Fitting
<1> DEFINE x == s[r + 1]
           m == Current(r, msgs, w)
<1>1. p[1] \in Skipped
  BY DEF Skipped
<1>2. p[1] \in Passed /\ p[1] # Name[1]
  BY <1>1, SkippedBytes, ZenonT(40)
<1>3. \A i \in 1 .. 1 : p[i] \in Passed
  BY <1>2
<1>4. Layout(p, s, r, msgs, w, e) /\ Place(x, step, ln, m)
  BY ZenonT(40) DEF Fits
<1>5. 1 \in Nat
  OBVIOUS
<1>6. 0 <= x
  <2> SUFFICES ASSUME ~(0 <= x) PROVE FALSE
    OBVIOUS
  <2>1. x \in Int /\ x < 0 /\ m \in Bodies /\ Agrees(Frame(m), p, x) /\ x + Len(Header(m)) <= Len(p)
    BY <1>4, RealFrame, ZenonT(40)
  <2>2. \/ InBlanks(x, ln)
        \/ InDigits(x, ln, m)
    BY <1>4 DEF Place
  <2>3. ASSUME x = -Len(Name) PROVE FALSE
    <3>1. p[1] = 32
      BY <2>1, <2>3, BlankAhead, ZenonT(40)
    <3> QED
      BY <3>1
  <2>4. ASSUME NEW d \in 0 .. Len(Decimal[Len(m)]), AtDigit(x, d) PROVE FALSE
    BY <2>1, <2>4, DigitOrSeparator, ZenonT(40)
  <2>5. 0 \in 0 .. Len(Decimal[Len(m)])
    BY <2>1, DigitCount, ZenonT(40)
  <2> QED
    BY <2>2, <2>3, <2>4, <2>5, ZenonT(40) DEF InBlanks, InDigits
<1>7. 1 <= x
  BY <1>2, <1>4, <1>6, SkippedGap, ZenonT(40)
<1> QED
  BY <1>3, <1>5, <1>7, AdvanceFree, ZenonT(40)

(* match or scan takes a name (lines 52, 56): that of the next frame, or   *)
(* one in the bytes before it.                                             *)
LEMMA FoundName ==
    ASSUME NEW p \in Seq(Nat), NEW msgs \in Seq(Bodies), NEW r \in 0 .. Len(msgs),
           NEW w \in Bodies \cup {<<>>}, NEW e, NEW ln, NEW cl \in 0 .. Len(msgs), NEW blk,
           Unmistakable, Fitting(p, r, msgs, w, e, "name", ln, cl, blk),
           At(Name, p, 0), NEW q \in Seq(Nat), Suffix(q, p, Len(Name))
    PROVE  Fitting(q, r, msgs, w, e, "blanks", 0, cl, blk)
<1> PICK s \in [Nat -> Int] : Fits(p, s, r, msgs, w, e, "name", ln, cl, blk)
  BY ZenonT(40) DEF Fitting
<1> DEFINE x == s[r + 1]
           m == Current(r, msgs, w)
<1>1. Layout(p, s, r, msgs, w, e) /\ Place(x, "name", ln, m)
  BY ZenonT(40) DEF Fits
<1>2. 0 <= x
  BY <1>1 DEF Place
<1>3. x = 0 \/ Len(Name) <= x
  BY <1>1, <1>2, NameGap, ZenonT(40)
<1>4. Len(Name) \in Nat /\ "blanks" # "content"
  BY Constants
<1>5. ASSUME NEW i \in 1 .. Len(Name) PROVE p[i] \in Passed
  <2>1. p[0 + i] = Name[i]
    BY ZenonT(40) DEF At
  <2>2. 0 + i = i
    BY <1>4
  <2> QED
    BY <2>1, <2>2, SkippedBytes, ZenonT(40)
<1>6. CASE Len(Name) <= x
  BY <1>4, <1>5, <1>6, AdvanceFree, ZenonT(40)
<1>7. CASE x = 0
  <2>1. x - Len(Name) = -Len(Name)
    <3> HIDE DEF x
    <3> QED
      BY <1>4, <1>7
  <2>2. Place(x - Len(Name), "blanks", 0, m)
    BY <2>1, ZenonT(40) DEF Place, InBlanks
  <2> QED
    BY <1>4, <1>5, <2>2, Advance, ZenonT(40)
<1> QED
  BY <1>3, <1>6, <1>7

(* scan drops a byte, with kIgnore (lines 95-103).                         *)
LEMMA Scanned ==
    ASSUME NEW p \in Seq(Nat), NEW msgs \in Seq(Bodies), NEW r \in 0 .. Len(msgs),
           NEW w \in Bodies \cup {<<>>}, NEW e, NEW ln, NEW cl \in 0 .. Len(msgs),
           NEW blk, ~Over(blk),
           Fitting(p, r, msgs, w, e, "name", ln, cl, blk),
           Len(Name) <= Len(p), ~At(Name, p, 0), NEW q \in Seq(Nat), Suffix(q, p, 1)
    PROVE  Fitting(q, r, msgs, w, e, "name", ln, cl, blk)
<1> PICK s \in [Nat -> Int] : Fits(p, s, r, msgs, w, e, "name", ln, cl, blk)
  BY ZenonT(40) DEF Fitting
<1> DEFINE x == s[r + 1]
           m == Current(r, msgs, w)
<1>1. Layout(p, s, r, msgs, w, e) /\ Place(x, "name", ln, m)
  BY ZenonT(40) DEF Fits
<1>2. 0 <= x
  BY <1>1 DEF Place
<1>3. 1 <= x
  BY <1>1, <1>2, ScanGap, ZenonT(40)
<1>4. 1 \in Nat /\ "name" # "content"
  OBVIOUS
<1>5. blk => \A i \in 1 .. 1 : p[i] \in Passed
  BY ZenonT(40) DEF Over
<1> QED
  BY <1>3, <1>4, <1>5, AdvanceFree, ZenonT(40)

(* The loop over blanks ends at any other byte.                            *)
LEMMA BlanksEnd ==
    ASSUME NEW p \in Seq(Nat), NEW msgs \in Seq(Bodies), NEW r \in 0 .. Len(msgs),
           NEW w \in Bodies \cup {<<>>}, NEW e, NEW ln, NEW cl \in 0 .. Len(msgs), NEW blk,
           Fitting(p, r, msgs, w, e, "blanks", ln, cl, blk), p[1] \notin {32, 9}
    PROVE  Fitting(p, r, msgs, w, e, "digits", ln, cl, blk)
<1> PICK s \in [Nat -> Int] : Fits(p, s, r, msgs, w, e, "blanks", ln, cl, blk)
  BY ZenonT(40) DEF Fitting
<1> DEFINE x == s[r + 1]
           m == Current(r, msgs, w)
<1>1. Layout(p, s, r, msgs, w, e) /\ Place(x, "blanks", ln, m)
  BY ZenonT(40) DEF Fits
<1>2. CASE 0 <= x
  <2>1. "digits" # "content"
    OBVIOUS
  <2> QED
    BY <1>2, <2>1, Resting, ZenonT(40)
<1>3. CASE ~(0 <= x)
  <2>1. InBlanks(x, ln)
    BY <1>1, <1>3 DEF Place
  <2>2. x \in Int /\ x < 0 /\ m \in Bodies /\ Agrees(Frame(m), p, x) /\ x + Len(Header(m)) <= Len(p)
    BY <1>1, <1>3, RealFrame, ZenonT(40)
  <2>3. ASSUME x = -Len(Name) PROVE FALSE
    <3>1. p[1] = 32
      BY <2>2, <2>3, BlankAhead, ZenonT(40)
    <3> QED
      BY <3>1, ZenonT(40)
  <2>4. AtDigit(x, 0) /\ ln = 0
    BY <2>1, <2>3, ZenonT(40) DEF InBlanks
  <2>5. Len(m) \in Nat
    BY <2>2, Constants, ZenonT(40)
  <2>6. Readable(Len(m))
    BY <2>5, DigitsOf, ZenonT(40)
  <2>7. PICK v : Values(v, Len(m))
    BY <2>6, ZenonT(40) DEF Readable
  <2>8. ln = v[0]
    BY <2>4, <2>7, ZenonT(40) DEF Values
  <2>9. 0 \in 0 .. Len(Decimal[Len(m)])
    BY <2>2, DigitCount, ZenonT(40)
  <2>10. InDigits(x, ln, m)
    BY <2>4, <2>7, <2>8, <2>9, ZenonT(40) DEF InDigits
  <2>11. Place(x, "digits", ln, m)
    BY <2>10, ZenonT(40) DEF Place
  <2>12. Fits(p, s, r, msgs, w, e, "digits", ln, cl, blk)
    BY <2>11, ZenonT(40) DEF Fits
  <2> QED
    BY <2>12, ZenonT(40) DEF Fitting
<1> QED
  BY <1>2, <1>3

(* With no bytes left read() is in no frame.                               *)
LEMMA Hungry ==
    ASSUME NEW p \in Seq(Nat), Len(p) = 0, NEW msgs \in Seq(Bodies), NEW r \in 0 .. Len(msgs),
           NEW w \in Bodies \cup {<<>>}, NEW e, NEW ln, NEW cl \in 0 .. Len(msgs), NEW blk,
           NEW step \in {"blanks", "digits"}, NEW step2, step2 # "content",
           Fitting(p, r, msgs, w, e, step, ln, cl, blk)
    PROVE  Fitting(p, r, msgs, w, e, step2, ln, cl, blk)
<1> PICK s \in [Nat -> Int] : Fits(p, s, r, msgs, w, e, step, ln, cl, blk)
  BY ZenonT(40) DEF Fitting
<1> DEFINE x == s[r + 1]
           m == Current(r, msgs, w)
           h == Len(Header(m))
           l == Len(Separator)
           c == Len(Decimal[Len(m)])
<1>1. Layout(p, s, r, msgs, w, e) /\ Place(x, step, ln, m)
  BY ZenonT(40) DEF Fits
<1>2. 0 <= x
  <2> SUFFICES ASSUME ~(0 <= x) PROVE FALSE
    OBVIOUS
  <2>1. x \in Int /\ x < 0 /\ m \in Bodies /\ x + h <= Len(p)
    BY <1>1, RealFrame, ZenonT(40)
  <2>2. l \in Nat \ {0} /\ Len(Name) \in Nat
    BY Constants, ZenonT(40)
  <2>3. h = Len(Name) + 1 + c + l /\ c \in Nat
    BY <2>1, HeaderSize, ZenonT(40)
  <2>4. InBlanks(x, ln) \/ InDigits(x, ln, m)
    BY <1>1 DEF Place
  <2>5. \E d \in 0 .. c : x = -Len(Name) \/ AtDigit(x, d)
    <3>1. 0 \in 0 .. c
      BY <2>1, DigitCount, ZenonT(40)
    <3> QED
      BY <2>4, <3>1, ZenonT(40) DEF InBlanks, InDigits
  <2>6. Len(p) = 0
    OBVIOUS
  <2> HIDE DEF x, m, h, l, c
  <2>7. PICK d \in 0 .. c : x = -Len(Name) \/ x = -(Len(Name) + 1 + d)
    BY <2>5, ZenonT(40) DEF AtDigit
  <2>8. x + h > 0
    BY <2>1, <2>2, <2>3, <2>7
  <2> QED
    BY <2>1, <2>2, <2>3, <2>6, <2>8
<1> QED
  BY <1>2, Resting, ZenonT(40)

(* The number y has the digits of u and the digit b.                       *)
NextValue(u, y, b) == y = 10 * u + (b - 48)

(* The computed length is the number in size_t arithmetic as well: the     *)
(* length of a message is smaller than SizeMod.                            *)
LEMMA DigitValue ==
    ASSUME NEW u \in Nat, NEW y \in Nat, NEW b \in 48 .. 57, NEW n \in Nat, NEW k \in Nat,
           NextValue(u, y, b), y <= n, n < k
    PROVE  (u * 10 + b - 48) % k = y
<1>1. u * 10 + b - 48 = y
  BY DEF NextValue
<1>2. y % k = y
  <2>1. y < k /\ k > 0
    OBVIOUS
  <2> QED
    BY <2>1
<1> QED
  BY <1>1, <1>2

(* Taking a digit leads behind the next one.                               *)
LEMMA NextDigit ==
    ASSUME NEW x \in Int, NEW d \in Nat, AtDigit(x, d)
    PROVE  AtDigit(x - 1, d + 1)
<1>1. Len(Name) \in Nat
  BY Constants, ZenonT(40)
<1> QED
  BY <1>1 DEF AtDigit

(* The loop over digits takes one (content_stream.cpp:65-72).              *)
LEMMA DigitTaken ==
    ASSUME NEW p \in Seq(Nat), NEW msgs \in Seq(Bodies), NEW r \in 0 .. Len(msgs),
           NEW w \in Bodies \cup {<<>>}, NEW e, NEW ln, NEW cl \in 0 .. Len(msgs), NEW blk,
           Unmistakable, Fitting(p, r, msgs, w, e, "digits", ln, cl, blk),
           1 <= Len(p), p[1] \in 48 .. 57, NEW q \in Seq(Nat), Suffix(q, p, 1)
    PROVE  Fitting(q, r, msgs, w, e, "digits", (ln * 10 + p[1] - 48) % SizeMod, cl, blk)
<1> PICK s \in [Nat -> Int] : Fits(p, s, r, msgs, w, e, "digits", ln, cl, blk)
  BY ZenonT(40) DEF Fitting
<1> DEFINE x == s[r + 1]
           m == Current(r, msgs, w)
           c == Len(Decimal[Len(m)])
           value == (ln * 10 + p[1] - 48) % SizeMod
<1>1. p[1] \in Skipped
  BY ZenonT(40) DEF Skipped
<1>2. p[1] \in Passed /\ p[1] # Name[1]
  BY <1>1, SkippedBytes, ZenonT(40)
<1>3. \A i \in 1 .. 1 : p[i] \in Passed
  BY <1>2
<1>4. Layout(p, s, r, msgs, w, e) /\ Place(x, "digits", ln, m)
  BY ZenonT(40) DEF Fits
<1>5. 1 \in Nat /\ "digits" # "content"
  OBVIOUS
<1>6. CASE 0 <= x
  <2>1. 1 <= x
    BY <1>2, <1>4, <1>6, SkippedGap, ZenonT(40)
  <2> HIDE DEF value
  <2>2. Fitting(q, r, msgs, w, e, "digits", value, cl, blk)
    BY <1>3, <1>5, <2>1, AdvanceFree, ZenonT(40)
  <2> QED
    BY <2>2 DEF value
<1>7. CASE ~(0 <= x)
  <2>1. InDigits(x, ln, m)
    BY <1>4, <1>7 DEF Place
  <2>2. x \in Int /\ x < 0 /\ m \in Bodies /\ Agrees(Frame(m), p, x) /\ x + Len(Header(m)) <= Len(p)
    BY <1>4, <1>7, RealFrame, ZenonT(40)
  <2>3. PICK d \in 0 .. c : AtDigit(x, d) /\ \E v : Values(v, Len(m)) /\ ln = v[d]
    BY <2>1, ZenonT(40) DEF InDigits
  <2>4. PICK v : Values(v, Len(m)) /\ ln = v[d]
    BY <2>3, ZenonT(40)
  <2>5. d < c /\ d + 1 \in 1 .. c /\ p[1] = Decimal[Len(m)][d + 1]
    BY <2>2, <2>3, DigitOrSeparator, ZenonT(40)
  <2>6. c \in Nat /\ Len(m) \in Nat /\ Len(m) < SizeMod /\ SizeMod \in Nat
    BY <2>2, DigitCount, Constants, ZenonT(40)
  <2>7. d \in Nat /\ d + 1 \in 0 .. c /\ d \in 0 .. c /\ (d + 1) - 1 = d
    <3>1. c \in Nat /\ d \in 0 .. c /\ d < c
      BY <2>5, <2>6, ZenonT(40)
    <3> HIDE DEF c
    <3> QED
      BY <3>1
  <2>8. v[d + 1] <= Len(m)
    BY <2>4, <2>5, ZenonT(40) DEF Values
  <2>8a. v \in [0 .. c -> Nat] /\ v[d + 1] = 10 * v[(d + 1) - 1] + (Decimal[Len(m)][d + 1] - 48)
    BY <2>4, <2>5, ZenonT(40) DEF Values
  <2>9. v[d] \in Nat /\ v[d + 1] \in Nat
    <3> HIDE DEF c
    <3> QED
      BY <2>7, <2>8a, ZenonT(40)
  <2>10. NextValue(v[d], v[d + 1], p[1])
    BY <2>5, <2>7, <2>8a, ZenonT(40) DEF NextValue
  <2>11. (v[d] * 10 + p[1] - 48) % SizeMod = v[d + 1]
    BY <2>6, <2>8, <2>9, <2>10, DigitValue, ZenonT(40)
  <2>12. value = v[d + 1]
    BY <2>4, <2>11, ZenonT(40)
  <2>13. AtDigit(x - 1, d + 1)
    BY <2>2, <2>3, <2>7, NextDigit, ZenonT(40)
  <2> HIDE DEF value
  <2>14. InDigits(x - 1, value, m)
    BY <2>4, <2>7, <2>12, <2>13, ZenonT(40) DEF InDigits
  <2>15. Place(x - 1, "digits", value, m)
    BY <2>14, ZenonT(40) DEF Place
  <2>16. Fitting(q, r, msgs, w, e, "digits", value, cl, blk)
    BY <1>3, <1>5, <2>15, Advance, ZenonT(40)
  <2> QED
    BY <2>16 DEF value
<1> QED
  BY <1>6, <1>7

(* It ends at any other byte, with the length of the message if read() is  *)
(* in a frame, and read() returns if there is no length (line 73).         *)
LEMMA DigitsEnd ==
    ASSUME NEW p \in Seq(Nat), NEW msgs \in Seq(Bodies), NEW r \in 0 .. Len(msgs),
           NEW w \in Bodies \cup {<<>>}, NEW e, NEW ln, NEW cl \in 0 .. Len(msgs), NEW blk,
           Unmistakable, Fitting(p, r, msgs, w, e, "digits", ln, cl, blk),
           p[1] \notin 48 .. 57,
           NEW step2, step2 = IF ln = 0 THEN "out" ELSE "separator"
    PROVE  Fitting(p, r, msgs, w, e, step2, ln, cl, blk)
<1> PICK s \in [Nat -> Int] : Fits(p, s, r, msgs, w, e, "digits", ln, cl, blk)
  BY ZenonT(40) DEF Fitting
<1> DEFINE x == s[r + 1]
           m == Current(r, msgs, w)
           c == Len(Decimal[Len(m)])
<1>1. Layout(p, s, r, msgs, w, e) /\ Place(x, "digits", ln, m)
  BY ZenonT(40) DEF Fits
<1>2. CASE 0 <= x
  <2>1. step2 # "content"
    OBVIOUS
  <2> QED
    BY <1>2, <2>1, Resting, ZenonT(40)
<1>3. CASE ~(0 <= x)
  <2>1. InDigits(x, ln, m)
    BY <1>1, <1>3 DEF Place
  <2>2. x \in Int /\ x < 0 /\ m \in Bodies /\ Agrees(Frame(m), p, x) /\ x + Len(Header(m)) <= Len(p)
    BY <1>1, <1>3, RealFrame, ZenonT(40)
  <2>3. PICK d \in 0 .. c : AtDigit(x, d) /\ \E v : Values(v, Len(m)) /\ ln = v[d]
    BY <2>1, ZenonT(40) DEF InDigits
  <2>4. PICK v : Values(v, Len(m)) /\ ln = v[d]
    BY <2>3, ZenonT(40)
  <2>5. d = c
    BY <2>2, <2>3, DigitOrSeparator, ZenonT(40)
  <2>6. ln = Len(m)
    BY <2>4, <2>5, ZenonT(40) DEF Values
  <2>7. AtSeparator(x, m)
    BY <2>3, <2>5, ZenonT(40) DEF AtSeparator
  <2>8. Len(m) \in Nat \ {0}
    BY <2>2, Constants, ZenonT(40)
  <2>9. Len(m) # 0
    BY <2>8
  <2>10. step2 = "separator"
    BY <2>6, <2>9, ZenonT(40)
  <2>11. Place(x, step2, ln, m)
    BY <2>6, <2>7, <2>10, ZenonT(40) DEF Place
  <2>12. Fits(p, s, r, msgs, w, e, step2, ln, cl, blk)
    BY <2>11, ZenonT(40) DEF Fits
  <2> QED
    BY <2>12, ZenonT(40) DEF Fitting
<1> QED
  BY <1>2, <1>3

(* match takes the separator (line 78), and it can only be that of the     *)
(* next frame: from here on read() is in a frame.                          *)
LEMMA SeparatorTaken ==
    ASSUME NEW p \in Seq(Nat), NEW msgs \in Seq(Bodies), NEW r \in 0 .. Len(msgs),
           NEW w \in Bodies \cup {<<>>}, NEW e, NEW ln, NEW cl \in 0 .. Len(msgs), NEW blk,
           Unmistakable, Fitting(p, r, msgs, w, e, "separator", ln, cl, blk),
           At(Separator, p, 0), NEW q \in Seq(Nat), Suffix(q, p, Len(Separator))
    PROVE  Fitting(q, r, msgs, w, e, "content", ln, cl, blk)
<1> PICK s \in [Nat -> Int] : Fits(p, s, r, msgs, w, e, "separator", ln, cl, blk)
  BY ZenonT(40) DEF Fitting
<1> DEFINE x == s[r + 1]
           m == Current(r, msgs, w)
           d == Len(Separator)
           t == Earlier(s, d)
<1>1. Layout(p, s, r, msgs, w, e) /\ Place(x, "separator", ln, m)
  BY ZenonT(40) DEF Fits
<1>2. ~(0 <= x)
  BY <1>1, SeparatorGap, ZenonT(40)
<1>3. ln = Len(m) /\ AtSeparator(x, m)
  BY <1>1, <1>2 DEF Place
<1>4. x \in Int /\ x < 0 /\ m \in Bodies /\ Agrees(Frame(m), p, x) /\ x + Len(Header(m)) <= Len(p)
  BY <1>1, <1>2, RealFrame, ZenonT(40)
<1>5. x + Len(Header(m)) = d
  BY <1>3, <1>4, SeparatorAhead, ZenonT(40)
<1>6. d \in Nat /\ Len(msgs) \in Nat
  BY Constants, Length, ZenonT(40)
<1>7. Len(Header(m)) \in Nat /\ Len(m) \in Nat /\ Len(Frame(m)) = Len(Header(m)) + Len(m)
  BY <1>4, FrameParts, ZenonT(40)
<1>8. x - d = -Len(Header(m)) /\ d <= x + Len(Frame(m))
  <2> DEFINE h == Len(Header(m))
             f == Len(Frame(m))
             b == Len(m)
  <2>1. h \in Nat /\ b \in Nat /\ f = h + b /\ x \in Int /\ x + h = d /\ d \in Nat
    BY <1>4, <1>5, <1>6, <1>7, ZenonT(40)
  <2> HIDE DEF h, f, b, x, d
  <2>2. x - d = -h /\ d <= x + f
    BY <2>1
  <2> QED
    BY <2>2, ZenonT(40) DEF h, f
<1>9. AtContent(x - d, m)
  BY <1>8, ZenonT(40) DEF AtContent
<1>10. Place(x - d, "content", ln, m)
  <2>1. x - d \in Int
    <3> HIDE DEF x, d
    <3> QED
      BY <1>4, <1>6
  <2>2. x - d < 0
    BY <1>4, <1>9, <2>1, ContentEnd, ZenonT(40)
  <2>3. ~(0 <= x - d)
    <3> HIDE DEF x, d
    <3> QED
      BY <2>1, <2>2
  <2> QED
    BY <1>3, <1>9, <2>3, ZenonT(40) DEF Place
<1>11. r \in Nat /\ r + 1 \in Nat
  BY <1>6, Start, ZenonT(40)
<1>12. t \in [Nat -> Int] /\ Layout(q, t, r, msgs, w, e)
  BY <1>1, <1>6, <1>11, LayoutLater, ZenonT(40)
<1>13. t[r + 1] = x - d
  BY <1>11 DEF Earlier
<1>14. ASSUME r < Len(msgs) PROVE d <= x + Len(Frame(msgs[r + 1]))
  BY <1>8, <1>14, ZenonT(40) DEF Current
<1>15. x <= 0 /\ r <= r
  <2> HIDE DEF x
  <2> QED
    BY <1>4, <1>11
<1>16. ASSUME blk PROVE r <= cl /\ Blocked(q, t, r, msgs, cl)
  <2>1. r <= cl /\ Blocked(p, s, r, msgs, cl)
    BY <1>16, ZenonT(40) DEF Fits
  <2> QED
    BY <1>6, <1>11, <1>14, <1>15, <2>1, BlockedFrame, ZenonT(40)
<1> HIDE DEF t
<1>17. Fits(q, t, r, msgs, w, e, "content", ln, cl, blk)
  BY <1>10, <1>12, <1>13, <1>16, ZenonT(40) DEF Fits
<1> QED
  BY <1>12, <1>17, ZenonT(40) DEF Fitting

(* match finds no separator: read() was in no frame.                       *)
LEMMA SeparatorMissing ==
    ASSUME NEW p \in Seq(Nat), NEW msgs \in Seq(Bodies), NEW r \in 0 .. Len(msgs),
           NEW w \in Bodies \cup {<<>>}, NEW e, NEW ln, NEW cl \in 0 .. Len(msgs), NEW blk,
           Fitting(p, r, msgs, w, e, "separator", ln, cl, blk), ~At(Separator, p, 0)
    PROVE  Fitting(p, r, msgs, w, e, "out", ln, cl, blk)
<1> PICK s \in [Nat -> Int] : Fits(p, s, r, msgs, w, e, "separator", ln, cl, blk)
  BY ZenonT(40) DEF Fitting
<1> DEFINE x == s[r + 1]
           m == Current(r, msgs, w)
<1>1. Layout(p, s, r, msgs, w, e) /\ Place(x, "separator", ln, m)
  BY ZenonT(40) DEF Fits
<1>2. ASSUME ~(0 <= x) PROVE FALSE
  <2>1. x \in Int /\ x < 0 /\ m \in Bodies /\ Agrees(Frame(m), p, x) /\ x + Len(Header(m)) <= Len(p)
    BY <1>1, <1>2, RealFrame, ZenonT(40)
  <2>2. AtSeparator(x, m)
    BY <1>1, <1>2 DEF Place
  <2>3. Len(Separator) <= Len(p) /\ \A k \in 1 .. Len(Separator) : p[k] = Separator[k]
    BY <2>1, <2>2, SeparatorAhead, ZenonT(40)
  <2>4. Len(Separator) \in Nat
    BY Constants, ZenonT(40)
  <2>5. 0 + Len(Separator) = Len(Separator) /\ \A k \in 1 .. Len(Separator) : 0 + k = k
    BY <2>4
  <2>6. At(Separator, p, 0)
    BY <2>3, <2>5, ZenonT(40) DEF At
  <2> QED
    BY <2>6
<1>3. "out" # "content"
  OBVIOUS
<1> QED
  BY <1>2, <1>3, Resting, ZenonT(40)

(* read() waits for content only inside of a frame.                        *)
LEMMA StepContent ==
    ASSUME NEW x, NEW ln, NEW m, Place(x, "content", ln, m)
    PROVE  ~(0 <= x) /\ ln = Len(m) /\ AtContent(x, m)
BY DEF Place

(* The content is there and returned (lines 86-92): it is that of the next *)
(* message sent, and with kClose and invalid data one of those that were   *)
(* sent before it.                                                         *)
LEMMA Returned ==
    ASSUME NEW p \in Seq(Nat), NEW msgs \in Seq(Bodies), NEW r \in 0 .. Len(msgs),
           NEW w \in Bodies \cup {<<>>}, NEW e, NEW ln, NEW cl \in 0 .. Len(msgs), NEW blk,
           Fitting(p, r, msgs, w, e, "content", ln, cl, blk),
           ln <= Len(p), NEW q \in Seq(Nat), Suffix(q, p, ln)
    PROVE  /\ r < Len(msgs) /\ ln = Len(msgs[r + 1])
           /\ \A k \in 1 .. ln : p[k] = msgs[r + 1][k]
           /\ blk => r < cl
           /\ Fitting(q, r + 1, msgs, w, e, "out", ln, cl, blk)
<1> PICK s \in [Nat -> Int] : Fits(p, s, r, msgs, w, e, "content", ln, cl, blk)
  BY ZenonT(40) DEF Fitting
<1> DEFINE x == s[r + 1]
           m == Current(r, msgs, w)
           t == Earlier(s, ln)
<1>1. Layout(p, s, r, msgs, w, e) /\ Place(x, "content", ln, m)
  BY ZenonT(40) DEF Fits
<1>2. Len(msgs) \in Nat /\ Len(p) \in Nat
  BY Length, ZenonT(40)
<1>3. r \in Nat /\ r + 1 \in Nat /\ r + 2 \in Nat /\ x \in Int
  BY <1>2, Start, ZenonT(40)
<1>4. ~(0 <= x) /\ ln = Len(m) /\ AtContent(x, m)
  BY <1>1, StepContent, ZenonT(40)
<1>6. x < 0 /\ m \in Bodies /\ Agrees(Frame(m), p, x) /\ Extent(p, r, msgs, w, m, x)
  BY <1>1, <1>4, RealFrame, ZenonT(40)
<1>7. x + Len(Frame(m)) = ln /\ ln \in Nat
  BY <1>3, <1>4, <1>6, ContentEnd, ZenonT(40)
<1>8. ~(Len(p) < x + Len(Frame(m)))
  <2>1. ~(Len(p) < ln)
    BY <1>2, <1>7
  <2> QED
    BY <1>7, <2>1, ZenonT(40)
<1>9. r < Len(msgs) /\ m = msgs[r + 1]
  BY <1>6, <1>8, ZenonT(40) DEF Extent
<1>10. ASSUME NEW k \in 1 .. ln PROVE p[k] = m[k]
  <2>1. k <= Len(p)
    BY <1>2, <1>7
  <2>2. k \in 1 .. Len(m)
    BY <1>4, ZenonT(40)
  <2> QED
    BY <1>3, <1>4, <1>6, <2>1, <2>2, ContentAhead, ZenonT(40) DEF AtContent
<1>11. t \in [Nat -> Int] /\ Layout(q, t, r + 1, msgs, w, e) /\ 0 <= t[r + 2]
  <2> DEFINE u == Earlier(s, Len(msgs[r + 1]))
  <2>1. ln = Len(msgs[r + 1]) /\ AtContent(x, msgs[r + 1])
    BY <1>4, <1>9, ZenonT(40)
  <2>2. Suffix(q, p, Len(msgs[r + 1])) /\ t = u
    BY <2>1, ZenonT(40)
  <2>3. u \in [Nat -> Int] /\ Layout(q, u, r + 1, msgs, w, e) /\ 0 <= u[r + 2]
    BY <1>1, <1>9, <2>1, <2>2, FrameReturned, ZenonT(40)
  <2> HIDE DEF u, t
  <2> QED
    BY <2>2, <2>3, ZenonT(40)
<1>12. ASSUME blk PROVE r < cl /\ Blocked(q, t, r + 1, msgs, cl)
  <2>1. r <= cl /\ Blocked(p, s, r, msgs, cl)
    BY <1>12, ZenonT(40) DEF Fits
  <2>2. x <= 0 /\ r <= r + 1
    <3> HIDE DEF x
    <3> QED
      BY <1>3, <1>6
  <2>3. ln <= x + Len(Frame(msgs[r + 1]))
    <3>1. ln <= ln
      BY <1>7
    <3> QED
      BY <1>7, <1>9, <3>1, ZenonT(40)
  <2> QED
    BY <1>3, <1>7, <2>1, <2>2, <2>3, BlockedFrame, ZenonT(40)
<1>13. r < cl => r + 1 <= cl
  BY <1>2, <1>3
<1>14. (r + 1) + 1 = r + 2 /\ "out" # "content"
  BY <1>3
<1>15. Place(t[(r + 1) + 1], "out", ln, Current(r + 1, msgs, w))
  BY <1>11, <1>14, PlaceFree, ZenonT(40)
<1> HIDE DEF t
<1>16. Fits(q, t, r + 1, msgs, w, e, "out", ln, cl, blk)
  BY <1>11, <1>12, <1>13, <1>15, ZenonT(40) DEF Fits
<1>17. Fitting(q, r + 1, msgs, w, e, "out", ln, cl, blk)
  BY <1>11, <1>16, ZenonT(40) DEF Fitting
<1> QED
  BY <1>4, <1>9, <1>10, <1>12, <1>17, ZenonT(40)

(* The content never comes (line 83): its message was cut off.             *)
LEMMA Lost ==
    ASSUME NEW p \in Seq(Nat), NEW msgs \in Seq(Bodies), NEW r \in 0 .. Len(msgs),
           NEW w \in Bodies \cup {<<>>}, NEW e, Over(e), NEW ln, NEW cl \in 0 .. Len(msgs), NEW blk,
           Unmistakable, Fitting(p, r, msgs, w, e, "content", ln, cl, blk), Len(p) < ln
    PROVE  Fitting(p, r, msgs, w, e, "out", ln, cl, blk)
<1> PICK s \in [Nat -> Int] : Fits(p, s, r, msgs, w, e, "content", ln, cl, blk)
  BY ZenonT(40) DEF Fitting
<1> DEFINE x == s[r + 1]
           m == Current(r, msgs, w)
<1>1. Layout(p, s, r, msgs, w, e) /\ Place(x, "content", ln, m)
  BY ZenonT(40) DEF Fits
<1>2. Len(msgs) \in Nat /\ Len(p) \in Nat
  BY Length, ZenonT(40)
<1>3. r \in Nat /\ r + 1 \in Nat /\ r + 2 \in Nat /\ x \in Int
  BY <1>2, Start, ZenonT(40)
<1>4. ~(0 <= x) /\ ln = Len(m) /\ AtContent(x, m)
  BY <1>1, StepContent, ZenonT(40)
<1>6. x < 0 /\ m \in Bodies /\ Agrees(Frame(m), p, x) /\ Extent(p, r, msgs, w, m, x)
  BY <1>1, <1>4, RealFrame, ZenonT(40)
<1>7. x + Len(Frame(m)) = ln /\ ln \in Nat
  BY <1>3, <1>4, <1>6, ContentEnd, ZenonT(40)
<1>8. ~(x + Len(Frame(m)) <= Len(p)) /\ Len(p) <= Len(m)
  <2>1. ~(ln <= Len(p)) /\ Len(p) <= ln
    BY <1>2, <1>7
  <2> QED
    BY <1>4, <1>7, <2>1, ZenonT(40)
<1>9. r = Len(msgs) /\ m = w
  BY <1>6, <1>8, ZenonT(40) DEF Extent
<1>10. w \in Bodies /\ AtContent(x, w) /\ Agrees(Frame(w), p, x) /\ Len(p) <= Len(w)
  BY <1>4, <1>6, <1>8, <1>9, ZenonT(40)
<1>5. PICK t : Moved(s, t, r + 1, Len(p))
  <2>1. Len(p) \in Int
    BY <1>2
  <2> QED
    BY <1>3, <2>1, Move, ZenonT(40)
<1>11. t \in [Nat -> Int] /\ Layout(p, t, r, msgs, w, e) /\ t[r + 1] = Len(p)
  <2>1. Layout(p, t, r, msgs, w, e)
    BY <1>5, <1>9, <1>10, FrameLost, ZenonT(40)
  <2> QED
    BY <1>5, <2>1, ZenonT(40) DEF Moved
<1>12. ~blk
  <2> SUFFICES ASSUME blk PROVE FALSE
    OBVIOUS
  <2>1. r <= cl /\ \E z \in Nat : Stop(p, s, r, msgs, cl, z)
    BY ZenonT(40) DEF Fits, Blocked
  <2>2. x <= 0
    <3> HIDE DEF x
    <3> QED
      BY <1>3, <1>6
  <2>3. r < cl
    BY <1>3, <2>1, <2>2, StopFrame, ZenonT(40)
  <2> QED
    BY <1>2, <1>3, <1>9, <2>3
<1>13. 0 <= Len(p) /\ "out" # "content"
  BY <1>2
<1>14. Place(t[r + 1], "out", ln, m)
  BY <1>11, <1>13, PlaceFree, ZenonT(40)
<1>15. Fits(p, t, r, msgs, w, e, "out", ln, cl, blk)
  BY <1>11, <1>12, <1>14, ZenonT(40) DEF Fits
<1> QED
  BY <1>11, <1>15, ZenonT(40) DEF Fitting

(* With all messages returned and none begun, read() is in no frame, and   *)
(* all the bytes left are junk.                                            *)
LEMMA PlaceSame ==
    ASSUME NEW p \in Seq(Nat), NEW s \in [Nat -> Int], NEW msgs \in Seq(Bodies),
           NEW r \in 0 .. Len(msgs), NEW e, Layout(p, s, r, msgs, <<>>, e),
           ~(r < Len(msgs)), NEW step, NEW ln, NEW m, Place(s[r + 1], step, ln, m)
    PROVE  0 <= s[r + 1] /\ s[r + 1] = Len(p) /\ step # "content"
<1> DEFINE x == s[r + 1]
<1>1. Len(msgs) \in Nat /\ Len(p) \in Nat
  BY Length, ZenonT(40)
<1>2. r = Len(msgs)
  BY <1>1
<1>3. Ending(p, <<>>, e, x)
  BY <1>2, ZenonT(40) DEF Layout
<1>4. x = Len(p)
  BY <1>3, ZenonT(40) DEF Ending, Cut
<1>5. 0 <= x
  BY <1>1, <1>4
<1>6. step # "content"
  BY <1>5 DEF Place
<1> QED
  BY <1>4, <1>5, <1>6, ZenonT(40)

(* A concatenation is longer.                                              *)
LEMMA LongerBy ==
    ASSUME NEW p \in Seq(Nat), NEW u \in Seq(Nat)
    PROVE  p \o u \in Seq(Nat) /\ Longer(p \o u, p)
<1>1. /\ p \o u \in Seq(Nat)
      /\ Len(p) \in Nat /\ Len(u) \in Nat /\ Len(p \o u) = Len(p) + Len(u)
      /\ \A k \in 1 .. Len(p) : (p \o u)[k] = p[k]
  BY Concat, ZenonT(40)
<1>2. Len(p) <= Len(p \o u)
  BY <1>1
<1> QED
  BY <1>1, <1>2, ZenonT(40) DEF Longer

(* Adding bytes does not unblock the reader.                               *)
LEMMA BlockedSame ==
    ASSUME NEW p \in Seq(Nat), NEW u \in Seq(Nat), NEW s \in [Nat -> Int], NEW r \in Nat,
           NEW cl \in Nat, NEW msgs, Blocked(p, s, r, msgs, cl)
    PROVE  Blocked(p \o u, s, r, msgs, cl)
<1>1. p \o u \in Seq(Nat) /\ Longer(p \o u, p)
  BY LongerBy, ZenonT(40)
<1>2. cl + 1 \in Nat
  OBVIOUS
<1>3. s[cl + 1] <= s[cl + 1]
  BY <1>2
<1> QED
  BY <1>1, <1>3, BlockedLonger, ZenonT(40)

(* ContentWriter::write, its first write (lines 192-194).                  *)
LEMMA FitHeader ==
    ASSUME NEW p \in Seq(Nat), NEW msgs \in Seq(Bodies), NEW r \in 0 .. Len(msgs),
           NEW e, NEW step, NEW ln, NEW cl \in 0 .. Len(msgs), NEW blk, NEW m \in Bodies,
           Unmistakable, Fitting(p, r, msgs, <<>>, e, step, ln, cl, blk)
    PROVE  Fitting(p \o Header(m), r, msgs, m, e, step, ln, cl, blk)
<1> PICK s \in [Nat -> Int] : Fits(p, s, r, msgs, <<>>, e, step, ln, cl, blk)
  BY ZenonT(40) DEF Fitting
<1>1. Layout(p, s, r, msgs, <<>>, e) /\ Place(s[r + 1], step, ln, Current(r, msgs, <<>>))
  BY ZenonT(40) DEF Fits
<1>2. Layout(p \o Header(m), s, r, msgs, m, e)
  BY <1>1, HeaderWritten, ZenonT(40)
<1>3. Place(s[r + 1], step, ln, Current(r, msgs, m))
  <2>1. CASE r < Len(msgs)
    BY <1>1, <2>1, ZenonT(40) DEF Current
  <2>2. CASE ~(r < Len(msgs))
    BY <1>1, <2>2, PlaceSame, PlaceFree, ZenonT(40)
  <2> QED
    BY <2>1, <2>2
<1>4. Len(msgs) \in Nat /\ Header(m) \in Seq(Nat)
  BY Length, HeaderSize, ZenonT(40)
<1>5. r \in Nat /\ cl \in Nat
  BY <1>4
<1>6. ASSUME blk PROVE r <= cl /\ Blocked(p \o Header(m), s, r, msgs, cl)
  BY <1>4, <1>5, <1>6, BlockedSame, ZenonT(40) DEF Fits
<1>7. Fits(p \o Header(m), s, r, msgs, m, e, step, ln, cl, blk)
  BY <1>2, <1>3, <1>6, ZenonT(40) DEF Fits
<1> QED
  BY <1>7, ZenonT(40) DEF Fitting

(* The sender ends.                                                        *)
LEMMA FitEnd ==
    ASSUME NEW p \in Seq(Nat), NEW msgs \in Seq(Bodies), NEW r \in 0 .. Len(msgs),
           NEW w \in Bodies \cup {<<>>}, NEW e, ~Over(e), NEW step, NEW ln,
           NEW cl \in 0 .. Len(msgs), NEW blk, NEW g, Over(g),
           Fitting(p, r, msgs, w, e, step, ln, cl, blk),
           NEW k \in 0 .. Len(w), k = 0 \/ k < Len(w)
    PROVE  Fitting(p \o SubSeq(w, 1, k), r, msgs, w, g, step, ln, cl, blk)
<1> PICK s \in [Nat -> Int] : Fits(p, s, r, msgs, w, e, step, ln, cl, blk)
  BY ZenonT(40) DEF Fitting
<1> DEFINE u == SubSeq(w, 1, k)
<1>1. w \in Seq(Nat)
  <2>1. <<>> \in Seq(Nat)
    OBVIOUS
  <2> QED
    BY <2>1, Constants, ZenonT(40)
<1>2. Piece(u, w, k)
  BY <1>1, Beginning, ZenonT(40)
<1> HIDE DEF u
<1>3. u \in Seq(Nat) /\ Len(msgs) \in Nat
  BY <1>2, Length, ZenonT(40) DEF Piece
<1>7. Layout(p \o u, s, r, msgs, w, g)
  <2>1. Layout(p, s, r, msgs, w, e)
    BY ZenonT(40) DEF Fits
  <2> QED
    BY <1>2, <2>1, SenderEnds, ZenonT(40)
<1>4. r \in Nat /\ cl \in Nat
  BY <1>3
<1>5. ASSUME blk PROVE r <= cl /\ Blocked(p \o u, s, r, msgs, cl)
  BY <1>3, <1>4, <1>5, BlockedSame, ZenonT(40) DEF Fits
<1>6. Fits(p \o u, s, r, msgs, w, g, step, ln, cl, blk)
  BY <1>5, <1>7, ZenonT(40) DEF Fits
<1> QED
  BY <1>6, ZenonT(40) DEF Fitting, u

(* Without a blocking byte the count of messages before it is free.        *)
LEMMA Unblocked ==
    ASSUME NEW p, NEW r, NEW msgs, NEW w, NEW e, NEW step, NEW ln, NEW cl, NEW blk,
           Fitting(p, r, msgs, w, e, step, ln, cl, blk), NEW more, NEW off, ~Over(off)
    PROVE  Fitting(p, r, msgs, w, e, step, ln, more, off)
<1> PICK s \in [Nat -> Int] : Fits(p, s, r, msgs, w, e, step, ln, cl, blk)
  BY ZenonT(40) DEF Fitting
<1>1. Fits(p, s, r, msgs, w, e, step, ln, more, off)
  BY ZenonT(40) DEF Fits, Over
<1> QED
  BY <1>1, ZenonT(40) DEF Fitting

(* ContentWriter::write, its second write (line 195).                      *)
LEMMA FitContent ==
    ASSUME NEW p \in Seq(Nat), NEW msgs \in Seq(Bodies), NEW r \in 0 .. Len(msgs),
           NEW w \in Bodies, NEW e, ~Over(e), NEW step, NEW ln, NEW cl \in 0 .. Len(msgs),
           NEW blk, Fitting(p, r, msgs, w, e, step, ln, cl, blk)
    PROVE  Fitting(p \o w, r, Append(msgs, w), <<>>, e, step, ln, cl, blk)
<1> PICK s \in [Nat -> Int] : Fits(p, s, r, msgs, w, e, step, ln, cl, blk)
  BY ZenonT(40) DEF Fitting
<1> DEFINE n == Len(msgs)
           q == p \o w
           more == Append(msgs, w)
<1>1. n \in Nat /\ w \in Seq(Nat)
  BY Length, Constants, ZenonT(40)
<1>2. r \in Nat /\ cl \in Nat /\ n + 2 \in Nat /\ cl + 1 \in Nat /\ r + 1 \in Nat
  BY <1>1
<1>3. q \in Seq(Nat) /\ Longer(q, p)
  BY <1>1, LongerBy, ZenonT(40)
<1>4. Len(q) \in Nat
  BY <1>3, Length, ZenonT(40)
<1>5. Len(q) \in Int
  BY <1>4
<1>6. PICK t : Moved(s, t, n + 2, Len(q))
  BY <1>2, <1>5, Move, ZenonT(40)
<1>7. t \in [Nat -> Int] /\ \A i \in Nat : i # n + 2 => t[i] = s[i]
  BY <1>6, ZenonT(40) DEF Moved
<1>8. Layout(p, s, r, msgs, w, e) /\ Place(s[r + 1], step, ln, Current(r, msgs, w))
  BY ZenonT(40) DEF Fits
<1>9. Layout(q, t, r, more, <<>>, e)
  BY <1>6, <1>8, ContentWritten, ZenonT(40)
<1>10. Len(more) = n + 1 /\ more[n + 1] = w /\ \A i \in 1 .. n : more[i] = msgs[i]
  OBVIOUS
<1>11. r + 1 # n + 2 /\ cl + 1 # n + 2
  BY <1>1, <1>2
<1>12. t[r + 1] = s[r + 1] /\ t[cl + 1] = s[cl + 1]
  BY <1>2, <1>7, <1>11, ZenonT(40)
<1> HIDE DEF more, q
<1>13. Current(r, more, <<>>) = Current(r, msgs, w)
  <2>1. r < Len(more)
    BY <1>1, <1>2, <1>10
  <2>2. Current(r, more, <<>>) = more[r + 1]
    BY <2>1, ZenonT(40) DEF Current
  <2>3. CASE r < n
    <3>1. r + 1 \in 1 .. n
      BY <1>1, <1>2, <2>3
    <3> QED
      BY <1>10, <2>2, <2>3, <3>1, ZenonT(40) DEF Current
  <2>4. CASE ~(r < n)
    <3>1. r = n
      BY <1>1, <1>2, <2>4
    <3> QED
      BY <1>10, <2>2, <2>4, <3>1, ZenonT(40) DEF Current
  <2> QED
    BY <2>3, <2>4
<1>14. ASSUME NEW i \in r + 1 .. cl PROVE t[i] = s[i] /\ more[i] = msgs[i]
  <2>1. i \in Nat /\ i \in 1 .. n /\ i # n + 2
    BY <1>1, <1>2
  <2> QED
    BY <1>7, <1>10, <2>1, ZenonT(40)
<1>15. s[cl + 1] <= t[cl + 1]
  <2>1. s[cl + 1] <= s[cl + 1]
    BY <1>2
  <2> QED
    BY <1>12, <2>1, ZenonT(40)
<1>16. ASSUME blk PROVE r <= cl /\ Blocked(q, t, r, more, cl)
  <2>1. r <= cl /\ Blocked(p, s, r, msgs, cl)
    BY <1>16, ZenonT(40) DEF Fits
  <2> QED
    BY <1>2, <1>3, <1>7, <1>14, <1>15, <2>1, BlockedLonger, ZenonT(40)
<1>17. Fits(q, t, r, more, <<>>, e, step, ln, cl, blk)
  BY <1>8, <1>9, <1>12, <1>13, <1>16, ZenonT(40) DEF Fits
<1> QED
  BY <1>7, <1>17, ZenonT(40) DEF Fitting, more, q

(* Junk moves the end of the layout, and read() stays where it is in it.   *)
LEMMA JunkPlaced ==
    ASSUME NEW p \in Seq(Nat), NEW j \in Junks, NEW s \in [Nat -> Int],
           NEW msgs \in Seq(Bodies), NEW r \in 0 .. Len(msgs), NEW e, NEW step, NEW ln,
           Unmistakable, Layout(p, s, r, msgs, <<>>, e),
           Place(s[r + 1], step, ln, Current(r, msgs, <<>>)),
           NEW t, Moved(s, t, Len(msgs) + 1, Len(p \o j))
    PROVE  Layout(p \o j, t, r, msgs, <<>>, e) /\ Place(t[r + 1], step, ln, Current(r, msgs, <<>>))
<1> DEFINE n == Len(msgs)
<1>1. n \in Nat
  BY Length, ZenonT(40)
<1>2. r \in Nat /\ r + 1 \in Nat
  BY <1>1
<1>3. Layout(p \o j, t, r, msgs, <<>>, e)
  BY JunkWritten, ZenonT(40)
<1>4. CASE r < n
  <2>1. r + 1 # n + 1
    BY <1>1, <1>2, <1>4
  <2>2. t[r + 1] = s[r + 1]
    BY <1>2, <2>1, ZenonT(40) DEF Moved
  <2> QED
    BY <1>3, <2>2, ZenonT(40)
<1>5. CASE ~(r < n)
  <2>1. r = n
    BY <1>1, <1>2, <1>5
  <2>2. step # "content"
    BY <1>5, PlaceSame, ZenonT(40)
  <2>3. j \in Seq(Nat)
    BY Constants, ZenonT(40)
  <2>4. p \o j \in Seq(Nat)
    BY <2>3, LongerBy, ZenonT(40)
  <2>5. Len(p \o j) \in Nat
    BY <2>4, Length, ZenonT(40)
  <2>6. 0 <= Len(p \o j)
    BY <2>5
  <2>7. t[r + 1] = Len(p \o j)
    BY <2>1, ZenonT(40) DEF Moved
  <2>8. 0 <= t[r + 1]
    BY <2>6, <2>7, ZenonT(40)
  <2> QED
    BY <1>3, <2>2, <2>8, PlaceFree, ZenonT(40)
<1> QED
  BY <1>4, <1>5, ZenonT(40)

(* The layout that it moves to.                                            *)
LEMMA JunkMove ==
    ASSUME NEW p \in Seq(Nat), NEW j \in Junks, NEW s \in [Nat -> Int], NEW msgs \in Seq(Bodies)
    PROVE  /\ \E t : Moved(s, t, Len(msgs) + 1, Len(p \o j))
           /\ p \o j \in Seq(Nat) /\ Longer(p \o j, p)
<1>1. j \in Seq(Nat) /\ Len(msgs) \in Nat
  BY Constants, Length, ZenonT(40)
<1>2. p \o j \in Seq(Nat) /\ Longer(p \o j, p)
  BY <1>1, LongerBy, ZenonT(40)
<1>3. Len(p \o j) \in Nat
  BY <1>2, Length, ZenonT(40)
<1>4. Len(p \o j) \in Int
  BY <1>3
<1>5. Len(msgs) + 1 \in Nat
  BY <1>1
<1> QED
  BY <1>2, <1>4, <1>5, Move, ZenonT(40)

(* Junk is written.                                                        *)
LEMMA FitJunk ==
    ASSUME NEW p \in Seq(Nat), NEW j \in Junks, NEW msgs \in Seq(Bodies),
           NEW r \in 0 .. Len(msgs), NEW e, NEW step, NEW ln, NEW cl \in 0 .. Len(msgs),
           NEW blk, Unmistakable, Fitting(p, r, msgs, <<>>, e, step, ln, cl, blk)
    PROVE  Fitting(p \o j, r, msgs, <<>>, e, step, ln, cl, blk)
<1> PICK s \in [Nat -> Int] : Fits(p, s, r, msgs, <<>>, e, step, ln, cl, blk)
  BY ZenonT(40) DEF Fitting
<1> DEFINE n == Len(msgs)
           q == p \o j
<1>1. n \in Nat
  BY Length, ZenonT(40)
<1>2. r \in Nat /\ cl \in Nat /\ n + 1 \in Nat /\ cl + 1 \in Nat
  BY <1>1
<1>3. q \in Seq(Nat) /\ Longer(q, p)
  BY JunkMove, ZenonT(40)
<1>4. PICK t : Moved(s, t, n + 1, Len(q))
  BY JunkMove, ZenonT(40)
<1>5. t \in [Nat -> Int] /\ t[n + 1] = Len(q) /\ \A i \in Nat : i # n + 1 => t[i] = s[i]
  BY <1>4, ZenonT(40) DEF Moved
<1>6. Layout(p, s, r, msgs, <<>>, e) /\ Place(s[r + 1], step, ln, Current(r, msgs, <<>>))
  BY ZenonT(40) DEF Fits
<1>7. Layout(q, t, r, msgs, <<>>, e) /\ Place(t[r + 1], step, ln, Current(r, msgs, <<>>))
  BY <1>4, <1>6, JunkPlaced, ZenonT(40)
<1>8. ASSUME NEW i \in r + 1 .. cl PROVE t[i] = s[i] /\ msgs[i] = msgs[i]
  <2>1. i \in Nat /\ i # n + 1
    BY <1>1, <1>2
  <2> QED
    BY <1>5, <2>1, ZenonT(40)
<1>9. ASSUME blk PROVE r <= cl /\ Blocked(q, t, r, msgs, cl)
  <2>1. r <= cl /\ Blocked(p, s, r, msgs, cl)
    BY <1>9, ZenonT(40) DEF Fits
  <2>2. CASE cl = n
    <3>1. s[n + 1] <= Len(p)
      <4>1. n + 1 \in r + 1 .. n + 1
        BY <1>1, <1>2
      <4> QED
        BY <1>6, <4>1, WithinBytes, ZenonT(40)
    <3>2. Len(p) <= Len(q)
      BY <1>3, ZenonT(40) DEF Longer
    <3>3. s[n + 1] \in Int /\ Len(p) \in Nat /\ Len(q) \in Nat
      BY <1>2, <1>3, Length, ZenonT(40)
    <3>4. s[n + 1] <= Len(q)
      <4> HIDE DEF q
      <4> QED
        BY <3>1, <3>2, <3>3
    <3>5. s[cl + 1] <= t[cl + 1]
      BY <1>5, <2>2, <3>4, ZenonT(40)
    <3> QED
      BY <1>2, <1>3, <1>5, <1>8, <2>1, <3>5, BlockedLonger, ZenonT(40)
  <2>3. CASE cl # n
    <3>1. cl + 1 # n + 1 /\ s[cl + 1] <= s[cl + 1]
      BY <1>1, <1>2, <2>3
    <3>2. s[cl + 1] <= t[cl + 1]
      BY <1>2, <1>5, <3>1, ZenonT(40)
    <3> QED
      BY <1>2, <1>3, <1>5, <1>8, <2>1, <3>2, BlockedLonger, ZenonT(40)
  <2> QED
    BY <2>2, <2>3
<1> HIDE DEF q
<1>10. Fits(q, t, r, msgs, <<>>, e, step, ln, cl, blk)
  BY <1>7, <1>9, ZenonT(40) DEF Fits
<1> QED
  BY <1>5, <1>10, ZenonT(40) DEF Fitting, q

(* The first junk with a byte that cannot be passed blocks the reader      *)
(* behind all the messages sent so far.                                    *)
LEMMA FitFirstJunk ==
    ASSUME NEW p \in Seq(Nat), NEW j \in Junks, NEW msgs \in Seq(Bodies),
           NEW r \in 0 .. Len(msgs), NEW e, NEW step, NEW ln, NEW cl,
           NEW blk, Unmistakable, Fitting(p, r, msgs, <<>>, e, step, ln, cl, blk),
           \E i \in 1 .. Len(j) : j[i] \notin Passed, NEW on
    PROVE  Fitting(p \o j, r, msgs, <<>>, e, step, ln, Len(msgs), on)
<1> PICK s \in [Nat -> Int] : Fits(p, s, r, msgs, <<>>, e, step, ln, cl, blk)
  BY ZenonT(40) DEF Fitting
<1> DEFINE n == Len(msgs)
           q == p \o j
<1>1. n \in Nat /\ j \in Seq(Nat)
  BY Length, Constants, ZenonT(40)
<1>2. r \in Nat /\ n + 1 \in Nat /\ r <= n
  BY <1>1
<1>3. /\ q \in Seq(Nat) /\ Len(p) \in Nat /\ Len(j) \in Nat /\ Len(q) = Len(p) + Len(j)
      /\ \A k \in 1 .. Len(j) : q[Len(p) + k] = j[k]
  BY <1>1, Concat, ZenonT(40)
<1>4. PICK t : Moved(s, t, n + 1, Len(q))
  BY JunkMove, ZenonT(40)
<1>5. t \in [Nat -> Int] /\ t[n + 1] = Len(q) /\ \A i \in Nat : i # n + 1 => t[i] = s[i]
  BY <1>4, ZenonT(40) DEF Moved
<1>6. Layout(p, s, r, msgs, <<>>, e) /\ Place(s[r + 1], step, ln, Current(r, msgs, <<>>))
  BY ZenonT(40) DEF Fits
<1>7. Layout(q, t, r, msgs, <<>>, e) /\ Place(t[r + 1], step, ln, Current(r, msgs, <<>>))
  BY <1>4, <1>6, JunkPlaced, ZenonT(40)
<1>8. PICK a \in 1 .. Len(j) : j[a] \notin Passed
  OBVIOUS
<1> DEFINE z == Len(p) + a
<1>9. q[z] \notin Passed
  BY <1>3, <1>8, ZenonT(40)
<1>10. z \in Nat /\ 1 <= z /\ z <= Len(q) /\ Len(p) < z
  <2> HIDE DEF q
  <2>1. Len(p) \in Nat /\ Len(j) \in Nat /\ Len(q) = Len(p) + Len(j) /\ a \in 1 .. Len(j)
    BY <1>3, <1>8, ZenonT(40)
  <2> QED
    BY <2>1
<1> HIDE DEF z
<1>11. ASSUME NEW i \in r + 1 .. n PROVE Beyond(t[i], msgs[i], z)
  <2>1. i \in Nat /\ i + 1 \in Nat /\ i # n + 1 /\ i \in 1 .. n
    BY <1>1, <1>2
  <2>2. t[i] = s[i]
    BY <1>5, <2>1, ZenonT(40)
  <2>3. Whole(p, msgs[i], s[i], s[i + 1])
    BY <1>6, ZenonT(40) DEF Layout
  <2> DEFINE f == Len(Frame(msgs[i]))
             b == s[i]
             c == s[i + 1]
  <2>4. b + f <= c /\ c <= Len(p)
    BY <2>3, ZenonT(40) DEF Whole
  <2>5. msgs[i] \in Bodies
    BY <2>1, Length, ZenonT(40)
  <2>6. Frame(msgs[i]) \in Seq(Nat)
    BY <2>5, FrameParts, ZenonT(40)
  <2>7. f \in Nat /\ b \in Int /\ c \in Int
    BY <2>1, <2>6, Length, ZenonT(40)
  <2>8. b + f < z
    <3> HIDE DEF f, b, c
    <3> QED
      BY <1>3, <1>10, <2>4, <2>7
  <2> QED
    BY <2>2, <2>8, ZenonT(40) DEF Beyond
<1>12. z <= t[n + 1]
  BY <1>5, <1>10, ZenonT(40)
<1> HIDE DEF q
<1>13. Stop(q, t, r, msgs, n, z)
  BY <1>9, <1>10, <1>11, <1>12, ZenonT(40) DEF Stop
<1>14. Blocked(q, t, r, msgs, n)
  BY <1>10, <1>13, ZenonT(40) DEF Blocked
<1>15. Fits(q, t, r, msgs, <<>>, e, step, ln, n, on)
  BY <1>2, <1>7, <1>14, ZenonT(40) DEF Fits
<1> QED
  BY <1>5, <1>15, ZenonT(40) DEF Fitting, q

(* A word at the beginning of a sequence, element by element.              *)
LEMMA Prefix ==
    ASSUME NEW S, NEW s \in Seq(S), NEW t \in Seq(S)
    PROVE  At(s, t, 0) <=> Len(s) <= Len(t) /\ \A i \in 1 .. Len(s) : t[i] = s[i]
<1>1. Len(s) \in Nat /\ 0 + Len(s) = Len(s)
  <2>1. Len(s) \in Nat
    BY Length, ZenonT(40)
  <2> QED
    BY <2>1
<1>2. ASSUME NEW i \in 1 .. Len(s) PROVE t[0 + i] = t[i]
  <2>1. 0 + i = i
    BY <1>1
  <2> QED
    BY <2>1, ZenonT(40)
<1> QED
  BY <1>1, <1>2, ZenonT(40) DEF At

(* What drops off the buffer drops off the bytes not used yet.             *)
LEMMA Dropping ==
    ASSUME NEW b \in Seq(Nat), NEW t \in Seq(Nat), NEW n \in 0 .. Len(b)
    PROVE  LET c == SubSeq(b, n + 1, Len(b))
           IN  c \in Seq(Nat) /\ c \o t \in Seq(Nat) /\ Suffix(c \o t, b \o t, n)
<1> DEFINE c == SubSeq(b, n + 1, Len(b))
           q == c \o t
           p == b \o t
<1>1. Len(b) \in Nat /\ Len(t) \in Nat
  BY Length, ZenonT(40)
<1>2. n \in Nat
  BY <1>1
<1>3. c \in Seq(Nat) /\ Len(c) = Len(b) - n /\ \A i \in 1 .. Len(c) : c[i] = b[i + n]
  OBVIOUS
<1> HIDE DEF c
<1>4. /\ q \in Seq(Nat) /\ Len(q) = Len(c) + Len(t)
      /\ \A i \in 1 .. Len(c) : q[i] = c[i]
      /\ \A i \in 1 .. Len(t) : q[Len(c) + i] = t[i]
  BY <1>3, Concat, ZenonT(40)
<1>5. /\ p \in Seq(Nat) /\ Len(p) = Len(b) + Len(t)
      /\ \A i \in 1 .. Len(b) : p[i] = b[i]
      /\ \A i \in 1 .. Len(t) : p[Len(b) + i] = t[i]
  BY Concat, ZenonT(40)
<1> HIDE DEF q, p
<1>6. Len(q) = Len(p) - n
  BY <1>1, <1>2, <1>3, <1>4, <1>5
<1>7. ASSUME NEW k \in 1 .. Len(q) PROVE q[k] = p[k + n]
  <2>1. CASE k <= Len(c)
    <3>1. k \in 1 .. Len(c) /\ k + n \in 1 .. Len(b)
      BY <1>1, <1>2, <1>3, <1>4, <2>1
    <3> QED
      BY <1>3, <1>4, <1>5, <3>1, ZenonT(40)
  <2>2. CASE ~(k <= Len(c))
    <3> DEFINE l == k - Len(c)
    <3>1. l \in 1 .. Len(t) /\ Len(c) + l = k /\ Len(b) + l = k + n
      BY <1>1, <1>2, <1>3, <1>4, <2>2
    <3> QED
      BY <1>4, <1>5, <3>1, ZenonT(40)
  <2> QED
    BY <2>1, <2>2
<1> QED
  BY <1>3, <1>4, <1>6, <1>7, ZenonT(40) DEF Suffix, q, p, c

(* Moving bytes to the buffer leaves the bytes not used yet as they are.   *)
LEMMA Buffering ==
    ASSUME NEW b \in Seq(Nat), NEW t \in Seq(Nat), NEW k \in 1 .. Len(t)
    PROVE  LET u == SubSeq(t, 1, k)
               v == SubSeq(t, k + 1, Len(t))
           IN  b \o u \in Seq(Nat) /\ v \in Seq(Nat) /\ (b \o u) \o v = b \o t
<1> DEFINE u == SubSeq(t, 1, k)
           v == SubSeq(t, k + 1, Len(t))
<1>1. Len(t) \in Nat
  BY Length, ZenonT(40)
<1>2. u \in Seq(Nat) /\ Len(u) = k /\ \A i \in 1 .. k : u[i] = t[i]
  BY <1>1
<1>3. v \in Seq(Nat) /\ Len(v) = Len(t) - k /\ \A i \in 1 .. Len(v) : v[i] = t[k + i]
  BY <1>1
<1> HIDE DEF u, v
<1>4. /\ u \o v \in Seq(Nat) /\ Len(u \o v) = Len(u) + Len(v)
      /\ \A i \in 1 .. Len(u) : (u \o v)[i] = u[i]
      /\ \A i \in 1 .. Len(v) : (u \o v)[Len(u) + i] = v[i]
  BY <1>2, <1>3, Concat, ZenonT(40)
<1> DEFINE x == u \o v
<1>5. Len(x) = Len(t) /\ x \in Seq(Nat)
  <2> HIDE DEF x
  <2>1. x \in Seq(Nat) /\ Len(x) = Len(u) + Len(v)
    BY <1>4, ZenonT(40) DEF x
  <2> QED
    BY <1>1, <1>2, <1>3, <2>1
<1>6. ASSUME NEW i \in 1 .. Len(t) PROVE x[i] = t[i]
  <2>1. CASE i <= k
    <3>1. i \in 1 .. k
      BY <1>1, <2>1
    <3> QED
      BY <1>2, <1>4, <3>1, ZenonT(40)
  <2>2. CASE ~(i <= k)
    <3> DEFINE l == i - k
    <3>1. l \in 1 .. Len(v) /\ k + l = i
      BY <1>1, <1>3, <2>2
    <3> HIDE DEF l
    <3>2. x[Len(u) + l] = v[l] /\ v[l] = t[k + l] /\ Len(u) = k
      BY <1>2, <1>3, <1>4, <3>1, ZenonT(40)
    <3> QED
      BY <3>1, <3>2, ZenonT(40)
  <2> QED
    BY <2>1, <2>2, ZenonT(40)
<1>7. x = t
  <2> HIDE DEF x
  <2> QED
    BY <1>5, <1>6, SameSequence
<1>8. (b \o u) \o v = b \o (u \o v)
  <2>1. u \in Seq(Nat) /\ v \in Seq(Nat)
    BY <1>2, <1>3, ZenonT(40)
  <2> QED
    BY <2>1
<1>9. b \o u \in Seq(Nat)
  BY <1>2, Concat, ZenonT(40)
<1> QED
  BY <1>3, <1>7, <1>8, <1>9, ZenonT(40) DEF u, v
=============================================================================
