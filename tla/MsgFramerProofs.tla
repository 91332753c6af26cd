-------------------------- MODULE MsgFramerProofs ---------------------------
(***************************************************************************)
(* For every size of the buffer and every set of messages: the framer      *)
(* stays within its buffer, recv() is never called without room, and the   *)
(* messages that fit come out whole, once and in order, with none held     *)
(* back.                                                                   *)
(*                                                                         *)
(* The argument for the order keeps all the bytes that were ever written.  *)
(* The reader is at a place in them: what it has done with ends within a   *)
(* message it gave up, or where the next message begins, so the first STX  *)
(* it finds begins a message, and the first ETX after it ends that one.    *)
(* What fits of the messages before that place is what was returned.       *)
(***************************************************************************)
EXTENDS MsgFramer, SequenceTheorems, WellFoundedInduction, TLAPS

-----------------------------------------------------------------------------
(* Induction: from the least element of a set of numbers.                  *)

\* A set of natural numbers that is not empty has a least element.
LEMMA LeastIndex ==
  ASSUME NEW I \in SUBSET Nat, I # {}
  PROVE  \E x \in I : \A y \in I : x <= y
<1> DEFINE R == {ss \in Nat \X Nat : ss[1] < ss[2]}
<1>1. OpToRel(<, Nat) = R
  BY DEF OpToRel
<1>2. IsWellFoundedOn(R, Nat)
  BY <1>1, NatLessThanWellFounded
<1>3. PICK x \in I : \A y \in I : ~(<<y, x>> \in R)
  <2> HIDE DEF R
  <2> QED
    BY <1>2, WFMin
<1>4. \A y, z \in Nat : y < z => <<y, z>> \in R
  OBVIOUS
<1>5. \A y \in I : x <= y
  <2> SUFFICES ASSUME NEW y \in I
               PROVE  x <= y
    OBVIOUS
  <2>1. x \in Nat /\ y \in Nat
    OBVIOUS
  <2>2. ~(<<y, x>> \in R)
    BY <1>3
  <2>3. ~(y < x)
    BY <1>4, <2>1, <2>2
  <2> QED
    BY <2>1, <2>3
<1> QED
  BY <1>5

\* Min picks the least of a set of indices.
LEMMA MinOfIndices ==
  ASSUME NEW I \in SUBSET Nat, I # {}
  PROVE  Min(I) \in I /\ \A y \in I : Min(I) <= y
BY LeastIndex DEF Min

\* A set with 0 and with every number's successor has all numbers.
LEMMA Induction ==
  ASSUME NEW S, 0 \in S, \A n \in Nat : n \in S => n + 1 \in S
  PROVE  Nat \subseteq S
<1> SUFFICES ASSUME Nat \ S # {}
             PROVE  FALSE
  OBVIOUS
<1>1. PICK x \in Nat \ S : \A y \in Nat \ S : x <= y
  BY LeastIndex
<1>2. x - 1 \in Nat /\ x - 1 + 1 = x
  BY <1>1
<1>3. x - 1 \in S
  BY <1>1, <1>2
<1> QED
  BY <1>1, <1>2, <1>3

-----------------------------------------------------------------------------
(* The messages that fit.                                                  *)

\* What the recursive function in Fitting(s) is.
Counts(f, s) ==
  f = [n \in 0..Len(s) |->
         IF n = 0 THEN <<>> ELSE IF Fits(s[n]) THEN Append(f[n - 1], s[n]) ELSE f[n - 1]]

\* Its values follow from each other.
LEMMA CountsStep ==
  ASSUME NEW s, NEW f, Counts(f, s), NEW n \in Nat, n + 1 \in 0..Len(s)
  PROVE  f[n + 1] = IF Fits(s[n + 1]) THEN Append(f[n], s[n + 1]) ELSE f[n]
<1> DEFINE i == n + 1
<1>1. i \in 0..Len(s) /\ i # 0 /\ i - 1 = n
  OBVIOUS
<1> HIDE DEF i
<1>2. f[i] = IF Fits(s[i]) THEN Append(f[i - 1], s[i]) ELSE f[i - 1]
  BY <1>1 DEF Counts
<1>3. f[i] = IF Fits(s[i]) THEN Append(f[n], s[i]) ELSE f[n]
  BY <1>1, <1>2
<1> QED
  BY <1>3 DEF i

\* There is one such function at most.
LEMMA CountsUnique ==
  ASSUME NEW s \in Seq(Payloads), NEW f, Counts(f, s), NEW g, Counts(g, s)
  PROVE  f[Len(s)] = g[Len(s)]
<1> DEFINE S == {n \in Nat : n <= Len(s) => f[n] = g[n]}
<1>1. Len(s) \in Nat
  OBVIOUS
<1>2. 0 \in S
  BY <1>1 DEF Counts
<1>3. ASSUME NEW n \in Nat, n \in S
      PROVE  n + 1 \in S
  <2> SUFFICES ASSUME n + 1 <= Len(s)
               PROVE  f[n + 1] = g[n + 1]
    OBVIOUS
  <2>1. f[n] = g[n] /\ n + 1 \in 0..Len(s) /\ n + 1 # 0 /\ n + 1 - 1 = n
    BY <1>1, <1>3
  <2>2. f[n + 1] = IF Fits(s[n + 1]) THEN Append(f[n], s[n + 1]) ELSE f[n]
    BY <2>1, CountsStep
  <2>3. g[n + 1] = IF Fits(s[n + 1]) THEN Append(g[n], s[n + 1]) ELSE g[n]
    BY <2>1, CountsStep
  <2> QED
    BY <2>1, <2>2, <2>3
<1> HIDE DEF S
<1>4. Nat \subseteq S
  BY <1>2, <1>3, Induction
<1> QED
  BY <1>1, <1>4 DEF S

\* Fitting(s) is that function's last value.
LEMMA FittingIs ==
  ASSUME NEW s \in Seq(Payloads), NEW f, Counts(f, s)
  PROVE  Fitting(s) = f[Len(s)]
<1> DEFINE g == CHOOSE h : Counts(h, s)
<1>1. Counts(g, s)
  OBVIOUS
<1>2. Fitting(s) = g[Len(s)]
  BY DEF Fitting, Counts
<1> QED
  BY <1>1, <1>2, CountsUnique

\* The function of s is that of the longer sequence too, with one value more.
LEMMA CountsAppend ==
  ASSUME NEW s \in Seq(Payloads), NEW m \in Payloads, NEW f, Counts(f, s),
         NEW last, last = IF Fits(m) THEN Append(f[Len(s)], m) ELSE f[Len(s)]
  PROVE  Counts([n \in 0..Len(s) + 1 |-> IF n <= Len(s) THEN f[n] ELSE last], Append(s, m))
<1> DEFINE t == Append(s, m)
           g == [n \in 0..Len(s) + 1 |-> IF n <= Len(s) THEN f[n] ELSE last]
           h == [n \in 0..Len(t) |->
                   IF n = 0 THEN <<>> ELSE IF Fits(t[n]) THEN Append(g[n - 1], t[n]) ELSE g[n - 1]]
<1>1. Len(s) \in Nat /\ Len(t) = Len(s) + 1 /\ t[Len(s) + 1] = m
      /\ \A i \in 1..Len(s) : t[i] = s[i]
  OBVIOUS
<1> HIDE DEF t
<1>2. ASSUME NEW n \in 0..Len(s) + 1
      PROVE  g[n] = h[n]
  <2>1. CASE n = 0
    <3>1. f[0] = <<>>
      BY <1>1 DEF Counts
    <3> QED
      BY <1>1, <2>1, <3>1
  <2>2. CASE n \in 1..Len(s)
    <3>1. n - 1 \in Nat /\ n - 1 + 1 = n /\ n \in 0..Len(s) /\ n - 1 \in 0..Len(s) + 1
          /\ n - 1 <= Len(s) /\ n <= Len(s) /\ n # 0
      BY <1>1, <2>2
    <3>2. f[n] = IF Fits(s[n]) THEN Append(f[n - 1], s[n]) ELSE f[n - 1]
      BY <3>1 DEF Counts
    <3>3. g[n] = f[n] /\ g[n - 1] = f[n - 1] /\ t[n] = s[n]
      BY <1>1, <2>2, <3>1
    <3>4. h[n] = IF Fits(t[n]) THEN Append(g[n - 1], t[n]) ELSE g[n - 1]
      <4> HIDE DEF g
      <4> QED
        BY <1>1, <3>1
    <3> HIDE DEF g, h
    <3> QED
      BY <3>2, <3>3, <3>4
  <2>3. CASE n = Len(s) + 1
    <3>1. g[n] = last /\ n # 0 /\ n \in 0..Len(t) /\ n - 1 = Len(s) /\ t[n] = m
      BY <1>1, <2>3
    <3>2. g[Len(s)] = f[Len(s)]
      BY <1>1
    <3>3. h[n] = IF Fits(t[n]) THEN Append(g[n - 1], t[n]) ELSE g[n - 1]
      <4> HIDE DEF g
      <4> QED
        BY <3>1
    <3> HIDE DEF g, h
    <3> QED
      BY <3>1, <3>2, <3>3
  <2> QED
    BY <1>1, <2>1, <2>2, <2>3
<1>3. DOMAIN g = 0..Len(t) /\ DOMAIN h = 0..Len(t) /\ g = [n \in DOMAIN g |-> g[n]]
      /\ h = [n \in DOMAIN h |-> h[n]]
  BY <1>1
<1>4. g = h
  <2> HIDE DEF g, h
  <2> QED
    BY <1>1, <1>2, <1>3
<1> QED
  <2>1. Counts(g, t)
    <3> HIDE DEF g
    <3> QED
      BY <1>4 DEF Counts
  <2> QED
    BY <2>1 DEF t

\* By induction over its length, every sequence has its function.
LEMMA CountsExists ==
  ASSUME NEW s \in Seq(Payloads)
  PROVE  \E f : Counts(f, s) /\ f[Len(s)] \in Seq(Payloads)
<1> DEFINE S == {l \in Nat : \A t \in Seq(Payloads) : Len(t) = l =>
                    \E f : Counts(f, t) /\ f[Len(t)] \in Seq(Payloads)}
<1>1. 0 \in S
  <2> SUFFICES ASSUME NEW t \in Seq(Payloads), Len(t) = 0
               PROVE  \E f : Counts(f, t) /\ f[Len(t)] \in Seq(Payloads)
    OBVIOUS
  <2> DEFINE f == [n \in 0..0 |-> <<>>]
  <2>1. Counts(f, t)
    BY DEF Counts
  <2>2. f[0] \in Seq(Payloads)
    OBVIOUS
  <2> QED
    BY <2>1, <2>2
<1>2. ASSUME NEW l \in Nat, l \in S
      PROVE  l + 1 \in S
  <2> SUFFICES ASSUME NEW t \in Seq(Payloads), Len(t) = l + 1
               PROVE  \E f : Counts(f, t) /\ f[Len(t)] \in Seq(Payloads)
    OBVIOUS
  <2> DEFINE u == SubSeq(t, 1, l)
             m == t[l + 1]
  <2>1. u \in Seq(Payloads) /\ Len(u) = l /\ m \in Payloads
    BY SubSeqProperties
  <2>2. t = Append(u, m)
    <3>1. Append(u, m) \in Seq(Payloads) /\ Len(Append(u, m)) = l + 1
          /\ \A i \in 1..l + 1 : Append(u, m)[i] = t[i]
      BY <2>1
    <3> HIDE DEF u, m
    <3> QED
      BY <3>1, SeqEqual
  <2> HIDE DEF u, m
  <2>3. PICK f : Counts(f, u) /\ f[Len(u)] \in Seq(Payloads)
    BY <1>2, <2>1
  <2> DEFINE last == IF Fits(m) THEN Append(f[Len(u)], m) ELSE f[Len(u)]
             g == [n \in 0..Len(u) + 1 |-> IF n <= Len(u) THEN f[n] ELSE last]
  <2>4. last \in Seq(Payloads)
    BY <2>1, <2>3
  <2>5. g[Len(t)] = last
    BY <2>1
  <2>6. Counts(g, t)
    <3> HIDE DEF last
    <3>1. last = IF Fits(m) THEN Append(f[Len(u)], m) ELSE f[Len(u)]
      BY DEF last
    <3>2. Counts(g, Append(u, m))
      BY <2>1, <2>3, <3>1, CountsAppend
    <3> HIDE DEF g
    <3> QED
      BY <2>2, <3>2
  <2> HIDE DEF g, last
  <2> QED
    BY <2>4, <2>5, <2>6
<1> HIDE DEF S
<1>3. Nat \subseteq S
  BY <1>1, <1>2, Induction
<1> QED
  BY <1>3 DEF S

\* The messages of s that fit, one after the other.
LEMMA FittingAppend ==
  /\ Fitting(<<>>) = <<>>
  /\ \A s \in Seq(Payloads) : Fitting(s) \in Seq(Payloads)
  /\ \A s \in Seq(Payloads), m \in Payloads :
        Fitting(Append(s, m)) = IF Fits(m) THEN Append(Fitting(s), m) ELSE Fitting(s)
<1>1. Fitting(<<>>) = <<>>
  <2>1. <<>> \in Seq(Payloads) /\ Len(<<>>) = 0
    OBVIOUS
  <2>2. PICK f : Counts(f, <<>>)
    BY <2>1, CountsExists
  <2>3. f[0] = <<>>
    BY <2>1, <2>2 DEF Counts
  <2> QED
    BY <2>1, <2>2, <2>3, FittingIs
<1>2. ASSUME NEW s \in Seq(Payloads)
      PROVE  Fitting(s) \in Seq(Payloads)
  BY CountsExists, FittingIs
<1>3. ASSUME NEW s \in Seq(Payloads), NEW m \in Payloads
      PROVE  Fitting(Append(s, m)) = IF Fits(m) THEN Append(Fitting(s), m) ELSE Fitting(s)
  <2>1. PICK f : Counts(f, s)
    BY CountsExists
  <2>2. Fitting(s) = f[Len(s)]
    BY <2>1, FittingIs
  <2> DEFINE last == IF Fits(m) THEN Append(f[Len(s)], m) ELSE f[Len(s)]
             g == [n \in 0..Len(s) + 1 |-> IF n <= Len(s) THEN f[n] ELSE last]
  <2>3. Len(s) \in Nat /\ Append(s, m) \in Seq(Payloads) /\ Len(Append(s, m)) = Len(s) + 1
    OBVIOUS
  <2>4. Counts(g, Append(s, m))
    <3> HIDE DEF last
    <3>1. last = IF Fits(m) THEN Append(f[Len(s)], m) ELSE f[Len(s)]
      BY DEF last
    <3> QED
      BY <2>1, <3>1, CountsAppend
  <2>5. g[Len(s) + 1] = last
    BY <2>3
  <2>6. Fitting(Append(s, m)) = last
    <3> HIDE DEF g, last
    <3> QED
      BY <2>3, <2>4, <2>5, FittingIs
  <2> QED
    BY <2>2, <2>6
<1> QED
  BY <1>1, <1>2, <1>3

-----------------------------------------------------------------------------
(* The buffer.                                                             *)

\* strstr() finds a place in the sequence or none.
LEMMA StrstrInRange ==
  ASSUME NEW s \in Seq(Bytes), NEW x
  PROVE  strstr(s, x) \in 0..Len(s)
<1> DEFINE I == {i \in 1..Len(s) : s[i] = x}
<1>1. I \in SUBSET Nat
  OBVIOUS
<1>2. I # {} => Min(I) \in I
  <2> HIDE DEF I
  <2> QED
    BY <1>1, MinOfIndices
<1> QED
  BY <1>2 DEF strstr, SelectInSeq

\* A part of a sequence of bytes that lies within it.
LEMMA PartOfBytes ==
  ASSUME NEW s \in Seq(Bytes), NEW i \in 1..(Len(s) + 1), NEW j \in 0..Len(s)
  PROVE  /\ SubSeq(s, i, j) \in Seq(Bytes)
         /\ Len(SubSeq(s, i, j)) = IF i <= j THEN j - i + 1 ELSE 0
<1>1. \A k \in i..j : s[k] \in Bytes
  OBVIOUS
<1> QED
  BY <1>1, SubSeqProperties

\* The two shifts leave a part of the buffer.
LEMMA AlignedIsPart ==
  ASSUME TypeOK
  PROVE  Aligned \in Seq(Bytes) /\ Len(Aligned) <= MaxBufSize
<1> DEFINE rest == SubSeq(buf, readpos + 1, Len(buf))
           msgStart == strstr(rest, STX)
<1>1. rest \in Seq(Bytes) /\ Len(rest) <= MaxBufSize
  BY PartOfBytes, FramerAssumption DEF TypeOK
<1>2. msgStart \in 0..Len(rest)
  BY <1>1, StrstrInRange
<1> HIDE DEF rest
<1>3. msgStart # 0 =>
        /\ SubSeq(rest, msgStart, Len(rest)) \in Seq(Bytes)
        /\ Len(SubSeq(rest, msgStart, Len(rest))) <= MaxBufSize
  BY <1>1, <1>2, PartOfBytes, FramerAssumption
<1>4. Aligned = IF msgStart = 0 THEN <<>> ELSE SubSeq(rest, msgStart, Len(rest))
  BY DEF Aligned, rest
<1> QED
  <2> HIDE DEF msgStart
  <2> QED
    BY <1>3, <1>4, FramerAssumption

\* The inductive invariant.
IInv == TypeOK /\ RoomLeft

\* A framer starts with an empty buffer, which has room.
LEMMA InitIInv == Init => IInv
  BY FramerAssumption DEF Init, IInv, TypeOK, RoomLeft

\* A frame is a sequence of bytes.
LEMMA FrameIsBytes ==
  ASSUME NEW m \in Payloads
  PROVE  createFramedMsg(m) \in Seq(Bytes)
<1>1. m \in Seq(Bytes) /\ <<STX>> \in Seq(Bytes) /\ <<ETX>> \in Seq(Bytes)
  BY FramerAssumption
<1> QED
  BY <1>1, ConcatProperties DEF createFramedMsg

\* Every step keeps the invariant.
LEMMA NextIInv == IInv /\ [Next]_vars => IInv'
<1> SUFFICES ASSUME IInv, [Next]_vars
             PROVE  IInv'
  OBVIOUS
<1> USE FramerAssumption DEF IInv
<1>1. CASE UNCHANGED vars
  BY <1>1 DEF vars, TypeOK, RoomLeft
<1>2. ASSUME NEW m \in Payloads, Send(m)
      PROVE  IInv'
  <2>1. sent' \in Seq(Payloads)
    BY <1>2 DEF Send, TypeOK
  <2>2. stream' \in Seq(Bytes)
    BY <1>2, FrameIsBytes, ConcatProperties DEF Send, TypeOK
  <2> QED
    BY <1>2, <2>1, <2>2 DEF Send, TypeOK, RoomLeft
<1>3. ASSUME NEW n \in 1..Len(stream), Recv(n)
      PROVE  IInv'
  <2>1. /\ SubSeq(stream, 1, n) \in Seq(Bytes)
        /\ Len(SubSeq(stream, 1, n)) = n
    BY PartOfBytes DEF TypeOK
  <2>2. stream' \in Seq(Bytes)
    BY <1>3, PartOfBytes DEF Recv, TypeOK
  <2>3. buf' \in Seq(Bytes) /\ Len(buf') = Len(buf) + n
    BY <1>3, <2>1, ConcatProperties DEF Recv, TypeOK
  <2>4. Len(buf') <= MaxBufSize
    BY <1>3, <2>3 DEF Recv, TypeOK, getBufLength
  <2> QED
    BY <1>3, <2>2, <2>3, <2>4 DEF Recv, TypeOK, RoomLeft
<1>4. CASE getNextMsg
  <2> DEFINE msgEnd == strstr(Aligned, ETX)
  <2>1. Aligned \in Seq(Bytes) /\ Len(Aligned) <= MaxBufSize
    BY AlignedIsPart
  <2>2. msgEnd \in 0..Len(Aligned)
    BY <2>1, StrstrInRange
  <2> HIDE DEF msgEnd
  <2>3. CASE msgEnd # 0
    <3>1. FoundMsg(Aligned, msgEnd) /\ UNCHANGED <<sent, stream>>
      BY <1>4, <2>3 DEF getNextMsg, msgEnd
    <3>2. SubSeq(Aligned, 2, msgEnd - 1) \in Seq(Bytes)
      BY <2>1, <2>2, <2>3, PartOfBytes
    <3>3. received' \in Seq(Seq(Bytes))
      BY <3>1, <3>2, AppendProperties DEF FoundMsg, TypeOK
    <3> QED
      BY <2>1, <2>2, <3>1, <3>3 DEF FoundMsg, TypeOK, RoomLeft
  <2>4. CASE msgEnd = 0
    <3>1. NoMsg(Aligned) /\ UNCHANGED <<sent, stream>>
      BY <1>4, <2>4 DEF getNextMsg, msgEnd
    <3> QED
      BY <2>1, <3>1 DEF NoMsg, TypeOK, RoomLeft
  <2> QED
    BY <2>3, <2>4
<1> QED
  BY <1>1, <1>2, <1>3, <1>4 DEF Next

\* bufpos stays within the buffer whatever recv() brings, so the assertion of
\* msgFramer_incrementBufPos holds and its recovery below is never needed.
THEOREM TypeCorrect == Spec => []TypeOK
<1>1. IInv => TypeOK
  BY DEF IInv
<1> QED
  BY InitIInv, NextIInv, <1>1, PTL DEF Spec

\* recv() always has room, so a 0 from it means that the other end closed: the
\* reset of a full buffer in msgFramer_getNextMsg is needed and enough.
THEOREM RecvHasRoom == Spec => []RoomLeft
<1>1. IInv => RoomLeft
  BY DEF IInv
<1> QED
  BY InitIInv, NextIInv, <1>1, PTL DEF Spec

-----------------------------------------------------------------------------
(* Where the reader is in all that was written.                            *)

\* all is what was written, and beg[i] how much of it are the first i frames.
Written(all, beg) ==
  /\ all \in Seq(Bytes) /\ beg \in [0..Len(sent) -> 0..Len(all)]
  /\ beg[0] = 0 /\ Len(all) = beg[Len(sent)]
  /\ \A i \in 1..Len(sent) :
        /\ beg[i] = beg[i - 1] + Len(sent[i]) + 2
        /\ all[beg[i - 1] + 1] = STX /\ all[beg[i]] = ETX
        /\ \A k \in 1..Len(sent[i]) : all[beg[i - 1] + 1 + k] = sent[i][k]

\* The bytes that were read and not yet looked at.
rest == SubSeq(buf, readpos + 1, Len(buf))

\* off bytes of all are done with; the others are in the buffer and on their
\* way.
Remaining(all, off) ==
  /\ off \in 0..Len(all) /\ Len(all) = off + Len(rest) + Len(stream)
  /\ \A i \in 1..Len(rest) : rest[i] = all[off + i]
  /\ \A i \in 1..Len(stream) : stream[i] = all[off + Len(rest) + i]

\* The first j messages are done with: those of them that fit were returned,
\* and what is left of them has no STX.
Done(all, beg, off, j) ==
  /\ j \in 0..Len(sent) /\ off <= beg[j]
  /\ \A i \in off + 1..beg[j] : all[i] # STX
  /\ received = Fitting(SubSeq(sent, 1, j))

InPosition ==
  \E all, beg, off, j : Written(all, beg) /\ Remaining(all, off) /\ Done(all, beg, off, j)

\* What was sent later leaves the messages before it as they are.
EachPrefix == \A i \in 0..Len(sent) : IsPrefix(Fitting(SubSeq(sent, 1, i)), Fitting(sent))

\* The loop waits in recv() with the beginning of a message or with nothing.
Waiting ==
  pc = "recv" =>
    /\ readpos = 0 /\ (buf # <<>> => buf[1] = STX)
    /\ \A i \in 1..Len(buf) : buf[i] # ETX

OrderInv == IInv /\ InPosition /\ EachPrefix /\ Waiting

\* Every payload is a sequence without STX and ETX.
LEMMA PayloadBytes ==
  ASSUME NEW m \in Payloads
  PROVE  /\ m \in Seq(Bytes) /\ Len(m) \in Nat
         /\ \A k \in 1..Len(m) : m[k] # STX /\ m[k] # ETX /\ m[k] \in Bytes
BY FramerAssumption

\* What follows another, byte by byte.
LEMMA Following ==
  ASSUME NEW s \in Seq(Bytes), NEW t \in Seq(Bytes)
  PROVE  /\ s \o t \in Seq(Bytes) /\ Len(s \o t) = Len(s) + Len(t)
         /\ \A i \in 1..Len(s) : (s \o t)[i] = s[i]
         /\ \A i \in 1..Len(t) : (s \o t)[Len(s) + i] = t[i]
<1> DEFINE u == s \o t
<1>1. /\ u \in Seq(Bytes) /\ Len(u) = Len(s) + Len(t)
      /\ \A i \in 1..Len(s) + Len(t) : u[i] = IF i <= Len(s) THEN s[i] ELSE t[i - Len(s)]
  BY ConcatProperties
<1>2. Len(s) \in Nat /\ Len(t) \in Nat
  OBVIOUS
<1> HIDE DEF u
<1>3. ASSUME NEW i \in 1..Len(t)
      PROVE  u[Len(s) + i] = t[i]
  <2>1. Len(s) + i \in 1..Len(s) + Len(t) /\ ~(Len(s) + i <= Len(s)) /\ Len(s) + i - Len(s) = i
    BY <1>2
  <2> QED
    BY <1>1, <2>1
<1>4. \A i \in 1..Len(s) : u[i] = s[i]
  BY <1>1, <1>2
<1> QED
  BY <1>1, <1>3, <1>4 DEF u

\* A frame, byte by byte.
LEMMA FrameBytes ==
  ASSUME NEW m \in Payloads
  PROVE  /\ createFramedMsg(m) \in Seq(Bytes) /\ Len(createFramedMsg(m)) = Len(m) + 2
         /\ createFramedMsg(m)[1] = STX /\ createFramedMsg(m)[Len(m) + 2] = ETX
         /\ \A k \in 1..Len(m) : createFramedMsg(m)[1 + k] = m[k]
<1>1. m \in Seq(Bytes) /\ Len(m) \in Nat /\ <<STX>> \in Seq(Bytes) /\ <<ETX>> \in Seq(Bytes)
      /\ Len(<<STX>>) = 1 /\ Len(<<ETX>>) = 1
  BY FramerAssumption
<1> DEFINE a == <<STX>> \o m
<1>2. a \in Seq(Bytes) /\ Len(a) = Len(m) + 1 /\ a[1] = STX
      /\ \A k \in 1..Len(m) : a[1 + k] = m[k]
  <2>1. \A k \in 1..Len(m) : 1 + k \in 1..Len(m) + 1 /\ 1 + k > 1 /\ 1 + k - 1 = k
    OBVIOUS
  <2> QED
    BY <1>1, <2>1, ConcatProperties
<1> HIDE DEF a
<1>3. createFramedMsg(m) = a \o <<ETX>>
  BY DEF createFramedMsg, a
<1> QED
  BY <1>1, <1>2, <1>3, ConcatProperties

\* strstr() gives the first place of a byte, or 0 when there is none.
LEMMA StrstrFirst ==
  ASSUME NEW s \in Seq(Bytes), NEW x
  PROVE  /\ strstr(s, x) \in 0..Len(s)
         /\ strstr(s, x) = 0 => \A i \in 1..Len(s) : s[i] # x
         /\ strstr(s, x) # 0 => /\ s[strstr(s, x)] = x
                                /\ \A i \in 1..strstr(s, x) - 1 : s[i] # x
<1> DEFINE I == {i \in 1..Len(s) : s[i] = x}
<1>1. I \in SUBSET Nat /\ Len(s) \in Nat
  OBVIOUS
<1>2. I # {} => Min(I) \in I /\ \A y \in I : Min(I) <= y
  <2> HIDE DEF I
  <2> QED
    BY <1>1, MinOfIndices
<1>3. strstr(s, x) = IF I # {} THEN Min(I) ELSE 0
  BY DEF strstr, SelectInSeq
<1>4. CASE I = {}
  BY <1>1, <1>3, <1>4
<1>5. CASE I # {}
  <2> DEFINE e == strstr(s, x)
  <2>1. e \in 1..Len(s) /\ s[e] = x /\ \A i \in 1..Len(s) : s[i] = x => e <= i
    BY <1>2, <1>3, <1>5
  <2> HIDE DEF e
  <2>2. \A i \in 1..e - 1 : s[i] # x
    BY <1>1, <2>1
  <2> QED
    BY <2>1, <2>2 DEF e
<1> QED
  BY <1>4, <1>5

\* What is left of the buffer, byte by byte.
LEMMA RestBytes ==
  ASSUME NEW b \in Seq(Bytes), NEW r \in 0..Len(b)
  PROVE  /\ SubSeq(b, r + 1, Len(b)) \in Seq(Bytes)
         /\ Len(SubSeq(b, r + 1, Len(b))) = Len(b) - r
         /\ \A i \in 1..Len(b) - r : SubSeq(b, r + 1, Len(b))[i] = b[r + i]
<1>1. Len(b) \in Nat /\ r + 1 \in 1..(Len(b) + 1) /\ Len(b) \in 0..Len(b)
  OBVIOUS
<1>2. /\ SubSeq(b, r + 1, Len(b)) \in Seq(Bytes)
      /\ Len(SubSeq(b, r + 1, Len(b))) = IF r + 1 <= Len(b) THEN Len(b) - (r + 1) + 1 ELSE 0
  BY <1>1, PartOfBytes
<1>3. \A k \in r + 1..Len(b) : b[k] \in Bytes
  OBVIOUS
<1>4. \A i \in 1..Len(b) - r : SubSeq(b, r + 1, Len(b))[i] = b[r + 1 + i - 1]
  BY <1>1, <1>3, SubSeqProperties
<1>5. \A i \in 1..Len(b) - r : r + 1 + i - 1 = r + i
  BY <1>1
<1> QED
  BY <1>1, <1>2, <1>4, <1>5

\* At the start nothing was written, and the first message is awaited.
LEMMA InitOrder == Init => OrderInv
<1> SUFFICES ASSUME Init PROVE OrderInv
  OBVIOUS
<1>1. IInv
  BY InitIInv
<1>2. InPosition
  <2> DEFINE beg == [i \in 0..0 |-> 0]
  <2>1. Len(sent) = 0 /\ Len(<<>>) = 0 /\ <<>> \in Seq(Bytes) /\ SubSeq(sent, 1, 0) = <<>>
    BY DEF Init
  <2>2. Written(<<>>, beg)
    BY <2>1 DEF Written
  <2>3. Len(rest) = 0 /\ Len(stream) = 0
    BY RestBytes DEF Init, rest
  <2>4. Remaining(<<>>, 0)
    BY <2>1, <2>3 DEF Remaining
  <2>6. Fitting(SubSeq(sent, 1, 0)) = <<>> /\ received = <<>>
    BY <2>1, FittingAppend DEF Init
  <2>5. Done(<<>>, beg, 0, 0)
    BY <2>1, <2>6 DEF Done
  <2> QED
    BY <2>2, <2>4, <2>5 DEF InPosition
<1>3. EachPrefix
  <2>1. Len(sent) = 0 /\ SubSeq(sent, 1, 0) = <<>> /\ sent = <<>>
    BY DEF Init
  <2>2. IsPrefix(<<>>, <<>>)
    BY DEF IsPrefix
  <2>3. Fitting(SubSeq(sent, 1, 0)) = <<>> /\ Fitting(sent) = <<>>
    BY <2>1, FittingAppend
  <2> QED
    BY <2>1, <2>2, <2>3 DEF EachPrefix
<1>4. Waiting
  BY DEF Waiting, Init
<1> QED
  BY <1>1, <1>2, <1>3, <1>4 DEF OrderInv

\* The messages before a new one are still the first.
LEMMA FirstOfMore ==
  ASSUME NEW S, NEW s \in Seq(S), NEW m \in S, NEW i \in 0..Len(s)
  PROVE  SubSeq(Append(s, m), 1, i) = SubSeq(s, 1, i) /\ SubSeq(s, 1, i) \in Seq(S)
<1> DEFINE a == SubSeq(Append(s, m), 1, i)
           b == SubSeq(s, 1, i)
<1>1. /\ a \in Seq(S) /\ Len(a) = i /\ \A k \in 1..i : a[k] = s[k]
      /\ b \in Seq(S) /\ Len(b) = i /\ \A k \in 1..i : b[k] = s[k]
  OBVIOUS
<1> HIDE DEF a, b
<1>2. a = b
  BY <1>1, SeqEqual
<1> QED
  BY <1>1, <1>2 DEF a, b

\* All of a sequence, and all but its last element.
LEMMA FirstAndLast ==
  ASSUME NEW s \in Seq(Payloads)
  PROVE  /\ SubSeq(s, 1, Len(s)) = s
         /\ \A j \in 0..Len(s) - 1 : SubSeq(s, 1, j + 1) = Append(SubSeq(s, 1, j), s[j + 1])
<1>1. SubSeq(s, 1, Len(s)) = s
  <2> DEFINE a == SubSeq(s, 1, Len(s))
  <2>1. a \in Seq(Payloads) /\ Len(a) = Len(s) /\ \A k \in 1..Len(s) : a[k] = s[k]
    OBVIOUS
  <2> HIDE DEF a
  <2>2. a = s
    BY <2>1, SeqEqual
  <2> QED
    BY <2>2 DEF a
<1>2. ASSUME NEW j \in 0..Len(s) - 1
      PROVE  SubSeq(s, 1, j + 1) = Append(SubSeq(s, 1, j), s[j + 1])
  <2> DEFINE a == SubSeq(s, 1, j + 1)
             b == SubSeq(s, 1, j)
             c == Append(b, s[j + 1])
  <2>1. a \in Seq(Payloads) /\ Len(a) = j + 1 /\ \A k \in 1..j + 1 : a[k] = s[k]
    OBVIOUS
  <2>2. b \in Seq(Payloads) /\ Len(b) = j /\ \A k \in 1..j : b[k] = s[k]
    OBVIOUS
  <2>3. c \in Seq(Payloads) /\ Len(c) = j + 1 /\ \A k \in 1..j + 1 : c[k] = s[k]
    <3> HIDE DEF b
    <3> QED
      BY <2>2, AppendProperties
  <2> HIDE DEF a, c
  <2>4. a = c
    BY <2>1, <2>3, SeqEqual
  <2> QED
    BY <2>4 DEF a, c
<1> QED
  BY <1>1, <1>2

\* A prefix of s, and one element more.
LEMMA PrefixAppend ==
  ASSUME NEW S, NEW r \in Seq(S), NEW s \in Seq(S), NEW x \in S, IsPrefix(r, s)
  PROVE  IsPrefix(r, Append(s, x)) /\ IsPrefix(s, Append(s, x)) /\ IsPrefix(s, s)
<1>1. /\ Len(r) \in 0..Len(s) /\ Len(s) \in 0..Len(s) /\ Len(Append(s, x)) = Len(s) + 1
      /\ SubSeq(r, 1, Len(r)) = SubSeq(s, 1, Len(r))
  BY DEF IsPrefix
<1>2. /\ SubSeq(Append(s, x), 1, Len(r)) = SubSeq(s, 1, Len(r))
      /\ SubSeq(Append(s, x), 1, Len(s)) = SubSeq(s, 1, Len(s))
  BY <1>1, FirstOfMore
<1> QED
  BY <1>1, <1>2 DEF IsPrefix

\* A new message comes after all that were written.
LEMMA SendOrder ==
  ASSUME OrderInv, NEW m \in Payloads, Send(m)
  PROVE  InPosition' /\ EachPrefix' /\ Waiting'
<1>1. /\ sent' = Append(sent, m) /\ stream' = stream \o createFramedMsg(m)
      /\ UNCHANGED <<buf, readpos, received, pc>>
  BY DEF Send
<1>2. sent \in Seq(Payloads) /\ Len(sent) \in Nat /\ stream \in Seq(Bytes) /\ buf \in Seq(Bytes)
      /\ readpos \in 0..Len(buf)
  BY DEF OrderInv, IInv, TypeOK
<1>3. /\ Len(sent') = Len(sent) + 1 /\ sent'[Len(sent) + 1] = m
      /\ \A i \in 1..Len(sent) : sent'[i] = sent[i]
  BY <1>1, <1>2
<1>4. InPosition'
  <2> DEFINE F == createFramedMsg(m)
  <2>0. PICK n \in Nat : n = Len(sent)
    BY <1>2
  <2>1. F \in Seq(Bytes) /\ Len(F) = Len(m) + 2 /\ F[1] = STX /\ F[Len(m) + 2] = ETX
        /\ (\A k \in 1..Len(m) : F[1 + k] = m[k]) /\ Len(m) \in Nat
    BY FrameBytes, PayloadBytes
  <2> HIDE DEF F
  <2>2. PICK all, beg, off, j :
          Written(all, beg) /\ Remaining(all, off) /\ Done(all, beg, off, j)
    BY DEF OrderInv, InPosition
  <2>3. all \in Seq(Bytes) /\ Len(all) \in Nat /\ beg \in [0..n -> 0..Len(all)]
        /\ beg[0] = 0 /\ beg[n] = Len(all)
    BY <2>0, <2>2 DEF Written
  <2> DEFINE all2 == all \o F
             beg2 == [i \in 0..n + 1 |-> IF i <= n THEN beg[i] ELSE Len(all) + Len(m) + 2]
  <2>4. /\ all2 \in Seq(Bytes) /\ Len(all2) = Len(all) + Len(m) + 2
        /\ \A i \in 1..Len(all) : all2[i] = all[i]
        /\ \A i \in 1..Len(m) + 2 : all2[Len(all) + i] = F[i]
    <3>1. /\ all2 \in Seq(Bytes) /\ Len(all2) = Len(all) + Len(F)
          /\ \A i \in 1..Len(all) : all2[i] = all[i]
          /\ \A i \in 1..Len(F) : all2[Len(all) + i] = F[i]
      BY <2>1, <2>3, Following
    <3> QED
      BY <2>1, <2>3, <3>1
  <2> HIDE DEF all2
  <2>5. /\ beg2 \in [0..n + 1 -> 0..Len(all2)] /\ \A i \in 0..n : beg2[i] = beg[i]
        /\ beg2[n + 1] = Len(all2)
    BY <1>2, <2>1, <2>3, <2>4
  <2> HIDE DEF beg2
  <2>6. Written(all2, beg2)'
    <3>1. ASSUME NEW i \in 1..n + 1
          PROVE  /\ beg2[i] = beg2[i - 1] + Len(sent'[i]) + 2
                 /\ all2[beg2[i - 1] + 1] = STX /\ all2[beg2[i]] = ETX
                 /\ \A k \in 1..Len(sent'[i]) : all2[beg2[i - 1] + 1 + k] = sent'[i][k]
      <4>1. CASE i \in 1..n
        <5>1. i \in 0..n /\ i - 1 \in 0..n /\ sent'[i] = sent[i] /\ sent[i] \in Payloads
          BY <1>2, <1>3, <2>0, <4>1
        <5>2. Len(sent[i]) \in Nat
          BY <5>1, PayloadBytes
        <5>3. /\ beg[i] = beg[i - 1] + Len(sent[i]) + 2
              /\ all[beg[i - 1] + 1] = STX /\ all[beg[i]] = ETX
              /\ \A k \in 1..Len(sent[i]) : all[beg[i - 1] + 1 + k] = sent[i][k]
          BY <2>0, <2>2, <4>1 DEF Written
        <5>4. beg[i] \in 0..Len(all) /\ beg[i - 1] \in 0..Len(all)
          BY <2>3, <5>1
        <5>5. /\ beg[i - 1] + 1 \in 1..Len(all) /\ beg[i] \in 1..Len(all)
              /\ \A k \in 1..Len(sent[i]) : beg[i - 1] + 1 + k \in 1..Len(all)
          <6>1. beg[i] = beg[i - 1] + Len(sent[i]) + 2 /\ Len(all) \in Nat
            BY <2>3, <5>3
          <6> DEFINE a == beg[i - 1]
                     b == beg[i]
                     l == Len(sent[i])
          <6>2. a \in Nat /\ b \in 0..Len(all) /\ l \in Nat /\ b = a + l + 2
            BY <5>2, <5>4, <6>1
          <6> HIDE DEF a, b, l
          <6>3. a + 1 \in 1..Len(all) /\ b \in 1..Len(all)
                /\ \A k \in 1..l : a + 1 + k \in 1..Len(all)
            BY <6>1, <6>2
          <6> QED
            BY <6>3 DEF a, b, l
        <5>6. beg2[i] = beg[i] /\ beg2[i - 1] = beg[i - 1]
          BY <2>5, <5>1
        <5>7. all2[beg[i - 1] + 1] = STX /\ all2[beg[i]] = ETX
          BY <2>4, <5>3, <5>5
        <5>8. \A k \in 1..Len(sent[i]) : all2[beg[i - 1] + 1 + k] = sent[i][k]
          BY <2>4, <5>3, <5>5
        <5> QED
          BY <5>1, <5>3, <5>6, <5>7, <5>8
      <4>2. CASE i = n + 1
        <5>1. /\ i - 1 = n /\ sent'[i] = m
              /\ beg2[i - 1] = Len(all) /\ beg2[i] = Len(all) + (Len(m) + 2)
          <6>1. i - 1 = n /\ i - 1 \in 0..n
            BY <2>0, <4>2
          <6>2. sent'[i] = m
            BY <1>3, <2>0, <4>2
          <6>3. beg2[i - 1] = Len(all)
            BY <2>3, <2>5, <6>1
          <6>4. beg2[i] = Len(all) + (Len(m) + 2)
            BY <2>1, <2>3, <2>4, <2>5, <4>2
          <6> QED
            BY <6>1, <6>2, <6>3, <6>4
        <5>2. 1 \in 1..Len(m) + 2 /\ Len(m) + 2 \in 1..Len(m) + 2
          BY <2>1
        <5>3. all2[Len(all) + 1] = STX /\ all2[Len(all) + (Len(m) + 2)] = ETX
          BY <2>1, <2>4, <5>2
        <5>4. ASSUME NEW k \in 1..Len(m)
              PROVE  all2[Len(all) + 1 + k] = m[k]
          <6>1. 1 + k \in 1..Len(m) + 2 /\ Len(all) + 1 + k = Len(all) + (1 + k)
            BY <2>1, <2>3
          <6> QED
            BY <2>1, <2>4, <6>1
        <5> QED
          BY <2>1, <2>3, <5>1, <5>3, <5>4
      <4> QED
        BY <1>2, <4>1, <4>2
    <3> QED
      <4>1. /\ all2 \in Seq(Bytes) /\ beg2 \in [0..Len(sent') -> 0..Len(all2)]
            /\ beg2[0] = 0 /\ Len(all2) = beg2[Len(sent')]
        BY <1>2, <1>3, <2>0, <2>3, <2>4, <2>5
      <4>2. \A i \in 1..Len(sent') :
              /\ beg2[i] = beg2[i - 1] + Len(sent'[i]) + 2
              /\ all2[beg2[i - 1] + 1] = STX /\ all2[beg2[i]] = ETX
              /\ \A k \in 1..Len(sent'[i]) : all2[beg2[i - 1] + 1 + k] = sent'[i][k]
        BY <1>3, <2>0, <3>1
      <4> QED
        BY <4>1, <4>2 DEF Written
  <2>7. Remaining(all2, off)'
    <3>1. rest' = rest /\ rest \in Seq(Bytes) /\ Len(rest) \in Nat
      BY <1>1, <1>2, RestBytes DEF rest
    <3>2. /\ off \in 0..Len(all) /\ Len(all) = off + Len(rest) + Len(stream)
          /\ \A i \in 1..Len(rest) : rest[i] = all[off + i]
          /\ \A i \in 1..Len(stream) : stream[i] = all[off + Len(rest) + i]
      BY <2>2 DEF Remaining
    <3>3. Len(stream') = Len(stream) + Len(m) + 2
          /\ (\A i \in 1..Len(stream) : stream'[i] = stream[i])
          /\ \A i \in 1..Len(m) + 2 : stream'[Len(stream) + i] = F[i]
      <4> DEFINE u == stream \o F
      <4>1. stream' = u
        BY <1>1 DEF F
      <4>2. Len(u) = Len(stream) + Len(F)
            /\ (\A i \in 1..Len(stream) : u[i] = stream[i])
            /\ \A i \in 1..Len(F) : u[Len(stream) + i] = F[i]
        BY <1>2, <2>1, Following
      <4>3. Len(stream) \in Nat
        BY <1>2
      <4> HIDE DEF u
      <4> QED
        BY <2>1, <4>1, <4>2, <4>3
    <3>4. Len(stream) \in Nat
      BY <1>2
    <3>5. ASSUME NEW i \in 1..Len(rest)
          PROVE  rest[i] = all2[off + i]
      <4>1. off + i \in 1..Len(all)
        BY <3>1, <3>2, <3>4
      <4> QED
        BY <2>4, <3>2, <4>1
    <3>6. ASSUME NEW i \in 1..Len(stream')
          PROVE  stream'[i] = all2[off + Len(rest) + i]
      <4>1. CASE i <= Len(stream)
        <5>1. i \in 1..Len(stream) /\ off + Len(rest) + i \in 1..Len(all)
          BY <3>1, <3>2, <3>3, <3>4, <4>1
        <5> QED
          BY <2>4, <3>2, <3>3, <5>1
      <4>2. CASE i > Len(stream)
        <5> DEFINE d == i - Len(stream)
        <5>1. d \in 1..Len(m) + 2 /\ off + Len(rest) + i = Len(all) + d
              /\ i = Len(stream) + d
          BY <2>1, <3>1, <3>2, <3>3, <3>4, <4>2
        <5> HIDE DEF d
        <5>2. all2[Len(all) + d] = F[d]
          BY <2>4, <5>1
        <5>3. stream'[i] = F[d]
          BY <3>3, <5>1
        <5> QED
          BY <5>1, <5>2, <5>3
      <4> QED
        BY <3>3, <3>4, <4>1, <4>2, <2>1
    <3>7. off \in 0..Len(all2) /\ Len(all2) = off + Len(rest') + Len(stream')
      BY <2>1, <2>3, <2>4, <3>1, <3>2, <3>3, <3>4
    <3> QED
      BY <3>1, <3>5, <3>6, <3>7 DEF Remaining
  <2>8. Done(all2, beg2, off, j)'
    <3>1. j \in 0..n /\ off <= beg[j] /\ (\A i \in off + 1..beg[j] : all[i] # STX)
          /\ received = Fitting(SubSeq(sent, 1, j)) /\ off \in 0..Len(all)
      BY <2>0, <2>2 DEF Done, Remaining
    <3>2. beg2[j] = beg[j] /\ beg[j] \in 0..Len(all) /\ j \in 0..n + 1
      <4>1. j \in 0..n /\ beg \in [0..n -> 0..Len(all)] /\ n \in Nat
        BY <1>2, <2>3, <3>1
      <4> QED
        BY <2>5, <4>1
    <3>3. ASSUME NEW i \in off + 1..beg[j]
          PROVE  all2[i] # STX
      <4>1. i \in 1..Len(all)
        BY <2>3, <3>1, <3>2
      <4> QED
        BY <2>4, <3>1, <4>1
    <3>4. SubSeq(sent', 1, j) = SubSeq(sent, 1, j)
      BY <1>1, <1>2, <2>0, <3>1, FirstOfMore
    <3> QED
      <4>1. j \in 0..Len(sent') /\ off <= beg2[j] /\ received' = Fitting(SubSeq(sent', 1, j))
        BY <1>1, <1>3, <2>0, <3>1, <3>2, <3>4
      <4>2. \A i \in off + 1..beg2[j] : all2[i] # STX
        BY <3>2, <3>3
      <4> QED
        BY <4>1, <4>2 DEF Done
  <2> QED
    BY <2>6, <2>7, <2>8 DEF InPosition
<1>5. EachPrefix'
  <2> SUFFICES ASSUME NEW i \in 0..Len(sent) + 1
               PROVE  IsPrefix(Fitting(SubSeq(sent', 1, i)), Fitting(sent'))
    BY <1>3 DEF EachPrefix
  <2>1. /\ Fitting(sent) \in Seq(Payloads)
        /\ Fitting(sent') \in {Fitting(sent), Append(Fitting(sent), m)}
    BY <1>1, <1>2, FittingAppend
  <2>2. CASE i \in 0..Len(sent)
    <3>1. SubSeq(sent', 1, i) = SubSeq(sent, 1, i) /\ SubSeq(sent, 1, i) \in Seq(Payloads)
      BY <1>1, <1>2, <2>2, FirstOfMore
    <3>2. IsPrefix(Fitting(SubSeq(sent, 1, i)), Fitting(sent))
      BY <2>2 DEF OrderInv, EachPrefix
    <3>3. Fitting(SubSeq(sent, 1, i)) \in Seq(Payloads)
      BY <3>1, FittingAppend
    <3> QED
      BY <2>1, <3>1, <3>2, <3>3, PrefixAppend
  <2>3. CASE i = Len(sent) + 1
    <3>1. sent' \in Seq(Payloads)
      BY <1>1, <1>2
    <3>2. SubSeq(sent', 1, i) = sent'
      BY <1>3, <2>3, <3>1, FirstAndLast
    <3>3. IsPrefix(Fitting(sent'), Fitting(sent'))
      BY <3>1, FittingAppend, PrefixAppend DEF IsPrefix
    <3> QED
      BY <3>2, <3>3
  <2> QED
    BY <1>2, <2>2, <2>3
<1>6. Waiting'
  BY <1>1 DEF OrderInv, Waiting
<1> QED
  BY <1>4, <1>5, <1>6

\* What recv() brings follows what is in the buffer.
LEMMA RecvOrder ==
  ASSUME OrderInv, NEW n \in 1..Len(stream), Recv(n)
  PROVE  InPosition' /\ EachPrefix' /\ Waiting'
<1> DEFINE part == SubSeq(stream, 1, n)
           left == SubSeq(stream, n + 1, Len(stream))
<1>1. buf' = buf \o part /\ stream' = left /\ pc' = "next" /\ UNCHANGED <<sent, readpos, received>>
  BY DEF Recv
<1>2. stream \in Seq(Bytes) /\ buf \in Seq(Bytes) /\ readpos \in 0..Len(buf)
      /\ Len(buf) \in Nat /\ Len(stream) \in Nat /\ n \in Nat
  BY DEF OrderInv, IInv, TypeOK
<1>3. part \in Seq(Bytes) /\ Len(part) = n /\ \A i \in 1..n : part[i] = stream[i]
  <2>1. n \in 1..Len(stream) /\ n \in 0..Len(stream) /\ 1 \in 1..Len(stream) + 1
    BY <1>2
  <2> QED
    BY <1>2, <2>1, PartOfBytes
<1>4. Len(left) = Len(stream) - n /\ \A i \in 1..Len(stream) - n : left[i] = stream[n + i]
  BY <1>2, RestBytes
<1> HIDE DEF part, left
<1> DEFINE both == buf \o part
<1>5. both \in Seq(Bytes) /\ Len(both) = Len(buf) + n
      /\ (\A i \in 1..Len(buf) : both[i] = buf[i])
      /\ \A i \in 1..n : both[Len(buf) + i] = part[i]
  BY <1>2, <1>3, Following
<1> HIDE DEF both
<1>6. rest \in Seq(Bytes) /\ Len(rest) = Len(buf) - readpos
      /\ \A i \in 1..Len(buf) - readpos : rest[i] = buf[readpos + i]
  BY <1>2, RestBytes DEF rest
<1>7. /\ Len(rest') = Len(buf) + n - readpos
      /\ \A i \in 1..Len(buf) + n - readpos : rest'[i] = both[readpos + i]
  <2> DEFINE r == SubSeq(both, readpos + 1, Len(both))
  <2>1. rest' = r
    BY <1>1 DEF rest, both
  <2>2. readpos \in 0..Len(both)
    BY <1>2, <1>5
  <2>3. Len(r) = Len(both) - readpos /\ \A i \in 1..Len(both) - readpos : r[i] = both[readpos + i]
    BY <1>5, <2>2, RestBytes
  <2> HIDE DEF r
  <2> QED
    <3>1. Len(both) - readpos = Len(buf) + n - readpos
      BY <1>2, <1>5
    <3>2. \A i \in 1..Len(both) - readpos : rest'[i] = both[readpos + i]
      BY <2>1, <2>3
    <3>3. Len(rest') = Len(both) - readpos
      BY <2>1, <2>3
    <3> QED
      BY <3>1, <3>2, <3>3
<1>8. PICK all, beg, off, j :
        Written(all, beg) /\ Remaining(all, off) /\ Done(all, beg, off, j)
  BY DEF OrderInv, InPosition
<1>9. Written(all, beg)' /\ Done(all, beg, off, j)'
  BY <1>1, <1>8 DEF Written, Done
<1>10. Remaining(all, off)'
  <2>1. /\ off \in 0..Len(all) /\ Len(all) = off + Len(rest) + Len(stream)
        /\ \A i \in 1..Len(rest) : rest[i] = all[off + i]
        /\ \A i \in 1..Len(stream) : stream[i] = all[off + Len(rest) + i]
    BY <1>8 DEF Remaining
  <2>2. Len(all) \in Nat /\ off \in Nat
    BY <1>8, <2>1 DEF Written
  <2>3. ASSUME NEW i \in 1..Len(rest')
        PROVE  rest'[i] = all[off + i]
    <3>1. CASE i <= Len(rest)
      <4>1. i \in 1..Len(rest) /\ readpos + i \in 1..Len(buf)
        BY <1>2, <1>6, <1>7, <3>1
      <4>2. rest'[i] = both[readpos + i] /\ both[readpos + i] = buf[readpos + i]
        BY <1>5, <1>7, <4>1
      <4>3. rest[i] = buf[readpos + i] /\ rest[i] = all[off + i]
        BY <1>6, <2>1, <4>1
      <4> QED
        BY <4>2, <4>3
    <3>2. CASE i > Len(rest)
      <4> DEFINE d == i - Len(rest)
      <4>1. d \in 1..n /\ readpos + i = Len(buf) + d /\ off + i = off + Len(rest) + d
            /\ d \in 1..Len(stream)
        BY <1>2, <1>6, <1>7, <2>2, <3>2
      <4> HIDE DEF d
      <4>2. rest'[i] = both[Len(buf) + d] /\ both[Len(buf) + d] = part[d]
        BY <1>5, <1>7, <4>1
      <4>3. part[d] = stream[d] /\ stream[d] = all[off + Len(rest) + d]
        BY <1>3, <2>1, <4>1
      <4> QED
        BY <4>1, <4>2, <4>3
    <3> QED
      BY <1>2, <1>6, <1>7, <3>1, <3>2
  <2>4. ASSUME NEW i \in 1..Len(stream')
        PROVE  stream'[i] = all[off + Len(rest') + i]
    <3>1. n + i \in 1..Len(stream) /\ i \in 1..Len(stream) - n
          /\ off + Len(rest) + (n + i) = off + Len(rest') + i
      <4>1. Len(stream') = Len(stream) - n
        BY <1>1, <1>4
      <4>2. Len(rest') = Len(rest) + n /\ Len(rest) \in Nat
        BY <1>2, <1>6, <1>7
      <4> QED
        BY <1>2, <2>2, <4>1, <4>2
    <3>2. stream'[i] = stream[n + i]
      BY <1>1, <1>4, <3>1
    <3>3. stream[n + i] = all[off + Len(rest) + (n + i)]
      BY <2>1, <3>1
    <3> QED
      BY <3>1, <3>2, <3>3
  <2>5. Len(all) = off + Len(rest') + Len(stream')
    BY <1>1, <1>2, <1>4, <1>6, <1>7, <2>1, <2>2
  <2> QED
    BY <2>1, <2>3, <2>4, <2>5 DEF Remaining
<1>11. EachPrefix'
  BY <1>1 DEF OrderInv, EachPrefix
<1>12. Waiting'
  BY <1>1 DEF Waiting
<1> QED
  BY <1>9, <1>10, <1>11, <1>12 DEF InPosition

\* The first d bytes of what is left of the buffer are done with too.
LEMMA DoneWith ==
  ASSUME OrderInv, NEW all, NEW beg, NEW off, Written(all, beg), Remaining(all, off),
         NEW d \in 0..Len(rest), UNCHANGED stream, Len(rest') = Len(rest) - d,
         \A i \in 1..Len(rest) - d : rest'[i] = rest[d + i]
  PROVE  Remaining(all, off + d)'
<1>1. rest \in Seq(Bytes) /\ Len(rest) \in Nat /\ Len(stream) \in Nat /\ Len(all) \in Nat
  BY RestBytes DEF OrderInv, IInv, TypeOK, rest, Written
<1>2. /\ off \in 0..Len(all) /\ Len(all) = off + Len(rest) + Len(stream)
      /\ \A i \in 1..Len(rest) : rest[i] = all[off + i]
      /\ \A i \in 1..Len(stream) : stream[i] = all[off + Len(rest) + i]
  BY DEF Remaining
<1>3. ASSUME NEW i \in 1..Len(rest')
      PROVE  rest'[i] = all[off + d + i]
  <2>1. d + i \in 1..Len(rest) /\ i \in 1..Len(rest) - d /\ off + (d + i) = off + d + i
    BY <1>1, <1>2
  <2> QED
    BY <1>2, <2>1
<1>4. ASSUME NEW i \in 1..Len(stream)
      PROVE  stream[i] = all[off + d + Len(rest') + i]
  <2>1. off + d + Len(rest') + i = off + Len(rest) + i
    BY <1>1, <1>2
  <2> QED
    BY <1>2, <2>1
<1>5. off + d \in 0..Len(all) /\ Len(all) = off + d + Len(rest') + Len(stream)
  BY <1>1, <1>2
<1> QED
  BY <1>3, <1>4, <1>5 DEF Remaining

\* A message among those written: where its bytes are.
LEMMA FrameAt ==
  ASSUME OrderInv, NEW all, NEW beg, Written(all, beg), NEW j \in 0..Len(sent), j # Len(sent)
  PROVE  /\ j \in Nat /\ j + 1 \in 1..Len(sent) /\ sent[j + 1] \in Payloads
         /\ Len(sent[j + 1]) \in Nat /\ Len(all) \in Nat
         /\ beg[j] \in 0..Len(all) /\ beg[j + 1] \in 0..Len(all)
         /\ beg[j + 1] = beg[j] + Len(sent[j + 1]) + 2
         /\ all[beg[j] + 1] = STX /\ all[beg[j] + Len(sent[j + 1]) + 2] = ETX
         /\ \A k \in 1..Len(sent[j + 1]) : all[beg[j] + 1 + k] = sent[j + 1][k]
<1>1. sent \in Seq(Payloads) /\ Len(sent) \in Nat
  BY DEF OrderInv, IInv, TypeOK
<1> DEFINE i == j + 1
<1>2. j \in Nat /\ i \in 1..Len(sent) /\ i - 1 = j /\ i \in 0..Len(sent)
  BY <1>1
<1> HIDE DEF i
<1>3. sent[i] \in Payloads
  BY <1>1, <1>2
<1>4. Len(sent[i]) \in Nat
  BY <1>3, PayloadBytes
<1>5. Len(all) \in Nat /\ beg[j] \in 0..Len(all) /\ beg[i] \in 0..Len(all)
  <2>1. all \in Seq(Bytes) /\ beg \in [0..Len(sent) -> 0..Len(all)]
    BY DEF Written
  <2>2. Len(all) \in Nat
    BY <2>1
  <2> QED
    BY <1>2, <2>1, <2>2
<1>6. /\ beg[i] = beg[i - 1] + Len(sent[i]) + 2
      /\ all[beg[i - 1] + 1] = STX /\ all[beg[i]] = ETX
      /\ \A k \in 1..Len(sent[i]) : all[beg[i - 1] + 1 + k] = sent[i][k]
  <2>1. \A h \in 1..Len(sent) :
          /\ beg[h] = beg[h - 1] + Len(sent[h]) + 2
          /\ all[beg[h - 1] + 1] = STX /\ all[beg[h]] = ETX
          /\ \A k \in 1..Len(sent[h]) : all[beg[h - 1] + 1 + k] = sent[h][k]
    BY DEF Written
  <2> QED
    BY <1>2, <2>1
<1>7. /\ beg[i] = beg[j] + Len(sent[i]) + 2 /\ all[beg[j] + 1] = STX
      /\ \A k \in 1..Len(sent[i]) : all[beg[j] + 1 + k] = sent[i][k]
  BY <1>2, <1>6
<1>8. all[beg[j] + Len(sent[i]) + 2] = ETX
  BY <1>6, <1>7
<1> QED
  BY <1>2, <1>3, <1>4, <1>5, <1>7, <1>8 DEF i

\* The first STX in what is left of the buffer begins the next message; when
\* there is none, the next message is still on its way.
LEMMA StartOfNext ==
  ASSUME OrderInv, NEW all, NEW beg, NEW off, NEW j,
         Written(all, beg), Remaining(all, off), Done(all, beg, off, j),
         NEW s, s = strstr(rest, STX)
  PROVE  /\ s = 0 => off + Len(rest) <= beg[j]
         /\ s # 0 => j # Len(sent) /\ off + s = beg[j] + 1
<1>1. rest \in Seq(Bytes) /\ Len(rest) \in Nat /\ Len(stream) \in Nat /\ Len(sent) \in Nat
  BY RestBytes DEF OrderInv, IInv, TypeOK, rest
<1>2. /\ s \in 0..Len(rest)
      /\ s = 0 => \A i \in 1..Len(rest) : rest[i] # STX
      /\ s # 0 => rest[s] = STX /\ \A i \in 1..s - 1 : rest[i] # STX
  BY <1>1, StrstrFirst
<1>3. /\ off \in 0..Len(all) /\ Len(all) = off + Len(rest) + Len(stream) /\ Len(all) \in Nat
      /\ \A i \in 1..Len(rest) : rest[i] = all[off + i]
  BY DEF Remaining, Written
<1>4. /\ j \in 0..Len(sent) /\ off <= beg[j] /\ beg[j] \in 0..Len(all)
      /\ \A i \in off + 1..beg[j] : all[i] # STX
      /\ Len(all) = beg[Len(sent)]
  BY DEF Done, Written
<1>5. ASSUME beg[j] + 1 <= off + Len(rest)
      PROVE  /\ j # Len(sent) /\ beg[j] + 1 - off \in 1..Len(rest)
             /\ rest[beg[j] + 1 - off] = STX
  <2>1. j # Len(sent)
    BY <1>1, <1>3, <1>4, <1>5
  <2>2. all[beg[j] + 1] = STX
    BY <1>4, <2>1, FrameAt
  <2>3. beg[j] + 1 - off \in 1..Len(rest) /\ off + (beg[j] + 1 - off) = beg[j] + 1
    BY <1>1, <1>3, <1>4, <1>5
  <2> QED
    BY <1>3, <2>1, <2>2, <2>3
<1>6. CASE s = 0
  BY <1>1, <1>2, <1>3, <1>4, <1>5, <1>6
<1>7. CASE s # 0
  <2>1. s \in 1..Len(rest) /\ all[off + s] = STX
    BY <1>1, <1>2, <1>3, <1>7
  <2>2. ~(off + s <= beg[j])
    <3>1. off + s <= beg[j] => off + s \in off + 1..beg[j]
      BY <1>1, <1>3, <1>4, <2>1
    <3> QED
      BY <1>4, <2>1, <3>1
  <2>3. beg[j] + 1 <= off + s /\ off + s <= off + Len(rest)
    BY <1>1, <1>3, <1>4, <2>1, <2>2
  <2>4. j # Len(sent) /\ beg[j] + 1 - off \in 1..Len(rest) /\ rest[beg[j] + 1 - off] = STX
    BY <1>1, <1>3, <1>4, <1>5, <2>1, <2>3
  <2>5. ~(beg[j] + 1 - off \in 1..s - 1)
    BY <1>2, <1>7, <2>4
  <2> DEFINE c == beg[j]
  <2>6. c \in Nat /\ off \in Nat /\ s \in Nat
    BY <1>3, <1>4, <2>1
  <2>7. c + 1 - off >= 1 /\ ~(c + 1 - off \in 1..s - 1) /\ c + 1 <= off + s
    BY <2>3, <2>4, <2>5, <1>1
  <2>8. off + s = c + 1
    <3> HIDE DEF c
    <3> QED
      BY <2>6, <2>7
  <2> QED
    BY <1>7, <2>4, <2>8
<1> QED
  BY <1>6, <1>7

\* An ETX in a buffer that begins with a message ends that message.
LEMMA EndOfNext ==
  ASSUME OrderInv, NEW all, NEW beg, Written(all, beg), NEW j \in 0..Len(sent), j # Len(sent),
         NEW b \in Seq(Bytes), \A i \in 1..Len(b) : b[i] = all[beg[j] + i],
         NEW e, e = strstr(b, ETX)
  PROVE  /\ e = 0 => Len(b) < Len(sent[j + 1]) + 2
         /\ e # 0 => /\ e = Len(sent[j + 1]) + 2 /\ e <= Len(b)
                     /\ SubSeq(b, 2, e - 1) = sent[j + 1]
<1> DEFINE m == sent[j + 1]
<1>1. /\ m \in Payloads /\ Len(m) \in Nat /\ Len(all) \in Nat /\ beg[j] \in 0..Len(all)
      /\ all[beg[j] + 1] = STX /\ all[beg[j] + Len(m) + 2] = ETX
      /\ \A k \in 1..Len(m) : all[beg[j] + 1 + k] = m[k]
  BY FrameAt
<1> HIDE DEF m
<1> DEFINE c == beg[j]
           l == Len(m)
<1>01. c \in Nat /\ l \in Nat
  BY <1>1
<1>02. \A k \in 1..l : c + (1 + k) = c + 1 + k
  <2> HIDE DEF c, l
  <2> QED
    BY <1>01
<1>03. c + (l + 2) = c + l + 2
  <2> HIDE DEF c, l
  <2> QED
    BY <1>01
<1>2. m \in Seq(Bytes) /\ \A k \in 1..Len(m) : m[k] # ETX
  BY <1>1, PayloadBytes
<1>3. /\ e \in 0..Len(b) /\ Len(b) \in Nat
      /\ e = 0 => \A i \in 1..Len(b) : b[i] # ETX
      /\ e # 0 => b[e] = ETX /\ \A i \in 1..e - 1 : b[i] # ETX
  BY StrstrFirst
<1>4. Len(m) + 2 <= Len(b) => b[Len(m) + 2] = ETX
  <2>1. Len(m) + 2 <= Len(b) => Len(m) + 2 \in 1..Len(b)
    BY <1>1, <1>3
  <2>2. beg[j] + (Len(m) + 2) = beg[j] + Len(m) + 2
    BY <1>03
  <2> QED
    BY <1>1, <2>1, <2>2
<1>5. ASSUME NEW i \in 1..Len(b), i <= Len(m) + 1
      PROVE  b[i] # ETX
  <2>1. CASE i = 1
    BY <1>1, <2>1, FramerAssumption
  <2>2. CASE i > 1
    <3> DEFINE k == i - 1
    <3>1. k \in 1..Len(m) /\ i = 1 + k
      BY <1>1, <1>3, <1>5, <2>2
    <3> HIDE DEF k
    <3>2. beg[j] + i = beg[j] + 1 + k
      BY <1>02, <3>1
    <3>3. b[i] = all[beg[j] + 1 + k]
      BY <3>2
    <3> QED
      BY <1>1, <1>2, <3>1, <3>3
  <2> QED
    BY <1>3, <2>1, <2>2
<1>6. CASE e = 0
  <2>1. ~(Len(m) + 2 <= Len(b))
    <3>1. Len(m) + 2 <= Len(b) => Len(m) + 2 \in 1..Len(b)
      BY <1>1, <1>3
    <3> QED
      BY <1>3, <1>4, <1>6, <3>1
  <2> QED
    BY <1>1, <1>3, <1>6, <2>1 DEF m
<1>7. CASE e # 0
  <2>1. e \in 1..Len(b) /\ ~(e <= Len(m) + 1)
    BY <1>3, <1>5, <1>7
  <2>2. ~(Len(m) + 2 \in 1..e - 1)
    <3>1. Len(m) + 2 \in 1..e - 1 => Len(m) + 2 <= Len(b)
      BY <1>1, <1>3
    <3> QED
      BY <1>3, <1>4, <1>7, <3>1
  <2>3. e = Len(m) + 2
    BY <1>1, <1>3, <2>1, <2>2
  <2> DEFINE r == SubSeq(b, 2, e - 1)
  <2>4. /\ r \in Seq(Bytes) /\ Len(r) = Len(m)
        /\ \A k \in 1..Len(m) : r[k] = b[1 + k]
    <3>1. 2 \in 1..(Len(b) + 1) /\ e - 1 \in 0..Len(b)
      BY <1>1, <1>3, <2>1, <2>3
    <3>2. r \in Seq(Bytes) /\ Len(r) = IF 2 <= e - 1 THEN e - 1 - 2 + 1 ELSE 0
      BY <3>1, PartOfBytes
    <3>3. Len(r) = Len(m)
      BY <1>1, <2>3, <3>2
    <3>4. \A k \in 2..e - 1 : b[k] \in Bytes
      BY <1>3, <2>1
    <3>5. \A k \in 1..Len(m) : r[k] = b[2 + k - 1]
      <4>1. e - 1 \in Int /\ e - 1 - 2 + 1 = Len(m)
        BY <1>1, <2>3
      <4> QED
        BY <3>4, <4>1, SubSeqProperties
    <3>6. \A k \in 1..Len(m) : 2 + k - 1 = 1 + k
      BY <1>1
    <3> QED
      BY <3>2, <3>3, <3>5, <3>6
  <2>5. ASSUME NEW k \in 1..Len(m)
        PROVE  r[k] = m[k]
    <3> HIDE DEF r
    <3>0. 1 + k \in 1..Len(b)
      BY <1>1, <1>3, <2>1, <2>3
    <3>1. 1 + k \in 1..Len(b) /\ beg[j] + (1 + k) = beg[j] + 1 + k
      BY <1>02, <3>0
    <3>2. r[k] = b[1 + k] /\ b[1 + k] = all[beg[j] + 1 + k]
      BY <2>4, <3>1
    <3> QED
      BY <1>1, <3>2
  <2>6. r = m
    <3> HIDE DEF r
    <3> QED
      BY <1>2, <2>4, <2>5, SeqEqual
  <2> QED
    BY <1>3, <1>7, <2>1, <2>3, <2>6 DEF m
<1> QED
  BY <1>6, <1>7

\* The next call of msgFramer_getNextMsg finds the next message, whole or in
\* part, or the end of one that was given up.
LEMMA NextMsgOrder ==
  ASSUME OrderInv, getNextMsg
  PROVE  InPosition' /\ EachPrefix' /\ Waiting'
<1> DEFINE s == strstr(rest, STX)
           e == strstr(Aligned, ETX)
<1>1. rest \in Seq(Bytes) /\ Len(rest) \in Nat
      /\ sent \in Seq(Payloads) /\ Len(sent) \in Nat /\ received \in Seq(Seq(Bytes))
  BY RestBytes DEF OrderInv, IInv, TypeOK, rest
<1>2. Aligned \in Seq(Bytes) /\ Len(Aligned) \in Nat /\ Len(Aligned) <= MaxBufSize
  BY AlignedIsPart DEF OrderInv, IInv
<1>3. /\ s \in 0..Len(rest)
      /\ s = 0 => \A i \in 1..Len(rest) : rest[i] # STX
      /\ s # 0 => rest[s] = STX /\ \A i \in 1..s - 1 : rest[i] # STX
  BY <1>1, StrstrFirst
<1>4. /\ e \in 0..Len(Aligned)
      /\ e = 0 => \A i \in 1..Len(Aligned) : Aligned[i] # ETX
      /\ e # 0 => Aligned[e] = ETX /\ \A i \in 1..e - 1 : Aligned[i] # ETX
  BY <1>2, StrstrFirst
<1>5. Aligned = IF s = 0 THEN <<>> ELSE SubSeq(rest, s, Len(rest))
  BY DEF Aligned, rest
<1>6. /\ e # 0 => FoundMsg(Aligned, e)
      /\ e = 0 => NoMsg(Aligned)
      /\ UNCHANGED <<sent, stream>>
  BY DEF getNextMsg
<1> HIDE DEF s, e
<1>7. s # 0 => /\ Len(Aligned) = Len(rest) - (s - 1)
               /\ \A i \in 1..Len(rest) - (s - 1) : Aligned[i] = rest[s - 1 + i]
  <2> SUFFICES ASSUME s # 0
               PROVE  /\ Len(Aligned) = Len(rest) - (s - 1)
                      /\ \A i \in 1..Len(rest) - (s - 1) : Aligned[i] = rest[s - 1 + i]
    OBVIOUS
  <2> DEFINE r == s - 1
  <2>1. r \in 0..Len(rest) /\ r + 1 = s
    BY <1>1, <1>3
  <2> HIDE DEF r
  <2>2. Aligned = SubSeq(rest, r + 1, Len(rest))
    BY <1>5, <2>1
  <2>3. /\ Len(Aligned) = Len(rest) - r
        /\ \A i \in 1..Len(rest) - r : Aligned[i] = rest[r + i]
    BY <1>1, <2>1, <2>2, RestBytes
  <2> QED
    BY <2>3 DEF r
<1>8. EachPrefix'
  BY <1>6 DEF OrderInv, EachPrefix
<1>9. Waiting'
  <2>1. CASE e # 0
    BY <1>6, <2>1 DEF FoundMsg, Waiting
  <2>2. CASE e = 0
    <3>1. readpos' = 0 /\ (buf' = <<>> \/ buf' = Aligned)
      BY <1>6, <2>2 DEF NoMsg
    <3>2. CASE buf' = <<>>
      BY <3>1, <3>2 DEF Waiting
    <3>3. CASE buf' = Aligned /\ Aligned # <<>>
      <4>1. s # 0
        BY <1>5, <3>3
      <4>2. Aligned[1] = rest[s]
        BY <1>1, <1>3, <1>7, <4>1
      <4> QED
        BY <1>3, <1>4, <2>2, <3>1, <3>3, <4>1, <4>2 DEF Waiting
    <3> QED
      BY <3>1, <3>2, <3>3
  <2> QED
    BY <2>1, <2>2
<1>10. InPosition'
  <2>1. PICK all, beg, off, j :
          Written(all, beg) /\ Remaining(all, off) /\ Done(all, beg, off, j)
    BY DEF OrderInv, InPosition
  <2>2. Written(all, beg)'
    BY <1>6, <2>1 DEF Written
  <2>3. /\ s = 0 => off + Len(rest) <= beg[j]
        /\ s # 0 => j # Len(sent) /\ off + s = beg[j] + 1
    BY <2>1, StartOfNext DEF s
  <2>4. /\ off \in 0..Len(all) /\ Len(all) = off + Len(rest) + Len(stream) /\ Len(all) \in Nat
        /\ off \in Nat /\ \A i \in 1..Len(rest) : rest[i] = all[off + i]
    BY <2>1 DEF Remaining, Written
  <2>5. /\ j \in 0..Len(sent) /\ off <= beg[j] /\ beg[j] \in 0..Len(all)
        /\ \A i \in off + 1..beg[j] : all[i] # STX
        /\ received = Fitting(SubSeq(sent, 1, j))
    BY <2>1 DEF Done, Written
  <2>01. PICK c \in Nat : c = beg[j]
    BY <2>4, <2>5
  <2>02. PICK r \in Nat : r = Len(rest)
    BY <1>1
  <2>6. CASE s = 0
    <3>1. Aligned = <<>>
      BY <1>5, <2>6
    <3>2. e = 0
      BY <1>4, <3>1
    <3>3. buf' = <<>> /\ readpos' = 0 /\ received' = received
      BY <1>6, <3>1, <3>2 DEF NoMsg
    <3>4. Len(rest') = 0
      BY <3>3, RestBytes DEF rest
    <3>5. Remaining(all, off + r)'
      <4>1. r \in 0..Len(rest) /\ Len(rest') = Len(rest) - r
            /\ \A i \in 1..Len(rest) - r : rest'[i] = rest[r + i]
        BY <2>02, <3>4
      <4> QED
        BY <1>6, <2>1, <4>1, DoneWith
    <3>6. Done(all, beg, off + r, j)'
      <4>1. off + r <= beg[j]
        BY <2>3, <2>6, <2>02
      <4>2. \A i \in off + r + 1..beg[j] : i \in off + 1..beg[j]
        BY <2>4, <2>5
      <4>3. j \in 0..Len(sent') /\ received' = Fitting(SubSeq(sent', 1, j))
        BY <1>6, <2>5, <3>3
      <4>4. \A i \in off + r + 1..beg[j] : all[i] # STX
        BY <2>5, <4>2
      <4> QED
        BY <4>1, <4>3, <4>4 DEF Done
    <3> QED
      BY <2>2, <3>5, <3>6 DEF InPosition
  <2>7. CASE s # 0
    <3>1. j # Len(sent) /\ off + s = c + 1 /\ s \in Nat /\ s \in 1..r
      BY <1>3, <2>3, <2>7, <2>01, <2>02
    <3>01. PICK a \in Nat : a = Len(Aligned)
      BY <1>2
    <3>02. a = r - (s - 1) /\ \A i \in 1..a : Aligned[i] = rest[s - 1 + i]
      BY <1>7, <2>7, <2>02, <3>01
    <3> DEFINE m == sent[j + 1]
    <3>2. /\ j \in Nat /\ j + 1 \in 1..Len(sent) /\ m \in Payloads /\ Len(m) \in Nat
          /\ beg[j + 1] \in 0..Len(all) /\ beg[j + 1] = beg[j] + Len(m) + 2
          /\ all[beg[j] + Len(m) + 2] = ETX
          /\ \A k \in 1..Len(m) : all[beg[j] + 1 + k] = m[k]
      <4>1. j # Len(sent) /\ j \in 0..Len(sent) /\ Written(all, beg)
        BY <2>1, <2>5, <3>1
      <4> QED
        BY <4>1, FrameAt
    <3>3. \A i \in 1..Len(Aligned) : Aligned[i] = all[beg[j] + i]
      <4>1. ASSUME NEW i \in 1..Len(Aligned)
            PROVE  Aligned[i] = all[beg[j] + i]
        <5>1. i \in 1..a /\ s - 1 + i \in 1..r /\ off + (s - 1 + i) = c + i
          BY <2>4, <3>1, <3>01, <3>02
        <5>2. Aligned[i] = rest[s - 1 + i] /\ s - 1 + i \in 1..Len(rest)
          BY <2>02, <3>02, <5>1
        <5>3. off + (s - 1 + i) = beg[j] + i
          BY <2>01, <5>1
        <5> QED
          BY <2>4, <5>2, <5>3
      <4> QED
        BY <4>1
    <3>4. /\ e = 0 => Len(Aligned) < Len(m) + 2
          /\ e # 0 => /\ e = Len(m) + 2 /\ e <= Len(Aligned)
                      /\ SubSeq(Aligned, 2, e - 1) = m
      <4>1. e = strstr(Aligned, ETX)
        BY DEF e
      <4> QED
        BY <1>2, <2>1, <2>5, <3>1, <3>3, <4>1, EndOfNext
    <3>5. Fits(m) <=> Len(m) + 2 <= MaxBufSize
      BY <3>2, FrameBytes DEF Fits
    <3>6. Fitting(SubSeq(sent, 1, j + 1)) =
            IF Fits(m) THEN Append(received, m) ELSE received
      <4>1. SubSeq(sent, 1, j + 1) = Append(SubSeq(sent, 1, j), m)
            /\ SubSeq(sent, 1, j) \in Seq(Payloads)
        <5>1. j \in 0..Len(sent) - 1
          BY <1>1, <2>5, <3>1
        <5> QED
          BY <1>1, <5>1, FirstAndLast
      <4> QED
        BY <2>5, <3>2, <4>1, FittingAppend
    <3> HIDE DEF m
    <3>03. PICK l \in Nat : l = Len(m)
      BY <3>2
    <3>7. CASE e # 0
      <4>1. received' = Append(received, m) /\ readpos' = e /\ buf' = Aligned
        BY <1>6, <3>4, <3>7 DEF FoundMsg
      <4>2. Fits(m)
        BY <1>2, <3>2, <3>4, <3>5, <3>7, FramerAssumption
      <4>3. Remaining(all, beg[j + 1])'
        <5>1. e \in 0..a /\ e \in Nat /\ e = l + 2
          BY <1>4, <3>4, <3>7, <3>01, <3>03
        <5> PICK d \in Nat : d = s - 1 + e
          BY <3>1, <5>1
        <5>2. d \in 0..Len(rest) /\ Len(rest) - d = a - e
          <6>1. d \in 0..r /\ r - d = a - e
            BY <3>1, <3>02, <5>1
          <6> QED
            BY <2>02, <6>1
        <5>3. Len(rest') = a - e /\ \A i \in 1..a - e : rest'[i] = Aligned[e + i]
          <6>1. rest' = SubSeq(Aligned, e + 1, Len(Aligned))
            BY <4>1 DEF rest
          <6> QED
            BY <1>2, <3>01, <5>1, <6>1, RestBytes
        <5>4. ASSUME NEW i \in 1..a - e
              PROVE  rest'[i] = rest[d + i]
          <6>1. e + i \in 1..a /\ s - 1 + (e + i) = d + i
            BY <3>1, <3>02, <5>1
          <6> QED
            BY <3>02, <5>3, <6>1
        <5>5. off + d = c + l + 2
          BY <2>4, <3>1, <5>1
        <5>6. Remaining(all, off + d)'
          BY <1>6, <2>1, <5>2, <5>3, <5>4, DoneWith
        <5>7. off + d = beg[j + 1]
          BY <2>01, <3>2, <3>03, <5>5
        <5> QED
          BY <5>6, <5>7
      <4>4. Done(all, beg, beg[j + 1], j + 1)'
        <5> DEFINE h == j + 1
        <5>1. h \in 0..Len(sent') /\ beg[h] <= beg[h] /\ received' = Fitting(SubSeq(sent', 1, h))
          BY <1>1, <1>6, <2>4, <3>2, <3>6, <4>1, <4>2
        <5>2. \A i \in beg[h] + 1..beg[h] : all[i] # STX
          BY <2>4, <3>2
        <5> HIDE DEF h
        <5>3. Done(all, beg, beg[h], h)'
          BY <5>1, <5>2 DEF Done
        <5> QED
          BY <5>3 DEF h
      <4> QED
        BY <2>2, <4>3, <4>4 DEF InPosition
    <3>8. CASE e = 0 /\ Len(Aligned) = MaxBufSize
      <4>1. received' = received /\ readpos' = 0 /\ buf' = <<>>
        BY <1>6, <3>8 DEF NoMsg
      <4>2. ~Fits(m)
        BY <1>2, <3>2, <3>4, <3>5, <3>8, FramerAssumption
      <4>3. Len(rest') = 0
        BY <4>1, RestBytes DEF rest
      <4>4. Remaining(all, off + r)'
        <5>1. r \in 0..Len(rest) /\ Len(rest') = Len(rest) - r
              /\ \A i \in 1..Len(rest) - r : rest'[i] = rest[r + i]
          BY <2>02, <4>3
        <5> QED
          BY <1>6, <2>1, <5>1, DoneWith
      <4>5. off + r = c + a
        BY <2>4, <3>1, <3>02
      <4>6. a # 0
        BY <3>8, <3>01, FramerAssumption
      <4>7. Done(all, beg, off + r, j + 1)'
        <5>1. j + 1 \in 0..Len(sent') /\ received' = Fitting(SubSeq(sent', 1, j + 1))
          BY <1>1, <1>6, <3>2, <3>6, <4>1, <4>2
        <5>2. beg[j + 1] = c + l + 2
          BY <2>01, <3>2, <3>03
        <5>3. off + r <= beg[j + 1]
          <6>1. a < l + 2
            BY <3>4, <3>8, <3>01, <3>03
          <6>2. off + r <= c + l + 2
            BY <4>5, <6>1
          <6> QED
            BY <5>2, <6>2
        <5>4. ASSUME NEW i \in off + r + 1..beg[j + 1]
              PROVE  all[i] # STX
          <6>1. i \in c + a + 1..c + l + 2
            BY <4>5, <5>2
          <6> PICK k \in 1..l + 1 : i = c + 1 + k
            <7>1. i - c - 1 \in 1..l + 1 /\ i = c + 1 + (i - c - 1)
              BY <4>6, <6>1
            <7> QED
              BY <7>1
          <6>2. CASE k \in 1..l
            <7>1. i = beg[j] + 1 + k /\ k \in 1..Len(m)
              BY <2>01, <3>03, <6>2
            <7> QED
              BY <3>2, <7>1, PayloadBytes
          <6>3. CASE k = l + 1
            <7>1. i = c + l + 2
              BY <6>3
            <7> QED
              BY <2>01, <3>2, <3>03, <7>1, FramerAssumption
          <6> QED
            BY <6>2, <6>3
        <5> PICK o : o = off + r
          OBVIOUS
        <5>5. Done(all, beg, o, j + 1)'
          BY <5>1, <5>3, <5>4 DEF Done
        <5> QED
          BY <5>5
      <4> QED
        BY <2>2, <4>4, <4>7 DEF InPosition
    <3>9. CASE e = 0 /\ Len(Aligned) # MaxBufSize
      <4>1. received' = received /\ readpos' = 0 /\ buf' = Aligned
        BY <1>6, <3>9 DEF NoMsg
      <4>2. Remaining(all, beg[j])'
        <5> PICK d \in Nat : d = s - 1
          BY <3>1
        <5>1. d \in 0..Len(rest) /\ off + d = beg[j]
          <6>1. d \in 0..r /\ off + d = c
            BY <2>4, <3>1
          <6> QED
            BY <2>01, <2>02, <6>1
        <5>2. rest' = SubSeq(Aligned, 0 + 1, Len(Aligned)) /\ 0 \in 0..Len(Aligned)
          BY <1>2, <4>1 DEF rest
        <5>3. Len(rest') = Len(Aligned) - 0
              /\ \A i \in 1..Len(Aligned) - 0 : rest'[i] = Aligned[0 + i]
          BY <1>2, <5>2, RestBytes
        <5>4. Len(rest') = Len(Aligned) /\ \A i \in 1..Len(Aligned) : rest'[i] = Aligned[i]
          BY <1>2, <5>3
        <5>5. Len(rest') = Len(rest) - d /\ \A i \in 1..Len(rest) - d : rest'[i] = rest[d + i]
          BY <1>7, <2>7, <5>4
        <5>6. Remaining(all, off + d)'
          BY <1>6, <2>1, <5>1, <5>5, DoneWith
        <5> QED
          BY <5>1, <5>6
      <4>3. Done(all, beg, beg[j], j)'
        <5>1. j \in 0..Len(sent') /\ beg[j] <= beg[j] /\ received' = Fitting(SubSeq(sent', 1, j))
          BY <1>6, <2>4, <2>5, <4>1
        <5>2. \A i \in beg[j] + 1..beg[j] : all[i] # STX
          BY <2>4, <2>5
        <5> QED
          BY <5>1, <5>2 DEF Done
      <4> QED
        BY <2>2, <4>2, <4>3 DEF InPosition
    <3> QED
      BY <3>7, <3>8, <3>9
  <2> QED
    BY <2>6, <2>7
<1> QED
  BY <1>8, <1>9, <1>10

\* Every step keeps the order.
LEMMA NextOrder == OrderInv /\ [Next]_vars => OrderInv'
<1> SUFFICES ASSUME OrderInv, [Next]_vars
             PROVE  OrderInv'
  OBVIOUS
<1>1. IInv'
  BY NextIInv DEF OrderInv
<1>2. InPosition' /\ EachPrefix' /\ Waiting'
  <2>1. CASE UNCHANGED vars
    <3>1. UNCHANGED <<sent, stream, buf, readpos, received, pc>>
      BY <2>1 DEF vars
    <3> QED
      <4>1. InPosition'
        <5>1. rest' = rest
          BY <3>1 DEF rest
        <5>2. PICK all, beg, off, j :
                Written(all, beg) /\ Remaining(all, off) /\ Done(all, beg, off, j)
          BY DEF OrderInv, InPosition
        <5>3. Written(all, beg)' /\ Done(all, beg, off, j)'
          BY <3>1, <5>2 DEF Written, Done
        <5>4. Remaining(all, off)'
          BY <3>1, <5>1, <5>2 DEF Remaining
        <5> QED
          BY <5>3, <5>4 DEF InPosition
      <4>2. EachPrefix' /\ Waiting'
        BY <3>1 DEF OrderInv, EachPrefix, Waiting
      <4> QED
        BY <4>1, <4>2
  <2>2. CASE Next
    <3>1. CASE \E m \in Payloads : Send(m)
      BY <3>1, SendOrder
    <3>2. CASE \E n \in 1..Len(stream) : Recv(n)
      BY <3>2, RecvOrder
    <3>3. CASE getNextMsg
      BY <3>3, NextMsgOrder
    <3> QED
      BY <2>2, <3>1, <3>2, <3>3 DEF Next
  <2> QED
    BY <2>1, <2>2
<1> QED
  BY <1>1, <1>2 DEF OrderInv

\* Wherever recv() cuts the stream, and however a message that is too long is
\* given up: msgFramer_getNextMsg returns the messages that fit, whole, once
\* and in the order in which they were written.
THEOREM MessagesInOrder == Spec => []FramesInOrder
<1>1. OrderInv => FramesInOrder
  <2> SUFFICES ASSUME OrderInv
               PROVE  FramesInOrder
    OBVIOUS
  <2>1. PICK j \in 0..Len(sent) : received = Fitting(SubSeq(sent, 1, j))
    BY DEF OrderInv, InPosition, Done
  <2> QED
    BY <2>1 DEF OrderInv, EachPrefix, FramesInOrder
<1> QED
  BY InitOrder, NextOrder, <1>1, PTL DEF Spec

\* When every byte was read and the loop of the receiver is back in recv(), it
\* has returned every message that fits: none waits in the buffer for the next
\* one to push it out.
THEOREM NothingHeldBack == Spec => []NothingWithheld
<1>1. OrderInv => NothingWithheld
  <2> SUFFICES ASSUME OrderInv, pc = "recv", stream = <<>>
               PROVE  received = Fitting(sent)
    BY DEF NothingWithheld
  <2>1. PICK all, beg, off, j :
          Written(all, beg) /\ Remaining(all, off) /\ Done(all, beg, off, j)
    BY DEF OrderInv, InPosition
  <2>2. readpos = 0 /\ \A i \in 1..Len(buf) : buf[i] # ETX
    BY DEF OrderInv, Waiting
  <2>3. buf \in Seq(Bytes) /\ Len(buf) \in Nat /\ Len(stream) = 0
        /\ sent \in Seq(Payloads) /\ Len(sent) \in Nat
    BY DEF OrderInv, IInv, TypeOK
  <2>4. Len(rest) = Len(buf) /\ \A i \in 1..Len(rest) : rest[i] # ETX
    <3>1. rest = SubSeq(buf, 0 + 1, Len(buf)) /\ 0 \in 0..Len(buf)
      BY <2>2, <2>3 DEF rest
    <3>2. Len(rest) = Len(buf) - 0 /\ \A i \in 1..Len(buf) - 0 : rest[i] = buf[0 + i]
      BY <2>3, <3>1, RestBytes
    <3>3. Len(rest) = Len(buf) /\ \A i \in 1..Len(buf) : rest[i] = buf[i]
      BY <2>3, <3>2
    <3> QED
      BY <2>2, <3>3
  <2>5. /\ off \in 0..Len(all) /\ Len(all) = off + Len(rest) /\ Len(all) \in Nat
        /\ \A i \in 1..Len(rest) : rest[i] = all[off + i]
    <3>1. /\ off \in 0..Len(all) /\ Len(all) = off + Len(rest) + Len(stream) /\ Len(all) \in Nat
          /\ \A i \in 1..Len(rest) : rest[i] = all[off + i]
      BY <2>1 DEF Remaining, Written
    <3> QED
      BY <2>3, <2>4, <3>1
  <2>6. /\ j \in 0..Len(sent) /\ off <= beg[j] /\ beg[j] \in 0..Len(all)
        /\ received = Fitting(SubSeq(sent, 1, j))
    BY <2>1 DEF Done, Written
  <2>7. j = Len(sent)
    <3> SUFFICES ASSUME j # Len(sent)
                 PROVE  FALSE
      OBVIOUS
    <3> DEFINE l == Len(sent[j + 1])
               c == beg[j]
    <3>1. l \in Nat /\ c \in Nat /\ beg[j + 1] \in 0..Len(all) /\ beg[j + 1] = c + l + 2
          /\ all[c + l + 2] = ETX
      BY <2>1, <2>6, FrameAt
    <3>2. off <= c
      BY <2>6
    <3> HIDE DEF l, c
    <3> DEFINE i == c + l + 2 - off
    <3>3. i \in 1..Len(rest) /\ off + i = c + l + 2
      BY <2>3, <2>4, <2>5, <3>1, <3>2
    <3> HIDE DEF i
    <3> QED
      BY <2>4, <2>5, <3>1, <3>3
  <2> QED
    BY <2>3, <2>6, <2>7, FirstAndLast
<1> QED
  BY InitOrder, NextOrder, <1>1, PTL DEF Spec
=============================================================================
