------------------------ MODULE MessageManagerProofs ------------------------
(***************************************************************************)
(* TLAPS proofs about MessageManager, for any producers, sources, workers, *)
(* queue capacity and overflow limit: its types, that the count of a       *)
(* source covers its messages, and that an assignment is given back.       *)
(***************************************************************************)
EXTENDS MessageManager, FiniteSetTheorems, FunctionTheorems, SequenceTheorems, TLAPS

-----------------------------------------------------------------------------
(* Counting the entries of the workers' queues.                            *)

\* There are finitely many workers.
LEMMA WorkersFinite == IsFiniteSet(Workers) /\ IsFiniteSet(Runs)
<1>1. Len(Sizes) \in Nat /\ Len(Sizes) \in DOMAIN Sizes
  BY ManagerAssumption
<1>2. Sizes[Len(Sizes)] \in Nat
  BY <1>1, ManagerAssumption
<1> QED
  BY <1>1, <1>2, FS_Interval DEF Workers, Runs

\* So the entries of their queues can be counted.
LEMMA SlotsFinite ==
  ASSUME NEW Q, NEW e
  PROVE  IsFiniteSet(Slots(Q, e)) /\ Cardinality(Slots(Q, e)) \in Nat
<1>1. IsFiniteSet(1 .. Capacity)
  BY ManagerAssumption, FS_Interval
<1>2. IsFiniteSet(Workers \X (1 .. Capacity))
  BY <1>1, WorkersFinite, FS_Product
<1>3. Slots(Q, e) \in SUBSET (Workers \X (1 .. Capacity))
  BY DEF Slots
<1> QED
  BY <1>2, <1>3, FS_Subset, FS_CardinalityType

\* An entry appended to a queue is one more of its kind and none of others.
LEMMA SlotsAppend ==
  ASSUME NEW S, NEW Q \in [Workers -> Seq(S)], NEW w \in Workers, NEW x \in S, NEW e,
         Len(Q[w]) < Capacity,
         NEW R, R[w] = Append(Q[w], x), \A v \in Workers \ {w} : R[v] = Q[v]
  PROVE  Cardinality(Slots(R, e))
           = IF x = e THEN Cardinality(Slots(Q, e)) + 1 ELSE Cardinality(Slots(Q, e))
<1> DEFINE n == Len(Q[w]) + 1
<1>1. Q[w] \in Seq(S) /\ Len(Q[w]) \in Nat /\ n \in 1 .. Capacity
  BY ManagerAssumption
<1>2. /\ Len(R[w]) = n /\ R[w][n] = x
      /\ \A i \in 1 .. Len(Q[w]) : R[w][i] = Q[w][i]
  BY <1>1, AppendProperties
<1>3. <<w, n>> \notin Slots(Q, e)
  BY <1>1 DEF Slots
<1>4. Slots(R, e) = IF x = e THEN Slots(Q, e) \cup {<<w, n>>} ELSE Slots(Q, e)
  <2>1. ASSUME NEW v \in Workers, NEW i \in 1 .. Capacity
        PROVE  (i <= Len(R[v]) /\ R[v][i] = e)
                  <=> (i <= Len(Q[v]) /\ Q[v][i] = e) \/ (x = e /\ v = w /\ i = n)
    <3>1. CASE v # w
      BY <3>1
    <3>2. CASE v = w
      BY <3>2, <1>1, <1>2
    <3> QED
      BY <3>1, <3>2
  <2>2. ASSUME NEW s \in Workers \X (1 .. Capacity)
        PROVE  s \in Slots(R, e) <=> s \in Slots(Q, e) \/ (x = e /\ s = <<w, n>>)
    BY <2>1 DEF Slots
  <2>3. Slots(R, e) \subseteq Workers \X (1 .. Capacity)
        /\ Slots(Q, e) \subseteq Workers \X (1 .. Capacity)
        /\ <<w, n>> \in Workers \X (1 .. Capacity)
    BY <1>1 DEF Slots
  <2> QED
    BY <2>2, <2>3
<1>5. IsFiniteSet(Slots(Q, e))
  BY SlotsFinite
<1> QED
  BY <1>3, <1>4, <1>5, FS_AddElement

\* Between Q and R, the entry at the front of w's queue was taken.
Shifted(Q, R, w) ==
  /\ Len(Q[w]) \in 1 .. Capacity /\ Len(R[w]) = Len(Q[w]) - 1
  /\ \A i \in 1 .. Len(Q[w]) - 1 : R[w][i] = Q[w][i + 1]
  /\ \A v \in Workers \ {w} : R[v] = Q[v]

\* An entry taken from the front is one less of its kind.
LEMMA SlotsTail ==
  ASSUME NEW Q, NEW R, NEW w \in Workers, NEW e, Shifted(Q, R, w)
  PROVE  Cardinality(Slots(R, e))
           = IF Q[w][1] = e THEN Cardinality(Slots(Q, e)) - 1 ELSE Cardinality(Slots(Q, e))
<1> DEFINE A == Slots(Q, e) \ {<<w, 1>>}
           B == Slots(R, e)
           f == [s \in B |-> IF s[1] = w THEN <<w, s[2] + 1>> ELSE s]
<1>1. Len(Q[w]) \in Nat \ {0} /\ Len(Q[w]) \in 1 .. Capacity
  BY ManagerAssumption DEF Shifted
<1>2. /\ Len(R[w]) = Len(Q[w]) - 1
      /\ \A i \in 1 .. Len(Q[w]) - 1 : R[w][i] = Q[w][i + 1]
      /\ \A v \in Workers \ {w} : R[v] = Q[v]
  BY DEF Shifted
<1>3. Capacity \in Nat
  BY ManagerAssumption
<1>4. \A s \in B : s \in Workers \X (1 .. Capacity) /\ s = <<s[1], s[2]>>
                   /\ s[2] <= Len(R[s[1]]) /\ R[s[1]][s[2]] = e
  BY DEF Slots
<1>5. ASSUME NEW s \in B
      PROVE  f[s] \in A
  <2>1. CASE s[1] = w
    <3>1. s[2] \in 1 .. Len(Q[w]) - 1
      BY <2>1, <1>1, <1>2, <1>4
    <3>2. Q[w][s[2] + 1] = e /\ s[2] + 1 <= Len(Q[w]) /\ s[2] + 1 \in 1 .. Capacity
      BY <2>1, <3>1, <1>1, <1>2, <1>3, <1>4
    <3>3. <<w, s[2] + 1>> \in Slots(Q, e)
      BY <3>2 DEF Slots
    <3>4. <<w, s[2] + 1>> # <<w, 1>>
      BY <3>1
    <3> QED
      BY <2>1, <3>3, <3>4
  <2>2. CASE s[1] # w
    <3>1. s \in Slots(Q, e)
      BY <2>2, <1>2, <1>4 DEF Slots
    <3> QED
      BY <2>2, <3>1
  <2> QED
    BY <2>1, <2>2
<1>6. ASSUME NEW s \in B, NEW t \in B, f[s] = f[t]
      PROVE  s = t
  <2>1. s = <<s[1], s[2]>> /\ t = <<t[1], t[2]>> /\ s[2] \in Nat /\ t[2] \in Nat
    BY <1>4
  <2>2. CASE s[1] = w /\ t[1] = w
    BY <2>1, <2>2, <1>6
  <2>3. CASE s[1] # w \/ t[1] # w
    BY <2>1, <2>3, <1>6
  <2> QED
    BY <2>2, <2>3
<1>7. ASSUME NEW a \in A
      PROVE  \E s \in B : f[s] = a
  <2>1. a \in Workers \X (1 .. Capacity) /\ a = <<a[1], a[2]>>
        /\ a[2] <= Len(Q[a[1]]) /\ Q[a[1]][a[2]] = e /\ a # <<w, 1>>
    BY DEF Slots
  <2>2. CASE a[1] = w
    <3>1. a[2] - 1 \in 1 .. Len(Q[w]) - 1 /\ a[2] - 1 \in 1 .. Capacity
      BY <2>1, <2>2, <1>1, <1>3
    <3>2. R[w][a[2] - 1] = e
      BY <2>1, <2>2, <3>1, <1>1, <1>2
    <3>3. <<w, a[2] - 1>> \in B
      BY <3>1, <3>2, <1>2 DEF Slots
    <3>4. f[<<w, a[2] - 1>>] = a
      BY <2>1, <2>2, <3>1, <3>3
    <3> QED
      BY <3>3, <3>4
  <2>3. CASE a[1] # w
    <3>1. a \in B
      BY <2>1, <2>3, <1>2 DEF Slots
    <3>2. f[a] = a
      BY <2>3, <3>1
    <3> QED
      BY <3>1, <3>2
  <2> QED
    BY <2>2, <2>3
<1>8. Cardinality(A) = Cardinality(B)
  <2> HIDE DEF A, B
  <2>1. f \in [B -> A]
    BY <1>5
  <2> HIDE DEF f
  <2>2. f \in Bijection(B, A)
    BY <2>1, <1>6, <1>7 DEF Bijection, Injection, Surjection, IsInjective
  <2>3. ExistsBijection(B, A)
    BY <2>2 DEF ExistsBijection
  <2>4. IsFiniteSet(B)
    BY SlotsFinite DEF B
  <2> QED
    BY <2>3, <2>4, FS_Bijection
<1>9. <<w, 1>> \in Slots(Q, e) <=> Q[w][1] = e
  BY <1>1, <1>3, ManagerAssumption DEF Slots
<1> HIDE DEF B
<1> QED
  BY <1>8, <1>9, SlotsFinite, FS_RemoveElement DEF B

\* Queues that are emptied hold no more of any kind than before.
LEMMA SlotsClear ==
  ASSUME NEW Q, NEW w \in Workers, NEW e,
         NEW R, R[w] = <<>>, \A v \in Workers \ {w} : R[v] = Q[v]
  PROVE  Cardinality(Slots(R, e)) <= Cardinality(Slots(Q, e))
<1>1. \A s \in Slots(R, e) : s \in Slots(Q, e)
  BY EmptySeq DEF Slots
<1> QED
  BY <1>1, SlotsFinite, FS_Subset

-----------------------------------------------------------------------------
(* The types.                                                              *)

Entries == [key : Keys, msg : BOOLEAN]  \* what is queued for output
Pcs == {"idle", "read", "choose", "bump", "reset", "write", "push", "fill", "store", "count"}

\* The output thread's loop over the group starts with the first worker.
OutTypes(o) ==
  /\ o \in [pc : {"none", "check", "park", "wait", "loop", "clear"}, i : Nat, key : Keys]
  /\ o.pc \in {"loop", "clear"} => o.i >= 1

\* The slots of a worker's ring, and the pushes that are under way.
RingTypes ==
  /\ old \in [Workers -> Seq(Keys \cup {NoThread})]
  /\ \A w \in Workers : Len(inQ[w]) + Len(old[w]) = Capacity + 1
  /\ loaded \in [Producers -> [to : Workers \cup {NoThread}, at : 0 .. Capacity]]
  /\ \A p \in Producers : prod[p].pc \in {"fill", "store", "count"} => loaded[p].to \in Workers
  /\ inSize \in [Workers -> Int] /\ overlap \in BOOLEAN

\* The types of the variables, functions over all workers and sources, and
\* what a producer has in its hands when it is past the choice of a thread.
\* Every process but those of a second start has a worker of its own.
Types ==
  /\ configured \in 0 .. Len(Sizes) /\ group \in Seq(Workers)
  /\ starts \in [Workers -> Nat] /\ \A w \in Workers : starts[w] <= configured
  /\ inQ \in [Workers -> Seq(Keys)] /\ \A w \in Workers : Len(inQ[w]) <= Capacity
  /\ outQ \in [Workers -> Seq(Entries)]
  /\ \A w \in Workers : Len(outQ[w]) <= Capacity
  /\ work \in [Workers -> [Runs -> Keys \cup {NoThread}]]
  /\ count \in [Keys -> Int] /\ threadId \in [Keys -> {NoThread} \cup Nat]
  /\ prod \in [Producers -> [pc : Pcs, key : Keys, tId : {NoThread} \cup Nat]]
  /\ \A p \in Producers : prod[p].pc \in {"bump", "reset", "write", "push"} => prod[p].tId \in Nat
  /\ strategy \in Strategies /\ next \in Nat
  /\ sent \in Nat /\ outputs \in Nat /\ sent + outputs <= MaxMessages
  /\ lost \in SUBSET Keys
  /\ OutTypes(out) /\ stop \in {"no", "workers", "join", "done"}
  /\ RingTypes

\* Nothing was started, handed in or assigned.
LEMMA InitTypes == ManagerInit => Types
<1> SUFFICES ASSUME ManagerInit PROVE Types
  OBVIOUS
<1> USE ManagerAssumption DEF ManagerInit
<1>1. configured \in 0 .. Len(Sizes) /\ group \in Seq(Workers)
  OBVIOUS
<1>2. starts \in [Workers -> Nat] /\ \A w \in Workers : starts[w] <= configured
  OBVIOUS
<1>3. inQ \in [Workers -> Seq(Keys)] /\ \A w \in Workers : Len(inQ[w]) <= Capacity
  OBVIOUS
<1>4. outQ \in [Workers -> Seq(Entries)]
      /\ \A w \in Workers : Len(outQ[w]) <= Capacity
  OBVIOUS
<1>5. work \in [Workers -> [Runs -> Keys \cup {NoThread}]]
  BY DEF NoWork
<1>6. count \in [Keys -> Int] /\ threadId \in [Keys -> {NoThread} \cup Nat]
  OBVIOUS
<1>7. prod \in [Producers -> [pc : Pcs, key : Keys, tId : {NoThread} \cup Nat]]
      /\ \A p \in Producers : prod[p].pc = "idle"
  BY DEF Idle, Pcs
<1>8. /\ strategy \in Strategies /\ next \in Nat
      /\ sent \in Nat /\ outputs \in Nat /\ sent + outputs <= MaxMessages
      /\ lost \in SUBSET Keys /\ stop \in {"no", "workers", "join", "done"}
  OBVIOUS
<1>9. OutTypes(out)
  BY DEF OutTypes
<1>10. RingTypes
  <2>1. /\ NeverUsed \in Seq(Keys \cup {NoThread}) /\ Len(NeverUsed) = Capacity + 1
        /\ Len(<<>>) = 0 /\ Capacity \in Nat
    BY DEF NeverUsed
  <2>2. NoPush \in [to : Workers \cup {NoThread}, at : 0 .. Capacity]
    BY DEF NoPush
  <2>3. inQ = [w \in Workers |-> <<>>] /\ old = [w \in Workers |-> NeverUsed]
        /\ inSize = [w \in Workers |-> 0] /\ loaded = [p \in Producers |-> NoPush] /\ overlap = FALSE
    OBVIOUS
  <2> HIDE DEF ManagerInit
  <2>4. \A w \in Workers : Len(inQ[w]) + Len(old[w]) = Capacity + 1
    BY <2>1, <2>3
  <2>5. old \in [Workers -> Seq(Keys \cup {NoThread})] /\ inSize \in [Workers -> Int]
    BY <2>1, <2>3
  <2>6. loaded \in [Producers -> [to : Workers \cup {NoThread}, at : 0 .. Capacity]]
    BY <2>2, <2>3
  <2> QED
    BY <1>7, <2>3, <2>4, <2>5, <2>6 DEF RingTypes
<1> QED
  BY <1>1, <1>2, <1>3, <1>4, <1>5, <1>6, <1>7, <1>8, <1>9, <1>10 DEF Types

\* What a step leaves of the rings and the pushes keeps its types.
LEMMA RingsKept ==
  ASSUME Types, UNCHANGED <<inQ, old, loaded, inSize, overlap>>,
         \A p \in Producers : prod'[p] = prod[p] \/ prod'[p].pc \notin {"fill", "store", "count"}
  PROVE  RingTypes'
BY DEF Types, RingTypes

\* A ring has a source in each slot that was used.
LEMMA RingSlots ==
  ASSUME Types, NEW w \in Workers
  PROVE  /\ Ring(w) \in [1 .. Capacity + 1 -> Keys \cup {NoThread}]
         /\ Len(inQ[w]) \in 0 .. Capacity /\ Len(old[w]) = Capacity + 1 - Len(inQ[w])
         /\ \A i \in 1 .. Len(inQ[w]) : Ring(w)[i] = inQ[w][i] /\ inQ[w][i] \in Keys
         /\ Ring(w)[Len(inQ[w]) + 1] = old[w][1]
         /\ \A i \in 1 .. Len(old[w]) : Ring(w)[Len(inQ[w]) + i] = old[w][i]
<1>1. inQ[w] \in Seq(Keys) /\ Len(inQ[w]) <= Capacity
  BY DEF Types
<1>2. old[w] \in Seq(Keys \cup {NoThread}) /\ Len(inQ[w]) + Len(old[w]) = Capacity + 1
  BY DEF Types, RingTypes
<1>3. Capacity \in Nat /\ Len(inQ[w]) \in Nat /\ Len(old[w]) \in Nat
  BY <1>1, <1>2, ManagerAssumption
<1>4. Len(inQ[w]) \in 0 .. Capacity /\ Len(old[w]) = Capacity + 1 - Len(inQ[w])
  <2> DEFINE a == Len(inQ[w])
             b == Len(old[w])
  <2>1. a \in Nat /\ b \in Nat /\ a <= Capacity /\ a + b = Capacity + 1 /\ Capacity \in Nat
    BY <1>1, <1>2, <1>3
  <2> HIDE DEF a, b
  <2>2. a \in 0 .. Capacity /\ b = Capacity + 1 - a
    BY <2>1
  <2> QED
    BY <2>2 DEF a, b
<1>5. ASSUME NEW i \in 1 .. Len(inQ[w])
      PROVE  Ring(w)[i] = inQ[w][i] /\ inQ[w][i] \in Keys
  <2>1. i \in 1 .. Capacity + 1 /\ i <= Len(inQ[w])
    BY <1>3, <1>4
  <2>2. Ring(w)[i] = inQ[w][i]
    BY <2>1 DEF Ring
  <2> QED
    BY <1>1, <2>2
<1>6. ASSUME NEW i \in 1 .. Len(old[w])
      PROVE  Ring(w)[Len(inQ[w]) + i] = old[w][i] /\ old[w][i] \in Keys \cup {NoThread}
  <2> DEFINE j == Len(inQ[w]) + i
  <2>1. j \in 1 .. Capacity + 1 /\ ~(j <= Len(inQ[w])) /\ j - Len(inQ[w]) = i
    BY <1>3, <1>4
  <2> HIDE DEF j
  <2>2. Ring(w)[j] = old[w][i]
    BY <2>1 DEF Ring
  <2> QED
    BY <1>2, <2>2 DEF j
<1>7. Ring(w)[Len(inQ[w]) + 1] = old[w][1]
  <2>1. 1 \in 1 .. Len(old[w])
    BY <1>3, <1>4
  <2> QED
    BY <1>6, <2>1
<1>8. ASSUME NEW i \in 1 .. Capacity + 1
      PROVE  Ring(w)[i] \in Keys \cup {NoThread}
  <2>1. CASE i \in 1 .. Len(inQ[w])
    BY <1>5, <2>1
  <2>2. CASE i \notin 1 .. Len(inQ[w])
    <3>1. i - Len(inQ[w]) \in 1 .. Len(old[w]) /\ Len(inQ[w]) + (i - Len(inQ[w])) = i
      BY <1>3, <1>4, <2>2
    <3> QED
      BY <1>6, <3>1
  <2> QED
    BY <2>1, <2>2
<1>9. Ring(w) = [i \in 1 .. Capacity + 1 |-> Ring(w)[i]]
  BY DEF Ring
<1> QED
  BY <1>4, <1>5, <1>6, <1>7, <1>8, <1>9

\* A ring that is set to other contents, with n slots before the next write.
LEMMA RingSet ==
  ASSUME Types, NEW w \in Workers, NEW r \in [1 .. Capacity + 1 -> Keys \cup {NoThread}],
         NEW n \in 0 .. Capacity, SetRing(w, r, n)
  PROVE  /\ inQ' \in [Workers -> Seq(Keys)] /\ \A v \in Workers : Len(inQ'[v]) <= Capacity
         /\ old' \in [Workers -> Seq(Keys \cup {NoThread})]
         /\ \A v \in Workers : Len(inQ'[v]) + Len(old'[v]) = Capacity + 1
         /\ \A v \in Workers \ {w} : inQ'[v] = inQ[v] /\ old'[v] = old[v]
         /\ Len(inQ'[w]) = n /\ \A i \in 1 .. n : r[i] # NoThread => inQ'[w][i] = r[i]
         /\ \A i \in 1 .. Capacity + 1 - n : old'[w][i] = r[n + i]
<1>1. PICK g \in Keys :
        inQ' = [inQ EXCEPT ![w] = [i \in 1 .. n |-> IF r[i] = NoThread THEN g ELSE r[i]]]
  BY DEF SetRing
<1> DEFINE a == [i \in 1 .. n |-> IF r[i] = NoThread THEN g ELSE r[i]]
           b == [i \in 1 .. Capacity + 1 - n |-> r[n + i]]
<1>2. old' = [old EXCEPT ![w] = b]
  BY DEF SetRing
<1>3. Capacity \in Nat /\ n \in Nat /\ n <= Capacity /\ Capacity + 1 - n \in Nat
  BY ManagerAssumption
<1>4. a \in Seq(Keys) /\ Len(a) = n
  <2>1. ASSUME NEW i \in 1 .. n
        PROVE  (IF r[i] = NoThread THEN g ELSE r[i]) \in Keys
    <3>1. i \in 1 .. Capacity + 1
      BY <1>3
    <3> QED
      BY <3>1
  <2>2. a \in [1 .. n -> Keys]
    BY <2>1
  <2> QED
    BY <1>3, <2>2
<1>5. b \in Seq(Keys \cup {NoThread}) /\ Len(b) = Capacity + 1 - n
  <2>1. ASSUME NEW i \in 1 .. Capacity + 1 - n
        PROVE  r[n + i] \in Keys \cup {NoThread}
    <3>1. n + i \in 1 .. Capacity + 1
      BY <1>3
    <3> QED
      BY <3>1
  <2>2. b \in [1 .. Capacity + 1 - n -> Keys \cup {NoThread}]
    BY <2>1
  <2> QED
    BY <1>3, <2>2
<1>6. \A i \in 1 .. n : r[i] # NoThread => a[i] = r[i]
  OBVIOUS
<1>7. \A i \in 1 .. Capacity + 1 - n : b[i] = r[n + i]
  OBVIOUS
<1>8. inQ' = [inQ EXCEPT ![w] = a]
  BY <1>1
<1> HIDE DEF a, b
<1>9. inQ \in [Workers -> Seq(Keys)] /\ \A v \in Workers : Len(inQ[v]) <= Capacity
  BY DEF Types
<1>10. /\ old \in [Workers -> Seq(Keys \cup {NoThread})]
       /\ \A v \in Workers : Len(inQ[v]) + Len(old[v]) = Capacity + 1
  BY DEF Types, RingTypes
<1>11. /\ inQ'[w] = a /\ old'[w] = b
       /\ \A v \in Workers \ {w} : inQ'[v] = inQ[v] /\ old'[v] = old[v]
  BY <1>2, <1>8, <1>9, <1>10
<1>12. n + (Capacity + 1 - n) = Capacity + 1
  BY <1>3
<1> QED
  BY <1>2, <1>3, <1>4, <1>5, <1>6, <1>7, <1>8, <1>9, <1>10, <1>11, <1>12

\* A queue without its first entry is a queue.
LEMMA TailFits ==
  ASSUME NEW S, NEW q \in Seq(S), q # <<>>
  PROVE  Tail(q) \in Seq(S) /\ Len(Tail(q)) = Len(q) - 1 /\ Head(q) \in S
BY HeadTailProperties, EmptySeq

\* The entries of such a queue move up by one.
LEMMA QueueShifts ==
  ASSUME NEW S, NEW q \in Seq(S), q # <<>>, Len(q) <= Capacity
  PROVE  /\ Len(q) \in 1 .. Capacity /\ Head(q) = q[1]
         /\ Len(Tail(q)) = Len(q) - 1
         /\ \A i \in 1 .. Len(q) - 1 : Tail(q)[i] = q[i + 1]
<1>1. Len(q) \in Nat \ {0} /\ Capacity \in Nat
  BY EmptySeq, ManagerAssumption
<1> QED
  BY <1>1, HeadTailProperties

\* A queue that is replaced by one that fits.
LEMMA QueuesExcept ==
  ASSUME NEW S, NEW Q \in [Workers -> Seq(S)], \A v \in Workers : Len(Q[v]) <= Capacity,
         NEW w, NEW q \in Seq(S), Len(q) <= Capacity
  PROVE  /\ [Q EXCEPT ![w] = q] \in [Workers -> Seq(S)]
         /\ \A v \in Workers : Len([Q EXCEPT ![w] = q][v]) <= Capacity
OBVIOUS

\* No queue is too long when it is empty.
LEMMA EmptyFits == Capacity \in Nat /\ \A S : <<>> \in Seq(S) /\ Len(<<>>) <= Capacity
BY ManagerAssumption

\* What the group holds are workers.
LEMMA GroupWorkers ==
  ASSUME Types
  PROVE  /\ size \in Nat
         /\ \A i \in 1 .. size : group[i] \in Workers
         /\ ToSet(group) \subseteq Workers
BY DEF Types, size, ToSet

\* Started workers are workers, and the group grows by workers.
LEMMA StartTypes ==
  ASSUME Types, Start
  PROVE  Types'
<1> DEFINE n == Sizes[configured + 1]
           more == [i \in 1 .. n - size |-> size + i]
<1>0. UNCHANGED <<count, threadId, strategy, next, prod, sent, inQ, outQ, lost, work, outputs, stop>>
  BY DEF Start, producerVars, queueVars
<1>1. size \in Nat /\ configured \in 0 .. Len(Sizes) /\ configured + 1 \in 1 .. Len(Sizes)
  <2>1. Len(Sizes) \in Nat
    BY ManagerAssumption
  <2>2. size \in Nat /\ configured \in 0 .. Len(Sizes) /\ configured < Len(Sizes)
    BY GroupWorkers DEF Types, Start
  <2> QED
    BY <2>1, <2>2
<1>2. n \in Nat /\ n > size
  BY <1>1, ManagerAssumption DEF Start
<1>3. \A i \in 1 .. n : i \in Workers
  <2>1. DOMAIN Sizes = 1 .. Len(Sizes) /\ Len(Sizes) \in DOMAIN Sizes
    BY ManagerAssumption
  <2>2. n <= Sizes[Len(Sizes)] /\ Sizes[Len(Sizes)] \in Nat
    BY <1>1, <2>1, ManagerAssumption
  <2> QED
    BY <1>2, <2>2 DEF Workers
<1>4. more \in Seq(Workers)
  <2>1. more \in [1 .. n - size -> Workers] /\ n - size \in Nat
    BY <1>1, <1>2, <1>3
  <2> QED
    BY <2>1
<1>5. group' \in Seq(Workers)
  BY <1>4, ConcatProperties DEF Start, Types
<1>6. starts' \in [Workers -> Nat] /\ \A w \in Workers : starts'[w] <= configured'
  BY <1>1 DEF Start, Types
<1>7. OutTypes(out')
  BY DEF Start, Types, OutTypes
<1>8. configured' \in 0 .. Len(Sizes)
  BY <1>1 DEF Start
<1>9. RingTypes'
  BY RingsKept DEF Start, producerVars, queueVars, ringVars
<1> QED
  BY <1>0, <1>5, <1>6, <1>7, <1>8, <1>9 DEF Types

\* The types of the producers.
ProdTypes(f) ==
  /\ f \in [Producers -> [pc : Pcs, key : Keys, tId : {NoThread} \cup Nat]]
  /\ \A q \in Producers : f[q].pc \in {"bump", "reset", "write", "push"} => f[q].tId \in Nat

\* A producer that goes on, with the thread it has or another.
LEMMA ProdGoesOn ==
  ASSUME Types, NEW p \in Producers, NEW c \in Pcs, NEW t \in {NoThread} \cup Nat,
         c \in {"bump", "reset", "write", "push"} => t \in Nat
  PROVE  /\ ProdTypes([prod EXCEPT ![p].pc = c, ![p].tId = t])
         /\ prod[p].tId = t => ProdTypes([prod EXCEPT ![p].pc = c])
<1> DEFINE e == [pc |-> c, key |-> prod[p].key, tId |-> t]
<1>1. prod[p] \in [pc : Pcs, key : Keys, tId : {NoThread} \cup Nat]
  BY DEF Types
<1>2. e \in [pc : Pcs, key : Keys, tId : {NoThread} \cup Nat]
  BY <1>1
<1>3. ProdTypes([prod EXCEPT ![p] = e])
  BY <1>2 DEF Types, ProdTypes
<1>4. [prod EXCEPT ![p].pc = c, ![p].tId = t] = [prod EXCEPT ![p] = e]
  <2> DEFINE x == [prod[p] EXCEPT !.pc = c, !.tId = t]
  <2>1. x \in [pc : {c}, key : {prod[p].key}, tId : {t}]
    BY <1>1
  <2> HIDE DEF x
  <2>2. x = e
    <3>1. x = [pc |-> x.pc, key |-> x.key, tId |-> x.tId]
      BY <2>1
    <3>2. x.pc = c /\ x.key = prod[p].key /\ x.tId = t
      BY <2>1
    <3> QED
      BY <3>1, <3>2
  <2>3. prod \in [Producers -> [pc : Pcs, key : Keys, tId : {NoThread} \cup Nat]]
    BY DEF Types
  <2> HIDE DEF e
  <2> QED
    BY <2>2, <2>3 DEF x
<1>5. ASSUME prod[p].tId = t
      PROVE  [prod EXCEPT ![p].pc = c] = [prod EXCEPT ![p] = e]
  <2>1. prod[p] = [pc |-> prod[p].pc, key |-> prod[p].key, tId |-> t]
    BY <1>1, <1>5
  <2>2. [prod[p] EXCEPT !.pc = c] = e
    BY <2>1
  <2>3. prod \in [Producers -> [pc : Pcs, key : Keys, tId : {NoThread} \cup Nat]]
    BY DEF Types
  <2> HIDE DEF e
  <2> QED
    BY <2>2, <2>3
<1> QED
  BY <1>3, <1>4, <1>5

\* A push that gives up loses its message.
LEMMA GivesUpTypes ==
  ASSUME Types, NEW p \in Producers, GivesUp(p),
         UNCHANGED <<configured, group, strategy, starts, work, outputs, out, stop, outQ, count,
                     threadId, next, sent>>
  PROVE  Types'
<1>1. prod[p].key \in Keys
  BY DEF Types
<1>2. ProdTypes(prod')
  BY ManagerAssumption DEF GivesUp, Types, ProdTypes, Pcs, Idle
<1>3. RingTypes'
  <2>1. NoPush \in [to : Workers \cup {NoThread}, at : 0 .. Capacity]
    BY ManagerAssumption DEF NoPush
  <2>2. loaded' \in [Producers -> [to : Workers \cup {NoThread}, at : 0 .. Capacity]]
    BY <2>1 DEF GivesUp, Types, RingTypes
  <2>3. \A q \in Producers : prod'[q].pc \in {"fill", "store", "count"} => loaded'[q].to \in Workers
    BY DEF GivesUp, Types, RingTypes, Idle
  <2> QED
    BY <2>2, <2>3 DEF GivesUp, Types, RingTypes
<1> QED
  BY <1>1, <1>2, <1>3 DEF GivesUp, Types, ProdTypes

\* So does one that goes on: it leaves rings.
LEMMA PushTypes ==
  ASSUME Types, NEW p \in Producers, AssignPush(p)
  PROVE  Types'
<1>1. UNCHANGED <<configured, group, strategy, starts, work, outputs, out, stop, outQ, count,
                  threadId, next, sent>>
  BY DEF AssignPush, AssignLoad, AssignFill, AssignStore, AssignCount, UnchangedByAssign, workerVars
<1>2. CASE GivesUp(p)
  BY <1>1, <1>2, GivesUpTypes
<1>3. /\ loaded \in [Producers -> [to : Workers \cup {NoThread}, at : 0 .. Capacity]]
      /\ prod \in [Producers -> [pc : Pcs, key : Keys, tId : {NoThread} \cup Nat]]
      /\ \A q \in Producers : prod[q].pc \in {"fill", "store", "count"} => loaded[q].to \in Workers
  BY DEF Types, RingTypes
<1> DEFINE w == loaded[p].to
<1>4. CASE AssignLoad(p) /\ ~GivesUp(p)
  <2> DEFINE v == group[prod[p].tId + 1]
  <2>1. /\ loaded' = [loaded EXCEPT ![p] = [to |-> v, at |-> Len(inQ[v])]]
        /\ overlap' \in BOOLEAN /\ prod' = [prod EXCEPT ![p].pc = "fill"]
        /\ UNCHANGED <<inQ, old, inSize, lost>> /\ prod[p].tId < size
    BY <1>4 DEF AssignLoad, Goto, Types, RingTypes
  <2>2. prod[p].tId \in Nat
    BY <1>4 DEF AssignLoad, At, Types
  <2>3. v \in Workers
    BY <2>1, <2>2, GroupWorkers
  <2> HIDE DEF v
  <2>4. Len(inQ[v]) \in 0 .. Capacity
    BY <2>3, RingSlots
  <2>5. ProdTypes(prod')
    BY <2>1, ProdGoesOn, <1>3 DEF Pcs
  <2>6. loaded' \in [Producers -> [to : Workers \cup {NoThread}, at : 0 .. Capacity]]
    BY <1>3, <2>1, <2>3, <2>4
  <2>7. \A q \in Producers : prod'[q].pc \in {"fill", "store", "count"} => loaded'[q].to \in Workers
    BY <1>3, <2>1, <2>3
  <2>8. RingTypes'
    BY <2>1, <2>6, <2>7 DEF Types, RingTypes
  <2> QED
    BY <1>1, <2>1, <2>5, <2>8 DEF Types, ProdTypes
<1>5. CASE AssignFill(p) /\ ~GivesUp(p)
  <2> DEFINE r == [Ring(w) EXCEPT ![loaded[p].at + 1] = prod[p].key]
  <2>1. /\ SetRing(w, r, Len(inQ[w])) /\ prod' = [prod EXCEPT ![p].pc = "store"]
        /\ UNCHANGED <<inSize, loaded, overlap, lost>> /\ prod[p].pc = "fill"
    BY <1>5 DEF AssignFill, Goto, At
  <2>2. w \in Workers /\ prod[p].key \in Keys
    BY <1>3, <2>1
  <2>3. r \in [1 .. Capacity + 1 -> Keys \cup {NoThread}] /\ Len(inQ[w]) \in 0 .. Capacity
    BY <2>2, RingSlots
  <2> HIDE DEF r, w
  <2>4. /\ inQ' \in [Workers -> Seq(Keys)] /\ \A v \in Workers : Len(inQ'[v]) <= Capacity
        /\ old' \in [Workers -> Seq(Keys \cup {NoThread})]
        /\ \A v \in Workers : Len(inQ'[v]) + Len(old'[v]) = Capacity + 1
    BY <2>1, <2>2, <2>3, RingSet
  <2>5. ProdTypes(prod')
    BY <2>1, ProdGoesOn, <1>3 DEF Pcs
  <2>6. RingTypes'
    BY <1>3, <2>1, <2>2, <2>4 DEF Types, RingTypes, w
  <2> QED
    BY <1>1, <2>1, <2>4, <2>5, <2>6 DEF Types, ProdTypes
<1>6. CASE AssignStore(p) /\ ~GivesUp(p)
  <2> DEFINE n == (loaded[p].at + 1) % (Capacity + 1)
  <2>1. /\ SetRing(w, Ring(w), n) /\ prod' = [prod EXCEPT ![p].pc = "count"]
        /\ UNCHANGED <<inSize, loaded, overlap, lost>> /\ prod[p].pc = "store"
    BY <1>6 DEF AssignStore, Goto, At
  <2>2. w \in Workers /\ loaded[p].at \in 0 .. Capacity
    BY <1>3, <2>1
  <2>3. Ring(w) \in [1 .. Capacity + 1 -> Keys \cup {NoThread}] /\ n \in 0 .. Capacity
    <3>1. \A a \in 0 .. Capacity : (a + 1) % (Capacity + 1) \in 0 .. Capacity
      BY ManagerAssumption
    <3> QED
      BY <2>2, <3>1, RingSlots
  <2> HIDE DEF n, w
  <2>4. /\ inQ' \in [Workers -> Seq(Keys)] /\ \A v \in Workers : Len(inQ'[v]) <= Capacity
        /\ old' \in [Workers -> Seq(Keys \cup {NoThread})]
        /\ \A v \in Workers : Len(inQ'[v]) + Len(old'[v]) = Capacity + 1
    BY <2>1, <2>2, <2>3, RingSet
  <2>5. ProdTypes(prod')
    BY <2>1, ProdGoesOn, <1>3 DEF Pcs
  <2>6. RingTypes'
    BY <1>3, <2>1, <2>2, <2>4 DEF Types, RingTypes, w
  <2> QED
    BY <1>1, <2>1, <2>4, <2>5, <2>6 DEF Types, ProdTypes
<1>7. CASE AssignCount(p)
  <2>1. NoPush \in [to : Workers \cup {NoThread}, at : 0 .. Capacity]
    BY ManagerAssumption DEF NoPush
  <2>2. ProdTypes(prod')
    BY <1>7, ManagerAssumption DEF AssignCount, Types, ProdTypes, Pcs, Idle
  <2>3. \A q \in Producers : prod'[q].pc \in {"fill", "store", "count"} => loaded'[q].to \in Workers
    BY <1>3, <1>7 DEF AssignCount, Idle
  <2>4. inSize' \in [Workers -> Int] /\ UNCHANGED <<inQ, old, overlap, lost>>
    <3>1. inSize' = [inSize EXCEPT ![w] = @ + 1] /\ UNCHANGED <<inQ, old, overlap, lost>>
      BY <1>7 DEF AssignCount
    <3>2. inSize \in [Workers -> Int] /\ w \in Workers
      BY <1>3, <1>7 DEF Types, RingTypes, AssignCount, At
    <3> HIDE DEF w
    <3>3. inSize[w] + 1 \in Int
      BY <3>2
    <3> QED
      BY <3>1, <3>2, <3>3
  <2>5. loaded' \in [Producers -> [to : Workers \cup {NoThread}, at : 0 .. Capacity]]
    BY <1>3, <1>7, <2>1 DEF AssignCount
  <2>6. RingTypes'
    BY <2>3, <2>4, <2>5 DEF Types, RingTypes
  <2> QED
    BY <1>1, <2>2, <2>4, <2>6 DEF Types, ProdTypes
<1> QED
  BY <1>2, <1>4, <1>5, <1>6, <1>7 DEF AssignPush

\* What an assignment does not touch keeps its types.
LEMMA AssignTypes ==
  ASSUME Types, NEW p \in Producers, Assign(p)
  PROVE  Types'
<1>1. UNCHANGED <<configured, group, strategy, starts, work, outputs, out, stop>>
  BY DEF Assign, AssignGoesOn, AssignBegin, AssignRead, AssignChoose, AssignBump, AssignReset,
         AssignWrite, AssignPush, AssignLoad, AssignFill, AssignStore, AssignCount,
         UnchangedByAssign, workerVars, queueVars
<1> DEFINE Rest == /\ count' \in [Keys -> Int] /\ threadId' \in [Keys -> {NoThread} \cup Nat]
                   /\ next' \in Nat /\ sent' \in Nat /\ sent' + outputs <= MaxMessages
           QueueOK == /\ inQ' \in [Workers -> Seq(Keys)]
                      /\ \A w \in Workers : Len(inQ'[w]) <= Capacity
                      /\ lost' \in SUBSET Keys
<1>9. ASSUME \/ AssignBegin(p) \/ AssignRead(p) \/ AssignChoose(p) \/ AssignBump(p)
             \/ AssignReset(p) \/ AssignWrite(p)
      PROVE  RingTypes' /\ UNCHANGED outQ
  <2>3. UNCHANGED outQ
    BY <1>9 DEF AssignBegin, AssignRead, AssignChoose, AssignBump, AssignReset, AssignWrite, queueVars
  <2>1. UNCHANGED <<inQ, old, loaded, inSize, overlap>>
    BY <1>9 DEF Assign, AssignGoesOn, AssignBegin, AssignRead, AssignChoose, AssignBump, AssignReset,
                AssignWrite, queueVars, ringVars
  <2>2. \A q \in Producers : prod'[q] = prod[q] \/ prod'[q].pc \notin {"fill", "store", "count"}
    BY <1>9 DEF Assign, AssignGoesOn, AssignBegin, AssignRead, AssignChoose, AssignBump, AssignReset,
                AssignWrite, Goto, Types
  <2> QED
    BY <2>1, <2>2, <2>3, RingsKept
<1>2. prod[p] \in [pc : Pcs, key : Keys, tId : {NoThread} \cup Nat]
  BY DEF Types, ProdTypes
<1>3. CASE AssignBegin(p)
  <2>1. PICK k \in Keys :
          /\ count' = [count EXCEPT ![k] = @ + 1]
          /\ prod' = [prod EXCEPT ![p] = [pc |-> "read", key |-> k, tId |-> NoThread]]
    BY <1>3 DEF AssignBegin, CountIn
  <2>2. Rest
    BY <1>3, <2>1, ManagerAssumption DEF AssignBegin, Types
  <2>3. ProdTypes(prod')
    BY <2>1 DEF Types, ProdTypes, Pcs
  <2>4. QueueOK
    BY <1>3 DEF AssignBegin, queueVars, Types
  <2> QED
    BY <1>1, <1>3, <1>9, <2>2, <2>3, <2>4 DEF Types, ProdTypes
<1>4. CASE AssignRead(p)
  <2>1. Rest /\ QueueOK
    BY <1>4 DEF AssignRead, queueVars, Types
  <2>2. threadId[prod[p].key] \in {NoThread} \cup Nat
    BY <1>2 DEF Types
  <2>3. ProdTypes(prod')
    <3>1. CASE prod' = [prod EXCEPT ![p].pc = "choose"]
      <4>1. "choose" \in Pcs /\ prod[p].tId \in {NoThread} \cup Nat
        BY <1>2 DEF Pcs
      <4> QED
        BY <3>1, <4>1, ProdGoesOn
    <3>2. CASE /\ threadId[prod[p].key] # NoThread
               /\ prod' = [prod EXCEPT ![p].pc = "push", ![p].tId = threadId[prod[p].key]]
      <4>1. "push" \in Pcs /\ threadId[prod[p].key] \in Nat
        BY <2>2, <3>2 DEF Pcs
      <4> QED
        BY <3>2, <4>1, ProdGoesOn
    <3> QED
      BY <1>4, <3>1, <3>2 DEF AssignRead, Goto
  <2> QED
    BY <1>1, <1>4, <1>9, <2>1, <2>3 DEF Types, ProdTypes
<1>5. CASE AssignChoose(p)
  <2>1. Rest /\ QueueOK
    BY <1>5 DEF AssignChoose, queueVars, Types
  <2>2. AnyThread \subseteq Nat
    BY DEF AnyThread
  <2>3. ProdTypes(prod')
    <3>1. next \in Nat
      BY DEF Types
    <3> QED
      <4>1. CASE prod' = [prod EXCEPT ![p].pc = "bump", ![p].tId = next]
        <5>1. "bump" \in Pcs
          BY DEF Pcs
        <5> QED
          BY <3>1, <4>1, <5>1, ProdGoesOn
      <4>2. ASSUME NEW t \in AnyThread, prod' = [prod EXCEPT ![p].pc = "write", ![p].tId = t]
            PROVE  ProdTypes(prod')
        <5>1. "write" \in Pcs /\ t \in Nat
          BY <2>2 DEF Pcs
        <5> QED
          BY <4>2, <5>1, ProdGoesOn
      <4> QED
        BY <1>5, <4>1, <4>2 DEF AssignChoose
  <2> QED
    BY <1>1, <1>5, <1>9, <2>1, <2>3 DEF Types, ProdTypes
<1>6. CASE AssignBump(p) \/ AssignReset(p)
  <2>1. Rest /\ QueueOK
    BY <1>6 DEF AssignBump, AssignReset, queueVars, Types
  <2>2. ProdTypes(prod')
    <3>1. prod[p].tId \in Nat
      BY <1>6 DEF AssignBump, AssignReset, At, Types
    <3> QED
      BY <1>6, <3>1, ProdGoesOn DEF AssignBump, AssignReset, Goto, Pcs
  <2> QED
    BY <1>1, <1>6, <1>9, <2>1, <2>2 DEF Types, ProdTypes
<1>7. CASE AssignWrite(p)
  <2>1. Rest /\ QueueOK
    BY <1>2, <1>7 DEF AssignWrite, queueVars, Types
  <2>2. ProdTypes(prod')
    <3>1. prod[p].tId \in Nat
      BY <1>7 DEF AssignWrite, At, Types
    <3> QED
      BY <1>7, <3>1, ProdGoesOn DEF AssignWrite, Goto, Pcs
  <2> QED
    BY <1>1, <1>7, <1>9, <2>1, <2>2 DEF Types, ProdTypes
<1>8. CASE AssignPush(p)
  BY <1>8, PushTypes
<1> QED
  BY <1>3, <1>4, <1>5, <1>6, <1>7, <1>8 DEF Assign, AssignGoesOn

\* The queues of a worker.
LEMMA QueueTypes ==
  ASSUME Types, NEW w \in Workers
  PROVE  /\ inQ[w] \in Seq(Keys) /\ Len(inQ[w]) \in 0 .. Capacity
         /\ outQ[w] \in Seq(Entries) /\ Len(outQ[w]) \in 0 .. Capacity
<1>1. inQ[w] \in Seq(Keys) /\ Len(inQ[w]) <= Capacity
  BY DEF Types
<1>2. outQ[w] \in Seq(Entries) /\ Len(outQ[w]) <= Capacity
  BY DEF Types
<1>3. Len(inQ[w]) \in Nat /\ Len(outQ[w]) \in Nat /\ Capacity \in Nat
  BY <1>1, <1>2, ManagerAssumption
<1> QED
  BY <1>1, <1>2, <1>3

\* What Take and Drop leave of a queue is a queue, and of its ring a ring.
LEMMA PoppedTypes ==
  ASSUME Types, NEW w \in Workers, inQ[w] # <<>>, Pop(w)
  PROVE  /\ inQ' \in [Workers -> Seq(Keys)] /\ \A v \in Workers : Len(inQ'[v]) <= Capacity
         /\ Head(inQ[w]) \in Keys
         /\ prod' = prod /\ inSize' \in [Workers -> Int] /\ overlap' \in BOOLEAN => RingTypes'
<1>1. inQ[w] \in Seq(Keys) /\ Len(inQ[w]) <= Capacity /\ Len(inQ[w]) \in Nat /\ Capacity \in Nat
  BY ManagerAssumption DEF Types
<1>2. /\ Tail(inQ[w]) \in Seq(Keys) /\ Len(Tail(inQ[w])) = Len(inQ[w]) - 1
      /\ Head(inQ[w]) \in Keys
  BY <1>1, TailFits
<1>3. CASE UNCHANGED <<inQ, old, loaded>>
  BY <1>2, <1>3 DEF Types, RingTypes
<1>4. CASE /\ inQ' = [inQ EXCEPT ![w] = Tail(@)]
           /\ old' = [old EXCEPT ![w] = Append(@, Head(inQ[w]))]
           /\ loaded' = [p \in Producers |->
                IF loaded[p].to # w THEN loaded[p]
                ELSE [loaded[p] EXCEPT !.at = IF @ = 0 THEN Capacity ELSE @ - 1]]
  <2> DEFINE t == Tail(inQ[w])
             o == Append(old[w], Head(inQ[w]))
  <2>1. old[w] \in Seq(Keys \cup {NoThread}) /\ Len(inQ[w]) + Len(old[w]) = Capacity + 1
    BY DEF Types, RingTypes
  <2>2. o \in Seq(Keys \cup {NoThread}) /\ Len(o) = Len(old[w]) + 1
    BY <1>2, <2>1, AppendProperties
  <2>3. t \in Seq(Keys) /\ Len(t) <= Capacity /\ Len(t) + Len(o) = Capacity + 1
    <3> HIDE DEF o, t
    <3>1. /\ Len(t) = Len(inQ[w]) - 1 /\ Len(o) = Len(old[w]) + 1 /\ t \in Seq(Keys)
          /\ Len(old[w]) \in Nat
      BY <1>2, <2>1, <2>2 DEF t
    <3> DEFINE a == Len(inQ[w])
               b == Len(old[w])
    <3>2. /\ a \in Nat /\ b \in Nat /\ a <= Capacity /\ Capacity \in Nat
          /\ a + b = Capacity + 1 /\ Len(t) = a - 1 /\ Len(o) = b + 1
      BY <1>1, <2>1, <3>1
    <3> HIDE DEF a, b
    <3>3. Len(t) <= Capacity /\ Len(t) + Len(o) = Capacity + 1
      BY <3>2
    <3> QED
      BY <3>1, <3>3
  <2>4. inQ' = [inQ EXCEPT ![w] = t] /\ old' = [old EXCEPT ![w] = o]
    BY <1>4
  <2> HIDE DEF t, o
  <2>5. inQ \in [Workers -> Seq(Keys)] /\ \A v \in Workers : Len(inQ[v]) <= Capacity
    BY DEF Types
  <2>6. /\ old \in [Workers -> Seq(Keys \cup {NoThread})]
        /\ \A v \in Workers : Len(inQ[v]) + Len(old[v]) = Capacity + 1
    BY DEF Types, RingTypes
  <2>7. inQ' \in [Workers -> Seq(Keys)] /\ \A v \in Workers : Len(inQ'[v]) <= Capacity
    BY <2>3, <2>4, <2>5
  <2>8. /\ old' \in [Workers -> Seq(Keys \cup {NoThread})]
        /\ \A v \in Workers : Len(inQ'[v]) + Len(old'[v]) = Capacity + 1
    BY <2>2, <2>3, <2>4, <2>5, <2>6
  <2>9. ASSUME NEW p \in Producers
        PROVE  loaded'[p] \in [to : Workers \cup {NoThread}, at : 0 .. Capacity]
               /\ loaded'[p].to = loaded[p].to
    <3>1. loaded[p] \in [to : Workers \cup {NoThread}, at : 0 .. Capacity]
      BY DEF Types, RingTypes
    <3>2. (IF loaded[p].at = 0 THEN Capacity ELSE loaded[p].at - 1) \in 0 .. Capacity
      BY <1>1, <3>1
    <3> QED
      BY <1>4, <3>1, <3>2
  <2>10. loaded' \in [Producers -> [to : Workers \cup {NoThread}, at : 0 .. Capacity]]
    BY <1>4, <2>9
  <2>11. \A p \in Producers : prod[p].pc \in {"fill", "store", "count"} => loaded[p].to \in Workers
    BY DEF Types, RingTypes
  <2> QED
    BY <1>2, <2>7, <2>8, <2>9, <2>10, <2>11 DEF RingTypes
<1> QED
  BY <1>3, <1>4 DEF Pop

\* An entry that is pushed out has its place, or is lost.
LEMMA PushOutTypes ==
  ASSUME Types, NEW w \in Workers, NEW e \in Entries, PushOut(w, e)
  PROVE  /\ outQ' \in [Workers -> Seq(Entries)]
         /\ \A v \in Workers : Len(outQ'[v]) <= Capacity
         /\ lost' \in SUBSET Keys
         /\ OutTypes(out')
<1>1. e.key \in Keys
  BY DEF Entries
<1>2. lost' \in SUBSET Keys
  BY <1>1 DEF PushOut, Types
<1>3. OutTypes(out')
  BY DEF PushOut, Types, OutTypes
<1>4. CASE outQ' = outQ
  BY <1>2, <1>3, <1>4 DEF Types
<1>5. CASE Len(outQ[w]) < Capacity /\ outQ' = [outQ EXCEPT ![w] = Append(@, e)]
  <2> DEFINE q == Append(outQ[w], e)
  <2>1. outQ[w] \in Seq(Entries) /\ Capacity \in Nat
    BY ManagerAssumption DEF Types
  <2>2. q \in Seq(Entries) /\ Len(q) <= Capacity
    BY <1>5, <2>1, AppendProperties
  <2>3. outQ' = [outQ EXCEPT ![w] = q]
    BY <1>5
  <2> HIDE DEF q
  <2> QED
    BY <1>2, <1>3, <2>2, <2>3 DEF Types
<1> QED
  BY <1>4, <1>5 DEF PushOut

\* The workers keep the types.
LEMMA WorkerTypes ==
  ASSUME Types, NEW w \in Workers, NEW r \in Runs, Worker(w, r)
  PROVE  Types'
<1>1. UNCHANGED <<configured, group, starts, count, threadId, strategy, next, prod, sent, stop>>
  BY DEF Worker, Take, Drop, Emit, Finish, producerVars, workerVars
<1>2. CASE Take(w, r)
  <2>1. Pop(w)
    BY <1>2 DEF Take
  <2>2. inQ[w] # <<>>
    BY <1>2 DEF Take, CanTake
  <2>3. /\ inQ' \in [Workers -> Seq(Keys)] /\ \A v \in Workers : Len(inQ'[v]) <= Capacity
        /\ Head(inQ[w]) \in Keys
    BY <2>1, <2>2, PoppedTypes
  <2>4. work' \in [Workers -> [Runs -> Keys \cup {NoThread}]]
    BY <1>2, <2>3 DEF Take, Types
  <2>5. UNCHANGED <<outputs, outQ, lost, out>>
    BY <1>2 DEF Take
  <2>6. RingTypes'
    <3>1. inSize' \in [Workers -> Int] /\ overlap' \in BOOLEAN
      BY <1>2 DEF Take, Types, RingTypes
    <3> QED
      BY <1>1, <2>1, <2>2, <3>1, PoppedTypes
  <2> QED
    BY <1>1, <2>3, <2>4, <2>5, <2>6 DEF Types
<1>3. CASE Drop(w, r)
  <2>1. Pop(w)
    BY <1>3 DEF Drop
  <2>2. inQ[w] # <<>>
    BY <1>3 DEF Drop, CanTake
  <2>3. /\ inQ' \in [Workers -> Seq(Keys)] /\ \A v \in Workers : Len(inQ'[v]) <= Capacity
        /\ Head(inQ[w]) \in Keys
    BY <2>1, <2>2, PoppedTypes
  <2>4. lost' \in SUBSET Keys
    BY <1>3, <2>3 DEF Drop, Types
  <2>5. UNCHANGED <<outputs, work, outQ, out>>
    BY <1>3 DEF Drop, workerVars
  <2>6. RingTypes'
    <3>1. inSize' \in [Workers -> Int] /\ overlap' \in BOOLEAN
      BY <1>3 DEF Drop, Types, RingTypes
    <3> QED
      BY <1>1, <2>1, <2>2, <3>1, PoppedTypes
  <2> QED
    BY <1>1, <2>3, <2>4, <2>5, <2>6 DEF Types
<1>4. CASE Emit(w, r)
  <2>1. OutgoingOf(work[w][r]) \in Entries
    BY ManagerAssumption DEF OutgoingOf, Outgoing, Entries
  <2>2. PushOut(w, OutgoingOf(work[w][r]))
    BY <1>4 DEF Emit
  <2>3. outputs' \in Nat /\ sent + outputs' <= MaxMessages
    BY <1>4, ManagerAssumption DEF Emit, Types
  <2>4. UNCHANGED <<work, inQ>>
    BY <1>4 DEF Emit
  <2>5. RingTypes'
    BY <1>1, <1>4, RingsKept DEF Emit, ringVars
  <2> HIDE DEF OutgoingOf
  <2> QED
    BY <1>1, <2>1, <2>2, <2>3, <2>4, <2>5, PushOutTypes DEF Types
<1>5. CASE Finish(w, r)
  <2>1. work[w][r] \in Keys
    BY <1>5 DEF Finish, Busy, Types
  <2>2. Cleanup(work[w][r]) \in Entries
    BY <2>1 DEF Cleanup, Entries
  <2>3. PushOut(w, Cleanup(work[w][r]))
    BY <1>5 DEF Finish
  <2>4. work' \in [Workers -> [Runs -> Keys \cup {NoThread}]]
    BY <1>5 DEF Finish, Types
  <2>5. UNCHANGED <<outputs, inQ>>
    BY <1>5 DEF Finish
  <2>6. RingTypes'
    <3>1. inSize' \in [Workers -> Int] /\ UNCHANGED <<inQ, old, loaded, overlap, prod>>
      BY <1>1, <1>5 DEF Finish, Types, RingTypes
    <3> QED
      BY <3>1 DEF Types, RingTypes
  <2> QED
    BY <1>1, <2>2, <2>3, <2>4, <2>5, <2>6, PushOutTypes DEF Types
<1> QED
  BY <1>2, <1>3, <1>4, <1>5 DEF Worker

\* The output thread keeps the types.
LEMMA OutputTypes ==
  ASSUME Types, Output \/ SpuriousWake
  PROVE  Types'
<1>1. UNCHANGED <<configured, group, strategy, next, prod, sent, starts, work, outputs, inQ, lost, stop>>
  BY DEF Output, SpuriousWake, OutCheck, OutPark, OutLoopEnds, OutSkip, OutPop, OutClear,
         UnchangedByOutput, workerVars
<1>9. RingTypes'
  <2>1. UNCHANGED <<inQ, old, loaded, inSize, overlap, prod>>
    BY DEF Output, SpuriousWake, OutCheck, OutPark, OutLoopEnds, OutSkip, OutPop, OutClear,
           UnchangedByOutput, ringVars
  <2> QED
    BY <2>1, RingsKept
<1>0. out \in [pc : {"none", "check", "park", "wait", "loop", "clear"}, i : Nat, key : Keys]
      /\ (out.pc \in {"loop", "clear"} => out.i >= 1)
  BY DEF Types, OutTypes
<1>2. CASE OutCheck \/ OutPark \/ SpuriousWake \/ OutLoopEnds \/ OutSkip
  <2>1. OutTypes(out')
    <3>1. CASE OutCheck
      <4> DEFINE o == [out EXCEPT !.pc = "loop", !.i = 1]
      <4>1. o \in [pc : {"loop"}, i : {1}, key : Keys]
        BY <1>0
      <4> HIDE DEF o
      <4>2. OutTypes(o) /\ OutTypes([out EXCEPT !.pc = "park"])
        BY <1>0, <4>1 DEF OutTypes
      <4> QED
        BY <3>1, <4>2 DEF OutCheck, o
    <3>2. CASE OutPark \/ SpuriousWake \/ OutLoopEnds
      BY <1>0, <3>2 DEF OutPark, SpuriousWake, OutLoopEnds, OutTypes
    <3>3. CASE OutSkip
      BY <1>0, <3>3 DEF OutSkip, OutTypes
    <3> QED
      BY <1>2, <3>1, <3>2, <3>3
  <2>2. UNCHANGED <<count, threadId, outQ>>
    BY <1>2 DEF OutCheck, OutPark, SpuriousWake, OutLoopEnds, OutSkip
  <2> QED
    BY <1>1, <1>9, <2>1, <2>2 DEF Types
<1>3. CASE OutClear
  <2>1. OutTypes(out')
    <3> DEFINE o == [out EXCEPT !.pc = "loop", !.i = @ + 1]
    <3>1. o \in [pc : {"loop"}, i : {out.i + 1}, key : Keys]
      BY <1>0
    <3> HIDE DEF o
    <3>2. OutTypes(o)
      BY <1>0, <3>1 DEF OutTypes
    <3> QED
      BY <1>3, <3>2 DEF OutClear, o
  <2>2. threadId' \in [Keys -> {NoThread} \cup Nat]
    BY <1>0, <1>3 DEF OutClear, Types
  <2>3. UNCHANGED <<count, outQ>>
    BY <1>3 DEF OutClear
  <2> QED
    BY <1>1, <1>9, <2>1, <2>2, <2>3 DEF Types
<1>4. CASE OutPop
  <2> DEFINE w == group[out.i]
             k == Head(outQ[w]).key
  <2>1. w \in Workers /\ outQ[w] # <<>>
    BY <1>0, <1>4, GroupWorkers DEF OutPop
  <2>4. outQ' = [outQ EXCEPT ![w] = Tail(outQ[w])] /\ count' = [count EXCEPT ![k] = @ - 1]
        /\ UNCHANGED threadId
    BY <1>4 DEF OutPop
  <2>8. \/ out' = [out EXCEPT !.pc = "clear", !.key = k]
        \/ out' = [out EXCEPT !.i = @ + 1] /\ out.pc = "loop"
    BY <1>4 DEF OutPop
  <2> HIDE DEF w
  <2>2. /\ outQ[w] \in Seq(Entries) /\ Len(outQ[w]) <= Capacity
        /\ Len(outQ[w]) \in Nat /\ Capacity \in Nat
    <3>1. Capacity \in Nat
      BY EmptyFits
    <3>2. outQ[w] \in Seq(Entries) /\ Len(outQ[w]) \in 0 .. Capacity
      BY <2>1, QueueTypes
    <3> QED
      BY <3>1, <3>2
  <2>3. /\ Tail(outQ[w]) \in Seq(Entries) /\ Len(Tail(outQ[w])) <= Capacity
        /\ Head(outQ[w]) \in Entries
    <3>1. /\ Tail(outQ[w]) \in Seq(Entries)
          /\ Len(Tail(outQ[w])) = Len(outQ[w]) - 1
          /\ Head(outQ[w]) \in Entries
      BY <2>1, <2>2, TailFits
    <3> QED
      BY <2>2, <3>1
  <2>9. k \in Keys
    BY <2>3 DEF Entries
  <2> HIDE DEF k
  <2>5. OutTypes(out')
    <3>1. CASE out' = [out EXCEPT !.pc = "clear", !.key = k]
      <4> DEFINE o == [out EXCEPT !.pc = "clear", !.key = k]
      <4>1. o \in [pc : {"clear"}, i : {out.i}, key : Keys]
        BY <1>0, <2>9
      <4>2. out.i >= 1 /\ out.i \in Nat
        BY <1>0, <1>4 DEF OutPop
      <4> HIDE DEF o
      <4> QED
        BY <3>1, <4>1, <4>2 DEF OutTypes, o
    <3>2. CASE out' = [out EXCEPT !.i = @ + 1] /\ out.pc = "loop"
      BY <1>0, <3>2 DEF OutTypes
    <3> QED
      BY <2>8, <3>1, <3>2
  <2>6. /\ outQ' \in [Workers -> Seq(Entries)]
        /\ \A v \in Workers : Len(outQ'[v]) <= Capacity
    BY <2>3, <2>4, QueuesExcept DEF Types
  <2>7. count' \in [Keys -> Int] /\ threadId' \in [Keys -> {NoThread} \cup Nat]
    BY <2>4, <2>9 DEF Types
  <2> QED
    BY <1>1, <1>9, <2>5, <2>6, <2>7 DEF Types
<1> QED
  BY <1>2, <1>3, <1>4 DEF Output

\* A worker that is stopped leaves empty queues.
LEMMA StopTypes ==
  ASSUME Types, Stop
  PROVE  Types'
<1>1. UNCHANGED <<configured, count, threadId, strategy, next, prod, sent, outputs, lost, out>>
  BY DEF Stop, StopBegin, StopWorker, StopJoin, StopReturns, producerVars, workerVars, queueVars
<1>2. CASE StopBegin \/ StopJoin \/ StopReturns
  <2>1. UNCHANGED <<group, starts, work, inQ, outQ>> /\ stop' \in {"workers", "join", "done"}
    BY <1>2 DEF StopBegin, StopJoin, StopReturns, producerVars, workerVars, queueVars
  <2>2. RingTypes'
    BY <1>2, RingsKept DEF StopBegin, StopJoin, StopReturns, producerVars, queueVars, ringVars
  <2> QED
    BY <1>1, <2>1, <2>2 DEF Types
<1>3. CASE StopWorker
  <2>1. Head(group) \in Workers /\ group' \in Seq(Workers)
    BY <1>3, TailFits DEF StopWorker, Types
  <2>2. starts' \in [Workers -> Nat] /\ \A w \in Workers : starts'[w] <= configured
    BY <1>3 DEF StopWorker, Types
  <2>3. inQ' \in [Workers -> Seq(Keys)] /\ \A w \in Workers : Len(inQ'[w]) <= Capacity
    BY <1>3, EmptyFits, QueuesExcept DEF StopWorker, Types
  <2>4. /\ outQ' \in [Workers -> Seq(Entries)]
        /\ \A w \in Workers : Len(outQ'[w]) <= Capacity
    BY <1>3, EmptyFits, QueuesExcept DEF StopWorker, Types
  <2>5. work' \in [Workers -> [Runs -> Keys \cup {NoThread}]]
    BY <1>3 DEF StopWorker, NoWork, Types
  <2>6. UNCHANGED stop
    BY <1>3 DEF StopWorker
  <2>7. RingTypes'
    <3> DEFINE w == Head(group)
    <3>1. inQ' = [inQ EXCEPT ![w] = <<>>] /\ old' = [old EXCEPT ![w] = NeverUsed]
          /\ inSize' = [inSize EXCEPT ![w] = 0] /\ UNCHANGED <<prod, loaded, overlap>>
      BY <1>1, <1>3 DEF StopWorker
    <3> HIDE DEF w
    <3>2. /\ NeverUsed \in Seq(Keys \cup {NoThread}) /\ Len(NeverUsed) = Capacity + 1
          /\ Len(<<>>) + (Capacity + 1) = Capacity + 1
      BY ManagerAssumption DEF NeverUsed
    <3>3. inQ \in [Workers -> Seq(Keys)]
      BY DEF Types
    <3>4. old' \in [Workers -> Seq(Keys \cup {NoThread})]
      BY <3>1, <3>2 DEF Types, RingTypes
    <3>5. \A v \in Workers : Len(inQ'[v]) + Len(old'[v]) = Capacity + 1
      BY <3>1, <3>2, <3>3 DEF Types, RingTypes
    <3>6. inSize' \in [Workers -> Int]
      <4>1. inSize' = [inSize EXCEPT ![w] = 0]
        BY <3>1
      <4>2. inSize \in [Workers -> Int]
        BY DEF Types, RingTypes
      <4>3. \A v \in Workers : inSize'[v] \in {inSize[v], 0} /\ inSize[v] \in Int
        BY <4>1, <4>2
      <4>4. inSize' = [v \in Workers |-> inSize'[v]]
        BY <4>1, <4>2
      <4> QED
        BY <4>3, <4>4
    <3>7. \A q \in Producers : prod'[q].pc \in {"fill", "store", "count"} => loaded'[q].to \in Workers
      <4>1. \A q \in Producers : prod[q].pc \in {"fill", "store", "count"} => loaded[q].to \in Workers
        BY DEF Types, RingTypes
      <4>2. prod' = prod /\ loaded' = loaded
        BY <3>1
      <4> QED
        BY <4>1, <4>2
    <3>8. loaded' = loaded /\ overlap' = overlap
      BY <3>1
    <3> QED
      BY <3>4, <3>5, <3>6, <3>7, <3>8 DEF Types, RingTypes
  <2> QED
    BY <1>1, <2>1, <2>2, <2>3, <2>4, <2>5, <2>6, <2>7 DEF Types
<1> QED
  BY <1>2, <1>3 DEF Stop

\* Every step keeps the types.
LEMMA NextTypes == Types /\ [ManagerNext]_managerVars => Types'
<1> SUFFICES ASSUME Types, [ManagerNext]_managerVars
             PROVE  Types'
  OBVIOUS
<1>1. CASE set_strategy
  <2>1. strategy' \in Strategies
    BY <1>1 DEF set_strategy
  <2>2. UNCHANGED <<configured, group, count, threadId, next, prod, sent, starts, work, outputs,
                    inQ, outQ, lost, out, stop>>
    BY <1>1 DEF set_strategy, workerVars, queueVars
  <2>3. RingTypes'
    BY <1>1, RingsKept DEF set_strategy, queueVars, ringVars
  <2> QED
    BY <2>1, <2>2, <2>3 DEF Types
<1>2. CASE UNCHANGED managerVars
  <2>1. RingTypes'
    BY <1>2, RingsKept DEF managerVars, producerVars, queueVars, ringVars
  <2> QED
    BY <1>2, <2>1 DEF managerVars, producerVars, workerVars, queueVars, Types
<1> QED
  BY <1>1, <1>2, StartTypes, AssignTypes, WorkerTypes, OutputTypes, StopTypes DEF ManagerNext

-----------------------------------------------------------------------------
(* What the steps do to the number of a source's messages.                 *)

InHands(k)  == Cardinality(Handing(k))
Queued(k)   == Cardinality(Slots(inQ, k))
Handled(k)  == Cardinality(Handling(k))
Cleaning(k) == Cardinality(Slots(outQ, Cleanup(k)))

\* By how much the count of a source exceeds its messages.
Balance(k) == count[k] - Active(k)

\* All four are numbers.
LEMMA CountsAreNumbers ==
  ASSUME NEW k
  PROVE  /\ IsFiniteSet(Handing(k)) /\ InHands(k) \in Nat
         /\ IsFiniteSet(Handling(k)) /\ Handled(k) \in Nat
         /\ Queued(k) \in Nat /\ Cleaning(k) \in Nat
         /\ Active(k) = InHands(k) + Queued(k) + Handled(k) + Cleaning(k)
<1>1. IsFiniteSet(Handing(k)) /\ InHands(k) \in Nat
  <2>1. Handing(k) \in SUBSET Producers
    BY DEF Handing
  <2> QED
    BY <2>1, ManagerAssumption, FS_Subset, FS_CardinalityType DEF InHands
<1>2. IsFiniteSet(Handling(k)) /\ Handled(k) \in Nat
  <2>1. Handling(k) \in SUBSET (Workers \X Runs)
    BY DEF Handling
  <2>2. IsFiniteSet(Workers \X Runs)
    BY WorkersFinite, FS_Product
  <2> QED
    BY <2>1, <2>2, FS_Subset, FS_CardinalityType DEF Handled
<1> QED
  BY <1>1, <1>2, SlotsFinite DEF Active, InHands, Queued, Handled, Cleaning

\* As long as no two pushes to one queue were made at once and the group was
\* sized once, a push finds the write index where it was when it was read, and
\* what it filled is in the slot there.
Alone ==
  Undisturbed =>
    /\ configured = 0 => group = <<>> /\ \A p \in Producers : ~Pushing(p)
    /\ \A i, j \in 1 .. Len(group) : group[i] = group[j] => i = j
    /\ \A p, q \in Producers :
          Pushing(p) /\ Pushing(q) /\ loaded[p].to = loaded[q].to => p = q
    /\ \A p \in Producers : Pushing(p) /\ loaded[p].to \in ToSet(group) =>
          /\ loaded[p].at = Len(inQ[loaded[p].to])
          /\ prod[p].pc = "store" => /\ loaded[p].at < Capacity
                                     /\ old[loaded[p].to][1] = prod[p].key

\* So a slot that is filled is none of those that are queued.
LEMMA FillsBeyond ==
  ASSUME Types, Alone, Undisturbed, NEW p \in Producers, AssignFill(p), ~GivesUp(p)
  PROVE  /\ inQ' = inQ /\ loaded[p].at < Capacity
         /\ old'[loaded[p].to][1] = prod[p].key
         /\ \A v \in Workers \ {loaded[p].to} : old'[v] = old[v]
<1> DEFINE w == loaded[p].to
           n == loaded[p].at
           r == [Ring(w) EXCEPT ![n + 1] = prod[p].key]
<1>1. /\ SetRing(w, r, Len(inQ[w])) /\ w \in ToSet(group) /\ n < Capacity /\ prod[p].pc = "fill"
  BY DEF AssignFill, At
<1>2. w \in Workers /\ prod[p].key \in Keys /\ n = Len(inQ[w])
  BY <1>1 DEF Types, RingTypes, Alone, Pushing
<1>3. n < Capacity
  BY <1>1
<1> HIDE DEF w, n
<1>4. /\ Ring(w) \in [1 .. Capacity + 1 -> Keys \cup {NoThread}] /\ n \in 0 .. Capacity
      /\ \A i \in 1 .. n : Ring(w)[i] = inQ[w][i] /\ inQ[w][i] \in Keys
  BY <1>2, RingSlots
<1>5. n + 1 \in 1 .. Capacity + 1 /\ Capacity \in Nat /\ n \in Nat
  BY <1>3, <1>4, ManagerAssumption
<1>6. /\ r \in [1 .. Capacity + 1 -> Keys \cup {NoThread}] /\ r[n + 1] = prod[p].key
      /\ \A i \in 1 .. n : r[i] = Ring(w)[i]
  BY <1>2, <1>4, <1>5
<1> HIDE DEF r
<1>7. /\ inQ' \in [Workers -> Seq(Keys)]
      /\ \A v \in Workers \ {w} : inQ'[v] = inQ[v] /\ old'[v] = old[v]
      /\ Len(inQ'[w]) = n /\ \A i \in 1 .. n : r[i] # NoThread => inQ'[w][i] = r[i]
      /\ \A i \in 1 .. Capacity + 1 - n : old'[w][i] = r[n + i]
  BY <1>1, <1>2, <1>4, <1>6, RingSet
<1>8. inQ'[w] = inQ[w]
  <2>1. \A i \in 1 .. n : inQ'[w][i] = inQ[w][i]
    BY <1>4, <1>6, <1>7, ManagerAssumption
  <2>2. inQ[w] \in Seq(Keys) /\ Len(inQ[w]) = n /\ inQ'[w] \in Seq(Keys)
    BY <1>2, <1>7 DEF Types
  <2> QED
    BY <1>7, <2>1, <2>2, SeqEqual
<1>9. inQ' = inQ
  <2>1. \A v \in Workers : inQ'[v] = inQ[v]
    BY <1>7, <1>8
  <2>2. inQ \in [Workers -> Seq(Keys)]
    BY DEF Types
  <2> QED
    BY <1>7, <2>1, <2>2
<1>10. old'[w][1] = prod[p].key
  <2>1. 1 \in 1 .. Capacity + 1 - n
    BY <1>3, <1>5
  <2> QED
    BY <1>6, <1>7, <2>1
<1> QED
  BY <1>3, <1>7, <1>9, <1>10 DEF w, n

\* And the write index that is stored adds that slot to the queue.
LEMMA StoresNext ==
  ASSUME Types, Alone, Undisturbed, NEW p \in Producers, AssignStore(p), ~GivesUp(p)
  PROVE  /\ loaded[p].to \in Workers /\ Len(inQ[loaded[p].to]) < Capacity
         /\ inQ' = [inQ EXCEPT ![loaded[p].to] = Append(@, prod[p].key)]
         /\ \A v \in Workers \ {loaded[p].to} : old'[v] = old[v]
<1> DEFINE w == loaded[p].to
           n == Len(inQ[w])
           k == prod[p].key
<1>1. /\ SetRing(w, Ring(w), (loaded[p].at + 1) % (Capacity + 1)) /\ w \in ToSet(group)
      /\ prod[p].pc = "store"
  BY DEF AssignStore, At
<1>2. w \in Workers /\ k \in Keys /\ k # NoThread
  BY <1>1, ManagerAssumption DEF Types, RingTypes
<1>3. loaded[p].at = n /\ n < Capacity /\ old[w][1] = k
  BY <1>1 DEF Alone, Pushing
<1>4. /\ Ring(w) \in [1 .. Capacity + 1 -> Keys \cup {NoThread}] /\ n \in 0 .. Capacity
      /\ \A i \in 1 .. n : Ring(w)[i] = inQ[w][i] /\ inQ[w][i] \in Keys
      /\ Ring(w)[n + 1] = old[w][1]
  BY <1>2, RingSlots
<1> HIDE DEF n, k, w
<1>5. n + 1 \in 0 .. Capacity /\ (n + 1) % (Capacity + 1) = n + 1
  <2>1. Capacity \in Nat /\ \A a, b \in Nat : a < b => a % b = a
    BY ManagerAssumption
  <2>2. n + 1 \in Nat /\ Capacity + 1 \in Nat /\ n + 1 < Capacity + 1
    BY <1>3, <1>4, <2>1
  <2> QED
    BY <2>1, <2>2
<1>6. SetRing(w, Ring(w), n + 1)
  BY <1>1, <1>3, <1>5
<1>7. /\ inQ' \in [Workers -> Seq(Keys)]
      /\ \A v \in Workers \ {w} : inQ'[v] = inQ[v] /\ old'[v] = old[v]
      /\ Len(inQ'[w]) = n + 1
      /\ \A i \in 1 .. n + 1 : Ring(w)[i] # NoThread => inQ'[w][i] = Ring(w)[i]
  BY <1>2, <1>4, <1>5, <1>6, RingSet
<1>8. inQ'[w] = Append(inQ[w], k)
  <2>1. inQ[w] \in Seq(Keys) /\ Len(inQ[w]) = n /\ inQ'[w] \in Seq(Keys)
    BY <1>2, <1>7 DEF Types, n
  <2>2. /\ Append(inQ[w], k) \in Seq(Keys) /\ Len(Append(inQ[w], k)) = n + 1
        /\ Append(inQ[w], k)[n + 1] = k
        /\ \A i \in 1 .. n : Append(inQ[w], k)[i] = inQ[w][i]
    BY <1>2, <2>1, AppendProperties
  <2>3. ASSUME NEW i \in 1 .. n + 1
        PROVE  inQ'[w][i] = Append(inQ[w], k)[i]
    <3>1. CASE i = n + 1
      BY <1>2, <1>3, <1>4, <1>7, <2>2, <3>1
    <3>2. CASE i # n + 1
      <4>1. i \in 1 .. n
        BY <1>4, <3>2
      <4> QED
        BY <1>4, <1>7, <2>2, <4>1, ManagerAssumption
    <3> QED
      BY <3>1, <3>2
  <2> QED
    BY <1>7, <2>1, <2>2, <2>3, SeqEqual
<1>9. inQ' = [inQ EXCEPT ![w] = Append(@, k)]
  <2>1. inQ \in [Workers -> Seq(Keys)]
    BY DEF Types
  <2> QED
    BY <1>2, <1>7, <1>8, <2>1
<1> QED
  BY <1>2, <1>3, <1>7, <1>9 DEF w, n, k

\* A message is handed in: it is counted, and in its producer's hands.
LEMMA BeginBalance ==
  ASSUME Types, NEW p \in Producers, AssignBegin(p), NEW k \in Keys
  PROVE  Balance(k)' = Balance(k)
<1>1. PICK j \in Keys :
        /\ count' = [count EXCEPT ![j] = @ + 1]
        /\ prod' = [prod EXCEPT ![p] = [pc |-> "read", key |-> j, tId |-> NoThread]]
  BY DEF AssignBegin, CountIn
<1>2. p \notin Handing(k)
  BY DEF AssignBegin, Handing, At
<1>3. Handing(k)' = IF j = k THEN Handing(k) \cup {p} ELSE Handing(k)
  BY <1>1, <1>2 DEF Types, Handing, At
<1>4. InHands(k)' = IF j = k THEN InHands(k) + 1 ELSE InHands(k)
  BY <1>2, <1>3, CountsAreNumbers, FS_AddElement DEF InHands
<1>5. UNCHANGED <<inQ, outQ, work>>
  BY DEF AssignBegin, UnchangedByAssign, workerVars, queueVars
<1>6. Queued(k)' = Queued(k) /\ Handled(k)' = Handled(k) /\ Cleaning(k)' = Cleaning(k)
  BY <1>5 DEF Queued, Handled, Handling, Cleaning
<1>7. count'[k] = IF j = k THEN count[k] + 1 ELSE count[k]
  BY <1>1 DEF Types
<1>8. Active(k)' = InHands(k)' + Queued(k)' + Handled(k)' + Cleaning(k)'
  BY DEF Active, InHands, Queued, Handled, Cleaning
<1>9. count[k] \in Int
  BY DEF Types
<1> QED
  BY <1>4, <1>6, <1>7, <1>8, <1>9, CountsAreNumbers DEF Balance

\* The steps between leave it there.
LEMMA GoOnBalance ==
  ASSUME Types, NEW p \in Producers, NEW k \in Keys,
         AssignRead(p) \/ AssignChoose(p) \/ AssignBump(p) \/ AssignReset(p) \/ AssignWrite(p)
  PROVE  Balance(k)' = Balance(k)
<1>1. UNCHANGED <<count, inQ, outQ, work>>
  BY DEF AssignRead, AssignChoose, AssignBump, AssignReset, AssignWrite, UnchangedByAssign,
         workerVars, queueVars
<1>2. /\ prod[p].pc \notin {"idle", "count"} /\ prod'[p].pc \notin {"idle", "count"}
      /\ prod'[p].key = prod[p].key
      /\ \A q \in Producers \ {p} : prod'[q] = prod[q]
  BY DEF AssignRead, AssignChoose, AssignBump, AssignReset, AssignWrite, At, Goto, Types
<1>3. Handing(k)' = Handing(k)
  BY <1>2 DEF Handing, At
<1> QED
  BY <1>1, <1>3 DEF Balance, Active, Handling

\* A message that is given up is lost.
LEMMA GivesUpBalance ==
  ASSUME Types, NEW p \in Producers, GivesUp(p), Pushing(p) \/ At(p, "push"), NEW k \in Keys,
         UNCHANGED <<count, outQ, work>>
  PROVE  /\ Balance(k)' >= Balance(k)
         /\ k \notin lost' => Balance(k)' = Balance(k)
<1> DEFINE j == prod[p].key
<1>1. p \in Handing(k) <=> j = k
  BY DEF Handing, At, Pushing
<1>2. Handing(k)' = Handing(k) \ {p}
  BY DEF GivesUp, Types, Handing, At, Idle
<1>3. InHands(k)' = IF j = k THEN InHands(k) - 1 ELSE InHands(k)
  BY <1>1, <1>2, CountsAreNumbers, FS_RemoveElement DEF InHands
<1>4. Queued(k)' = Queued(k) /\ Handled(k)' = Handled(k) /\ Cleaning(k)' = Cleaning(k)
  BY DEF GivesUp, Queued, Handled, Handling, Cleaning
<1>5. Active(k)' = InHands(k)' + Queued(k)' + Handled(k)' + Cleaning(k)'
  BY DEF Active, InHands, Queued, Handled, Cleaning
<1>6. count[k] \in Int /\ j \in lost'
  BY DEF Types, GivesUp
<1> QED
  BY <1>3, <1>4, <1>5, <1>6, CountsAreNumbers DEF Balance

\* A message that is stored is in the queue.
LEMMA StoreBalance ==
  ASSUME Types, Alone, Undisturbed, NEW p \in Producers, AssignStore(p), ~GivesUp(p), NEW k \in Keys
  PROVE  Balance(k)' = Balance(k)
<1> DEFINE j == prod[p].key
           v == loaded[p].to
<1>0. At(p, "store") /\ prod' = [prod EXCEPT ![p].pc = "count"]
  BY DEF AssignStore, Goto
<1>1. p \in Handing(k) <=> j = k
  BY <1>0 DEF Handing, At
<1>2. Handing(k)' = Handing(k) \ {p}
  BY <1>0 DEF Types, Handing
<1>3. InHands(k)' = IF j = k THEN InHands(k) - 1 ELSE InHands(k)
  BY <1>1, <1>2, CountsAreNumbers, FS_RemoveElement DEF InHands
<1>4. UNCHANGED <<count, outQ, work>>
  BY DEF AssignStore, UnchangedByAssign, workerVars
<1>5. Handled(k)' = Handled(k) /\ Cleaning(k)' = Cleaning(k)
  BY <1>4 DEF Handled, Handling, Cleaning
<1>6. Active(k)' = InHands(k)' + Queued(k)' + Handled(k)' + Cleaning(k)'
  BY DEF Active, InHands, Queued, Handled, Cleaning
<1>7. count[k] \in Int /\ inQ \in [Workers -> Seq(Keys)] /\ j \in Keys
  BY DEF Types
<1>8. v \in Workers /\ Len(inQ[v]) < Capacity /\ inQ' = [inQ EXCEPT ![v] = Append(@, j)]
  BY StoresNext
<1> HIDE DEF j, v
<1>9. inQ'[v] = Append(inQ[v], j) /\ \A u \in Workers \ {v} : inQ'[u] = inQ[u]
  BY <1>7, <1>8
<1>10. Cardinality(Slots(inQ', k))
         = IF j = k THEN Cardinality(Slots(inQ, k)) + 1 ELSE Cardinality(Slots(inQ, k))
  <2>1. j \in Keys /\ v \in Workers /\ Len(inQ[v]) < Capacity /\ inQ \in [Workers -> Seq(Keys)]
    BY <1>7, <1>8
  <2> QED
    BY <1>9, <2>1, SlotsAppend
<1>11. Queued(k)' = IF j = k THEN Queued(k) + 1 ELSE Queued(k)
  BY <1>10 DEF Queued
<1> QED
  BY <1>3, <1>4, <1>5, <1>6, <1>7, <1>11, CountsAreNumbers DEF Balance

\* A message that is pushed goes to a queue, or it is lost.
LEMMA PushBalance ==
  ASSUME Types, Alone, Undisturbed, NEW p \in Producers, AssignPush(p), NEW k \in Keys
  PROVE  /\ Balance(k)' >= Balance(k)
         /\ k \notin lost' => Balance(k)' = Balance(k)
<1>1. UNCHANGED <<count, outQ, work>> /\ Balance(k) \in Int
  BY CountsAreNumbers DEF AssignPush, AssignLoad, AssignFill, AssignStore, AssignCount,
                          UnchangedByAssign, workerVars, Types, Balance
<1>2. CASE GivesUp(p) /\ ~AssignCount(p)
  <2>1. Pushing(p) \/ At(p, "push")
    BY <1>2 DEF AssignPush, AssignLoad, AssignFill, AssignStore, At, Pushing
  <2> QED
    BY <1>1, <1>2, <2>1, GivesUpBalance
<1>3. ASSUME Handing(k)' = Handing(k), inQ' = inQ
      PROVE  Balance(k)' = Balance(k)
  BY <1>1, <1>3 DEF Balance, Active, Handling
<1>4. CASE AssignLoad(p) /\ ~GivesUp(p)
  <2>1. At(p, "push") /\ prod' = [prod EXCEPT ![p].pc = "fill"] /\ inQ' = inQ
    BY <1>4 DEF AssignLoad, Goto
  <2>2. Handing(k)' = Handing(k)
    BY <2>1 DEF Handing, At, Types
  <2> QED
    BY <1>1, <1>3, <2>1, <2>2
<1>5. CASE AssignFill(p) /\ ~GivesUp(p)
  <2>1. At(p, "fill") /\ prod' = [prod EXCEPT ![p].pc = "store"]
    BY <1>5 DEF AssignFill, Goto
  <2>2. Handing(k)' = Handing(k)
    BY <2>1 DEF Handing, At, Types
  <2>3. inQ' = inQ
    BY <1>5, FillsBeyond
  <2> QED
    BY <1>1, <1>3, <2>2, <2>3
<1>6. CASE AssignStore(p) /\ ~GivesUp(p)
  BY <1>1, <1>6, StoreBalance
<1>7. CASE AssignCount(p)
  <2>1. At(p, "count") /\ prod' = [prod EXCEPT ![p] = Idle] /\ inQ' = inQ
    BY <1>7 DEF AssignCount
  <2>2. Handing(k)' = Handing(k)
    BY <2>1 DEF Handing, At, Types, Idle
  <2> QED
    BY <1>1, <1>3, <2>1, <2>2
<1> QED
  BY <1>2, <1>4, <1>5, <1>6, <1>7 DEF AssignPush

\* The front of a worker's queue, which only one process takes.
LEMMA PoppedShifts ==
  ASSUME Types, configured <= 1, NEW w \in Workers, inQ[w] # <<>>,
         Pop(w)
  PROVE  Shifted(inQ, inQ', w) /\ Head(inQ[w]) \in Keys /\ Head(inQ[w]) = inQ[w][1]
<1>1. starts[w] <= 1 /\ starts[w] \in Nat
  BY ManagerAssumption DEF Types
<1>3. inQ' = [inQ EXCEPT ![w] = Tail(@)]
  BY <1>1 DEF Pop
<1>4. inQ \in [Workers -> Seq(Keys)] /\ inQ[w] \in Seq(Keys) /\ Len(inQ[w]) <= Capacity
  BY DEF Types
<1>5. inQ'[w] = Tail(inQ[w]) /\ \A v \in Workers \ {w} : inQ'[v] = inQ[v]
  BY <1>3, <1>4
<1>6. /\ Len(inQ[w]) \in 1 .. Capacity /\ Head(inQ[w]) = inQ[w][1]
      /\ Len(Tail(inQ[w])) = Len(inQ[w]) - 1
      /\ \A i \in 1 .. Len(inQ[w]) - 1 : Tail(inQ[w])[i] = inQ[w][i + 1]
  BY <1>4, QueueShifts
<1>7. Head(inQ[w]) \in Keys
  BY <1>4, TailFits
<1> QED
  BY <1>5, <1>6, <1>7 DEF Shifted

\* It is one less of the messages that are queued.
LEMMA PoppedCounts ==
  ASSUME NEW w \in Workers, Shifted(inQ, inQ', w), NEW k
  PROVE  Queued(k)' = IF inQ[w][1] = k THEN Queued(k) - 1 ELSE Queued(k)
<1>1. Cardinality(Slots(inQ', k)) = IF inQ[w][1] = k THEN Cardinality(Slots(inQ, k)) - 1
                                                     ELSE Cardinality(Slots(inQ, k))
  BY SlotsTail
<1> QED
  BY <1>1 DEF Queued

\* A process takes a message: it is in the process's hands.
LEMMA TakeBalance ==
  ASSUME Types, configured <= 1, NEW w \in Workers, NEW r \in Runs, Take(w, r), NEW k \in Keys
  PROVE  Balance(k)' = Balance(k)
<1> DEFINE j == Head(inQ[w])
<1>1. Pop(w)
  BY DEF Take
<1>2. inQ[w] # <<>> /\ work[w][r] = NoThread
  BY DEF Take, CanTake, Free, Busy
<1>3. j \in Keys /\ Queued(k)' = IF j = k THEN Queued(k) - 1 ELSE Queued(k)
  BY <1>1, <1>2, PoppedShifts, PoppedCounts
<1>4. work' = [work EXCEPT ![w][r] = j]
  BY DEF Take
<1>5. <<w, r>> \notin Handling(k)
  BY <1>2, ManagerAssumption DEF Handling
<1> HIDE DEF j
<1>6. Handling(k)' = IF j = k THEN Handling(k) \cup {<<w, r>>} ELSE Handling(k)
  <2>1. ASSUME NEW v \in Workers, NEW u \in Runs
        PROVE  work'[v][u] = k <=> work[v][u] = k \/ (j = k /\ v = w /\ u = r)
    BY <1>2, <1>4, ManagerAssumption DEF Types
  <2>2. \A s \in Workers \X Runs : s[1] \in Workers /\ s[2] \in Runs /\ s = <<s[1], s[2]>>
    OBVIOUS
  <2>3. ASSUME NEW s \in Workers \X Runs
        PROVE  s \in Handling(k)' <=> s \in Handling(k) \/ (j = k /\ s = <<w, r>>)
    BY <2>1, <2>2 DEF Handling
  <2>4. Handling(k)' \subseteq Workers \X Runs /\ Handling(k) \subseteq Workers \X Runs
    BY DEF Handling
  <2> QED
    BY <2>3, <2>4
<1>7. Handled(k)' = IF j = k THEN Handled(k) + 1 ELSE Handled(k)
  BY <1>5, <1>6, CountsAreNumbers, FS_AddElement DEF Handled
<1>8. UNCHANGED <<count, prod, outQ>>
  BY DEF Take, producerVars
<1>9. InHands(k)' = InHands(k) /\ Cleaning(k)' = Cleaning(k)
  BY <1>8 DEF InHands, Handing, At, Cleaning
<1>10. Active(k)' = InHands(k)' + Queued(k)' + Handled(k)' + Cleaning(k)'
  BY DEF Active, InHands, Queued, Handled, Cleaning
<1>11. count[k] \in Int
  BY DEF Types
<1> QED
  BY <1>3, <1>7, <1>8, <1>9, <1>10, <1>11, CountsAreNumbers DEF Balance

\* A process drops a message: it is lost.
LEMMA DropBalance ==
  ASSUME Types, configured <= 1, NEW w \in Workers, NEW r \in Runs, Drop(w, r), NEW k \in Keys
  PROVE  /\ Balance(k)' >= Balance(k)
         /\ k \notin lost' => Balance(k)' = Balance(k)
<1> DEFINE j == Head(inQ[w])
<1>1. Pop(w)
  BY DEF Drop
<1>2. inQ[w] # <<>> /\ j \in lost'
  BY DEF Drop, CanTake
<1>3. j \in Keys /\ Queued(k)' = IF j = k THEN Queued(k) - 1 ELSE Queued(k)
  BY <1>1, <1>2, PoppedShifts, PoppedCounts
<1> HIDE DEF j
<1>4. UNCHANGED <<count, prod, outQ, work>>
  BY DEF Drop, producerVars, workerVars
<1>5. InHands(k)' = InHands(k) /\ Cleaning(k)' = Cleaning(k) /\ Handled(k)' = Handled(k)
  BY <1>4 DEF InHands, Handing, At, Cleaning, Handled, Handling
<1>6. Active(k)' = InHands(k)' + Queued(k)' + Handled(k)' + Cleaning(k)'
  BY DEF Active, InHands, Queued, Handled, Cleaning
<1>7. count[k] \in Int
  BY DEF Types
<1> QED
  BY <1>2, <1>3, <1>4, <1>5, <1>6, <1>7, CountsAreNumbers DEF Balance

\* What is pushed out is one entry more of its kind, or it is lost.
LEMMA PushOutCounts ==
  ASSUME Types, NEW w \in Workers, NEW e \in Entries, PushOut(w, e),
         NEW k \in Keys
  PROVE  /\ e # Cleanup(k) => Cleaning(k)' = Cleaning(k)
         /\ Cleaning(k)' \in {Cleaning(k), Cleaning(k) + 1}
         /\ e = Cleanup(k) /\ e.key \notin lost' => Cleaning(k)' = Cleaning(k) + 1
<1>1. CASE outQ' = outQ /\ e.key \in lost'
  BY <1>1 DEF Cleaning
<1>2. CASE Len(outQ[w]) < Capacity /\ outQ' = [outQ EXCEPT ![w] = Append(@, e)]
  <2>1. outQ \in [Workers -> Seq(Entries)]
    BY DEF Types
  <2>2. outQ'[w] = Append(outQ[w], e)
    BY <1>2, <2>1
  <2>5. \A v \in Workers \ {w} : outQ'[v] = outQ[v]
    BY <1>2, <2>1
  <2>3. Len(outQ[w]) < Capacity
    BY <1>2
  <2>4. Cardinality(Slots(outQ', Cleanup(k)))
          = IF e = Cleanup(k) THEN Cardinality(Slots(outQ, Cleanup(k))) + 1
                              ELSE Cardinality(Slots(outQ, Cleanup(k)))
    BY <2>1, <2>2, <2>3, <2>5, SlotsAppend
  <2> QED
    BY <2>4 DEF Cleaning
<1> QED
  BY <1>1, <1>2 DEF PushOut

\* A message that a handler queues for output is of no source.
LEMMA EmitBalance ==
  ASSUME Types, NEW w \in Workers, NEW r \in Runs, Emit(w, r), NEW k \in Keys
  PROVE  Balance(k)' = Balance(k)
<1>1. Outgoing \in Entries /\ Outgoing # Cleanup(k)
  BY ManagerAssumption DEF Outgoing, Cleanup, Entries
<1>2. PushOut(w, Outgoing)
  BY DEF Emit, OutgoingOf
<1>3. Cleaning(k)' = Cleaning(k)
  BY <1>1, <1>2, PushOutCounts
<1>4. UNCHANGED <<count, prod, inQ, work>>
  BY DEF Emit, producerVars
<1> QED
  BY <1>3, <1>4 DEF Balance, Active, Cleaning, Handing, At, Handling

\* A process that is done with a message pushes its clean-up, or that is lost.
LEMMA FinishBalance ==
  ASSUME Types, NEW w \in Workers, NEW r \in Runs, Finish(w, r), NEW k \in Keys
  PROVE  /\ Balance(k)' >= Balance(k)
         /\ k \notin lost' => Balance(k)' = Balance(k)
<1> DEFINE j == work[w][r]
<1>1. j \in Keys /\ PushOut(w, Cleanup(j)) /\ work' = [work EXCEPT ![w][r] = NoThread]
  BY DEF Finish, Busy, Types
<1>2. <<w, r>> \in Handling(k) <=> j = k
  BY DEF Handling
<1>3. Handling(k)' = Handling(k) \ {<<w, r>>}
  <2>1. ASSUME NEW v \in Workers, NEW u \in Runs
        PROVE  work'[v][u] = k <=> work[v][u] = k /\ ~(v = w /\ u = r)
    BY <1>1, ManagerAssumption DEF Types
  <2>2. \A s \in Workers \X Runs : s[1] \in Workers /\ s[2] \in Runs /\ s = <<s[1], s[2]>>
    OBVIOUS
  <2>3. ASSUME NEW s \in Workers \X Runs
        PROVE  s \in Handling(k)' <=> s \in Handling(k) /\ s # <<w, r>>
    BY <2>1, <2>2 DEF Handling
  <2>4. Handling(k)' \subseteq Workers \X Runs /\ Handling(k) \subseteq Workers \X Runs
    BY DEF Handling
  <2> QED
    BY <2>3, <2>4
<1> HIDE DEF j
<1>4. Handled(k)' = IF j = k THEN Handled(k) - 1 ELSE Handled(k)
  BY <1>2, <1>3, CountsAreNumbers, FS_RemoveElement DEF Handled
<1>5. /\ Cleanup(j) \in Entries /\ Cleanup(j).key = j
      /\ Cleanup(j) = Cleanup(k) <=> j = k
  BY <1>1 DEF Cleanup, Entries
<1>6. /\ j # k => Cleaning(k)' = Cleaning(k)
      /\ Cleaning(k)' \in {Cleaning(k), Cleaning(k) + 1}
      /\ j = k /\ k \notin lost' => Cleaning(k)' = Cleaning(k) + 1
  BY <1>1, <1>5, PushOutCounts
<1>7. UNCHANGED <<count, prod, inQ>>
  BY DEF Finish, producerVars
<1>8. InHands(k)' = InHands(k) /\ Queued(k)' = Queued(k)
  BY <1>7 DEF InHands, Handing, At, Queued
<1>9. Active(k)' = InHands(k)' + Queued(k)' + Handled(k)' + Cleaning(k)'
  BY DEF Active, InHands, Queued, Handled, Cleaning
<1>10. count[k] \in Int
  BY DEF Types
<1> QED
  BY <1>4, <1>6, <1>7, <1>8, <1>9, <1>10, CountsAreNumbers DEF Balance

\* What is queued for output is a message of 0:0 or a source's clean-up.
OutEntries ==
  \A w \in Workers : \A i \in 1 .. Len(outQ[w]) : outQ[w][i].msg => outQ[w][i].key = Zero

\* The output thread takes a clean-up and the count of its source down.
LEMMA PopBalance ==
  ASSUME Types, OutEntries, OutPop, NEW k \in Keys \ {Zero}
  PROVE  Balance(k)' = Balance(k)
<1> DEFINE w == group[out.i]
           e == Head(outQ[w])
<1>1. w \in Workers /\ outQ[w] # <<>>
  <2>1. out.i \in 1 .. size
    BY GroupWorkers DEF OutPop, Types, OutTypes
  <2> QED
    BY <2>1, GroupWorkers DEF OutPop
<1>2. outQ' = [outQ EXCEPT ![w] = Tail(@)] /\ count' = [count EXCEPT ![e.key] = @ - 1]
  BY DEF OutPop
<1> HIDE DEF w
<1>3. outQ \in [Workers -> Seq(Entries)] /\ outQ[w] \in Seq(Entries) /\ Len(outQ[w]) <= Capacity
  BY <1>1 DEF Types
<1>4. outQ'[w] = Tail(outQ[w]) /\ \A v \in Workers \ {w} : outQ'[v] = outQ[v]
  BY <1>1, <1>2, <1>3
<1>5. /\ Len(outQ[w]) \in 1 .. Capacity /\ e = outQ[w][1]
      /\ Len(Tail(outQ[w])) = Len(outQ[w]) - 1
      /\ \A i \in 1 .. Len(outQ[w]) - 1 : Tail(outQ[w])[i] = outQ[w][i + 1]
  BY <1>1, <1>3, QueueShifts
<1>6. Shifted(outQ, outQ', w)
  BY <1>4, <1>5 DEF Shifted
<1>7. e \in Entries
  BY <1>1, <1>3, TailFits
<1>8. e.msg => e.key = Zero
  BY <1>1, <1>5 DEF OutEntries
<1> HIDE DEF e
<1>9. e = Cleanup(k) <=> e.key = k
  BY <1>7, <1>8 DEF Entries, Cleanup
<1>10. Cardinality(Slots(outQ', Cleanup(k)))
         = IF outQ[w][1] = Cleanup(k) THEN Cardinality(Slots(outQ, Cleanup(k))) - 1
                                      ELSE Cardinality(Slots(outQ, Cleanup(k)))
  BY <1>1, <1>6, SlotsTail
<1>11. Cleaning(k)' = IF e.key = k THEN Cleaning(k) - 1 ELSE Cleaning(k)
  BY <1>5, <1>9, <1>10 DEF Cleaning
<1>12. count'[k] = IF e.key = k THEN count[k] - 1 ELSE count[k]
  BY <1>2 DEF Types
<1>13. UNCHANGED <<prod, inQ, work>>
  BY DEF OutPop, UnchangedByOutput, workerVars
<1>14. InHands(k)' = InHands(k) /\ Queued(k)' = Queued(k) /\ Handled(k)' = Handled(k)
  BY <1>13 DEF InHands, Handing, At, Queued, Handled, Handling
<1>15. Active(k)' = InHands(k)' + Queued(k)' + Handled(k)' + Cleaning(k)'
  BY DEF Active, InHands, Queued, Handled, Cleaning
<1>16. count[k] \in Int
  BY DEF Types
<1> QED
  BY <1>11, <1>12, <1>14, <1>15, <1>16, CountsAreNumbers DEF Balance

\* A worker that is stopped takes its messages with it.
LEMMA StopBalance ==
  ASSUME Types, StopWorker, NEW k \in Keys
  PROVE  Balance(k)' >= Balance(k)
<1> DEFINE w == Head(group)
<1>1. w \in Workers
  BY TailFits DEF StopWorker, Types
<1>2. /\ inQ' = [inQ EXCEPT ![w] = <<>>] /\ outQ' = [outQ EXCEPT ![w] = <<>>]
      /\ work' = [work EXCEPT ![w] = NoWork]
  BY DEF StopWorker
<1> HIDE DEF w
<1>3. inQ'[w] = <<>> /\ \A v \in Workers \ {w} : inQ'[v] = inQ[v]
  BY <1>1, <1>2 DEF Types
<1>4. outQ'[w] = <<>> /\ \A v \in Workers \ {w} : outQ'[v] = outQ[v]
  BY <1>1, <1>2 DEF Types
<1>5. Queued(k)' <= Queued(k)
  <2>1. Cardinality(Slots(inQ', k)) <= Cardinality(Slots(inQ, k))
    BY <1>1, <1>3, SlotsClear
  <2> QED
    BY <2>1 DEF Queued
<1>6. Cleaning(k)' <= Cleaning(k)
  <2>1. Cardinality(Slots(outQ', Cleanup(k))) <= Cardinality(Slots(outQ, Cleanup(k)))
    BY <1>1, <1>4, SlotsClear
  <2> QED
    BY <2>1 DEF Cleaning
<1>7. Handled(k)' <= Handled(k) /\ Handled(k)' \in Nat
  <2>1. \A v \in Workers, u \in Runs : work'[v][u] = k => work[v][u] = k
    BY <1>2, ManagerAssumption DEF Types, NoWork
  <2>2. \A s \in Workers \X Runs : s[1] \in Workers /\ s[2] \in Runs
    OBVIOUS
  <2>3. Handling(k)' \subseteq Handling(k)
    BY <2>1, <2>2 DEF Handling
  <2> QED
    BY <2>3, CountsAreNumbers, FS_Subset, FS_CardinalityType DEF Handled
<1>8. UNCHANGED <<prod, count>>
  BY DEF StopWorker, producerVars
<1>9. InHands(k)' = InHands(k)
  BY <1>8 DEF InHands, Handing, At
<1>10. Active(k)' = InHands(k)' + Queued(k)' + Handled(k)' + Cleaning(k)'
  BY DEF Active, InHands, Queued, Handled, Cleaning
<1>11. Queued(k)' \in Nat /\ Cleaning(k)' \in Nat
  BY SlotsFinite DEF Queued, Cleaning
<1>12. count[k] \in Int
  BY DEF Types
<1> QED
  BY <1>5, <1>6, <1>7, <1>8, <1>9, <1>10, <1>11, <1>12, CountsAreNumbers DEF Balance

\* No step takes more from the count of a source than from its messages; as
\* long as no message of it is lost and nothing is stopped, it takes the same.
LEMMA StepBalance ==
  ASSUME Types, OutEntries, Alone, Undisturbed, ManagerNext, NEW k \in Keys \ {Zero}
  PROVE  /\ Balance(k)' >= Balance(k)
         /\ k \notin lost' /\ stop' = "no" => Balance(k)' = Balance(k)
<1>1. Balance(k) \in Int
  BY CountsAreNumbers DEF Types, Balance
<1>2. ASSUME UNCHANGED <<count, prod, inQ, outQ, work>>
      PROVE  Balance(k)' = Balance(k)
  BY <1>2 DEF Balance, Active, Handing, At, Handling
<1>3. CASE Start \/ set_strategy \/ SpuriousWake
  BY <1>1, <1>2, <1>3 DEF Start, set_strategy, SpuriousWake, UnchangedByOutput,
                          producerVars, workerVars, queueVars
<1>4. CASE Output
  <2>1. CASE OutPop
    BY <1>1, <2>1, PopBalance
  <2>2. CASE OutCheck \/ OutPark \/ OutLoopEnds \/ OutSkip \/ OutClear
    BY <1>1, <1>2, <2>2 DEF OutCheck, OutPark, OutLoopEnds, OutSkip, OutClear,
                            UnchangedByOutput, workerVars
  <2> QED
    BY <1>4, <2>1, <2>2 DEF Output
<1>5. CASE Stop
  <2>1. CASE StopWorker
    <3>1. stop' # "no"
      BY <2>1 DEF StopWorker
    <3> QED
      BY <2>1, <3>1, StopBalance
  <2>2. CASE StopBegin \/ StopJoin \/ StopReturns
    BY <1>1, <1>2, <2>2 DEF StopBegin, StopJoin, StopReturns, producerVars, workerVars, queueVars
  <2> QED
    BY <1>5, <2>1, <2>2 DEF Stop
<1>6. ASSUME NEW p \in Producers, Assign(p)
      PROVE  /\ Balance(k)' >= Balance(k)
             /\ k \notin lost' => Balance(k)' = Balance(k)
  BY <1>1, <1>6, BeginBalance, GoOnBalance, PushBalance DEF Assign, AssignGoesOn
<1>7. ASSUME NEW w \in Workers, NEW r \in Runs, Worker(w, r)
      PROVE  /\ Balance(k)' >= Balance(k)
             /\ k \notin lost' => Balance(k)' = Balance(k)
  BY <1>1, <1>7, TakeBalance, DropBalance, EmitBalance, FinishBalance DEF Worker, Undisturbed
<1> QED
  BY <1>3, <1>4, <1>5, <1>6, <1>7 DEF ManagerNext

\* Messages are queued with 0:0, clean-ups without a message.
LEMMA OutEntriesStep ==
  ASSUME Types, OutEntries, [ManagerNext]_managerVars
  PROVE  OutEntries'
<1>1. ASSUME NEW w \in Workers, NEW e \in Entries, PushOut(w, e), e.msg => e.key = Zero
      PROVE  OutEntries'
  <2>1. CASE outQ' = outQ
    BY <2>1 DEF OutEntries
  <2>2. CASE outQ' = [outQ EXCEPT ![w] = Append(@, e)]
    <3>1. outQ \in [Workers -> Seq(Entries)] /\ outQ[w] \in Seq(Entries)
      BY DEF Types
    <3>2. /\ Len(Append(outQ[w], e)) = Len(outQ[w]) + 1
          /\ Append(outQ[w], e)[Len(outQ[w]) + 1] = e
          /\ \A i \in 1 .. Len(outQ[w]) : Append(outQ[w], e)[i] = outQ[w][i]
      BY <3>1, AppendProperties
    <3>3. outQ'[w] = Append(outQ[w], e) /\ \A v \in Workers \ {w} : outQ'[v] = outQ[v]
      BY <2>2, <3>1
    <3>4. Len(outQ[w]) \in Nat
      BY <3>1
    <3>5. ASSUME NEW v \in Workers, NEW i \in 1 .. Len(outQ'[v])
          PROVE  outQ'[v][i].msg => outQ'[v][i].key = Zero
      <4>1. CASE v = w /\ i = Len(outQ[w]) + 1
        BY <1>1, <3>2, <3>3, <4>1
      <4>2. CASE v = w /\ i # Len(outQ[w]) + 1
        <5>1. i \in 1 .. Len(outQ[w])
          BY <3>2, <3>3, <3>4, <3>5, <4>2
        <5>2. outQ'[v][i] = outQ[w][i]
          BY <3>2, <3>3, <4>2, <5>1
        <5> QED
          BY <5>1, <5>2 DEF OutEntries
      <4>3. CASE v # w
        BY <3>3, <4>3 DEF OutEntries
      <4> QED
        BY <4>1, <4>2, <4>3
    <3> QED
      BY <3>5 DEF OutEntries
  <2> QED
    BY <1>1, <2>1, <2>2 DEF PushOut
<1>2. ASSUME UNCHANGED outQ
      PROVE  OutEntries'
  BY <1>2 DEF OutEntries
<1>3. CASE Start \/ set_strategy \/ SpuriousWake \/ UNCHANGED managerVars
  BY <1>2, <1>3 DEF Start, set_strategy, SpuriousWake, queueVars, managerVars
<1>4. ASSUME NEW p \in Producers, Assign(p)
      PROVE  OutEntries'
  BY <1>2, <1>4 DEF Assign, AssignGoesOn, AssignBegin, AssignRead, AssignChoose, AssignBump,
                    AssignReset, AssignWrite, AssignPush, AssignLoad, AssignFill, AssignStore,
                    AssignCount, queueVars
<1>5. ASSUME NEW w \in Workers, NEW r \in Runs, Worker(w, r)
      PROVE  OutEntries'
  <2>1. CASE Take(w, r) \/ Drop(w, r)
    BY <1>2, <2>1 DEF Take, Drop
  <2>2. CASE Emit(w, r)
    <3>1. Outgoing \in Entries /\ Outgoing.key = Zero
      BY ManagerAssumption DEF Outgoing, Entries
    <3> QED
      BY <1>1, <2>2, <3>1 DEF Emit, OutgoingOf
  <2>3. CASE Finish(w, r)
    <3>1. work[w][r] \in Keys
      BY <2>3 DEF Finish, Busy, Types
    <3>2. Cleanup(work[w][r]) \in Entries /\ ~Cleanup(work[w][r]).msg
      BY <3>1 DEF Cleanup, Entries
    <3> QED
      BY <1>1, <2>3, <3>2 DEF Finish
  <2> QED
    BY <1>5, <2>1, <2>2, <2>3 DEF Worker
<1>6. CASE Output
  <2>1. CASE OutCheck \/ OutPark \/ OutLoopEnds \/ OutSkip \/ OutClear
    BY <1>2, <2>1 DEF OutCheck, OutPark, OutLoopEnds, OutSkip, OutClear
  <2>2. CASE OutPop
    <3> DEFINE w == group[out.i]
    <3>1. w \in Workers /\ outQ[w] # <<>>
      <4>1. out.i \in 1 .. size
        BY <2>2, GroupWorkers DEF OutPop, Types, OutTypes
      <4> QED
        BY <2>2, <4>1, GroupWorkers DEF OutPop
    <3>2. outQ' = [outQ EXCEPT ![w] = Tail(@)]
      BY <2>2 DEF OutPop
    <3> HIDE DEF w
    <3>3. outQ \in [Workers -> Seq(Entries)] /\ outQ[w] \in Seq(Entries) /\ Len(outQ[w]) <= Capacity
      BY <3>1 DEF Types
    <3>4. outQ'[w] = Tail(outQ[w]) /\ \A v \in Workers \ {w} : outQ'[v] = outQ[v]
      BY <3>1, <3>2, <3>3
    <3>5. /\ Len(outQ[w]) \in Nat
          /\ Len(Tail(outQ[w])) = Len(outQ[w]) - 1
          /\ \A i \in 1 .. Len(outQ[w]) - 1 : Tail(outQ[w])[i] = outQ[w][i + 1]
      BY <3>1, <3>3, QueueShifts
    <3>6. ASSUME NEW i \in 1 .. Len(Tail(outQ[w]))
          PROVE  Tail(outQ[w])[i].msg => Tail(outQ[w])[i].key = Zero
      <4>1. i + 1 \in 1 .. Len(outQ[w]) /\ Tail(outQ[w])[i] = outQ[w][i + 1]
        BY <3>5
      <4> QED
        BY <3>1, <4>1 DEF OutEntries
    <3> QED
      BY <3>4, <3>6 DEF OutEntries
  <2> QED
    BY <1>6, <2>1, <2>2 DEF Output
<1>7. CASE Stop
  <2>1. CASE StopBegin \/ StopJoin \/ StopReturns
    BY <1>2, <2>1 DEF StopBegin, StopJoin, StopReturns, queueVars
  <2>2. CASE StopWorker
    <3>1. outQ' = [outQ EXCEPT ![Head(group)] = <<>>]
      BY <2>2 DEF StopWorker
    <3>2. \A v \in Workers : outQ'[v] = <<>> \/ outQ'[v] = outQ[v]
      BY <3>1 DEF Types
    <3> QED
      BY <3>2, EmptySeq DEF OutEntries
  <2> QED
    BY <1>7, <2>1, <2>2 DEF Stop
<1> QED
  BY <1>3, <1>4, <1>5, <1>6, <1>7 DEF ManagerNext

-----------------------------------------------------------------------------
(* The count covers a source's messages, and the assignment is given back. *)

\* As long as the queues are used as they are made to be, the count of a source
\* is at least the number of its messages.
Covers == Undisturbed => \A k \in Keys \ {Zero} : Balance(k) >= 0

\* A source of which nothing was lost has exactly that count; once it is 0 the
\* source has no thread, or the output thread is about to take it back.
Exact ==
  Undisturbed /\ stop = "no" =>
    \A k \in Keys \ ({Zero} \cup lost) :
       /\ Balance(k) = 0
       /\ count[k] = 0 /\ threadId[k] # NoThread => out.pc = "clear" /\ out.key = k

Resetting == {p \in Producers : At(p, "reset")}

\* The round robin's index is beyond the last thread by one at most for each
\* producer that has yet to reset it, and so is a thread that was chosen.
Chosen ==
  stop = "no" =>
    /\ next = 0 \/ next <= size - 1 + Cardinality(Resetting)
    /\ \A p \in Producers :
          /\ ~At(p, "idle") => size > 0
          /\ prod[p].pc \in {"bump", "reset", "write", "push"} => prod[p].tId < size + Overshoot
    /\ \A k \in Keys : threadId[k] # NoThread => threadId[k] < size + Overshoot

ManagerInv == Types /\ OutEntries /\ Alone /\ Covers /\ Exact /\ Chosen

\* At first there is no message anywhere.
LEMMA InitCounts == ManagerInit => OutEntries /\ Alone /\ Covers /\ Exact
<1> SUFFICES ASSUME ManagerInit PROVE OutEntries /\ Alone /\ Covers /\ Exact
  OBVIOUS
<1>1. OutEntries
  BY EmptySeq DEF ManagerInit, OutEntries
<1>2. ASSUME NEW k \in Keys \ {Zero}
      PROVE  Balance(k) = 0 /\ threadId[k] = NoThread
  <2>1. Handing(k) = {}
    BY DEF ManagerInit, Handing, At, Idle
  <2>2. Slots(inQ, k) = {} /\ Slots(outQ, Cleanup(k)) = {}
    BY EmptySeq DEF ManagerInit, Slots
  <2>3. Handling(k) = {}
    BY ManagerAssumption DEF ManagerInit, Handling, NoWork
  <2>4. Cardinality({}) = 0
    BY FS_EmptySet
  <2>5. Active(k) = 0
    BY <2>1, <2>2, <2>3, <2>4 DEF Active
  <2>6. count[k] = 0 /\ threadId[k] = NoThread
    BY DEF ManagerInit
  <2> QED
    BY <2>5, <2>6 DEF Balance
<1>3. Covers /\ Exact
  BY <1>2 DEF Covers, Exact
<1>4. Alone
  BY EmptySeq DEF ManagerInit, Alone, Pushing, Idle
<1> QED
  BY <1>1, <1>3, <1>4

\* After a step the balance is a number too.
LEMMA BalanceNext ==
  ASSUME Types', NEW k \in Keys
  PROVE  Balance(k)' \in Int
<1>1. Handing(k)' \in SUBSET Producers /\ Handling(k)' \in SUBSET (Workers \X Runs)
  BY DEF Handing, Handling
<1>2. IsFiniteSet(Producers) /\ IsFiniteSet(Workers \X Runs)
  BY ManagerAssumption, WorkersFinite, FS_Product
<1>3. Cardinality(Handing(k)') \in Nat /\ Cardinality(Handling(k)') \in Nat
  BY <1>1, <1>2, FS_Subset, FS_CardinalityType
<1>4. Cardinality(Slots(inQ', k)) \in Nat /\ Cardinality(Slots(outQ', Cleanup(k))) \in Nat
  BY SlotsFinite
<1>5. count'[k] \in Int
  BY DEF Types
<1> QED
  BY <1>3, <1>4, <1>5 DEF Balance, Active

\* The group never loses a size, and Stop is never taken back.
LEMMA SizedOnce ==
  ASSUME Types, [ManagerNext]_managerVars
  PROVE  /\ configured' <= 1 => configured <= 1
         /\ stop' = "no" => stop = "no" /\ (Start \/ UNCHANGED <<configured, group>>)
<1>1. CASE Start
  <2>1. configured \in Nat
    BY ManagerAssumption DEF Types
  <2> QED
    BY <1>1, <2>1 DEF Start
<1>2. CASE set_strategy \/ SpuriousWake \/ UNCHANGED managerVars
  BY <1>2 DEF set_strategy, SpuriousWake, UnchangedByOutput, managerVars
<1>3. CASE Output
  BY <1>3 DEF Output, OutCheck, OutPark, OutLoopEnds, OutSkip, OutPop, OutClear, UnchangedByOutput
<1>4. CASE Stop
  BY <1>4 DEF Stop, StopBegin, StopWorker, StopJoin, StopReturns
<1>5. ASSUME NEW p \in Producers, Assign(p)
      PROVE  UNCHANGED <<configured, group, stop>>
  BY <1>5 DEF Assign, AssignGoesOn, AssignBegin, AssignRead, AssignChoose, AssignBump, AssignReset,
              AssignWrite, AssignPush, AssignLoad, AssignFill, AssignStore, AssignCount,
              UnchangedByAssign
<1>6. ASSUME NEW w \in Workers, NEW r \in Runs, Worker(w, r)
      PROVE  UNCHANGED <<configured, group, stop>>
  BY <1>6 DEF Worker, Take, Drop, Emit, Finish
<1> QED
  BY <1>1, <1>2, <1>3, <1>4, <1>5, <1>6 DEF ManagerNext

\* Pushes that overlapped have done so.
LEMMA OverlapStays ==
  ASSUME [ManagerNext]_managerVars
  PROVE  overlap => overlap'
<1>1. CASE Start \/ set_strategy \/ SpuriousWake \/ UNCHANGED managerVars
  BY <1>1 DEF Start, set_strategy, SpuriousWake, UnchangedByOutput, queueVars, ringVars, managerVars
<1>2. CASE Output
  BY <1>2 DEF Output, OutCheck, OutPark, OutLoopEnds, OutSkip, OutPop, OutClear, UnchangedByOutput,
              ringVars
<1>3. CASE Stop
  BY <1>3 DEF Stop, StopBegin, StopWorker, StopJoin, StopReturns, queueVars, ringVars
<1>4. ASSUME NEW p \in Producers, Assign(p)
      PROVE  overlap => overlap'
  BY <1>4 DEF Assign, AssignGoesOn, AssignBegin, AssignRead, AssignChoose, AssignBump, AssignReset,
              AssignWrite, AssignPush, AssignLoad, AssignFill, AssignStore, AssignCount, GivesUp,
              queueVars, ringVars
<1>5. ASSUME NEW w \in Workers, NEW r \in Runs, Worker(w, r)
      PROVE  overlap => overlap'
  BY <1>5 DEF Worker, Take, Drop, Emit, Finish, ringVars
<1> QED
  BY <1>1, <1>2, <1>3, <1>4, <1>5 DEF ManagerNext

\* A step that leaves the rings, and every push that goes on, keeps Alone.
LEMMA AloneKept ==
  ASSUME Types, Alone, Undisturbed, UNCHANGED <<configured, group, inQ, old>>,
         \A p \in Producers : Pushing(p)' => prod'[p] = prod[p] /\ loaded'[p] = loaded[p]
  PROVE  Alone'
<1>1. \A p \in Producers : Pushing(p)' => Pushing(p) /\ loaded'[p] = loaded[p] /\ prod'[p] = prod[p]
  BY DEF Pushing
<1>2. /\ configured = 0 => group = <<>> /\ \A p \in Producers : ~Pushing(p)
      /\ \A i, j \in 1 .. Len(group) : group[i] = group[j] => i = j
  BY DEF Alone
<1>3. \A p, q \in Producers : Pushing(p) /\ Pushing(q) /\ loaded[p].to = loaded[q].to => p = q
  BY DEF Alone
<1>4. \A p, q \in Producers : Pushing(p)' /\ Pushing(q)' /\ loaded'[p].to = loaded'[q].to => p = q
  BY <1>1, <1>3
<1>5. ASSUME NEW p \in Producers, Pushing(p)', loaded'[p].to \in ToSet(group)
      PROVE  /\ loaded'[p].at = Len(inQ[loaded'[p].to])
             /\ prod'[p].pc = "store" => /\ loaded'[p].at < Capacity
                                         /\ old[loaded'[p].to][1] = prod'[p].key
  BY <1>1, <1>5 DEF Alone
<1> QED
  BY <1>1, <1>2, <1>4, <1>5 DEF Alone

\* The same of a producer's steps.
LEMMA AloneByAssign ==
  ASSUME Types, Alone, Undisturbed', NEW p \in Producers, Assign(p), Undisturbed
  PROVE  Alone'
<1>1. UNCHANGED <<configured, group>>
  BY DEF Assign, AssignGoesOn, AssignBegin, AssignRead, AssignChoose, AssignBump, AssignReset,
         AssignWrite, AssignPush, AssignLoad, AssignFill, AssignStore, AssignCount, UnchangedByAssign
<1>2. /\ prod \in [Producers -> [pc : Pcs, key : Keys, tId : {NoThread} \cup Nat]]
      /\ loaded \in [Producers -> [to : Workers \cup {NoThread}, at : 0 .. Capacity]]
  BY DEF Types, RingTypes
<1>3. /\ configured = 0 => group = <<>> /\ \A q \in Producers : ~Pushing(q)
      /\ \A i, j \in 1 .. Len(group) : group[i] = group[j] => i = j
  BY DEF Alone
<1>4. \A q, u \in Producers : Pushing(q) /\ Pushing(u) /\ loaded[q].to = loaded[u].to => q = u
  BY DEF Alone
<1>5. \A q \in Producers : Pushing(q) /\ loaded[q].to \in ToSet(group) =>
          /\ loaded[q].at = Len(inQ[loaded[q].to])
          /\ prod[q].pc = "store" => /\ loaded[q].at < Capacity
                                     /\ old[loaded[q].to][1] = prod[q].key
  BY DEF Alone
<1>6. CASE AssignBegin(p) \/ AssignRead(p) \/ AssignChoose(p) \/ AssignBump(p) \/ AssignReset(p)
             \/ AssignWrite(p)
  <2>1. UNCHANGED <<inQ, old, loaded>>
    BY <1>6 DEF AssignBegin, AssignRead, AssignChoose, AssignBump, AssignReset, AssignWrite,
                queueVars, ringVars
  <2>2. \A q \in Producers : Pushing(q)' => prod'[q] = prod[q]
    BY <1>2, <1>6 DEF AssignBegin, AssignRead, AssignChoose, AssignBump, AssignReset, AssignWrite,
                      Goto, Pushing
  <2> QED
    BY <1>1, <2>1, <2>2, AloneKept
<1>7. CASE GivesUp(p) \/ AssignCount(p)
  <2>1. UNCHANGED <<inQ, old>>
    BY <1>7 DEF GivesUp, AssignCount
  <2>2. \A q \in Producers : Pushing(q)' => prod'[q] = prod[q] /\ loaded'[q] = loaded[q]
    BY <1>2, <1>7 DEF GivesUp, AssignCount, Pushing, Idle
  <2> QED
    BY <1>1, <2>1, <2>2, AloneKept
<1>8. CASE AssignLoad(p) /\ ~GivesUp(p)
  <2> DEFINE v == group[prod[p].tId + 1]
  <2>1. /\ loaded' = [loaded EXCEPT ![p] = [to |-> v, at |-> Len(inQ[v])]]
        /\ prod' = [prod EXCEPT ![p].pc = "fill"] /\ UNCHANGED <<inQ, old>>
        /\ prod[p].tId < size
        /\ overlap' = (overlap \/ \E q \in Producers : Pushing(q) /\ loaded[q].to = v)
    BY <1>8 DEF AssignLoad, Goto
  <2>2. \A q \in Producers : Pushing(q) => loaded[q].to # v
    BY <2>1 DEF Undisturbed
  <2>3. configured # 0
    <3>1. prod[p].tId \in Nat
      BY <1>8 DEF AssignLoad, At, Types
    <3> QED
      BY <1>3, <2>1, <3>1 DEF size
  <2> HIDE DEF v
  <2>4. /\ loaded'[p].to = v /\ loaded'[p].at = Len(inQ[v]) /\ prod'[p].pc = "fill"
        /\ \A q \in Producers \ {p} : prod'[q] = prod[q] /\ loaded'[q] = loaded[q]
    BY <1>2, <2>1
  <2>5. \A q \in Producers \ {p} : Pushing(q)' => Pushing(q) /\ loaded'[q].to # v
    BY <2>2, <2>4 DEF Pushing
  <2>6. \A q, u \in Producers : Pushing(q)' /\ Pushing(u)' /\ loaded'[q].to = loaded'[u].to => q = u
    BY <1>4, <2>4, <2>5
  <2>7. ASSUME NEW q \in Producers, Pushing(q)', loaded'[q].to \in ToSet(group)
        PROVE  /\ loaded'[q].at = Len(inQ[loaded'[q].to])
               /\ prod'[q].pc = "store" => /\ loaded'[q].at < Capacity
                                           /\ old[loaded'[q].to][1] = prod'[q].key
    <3>1. CASE q = p
      BY <2>4, <3>1
    <3>2. CASE q # p
      BY <1>5, <2>4, <2>5, <2>7, <3>2
    <3> QED
      BY <3>1, <3>2
  <2> QED
    BY <1>1, <1>3, <2>1, <2>3, <2>6, <2>7 DEF Alone
<1>9. CASE AssignFill(p) /\ ~GivesUp(p)
  <2> DEFINE w == loaded[p].to
  <2>1. /\ prod' = [prod EXCEPT ![p].pc = "store"] /\ UNCHANGED loaded /\ Pushing(p)
        /\ w \in Workers
    BY <1>9 DEF AssignFill, Goto, At, Pushing, Types, RingTypes
  <2>2. /\ inQ' = inQ /\ loaded[p].at < Capacity /\ old'[w][1] = prod[p].key
        /\ \A v \in Workers \ {w} : old'[v] = old[v]
    BY <1>9, FillsBeyond
  <2>3. /\ prod'[p].pc = "store" /\ prod'[p].key = prod[p].key
        /\ \A q \in Producers \ {p} : prod'[q] = prod[q]
    BY <1>2, <2>1
  <2> HIDE DEF w
  <2>4. \A q \in Producers : Pushing(q)' => Pushing(q) /\ (q # p => loaded[q].to # w)
    BY <1>4, <2>1, <2>3 DEF Pushing, w
  <2>5. \A q, u \in Producers : Pushing(q)' /\ Pushing(u)' /\ loaded'[q].to = loaded'[u].to => q = u
    BY <1>4, <2>1, <2>4
  <2>6. ASSUME NEW q \in Producers, Pushing(q)', loaded'[q].to \in ToSet(group)
        PROVE  /\ loaded'[q].at = Len(inQ[loaded'[q].to])
               /\ prod'[q].pc = "store" => /\ loaded'[q].at < Capacity
                                           /\ old'[loaded'[q].to][1] = prod'[q].key
    <3>1. CASE q = p
      BY <1>5, <2>1, <2>2, <2>3, <2>6, <3>1 DEF w
    <3>2. CASE q # p
      <4>1. loaded[q].to # w /\ loaded[q].to \in Workers
        BY <2>4, <2>6, <3>2 DEF Types, RingTypes, Pushing
      <4>2. old'[loaded[q].to] = old[loaded[q].to] /\ prod'[q] = prod[q] /\ Pushing(q)
        BY <2>2, <2>3, <2>4, <2>6, <3>2, <4>1
      <4> QED
        BY <1>5, <2>1, <2>6, <4>2
    <3> QED
      BY <3>1, <3>2
  <2> QED
    BY <1>1, <1>3, <2>1, <2>2, <2>4, <2>5, <2>6 DEF Alone
<1>10. CASE AssignStore(p) /\ ~GivesUp(p)
  <2> DEFINE w == loaded[p].to
  <2>1. /\ prod' = [prod EXCEPT ![p].pc = "count"] /\ UNCHANGED loaded /\ Pushing(p)
        /\ w \in Workers
    BY <1>10 DEF AssignStore, Goto, At, Pushing, Types, RingTypes
  <2>2. /\ inQ' = [inQ EXCEPT ![w] = Append(@, prod[p].key)]
        /\ \A v \in Workers \ {w} : old'[v] = old[v]
    BY <1>10, StoresNext
  <2>3. prod'[p].pc = "count" /\ \A q \in Producers \ {p} : prod'[q] = prod[q]
    BY <1>2, <2>1
  <2>8. \A v \in Workers \ {w} : inQ'[v] = inQ[v]
    BY <2>2 DEF Types
  <2> HIDE DEF w
  <2>4. \A q \in Producers : Pushing(q)' => Pushing(q) /\ q # p /\ loaded[q].to # w
    BY <1>4, <2>1, <2>3 DEF Pushing, w
  <2>5. \A q, u \in Producers : Pushing(q)' /\ Pushing(u)' /\ loaded'[q].to = loaded'[u].to => q = u
    BY <1>4, <2>1, <2>4
  <2>6. ASSUME NEW q \in Producers, Pushing(q)', loaded'[q].to \in ToSet(group)
        PROVE  /\ loaded'[q].at = Len(inQ'[loaded'[q].to])
               /\ prod'[q].pc = "store" => /\ loaded'[q].at < Capacity
                                           /\ old'[loaded'[q].to][1] = prod'[q].key
    <3>1. q # p /\ loaded[q].to # w /\ Pushing(q)
      BY <2>4, <2>6
    <3>2. loaded[q].to \in Workers /\ prod'[q] = prod[q]
      BY <2>3, <3>1 DEF Types, RingTypes, Pushing
    <3>3. old'[loaded[q].to] = old[loaded[q].to] /\ inQ'[loaded[q].to] = inQ[loaded[q].to]
      BY <2>2, <2>8, <3>1, <3>2
    <3> QED
      BY <1>5, <2>1, <2>6, <3>1, <3>2, <3>3
  <2> QED
    BY <1>1, <1>3, <2>1, <2>4, <2>5, <2>6 DEF Alone
<1> QED
  BY <1>6, <1>7, <1>8, <1>9, <1>10 DEF Assign, AssignGoesOn, AssignPush

\* And of a pop: what was read is at the ring's other end.
LEMMA AloneByPop ==
  ASSUME Types, Alone, Undisturbed, NEW w \in Workers, inQ[w] # <<>>, Pop(w),
         UNCHANGED <<configured, group, prod>>
  PROVE  Alone'
<1>1. starts[w] \in Nat /\ starts[w] <= 1
  BY ManagerAssumption DEF Types, Undisturbed
<1>2. /\ inQ' = [inQ EXCEPT ![w] = Tail(@)]
      /\ old' = [old EXCEPT ![w] = Append(@, Head(inQ[w]))]
      /\ loaded' = [p \in Producers |->
           IF loaded[p].to # w THEN loaded[p]
           ELSE [loaded[p] EXCEPT !.at = IF @ = 0 THEN Capacity ELSE @ - 1]]
  BY <1>1 DEF Pop
<1>3. /\ inQ \in [Workers -> Seq(Keys)] /\ inQ[w] \in Seq(Keys)
      /\ old \in [Workers -> Seq(Keys \cup {NoThread})] /\ old[w] \in Seq(Keys \cup {NoThread})
      /\ loaded \in [Producers -> [to : Workers \cup {NoThread}, at : 0 .. Capacity]]
  BY DEF Types, RingTypes
<1>4. Len(inQ[w]) \in 1 .. Capacity /\ Len(Tail(inQ[w])) = Len(inQ[w]) - 1 /\ Head(inQ[w]) \in Keys
  <2>1. Len(inQ[w]) <= Capacity
    BY DEF Types
  <2> QED
    BY <1>3, <2>1, QueueShifts, TailFits
<1>5. Append(old[w], Head(inQ[w]))[1] = old[w][1]
  <2>1. Len(old[w]) = Capacity + 1 - Len(inQ[w])
    BY RingSlots
  <2>2. 1 \in 1 .. Len(old[w])
    BY <1>4, <2>1, ManagerAssumption
  <2> QED
    BY <1>3, <1>4, <2>2, AppendProperties
<1>6. /\ Len(inQ'[w]) = Len(inQ[w]) - 1 /\ old'[w][1] = old[w][1]
      /\ \A v \in Workers \ {w} : inQ'[v] = inQ[v] /\ old'[v] = old[v]
  BY <1>2, <1>3, <1>4, <1>5
<1>7. \A p \in Producers :
        /\ loaded'[p].to = loaded[p].to
        /\ loaded[p].to # w => loaded'[p].at = loaded[p].at
        /\ loaded[p].to = w /\ loaded[p].at # 0 => loaded'[p].at = loaded[p].at - 1
  BY <1>2, <1>3
<1>8. /\ configured = 0 => group = <<>> /\ \A q \in Producers : ~Pushing(q)
      /\ \A i, j \in 1 .. Len(group) : group[i] = group[j] => i = j
      /\ \A p, q \in Producers : Pushing(p) /\ Pushing(q) /\ loaded[p].to = loaded[q].to => p = q
  BY DEF Alone
<1>9. ASSUME NEW p \in Producers, Pushing(p), loaded[p].to \in ToSet(group)
      PROVE  /\ loaded'[p].at = Len(inQ'[loaded[p].to])
             /\ prod[p].pc = "store" => /\ loaded'[p].at < Capacity
                                        /\ old'[loaded[p].to][1] = prod[p].key
  <2>1. /\ loaded[p].at = Len(inQ[loaded[p].to]) /\ loaded[p].at \in 0 .. Capacity
        /\ prod[p].pc = "store" => /\ loaded[p].at < Capacity
                                   /\ old[loaded[p].to][1] = prod[p].key
    BY <1>3, <1>9 DEF Alone
  <2>2. loaded[p].to \in Workers
    BY <1>9 DEF Types, RingTypes, Pushing
  <2>3. CASE loaded[p].to = w
    <3>1. loaded'[p].at = loaded[p].at - 1 /\ loaded[p].at \in 1 .. Capacity
      BY <1>4, <1>7, <2>1, <2>3
    <3>2. loaded'[p].at = Len(inQ'[w]) /\ loaded'[p].at < Capacity
      BY <1>6, <2>1, <2>3, <3>1, ManagerAssumption
    <3> QED
      BY <1>6, <2>1, <2>3, <3>2
  <2>4. CASE loaded[p].to # w
    BY <1>6, <1>7, <2>1, <2>2, <2>4
  <2> QED
    BY <2>3, <2>4
<1>10. \A p \in Producers : Pushing(p)' <=> Pushing(p)
  BY DEF Pushing
<1> QED
  BY <1>7, <1>8, <1>9, <1>10 DEF Alone

\* Every step keeps it, as long as no two pushes to one queue overlap.
LEMMA AloneStep ==
  ASSUME Types, Alone, [ManagerNext]_managerVars
  PROVE  Alone'
<1> SUFFICES ASSUME Undisturbed'
             PROVE  Alone'
  BY DEF Alone
<1>1. Undisturbed
  BY SizedOnce, OverlapStays DEF Undisturbed
<1>2. CASE set_strategy \/ SpuriousWake \/ Output \/ StopBegin \/ StopJoin \/ StopReturns
             \/ UNCHANGED managerVars
  <2>1. UNCHANGED <<configured, group, inQ, old, prod, loaded>>
    BY <1>2 DEF set_strategy, SpuriousWake, Output, OutCheck, OutPark, OutLoopEnds, OutSkip, OutPop,
                OutClear, UnchangedByOutput, StopBegin, StopJoin, StopReturns, managerVars,
                producerVars, queueVars, ringVars
  <2> QED
    BY <1>1, <2>1, AloneKept
<1>3. ASSUME NEW p \in Producers, Assign(p)
      PROVE  Alone'
  BY <1>1, <1>3, AloneByAssign
<1>4. ASSUME NEW w \in Workers, NEW r \in Runs, Worker(w, r)
      PROVE  Alone'
  <2>1. CASE Take(w, r) \/ Drop(w, r)
    <3>1. inQ[w] # <<>> /\ Pop(w) /\ UNCHANGED <<configured, group, prod>>
      BY <2>1 DEF Take, Drop, CanTake, producerVars
    <3> QED
      BY <1>1, <3>1, AloneByPop
  <2>2. CASE Emit(w, r) \/ Finish(w, r)
    <3>1. UNCHANGED <<configured, group, inQ, old, prod, loaded>>
      BY <2>2 DEF Emit, Finish, producerVars, ringVars
    <3> QED
      BY <1>1, <3>1, AloneKept
  <2> QED
    BY <1>4, <2>1, <2>2 DEF Worker
<1>5. CASE Start
  <2> DEFINE n == Sizes[configured + 1]
             more == [i \in 1 .. n - size |-> size + i]
  <2>1. configured = 0 /\ configured' = 1
    BY <1>5, ManagerAssumption DEF Start, Undisturbed, Types
  <2>2. group = <<>> /\ size = 0 /\ \A p \in Producers : ~Pushing(p)
    BY <1>1, <2>1 DEF Alone, size
  <2>3. n \in Nat /\ n > 0
    BY <1>5, <2>1, <2>2, ManagerAssumption DEF Start
  <2>4. more \in Seq(Nat) /\ Len(more) = n /\ \A i \in 1 .. n : more[i] = i
    <3>1. n - size = n
      BY <2>2, <2>3
    <3>2. more = [i \in 1 .. n |-> 0 + i] /\ n \in Nat
      BY <2>2, <2>3, <3>1
    <3> HIDE DEF more, n
    <3>3. more \in [1 .. n -> Nat] /\ \A i \in 1 .. n : more[i] = i
      BY <3>2
    <3> QED
      BY <3>2, <3>3
  <2>5. group' = group \o more
    BY <1>5 DEF Start
  <2> HIDE DEF n, more
  <2>6. group' = more
    BY <2>2, <2>4, <2>5
  <2>7. \A p \in Producers : ~Pushing(p)'
    BY <1>5, <2>2 DEF Start, producerVars, Pushing
  <2> QED
    BY <2>1, <2>4, <2>6, <2>7 DEF Alone
<1>6. CASE StopWorker
  <2> DEFINE w == Head(group)
  <2>1. /\ UNCHANGED <<configured, prod, loaded>> /\ group # <<>> /\ group' = Tail(group)
        /\ inQ' = [inQ EXCEPT ![w] = <<>>] /\ old' = [old EXCEPT ![w] = NeverUsed]
    BY <1>6 DEF StopWorker, producerVars
  <2>2. /\ group \in Seq(Workers) /\ w = group[1] /\ Len(group) \in Nat \ {0}
        /\ Len(group') = Len(group) - 1 /\ \A i \in 1 .. Len(group) - 1 : group'[i] = group[i + 1]
    BY <2>1, HeadTailProperties, EmptySeq DEF Types
  <2> HIDE DEF w
  <2>3. /\ configured # 0 \/ group = <<>>
        /\ \A i, j \in 1 .. Len(group) : group[i] = group[j] => i = j
        /\ \A p, q \in Producers : Pushing(p) /\ Pushing(q) /\ loaded[p].to = loaded[q].to => p = q
    BY <1>1 DEF Alone
  <2>4. \A i \in 1 .. Len(group') : i + 1 \in 1 .. Len(group) /\ i + 1 # 1 /\ group'[i] = group[i + 1]
    BY <2>2
  <2>5. \A i \in 1 .. Len(group') : group'[i] # w /\ group'[i] \in ToSet(group)
                                  /\ group'[i] \in Workers
    <3>1. 1 \in 1 .. Len(group)
      BY <2>2
    <3>2. \A i \in 1 .. Len(group) : group[i] \in ToSet(group) /\ group[i] \in Workers
      BY <2>2 DEF ToSet
    <3> QED
      BY <2>2, <2>3, <2>4, <3>1, <3>2
  <2>6. \A i, j \in 1 .. Len(group') : group'[i] = group'[j] => i = j
    <3>1. ASSUME NEW i \in 1 .. Len(group'), NEW j \in 1 .. Len(group'), group'[i] = group'[j]
          PROVE  i = j
      <4>1. i + 1 = j + 1
        BY <2>3, <2>4, <3>1
      <4>2. i \in Nat /\ j \in Nat
        BY <2>2
      <4> QED
        BY <4>1, <4>2
    <3> QED
      BY <3>1
  <2>7. ToSet(group') = {group'[i] : i \in 1 .. Len(group')}
    <3>1. group' \in Seq(Workers)
      BY <2>1, <2>2, TailFits
    <3>2. DOMAIN group' = 1 .. Len(group')
      BY <3>1
    <3> QED
      BY <3>2 DEF ToSet
  <2>8. ASSUME NEW p \in Producers, Pushing(p), loaded[p].to \in ToSet(group')
        PROVE  /\ loaded[p].at = Len(inQ'[loaded[p].to])
               /\ prod[p].pc = "store" => /\ loaded[p].at < Capacity
                                          /\ old'[loaded[p].to][1] = prod[p].key
    <3>1. loaded[p].to # w /\ loaded[p].to \in ToSet(group) /\ loaded[p].to \in Workers
      BY <2>5, <2>7, <2>8
    <3>2. inQ'[loaded[p].to] = inQ[loaded[p].to] /\ old'[loaded[p].to] = old[loaded[p].to]
      BY <2>1, <3>1 DEF Types, RingTypes
    <3> QED
      BY <1>1, <2>8, <3>1, <3>2 DEF Alone
  <2>9. \A p \in Producers : Pushing(p)' <=> Pushing(p)
    BY <2>1 DEF Pushing
  <2> QED
    BY <2>1, <2>3, <2>6, <2>8, <2>9 DEF Alone
<1> QED
  BY <1>2, <1>3, <1>4, <1>5, <1>6 DEF ManagerNext, Stop

\* The count covers the messages after a step too.
LEMMA CoversStep ==
  ASSUME Types, OutEntries, Alone, Covers, [ManagerNext]_managerVars
  PROVE  Covers'
<1> SUFFICES ASSUME Undisturbed', NEW k \in Keys \ {Zero}
             PROVE  Balance(k)' >= 0
  BY DEF Covers
<1>1. Undisturbed
  BY SizedOnce, OverlapStays DEF Undisturbed
<1>2. Balance(k) >= 0 /\ Balance(k) \in Int
  BY <1>1, CountsAreNumbers DEF Covers, Types, Balance
<1>3. CASE ManagerNext
  <2>1. Balance(k)' >= Balance(k)
    BY <1>1, <1>3, StepBalance
  <2>2. Balance(k)' \in Int
    <3>1. Types'
      BY NextTypes
    <3> QED
      BY <3>1, BalanceNext
  <2> QED
    BY <1>2, <2>1, <2>2
<1>4. CASE UNCHANGED managerVars
  <2>1. Balance(k)' = Balance(k)
    BY <1>4 DEF managerVars, producerVars, workerVars, queueVars, Balance, Active, Handing, At,
                Handling
  <2> QED
    BY <1>2, <2>1
<1> QED
  BY <1>3, <1>4

\* A message that is in a producer's hands is one of its source's.
LEMMA HandedIn ==
  ASSUME Types, NEW p \in Producers, ~At(p, "idle"), ~At(p, "count")
  PROVE  Active(prod[p].key) >= 1
<1> DEFINE k == prod[p].key
<1>1. k \in Keys
  BY DEF Types
<1>2. p \in Handing(k)
  BY DEF Handing, At
<1> HIDE DEF k
<1>3. Handing(k) # {}
  BY <1>2
<1>4. InHands(k) # 0
  BY <1>3, CountsAreNumbers, FS_EmptySet DEF InHands
<1> QED
  BY <1>4, CountsAreNumbers DEF k

\* A source's assignment ends when its last message is cleaned up: no other
\* step takes the count to 0, and none links a source that has none left.
LEMMA UnlinkedStep ==
  ASSUME Types, OutEntries, ManagerNext, NEW k \in Keys \ {Zero},
         Balance(k) = 0,
         count[k] = 0 /\ threadId[k] # NoThread => out.pc = "clear" /\ out.key = k,
         count'[k] = 0, threadId'[k] # NoThread
  PROVE  out'.pc = "clear" /\ out'.key = k
<1>1. count[k] \in Nat /\ count[k] = Active(k)
  BY CountsAreNumbers DEF Types, Balance
<1>2. out \in [pc : {"none", "check", "park", "wait", "loop", "clear"}, i : Nat, key : Keys]
  BY DEF Types, OutTypes
<1>3. CASE Start
  BY <1>2, <1>3 DEF Start, producerVars
<1>4. CASE set_strategy \/ SpuriousWake \/ Stop
  BY <1>4 DEF set_strategy, SpuriousWake, UnchangedByOutput, Stop, StopBegin, StopWorker, StopJoin,
              StopReturns, producerVars
<1>5. CASE Output
  <2>1. CASE OutCheck \/ OutPark \/ OutLoopEnds \/ OutSkip
    BY <2>1 DEF OutCheck, OutPark, OutLoopEnds, OutSkip
  <2>2. CASE OutPop
    <3> DEFINE j == Head(outQ[group[out.i]]).key
    <3>1. /\ count' = [count EXCEPT ![j] = @ - 1] /\ threadId' = threadId /\ out.pc = "loop"
          /\ out' = IF Released(j) THEN [out EXCEPT !.pc = "clear", !.key = j]
                                   ELSE [out EXCEPT !.i = @ + 1]
      BY <2>2 DEF OutPop
    <3> HIDE DEF j
    <3>2. count \in [Keys -> Int]
      BY DEF Types
    <3>3. CASE j = k
      <4>1. count[k] = 1
        BY <1>1, <3>1, <3>2, <3>3
      <4> QED
        BY <1>2, <3>1, <3>3, <4>1 DEF Released
    <3>4. CASE j # k
      BY <3>1, <3>2, <3>4
    <3> QED
      BY <3>3, <3>4
  <2>3. CASE OutClear
    BY <2>3 DEF OutClear, Types
  <2> QED
    BY <1>5, <2>1, <2>2, <2>3 DEF Output
<1>6. ASSUME NEW p \in Producers, Assign(p)
      PROVE  out'.pc = "clear" /\ out'.key = k
  <2>0. UNCHANGED out
    BY <1>6 DEF Assign, AssignGoesOn, AssignBegin, AssignRead, AssignChoose, AssignBump, AssignReset,
                AssignWrite, AssignPush, AssignLoad, AssignFill, AssignStore, AssignCount,
                UnchangedByAssign
  <2>1. CASE AssignBegin(p)
    <3>1. UNCHANGED threadId /\ \E j \in Keys : count' = [count EXCEPT ![j] = @ + 1]
      BY <2>1 DEF AssignBegin, CountIn
    <3>2. count \in [Keys -> Int]
      BY DEF Types
    <3> QED
      BY <1>1, <2>0, <3>1, <3>2
  <2>2. CASE AssignWrite(p)
    <3>1. UNCHANGED count /\ threadId' = [threadId EXCEPT ![prod[p].key] = prod[p].tId]
      BY <2>2 DEF AssignWrite
    <3>2. ~At(p, "idle") /\ ~At(p, "count")
      BY <2>2 DEF AssignWrite, At
    <3>3. prod[p].key # k
      BY <1>1, <3>1, <3>2, HandedIn
    <3>4. threadId'[k] = threadId[k]
      BY <3>1, <3>3 DEF Types
    <3> QED
      BY <2>0, <3>1, <3>4
  <2>3. CASE AssignRead(p) \/ AssignChoose(p) \/ AssignBump(p) \/ AssignReset(p) \/ AssignPush(p)
    BY <2>0, <2>3 DEF AssignRead, AssignChoose, AssignBump, AssignReset, AssignPush, AssignLoad,
                      AssignFill, AssignStore, AssignCount
  <2> QED
    BY <1>6, <2>1, <2>2, <2>3 DEF Assign, AssignGoesOn
<1>7. ASSUME NEW w \in Workers, NEW r \in Runs, Worker(w, r)
      PROVE  out'.pc = "clear" /\ out'.key = k
  <2>1. UNCHANGED <<count, threadId>>
    BY <1>7 DEF Worker, Take, Drop, Emit, Finish, producerVars
  <2>2. UNCHANGED out \/ out.pc = "wait"
    BY <1>7 DEF Worker, Take, Drop, Emit, Finish, PushOut
  <2> QED
    BY <2>1, <2>2
<1> QED
  BY <1>3, <1>4, <1>5, <1>6, <1>7 DEF ManagerNext

\* What is lost stays lost.
LEMMA LostStays ==
  ASSUME [ManagerNext]_managerVars
  PROVE  lost \subseteq lost'
<1>1. CASE Start \/ set_strategy \/ SpuriousWake \/ UNCHANGED managerVars
  BY <1>1 DEF Start, set_strategy, SpuriousWake, UnchangedByOutput, queueVars, managerVars
<1>2. CASE Output
  BY <1>2 DEF Output, OutCheck, OutPark, OutLoopEnds, OutSkip, OutPop, OutClear, UnchangedByOutput
<1>3. CASE Stop
  BY <1>3 DEF Stop, StopBegin, StopWorker, StopJoin, StopReturns, queueVars
<1>4. ASSUME NEW p \in Producers, Assign(p)
      PROVE  lost \subseteq lost'
  BY <1>4 DEF Assign, AssignGoesOn, AssignBegin, AssignRead, AssignChoose, AssignBump, AssignReset,
              AssignWrite, AssignPush, AssignLoad, AssignFill, AssignStore, AssignCount, GivesUp,
              queueVars
<1>5. ASSUME NEW w \in Workers, NEW r \in Runs, Worker(w, r)
      PROVE  lost \subseteq lost'
  BY <1>5 DEF Worker, Take, Drop, Emit, Finish, PushOut
<1> QED
  BY <1>1, <1>2, <1>3, <1>4, <1>5 DEF ManagerNext

\* As long as nothing of a source is lost its count stays exact.
LEMMA ExactStep ==
  ASSUME Types, OutEntries, Alone, Exact, [ManagerNext]_managerVars
  PROVE  Exact'
<1> SUFFICES ASSUME Undisturbed', stop' = "no", NEW k \in Keys \ {Zero}, k \notin lost'
             PROVE  /\ Balance(k)' = 0
                    /\ count'[k] = 0 /\ threadId'[k] # NoThread => out'.pc = "clear" /\ out'.key = k
  BY DEF Exact
<1>1. Undisturbed /\ stop = "no" /\ k \notin lost
  BY SizedOnce, OverlapStays, LostStays DEF Undisturbed
<1>2. /\ Balance(k) = 0
      /\ count[k] = 0 /\ threadId[k] # NoThread => out.pc = "clear" /\ out.key = k
  BY <1>1 DEF Exact
<1>3. CASE ManagerNext
  BY <1>1, <1>2, <1>3, StepBalance, UnlinkedStep
<1>4. CASE UNCHANGED managerVars
  <2>1. Balance(k)' = Balance(k)
    BY <1>4 DEF managerVars, producerVars, workerVars, queueVars, Balance, Active, Handing, At,
                Handling
  <2>2. UNCHANGED <<count, threadId, out>>
    BY <1>4 DEF managerVars, producerVars
  <2> QED
    BY <1>2, <2>1, <2>2
<1> QED
  BY <1>3, <1>4

-----------------------------------------------------------------------------
(* The round robin.                                                        *)

\* How many producers have yet to reset the index is a number, and less than
\* all of them if one of them is elsewhere.
LEMMA ResettingCounts ==
  /\ IsFiniteSet(Resetting) /\ Cardinality(Resetting) \in Nat
  /\ \A p \in Producers : Overshoot \in Nat /\ (~At(p, "reset") => Cardinality(Resetting) <= Overshoot)
<1>1. Resetting \in SUBSET Producers /\ IsFiniteSet(Producers)
  BY ManagerAssumption DEF Resetting
<1>2. IsFiniteSet(Resetting) /\ Cardinality(Resetting) \in Nat
  BY <1>1, FS_Subset, FS_CardinalityType
<1>3. ASSUME NEW p \in Producers
      PROVE  Overshoot \in Nat /\ (~At(p, "reset") => Cardinality(Resetting) <= Overshoot)
  <2>1. /\ IsFiniteSet(Producers \ {p})
        /\ Cardinality(Producers \ {p}) = Cardinality(Producers) - 1
    BY <1>1, FS_RemoveElement
  <2>2. Cardinality(Producers \ {p}) = Overshoot /\ Overshoot \in Nat
    BY <2>1, FS_CardinalityType DEF Overshoot
  <2>3. ~At(p, "reset") => Resetting \in SUBSET (Producers \ {p})
    BY DEF Resetting
  <2> QED
    BY <2>1, <2>2, <2>3, FS_Subset
<1> QED
  BY <1>2, <1>3

\* At first nothing is chosen.
LEMMA InitChosen == ManagerInit => Chosen
<1> SUFFICES ASSUME ManagerInit PROVE Chosen
  OBVIOUS
<1>1. next = 0 /\ size = 0 /\ \A k \in Keys : threadId[k] = NoThread
  BY DEF ManagerInit, size
<1>2. \A p \in Producers : At(p, "idle") /\ prod[p].pc = "idle"
  BY DEF ManagerInit, At, Idle
<1> QED
  BY <1>1, <1>2 DEF Chosen

\* The choice of one producer keeps the bound, whatever the others are at.
LEMMA ChosenByAssign ==
  ASSUME Types, Chosen, stop = "no", NEW p \in Producers, Assign(p)
  PROVE  Chosen'
<1>1. /\ UNCHANGED <<group, strategy, stop>> /\ size' = size
  BY DEF Assign, AssignGoesOn, AssignBegin, AssignRead, AssignChoose, AssignBump, AssignReset,
         AssignWrite, AssignPush, AssignLoad, AssignFill, AssignStore, AssignCount,
         UnchangedByAssign, size
<1>2. size \in Nat /\ Overshoot \in Nat /\ next \in Nat /\ Cardinality(Resetting) \in Nat
      /\ IsFiniteSet(Resetting) /\ (~At(p, "reset") => Cardinality(Resetting) <= Overshoot)
  BY GroupWorkers, ResettingCounts DEF Types
<1>3. next = 0 \/ next <= size - 1 + Cardinality(Resetting)
  BY DEF Chosen
<1>4. \A q \in Producers :
         /\ ~At(q, "idle") => size > 0
         /\ prod[q].pc \in {"bump", "reset", "write", "push"}
              => prod[q].tId < size + Overshoot /\ prod[q].tId \in Nat
  BY DEF Chosen, Types
<1>5. \A k \in Keys : threadId[k] # NoThread => threadId[k] < size + Overshoot
  BY DEF Chosen
<1>6. \A q \in Producers : prod[q] \in [pc : Pcs, key : Keys, tId : {NoThread} \cup Nat]
  BY DEF Types
<1>7. \A q \in Producers \ {p} : prod'[q] = prod[q]
  BY DEF Assign, AssignGoesOn, AssignBegin, AssignRead, AssignChoose, AssignBump, AssignReset,
         AssignWrite, AssignPush, AssignLoad, AssignFill, AssignStore, AssignCount, GivesUp,
         Goto, Types
<1>8. size > 0
  BY <1>4 DEF Assign, AssignGoesOn, AssignBegin, AssignRead, AssignChoose, AssignBump, AssignReset,
              AssignWrite, AssignPush, AssignLoad, AssignFill, AssignStore, AssignCount, At
<1>9. /\ prod'[p].pc \in {"bump", "reset", "write", "push"} => prod'[p].tId < size + Overshoot
      /\ \A k \in Keys : threadId'[k] # NoThread => threadId'[k] < size + Overshoot
  <2>1. CASE AssignBegin(p)
    BY <1>5, <2>1 DEF AssignBegin, Types
  <2>2. CASE AssignRead(p)
    BY <1>5, <1>6, <2>2 DEF AssignRead, Goto, Types
  <2>3. CASE AssignChoose(p)
    <3>1. UNCHANGED threadId /\ ~At(p, "reset")
      BY <2>3 DEF AssignChoose, At
    <3>2. next < size + Overshoot
      BY <1>2, <1>3, <1>8, <3>1
    <3>3. \A t \in AnyThread : t < size + Overshoot
      BY <1>2, <1>8 DEF AnyThread
    <3>4. prod'[p].tId = next \/ prod'[p].tId \in AnyThread
      BY <1>6, <2>3 DEF AssignChoose, Types
    <3> QED
      BY <1>5, <3>1, <3>2, <3>3, <3>4
  <2>4. CASE AssignBump(p) \/ AssignReset(p)
    <3>1. /\ prod[p].pc \in {"bump", "reset", "write", "push"} /\ UNCHANGED threadId
          /\ prod'[p].tId = prod[p].tId
      BY <1>6, <2>4 DEF AssignBump, AssignReset, At, Goto, Types
    <3> QED
      BY <1>4, <1>5, <3>1
  <2>5. CASE AssignWrite(p)
    BY <1>4, <1>5, <1>6, <2>5 DEF AssignWrite, At, Goto, Types
  <2>6. CASE AssignPush(p)
    <3>1. UNCHANGED threadId
      BY <2>6 DEF AssignPush, AssignLoad, AssignFill, AssignStore, AssignCount
    <3>2. prod'[p].pc \in {"idle", "fill", "store", "count"}
      BY <2>6 DEF AssignPush, AssignLoad, AssignFill, AssignStore, AssignCount, GivesUp, Goto, Idle,
                  Types
    <3> QED
      BY <1>5, <3>1, <3>2
  <2> QED
    BY <2>1, <2>2, <2>3, <2>4, <2>5, <2>6 DEF Assign, AssignGoesOn
<1>10. next' = 0 \/ next' <= size - 1 + Cardinality(Resetting')
  <2>1. CASE AssignBump(p)
    <3>1. next' = next + 1 /\ prod'[p].pc = IF Beyond(next + 1) THEN "reset" ELSE "write"
      BY <1>6, <2>1 DEF AssignBump, Goto, Types
    <3>2. p \notin Resetting
      BY <2>1 DEF AssignBump, Resetting, At
    <3>3. CASE Beyond(next + 1)
      <4>1. Resetting' = Resetting \cup {p}
        BY <1>7, <3>1, <3>3 DEF Resetting, At
      <4>2. Cardinality(Resetting') = Cardinality(Resetting) + 1
        BY <1>2, <3>2, <4>1, FS_AddElement
      <4> QED
        BY <1>2, <1>3, <1>8, <3>1, <4>2
    <3>4. CASE ~Beyond(next + 1)
      <4>1. Resetting' = Resetting
        BY <1>7, <3>1, <3>2, <3>4 DEF Resetting, At
      <4> QED
        BY <1>2, <3>1, <3>4, <4>1 DEF Beyond
    <3> QED
      BY <3>3, <3>4
  <2>2. CASE AssignReset(p)
    BY <2>2 DEF AssignReset
  <2>3. CASE AssignBegin(p) \/ AssignRead(p) \/ AssignChoose(p) \/ AssignWrite(p) \/ AssignPush(p)
    <3>1. next' = next
      BY <2>3 DEF AssignBegin, AssignRead, AssignChoose, AssignWrite, AssignPush, AssignLoad,
                  AssignFill, AssignStore, AssignCount
    <3>2. ~At(p, "reset")
      BY <2>3 DEF AssignBegin, AssignRead, AssignChoose, AssignWrite, AssignPush, AssignLoad,
                  AssignFill, AssignStore, AssignCount, At
    <3>3. prod'[p].pc # "reset"
      BY <1>6, <2>3 DEF AssignBegin, AssignRead, AssignChoose, AssignWrite, AssignPush, AssignLoad,
                        AssignFill, AssignStore, AssignCount, GivesUp, At, Goto, Idle, Types
    <3>4. Resetting' = Resetting
      BY <1>7, <3>2, <3>3 DEF Resetting, At
    <3> QED
      BY <1>3, <3>1, <3>4
  <2> QED
    BY <2>1, <2>2, <2>3 DEF Assign, AssignGoesOn
<1> QED
  BY <1>1, <1>4, <1>7, <1>8, <1>9, <1>10 DEF Chosen, At, Overshoot

\* So does every other step: the group only grows until Stop is called.
LEMMA ChosenStep ==
  ASSUME Types, Chosen, [ManagerNext]_managerVars
  PROVE  Chosen'
<1> SUFFICES ASSUME stop' = "no"
             PROVE  Chosen'
  BY DEF Chosen
<1>1. stop = "no"
  BY SizedOnce
<1>2. ASSUME UNCHANGED <<threadId, next, prod>>, size' >= size, size' \in Nat
      PROVE  Chosen'
  <2>1. size \in Nat /\ next \in Nat /\ Cardinality(Resetting) \in Nat /\ Overshoot \in Int
        /\ \A k \in Keys : threadId[k] \in Int
        /\ \A p \in Producers : prod[p].tId \in Int
    BY GroupWorkers, ResettingCounts, ManagerAssumption, FS_CardinalityType
    DEF Types, Overshoot, NoThread
  <2>2. Resetting' = Resetting /\ Overshoot' = Overshoot
    BY <1>2 DEF Resetting, At, Overshoot
  <2>3. next' = 0 \/ next' <= size' - 1 + Cardinality(Resetting')
    BY <1>1, <1>2, <2>1, <2>2 DEF Chosen
  <2>4. ASSUME NEW p \in Producers
        PROVE  /\ ~At(p, "idle")' => size' > 0
               /\ prod'[p].pc \in {"bump", "reset", "write", "push"}
                    => prod'[p].tId < size' + Overshoot
    <3>1. prod' = prod
      BY <1>2
    <3>4. prod[p].tId \in Int
      BY DEF Types, NoThread
    <3>3. At(p, "idle")' <=> At(p, "idle")
      BY <3>1 DEF At
    <3>2. /\ ~At(p, "idle") => size > 0
          /\ prod[p].pc \in {"bump", "reset", "write", "push"} => prod[p].tId < size + Overshoot
      BY <1>1 DEF Chosen
    <3> QED
      BY <1>2, <2>1, <3>1, <3>2, <3>3, <3>4
  <2>5. ASSUME NEW k \in Keys, threadId'[k] # NoThread
        PROVE  threadId'[k] < size' + Overshoot
    BY <1>1, <1>2, <2>1, <2>5 DEF Chosen
  <2> QED
    BY <2>2, <2>3, <2>4, <2>5 DEF Chosen
<1>3. (size' >= size /\ size' \in Nat) \/ ~(Start \/ UNCHANGED group)
  <2>1. CASE Start
    <3> DEFINE n == Sizes[configured + 1]
               more == [i \in 1 .. n - size |-> size + i]
    <3>1. size \in Nat /\ n \in Nat /\ n > size
      <4>1. configured + 1 \in DOMAIN Sizes
        BY <2>1, ManagerAssumption DEF Start, Types
      <4> QED
        BY <2>1, <4>1, GroupWorkers, ManagerAssumption DEF Start
    <3>2. more \in Seq(Int) /\ Len(more) = n - size
      <4>1. n - size \in Nat /\ more \in [1 .. n - size -> Int]
        BY <3>1
      <4> QED
        BY <4>1
    <3>3. group \in Seq(Int)
      <4>1. Workers \subseteq Int /\ group \in Seq(Workers)
        BY DEF Types, Workers
      <4>2. Len(group) \in Nat /\ group \in [1 .. Len(group) -> Workers]
        BY <4>1
      <4>3. group \in [1 .. Len(group) -> Int]
        BY <4>1, <4>2
      <4> QED
        BY <4>2, <4>3
    <3>4. group' = group \o more
      BY <2>1 DEF Start
    <3> HIDE DEF more, n
    <3>5. Len(group') = Len(group) + Len(more)
      BY <3>2, <3>3, <3>4, ConcatProperties
    <3> QED
      BY <3>1, <3>2, <3>5 DEF size
  <2>2. CASE UNCHANGED group
    BY <2>2, GroupWorkers DEF size
  <2> QED
    BY <2>1, <2>2
<1>4. CASE Start
  BY <1>2, <1>3, <1>4 DEF Start, producerVars
<1>5. CASE set_strategy \/ SpuriousWake \/ UNCHANGED managerVars
  BY <1>2, <1>3, <1>5 DEF set_strategy, SpuriousWake, UnchangedByOutput, managerVars, producerVars
<1>6. CASE Output
  <2>1. CASE OutClear
    <3>1. threadId' = [threadId EXCEPT ![out.key] = NoThread] /\ UNCHANGED <<group, next, prod>>
      BY <2>1 DEF OutClear, UnchangedByOutput
    <3>2. Resetting' = Resetting /\ Overshoot' = Overshoot /\ size' = size
      BY <3>1 DEF Resetting, At, Overshoot, size
    <3>3. \A k \in Keys : threadId'[k] \in {threadId[k], NoThread}
      BY <3>1 DEF Types
    <3> QED
      BY <1>1, <3>1, <3>2, <3>3 DEF Chosen, At
  <2>2. CASE OutCheck \/ OutPark \/ OutLoopEnds \/ OutSkip \/ OutPop
    BY <1>2, <1>3, <2>2 DEF OutCheck, OutPark, OutLoopEnds, OutSkip, OutPop, UnchangedByOutput
  <2> QED
    BY <1>6, <2>1, <2>2 DEF Output
<1>7. CASE Stop
  BY <1>1, <1>2, <1>3, <1>7 DEF Stop, StopBegin, StopWorker, StopJoin, StopReturns, producerVars
<1>8. ASSUME NEW w \in Workers, NEW r \in Runs, Worker(w, r)
      PROVE  Chosen'
  BY <1>2, <1>3, <1>8 DEF Worker, Take, Drop, Emit, Finish, producerVars
<1> QED
  BY <1>1, <1>4, <1>5, <1>6, <1>7, <1>8, ChosenByAssign DEF ManagerNext

-----------------------------------------------------------------------------
(* The theorems.                                                           *)

\* The types and what they rest on hold in every state.
LEMMA ManagerInvariant == ManagerSpec => []ManagerInv
<1>1. ManagerInit => ManagerInv
  BY InitTypes, InitCounts, InitChosen DEF ManagerInv
<1>2. ManagerInv /\ [ManagerNext]_managerVars => ManagerInv'
  BY NextTypes, OutEntriesStep, AloneStep, CoversStep, ExactStep, ChosenStep DEF ManagerInv
<1> QED
  BY <1>1, <1>2, PTL DEF ManagerSpec

\* The type invariant that the runs check follows.
LEMMA InvImpliesTypes == ManagerInv => ManagerTypeOK
<1> SUFFICES ASSUME ManagerInv PROVE ManagerTypeOK
  OBVIOUS
<1> USE DEF ManagerInv
<1>1. configured \in 0 .. Len(Sizes) /\ group \in Seq(Workers)
  BY DEF Types
<1>2. starts \in [Workers -> 0 .. Len(Sizes)]
  <2>1. Len(Sizes) \in Nat
    BY ManagerAssumption
  <2>2. \A w \in Workers : starts[w] \in 0 .. Len(Sizes)
    BY <1>1, <2>1 DEF Types
  <2> QED
    BY <2>2 DEF Types
<1>3. \A w \in Workers :
        /\ Len(inQ[w]) <= Capacity /\ Len(outQ[w]) <= Capacity
        /\ inQ[w] \in Seq(Keys) /\ outQ[w] \in Seq([key : Keys, msg : BOOLEAN])
        /\ old[w] \in Seq(Keys \cup {NoThread})
        /\ Len(inQ[w]) + Len(old[w]) = Capacity + 1 /\ inSize[w] \in Int
        /\ \A r \in Runs : work[w][r] \in Keys \cup {NoThread}
  <2>1. [key : Keys, msg : BOOLEAN] = Entries
    BY DEF Entries
  <2>2. ASSUME NEW w \in Workers
        PROVE  /\ Len(inQ[w]) <= Capacity /\ Len(outQ[w]) <= Capacity
               /\ inQ[w] \in Seq(Keys) /\ outQ[w] \in Seq(Entries)
    BY DEF Types
  <2>3. \A w \in Workers : \A r \in Runs : work[w][r] \in Keys \cup {NoThread}
    BY DEF Types
  <2>4. \A w \in Workers : /\ old[w] \in Seq(Keys \cup {NoThread})
                            /\ Len(inQ[w]) + Len(old[w]) = Capacity + 1 /\ inSize[w] \in Int
    BY DEF Types, RingTypes
  <2> QED
    BY <2>1, <2>2, <2>3, <2>4
<1>4. count \in [Keys -> Int] /\ threadId \in [Keys -> {NoThread} \cup Nat]
  BY DEF Types
<1>5. Undisturbed => \A k \in Keys \ {Zero} : count[k] \in Nat
  BY <1>4, CountsAreNumbers DEF Covers, Balance
<1>6. stop = "no" => \A k \in Keys : threadId[k] \in {NoThread} \cup 0 .. size + Overshoot - 1
  <2>1. size \in Nat /\ Overshoot \in Int
    BY GroupWorkers, ManagerAssumption, FS_CardinalityType DEF Overshoot
  <2> QED
    BY <1>4, <2>1 DEF Chosen
<1>7. /\ strategy \in Strategies /\ next \in Nat /\ sent + outputs \in 0 .. MaxMessages
      /\ lost \subseteq Keys
      /\ stop \in {"no", "workers", "join", "done"}
  BY ManagerAssumption DEF Types
<1>8. /\ out.i \in Nat /\ out.key \in Keys
      /\ out.pc \in {"none", "check", "park", "wait", "loop", "clear"}
  BY DEF Types, OutTypes
<1>9. \A p \in Producers :
        /\ prod[p].pc \in {"idle", "read", "choose", "bump", "reset", "write", "push",
                          "fill", "store", "count"}
        /\ prod[p].key \in Keys /\ prod[p].tId \in {NoThread} \cup Nat
        /\ loaded[p].to \in Workers \cup {NoThread} /\ loaded[p].at \in 0 .. Capacity
  BY DEF Types, RingTypes, Pcs
<1>10. overlap \in BOOLEAN
  BY DEF Types, RingTypes
<1> QED
  BY <1>1, <1>2, <1>3, <1>4, <1>5, <1>6, <1>7, <1>8, <1>9, <1>10 DEF ManagerTypeOK

\* Whatever the producers, the workers and the output thread do at once, every
\* variable stays what the code can hold: queues within their capacity, counts
\* that a group of one size never takes below 0, and until Stop no assignment
\* further beyond the group's end than the producers can take the round robin.
THEOREM ManagerTypesHold == ManagerSpec => []ManagerTypeOK
BY ManagerInvariant, InvImpliesTypes, PTL

\* "Need this here to ensure no pre-mature free up of the thread ID": as long
\* as no two pushes to one queue overlap and the group was sized once, the count
\* of a source is never below the number of its messages, wherever they are.
THEOREM CountCoversMessages == ManagerSpec => []CountCovers
<1>1. ManagerInv => CountCovers
  BY CountsAreNumbers DEF ManagerInv, Covers, Balance, Types, CountCovers
<1> QED
  BY <1>1, ManagerInvariant, PTL

\* A source all of whose messages were cleaned up, and none of them lost, has
\* neither an assignment nor a count, under the same condition.
THEOREM AssignmentsAreReleased == ManagerSpec => []AssignmentReleased
<1>1. ASSUME ManagerInv, Undisturbed, stop = "no", NEW k \in Keys \ ({Zero} \cup lost), Gone(k)
      PROVE  Unassigned(k)
  <2>1. count[k] \in Int /\ Balance(k) = 0
        /\ (count[k] = 0 /\ threadId[k] # NoThread => out.pc = "clear")
    BY <1>1 DEF ManagerInv, Exact, Types
  <2> QED
    BY <1>1, <2>1 DEF Balance, Gone, Unassigned
<1>2. ManagerInv => AssignmentReleased
  BY <1>1 DEF AssignmentReleased
<1> QED
  BY <1>2, ManagerInvariant, PTL
=============================================================================
