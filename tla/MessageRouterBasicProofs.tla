---------------------- MODULE MessageRouterBasicProofs ----------------------
(***************************************************************************)
(* TLAPS proofs of the safety properties of MessageRouterBasic, for every  *)
(* finite set of clients and any messages and filter lists.                *)
(***************************************************************************)
EXTENDS MessageRouterBasic, FiniteSetTheorems, TLAPS

-----------------------------------------------------------------------------
(* The inductive invariant *)

\* The thread inside a section that mMapLock protects is its owner.
LockInv ==
  \A c \in Clients :
    pc[c] \in {"enter", "spin", "write", "unlock"} <=> mMapLock = c

\* A thread is inside the call its argument names.
ArgInv ==
  \A c \in Clients :
    /\ pc[c] \in {"idle", "retired", "destroyed"} <=> arg[c] = NoArg
    /\ pc[c] \in {"enter", "loop", "callback"} => arg[c].call = "broadcast"
    /\ pc[c] \in {"spin", "write", "unlock"} =>
         arg[c].call \in {"register", "retire", "unregister"}

\* What the spin waited for still holds when the map is written.
WriteInv ==
  \A c, d \in Clients : pc[c] = "write" => ~Inside(d)

\* A client that is not in the map, or that ~Plugin has retired, has no filter.
FilterInv ==
  \A c \in Clients :
    \/ c \notin receivers
    \/ pc[c] \in {"retired", "destroyed"}
    \/ arg[c].call = "unregister"
    \/ arg[c].call = "retire" /\ pc[c] = "unlock"
    => filters[c] = {}

\* A callback runs on a client of the map that a filter selected.
TargetInv ==
  \A c \in Clients :
    IF pc[c] = "callback"
    THEN /\ target[c] \in receivers
         /\ Accepts(filters[target[c]], arg[c].msg)
    ELSE target[c] = NoClient

\* The loop has called exactly the clients it passed whose filters match.
LoopInv ==
  \A c \in Clients :
    IF Inside(c)
    THEN delivered[c] = {r \in visited[c] \ {c} : Accepts(filters[r], arg[c].msg)}
    ELSE visited[c] = {} /\ delivered[c] = {}

Inv ==
  /\ TypeOK
  /\ LockInv
  /\ ArgInv
  /\ WriteInv
  /\ FilterInv
  /\ TargetInv
  /\ LoopInv
  /\ ActiveCountExact

-----------------------------------------------------------------------------
(* Lemmas *)

\* What the argument of each kind of call carries.
LEMMA CallArguments ==
  ASSUME NEW a \in Calls
  PROVE  /\ a.call \in {"broadcast", "register", "retire", "unregister"}
         /\ a.call = "broadcast" => a.msg \in Messages
         /\ a.call \in {"register", "retire"} => a.filters \in FilterLists \cup {{}}
         /\ a.call = "retire" => a.filters = {}
         /\ a # NoArg
BY DEF Calls, NoArg

\* An empty filter list lets nothing through.
LEMMA NoFilterAcceptsNothing ==
  ASSUME NEW m PROVE ~Accepts({}, m)
BY DEF Accepts

\* When mActiveBroadcasts is zero no thread is inside the loop.
LEMMA ZeroMeansNobodyInside ==
  ASSUME ActiveCountExact, mActiveBroadcasts = 0, NEW d \in Clients
  PROVE  ~Inside(d)
<1> DEFINE S == {c \in Clients : Inside(c)}
<1>1. IsFiniteSet(S)
  BY RouterAssumption, FS_Subset
<1>2. S = {}
  BY <1>1, FS_EmptySet DEF ActiveCountExact
<1> QED
  BY <1>2

\* One more thread inside the loop is one more broadcast to count.
LEMMA CountUp ==
  ASSUME NEW A, NEW B, IsFiniteSet(A), NEW x, x \notin A, B = A \cup {x}
  PROVE  Cardinality(B) = Cardinality(A) + 1
BY FS_AddElement

\* One thread less inside the loop is one broadcast less to count.
LEMMA CountDown ==
  ASSUME NEW A, NEW B, IsFiniteSet(A), NEW x \in A, B = A \ {x}
  PROVE  Cardinality(B) = Cardinality(A) - 1
BY FS_RemoveElement

\* The initial state satisfies the inductive invariant.
LEMMA InitInv == Init => Inv
<1> SUFFICES ASSUME Init PROVE Inv
  OBVIOUS
<1>1. TypeOK
  BY DEF Init, TypeOK, Labels
<1>2. LockInv /\ ArgInv /\ WriteInv /\ FilterInv /\ TargetInv /\ LoopInv
  BY RouterAssumption DEF Init, LockInv, ArgInv, WriteInv, FilterInv, TargetInv,
     LoopInv
<1>3. ActiveCountExact
  <2>1. {c \in Clients : Inside(c)} = {}
    BY DEF Init, Inside
  <2> QED
    BY <2>1, FS_EmptySet DEF Init, ActiveCountExact
<1> QED
  BY <1>1, <1>2, <1>3 DEF Inv

-----------------------------------------------------------------------------
(* One lemma per action: a step from a state of the invariant keeps it. *)

\* A call begins on the client's own thread and takes nothing yet.
LEMMA CallInv ==
  ASSUME Inv, NEW c \in Clients, NEW a \in Calls, Call(c, a)
  PROVE  Inv'
<1> USE DEF Inv, Inside, Goto, Call
<1>1. TypeOK'
  BY DEF TypeOK, Labels
<1>2. LockInv'
  BY DEF LockInv
<1>3. ArgInv'
  BY CallArguments DEF TypeOK, ArgInv
<1>4. WriteInv'
  BY DEF WriteInv
<1>5. FilterInv'
  BY DEF FilterInv
<1>6. TargetInv'
  BY DEF TargetInv
<1>7. LoopInv'
  BY DEF LoopInv
<1>8. ActiveCountExact'
  BY DEF ActiveCountExact
<1> QED
  BY <1>1, <1>2, <1>3, <1>4, <1>5, <1>6, <1>7, <1>8

\* ~Plugin begins with a call that carries an empty filter list.
LEMMA RetireInv ==
  ASSUME Inv, NEW c \in Clients, Retire(c)
  PROVE  Inv'
<1> USE DEF Inv, Inside, Goto, Retire
<1>1. TypeOK'
  BY DEF TypeOK, Labels, Calls
<1>2. LockInv'
  BY DEF TypeOK, LockInv
<1>3. ArgInv'
  BY DEF TypeOK, ArgInv, NoArg
<1>4. WriteInv'
  BY DEF TypeOK, WriteInv
<1>5. FilterInv'
  BY DEF TypeOK, FilterInv
<1>6. TargetInv'
  BY DEF TypeOK, TargetInv
<1>7. LoopInv'
  BY DEF TypeOK, LoopInv
<1>8. ActiveCountExact'
  BY DEF TypeOK, ActiveCountExact
<1> QED
  BY <1>1, <1>2, <1>3, <1>4, <1>5, <1>6, <1>7, <1>8

\* ~MessageRouterClient begins after ~Plugin has emptied the subscription.
LEMMA CallUnregisterInv ==
  ASSUME Inv, NEW c \in Clients, CallUnregister(c)
  PROVE  Inv'
<1> USE DEF Inv, Inside, Goto, CallUnregister
<1>1. TypeOK'
  BY DEF TypeOK, Labels, Calls
<1>2. LockInv'
  BY DEF LockInv
<1>3. ArgInv'
  BY DEF TypeOK, ArgInv, NoArg
<1>4. WriteInv'
  BY DEF WriteInv
<1>5. FilterInv'
  BY DEF FilterInv
<1>6. TargetInv'
  BY DEF TargetInv
<1>7. LoopInv'
  BY DEF LoopInv
<1>8. ActiveCountExact'
  BY DEF ActiveCountExact
<1> QED
  BY <1>1, <1>2, <1>3, <1>4, <1>5, <1>6, <1>7, <1>8

\* mMapLock is taken only when it is free, so its owner stays unique.
LEMMA LockMapInv ==
  ASSUME Inv, NEW c \in Clients, LockMap(c)
  PROVE  Inv'
<1> USE DEF Inv, Inside, Goto, LockMap
<1>1. TypeOK'
  BY DEF TypeOK, Labels
<1>2. LockInv'
  BY RouterAssumption DEF TypeOK, LockInv
<1>3. ArgInv'
  BY CallArguments DEF TypeOK, ArgInv
<1>4. WriteInv'
  BY DEF WriteInv
<1>5. FilterInv'
  BY DEF FilterInv
<1>6. TargetInv'
  BY DEF TargetInv
<1>7. LoopInv'
  BY DEF LoopInv
<1>8. ActiveCountExact'
  BY DEF ActiveCountExact
<1> QED
  BY <1>1, <1>2, <1>3, <1>4, <1>5, <1>6, <1>7, <1>8

\* The thread that enters the loop is the one the count goes up by.
LEMMA EnterBroadcastInv ==
  ASSUME Inv, NEW c \in Clients, EnterBroadcast(c)
  PROVE  Inv'
<1> USE DEF Inv, Inside, Goto, EnterBroadcast
<1>1. TypeOK'
  BY DEF TypeOK, Labels
<1>2. LockInv'
  BY RouterAssumption DEF TypeOK, LockInv
<1>3. ArgInv'
  BY DEF ArgInv
<1>4. WriteInv'
  BY DEF WriteInv, LockInv
<1>5. FilterInv'
  BY DEF FilterInv
<1>6. TargetInv'
  BY DEF TargetInv
<1>7. LoopInv'
  BY DEF LoopInv
<1>8. ActiveCountExact'
  <2> DEFINE S == {d \in Clients : Inside(d)}
  <2>1. IsFiniteSet(S) /\ c \notin S
    BY RouterAssumption, FS_Subset
  <2>2. S' = S \cup {c}
    BY DEF TypeOK
  <2>3. Cardinality(S') = Cardinality(S) + 1
    BY <2>1, <2>2, CountUp
  <2> QED
    BY <2>3 DEF ActiveCountExact
<1> QED
  BY <1>1, <1>2, <1>3, <1>4, <1>5, <1>6, <1>7, <1>8

\* A client whose filters do not match is passed without a call.
LEMMA SkipReceiverInv ==
  ASSUME Inv, NEW c \in Clients, NEW r \in Clients, SkipReceiver(c, r)
  PROVE  Inv'
<1> USE DEF Inv, Inside, SkipReceiver
<1>1. TypeOK'
  BY DEF TypeOK
<1>2. LockInv'
  BY DEF LockInv
<1>3. ArgInv'
  BY DEF ArgInv
<1>4. WriteInv'
  BY DEF WriteInv
<1>5. FilterInv'
  BY DEF FilterInv
<1>6. TargetInv'
  BY DEF TargetInv
<1>7. LoopInv'
  BY DEF LoopInv
<1>8. ActiveCountExact'
  BY DEF ActiveCountExact
<1> QED
  BY <1>1, <1>2, <1>3, <1>4, <1>5, <1>6, <1>7, <1>8

\* The client that is called is in the map and wants the message.
LEMMA CallReceiverInv ==
  ASSUME Inv, NEW c \in Clients, NEW r \in Clients, CallReceiver(c, r)
  PROVE  Inv'
<1> USE DEF Inv, Inside, Goto, CallReceiver
<1>1. TypeOK'
  BY DEF TypeOK, Labels
<1>2. LockInv'
  BY DEF LockInv
<1>3. ArgInv'
  BY DEF ArgInv
<1>4. WriteInv'
  BY DEF WriteInv
<1>5. FilterInv'
  BY DEF FilterInv
<1>6. TargetInv'
  BY DEF TypeOK, TargetInv
<1>7. LoopInv'
  BY DEF TypeOK, LoopInv
<1>8. ActiveCountExact'
  BY DEF ActiveCountExact
<1> QED
  BY <1>1, <1>2, <1>3, <1>4, <1>5, <1>6, <1>7, <1>8

\* After a callback the loop goes on where it was.
LEMMA ReceiverReturnsInv ==
  ASSUME Inv, NEW c \in Clients, ReceiverReturns(c)
  PROVE  Inv'
<1> USE DEF Inv, Inside, Goto, ReceiverReturns
<1>1. TypeOK'
  BY DEF TypeOK, Labels
<1>2. LockInv'
  BY DEF LockInv
<1>3. ArgInv'
  BY DEF ArgInv
<1>4. WriteInv'
  BY DEF WriteInv
<1>5. FilterInv'
  BY DEF FilterInv
<1>6. TargetInv'
  BY DEF TypeOK, TargetInv
<1>7. LoopInv'
  BY DEF LoopInv
<1>8. ActiveCountExact'
  BY DEF TypeOK, ActiveCountExact
<1> QED
  BY <1>1, <1>2, <1>3, <1>4, <1>5, <1>6, <1>7, <1>8

\* The thread that leaves the loop is the one the count goes down by.
LEMMA LeaveBroadcastInv ==
  ASSUME Inv, NEW c \in Clients, LeaveBroadcast(c)
  PROVE  Inv'
<1> USE DEF Inv, Inside, Goto, LeaveBroadcast
<1> DEFINE S == {d \in Clients : Inside(d)}
<1>0. /\ Cardinality(S') = Cardinality(S) - 1
      /\ mActiveBroadcasts' \in Nat
  <2>1. IsFiniteSet(S) /\ c \in S
    BY RouterAssumption, FS_Subset
  <2>2. S' = S \ {c}
    BY DEF TypeOK
  <2>3. Cardinality(S') = Cardinality(S) - 1
    BY <2>1, <2>2, CountDown
  <2>4. Cardinality(S') \in Nat
    BY <2>1, <2>2, FS_RemoveElement, FS_CardinalityType
  <2> QED
    BY <2>3, <2>4 DEF ActiveCountExact
<1>1. TypeOK'
  BY <1>0 DEF TypeOK, Labels
<1>2. LockInv'
  BY DEF LockInv
<1>3. ArgInv'
  BY DEF TypeOK, ArgInv
<1>4. WriteInv'
  BY DEF WriteInv
<1>5. FilterInv'
  BY DEF FilterInv, NoArg
<1>6. TargetInv'
  BY DEF TargetInv
<1>7. LoopInv'
  BY DEF TypeOK, LoopInv
<1>8. ActiveCountExact'
  BY <1>0 DEF ActiveCountExact
<1> QED
  BY <1>1, <1>2, <1>3, <1>4, <1>5, <1>6, <1>7, <1>8

\* The spin ends at zero, when nobody is inside the loop; the lock keeps it so.
LEMMA SpinEndsInv ==
  ASSUME Inv, NEW c \in Clients, SpinEnds(c)
  PROVE  Inv'
<1> USE DEF Inv, Inside, Goto, SpinEnds
<1>1. TypeOK'
  BY DEF TypeOK, Labels
<1>2. LockInv'
  BY DEF LockInv
<1>3. ArgInv'
  BY DEF ArgInv
<1>4. WriteInv'
  BY ZeroMeansNobodyInside DEF WriteInv
<1>5. FilterInv'
  BY DEF FilterInv
<1>6. TargetInv'
  BY DEF TargetInv
<1>7. LoopInv'
  BY DEF LoopInv
<1>8. ActiveCountExact'
  BY DEF ActiveCountExact
<1> QED
  BY <1>1, <1>2, <1>3, <1>4, <1>5, <1>6, <1>7, <1>8

\* The map is written while nobody is inside the loop.
LEMMA RegisterReceiverInv ==
  ASSUME Inv, NEW c \in Clients, RegisterReceiver(c)
  PROVE  Inv'
<1> USE DEF Inv, Inside, Goto, RegisterReceiver
<1>1. TypeOK'
  BY CallArguments DEF TypeOK, Labels, ArgInv
<1>2. LockInv'
  BY DEF LockInv
<1>3. ArgInv'
  BY DEF ArgInv
<1>4. WriteInv'
  BY DEF WriteInv
<1>5. FilterInv'
  BY CallArguments DEF TypeOK, FilterInv, ArgInv
<1>6. TargetInv'
  BY DEF TargetInv, WriteInv
<1>7. LoopInv'
  BY DEF LoopInv, WriteInv
<1>8. ActiveCountExact'
  BY DEF ActiveCountExact
<1> QED
  BY <1>1, <1>2, <1>3, <1>4, <1>5, <1>6, <1>7, <1>8

\* The client leaves the map while nobody is inside the loop.
LEMMA UnregisterReceiverInv ==
  ASSUME Inv, NEW c \in Clients, UnregisterReceiver(c)
  PROVE  Inv'
<1> USE DEF Inv, Inside, Goto, UnregisterReceiver
<1>1. TypeOK'
  BY DEF TypeOK, Labels
<1>2. LockInv'
  BY DEF LockInv
<1>3. ArgInv'
  BY DEF ArgInv
<1>4. WriteInv'
  BY DEF WriteInv
<1>5. FilterInv'
  BY DEF FilterInv
<1>6. TargetInv'
  BY DEF TargetInv, WriteInv
<1>7. LoopInv'
  BY DEF LoopInv, WriteInv
<1>8. ActiveCountExact'
  BY DEF ActiveCountExact
<1> QED
  BY <1>1, <1>2, <1>3, <1>4, <1>5, <1>6, <1>7, <1>8

\* The lock is given back by its owner.
LEMMA UnlockMapInv ==
  ASSUME Inv, NEW c \in Clients, UnlockMap(c)
  PROVE  Inv'
<1> USE DEF Inv, Inside, Goto, UnlockMap
<1>0. /\ pc[c] = "unlock"
      /\ pc'[c] \in {"idle", "retired", "destroyed"}
      /\ pc' = [pc EXCEPT ![c] = pc'[c]]
  BY DEF TypeOK, ArgInv
<1>1. TypeOK'
  BY DEF TypeOK, Labels, ArgInv
<1>2. LockInv'
  BY <1>0, RouterAssumption DEF TypeOK, LockInv
<1>3. ArgInv'
  BY DEF TypeOK, ArgInv
<1>4. WriteInv'
  BY <1>0 DEF TypeOK, WriteInv
<1>5. FilterInv'
  BY DEF FilterInv, ArgInv, NoArg
<1>6. TargetInv'
  BY <1>0 DEF TypeOK, TargetInv
<1>7. LoopInv'
  BY DEF LoopInv
<1>8. ActiveCountExact'
  BY <1>0 DEF TypeOK, ActiveCountExact
<1> QED
  BY <1>1, <1>2, <1>3, <1>4, <1>5, <1>6, <1>7, <1>8

\* Every step of the router keeps the invariant.
LEMMA NextInv == Inv /\ [Next]_vars => Inv'
<1> SUFFICES ASSUME Inv, [Next]_vars PROVE Inv'
  OBVIOUS
<1>1. CASE UNCHANGED vars
  BY <1>1 DEF vars, Inv, TypeOK, LockInv, ArgInv, WriteInv, FilterInv,
     TargetInv, LoopInv, ActiveCountExact, Inside
<1>2. CASE Next
  BY <1>2, CallInv, RetireInv, CallUnregisterInv, LockMapInv, EnterBroadcastInv,
     SkipReceiverInv, CallReceiverInv, ReceiverReturnsInv, LeaveBroadcastInv,
     SpinEndsInv, RegisterReceiverInv, UnregisterReceiverInv, UnlockMapInv DEF
     Next, Running
<1> QED
  BY <1>1, <1>2

\* The invariant holds in every reachable state.
THEOREM Invariance == Spec => []Inv
BY InitInv, NextInv, PTL DEF Spec

-----------------------------------------------------------------------------
(* The properties *)

\* Every variable keeps its type; mActiveBroadcasts never goes negative.
THEOREM TypeCorrect == Spec => []TypeOK
<1>1. Inv => TypeOK
  BY DEF Inv
<1> QED
  BY <1>1, Invariance, PTL

\* mActiveBroadcasts counts the threads inside broadcastMessage's loop.
THEOREM CountExact == Spec => []ActiveCountExact
<1>1. Inv => ActiveCountExact
  BY DEF Inv
<1> QED
  BY <1>1, Invariance, PTL

\* The map changes only when no thread is inside broadcastMessage's loop.
THEOREM MapStable == Spec => MapStableWhileBroadcasting
<1>1. Inv /\ [Next]_vars =>
        [<<receivers, filters>>' # <<receivers, filters>>
           => \A c \in Clients : ~Inside(c)]_vars
  <2> SUFFICES ASSUME Inv, Next, <<receivers, filters>>' # <<receivers, filters>>
               PROVE  \A c \in Clients : ~Inside(c)
    OBVIOUS
  <2>1. PICK c \in Clients : RegisterReceiver(c) \/ UnregisterReceiver(c)
    BY DEF Next, Running, Call, Retire, CallUnregister, LockMap, EnterBroadcast,
       SkipReceiver, CallReceiver, ReceiverReturns, LeaveBroadcast, SpinEnds,
       UnlockMap
  <2>2. pc[c] = "write"
    BY <2>1 DEF RegisterReceiver, UnregisterReceiver, Goto
  <2> QED
    BY <2>2 DEF Inv, WriteInv
<1> QED
  BY <1>1, Invariance, PTL DEF Spec, MapStableWhileBroadcasting

\* A broadcast never runs receiveMessage of a client that ~Plugin has left.
THEOREM DestroyedNotCalled == Spec => []NoCallIntoDestroyed
<1>1. Inv => NoCallIntoDestroyed
  <2> SUFFICES ASSUME Inv, NEW c \in Clients, pc[c] = "callback"
               PROVE  /\ target[c] \in receivers
                      /\ pc[target[c]] \notin {"retired", "destroyed"}
                      /\ arg[target[c]].call # "unregister"
    BY DEF NoCallIntoDestroyed
  <2>1. target[c] \in receivers /\ filters[target[c]] # {}
    BY NoFilterAcceptsNothing DEF Inv, TargetInv
  <2>2. target[c] \in Clients
    BY <2>1 DEF Inv, TypeOK
  <2> QED
    BY <2>1, <2>2 DEF Inv, FilterInv
<1> QED
  BY <1>1, Invariance, PTL

-----------------------------------------------------------------------------
(* MessageRouterBasic implements MessageBus.  Most steps of a thread change *)
(* nothing that a client can see.                                           *)

\* These steps are stutters of the bus.
LEMMA HiddenSteps ==
  ASSUME Inv, NEW c \in Clients,
         \/ \E a \in Calls : Call(c, a)
         \/ Retire(c)
         \/ CallUnregister(c)
         \/ LockMap(c)
         \/ \E r \in Clients : SkipReceiver(c, r)
         \/ SpinEnds(c)
         \/ UnlockMap(c)
  PROVE  UNCHANGED <<filters, BusCast, target, BusDetached>>
<1> USE DEF Inv, TypeOK, Inside, Goto
<1>1. UNCHANGED <<filters, target>>
  BY DEF Call, Retire, CallUnregister, LockMap, SkipReceiver, SpinEnds, UnlockMap
<1>2. /\ \A d \in Clients : Inside(d)' <=> Inside(d)
      /\ \A d \in Clients : Inside(d) => arg'[d] = arg[d]
      /\ UNCHANGED delivered
  BY DEF Call, Retire, CallUnregister, LockMap, SkipReceiver, SpinEnds,
     UnlockMap, ArgInv
<1>3. \A d \in Clients : Inside(d) => Owed(d)' = Owed(d)
  BY <1>1, <1>2 DEF Owed
<1>4. UNCHANGED BusCast
  BY <1>2, <1>3 DEF BusCast
<1>5. UNCHANGED BusDetached
  BY DEF Call, Retire, CallUnregister, LockMap, SkipReceiver, SpinEnds,
     UnlockMap, ArgInv, BusDetached
<1> QED
  BY <1>1, <1>4, <1>5

\* MessageBus and MessageRouterBasic share the filter test of MessageFilters.
LEMMA SameFilterTest ==
  ASSUME NEW fs, NEW m PROVE Bus!Accepts(fs, m) <=> Accepts(fs, m)
BY DEF Bus!Accepts, Bus!Matches, Bus!TypePass, Bus!FlagsPass, Bus!Star,
   Bus!NULL, Accepts, Matches, TypePass, FlagsPass, Star, NULL

\* Counting a broadcast in is the moment its addressees are fixed.
LEMMA EnterBegins ==
  ASSUME Inv, NEW c \in Clients, EnterBroadcast(c)
  PROVE  \E m \in Messages : Bus!Begin(c, m)
<1> USE DEF Inv, TypeOK, Inside, Goto, EnterBroadcast
<1>1. arg[c].msg \in Messages
  BY CallArguments DEF ArgInv
<1>2. ~BusCast[c].active /\ c \notin BusDetached
  BY DEF BusCast, BusDetached
<1>3. Owed(c)' = {r \in Clients \ {c} : Accepts(filters[r], arg[c].msg)}
  <2>1. delivered'[c] = {}
    BY DEF LoopInv
  <2> QED
    BY <2>1 DEF Owed
<1>4. \A d \in Clients \ {c} : (Inside(d)' <=> Inside(d)) /\ Owed(d)' = Owed(d)
  BY DEF Owed
<1>5. BusCast' = [BusCast EXCEPT ![c] = [active |-> TRUE, to |-> Owed(c)']]
  BY <1>4 DEF BusCast
<1>6. UNCHANGED <<filters, target, BusDetached>>
  BY DEF BusDetached
<1>7. Bus!Addressees(c, arg[c].msg) = Owed(c)'
  BY <1>3, SameFilterTest DEF Bus!Addressees
<1>8. Bus!Begin(c, arg[c].msg)
  <2> HIDE DEF Inv, TypeOK, Inside, Goto, EnterBroadcast
  <2> QED
    BY <1>2, <1>5, <1>6, <1>7 DEF Bus!Begin, Bus!Casting
<1> QED
  BY <1>1, <1>8

\* A callback is a delivery that the broadcast owed.
LEMMA CallDelivers ==
  ASSUME Inv, NEW c \in Clients, NEW r \in Clients, CallReceiver(c, r)
  PROVE  Bus!Deliver(c, r)
<1> USE DEF Inv, TypeOK, Inside, Goto, CallReceiver
<1>1. r \in Owed(c)
  BY DEF Owed, LoopInv
<1>2. Owed(c)' = Owed(c) \ {r}
  BY DEF Owed
<1>3. \A d \in Clients \ {c} : (Inside(d)' <=> Inside(d)) /\ Owed(d)' = Owed(d)
  BY DEF Owed
<1>4. BusCast[c] = [active |-> TRUE, to |-> Owed(c)]
  BY DEF BusCast
<1>5. BusCast' = [BusCast EXCEPT ![c].to = @ \ {r}]
  BY <1>2, <1>3, <1>4 DEF BusCast
<1>6. UNCHANGED <<filters, BusDetached>>
  BY DEF BusDetached
<1>7. target[c] = NoClient
  BY DEF TargetInv
<1> QED
  BY <1>1, <1>4, <1>5, <1>6, <1>7 DEF Bus!Deliver

\* A callback that returns leaves the loop as it was.
LEMMA ReturnReturns ==
  ASSUME Inv, NEW c \in Clients, ReceiverReturns(c)
  PROVE  Bus!Return(c)
<1> USE DEF Inv, TypeOK, Inside, Goto, ReceiverReturns
<1>1. \A d \in Clients : (Inside(d)' <=> Inside(d)) /\ Owed(d)' = Owed(d)
  BY DEF Owed
<1>2. UNCHANGED BusCast
  BY <1>1 DEF BusCast
<1>3. UNCHANGED <<filters, BusDetached>>
  BY DEF BusDetached
<1>4. target[c] # NoClient
  BY RouterAssumption DEF TargetInv
<1> QED
  BY <1>2, <1>3, <1>4 DEF Bus!Return

\* A broadcast that leaves its loop owes nothing: a client that is not in the
\* map has no filter, and the loop went past every client of the map.
LEMMA LeaveEnds ==
  ASSUME Inv, NEW c \in Clients, LeaveBroadcast(c)
  PROVE  Bus!End(c)
<1> USE DEF Inv, TypeOK, Inside, Goto, LeaveBroadcast
<1>1. Owed(c) = {}
  <2> SUFFICES ASSUME NEW r \in Owed(c) PROVE FALSE
    OBVIOUS
  <2>1. r \in Clients \ {c} /\ Accepts(filters[r], arg[c].msg) /\ r \notin delivered[c]
    BY DEF Owed
  <2>2. r \in receivers
    BY <2>1, NoFilterAcceptsNothing DEF FilterInv
  <2> QED
    BY <2>1, <2>2 DEF LoopInv
<1>2. \A d \in Clients \ {c} : (Inside(d)' <=> Inside(d)) /\ Owed(d)' = Owed(d)
  BY DEF Owed
<1>3. BusCast[c] = [active |-> TRUE, to |-> {}]
  BY <1>1 DEF BusCast
<1>4. BusCast' = [BusCast EXCEPT ![c] = [active |-> FALSE, to |-> {}]]
  BY <1>2 DEF BusCast
<1>5. UNCHANGED <<filters, target, BusDetached>>
  BY DEF BusDetached
<1>6. target[c] = NoClient
  BY DEF TargetInv
<1> QED
  BY <1>3, <1>4, <1>5, <1>6 DEF Bus!End, Bus!Casting, Bus!NoCast

\* While the map is written no broadcast is under way.
LEMMA WriteIsQuiet ==
  ASSUME Inv, NEW c \in Clients, RegisterReceiver(c) \/ UnregisterReceiver(c)
  PROVE  /\ \A d \in Clients : ~Bus!Casting(d)
         /\ UNCHANGED <<BusCast, target>>
<1> USE DEF Inv, TypeOK, Inside, Goto, RegisterReceiver, UnregisterReceiver
<1>1. \A d \in Clients : ~Inside(d) /\ ~Inside(d)'
  BY DEF WriteInv
<1> QED
  BY <1>1 DEF BusCast, Bus!Casting

\* Writing the filter list of a client is a change of its subscription.
LEMMA RegisterSubscribes ==
  ASSUME Inv, NEW c \in Clients, RegisterReceiver(c)
  PROVE  \E fs \in FilterLists \cup {{}} : Bus!Subscribe(c, fs)
<1> USE DEF Inv, TypeOK, Goto, RegisterReceiver
<1>1. arg[c].filters \in FilterLists \cup {{}}
  BY CallArguments DEF ArgInv
<1>2. c \notin BusDetached /\ UNCHANGED BusDetached
  BY DEF BusDetached
<1>3. Bus!Subscribe(c, arg[c].filters)
  BY <1>2, WriteIsQuiet DEF Bus!Subscribe
<1> QED
  BY <1>1, <1>3

\* Taking a client out of the map detaches it for good.
LEMMA UnregisterDetaches ==
  ASSUME Inv, NEW c \in Clients, UnregisterReceiver(c)
  PROVE  Bus!Detach(c)
<1>1. BusDetached' = BusDetached \cup {c}
  BY DEF Inv, TypeOK, Goto, UnregisterReceiver, BusDetached
<1> QED
  BY <1>1, WriteIsQuiet DEF UnregisterReceiver, Bus!Detach

\* Every behaviour of the router is, for its clients, one of MessageBus: each
\* matching client is called exactly once per broadcast, subscriptions change
\* only between broadcasts, and nobody detached is called.
THEOREM RouterImplementsBus == Spec => ImplementsBus
<1>1. Init => Bus!BusInit
  BY DEF Init, Bus!BusInit, Bus!NoCast, BusCast, BusDetached, Inside
<1>2. Inv /\ [Next]_vars => [Bus!BusNext]_(Bus!busVars)
  <2> SUFFICES ASSUME Inv, [Next]_vars PROVE [Bus!BusNext]_(Bus!busVars)
    OBVIOUS
  <2>1. CASE UNCHANGED vars
    BY <2>1 DEF vars, Bus!busVars, BusCast, BusDetached, Inside, Owed
  <2>2. CASE Next
    <3>1. PICK c \in Clients : \/ \E a \in Calls : Call(c, a)
                               \/ Retire(c)
                               \/ Running(c)
                               \/ ReceiverReturns(c)
      BY <2>2 DEF Next
    <3>2. \/ UNCHANGED <<filters, BusCast, target, BusDetached>>
          \/ EnterBroadcast(c)
          \/ \E r \in Clients : CallReceiver(c, r)
          \/ ReceiverReturns(c)
          \/ LeaveBroadcast(c)
          \/ RegisterReceiver(c)
          \/ UnregisterReceiver(c)
      BY <3>1, HiddenSteps DEF Running
    <3> QED
      BY <3>2, EnterBegins, CallDelivers, ReturnReturns, LeaveEnds,
         RegisterSubscribes, UnregisterDetaches DEF Bus!BusNext, Bus!busVars
  <2> QED
    BY <2>1, <2>2
<1> QED
  BY <1>1, <1>2, Invariance, PTL DEF Spec, ImplementsBus, Bus!BusSpec
=============================================================================
