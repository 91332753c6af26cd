----------------------- MODULE PluginLifecycleProofs ------------------------
(***************************************************************************)
(* TLAPS proofs of the safety properties of PluginLifecycle, for any       *)
(* number of connections, names and descriptors, and with a database that  *)
(* fails or does not.                                                      *)
(***************************************************************************)
EXTENDS PluginLifecycle, TLAPS

-----------------------------------------------------------------------------
(* The inductive invariant *)

\* registerPlugin has set mInfo and mRegistered.
Committed(k) == reg[k] \in {"committed", "registered"}

\* mInfo and mRegistered say how far registerPlugin got, and the joins have
\* waited for it to end.
RegInv ==
  \A k \in Conns :
    /\ mRegistered[k] <=> Committed(k)
    /\ mInfo[k] = IF Committed(k) THEN PluginName[k] ELSE None
    /\ phase[k] = "unused" => reg[k] = "new"
    /\ phase[k] \notin {"unused", "open", "closed"} =>
         reg[k] \in {"new", "rejected", "failed", "registered"}

\* A name that is held is in clientNames.
HeldInv ==
  \A k \in Conns : Holds(k) => PluginName[k] \in clientNames

\* An object has a descriptor, and while it is open the descriptor is its own.
SocketInv ==
  \A k \in Conns :
    /\ phase[k] # "unused" => mSocket[k] \in Fds
    /\ phase[k] = "open" => fdPeer[mSocket[k]] = k

\* A row says running only while an object that will write "stopped" is left.
StatusInv ==
  \A n \in Names \ dbMissed :
    dbStatus[n] = "running" =>
      \E k \in Conns :
        /\ PluginName[k] = n
        /\ Committed(k)
        /\ phase[k] \notin {"unused", "stopped", "gone"}

\* There are status items only while an object that will delete them is left.
ItemsInv ==
  \A n \in dbItems \ dbMissed :
    \E k \in Conns :
      /\ PluginName[k] = n
      /\ Committed(k)
      /\ phase[k] \notin {"unused", "gone"}

Inv ==
  /\ TypeOK
  /\ RegInv
  /\ HeldInv
  /\ NameHeldOnce
  /\ NamesGivenBack
  /\ SocketInv
  /\ StatusInv
  /\ ItemsInv

\* No object exists, nothing is reserved, stored or open.
LEMMA InitInv == Init => Inv
BY DEF Init, Inv, TypeOK, RegInv, HeldInv, NameHeldOnce, NamesGivenBack,
   SocketInv, StatusInv, ItemsInv, Phases, RegSteps, Committed, Holds

-----------------------------------------------------------------------------
(* One lemma per action: a step from a state of the invariant keeps it. *)

\* A plugin's connect() touches no object of the core.
LEMMA PluginConnectsInv ==
  ASSUME Inv, NEW k \in Conns, PluginConnects(k)
  PROVE  Inv'
<1> USE DEF Inv, TypeOK, PluginConnects
<1>1. TypeOK'
  OBVIOUS
<1>2. RegInv'
  BY DEF RegInv, Committed
<1>3. HeldInv'
  BY DEF HeldInv, Holds
<1>4. NameHeldOnce'
  BY DEF NameHeldOnce, Holds
<1>5. NamesGivenBack'
  BY DEF NamesGivenBack, Holds
<1>6. SocketInv'
  BY DEF SocketInv
<1>7. StatusInv'
  BY DEF StatusInv, Committed
<1>8. ItemsInv'
  BY DEF ItemsInv, Committed
<1> QED
  BY <1>1, <1>2, <1>3, <1>4, <1>5, <1>6, <1>7, <1>8

\* A plugin that goes away is noticed later.
LEMMA PluginLeavesInv ==
  ASSUME Inv, NEW k \in Conns, PluginLeaves(k)
  PROVE  Inv'
<1> USE DEF Inv, TypeOK, PluginLeaves
<1>1. TypeOK'
  OBVIOUS
<1>2. RegInv'
  BY DEF RegInv, Committed
<1>3. HeldInv'
  BY DEF HeldInv, Holds
<1>4. NameHeldOnce'
  BY DEF NameHeldOnce, Holds
<1>5. NamesGivenBack'
  BY DEF NamesGivenBack, Holds
<1>6. SocketInv'
  BY DEF SocketInv
<1>7. StatusInv'
  BY DEF StatusInv, Committed
<1>8. ItemsInv'
  BY DEF ItemsInv, Committed
<1> QED
  BY <1>1, <1>2, <1>3, <1>4, <1>5, <1>6, <1>7, <1>8

\* A descriptor that accept() returns is nobody's: no open connection loses its own.
LEMMA AcceptInv ==
  ASSUME Inv, NEW k \in Conns, NEW d \in Fds, Accept(k, d)
  PROVE  Inv'
<1> USE LifecycleAssumption DEF Inv, TypeOK, Accept
<1>1. TypeOK'
  BY DEF Phases
<1>2. RegInv'
  BY DEF RegInv, Committed
<1>3. HeldInv'
  BY DEF HeldInv, Holds, RegInv
<1>4. NameHeldOnce'
  BY DEF NameHeldOnce, Holds, RegInv
<1>5. NamesGivenBack'
  BY DEF NamesGivenBack, Holds
<1>6. SocketInv'
  BY DEF SocketInv
<1>7. StatusInv'
  BY DEF StatusInv, Committed
<1>8. ItemsInv'
  BY DEF ItemsInv, Committed
<1> QED
  BY <1>1, <1>2, <1>3, <1>4, <1>5, <1>6, <1>7, <1>8

\* The name was free, so nobody holds it; now this object does.
LEMMA ReserveNameInv ==
  ASSUME Inv, NEW k \in Conns, ReserveName(k)
  PROVE  Inv'
<1> USE LifecycleAssumption DEF Inv, TypeOK, ReserveName, RegGoto, Processing
<1>1. TypeOK'
  <2>1. PluginName[k] \in Names
    OBVIOUS
  <2>2. clientNames' \subseteq Names
    BY <2>1
  <2> QED
    BY <2>2 DEF RegSteps
<1>2. RegInv'
  BY DEF RegInv, Committed
<1>3. HeldInv'
  BY DEF HeldInv, Holds
<1>4. NameHeldOnce'
  BY DEF NameHeldOnce, Holds, HeldInv
<1>5. NamesGivenBack'
  BY DEF NamesGivenBack, Holds
<1>6. SocketInv'
  BY DEF SocketInv
<1>7. StatusInv'
  BY DEF StatusInv, Committed
<1>8. ItemsInv'
  BY DEF ItemsInv, Committed
<1> QED
  BY <1>1, <1>2, <1>3, <1>4, <1>5, <1>6, <1>7, <1>8

\* A registration that is rejected reserves nothing.
LEMMA RejectNameInv ==
  ASSUME Inv, NEW k \in Conns, RejectName(k)
  PROVE  Inv'
<1> USE DEF Inv, TypeOK, RejectName, RegGoto, Processing
<1>1. TypeOK'
  BY DEF RegSteps
<1>2. RegInv'
  BY DEF RegInv, Committed
<1>3. HeldInv'
  BY DEF HeldInv, Holds
<1>4. NameHeldOnce'
  BY DEF NameHeldOnce, Holds
<1>5. NamesGivenBack'
  BY DEF NamesGivenBack, Holds
<1>6. SocketInv'
  BY DEF SocketInv
<1>7. StatusInv'
  BY DEF StatusInv, Committed
<1>8. ItemsInv'
  BY DEF ItemsInv, Committed
<1> QED
  BY <1>1, <1>2, <1>3, <1>4, <1>5, <1>6, <1>7, <1>8

\* A registration that fails here keeps the name, which is why reg remembers it.
LEMMA WriteRegistrationInv ==
  ASSUME Inv, NEW k \in Conns, WriteRegistration(k)
  PROVE  Inv'
<1> USE DEF Inv, TypeOK, WriteRegistration, RegGoto
<1>1. TypeOK'
  BY DEF RegSteps
<1>2. RegInv'
  BY DEF RegInv, Committed
<1>3. HeldInv'
  BY DEF HeldInv, Holds
<1>4. NameHeldOnce'
  BY DEF NameHeldOnce, Holds
<1>5. NamesGivenBack'
  BY DEF NamesGivenBack, Holds
<1>6. SocketInv'
  BY DEF SocketInv
<1>7. StatusInv'
  BY DEF StatusInv, Committed
<1>8. ItemsInv'
  BY DEF ItemsInv, Committed
<1> QED
  BY <1>1, <1>2, <1>3, <1>4, <1>5, <1>6, <1>7, <1>8

\* mInfo and mRegistered change together.
LEMMA CommitRegistrationInv ==
  ASSUME Inv, NEW k \in Conns, CommitRegistration(k)
  PROVE  Inv'
<1> USE LifecycleAssumption DEF Inv, TypeOK, CommitRegistration, RegGoto
<1>1. TypeOK'
  BY DEF RegSteps
<1>2. RegInv'
  BY DEF RegInv, Committed
<1>3. HeldInv'
  BY DEF HeldInv, Holds
<1>4. NameHeldOnce'
  BY DEF NameHeldOnce, Holds
<1>5. NamesGivenBack'
  BY DEF NamesGivenBack, Holds
<1>6. SocketInv'
  BY DEF SocketInv
<1>7. StatusInv'
  BY DEF StatusInv, Committed
<1>8. ItemsInv'
  BY DEF ItemsInv, Committed
<1> QED
  BY <1>1, <1>2, <1>3, <1>4, <1>5, <1>6, <1>7, <1>8

\* The status row says running while the object is there to take it back.
LEMMA SetRunningInv ==
  ASSUME Inv, NEW k \in Conns, SetRunning(k)
  PROVE  Inv'
<1> USE DEF Inv, TypeOK, SetRunning, RegGoto
<1>1. TypeOK'
  BY DEF RegSteps
<1>2. RegInv'
  BY DEF RegInv, Committed
<1>3. HeldInv'
  BY DEF HeldInv, Holds
<1>4. NameHeldOnce'
  BY DEF NameHeldOnce, Holds
<1>5. NamesGivenBack'
  BY DEF NamesGivenBack, Holds
<1>6. SocketInv'
  BY DEF SocketInv
<1>7. StatusInv'
  BY DEF StatusInv, Committed, RegInv
<1>8. ItemsInv'
  BY DEF ItemsInv, Committed
<1> QED
  BY <1>1, <1>2, <1>3, <1>4, <1>5, <1>6, <1>7, <1>8

\* The subscription is of no concern to names, rows and descriptors.
LEMMA SubscribeInv ==
  ASSUME Inv, NEW k \in Conns, Subscribe(k)
  PROVE  Inv'
<1> USE DEF Inv, TypeOK, Subscribe
<1>1. TypeOK'
  OBVIOUS
<1>2. RegInv'
  BY DEF RegInv, Committed
<1>3. HeldInv'
  BY DEF HeldInv, Holds
<1>4. NameHeldOnce'
  BY DEF NameHeldOnce, Holds
<1>5. NamesGivenBack'
  BY DEF NamesGivenBack, Holds
<1>6. SocketInv'
  BY DEF SocketInv
<1>7. StatusInv'
  BY DEF StatusInv, Committed
<1>8. ItemsInv'
  BY DEF ItemsInv, Committed
<1> QED
  BY <1>1, <1>2, <1>3, <1>4, <1>5, <1>6, <1>7, <1>8

\* Only a registered object, which ~Plugin will clean up after, stores items.
LEMMA SetStatusItemsInv ==
  ASSUME Inv, NEW k \in Conns, SetStatusItems(k)
  PROVE  Inv'
<1> USE LifecycleAssumption DEF Inv, TypeOK, SetStatusItems, Processing
<1>1. TypeOK'
  <2>1. mInfo[k] = PluginName[k] /\ PluginName[k] \in Names
    BY DEF RegInv, HeldInv, Holds, Committed
  <2> QED
    BY <2>1
<1>2. RegInv'
  BY DEF RegInv, Committed
<1>3. HeldInv'
  BY DEF HeldInv, Holds
<1>4. NameHeldOnce'
  BY DEF NameHeldOnce, Holds
<1>5. NamesGivenBack'
  BY DEF NamesGivenBack, Holds
<1>6. SocketInv'
  BY DEF SocketInv
<1>7. StatusInv'
  BY DEF StatusInv, Committed, RegInv
<1>8. ItemsInv'
  BY DEF ItemsInv, Committed, RegInv
<1> QED
  BY <1>1, <1>2, <1>3, <1>4, <1>5, <1>6, <1>7, <1>8

\* What an object writes changes neither names nor rows nor descriptors.
LEMMA DeliverInv ==
  ASSUME Inv, NEW k \in Conns, Deliver(k) \/ PushConfig(k)
  PROVE  Inv'
<1> USE DEF Inv, TypeOK, Deliver, PushConfig, onMessageReceived
<1>1. TypeOK'
  <2>1. fdPeer[mSocket[k]] # None => fdPeer[mSocket[k]] \in Conns
    BY DEF SocketInv
  <2>2. strays' \subseteq Conns
    BY <2>1
  <2> QED
    BY <2>2
<1>2. RegInv'
  BY DEF RegInv, Committed
<1>3. HeldInv'
  BY DEF HeldInv, Holds
<1>4. NameHeldOnce'
  BY DEF NameHeldOnce, Holds
<1>5. NamesGivenBack'
  BY DEF NamesGivenBack, Holds
<1>6. SocketInv'
  BY DEF SocketInv
<1>7. StatusInv'
  BY DEF StatusInv, Committed
<1>8. ItemsInv'
  BY DEF ItemsInv, Committed
<1> QED
  BY <1>1, <1>2, <1>3, <1>4, <1>5, <1>6, <1>7, <1>8

\* The descriptor that is given back is the object's own.
LEMMA CloseSocketInv ==
  ASSUME Inv, NEW k \in Conns, CloseSocket(k)
  PROVE  Inv'
<1> USE DEF Inv, TypeOK, CloseSocket
<1>1. TypeOK'
  BY DEF Phases
<1>2. RegInv'
  BY DEF RegInv, Committed
<1>3. HeldInv'
  BY DEF HeldInv, Holds
<1>4. NameHeldOnce'
  BY DEF NameHeldOnce, Holds
<1>5. NamesGivenBack'
  BY DEF NamesGivenBack, Holds
<1>6. SocketInv'
  BY DEF SocketInv
<1>7. StatusInv'
  BY DEF StatusInv, Committed
<1>8. ItemsInv'
  BY DEF ItemsInv, Committed
<1> QED
  BY <1>1, <1>2, <1>3, <1>4, <1>5, <1>6, <1>7, <1>8

\* The threads are joined in a registration step that ~Plugin can undo.
LEMMA JoinProcessorsInv ==
  ASSUME Inv, NEW k \in Conns, JoinProcessors(k)
  PROVE  Inv'
<1> USE DEF Inv, TypeOK, JoinProcessors
<1>1. TypeOK'
  BY DEF Phases
<1>2. RegInv'
  BY DEF RegInv, Committed
<1>3. HeldInv'
  BY DEF HeldInv, Holds
<1>4. NameHeldOnce'
  BY DEF NameHeldOnce, Holds
<1>5. NamesGivenBack'
  BY DEF NamesGivenBack, Holds
<1>6. SocketInv'
  BY DEF SocketInv
<1>7. StatusInv'
  BY DEF StatusInv, Committed
<1>8. ItemsInv'
  BY DEF ItemsInv, Committed
<1> QED
  BY <1>1, <1>2, <1>3, <1>4, <1>5, <1>6, <1>7, <1>8

\* The name that is erased is the one this object holds, or none.
LEMMA EraseNameInv ==
  ASSUME Inv, NEW k \in Conns, EraseName(k)
  PROVE  Inv'
<1> USE LifecycleAssumption DEF Inv, TypeOK, EraseName
<1>1. TypeOK'
  BY DEF Phases
<1>2. RegInv'
  BY DEF RegInv, Committed
<1>3. HeldInv'
  BY DEF HeldInv, Holds, NameHeldOnce, RegInv, Committed
<1>4. NameHeldOnce'
  BY DEF NameHeldOnce, Holds
<1>5. NamesGivenBack'
  BY DEF NamesGivenBack, Holds, RegInv, Committed
<1>6. SocketInv'
  BY DEF SocketInv
<1>7. StatusInv'
  BY DEF StatusInv, Committed
<1>8. ItemsInv'
  BY DEF ItemsInv, Committed
<1> QED
  BY <1>1, <1>2, <1>3, <1>4, <1>5, <1>6, <1>7, <1>8

\* The empty subscription changes neither names nor rows nor descriptors.
LEMMA UnsubscribeInv ==
  ASSUME Inv, NEW k \in Conns, Unsubscribe(k)
  PROVE  Inv'
<1> USE DEF Inv, TypeOK, Unsubscribe
<1>1. TypeOK'
  BY DEF Phases
<1>2. RegInv'
  BY DEF RegInv, Committed
<1>3. HeldInv'
  BY DEF HeldInv, Holds
<1>4. NameHeldOnce'
  BY DEF NameHeldOnce, Holds
<1>5. NamesGivenBack'
  BY DEF NamesGivenBack, Holds
<1>6. SocketInv'
  BY DEF SocketInv
<1>7. StatusInv'
  BY DEF StatusInv, Committed
<1>8. ItemsInv'
  BY DEF ItemsInv, Committed
<1> QED
  BY <1>1, <1>2, <1>3, <1>4, <1>5, <1>6, <1>7, <1>8

\* The row is written as stopped, or the failure is remembered.
LEMMA SetStoppedInv ==
  ASSUME Inv, NEW k \in Conns, SetStopped(k)
  PROVE  Inv'
<1> USE DEF Inv, TypeOK, SetStopped
<1>1. TypeOK'
  BY DEF Phases
<1>2. RegInv'
  BY DEF RegInv, Committed
<1>3. HeldInv'
  BY DEF HeldInv, Holds
<1>4. NameHeldOnce'
  BY DEF NameHeldOnce, Holds
<1>5. NamesGivenBack'
  BY DEF NamesGivenBack, Holds
<1>6. SocketInv'
  BY DEF SocketInv
<1>7. StatusInv'
  BY DEF StatusInv, Committed, RegInv
<1>8. ItemsInv'
  BY DEF ItemsInv, Committed
<1> QED
  BY <1>1, <1>2, <1>3, <1>4, <1>5, <1>6, <1>7, <1>8

\* The plugin's items are deleted, or the failure is remembered.
LEMMA RemoveItemsInv ==
  ASSUME Inv, NEW k \in Conns, RemoveItems(k)
  PROVE  Inv'
<1> USE DEF Inv, TypeOK, RemoveItems
<1>1. TypeOK'
  BY DEF Phases
<1>2. RegInv'
  BY DEF RegInv, Committed
<1>3. HeldInv'
  BY DEF HeldInv, Holds
<1>4. NameHeldOnce'
  BY DEF NameHeldOnce, Holds
<1>5. NamesGivenBack'
  BY DEF NamesGivenBack, Holds
<1>6. SocketInv'
  BY DEF SocketInv
<1>7. StatusInv'
  BY DEF StatusInv, Committed
<1>8. ItemsInv'
  BY DEF ItemsInv, Committed, RegInv
<1> QED
  BY <1>1, <1>2, <1>3, <1>4, <1>5, <1>6, <1>7, <1>8

\* A step that changes no variable keeps the invariant.
LEMMA StutterInv == Inv /\ UNCHANGED vars => Inv'
BY DEF vars, Inv, TypeOK, RegInv, HeldInv, NameHeldOnce, NamesGivenBack,
   SocketInv, StatusInv, ItemsInv, Committed, Holds

\* Every step keeps the invariant.
LEMMA NextInv == Inv /\ [Next]_vars => Inv'
<1> SUFFICES ASSUME Inv, Next PROVE Inv'
  BY StutterInv
<1>1. PICK k \in Conns :
        \/ PluginConnects(k)
        \/ PluginLeaves(k)
        \/ \E d \in Fds : Accept(k, d)
        \/ ReserveName(k)
        \/ RejectName(k)
        \/ WriteRegistration(k)
        \/ CommitRegistration(k)
        \/ SetRunning(k)
        \/ Subscribe(k)
        \/ SetStatusItems(k)
        \/ Deliver(k)
        \/ PushConfig(k)
        \/ CloseSocket(k)
        \/ JoinProcessors(k)
        \/ EraseName(k)
        \/ Unsubscribe(k)
        \/ SetStopped(k)
        \/ RemoveItems(k)
  BY DEF Next
<1> QED
  BY <1>1, PluginConnectsInv, PluginLeavesInv, AcceptInv, ReserveNameInv,
     RejectNameInv, WriteRegistrationInv, CommitRegistrationInv, SetRunningInv,
     SubscribeInv, SetStatusItemsInv, DeliverInv, CloseSocketInv,
     JoinProcessorsInv, EraseNameInv, UnsubscribeInv, SetStoppedInv,
     RemoveItemsInv

-----------------------------------------------------------------------------
(* The theorems *)

\* The conjuncts of the invariant hold in every state of the specification.
THEOREM Invariance == Spec => []Inv
BY InitInv, NextInv, PTL DEF Spec

\* Names, rows, descriptors and objects have the values the code gives them:
\* in particular nothing is stored under the name of no plugin.
THEOREM TypeCorrect == Spec => []TypeOK
<1>1. Inv => TypeOK
  BY DEF Inv
<1> QED
  BY Invariance, <1>1, PTL

\* Two objects never hold one name, however registrations, failures and
\* destructors of any number of connections overlap.
THEOREM NamesExclusive == Spec => []NameHeldOnce
<1>1. Inv => NameHeldOnce
  BY DEF Inv
<1> QED
  BY Invariance, <1>1, PTL

\* Only a database that fails in the middle of a registration leaks a name.
THEOREM NamesReturned == Spec => []NamesGivenBack
<1>1. Inv => NamesGivenBack
  BY DEF Inv
<1> QED
  BY Invariance, <1>1, PTL

\* The last destructor of a plugin cleans its rows up, although an earlier one
\* may have done so under a newer object.
THEOREM RowsCleanedUp == Spec => []NothingLeftBehind
<1>1. Inv => NothingLeftBehind
  BY DEF Inv, TypeOK, StatusInv, ItemsInv, NothingLeftBehind
<1> QED
  BY Invariance, <1>1, PTL

\* No close of a connection takes the descriptor of another.
THEOREM SocketsOwn == Spec => []SocketStaysOwn
<1>1. Inv => SocketStaysOwn
  BY DEF Inv, SocketInv, SocketStaysOwn
<1> QED
  BY Invariance, <1>1, PTL
=============================================================================
