------------------------- MODULE PluginSessionProofs -------------------------
(***************************************************************************)
(* TLAPS proofs of the safety properties of PluginSession, for any number  *)
(* of connections, messages, pushes and kills: first what concerns the     *)
(* core's threads alone (Inv), then the types, the receive thread of the   *)
(* plugin (DeafInv) and what both sides think of the registration          *)
(* (SessionInv).                                                           *)
(***************************************************************************)
EXTENDS PluginSession, FiniteSetTheorems, TLAPS

\* What the invariants need of the variables' types.
ThreadTypes ==
  /\ queue = [t \in Threads |-> queue[t]]
  /\ msg = [t \in Threads |-> msg[t]]
  /\ event \in [Threads -> BOOLEAN]
  /\ messageWaiting \in [Threads -> BOOLEAN]
  /\ procPc \in [Threads -> ProcPcs]
  /\ recvPc \in [Conns -> RecvPcs]

\* A processor holds a message only while it processes it.
MsgInv ==
  \A t \in Threads : procPc[t] \notin {"process", "setStatus"} => msg[t] = "none"

\* There are processors only between accept() and the joins, and nothing is
\* queued before them.
JoinInv ==
  \A t \in Threads :
    /\ recvPc[t[1]] \in {"none", "delete", "gone"} => procPc[t] = "exited"
    /\ recvPc[t[1]] = "none" => queue[t] = <<>>

\* Unless it is about to look, a processor whose queue is not empty has the
\* message on record: in its own flag, in its event, or in the Set to come.
WakeInv ==
  \A t \in Threads :
    procPc[t] \in {"check", "wait", "process", "setStatus"} /\ queue[t] # <<>>
    => messageWaiting[t] \/ event[t] \/ recvPc[t[1]] = AboutToSet(t[2])

Inv == ThreadTypes /\ MsgInv /\ JoinInv /\ WakeInv

\* A processor thread is an object and one of the two names.
LEMMA ThreadParts ==
  /\ \A t \in Threads : t[1] \in Conns /\ t[2] \in Processors /\ t = <<t[1], t[2]>>
  /\ \A k \in Conns, p \in Processors : <<k, p>> \in Threads
BY DEF Threads

\* The same, for a thread that is given by its object and its name.
LEMMA ThreadOf ==
  ASSUME NEW k \in Conns, NEW p \in Processors
  PROVE  /\ <<k, p>> \in Threads /\ <<k, p>>[1] = k /\ <<k, p>>[2] = p
         /\ \A t \in Threads : t[1] = k /\ t[2] = p <=> t = <<k, p>>
BY ThreadParts

\* No thread runs yet.
LEMMA InitInv == Init => Inv
BY ThreadParts DEF Init, ConnInit, Inv, ThreadTypes, MsgInv, JoinInv, WakeInv, ProcPcs, RecvPcs

\* The receiver thread queues a message: the Set is still to come.
LEMMA QueueMessageInv ==
  ASSUME Inv, NEW k \in Conns, NEW p \in Processors, QueueMessage(k, p)
  PROVE  Inv'
<1> DEFINE t == <<k, p>>
<1>0. t \in Threads /\ t[1] = k /\ t[2] = p /\ \A u \in Threads : u[1] \in Conns
  BY ThreadOf, ThreadParts
<1>1. recvPc[k] = "recv" /\ recvPc' = [recvPc EXCEPT ![k] = AboutToSet(p)]
  BY DEF QueueMessage, RecvGoto, AboutToSet
<1>2. UNCHANGED <<event, messageWaiting, procPc, msg>>
  BY DEF QueueMessage
<1>3. \A u \in Threads : u # t => queue'[u] = queue[u]
  BY DEF QueueMessage, Inv, ThreadTypes
<1> HIDE DEF t
<1>4. ThreadTypes'
  <2>1. queue' = [u \in Threads |-> queue'[u]]
    BY DEF QueueMessage, Inv, ThreadTypes
  <2>2. AboutToSet(p) \in RecvPcs
    BY DEF AboutToSet, RecvPcs
  <2> QED
    BY <1>1, <1>2, <2>1, <2>2 DEF Inv, ThreadTypes
<1>5. MsgInv' /\ JoinInv'
  BY <1>0, <1>1, <1>2, <1>3 DEF Inv, ThreadTypes, MsgInv, JoinInv, AboutToSet
<1>6. WakeInv'
  BY <1>0, <1>1, <1>2, <1>3 DEF Inv, ThreadTypes, WakeInv, AboutToSet
<1> QED
  BY <1>4, <1>5, <1>6 DEF Inv

\* Every other step of the receiver leaves the processors where they are and
\* takes back no event; a Set that was to come is made.
LEMMA ReceiverMovesInv ==
  ASSUME Inv, NEW k \in Conns, NEW from, NEW to, RecvGoto(k, from, to),
         UNCHANGED <<queue, procPc, messageWaiting, msg>>,
         event' \in [Threads -> BOOLEAN],
         \A t \in Threads : event[t] => event'[t],
         \A p \in Processors : from = AboutToSet(p) => event'[<<k, p>>],
         to \in RecvPcs \ {"none", "gone"},
         to = "delete" => \A p \in Processors : procPc[<<k, p>>] = "exited"
  PROVE  Inv'
<1>0. \A t \in Threads : t[1] \in Conns /\ t[2] \in Processors /\ t = <<t[1], t[2]>>
  BY ThreadParts
<1>1. recvPc[k] = from /\ recvPc' = [recvPc EXCEPT ![k] = to]
  BY DEF RecvGoto
<1>2. ThreadTypes'
  BY <1>1 DEF Inv, ThreadTypes
<1>3. MsgInv'
  BY DEF Inv, MsgInv
<1>4. JoinInv'
  <2> SUFFICES ASSUME NEW t \in Threads, recvPc'[t[1]] \in {"none", "delete", "gone"}
               PROVE  procPc[t] = "exited" /\ (recvPc'[t[1]] = "none" => queue[t] = <<>>)
    BY DEF JoinInv
  <2>1. CASE t[1] = k
    <3>1. t = <<k, t[2]>> /\ t[2] \in Processors
      BY <1>0, <2>1
    <3>2. to = "delete" /\ recvPc'[t[1]] = to
      BY <1>1, <2>1 DEF Inv, ThreadTypes
    <3> QED
      BY <3>1, <3>2
  <2>2. CASE t[1] # k
    BY <1>0, <1>1, <2>2 DEF Inv, ThreadTypes, JoinInv
  <2> QED
    BY <2>1, <2>2
<1>5. WakeInv'
  <2> SUFFICES ASSUME NEW t \in Threads, procPc[t] \in {"check", "wait", "process", "setStatus"},
                      queue[t] # <<>>
               PROVE  messageWaiting[t] \/ event'[t] \/ recvPc'[t[1]] = AboutToSet(t[2])
    BY DEF WakeInv
  <2>1. messageWaiting[t] \/ event[t] \/ recvPc[t[1]] = AboutToSet(t[2])
    BY DEF Inv, WakeInv
  <2>2. CASE recvPc[t[1]] = AboutToSet(t[2]) /\ t[1] = k
    <3>1. t = <<k, t[2]>> /\ t[2] \in Processors /\ from = AboutToSet(t[2])
      BY <1>0, <1>1, <2>2
    <3> QED
      BY <3>1
  <2>3. CASE t[1] # k
    BY <1>0, <1>1, <2>1, <2>3 DEF Inv, ThreadTypes
  <2> QED
    BY <2>1, <2>2, <2>3
<1> QED
  BY <1>2, <1>3, <1>4, <1>5 DEF Inv

\* Objects that are freed leave nothing behind, and the others as they are.
LEMMA FreedInv ==
  ASSUME Inv, NEW K \in SUBSET Conns, Freed(K),
         recvPc' \in [Conns -> RecvPcs],
         \A k \in Conns \ K : recvPc'[k] = recvPc[k]
  PROVE  Inv'
<1>0. \A t \in Threads : t[1] \in Conns
  BY ThreadParts
<1>1. ThreadTypes'
  BY DEF Inv, ThreadTypes, Freed, ProcPcs
<1>2. \A t \in Threads :
         \/ /\ t[1] \in K
            /\ procPc'[t] = "exited" /\ msg'[t] = "none" /\ queue'[t] = <<>>
         \/ /\ t[1] \notin K /\ recvPc'[t[1]] = recvPc[t[1]]
            /\ procPc'[t] = procPc[t] /\ msg'[t] = msg[t] /\ queue'[t] = queue[t]
            /\ event'[t] = event[t] /\ messageWaiting'[t] = messageWaiting[t]
  BY <1>0 DEF Freed, Inv, ThreadTypes
<1>3. MsgInv' /\ JoinInv'
  BY <1>2 DEF Inv, MsgInv, JoinInv
<1>4. WakeInv'
  BY <1>2 DEF Inv, WakeInv
<1> QED
  BY <1>1, <1>3, <1>4 DEF Inv

\* A step that leaves everything the invariant reads alone.
LEMMA StutterInv ==
  ASSUME Inv, UNCHANGED <<queue, event, procPc, messageWaiting, msg, recvPc>>
  PROVE  Inv'
BY DEF Inv, ThreadTypes, MsgInv, JoinInv, WakeInv

\* The end of the process: every object is freed.
LEMMA CoreDiesInv ==
  ASSUME Inv, NEW how, CoreDies(how)
  PROVE  Inv'
BY FreedInv DEF CoreDies, RecvPcs

\* Every step of the receiver thread.
LEMMA ReceiverInv ==
  ASSUME Inv, NEW k \in Conns, Receiver(k)
  PROVE  Inv'
<1>1. CASE ReceiveUnparsable(k)
  BY <1>1, StutterInv DEF ReceiveUnparsable, connVars, threadVars
<1>2. ASSUME NEW p \in Processors, QueueMessage(k, p) PROVE Inv'
  BY <1>2, QueueMessageInv
<1>3. ASSUME NEW p \in Processors, WakeProcessor(k, p) PROVE Inv'
  <2>1. RecvGoto(k, AboutToSet(p), "recv") /\ UNCHANGED <<queue, procPc, messageWaiting, msg>>
    BY <1>3 DEF WakeProcessor, AboutToSet
  <2>2. event' = [event EXCEPT ![<<k, p>>] = TRUE] /\ <<k, p>> \in Threads
    BY <1>3, ThreadOf DEF WakeProcessor
  <2>3. \A q \in Processors : AboutToSet(p) = AboutToSet(q) => p = q
    BY DEF AboutToSet, Processors
  <2>4. /\ event' \in [Threads -> BOOLEAN]
        /\ \A t \in Threads : event[t] => event'[t]
        /\ event'[<<k, p>>]
    BY <2>2 DEF Inv, ThreadTypes
  <2>5. "recv" \in RecvPcs
    BY DEF RecvPcs
  <2> QED
    BY <2>1, <2>3, <2>4, <2>5, ReceiverMovesInv
<1>4. CASE ConnectionClosed(k)
  <2>1. /\ RecvGoto(k, "recv", "interrupt")
        /\ UNCHANGED <<event, queue, procPc, messageWaiting, msg>>
    BY <1>4 DEF ConnectionClosed, threadVars
  <2> QED
    BY <2>1, ReceiverMovesInv DEF AboutToSet, RecvPcs, Inv, ThreadTypes
<1>5. CASE InterruptProcessors(k)
  <2>1. /\ RecvGoto(k, "interrupt", "wake")
        /\ UNCHANGED <<event, queue, procPc, messageWaiting, msg>>
    BY <1>5 DEF InterruptProcessors
  <2> QED
    BY <2>1, ReceiverMovesInv DEF AboutToSet, RecvPcs, Inv, ThreadTypes
<1>6. CASE WakeProcessors(k)
  <2>1. RecvGoto(k, "wake", "join") /\ UNCHANGED <<queue, procPc, messageWaiting, msg>>
    BY <1>6 DEF WakeProcessors
  <2>2. /\ event' \in [Threads -> BOOLEAN]
        /\ \A t \in Threads : event[t] => event'[t]
    BY <1>6 DEF WakeProcessors, Inv, ThreadTypes
  <2> QED
    BY <2>1, <2>2, ReceiverMovesInv DEF AboutToSet, RecvPcs
<1>7. CASE JoinProcessors(k)
  <2>1. /\ RecvGoto(k, "join", "delete")
        /\ UNCHANGED <<event, queue, procPc, messageWaiting, msg>>
        /\ \A p \in Processors : procPc[<<k, p>>] = "exited"
    BY <1>7 DEF JoinProcessors, threadVars
  <2> QED
    BY <2>1, ReceiverMovesInv DEF AboutToSet, RecvPcs, Inv, ThreadTypes
<1>8. CASE DeleteThis(k)
  <2>1. Freed({k}) /\ recvPc' = [recvPc EXCEPT ![k] = "gone"]
    BY <1>8 DEF DeleteThis, RecvGoto
  <2> QED
    BY <2>1, FreedInv DEF Inv, ThreadTypes, RecvPcs
<1> QED
  BY <1>1, <1>2, <1>3, <1>4, <1>5, <1>6, <1>7, <1>8 DEF Receiver

\* A processor goes back to its loop with the message it had done away with.
LEMMA FinishInv ==
  ASSUME Inv, NEW t \in Threads, procPc[t] \in {"process", "setStatus"}, Finish(t)
  PROVE  Inv'
<1>0. \A u \in Threads : u[1] \in Conns
  BY ThreadParts
<1>1. procPc' = [procPc EXCEPT ![t] = "check"] /\ msg' = [msg EXCEPT ![t] = "none"]
      /\ UNCHANGED <<recvPc, queue, event, messageWaiting>>
  BY DEF Finish
<1>2. ThreadTypes'
  BY <1>1 DEF Inv, ThreadTypes, ProcPcs
<1>3. MsgInv' /\ JoinInv'
  BY <1>0, <1>1 DEF Inv, ThreadTypes, MsgInv, JoinInv
<1>4. WakeInv'
  BY <1>0, <1>1 DEF Inv, ThreadTypes, WakeInv
<1> QED
  BY <1>2, <1>3, <1>4 DEF Inv

\* It looks for the interruption and goes on with the flag of the last pop.
LEMMA CheckInterruptionInv ==
  ASSUME Inv, NEW t \in Threads, CheckInterruption(t)
  PROVE  Inv'
<1>0. \A u \in Threads : u[1] \in Conns
  BY ThreadParts
<1>1. /\ procPc' = [procPc EXCEPT ![t] = procPc'[t]] /\ procPc[t] = "check"
      /\ procPc'[t] \in {"exited", "pop", "wait"} /\ procPc'[t] \in ProcPcs
      /\ UNCHANGED <<recvPc, queue, event, messageWaiting, msg>>
  BY DEF CheckInterruption, ProcGoto, Inv, ThreadTypes, ProcPcs
<1>2. ThreadTypes'
  BY <1>1 DEF Inv, ThreadTypes
<1>3. MsgInv' /\ JoinInv'
  BY <1>0, <1>1 DEF Inv, ThreadTypes, MsgInv, JoinInv
<1>4. WakeInv'
  BY <1>0, <1>1 DEF Inv, ThreadTypes, WakeInv
<1> QED
  BY <1>2, <1>3, <1>4 DEF Inv

\* The event is consumed; the pop that follows looks at the queue.
LEMMA WaitOneInv ==
  ASSUME Inv, NEW t \in Threads, WaitOne(t)
  PROVE  Inv'
<1>0. \A u \in Threads : u[1] \in Conns
  BY ThreadParts
<1>1. /\ procPc' = [procPc EXCEPT ![t] = "pop"] /\ procPc[t] = "wait"
      /\ event' = [event EXCEPT ![t] = FALSE]
      /\ UNCHANGED <<recvPc, queue, messageWaiting, msg>>
  BY DEF WaitOne, ProcGoto
<1>2. ThreadTypes'
  BY <1>1 DEF Inv, ThreadTypes, ProcPcs
<1>3. MsgInv' /\ JoinInv'
  BY <1>0, <1>1 DEF Inv, ThreadTypes, MsgInv, JoinInv
<1>4. WakeInv'
  BY <1>0, <1>1 DEF Inv, ThreadTypes, WakeInv
<1> QED
  BY <1>2, <1>3, <1>4 DEF Inv

\* messageWaiting says after a pop whether the queue is empty, so the event
\* that was consumed is not missed.
LEMMA PopMessageInv ==
  ASSUME Inv, NEW t \in Threads, PopMessage(t)
  PROVE  Inv'
<1>0. \A u \in Threads : u[1] \in Conns
  BY ThreadParts
<1>1. procPc[t] = "pop" /\ UNCHANGED <<recvPc, event>>
  BY DEF PopMessage, ProcGoto
<1>2. \A u \in Threads : u # t =>
         /\ procPc'[u] = procPc[u] /\ msg'[u] = msg[u] /\ queue'[u] = queue[u]
         /\ messageWaiting'[u] = messageWaiting[u]
  BY DEF PopMessage, ProcGoto, Inv, ThreadTypes
<1>3. \/ procPc'[t] = "process" /\ (messageWaiting'[t] <=> queue'[t] # <<>>)
      \/ procPc'[t] = "check" /\ msg'[t] = "none" /\ queue'[t] = <<>>
  BY DEF PopMessage, ProcGoto, Inv, ThreadTypes
<1>4. ThreadTypes'
  <2>1. queue' = [u \in Threads |-> queue'[u]] /\ msg' = [u \in Threads |-> msg'[u]]
    BY DEF PopMessage, Inv, ThreadTypes
  <2>2. messageWaiting' \in [Threads -> BOOLEAN]
    BY Zenon DEF PopMessage, Inv, ThreadTypes
  <2>3. procPc' \in [Threads -> ProcPcs]
    BY DEF PopMessage, ProcGoto, Inv, ThreadTypes, ProcPcs
  <2> QED
    BY <1>1, <2>1, <2>2, <2>3 DEF Inv, ThreadTypes
<1>5. MsgInv' /\ JoinInv'
  BY <1>0, <1>1, <1>2, <1>3 DEF Inv, MsgInv, JoinInv
<1>6. WakeInv'
  BY <1>1, <1>2, <1>3 DEF Inv, WakeInv
<1> QED
  BY <1>4, <1>5, <1>6 DEF Inv

\* The fast thread goes on to setPluginStatus with its message.
LEMMA AcceptRegistrationInv ==
  ASSUME Inv, NEW k \in Conns, AcceptRegistration(k)
  PROVE  Inv'
<1>0. \A u \in Threads : u[1] \in Conns
  BY ThreadParts
<1>1. /\ Fast(k) \in Threads /\ procPc[Fast(k)] = "process"
      /\ procPc' = [procPc EXCEPT ![Fast(k)] = "setStatus"]
      /\ UNCHANGED <<recvPc, queue, event, messageWaiting, msg>>
  BY ThreadOf DEF AcceptRegistration, ProcGoto, Fast, Processors
<1>2. ThreadTypes'
  BY <1>1 DEF Inv, ThreadTypes, ProcPcs
<1>3. MsgInv' /\ JoinInv'
  BY <1>0, <1>1 DEF Inv, ThreadTypes, MsgInv, JoinInv
<1>4. WakeInv'
  BY <1>0, <1>1 DEF Inv, ThreadTypes, WakeInv
<1> QED
  BY <1>2, <1>3, <1>4 DEF Inv

\* What a step of a message's handler comes to, besides AcceptRegistration.
LEMMA Handlers ==
  ASSUME NEW k \in Conns
  PROVE  /\ FastProcess(k) => \/ AcceptRegistration(k)
                              \/ /\ procPc[Fast(k)] \in {"process", "setStatus"}
                                 /\ Finish(Fast(k)) \/ Terminate
         /\ SlowProcess(k) => /\ procPc[Slow(k)] = "process"
                              /\ Finish(Slow(k)) \/ Terminate
BY DEF FastProcess, SlowProcess, IgnoreManifest, RejectRegistration, AnswerRegistration,
   ProcessSubscribe, ProcessGlobalConfig, ProcessPluginConfig, ProcessNormal, ProcessStatus,
   ProcessEventLog, FinishSilently, Handles

\* Every step of a processor thread.
LEMMA ProcessorInv ==
  ASSUME Inv, NEW t \in Threads, Processor(t)
  PROVE  Inv'
<1>0. t[1] \in Conns /\ t = <<t[1], t[2]>>
  BY ThreadParts
<1>1. CASE CheckInterruption(t) \/ WaitOne(t) \/ PopMessage(t)
  BY <1>1, CheckInterruptionInv, WaitOneInv, PopMessageInv
<1>2. CASE t[2] = "fast" /\ FastProcess(t[1])
  <2>1. t = Fast(t[1])
    BY <1>0, <1>2 DEF Fast
  <2> QED
    BY <1>0, <1>2, <2>1, Handlers, AcceptRegistrationInv, FinishInv, CoreDiesInv DEF Terminate
<1>3. CASE t[2] = "slow" /\ SlowProcess(t[1])
  <2>1. t = Slow(t[1])
    BY <1>0, <1>3 DEF Slow
  <2> QED
    BY <1>0, <1>3, <2>1, Handlers, FinishInv, CoreDiesInv DEF Terminate
<1> QED
  BY <1>1, <1>2, <1>3 DEF Processor

\* A new object: its queues are empty.
LEMMA AcceptInv ==
  ASSUME Inv, NEW k \in Conns, Accept(k)
  PROVE  Inv'
<1>1. ThreadTypes'
  BY DEF Inv, ThreadTypes, Accept, NewPluginConnection, ProcPcs, RecvPcs
<1>2. /\ recvPc[k] = "none" /\ recvPc' = [recvPc EXCEPT ![k] = "recv"]
      /\ UNCHANGED <<queue, msg>>
      /\ \A t \in Threads : t[1] # k => procPc'[t] = procPc[t]
      /\ UNCHANGED <<event, messageWaiting>>
  BY DEF Accept, NewPluginConnection
<1>3. \A t \in Threads : t[1] = k => queue[t] = <<>> /\ msg[t] = "none"
  BY <1>2 DEF Inv, JoinInv, MsgInv
<1>4. MsgInv' /\ JoinInv'
  BY <1>2, <1>3, ThreadParts DEF Inv, ThreadTypes, MsgInv, JoinInv
<1>5. WakeInv'
  BY <1>2, <1>3, ThreadParts DEF Inv, ThreadTypes, WakeInv
<1> QED
  BY <1>1, <1>4, <1>5 DEF Inv

\* What the plugin, the other threads of the core, its end and its start do
\* besides is not seen by the threads' state.
LEMMA OtherInv ==
  ASSUME Inv,
         ReceiveThreadStep \/ AppCallStep \/ AppFinishStep \/ RestartStep
         \/ (\E k \in Conns : PushStep(k)) \/ CoreStep \/ UNCHANGED vars
  PROVE  Inv'
<1>1. CASE CoreKilled
  BY <1>1, CoreDiesInv DEF CoreKilled
<1>2. CASE CoreRestarts
  BY <1>2, StutterInv DEF CoreRestarts, threadVars
<1>3. CASE \E k \in Conns : PushStep(k)
  BY <1>3, StutterInv DEF PushStep, PushConfig, PushRouted, NeighbourWrites, Pushed, threadVars
<1>4. CASE ReceiveThreadStep \/ AppCallStep \/ AppFinishStep \/ RestartStep \/ UNCHANGED vars
  BY <1>4, StutterInv DEF ReceiveThreadStep, AppCallStep, AppFinishStep, RestartStep, vars,
     connVars, threadVars
<1> QED
  BY <1>1, <1>2, <1>3, <1>4 DEF CoreStep

\* Every step of the session keeps the invariant.
LEMMA NextInv == Inv /\ [Next]_vars => Inv'
<1> SUFFICES ASSUME Inv, [Next]_vars PROVE Inv'
  OBVIOUS
<1>1. ASSUME NEW k \in Conns, ReceiverStep(k) \/ AcceptStep(k) PROVE Inv'
  BY <1>1, ReceiverInv, AcceptInv DEF ReceiverStep, AcceptStep
<1>2. ASSUME NEW t \in Threads, ProcessorStep(t) PROVE Inv'
  BY <1>2, ProcessorInv DEF ProcessorStep
<1>3. CASE ReceiveThreadStep \/ AppCallStep \/ AppFinishStep \/ RestartStep
           \/ (\E k \in Conns : PushStep(k)) \/ CoreStep \/ UNCHANGED vars
  BY <1>3, OtherInv
<1> QED
  BY <1>1, <1>2, <1>3 DEF Next

\* The first invariant holds always.
LEMMA Invariance == Spec => []Inv
BY InitInv, NextInv, PTL DEF Spec

\* A processor that sleeps on its AutoResetEvent with a message in its queue
\* sleeps only until the receiver, which queued the message, sets the event,
\* however many Sets were merged into one.
THEOREM WakeupsKept == Spec => []NoLostWakeup
<1>1. Inv => NoLostWakeup
  BY DEF Inv, WakeInv, NoLostWakeup
<1> QED
  BY <1>1, Invariance, PTL

\* When a receiver thread deletes its object, both processors have ended and
\* neither holds a message.
THEOREM ThreadsJoined == Spec => []NoThreadOutlivesObject
<1>1. Inv => NoThreadOutlivesObject
  BY DEF Inv, MsgInv, JoinInv, NoThreadOutlivesObject
<1> QED
  BY <1>1, Invariance, PTL

-----------------------------------------------------------------------------
(* Types *)

\* No more connections are opened than the bound says.
LEMMA OpenedType == Opened \in 0..MaxConnections
<1>1. IsFiniteSet(Conns) /\ Cardinality(Conns) = MaxConnections
  BY FS_Interval, SocketAssumption DEF Conns
<1>2. {k \in Conns : clientEnd[k] # "unused"} \in SUBSET Conns
  OBVIOUS
<1>3. /\ IsFiniteSet({k \in Conns : clientEnd[k] # "unused"})
      /\ Cardinality({k \in Conns : clientEnd[k] # "unused"}) <= Cardinality(Conns)
  BY <1>1, <1>2, FS_Subset
<1>4. Cardinality({k \in Conns : clientEnd[k] # "unused"}) \in Nat
  BY <1>3, FS_CardinalityType
<1> QED
  BY <1>1, <1>3, <1>4, SocketAssumption DEF Opened

\* The system calls on a connection, and the end of the core's process.
SocketCall ==
  \/ UNCHANGED socketVars \/ CoreClosesAll
  \/ \E k : \/ Connect(k) \/ ClientReads(k) \/ CoreReads(k)
            \/ ClientCloses(k) \/ CoreCloses(k)
            \/ \E m : ClientSends(k, m) \/ CoreSends(k, m)

\* A system call keeps the types of the ends and the queues.
LEMMA SocketCallTypes ==
  ASSUME SocketTypeOK, SocketCall
  PROVE  SocketTypeOK'
BY DEF SocketTypeOK, SocketCall, socketVars, CoreClosesAll, Connect, ClientReads,
   CoreReads, ClientCloses, CoreCloses, ClientSends, CoreSends

\* What ConnTypeOK adds to ThreadTypes.
RestTypes ==
  /\ mSocket \in [Conns -> Conns \cup {0}]
  /\ interrupted \in [Threads -> BOOLEAN]
  /\ mRegistered \in [Conns -> BOOLEAN]
  /\ subscribed \in [Conns -> BOOLEAN]
  /\ misled \subseteq Conns
  /\ refused \subseteq Conns
  /\ pushes \in 0..MaxPushes
  /\ kills \in 0..MaxKills
  /\ coreProcess \in {"running", "killed", "terminated"}

\* The two halves make ConnTypeOK.
LEMMA ConnTypes == ThreadTypes /\ RestTypes <=> ThreadTypes /\ ConnTypeOK
BY DEF ThreadTypes, RestTypes, ConnTypeOK

\* The initial values have their types.
LEMMA InitTypes == Init => TypeOK
<1> SUFFICES ASSUME Init PROVE TypeOK
  OBVIOUS
<1>1. SocketTypeOK
  BY DEF Init, SocketInit, SocketTypeOK
<1>2. PluginTypeOK
  BY PluginAssumption DEF Init, PluginInit, PluginTypeOK
<1>3. ConnTypeOK
  <2>1. ThreadTypes
    BY InitInv DEF Inv
  <2>2. pushes \in 0..MaxPushes /\ kills \in 0..MaxKills
    BY ConnAssumption DEF Init, ConnInit
  <2>3. RestTypes
    BY <2>2 DEF Init, ConnInit, RestTypes
  <2> QED
    BY <2>1, <2>3, ConnTypes
<1> QED
  BY <1>1, <1>2, <1>3 DEF TypeOK

\* The plugin's side keeps its types.
LEMMA PluginTypes ==
  ASSUME TypeOK, ReceiveThread \/ AppLocks \/ AppFinishes \/ PluginRestarts
  PROVE  PluginTypeOK' /\ SocketTypeOK'
<1> USE DEF TypeOK
<1>1. CASE ConnectToCore
  BY <1>1, OpenedType, SocketAssumption, SocketCallTypes
  DEF ConnectToCore, PluginTypeOK, ivp_onStateChange, Conns, SocketCall
<1>2. CASE SendRegister \/ Resubscribe
  BY <1>2, SocketCallTypes
  DEF SendRegister, Resubscribe, SendFromReceiver, ivp_onStateChange, PluginTypeOK, SocketCall
<1>3. CASE CheckState \/ BecomeRegistered \/ ReceiveEnd
  BY <1>3, SocketCallTypes
  DEF CheckState, BecomeRegistered, ReceiveEnd, ivp_onStateChange, PluginTypeOK, SocketCall
<1>4. CASE ReceiveConfig \/ ReceiveError \/ ReceiveMessage
  BY <1>4, SocketCallTypes
  DEF ReceiveConfig, ReceiveError, ReceiveMessage, HandlesMessage, AfterMessage,
      ivp_onError, PluginTypeOK, SocketCall
<1>5. CASE CloseSocket \/ PluginRestarts
  BY <1>5, SocketCallTypes DEF CloseSocket, PluginRestarts, PluginTypeOK, SocketCall
<1>6. CASE AppLocks
  BY <1>6, SocketCallTypes, PluginAssumption DEF AppLocks, PluginTypeOK, SocketCall
<1>7. CASE AppFinishes
  BY <1>7, SocketCallTypes
  DEF AppFinishes, AppSends, AppSendFails, AppDisconnects, ivp_onStateChange,
      PluginTypeOK, SocketCall
<1> QED
  BY <1>1, <1>2, <1>3, <1>4, <1>5, <1>6, <1>7 DEF ReceiveThread

\* What the objects have of their own keeps its types when some are freed.
LEMMA FreedTypes ==
  ASSUME RestTypes, NEW K \in SUBSET Conns, Freed(K), UNCHANGED limits,
         coreProcess' \in {"running", "killed", "terminated"}
  PROVE  RestTypes'
<1>1. mSocket' \in [Conns -> Conns \cup {0}] /\ interrupted' \in [Threads -> BOOLEAN]
  BY ThreadParts DEF RestTypes, Freed
<1>2. mRegistered' \in [Conns -> BOOLEAN] /\ subscribed' \in [Conns -> BOOLEAN]
  BY DEF RestTypes, Freed
<1> QED
  BY <1>1, <1>2 DEF RestTypes, Freed, limits

\* So does the core's side, in the receiver threads.
LEMMA ReceiverTypes ==
  ASSUME RestTypes, SocketTypeOK, NEW k \in Conns, Receiver(k)
  PROVE  RestTypes' /\ SocketTypeOK'
<1>1. CASE ReceiveUnparsable(k)
  <2>1. SocketTypeOK'
    BY <1>1 DEF ReceiveUnparsable, SocketTypeOK
  <2> QED
    BY <1>1, <2>1 DEF ReceiveUnparsable, connVars, limits, threadVars, RestTypes
<1>2. ASSUME NEW p \in Processors, QueueMessage(k, p) \/ WakeProcessor(k, p)
      PROVE  RestTypes' /\ SocketTypeOK'
  BY <1>2, SocketCallTypes DEF QueueMessage, WakeProcessor, limits, RestTypes, SocketCall
<1>3. CASE ConnectionClosed(k) \/ WakeProcessors(k) \/ JoinProcessors(k)
  BY <1>3, SocketCallTypes
  DEF ConnectionClosed, WakeProcessors, JoinProcessors, threadVars, limits, RestTypes, SocketCall
<1>4. CASE InterruptProcessors(k)
  BY <1>4, SocketCallTypes DEF InterruptProcessors, limits, RestTypes, SocketCall
<1>5. CASE DeleteThis(k)
  <2>1. UNCHANGED socketVars /\ Freed({k}) /\ UNCHANGED <<limits, coreProcess>>
    BY <1>5 DEF DeleteThis
  <2>2. SocketTypeOK'
    BY <2>1, SocketCallTypes DEF SocketCall
  <2>3. coreProcess' \in {"running", "killed", "terminated"}
    BY <2>1 DEF RestTypes
  <2> QED
    BY <2>1, <2>2, <2>3, FreedTypes
<1> QED
  BY <1>1, <1>2, <1>3, <1>4, <1>5 DEF Receiver

\* A message that an object sends.
LEMMA OnMessageTypes ==
  ASSUME SocketTypeOK, misled \subseteq Conns, NEW k \in Conns, NEW m, onMessageReceived(k, m)
  PROVE  SocketTypeOK' /\ misled' \subseteq Conns
<1>1. SocketTypeOK'
  BY SocketCallTypes DEF onMessageReceived, SocketCall
<1> QED
  BY <1>1 DEF onMessageReceived, Holder

\* The handlers of the messages.
LEMMA HandlerTypes ==
  ASSUME RestTypes, SocketTypeOK, NEW k \in Conns, FastProcess(k) \/ SlowProcess(k)
  PROVE  RestTypes' /\ SocketTypeOK'
<1>1. CASE Terminate
  BY <1>1, FreedTypes, SocketCallTypes DEF Terminate, CoreDies, SocketCall
<1>2. ASSUME NEW t \in Threads, FinishSilently(t) PROVE RestTypes' /\ SocketTypeOK'
  BY <1>2, SocketCallTypes DEF FinishSilently, Finish, limits, RestTypes, SocketCall
<1>3. CASE RejectRegistration(k) \/ AnswerRegistration(k)
  BY <1>3, OnMessageTypes, SocketCallTypes
  DEF RejectRegistration, AnswerRegistration, Finish, limits, RestTypes
<1>4. CASE AcceptRegistration(k)
  BY <1>4, SocketCallTypes DEF AcceptRegistration, limits, RestTypes, SocketCall
<1>5. CASE ProcessSubscribe(k)
  <2>1. SocketTypeOK' /\ misled' \subseteq Conns
    BY <1>5, OnMessageTypes, SocketCallTypes DEF ProcessSubscribe, RestTypes, SocketCall
  <2>2. subscribed' \in [Conns -> BOOLEAN]
    BY <1>5 DEF ProcessSubscribe, RestTypes
  <2> QED
    BY <1>5, <2>1, <2>2 DEF ProcessSubscribe, Finish, limits, RestTypes
<1>6. CASE ProcessNormal(k)
  BY <1>6, OnMessageTypes, SocketCallTypes
  DEF ProcessNormal, Finish, limits, RestTypes, SocketCall
<1>7. CASE IgnoreManifest(k) \/ ProcessGlobalConfig(k) \/ ProcessPluginConfig(k)
           \/ ProcessStatus(k) \/ ProcessEventLog(k)
  <2>1. Fast(k) \in Threads /\ Slow(k) \in Threads
    BY ThreadOf DEF Fast, Slow, Processors
  <2> QED
    BY <1>1, <1>2, <1>7, <2>1 DEF IgnoreManifest, ProcessGlobalConfig, ProcessPluginConfig,
       ProcessStatus, ProcessEventLog
<1> QED
  BY <1>3, <1>4, <1>5, <1>6, <1>7 DEF FastProcess, SlowProcess

\* The processor threads.
LEMMA ProcessorTypes ==
  ASSUME RestTypes, SocketTypeOK, NEW t \in Threads, Processor(t)
  PROVE  RestTypes' /\ SocketTypeOK'
<1>1. t[1] \in Conns
  BY ThreadParts
<1>2. CASE CheckInterruption(t) \/ WaitOne(t) \/ PopMessage(t)
  BY <1>2, SocketCallTypes
  DEF CheckInterruption, WaitOne, PopMessage, limits, RestTypes, SocketCall
<1> QED
  BY <1>1, <1>2, HandlerTypes DEF Processor

\* Accepted connections, pushes and the end of the process keep the types.
LEMMA CoreTypes ==
  ASSUME RestTypes, SocketTypeOK,
         \/ \E k \in Conns : Accept(k) \/ PushConfig(k) \/ PushRouted(k) \/ NeighbourWrites(k)
         \/ CoreKilled \/ CoreRestarts
  PROVE  RestTypes' /\ SocketTypeOK'
<1>1. ASSUME NEW k \in Conns, Accept(k) PROVE RestTypes' /\ SocketTypeOK'
  <2>1. PICK d \in 1..k : NewPluginConnection(k, d)
    BY <1>1 DEF Accept
  <2>2. d \in Conns
    BY <2>1, SocketAssumption DEF Conns
  <2> QED
    BY <2>1, <2>2, SocketCallTypes DEF NewPluginConnection, RestTypes, limits, SocketCall
<1>2. ASSUME NEW k \in Conns, PushConfig(k) \/ PushRouted(k) PROVE RestTypes' /\ SocketTypeOK'
  <2>1. SocketTypeOK' /\ misled' \subseteq Conns
    BY <1>2, OnMessageTypes DEF PushConfig, PushRouted, RestTypes
  <2>2. pushes' \in 0..MaxPushes
    BY <1>2, ConnAssumption DEF PushConfig, PushRouted, Pushed, RestTypes
  <2> QED
    BY <1>2, <2>1, <2>2 DEF PushConfig, PushRouted, Pushed, threadVars, RestTypes
<1>3. ASSUME NEW k \in Conns, NeighbourWrites(k) PROVE RestTypes' /\ SocketTypeOK'
  <2>1. SocketTypeOK'
    BY <1>3, SocketCallTypes DEF NeighbourWrites, SocketCall
  <2>2. pushes' \in 0..MaxPushes
    BY <1>3, ConnAssumption DEF NeighbourWrites, Pushed, RestTypes
  <2> QED
    BY <1>3, <2>1, <2>2 DEF NeighbourWrites, Pushed, threadVars, RestTypes
<1>4. CASE CoreKilled
  <2>1. Freed(Conns) /\ coreProcess' = "killed" /\ CoreClosesAll /\ UNCHANGED pushes
    BY <1>4 DEF CoreKilled, CoreDies
  <2>2. kills' \in 0..MaxKills
    BY <1>4, ConnAssumption DEF CoreKilled, RestTypes
  <2>3. mSocket' \in [Conns -> Conns \cup {0}] /\ interrupted' \in [Threads -> BOOLEAN]
    BY <2>1, ThreadParts DEF RestTypes, Freed
  <2>4. mRegistered' \in [Conns -> BOOLEAN] /\ subscribed' \in [Conns -> BOOLEAN]
    BY <2>1 DEF RestTypes, Freed
  <2>5. SocketTypeOK'
    BY <2>1, SocketCallTypes DEF SocketCall
  <2> QED
    BY <2>1, <2>2, <2>3, <2>4, <2>5 DEF RestTypes, Freed
<1>5. CASE CoreRestarts
  BY <1>5, SocketCallTypes DEF CoreRestarts, threadVars, limits, RestTypes, SocketCall
<1> QED
  BY <1>1, <1>2, <1>3, <1>4, <1>5

\* Every step of the session keeps the types.
LEMMA NextTypes == TypeOK /\ ThreadTypes /\ ThreadTypes' /\ [Next]_vars => TypeOK'
<1> SUFFICES ASSUME TypeOK, ThreadTypes, ThreadTypes', [Next]_vars PROVE TypeOK'
  OBVIOUS
<1>0. RestTypes /\ SocketTypeOK
  BY ConnTypes DEF TypeOK
<1>1. CASE ReceiveThreadStep \/ AppCallStep \/ AppFinishStep \/ RestartStep
  <2>1. PluginTypeOK' /\ SocketTypeOK'
    BY <1>1, PluginTypes DEF ReceiveThreadStep, AppCallStep, AppFinishStep, RestartStep
  <2>2. ConnTypeOK'
    BY <1>1 DEF TypeOK, ConnTypeOK, ReceiveThreadStep, AppCallStep, AppFinishStep, RestartStep,
       connVars, limits, threadVars
  <2> QED
    BY <2>1, <2>2 DEF TypeOK
<1>2. ASSUME RestTypes', SocketTypeOK', UNCHANGED pluginVars PROVE TypeOK'
  <2>1. ConnTypeOK'
    BY <1>2 DEF ThreadTypes, RestTypes, ConnTypeOK
  <2>2. PluginTypeOK'
    BY <1>2 DEF TypeOK, PluginTypeOK, pluginVars
  <2> QED
    BY <1>2, <2>1, <2>2 DEF TypeOK
<1>3. ASSUME NEW k \in Conns, ReceiverStep(k) \/ AcceptStep(k) \/ PushStep(k) PROVE TypeOK'
  BY <1>0, <1>2, <1>3, ReceiverTypes, CoreTypes DEF ReceiverStep, AcceptStep, PushStep
<1>4. ASSUME NEW t \in Threads, ProcessorStep(t) PROVE TypeOK'
  BY <1>0, <1>2, <1>4, ProcessorTypes DEF ProcessorStep
<1>5. CASE CoreStep
  BY <1>0, <1>2, <1>5, CoreTypes DEF CoreStep
<1>6. CASE UNCHANGED vars
  BY <1>6 DEF vars, socketVars, pluginVars, connVars, limits, threadVars,
     TypeOK, SocketTypeOK, PluginTypeOK, ConnTypeOK
<1> QED
  BY <1>1, <1>3, <1>4, <1>5, <1>6 DEF Next

\* The variables of both sides have the types of the code's, however often
\* either side is restarted.
THEOREM TypeCorrect == Spec => []TypeOK
<1>1. Inv /\ TypeOK /\ Inv' /\ [Next]_vars => TypeOK'
  BY NextTypes DEF Inv
<1> QED
  BY <1>1, InitTypes, Invariance, PTL DEF Spec

-----------------------------------------------------------------------------
(* The receive thread is not left deaf. *)

\* There is a socket from connect to close.
PlaceInv == socket = 0 <=> rpc = "connect"

\* A send that found its socket unusable holds the lock; the receive thread
\* has not registered on a new connection meanwhile, as that takes the lock.
FailInv ==
  /\ appPc # "idle" => lock = "app"
  /\ appPc = "failed" => rpc \in {"connect", "register"} \/ coreEnd[socket] = "closed"

DeafInv == PlaceInv /\ FailInv /\ NoDeafPlugin

\* The plugin begins without a connection.
LEMMA InitDeaf == Init => DeafInv
BY DEF Init, PluginInit, DeafInv, PlaceInv, FailInv, NoDeafPlugin

\* Only connect() opens an end; the core's steps have none.
CoreCall ==
  \/ UNCHANGED socketVars \/ CoreClosesAll
  \/ \E k : CoreReads(k) \/ CoreCloses(k) \/ \E m : CoreSends(k, m)

\* A message of a handler or of another thread opens none.
LEMMA OnMessageCalls == \A k, m : onMessageReceived(k, m) => CoreCall
BY DEF onMessageReceived, CoreCall

\* The receiver thread opens no end.
LEMMA ReceiverCalls ==
  ASSUME NEW k, Receiver(k)
  PROVE  CoreCall \/ UNCHANGED <<clientEnd, coreEnd>>
BY DEF Receiver, ReceiveUnparsable, QueueMessage, WakeProcessor, ConnectionClosed,
   InterruptProcessors, WakeProcessors, JoinProcessors, DeleteThis, CoreCall

\* The handlers of the messages open none.
LEMMA HandlerCalls ==
  ASSUME NEW k, FastProcess(k) \/ SlowProcess(k)
  PROVE  CoreCall
<1>1. CASE IgnoreManifest(k) \/ AcceptRegistration(k) \/ ProcessStatus(k)
  BY <1>1 DEF IgnoreManifest, AcceptRegistration, ProcessStatus, FinishSilently, CoreCall
<1>2. CASE RejectRegistration(k) \/ AnswerRegistration(k)
  BY <1>2, OnMessageCalls DEF RejectRegistration, AnswerRegistration
<1>3. CASE ProcessSubscribe(k) \/ ProcessNormal(k)
  BY <1>3, OnMessageCalls DEF ProcessSubscribe, ProcessNormal, CoreCall
<1>4. CASE ProcessGlobalConfig(k) \/ ProcessPluginConfig(k) \/ ProcessEventLog(k)
  BY <1>4 DEF ProcessGlobalConfig, ProcessPluginConfig, ProcessEventLog, FinishSilently,
     Terminate, CoreDies, CoreCall
<1> QED
  BY <1>1, <1>2, <1>3, <1>4 DEF FastProcess, SlowProcess

\* So a step of the core opens none and leaves the plugin's variables alone.
LEMMA CoreStepCalls ==
  ASSUME \/ \E k \in Conns : ReceiverStep(k) \/ AcceptStep(k) \/ PushStep(k)
         \/ \E t \in Threads : ProcessorStep(t)
         \/ CoreStep
  PROVE  /\ UNCHANGED pluginVars
         /\ CoreCall \/ UNCHANGED <<clientEnd, coreEnd>>
<1>1. UNCHANGED pluginVars
  BY DEF ReceiverStep, AcceptStep, PushStep, ProcessorStep, CoreStep
<1>2. ASSUME NEW k \in Conns, ReceiverStep(k) \/ AcceptStep(k) \/ PushStep(k)
      PROVE  CoreCall \/ UNCHANGED <<clientEnd, coreEnd>>
  <2>1. CASE Accept(k)
    BY <2>1 DEF Accept, NewPluginConnection, CoreCall
  <2>2. CASE PushConfig(k) \/ PushRouted(k) \/ NeighbourWrites(k)
    BY <2>2, OnMessageCalls DEF PushConfig, PushRouted, NeighbourWrites, CoreCall
  <2> QED
    BY <1>2, <2>1, <2>2, ReceiverCalls DEF ReceiverStep, AcceptStep, PushStep
<1>3. ASSUME NEW t \in Threads, ProcessorStep(t) PROVE CoreCall
  <2>1. CASE CheckInterruption(t) \/ WaitOne(t) \/ PopMessage(t)
    BY <2>1 DEF CheckInterruption, WaitOne, PopMessage, CoreCall
  <2> QED
    BY <1>3, <2>1, HandlerCalls DEF ProcessorStep, Processor
<1>4. CASE CoreStep
  BY <1>4 DEF CoreStep, CoreKilled, CoreDies, CoreRestarts, CoreCall
<1> QED
  BY <1>1, <1>2, <1>3, <1>4

\* What the core does to the sockets closes ends at most.
LEMMA CoreCallCloses ==
  ASSUME SocketTypeOK, CoreCall \/ UNCHANGED <<clientEnd, coreEnd>>, NEW k \in Conns
  PROVE  /\ clientEnd' = clientEnd
         /\ coreEnd'[k] # coreEnd[k] => coreEnd'[k] = "closed"
         /\ coreEnd[k] = "closed" => coreEnd'[k] = "closed"
BY DEF SocketTypeOK, CoreCall, socketVars, CoreClosesAll, CoreReads, CoreCloses, CoreSends

\* Every step keeps DeafInv; the core's close ends at most.
LEMMA NextDeaf == TypeOK /\ DeafInv /\ [Next]_vars => DeafInv'
<1> SUFFICES ASSUME TypeOK, DeafInv, [Next]_vars PROVE DeafInv'
  OBVIOUS
<1> USE DEF DeafInv, PlaceInv, FailInv, NoDeafPlugin, Live
<1>0. rpc # "connect" => socket \in Conns
  BY DEF TypeOK, PluginTypeOK
<1>1. CASE ReceiveThreadStep
  <2>1. CASE ConnectToCore
    BY <2>1, OpenedType DEF ConnectToCore, ivp_onStateChange
  <2>2. CASE SendRegister \/ Resubscribe \/ CheckState
    BY <2>2 DEF SendRegister, Resubscribe, CheckState, SendFromReceiver, ClientSends,
       ivp_onStateChange, socketVars
  <2>3. CASE ReceiveConfig \/ ReceiveMessage
    BY <2>3 DEF ReceiveConfig, ReceiveMessage, HandlesMessage, ClientReads, AfterMessage
  <2>4. CASE ReceiveError
    BY <2>4 DEF ReceiveError, HandlesMessage, ClientReads, AfterMessage
  <2>5. CASE BecomeRegistered \/ ReceiveEnd
    BY <2>5 DEF BecomeRegistered, ReceiveEnd, ivp_onStateChange, socketVars
  <2>6. CASE CloseSocket
    BY <2>6 DEF CloseSocket
  <2> QED
    BY <1>1, <2>1, <2>2, <2>3, <2>4, <2>5, <2>6 DEF ReceiveThreadStep, ReceiveThread
<1>2. CASE AppCallStep
  BY <1>2 DEF AppCallStep, AppLocks, socketVars
<1>3. CASE AppFinishStep
  <2>1. CASE AppSends
    BY <2>1 DEF AppSends, ClientSends
  <2>2. CASE AppSendFails \/ AppDisconnects
    BY <2>2 DEF AppSendFails, AppDisconnects, ivp_onStateChange, ClientSeesEnd, socketVars
  <2> QED
    BY <1>3, <2>1, <2>2 DEF AppFinishStep, AppFinishes
<1>4. CASE RestartStep
  BY <1>4 DEF RestartStep, PluginRestarts
<1>5. ASSUME UNCHANGED pluginVars, CoreCall \/ UNCHANGED <<clientEnd, coreEnd>> PROVE DeafInv'
  <2>1. rpc # "connect" /\ coreEnd[socket] = "closed" => coreEnd'[socket] = "closed"
    BY <1>0, <1>5, CoreCallCloses DEF TypeOK
  <2> QED
    BY <1>5, <2>1 DEF pluginVars
<1>6. CASE UNCHANGED vars
  BY <1>6 DEF vars, pluginVars, socketVars
<1> QED
  BY <1>1, <1>2, <1>3, <1>4, <1>5, <1>6, CoreStepCalls DEF Next

\* The receive thread never waits on a healthy connection in a state in which
\* the plugin cannot send.
THEOREM PluginNotDeaf == Spec => []NoDeafPlugin
<1>1. TypeOK /\ DeafInv /\ TypeOK' /\ [Next]_vars => DeafInv'
  BY NextDeaf
<1>2. DeafInv => NoDeafPlugin
  BY DEF DeafInv
<1> QED
  BY <1>1, <1>2, InitDeaf, TypeCorrect, PTL DEF Spec

-----------------------------------------------------------------------------
(* What the two sides know of the registration. *)

\* The messages that the core sends.
CoreMessages ==
  {Config, Routed, Error("messageParse", "warn"), Error("none", "fatal"), Error("none", "error")}

\* Connections are opened one after the other, both ends at once, and that of
\* the socket is not closed.
OrderInv ==
  /\ \A k \in Conns : clientEnd[k] # "unused" <=> k <= Opened
  /\ \A k \in Conns : coreEnd[k] = "unused" <=> clientEnd[k] = "unused"
  /\ socket # 0 => clientEnd[socket] = "open"

Receiving == {"recv", "setFast", "setSlow"}

\* An object is there for a connection that was opened, and closes it when it
\* no longer receives; what is said of the object is said while it is there.
EndInv ==
  \A k \in Conns :
    /\ recvPc[k] # "none" => coreEnd[k] # "unused"
    /\ recvPc[k] \notin Receiving \cup {"none"} => coreEnd[k] = "closed"
    /\ mRegistered[k] => Alive(k)
    /\ k \in misled => coreEnd[k] # "unused"
    /\ procPc[Fast(k)] = "setStatus" => mRegistered[k]

\* What may be concluded from a configuration that came on connection k.
Attached(k) == coreEnd[k] = "closed" \/ mRegistered[k] \/ k \in misled

HasConfig(s) == \E i \in DOMAIN s : s[i].kind = "config"

\* A configuration is sent to a registered plugin, or is a stray, and its
\* arrival is all that makes the plugin take itself for registered.
ConfigInv ==
  /\ toPlugin \in [Conns -> Seq(CoreMessages)]
  /\ \A k \in Conns : HasConfig(toPlugin[k]) => Attached(k)
  /\ socket # 0 /\ (rpc = "upgrade" \/ state = "registered") => Attached(socket)

\* The core is done with the registration on k, and k is still in use.
Answered(k) ==
  mRegistered[k] /\ procPc[Fast(k)] # "setStatus" /\ k \notin refused /\ coreEnd[k] = "open"

\* The answer is on its way, or the plugin has it.
ToldInv ==
  \A k \in Conns :
    Answered(k) /\ socket = k /\ state = "connected" => HasConfig(toPlugin[k]) \/ rpc = "upgrade"

SessionInv == OrderInv /\ EndInv /\ ConfigInv /\ ToldInv

\* What both invariants so far say, for the steps below.
Base == Inv /\ TypeOK /\ DeafInv

\* Only a configuration has the kind of one.
LEMMA KindsDiffer ==
  /\ Config.kind = "config" /\ Routed.kind # "config"
  /\ \A n, l : Error(n, l).kind # "config"
BY DEF Config, Routed, Error

\* A queue has a configuration after an append only if it had one or got one.
LEMMA AppendConfig ==
  ASSUME NEW s \in Seq(CoreMessages), NEW m \in CoreMessages
  PROVE  /\ Append(s, m) \in Seq(CoreMessages)
         /\ HasConfig(Append(s, m)) => HasConfig(s) \/ m.kind = "config"
<1> DEFINE S == CoreMessages
<1> HIDE DEF S
<1>1. s \in Seq(S) /\ m \in S
  BY DEF S
<1>2. Append(s, m) \in Seq(S)
  BY <1>1
<1>3. HasConfig(Append(s, m)) => HasConfig(s) \/ m.kind = "config"
  BY <1>1 DEF HasConfig
<1> QED
  BY <1>2, <1>3 DEF S

\* An append keeps the configurations that are there.
LEMMA AppendKeeps ==
  ASSUME NEW s \in Seq(CoreMessages), NEW m \in CoreMessages
  PROVE  /\ HasConfig(s) => HasConfig(Append(s, m))
         /\ m.kind = "config" => HasConfig(Append(s, m))
<1> DEFINE S == CoreMessages
<1> HIDE DEF S
<1>1. s \in Seq(S) /\ m \in S
  BY DEF S
<1>2. HasConfig(s) => HasConfig(Append(s, m))
  BY <1>1 DEF HasConfig
<1>3. Len(s) + 1 \in DOMAIN Append(s, m) /\ Append(s, m)[Len(s) + 1] = m
  BY <1>1
<1>4. m.kind = "config" => HasConfig(Append(s, m))
  BY <1>3 DEF HasConfig
<1> QED
  BY <1>2, <1>4

\* What is read off a queue leaves no new configuration behind, and takes
\* none away but at the head.
LEMMA TailConfig ==
  ASSUME NEW s \in Seq(CoreMessages), s # <<>>
  PROVE  /\ Tail(s) \in Seq(CoreMessages)
         /\ HasConfig(Tail(s)) => HasConfig(s)
         /\ Head(s) = Config => HasConfig(s)
         /\ Head(s).kind # "config" /\ HasConfig(s) => HasConfig(Tail(s))
<1> DEFINE S == CoreMessages
<1> HIDE DEF S
<1>1. s \in Seq(S)
  BY DEF S
<1>2. Tail(s) \in Seq(S)
  BY <1>1
<1>3. HasConfig(Tail(s)) => HasConfig(s)
  <2> SUFFICES ASSUME NEW i \in DOMAIN Tail(s), Tail(s)[i].kind = "config"
               PROVE  HasConfig(s)
    BY DEF HasConfig
  <2>1. i + 1 \in DOMAIN s /\ s[i + 1] = Tail(s)[i]
    BY <1>1
  <2> QED
    BY <2>1 DEF HasConfig
<1>4. 1 \in DOMAIN s /\ s[1] = Head(s)
  BY <1>1
<1>5. Head(s) = Config => HasConfig(s)
  BY <1>4, KindsDiffer DEF HasConfig
<1>6. Head(s).kind # "config" /\ HasConfig(s) => HasConfig(Tail(s))
  <2> SUFFICES ASSUME Head(s).kind # "config", NEW i \in DOMAIN s, s[i].kind = "config"
               PROVE  HasConfig(Tail(s))
    BY DEF HasConfig
  <2>1. i # 1
    BY <1>4
  <2>2. i - 1 \in DOMAIN Tail(s) /\ Tail(s)[i - 1] = s[i]
    BY <1>1, <2>1
  <2> QED
    BY <2>2 DEF HasConfig
<1> QED
  BY <1>2, <1>3, <1>5, <1>6 DEF S

\* The number of the last connection, when those in use are the first n.
LEMMA OpenedIs ==
  ASSUME NEW f, NEW n \in 0..MaxConnections, \A k \in Conns : f[k] # "unused" <=> k <= n
  PROVE  Cardinality({k \in Conns : f[k] # "unused"}) = n
<1>1. {k \in Conns : f[k] # "unused"} = 1..n
  BY SocketAssumption DEF Conns
<1>2. Cardinality(1..n) = n
  BY FS_Interval
<1> QED
  BY <1>1, <1>2

\* No step but connect() begins to use an end.
LEMMA OrderKept ==
  ASSUME OrderInv,
         \A k \in Conns : /\ clientEnd'[k] = "unused" <=> clientEnd[k] = "unused"
                          /\ coreEnd'[k] = "unused" <=> coreEnd[k] = "unused",
         socket' # 0 => clientEnd'[socket'] = "open"
  PROVE  OrderInv'
<1>1. Opened' = Opened
  BY OpenedIs, OpenedType DEF OrderInv, Opened
<1> QED
  BY <1>1 DEF OrderInv

\* Steps of the plugin that read, send or close, and none that connects.
LEMMA PluginKeeps ==
  ASSUME TypeOK, SessionInv, UNCHANGED <<connVars, coreEnd>>,
         \A k \in Conns : clientEnd'[k] = "unused" <=> clientEnd[k] = "unused",
         socket' # 0 => socket' = socket /\ clientEnd'[socket] = "open",
         toPlugin' \in [Conns -> Seq(CoreMessages)],
         \A k \in Conns : HasConfig(toPlugin'[k]) => HasConfig(toPlugin[k]),
         socket' # 0 /\ (rpc' = "upgrade" \/ state' = "registered") => Attached(socket'),
         socket' # 0 /\ state' = "connected" /\ rpc' # "upgrade" =>
             /\ state = "connected" /\ rpc # "upgrade"
             /\ HasConfig(toPlugin[socket]) => HasConfig(toPlugin'[socket])
  PROVE  SessionInv'
<1> USE DEF SessionInv, connVars, threadVars
<1>0. socket # 0 => socket \in Conns
  BY DEF TypeOK, PluginTypeOK
<1>1. OrderInv'
  BY OrderKept
<1>2. EndInv'
  BY DEF EndInv, Alive
<1>3. \A k \in Conns : (Attached(k) => Attached(k)') /\ (Answered(k)' => Answered(k))
  BY DEF Attached, Answered
<1>4. ConfigInv'
  <2>1. \A k \in Conns : HasConfig(toPlugin'[k]) => Attached(k)'
    BY <1>3 DEF ConfigInv
  <2>2. socket' # 0 /\ (rpc' = "upgrade" \/ state' = "registered") => Attached(socket)'
    BY <1>0, <1>3
  <2> QED
    BY <2>1, <2>2 DEF ConfigInv, Attached
<1>5. ToldInv'
  <2> SUFFICES ASSUME NEW k \in Conns, Answered(k)', socket' = k, state' = "connected",
                      rpc' # "upgrade"
               PROVE  HasConfig(toPlugin'[k])
    BY DEF ToldInv
  <2>1. k # 0 /\ socket = k /\ Answered(k)
    BY <1>3, SocketAssumption DEF Conns
  <2> QED
    BY <2>1 DEF ToldInv
<1> QED
  BY <1>1, <1>2, <1>4, <1>5

\* A new connection is the next one; nothing was sent on it.
LEMMA ConnectInv ==
  ASSUME TypeOK, SessionInv, ConnectToCore, UNCHANGED connVars
  PROVE  SessionInv'
<1> DEFINE n == Opened + 1
<1> USE DEF ConnectToCore, Connect, ivp_onStateChange, SessionInv, connVars, threadVars
<1>1. n \in Conns /\ Opened \in Nat
  BY OpenedType, SocketAssumption DEF Conns
<1>2. n \in 0..MaxConnections /\ \A k \in Conns : k <= n <=> k <= Opened \/ k = n
  BY <1>1 DEF Conns
<1>3. \A k \in Conns : clientEnd'[k] # "unused" <=> k <= n
  BY <1>1, <1>2 DEF OrderInv, TypeOK, SocketTypeOK
<1>4. Opened' = n
  BY <1>2, <1>3, OpenedIs DEF Opened
<1>5. coreEnd[n] = "unused"
  BY <1>1, <1>2 DEF OrderInv, Conns
<1>6. OrderInv'
  BY <1>1, <1>3, <1>4 DEF OrderInv, TypeOK, SocketTypeOK, Conns
<1>7. \A k \in Conns : k # n => coreEnd'[k] = coreEnd[k]
  BY DEF TypeOK, SocketTypeOK
<1>8. recvPc[n] = "none" /\ ~mRegistered[n]
  BY <1>1, <1>5 DEF EndInv, Alive
<1>9. EndInv'
  BY <1>1, <1>5, <1>7, <1>8 DEF EndInv, Alive, TypeOK, SocketTypeOK
<1>10. \A k \in Conns : HasConfig(toPlugin[k]) => Attached(k)'
  BY <1>5, <1>7 DEF ConfigInv, Attached
<1>11. ConfigInv'
  BY <1>10 DEF ConfigInv
<1>12. ToldInv'
  BY <1>1, <1>8 DEF ToldInv, Answered
<1> QED
  BY <1>6, <1>9, <1>11, <1>12

\* A message that was read leaves the others in its queue.
LEMMA ReadKeeps ==
  ASSUME ConfigInv, ClientReads(socket), socket \in Conns
  PROVE  /\ UNCHANGED <<clientEnd, coreEnd>>
         /\ toPlugin' \in [Conns -> Seq(CoreMessages)]
         /\ \A k \in Conns : HasConfig(toPlugin'[k]) => HasConfig(toPlugin[k])
         /\ Head(toPlugin[socket]) = Config => Attached(socket)
         /\ Head(toPlugin[socket]).kind # "config" /\ HasConfig(toPlugin[socket])
              => HasConfig(toPlugin'[socket])
<1>1. toPlugin[socket] \in Seq(CoreMessages) /\ toPlugin[socket] # <<>>
  BY DEF ConfigInv, ClientReads
<1>2. /\ Tail(toPlugin[socket]) \in Seq(CoreMessages)
      /\ HasConfig(Tail(toPlugin[socket])) => HasConfig(toPlugin[socket])
      /\ Head(toPlugin[socket]) = Config => HasConfig(toPlugin[socket])
      /\ Head(toPlugin[socket]).kind # "config" /\ HasConfig(toPlugin[socket])
           => HasConfig(Tail(toPlugin[socket]))
  BY <1>1, TailConfig
<1> QED
  BY <1>2 DEF ClientReads, ConfigInv

\* What is left after a close by the plugin.
LEMMA CloseKeeps ==
  ASSUME TypeOK, OrderInv, ConfigInv, ClientCloses(socket), socket \in Conns
  PROVE  /\ UNCHANGED coreEnd
         /\ \A k \in Conns : clientEnd'[k] = "unused" <=> clientEnd[k] = "unused"
         /\ toPlugin' \in [Conns -> Seq(CoreMessages)]
         /\ \A k \in Conns : HasConfig(toPlugin'[k]) => HasConfig(toPlugin[k])
<1>1. clientEnd[socket] # "unused"
  BY SocketAssumption DEF OrderInv, Conns
<1>2. <<>> \in Seq(CoreMessages) /\ ~HasConfig(<<>>)
  BY DEF HasConfig
<1> QED
  BY <1>1, <1>2 DEF ClientCloses, ConfigInv, TypeOK, SocketTypeOK

\* Every step of the plugin keeps what is known.
LEMMA PluginStepInv ==
  ASSUME TypeOK, DeafInv, SessionInv,
         ReceiveThreadStep \/ AppCallStep \/ AppFinishStep \/ RestartStep
  PROVE  SessionInv'
<1> USE DEF SessionInv
<1>0. rpc # "connect" => socket \in Conns
  BY DEF TypeOK, PluginTypeOK, DeafInv, PlaceInv
<1>a. UNCHANGED connVars
  BY DEF ReceiveThreadStep, AppCallStep, AppFinishStep, RestartStep
<1>b. /\ socket # 0 /\ (rpc = "upgrade" \/ state = "registered") => Attached(socket)
      /\ socket # 0 => clientEnd[socket] = "open"
      /\ toPlugin \in [Conns -> Seq(CoreMessages)]
  BY DEF ConfigInv, OrderInv
<1>1. CASE rpc = "connect" /\ ReceiveThreadStep
  <2>1. ConnectToCore
    BY <1>1 DEF ReceiveThreadStep, ReceiveThread, SendRegister, CheckState, ReceiveConfig,
       BecomeRegistered, Resubscribe, ReceiveError, ReceiveMessage, HandlesMessage, ReceiveEnd,
       CloseSocket
  <2> QED
    BY <2>1, <1>a, ConnectInv
<1>2. CASE SendRegister \/ Resubscribe \/ AppSends
  <2>1. /\ (rpc' # "upgrade" /\ rpc # "upgrade") \/ rpc' = rpc
        /\ UNCHANGED <<toPlugin, clientEnd, coreEnd, socket>>
        /\ state' \in {state, "disconnected"}
    BY <1>2 DEF SendRegister, Resubscribe, AppSends, SendFromReceiver, ClientSends,
       ivp_onStateChange, socketVars
  <2> QED
    BY <2>1, <1>a, <1>b, PluginKeeps
<1>3. CASE CheckState \/ AppLocks \/ AppSendFails \/ AppDisconnects
           \/ ReceiveEnd \/ BecomeRegistered
  <2>1. UNCHANGED <<toPlugin, clientEnd, coreEnd, socket>>
    BY <1>3 DEF CheckState, AppLocks, AppSendFails, AppDisconnects, ReceiveEnd,
       BecomeRegistered, socketVars
  <2>2. socket' # 0 /\ (rpc' = "upgrade" \/ state' = "registered") => Attached(socket')
    BY <1>3, <1>b DEF CheckState, AppLocks, AppSendFails, AppDisconnects, ReceiveEnd,
       BecomeRegistered, ivp_onStateChange, Attached
  <2>3. state' = "connected" /\ rpc' # "upgrade" => state = "connected" /\ rpc # "upgrade"
    BY <1>3 DEF CheckState, AppLocks, AppSendFails, AppDisconnects, ReceiveEnd,
       BecomeRegistered, ivp_onStateChange
  <2> QED
    BY <2>1, <2>2, <2>3, <1>a, <1>b, PluginKeeps
<1>4. CASE ReceiveConfig \/ ReceiveError \/ ReceiveMessage
  <2>1. /\ socket \in Conns /\ ClientReads(socket) /\ UNCHANGED socket
        /\ rpc # "upgrade"
    BY <1>4, <1>0 DEF ReceiveConfig, ReceiveError, ReceiveMessage, HandlesMessage
  <2>2. socket' # 0 /\ (rpc' = "upgrade" \/ state' = "registered") => Attached(socket')
    BY <1>4, <1>b, <2>1, ReadKeeps DEF ReceiveConfig, ReceiveError, ReceiveMessage, ivp_onError,
       AfterMessage
  <2>3. state' = "connected" /\ rpc' # "upgrade" =>
            state = "connected" /\ Head(toPlugin[socket]).kind # "config"
    BY <1>4, KindsDiffer DEF ReceiveConfig, ReceiveError, ReceiveMessage, ivp_onError, AfterMessage
  <2> QED
    BY <2>1, <2>2, <2>3, <1>a, <1>b, ReadKeeps, PluginKeeps
<1>5. CASE CloseSocket \/ PluginRestarts
  <2>1. socket \in Conns /\ ClientCloses(socket) /\ socket' = 0
    BY <1>5, <1>0 DEF CloseSocket, PluginRestarts
  <2> QED
    BY <2>1, <1>a, CloseKeeps, PluginKeeps
<1> QED
  BY <1>1, <1>2, <1>3, <1>4, <1>5 DEF ReceiveThreadStep, ReceiveThread, ConnectToCore,
     AppCallStep, AppFinishStep, AppFinishes, RestartStep

\* Steps of the core: ends close at most, messages are added, and whoever
\* finishes a registration has answered.
LEMMA CoreKeeps ==
  ASSUME TypeOK, SessionInv, UNCHANGED <<pluginVars, clientEnd>>, EndInv',
         toPlugin' \in [Conns -> Seq(CoreMessages)],
         \A k \in Conns :
           /\ coreEnd'[k] \in {coreEnd[k], "closed"}
           /\ coreEnd'[k] = "unused" <=> coreEnd[k] = "unused"
           /\ Attached(k) => Attached(k)'
           /\ HasConfig(toPlugin[k]) => HasConfig(toPlugin'[k])
           /\ HasConfig(toPlugin'[k]) => HasConfig(toPlugin[k]) \/ Attached(k)'
           /\ Answered(k)' => \/ Answered(k) \/ HasConfig(toPlugin'[k])
                              \/ clientEnd[k] # "open"
  PROVE  SessionInv'
<1> USE DEF SessionInv, pluginVars
<1>0. socket # 0 => socket \in Conns
  BY DEF TypeOK, PluginTypeOK
<1>1. OrderInv'
  BY OrderKept DEF OrderInv
<1>2. ConfigInv'
  <2>1. \A k \in Conns : HasConfig(toPlugin'[k]) => Attached(k)'
    BY DEF ConfigInv
  <2>2. socket' # 0 /\ (rpc' = "upgrade" \/ state' = "registered") => Attached(socket)'
    BY <1>0 DEF ConfigInv
  <2> QED
    BY <2>1, <2>2 DEF ConfigInv, Attached
<1>3. ToldInv'
  <2> SUFFICES ASSUME NEW k \in Conns, Answered(k)', socket' = k, state' = "connected",
                      rpc' # "upgrade"
               PROVE  HasConfig(toPlugin'[k])
    BY DEF ToldInv
  <2>1. clientEnd[k] = "open" /\ k # 0 /\ socket = k
    BY SocketAssumption DEF OrderInv, Conns
  <2> QED
    BY <2>1 DEF ToldInv
<1> QED
  BY <1>1, <1>2, <1>3

\* Steps of an object's threads that neither send nor close, and leave the
\* registration where it is.
LEMMA QuietKeeps ==
  ASSUME TypeOK, SessionInv,
         UNCHANGED <<pluginVars, toPlugin, clientEnd, coreEnd, mRegistered, misled, refused>>,
         \A k \in Conns :
           /\ procPc'[Fast(k)] = "setStatus" <=> procPc[Fast(k)] = "setStatus"
           /\ recvPc'[k] = "none" <=> recvPc[k] = "none"
           /\ recvPc'[k] = "gone" => recvPc[k] = "gone"
           /\ recvPc'[k] \in Receiving \/ recvPc'[k] = recvPc[k] \/ coreEnd[k] = "closed"
  PROVE  SessionInv'
<1>1. EndInv'
  BY DEF SessionInv, EndInv, Alive
<1>2. \A k \in Conns : (Attached(k) <=> Attached(k)') /\ (Answered(k)' <=> Answered(k))
  BY DEF Attached, Answered
<1> QED
  BY <1>1, <1>2, CoreKeeps DEF SessionInv, ConfigInv

\* What the object of k writes goes to the holder of its number: to its own
\* connection, or to one that it misleads.
LEMMA WriteKeeps ==
  ASSUME SessionInv, NEW k \in Conns, NEW m \in CoreMessages, onMessageReceived(k, m),
         m.kind = "config" => mRegistered[k]
  PROVE  /\ UNCHANGED <<clientEnd, coreEnd>>
         /\ toPlugin' \in [Conns -> Seq(CoreMessages)]
         /\ \A j \in Conns :
              /\ HasConfig(toPlugin[j]) => HasConfig(toPlugin'[j])
              /\ HasConfig(toPlugin'[j]) =>
                    HasConfig(toPlugin[j]) \/ (j = k /\ mRegistered[k]) \/ j \in misled'
              /\ j \in misled => j \in misled'
              /\ j \in misled' => j \in misled \/ coreEnd[j] = "open"
         /\ m.kind = "config" /\ clientEnd[k] = "open" /\ coreEnd[k] = "open"
              => HasConfig(toPlugin'[k])
<1> DEFINE K == Holder(mSocket[k])
<1>1. m = Config <=> m.kind = "config"
  BY KindsDiffer DEF CoreMessages
<1>2. /\ \A j \in K : j \in Conns /\ coreEnd[j] = "open"
      /\ coreEnd[k] = "open" => k \in K
  BY DEF Holder
<1>3. /\ CoreSends(K, m)
      /\ misled' = IF m = Config THEN misled \cup (K \ {k}) ELSE misled
  BY DEF onMessageReceived
<1> HIDE DEF K
<1>4. \A j \in Conns : toPlugin[j] \in Seq(CoreMessages)
  BY DEF SessionInv, ConfigInv
<1>5. UNCHANGED <<clientEnd, coreEnd>>
      /\ toPlugin' = [j \in Conns |->
                        IF j \in K /\ clientEnd[j] = "open" /\ coreEnd[j] = "open"
                        THEN Append(toPlugin[j], m) ELSE toPlugin[j]]
  BY <1>3 DEF CoreSends
<1>6. \A j \in Conns : /\ Append(toPlugin[j], m) \in Seq(CoreMessages)
                       /\ HasConfig(Append(toPlugin[j], m)) =>
                             HasConfig(toPlugin[j]) \/ m.kind = "config"
                       /\ HasConfig(toPlugin[j]) => HasConfig(Append(toPlugin[j], m))
                       /\ m.kind = "config" => HasConfig(Append(toPlugin[j], m))
  BY <1>4, AppendConfig, AppendKeeps
<1>7. toPlugin' \in [Conns -> Seq(CoreMessages)]
  BY <1>4, <1>5, <1>6
<1>8. ASSUME NEW j \in Conns
      PROVE  /\ HasConfig(toPlugin[j]) => HasConfig(toPlugin'[j])
             /\ HasConfig(toPlugin'[j]) =>
                   HasConfig(toPlugin[j]) \/ (j \in K /\ m.kind = "config")
  BY <1>5, <1>6
<1>9. \A j \in Conns : HasConfig(toPlugin'[j]) =>
          HasConfig(toPlugin[j]) \/ (j = k /\ mRegistered[k]) \/ j \in misled'
  BY <1>1, <1>3, <1>8
<1>10. \A j \in Conns : /\ j \in misled => j \in misled'
                        /\ j \in misled' => j \in misled \/ coreEnd[j] = "open"
  BY <1>2, <1>3
<1>11. m.kind = "config" /\ clientEnd[k] = "open" /\ coreEnd[k] = "open"
         => HasConfig(toPlugin'[k])
  BY <1>2, <1>5, <1>6
<1> QED
  BY <1>5, <1>7, <1>8, <1>9, <1>10, <1>11

\* A thread of the object of k writes, and goes on; if it was the answer to a
\* registration, it said so.
LEMMA WritingKeeps ==
  ASSUME Base, SessionInv, NEW k \in Conns, NEW m \in CoreMessages, onMessageReceived(k, m),
         m.kind = "config" => mRegistered[k],
         UNCHANGED <<pluginVars, recvPc, mRegistered>>,
         \A j \in Conns : j \in refused => j \in refused',
         \A j \in Conns : procPc'[Fast(j)] = "setStatus" => procPc[Fast(j)] = "setStatus",
         \A j \in Conns : procPc[Fast(j)] = "setStatus" /\ procPc'[Fast(j)] # "setStatus" =>
            j = k /\ (m.kind = "config" \/ k \in refused')
  PROVE  SessionInv'
<1>1. /\ UNCHANGED <<clientEnd, coreEnd>>
      /\ toPlugin' \in [Conns -> Seq(CoreMessages)]
      /\ \A j \in Conns :
           /\ HasConfig(toPlugin[j]) => HasConfig(toPlugin'[j])
           /\ HasConfig(toPlugin'[j]) =>
                 HasConfig(toPlugin[j]) \/ (j = k /\ mRegistered[k]) \/ j \in misled'
           /\ j \in misled => j \in misled'
           /\ j \in misled' => j \in misled \/ coreEnd[j] = "open"
      /\ m.kind = "config" /\ clientEnd[k] = "open" /\ coreEnd[k] = "open"
           => HasConfig(toPlugin'[k])
  BY WriteKeeps
<1>2. EndInv'
  BY <1>1 DEF SessionInv, EndInv, Alive
<1>3. \A j \in Conns : /\ Attached(j) => Attached(j)'
                       /\ HasConfig(toPlugin'[j]) => HasConfig(toPlugin[j]) \/ Attached(j)'
                       /\ Answered(j)' => \/ Answered(j) \/ HasConfig(toPlugin'[j])
                                          \/ clientEnd[j] # "open"
  BY <1>1 DEF Attached, Answered
<1> QED
  BY <1>1, <1>2, <1>3, CoreKeeps DEF Base

\* Objects are freed when their connections are closed.
LEMMA FreedSession ==
  ASSUME Base, SessionInv, NEW K \in SUBSET Conns, Freed(K),
         UNCHANGED <<pluginVars, toPlugin, clientEnd>>,
         \A k \in Conns : /\ coreEnd'[k] \in {coreEnd[k], "closed"}
                          /\ coreEnd'[k] = "unused" <=> coreEnd[k] = "unused"
                          /\ recvPc'[k] = IF k \in K THEN recvPc'[k] ELSE recvPc[k],
         \A k \in K : /\ recvPc[k] # "none" => coreEnd'[k] = "closed"
                      /\ k \in misled => coreEnd'[k] = "closed"
                      /\ recvPc'[k] = "none" \/ (recvPc'[k] = "gone" /\ recvPc[k] # "none")
  PROVE  SessionInv'
<1> USE DEF Base, SessionInv
<1>0. \A k \in Conns : Fast(k) \in Threads /\ Fast(k)[1] = k
  BY ThreadOf DEF Fast, Processors
<1>1. \A k \in Conns :
        /\ mRegistered'[k] <=> k \notin K /\ mRegistered[k]
        /\ k \in misled' <=> k \notin K /\ k \in misled
        /\ k \in refused' <=> k \notin K /\ k \in refused
        /\ procPc'[Fast(k)] = IF k \in K THEN "exited" ELSE procPc[Fast(k)]
  BY <1>0 DEF Freed
<1>2. \A k \in K : mRegistered[k] => recvPc[k] # "none"
  BY DEF EndInv, Alive
<1>3. EndInv'
  BY <1>1 DEF EndInv, Alive
<1>4. \A k \in Conns : (Attached(k) => Attached(k)') /\ (Answered(k)' => Answered(k))
  BY <1>1, <1>2 DEF Attached, Answered
<1> QED
  BY <1>3, <1>4, CoreKeeps DEF ConfigInv

\* The receiver closes the connection before anything of the object ends.
LEMMA ReceiverSession ==
  ASSUME Base, SessionInv, NEW k \in Conns, ReceiverStep(k)
  PROVE  SessionInv'
<1> USE DEF Base, SessionInv, ReceiverStep
<1>0. /\ TypeOK /\ UNCHANGED pluginVars /\ recvPc \in [Conns -> RecvPcs]
      /\ coreEnd \in [Conns -> {"unused", "open", "closed"}]
      /\ toPlugin \in [Conns -> Seq(CoreMessages)]
  BY DEF Inv, ThreadTypes, TypeOK, SocketTypeOK, ConfigInv
<1>1. CASE ReceiveUnparsable(k)
  <2> DEFINE m == Error("messageParse", "warn")
  <2>1. m \in CoreMessages /\ m.kind # "config"
    BY KindsDiffer DEF CoreMessages
  <2>2. UNCHANGED <<connVars, clientEnd, coreEnd>>
        /\ \/ toPlugin' = toPlugin
           \/ toPlugin' = [toPlugin EXCEPT ![k] = Append(@, m)]
    BY <1>1 DEF ReceiveUnparsable
  <2> HIDE DEF m
  <2>3. /\ Append(toPlugin[k], m) \in Seq(CoreMessages)
        /\ HasConfig(Append(toPlugin[k], m)) <=> HasConfig(toPlugin[k])
    BY <1>0, <2>1, AppendConfig, AppendKeeps
  <2>4. /\ toPlugin' \in [Conns -> Seq(CoreMessages)]
        /\ \A j \in Conns : HasConfig(toPlugin'[j]) <=> HasConfig(toPlugin[j])
    BY <1>0, <2>2, <2>3
  <2>5. EndInv'
    BY <2>2 DEF connVars, threadVars, EndInv, Alive
  <2>6. \A j \in Conns : (Attached(j) <=> Attached(j)') /\ (Answered(j)' <=> Answered(j))
    BY <2>2 DEF connVars, threadVars, Attached, Answered
  <2> QED
    BY <1>0, <2>2, <2>4, <2>5, <2>6, CoreKeeps
<1>2. CASE ConnectionClosed(k)
  <2>1. /\ UNCHANGED <<toPlugin, clientEnd, mRegistered, procPc, misled, refused>>
        /\ coreEnd' = [coreEnd EXCEPT ![k] = "closed"]
        /\ recvPc' = [recvPc EXCEPT ![k] = "interrupt"] /\ recvPc[k] = "recv"
    BY <1>2 DEF ConnectionClosed, CoreCloses, RecvGoto, threadVars
  <2>2. EndInv'
    BY <1>0, <2>1 DEF EndInv, Alive, Receiving
  <2>3. coreEnd[k] # "unused"
    BY <2>1 DEF EndInv
  <2>4. \A j \in Conns : (Attached(j) => Attached(j)') /\ (Answered(j)' => Answered(j))
    BY <1>0, <2>1 DEF Attached, Answered
  <2> QED
    BY <1>0, <2>1, <2>2, <2>3, <2>4, CoreKeeps
<1>3. CASE DeleteThis(k)
  <2>1. /\ UNCHANGED <<toPlugin, clientEnd, coreEnd>> /\ Freed({k})
        /\ recvPc' = [recvPc EXCEPT ![k] = "gone"] /\ recvPc[k] = "delete"
    BY <1>3 DEF DeleteThis, RecvGoto, socketVars
  <2>2. coreEnd[k] = "closed"
    BY <2>1 DEF EndInv, Receiving
  <2> QED
    BY <1>0, <2>1, <2>2, FreedSession
<1>4. CASE (\E p \in Processors : QueueMessage(k, p) \/ WakeProcessor(k, p))
           \/ InterruptProcessors(k) \/ WakeProcessors(k) \/ JoinProcessors(k)
  <2>1. UNCHANGED <<procPc, mRegistered, misled, refused, toPlugin, clientEnd, coreEnd>>
    BY <1>4 DEF QueueMessage, CoreReads, WakeProcessor, InterruptProcessors, WakeProcessors,
       JoinProcessors, threadVars, socketVars
  <2>2. \/ recvPc[k] \in Receiving /\ recvPc' = [recvPc EXCEPT ![k] = recvPc'[k]]
           /\ recvPc'[k] \in Receiving
        \/ recvPc[k] \in {"interrupt", "wake", "join"}
           /\ recvPc' = [recvPc EXCEPT ![k] = recvPc'[k]]
           /\ recvPc'[k] \in {"wake", "join", "delete"}
    <3>1. ASSUME NEW p \in Processors, QueueMessage(k, p) \/ WakeProcessor(k, p)
          PROVE  /\ recvPc[k] \in Receiving /\ recvPc' = [recvPc EXCEPT ![k] = recvPc'[k]]
                 /\ recvPc'[k] \in Receiving
      BY <1>0, <3>1 DEF QueueMessage, WakeProcessor, RecvGoto, AboutToSet, Receiving
    <3>2. ASSUME InterruptProcessors(k) \/ WakeProcessors(k) \/ JoinProcessors(k)
          PROVE  /\ recvPc[k] \in {"interrupt", "wake", "join"}
                 /\ recvPc' = [recvPc EXCEPT ![k] = recvPc'[k]]
                 /\ recvPc'[k] \in {"wake", "join", "delete"}
      BY <1>0, <3>2 DEF InterruptProcessors, WakeProcessors, JoinProcessors, RecvGoto
    <3> QED
      BY <1>4, <3>1, <3>2
  <2>3. \A j \in Conns : /\ recvPc'[j] = "none" <=> recvPc[j] = "none"
                         /\ recvPc'[j] = "gone" => recvPc[j] = "gone"
                         /\ \/ recvPc'[j] \in Receiving \/ recvPc'[j] = recvPc[j]
                            \/ coreEnd[j] = "closed"
    BY <1>0, <2>2 DEF EndInv, Receiving
  <2> QED
    BY <1>0, <2>1, <2>3, QuietKeeps
<1> QED
  BY <1>1, <1>2, <1>3, <1>4 DEF Receiver

\* The end of the process closes every connection.
LEMMA CoreDiesSession ==
  ASSUME Base, SessionInv, NEW how, CoreDies(how), UNCHANGED pluginVars
  PROVE  SessionInv'
<1> USE DEF Base, SessionInv
<1>1. /\ Freed(Conns) /\ UNCHANGED <<toPlugin, clientEnd>>
      /\ \A k \in Conns : /\ recvPc'[k] = "none"
                          /\ coreEnd'[k] = IF coreEnd[k] = "open" THEN "closed" ELSE coreEnd[k]
  BY DEF CoreDies, CoreClosesAll
<1>2. \A k \in Conns : coreEnd[k] # "unused" => coreEnd'[k] = "closed"
  BY <1>1 DEF TypeOK, SocketTypeOK
<1> QED
  BY <1>1, <1>2, FreedSession DEF EndInv

\* A thread of an object that finishes with a message that was no registration.
LEMMA FinishedOther ==
  ASSUME Inv, NEW t \in Threads, procPc[t] # "setStatus", Finish(t), NEW k \in Conns
  PROVE  procPc'[Fast(k)] = "setStatus" <=> procPc[Fast(k)] = "setStatus"
<1>1. procPc' = [procPc EXCEPT ![t] = "check"] /\ procPc \in [Threads -> ProcPcs]
  BY DEF Finish, Inv, ThreadTypes
<1>2. Fast(k) \in Threads
  BY ThreadOf DEF Fast, Processors
<1> QED
  BY <1>1, <1>2

\* The handlers answer, and only the registration changes mRegistered.
LEMMA HandlerSession ==
  ASSUME Base, SessionInv, NEW k \in Conns, FastProcess(k) \/ SlowProcess(k), UNCHANGED pluginVars
  PROVE  SessionInv'
<1> USE DEF Base, SessionInv
<1>0. /\ Fast(k) \in Threads /\ Slow(k) \in Threads /\ procPc \in [Threads -> ProcPcs]
      /\ \A j \in Conns : Fast(j) \in Threads /\ (Fast(j) = Fast(k) <=> j = k)
  BY ThreadOf DEF Fast, Slow, Processors, Inv, ThreadTypes
<1>1. CASE Terminate
  BY <1>1, CoreDiesSession DEF Terminate
<1>2. ASSUME NEW t \in Threads, procPc[t] # "setStatus", FinishSilently(t)
      PROVE  SessionInv'
  <2>1. /\ UNCHANGED <<toPlugin, clientEnd, coreEnd, mRegistered, misled, refused, recvPc>>
        /\ Finish(t)
    BY <1>2 DEF FinishSilently, Finish, socketVars
  <2>2. \A j \in Conns : procPc'[Fast(j)] = "setStatus" <=> procPc[Fast(j)] = "setStatus"
    BY <1>2, <2>1, FinishedOther
  <2> QED
    BY <2>1, <2>2, QuietKeeps
<1>3. CASE AcceptRegistration(k)
  <2>1. /\ procPc[Fast(k)] = "process" /\ procPc' = [procPc EXCEPT ![Fast(k)] = "setStatus"]
        /\ mRegistered' = [mRegistered EXCEPT ![k] = TRUE]
        /\ UNCHANGED <<recvPc, misled, refused, toPlugin, clientEnd, coreEnd>>
    BY <1>3 DEF AcceptRegistration, ProcGoto, socketVars
  <2>2. Alive(k)
    BY <1>0, <2>1, ThreadOf DEF Inv, JoinInv, Alive, Fast, Processors
  <2>3. mRegistered \in [Conns -> BOOLEAN]
    BY DEF TypeOK, ConnTypeOK
  <2>4. \A j \in Conns : /\ mRegistered'[j] <=> j = k \/ mRegistered[j]
                         /\ procPc'[Fast(j)] = IF j = k THEN "setStatus" ELSE procPc[Fast(j)]
    BY <1>0, <2>1, <2>3
  <2>5. EndInv'
    BY <2>1, <2>2, <2>4 DEF EndInv, Alive
  <2>6. \A j \in Conns : (Attached(j) => Attached(j)') /\ (Answered(j)' => Answered(j))
    BY <2>1, <2>4 DEF Attached, Answered
  <2> QED
    BY <2>1, <2>5, <2>6, CoreKeeps DEF ConfigInv
<1>4. CASE AnswerRegistration(k)
  <2>1. /\ procPc[Fast(k)] = "setStatus" /\ procPc' = [procPc EXCEPT ![Fast(k)] = "check"]
        /\ UNCHANGED <<recvPc, mRegistered>> /\ mRegistered[k]
    BY <1>4 DEF AnswerRegistration, Finish, EndInv
  <2>2. PICK m \in {Config, Error("none", "fatal")} :
           onMessageReceived(k, m) /\ refused' = IF m = Config THEN refused ELSE refused \cup {k}
    BY <1>4, KindsDiffer DEF AnswerRegistration
  <2>3. /\ m \in CoreMessages /\ (m.kind = "config" \/ k \in refused')
        /\ \A j \in Conns : j \in refused => j \in refused'
    BY <2>2, KindsDiffer DEF CoreMessages
  <2>4. \A j \in Conns :
          /\ procPc'[Fast(j)] = "setStatus" => procPc[Fast(j)] = "setStatus"
          /\ procPc[Fast(j)] = "setStatus" /\ procPc'[Fast(j)] # "setStatus" => j = k
    BY <1>0, <2>1
  <2> QED
    BY <2>1, <2>2, <2>3, <2>4, WritingKeeps
<1>5. ASSUME NEW m \in {Error("none", "fatal"), Error("none", "error")},
             onMessageReceived(k, m), Finish(Fast(k)), procPc[Fast(k)] # "setStatus",
             UNCHANGED <<mRegistered, refused>>
      PROVE  SessionInv'
  <2>1. m \in CoreMessages /\ m.kind # "config"
    BY KindsDiffer DEF CoreMessages
  <2>2. \A j \in Conns : procPc'[Fast(j)] = "setStatus" <=> procPc[Fast(j)] = "setStatus"
    BY <1>0, <1>5, FinishedOther
  <2>3. UNCHANGED recvPc
    BY <1>5 DEF Finish
  <2> QED
    BY <1>5, <2>1, <2>2, <2>3, WritingKeeps
<1>6. CASE RejectRegistration(k)
  BY <1>5, <1>6 DEF RejectRegistration, Handles
<1>7. CASE ProcessSubscribe(k) \/ ProcessNormal(k)
  <2>1. /\ Finish(Fast(k)) /\ procPc[Fast(k)] # "setStatus" /\ UNCHANGED <<mRegistered, refused>>
    BY <1>7 DEF ProcessSubscribe, ProcessNormal, Handles
  <2>2. CASE onMessageReceived(k, Error("none", "error"))
    BY <1>5, <2>1, <2>2
  <2>3. CASE UNCHANGED <<socketVars, misled>>
    <3>1. \A j \in Conns : procPc'[Fast(j)] = "setStatus" <=> procPc[Fast(j)] = "setStatus"
      BY <1>0, <2>1, FinishedOther
    <3>2. UNCHANGED <<toPlugin, clientEnd, coreEnd, misled, recvPc>>
      BY <2>1, <2>3 DEF Finish, socketVars
    <3> QED
      BY <2>1, <3>1, <3>2, QuietKeeps
  <2> QED
    BY <1>7, <2>2, <2>3 DEF ProcessSubscribe, ProcessNormal
<1>8. CASE IgnoreManifest(k) \/ ProcessGlobalConfig(k) \/ ProcessPluginConfig(k)
           \/ ProcessStatus(k) \/ ProcessEventLog(k)
  BY <1>0, <1>1, <1>2, <1>8 DEF IgnoreManifest, ProcessGlobalConfig, ProcessPluginConfig,
     ProcessStatus, ProcessEventLog, Handles
<1> QED
  BY <1>3, <1>4, <1>6, <1>7, <1>8 DEF FastProcess, SlowProcess

\* The processor threads keep what is known.
LEMMA ProcessorSession ==
  ASSUME Base, SessionInv, NEW t \in Threads, ProcessorStep(t)
  PROVE  SessionInv'
<1> USE DEF Base, ProcessorStep
<1>0. t[1] \in Conns /\ \A k \in Conns : Fast(k) \in Threads
  BY ThreadParts, ThreadOf DEF Fast, Processors
<1>1. CASE CheckInterruption(t) \/ WaitOne(t) \/ PopMessage(t)
  <2>1. UNCHANGED <<mRegistered, misled, refused, recvPc, toPlugin, clientEnd, coreEnd>>
    BY <1>1 DEF CheckInterruption, WaitOne, PopMessage, socketVars
  <2>2. PICK from \in {"check", "wait", "pop"}, to \in ProcPcs \ {"setStatus"} :
           ProcGoto(t, from, to)
    BY <1>1 DEF CheckInterruption, WaitOne, PopMessage, ProcGoto, ProcPcs
  <2>3. \A k \in Conns : procPc'[Fast(k)] = "setStatus" <=> procPc[Fast(k)] = "setStatus"
    BY <1>0, <2>2 DEF ProcGoto, Inv, ThreadTypes
  <2> QED
    BY <2>1, <2>3, QuietKeeps
<1> QED
  BY <1>0, <1>1, HandlerSession DEF Processor

\* Accepted connections, and the pushes of other threads.
LEMMA AcceptSession ==
  ASSUME Base, SessionInv, NEW k \in Conns, AcceptStep(k) \/ PushStep(k)
  PROVE  SessionInv'
<1> USE DEF Base, SessionInv
<1>0. UNCHANGED pluginVars
  BY DEF AcceptStep, PushStep
<1>1. CASE Accept(k)
  <2>1. /\ UNCHANGED <<toPlugin, clientEnd, coreEnd, mRegistered, misled, refused>>
        /\ recvPc' = [recvPc EXCEPT ![k] = "recv"] /\ coreEnd[k] = "open" /\ recvPc[k] = "none"
        /\ \A t \in Threads : procPc'[t] = IF t[1] = k THEN "check" ELSE procPc[t]
    BY <1>1 DEF Accept, NewPluginConnection, socketVars
  <2>2. \A j \in Conns : Fast(j) \in Threads /\ Fast(j)[1] = j
    BY ThreadOf DEF Fast, Processors
  <2>3. procPc[Fast(k)] # "setStatus"
    BY <2>1, <2>2 DEF Inv, JoinInv
  <2>4. recvPc \in [Conns -> RecvPcs]
    BY DEF Inv, ThreadTypes
  <2>5. \A j \in Conns : procPc'[Fast(j)] = "setStatus" <=> procPc[Fast(j)] = "setStatus"
    BY <2>1, <2>2, <2>3
  <2>6. EndInv'
    BY <2>1, <2>4, <2>5 DEF EndInv, Alive, Receiving
  <2>7. \A j \in Conns : (Attached(j) <=> Attached(j)') /\ (Answered(j)' <=> Answered(j))
    BY <2>1, <2>5 DEF Attached, Answered
  <2> QED
    BY <1>0, <2>1, <2>6, <2>7, CoreKeeps DEF ConfigInv
<1>2. CASE PushConfig(k) \/ PushRouted(k)
  <2>1. /\ UNCHANGED <<recvPc, procPc, mRegistered, refused>>
    BY <1>2 DEF PushConfig, PushRouted, Pushed, threadVars
  <2>2. PICK m \in {Config, Routed} : onMessageReceived(k, m) /\ (m = Config => mRegistered[k])
    <3>1. Config # Routed
      BY KindsDiffer DEF Config
    <3> QED
      BY <1>2, <3>1 DEF PushConfig, PushRouted
  <2>3. m \in CoreMessages /\ (m.kind = "config" => mRegistered[k])
    BY <2>2, KindsDiffer DEF CoreMessages
  <2> QED
    BY <1>0, <2>1, <2>2, <2>3, WritingKeeps
<1>3. CASE NeighbourWrites(k)
  <2>1. /\ UNCHANGED <<recvPc, procPc, mRegistered, refused, clientEnd, coreEnd>>
        /\ misled' = misled \cup {k} /\ coreEnd[k] = "open" /\ CoreSends({k}, Config)
    BY <1>3 DEF NeighbourWrites, Pushed, threadVars, CoreSends
  <2>2. /\ \A j \in Conns : toPlugin[j] \in Seq(CoreMessages)
        /\ Config \in CoreMessages
    BY DEF ConfigInv, CoreMessages
  <2>3. \A j \in Conns : /\ Append(toPlugin[j], Config) \in Seq(CoreMessages)
                         /\ HasConfig(toPlugin[j]) => HasConfig(Append(toPlugin[j], Config))
    BY <2>2, AppendConfig, AppendKeeps
  <2>4. toPlugin' = [j \in Conns |->
                      IF j \in {k} /\ clientEnd[j] = "open" /\ coreEnd[j] = "open"
                      THEN Append(toPlugin[j], Config) ELSE toPlugin[j]]
    BY <2>1 DEF CoreSends
  <2>5. /\ toPlugin' \in [Conns -> Seq(CoreMessages)]
        /\ \A j \in Conns : /\ HasConfig(toPlugin[j]) => HasConfig(toPlugin'[j])
                            /\ HasConfig(toPlugin'[j]) => HasConfig(toPlugin[j]) \/ j = k
    BY <2>2, <2>3, <2>4
  <2>6. EndInv'
    BY <2>1 DEF EndInv, Alive
  <2>7. \A j \in Conns : /\ Attached(j) => Attached(j)'
                         /\ j = k => Attached(j)'
                         /\ Answered(j)' <=> Answered(j)
    BY <2>1 DEF Attached, Answered
  <2> QED
    BY <1>0, <2>1, <2>5, <2>6, <2>7, CoreKeeps
<1> QED
  BY <1>1, <1>2, <1>3 DEF AcceptStep, PushStep

\* Nothing was opened, sent or registered.
LEMMA InitSession == Init => SessionInv
<1> SUFFICES ASSUME Init PROVE SessionInv
  OBVIOUS
<1> USE DEF Init, SocketInit, PluginInit, ConnInit
<1>1. Opened = 0
  <2>1. 0 \in 0..MaxConnections /\ \A k \in Conns : clientEnd[k] # "unused" <=> k <= 0
    BY SocketAssumption DEF Conns
  <2> QED
    BY <2>1, OpenedIs DEF Opened
<1>2. OrderInv
  BY <1>1 DEF OrderInv, Conns
<1>3. \A k \in Conns : Fast(k) \in Threads
  BY ThreadOf DEF Fast, Processors
<1>4. EndInv
  BY <1>3 DEF EndInv
<1>5. ConfigInv
  BY DEF ConfigInv, HasConfig
<1>6. ToldInv
  BY DEF ToldInv
<1> QED
  BY <1>2, <1>4, <1>5, <1>6 DEF SessionInv

\* Every step of the session keeps what is known.
LEMMA NextSession == Base /\ SessionInv /\ [Next]_vars => SessionInv'
<1> SUFFICES ASSUME Base, SessionInv, [Next]_vars PROVE SessionInv'
  OBVIOUS
<1>1. CASE ReceiveThreadStep \/ AppCallStep \/ AppFinishStep \/ RestartStep
  BY <1>1, PluginStepInv DEF Base
<1>2. ASSUME NEW k \in Conns, ReceiverStep(k) \/ AcceptStep(k) \/ PushStep(k) PROVE SessionInv'
  BY <1>2, ReceiverSession, AcceptSession
<1>3. ASSUME NEW t \in Threads, ProcessorStep(t) PROVE SessionInv'
  BY <1>3, ProcessorSession
<1>4. CASE CoreStep
  <2>1. CASE CoreKilled
    BY <1>4, <2>1, CoreDiesSession DEF CoreStep, CoreKilled
  <2>2. CASE CoreRestarts
    <3>1. \A k \in Conns : (recvPc[k] = "gone" => recvPc'[k] = "gone")
      BY <2>2 DEF CoreRestarts
    <3> QED
      BY <1>4, <2>2, <3>1, QuietKeeps
      DEF Base, CoreStep, CoreRestarts, threadVars, socketVars
  <2> QED
    BY <1>4, <2>1, <2>2 DEF CoreStep
<1>5. CASE UNCHANGED vars
  BY <1>5, QuietKeeps DEF Base, vars, connVars, threadVars, socketVars
<1> QED
  BY <1>1, <1>2, <1>3, <1>4, <1>5 DEF Next

\* The three invariants hold always.
LEMMA SessionInvariance == Spec => [](Base /\ SessionInv)
<1>1. Base /\ SessionInv /\ Base' /\ [Next]_vars => SessionInv'
  BY NextSession
<1>2. Spec => []Base
  <2>1. TypeOK /\ DeafInv /\ TypeOK' /\ [Next]_vars => DeafInv'
    BY NextDeaf
  <2>2. Spec => []DeafInv
    BY <2>1, InitDeaf, TypeCorrect, PTL DEF Spec
  <2>3. Inv /\ TypeOK /\ DeafInv => Base
    BY DEF Base
  <2> QED
    BY <2>2, <2>3, Invariance, TypeCorrect, PTL
<1> QED
  BY <1>1, <1>2, InitSession, PTL DEF Spec

\* A plugin that takes itself for registered has an object in the core that
\* says so, unless its connection is closed at the core's end or the object of
\* an older connection wrote to it.
THEOREM RegistrationAgreed == Spec => []RegisteredOnBothSides
<1>1. Base /\ SessionInv => RegisteredOnBothSides
  BY DEF SessionInv, ConfigInv, Attached, RegisteredOnBothSides
<1> QED
  BY <1>1, SessionInvariance, PTL

\* A plugin that the core has registered takes itself for registered as soon
\* as it has read what was sent, unless the database failed after the core had
\* set mRegistered.
THEOREM RegistrationReachesPlugin == Spec => []RegistrationLearnt
<1>1. ASSUME Base, SessionInv PROVE RegistrationLearnt
  <2> SUFFICES ASSUME rpc = "recv", toPlugin[socket] = <<>>, mRegistered[socket],
                      procPc[Fast(socket)] # "setStatus", state # "registered",
                      socket \notin refused
               PROVE  coreEnd[socket] = "closed"
    BY DEF RegistrationLearnt
  <2>1. socket \in Conns
    BY <1>1 DEF Base, TypeOK, PluginTypeOK, DeafInv, PlaceInv
  <2>2. coreEnd[socket] \in {"open", "closed"}
    BY <1>1, <2>1 DEF Base, TypeOK, SocketTypeOK, SessionInv, EndInv, Alive
  <2>3. state = "connected" \/ coreEnd[socket] = "closed"
    BY <1>1 DEF Base, DeafInv, NoDeafPlugin, Live
  <2>4. ~HasConfig(toPlugin[socket])
    BY DEF HasConfig
  <2> QED
    BY <1>1, <2>1, <2>2, <2>3, <2>4 DEF SessionInv, ToldInv, Answered
<1> QED
  BY <1>1, SessionInvariance, PTL
=============================================================================
