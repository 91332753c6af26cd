-------------------------- MODULE PluginConnection --------------------------
(***************************************************************************)
(* The core's side of a plugin's connections (TmxCore/src/PluginConnection *)
(* .cpp on top of Plugin.cpp).  Each accepted connection has an object of  *)
(* its own, with a receiver thread, which reads the socket and feeds two   *)
(* queues, a fast and a slow processor thread, each with its queue and     *)
(* AutoResetEvent, and the configuration monitor thread of Plugin.  An     *)
(* object exists from accept() to "delete this", so the object of an old   *)
(* connection may be at its end while that of the next one works.  Its     *)
(* mSocket keeps the number of the closed descriptor, and accept() hands   *)
(* the number out again.  What the neighbours in the core do (another      *)
(* plugin with the name, a failing database, a write through a number that *)
(* was theirs) is a choice.                                                *)
(***************************************************************************)
EXTENDS PluginSocket

CONSTANTS
  DbFails,   \* TRUE when calls of the database may throw DbException
  MaxPushes, \* bound: messages pushed by other threads (config, routed)
  MaxKills   \* bound: how often the core is killed from outside

ASSUME ConnAssumption == MaxPushes \in Nat /\ MaxKills \in Nat

\* The processor threads of the object of k.
Processors == {"fast", "slow"}
Threads == Conns \X Processors
Fast(k) == <<k, "fast">>
Slow(k) == <<k, "slow">>

VARIABLES
  recvPc,       \* recvPc[k]: where the receiver thread of k's object is
  mSocket,      \* mSocket[k]: the number of its descriptor, 0 for none
  queue,        \* queue[t]: mFastMessageQueue, mSlowMessageQueue
  event,        \* event[t]: _flag of mEventContinue{Fast,Slow}Processor
  interrupted,  \* interrupted[t]: interruption_requested() of the thread
  procPc,       \* procPc[t]: where the thread is
  messageWaiting, \* messageWaiting[t]: its local variable
  msg,          \* msg[t]: the message it took
  mRegistered,  \* mRegistered[k]: of the object of k
  subscribed,   \* subscribed[k]: the router's map has filters for it
  misled,       \* history: connections another object wrote a Config to
  refused,      \* history: objects that registered and answered an error
  pushes,       \* how many messages other threads pushed
  kills,        \* how often the core was killed
  coreProcess   \* "running", "killed" or "terminated" by std::terminate

limits == <<pushes, kills>>

threadVars == <<queue, event, interrupted, procPc, messageWaiting, msg>>

connVars == <<recvPc, mSocket, threadVars, mRegistered, subscribed,
              misled, refused, limits, coreProcess>>

\* Status and event log messages are processed on the slow thread.
ProcessorOf(m) == IF m \in {"status", "eventLog"} THEN "slow" ELSE "fast"

ConnInit ==
  /\ recvPc = [k \in Conns |-> "none"]
  /\ mSocket = [k \in Conns |-> 0]
  /\ queue = [t \in Threads |-> <<>>]
  /\ event = [t \in Threads |-> FALSE]
  /\ interrupted = [t \in Threads |-> FALSE]
  /\ procPc = [t \in Threads |-> "exited"]
  /\ messageWaiting = [t \in Threads |-> FALSE]
  /\ msg = [t \in Threads |-> "none"]
  /\ mRegistered = [k \in Conns |-> FALSE]
  /\ subscribed = [k \in Conns |-> FALSE]
  /\ misled = {}
  /\ refused = {}
  /\ pushes = 0
  /\ kills = 0
  /\ coreProcess = "running"

Alive(k) == recvPc[k] \notin {"none", "gone"}

\* The objects of K are freed, and nothing of their state is left.
Freed(K) ==
  /\ mSocket' = [k \in Conns |-> IF k \in K THEN 0 ELSE mSocket[k]]
  /\ queue' = [t \in Threads |-> IF t[1] \in K THEN <<>> ELSE queue[t]]
  /\ event' = [t \in Threads |-> t[1] \notin K /\ event[t]]
  /\ interrupted' = [t \in Threads |-> t[1] \notin K /\ interrupted[t]]
  /\ procPc' = [t \in Threads |-> IF t[1] \in K THEN "exited" ELSE procPc[t]]
  /\ messageWaiting' = [t \in Threads |-> t[1] \notin K /\ messageWaiting[t]]
  /\ msg' = [t \in Threads |-> IF t[1] \in K THEN "none" ELSE msg[t]]
  /\ mRegistered' = [k \in Conns |-> k \notin K /\ mRegistered[k]]
  /\ subscribed' = [k \in Conns |-> k \notin K /\ subscribed[k]]
  /\ misled' = misled \ K
  /\ refused' = refused \ K

\* The connection that has number d in the core now.
Holder(d) == {k \in Conns : mSocket[k] = d /\ coreEnd[k] = "open"}

\* onMessageReceived writes to whoever holds the number in mSocket.
onMessageReceived(k, m) ==
  /\ CoreSends(Holder(mSocket[k]), m)
  /\ misled' = IF m = Config THEN misled \cup (Holder(mSocket[k]) \ {k}) ELSE misled

\* The object of k gets its threads, and d for its socket.
NewPluginConnection(k, d) ==
  /\ recvPc' = [recvPc EXCEPT ![k] = "recv"]
  /\ mSocket' = [mSocket EXCEPT ![k] = d]
  /\ procPc' = [t \in Threads |-> IF t[1] = k THEN "check" ELSE procPc[t]]
  /\ UNCHANGED <<queue, event, interrupted, messageWaiting, msg, mRegistered,
                 subscribed, misled, refused, limits, coreProcess>>
  /\ UNCHANGED socketVars

\* Mutant: the result of accept() is not looked at.
Accept_Unchecked(k) ==
  /\ coreProcess = "running"
  /\ recvPc[k] = "none"
  /\ NewPluginConnection(k, -1)

\* PluginServer accepts the connection that waits longest.  Its descriptor
\* gets any number that is free: one of its own, or one that an object at
\* its end remembers.
Accept(k) ==
  /\ coreProcess = "running"
  /\ recvPc[k] = "none"
  /\ coreEnd[k] = "open"
  /\ \A j \in Conns : j < k => recvPc[j] # "none" \/ coreEnd[j] = "closed"
  /\ \E d \in 1..k :
       /\ Holder(d) = {}
       /\ NewPluginConnection(k, d)

-----------------------------------------------------------------------------
(* receiverThread *)

RecvGoto(k, from, to) ==
  /\ recvPc[k] = from
  /\ recvPc' = [recvPc EXCEPT ![k] = to]

\* A message that ivpMsg_parse rejects is answered with a warning.
ReceiveUnparsable(k) ==
  /\ recvPc[k] = "recv"
  /\ toCore[k] # <<>>
  /\ Head(toCore[k]) = "garbled"
  /\ toCore' = [toCore EXCEPT ![k] = Tail(@)]
  /\ toPlugin' = IF clientEnd[k] = "open"
                 THEN [toPlugin EXCEPT ![k] = Append(@, Error("messageParse", "warn"))]
                 ELSE toPlugin
  /\ UNCHANGED <<clientEnd, coreEnd>>
  /\ UNCHANGED connVars

\* Where the receiver thread is between the push and the Set.
AboutToSet(p) == IF p = "fast" THEN "setFast" ELSE "setSlow"

\* The push under the mutex; the event is set in the next step.
QueueMessage(k, p) ==
  /\ CoreReads(k)
  /\ Head(toCore[k]) # "garbled"
  /\ ProcessorOf(Head(toCore[k])) = p
  /\ queue' = [queue EXCEPT ![<<k, p>>] = Append(@, Head(toCore[k]))]
  /\ RecvGoto(k, "recv", AboutToSet(p))
  /\ UNCHANGED <<mSocket, event, interrupted, procPc, messageWaiting, msg,
                 mRegistered, subscribed, misled, refused, limits, coreProcess>>

\* The receiver thread sets the event of p and goes on.
WakeProcessor(k, p) ==
  /\ RecvGoto(k, AboutToSet(p), "recv")
  /\ event' = [event EXCEPT ![<<k, p>>] = TRUE]
  /\ UNCHANGED <<mSocket, queue, interrupted, procPc, messageWaiting, msg,
                 mRegistered, subscribed, misled, refused, limits, coreProcess>>
  /\ UNCHANGED socketVars

\* recv returns 0 or fails: close(mSocket).
ConnectionClosed(k) ==
  /\ CoreSeesEnd(k)
  /\ CoreCloses(k)
  /\ RecvGoto(k, "recv", "interrupt")
  /\ UNCHANGED <<mSocket, threadVars, mRegistered, subscribed, misled, refused,
                 limits, coreProcess>>

\* Mutant: the sleeping processor threads are not woken.
InterruptProcessors_NoWakeup(k) ==
  /\ RecvGoto(k, "interrupt", "join")
  /\ interrupted' = [t \in Threads |-> t[1] = k \/ interrupted[t]]
  /\ UNCHANGED <<mSocket, queue, event, procPc, messageWaiting, msg,
                 mRegistered, subscribed, misled, refused, limits, coreProcess>>
  /\ UNCHANGED socketVars

\* Each thread looks at its own flag and its own event only, so the two
\* interrupts are one step here, and so are the two Sets.
InterruptProcessors(k) ==
  /\ RecvGoto(k, "interrupt", "wake")
  /\ interrupted' = [t \in Threads |-> t[1] = k \/ interrupted[t]]
  /\ UNCHANGED <<mSocket, queue, event, procPc, messageWaiting, msg,
                 mRegistered, subscribed, misled, refused, limits, coreProcess>>
  /\ UNCHANGED socketVars

WakeProcessors(k) ==
  /\ RecvGoto(k, "wake", "join")
  /\ event' = [t \in Threads |-> t[1] = k \/ event[t]]
  /\ UNCHANGED <<mSocket, queue, interrupted, procPc, messageWaiting, msg,
                 mRegistered, subscribed, misled, refused, limits, coreProcess>>
  /\ UNCHANGED socketVars

\* Mutant: the object is deleted without waiting for its threads.
JoinProcessors_AtOnce(k) ==
  /\ RecvGoto(k, "join", "delete")
  /\ UNCHANGED <<mSocket, threadVars, mRegistered, subscribed, misled, refused,
                 limits, coreProcess>>
  /\ UNCHANGED socketVars

JoinProcessors(k) ==
  /\ \A p \in Processors : procPc[<<k, p>>] = "exited"
  /\ RecvGoto(k, "join", "delete")
  /\ UNCHANGED <<mSocket, threadVars, mRegistered, subscribed, misled, refused,
                 limits, coreProcess>>
  /\ UNCHANGED socketVars

\* delete this: ~Plugin joins the configuration monitor and takes the object
\* out of the router; PluginLifecycle has its steps.
DeleteThis(k) ==
  /\ RecvGoto(k, "delete", "gone")
  /\ Freed({k})
  /\ UNCHANGED <<limits, coreProcess>>
  /\ UNCHANGED socketVars

-----------------------------------------------------------------------------
(* fastProcessorThread and slowProcessorThread *)

ProcGoto(t, from, to) ==
  /\ procPc[t] = from
  /\ procPc' = [procPc EXCEPT ![t] = to]

\* while (!interruption_requested()) and, without a message, WaitOne()
CheckInterruption(t) ==
  /\ \/ interrupted[t] /\ ProcGoto(t, "check", "exited")
     \/ ~interrupted[t] /\ messageWaiting[t] /\ ProcGoto(t, "check", "pop")
     \/ ~interrupted[t] /\ ~messageWaiting[t] /\ ProcGoto(t, "check", "wait")
  /\ UNCHANGED <<recvPc, mSocket, queue, event, interrupted, messageWaiting, msg,
                 mRegistered, subscribed, misled, refused, limits, coreProcess>>
  /\ UNCHANGED socketVars

WaitOne(t) ==
  /\ event[t]
  /\ ProcGoto(t, "wait", "pop")
  /\ event' = [event EXCEPT ![t] = FALSE]
  /\ UNCHANGED <<recvPc, mSocket, queue, interrupted, messageWaiting, msg,
                 mRegistered, subscribed, misled, refused, limits, coreProcess>>
  /\ UNCHANGED socketVars

\* Mutant: one Set is taken to stand for one message.
PopMessage_OnePerSet(t) ==
  /\ \/ /\ queue[t] # <<>>
        /\ ProcGoto(t, "pop", "process")
        /\ msg' = [msg EXCEPT ![t] = Head(queue[t])]
        /\ queue' = [queue EXCEPT ![t] = Tail(@)]
     \/ /\ queue[t] = <<>>
        /\ ProcGoto(t, "pop", "check")
        /\ UNCHANGED <<queue, msg>>
  /\ UNCHANGED <<recvPc, mSocket, event, interrupted, messageWaiting,
                 mRegistered, subscribed, misled, refused, limits, coreProcess>>
  /\ UNCHANGED socketVars

PopMessage(t) ==
  /\ \/ /\ queue[t] # <<>>
        /\ ProcGoto(t, "pop", "process")
        /\ msg' = [msg EXCEPT ![t] = Head(queue[t])]
        /\ queue' = [queue EXCEPT ![t] = Tail(@)]
        /\ messageWaiting' = [messageWaiting EXCEPT ![t] = Tail(queue[t]) # <<>>]
     \/ /\ queue[t] = <<>>
        /\ ProcGoto(t, "pop", "check")
        /\ msg' = [msg EXCEPT ![t] = "none"]
        /\ UNCHANGED <<queue, messageWaiting>>
  /\ UNCHANGED <<recvPc, mSocket, event, interrupted,
                 mRegistered, subscribed, misled, refused, limits, coreProcess>>
  /\ UNCHANGED socketVars

\* The thread is in the handler of a message of kind m.
Handles(t, m) == procPc[t] = "process" /\ msg[t] = m

\* It is done with the message and looks for the next.
Finish(t) ==
  /\ procPc' = [procPc EXCEPT ![t] = "check"]
  /\ msg' = [msg EXCEPT ![t] = "none"]
  /\ UNCHANGED <<recvPc, mSocket, queue, event, interrupted, messageWaiting,
                 limits, coreProcess>>

\* Done, without a word to the plugin.
FinishSilently(t) ==
  /\ Finish(t)
  /\ UNCHANGED <<mRegistered, subscribed, misled, refused>>
  /\ UNCHANGED socketVars

\* The core's process ends, with all its objects and descriptors.
CoreDies(how) ==
  /\ coreProcess' = how
  /\ recvPc' = [k \in Conns |-> "none"]
  /\ Freed(Conns)
  /\ CoreClosesAll

\* The exception leaves the thread's function: std::terminate.
Terminate == CoreDies("terminated") /\ UNCHANGED limits

\* The manifest cannot be extracted or is not valid: there is no answer.
IgnoreManifest(k) ==
  /\ Handles(Fast(k), "register")
  /\ FinishSilently(Fast(k))

\* registerPlugin throws: the name is taken (by another plugin, by an older
\* object of this one, or by this one when it registers twice) or empty, or
\* the database fails.
RejectRegistration(k) ==
  /\ Handles(Fast(k), "register")
  /\ Finish(Fast(k))
  /\ onMessageReceived(k, Error("none", "fatal"))
  /\ UNCHANGED <<mRegistered, subscribed, refused>>

\* registerPlugin up to mRegistered = true.  An object that is registered has
\* the name until its destructor runs.
AcceptRegistration(k) ==
  /\ msg[Fast(k)] = "register"
  /\ \A j \in Conns : mRegistered[j] => recvPc[j] = "delete"
  /\ ProcGoto(Fast(k), "process", "setStatus")
  /\ mRegistered' = [mRegistered EXCEPT ![k] = TRUE]
  /\ UNCHANGED <<recvPc, mSocket, queue, event, interrupted, messageWaiting, msg,
                 subscribed, misled, refused, limits, coreProcess>>
  /\ UNCHANGED socketVars

\* Mutant: there is no answer when there is nothing to configure.
AnswerRegistration_Silent(k) ==
  /\ procPc[Fast(k)] = "setStatus"
  /\ Finish(Fast(k))
  /\ \/ onMessageReceived(k, Config) /\ UNCHANGED refused
     \/ UNCHANGED <<socketVars, misled, refused>>
  /\ UNCHANGED <<mRegistered, subscribed>>

\* setPluginStatus(RUNNING), which may throw; the heartbeat; the reply with
\* the configuration, which may be empty.
AnswerRegistration(k) ==
  /\ procPc[Fast(k)] = "setStatus"
  /\ Finish(Fast(k))
  /\ \/ /\ onMessageReceived(k, Config)
        /\ UNCHANGED refused
     \/ /\ DbFails
        /\ onMessageReceived(k, Error("none", "fatal"))
        /\ refused' = refused \cup {k}
  /\ UNCHANGED <<mRegistered, subscribed>>

\* processSubscribeMessage
ProcessSubscribe(k) ==
  /\ Handles(Fast(k), "subscribe")
  /\ Finish(Fast(k))
  /\ subscribed' = [subscribed EXCEPT ![k] = mRegistered[k]]
  /\ IF mRegistered[k] THEN UNCHANGED <<socketVars, misled>>
                       ELSE onMessageReceived(k, Error("none", "error"))
  /\ UNCHANGED <<mRegistered, refused>>

\* processConfigMessage of a "_global" parameter: a DbException becomes a
\* PluginException that nobody catches.
ProcessGlobalConfig(k) ==
  /\ Handles(Fast(k), "globalConfig")
  /\ FinishSilently(Fast(k)) \/ (DbFails /\ Terminate)

\* processConfigMessage of a parameter of the plugin, which ivp_setConfiguration-
\* Value sends without a source: strcmp(NULL, "_global").
ProcessPluginConfig(k) ==
  /\ Handles(Fast(k), "pluginConfig")
  /\ Terminate

\* sendMessageToRouter
ProcessNormal(k) ==
  /\ Handles(Fast(k), "normal")
  /\ Finish(Fast(k))
  /\ IF mRegistered[k] THEN UNCHANGED <<socketVars, misled>>
                       ELSE onMessageReceived(k, Error("none", "error"))
  /\ UNCHANGED <<mRegistered, subscribed, refused>>

\* processStatusMessage catches what setStatusItems throws.
ProcessStatus(k) ==
  /\ Handles(Slow(k), "status")
  /\ FinishSilently(Slow(k))

\* processEventLogMessage does not catch what addEventLogEntry throws.
ProcessEventLog(k) ==
  /\ Handles(Slow(k), "eventLog")
  /\ IF mRegistered[k] THEN FinishSilently(Slow(k)) ELSE Terminate

-----------------------------------------------------------------------------
(* Other threads of the core write to the sockets: to that of a live       *)
(* object, or to the one that has its number by now.                       *)

Pushed ==
  /\ pushes < MaxPushes
  /\ pushes' = pushes + 1
  /\ UNCHANGED <<recvPc, mSocket, threadVars, mRegistered, subscribed, refused,
                 kills, coreProcess>>

\* Mutant: the monitor does not look at mRegistered.
PushConfig_Unregistered(k) ==
  /\ Alive(k)
  /\ Pushed
  /\ onMessageReceived(k, Config)

\* configMonitorThreadEntry, onConfigChanged: every two seconds, until ~Plugin
\* has joined the thread.
PushConfig(k) ==
  /\ Alive(k)
  /\ mRegistered[k]
  /\ Pushed
  /\ onMessageReceived(k, Config)

\* The router's broadcast of another plugin's message.
PushRouted(k) ==
  /\ Alive(k)
  /\ subscribed[k]
  /\ Pushed
  /\ onMessageReceived(k, Routed)

\* An object of another plugin is at its end; its number is that of k now.
NeighbourWrites(k) ==
  /\ Alive(k)
  /\ Pushed
  /\ coreEnd[k] = "open"
  /\ CoreSends({k}, Config)
  /\ misled' = misled \cup {k}

CoreKilled ==
  /\ coreProcess = "running"
  /\ kills < MaxKills
  /\ kills' = kills + 1
  /\ CoreDies("killed")
  /\ UNCHANGED pushes

\* The service manager starts the core again.
CoreRestarts ==
  /\ coreProcess # "running"
  /\ coreProcess' = "running"
  /\ UNCHANGED <<recvPc, mSocket, threadVars, mRegistered, subscribed, misled,
                 refused, limits>>
  /\ UNCHANGED socketVars

Receiver(k) ==
  \/ ReceiveUnparsable(k)
  \/ \E p \in Processors : QueueMessage(k, p) \/ WakeProcessor(k, p)
  \/ ConnectionClosed(k)
  \/ InterruptProcessors(k)
  \/ WakeProcessors(k)
  \/ JoinProcessors(k)
  \/ DeleteThis(k)

FastProcess(k) ==
  \/ IgnoreManifest(k) \/ RejectRegistration(k)
  \/ AcceptRegistration(k) \/ AnswerRegistration(k)
  \/ ProcessSubscribe(k) \/ ProcessGlobalConfig(k)
  \/ ProcessPluginConfig(k) \/ ProcessNormal(k)

SlowProcess(k) == ProcessStatus(k) \/ ProcessEventLog(k)

Processor(t) ==
  \/ CheckInterruption(t)
  \/ WaitOne(t)
  \/ PopMessage(t)
  \/ t[2] = "fast" /\ FastProcess(t[1])
  \/ t[2] = "slow" /\ SlowProcess(t[1])

RecvPcs == {"none", "recv", "setFast", "setSlow", "interrupt", "wake", "join",
            "delete", "gone"}

ProcPcs == {"check", "wait", "pop", "process", "setStatus", "exited"}

ConnTypeOK ==
  /\ recvPc \in [Conns -> RecvPcs]
  /\ mSocket \in [Conns -> Conns \cup {0}]
  /\ DOMAIN queue = Threads
  /\ event \in [Threads -> BOOLEAN]
  /\ interrupted \in [Threads -> BOOLEAN]
  /\ procPc \in [Threads -> ProcPcs]
  /\ messageWaiting \in [Threads -> BOOLEAN]
  /\ mRegistered \in [Conns -> BOOLEAN]
  /\ subscribed \in [Conns -> BOOLEAN]
  /\ misled \subseteq Conns
  /\ refused \subseteq Conns
  /\ pushes \in 0..MaxPushes
  /\ kills \in 0..MaxKills
  /\ coreProcess \in {"running", "killed", "terminated"}
=============================================================================
