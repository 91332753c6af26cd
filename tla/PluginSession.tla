--------------------------- MODULE PluginSession ----------------------------
(***************************************************************************)
(* A plugin process and the core, connected: IvpPlugin.c against           *)
(* PluginConnection.cpp, over any number of connections, restarts of the   *)
(* plugin and crashes of the core.                                         *)
(***************************************************************************)
EXTENDS IvpPlugin, PluginConnection

vars == <<socketVars, pluginVars, connVars>>

Init == SocketInit /\ PluginInit /\ ConnInit

\* connect() fails, and is tried again, while no core is listening.
ReceiveThreadStep ==
  /\ rpc = "connect" => coreProcess = "running"
  /\ ReceiveThread
  /\ UNCHANGED connVars

AppCallStep == AppLocks /\ UNCHANGED connVars

AppFinishStep == AppFinishes /\ UNCHANGED connVars

RestartStep == PluginRestarts /\ UNCHANGED connVars

ReceiverStep(k) == Receiver(k) /\ UNCHANGED pluginVars

ProcessorStep(t) == Processor(t) /\ UNCHANGED pluginVars

AcceptStep(k) == Accept(k) /\ UNCHANGED pluginVars

PushStep(k) ==
  (PushConfig(k) \/ PushRouted(k) \/ NeighbourWrites(k)) /\ UNCHANGED pluginVars

CoreStep == (CoreKilled \/ CoreRestarts) /\ UNCHANGED pluginVars

Next ==
  \/ ReceiveThreadStep
  \/ AppCallStep
  \/ AppFinishStep
  \/ RestartStep
  \/ \E k \in Conns : ReceiverStep(k) \/ AcceptStep(k) \/ PushStep(k)
  \/ \E t \in Threads : ProcessorStep(t)
  \/ CoreStep

\* Every thread that can run does; the application sends, the plugin and the
\* core are killed and restarted at will.
Fairness ==
  /\ WF_vars(ReceiveThreadStep)
  /\ WF_vars(AppFinishStep)
  /\ \A k \in Conns : WF_vars(ReceiverStep(k)) /\ WF_vars(AcceptStep(k))
  /\ \A t \in Threads : WF_vars(ProcessorStep(t))

Spec == Init /\ [][Next]_vars

FairSpec == Spec /\ Fairness

-----------------------------------------------------------------------------
(* Properties *)

\* The threads, queues and sockets have the values the code gives them.
TypeOK == SocketTypeOK /\ PluginTypeOK /\ ConnTypeOK

\* No wakeup is lost: a processor thread sleeps on its AutoResetEvent while
\* its queue has a message only until the receiver thread, which has pushed
\* it, sets the event.  messageWaiting must stand in for the Sets that
\* AutoResetEvent merged.
NoLostWakeup ==
  \A t \in Threads :
    procPc[t] \in {"check", "wait"} /\ ~messageWaiting[t] /\ ~event[t] /\ queue[t] # <<>>
    => recvPc[t[1]] = AboutToSet(t[2])

\* "delete this" runs when both processor threads have been joined: neither
\* touches the object afterwards.
NoThreadOutlivesObject ==
  \A t \in Threads :
    recvPc[t[1]] \in {"delete", "gone"} => procPc[t] = "exited" /\ msg[t] = "none"

\* A plugin that takes itself for registered is registered on that
\* connection, unless the core has closed it, or a Config of another object
\* has strayed to it.
RegisteredOnBothSides ==
  state = "registered" /\ socket \notin misled \cup {0} =>
    coreEnd[socket] = "closed" \/ mRegistered[socket]

\* A plugin that the core has registered knows it once it has read what the
\* core sent, unless the database failed after mRegistered was set and the
\* answer was an error, or the core has closed the connection.
RegistrationLearnt ==
  rpc = "recv" /\ toPlugin[socket] = <<>>
    /\ mRegistered[socket] /\ procPc[Fast(socket)] # "setStatus"
  => state = "registered" \/ socket \in refused \/ coreEnd[socket] = "closed"

\* What RegisteredOnBothSides would be without strays.  It is refuted, see
\* MCSessionStray.cfg.
NeverMistaken ==
  state = "registered" /\ socket # 0 =>
    coreEnd[socket] = "closed" \/ mRegistered[socket]

\* The receive thread is never left in recv() on a healthy connection with a
\* state that keeps the plugin from sending: a send that fails late may set
\* "disconnected" only while the receive thread will notice.
NoDeafPlugin ==
  rpc = "recv" /\ ~Live => coreEnd[socket] = "closed"

\* A connection the plugin closed is given up: the receiver thread gets
\* through its interrupts and joins and deletes the object.
ConnectionReleased ==
  \A k \in Conns : Alive(k) /\ clientEnd[k] = "closed" ~> ~Alive(k)

\* A queued message is taken unless the connection is being closed.
QueuesDrain ==
  \A t \in Threads : queue[t] # <<>> ~> queue[t] = <<>> \/ interrupted[t]

\* While a core is running, a plugin whose connection was closed at the
\* core's end connects again (as far as the bound on connections goes).
PluginReconnects ==
  <>[](coreProcess = "running") =>
    \A k \in Conns : socket = k /\ coreEnd[k] = "closed" ~> Opened > k \/ k = MaxConnections

\* "where it does not matter if they are executed out-of-order from other
\* messages received" (slowProcessorThread): no message of the slow thread
\* brings the core down, whatever the fast thread has got to.
CoreSurvives == coreProcess # "terminated"

\* The receive thread takes a message of the core out of its buffer.
ReadsMessage ==
  /\ rpc \in {"recv", "batch"}
  /\ rpc' # "connect"
  /\ toPlugin[socket] # << >>
  /\ toPlugin'[socket] = Tail(toPlugin[socket])

\* "If a fatal error is ever returns, the plugin will go into an error state
\* and the connection will be severed" (IvpPlugin.h): reading an error of
\* level fatal changes plugin->state to error.
FatalErrorSevers ==
  [][ReadsMessage => LET m == Head(toPlugin[socket]) IN
       m.kind = "error" /\ m.level = "fatal" => state' = "error"]_vars
=============================================================================
