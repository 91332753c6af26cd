----------------------------- MODULE IvpPlugin ------------------------------
(***************************************************************************)
(* The plugin's side of its connection (TmxApi/tmx/IvpPlugin.c): the       *)
(* receive thread that connects, registers, reads and reconnects, and an   *)
(* application thread that calls ivp_broadcastMessage (or one of the       *)
(* functions built on it).  plugin->lock is taken for a send; the receive  *)
(* thread changes plugin->state and plugin->socket without it.             *)
(***************************************************************************)
EXTENDS PluginSocket

CONSTANTS
  AppMessages,  \* the kinds of message the application sends
  EarlySends,   \* TRUE when it may send before the registration was sent
  MaxSends      \* bound: how many messages the application sends

ASSUME PluginAssumption == MaxSends \in Nat

VARIABLES
  state,    \* plugin->state
  socket,   \* plugin->socket, 0 for -1
  lock,     \* the holder of plugin->lock: "none" or "app"
  rpc,      \* where the receive thread is
  appMsg,   \* the message the application thread is sending
  appPc,    \* where the application thread is
  sends     \* how many messages it has sent

pluginVars == <<state, socket, lock, rpc, appMsg, appPc, sends>>

Live == state \in {"connected", "registered"}

PluginInit ==
  /\ state = "disconnected"
  /\ socket = 0
  /\ lock = "none"
  /\ rpc = "connect"
  /\ appMsg = "none"
  /\ appPc = "idle"
  /\ sends = 0

\* ivp_onStateChange; the callback of the application is not modelled.
ivp_onStateChange(s) == state' = s

-----------------------------------------------------------------------------
(* ivp_receive, the receive thread *)

\* socket, connect, plugin->socket = fd, ivp_onStateChange(connected); a
\* connect that fails is tried again and changes nothing.
ConnectToCore ==
  /\ rpc = "connect"
  /\ state # "error"
  /\ Opened < MaxConnections
  /\ Connect(Opened + 1)
  /\ socket' = Opened + 1
  /\ ivp_onStateChange("connected")
  /\ rpc' = "register"
  /\ UNCHANGED <<lock, appMsg, appPc, sends>>

\* One recv may bring several messages: those after the first are handled in
\* the inner loop, which does not look at the state.
HandlesMessage == rpc \in {"recv", "batch"} /\ ClientReads(socket)

AfterMessage == {"loop"} \cup {b \in {"batch"} : Len(toPlugin[socket]) > 1}

\* Mutant: the receive thread sends without taking the lock.
SendFromReceiver_NoLock(m) ==
  /\ IF Live THEN ClientSends(socket, m) ELSE UNCHANGED socketVars
  /\ UNCHANGED <<state, socket, lock, appMsg, appPc, sends>>

\* The receive thread sends m itself, under the lock, if the state still
\* allows it; a send that fails changes the state to disconnected.
SendFromReceiver(m) ==
  /\ lock = "none"
  /\ \/ ~Live /\ UNCHANGED state /\ UNCHANGED socketVars
     \/ Live /\ ClientSends(socket, m) /\ UNCHANGED state
     \/ Live /\ ClientSeesEnd(socket) /\ ivp_onStateChange("disconnected") /\ UNCHANGED socketVars
  /\ UNCHANGED <<socket, lock, appMsg, appPc, sends>>

\* ivp_broadcastAndDestroyMessage(plugin, ivpRegister_createMsgFromJson(...))
SendRegister ==
  /\ rpc = "register"
  /\ rpc' = "loop"
  /\ SendFromReceiver("register")

\* while (plugin->state == connected || plugin->state == registered)
CheckState ==
  /\ rpc = "loop"
  /\ rpc' = IF Live THEN "recv" ELSE "close"
  /\ UNCHANGED <<state, socket, lock, appMsg, appPc, sends>>
  /\ UNCHANGED socketVars

\* ivp_onMessageReceived of a config message: the values are updated under
\* the lock; the state is looked at here and changed in the next step.
ReceiveConfig ==
  /\ HandlesMessage
  /\ Head(toPlugin[socket]) = Config
  /\ lock = "none"
  /\ IF state = "connected" THEN rpc' = "upgrade" ELSE rpc' \in AfterMessage
  /\ UNCHANGED <<state, socket, lock, appMsg, appPc, sends>>

BecomeRegistered ==
  /\ rpc = "upgrade"
  /\ ivp_onStateChange("registered")
  /\ rpc' = "resubscribe"
  /\ UNCHANGED <<socket, lock, appMsg, appPc, sends>>
  /\ UNCHANGED socketVars

\* ivp_subscribe(plugin, plugin->filter)
Resubscribe ==
  /\ rpc = "resubscribe"
  /\ rpc' \in {"loop"} \cup {b \in {"batch"} : toPlugin[socket] # <<>>}
  /\ SendFromReceiver("subscribe")

\* ivp_onError: the state the plugin is in after the error.
ivp_onError(err) ==
  IF err.error # "none" /\ err.level = "fatal" THEN "error" ELSE state

ReceiveError ==
  /\ HandlesMessage
  /\ Head(toPlugin[socket]).kind = "error"
  /\ state' = ivp_onError(Head(toPlugin[socket]))
  /\ rpc' \in AfterMessage
  /\ UNCHANGED <<socket, lock, appMsg, appPc, sends>>

\* Any other message goes to the onMsgReceived callback.
ReceiveMessage ==
  /\ HandlesMessage
  /\ Head(toPlugin[socket]) = Routed
  /\ rpc' \in AfterMessage
  /\ UNCHANGED <<state, socket, lock, appMsg, appPc, sends>>

\* Mutant: a recv of 0 bytes is not taken for the end.
ReceiveEnd_Ignored ==
  /\ rpc = "recv"
  /\ ClientSeesEnd(socket)
  /\ rpc' = "loop"
  /\ UNCHANGED <<state, socket, lock, appMsg, appPc, sends>>
  /\ UNCHANGED socketVars

\* recv returns 0 or fails: a dropped connection is not a fatal error.
ReceiveEnd ==
  /\ rpc = "recv"
  /\ ClientSeesEnd(socket)
  /\ ivp_onStateChange("disconnected")
  /\ rpc' = "loop"
  /\ UNCHANGED <<socket, lock, appMsg, appPc, sends>>
  /\ UNCHANGED socketVars

\* close(fd), plugin->socket = -1
CloseSocket ==
  /\ rpc = "close"
  /\ ClientCloses(socket)
  /\ socket' = 0
  /\ rpc' = "connect"
  /\ UNCHANGED <<state, lock, appMsg, appPc, sends>>

-----------------------------------------------------------------------------
(* ivp_broadcastMessage on the application thread *)

\* pthread_mutex_lock(&plugin->lock) and the check of the state under it.
AppLocks ==
  /\ appPc = "idle"
  /\ lock = "none"
  /\ Live
  /\ EarlySends \/ rpc # "register"
  /\ sends < MaxSends
  /\ \E m \in AppMessages : appMsg' = m
  /\ lock' = "app"
  /\ appPc' = "send"
  /\ sends' = sends + 1
  /\ UNCHANGED <<state, socket, rpc>>
  /\ UNCHANGED socketVars

\* send(plugin->socket, ...) succeeds, whatever plugin->socket is by now.
AppSends ==
  /\ appPc = "send"
  /\ socket # 0
  /\ ClientSends(socket, appMsg)
  /\ lock' = "none"
  /\ appPc' = "idle"
  /\ appMsg' = "none"
  /\ UNCHANGED <<state, socket, rpc, sends>>

\* send fails: the descriptor is -1 or closed, or the core has reset the
\* connection.  (A send that raises SIGPIPE instead is PluginRestarts.)
AppSendFails ==
  /\ appPc = "send"
  /\ socket # 0 => ClientSeesEnd(socket)
  /\ appPc' = "failed"
  /\ UNCHANGED <<state, socket, lock, rpc, appMsg, sends>>
  /\ UNCHANGED socketVars

\* ivp_onStateChange(plugin, IvpPluginState_disconnected), unlock
AppDisconnects ==
  /\ appPc = "failed"
  /\ ivp_onStateChange("disconnected")
  /\ lock' = "none"
  /\ appPc' = "idle"
  /\ appMsg' = "none"
  /\ UNCHANGED <<socket, rpc, sends>>
  /\ UNCHANGED socketVars

\* The process ends, in any way, the kernel closes its socket, and a new
\* process is started.
PluginRestarts ==
  /\ rpc # "connect"
  /\ ClientCloses(socket)
  /\ state' = "disconnected"
  /\ socket' = 0
  /\ lock' = "none"
  /\ rpc' = "connect"
  /\ appMsg' = "none"
  /\ appPc' = "idle"
  /\ UNCHANGED sends

ReceiveThread ==
  \/ ConnectToCore \/ SendRegister \/ CheckState \/ ReceiveConfig
  \/ BecomeRegistered \/ Resubscribe \/ ReceiveError \/ ReceiveMessage
  \/ ReceiveEnd \/ CloseSocket

\* The rest of a send that has begun.
AppFinishes == AppSends \/ AppSendFails \/ AppDisconnects

PluginTypeOK ==
  /\ state \in {"disconnected", "connected", "registered", "error"}
  /\ socket \in Conns \cup {0}
  /\ lock \in {"none", "app"}
  /\ rpc \in {"connect", "register", "loop", "recv", "batch", "upgrade",
              "resubscribe", "close"}
  /\ appMsg \in AppMessages \cup {"none"}
  /\ appPc \in {"idle", "send", "failed"}
  /\ sends \in 0..MaxSends
=============================================================================
