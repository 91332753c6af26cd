-------------------------- MODULE PluginLifecycle ---------------------------
(***************************************************************************)
(* The life of the core's plugin objects and what they share: the names in *)
(* Plugin::clientNames, the rows of the database, the descriptors of the   *)
(* process and the router's map (TmxCore/src/Plugin.cpp, PluginServer.cpp, *)
(* and the receiver and fast processor threads of PluginConnection.cpp).   *)
(* Several objects live, register and are destroyed at the same time; one  *)
(* plugin that loses its connection comes back as a new object while the   *)
(* old one may still be on its way out.                                    *)
(***************************************************************************)
EXTENDS FiniteSets

CONSTANTS
  Conns,       \* the connections plugins ever make, one object each
  Names,       \* the plugins' names
  PluginName,  \* PluginName[k]: the name in the manifest sent over k, None
               \* when it is empty
  Fds,         \* file descriptors of the core
  DbFails,     \* TRUE when calls of the database may throw DbException
  None         \* no name, no descriptor, no connection

ASSUME LifecycleAssumption ==
  /\ PluginName \in [Conns -> Names \cup {None}]
  /\ None \notin Conns \cup Names \cup Fds

VARIABLES
  peer,         \* peer[k]: the plugin's end: "unused", "connected", "gone"
  phase,        \* phase[k]: how far the object is in its life
  reg,          \* reg[k]: how far its fast thread is with registerPlugin
  mSocket,      \* mSocket[k]: a descriptor; it keeps its value after close
  mInfo,        \* mInfo[k]: the name in mInfo.pluginInfo, None when empty
  mRegistered,
  subscribed,   \* the objects the router has filters for
  clientNames,  \* Plugin::clientNames
  fdPeer,       \* fdPeer[d]: whose plugin an open descriptor leads to
  dbStatus,     \* dbStatus[n]: the pluginStatus row with the empty key;
                \* "running" stands for every status but stopped
  dbItems,      \* the plugins that have custom status items in the database
  dbMissed,     \* the plugins a destructor could not write the end of
  strays        \* the plugins that another plugin's object wrote to

vars == <<peer, phase, reg, mSocket, mInfo, mRegistered, subscribed,
          clientNames, fdPeer, dbStatus, dbItems, dbMissed, strays>>

Phases == {"unused", "open", "closed", "joined", "erased", "unsubscribed",
           "stopped", "gone"}

RegSteps == {"new", "reserved", "written", "committed", "registered",
             "rejected", "failed"}

Init ==
  /\ peer = [k \in Conns |-> "unused"]
  /\ phase = [k \in Conns |-> "unused"]
  /\ reg = [k \in Conns |-> "new"]
  /\ mSocket = [k \in Conns |-> None]
  /\ mInfo = [k \in Conns |-> None]
  /\ mRegistered = [k \in Conns |-> FALSE]
  /\ subscribed = {}
  /\ clientNames = {}
  /\ fdPeer = [d \in Fds |-> None]
  /\ dbStatus = [n \in Names |-> "stopped"]
  /\ dbItems = {}
  /\ dbMissed = {}
  /\ strays = {}

\* The receiver thread has not been through both joins.
Processing(k) == phase[k] \in {"open", "closed"}

-----------------------------------------------------------------------------
(* The plugin's end and PluginServer::startServer *)

PluginConnects(k) ==
  /\ peer[k] = "unused"
  /\ peer' = [peer EXCEPT ![k] = "connected"]
  /\ UNCHANGED <<phase, reg, mSocket, mInfo, mRegistered, subscribed,
                 clientNames, fdPeer, dbStatus, dbItems, dbMissed, strays>>

PluginLeaves(k) ==
  /\ peer[k] = "connected"
  /\ peer' = [peer EXCEPT ![k] = "gone"]
  /\ UNCHANGED <<phase, reg, mSocket, mInfo, mRegistered, subscribed,
                 clientNames, fdPeer, dbStatus, dbItems, dbMissed, strays>>

\* accept() returns a descriptor that is free; new PluginConnection.
Accept(k, d) ==
  /\ peer[k] # "unused"
  /\ phase[k] = "unused"
  /\ fdPeer[d] = None
  /\ phase' = [phase EXCEPT ![k] = "open"]
  /\ mSocket' = [mSocket EXCEPT ![k] = d]
  /\ fdPeer' = [fdPeer EXCEPT ![d] = k]
  /\ UNCHANGED <<peer, reg, mInfo, mRegistered, subscribed,
                 clientNames, dbStatus, dbItems, dbMissed, strays>>

-----------------------------------------------------------------------------
(* registerPlugin, on the fast processor thread *)

RegGoto(k, from, to) ==
  /\ Processing(k)
  /\ reg[k] = from
  /\ reg' = [reg EXCEPT ![k] = to]

\* Mutant: a name that is taken is reserved again.
ReserveName_Taken(k) ==
  /\ RegGoto(k, "new", "reserved")
  /\ clientNames' = clientNames \cup {PluginName[k]}
  /\ UNCHANGED <<peer, phase, mSocket, mInfo, mRegistered, subscribed,
                 fdPeer, dbStatus, dbItems, dbMissed, strays>>

\* The name is looked up and reserved under clientLock.
ReserveName(k) ==
  /\ PluginName[k] \notin clientNames \cup {None}
  /\ RegGoto(k, "new", "reserved")
  /\ clientNames' = clientNames \cup {PluginName[k]}
  /\ UNCHANGED <<peer, phase, mSocket, mInfo, mRegistered, subscribed,
                 fdPeer, dbStatus, dbItems, dbMissed, strays>>

\* "Plugin's name field is empty", or "Another plugin is registered with the
\* same name."
RejectName(k) ==
  /\ PluginName[k] \in clientNames \cup {None}
  /\ RegGoto(k, "new", "rejected")
  /\ UNCHANGED <<peer, phase, mSocket, mInfo, mRegistered, subscribed,
                 clientNames, fdPeer, dbStatus, dbItems, dbMissed, strays>>

\* The plugin, its parameters and message types go into the database.  When
\* that fails registerPlugin throws and leaves the reserved name behind.
WriteRegistration(k) ==
  /\ \/ RegGoto(k, "reserved", "written")
     \/ DbFails /\ RegGoto(k, "reserved", "failed")
  /\ UNCHANGED <<peer, phase, mSocket, mInfo, mRegistered, subscribed,
                 clientNames, fdPeer, dbStatus, dbItems, dbMissed, strays>>

\* mInfo = info, mRegistered = true
CommitRegistration(k) ==
  /\ RegGoto(k, "written", "committed")
  /\ mInfo' = [mInfo EXCEPT ![k] = PluginName[k]]
  /\ mRegistered' = [mRegistered EXCEPT ![k] = TRUE]
  /\ UNCHANGED <<peer, phase, mSocket, subscribed, clientNames, fdPeer,
                 dbStatus, dbItems, dbMissed, strays>>

\* setPluginStatus(IVP_STATUS_RUNNING); a failure is answered with an error,
\* and the plugin stays registered.
SetRunning(k) ==
  /\ RegGoto(k, "committed", "registered")
  /\ \/ dbStatus' = [dbStatus EXCEPT ![mInfo[k]] = "running"]
     \/ DbFails /\ UNCHANGED dbStatus
  /\ UNCHANGED <<peer, phase, mSocket, mInfo, mRegistered, subscribed,
                 clientNames, fdPeer, dbItems, dbMissed, strays>>

\* processSubscribeMessage, after the registration on the same thread.
Subscribe(k) ==
  /\ Processing(k)
  /\ reg[k] = "registered"
  /\ subscribed' = subscribed \cup {k}
  /\ UNCHANGED <<peer, phase, reg, mSocket, mInfo, mRegistered,
                 clientNames, fdPeer, dbStatus, dbItems, dbMissed, strays>>

\* Mutant: mRegistered is not looked at.
SetStatusItems_Unregistered(k) ==
  /\ Processing(k)
  /\ dbItems' = dbItems \cup {mInfo[k]}
  /\ UNCHANGED <<peer, phase, reg, mSocket, mInfo, mRegistered, subscribed,
                 clientNames, fdPeer, dbStatus, dbMissed, strays>>

\* processStatusMessage, on the slow processor thread: items are stored or
\* removed; one with an empty key goes into the row of the plugin's status.  A
\* call that fails, in the database or for want of registration, changes
\* nothing.
SetStatusItems(k) ==
  /\ Processing(k)
  /\ mRegistered[k]
  /\ dbItems' \in {dbItems, dbItems \cup {mInfo[k]}, dbItems \ {mInfo[k]}}
  /\ dbStatus' \in {dbStatus, [dbStatus EXCEPT ![mInfo[k]] = "running"]}
  /\ UNCHANGED <<peer, phase, reg, mSocket, mInfo, mRegistered, subscribed,
                 clientNames, fdPeer, dbMissed, strays>>

-----------------------------------------------------------------------------
(* onMessageReceived: the router's broadcasts and the configuration        *)
(* monitor reach the object, and it writes to its descriptor.  Once        *)
(* ~PluginConnection is over, Plugin's empty onMessageReceived is called   *)
(* instead; a call that began before may still be in the write until       *)
(* ~Plugin has joined the monitor and waited for the broadcasts.           *)

onMessageReceived(k) ==
  /\ phase[k] \in {"open", "closed", "joined", "erased"}
  /\ LET j == fdPeer[mSocket[k]] IN
       /\ j # None
       /\ strays' = IF j = k THEN strays ELSE strays \cup {j}
  /\ UNCHANGED <<peer, phase, reg, mSocket, mInfo, mRegistered, subscribed,
                 clientNames, fdPeer, dbStatus, dbItems, dbMissed>>

Deliver(k) == k \in subscribed /\ onMessageReceived(k)

\* configMonitorThreadEntry has found a value that changed in the database.
PushConfig(k) == mRegistered[k] /\ onMessageReceived(k)

-----------------------------------------------------------------------------
(* The end of receiverThread and the destructors *)

\* recv returns 0: close(mSocket), and the processor threads are interrupted.
CloseSocket(k) ==
  /\ phase[k] = "open"
  /\ peer[k] = "gone"
  /\ phase' = [phase EXCEPT ![k] = "closed"]
  /\ fdPeer' = [fdPeer EXCEPT ![mSocket[k]] = None]
  /\ UNCHANGED <<peer, reg, mSocket, mInfo, mRegistered, subscribed,
                 clientNames, dbStatus, dbItems, dbMissed, strays>>

\* Mutant: the descriptor is closed a second time.
JoinProcessors_ClosesAgain(k) ==
  /\ phase[k] = "closed"
  /\ reg[k] \in {"new", "rejected", "failed", "registered"}
  /\ phase' = [phase EXCEPT ![k] = "joined"]
  /\ fdPeer' = [fdPeer EXCEPT ![mSocket[k]] = None]
  /\ UNCHANGED <<peer, reg, mSocket, mInfo, mRegistered, subscribed,
                 clientNames, dbStatus, dbItems, dbMissed, strays>>

\* Both joins: a registration that has begun is gone through first.
JoinProcessors(k) ==
  /\ phase[k] = "closed"
  /\ reg[k] \in {"new", "rejected", "failed", "registered"}
  /\ phase' = [phase EXCEPT ![k] = "joined"]
  /\ UNCHANGED <<peer, reg, mSocket, mInfo, mRegistered, subscribed,
                 clientNames, fdPeer, dbStatus, dbItems, dbMissed, strays>>

\* Mutant: the name is not given back.
EraseName_Kept(k) ==
  /\ phase[k] = "joined"
  /\ phase' = [phase EXCEPT ![k] = "erased"]
  /\ UNCHANGED <<peer, reg, mSocket, mInfo, mRegistered, subscribed,
                 clientNames, fdPeer, dbStatus, dbItems, dbMissed, strays>>

\* ~Plugin: clientNames.erase(mInfo.pluginInfo.name)
EraseName(k) ==
  /\ phase[k] = "joined"
  /\ phase' = [phase EXCEPT ![k] = "erased"]
  /\ clientNames' = clientNames \ {mInfo[k]}
  /\ UNCHANGED <<peer, reg, mSocket, mInfo, mRegistered, subscribed,
                 fdPeer, dbStatus, dbItems, dbMissed, strays>>

\* The configuration monitor is joined; subscribeForMessages with an empty
\* list, which throws for an object that is not registered.
Unsubscribe(k) ==
  /\ phase[k] = "erased"
  /\ phase' = [phase EXCEPT ![k] = "unsubscribed"]
  /\ subscribed' = subscribed \ {k}
  /\ UNCHANGED <<peer, reg, mSocket, mInfo, mRegistered,
                 clientNames, fdPeer, dbStatus, dbItems, dbMissed, strays>>

\* Mutant: the status is not written.
SetStopped_Skipped(k) ==
  /\ phase[k] = "unsubscribed"
  /\ phase' = [phase EXCEPT ![k] = "stopped"]
  /\ UNCHANGED <<peer, reg, mSocket, mInfo, mRegistered, subscribed,
                 clientNames, fdPeer, dbStatus, dbItems, dbMissed, strays>>

\* setPluginStatus(IVP_STATUS_STOPPED_DISCONENCTED), in the same try block.
SetStopped(k) ==
  /\ phase[k] = "unsubscribed"
  /\ phase' = [phase EXCEPT ![k] = "stopped"]
  /\ \/ /\ mRegistered[k]
        /\ dbStatus' = [dbStatus EXCEPT ![mInfo[k]] = "stopped"]
        /\ UNCHANGED dbMissed
     \/ /\ mRegistered[k]
        /\ DbFails
        /\ dbMissed' = dbMissed \cup {mInfo[k]}
        /\ UNCHANGED dbStatus
     \/ /\ ~mRegistered[k]
        /\ UNCHANGED <<dbStatus, dbMissed>>
  /\ UNCHANGED <<peer, reg, mSocket, mInfo, mRegistered, subscribed,
                 clientNames, fdPeer, dbItems, strays>>

\* removeAllPluginStatusItems(mInfo.pluginInfo.id), then ~MessageRouterClient.
\* The id of an object that never registered is not initialized: it may be
\* that of any plugin, or of none.
RemoveItems(k) ==
  /\ phase[k] = "stopped"
  /\ phase' = [phase EXCEPT ![k] = "gone"]
  /\ \/ /\ \E n \in Names \cup {None} :
             /\ mRegistered[k] => n = mInfo[k]
             /\ dbItems' = dbItems \ {n}
        /\ UNCHANGED dbMissed
     \/ /\ DbFails
        /\ dbMissed' = dbMissed \cup {mInfo[k]}
        /\ UNCHANGED dbItems
  /\ UNCHANGED <<peer, reg, mSocket, mInfo, mRegistered, subscribed,
                 clientNames, fdPeer, dbStatus, strays>>

-----------------------------------------------------------------------------
Next ==
  \E k \in Conns :
    \/ PluginConnects(k)
    \/ PluginLeaves(k)
    \/ \E d \in Fds : Accept(k, d)
    \/ ReserveName(k)
    \/ RejectName(k)
    \/ WriteRegistration(k)
    \/ CommitRegistration(k)
    \/ SetRunning(k)
    \/ Subscribe(k)
    \/ SetStatusItems(k)
    \/ Deliver(k)
    \/ PushConfig(k)
    \/ CloseSocket(k)
    \/ JoinProcessors(k)
    \/ EraseName(k)
    \/ Unsubscribe(k)
    \/ SetStopped(k)
    \/ RemoveItems(k)

Spec == Init /\ [][Next]_vars

-----------------------------------------------------------------------------
(* Properties *)

\* Every variable stays within the values the code gives it.
TypeOK ==
  /\ peer \in [Conns -> {"unused", "connected", "gone"}]
  /\ phase \in [Conns -> Phases]
  /\ reg \in [Conns -> RegSteps]
  /\ mSocket \in [Conns -> Fds \cup {None}]
  /\ mInfo \in [Conns -> Names \cup {None}]
  /\ mRegistered \in [Conns -> BOOLEAN]
  /\ subscribed \subseteq Conns
  /\ clientNames \subseteq Names
  /\ fdPeer \in [Fds -> Conns \cup {None}]
  /\ dbStatus \in [Names -> {"running", "stopped"}]
  /\ dbItems \subseteq Names
  /\ dbMissed \subseteq Names \cup {None}
  /\ strays \subseteq Conns

\* The object has reserved its name and not yet given it back.
Holds(k) ==
  /\ reg[k] \in {"reserved", "written", "committed", "registered"}
  /\ phase[k] \in {"open", "closed", "joined"}

\* No name is reserved twice: whatever overlaps, two objects that are on
\* their way through registerPlugin, or through it, have different names.
NameHeldOnce ==
  \A j, k \in Conns :
    Holds(j) /\ Holds(k) /\ PluginName[j] = PluginName[k] => j = k

\* A name that nobody holds can be used again, unless the database failed in
\* the middle of a registration: then it stays in clientNames for good.
NamesGivenBack ==
  \A n \in clientNames :
    \E k \in Conns : PluginName[k] = n /\ (Holds(k) \/ reg[k] = "failed")

\* When every object of a plugin is gone the database neither calls it
\* running nor keeps its status items, unless the last writes failed.
NothingLeftBehind ==
  \A n \in Names \ dbMissed :
    (\A k \in Conns : PluginName[k] = n => phase[k] \in {"unused", "gone"})
      => dbStatus[n] = "stopped" /\ n \notin dbItems

\* A live connection's descriptor leads to its own plugin, whatever closed
\* descriptors other objects still remember.
SocketStaysOwn ==
  \A k \in Conns : phase[k] = "open" => fdPeer[mSocket[k]] = k

\* "Only one plugin can be registered with the same name at a given time"
\* (Plugin.h).
OneRegisteredPerName ==
  \A j, k \in Conns :
    /\ mRegistered[j] /\ phase[j] # "gone"
    /\ mRegistered[k] /\ phase[k] # "gone"
    /\ mInfo[j] = mInfo[k]
    => j = k

\* "Only message that have been requested (using IvpMsgFilter) are received"
\* (PluginClient.cpp): a plugin is written to by its own object only.
OnlyRequestedReceived == strays = {}
=============================================================================
