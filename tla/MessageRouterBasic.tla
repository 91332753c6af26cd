------------------------- MODULE MessageRouterBasic -------------------------
(***************************************************************************)
(* MessageRouterBasic (src/tmx/TmxCore/src/MessageRouterBasic.cpp): the    *)
(* router that every plugin of the core shares.  Broadcasts run            *)
(* concurrently, each on the thread of its sender; registerReceiver and    *)
(* unregisterReceiver hold mMapLock and spin until no broadcast is active. *)
(*                                                                         *)
(* A client makes its router calls one at a time: a PluginConnection calls *)
(* the router from its fast processor thread and, after that thread was    *)
(* joined, from its destructor, so a client is also the thread that acts   *)
(* for it.  The destructor subscribes the client to nothing (~Plugin) and  *)
(* then unregisters it (~MessageRouterClient, when only the pure virtual   *)
(* receiveMessage of MessageReceiver is left).                             *)
(*                                                                         *)
(* Each action is one step between two points where another thread can     *)
(* run; the sections under mActiveBroadcastsLock are single steps.  No     *)
(* receiver of the core calls the router from inside receiveMessage, so a  *)
(* callback only takes time here.                                          *)
(***************************************************************************)
EXTENDS MessageFilters, Integers, FiniteSets

CONSTANTS
  Clients,      \* the MessageReceivers: internal plugins and connections
  Internal,     \* the plugins main() owns, which are never destroyed
  Stalled,      \* connections whose plugin may have stopped reading its socket
  Messages,     \* the messages a client may broadcast
  FilterLists,  \* the filter lists a client may subscribe with
  NoClient      \* no MessageReceiver

ASSUME RouterAssumption ==
  /\ IsFiniteSet(Clients)
  /\ Internal \subseteq Clients
  /\ Stalled \subseteq Clients \ Internal
  /\ NoClient \notin Clients

VARIABLES
  receivers,          \* the keys of mReceiverMessageFilterEntryMap
  filters,            \* its values: filters[r], meaningful for r in receivers
  mMapLock,           \* the owner of mMapLock, or NoClient
  mActiveBroadcasts,  \* how many threads are inside broadcastMessage
  pc,                 \* where each client's thread is
  arg,                \* the argument of its current call
  visited,            \* the map entries its broadcast loop went past
  delivered,          \* the clients its broadcast called receiveMessage on
  target              \* the client whose receiveMessage it is inside of

vars == <<receivers, filters, mMapLock, mActiveBroadcasts,
          pc, arg, visited, delivered, target>>

NoArg == [call |-> "none"]

Calls == [call : {"broadcast"}, msg : Messages]
         \cup [call : {"register"}, filters : FilterLists]
         \cup [call : {"retire"}, filters : {{}}]
         \cup [call : {"unregister"}]

Labels == {"idle", "waitMap", "enter", "loop", "callback",
           "spin", "write", "unlock", "retired", "destroyed"}

Init ==
  /\ receivers = {}
  /\ filters = [c \in Clients |-> {}]
  /\ mMapLock = NoClient
  /\ mActiveBroadcasts = 0
  /\ pc = [c \in Clients |-> "idle"]
  /\ arg = [c \in Clients |-> NoArg]
  /\ visited = [c \in Clients |-> {}]
  /\ delivered = [c \in Clients |-> {}]
  /\ target = [c \in Clients |-> NoClient]

Goto(c, from, to) ==
  /\ pc[c] = from
  /\ pc' = [pc EXCEPT ![c] = to]

-----------------------------------------------------------------------------
(* Every call of the router first takes mMapLock. *)

\* sendMessageToRouter or subscribeForMessages, from a client that lives.
Call(c, a) ==
  /\ a.call \in {"broadcast", "register"}
  /\ Goto(c, "idle", "waitMap")
  /\ arg' = [arg EXCEPT ![c] = a]
  /\ UNCHANGED <<receivers, filters, mMapLock, mActiveBroadcasts,
                 visited, delivered, target>>

\* Mutant: ~Plugin goes straight to ~MessageRouterClient.
Retire_KeepsSubscription(c) ==
  /\ c \notin Internal
  /\ Goto(c, "idle", "retired")
  /\ UNCHANGED <<receivers, filters, mMapLock, mActiveBroadcasts,
                 arg, visited, delivered, target>>

\* ~Plugin: subscribeForMessages with an empty list.  It throws when the
\* plugin never registered, and then the plugin never subscribed either.
Retire(c) ==
  /\ c \notin Internal
  /\ \/ /\ Goto(c, "idle", "waitMap")
        /\ arg' = [arg EXCEPT ![c] = [call |-> "retire", filters |-> {}]]
     \/ /\ c \notin receivers
        /\ Goto(c, "idle", "retired")
        /\ UNCHANGED arg
  /\ UNCHANGED <<receivers, filters, mMapLock, mActiveBroadcasts,
                 visited, delivered, target>>

\* ~MessageRouterClient: mMessageRouter->unregisterReceiver(this)
CallUnregister(c) ==
  /\ Goto(c, "retired", "waitMap")
  /\ arg' = [arg EXCEPT ![c] = [call |-> "unregister"]]
  /\ UNCHANGED <<receivers, filters, mMapLock, mActiveBroadcasts,
                 visited, delivered, target>>

\* pthread_mutex_lock(&mMapLock)
LockMap(c) ==
  /\ mMapLock = NoClient
  /\ mMapLock' = c
  /\ Goto(c, "waitMap", IF arg[c].call = "broadcast" THEN "enter" ELSE "spin")
  /\ UNCHANGED <<receivers, filters, mActiveBroadcasts,
                 arg, visited, delivered, target>>

-----------------------------------------------------------------------------
(* broadcastMessage *)

\* Mutant: mActiveBroadcasts++ is left out.
EnterBroadcast_NotCounted(c) ==
  /\ Goto(c, "enter", "loop")
  /\ mMapLock' = NoClient
  /\ UNCHANGED <<receivers, filters, mActiveBroadcasts,
                 arg, visited, delivered, target>>

\* mActiveBroadcasts++ under both locks, then both are released.
EnterBroadcast(c) ==
  /\ Goto(c, "enter", "loop")
  /\ mActiveBroadcasts' = mActiveBroadcasts + 1
  /\ mMapLock' = NoClient
  /\ UNCHANGED <<receivers, filters, arg, visited, delivered, target>>

\* Mutant: the loop's increment is skipped for an entry that does not match.
SkipReceiver_Stays(c, r) ==
  /\ pc[c] = "loop"
  /\ r \in receivers \ visited[c]
  /\ r = c \/ ~Accepts(filters[r], arg[c].msg)
  /\ UNCHANGED vars

\* The loop skips the sender itself and the clients without a matching filter.
SkipReceiver(c, r) ==
  /\ pc[c] = "loop"
  /\ r \in receivers \ visited[c]
  /\ r = c \/ ~Accepts(filters[r], arg[c].msg)
  /\ visited' = [visited EXCEPT ![c] = @ \cup {r}]
  /\ UNCHANGED <<receivers, filters, mMapLock, mActiveBroadcasts,
                 pc, arg, delivered, target>>

\* Mutant: "Do not send to self" is left out.
CallReceiver_Loopback(c, r) ==
  /\ Goto(c, "loop", "callback")
  /\ r \in receivers \ visited[c]
  /\ Accepts(filters[r], arg[c].msg)
  /\ visited' = [visited EXCEPT ![c] = @ \cup {r}]
  /\ delivered' = [delivered EXCEPT ![c] = @ \cup {r}]
  /\ target' = [target EXCEPT ![c] = r]
  /\ UNCHANGED <<receivers, filters, mMapLock, mActiveBroadcasts, arg>>

\* mapIter->first->receiveMessage(msg) at the first filter that matches.
CallReceiver(c, r) ==
  /\ Goto(c, "loop", "callback")
  /\ r \in receivers \ visited[c]
  /\ r # c
  /\ Accepts(filters[r], arg[c].msg)
  /\ visited' = [visited EXCEPT ![c] = @ \cup {r}]
  /\ delivered' = [delivered EXCEPT ![c] = @ \cup {r}]
  /\ target' = [target EXCEPT ![c] = r]
  /\ UNCHANGED <<receivers, filters, mMapLock, mActiveBroadcasts, arg>>

ReceiverReturns(c) ==
  /\ Goto(c, "callback", "loop")
  /\ target' = [target EXCEPT ![c] = NoClient]
  /\ UNCHANGED <<receivers, filters, mMapLock, mActiveBroadcasts,
                 arg, visited, delivered>>

\* Mutant: mActiveBroadcasts-- is left out.
LeaveBroadcast_StillCounted(c) ==
  /\ receivers \subseteq visited[c]
  /\ Goto(c, "loop", "idle")
  /\ arg' = [arg EXCEPT ![c] = NoArg]
  /\ visited' = [visited EXCEPT ![c] = {}]
  /\ delivered' = [delivered EXCEPT ![c] = {}]
  /\ UNCHANGED <<receivers, filters, mMapLock, mActiveBroadcasts, target>>

\* The loop is at its end; mActiveBroadcasts-- under mActiveBroadcastsLock.
LeaveBroadcast(c) ==
  /\ receivers \subseteq visited[c]
  /\ Goto(c, "loop", "idle")
  /\ mActiveBroadcasts' = mActiveBroadcasts - 1
  /\ arg' = [arg EXCEPT ![c] = NoArg]
  /\ visited' = [visited EXCEPT ![c] = {}]
  /\ delivered' = [delivered EXCEPT ![c] = {}]
  /\ UNCHANGED <<receivers, filters, mMapLock, target>>

-----------------------------------------------------------------------------
(* registerReceiver and unregisterReceiver *)

\* Mutant: registerReceiver trusts mMapLock alone.
SpinEnds_AtOnce(c) ==
  /\ Goto(c, "spin", "write")
  /\ UNCHANGED <<receivers, filters, mMapLock, mActiveBroadcasts,
                 arg, visited, delivered, target>>

\* while (mActiveBroadcasts > 0) sleep(0): the unlocked read finds zero.
SpinEnds(c) ==
  /\ mActiveBroadcasts = 0
  /\ Goto(c, "spin", "write")
  /\ UNCHANGED <<receivers, filters, mMapLock, mActiveBroadcasts,
                 arg, visited, delivered, target>>

\* mReceiverMessageFilterEntryMap[receiver] = filters
RegisterReceiver(c) ==
  /\ arg[c].call \in {"register", "retire"}
  /\ Goto(c, "write", "unlock")
  /\ receivers' = receivers \cup {c}
  /\ filters' = [filters EXCEPT ![c] = arg[c].filters]
  /\ UNCHANGED <<mMapLock, mActiveBroadcasts, arg, visited, delivered, target>>

\* mReceiverMessageFilterEntryMap.erase(receiver)
UnregisterReceiver(c) ==
  /\ arg[c].call = "unregister"
  /\ Goto(c, "write", "unlock")
  /\ receivers' = receivers \ {c}
  /\ filters' = [filters EXCEPT ![c] = {}]
  /\ UNCHANGED <<mMapLock, mActiveBroadcasts, arg, visited, delivered, target>>

\* unregisterReceiver is the last thing ~MessageRouterClient does: when it
\* returns, the object is gone.
UnlockMap(c) ==
  /\ Goto(c, "unlock", CASE arg[c].call = "register" -> "idle"
                         [] arg[c].call = "retire" -> "retired"
                         [] arg[c].call = "unregister" -> "destroyed")
  /\ mMapLock' = NoClient
  /\ arg' = [arg EXCEPT ![c] = NoArg]
  /\ UNCHANGED <<receivers, filters, mActiveBroadcasts, visited, delivered, target>>

-----------------------------------------------------------------------------
\* A step of a thread that nothing outside the core can hold up.
Running(c) ==
  \/ CallUnregister(c)
  \/ LockMap(c)
  \/ EnterBroadcast(c)
  \/ \E r \in Clients : SkipReceiver(c, r) \/ CallReceiver(c, r)
  \/ target[c] \notin Stalled /\ ReceiverReturns(c)
  \/ LeaveBroadcast(c)
  \/ SpinEnds(c)
  \/ RegisterReceiver(c)
  \/ UnregisterReceiver(c)
  \/ UnlockMap(c)

Next ==
  \E c \in Clients :
    \/ \E a \in Calls : Call(c, a)
    \/ Retire(c)
    \/ Running(c)
    \/ target[c] \in Stalled /\ ReceiverReturns(c)

\* A thread that is scheduled takes its next step, and a callback returns
\* unless it writes to the full socket of a stalled plugin.  Nothing makes a
\* client call the router, and nothing is assumed of who gets a contended
\* mutex beyond a waiting thread taking one that stays free.
Fairness == \A c \in Clients : WF_vars(Running(c))

Spec == Init /\ [][Next]_vars

FairSpec == Spec /\ Fairness

-----------------------------------------------------------------------------
(* Properties *)

Inside(c) == pc[c] \in {"loop", "callback"}

\* The variables have the types of the C++ members and locals they stand for.
TypeOK ==
  /\ receivers \subseteq Clients
  /\ filters \in [Clients -> FilterLists \cup {{}}]
  /\ mMapLock \in Clients \cup {NoClient}
  /\ mActiveBroadcasts \in Nat
  /\ pc \in [Clients -> Labels]
  /\ arg \in [Clients -> Calls \cup {NoArg}]
  /\ visited \in [Clients -> SUBSET Clients]
  /\ delivered \in [Clients -> SUBSET Clients]
  /\ target \in [Clients -> Clients \cup {NoClient}]

\* mActiveBroadcasts is the number of threads inside broadcastMessage's loop,
\* whatever the interleaving of the increments and decrements: register and
\* unregister trust it without taking mActiveBroadcastsLock.
ActiveCountExact ==
  mActiveBroadcasts = Cardinality({c \in Clients : Inside(c)})

\* "Map can not have keys (MessageReceivers) added or removed while inside
\* broadcasting" (MessageRouterBasic.h): a step that changes the map is never
\* taken while some thread iterates over it.
MapStableWhileBroadcasting ==
  [][<<receivers, filters>>' # <<receivers, filters>>
       => \A c \in Clients : ~Inside(c)]_vars

\* No broadcast is inside receiveMessage of a client that has reached
\* ~MessageRouterClient, where receiveMessage is pure virtual, or that is
\* freed: ~Plugin's empty subscription is what keeps the router away from it.
NoCallIntoDestroyed ==
  \A c \in Clients :
    pc[c] = "callback" =>
      /\ target[c] \in receivers
      /\ pc[target[c]] \notin {"retired", "destroyed"}
      /\ arg[target[c]].call # "unregister"

\* Some broadcast is inside the blocking write() to a stalled plugin's socket.
Blocked == \E c \in Clients : pc[c] = "callback" /\ target[c] \in Stalled

\* A thread that got mMapLock gives it back: the lock keeps new broadcasts out,
\* so the spin on mActiveBroadcasts ends with the running ones, unless one of
\* them is held up by a plugin that does not read its socket.
MapLockReleased ==
  \A c \in Clients : mMapLock = c ~> mMapLock # c \/ Blocked

\* A broadcast that entered its loop leaves it, whatever the others do, unless
\* it comes to a plugin that does not read its socket.
BroadcastReturns ==
  \A c \in Clients : Inside(c) ~> pc[c] = "idle" \/ target[c] \in Stalled

\* What the broadcast of c still owes: the matching clients it has not called.
Owed(c) ==
  {r \in Clients \ {c} : Accepts(filters[r], arg[c].msg)} \ delivered[c]

BusCast ==
  [c \in Clients |-> IF Inside(c) THEN [active |-> TRUE, to |-> Owed(c)]
                                  ELSE [active |-> FALSE, to |-> {}]]

BusDetached ==
  {c \in Clients : \/ pc[c] = "destroyed"
                   \/ pc[c] = "unlock" /\ arg[c].call = "unregister"}

Bus == INSTANCE MessageBus WITH
  FilterLists <- FilterLists \cup {{}},
  table <- filters,
  cast <- BusCast,
  calling <- target,
  detached <- BusDetached

\* MessageRouterBasic keeps the promises of MessageBus: the mapping reads the
\* table from the map, what a broadcast still owes from its loop, and whom it
\* calls from its callback.
ImplementsBus == Bus!BusSpec

\* MessageRouter.h: with a flagmask "a message is allowed through if the
\* resultant of the flagmask or'ed with the message's flag field is not zero".
\* Taken at its word, every entry whose type matches lets the message through,
\* and the broadcast has reached each such client when its loop ends.
FlagmaskOrsFlags ==
  \A c \in Clients :
    pc[c] = "loop" /\ receivers \subseteq visited[c] =>
      \A r \in receivers \ {c} :
        (\E f \in filters[r] : TypePass(f, arg[c].msg)
                               /\ f.flagmask \cup arg[c].msg.flags # {})
          => r \in delivered[c]
=============================================================================
