----------------------------- MODULE MessageBus -----------------------------
(***************************************************************************)
(* What a message router of the TMX core promises to its clients           *)
(* (MessageRouter.h, MessageRouterClient.h): a table of subscriptions that *)
(* changes only while nothing is being delivered, and broadcasts that each *)
(* reach, once, every other client whose subscription matched the message  *)
(* when the broadcast started.  MessageRouterBasic is shown to implement   *)
(* this specification.                                                     *)
(***************************************************************************)
EXTENDS MessageFilters

CONSTANTS Clients,      \* the plugins, internal ones and connections alike
          Messages,     \* the messages a client may broadcast
          FilterLists,  \* the subscriptions a client may ask for
          NoClient      \* no client

VARIABLES table,        \* table[c]: the filters client c last subscribed with
          cast,         \* cast[c]: NoCast, or what c's broadcast still owes
          calling,      \* calling[c]: the client c's broadcast is in, or NoClient
          detached      \* the clients that left the bus for good

busVars == <<table, cast, calling, detached>>

NoCast == [active |-> FALSE, to |-> {}]

Casting(c) == cast[c].active

\* The clients that a broadcast of m by c has to reach.
Addressees(c, m) == {r \in Clients \ {c} : Accepts(table[r], m)}

BusInit ==
  /\ table = [c \in Clients |-> {}]
  /\ cast = [c \in Clients |-> NoCast]
  /\ calling = [c \in Clients |-> NoClient]
  /\ detached = {}

Begin(c, m) ==
  /\ ~Casting(c)
  /\ c \notin detached
  /\ cast' = [cast EXCEPT ![c] = [active |-> TRUE, to |-> Addressees(c, m)]]
  /\ UNCHANGED <<table, calling, detached>>

\* Every call of a client is one that the broadcast owed.
Deliver(c, r) ==
  /\ calling[c] = NoClient
  /\ r \in cast[c].to
  /\ cast' = [cast EXCEPT ![c].to = @ \ {r}]
  /\ calling' = [calling EXCEPT ![c] = r]
  /\ UNCHANGED <<table, detached>>

Return(c) ==
  /\ calling[c] # NoClient
  /\ calling' = [calling EXCEPT ![c] = NoClient]
  /\ UNCHANGED <<table, cast, detached>>

End(c) ==
  /\ Casting(c)
  /\ calling[c] = NoClient
  /\ cast[c].to = {}
  /\ cast' = [cast EXCEPT ![c] = NoCast]
  /\ UNCHANGED <<table, calling, detached>>

Subscribe(c, fs) ==
  /\ \A d \in Clients : ~Casting(d)
  /\ c \notin detached
  /\ table' = [table EXCEPT ![c] = fs]
  /\ UNCHANGED <<cast, calling, detached>>

Detach(c) ==
  /\ \A d \in Clients : ~Casting(d)
  /\ table' = [table EXCEPT ![c] = {}]
  /\ detached' = detached \cup {c}
  /\ UNCHANGED <<cast, calling>>

BusNext ==
  \E c \in Clients :
    \/ \E m \in Messages : Begin(c, m)
    \/ \E r \in Clients : Deliver(c, r)
    \/ Return(c)
    \/ End(c)
    \/ \E fs \in FilterLists : Subscribe(c, fs)
    \/ Detach(c)

BusSpec == BusInit /\ [][BusNext]_busVars
=============================================================================
