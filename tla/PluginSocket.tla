---------------------------- MODULE PluginSocket ----------------------------
(***************************************************************************)
(* The TCP connections between one plugin process and the core, as         *)
(* IvpPlugin.c and PluginConnection.cpp use them: recv, send or write,     *)
(* close.  Connections are numbered in the order the plugin opens them;    *)
(* which descriptor of the core leads to which is in PluginConnection.     *)
(* The framing of messages (MsgFramer) is abstracted to whole messages.    *)
(***************************************************************************)
EXTENDS Integers, Sequences, FiniteSets

CONSTANT
  MaxConnections  \* bound: how often the plugin connects

ASSUME SocketAssumption == MaxConnections \in Nat

VARIABLES
  toCore,     \* toCore[k]: what the plugin sent and the core has not read
  toPlugin,   \* toPlugin[k]: what the core sent and the plugin has not read
  clientEnd,  \* clientEnd[k]: "unused", "open" or "closed"
  coreEnd     \* coreEnd[k]: the same for the core's descriptor

socketVars == <<toCore, toPlugin, clientEnd, coreEnd>>

Conns == 1..MaxConnections

\* The connection that was opened last.
Opened == Cardinality({k \in Conns : clientEnd[k] # "unused"})

\* What the core sends: a configuration, a message it routes, an error.  Its
\* error replies are made out of IVP_ERROR_INITIALIZER, with IvpError_none,
\* except for the one about a message that does not parse.
Config == [kind |-> "config"]
Routed == [kind |-> "routed"]
Error(number, level) == [kind |-> "error", error |-> number, level |-> level]

SocketInit ==
  /\ toCore = [k \in Conns |-> <<>>]
  /\ toPlugin = [k \in Conns |-> <<>>]
  /\ clientEnd = [k \in Conns |-> "unused"]
  /\ coreEnd = [k \in Conns |-> "unused"]

\* connect() succeeds as soon as the connection is in the listen backlog.
Connect(k) ==
  /\ clientEnd' = [clientEnd EXCEPT ![k] = "open"]
  /\ coreEnd' = [coreEnd EXCEPT ![k] = "open"]
  /\ UNCHANGED <<toCore, toPlugin>>

\* A message to a peer that closed is lost: the first send may still succeed.
ClientSends(k, m) ==
  /\ toCore' = IF coreEnd[k] = "open"
               THEN [toCore EXCEPT ![k] = Append(@, m)] ELSE toCore
  /\ UNCHANGED <<toPlugin, clientEnd, coreEnd>>

\* The core writes m to the connection in K, if there is one.  A peer that
\* closed gets nothing, whether poll reports it or the write fails; the
\* shutdown after that only makes recv return 0, as it does anyway.
CoreSends(K, m) ==
  /\ toPlugin' = [k \in Conns |->
                    IF k \in K /\ clientEnd[k] = "open" /\ coreEnd[k] = "open"
                    THEN Append(toPlugin[k], m) ELSE toPlugin[k]]
  /\ UNCHANGED <<toCore, clientEnd, coreEnd>>

ClientReads(k) ==
  /\ toPlugin[k] # <<>>
  /\ toPlugin' = [toPlugin EXCEPT ![k] = Tail(@)]
  /\ UNCHANGED <<toCore, clientEnd, coreEnd>>

CoreReads(k) ==
  /\ toCore[k] # <<>>
  /\ toCore' = [toCore EXCEPT ![k] = Tail(@)]
  /\ UNCHANGED <<toPlugin, clientEnd, coreEnd>>

\* recv returns 0 after what was sent before the peer's close, or an error
\* that throws the unread data away.
ClientSeesEnd(k) == coreEnd[k] = "closed"
CoreSeesEnd(k) == clientEnd[k] = "closed"

\* What was not read before a close is never read.
ClientCloses(k) ==
  /\ clientEnd' = [clientEnd EXCEPT ![k] = "closed"]
  /\ toPlugin' = [toPlugin EXCEPT ![k] = <<>>]
  /\ UNCHANGED <<toCore, coreEnd>>

CoreCloses(k) ==
  /\ coreEnd' = [coreEnd EXCEPT ![k] = "closed"]
  /\ toCore' = [toCore EXCEPT ![k] = <<>>]
  /\ UNCHANGED <<toPlugin, clientEnd>>

CoreClosesAll ==
  /\ coreEnd' = [k \in Conns |-> IF coreEnd[k] = "open" THEN "closed" ELSE coreEnd[k]]
  /\ toCore' = [k \in Conns |-> <<>>]
  /\ UNCHANGED <<toPlugin, clientEnd>>

SocketTypeOK ==
  /\ DOMAIN toCore = Conns
  /\ DOMAIN toPlugin = Conns
  /\ clientEnd \in [Conns -> {"unused", "open", "closed"}]
  /\ coreEnd \in [Conns -> {"unused", "open", "closed"}]
=============================================================================
