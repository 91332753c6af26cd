------------------------------ MODULE MCRouter ------------------------------
(***************************************************************************)
(* Small instances of MessageRouterBasic: an internal plugin and two       *)
(* connections; a routed message and a heartbeat; filters that tell them   *)
(* apart by type, subtype and flag.                                        *)
(***************************************************************************)
EXTENDS MessageRouterBasic, TLC

CONSTANTS Monitor, PluginA, PluginB

MCClients == {Monitor, PluginA, PluginB}
MCInternal == {Monitor}
MCStalled == {PluginB}
MCNobody == {}

Bsm == [type |-> "J2735", subtype |-> "BSM", flags |-> {"RouteDSRC"}]
Heartbeat == [type |-> NULL, subtype |-> NULL, flags |-> {}]
MCMessages == {Bsm, Heartbeat}
MCOneMessage == {Bsm}

All == [type |-> Star, subtype |-> Star, flagmask |-> {}]
Routed == [type |-> Star, subtype |-> Star, flagmask |-> {"RouteDSRC"}]
Tim == [type |-> "J2735", subtype |-> "TIM", flagmask |-> {}]
BsmRouted == [type |-> "J2735", subtype |-> "BSM", flagmask |-> {"RouteDSRC"}]

MCFilterLists == {{}, {Tim, Routed}}
MCOneFilterList == {{Tim, BsmRouted}}
MCAllFilterLists == {{All}, {Routed}}

\* Two connections with no plugin stalled are interchangeable.
MCSymmetry == Permutations({PluginA, PluginB})
=============================================================================
