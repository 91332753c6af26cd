--------------------------- MODULE MessageFilters ---------------------------
(***************************************************************************)
(* The filter test of the message router: MessageFilterEntry of            *)
(* MessageRouter.h and the conditions inside the two loops of              *)
(* MessageRouterBasic::broadcastMessage.  A message is a record            *)
(* [type, subtype, flags]; type and subtype are NULL when the C pointer is *)
(* (a heartbeat has both NULL), flags is the set of bits that are set.     *)
(* A filter entry is a record [type, subtype, flagmask].  The filters of a *)
(* client are a set: the inner loop stops at the first entry that matches, *)
(* so neither their order nor duplicates can be told apart.                *)
(***************************************************************************)

Star == "*"
NULL == "NULL"

\* if (!flagmask || (flagmask & flags) > 0)
FlagsPass(f, m) == f.flagmask = {} \/ f.flagmask \cap m.flags # {}

TypePass(f, m) ==
  \/ f.type = Star
  \/ /\ m.type # NULL
     /\ f.type = m.type
     /\ \/ f.subtype = Star
        \/ m.subtype # NULL /\ f.subtype = m.subtype

Matches(f, m) == TypePass(f, m) /\ FlagsPass(f, m)

\* Some entry of a client's filter list lets the message through.
Accepts(fs, m) == \E f \in fs : Matches(f, m)
=============================================================================
