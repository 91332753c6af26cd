------------------------------ MODULE MCFramer ------------------------------
(***************************************************************************)
(* A buffer of a few bytes and messages that are empty, that fit with and  *)
(* without room to spare, and that are one byte and a whole buffer too     *)
(* long.                                                                   *)
(***************************************************************************)
EXTENDS MsgFramer

CONSTANTS b1, b2, b3, b4, b5

MCPayloads ==
  {<<>>, <<b1>>, <<b2, b2, b2>>, <<b3, b3, b3, b3>>, <<b4, b4, b4, b4, b4, b4, b4, b4, b5>>}
=============================================================================
