----------------------------- MODULE MCManager -----------------------------
(* Small instances of MessageManager alone, each for one counterexample.     *)
EXTENDS MessageManager

One == <<1>>        \* one worker
Two == <<2>>        \* two workers from the start
Growing == <<1, 2>> \* one worker, then two
=============================================================================
