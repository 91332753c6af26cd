----------------------------- MODULE MCSession ------------------------------
(***************************************************************************)
(* Small instances of PluginSession.                                       *)
(***************************************************************************)
EXTENDS PluginSession

CONSTANT Overlaps \* bound: whether there may be two objects at a time

\* A bound: two objects are there together only when neither the application
\* has sent nor anybody killed anything, and the plugin stays as long as they
\* are; other threads of the core push only then, or without any overlap.
Overlap == \E j, k \in Conns : j # k /\ Alive(j) /\ Alive(k)

MayAccept(k) ==
  (\E j \in Conns : Alive(j)) =>
    Overlaps /\ sends + kills + pushes = 0 /\ clientEnd[k] = "open"

AcceptsOne == \E k \in Conns : MayAccept(k) /\ AcceptStep(k)

KillStep == CoreKilled /\ UNCHANGED pluginVars

MCNext ==
  \/ ReceiveThreadStep
  \/ ~Overlap /\ (AppCallStep \/ RestartStep \/ KillStep)
  \/ AppFinishStep
  \/ CoreRestarts /\ UNCHANGED pluginVars
  \/ AcceptsOne
  \/ \E k \in Conns : ReceiverStep(k) \/ PushStep(k)
  \/ \E t \in Threads : ProcessorStep(t)

MCSpec == Init /\ [][MCNext]_vars

\* The fairness of PluginSession; that of accept() is that of the bounded
\* step.
MCFairSpec ==
  /\ MCSpec
  /\ WF_vars(ReceiveThreadStep)
  /\ WF_vars(AppFinishStep)
  /\ WF_vars(AcceptsOne)
  /\ \A k \in Conns : WF_vars(ReceiverStep(k))
  /\ \A t \in Threads : WF_vars(ProcessorStep(t))
=============================================================================
