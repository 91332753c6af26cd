---------------------------- MODULE MCLifecycle -----------------------------
(***************************************************************************)
(* A plugin that connects twice, a second plugin, and two descriptors.     *)
(***************************************************************************)
EXTENDS PluginLifecycle, TLC

CONSTANTS k1, k2, k3, PluginA, PluginB, fd1, fd2

MCConns == {k1, k2, k3}
MCNames == {PluginA, PluginB}
MCPluginName == k1 :> PluginA @@ k2 :> PluginA @@ k3 :> PluginB
MCFds == {fd1, fd2}

\* k1 and k2 are the same plugin's; the descriptors are alike.
MCSymmetry == Permutations({k1, k2}) \cup Permutations(MCFds)
=============================================================================
