----------------------------- MODULE MCPlugins ------------------------------
(***************************************************************************)
(* Three parts that run in plugins' processes and share nothing with each  *)
(* other: the message manager, the CARMA cloud plugin and the keep-alive   *)
(* thread.  A behaviour runs the one chosen at the start: as no step of    *)
(* one can depend on another, the runs of each alone are all there are.    *)
(* The other two stay in one initial state.                                *)
(***************************************************************************)
EXTENDS MessageManager, CARMACloud, PluginKeepAlive

VARIABLE part   \* the part that runs

TwoWorkers == <<2>>
pluginVars == <<managerVars, cloudVars, aliveVars, part>>

Init ==
    /\ part \in {"manager", "cloud", "alive"}
    /\ ManagerInit /\ CloudInit /\ AliveInit
    /\ part # "manager" => strategy = "Any"
    /\ part # "alive" => frequency = 3

\* A bound: a manager that is stopped was handed one message at most.
StopsEarly == stop' # "no" => sent' <= 1

Manager ==
    /\ part = "manager" /\ ManagerNext /\ StopsEarly
    /\ UNCHANGED <<cloudVars, aliveVars, part>>
Cloud   == part = "cloud" /\ CloudNext /\ UNCHANGED <<managerVars, aliveVars, part>>
Alive   == part = "alive" /\ AliveNext /\ UNCHANGED <<managerVars, cloudVars, part>>

Next == Manager \/ Cloud \/ Alive

\* Each part's own fairness, as long as it is the part that runs; at the
\* start no action of ManagerFairness is enabled.
FairSpec ==
    /\ Init /\ [][Next]_pluginVars
    /\ ManagerFairness
    /\ WF_cloudVars(part = "cloud" /\ Tick)
    /\ WF_cloudVars(part = "cloud" /\ Rebroadcast)
    /\ WF_cloudVars(part = "cloud" /\ ResponseInsert)

\* The state of each part has the values its code gives it.
TypeOK == ManagerTypeOK /\ CloudTypeOK /\ AliveTypeOK
=============================================================================
