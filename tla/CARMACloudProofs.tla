-------------------------- MODULE CARMACloudProofs --------------------------
(***************************************************************************)
(* TLAPS proofs of the safety properties of CARMACloud, for any requests,  *)
(* message numbers, time out and number of broadcasts.                     *)
(***************************************************************************)
EXTENDS CARMACloud, TLAPS

\* The types, and that the two tracking maps are cleaned up together.
CloudInv == CloudTypeOK /\ TrackedTogether

\* Nothing was sent, kept or counted.
LEMMA CloudInitInv == CloudInit => CloudInv
<1> SUFFICES ASSUME CloudInit PROVE CloudInv
  OBVIOUS
<1>1. failed \in BOOLEAN
  BY DEF CloudInit
<1>2. 0 \in Ages /\ 0 \in 0 .. TotalTimes /\ 0 \in 0 .. MaxDeliveries /\ ~(0 > 0)
  BY CloudAssumption DEF Ages
<1>3. CloudTypeOK
  BY <1>1, <1>2 DEF CloudInit, CloudTypeOK
<1>4. TrackedTogether
  BY <1>2 DEF CloudInit, TrackedTogether
<1> QED
  BY <1>3, <1>4 DEF CloudInv

\* Ages stay in their range.
LEMMA OlderInAges ==
  ASSUME NEW n \in Ages \cup {None}
  PROVE  Older(n) \in Ages \cup {None} /\ (n \in Ages => Older(n) \in Ages)
         /\ (n # None => Older(n) # None)
BY CloudAssumption DEF Older, Ages

\* A TCM that left the multimap has been kept for no time.
LEMMA HeldInType ==
  ASSUME CloudTypeOK, NEW q
  PROVE  HeldIn(q) \in [Tcms -> Ages]
BY CloudAssumption DEF HeldIn, CloudTypeOK, Ages

\* Time passes for every request that has a starting time.
LEMMA CloudTickInv ==
  ASSUME CloudInv, Tick
  PROVE  CloudInv'
<1>1. CloudTypeOK'
  <2>1. held' \in [Tcms -> Ages]
    BY OlderInAges, CloudAssumption DEF CloudInv, CloudTypeOK, Tick, Ages
  <2>2. starting_time' \in [Reqs -> Ages \cup {None}]
    BY OlderInAges DEF CloudInv, CloudTypeOK, Tick
  <2> QED
    BY <2>1, <2>2 DEF CloudInv, CloudTypeOK, Tick
<1>2. \A r \in Reqs : starting_time[r] # None => starting_time'[r] # None
  BY OlderInAges DEF CloudInv, CloudTypeOK, Tick
<1>3. TrackedTogether'
  BY <1>2 DEF CloudInv, TrackedTogether, Tick, Tcms
<1> QED
  BY <1>1, <1>3 DEF CloudInv

\* The web service and the vehicles do not touch the tracking.
LEMMA CloudMessageInv ==
  ASSUME CloudInv, NEW t \in Tcms,
         ResponseBroadcast(t) \/ ResponseInsert \/ Acknowledge(t) \/ PluginFails
  PROVE  CloudInv'
<1>1. CloudTypeOK'
  <2>1. CASE ResponseBroadcast(t)
    BY <2>1, CloudAssumption DEF CloudInv, CloudTypeOK, ResponseBroadcast, kept
  <2>2. CASE ResponseInsert
    BY <2>2, CloudAssumption DEF CloudInv, CloudTypeOK, ResponseInsert, Ages
  <2>3. CASE Acknowledge(t)
    <3>1. WithoutAcked(t) \in [Tcms -> Nat]
      BY DEF WithoutAcked, CloudInv, CloudTypeOK
    <3>2. held' \in [Tcms -> Ages]
      BY <2>3, HeldInType DEF Acknowledge, CloudInv
    <3> QED
      BY <2>3, <3>1, <3>2 DEF CloudInv, CloudTypeOK, Acknowledge
  <2>4. CASE PluginFails
    BY <2>4 DEF CloudInv, CloudTypeOK, PluginFails, kept, history
  <2> QED
    BY <2>1, <2>2, <2>3, <2>4
<1>2. UNCHANGED <<starting_time, broadcast_times>>
  BY DEF ResponseBroadcast, ResponseInsert, Acknowledge, PluginFails, kept
<1>3. TrackedTogether'
  BY <1>2 DEF CloudInv, TrackedTogether
<1> QED
  BY <1>1, <1>3 DEF CloudInv

\* A request that expires loses its times with its starting time, and one
\* without a starting time gets it before anything of it is counted.
LEMMA CloudPassInv ==
  ASSUME CloudInv, Pass
  PROVE  CloudInv'
<1> USE DEF CloudInv, CloudTypeOK
<1>1. \A t \in Tcms : t[1] \in Reqs /\ t[2] \in Nums /\ t = <<t[1], t[2]>>
  BY DEF Tcms
<1>2. \A t \in Tcms : Again(t) \in 0 .. TotalTimes
  BY CloudAssumption DEF Again
<1>3. CloudTypeOK'
  <2>1. broadcast_times' \in [Tcms -> 0 .. TotalTimes]
    BY <1>2, CloudAssumption DEF Pass, TimesAfter
  <2>2. starting_time' \in [Reqs -> Ages \cup {None}]
    BY CloudAssumption DEF Pass, Ages
  <2>3. not_ACK_TCMs' \in [Tcms -> Nat]
    BY DEF Pass
  <2>4. held' \in [Tcms -> Ages]
    BY HeldInType DEF Pass
  <2> QED
    BY <2>1, <2>2, <2>3, <2>4 DEF Pass
<1>4. TrackedTogether'
  <2> SUFFICES ASSUME NEW t \in Tcms, broadcast_times'[t] > 0
               PROVE  starting_time'[t[1]] # None
    BY DEF TrackedTogether
  <2>1. ~Expired(t[1]) /\ Again(t) > 0
    BY DEF Pass, TimesAfter
  <2>2. broadcast_times[t] > 0 \/ not_ACK_TCMs[t] > 0
    BY <2>1, CloudAssumption DEF Again
  <2>3. starting_time[t[1]] # None \/ HasTcms(t[1])
    BY <1>1, <2>2 DEF TrackedTogether, HasTcms
  <2>4. starting_time'[t[1]] =
          IF HasTcms(t[1]) /\ starting_time[t[1]] = None THEN 0 ELSE starting_time[t[1]]
    BY <1>1, <2>1 DEF Pass
  <2> QED
    BY <2>3, <2>4, CloudAssumption
<1> QED
  BY <1>3, <1>4

\* Every step keeps the invariant.
LEMMA CloudNextInv ==
  ASSUME CloudInv, [CloudNext]_cloudVars
  PROVE  CloudInv'
<1>1. CASE Look
  BY <1>1 DEF CloudInv, CloudTypeOK, TrackedTogether, Look, kept, history
<1>2. CASE Clear
  BY <1>2, CloudAssumption DEF CloudInv, CloudTypeOK, TrackedTogether, Clear, history, Tcms
<1>3. ASSUME ResponseInsert \/ PluginFails
      PROVE  CloudInv'
  <2>1. CASE ResponseInsert
    BY <2>1, CloudMessageInv DEF ResponseInsert, CloudInv, CloudTypeOK
  <2>2. CASE PluginFails
    BY <2>2 DEF CloudInv, CloudTypeOK, TrackedTogether, PluginFails, kept, history
  <2> QED
    BY <1>3, <2>1, <2>2
<1>4. ASSUME NEW t \in Tcms, ResponseBroadcast(t) \/ Acknowledge(t)
      PROVE  CloudInv'
  BY <1>4, CloudMessageInv
<1>5. CASE UNCHANGED cloudVars
  BY <1>5 DEF cloudVars, kept, history, CloudInv, CloudTypeOK, TrackedTogether
<1> QED
  BY <1>1, <1>2, <1>3, <1>4, <1>5, CloudTickInv, CloudPassInv DEF CloudNext, Rebroadcast

\* The invariant holds in every state the plugin can reach.
LEMMA CloudInvAlways == CloudSpec => []CloudInv
<1>1. CloudInv /\ [CloudNext]_cloudVars => CloudInv'
  BY CloudNextInv
<1> QED
  BY <1>1, CloudInitInv, PTL DEF CloudSpec

\* For any requests and messages, no TCM is counted as broadcast for a request
\* whose time does not run.
THEOREM Tracked == CloudSpec => []TrackedTogether
<1>1. CloudInv => TrackedTogether
  BY DEF CloudInv
<1> QED
  BY <1>1, CloudInvAlways, PTL

\* A step that takes a TCM away is the pass that finds its request expired, or
\* the acknowledgement of that TCM, which takes one.
LEMMA StepGoesForAReason ==
  ASSUME CloudInv, CloudNext
  PROVE  GoesForAReason
<1> SUFFICES ASSUME NEW t \in Tcms, not_ACK_TCMs'[t] < not_ACK_TCMs[t]
             PROVE  \/ Expired(t[1]) /\ thread = "pass" /\ thread' = "look"
                    \/ t \in answered' /\ not_ACK_TCMs'[t] = not_ACK_TCMs[t] - 1
  BY DEF GoesForAReason
<1> USE DEF CloudInv, CloudTypeOK
<1>1. CASE Pass
  <2>1. Expired(t[1])
    BY <1>1 DEF Pass
  <2> QED
    BY <1>1, <2>1 DEF Pass
<1>2. ASSUME NEW u \in Tcms, Acknowledge(u)
      PROVE  t \in answered' /\ not_ACK_TCMs'[t] = not_ACK_TCMs[t] - 1
  <2>1. not_ACK_TCMs' = WithoutAcked(u) /\ u \in answered'
    BY <1>2 DEF Acknowledge
  <2>2. t = u
    BY <2>1 DEF WithoutAcked
  <2> QED
    BY <2>1, <2>2 DEF WithoutAcked
<1>3. CASE ResponseInsert
  BY <1>3 DEF ResponseInsert
<1>4. ASSUME UNCHANGED not_ACK_TCMs
      PROVE  FALSE
  BY <1>4
<1>5. Tick \/ Look \/ Clear \/ PluginFails \/ (\E u \in Tcms : ResponseBroadcast(u))
        => UNCHANGED not_ACK_TCMs
  BY DEF Tick, Look, Clear, PluginFails, ResponseBroadcast, kept
<1> QED
  BY <1>1, <1>2, <1>3, <1>4, <1>5 DEF CloudNext, Rebroadcast

\* No TCM is lost: whatever the vehicles answer and whatever arrives.
THEOREM NoTcmLost == CloudSpec => TcmsGoForAReason
<1>1. CloudInv /\ [CloudNext]_cloudVars => [GoesForAReason]_cloudVars
  BY StepGoesForAReason
<1> QED
  BY <1>1, CloudInvAlways, PTL DEF CloudSpec, TcmsGoForAReason
=============================================================================
