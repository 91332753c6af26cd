---------------------------- MODULE PluginsProofs ----------------------------
(***************************************************************************)
(* TLAPS proofs about the keep-alive thread, for any frequencies and any   *)
(* sleep: a registered plugin is never silent for long.  And about the     *)
(* three parts of MCPlugins together: the types of all of them, which need *)
(* the invariants that MessageManagerProofs and CARMACloudProofs show.     *)
(***************************************************************************)
EXTENDS MCPlugins, MessageManagerProofs, CARMACloudProofs, TLAPS

-----------------------------------------------------------------------------
(* The keep-alive thread.                                                  *)

\* A check that has begun has put the plugin's key into the throttle, and the
\* sleep starts when it is over.
CheckInv == check # "none" => asleep = 0 /\ lastTime # NoKey

\* Between two checks, the throttle's time is never later than the last
\* message the core received.
ThrottleInv == registered /\ check = "none" /\ lastTime # NoKey => silent <= lastTime

\* What is left of the sleep is counted as if it were silent: this does not
\* grow while the thread sleeps, and a check makes room for the next sleep.
SilentInv == registered => silent + asleep < longest + WakeUp

\* The throttle has the frequency the plugin was given.
GivenInv == frequency = given /\ given <= longest

AliveInv == AliveTypeOK /\ CheckInv /\ ThrottleInv /\ SilentInv /\ GivenInv

\* At the start nothing is registered.
LEMMA AliveInitInv == AliveInit => AliveInv
<1> SUFFICES ASSUME AliveInit PROVE AliveInv
  OBVIOUS
<1>1. AliveTypeOK
  <2>1. registered \in BOOLEAN
    BY DEF AliveInit
  <2> QED
    BY <2>1, AliveAssumption DEF AliveInit, AliveTypeOK
<1>2. ~registered
  BY DEF AliveInit
<1>3. CheckInv
  BY DEF AliveInit, CheckInv
<1> QED
  BY <1>1, <1>2, <1>3, AliveAssumption
  DEF AliveInit, AliveInv, ThrottleInv, SilentInv, GivenInv

\* A frequency is a positive number of units.
LEMMA Positive ==
  ASSUME NEW f \in Frequencies
  PROVE  f \in Nat /\ f > 0
BY AliveAssumption

\* Just after a message, all of the sleep may still be to come.
LEMMA Spoke ==
  ASSUME NEW f \in Frequencies, NEW a \in 0 .. WakeUp
  PROVE  0 + a < f + WakeUp
BY AliveAssumption

\* The sleep gets shorter by what the silence gets longer.
LEMMA AliveTimeInv ==
  ASSUME AliveInv, TimePasses
  PROVE  AliveInv'
<1> USE AliveAssumption DEF AliveInv, AliveTypeOK, TimePasses, Aged, aliveHistory
<1>1. AliveTypeOK' /\ CheckInv' /\ GivenInv'
  BY DEF CheckInv, GivenInv
<1>2. ThrottleInv'
  BY DEF ThrottleInv
<1>3. SilentInv'
  <2>1. silent \in Nat /\ silent' \in Nat /\ silent' <= silent + 1
    <3>1. silent # NoKey /\ silent \in Nat
      OBVIOUS
    <3> QED
      BY <3>1
  <2>2. asleep \in Nat /\ asleep' = asleep - 1
    OBVIOUS
  <2>3. longest \in Nat
    OBVIOUS
  <2>4. longest' = longest /\ registered' = registered
    OBVIOUS
  <2>5. silent' + asleep' <= silent + asleep
    BY <2>1, <2>2
  <2> QED
    BY <2>1, <2>2, <2>3, <2>4, <2>5 DEF SilentInv
<1> QED
  BY <1>1, <1>2, <1>3

\* A new frequency is the throttle's at once, and nothing is due later than
\* it was.
LEMMA AliveFrequencyInv ==
  ASSUME AliveInv, set_Frequency
  PROVE  AliveInv'
<1> USE AliveAssumption DEF AliveInv, AliveTypeOK
<1>1. PICK f \in Frequencies \cup {0} :
        /\ frequency' = NewFrequency(f)
        /\ given' = IF f > 0 THEN f ELSE given
        /\ longest' = IF f > longest THEN f ELSE longest
  BY DEF set_Frequency
<1>2. UNCHANGED <<lastTime, asleep, check, registered, silent>>
  BY DEF set_Frequency
<1>3. f = 0 \/ (f \in Frequencies /\ f > 0)
  BY <1>1, Positive
<1>4. AliveTypeOK' /\ CheckInv' /\ ThrottleInv'
  BY <1>1, <1>2, <1>3 DEF CheckInv, ThrottleInv, NewFrequency
<1>5. longest <= longest'
  BY <1>1, <1>3
<1>6. SilentInv' /\ GivenInv'
  BY <1>1, <1>2, <1>3, <1>5 DEF SilentInv, GivenInv, NewFrequency
<1> QED
  BY <1>4, <1>6

\* Messages and registrations: none of them starts a silence.
LEMMA AlivePluginInv ==
  ASSUME AliveInv, ChangeState \/ Broadcast \/ BroadcastEventLog
  PROVE  AliveInv'
<1> USE AliveAssumption DEF AliveInv, AliveTypeOK, aliveHistory
<1>1. AliveTypeOK' /\ CheckInv' /\ GivenInv'
  <2>1. registered' \in BOOLEAN
    BY DEF ChangeState, Broadcast, BroadcastEventLog
  <2>2. CASE ChangeState \/ BroadcastEventLog
    BY <2>1, <2>2 DEF CheckInv, GivenInv, ChangeState, BroadcastEventLog
  <2>3. CASE Broadcast
    BY <2>3 DEF CheckInv, GivenInv, Broadcast, Touched
  <2> QED
    BY <2>2, <2>3
<1>2. ThrottleInv'
  <2>1. CASE ChangeState \/ BroadcastEventLog
    <3>1. silent' = 0 /\ lastTime' = lastTime
      BY <2>1 DEF ChangeState, BroadcastEventLog
    <3> QED
      BY <3>1 DEF ThrottleInv
  <2>2. CASE Broadcast
    BY <2>2 DEF ThrottleInv, Broadcast, Touched
  <2> QED
    BY <2>1, <2>2
<1>3. SilentInv'
  <2>1. asleep' = asleep /\ longest' = longest /\ (registered' => silent' = 0)
    BY DEF ChangeState, Broadcast, BroadcastEventLog
  <2>2. 0 + asleep < longest + WakeUp
    BY Spoke
  <2> QED
    BY <2>1, <2>2 DEF SilentInv
<1> QED
  BY <1>1, <1>2, <1>3

\* A check either finds that a message was sent within the frequency, or
\* sends one.
LEMMA AliveCheckInv ==
  ASSUME AliveInv, CheckMonitor \/ CheckTouch \/ CheckBroadcast
  PROVE  AliveInv'
<1> USE AliveAssumption DEF AliveInv, AliveTypeOK, aliveHistory
<1>1. CASE CheckMonitor
  <2> USE <1>1 DEF CheckMonitor
  <2>1. AliveTypeOK' /\ CheckInv' /\ ThrottleInv' /\ GivenInv'
    BY DEF CheckInv, ThrottleInv, GivenInv
  <2>2. SilentInv'
    <3>1. CASE registered /\ Elapsed
      BY <3>1 DEF SilentInv
    <3>2. CASE registered /\ ~Elapsed
      <4>1. silent < frequency
        BY <3>2 DEF Elapsed, ThrottleInv
      <4>2. silent' = silent /\ asleep' = WakeUp /\ longest' = frequency
        BY <3>2 DEF GivenInv
      <4> QED
        BY <4>1, <4>2 DEF SilentInv
    <3>3. CASE ~registered
      BY <3>3 DEF SilentInv
    <3> QED
      BY <3>1, <3>2, <3>3
  <2> QED
    BY <2>1, <2>2
<1>2. CASE CheckTouch
  BY <1>2 DEF CheckTouch, Touched, CheckInv, ThrottleInv, SilentInv, GivenInv
<1>3. CASE CheckBroadcast
  <2> USE <1>3 DEF CheckBroadcast
  <2>1. AliveTypeOK' /\ CheckInv' /\ ThrottleInv' /\ GivenInv'
    BY DEF CheckInv, ThrottleInv, GivenInv
  <2>2. 0 + asleep' < longest' + WakeUp
    BY Spoke
  <2> QED
    BY <2>1, <2>2 DEF SilentInv
<1> QED
  BY <1>1, <1>2, <1>3

\* Every step keeps the invariant.
LEMMA AliveNextInv ==
  ASSUME AliveInv, [AliveNext]_aliveVars
  PROVE  AliveInv'
<1>1. CASE UNCHANGED aliveVars
  BY <1>1 DEF aliveVars, aliveHistory, AliveInv, AliveTypeOK, CheckInv, ThrottleInv,
     SilentInv, GivenInv
<1> QED
  BY <1>1, AliveTimeInv, AliveFrequencyInv, AlivePluginInv, AliveCheckInv DEF AliveNext

\* A registered plugin is never silent for as long as its own frequency and
\* one sleep, for any frequencies and any sleep; when it is given another
\* frequency, the longer of the two counts until a check has ended.
THEOREM KeptAlive == AliveSpec => []NeverSilentForLong
<1>1. AliveInv => NeverSilentForLong
  BY AliveAssumption DEF AliveInv, AliveTypeOK, SilentInv, NeverSilentForLong
<1>2. AliveInv /\ [AliveNext]_aliveVars => AliveInv'
  BY AliveNextInv
<1> QED
  BY <1>1, <1>2, AliveInitInv, PTL DEF AliveSpec

-----------------------------------------------------------------------------
(* The three parts.                                                        *)

\* A step of one part leaves the two others as they are, so that each part has
\* its own invariant whichever of them runs.
PluginsInv == ManagerInv /\ CloudInv /\ AliveInv

\* What one part does is a step of it and a stutter of the others.
LEMMA StepOfOne ==
  ASSUME [Next]_pluginVars
  PROVE  [ManagerNext]_managerVars /\ [CloudNext]_cloudVars /\ [AliveNext]_aliveVars
BY DEF Next, Manager, Cloud, Alive, pluginVars

\* The state of each part has the values its code gives it, for any number of
\* producers, workers, sources, requests and messages, whichever part runs.
THEOREM PluginTypes == FairSpec => []TypeOK
<1>1. Init => PluginsInv
  BY InitTypes, InitCounts, InitChosen, CloudInitInv, AliveInitInv
  DEF Init, PluginsInv, ManagerInv
<1>2. PluginsInv /\ [Next]_pluginVars => PluginsInv'
  <2>1. ManagerInv /\ [ManagerNext]_managerVars => ManagerInv'
    BY NextTypes, OutEntriesStep, AloneStep, CoversStep, ExactStep, ChosenStep DEF ManagerInv
  <2> QED
    BY <2>1, CloudNextInv, AliveNextInv, StepOfOne DEF PluginsInv
<1>3. PluginsInv => TypeOK
  BY InvImpliesTypes DEF PluginsInv, CloudInv, AliveInv, TypeOK
<1>4. FairSpec => Init /\ [][Next]_pluginVars
  BY PTL DEF FairSpec
<1> QED
  BY <1>1, <1>2, <1>3, <1>4, PTL
=============================================================================
