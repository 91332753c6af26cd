--------------------------- MODULE PluginKeepAlive ---------------------------
(***************************************************************************)
(* PluginKeepAlive and the FrequencyThrottle it asks: a plugin that has    *)
(* sent nothing for some time sends a KeepAlive message, so that the       *)
(* core's monitor (PluginMonitor) does not take it for silent.             *)
(*                                                                         *)
(* Time passes in units; the thread sleeps WakeUp of them and checks at    *)
(* once when the sleep is over, and a thread that sends a message touches  *)
(* the throttle at once.  Ages stop at MaxAge.                             *)
(***************************************************************************)
EXTENDS Naturals

CONSTANTS
    Frequencies,    \* the values of KeepAliveFrequency
    WakeUp,         \* the sleep between two checks
    MaxAge,         \* where ages stop
    NoKey           \* the throttle does not have the plugin's key

\* set_Frequency ignores 0; ages go beyond every limit they are compared with.
ASSUME AliveAssumption ==
    /\ Frequencies \subseteq Nat \ {0} /\ WakeUp \in Nat /\ MaxAge \in Nat
    /\ \A f \in Frequencies : f + WakeUp <= MaxAge
    /\ NoKey \notin Nat

VARIABLES
    frequency,      \* of the throttle
    lastTime,       \* how long ago the throttle's time of the key was set
    asleep,         \* how much of the sleep is left
    check,          \* the check: none, true (Monitor returned it), touched
    registered,     \* the plugin's state
    silent,         \* how long the core has received nothing from the plugin
    given,          \* history: the KeepAliveFrequency given last that counts
    longest         \* history: the longest one given since the last check ended

aliveHistory == <<given, longest>>
aliveVars == <<frequency, lastTime, asleep, check, registered, silent, aliveHistory>>

AliveInit ==
    /\ frequency \in Frequencies /\ lastTime = NoKey
    /\ asleep = WakeUp /\ check = "none"
    /\ registered = FALSE /\ silent = 0
    /\ given = frequency /\ longest = frequency

Aged(n) == IF n = NoKey \/ n >= MaxAge THEN n ELSE n + 1

TimePasses ==
    /\ asleep > 0 /\ check = "none"
    /\ asleep' = asleep - 1
    /\ lastTime' = Aged(lastTime) /\ silent' = Aged(silent)
    /\ UNCHANGED <<frequency, check, registered, aliveHistory>>

\* The registration is a message itself.
ChangeState ==
    /\ registered' = ~registered /\ silent' = 0
    /\ UNCHANGED <<frequency, lastTime, asleep, check, aliveHistory>>

\* Mutant: the throttle keeps the frequency it was made with.
NewFrequency_Ignored(f) == frequency

NewFrequency(f) == IF f > 0 THEN f ELSE frequency

\* The plugin's configuration gives a KeepAliveFrequency; 0 is ignored.
set_Frequency ==
    /\ \E f \in Frequencies \cup {0} :
          /\ frequency' = NewFrequency(f)
          /\ given' = IF f > 0 THEN f ELSE given
          /\ longest' = IF f > longest THEN f ELSE longest
    /\ UNCHANGED <<lastTime, asleep, check, registered, silent>>

\* Touch does nothing when the key is not found.
Touched == IF lastTime = NoKey THEN NoKey ELSE 0

\* BroadcastMessage by another thread of the plugin; when the plugin is not
\* registered the core receives nothing, but the throttle is touched.
Broadcast ==
    /\ silent' = IF registered THEN 0 ELSE silent
    /\ lastTime' = Touched
    /\ UNCHANGED <<frequency, asleep, check, registered, aliveHistory>>

\* Event log messages do not count as messages sent.
BroadcastEventLog ==
    /\ registered /\ silent' = 0
    /\ UNCHANGED <<frequency, lastTime, asleep, check, registered, aliveHistory>>

\* Monitor: the first time for a key, and when the frequency has elapsed.
Elapsed == lastTime = NoKey \/ lastTime >= frequency

CheckMonitor ==
    /\ asleep = 0 /\ check = "none"
    /\ IF registered /\ Elapsed
         THEN check' = "true" /\ lastTime' = 0 /\ UNCHANGED <<asleep, longest>>
         ELSE check' = "none" /\ asleep' = WakeUp /\ longest' = given
              /\ UNCHANGED lastTime
    /\ UNCHANGED <<frequency, registered, silent, given>>

CheckTouch ==
    /\ check = "true" /\ check' = "touched"
    /\ lastTime' = Touched
    /\ UNCHANGED <<frequency, asleep, registered, silent, aliveHistory>>

\* The plugin's state may have changed since it was looked at.
CheckBroadcast ==
    /\ check = "touched" /\ check' = "none" /\ asleep' = WakeUp
    /\ silent' = IF registered THEN 0 ELSE silent
    /\ longest' = given
    /\ UNCHANGED <<frequency, lastTime, registered, given>>

AliveNext ==
    \/ TimePasses \/ ChangeState \/ set_Frequency
    \/ Broadcast \/ BroadcastEventLog
    \/ CheckMonitor \/ CheckTouch \/ CheckBroadcast

AliveSpec == AliveInit /\ [][AliveNext]_aliveVars

-----------------------------------------------------------------------------
AliveTypeOK ==
    /\ frequency \in Frequencies /\ lastTime \in 0 .. MaxAge \cup {NoKey}
    /\ asleep \in 0 .. WakeUp /\ check \in {"none", "true", "touched"}
    /\ registered \in BOOLEAN /\ silent \in 0 .. MaxAge
    /\ given \in Frequencies /\ longest \in Frequencies

\* "8.333 - 7.8 = 32 second window / 10 second wake ups" (PluginKeepAlive.h):
\* a registered plugin is never silent for as long as its own frequency and one
\* sleep, whatever it sent before it was registered, and although only some
\* messages touch the throttle.  When the plugin is given another frequency,
\* the longer of the two counts until the next check has ended, and from then
\* on the new one: no change is overlooked.
NeverSilentForLong == registered => silent < longest + WakeUp
=============================================================================
