----------------------------- MODULE CARMACloud -----------------------------
(***************************************************************************)
(* CARMACloudPlugin: traffic control messages (TCMs) that come from the    *)
(* cloud are broadcast to the vehicles and kept until a vehicle            *)
(* acknowledges them or they time out; a thread of its own broadcasts them *)
(* again meanwhile.                                                        *)
(*                                                                         *)
(* A TCM is the pair of its request id and its message number, which is    *)
(* what an acknowledgement names; its bytes are determined by them.  Time  *)
(* passes between the steps, in units of which TimeOut are the configured  *)
(* time out; ages stop at TimeOut + 1.                                     *)
(***************************************************************************)
EXTENDS Naturals

CONSTANTS
    Reqs, Nums,     \* request ids, message numbers
    TimeOut,        \* TCMRepeatedlyBroadcastTimeOut
    TotalTimes,     \* TCMRepeatedlyBroadCastTotalTimes
    None,           \* no starting time
    MaxDeliveries   \* bound on the TCMs the cloud sends

ASSUME CloudAssumption ==
    /\ TimeOut \in Nat /\ TotalTimes \in Nat /\ MaxDeliveries \in Nat
    /\ None \notin Nat

Tcms == Reqs \X Nums

VARIABLES
    handler,        \* the web service: the TCM it is at, and where, or None
    not_ACK_TCMs,   \* the multimap: how many copies of each TCM it has
    starting_time,  \* time since the start of each request id, or None
    broadcast_times,\* how often each TCM was broadcast again, 0 for no entry
    thread,         \* the thread that broadcasts again: look, pass, clear, end
    failed,         \* the plugin's state is error
    heard,          \* TCMs that a vehicle may have received
    deliveries,     \* TCMs sent by the cloud so far
    answered,       \* TCMs acknowledged since the cloud sent them last
    held            \* how long each TCM has been kept, 0 when it is not

kept == <<not_ACK_TCMs, starting_time, broadcast_times>>
history == <<answered, held>>
cloudVars == <<handler, kept, thread, failed, heard, deliveries, history>>

CloudInit ==
    /\ handler = None /\ thread = "look" /\ failed = FALSE
    /\ not_ACK_TCMs = [t \in Tcms |-> 0]
    /\ starting_time = [r \in Reqs |-> None]
    /\ broadcast_times = [t \in Tcms |-> 0]
    /\ heard = {} /\ deliveries = 0
    /\ answered = {} /\ held = [t \in Tcms |-> 0]

\* The multimap has a TCM of the request.
HasTcms(r) == \E n \in Nums : not_ACK_TCMs[r, n] > 0

\* What is left of held when TCMs leave the multimap.
HeldIn(q) == [t \in Tcms |-> IF q[t] > 0 THEN held[t] ELSE 0]

Older(n) == IF n = None \/ n > TimeOut THEN n ELSE n + 1
Tick ==
    /\ starting_time' = [r \in Reqs |-> Older(starting_time[r])]
    /\ held' = [t \in Tcms |-> IF not_ACK_TCMs[t] > 0 THEN Older(held[t]) ELSE 0]
    /\ UNCHANGED <<handler, not_ACK_TCMs, broadcast_times, thread, failed, heard,
                   deliveries, answered>>

-----------------------------------------------------------------------------
(* CARMAResponseHandler, one TCM of the response after the other.          *)

\* The TCM is broadcast first ...
ResponseBroadcast(t) ==
    /\ handler = None /\ deliveries < MaxDeliveries
    /\ handler' = t /\ heard' = heard \cup {t}
    /\ deliveries' = deliveries + 1 /\ answered' = answered \ {t}
    /\ UNCHANGED <<kept, thread, failed, held>>

\* ... and then kept, under the lock.
ResponseInsert ==
    /\ handler # None
    /\ not_ACK_TCMs' = [not_ACK_TCMs EXCEPT ![handler] = @ + 1]
    /\ held' = [held EXCEPT ![handler] = 0]
    /\ handler' = None
    /\ UNCHANGED <<starting_time, broadcast_times, thread, failed, heard, deliveries, answered>>

\* Mutant: all the TCMs of the request are removed.
WithoutAcked_Range(t) ==
    [u \in Tcms |-> IF u[1] = t[1] THEN 0 ELSE not_ACK_TCMs[u]]

\* One of the request's TCMs that has the message number is removed, if any.
WithoutAcked(t) ==
    [not_ACK_TCMs EXCEPT ![t] = IF @ > 0 THEN @ - 1 ELSE @]

\* HandleMobilityOperationMessage: the acknowledgement of a vehicle, positive
\* or negative, at any time after the TCM was broadcast, and any number.  One
\* whose number stol rejects, or that comes after a TCM that does not decode, does
\* nothing, so it is no step; what stoi rejects has been removed by then.
Acknowledge(t) ==
    /\ t \in heard
    /\ not_ACK_TCMs' = WithoutAcked(t)
    /\ answered' = answered \cup {t} /\ held' = HeldIn(not_ACK_TCMs')
    /\ UNCHANGED <<handler, starting_time, broadcast_times, thread, failed, heard,
                   deliveries>>

-----------------------------------------------------------------------------
(* TCMAckCheckAndRebroadcastTCM.                                           *)

\* After the sleep; the size is read without the lock.
Look ==
    /\ thread = "look"
    /\ thread' = IF failed THEN "end"
                 ELSE IF \E r \in Reqs : HasTcms(r) THEN "pass" ELSE "clear"
    /\ UNCHANGED <<handler, kept, failed, heard, deliveries, history>>

\* Mutant: the starting time is never reached.
Expired_Never(r) == FALSE

Expired(r) ==
    HasTcms(r) /\ starting_time[r] # None /\ starting_time[r] > TimeOut

\* IsSkipBroadcastCurTCM for each copy that is kept of t: counted and
\* broadcast until TotalTimes is reached.
Again(t) ==
    LET all == broadcast_times[t] + not_ACK_TCMs[t]
    IN  IF all > TotalTimes THEN TotalTimes ELSE all

TimesAfter(t) == IF Expired(t[1]) THEN 0 ELSE Again(t)

\* The pass under the lock: the TCMs of an expired request are removed and
\* reported to the cloud as not acknowledged; the others are broadcast again.
Pass ==
    /\ thread = "pass" /\ thread' = "look"
    /\ starting_time' = [r \in Reqs |->
           IF Expired(r) THEN None
           ELSE IF HasTcms(r) /\ starting_time[r] = None THEN 0
           ELSE starting_time[r]]
    /\ broadcast_times' = [t \in Tcms |-> TimesAfter(t)]
    /\ not_ACK_TCMs' = [t \in Tcms |-> IF Expired(t[1]) THEN 0 ELSE not_ACK_TCMs[t]]
    /\ held' = HeldIn(not_ACK_TCMs')
    /\ UNCHANGED <<handler, failed, heard, deliveries, answered>>

\* No TCM was kept: the tracking starts anew.
Clear ==
    /\ thread = "clear" /\ thread' = "look"
    /\ starting_time' = [r \in Reqs |-> None]
    /\ broadcast_times' = [t \in Tcms |-> 0]
    /\ UNCHANGED <<handler, not_ACK_TCMs, failed, heard, deliveries, history>>

Rebroadcast == Look \/ Pass \/ Clear

PluginFails ==
    /\ ~failed /\ failed' = TRUE
    /\ UNCHANGED <<handler, kept, thread, heard, deliveries, history>>

-----------------------------------------------------------------------------
CloudNext ==
    \/ Tick \/ ResponseInsert \/ Rebroadcast \/ PluginFails
    \/ \E t \in Tcms : ResponseBroadcast(t) \/ Acknowledge(t)

CloudSpec == CloudInit /\ [][CloudNext]_cloudVars

\* The clock runs and the thread wakes up; no vehicle has to answer.
CloudFairSpec == CloudSpec /\ WF_cloudVars(Tick) /\ WF_cloudVars(Rebroadcast) /\ WF_cloudVars(ResponseInsert)

-----------------------------------------------------------------------------
Ages == 0 .. TimeOut + 1

CloudTypeOK ==
    /\ handler \in Tcms \cup {None} /\ not_ACK_TCMs \in [Tcms -> Nat]
    /\ starting_time \in [Reqs -> Ages \cup {None}]
    /\ broadcast_times \in [Tcms -> 0 .. TotalTimes]
    /\ thread \in {"look", "pass", "clear", "end"} /\ failed \in BOOLEAN
    /\ heard \subseteq Tcms /\ deliveries \in 0 .. MaxDeliveries
    /\ answered \subseteq heard /\ held \in [Tcms -> Ages]

\* The two tracking maps are cleaned up together, by a time out and when
\* nothing is kept: no TCM is counted as broadcast for a request whose time
\* does not run, which would keep a later TCM from being broadcast again.
TrackedTogether ==
    \A t \in Tcms : broadcast_times[t] > 0 => starting_time[t[1]] # None

\* A kept TCM goes one at a time by the acknowledgement that names it, or with
\* its request when that has timed out: never because another was acknowledged.
GoesForAReason ==
    \A t \in Tcms : not_ACK_TCMs'[t] < not_ACK_TCMs[t] =>
        \/ Expired(t[1]) /\ thread = "pass" /\ thread' = "look"
        \/ t \in answered' /\ not_ACK_TCMs'[t] = not_ACK_TCMs[t] - 1
TcmsGoForAReason == [][GoesForAReason]_cloudVars

\* Whatever the vehicles do, and whatever TCMs follow, no TCM is broadcast
\* for ever: it is acknowledged, or its request times out.
EveryTcmSettled ==
    \A r \in Reqs : HasTcms(r) ~> ~HasTcms(r) \/ failed

\* "If the plugin does not receives any aknowledgement from CMV ... that match
\* the original TCM, the plugin will create an NO ACK message" (manifest.json):
\* no request is reported as unanswered for a TCM that was acknowledged.
UnansweredOnly ==
    thread = "pass" => \A r \in Reqs : Expired(r) =>
        \A n \in Nums : not_ACK_TCMs[r, n] > 0 => <<r, n>> \notin answered

\* "After it receives TCM from carma cloud, it repeatedly broadcasts TCM until
\* TCMRepeatTimeOut milliseconds" (manifest.json): a TCM does not time out
\* before it has been kept for that long.
KeptForTheTimeOut ==
    thread = "pass" => \A r \in Reqs : Expired(r) =>
        \A n \in Nums : not_ACK_TCMs[r, n] > 0 => held[r, n] >= TimeOut
=============================================================================
