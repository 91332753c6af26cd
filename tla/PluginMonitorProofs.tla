------------------------ MODULE PluginMonitorProofs -------------------------
(***************************************************************************)
(* TLAPS proofs of the safety properties of PluginMonitor, for any number  *)
(* of plugins and process ids, any intervals, and with a database that     *)
(* fails or does not.                                                      *)
(***************************************************************************)
EXTENDS PluginMonitor, TLAPS

-----------------------------------------------------------------------------
(* The inductive invariant: the kill status of an entry says exactly which *)
(* signals its process was sent, and the entry is the process's own.        *)

Tells(s, signals) ==
  /\ "SIGTERM" \in signals <=> s # "alive"
  /\ "SIGINT" \in signals <=> s \in {"sigIntSent", "sigKillSent"}
  /\ "SIGKILL" \in signals <=> s = "sigKillSent"

StatusIsHistory ==
  \A i \in Pids : procs[i] # None =>
    Tells(mRunningPlugins[procs[i].of].killStatus, procs[i].signals)

Inv == TypeOK /\ EntriesAreProcesses /\ StatusIsHistory

\* Everything of the state but the rows, the messages and the thread's place.
ownVars == <<procs, mRunningPlugins>>

\* Neither processes nor entries change: what relates them stays.
LEMMA OwnUnchanged ==
  ASSUME Inv, UNCHANGED ownVars
  PROVE  EntriesAreProcesses' /\ StatusIsHistory'
BY DEF Inv, ownVars, EntriesAreProcesses, StatusIsHistory, Running

\* Nothing runs and nothing is watched.
LEMMA InitInv == Init => Inv
BY MonitorAssumption
   DEF Init, Inv, TypeOK, EntriesAreProcesses, StatusIsHistory, Running

\* An age stays between 0 and MaxAge.
LEMMA OlderInRange ==
  ASSUME NEW age \in 0..MaxAge
  PROVE  Older(age) \in 0..MaxAge
BY MonitorAssumption DEF Older

\* The process of an entry exists and is the plugin's.
LEMMA EntryHasProcess ==
  ASSUME Inv, NEW p \in Running
  PROVE  /\ p \in Plugins /\ mRunningPlugins[p] \in Entries
         /\ mRunningPlugins[p].pid \in Pids
         /\ procs[mRunningPlugins[p].pid] \in Processes
         /\ procs[mRunningPlugins[p].pid] # None
         /\ procs[mRunningPlugins[p].pid].of = p
<1>1. p \in Plugins /\ mRunningPlugins[p] # None
  BY DEF Running
<1>2. mRunningPlugins[p] \in Entries
  BY <1>1 DEF Inv, TypeOK
<1>3. mRunningPlugins[p].pid \in Pids
  BY <1>2 DEF Entries
<1>4. /\ procs[mRunningPlugins[p].pid] # None
      /\ procs[mRunningPlugins[p].pid].of = p
  BY <1>1, <1>3 DEF Inv, EntriesAreProcesses
<1>5. procs[mRunningPlugins[p].pid] \in Processes
  BY <1>3, <1>4 DEF Inv, TypeOK
<1> QED
  BY <1>1, <1>2, <1>3, <1>4, <1>5

\* No two entries have the same process.
LEMMA OneEntryPerProcess ==
  ASSUME Inv, NEW p \in Running, NEW q \in Running,
         mRunningPlugins[p].pid = mRunningPlugins[q].pid
  PROVE  p = q
BY EntryHasProcess
-----------------------------------------------------------------------------
(* The environment *)

\* Entries grow older and keep their process and kill status.
LEMMA TickInv ==
  ASSUME Inv, Tick
  PROVE  Inv'
<1> USE DEF Tick
<1>1. ASSUME NEW p \in Plugins, mRunningPlugins[p] # None
      PROVE  /\ mRunningPlugins[p] \in Entries
             /\ mRunningPlugins'[p] \in Entries
             /\ mRunningPlugins'[p].pid = mRunningPlugins[p].pid
             /\ mRunningPlugins'[p].killStatus = mRunningPlugins[p].killStatus
  <2>1. mRunningPlugins[p] \in Entries
    BY <1>1 DEF Inv, TypeOK
  <2>2. /\ mRunningPlugins[p].startTime \in 0..MaxAge
        /\ mRunningPlugins[p].last # None => mRunningPlugins[p].last \in 0..MaxAge
    BY <2>1 DEF Entries
  <2>3. /\ Older(mRunningPlugins[p].startTime) \in 0..MaxAge
        /\ mRunningPlugins[p].last # None =>
             Older(mRunningPlugins[p].last) \in 0..MaxAge
    BY <2>2, OlderInRange
  <2> QED
    BY <1>1, <2>1, <2>3 DEF Entries
<1>2. \A p \in Plugins :
        /\ mRunningPlugins'[p] # None <=> mRunningPlugins[p] # None
        /\ mRunningPlugins[p] = None => mRunningPlugins'[p] = None
  BY <1>1, NoneAssumption
<1>3. mRunningPlugins' \in [Plugins -> Entries \cup {None}]
  BY <1>1
<1>4. mMessages' \in [Plugins -> (0..MaxAge) \cup {None}]
  BY OlderInRange DEF Inv, TypeOK
<1>5. TypeOK'
  BY <1>3, <1>4 DEF Inv, TypeOK, dbVars, procVars
<1>6. EntriesAreProcesses'
  <2>1. procs' = procs /\ Running' = Running
    BY <1>2 DEF Running, procVars
  <2>2. \A p \in Running : mRunningPlugins'[p].pid = mRunningPlugins[p].pid
    BY <1>1 DEF Running
  <2> HIDE DEF Tick
  <2> QED
    BY <2>1, <2>2 DEF Inv, EntriesAreProcesses
<1>7. StatusIsHistory'
  <2> SUFFICES ASSUME NEW i \in Pids, procs[i] # None
               PROVE  mRunningPlugins'[procs[i].of].killStatus
                        = mRunningPlugins[procs[i].of].killStatus
    BY DEF Inv, StatusIsHistory, procVars
  <2>1. procs[i].of \in Plugins
    BY DEF Inv, TypeOK, Processes
  <2>2. mRunningPlugins[procs[i].of] # None
    BY <2>1 DEF Inv, EntriesAreProcesses, Running
  <2> QED
    BY <1>1, <2>1, <2>2 DEF Inv, StatusIsHistory
<1> QED
  BY <1>5, <1>6, <1>7 DEF Inv

\* What the administrator and the messages do is about rows and messages.
LEMMA OutsideInv ==
  ASSUME Inv, NEW p \in Plugins,
         AdminEnables(p) \/ AdminSetsInterval(p) \/ ConnectionEnds(p)
           \/ OnMessageReceived(p)
  PROVE  Inv'
<1>1. UNCHANGED ownVars
  BY DEF AdminEnables, AdminSetsInterval, ConnectionEnds, OnMessageReceived,
     ownVars, procVars, monitorVars
<1>2. TypeOK'
  <2>1. CASE AdminEnables(p)
    BY <2>1 DEF Inv, TypeOK, AdminEnables, procVars, monitorVars
  <2>2. CASE AdminSetsInterval(p)
    BY <2>2 DEF Inv, TypeOK, AdminSetsInterval, procVars, monitorVars
  <2>3. CASE ConnectionEnds(p)
    BY <2>3 DEF Inv, TypeOK, ConnectionEnds, monitorVars
  <2>4. CASE OnMessageReceived(p)
    BY <2>4, MonitorAssumption DEF Inv, TypeOK, OnMessageReceived, dbVars, procVars, monitorVars
  <2> QED
    BY <2>1, <2>2, <2>3, <2>4
<1> QED
  BY <1>1, <1>2, OwnUnchanged DEF Inv

\* A process registers or ends: it stays its plugin's, killed or not.
LEMMA ProcessInv ==
  ASSUME Inv, NEW i \in Pids, PluginRegisters(i) \/ ProcessEnds(i)
  PROVE  Inv'
<1>1. /\ procs[i] \in Processes /\ procs[i] # None
      /\ procs'[i] \in Processes
      /\ procs'[i].of = procs[i].of /\ procs'[i].signals = procs[i].signals
      /\ \A j \in Pids \ {i} : procs'[j] = procs[j]
      /\ procs' \in [Pids -> Processes \cup {None}]
      /\ mRunningPlugins' = mRunningPlugins
  BY DEF Inv, TypeOK, PluginRegisters, ProcessEnds, Processes, monitorVars
<1>2. procs'[i] # None
  BY <1>1, NoneAssumption
<1>3. TypeOK'
  <2>1. CASE PluginRegisters(i)
    BY <1>1, <2>1 DEF Inv, TypeOK, PluginRegisters, monitorVars, Processes
  <2>2. CASE ProcessEnds(i)
    BY <1>1, <2>2 DEF Inv, TypeOK, ProcessEnds, dbVars, monitorVars
  <2> QED
    BY <2>1, <2>2
<1>4. EntriesAreProcesses'
  BY <1>1, <1>2 DEF Inv, EntriesAreProcesses, Running
<1>5. StatusIsHistory'
  BY <1>1, <1>2 DEF Inv, StatusIsHistory
<1> QED
  BY <1>3, <1>4, <1>5 DEF Inv

-----------------------------------------------------------------------------
(* The monitor thread *)

\* The messages are taken: entries keep their process and kill status.
LEMMA FoldInv ==
  ASSUME Inv, FoldMessages
  PROVE  Inv'
<1> USE DEF FoldMessages
<1>1. ASSUME NEW p \in Running
      PROVE  /\ mRunningPlugins'[p] \in Entries
             /\ mRunningPlugins'[p].pid = mRunningPlugins[p].pid
             /\ mRunningPlugins'[p].killStatus = mRunningPlugins[p].killStatus
  BY EntryHasProcess DEF Inv, TypeOK, Entries, Running
<1>2. procs' = procs /\ Running' = Running
  <2>1. \A p \in Plugins : mRunningPlugins'[p] # None <=> mRunningPlugins[p] # None
    BY <1>1, NoneAssumption DEF Running
  <2> QED
    BY <2>1 DEF Running, procVars
<1>3. mRunningPlugins' \in [Plugins -> Entries \cup {None}]
  BY <1>1 DEF Running
<1>4. TypeOK'
  BY <1>3 DEF Inv, TypeOK, dbVars, procVars
<1>5. EntriesAreProcesses'
  BY <1>1, <1>2 DEF Inv, EntriesAreProcesses
<1>6. StatusIsHistory'
  <2> SUFFICES ASSUME NEW i \in Pids, procs[i] # None
               PROVE  mRunningPlugins'[procs[i].of].killStatus
                        = mRunningPlugins[procs[i].of].killStatus
    BY <1>2 DEF Inv, StatusIsHistory
  <2>1. procs[i].of \in Running
    BY DEF Inv, TypeOK, Processes, EntriesAreProcesses
  <2> QED
    BY <1>1, <2>1 DEF Inv, StatusIsHistory
<1> QED
  BY <1>4, <1>5, <1>6 DEF Inv

\* Queries, failures and writes leave processes and entries alone.
LEMMA DatabaseInv ==
  ASSUME Inv,
         \/ QueryEnabled \/ QueryFails \/ WriteStarted \/ Report
         \/ \E p \in Plugins : StartFails(p)
  PROVE  Inv'
<1>1. UNCHANGED ownVars
  BY DEF QueryEnabled, QueryFails, WriteStarted, Report, StartFails, ownVars, procVars
<1>2. TypeOK'
  <2>1. CASE QueryEnabled
    BY <2>1 DEF Inv, TypeOK, QueryEnabled, dbVars, procVars
  <2>2. CASE QueryFails
    BY <2>2 DEF Inv, TypeOK, QueryFails, dbVars, procVars
  <2>3. CASE WriteStarted
    BY <2>3 DEF Inv, TypeOK, WriteStarted, procVars
  <2>4. CASE Report
    BY <2>4 DEF Inv, TypeOK, Report, dbVars, procVars
  <2>5. ASSUME NEW p \in Plugins, StartFails(p)
        PROVE  TypeOK'
    BY <2>5 DEF Inv, TypeOK, StartFails, procVars, ToStart
  <2> QED
    BY <2>1, <2>2, <2>3, <2>4, <2>5
<1> QED
  BY <1>1, <1>2, OwnUnchanged DEF Inv

\* An entry goes with the process that ended, and no other process has it.
LEMMA RemoveDeadInv ==
  ASSUME Inv, RemoveDead
  PROVE  Inv'
<1> USE DEF RemoveDead
<1>1. \A p \in Plugins :
        mRunningPlugins'[p] = IF p \in Running /\ Ended(p) THEN None
                              ELSE mRunningPlugins[p]
  BY DEF Dead
<1>2. \A p \in Running :
        procs'[mRunningPlugins[p].pid] =
          IF Ended(p) THEN None ELSE procs[mRunningPlugins[p].pid]
  BY EntryHasProcess, OneEntryPerProcess
<1>3. \A i \in Pids : procs'[i] = procs[i] \/ procs'[i] = None
  OBVIOUS
<1>4. \A i \in Pids : procs'[i] # None =>
        /\ procs[i] # None /\ procs[i].of \in Running
        /\ mRunningPlugins[procs[i].of].pid = i /\ ~Ended(procs[i].of)
  BY <1>2, <1>3 DEF Inv, TypeOK, Processes, EntriesAreProcesses
<1>5. TypeOK'
  <2>1. procs' \in [Pids -> Processes \cup {None}]
    BY <1>3 DEF Inv, TypeOK
  <2>2. mRunningPlugins' \in [Plugins -> Entries \cup {None}]
    BY <1>1 DEF Inv, TypeOK
  <2> QED
    BY <2>1, <2>2 DEF Inv, TypeOK, dbVars
<1>6. EntriesAreProcesses'
  <2> SUFFICES ASSUME NEW p \in Plugins, NEW i \in Pids
               PROVE  (procs'[i] # None /\ procs'[i].of = p)
                        <=> (mRunningPlugins'[p] # None /\ mRunningPlugins'[p].pid = i)
    BY DEF EntriesAreProcesses, Running
  <2>1. ASSUME procs'[i] # None, procs'[i].of = p
        PROVE  mRunningPlugins'[p] # None /\ mRunningPlugins'[p].pid = i
    BY <1>1, <1>3, <1>4, <2>1 DEF Running
  <2>2. ASSUME mRunningPlugins'[p] # None, mRunningPlugins'[p].pid = i
        PROVE  procs'[i] # None /\ procs'[i].of = p
    <3>1. p \in Running /\ ~Ended(p) /\ mRunningPlugins[p].pid = i
      BY <1>1, <2>2 DEF Running
    <3> QED
      BY <1>2, <3>1, EntryHasProcess
  <2> QED
    BY <2>1, <2>2
<1>7. StatusIsHistory'
  <2> SUFFICES ASSUME NEW i \in Pids, procs'[i] # None
               PROVE  Tells(mRunningPlugins'[procs'[i].of].killStatus, procs'[i].signals)
    BY DEF StatusIsHistory
  <2> QED
    BY <1>1, <1>3, <1>4 DEF Inv, StatusIsHistory, Running
<1> QED
  BY <1>5, <1>6, <1>7 DEF Inv

\* A kill status goes one step on or stays, and never back.
LEMMA NextKillStatusProp ==
  ASSUME NEW p, NEW e \in Entries
  PROVE  /\ NextKillStatus(p, e) \in {"alive", "sigTermSent", "sigIntSent", "sigKillSent"}
         /\ \/ NextKillStatus(p, e) = e.killStatus
            \/ e.killStatus = "alive" /\ NextKillStatus(p, e) = "sigTermSent"
            \/ e.killStatus = "sigTermSent" /\ NextKillStatus(p, e) = "sigIntSent"
            \/ e.killStatus = "sigIntSent" /\ NextKillStatus(p, e) = "sigKillSent"
BY DEF NextKillStatus, Entries

\* SIGKILL goes to the process of the entry whose status says so.
LEMMA EscalateInv ==
  ASSUME Inv, Escalate
  PROVE  Inv'
<1> USE DEF Escalate
<1>1. ASSUME NEW p \in Running
      PROVE  /\ mRunningPlugins'[p] \in Entries
             /\ mRunningPlugins'[p].pid = mRunningPlugins[p].pid
             /\ mRunningPlugins'[p].killStatus = NextKillStatus(p, mRunningPlugins[p])
  BY EntryHasProcess, NextKillStatusProp DEF Running, Entries
<1>2. Running' = Running
  <2>1. \A p \in Plugins : mRunningPlugins'[p] # None <=> p \in Running
    BY <1>1, NoneAssumption DEF Running
  <2> QED
    BY <2>1 DEF Running
<1>3. ASSUME NEW i \in Pids, procs[i] # None
      PROVE  LET p == procs[i].of
                 new == NextKillStatus(p, mRunningPlugins[p])
             IN  /\ p \in Running
                 /\ procs[i] \in Processes
                 /\ procs'[i] \in Processes
                 /\ procs'[i].of = p
                 /\ procs'[i].signals = procs[i].signals \cup
                      (IF new \in {"alive", mRunningPlugins[p].killStatus} THEN {}
                       ELSE {SignalOf(new)})
  <2> DEFINE p == procs[i].of
             new == NextKillStatus(p, mRunningPlugins[p])
  <2>1. procs[i] \in Processes
    BY <1>3 DEF Inv, TypeOK
  <2>2. p \in Running /\ mRunningPlugins[p].pid = i
    BY <1>3, <2>1 DEF Inv, EntriesAreProcesses, Processes
  <2>3. \A q \in Running : mRunningPlugins[q].pid = i => q = p
    BY <2>2, OneEntryPerProcess
  <2>4. SentTo(i) = IF new \in {"alive", mRunningPlugins[p].killStatus} THEN {}
                    ELSE {SignalOf(new)}
    BY <2>2, <2>3 DEF SentTo
  <2>5. new \in {"alive", "sigTermSent", "sigIntSent", "sigKillSent"}
    BY <2>2, EntryHasProcess, NextKillStatusProp
  <2>6. SentTo(i) \subseteq {"SIGTERM", "SIGINT", "SIGKILL"}
    BY <2>4, <2>5 DEF SignalOf
  <2>7. procs'[i] = [procs[i] EXCEPT !.signals = @ \cup SentTo(i)]
    BY <1>3 DEF Inv, TypeOK
  <2>8. /\ procs'[i] \in Processes /\ procs'[i].of = p
        /\ procs'[i].signals = procs[i].signals \cup SentTo(i)
    BY <2>1, <2>6, <2>7 DEF Processes
  <2> QED
    BY <2>1, <2>2, <2>4, <2>8
<1>4. TypeOK'
  <2>1. procs' \in [Pids -> Processes \cup {None}]
    BY <1>3 DEF Inv, TypeOK
  <2>2. mRunningPlugins' \in [Plugins -> Entries \cup {None}]
    BY <1>1 DEF Running
  <2> QED
    BY <2>1, <2>2 DEF Inv, TypeOK, dbVars
<1>5. EntriesAreProcesses'
  <2>1. \A i \in Pids :
          /\ procs'[i] # None <=> procs[i] # None
          /\ procs[i] # None => procs'[i].of = procs[i].of
    BY <1>3, NoneAssumption DEF Inv, TypeOK
  <2> QED
    BY <1>1, <1>2, <2>1 DEF Inv, EntriesAreProcesses
<1>6. StatusIsHistory'
  <2> SUFFICES ASSUME NEW i \in Pids, procs'[i] # None
               PROVE  Tells(mRunningPlugins'[procs'[i].of].killStatus, procs'[i].signals)
    BY DEF StatusIsHistory
  <2>1. procs[i] # None
    OBVIOUS
  <2> DEFINE p == procs[i].of
             old == mRunningPlugins[p].killStatus
             new == NextKillStatus(p, mRunningPlugins[p])
  <2>2. /\ p \in Running /\ procs'[i].of = p
        /\ procs'[i].signals = procs[i].signals \cup
             (IF new \in {"alive", old} THEN {} ELSE {SignalOf(new)})
    BY <1>3, <2>1
  <2>3. mRunningPlugins'[p].killStatus = new
    BY <1>1, <2>2
  <2>4. Tells(old, procs[i].signals)
    BY <2>1 DEF Inv, StatusIsHistory
  <2>5. \/ new = old
        \/ old = "alive" /\ new = "sigTermSent"
        \/ old = "sigTermSent" /\ new = "sigIntSent"
        \/ old = "sigIntSent" /\ new = "sigKillSent"
    BY <2>2, EntryHasProcess, NextKillStatusProp
  <2> HIDE DEF p, old, new
  <2>6. Tells(new, procs'[i].signals)
    BY <2>2, <2>4, <2>5 DEF Tells, SignalOf
  <2> QED
    BY <2>2, <2>3, <2>6
<1> QED
  BY <1>4, <1>5, <1>6 DEF Inv

\* A plugin without an entry has no process; it gets a new one and an entry
\* that was sent no signal.
LEMMA StartPluginInv ==
  ASSUME Inv, NEW p \in Plugins, StartPlugin(p)
  PROVE  Inv'
<1>1. PICK i \in Pids :
        /\ procs[i] = None
        /\ procs' = [procs EXCEPT ![i] = [of |-> p, st |-> "starting", signals |-> {}]]
        /\ mRunningPlugins' = [mRunningPlugins EXCEPT ![p] = NewEntry(p, i)]
  BY DEF StartPlugin
<1>2. p \in DOMAIN enabledPlugins /\ p \notin Running
  BY DEF StartPlugin, ToStart
<1>3. NewEntry(p, i) \in Entries /\ NewEntry(p, i).pid = i
  BY <1>2, MonitorAssumption DEF NewEntry, Entries, Inv, TypeOK
<1>4. [of |-> p, st |-> "starting", signals |-> {}] \in Processes
  BY DEF Processes
<1>5. /\ procs'[i] = [of |-> p, st |-> "starting", signals |-> {}]
      /\ procs'[i] # None
      /\ \A j \in Pids \ {i} : procs'[j] = procs[j]
      /\ mRunningPlugins'[p] = NewEntry(p, i) /\ mRunningPlugins'[p] # None
      /\ \A q \in Plugins \ {p} : mRunningPlugins'[q] = mRunningPlugins[q]
  BY <1>1, <1>3, <1>4, NoneAssumption DEF Inv, TypeOK
<1>6. TypeOK'
  BY <1>1, <1>3, <1>4 DEF Inv, TypeOK, StartPlugin, dbVars
<1>7. \A j \in Pids : procs[j] # None => procs[j].of # p
  BY <1>2 DEF Inv, EntriesAreProcesses
<1>8. EntriesAreProcesses'
  <2> SUFFICES ASSUME NEW q \in Plugins, NEW j \in Pids
               PROVE  (procs'[j] # None /\ procs'[j].of = q)
                        <=> (mRunningPlugins'[q] # None /\ mRunningPlugins'[q].pid = j)
    BY DEF EntriesAreProcesses, Running
  <2>1. CASE q = p
    BY <1>3, <1>5, <1>7, <2>1
  <2>2. CASE q # p
    BY <1>1, <1>5, <2>2 DEF Inv, EntriesAreProcesses, Running
  <2> QED
    BY <2>1, <2>2
<1>9. StatusIsHistory'
  <2> SUFFICES ASSUME NEW j \in Pids, procs'[j] # None
               PROVE  Tells(mRunningPlugins'[procs'[j].of].killStatus, procs'[j].signals)
    BY DEF StatusIsHistory
  <2>1. CASE j = i
    BY <1>5, <2>1 DEF Tells, NewEntry
  <2>2. CASE j # i
    <3>1. procs'[j] = procs[j] /\ procs[j].of \in Plugins \ {p}
      BY <1>5, <1>7, <2>2 DEF Inv, TypeOK, Processes
    <3> QED
      BY <1>5, <3>1 DEF Inv, StatusIsHistory
  <2> QED
    BY <2>1, <2>2
<1> QED
  BY <1>6, <1>8, <1>9 DEF Inv

-----------------------------------------------------------------------------
(* The theorems *)

\* Every step keeps the invariant.
LEMMA NextInv ==
  ASSUME Inv, [Next]_vars
  PROVE  Inv'
<1>1. CASE Tick
  BY <1>1, TickInv
<1>2. ASSUME NEW p \in Plugins,
             AdminEnables(p) \/ AdminSetsInterval(p) \/ ConnectionEnds(p)
               \/ OnMessageReceived(p)
      PROVE  Inv'
  BY <1>2, OutsideInv
<1>3. ASSUME NEW i \in Pids, PluginRegisters(i) \/ ProcessEnds(i)
      PROVE  Inv'
  BY <1>3, ProcessInv
<1>4. CASE Monitor
  <2>1. CASE \/ QueryEnabled \/ QueryFails \/ WriteStarted \/ Report
             \/ \E p \in Plugins : StartFails(p)
    BY <2>1, DatabaseInv
  <2>2. ASSUME NEW p \in Plugins, StartPlugin(p)
        PROVE  Inv'
    BY <2>2, StartPluginInv
  <2> QED
    BY <1>4, <2>1, <2>2, FoldInv, RemoveDeadInv, EscalateInv DEF Monitor
<1>5. CASE UNCHANGED vars
  BY <1>5 DEF vars, dbVars, procVars, monitorVars, Inv, TypeOK,
     EntriesAreProcesses, StatusIsHistory, Running
<1> QED
  BY <1>1, <1>2, <1>3, <1>4, <1>5 DEF Next, Environment

\* The invariant holds in every state the monitor can reach.
LEMMA InvAlways == Spec => []Inv
<1>1. Inv /\ [Next]_vars => Inv'
  BY NextInv
<1> QED
  BY <1>1, InitInv, PTL DEF Spec

\* The rows, the processes and the entries keep their types.
THEOREM TypeCorrect == Spec => []TypeOK
<1>1. Inv => TypeOK
  BY DEF Inv
<1> QED
  BY <1>1, InvAlways, PTL

\* For any number of plugins and process ids, the monitor never loses a
\* process, starts a plugin twice, or has another plugin's process id.
THEOREM OneProcessEach == Spec => []EntriesAreProcesses
<1>1. Inv => EntriesAreProcesses
  BY DEF Inv
<1> QED
  BY <1>1, InvAlways, PTL

\* A process that is sent SIGKILL was itself sent SIGTERM and then SIGINT: no
\* process goes on with the kill status of another.
THEOREM KillsAreDeserved == Spec => []KilledInItsOwnRight
<1>1. Inv => KilledInItsOwnRight
  BY DEF Inv, StatusIsHistory, Tells, KilledInItsOwnRight
<1> QED
  BY <1>1, InvAlways, PTL
=============================================================================
