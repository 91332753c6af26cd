---------------------------- MODULE PluginMonitor ----------------------------
(***************************************************************************)
(* The thread that starts, watches and kills the plugins' processes        *)
(* (TmxCore/src/PluginMonitor.cpp), with the processes, the rows of the    *)
(* database it reads and writes, and the messages that are counted as the  *)
(* plugins' signs of life.                                                 *)
(*                                                                         *)
(* Time is kept as ages: how long ago a process was started or heard.  An  *)
(* age stops at MaxAge, beyond every limit it is compared with.            *)
(***************************************************************************)
EXTENDS Naturals

CONSTANTS
  Plugins,     \* the installed plugins
  Pids,        \* process ids; one is used again once its process is reaped
  Intervals,   \* the values of maxMessageInterval, 0 for no limit
  MaxStart,    \* "Max Startup Time (ms)"
  MaxAge,      \* where ages stop
  DbFails,     \* TRUE when calls of the database may throw DbException
  None         \* no process, no entry, no message, no plugin

ASSUME MonitorAssumption ==
  /\ MaxAge \in Nat
  /\ Intervals \subseteq 0..MaxAge
  /\ MaxStart \in 1..MaxAge
  /\ None \notin Plugins \cup Pids \cup Nat
  /\ DbFails \in BOOLEAN

VARIABLES
  enabled,         \* the installedPlugin rows with enabled = 1
  interval,        \* interval[p]: the row's maxMessageInterval
  status,          \* status[p]: the pluginStatus row with the empty key
  procs,           \* procs[i]: the process with the id i, or None
  connected,       \* the plugins with a PluginConnection that has registered
  mMessages,       \* mMessages[p]: the age of the last message of p that came
                   \* after the last check, or None
  mRunningPlugins, \* mRunningPlugins[p]: the monitor's entry, or None
  mPc,             \* where the monitor thread is
  enabledPlugins,  \* what getInstalledPlugins returned
  starting         \* the plugin just started, whose status is to be written

dbVars == <<enabled, interval, status>>
procVars == <<procs, connected>>
monitorVars == <<mRunningPlugins, mPc, enabledPlugins, starting>>
vars == <<dbVars, procVars, mMessages, monitorVars>>

Entries == [pid : Pids, startTime : 0..MaxAge, last : (0..MaxAge) \cup {None},
            killStatus : {"alive", "sigTermSent", "sigIntSent", "sigKillSent"},
            interval : Intervals]

\* A process: whose it is, how far it is, and the signals that were sent to it.
Processes == [of : Plugins, st : {"starting", "up", "dead"},
              signals : SUBSET {"SIGTERM", "SIGINT", "SIGKILL"}]

\* None is a value of its own.
ASSUME NoneAssumption == None \notin Entries /\ None \notin Processes

Running == {p \in Plugins : mRunningPlugins[p] # None}

Init ==
  /\ enabled \in SUBSET Plugins
  /\ interval \in [Plugins -> Intervals]
  /\ status = [p \in Plugins |-> "stopped"]
  /\ procs = [i \in Pids |-> None]
  /\ connected = {}
  /\ mMessages = [p \in Plugins |-> None]
  /\ mRunningPlugins = [p \in Plugins |-> None]
  /\ mPc = "sleep"
  /\ enabledPlugins = [p \in {} |-> 0]
  /\ starting = None

-----------------------------------------------------------------------------
(* Time, the administrator, the processes and the messages *)

Older(age) == IF age < MaxAge THEN age + 1 ELSE age

Tick ==
  /\ mMessages' = [p \in Plugins |->
       IF mMessages[p] = None THEN None ELSE Older(mMessages[p])]
  /\ mRunningPlugins' = [p \in Plugins |->
       IF mRunningPlugins[p] = None THEN None
       ELSE [mRunningPlugins[p] EXCEPT
               !.startTime = Older(@),
               !.last = IF @ = None THEN None ELSE Older(@)]]
  /\ UNCHANGED <<dbVars, procVars, mPc, enabledPlugins, starting>>

\* tmxctl or the web interface enables or disables a plugin.
AdminEnables(p) ==
  /\ enabled' = IF p \in enabled THEN enabled \ {p} ELSE enabled \cup {p}
  /\ UNCHANGED <<interval, status, procVars, mMessages, monitorVars>>

AdminSetsInterval(p) ==
  /\ \E v \in Intervals \ {interval[p]} :
       interval' = [interval EXCEPT ![p] = v]
  /\ UNCHANGED <<enabled, status, procVars, mMessages, monitorVars>>

\* The plugin connects and registers: the core sets its status.
PluginRegisters(i) ==
  /\ procs[i] # None
  /\ procs[i].st = "starting"
  /\ procs[i].of \notin connected
  /\ procs' = [procs EXCEPT ![i].st = "up"]
  /\ status' = [status EXCEPT ![procs[i].of] = "running"]
  /\ connected' = connected \cup {procs[i].of}
  /\ UNCHANGED <<enabled, interval, mMessages, monitorVars>>

\* A process ends by itself, by a crash, or because of a signal.
ProcessEnds(i) ==
  /\ procs[i] # None
  /\ procs[i].st # "dead"
  /\ procs' = [procs EXCEPT ![i].st = "dead"]
  /\ UNCHANGED <<dbVars, connected, mMessages, monitorVars>>

\* The connection of a process that ended is destroyed: ~Plugin.
ConnectionEnds(p) ==
  /\ p \in connected
  /\ \A i \in Pids : procs[i] # None /\ procs[i].of = p => procs[i].st # "up"
  /\ connected' = connected \ {p}
  /\ \/ status' = [status EXCEPT ![p] = "stopped"]
     \/ DbFails /\ UNCHANGED status
  /\ UNCHANGED <<enabled, interval, procs, mMessages, monitorVars>>

\* PluginMonitor::onMessageReceived, on a processor thread of the plugin's
\* connection, which may have messages of a process that already ended.
OnMessageReceived(p) ==
  /\ p \in connected
  /\ mMessages' = [mMessages EXCEPT ![p] = 0]
  /\ UNCHANGED <<dbVars, procVars, monitorVars>>

-----------------------------------------------------------------------------
(* The loop of monitorThreadEntry *)

\* The loop over mMessages, under mMessagesLock.
FoldMessages ==
  /\ mPc = "sleep"
  /\ mRunningPlugins' = [p \in Plugins |->
       IF p \in Running /\ mMessages[p] # None
       THEN [mRunningPlugins[p] EXCEPT !.last = mMessages[p]]
       ELSE mRunningPlugins[p]]
  /\ mMessages' = [p \in Plugins |-> None]
  /\ mPc' = "query"
  /\ UNCHANGED <<dbVars, procVars, enabledPlugins, starting>>

QueryEnabled ==
  /\ mPc = "query"
  /\ enabledPlugins' = [p \in enabled |-> interval[p]]
  /\ mPc' = "reap"
  /\ UNCHANGED <<dbVars, procVars, mMessages, mRunningPlugins, starting>>

QueryFails ==
  /\ DbFails
  /\ mPc = "query"
  /\ mPc' = "sleep"
  /\ UNCHANGED <<dbVars, procVars, mMessages, mRunningPlugins,
                 enabledPlugins, starting>>

\* Mutant: the processes that ended are not waited for.
Ended_NoWaitpid(p) == FALSE

\* waitpid(pid, NULL, WNOHANG) finds that the process has ended.
Ended(p) == procs[mRunningPlugins[p].pid].st = "dead"

\* Mutant: a plugin that was sent SIGKILL is taken for dead.
Dead_AfterKill(p) ==
  Ended(p) \/ mRunningPlugins[p].killStatus = "sigKillSent"

\* kill(pid, 0) fails once the process has been waited for.
Dead(p) == Ended(p)

RemoveDead ==
  /\ mPc = "reap"
  /\ procs' = [i \in Pids |->
       IF \E p \in Running : mRunningPlugins[p].pid = i /\ Ended(p)
       THEN None ELSE procs[i]]
  /\ mRunningPlugins' = [p \in Plugins |->
       IF p \in Running /\ Dead(p) THEN None ELSE mRunningPlugins[p]]
  /\ mPc' = "escalate"
  /\ UNCHANGED <<dbVars, connected, mMessages, enabledPlugins, starting>>

\* Mutant: a plugin that was never heard has no limit.
ExceededStartup_Never(e) == FALSE

ExceededStartup(e) == e.last = None /\ e.startTime >= MaxStart

\* The entry's maxMessageInterval says whether there is a limit, the one just
\* read says which.
ExceededInterval(p, e) ==
  e.last # None /\ e.interval # 0 /\ e.last >= enabledPlugins[p]

\* Mutant: only the plugins that are enabled are checked.
KillIt_EnabledOnly(p, e) ==
  /\ p \in DOMAIN enabledPlugins
  /\ ExceededStartup(e) \/ ExceededInterval(p, e)

KillIt(p, e) ==
  \/ p \notin DOMAIN enabledPlugins
  \/ ExceededStartup(e)
  \/ ExceededInterval(p, e)

\* Mutant: SIGINT is the last signal that is sent.
NextKillStatus_NoKill(p, e) ==
  CASE e.killStatus = "sigTermSent" -> "sigIntSent"
    [] e.killStatus = "alive" /\ KillIt(p, e) -> "sigTermSent"
    [] OTHER -> e.killStatus

NextKillStatus(p, e) ==
  CASE e.killStatus = "sigTermSent" -> "sigIntSent"
    [] e.killStatus = "sigIntSent" -> "sigKillSent"
    [] e.killStatus = "alive" /\ KillIt(p, e) -> "sigTermSent"
    [] OTHER -> e.killStatus

\* The signal that goes with a new kill status.
SignalOf(s) ==
  CASE s = "sigTermSent" -> "SIGTERM"
    [] s = "sigIntSent" -> "SIGINT"
    [] s = "sigKillSent" -> "SIGKILL"

\* The signals sent to the process id i by a check.
SentTo(i) ==
  {SignalOf(NextKillStatus(p, mRunningPlugins[p])) :
     p \in {q \in Running :
             /\ mRunningPlugins[q].pid = i
             /\ NextKillStatus(q, mRunningPlugins[q])
                  \notin {"alive", mRunningPlugins[q].killStatus}}}

\* The switch on killStatus, one signal for a plugin and a check.
Escalate ==
  /\ mPc = "escalate"
  /\ mRunningPlugins' = [p \in Plugins |->
       IF p \in Running
       THEN [mRunningPlugins[p] EXCEPT
               !.killStatus = NextKillStatus(p, mRunningPlugins[p])]
       ELSE None]
  /\ procs' = [i \in Pids |->
       IF procs[i] = None THEN None
       ELSE [procs[i] EXCEPT !.signals = @ \cup SentTo(i)]]
  /\ mPc' = "start"
  /\ UNCHANGED <<dbVars, connected, mMessages, enabledPlugins, starting>>

ToStart == DOMAIN enabledPlugins \ Running

\* Mutant: the kill status of a new entry is not initialized.
NewEntry_Uninitialized(p, i) ==
  [pid |-> i, startTime |-> 0, last |-> None, killStatus |-> "sigIntSent",
   interval |-> enabledPlugins[p]]

NewEntry(p, i) ==
  [pid |-> i, startTime |-> 0, last |-> None, killStatus |-> "alive",
   interval |-> enabledPlugins[p]]

\* boost::process::execute succeeds.
StartPlugin(p) ==
  /\ mPc = "start"
  /\ starting = None
  /\ p \in ToStart
  /\ \E i \in Pids :
       /\ procs[i] = None
       /\ procs' = [procs EXCEPT
                      ![i] = [of |-> p, st |-> "starting", signals |-> {}]]
       /\ mRunningPlugins' = [mRunningPlugins EXCEPT ![p] = NewEntry(p, i)]
  /\ starting' = p
  /\ UNCHANGED <<dbVars, connected, mMessages, mPc, enabledPlugins>>

\* Mutant: without throw_on_error a child that could not be started gets an
\* entry, with no process id.
StartFails_Entered(p) ==
  /\ mPc = "start"
  /\ starting = None
  /\ p \in ToStart
  /\ mRunningPlugins' = [mRunningPlugins EXCEPT ![p] = NewEntry(p, None)]
  /\ starting' = p
  /\ UNCHANGED <<dbVars, procVars, mMessages, mPc, enabledPlugins>>

\* There is no executable, or execute throws: disableInstalledPlugin, and on
\* with the next plugin.
StartFails(p) ==
  /\ mPc = "start"
  /\ starting = None
  /\ p \in ToStart
  /\ enabledPlugins' = [q \in DOMAIN enabledPlugins \ {p} |-> enabledPlugins[q]]
  /\ \/ enabled' = enabled \ {p}
     \/ DbFails /\ UNCHANGED enabled
  /\ UNCHANGED <<interval, status, procVars, mMessages, mRunningPlugins, mPc,
                 starting>>

\* setPluginStatus(IVP_STATUS_STARTED), when the process already runs.
WriteStarted ==
  /\ mPc = "start"
  /\ starting # None
  /\ \/ status' = [status EXCEPT ![starting] = "started"]
     \/ DbFails /\ UNCHANGED status
  /\ starting' = None
  /\ UNCHANGED <<enabled, interval, procVars, mMessages, mRunningPlugins, mPc,
                 enabledPlugins>>

\* setStatusItems.  It throws when the database fails, nothing catches that,
\* and the exception ends the core.
Report ==
  /\ mPc = "start"
  /\ starting = None
  /\ ToStart = {}
  /\ \/ mPc' = "sleep"
     \/ DbFails /\ mPc' = "terminated"
  /\ enabledPlugins' = [p \in {} |-> 0]
  /\ UNCHANGED <<dbVars, procVars, mMessages, mRunningPlugins, starting>>
-----------------------------------------------------------------------------

Monitor ==
  \/ FoldMessages
  \/ QueryEnabled
  \/ QueryFails
  \/ RemoveDead
  \/ Escalate
  \/ \E p \in Plugins : StartPlugin(p) \/ StartFails(p)
  \/ WriteStarted
  \/ Report

Environment ==
  \/ Tick
  \/ \E p \in Plugins :
       \/ AdminEnables(p)
       \/ AdminSetsInterval(p)
       \/ ConnectionEnds(p)
       \/ OnMessageReceived(p)
  \/ \E i \in Pids : PluginRegisters(i) \/ ProcessEnds(i)

Next == mPc # "terminated" /\ (Monitor \/ Environment)

Killed(i) ==
  procs[i] # None /\ "SIGKILL" \in procs[i].signals /\ ProcessEnds(i)

Alive(A) == mPc # "terminated" /\ A

\* Time passes, the monitor thread runs, SIGKILL works, connections of dead
\* processes are destroyed, and the database does not fail for ever.  Nothing
\* makes a plugin start, send, stop or obey the other signals.
Fairness ==
  /\ WF_vars(Alive(Tick))
  /\ WF_vars(Alive(Monitor))
  /\ SF_vars(Alive(QueryEnabled))
  /\ \A i \in Pids : WF_vars(Alive(Killed(i)))
  /\ \A p \in Plugins : WF_vars(Alive(ConnectionEnds(p)))

Spec == Init /\ [][Next]_vars

FairSpec == Spec /\ Fairness

-----------------------------------------------------------------------------
(* Properties *)

\* The rows, the processes and the monitor's entries have the values the code
\* gives them.
TypeOK ==
  /\ enabled \subseteq Plugins
  /\ interval \in [Plugins -> Intervals]
  /\ status \in [Plugins -> {"stopped", "started", "running"}]
  /\ procs \in [Pids -> Processes \cup {None}]
  /\ connected \subseteq Plugins
  /\ mMessages \in [Plugins -> (0..MaxAge) \cup {None}]
  /\ mRunningPlugins \in [Plugins -> Entries \cup {None}]
  /\ mPc \in {"sleep", "query", "reap", "escalate", "start", "terminated"}
  /\ DOMAIN enabledPlugins \subseteq Plugins
  /\ \A p \in DOMAIN enabledPlugins : enabledPlugins[p] \in Intervals
  /\ starting \in Plugins \cup {None}

\* A plugin has one process at most, the one of its entry, and the entry's
\* process id is never another process's: the monitor does not lose a process,
\* start a second one, or signal one that is not its plugin's.
EntriesAreProcesses ==
  \A p \in Plugins, i \in Pids :
    (procs[i] # None /\ procs[i].of = p)
      <=> (p \in Running /\ mRunningPlugins[p].pid = i)

\* A process that was sent SIGKILL was itself sent SIGINT in an earlier check,
\* and SIGTERM in one before that: a new process does not go on with the kill
\* status of an earlier one that had its plugin or its process id, whatever
\* messages, exits, restarts and failing queries fall between the checks.
KilledInItsOwnRight ==
  \A i \in Pids : procs[i] # None =>
    /\ "SIGKILL" \in procs[i].signals => "SIGINT" \in procs[i].signals
    /\ "SIGINT" \in procs[i].signals => "SIGTERM" \in procs[i].signals

\* A plugin that was sent the first signal is gotten rid of, even when it
\* ignores every signal it can and the database fails now and then.
KillCompletes ==
  \A p \in Plugins :
    p \in Running /\ mRunningPlugins[p].killStatus # "alive" ~>
      \/ p \notin Running
      \/ mRunningPlugins[p].killStatus = "alive"
      \/ mPc = "terminated"

\* A disabled plugin is stopped, unless it is enabled again.
DisabledStops ==
  \A p \in Plugins :
    p \notin enabled ~>
      p \in enabled \/ p \notin Running \/ mPc = "terminated"

\* The process of an enabled plugin that ended is replaced, unless the plugin
\* is disabled or starting it failed.
EnabledRuns ==
  \A p \in Plugins :
    p \in enabled ~>
      \/ p \notin enabled
      \/ p \in Running /\ procs[mRunningPlugins[p].pid].st # "dead"
      \/ mPc = "start" /\ p \notin DOMAIN enabledPlugins
      \/ mPc = "terminated"

Silent(p) ==
  /\ p \in Running
  /\ LET e == mRunningPlugins[p] IN
       /\ e.killStatus = "alive"
       /\ IF e.last = None THEN e.startTime = MaxAge
          ELSE e.interval # 0 /\ e.last = MaxAge

\* A plugin that is not heard for longer than its limit, or has never been
\* heard for longer than the startup time, is sent a signal.
SilentIsSignalled == \A p \in Plugins : Silent(p) ~> ~Silent(p) \/ mPc = "terminated"

\* "Maximum allowed startup time of a plugin before it is rebooted."
\* (PluginMonitor.cpp, the description of "Max Startup Time (ms)"): a process
\* that is still starting after that time does not stay.
HungStartIsRebooted ==
  \A p \in Plugins, i \in Pids :
    /\ p \in Running
    /\ mRunningPlugins[p].pid = i
    /\ procs[i].st = "starting"
    /\ mRunningPlugins[p].startTime = MaxAge
    ~> \/ procs[i] = None
       \/ procs[i].st # "starting"
       \/ mPc = "terminated"

SignalledForSilence(p) ==
  /\ p \in Running
  /\ mRunningPlugins[p].last # None
  /\ mRunningPlugins[p].killStatus = "alive"
  /\ mRunningPlugins'[p] # None
  /\ mRunningPlugins'[p].killStatus = "sigTermSent"
  /\ p \in DOMAIN enabledPlugins

\* "has exceeded it's max message interval. Now restarting the plugin."
\* (PluginMonitor.cpp, the event log entry): the core has not received a
\* message from the plugin for that long.
RestartedWhenSilent ==
  [][\A p \in Plugins : SignalledForSilence(p) =>
       mMessages[p] = None \/ mMessages[p] >= enabledPlugins[p]]_vars

\* "Started, waiting for connection..." (tmx.h, IVP_STATUS_STARTED): a plugin
\* with this status is not connected.
StartedMeansWaiting ==
  \A p \in Plugins : status[p] = "started" => p \notin connected
=============================================================================
