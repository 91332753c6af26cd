--------------------------- MODULE MessageManager ---------------------------
(***************************************************************************)
(* TmxMessageManager with its ThreadGroup of LockFreeThreads: a plugin's   *)
(* threads hand messages to a group of workers, each with a queue in and a *)
(* queue out; one output thread broadcasts what the workers queue and      *)
(* takes back the assignment of a source to a worker when the message's    *)
(* clean-up entry arrives.                                                 *)
(*                                                                         *)
(* A source is the pair of group and id (Keys), Zero the pair 0:0 that     *)
(* ignores assignments.  The assignment's count, its threadId and the      *)
(* worker's queue are written in separate steps, as the code does, without *)
(* a lock.  Threads are counted from 0, as in the code; position i + 1 of  *)
(* group is thread i of the deque.                                         *)
(*                                                                         *)
(* A worker's queue in is boost's spsc_queue: a ring of Capacity + 1 slots *)
(* with the index of the next read and of the next write.  inQ has the     *)
(* slots from the one to the other, which is what the worker will take,    *)
(* old the rest of the ring in order.  A push reads the write index, fills *)
(* its slot and stores the index after it in steps of its own, as nothing  *)
(* keeps two producers apart.                                              *)
(***************************************************************************)
EXTENDS Integers, Sequences, FiniteSets, SequencesExt

CONSTANTS
    Producers,      \* threads of the plugin that call IncomingMessage
    Keys,           \* the sources: pairs of group and id
    Zero,           \* the pair 0:0
    Sizes,          \* the values NumberWorkerThreads takes, in order
    Strategies,     \* "RoundRobin", and "Any" for Random and ShortestQueue
    Overflow,       \* incoming queue overflow, 0 for none
    Capacity,       \* of the lock-free queues
    MaxMessages,    \* bound on the messages handed in and queued for output
    Stops           \* TRUE if the plugin may call Stop

NoThread == -1      \* no thread: threadId -1; in a process's hands: nothing

ASSUME ManagerAssumption ==
    /\ IsFiniteSet(Producers)
    /\ Zero \in Keys /\ NoThread \notin Keys
    /\ Strategies \subseteq {"RoundRobin", "Any"} /\ Stops \in BOOLEAN
    /\ Sizes \in Seq(Nat \ {0}) /\ Len(Sizes) > 0
    /\ \A i \in DOMAIN Sizes : Sizes[i] <= Sizes[Len(Sizes)]
    /\ Overflow \in Nat /\ Capacity \in Nat \ {0}
    /\ MaxMessages \in Nat

Workers == 1 .. Sizes[Len(Sizes)]
Runs    == 1 .. Len(Sizes)      \* how often a worker's process can be started

VARIABLES
    configured,     \* how many of Sizes the configuration has gone through
    group,          \* _threads: the workers of the deque, in order
    starts,         \* starts[w]: processes started on worker w
    inQ, outQ,      \* the queues of each worker
    old,            \* the other slots of inQ's ring, what was popped last, last
    inSize,         \* _inSize of each worker
    loaded,         \* each producer's push: the worker, and how far the write
                    \* index it read is from the read index
    work,           \* work[w][r]: what process r of worker w is handling
    count, threadId,\* the assignment of each source
    strategy, next, \* the assignment strategy, round robin's next thread
    prod,           \* each producer: where it is in assign, key and thread
    sent, outputs,  \* messages handed in, messages queued for output so far
    lost,           \* history: the sources that lost a message or a clean-up
    overlap,        \* history: two pushes to one queue were made at once
    out,            \* the output thread: where it is, its loop index, its key
    stop            \* Stop: not called, stopping workers, joining, returned

producerVars == <<count, threadId, strategy, next, prod, sent>>
workerVars   == <<starts, work, outputs>>
ringVars     == <<old, inSize, loaded, overlap>>
queueVars    == <<inQ, outQ, lost, ringVars>>
managerVars == <<configured, group, producerVars, workerVars, queueVars, out, stop>>

size == Len(group)
Idle == [pc |-> "idle", key |-> Zero, tId |-> NoThread]
NoWork == [r \in Runs |-> NoThread]
NoPush == [to |-> NoThread, at |-> 0]
NeverUsed == [i \in 1 .. Capacity + 1 |-> NoThread]
Cleanup(k)  == [key |-> k, msg |-> FALSE]
Outgoing    == [key |-> Zero, msg |-> TRUE]

ManagerInit ==
    /\ configured = 0 /\ group = <<>>
    /\ starts = [w \in Workers |-> 0] /\ work = [w \in Workers |-> NoWork]
    /\ inQ = [w \in Workers |-> <<>>] /\ outQ = [w \in Workers |-> <<>>]
    /\ old = [w \in Workers |-> NeverUsed] /\ inSize = [w \in Workers |-> 0]
    /\ loaded = [p \in Producers |-> NoPush] /\ overlap = FALSE
    /\ count = [k \in Keys |-> 0] /\ threadId = [k \in Keys |-> NoThread]
    /\ strategy \in Strategies /\ next = 0
    /\ prod = [p \in Producers |-> Idle] /\ sent = 0 /\ outputs = 0 /\ lost = {}
    /\ out = [pc |-> "none", i |-> 0, key |-> Zero] /\ stop = "no"

-----------------------------------------------------------------------------
(* Start, called at registration and when the configuration grows.  *)

\* Mutant: the loop starts one thread short.
Started_Short(n) == 2 .. n - size

\* set_size(n): as many threads are started as are added, from the first on.
Started(n) == 1 .. n - size

Start ==
    /\ stop \in {"no", "done"} /\ configured < Len(Sizes)
    /\ Sizes[configured + 1] > size
    /\ LET n   == Sizes[configured + 1]
       IN  /\ group' = group \o [i \in 1 .. n - size |-> size + i]
           /\ starts' = [w \in Workers |->
                           IF w \in Started(n) THEN starts[w] + 1 ELSE starts[w]]
    /\ configured' = configured + 1
    /\ out' = IF out.pc = "none" THEN [out EXCEPT !.pc = "check"] ELSE out
    /\ UNCHANGED <<producerVars, work, outputs, queueVars, stop>>

\* OnConfigChanged and OnStateChange.
set_strategy ==
    /\ \E s \in Strategies \ {strategy} : strategy' = s
    /\ UNCHANGED <<configured, group, count, threadId, next, prod, sent,
                   workerVars, queueVars, out, stop>>

-----------------------------------------------------------------------------
(* IncomingMessage and ThreadGroup::assign, one step per shared access.    *)

At(p, pc) == prod[p].pc = pc
Goto(p, pc) == prod' = [prod EXCEPT ![p].pc = pc]
UnchangedByAssign == UNCHANGED <<configured, group, strategy, workerVars, out, stop>>

\* Mutant: the source is counted only once its message is queued.
CountIn_Late(k) == count

\* Counted before the assignment is looked at, so that it cannot be freed.
CountIn(k) == [count EXCEPT ![k] = @ + 1]

AssignBegin(p) ==
    /\ At(p, "idle") /\ size > 0 /\ sent + outputs < MaxMessages
    /\ \E k \in Keys :
          /\ count' = CountIn(k)
          /\ prod' = [prod EXCEPT ![p] = [pc |-> "read", key |-> k, tId |-> NoThread]]
    /\ sent' = sent + 1
    /\ UNCHANGED <<threadId, next, queueVars>> /\ UnchangedByAssign

AssignRead(p) ==
    LET k == prod[p].key
    IN  /\ At(p, "read")
        /\ IF threadId[k] = NoThread \/ k = Zero
             THEN Goto(p, "choose")
             ELSE prod' = [prod EXCEPT ![p].pc = "push", ![p].tId = threadId[k]]
        /\ UNCHANGED <<count, threadId, next, sent, queueVars>> /\ UnchangedByAssign

\* Random and ShortestQueue may give any thread: the queues that are
\* compared one after the other change meanwhile.  Of no threads, the first.
AnyThread == IF size = 0 THEN {0} ELSE 0 .. size - 1

AssignChoose(p) ==
    /\ At(p, "choose")
    /\ IF strategy = "RoundRobin"
         THEN prod' = [prod EXCEPT ![p].pc = "bump", ![p].tId = next]
         ELSE \E t \in AnyThread :
                prod' = [prod EXCEPT ![p].pc = "write", ![p].tId = t]
    /\ UNCHANGED <<count, threadId, next, sent, queueVars>> /\ UnchangedByAssign

Beyond(n) == n >= size

\* ++next >= size
AssignBump(p) ==
    /\ At(p, "bump")
    /\ next' = next + 1
    /\ Goto(p, IF Beyond(next + 1) THEN "reset" ELSE "write")
    /\ UNCHANGED <<count, threadId, sent, queueVars>> /\ UnchangedByAssign

AssignReset(p) ==
    /\ At(p, "reset")
    /\ next' = 0 /\ Goto(p, "write")
    /\ UNCHANGED <<count, threadId, sent, queueVars>> /\ UnchangedByAssign

AssignWrite(p) ==
    /\ At(p, "write")
    /\ threadId' = [threadId EXCEPT ![prod[p].key] = prod[p].tId]
    /\ Goto(p, "push")
    /\ UNCHANGED <<count, next, sent, queueVars>> /\ UnchangedByAssign

Pushing(p) == prod[p].pc \in {"fill", "store"}
GivesUp(p) ==
    /\ lost' = lost \cup {prod[p].key}
    /\ prod' = [prod EXCEPT ![p] = Idle] /\ loaded' = [loaded EXCEPT ![p] = NoPush]
    /\ UNCHANGED <<inQ, old, inSize, overlap>>

\* The ring of w is r, and the index of the next write n slots after that of
\* the next read.  A slot that was never used may be read as any source.
SetRing(w, r, n) ==
    /\ \E g \in Keys :
          inQ' = [inQ EXCEPT ![w] = [i \in 1 .. n |-> IF r[i] = NoThread THEN g ELSE r[i]]]
    /\ old' = [old EXCEPT ![w] = [i \in 1 .. Capacity + 1 - n |-> r[n + i]]]
Ring(w) ==
    [i \in 1 .. Capacity + 1 |->
       IF i <= Len(inQ[w]) THEN inQ[w][i] ELSE old[w][i - Len(inQ[w])]]

\* write_index is read.  A thread that the deque does not hold has no queue.
AssignLoad(p) ==
    LET t == prod[p].tId
        w == group[t + 1]
    IN  /\ At(p, "push")
        /\ \/ /\ t < size
              /\ loaded' = [loaded EXCEPT ![p] = [to |-> w, at |-> Len(inQ[w])]]
              /\ overlap' = (overlap \/ \E q \in Producers : Pushing(q) /\ loaded[q].to = w)
              /\ Goto(p, "fill")
              /\ UNCHANGED <<inQ, old, inSize, lost>>
           \/ t >= size /\ GivesUp(p)
        /\ UNCHANGED <<count, threadId, next, sent, outQ>> /\ UnchangedByAssign

\* The queue is full when the index after the one read is that of the next
\* read, otherwise the slot is filled.
AssignFill(p) ==
    LET w == loaded[p].to
        n == loaded[p].at
        fits == w \in ToSet(group) /\ n < Capacity
    IN  /\ At(p, "fill")
        /\ \/ /\ fits
              /\ SetRing(w, [Ring(w) EXCEPT ![n + 1] = prod[p].key], Len(inQ[w]))
              /\ Goto(p, "store")
              /\ UNCHANGED <<inSize, loaded, overlap, lost>>
           \/ ~fits /\ GivesUp(p)
        /\ UNCHANGED <<count, threadId, next, sent, outQ>> /\ UnchangedByAssign

\* write_index is set to the one after the index that was read, wherever it
\* is by now.
AssignStore(p) ==
    LET w == loaded[p].to
    IN  /\ At(p, "store")
        /\ \/ /\ w \in ToSet(group)
              /\ SetRing(w, Ring(w), (loaded[p].at + 1) % (Capacity + 1))
              /\ Goto(p, "count")
              /\ UNCHANGED <<inSize, loaded, overlap, lost>>
           \/ w \notin ToSet(group) /\ GivesUp(p)
        /\ UNCHANGED <<count, threadId, next, sent, outQ>> /\ UnchangedByAssign

\* The worker may have handled the message before it is counted.
AssignCount(p) ==
    /\ At(p, "count")
    /\ inSize' = [inSize EXCEPT ![loaded[p].to] = @ + 1]
    /\ prod' = [prod EXCEPT ![p] = Idle] /\ loaded' = [loaded EXCEPT ![p] = NoPush]
    /\ UNCHANGED <<count, threadId, next, sent, inQ, outQ, old, overlap, lost>>
    /\ UnchangedByAssign

AssignPush(p) == AssignLoad(p) \/ AssignFill(p) \/ AssignStore(p) \/ AssignCount(p)

AssignGoesOn(p) ==
    \/ AssignRead(p) \/ AssignChoose(p) \/ AssignBump(p)
    \/ AssignReset(p) \/ AssignWrite(p) \/ AssignPush(p)

Assign(p) == AssignBegin(p) \/ AssignGoesOn(p)

-----------------------------------------------------------------------------
(* A worker: LockFreeThread::process and RxThread::doWork.               *)

Busy(w) == {r \in Runs : work[w][r] # NoThread}
Free(w, r) == r <= starts[w] /\ r \notin Busy(w)

\* Two processes on one queue, made for one consumer, may both pop an item.
\* The slot that was read goes to the end of the ring; what a producer has
\* read of the write index is one slot nearer, all around the ring.
Pop(w) ==
    \/ /\ inQ' = [inQ EXCEPT ![w] = Tail(@)]
       /\ old' = [old EXCEPT ![w] = Append(@, Head(inQ[w]))]
       /\ loaded' = [p \in Producers |->
            IF loaded[p].to # w THEN loaded[p]
            ELSE [loaded[p] EXCEPT !.at = IF @ = 0 THEN Capacity ELSE @ - 1]]
    \/ starts[w] > 1 /\ UNCHANGED <<inQ, old, loaded>>

\* inQueueSize still counts what is being handled; below 0 it wraps around.
Overflows(w) == Overflow > 0 /\ (inSize[w] < 0 \/ inSize[w] > Overflow)

CanTake(w, r) == Free(w, r) /\ inQ[w] # <<>>

Take(w, r) ==
    /\ CanTake(w, r) /\ ~Overflows(w) /\ w \in ToSet(group)
    /\ work' = [work EXCEPT ![w][r] = Head(inQ[w])]
    /\ Pop(w)
    /\ UNCHANGED <<configured, group, producerVars, starts, outputs, outQ, lost, inSize,
                   overlap, out, stop>>

\* Dropped from the front, and nothing is queued for the clean-up.
Drop(w, r) ==
    /\ CanTake(w, r) /\ Overflows(w) /\ w \in ToSet(group)
    /\ Pop(w)
    /\ inSize' = [inSize EXCEPT ![w] = @ - 1]
    /\ lost' = lost \cup {Head(inQ[w])}
    /\ UNCHANGED <<configured, group, producerVars, workerVars, outQ, overlap, out, stop>>

\* push_out ignores that the queue is full; notify_one takes no lock.
PushOut(w, e) ==
    /\ IF Len(outQ[w]) < Capacity
         THEN outQ' = [outQ EXCEPT ![w] = Append(@, e)] /\ lost' = lost
         ELSE outQ' = outQ /\ lost' = lost \cup {e.key}
    /\ out' = IF out.pc = "wait" THEN [out EXCEPT !.pc = "check"] ELSE out

\* Mutant: a queued message carries the source of the message being handled.
OutgoingOf_Source(k) == [key |-> k, msg |-> TRUE]

OutgoingOf(k) == Outgoing

\* A handler calls OutgoingMessage, which queues on the worker it runs in.
Emit(w, r) ==
    /\ r \in Busy(w) /\ w \in ToSet(group) /\ sent + outputs < MaxMessages
    /\ PushOut(w, OutgoingOf(work[w][r]))
    /\ outputs' = outputs + 1
    /\ UNCHANGED <<configured, group, producerVars, starts, work, inQ, ringVars, stop>>

Finish(w, r) ==
    /\ r \in Busy(w) /\ w \in ToSet(group)
    /\ PushOut(w, Cleanup(work[w][r]))
    /\ work' = [work EXCEPT ![w][r] = NoThread]
    /\ inSize' = [inSize EXCEPT ![w] = @ - 1]
    /\ UNCHANGED <<configured, group, producerVars, starts, outputs, inQ, old, loaded,
                   overlap, stop>>

Worker(w, r) == Take(w, r) \/ Drop(w, r) \/ Emit(w, r) \/ Finish(w, r)

-----------------------------------------------------------------------------
(* The output thread: RunOutputThread.  Its loop condition is the name of  *)
(* a function, so the loop does not end.                                   *)

UnchangedByOutput ==
    UNCHANGED <<configured, group, strategy, next, prod, sent, workerVars, inQ, lost, ringVars,
                stop>>

\* Mutant: the last worker's queue is not looked at.
available_messages_Short == \E i \in 1 .. size - 1 : outQ[group[i]] # <<>>

available_messages == \E w \in ToSet(group) : outQ[w] # <<>>

OutCheck ==
    /\ out.pc = "check"
    /\ out' = IF available_messages THEN [out EXCEPT !.pc = "loop", !.i = 1]
                                    ELSE [out EXCEPT !.pc = "park"]
    /\ UNCHANGED <<count, threadId, outQ>> /\ UnchangedByOutput

\* From here on the condition variable has a waiter that can be notified.
OutPark ==
    /\ out.pc = "park"
    /\ out' = [out EXCEPT !.pc = "wait"]
    /\ UNCHANGED <<count, threadId, outQ>> /\ UnchangedByOutput

SpuriousWake ==
    /\ out.pc = "wait"
    /\ out' = [out EXCEPT !.pc = "check"]
    /\ UNCHANGED <<count, threadId, outQ>> /\ UnchangedByOutput

\* Mutant: the count of a source is taken back when it reaches one.
Released_Early(k) == count[k] = 2

\* unassign: what --count returned, 0 or not.  Below 0 it wraps around.
Released(k) == count[k] = 1

OutLoopEnds ==
    /\ out.pc = "loop" /\ out.i > size
    /\ out' = [out EXCEPT !.pc = "check"]
    /\ UNCHANGED <<count, threadId, outQ>> /\ UnchangedByOutput

OutSkip ==
    /\ out.pc = "loop" /\ out.i <= size /\ outQ[group[out.i]] = <<>>
    /\ out' = [out EXCEPT !.i = @ + 1]
    /\ UNCHANGED <<count, threadId, outQ>> /\ UnchangedByOutput

\* One entry of each worker: it is broadcast if it is a message; then
\* Cleanup, for a message too.
OutPop ==
    /\ out.pc = "loop" /\ out.i <= size /\ outQ[group[out.i]] # <<>>
    /\ LET w == group[out.i]
           k == Head(outQ[w]).key
       IN  /\ outQ' = [outQ EXCEPT ![w] = Tail(@)]
           /\ count' = [count EXCEPT ![k] = @ - 1]
           /\ out' = IF Released(k) THEN [out EXCEPT !.pc = "clear", !.key = k]
                                    ELSE [out EXCEPT !.i = @ + 1]
    /\ UNCHANGED threadId /\ UnchangedByOutput

\* The second half of unassign.
OutClear ==
    /\ out.pc = "clear"
    /\ threadId' = [threadId EXCEPT ![out.key] = NoThread]
    /\ out' = [out EXCEPT !.pc = "loop", !.i = @ + 1]
    /\ UNCHANGED <<count, outQ>> /\ UnchangedByOutput

Output == OutCheck \/ OutPark \/ OutLoopEnds \/ OutSkip \/ OutPop \/ OutClear

-----------------------------------------------------------------------------
(* Stop, called when the plugin is destroyed; it keeps the lock of Start.  *)

StopBegin ==
    /\ Stops /\ stop = "no" /\ stop' = "workers"
    /\ UNCHANGED <<configured, group, producerVars, workerVars, queueVars, out>>

\* The process started last is joined; the thread goes with its queues.
StopWorker ==
    /\ stop = "workers" /\ group # <<>>
    /\ LET w == Head(group)
       IN  /\ \A r \in Busy(w) : r # starts[w]
           /\ inQ' = [inQ EXCEPT ![w] = <<>>] /\ outQ' = [outQ EXCEPT ![w] = <<>>]
           /\ old' = [old EXCEPT ![w] = NeverUsed] /\ inSize' = [inSize EXCEPT ![w] = 0]
           /\ work' = [work EXCEPT ![w] = NoWork]
           /\ starts' = [starts EXCEPT ![w] = 0]
    /\ group' = Tail(group)
    /\ UNCHANGED <<configured, producerVars, outputs, lost, loaded, overlap, out, stop>>

StopJoin ==
    /\ stop = "workers" /\ group = <<>>
    /\ stop' = "join"
    /\ UNCHANGED <<configured, group, producerVars, workerVars, queueVars, out>>

\* The output thread never ends; one that was never created is not joined.
StopReturns ==
    /\ stop = "join" /\ out.pc = "none"
    /\ stop' = "done"
    /\ UNCHANGED <<configured, group, producerVars, workerVars, queueVars, out>>

Stop == StopBegin \/ StopWorker \/ StopJoin \/ StopReturns

-----------------------------------------------------------------------------
ManagerNext ==
    \/ Start \/ set_strategy \/ Output \/ SpuriousWake \/ Stop
    \/ \E p \in Producers : Assign(p)
    \/ \E w \in Workers, r \in Runs : Worker(w, r)

ManagerSpec == ManagerInit /\ [][ManagerNext]_managerVars

\* Each thread goes on while it can; no handler has to queue a message, no
\* plugin has to hand one in, and nothing wakes a waiter without reason.
ManagerFairness ==
    /\ WF_managerVars(Output) /\ WF_managerVars(StopWorker \/ StopJoin \/ StopReturns)
    /\ \A p \in Producers : WF_managerVars(AssignGoesOn(p))
    /\ \A w \in Workers, r \in Runs : WF_managerVars(Take(w, r) \/ Drop(w, r) \/ Finish(w, r))
ManagerFairSpec == ManagerSpec /\ ManagerFairness
-----------------------------------------------------------------------------
\* The messages of source k, one by one: handed in and not yet queued, queued,
\* in a process's hands; and the entries of a queue Q that are e.
Handing(k)  == {p \in Producers : prod[p].pc \notin {"idle", "count"} /\ prod[p].key = k}
Slots(Q, e) == {s \in Workers \X (1 .. Capacity) : s[2] <= Len(Q[s[1]]) /\ Q[s[1]][s[2]] = e}
Handling(k) == {s \in Workers \X Runs : work[s[1]][s[2]] = k}

\* How many messages of source k are not yet cleaned up.
Active(k) == Cardinality(Handing(k)) + Cardinality(Slots(inQ, k))
                + Cardinality(Handling(k)) + Cardinality(Slots(outQ, Cleanup(k)))

\* The queues are used as they are made to be used: no two pushes to one of
\* them were made at once, and its worker was started once.
Undisturbed == ~overlap /\ configured <= 1

\* How far the round robin's index can be beyond the last thread: as many
\* producers but one as can be between their increment and their reset.
Overshoot == Cardinality(Producers) - 1

ManagerTypeOK ==
    /\ configured \in 0 .. Len(Sizes) /\ group \in Seq(Workers)
    /\ starts \in [Workers -> 0 .. Len(Sizes)]
    /\ \A w \in Workers :
          /\ Len(inQ[w]) <= Capacity /\ Len(outQ[w]) <= Capacity
          /\ inQ[w] \in Seq(Keys) /\ outQ[w] \in Seq([key : Keys, msg : BOOLEAN])
          /\ old[w] \in Seq(Keys \cup {NoThread})
          /\ Len(inQ[w]) + Len(old[w]) = Capacity + 1 /\ inSize[w] \in Int
          /\ \A r \in Runs : work[w][r] \in Keys \cup {NoThread}
    /\ count \in [Keys -> Int]
    /\ Undisturbed => \A k \in Keys \ {Zero} : count[k] \in Nat
    /\ threadId \in [Keys -> {NoThread} \cup Nat]
    /\ stop = "no" => \A k \in Keys : threadId[k] \in {NoThread} \cup 0 .. size + Overshoot - 1
    /\ strategy \in Strategies /\ next \in Nat /\ sent + outputs \in 0 .. MaxMessages
    /\ lost \subseteq Keys
    /\ out.i \in Nat /\ out.key \in Keys
    /\ out.pc \in {"none", "check", "park", "wait", "loop", "clear"}
    /\ stop \in {"no", "workers", "join", "done"}
    /\ \A p \in Producers :
          /\ prod[p].pc \in {"idle", "read", "choose", "bump", "reset", "write", "push",
                            "fill", "store", "count"}
          /\ prod[p].key \in Keys /\ prod[p].tId \in {NoThread} \cup Nat
          /\ loaded[p].to \in Workers \cup {NoThread} /\ loaded[p].at \in 0 .. Capacity
    /\ overlap \in BOOLEAN

\* "Need this here to ensure no pre-mature free up of the thread ID"
\* (ThreadGroup.h): the count of a source is never below the messages of it
\* that are in someone's hands, so that no assignment is released early.
\* This is as long as no two pushes to one queue overlap: after that a worker
\* may take an entry again that was cleaned up before (CountNeverWraps).
CountCovers == Undisturbed => \A k \in Keys \ {Zero} : count[k] >= Active(k)

\* The least that the comment asks of all states, two producers or not: the
\* count of a source is not taken below 0.
CountNeverWraps == \A k \in Keys \ {Zero} : count[k] >= 0

Unassigned(k) == count[k] = 0 /\ threadId[k] = NoThread
Gone(k) == Active(k) = 0 /\ out.pc # "clear"

\* TmxMessageManager::Cleanup unlinks a source from its thread: once no
\* message of it is left anywhere and none was lost on the way, it has no
\* assignment and no count, as long as no two pushes to one queue overlap.
AssignmentReleased ==
    stop = "no" /\ Undisturbed =>
        \A k \in Keys \ ({Zero} \cup lost) : Gone(k) => Unassigned(k)

\* "push a message to clean up for this thread assignment" (doWork): that goes
\* for every message a worker takes.
AssignmentNeverKept ==
    stop = "no" => \A k \in Keys \ {Zero} : Gone(k) => Unassigned(k)

\* ThreadGroup::assign never indexes past the deque: whatever the strategies
\* of concurrent callers do to next, the thread given exists.
ThreadExists ==
    stop = "no" => \A p \in Producers :
        prod[p].pc \in {"write", "push"} => prod[p].tId < size

\* "all active messages from the same source will be assigned to the same
\* thread to ensure correct ordering" (TmxMessageManager.h).
OneThreadPerSource ==
    \A k \in Keys \ {Zero} :
        Cardinality({s[1] : s \in Slots(inQ, k) \cup Handling(k)}) <= 1

\* "uses single-producer and single-consumer lock-free queues"
\* (LockFreeThread.h): one thread at a time pushes to a worker.
OneProducerPerQueue == ~overlap

\* "new threads added to te group will be automatically started"
\* (ThreadGroup.h, set_size): each worker of the group has its one process.
AllStarted == \A w \in ToSet(group) : starts[w] = 1

\* LockFreeThread::process: a worker's queue is worked off, whatever the
\* other workers, the handlers and the output thread do.
InputServed == \A w \in Workers : inQ[w] # <<>> ~> inQ[w] = <<>>

\* An output thread that is awake goes on until it has found every queue
\* empty, that of each worker included.
AwakeDelivers ==
    \A w \in Workers : out.pc = "check" /\ outQ[w] # <<>> ~> outQ[w] = <<>>

\* "broadcast any message that was created" (RunOutputThread): what a worker
\* has queued is broadcast some time.
OutputDelivered == \A w \in Workers : outQ[w] # <<>> ~> outQ[w] = <<>>

\* TmxMessageManager.h says Stop stops the manager's threads and is called when
\* the object is destroyed: a call of it returns.
StopCompletes == stop = "workers" ~> stop = "done"
=============================================================================
