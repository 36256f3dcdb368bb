------------------------------ MODULE Scheduler ------------------------------
(***************************************************************************)
(* server/scheduler.py in full: the queue behind _queue_lock, the agent    *)
(* slots, the worker loop, the run threads it starts, enqueue and cancel   *)
(* called from request threads, and the queue file.                        *)
(*                                                                         *)
(* _priority_score depends on age, fatigue and reputation, which change    *)
(* between two sorts: the order is left open, so any queued command with a *)
(* free slot may be first.  Sorting is a step of its own because CPython   *)
(* empties a list while it sorts it, and cancel serialises the list        *)
(* without the lock.                                                       *)
(***************************************************************************)
EXTENDS Naturals, FiniteSets, BridgeFiles

CONSTANTS
    Handlers, Worker, NoThread,
    Bases, BaseOf,      \* agent bases, and the one each command's unit has
    Limit,              \* AGENT_CONCURRENCY
    Cancels,            \* do handlers cancel?
    MaxFaults, MaxCrashes

Threads == Handlers \cup {Worker}

ASSUME SchedulerAssumption ==
    /\ Worker \notin Handlers
    /\ NoThread \notin Threads
    /\ BaseOf \in [Cmds -> Bases]
    /\ Limit \in [Bases -> Nat \ {0}]
    /\ Cancels \in BOOLEAN
    /\ MaxFaults \in Nat
    /\ MaxCrashes \in Nat

VARIABLES
    pc, arg,        \* per thread
    queueLock,      \* holder of _queue_lock
    leases,         \* _leases: slots taken per agent base
    running,        \* commands whose run thread is alive
    submitted,      \* ids handed to enqueue so far
    faults, crashes,
    runs            \* history: run threads started per command

budget == <<faults, crashes>>

vars == <<log, queueVars, pc, arg, queueLock, leases, running, submitted, budget, runs>>

TypeOK ==
    /\ LogTypeOK
    /\ QueueTypeOK
    /\ pc \in [Threads -> {"idle", "sorting", "starting", "cxlLog", "cxlDump"}]
    /\ arg \in [Threads -> Cmds \cup {NoCmd}]
    /\ queueLock \in Threads \cup {NoThread}
    /\ leases \in [Bases -> Nat]
    /\ running \subseteq Cmds
    /\ submitted \subseteq Cmds
    /\ faults \in Nat
    /\ crashes \in Nat
    /\ runs \in [Cmds -> Nat]

Init ==
    /\ LogInit
    /\ QueueInit
    /\ pc = [t \in Threads |-> "idle"]
    /\ arg = [t \in Threads |-> NoCmd]
    /\ queueLock = NoThread
    /\ leases = [b \in Bases |-> 0]
    /\ running = {}
    /\ submitted = {}
    /\ faults = 0
    /\ crashes = 0
    /\ runs = [c \in Cmds |-> 0]

-----------------------------------------------------------------------------
Goto(t, l, c) ==
    /\ pc' = [pc EXCEPT ![t] = l]
    /\ arg' = [arg EXCEPT ![t] = c]

Io(ok) ==
    /\ ok \/ faults < MaxFaults
    /\ faults' = IF ok THEN faults ELSE faults + 1

Sorting == queueLock # NoThread

\* Slips of SlotFree: one run too many; a busy agent stops every other.
SlotFreeAtLimit(b) == leases[b] <= Limit[b]
SlotFreeEverywhere(b) == \A x \in Bases : leases[x] < Limit[x]

SlotFree(b) == leases[b] < Limit[b]

Acquired(b) == [leases EXCEPT ![b] = @ + 1]

Released(b) == [leases EXCEPT ![b] = IF @ = 0 THEN 0 ELSE @ - 1]

-----------------------------------------------------------------------------
(* enqueue_dict: check, append and sort, then the dump, all in the lock.   *)
(* Its callers pass a fresh id, or replay one before the worker exists.    *)

EnqueueAppend(t, c) ==
    /\ pc[t] = "idle" /\ queueLock = NoThread
    /\ c \notin submitted
    /\ submitted' = submitted \cup {c}
    /\ IF HasQueued(c)
       THEN UNCHANGED <<queue, pc, arg, queueLock>>
       ELSE /\ queue' = queue \cup {c}
            /\ queueLock' = t
            /\ Goto(t, "sorting", c)
    /\ UNCHANGED <<log, queueDisk, leases, running, budget, runs>>

EnqueueDump(t, ok) ==
    /\ t \in Handlers /\ pc[t] = "sorting"
    /\ Io(ok)
    /\ queueDisk' = IF ok THEN queue ELSE queueDisk
    /\ queueLock' = NoThread
    /\ Goto(t, "idle", NoCmd)
    /\ UNCHANGED <<log, queue, leases, running, submitted, crashes, runs>>

-----------------------------------------------------------------------------
(* cancel: the filter in the lock; the event and the dump outside it.      *)

CancelRemove(t, c) ==
    /\ Cancels /\ pc[t] = "idle" /\ queueLock = NoThread
    /\ c \in queue
    /\ queue' = queue \ {c}
    /\ Goto(t, "cxlLog", c)
    /\ UNCHANGED <<log, queueDisk, queueLock, leases, running, submitted, budget, runs>>

CancelLog(t, ok) ==
    /\ pc[t] = "cxlLog"
    /\ Io(ok)
    /\ log' = IF ok THEN Recorded({arg[t]}, "Failed") ELSE log
    /\ IF ok THEN Goto(t, "cxlDump", arg[t]) ELSE Goto(t, "idle", NoCmd)
    /\ UNCHANGED <<queueVars, queueLock, leases, running, submitted, crashes, runs>>

\* While another thread sorts, the list yields any part of itself, or nothing.
CancelDump(t, ok) ==
    /\ pc[t] = "cxlDump"
    /\ Io(ok)
    /\ \/ ok /\ ~Sorting /\ queueDisk' = queue
       \/ ok /\ Sorting /\ queueDisk' \in SUBSET queue
       \/ ~ok /\ UNCHANGED queueDisk
    /\ Goto(t, "idle", NoCmd)
    /\ UNCHANGED <<log, queue, queueLock, leases, running, submitted, crashes, runs>>

-----------------------------------------------------------------------------
(* _dispatch_next and the run thread.                                      *)

DispatchSort ==
    /\ pc[Worker] = "idle" /\ queueLock = NoThread
    /\ queueLock' = Worker
    /\ Goto(Worker, "sorting", NoCmd)
    /\ UNCHANGED <<log, queueVars, leases, running, submitted, budget, runs>>

\* The first command that gets a slot is popped and the file rewritten.  When
\* that raises, the slot stays taken and the command is in memory no more.
DispatchPop(c, ok) ==
    /\ pc[Worker] = "sorting"
    /\ SlotFree(BaseOf[c])
    /\ Io(ok)
    /\ PopQueued(c, ok)
    /\ leases' = Acquired(BaseOf[c])
    /\ queueLock' = NoThread
    /\ IF ok THEN Goto(Worker, "starting", c) ELSE Goto(Worker, "idle", NoCmd)
    /\ UNCHANGED <<log, running, submitted, crashes, runs>>

DispatchNone ==
    /\ pc[Worker] = "sorting"
    /\ \A c \in queue : ~SlotFree(BaseOf[c])
    /\ queueLock' = NoThread
    /\ Goto(Worker, "idle", NoCmd)
    /\ UNCHANGED <<log, queueVars, leases, running, submitted, budget, runs>>

\* record_started, outside the lock; when it raises no run thread is started
\* and nothing gives the slot back.
StartRun(ok) ==
    LET c == arg[Worker] IN
    /\ pc[Worker] = "starting"
    /\ Io(ok)
    /\ IF ok
       THEN /\ log' = Recorded({c}, "Started")
            /\ running' = running \cup {c}
            /\ runs' = [runs EXCEPT ![c] = @ + 1]
       ELSE UNCHANGED <<log, running, runs>>
    /\ Goto(Worker, "idle", NoCmd)
    /\ UNCHANGED <<queueVars, queueLock, leases, submitted, crashes>>

\* The dispatcher returns or raises; the slot is released in a finally block.
RunEnds(c, event) ==
    /\ c \in running
    /\ running' = running \ {c}
    /\ leases' = Released(BaseOf[c])
    /\ log' = IF event = "none" THEN log ELSE Recorded({c}, event)
    /\ UNCHANGED <<queueVars, pc, arg, queueLock, submitted, budget, runs>>

-----------------------------------------------------------------------------
\* The process dies and is started again: slots and memory are new, commands
\* that were started are marked failed, the queue comes from the file.
Restart ==
    /\ crashes < MaxCrashes
    /\ crashes' = crashes + 1
    /\ queue' = queueDisk
    /\ pc' = [t \in Threads |-> "idle"]
    /\ arg' = [t \in Threads |-> NoCmd]
    /\ queueLock' = NoThread
    /\ leases' = [b \in Bases |-> 0]
    /\ running' = {}
    /\ log' = Recorded(Hung, "Failed")
    /\ UNCHANGED <<queueDisk, submitted, faults, runs>>

HandlerStep(t) ==
    \/ \E c \in Cmds : EnqueueAppend(t, c) \/ CancelRemove(t, c)
    \/ \E ok \in BOOLEAN : EnqueueDump(t, ok) \/ CancelLog(t, ok) \/ CancelDump(t, ok)

WorkerStep ==
    \/ DispatchSort \/ DispatchNone
    \/ \E c \in Cmds, ok \in BOOLEAN : DispatchPop(c, ok)
    \/ \E ok \in BOOLEAN : StartRun(ok)

RunStep(b) ==
    \E c \in {d \in Cmds : BaseOf[d] = b}, event \in {"Completed", "Failed", "none"} :
        RunEnds(c, event)

Next ==
    \/ \E t \in Handlers : HandlerStep(t)
    \/ WorkerStep
    \/ \E b \in Bases : RunStep(b)
    \/ Restart

Spec == Init /\ [][Next]_vars

-----------------------------------------------------------------------------
\* Requests that began end, the worker loop goes round, locks are handed over.
ThreadFairness ==
    /\ \A t \in Handlers : WF_vars(pc[t] # "idle" /\ HandlerStep(t))
    /\ WF_vars(pc[Worker] # "idle" /\ WorkerStep)
    /\ SF_vars(DispatchSort)
    /\ \A c \in Cmds : SF_vars(\E ok \in BOOLEAN : DispatchPop(c, ok))

\* The runs of the agents of B end.
RunFairness(B) == \A b \in B : WF_vars(RunStep(b))

FairSpec == Spec /\ ThreadFairness /\ RunFairness(Bases)

\* Agents that never finish, except those of the bases in Prompt.
CONSTANT Prompt
HangingSpec == Spec /\ ThreadFairness /\ RunFairness(Prompt)

-----------------------------------------------------------------------------
RunsOf(b) == {c \in running : BaseOf[c] = b}

\* No agent runs more missions at once than its limit, whatever raises.
ConcurrencyBounded == \A b \in Bases : Cardinality(RunsOf(b)) <= Limit[b]

\* A slot is taken exactly by a run, or by the command about to become one: none
\* is given back twice, none early, as long as no write fails (see QueuedIsServed).
SlotsMatchRuns ==
    faults = 0 => \A b \in Bases :
        leases[b] = Cardinality(RunsOf(b) \cup
            {c \in Cmds : pc[Worker] = "starting" /\ arg[Worker] = c /\ BaseOf[c] = b})

\* The file never holds a command that was started, so a restart cannot run it
\* again, though cancel writes the file without the queue lock.
StartedNotInFile ==
    \A c \in Cmds : "Started" \in log[c] => c \notin queue \cup queueDisk

\* The slots bound and count the runs, and what was started is in no queue a
\* restart would load, over failing writes, cancels and restarts (scheduler.py).
SlotsHold == TypeOK /\ ConcurrencyBounded /\ SlotsMatchRuns /\ StartedNotInFile

\* A busy agent does not block the others: a command of an agent whose runs end
\* leaves the queue although runs of other agents never end.
NoHeadOfLineBlocking ==
    \A c \in Cmds : c \in queue /\ BaseOf[c] \in Prompt ~> c \notin queue

---------------------------------------------------------------------------
(* What a document, a comment or a test says and this code does not keep    *)
(* (README, "Where the code differs").                                      *)

\* "Worker loop dispatches when slots are free" (scheduler.py:8): a queued
\* command does not stay queued for ever when runs end.
QueuedIsServed == \A c \in Cmds : c \in queue ~> c \notin queue
=============================================================================
