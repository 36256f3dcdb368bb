-------------------------- MODULE ApprovalDelivery --------------------------
(***************************************************************************)
(* The durable approval delivery of the bridge: approval store, dispatch   *)
(* ledger, event log and scheduler queue, driven by the threads that share *)
(* them.                                                                   *)
(*                                                                         *)
(*   - Handlers: HTTP and WebSocket request threads (submit, approve,      *)
(*     reject, cancel), any number of them, each repeating any request;    *)
(*   - Worker: the scheduler loop (expiry sweep, dispatch) and, through    *)
(*     running, the run threads it starts;                                 *)
(*   - Boot: the main thread, which recovers what a crash left behind      *)
(*     before any other thread exists.                                     *)
(*                                                                         *)
(* A step is a section under one lock, or one durable write.  At most      *)
(* MaxFaults writes raise and the process dies at most MaxCrashes times.   *)
(***************************************************************************)
EXTENDS Naturals, FiniteSets, ApprovalStore

CONSTANTS
    Handlers, Worker, Boot, NoThread,
    Requests,       \* request kinds the handlers serve
    MaxFaults, MaxCrashes,
    TornDumps,      \* may cancel's unlocked dump meet a sort in progress?
    Blocked         \* commands whose policy decision is "rejected"

Threads == Handlers \cup {Worker, Boot}

ASSUME DeliveryAssumption ==
    /\ Worker \notin Handlers
    /\ Boot \notin Handlers
    /\ Worker # Boot
    /\ NoThread \notin Threads
    /\ Requests \subseteq {"approve", "reject", "cancel"}
    /\ MaxFaults \in Nat
    /\ MaxCrashes \in Nat
    /\ TornDumps \in BOOLEAN
    /\ Blocked \subseteq Cmds \ Gated

VARIABLES
    created,        \* ids submitted so far
    pc, arg,        \* per thread: where it is, for which command
    batch,          \* per thread: ids left in its recovery or cascade loop
    consumeLock,    \* holder of _consume_lock
    running,        \* commands whose run thread is alive
    faults, crashes,
    consumer,       \* history: what took the approval out of the store
    runs,           \* history: times a run thread was started for a command
    everQueued      \* history: ids that have been in scheduler-queue.json

threadVars == <<pc, arg, batch, consumeLock>>
historyVars == <<consumer, runs>>
budget == <<faults, crashes>>

vars == <<log, storeVars, ledger, queueVars, created, threadVars, running,
          budget, historyVars, everQueued>>

Labels == {"idle", "peek", "missing", "check", "unlink", "record", "popNew",
           "popOld", "claim", "audit", "enqueue", "done",
           "checkTaken", "unlinkTaken", "rejAudit",
           "cxlLog", "cxlDump", "cxlPop", "cxlReject", "cascade", "cascadeLog",
           "loop", "starting",
           "down", "hung", "reconcile", "scan", "replay", "up"}

Consumers == {"none", "approve", "reject", "cancel", "expiry"}

TypeOK ==
    /\ LogTypeOK
    /\ StoreTypeOK
    /\ LedgerTypeOK
    /\ QueueTypeOK
    /\ created \subseteq Cmds
    /\ pc \in [Threads -> Labels]
    /\ arg \in [Threads -> Cmds \cup {NoCmd}]
    /\ batch \in [Threads -> SUBSET Cmds]
    /\ consumeLock \in Threads \cup {NoThread}
    /\ running \subseteq Cmds
    /\ faults \in Nat
    /\ crashes \in Nat
    /\ consumer \in [Cmds -> Consumers]
    /\ runs \in [Cmds -> Nat]
    /\ everQueued \subseteq Cmds

Init ==
    /\ LogInit
    /\ StoreInit
    /\ LedgerInit
    /\ QueueInit
    /\ created = {}
    /\ pc = [t \in Threads |-> IF t = Boot THEN "down"
                               ELSE IF t = Worker THEN "loop" ELSE "idle"]
    /\ arg = [t \in Threads |-> NoCmd]
    /\ batch = [t \in Threads |-> {}]
    /\ consumeLock = NoThread
    /\ running = {}
    /\ faults = 0
    /\ crashes = 0
    /\ consumer = [c \in Cmds |-> "none"]
    /\ runs = [c \in Cmds |-> 0]
    /\ everQueued = {}

-----------------------------------------------------------------------------
(* Control: program counters, the fault budget, what a sweep costs.        *)

Up == pc[Boot] = "up"

Goto(t, l) == pc' = [pc EXCEPT ![t] = l]

GotoFor(t, l, c) == Goto(t, l) /\ arg' = [arg EXCEPT ![t] = c]

\* The call ends, normally or by an exception; _consume_lock is a with-block.
Home(t) == IF t = Boot THEN "replay" ELSE IF t = Worker THEN "loop" ELSE "idle"

Return(t) ==
    /\ GotoFor(t, Home(t), NoCmd)
    /\ consumeLock' = IF consumeLock = t THEN NoThread ELSE consumeLock

\* A durable operation succeeds, or raises within the budget.
Io(ok) ==
    /\ ok \/ faults < MaxFaults
    /\ faults' = IF ok THEN faults ELSE faults + 1

Mark(C, who) == [c \in Cmds |-> IF c \in C THEN who ELSE consumer[c]]

\* dispatch_approved runs in handlers and, for a replayed intent, in Boot.
Responders == Handlers \cup {Boot}

-----------------------------------------------------------------------------
(* resolve_approval(approved=True) and dispatch_approved.                  *)

\* _peek_pending: a handler answers a request, Boot replays an intent.
Peek(t, c, o) ==
    /\ \/ t \in Handlers /\ Up /\ pc[t] = "idle" /\ c \in created \cap Gated
          /\ "approve" \in Requests
       \/ t = Boot /\ pc[t] = "peek" /\ c = arg[t]
    /\ ExpireApprovals(o)
    /\ GotoFor(t, PeekResult(c, "record", "check", "missing"), c)
    /\ Io(Clean(o))
    /\ consumer' = Mark(o.gone, "expiry")
    /\ UNCHANGED <<ledger, queueVars, created, batch, consumeLock, running,
                   crashes, runs>>

\* No approval: an unclaimed intent is the only recoverable copy and is kept.
Missing(t) ==
    /\ pc[t] = "missing"
    /\ IF HasUnclaimedIntent(arg[t])
       THEN Return(t)
       ELSE Goto(t, "check") /\ UNCHANGED <<arg, consumeLock>>
    /\ UNCHANGED <<log, storeVars, ledger, queueVars, created, batch, running,
                   budget, historyVars>>

\* release_intent_if_unclaimed reads the state and unlinks in two steps.  Only
\* dispatch_approved calls it with the consume lock held.
ReleaseCheck(t) ==
    /\ pc[t] \in {"check", "checkTaken"}
    /\ \/ /\ HasUnclaimedIntent(arg[t])
          /\ Goto(t, IF pc[t] = "check" THEN "unlink" ELSE "unlinkTaken")
          /\ UNCHANGED <<arg, consumeLock>>
       \/ /\ ~HasUnclaimedIntent(arg[t])
          /\ IF pc[t] = "check" THEN Return(t)
             ELSE Goto(t, "rejAudit") /\ UNCHANGED <<arg, consumeLock>>
    /\ UNCHANGED <<log, storeVars, ledger, queueVars, created, batch, running,
                   budget, historyVars>>

\* An unlink that raises is logged and swallowed.
ReleaseUnlink(t, ok) ==
    /\ pc[t] \in {"unlink", "unlinkTaken"}
    /\ Io(ok)
    /\ IF ok THEN Unlink(arg[t]) ELSE UNCHANGED ledger
    /\ IF pc[t] = "unlink" THEN Return(t)
       ELSE Goto(t, "rejAudit") /\ UNCHANGED <<arg, consumeLock>>
    /\ UNCHANGED <<log, storeVars, queueVars, created, batch, running,
                   crashes, historyVars>>

\* Step 1: take the consume lock and make the intent durable.
RecordDispatchIntent(t, ok) ==
    /\ pc[t] = "record"
    /\ consumeLock = NoThread
    /\ ok \/ ~HasIntent(arg[t])
    /\ Io(ok)
    /\ IF ok
       THEN /\ RecordIntent(arg[t])
            /\ consumeLock' = t
            /\ Goto(t, IF HasIntent(arg[t]) THEN "popOld" ELSE "popNew")
            /\ UNCHANGED arg
       ELSE Return(t) /\ UNCHANGED ledger
    /\ UNCHANGED <<log, storeVars, queueVars, created, batch, running,
                   crashes, historyVars>>

\* Step 2: consume the approval.  Nothing to consume: a fresh intent is
\* released, one that was there before is left alone.
PopForDispatch(t, o, ok) ==
    LET c == arg[t] IN
    /\ pc[t] \in {"popNew", "popOld"}
    /\ Io(ok)
    /\ Clean(o) \/ ~ok
    /\ \/ /\ TakeApproval(c, o)
          /\ Goto(t, "claim")
          /\ consumer' = [Mark(o.gone, "expiry") EXCEPT ![c] = "approve"]
          /\ UNCHANGED <<arg, consumeLock>>
       \/ /\ c \in Usable /\ ~ok
          /\ ExpireApprovals(o)
          /\ consumer' = Mark(o.gone, "expiry")
          /\ Return(t)
       \/ /\ c \notin Usable
          /\ ExpireApprovals(o)
          /\ consumer' = Mark(o.gone, "expiry")
          /\ IF pc[t] = "popNew"
             THEN Goto(t, "check") /\ UNCHANGED <<arg, consumeLock>>
             ELSE Return(t)
    /\ UNCHANGED <<ledger, queueVars, created, batch, running, crashes, runs>>

\* Step 3: the durable claim; the consume lock ends here.
Claim(t, ok) ==
    /\ pc[t] = "claim"
    /\ ok \/ HasUnclaimedIntent(arg[t])
    /\ Io(ok)
    /\ IF ok
       THEN /\ ClaimIntent(arg[t])
            /\ consumeLock' = NoThread
            /\ Goto(t, "audit")
            /\ UNCHANGED arg
       ELSE Return(t) /\ UNCHANGED ledger
    /\ UNCHANGED <<log, storeVars, queueVars, created, batch, running,
                   crashes, historyVars>>

\* Step 4a: CommandApproved and CommandQueued.
AuditApproval(t, ok) ==
    /\ pc[t] = "audit"
    /\ Io(ok)
    /\ IF ok THEN Goto(t, "enqueue") /\ UNCHANGED <<arg, consumeLock>>
       ELSE Return(t)
    /\ UNCHANGED <<log, storeVars, ledger, queueVars, created, batch, running,
                   crashes, historyVars>>

\* Step 4b: the idempotent enqueue; recovery enters here for a consumed intent.
Enqueue(t, saved) ==
    /\ pc[t] = "enqueue"
    /\ saved \/ ~HasQueued(arg[t])
    /\ Io(saved)
    /\ EnqueueDict(arg[t], saved)
    /\ IF saved THEN Goto(t, "done") /\ UNCHANGED <<arg, consumeLock>>
       ELSE Return(t)
    /\ UNCHANGED <<log, storeVars, ledger, created, batch, running, crashes,
                   historyVars>>

\* Step 5: done_intent, best effort.
Done(t, ok) ==
    /\ pc[t] = "done"
    /\ Io(ok)
    /\ IF ok THEN Unlink(arg[t]) ELSE UNCHANGED ledger
    /\ Return(t)
    /\ UNCHANGED <<log, storeVars, queueVars, created, batch, running,
                   crashes, historyVars>>

-----------------------------------------------------------------------------
(* resolve_approval(approved=False).                                       *)

Reject(t, c, o, ok) ==
    /\ Up /\ pc[t] = "idle" /\ c \in created \cap Gated
    /\ "reject" \in Requests
    /\ Io(ok)
    /\ Clean(o) \/ ~ok
    /\ \/ /\ TakeApproval(c, o)
          /\ consumer' = [Mark(o.gone, "expiry") EXCEPT ![c] = "reject"]
          /\ GotoFor(t, "checkTaken", c)
       \/ /\ c \in Usable /\ ~ok
          /\ ExpireApprovals(o)
          /\ consumer' = Mark(o.gone, "expiry")
          /\ UNCHANGED <<pc, arg>>
       \/ /\ c \notin Usable
          /\ ExpireApprovals(o)
          /\ consumer' = Mark(o.gone, "expiry")
          /\ IF c \in Expired THEN GotoFor(t, "check", c) ELSE UNCHANGED <<pc, arg>>
    /\ UNCHANGED <<ledger, queueVars, created, batch, consumeLock, running,
                   crashes, runs>>

\* record_rejected: the approval is already gone when this append raises.
RejectAudit(t, ok) ==
    /\ pc[t] = "rejAudit"
    /\ Io(ok)
    /\ log' = IF ok THEN Recorded({arg[t]}, "Rejected") ELSE log
    /\ Return(t)
    /\ UNCHANGED <<storeVars, ledger, queueVars, created, batch, running,
                   crashes, historyVars>>

-----------------------------------------------------------------------------
(* POST /commands, by the policy's decision: the command waits in the      *)
(* store, is rejected, or is enqueued at once.  When the write of the      *)
(* store or of the queue raises, the memory copy stays.                    *)

Submit(t, c, saved) ==
    /\ Up /\ t \in Handlers /\ pc[t] = "idle" /\ c \notin created
    /\ MissionOf[c] \in created \cup {NoCmd}
    /\ Io(saved)
    /\ created' = created \cup {c}
    /\ \/ /\ c \in Gated
          /\ AddApproval(c, saved)
          /\ UNCHANGED <<log, queueVars>>
       \/ /\ c \in Blocked
          /\ log' = IF saved THEN Recorded({c}, "Rejected") ELSE log
          /\ UNCHANGED <<storeVars, queueVars>>
       \/ /\ c \notin Gated \cup Blocked
          /\ EnqueueDict(c, saved)
          /\ UNCHANGED <<log, storeVars>>
    /\ UNCHANGED <<ledger, threadVars, running, crashes, historyVars>>

-----------------------------------------------------------------------------
(* POST /commands/:id/cancel: the queue, else the approvals; then the      *)
(* cascade over the approvals of that mission.                             *)

\* scheduler.cancel, the part under _queue_lock.
Cancel(t, c) ==
    /\ Up /\ pc[t] = "idle" /\ c \in created
    /\ "cancel" \in Requests
    /\ queue' = queue \ {c}
    /\ GotoFor(t, IF c \in queue THEN "cxlLog" ELSE "cxlPop", c)
    /\ UNCHANGED <<log, storeVars, ledger, queueDisk, created, batch,
                   consumeLock, running, budget, historyVars>>

CancelLog(t, ok) ==
    /\ pc[t] = "cxlLog"
    /\ Io(ok)
    /\ IF ok
       THEN /\ log' = Recorded({arg[t]}, "Failed")
            /\ Goto(t, "cxlDump")
            /\ UNCHANGED <<arg, consumeLock>>
       ELSE Return(t) /\ UNCHANGED log
    /\ UNCHANGED <<storeVars, ledger, queueVars, created, batch, running,
                   crashes, historyVars>>

\* The dump serialises the live list without _queue_lock: while the worker
\* sorts it, list.sort has emptied it.
CancelDump(t, ok) ==
    /\ pc[t] = "cxlDump"
    /\ Io(ok)
    /\ IF ok
       THEN /\ \/ queueDisk' = queue
               \/ TornDumps /\ queueDisk' = {}
            /\ Goto(t, "cascade")
            /\ UNCHANGED <<arg, consumeLock>>
       ELSE Return(t) /\ UNCHANGED queueDisk
    /\ UNCHANGED <<log, storeVars, ledger, queue, created, batch, running,
                   crashes, historyVars>>

\* Not queued: drop the approval.  No intent is released here.
CancelPop(t, o, ok) ==
    LET c == arg[t] IN
    /\ pc[t] = "cxlPop"
    /\ Io(ok)
    /\ Clean(o) \/ ~ok
    /\ \/ /\ TakeApproval(c, o)
          /\ consumer' = [Mark(o.gone, "expiry") EXCEPT ![c] = "cancel"]
          /\ Goto(t, "cxlReject")
          /\ UNCHANGED <<arg, consumeLock>>
       \/ /\ c \in Usable /\ ~ok
          /\ ExpireApprovals(o)
          /\ consumer' = Mark(o.gone, "expiry")
          /\ Return(t)
       \/ /\ c \notin Usable
          /\ ExpireApprovals(o)
          /\ consumer' = Mark(o.gone, "expiry")
          /\ Goto(t, "cascade")
          /\ UNCHANGED <<arg, consumeLock>>
    /\ UNCHANGED <<ledger, queueVars, created, batch, running, crashes, runs>>

CancelReject(t, ok) ==
    /\ pc[t] = "cxlReject"
    /\ Io(ok)
    /\ IF ok
       THEN /\ log' = Recorded({arg[t]}, "Rejected")
            /\ Goto(t, "cascade")
            /\ UNCHANGED <<arg, consumeLock>>
       ELSE Return(t) /\ UNCHANGED log
    /\ UNCHANGED <<storeVars, ledger, queueVars, created, batch, running,
                   crashes, historyVars>>

Cascade(t, o, saved) ==
    LET kids == ChildrenOf(arg[t]) IN
    /\ pc[t] = "cascade"
    /\ Io(saved /\ Clean(o))
    /\ CancelMission(arg[t], o, saved)
    /\ consumer' = [c \in Cmds |-> IF c \in kids THEN "cancel"
                                   ELSE Mark(o.gone, "expiry")[c]]
    /\ IF saved /\ kids # {}
       THEN /\ Goto(t, "cascadeLog")
            /\ batch' = [batch EXCEPT ![t] = kids]
            /\ UNCHANGED <<arg, consumeLock>>
       ELSE Return(t) /\ UNCHANGED batch
    /\ UNCHANGED <<ledger, queueVars, created, running, crashes, runs>>

CascadeLog(t, c, ok) ==
    /\ pc[t] = "cascadeLog"
    /\ c \in batch[t]
    /\ Io(ok)
    /\ log' = IF ok THEN Recorded({c}, "Rejected") ELSE log
    /\ batch' = [batch EXCEPT ![t] = IF ok THEN @ \ {c} ELSE {}]
    /\ IF batch'[t] = {} THEN Return(t) ELSE UNCHANGED <<pc, arg, consumeLock>>
    /\ UNCHANGED <<storeVars, ledger, queueVars, created, running, crashes,
                   historyVars>>

-----------------------------------------------------------------------------
(* The scheduler loop and the run threads.                                 *)

WorkerSweep(o) ==
    /\ Up /\ pc[Worker] = "loop" /\ Expired # {}
    /\ ExpireApprovals(o)
    /\ Io(Clean(o))
    /\ consumer' = Mark(o.gone, "expiry")
    /\ UNCHANGED <<ledger, queueVars, created, threadVars, running, crashes,
                   runs>>

\* The pop; when the dump raises, the loop logs it and goes round again.
DispatchNext(c, saved) ==
    /\ Up /\ pc[Worker] = "loop"
    /\ Io(saved)
    /\ PopQueued(c, saved)
    /\ IF saved THEN GotoFor(Worker, "starting", c) ELSE UNCHANGED <<pc, arg>>
    /\ UNCHANGED <<log, storeVars, ledger, created, batch, consumeLock, running,
                   crashes, historyVars>>

\* record_started, outside the queue lock, then the run thread.
StartRun(ok) ==
    LET c == arg[Worker] IN
    /\ pc[Worker] = "starting"
    /\ Io(ok)
    /\ IF ok
       THEN /\ log' = Recorded({c}, "Started")
            /\ running' = running \cup {c}
            /\ runs' = [runs EXCEPT ![c] = @ + 1]
       ELSE UNCHANGED <<log, running, runs>>
    /\ Return(Worker)
    /\ UNCHANGED <<storeVars, ledger, queueVars, created, batch, crashes,
                   consumer>>

\* The dispatcher returns, with its terminal event or after raising.
RunEnds(c, event) ==
    /\ c \in running
    /\ running' = running \ {c}
    /\ log' = IF event = "none" THEN log ELSE Recorded({c}, event)
    /\ Io(event # "none")
    /\ UNCHANGED <<storeVars, ledger, queueVars, created, threadVars, crashes,
                   historyVars>>

\* Time passes the deadline of an approval (now or later presented).
Deadline(c) ==
    /\ c \in (created \cap Gated) \ due
    /\ due' = due \cup {c}
    /\ UNCHANGED <<log, pending, pendingDisk, audited, ledger, queueVars, created,
                   threadVars, running, budget, historyVars>>

-----------------------------------------------------------------------------
(* Crash and restart: bridge.py's main, in its order.                      *)

Crash ==
    /\ pc[Boot] # "down"
    /\ crashes < MaxCrashes
    /\ crashes' = crashes + 1
    /\ StoreRestart
    /\ queue' = {}
    /\ pc' = [t \in Threads |-> IF t = Boot THEN "down"
                                ELSE IF t = Worker THEN "loop" ELSE "idle"]
    /\ arg' = [t \in Threads |-> NoCmd]
    /\ batch' = [t \in Threads |-> {}]
    /\ consumeLock' = NoThread
    /\ running' = {}
    /\ consumer' = Mark(pendingDisk, "none")
    /\ UNCHANGED <<log, ledger, queueDisk, created, faults, runs>>

LoadQueue ==
    /\ pc[Boot] = "down"
    /\ InitFromDisk
    /\ Goto(Boot, "hung")
    /\ UNCHANGED <<log, storeVars, ledger, created, arg, batch, consumeLock,
                   running, budget, historyVars>>

RecoverHungCommands ==
    /\ pc[Boot] = "hung"
    /\ log' = Recorded(Hung, "Failed")
    /\ Goto(Boot, "reconcile")
    /\ UNCHANGED <<storeVars, ledger, queueVars, created, arg, batch, consumeLock,
                   running, budget, historyVars>>

\* task_recovery.reconcile_on_startup touches none of this state, but the log
\* and the queue it may rely on are those of this moment.
ReconcileTasks ==
    /\ pc[Boot] = "reconcile"
    /\ Goto(Boot, "scan")
    /\ UNCHANGED <<log, storeVars, ledger, queueVars, created, arg, batch,
                   consumeLock, running, budget, historyVars>>

ScanIntents ==
    /\ pc[Boot] = "scan"
    /\ batch' = [batch EXCEPT ![Boot] = {c \in Cmds : HasIntent(c)}]
    /\ Goto(Boot, "replay")
    /\ UNCHANGED <<log, storeVars, ledger, queueVars, created, arg, consumeLock,
                   running, budget, historyVars>>

\* A claimed intent goes straight to the queue.
ReplayClaimed(c) ==
    /\ pc[Boot] = "replay" /\ c \in batch[Boot]
    /\ ledger[c] = "claimed"
    /\ GotoFor(Boot, "enqueue", c)
    /\ batch' = [batch EXCEPT ![Boot] = @ \ {c}]
    /\ UNCHANGED <<log, storeVars, ledger, queueVars, created, consumeLock,
                   running, budget, historyVars>>

\* An unclaimed one: still pending, it is approved again through the store;
\* expired, it is released; gone, it is taken for consumed and enqueued unless
\* its own deadline has passed meanwhile.
ReplayIntent(c, o) ==
    /\ pc[Boot] = "replay" /\ c \in batch[Boot]
    /\ ledger[c] = "intent"
    /\ ExpireApprovals(o)
    /\ Io(Clean(o))
    /\ consumer' = Mark(o.gone, "expiry")
    /\ GotoFor(Boot, PeekResult(c, "peek", "check",
                                IF c \in due THEN "check" ELSE "enqueue"), c)
    /\ batch' = [batch EXCEPT ![Boot] = @ \ {c}]
    /\ UNCHANGED <<ledger, queueVars, created, consumeLock, running, crashes,
                   runs>>

StartWorker ==
    /\ pc[Boot] = "replay" /\ batch[Boot] = {}
    /\ InitFromDisk
    /\ Goto(Boot, "up")
    /\ UNCHANGED <<log, storeVars, ledger, created, arg, batch, consumeLock,
                   running, budget, historyVars>>

-----------------------------------------------------------------------------
HandlerStep(t) ==
    \/ \E c \in Cmds, ok \in BOOLEAN : Submit(t, c, ok) \/ CascadeLog(t, c, ok)
    \/ \E c \in Cmds : Cancel(t, c)
    \/ \E c \in Cmds, o \in SweepOutcomes, ok \in BOOLEAN : Reject(t, c, o, ok)
    \/ \E o \in SweepOutcomes, ok \in BOOLEAN : CancelPop(t, o, ok) \/ Cascade(t, o, ok)
    \/ \E ok \in BOOLEAN :
          RejectAudit(t, ok) \/ CancelLog(t, ok) \/ CancelDump(t, ok) \/ CancelReject(t, ok)

ResponderStep(t) ==
    \/ \E c \in Cmds, o \in SweepOutcomes : Peek(t, c, o)
    \/ Missing(t) \/ ReleaseCheck(t)
    \/ \E o \in SweepOutcomes, ok \in BOOLEAN : PopForDispatch(t, o, ok)
    \/ \E ok \in BOOLEAN :
          \/ ReleaseUnlink(t, ok) \/ RecordDispatchIntent(t, ok) \/ Claim(t, ok)
          \/ AuditApproval(t, ok) \/ Enqueue(t, ok) \/ Done(t, ok)

WorkerStep ==
    \/ \E o \in SweepOutcomes : WorkerSweep(o)
    \/ \E c \in Cmds, ok \in BOOLEAN : DispatchNext(c, ok)
    \/ \E ok \in BOOLEAN : StartRun(ok)

RunStep == \E c \in Cmds, event \in {"Completed", "Failed", "none"} : RunEnds(c, event)

BootStep ==
    \/ LoadQueue \/ RecoverHungCommands \/ ReconcileTasks \/ ScanIntents
    \/ \E c \in Cmds : ReplayClaimed(c)
    \/ \E c \in Cmds, o \in SweepOutcomes : ReplayIntent(c, o)
    \/ StartWorker

Next ==
    /\ \/ \E t \in Handlers : HandlerStep(t)
       \/ \E t \in Responders : ResponderStep(t)
       \/ WorkerStep
       \/ RunStep
       \/ \E c \in Cmds : Deadline(c)
       \/ BootStep
       \/ Crash
    /\ everQueued' = everQueued \cup queueDisk'

Spec == Init /\ [][Next]_vars

-----------------------------------------------------------------------------
(* Properties.                                                             *)

Authorised(c) == consumer[c] = "approve"

Starting(c) == pc[Worker] = "starting" /\ arg[Worker] = c

\* A command is run at most once, over all duplicated responses, failed writes,
\* retries and restarts (dispatch_ledger.py: "enqueued at most once").
AtMostOnce == \A c \in Cmds : runs[c] <= 1

\* There is one runnable copy: what the worker holds, runs or has run is neither
\* in the queue nor in the file a restart would load it from.
SingleRunnableCopy ==
    \A c \in Cmds :
        (c \in running \/ Starting(c) \/ "Started" \in log[c])
            => c \notin queue \cup queueDisk

\* An approval is consumed by an approve response only before its deadline, even
\* if the sweep could not remove the expired entry (APPROVAL_EXPIRY.md).
ExpiredNeverAuthorises ==
    [][\A c \in Cmds : Authorised(c)' /\ ~Authorised(c) => c \notin due]_vars

\* An approval that expired unused never becomes a queued or running command,
\* although its intent may survive an interrupted delivery and be replayed.
ExpiredNeverRuns ==
    \A c \in Cmds : consumer[c] = "expiry" => c \notin queue /\ runs[c] = 0

\* Releasing an intent never removes a claim: between the unlocked read and the
\* unlink of release_intent_if_unclaimed no other thread can claim the record.
ReleaseNeverDropsClaim ==
    \A t \in Threads :
        pc[t] \in {"unlink", "unlinkTaken"} => ledger[arg[t]] # "claimed"

\* From the consume of an approval until its command has been in the queue file
\* or has a logged outcome (cancelled), the ledger holds it, unless recovery met
\* it after its deadline.
RecoverableUntilQueued ==
    \A c \in Cmds :
        Authorised(c) =>
            HasIntent(c) \/ c \in everQueued \/ log[c] # {} \/ c \in due

\* A logged rejection is terminal: the command is not started afterwards, by a
\* replayed intent or by any other way.
RejectionIsTerminal ==
    [][\A c \in Cmds : "Rejected" \in log[c] => runs'[c] = runs[c]]_vars

\* What a restart finds in approvals.json is what memory held ("single-use atomic
\* pop semantics", approval_store.py:209): no removal of an approval is forgotten
\* by the file, but for the cascade of a mission whose rewrite raised.
RemovalIsDurable ==
    \A c \in pendingDisk \ pending : MissionOf[c] # NoCmd /\ consumer[c] = "cancel"

\* A command runs once, from one runnable copy, whatever is repeated, retried or
\* restarted (approval_resolution.py, scheduler.py).
RunsOnce == TypeOK /\ AtMostOnce /\ SingleRunnableCopy

\* What a restart needs is on the disk: an authorised command, in the ledger until it
\* is first in the queue file (what happens after its pop is NeverSilentlyLost), and
\* no approval that was taken; no release deletes a claim (dispatch_ledger.py,
\* approval_store.py).
NothingIsForgotten == ReleaseNeverDropsClaim /\ RecoverableUntilQueued /\ RemovalIsDurable

\* A recorded refusal is final: an expired approval authorises nothing and never
\* runs, and a command with a logged rejection does not start (approval_store.py).  A
\* reject or cancel not yet logged at a crash is the matter of RunsOnlyIfAuthorised.
RefusedStaysRefused == []ExpiredNeverRuns /\ ExpiredNeverAuthorises /\ RejectionIsTerminal

-----------------------------------------------------------------------------
(* Claims of the documentation that this code does not keep.               *)

\* "never silently lost": an authorised command is in the ledger, in the queue
\* file, with the worker, or has a logged outcome (DURABLE_APPROVAL_DELIVERY.md).
NeverSilentlyLost ==
    \A c \in Cmds :
        Authorised(c) =>
            HasIntent(c) \/ c \in queueDisk \/ Starting(c) \/ log[c] # {}

\* "it was already consumed by pop_approval" (dispatch_ledger.py:297): only an
\* approval consumed by an approve response leads to a run.
RunsOnlyIfAuthorised == \A c \in Gated : c \in running => Authorised(c)

-----------------------------------------------------------------------------
(* The delivery seen through the contract of the approval gate.            *)

Outcome(c) ==
    CASE runs[c] > 0 -> "started"
      [] runs[c] = 0 /\ Authorised(c) ->
            IF "Failed" \in log[c] THEN "refused" ELSE "granted"
      [] runs[c] = 0 /\ consumer[c] \in {"reject", "cancel", "expiry"} -> "refused"
      [] OTHER -> IF c \in created THEN "waiting" ELSE "new"

Contract ==
    INSTANCE DeliveryContract WITH
        Cmds <- Gated,
        state <- [c \in Gated |-> Outcome(c)],
        overdue <- due \cap Gated

\* The protocol implements the contract: in particular a command that was
\* refused, by a person, by its deadline or with its mission, never starts.
ImplementsContract == Contract!Spec

\* An approval withdrawn by a reject or a cancel is never queued or run, whatever
\* intent an interrupted approve left behind, as long as the process lives.
WithdrawnNeverRuns ==
    \A c \in Gated :
        consumer[c] \in {"reject", "cancel"} => c \notin queue /\ runs[c] = 0

-----------------------------------------------------------------------------
(* Fairness: a request that began runs to its end, the scheduler loop goes *)
(* round (every two seconds) and a started process boots.  Requests, time, *)
(* crashes and the end of an agent's run are never forced.                 *)

Tracked(A) == A /\ everQueued' = everQueued \cup queueDisk'

RequestGoesOn(t) == Tracked(pc[t] # "idle" /\ (HandlerStep(t) \/ ResponderStep(t)))
LoopSweeps == Tracked(\E o \in SweepOutcomes : WorkerSweep(o))
LoopDispatches == Tracked(\E c \in Cmds, ok \in BOOLEAN : DispatchNext(c, ok))
LoopStarts == Tracked(\E ok \in BOOLEAN : StartRun(ok))
BootGoesOn == Tracked(BootStep \/ ResponderStep(Boot))

Fairness ==
    /\ \A t \in Handlers : WF_vars(RequestGoesOn(t))
    /\ WF_vars(LoopSweeps) /\ WF_vars(LoopDispatches) /\ WF_vars(LoopStarts)
    /\ WF_vars(BootGoesOn)

FairSpec == Spec /\ Fairness

=============================================================================
