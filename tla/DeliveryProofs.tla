-------------------------- MODULE DeliveryProofs ---------------------------
(***************************************************************************)
(* Proofs about ApprovalDelivery, for every set of commands and handlers,  *)
(* every parent relation, any bound on faults and crashes: that a command  *)
(* runs once (RunsOnce), that what a restart needs is on the disk          *)
(* (NothingIsForgotten), that a refusal is final (RefusedStaysRefused) and *)
(* that the delivery keeps its contract (DeliveryContract).                *)
(***************************************************************************)
EXTENDS ApprovalDelivery, TLAPS

(***************************************************************************)
(* The inductive invariant behind AtMostOnce and SingleRunnableCopy.       *)
(*                                                                         *)
(* AtMostOnce is not inductive: between the pop and the CommandStarted     *)
(* event the worker holds a command that neither the queue, nor the file,  *)
(* nor the log knows of, and enqueue_dict would let a second copy in.      *)
(* What excludes it is the single-use consume: a thread that may enqueue c *)
(* took c out of the approval store, so no other thread ever will.         *)
(***************************************************************************)
HomeLabels == {"idle", "loop", "down", "hung", "reconcile", "scan", "replay", "up"}

ResponderLabels == {"missing", "check", "unlink", "record", "popNew", "popOld",
                    "claim", "audit", "enqueue", "done"}

HandlerLabels == ResponderLabels \cup
    {"idle", "checkTaken", "unlinkTaken", "rejAudit", "cxlLog", "cxlDump",
     "cxlPop", "cxlReject", "cascade", "cascadeLog"}

BootLabels == ResponderLabels \cup
    {"peek", "down", "hung", "reconcile", "scan", "replay", "up"}

\* Where each thread can be; nothing else runs while Boot recovers.
ControlInv ==
    /\ \A t \in Handlers : pc[t] \in HandlerLabels
    /\ pc[Boot] \in BootLabels
    /\ pc[Worker] \in {"loop", "starting"}
    /\ ~Up => pc[Worker] = "loop" /\ \A t \in Handlers : pc[t] = "idle"

\* Threads, intents and the queue speak of submitted commands only.
Carrying(t, c) == pc[t] \in {"claim", "audit", "enqueue"} /\ arg[t] = c

ArgKnown == \A t \in Threads : pc[t] \notin HomeLabels => arg[t] \in created

KnownData ==
    /\ \A c \in Cmds : HasIntent(c) => c \in created
    /\ pending \cup pendingDisk \cup queue \cup queueDisk \subseteq created
    /\ \A c \in Cmds : "Started" \in log[c] => c \in created

KnownInv == ArgKnown /\ KnownData

\* During recovery memory and file hold the same approvals.
BootInv == ~Up => pending = pendingDisk

\* What is claimed, carried, queued, held by the worker or started has no
\* approval left to consume.
ConsumedInv ==
    \A c \in pending \cup pendingDisk :
        /\ ledger[c] # "claimed"
        /\ c \notin queue \cup queueDisk
        /\ ~Starting(c)
        /\ "Started" \notin log[c]
        /\ \A t \in Responders : ~Carrying(t, c)

\* A request thread that carries c is the only one, and c is nowhere else yet.
CarrierInv ==
    \A t \in Handlers : \A c \in Cmds : Carrying(t, c) =>
        /\ \A u \in Handlers : Carrying(u, c) => u = t
        /\ c \notin queue \cup queueDisk
        /\ ~Starting(c)
        /\ "Started" \notin log[c]

\* One runnable copy, one run per CommandStarted event.
RunInv ==
    \A c \in Cmds :
        /\ Starting(c) => c \notin queue \cup queueDisk /\ "Started" \notin log[c]
        /\ "Started" \in log[c] => c \notin queue \cup queueDisk
        /\ c \in running => "Started" \in log[c]
        /\ runs[c] = IF "Started" \in log[c] THEN 1 ELSE 0

IInv ==
    /\ TypeOK
    /\ ControlInv
    /\ KnownInv
    /\ BootInv
    /\ ConsumedInv
    /\ CarrierInv
    /\ RunInv

---------------------------------------------------------------------------
\* A sweep leaves the store well typed and only removes approvals.
LEMMA SweepTypes ==
    ASSUME LogTypeOK, StoreTypeOK, NEW o, Sweep(o)
    PROVE  /\ LogTypeOK'
           /\ audited' \subseteq Cmds
           /\ due' = due
           /\ SweptPending(o) \subseteq pending
           /\ SweptDisk(o) \subseteq Cmds
  <1>1. o.gone \subseteq Expired /\ o.noted \subseteq Expired
    BY DEF Sweep, SweepOutcomes
  <1>2. Expired \subseteq Cmds
    BY DEF Expired, StoreTypeOK
  <1>3. LogTypeOK'
    BY <1>1, <1>2 DEF Sweep, Recorded, LogTypeOK, EventTypes
  <1>4. audited' \subseteq Cmds
    BY <1>1, <1>2 DEF Sweep, StoreTypeOK
  <1>5. SweptDisk(o) \subseteq Cmds
    BY DEF SweptDisk, SweptPending, StoreTypeOK
  <1> QED
    BY <1>1, <1>3, <1>4, <1>5 DEF Sweep, SweptPending

LEMMA ExpireTypes ==
    ASSUME LogTypeOK, StoreTypeOK, NEW o, ExpireApprovals(o)
    PROVE  LogTypeOK' /\ StoreTypeOK'
  BY SweepTypes DEF ExpireApprovals, StoreTypeOK

LEMMA CancelMissionTypes ==
    ASSUME LogTypeOK, StoreTypeOK, NEW m, NEW o, NEW saved, CancelMission(m, o, saved)
    PROVE  LogTypeOK' /\ StoreTypeOK'
  BY SweepTypes DEF CancelMission, StoreTypeOK, ChildrenOf

LEMMA TakeTypes ==
    ASSUME LogTypeOK, StoreTypeOK, NEW c, NEW o, TakeApproval(c, o)
    PROVE  LogTypeOK' /\ StoreTypeOK'
  BY SweepTypes DEF TakeApproval, StoreTypeOK

\* The two ways a step moves its thread keep the control state well typed.
LEMMA GotoTypes ==
    ASSUME pc \in [Threads -> Labels], NEW t, NEW l \in Labels, Goto(t, l)
    PROVE  pc' \in [Threads -> Labels]
  BY DEF Goto

ControlTypeOK ==
    /\ pc \in [Threads -> Labels]
    /\ arg \in [Threads -> Cmds \cup {NoCmd}]
    /\ consumeLock \in Threads \cup {NoThread}

LEMMA ReturnTypes ==
    ASSUME ControlTypeOK, NEW t, Return(t)
    PROVE  ControlTypeOK'
  BY DEF ControlTypeOK, Return, GotoFor, Goto, Home, Labels

LEMMA MarkTypes ==
    ASSUME consumer \in [Cmds -> Consumers], NEW C, NEW c
    PROVE  /\ Mark(C, "expiry") \in [Cmds -> Consumers]
           /\ [Mark(C, "expiry") EXCEPT ![c] = "approve"] \in [Cmds -> Consumers]
           /\ [Mark(C, "expiry") EXCEPT ![c] = "reject"] \in [Cmds -> Consumers]
           /\ [Mark(C, "expiry") EXCEPT ![c] = "cancel"] \in [Cmds -> Consumers]
           /\ Mark(C, "none") \in [Cmds -> Consumers]
  BY DEF Mark, Consumers

\* An appended event is one of the four types.
LEMMA RecordedTypes ==
    ASSUME LogTypeOK, NEW C, NEW e \in EventTypes
    PROVE  Recorded(C, e) \in [Cmds -> SUBSET EventTypes]
  BY DEF LogTypeOK, Recorded

\* Every step keeps the types; Next itself adds the history variable.
LEMMA TypeStep ==
    ASSUME TypeOK, ArgKnown, Next
    PROVE  TypeOK'
  <1> DEFINE Track == everQueued' = everQueued \cup queueDisk'
  <1>0. Track
    BY DEF Next
  <1>t. LogTypeOK /\ StoreTypeOK /\ LedgerTypeOK /\ QueueTypeOK /\ ControlTypeOK
    BY DEF TypeOK, ControlTypeOK
  <1>a. \A t \in Threads : pc[t] \notin HomeLabels => arg[t] \in Cmds
    BY DEF ArgKnown, TypeOK
  <1>s. ASSUME LogTypeOK', StoreTypeOK', LedgerTypeOK', QueueTypeOK', ControlTypeOK',
               created' \subseteq Cmds, batch' \in [Threads -> SUBSET Cmds],
               running' \subseteq Cmds, faults' \in Nat, crashes' \in Nat,
               consumer' \in [Cmds -> Consumers], runs' \in [Cmds -> Nat]
        PROVE  TypeOK'
    BY <1>0, <1>s DEF TypeOK, ControlTypeOK, QueueTypeOK
  <1>1. ASSUME NEW t, NEW c \in Cmds, NEW o, Peek(t, c, o)
        PROVE  TypeOK'
    <2>1. LogTypeOK' /\ StoreTypeOK'
      BY <1>1, <1>t, ExpireTypes DEF Peek
    <2>2. ControlTypeOK'
      BY <1>1 DEF Peek, PeekResult, GotoFor, Goto, TypeOK, Labels, ControlTypeOK
    <2>3. faults' \in Nat /\ consumer' \in [Cmds -> Consumers]
      BY <1>1 DEF Peek, Io, Mark, TypeOK, Consumers
    <2> QED
      BY <1>1, <2>1, <2>2, <2>3, <1>s
      DEF Peek, TypeOK, LedgerTypeOK, QueueTypeOK, queueVars
  <1>2. ASSUME NEW t, Missing(t)
        PROVE  TypeOK'
    <2>1. ControlTypeOK'
      BY <1>2, <1>t, ReturnTypes DEF Missing, Goto, Labels, ControlTypeOK
    <2> QED
      BY <1>2, <2>1, <1>s DEF Missing, TypeOK, LogTypeOK, StoreTypeOK, storeVars,
         LedgerTypeOK, QueueTypeOK, queueVars, budget, historyVars
  <1>3. ASSUME NEW t, ReleaseCheck(t)
        PROVE  TypeOK'
    <2>1. ControlTypeOK'
      BY <1>3, <1>t, ReturnTypes DEF ReleaseCheck, Goto, Labels, ControlTypeOK
    <2> QED
      BY <1>3, <2>1, <1>s DEF ReleaseCheck, TypeOK, LogTypeOK, StoreTypeOK, storeVars,
         LedgerTypeOK, QueueTypeOK, queueVars, budget, historyVars
  <1>4. ASSUME NEW t, NEW ok \in BOOLEAN, ReleaseUnlink(t, ok)
        PROVE  TypeOK'
    <2>1. ControlTypeOK'
      BY <1>4, <1>t, ReturnTypes DEF ReleaseUnlink, Goto, Labels, ControlTypeOK
    <2>2. LedgerTypeOK' /\ faults' \in Nat
      BY <1>4 DEF ReleaseUnlink, Unlink, Io, TypeOK, LedgerTypeOK, LedgerStates
    <2> QED
      BY <1>4, <2>1, <2>2, <1>s DEF ReleaseUnlink, TypeOK, LogTypeOK, StoreTypeOK,
         storeVars, QueueTypeOK, queueVars, historyVars
  <1>5. ASSUME NEW t \in Threads, NEW ok \in BOOLEAN, RecordDispatchIntent(t, ok)
        PROVE  TypeOK'
    <2>1. ControlTypeOK'
      BY <1>5, <1>t, ReturnTypes DEF RecordDispatchIntent, Goto, Labels, ControlTypeOK
    <2>2. LedgerTypeOK' /\ faults' \in Nat
      BY <1>5 DEF RecordDispatchIntent, RecordIntent, Io, TypeOK, LedgerTypeOK, LedgerStates
    <2> QED
      BY <1>5, <2>1, <2>2, <1>s DEF RecordDispatchIntent, TypeOK, LogTypeOK, StoreTypeOK,
         storeVars, QueueTypeOK, queueVars, historyVars
  <1>6. ASSUME NEW t, NEW o, NEW ok \in BOOLEAN, PopForDispatch(t, o, ok)
        PROVE  TypeOK'
    <2>1. LogTypeOK' /\ StoreTypeOK'
      BY <1>6, <1>t, ExpireTypes, TakeTypes DEF PopForDispatch
    <2>2. ControlTypeOK'
      BY <1>6, <1>t, ReturnTypes DEF PopForDispatch, Goto, Labels, ControlTypeOK
    <2>3. faults' \in Nat
      BY <1>6 DEF PopForDispatch, Io, TypeOK
    <2>4. consumer' \in [Cmds -> Consumers]
      BY <1>6, MarkTypes DEF PopForDispatch, TypeOK
    <2> QED
      BY <1>6, <2>4, <2>1, <2>2, <2>3, <1>s
      DEF PopForDispatch, TypeOK, LedgerTypeOK, QueueTypeOK, queueVars
  <1>7. ASSUME NEW t, NEW ok \in BOOLEAN, Claim(t, ok)
        PROVE  TypeOK'
    <2>1. ControlTypeOK'
      BY <1>7, <1>t, ReturnTypes DEF Claim, Goto, Labels, ControlTypeOK
    <2>2. LedgerTypeOK' /\ faults' \in Nat
      BY <1>7 DEF Claim, ClaimIntent, Io, TypeOK, LedgerTypeOK, LedgerStates
    <2> QED
      BY <1>7, <2>1, <2>2, <1>s DEF Claim, TypeOK, LogTypeOK, StoreTypeOK,
         storeVars, QueueTypeOK, queueVars, historyVars
  <1>8. ASSUME NEW t, NEW ok \in BOOLEAN, AuditApproval(t, ok)
        PROVE  TypeOK'
    <2>1. ControlTypeOK'
      BY <1>8, <1>t, ReturnTypes DEF AuditApproval, Goto, Labels, ControlTypeOK
    <2> QED
      BY <1>8, <2>1, <1>s DEF AuditApproval, Io, TypeOK, LogTypeOK, StoreTypeOK,
         storeVars, LedgerTypeOK, QueueTypeOK, queueVars, historyVars
  <1>9. ASSUME NEW t \in Threads, NEW ok \in BOOLEAN, Enqueue(t, ok)
        PROVE  TypeOK'
    <2>1. ControlTypeOK'
      BY <1>9, <1>t, ReturnTypes DEF Enqueue, Goto, Labels, ControlTypeOK
    <2>2. QueueTypeOK' /\ faults' \in Nat
      BY <1>9, <1>a DEF Enqueue, EnqueueDict, Io, TypeOK, QueueTypeOK, queueVars, HomeLabels
    <2> QED
      BY <1>9, <2>1, <2>2, <1>s DEF Enqueue, TypeOK, LogTypeOK, StoreTypeOK,
         storeVars, LedgerTypeOK, historyVars
  <1>10. ASSUME NEW t, NEW ok \in BOOLEAN, Done(t, ok)
         PROVE  TypeOK'
    <2>1. LedgerTypeOK' /\ faults' \in Nat
      BY <1>10 DEF Done, Unlink, Io, TypeOK, LedgerTypeOK, LedgerStates
    <2> QED
      BY <1>10, <1>t, ReturnTypes, <2>1, <1>s DEF Done, TypeOK, LogTypeOK, StoreTypeOK,
         storeVars, QueueTypeOK, queueVars, historyVars
  <1>11. ASSUME NEW t, NEW c \in Cmds, NEW o, NEW ok \in BOOLEAN, Reject(t, c, o, ok)
         PROVE  TypeOK'
    <2>1. LogTypeOK' /\ StoreTypeOK'
      BY <1>11, <1>t, ExpireTypes, TakeTypes DEF Reject
    <2>2. ControlTypeOK'
      BY <1>11, <1>t DEF Reject, GotoFor, Goto, Labels, ControlTypeOK
    <2>3. faults' \in Nat
      BY <1>11 DEF Reject, Io, TypeOK
    <2>4. consumer' \in [Cmds -> Consumers]
      BY <1>11, MarkTypes DEF Reject, TypeOK
    <2> QED
      BY <1>11, <2>1, <2>2, <2>3, <2>4, <1>s
      DEF Reject, TypeOK, LedgerTypeOK, QueueTypeOK, queueVars
  <1>12. ASSUME NEW t, NEW ok \in BOOLEAN, RejectAudit(t, ok)
         PROVE  TypeOK'
    <2>1. LogTypeOK' /\ faults' \in Nat
      BY <1>12, <1>t, RecordedTypes DEF RejectAudit, Io, TypeOK, LogTypeOK, EventTypes
    <2> QED
      BY <1>12, <1>t, ReturnTypes, <2>1, <1>s DEF RejectAudit, TypeOK, StoreTypeOK,
         storeVars, LedgerTypeOK, QueueTypeOK, queueVars, historyVars
  <1>13. ASSUME NEW t, NEW c \in Cmds, NEW ok \in BOOLEAN, Submit(t, c, ok)
         PROVE  TypeOK'
    <2>1. QueueTypeOK' /\ faults' \in Nat
      BY <1>13 DEF Submit, EnqueueDict, Io, TypeOK, QueueTypeOK, queueVars
    <2>2. StoreTypeOK'
      BY <1>13 DEF Submit, Recorded, AddApproval, TypeOK, StoreTypeOK, storeVars
    <2> QED
      BY <1>13, <2>1, <2>2, <1>s DEF Submit, Recorded, TypeOK, LogTypeOK, EventTypes, LedgerTypeOK,
         threadVars, historyVars, ControlTypeOK
  <1>14. ASSUME NEW t, NEW c \in Cmds, Cancel(t, c)
         PROVE  TypeOK'
    <2>1. ControlTypeOK'
      BY <1>14, <1>t DEF Cancel, GotoFor, Goto, Labels, ControlTypeOK
    <2> QED
      BY <1>14, <2>1, <1>s DEF Cancel, TypeOK, LogTypeOK, StoreTypeOK, storeVars,
         LedgerTypeOK, QueueTypeOK, budget, historyVars
  <1>15. ASSUME NEW t, NEW ok \in BOOLEAN, CancelLog(t, ok)
         PROVE  TypeOK'
    <2>1. ControlTypeOK'
      BY <1>15, <1>t, ReturnTypes DEF CancelLog, Goto, Labels, ControlTypeOK
    <2>2. LogTypeOK' /\ faults' \in Nat
      BY <1>15, <1>t, RecordedTypes DEF CancelLog, Io, TypeOK, LogTypeOK, EventTypes
    <2> QED
      BY <1>15, <2>1, <2>2, <1>s DEF CancelLog, TypeOK, StoreTypeOK, storeVars,
         LedgerTypeOK, QueueTypeOK, queueVars, historyVars
  <1>16. ASSUME NEW t, NEW ok \in BOOLEAN, CancelDump(t, ok)
         PROVE  TypeOK'
    <2>1. ControlTypeOK'
      BY <1>16, <1>t, ReturnTypes DEF CancelDump, Goto, Labels, ControlTypeOK
    <2>2. QueueTypeOK' /\ faults' \in Nat
      BY <1>16 DEF CancelDump, Io, TypeOK, QueueTypeOK
    <2> QED
      BY <1>16, <2>1, <2>2, <1>s DEF CancelDump, TypeOK, LogTypeOK, StoreTypeOK,
         storeVars, LedgerTypeOK, historyVars
  <1>17. ASSUME NEW t, NEW o, NEW ok \in BOOLEAN, CancelPop(t, o, ok)
         PROVE  TypeOK'
    <2>1. LogTypeOK' /\ StoreTypeOK'
      BY <1>17, <1>t, ExpireTypes, TakeTypes DEF CancelPop
    <2>2. ControlTypeOK'
      BY <1>17, <1>t, ReturnTypes DEF CancelPop, Goto, Labels, ControlTypeOK
    <2>3. faults' \in Nat
      BY <1>17 DEF CancelPop, Io, TypeOK
    <2>4. consumer' \in [Cmds -> Consumers]
      BY <1>17, MarkTypes DEF CancelPop, TypeOK
    <2> QED
      BY <1>17, <2>1, <2>2, <2>3, <2>4, <1>s
      DEF CancelPop, TypeOK, LedgerTypeOK, QueueTypeOK, queueVars
  <1>18. ASSUME NEW t, NEW ok \in BOOLEAN, CancelReject(t, ok)
         PROVE  TypeOK'
    <2>1. ControlTypeOK'
      BY <1>18, <1>t, ReturnTypes DEF CancelReject, Goto, Labels, ControlTypeOK
    <2>2. LogTypeOK' /\ faults' \in Nat
      BY <1>18, <1>t, RecordedTypes DEF CancelReject, Io, TypeOK, LogTypeOK, EventTypes
    <2> QED
      BY <1>18, <2>1, <2>2, <1>s DEF CancelReject, TypeOK, StoreTypeOK, storeVars,
         LedgerTypeOK, QueueTypeOK, queueVars, historyVars
  <1>19. ASSUME NEW t, NEW o, NEW ok \in BOOLEAN, Cascade(t, o, ok)
         PROVE  TypeOK'
    <2>1. LogTypeOK' /\ StoreTypeOK'
      BY <1>19, <1>t, CancelMissionTypes DEF Cascade
    <2>2. ControlTypeOK'
      BY <1>19, <1>t, ReturnTypes DEF Cascade, Goto, Labels, ControlTypeOK
    <2>3. faults' \in Nat
      BY <1>19 DEF Cascade, Io, TypeOK
    <2>4. consumer' \in [Cmds -> Consumers]
      BY <1>19 DEF Cascade, Mark, Consumers, TypeOK
    <2>5. batch' \in [Threads -> SUBSET Cmds]
      BY <1>19, <1>t DEF Cascade, ChildrenOf, Usable, StoreTypeOK, TypeOK
    <2> QED
      BY <1>19, <2>1, <2>2, <2>3, <2>4, <2>5, <1>s
      DEF Cascade, TypeOK, LedgerTypeOK, QueueTypeOK, queueVars
  <1>20. ASSUME NEW t, NEW c \in Cmds, NEW ok \in BOOLEAN, CascadeLog(t, c, ok)
         PROVE  TypeOK'
    <2>1. ControlTypeOK'
      BY <1>20, <1>t, ReturnTypes DEF CascadeLog, ControlTypeOK
    <2>2. LogTypeOK' /\ faults' \in Nat
      BY <1>20, <1>t, RecordedTypes DEF CascadeLog, Io, TypeOK, LogTypeOK, EventTypes
    <2>3. batch' \in [Threads -> SUBSET Cmds]
      BY <1>20 DEF CascadeLog, TypeOK
    <2> QED
      BY <1>20, <2>1, <2>2, <2>3, <1>s DEF CascadeLog, TypeOK, StoreTypeOK, storeVars,
         LedgerTypeOK, QueueTypeOK, queueVars, historyVars
  <1>21. ASSUME NEW o, WorkerSweep(o)
         PROVE  TypeOK'
    <2>1. LogTypeOK' /\ StoreTypeOK'
      BY <1>21, <1>t, ExpireTypes DEF WorkerSweep
    <2>2. faults' \in Nat /\ consumer' \in [Cmds -> Consumers]
      BY <1>21, MarkTypes DEF WorkerSweep, Io, TypeOK
    <2> QED
      BY <1>21, <2>1, <2>2, <1>s DEF WorkerSweep, TypeOK, ControlTypeOK, threadVars,
         LedgerTypeOK, QueueTypeOK, queueVars
  <1>22. ASSUME NEW c \in Cmds, NEW ok \in BOOLEAN, DispatchNext(c, ok)
         PROVE  TypeOK'
    <2>1. ControlTypeOK'
      BY <1>22, <1>t DEF DispatchNext, GotoFor, Goto, Labels, ControlTypeOK
    <2>2. QueueTypeOK' /\ faults' \in Nat
      BY <1>22 DEF DispatchNext, PopQueued, Io, TypeOK, QueueTypeOK
    <2> QED
      BY <1>22, <2>1, <2>2, <1>s DEF DispatchNext, TypeOK, LogTypeOK, StoreTypeOK,
         storeVars, LedgerTypeOK, historyVars
  <1>23. ASSUME NEW ok \in BOOLEAN, StartRun(ok)
         PROVE  TypeOK'
    <2>1. LogTypeOK' /\ faults' \in Nat
      BY <1>23, <1>t, RecordedTypes DEF StartRun, Io, TypeOK, LogTypeOK, EventTypes
    <2>2. running' \subseteq Cmds /\ runs' \in [Cmds -> Nat]
      BY <1>23, <1>a DEF StartRun, TypeOK, Threads, HomeLabels
    <2> QED
      BY <1>23, <1>t, ReturnTypes, <2>1, <2>2, <1>s DEF StartRun, TypeOK, StoreTypeOK,
         storeVars, LedgerTypeOK, QueueTypeOK, queueVars
  <1>24. ASSUME NEW c \in Cmds, NEW e \in {"Completed", "Failed", "none"}, RunEnds(c, e)
         PROVE  TypeOK'
    <2>1. LogTypeOK' /\ faults' \in Nat
      BY <1>24, <1>t, RecordedTypes DEF RunEnds, Io, TypeOK, LogTypeOK, EventTypes
    <2> QED
      BY <1>24, <2>1, <1>s DEF RunEnds, TypeOK, ControlTypeOK, threadVars, StoreTypeOK,
         storeVars, LedgerTypeOK, QueueTypeOK, queueVars, historyVars
  <1>25. ASSUME NEW c \in Cmds, Deadline(c)
         PROVE  TypeOK'
    <2>1. StoreTypeOK'
      BY <1>25 DEF Deadline, TypeOK, StoreTypeOK
    <2> QED
      BY <1>25, <2>1, <1>s DEF Deadline, TypeOK, ControlTypeOK, threadVars, LogTypeOK,
         LedgerTypeOK, QueueTypeOK, queueVars, budget, historyVars
  <1>26. ASSUME Crash
         PROVE  TypeOK'
    <2>1. StoreTypeOK'
      BY <1>26 DEF Crash, StoreRestart, TypeOK, StoreTypeOK
    <2>2. ControlTypeOK'
      BY <1>26 DEF Crash, ControlTypeOK, Labels
    <2>3. consumer' \in [Cmds -> Consumers]
      BY <1>26, MarkTypes DEF Crash, TypeOK
    <2> QED
      BY <1>26, <2>1, <2>2, <2>3, <1>s DEF Crash, TypeOK, LogTypeOK, LedgerTypeOK, QueueTypeOK
  <1>27. ASSUME LoadQueue \/ StartWorker
         PROVE  TypeOK'
    <2>1. QueueTypeOK'
      BY <1>27 DEF LoadQueue, StartWorker, InitFromDisk, TypeOK, QueueTypeOK
    <2>2. ControlTypeOK'
      BY <1>27 DEF LoadQueue, StartWorker, Goto, TypeOK, ControlTypeOK, Labels
    <2> QED
      BY <1>27, <2>1, <2>2, <1>s DEF LoadQueue, StartWorker, TypeOK, LogTypeOK,
         StoreTypeOK, storeVars, LedgerTypeOK, budget, historyVars
  <1>28. ASSUME RecoverHungCommands
         PROVE  TypeOK'
    <2>1. LogTypeOK'
      BY <1>28, <1>t, RecordedTypes DEF RecoverHungCommands, LogTypeOK, EventTypes
    <2>2. ControlTypeOK'
      BY <1>28 DEF RecoverHungCommands, Goto, TypeOK, ControlTypeOK, Labels
    <2> QED
      BY <1>28, <2>1, <2>2, <1>s DEF RecoverHungCommands, TypeOK,
         StoreTypeOK, storeVars, LedgerTypeOK, QueueTypeOK, queueVars, budget, historyVars
  <1>29. ASSUME ReconcileTasks \/ ScanIntents
         PROVE  TypeOK'
    <2>1. ControlTypeOK'
      BY <1>29 DEF ReconcileTasks, ScanIntents, Goto, TypeOK, ControlTypeOK, Labels
    <2>2. batch' \in [Threads -> SUBSET Cmds]
      BY <1>29 DEF ReconcileTasks, ScanIntents, TypeOK
    <2> QED
      BY <1>29, <2>1, <2>2, <1>s DEF ReconcileTasks, ScanIntents, TypeOK, LogTypeOK,
         StoreTypeOK, storeVars, LedgerTypeOK, QueueTypeOK, queueVars, budget, historyVars
  <1>30. ASSUME NEW c \in Cmds, ReplayClaimed(c)
         PROVE  TypeOK'
    <2>1. ControlTypeOK'
      BY <1>30 DEF ReplayClaimed, GotoFor, Goto, TypeOK, ControlTypeOK, Labels
    <2>2. batch' \in [Threads -> SUBSET Cmds]
      BY <1>30 DEF ReplayClaimed, TypeOK
    <2> QED
      BY <1>30, <2>1, <2>2, <1>s DEF ReplayClaimed, TypeOK, LogTypeOK,
         StoreTypeOK, storeVars, LedgerTypeOK, QueueTypeOK, queueVars, budget, historyVars
  <1>31. ASSUME NEW c \in Cmds, NEW o, ReplayIntent(c, o)
         PROVE  TypeOK'
    <2>1. LogTypeOK' /\ StoreTypeOK'
      BY <1>31, <1>t, ExpireTypes DEF ReplayIntent
    <2>2. ControlTypeOK'
      BY <1>31 DEF ReplayIntent, PeekResult, GotoFor, Goto, TypeOK, ControlTypeOK, Labels
    <2>3. faults' \in Nat /\ consumer' \in [Cmds -> Consumers]
      BY <1>31, MarkTypes DEF ReplayIntent, Io, TypeOK
    <2>4. batch' \in [Threads -> SUBSET Cmds]
      BY <1>31 DEF ReplayIntent, TypeOK
    <2> QED
      BY <1>31, <2>1, <2>2, <2>3, <2>4, <1>s
      DEF ReplayIntent, TypeOK, LedgerTypeOK, QueueTypeOK, queueVars
  <1> QED
    BY <1>1, <1>2, <1>3, <1>4, <1>5, <1>6, <1>7, <1>8, <1>9, <1>10, <1>11, <1>12, <1>13,
       <1>14, <1>15, <1>16, <1>17, <1>18, <1>19, <1>20, <1>21, <1>22, <1>23, <1>24, <1>25,
       <1>26, <1>27, <1>28, <1>29, <1>30, <1>31
    DEF Next, HandlerStep, ResponderStep, WorkerStep, RunStep, BootStep, Responders, Threads

-----------------------------------------------------------------------------
\* Every step keeps the threads where they can be: while Boot recovers nothing else
\* runs, and a thread away from its home works for a submitted command.
LEMMA ControlStep ==
    ASSUME TypeOK, ControlInv, KnownInv, Next
    PROVE  ControlInv' /\ ArgKnown'
  <1> USE DeliveryAssumption DEF TypeOK, ControlInv, KnownInv, ArgKnown, Up, HandlerLabels, BootLabels,
      ResponderLabels, HomeLabels, Return, Home, GotoFor, Goto, Threads, Responders
  <1>1. ASSUME NEW t \in Responders, NEW c \in Cmds, NEW o, Peek(t, c, o)
         PROVE  ControlInv' /\ ArgKnown'
    BY <1>1 DEF Peek, PeekResult
  <1>2. ASSUME NEW t \in Responders, Missing(t)
         PROVE  ControlInv' /\ ArgKnown'
    BY <1>2 DEF Missing
  <1>3. ASSUME NEW t \in Responders, ReleaseCheck(t)
         PROVE  ControlInv' /\ ArgKnown'
    BY <1>3 DEF ReleaseCheck
  <1>4. ASSUME NEW t \in Responders, NEW ok \in BOOLEAN, ReleaseUnlink(t, ok)
         PROVE  ControlInv' /\ ArgKnown'
    BY <1>4 DEF ReleaseUnlink
  <1>5. ASSUME NEW t \in Responders, NEW ok \in BOOLEAN, RecordDispatchIntent(t, ok)
         PROVE  ControlInv' /\ ArgKnown'
    BY <1>5 DEF RecordDispatchIntent
  <1>6. ASSUME NEW t \in Responders, NEW o, NEW ok \in BOOLEAN, PopForDispatch(t, o, ok)
         PROVE  ControlInv' /\ ArgKnown'
    BY <1>6 DEF PopForDispatch
  <1>7. ASSUME NEW t \in Responders, NEW ok \in BOOLEAN, Claim(t, ok)
         PROVE  ControlInv' /\ ArgKnown'
    BY <1>7 DEF Claim
  <1>8. ASSUME NEW t \in Responders, NEW ok \in BOOLEAN, AuditApproval(t, ok)
         PROVE  ControlInv' /\ ArgKnown'
    BY <1>8 DEF AuditApproval
  <1>9. ASSUME NEW t \in Responders, NEW ok \in BOOLEAN, Enqueue(t, ok)
         PROVE  ControlInv' /\ ArgKnown'
    BY <1>9 DEF Enqueue
  <1>10. ASSUME NEW t \in Responders, NEW ok \in BOOLEAN, Done(t, ok)
          PROVE  ControlInv' /\ ArgKnown'
    BY <1>10 DEF Done
  <1>11. ASSUME NEW t \in Handlers, NEW c \in Cmds, NEW o, NEW ok \in BOOLEAN, Reject(t, c, o, ok)
          PROVE  ControlInv' /\ ArgKnown'
    BY <1>11 DEF Reject
  <1>12. ASSUME NEW t \in Handlers, NEW ok \in BOOLEAN, RejectAudit(t, ok)
          PROVE  ControlInv' /\ ArgKnown'
    BY <1>12 DEF RejectAudit
  <1>13. ASSUME NEW t \in Handlers, NEW c \in Cmds, NEW ok \in BOOLEAN, Submit(t, c, ok)
          PROVE  ControlInv' /\ ArgKnown'
    BY <1>13 DEF Submit, threadVars
  <1>14. ASSUME NEW t \in Handlers, NEW c \in Cmds, Cancel(t, c)
          PROVE  ControlInv' /\ ArgKnown'
    BY <1>14 DEF Cancel
  <1>15. ASSUME NEW t \in Handlers, NEW ok \in BOOLEAN, CancelLog(t, ok)
          PROVE  ControlInv' /\ ArgKnown'
    BY <1>15 DEF CancelLog
  <1>16. ASSUME NEW t \in Handlers, NEW ok \in BOOLEAN, CancelDump(t, ok)
          PROVE  ControlInv' /\ ArgKnown'
    BY <1>16 DEF CancelDump
  <1>17. ASSUME NEW t \in Handlers, NEW o, NEW ok \in BOOLEAN, CancelPop(t, o, ok)
          PROVE  ControlInv' /\ ArgKnown'
    BY <1>17 DEF CancelPop
  <1>18. ASSUME NEW t \in Handlers, NEW ok \in BOOLEAN, CancelReject(t, ok)
          PROVE  ControlInv' /\ ArgKnown'
    BY <1>18 DEF CancelReject
  <1>19. ASSUME NEW t \in Handlers, NEW o, NEW ok \in BOOLEAN, Cascade(t, o, ok)
          PROVE  ControlInv' /\ ArgKnown'
    BY <1>19 DEF Cascade
  <1>20. ASSUME NEW t \in Handlers, NEW c \in Cmds, NEW ok \in BOOLEAN, CascadeLog(t, c, ok)
          PROVE  ControlInv' /\ ArgKnown'
    BY <1>20 DEF CascadeLog
  <1>21. ASSUME NEW o, WorkerSweep(o)
          PROVE  ControlInv' /\ ArgKnown'
    BY <1>21 DEF WorkerSweep, threadVars
  <1>22. ASSUME NEW c \in Cmds, NEW ok \in BOOLEAN, DispatchNext(c, ok)
          PROVE  ControlInv' /\ ArgKnown'
    BY <1>22 DEF DispatchNext, PopQueued, KnownInv, KnownData
  <1>23. ASSUME NEW ok \in BOOLEAN, StartRun(ok)
          PROVE  ControlInv' /\ ArgKnown'
    BY <1>23 DEF StartRun
  <1>24. ASSUME NEW c \in Cmds, NEW e \in {"Completed", "Failed", "none"}, RunEnds(c, e)
          PROVE  ControlInv' /\ ArgKnown'
    BY <1>24 DEF RunEnds, threadVars
  <1>25. ASSUME NEW c \in Cmds, Deadline(c)
          PROVE  ControlInv' /\ ArgKnown'
    BY <1>25 DEF Deadline, threadVars
  <1>26. ASSUME Crash
          PROVE  ControlInv' /\ ArgKnown'
    BY <1>26 DEF Crash
  <1>27. ASSUME LoadQueue
          PROVE  ControlInv' /\ ArgKnown'
    BY <1>27 DEF LoadQueue
  <1>28. ASSUME RecoverHungCommands
          PROVE  ControlInv' /\ ArgKnown'
    BY <1>28 DEF RecoverHungCommands
  <1>29. ASSUME ReconcileTasks
          PROVE  ControlInv' /\ ArgKnown'
    BY <1>29 DEF ReconcileTasks
  <1>30. ASSUME ScanIntents
          PROVE  ControlInv' /\ ArgKnown'
    BY <1>30 DEF ScanIntents
  <1>31. ASSUME NEW c \in Cmds, ReplayClaimed(c)
          PROVE  ControlInv' /\ ArgKnown'
    BY <1>31 DEF ReplayClaimed, KnownInv, KnownData, HasIntent
  <1>32. ASSUME NEW c \in Cmds, NEW o, ReplayIntent(c, o)
          PROVE  ControlInv' /\ ArgKnown'
    BY <1>32 DEF ReplayIntent, PeekResult, KnownInv, KnownData, HasIntent
  <1>33. ASSUME StartWorker
          PROVE  ControlInv' /\ ArgKnown'
    BY <1>33 DEF StartWorker
  <1> HIDE DEF TypeOK, ControlInv, KnownInv, ArgKnown, Up, HandlerLabels, BootLabels,
      ResponderLabels, HomeLabels, Return, Home, GotoFor, Goto
  <1> QED
    BY <1>1, <1>2, <1>3, <1>4, <1>5, <1>6, <1>7, <1>8, <1>9, <1>10, <1>11, <1>12, <1>13,
       <1>14, <1>15, <1>16, <1>17, <1>18, <1>19, <1>20, <1>21, <1>22, <1>23, <1>24, <1>25,
       <1>26, <1>27, <1>28, <1>29, <1>30, <1>31, <1>32, <1>33
    DEF Next, HandlerStep, ResponderStep, WorkerStep, RunStep, BootStep, Responders, Threads

\* Intents, approvals, queue entries and events only ever speak of submitted commands.
LEMMA KnownStep ==
    ASSUME TypeOK, ControlInv, KnownInv, Next
    PROVE  KnownData'
  <1> USE DeliveryAssumption DEF TypeOK, KnownInv, KnownData, ArgKnown, HasIntent, LogTypeOK,
      StoreTypeOK, LedgerTypeOK, QueueTypeOK, HomeLabels, Threads, Responders, Usable
  <1>1. ASSUME NEW t \in Responders, NEW c \in Cmds, NEW o, Peek(t, c, o)
         PROVE  KnownData'
    BY <1>1 DEF Peek, ExpireApprovals, SweptPending, SweptDisk, Sweep, Recorded, queueVars
  <1>2. ASSUME NEW t \in Responders, Missing(t)
         PROVE  KnownData'
    BY <1>2 DEF Missing, storeVars, queueVars
  <1>3. ASSUME NEW t \in Responders, ReleaseCheck(t)
         PROVE  KnownData'
    BY <1>3 DEF ReleaseCheck, storeVars, queueVars
  <1>4. ASSUME NEW t \in Responders, NEW ok \in BOOLEAN, ReleaseUnlink(t, ok)
         PROVE  KnownData'
    BY <1>4 DEF ReleaseUnlink, Unlink, storeVars, queueVars
  <1>5. ASSUME NEW t \in Responders, NEW ok \in BOOLEAN, RecordDispatchIntent(t, ok)
         PROVE  KnownData'
    BY <1>5 DEF RecordDispatchIntent, RecordIntent, storeVars, queueVars
  <1>6. ASSUME NEW t \in Responders, NEW o, NEW ok \in BOOLEAN, PopForDispatch(t, o, ok)
         PROVE  KnownData'
    BY <1>6 DEF PopForDispatch, TakeApproval, ExpireApprovals, SweptPending, SweptDisk,
       Sweep, Recorded, queueVars
  <1>7. ASSUME NEW t \in Responders, NEW ok \in BOOLEAN, Claim(t, ok)
         PROVE  KnownData'
    BY <1>7 DEF Claim, ClaimIntent, storeVars, queueVars
  <1>8. ASSUME NEW t \in Responders, NEW ok \in BOOLEAN, AuditApproval(t, ok)
         PROVE  KnownData'
    BY <1>8 DEF AuditApproval, storeVars, queueVars
  <1>9. ASSUME NEW t \in Responders, NEW ok \in BOOLEAN, Enqueue(t, ok)
         PROVE  KnownData'
    BY <1>9 DEF Enqueue, EnqueueDict, queueVars, storeVars
  <1>10. ASSUME NEW t \in Responders, NEW ok \in BOOLEAN, Done(t, ok)
          PROVE  KnownData'
    BY <1>10 DEF Done, Unlink, storeVars, queueVars
  <1>11. ASSUME NEW t \in Handlers, NEW c \in Cmds, NEW o, NEW ok \in BOOLEAN, Reject(t, c, o, ok)
          PROVE  KnownData'
    BY <1>11 DEF Reject, TakeApproval, ExpireApprovals, SweptPending, SweptDisk, Sweep,
       Recorded, queueVars
  <1>12. ASSUME NEW t \in Handlers, NEW ok \in BOOLEAN, RejectAudit(t, ok)
          PROVE  KnownData'
    BY <1>12 DEF RejectAudit, Recorded, storeVars, queueVars
  <1>13. ASSUME NEW t \in Handlers, NEW c \in Cmds, NEW ok \in BOOLEAN, Submit(t, c, ok)
          PROVE  KnownData'
    BY <1>13 DEF Submit, Recorded, AddApproval, EnqueueDict, storeVars, queueVars
  <1>14. ASSUME NEW t \in Handlers, NEW c \in Cmds, Cancel(t, c)
          PROVE  KnownData'
    BY <1>14 DEF Cancel, storeVars
  <1>15. ASSUME NEW t \in Handlers, NEW ok \in BOOLEAN, CancelLog(t, ok)
          PROVE  KnownData'
    BY <1>15 DEF CancelLog, Recorded, storeVars, queueVars
  <1>16. ASSUME NEW t \in Handlers, NEW ok \in BOOLEAN, CancelDump(t, ok)
          PROVE  KnownData'
    BY <1>16 DEF CancelDump, storeVars
  <1>17. ASSUME NEW t \in Handlers, NEW o, NEW ok \in BOOLEAN, CancelPop(t, o, ok)
          PROVE  KnownData'
    BY <1>17 DEF CancelPop, TakeApproval, ExpireApprovals, SweptPending, SweptDisk, Sweep,
       Recorded, queueVars
  <1>18. ASSUME NEW t \in Handlers, NEW ok \in BOOLEAN, CancelReject(t, ok)
          PROVE  KnownData'
    BY <1>18 DEF CancelReject, Recorded, storeVars, queueVars
  <1>19. ASSUME NEW t \in Handlers, NEW o, NEW ok \in BOOLEAN, Cascade(t, o, ok)
          PROVE  KnownData'
    BY <1>19 DEF Cascade, CancelMission, SweptPending, SweptDisk, Sweep, Recorded,
       queueVars
  <1>20. ASSUME NEW t \in Handlers, NEW c \in Cmds, NEW ok \in BOOLEAN, CascadeLog(t, c, ok)
          PROVE  KnownData'
    BY <1>20 DEF CascadeLog, Recorded, storeVars, queueVars
  <1>21. ASSUME NEW o, WorkerSweep(o)
          PROVE  KnownData'
    BY <1>21 DEF WorkerSweep, ExpireApprovals, SweptPending, SweptDisk, Sweep, Recorded,
       queueVars
  <1>22. ASSUME NEW c \in Cmds, NEW ok \in BOOLEAN, DispatchNext(c, ok)
          PROVE  KnownData'
    BY <1>22 DEF DispatchNext, PopQueued, storeVars
  <1>23. ASSUME NEW ok \in BOOLEAN, StartRun(ok)
          PROVE  KnownData'
    BY <1>23 DEF StartRun, Recorded, storeVars, queueVars
  <1>24. ASSUME NEW c \in Cmds, NEW e \in {"Completed", "Failed", "none"}, RunEnds(c, e)
          PROVE  KnownData'
    BY <1>24 DEF RunEnds, Recorded, storeVars, queueVars
  <1>25. ASSUME NEW c \in Cmds, Deadline(c)
          PROVE  KnownData'
    BY <1>25 DEF Deadline, queueVars
  <1>26. ASSUME Crash
          PROVE  KnownData'
    BY <1>26 DEF Crash, StoreRestart
  <1>27. ASSUME LoadQueue
          PROVE  KnownData'
    BY <1>27 DEF LoadQueue, InitFromDisk, storeVars
  <1>28. ASSUME RecoverHungCommands
          PROVE  KnownData'
    BY <1>28 DEF RecoverHungCommands, Recorded, Hung, storeVars, queueVars
  <1>29. ASSUME ReconcileTasks
          PROVE  KnownData'
    BY <1>29 DEF ReconcileTasks, storeVars, queueVars
  <1>30. ASSUME ScanIntents
          PROVE  KnownData'
    BY <1>30 DEF ScanIntents, storeVars, queueVars
  <1>31. ASSUME NEW c \in Cmds, ReplayClaimed(c)
          PROVE  KnownData'
    BY <1>31 DEF ReplayClaimed, storeVars, queueVars
  <1>32. ASSUME NEW c \in Cmds, NEW o, ReplayIntent(c, o)
          PROVE  KnownData'
    BY <1>32 DEF ReplayIntent, ExpireApprovals, SweptPending, SweptDisk, Sweep, Recorded,
       queueVars
  <1>33. ASSUME StartWorker
          PROVE  KnownData'
    BY <1>33 DEF StartWorker, InitFromDisk, storeVars
  <1> QED
    BY <1>1, <1>2, <1>3, <1>4, <1>5, <1>6, <1>7, <1>8, <1>9, <1>10, <1>11, <1>12, <1>13,
       <1>14, <1>15, <1>16, <1>17, <1>18, <1>19, <1>20, <1>21, <1>22, <1>23, <1>24, <1>25,
       <1>26, <1>27, <1>28, <1>29, <1>30, <1>31, <1>32, <1>33
    DEF Next, HandlerStep, ResponderStep, WorkerStep, RunStep, BootStep, Responders, Threads

\* Until the bridge is up only Boot writes the store, and it writes memory and file alike.
LEMMA BootInvStep ==
    ASSUME TypeOK, ControlInv, BootInv, Next
    PROVE  BootInv'
  <1> USE DeliveryAssumption DEF TypeOK, ControlInv, BootInv, Up, Goto, GotoFor, Return,
      Home, Threads, Responders
  <1>1. ASSUME NEW t \in Responders, NEW c \in Cmds, NEW o, Peek(t, c, o)
         PROVE  BootInv'
    BY <1>1 DEF Peek, ExpireApprovals, SweptPending, SweptDisk, Sweep, Recorded
  <1>2. ASSUME NEW t \in Responders, Missing(t)
         PROVE  BootInv'
    BY <1>2 DEF Missing, storeVars
  <1>3. ASSUME NEW t \in Responders, ReleaseCheck(t)
         PROVE  BootInv'
    BY <1>3 DEF ReleaseCheck, storeVars
  <1>4. ASSUME NEW t \in Responders, NEW ok \in BOOLEAN, ReleaseUnlink(t, ok)
         PROVE  BootInv'
    BY <1>4 DEF ReleaseUnlink, storeVars
  <1>5. ASSUME NEW t \in Responders, NEW ok \in BOOLEAN, RecordDispatchIntent(t, ok)
         PROVE  BootInv'
    BY <1>5 DEF RecordDispatchIntent, storeVars
  <1>6. ASSUME NEW t \in Responders, NEW o, NEW ok \in BOOLEAN, PopForDispatch(t, o, ok)
         PROVE  BootInv'
    <2>1. CASE Up
      BY <1>6, <2>1 DEF PopForDispatch, HandlerLabels
    <2>2. CASE ~Up
      <3>1. TakeApproval(arg[t], o) => BootInv'
        BY DEF TakeApproval
      <3>2. ExpireApprovals(o) => BootInv'
        BY <2>2 DEF ExpireApprovals, SweptPending, SweptDisk
      <3> QED
        BY <1>6, <3>1, <3>2 DEF PopForDispatch
    <2> QED
      BY <2>1, <2>2
  <1>7. ASSUME NEW t \in Responders, NEW ok \in BOOLEAN, Claim(t, ok)
         PROVE  BootInv'
    BY <1>7 DEF Claim, storeVars
  <1>8. ASSUME NEW t \in Responders, NEW ok \in BOOLEAN, AuditApproval(t, ok)
         PROVE  BootInv'
    BY <1>8 DEF AuditApproval, storeVars
  <1>9. ASSUME NEW t \in Responders, NEW ok \in BOOLEAN, Enqueue(t, ok)
         PROVE  BootInv'
    BY <1>9 DEF Enqueue, storeVars
  <1>10. ASSUME NEW t \in Responders, NEW ok \in BOOLEAN, Done(t, ok)
          PROVE  BootInv'
    BY <1>10 DEF Done, storeVars
  <1>11. ASSUME NEW t \in Handlers, NEW c \in Cmds, NEW o, NEW ok \in BOOLEAN, Reject(t, c, o, ok)
          PROVE  BootInv'
    BY <1>11 DEF Reject, TakeApproval, ExpireApprovals, SweptPending, SweptDisk, Sweep,
       Recorded
  <1>12. ASSUME NEW t \in Handlers, NEW ok \in BOOLEAN, RejectAudit(t, ok)
          PROVE  BootInv'
    BY <1>12 DEF RejectAudit, storeVars
  <1>13. ASSUME NEW t \in Handlers, NEW c \in Cmds, NEW ok \in BOOLEAN, Submit(t, c, ok)
          PROVE  BootInv'
    BY <1>13 DEF Submit, Recorded, AddApproval, EnqueueDict, storeVars, queueVars, threadVars
  <1>14. ASSUME NEW t \in Handlers, NEW c \in Cmds, Cancel(t, c)
          PROVE  BootInv'
    BY <1>14 DEF Cancel, storeVars
  <1>15. ASSUME NEW t \in Handlers, NEW ok \in BOOLEAN, CancelLog(t, ok)
          PROVE  BootInv'
    BY <1>15 DEF CancelLog, storeVars
  <1>16. ASSUME NEW t \in Handlers, NEW ok \in BOOLEAN, CancelDump(t, ok)
          PROVE  BootInv'
    BY <1>16 DEF CancelDump, storeVars
  <1>17. ASSUME NEW t \in Handlers, NEW o, NEW ok \in BOOLEAN, CancelPop(t, o, ok)
          PROVE  BootInv'
    BY <1>17 DEF CancelPop, TakeApproval, ExpireApprovals, SweptPending, SweptDisk, Sweep,
       Recorded
  <1>18. ASSUME NEW t \in Handlers, NEW ok \in BOOLEAN, CancelReject(t, ok)
          PROVE  BootInv'
    BY <1>18 DEF CancelReject, storeVars
  <1>19. ASSUME NEW t \in Handlers, NEW o, NEW ok \in BOOLEAN, Cascade(t, o, ok)
          PROVE  BootInv'
    BY <1>19 DEF Cascade, CancelMission, SweptPending, SweptDisk, Sweep, Recorded
  <1>20. ASSUME NEW t \in Handlers, NEW c \in Cmds, NEW ok \in BOOLEAN, CascadeLog(t, c, ok)
          PROVE  BootInv'
    BY <1>20 DEF CascadeLog, storeVars
  <1>21. ASSUME NEW o, WorkerSweep(o)
          PROVE  BootInv'
    BY <1>21 DEF WorkerSweep, ExpireApprovals, SweptPending, SweptDisk, Sweep, Recorded,
       threadVars
  <1>22. ASSUME NEW c \in Cmds, NEW ok \in BOOLEAN, DispatchNext(c, ok)
          PROVE  BootInv'
    BY <1>22 DEF DispatchNext, storeVars
  <1>23. ASSUME NEW ok \in BOOLEAN, StartRun(ok)
          PROVE  BootInv'
    BY <1>23 DEF StartRun, storeVars
  <1>24. ASSUME NEW c \in Cmds, NEW e \in {"Completed", "Failed", "none"}, RunEnds(c, e)
          PROVE  BootInv'
    BY <1>24 DEF RunEnds, storeVars, threadVars
  <1>25. ASSUME NEW c \in Cmds, Deadline(c)
          PROVE  BootInv'
    BY <1>25 DEF Deadline, threadVars
  <1>26. ASSUME Crash
          PROVE  BootInv'
    BY <1>26 DEF Crash, StoreRestart
  <1>27. ASSUME LoadQueue
          PROVE  BootInv'
    BY <1>27 DEF LoadQueue, storeVars
  <1>28. ASSUME RecoverHungCommands
          PROVE  BootInv'
    BY <1>28 DEF RecoverHungCommands, storeVars
  <1>29. ASSUME ReconcileTasks
          PROVE  BootInv'
    BY <1>29 DEF ReconcileTasks, storeVars
  <1>30. ASSUME ScanIntents
          PROVE  BootInv'
    BY <1>30 DEF ScanIntents, storeVars
  <1>31. ASSUME NEW c \in Cmds, ReplayClaimed(c)
          PROVE  BootInv'
    BY <1>31 DEF ReplayClaimed, storeVars
  <1>32. ASSUME NEW c \in Cmds, NEW o, ReplayIntent(c, o)
          PROVE  BootInv'
    BY <1>32 DEF ReplayIntent, ExpireApprovals, SweptPending, SweptDisk, Sweep, Recorded
  <1>33. ASSUME StartWorker
          PROVE  BootInv'
    BY <1>33 DEF StartWorker, storeVars
  <1> QED
    BY <1>1, <1>2, <1>3, <1>4, <1>5, <1>6, <1>7, <1>8, <1>9, <1>10, <1>11, <1>12, <1>13,
       <1>14, <1>15, <1>16, <1>17, <1>18, <1>19, <1>20, <1>21, <1>22, <1>23, <1>24, <1>25,
       <1>26, <1>27, <1>28, <1>29, <1>30, <1>31, <1>32, <1>33
    DEF Next, HandlerStep, ResponderStep, WorkerStep, RunStep, BootStep, Responders, Threads

-----------------------------------------------------------------------------
(* The three conjuncts about the copies of a command.  Most steps are quiet: *)
(* they give no command an approval, a claim, a carrier, a place in the      *)
(* queue or an event it did not have.                                        *)

Copies == ConsumedInv /\ CarrierInv /\ RunInv

Quiet ==
    /\ pending' \cup pendingDisk' \subseteq pending \cup pendingDisk
    /\ queue' \cup queueDisk' \subseteq queue \cup queueDisk
    /\ \A c \in Cmds : ledger'[c] = "claimed" => ledger[c] = "claimed"
    /\ \A c \in Cmds : "Started" \in log'[c] <=> "Started" \in log[c]
    /\ \A c \in Cmds : Starting(c)' => Starting(c)
    /\ \A t \in Responders, c \in Cmds : Carrying(t, c)' => Carrying(t, c)
    /\ running' \subseteq running
    /\ runs' = runs

\* A quiet step keeps them.
LEMMA QuietKeeps ==
    ASSUME Copies, StoreTypeOK, Quiet
    PROVE  Copies'
  BY DEF Copies, ConsumedInv, CarrierInv, RunInv, Quiet, Responders, StoreTypeOK

\* Every step keeps them: eight actions move a copy of a command on, the others
\* are quiet.
LEMMA CopiesStep ==
    ASSUME TypeOK, ControlInv, KnownInv, BootInv, Copies, Next
    PROVE  Copies'
  <1> USE DeliveryAssumption DEF TypeOK, LogTypeOK, StoreTypeOK, LedgerTypeOK, QueueTypeOK,
      Threads, Responders, Starting, Carrying, Goto, GotoFor
  <1>1. ASSUME NEW t \in Responders, NEW c \in Cmds, NEW o, Peek(t, c, o)
         PROVE  Quiet
    BY <1>1 DEF Peek, ExpireApprovals, SweptPending, SweptDisk, Sweep, Recorded,
       SweepOutcomes, Expired, PeekResult, Quiet, ControlInv, Return, Home, storeVars,
       queueVars, threadVars, historyVars
  <1>2. ASSUME NEW t \in Responders, Missing(t)
         PROVE  Quiet
    BY <1>2 DEF Missing, Quiet, ControlInv, Return, Home, storeVars, queueVars,
       threadVars, historyVars
  <1>3. ASSUME NEW t \in Responders, ReleaseCheck(t)
         PROVE  Quiet
    BY <1>3 DEF ReleaseCheck, Quiet, ControlInv, Return, Home, storeVars, queueVars,
       threadVars, historyVars
  <1>4. ASSUME NEW t \in Responders, NEW ok \in BOOLEAN, ReleaseUnlink(t, ok)
         PROVE  Quiet
    BY <1>4 DEF ReleaseUnlink, Unlink, Quiet, ControlInv, Return, Home, storeVars,
       queueVars, threadVars, historyVars
  <1>5. ASSUME NEW t \in Responders, NEW ok \in BOOLEAN, RecordDispatchIntent(t, ok)
         PROVE  Quiet
    BY <1>5 DEF RecordDispatchIntent, RecordIntent, Quiet, ControlInv, Return, Home,
       storeVars, queueVars, threadVars, historyVars
  <1>6. ASSUME NEW t \in Responders, NEW o, NEW ok \in BOOLEAN, PopForDispatch(t, o, ok)
         PROVE  Copies'
    <2> DEFINE c == arg[t]
    <2>0. c \in Cmds
      BY <1>6 DEF PopForDispatch, KnownInv, ArgKnown, HomeLabels
    <2>1. CASE TakeApproval(c, o) /\ Goto(t, "claim") /\ arg' = arg
      <3>1. c \in pending /\ pending' \cup pendingDisk' \subseteq pending \ {c}
        BY <2>1 DEF TakeApproval, SweptPending, Usable
      <3>2. \A u \in Responders, d \in Cmds :
               Carrying(u, d)' => Carrying(u, d) \/ (u = t /\ d = c)
        BY <2>1 DEF Carrying, Goto
      <3>3. \A d \in Cmds : Starting(d)' => Starting(d)
        BY <2>1 DEF Starting, Goto
      <3>4. \A d \in Cmds : "Started" \in log'[d] <=> "Started" \in log[d]
        BY <2>1 DEF TakeApproval, Sweep, Recorded
      <3>5. UNCHANGED <<ledger, queue, queueDisk, running, runs>>
        BY <1>6 DEF PopForDispatch, queueVars
      <3>6. ConsumedInv'
        BY <2>0, <3>1, <3>2, <3>3, <3>4, <3>5 DEF Copies, ConsumedInv
      <3>7. CarrierInv'
        BY <2>0, <3>1, <3>2, <3>3, <3>4, <3>5 DEF Copies, ConsumedInv, CarrierInv, Responders
      <3>8. RunInv'
        BY <3>3, <3>4, <3>5 DEF Copies, RunInv
      <3> QED
        BY <3>6, <3>7, <3>8 DEF Copies
    <2>2. CASE ExpireApprovals(o) /\ (Return(t) \/ (Goto(t, "check") /\ arg' = arg))
      <3>1. \A u \in Responders, d \in Cmds : Carrying(u, d)' => Carrying(u, d)
        BY <2>2 DEF Carrying, Return, GotoFor, Goto, Home
      <3>2. \A d \in Cmds : Starting(d)' => Starting(d)
        BY <2>2 DEF Starting, Return, GotoFor, Goto, Home
      <3>3. Quiet
        BY <1>6, <2>2, <3>1, <3>2 DEF PopForDispatch, ExpireApprovals, SweptPending,
           SweptDisk, Sweep, Recorded, queueVars, Quiet
      <3> QED
        BY <3>3, QuietKeeps
    <2> QED
      BY <1>6, <2>1, <2>2 DEF PopForDispatch
  <1>7. ASSUME NEW t \in Responders, NEW ok \in BOOLEAN, Claim(t, ok)
         PROVE  Copies'
    BY <1>7 DEF Claim, ClaimIntent, Copies, ConsumedInv, CarrierInv, RunInv, ControlInv,
       Return, Home, Up, storeVars, queueVars, historyVars
  <1>8. ASSUME NEW t \in Responders, NEW ok \in BOOLEAN, AuditApproval(t, ok)
         PROVE  Quiet
    BY <1>8 DEF AuditApproval, Quiet, ControlInv, Return, Home, storeVars, queueVars,
       threadVars, historyVars
  <1>9. ASSUME NEW t \in Responders, NEW ok \in BOOLEAN, Enqueue(t, ok)
         PROVE  Copies'
    <2> DEFINE c == arg[t]
    <2>0. c \in Cmds /\ Carrying(t, c)
      BY <1>9 DEF Enqueue, KnownInv, ArgKnown, HomeLabels, Carrying
    <2>1. \A u \in Responders, d \in Cmds : Carrying(u, d)' => Carrying(u, d) /\ u # t
      BY <1>9 DEF Enqueue, Return, GotoFor, Goto, Home
    <2>2. \A d \in Cmds : Starting(d)' => Starting(d)
      BY <1>9 DEF Enqueue, Return, GotoFor, Goto, Home
    <2>3. UNCHANGED <<log, pending, pendingDisk, ledger, running, runs>>
      BY <1>9 DEF Enqueue, storeVars, historyVars
    <2>4. CASE HasQueued(c)
      <3>1. Quiet
        BY <1>9, <2>1, <2>2, <2>3, <2>4 DEF Enqueue, EnqueueDict, queueVars, Quiet
      <3> QED
        BY <3>1, QuietKeeps
    <2>5. CASE ~HasQueued(c)
      <3>1. queue' \cup queueDisk' \subseteq queue \cup queueDisk \cup {c}
        BY <1>9, <2>5 DEF Enqueue, EnqueueDict
      <3>2. c \notin pending \cup pendingDisk
        BY <1>9, <2>0 DEF Copies, ConsumedInv
      <3>3. "Started" \notin log[c]
        BY <2>5 DEF HasQueued, HasCommandDispatched
      <3>4. ~Starting(c) /\ \A u \in Handlers : Carrying(u, c) => u = t
        <4>1. CASE t \in Handlers
          BY <2>0, <4>1 DEF Copies, CarrierInv
        <4>2. CASE t = Boot
          BY <1>9, <4>2 DEF Enqueue, ControlInv, Up, Starting, Carrying
        <4> QED
          BY <4>1, <4>2
      <3>5. ConsumedInv'
        BY <2>0, <2>1, <2>2, <2>3, <3>1, <3>2 DEF Copies, ConsumedInv
      <3>6. CarrierInv'
        BY <2>0, <2>1, <2>2, <2>3, <3>1, <3>4 DEF Copies, CarrierInv
      <3>7. RunInv'
        BY <2>0, <2>2, <2>3, <3>1, <3>3, <3>4 DEF Copies, RunInv
      <3> QED
        BY <3>5, <3>6, <3>7 DEF Copies
    <2> QED
      BY <2>4, <2>5
  <1>10. ASSUME NEW t \in Responders, NEW ok \in BOOLEAN, Done(t, ok)
          PROVE  Quiet
    BY <1>10 DEF Done, Unlink, Quiet, ControlInv, Return, Home, storeVars, queueVars,
       threadVars, historyVars
  <1>11. ASSUME NEW t \in Handlers, NEW c \in Cmds, NEW o, NEW ok \in BOOLEAN, Reject(t, c, o, ok)
          PROVE  Quiet
    BY <1>11 DEF Reject, TakeApproval, ExpireApprovals, SweptPending, SweptDisk, Sweep,
       Recorded, SweepOutcomes, Expired, Quiet, ControlInv, Return, Home, storeVars,
       queueVars, threadVars, historyVars
  <1>12. ASSUME NEW t \in Handlers, NEW ok \in BOOLEAN, RejectAudit(t, ok)
          PROVE  Quiet
    BY <1>12 DEF RejectAudit, Recorded, Quiet, ControlInv, Return, Home, storeVars,
       queueVars, threadVars, historyVars
  <1>13. ASSUME NEW t \in Handlers, NEW c \in Cmds, NEW ok \in BOOLEAN, Submit(t, c, ok)
          PROVE  Copies'
    <2>1. /\ c \notin pending \cup pendingDisk \cup queue \cup queueDisk
          /\ ledger[c] # "claimed" /\ "Started" \notin log[c]
      BY <1>13 DEF Submit, KnownInv, KnownData, HasIntent
    <2>2. ~Starting(c) /\ \A u \in Responders : ~Carrying(u, c)
      BY <1>13 DEF Submit, KnownInv, ArgKnown, HomeLabels, Starting, Carrying
    <2>3. \/ pending' \cup pendingDisk' \subseteq pending \cup pendingDisk /\
             queue' \cup queueDisk' \subseteq queue \cup queueDisk \cup {c}
          \/ pending' \cup pendingDisk' \subseteq pending \cup pendingDisk \cup {c} /\
             queue' \cup queueDisk' \subseteq queue \cup queueDisk
      BY <1>13 DEF Submit, Recorded, AddApproval, EnqueueDict, storeVars, queueVars
    <2>4. /\ UNCHANGED <<ledger, pc, arg, running, runs>>
          /\ \A d \in Cmds : "Started" \in log'[d] <=> "Started" \in log[d]
          /\ \A d \in Cmds : Starting(d)' <=> Starting(d)
          /\ \A u \in Responders, d \in Cmds : Carrying(u, d)' <=> Carrying(u, d)
      BY <1>13 DEF Submit, Recorded, threadVars, historyVars
    <2>5. ConsumedInv'
      BY <2>1, <2>2, <2>3, <2>4 DEF Copies, ConsumedInv
    <2>6. CarrierInv'
      BY <2>1, <2>2, <2>3, <2>4 DEF Copies, CarrierInv
    <2>7. RunInv'
      BY <2>1, <2>2, <2>3, <2>4 DEF Copies, RunInv
    <2> QED
      BY <2>5, <2>6, <2>7 DEF Copies
  <1>14. ASSUME NEW t \in Handlers, NEW c \in Cmds, Cancel(t, c)
          PROVE  Quiet
    BY <1>14 DEF Cancel, Quiet, ControlInv, Return, Home, storeVars, queueVars,
       threadVars, historyVars
  <1>15. ASSUME NEW t \in Handlers, NEW ok \in BOOLEAN, CancelLog(t, ok)
          PROVE  Quiet
    BY <1>15 DEF CancelLog, Recorded, Quiet, ControlInv, Return, Home, storeVars,
       queueVars, threadVars, historyVars
  <1>16. ASSUME NEW t \in Handlers, NEW ok \in BOOLEAN, CancelDump(t, ok)
          PROVE  Quiet
    BY <1>16 DEF CancelDump, Quiet, ControlInv, Return, Home, storeVars, queueVars,
       threadVars, historyVars
  <1>17. ASSUME NEW t \in Handlers, NEW o, NEW ok \in BOOLEAN, CancelPop(t, o, ok)
          PROVE  Quiet
    BY <1>17 DEF CancelPop, TakeApproval, ExpireApprovals, SweptPending, SweptDisk, Sweep,
       Recorded, SweepOutcomes, Expired, Quiet, ControlInv, Return, Home, storeVars,
       queueVars, threadVars, historyVars
  <1>18. ASSUME NEW t \in Handlers, NEW ok \in BOOLEAN, CancelReject(t, ok)
          PROVE  Quiet
    BY <1>18 DEF CancelReject, Recorded, Quiet, ControlInv, Return, Home, storeVars,
       queueVars, threadVars, historyVars
  <1>19. ASSUME NEW t \in Handlers, NEW o, NEW ok \in BOOLEAN, Cascade(t, o, ok)
          PROVE  Quiet
    BY <1>19 DEF Cascade, CancelMission, SweptPending, SweptDisk, Sweep, Recorded,
       SweepOutcomes, Expired, ChildrenOf, Quiet, ControlInv, Return, Home, storeVars,
       queueVars, threadVars, historyVars
  <1>20. ASSUME NEW t \in Handlers, NEW c \in Cmds, NEW ok \in BOOLEAN, CascadeLog(t, c, ok)
          PROVE  Quiet
    BY <1>20 DEF CascadeLog, Recorded, Quiet, ControlInv, Return, Home, storeVars,
       queueVars, threadVars, historyVars
  <1>21. ASSUME NEW o, WorkerSweep(o)
          PROVE  Quiet
    BY <1>21 DEF WorkerSweep, ExpireApprovals, SweptPending, SweptDisk, Sweep, Recorded,
       SweepOutcomes, Expired, Quiet, ControlInv, Return, Home, storeVars, queueVars,
       threadVars, historyVars
  <1>22. ASSUME NEW c \in Cmds, NEW ok \in BOOLEAN, DispatchNext(c, ok)
          PROVE  Copies'
    BY <1>22 DEF DispatchNext, PopQueued, Copies, ConsumedInv, CarrierInv, RunInv,
       ControlInv, Return, Home, Up, storeVars, queueVars, historyVars
  <1>23. ASSUME NEW ok \in BOOLEAN, StartRun(ok)
          PROVE  Copies'
    BY <1>23 DEF StartRun, Recorded, Copies, ConsumedInv, CarrierInv, RunInv, ControlInv,
       Return, Home, Up, storeVars, queueVars, historyVars
  <1>24. ASSUME NEW c \in Cmds, NEW e \in {"Completed", "Failed", "none"}, RunEnds(c, e)
          PROVE  Quiet
    BY <1>24 DEF RunEnds, Recorded, Quiet, ControlInv, Return, Home, storeVars, queueVars,
       threadVars, historyVars
  <1>25. ASSUME NEW c \in Cmds, Deadline(c)
          PROVE  Quiet
    BY <1>25 DEF Deadline, Quiet, ControlInv, Return, Home, storeVars, queueVars,
       threadVars, historyVars
  <1>26. ASSUME Crash
          PROVE  Quiet
    BY <1>26 DEF Crash, StoreRestart, Quiet, ControlInv, Return, Home, storeVars,
       queueVars, threadVars, historyVars
  <1>27. ASSUME LoadQueue
          PROVE  Quiet
    BY <1>27 DEF LoadQueue, InitFromDisk, Quiet, ControlInv, Return, Home, storeVars,
       queueVars, threadVars, historyVars
  <1>28. ASSUME RecoverHungCommands
          PROVE  Quiet
    BY <1>28 DEF RecoverHungCommands, Recorded, Hung, Quiet, ControlInv, Return, Home,
       storeVars, queueVars, threadVars, historyVars
  <1>29. ASSUME ReconcileTasks
          PROVE  Quiet
    BY <1>29 DEF ReconcileTasks, Quiet, ControlInv, Return, Home, storeVars, queueVars,
       threadVars, historyVars
  <1>30. ASSUME ScanIntents
          PROVE  Quiet
    BY <1>30 DEF ScanIntents, Quiet, ControlInv, Return, Home, storeVars, queueVars,
       threadVars, historyVars
  <1>31. ASSUME NEW c \in Cmds, ReplayClaimed(c)
          PROVE  Copies'
    BY <1>31 DEF ReplayClaimed, Copies, ConsumedInv, CarrierInv, RunInv, ControlInv,
       Return, Home, Up, storeVars, queueVars, historyVars
  <1>32. ASSUME NEW c \in Cmds, NEW o, ReplayIntent(c, o)
          PROVE  Copies'
    <2>1. /\ pending' \cup pendingDisk' \subseteq pending \cup pendingDisk
          /\ \A d \in Cmds : "Started" \in log'[d] <=> "Started" \in log[d]
      BY <1>32 DEF ReplayIntent, ExpireApprovals, SweptPending, SweptDisk, Sweep, Recorded,
         SweepOutcomes, Expired
    <2>2. pending = pendingDisk
      BY <1>32 DEF ReplayIntent, BootInv, Up
    <2>3. /\ UNCHANGED <<ledger, queue, queueDisk, running, runs>>
          /\ \A d \in Cmds : Starting(d)' <=> Starting(d)
      BY <1>32 DEF ReplayIntent, queueVars
    <2>4. pc'[Boot] \in {"claim", "audit", "enqueue"} => c \notin pending
      BY <1>32 DEF ReplayIntent, GotoFor, Goto, PeekResult, Usable, Expired
    <2>5. /\ arg'[Boot] = c
          /\ \A u \in Threads \ {Boot} : pc'[u] = pc[u] /\ arg'[u] = arg[u]
      BY <1>32 DEF ReplayIntent, GotoFor, Goto
    <2>6. \A u \in Responders, d \in Cmds :
             Carrying(u, d)' => Carrying(u, d) \/ (u = Boot /\ d = c /\ c \notin pending)
      BY <2>4, <2>5 DEF Carrying, Threads, Responders
    <2>7. ConsumedInv'
      BY <2>1, <2>2, <2>3, <2>6 DEF Copies, ConsumedInv
    <2>8. CarrierInv'
      BY <2>1, <2>3, <2>6 DEF Copies, CarrierInv
    <2>9. RunInv'
      BY <2>1, <2>3 DEF Copies, RunInv
    <2> QED
      BY <2>7, <2>8, <2>9 DEF Copies
  <1>33. ASSUME StartWorker
          PROVE  Quiet
    BY <1>33 DEF StartWorker, InitFromDisk, Quiet, ControlInv, Return, Home, storeVars,
       queueVars, threadVars, historyVars
  <1> QED
    BY <1>1, <1>2, <1>3, <1>4, <1>5, <1>6, <1>7, <1>8, <1>9, <1>10, <1>11, <1>12, <1>13,
       <1>14, <1>15, <1>16, <1>17, <1>18, <1>19, <1>20, <1>21, <1>22, <1>23, <1>24, <1>25,
       <1>26, <1>27, <1>28, <1>29, <1>30, <1>31, <1>32, <1>33, QuietKeeps
    DEF Next, HandlerStep, ResponderStep, WorkerStep, RunStep, BootStep, Responders, Threads

-----------------------------------------------------------------------------
(* The theorems.                                                             *)

\* A stuttering step changes nothing.
LEMMA Stuttering ==
    ASSUME IInv, UNCHANGED vars
    PROVE  IInv'
  BY DEF IInv, vars, TypeOK, ControlInv, KnownInv, KnownData, ArgKnown, BootInv, ConsumedInv, CarrierInv,
     RunInv, LogTypeOK, StoreTypeOK, LedgerTypeOK, QueueTypeOK, storeVars, queueVars,
     threadVars, budget, historyVars, Up, Starting, Carrying, HasIntent

\* A fresh installation satisfies the invariant.
LEMMA InitIInv ==
    ASSUME Init
    PROVE  IInv
  <1> USE DeliveryAssumption, CommandsAssumption
  <1>1. TypeOK
    BY DEF Init, TypeOK, LogInit, StoreInit, LedgerInit, QueueInit, LogTypeOK, StoreTypeOK,
       LedgerTypeOK, QueueTypeOK, EventTypes, LedgerStates, Labels, Consumers, Threads
  <1>2. ControlInv
    BY DEF Init, ControlInv, HandlerLabels, BootLabels, Threads, Up
  <1>3. KnownInv /\ BootInv
    BY DEF Init, LogInit, StoreInit, LedgerInit, QueueInit, KnownInv, KnownData, ArgKnown, HasIntent,
       HomeLabels, BootInv, Threads
  <1>4. ConsumedInv /\ CarrierInv /\ RunInv
    BY DEF Init, LogInit, StoreInit, LedgerInit, QueueInit, ConsumedInv, CarrierInv, RunInv,
       Carrying, Starting, Threads
  <1> QED
    BY <1>1, <1>2, <1>3, <1>4 DEF IInv

\* IInv is an invariant: requests, worker, runs, faults, crashes and recovery all keep it.
THEOREM Invariance == Spec => []IInv
  <1>1. IInv /\ [Next]_vars => IInv'
    <2> SUFFICES ASSUME IInv, [Next]_vars PROVE IInv'
      OBVIOUS
    <2>1. CASE Next
      <3>1. TypeOK'
        BY <2>1, TypeStep DEF IInv, KnownInv
      <3>2. ControlInv' /\ KnownInv'
        BY <2>1, ControlStep, KnownStep DEF IInv, KnownInv, KnownData
      <3>3. BootInv'
        BY <2>1, BootInvStep DEF IInv
      <3>4. ConsumedInv' /\ CarrierInv' /\ RunInv'
        BY <2>1, CopiesStep DEF IInv, Copies
      <3> QED
        BY <3>1, <3>2, <3>3, <3>4 DEF IInv
    <2>2. CASE UNCHANGED vars
      BY <2>2, Stuttering
    <2> QED
      BY <2>1, <2>2
  <1> QED
    BY <1>1, InitIInv, PTL DEF Spec

\* Every variable keeps its type; in particular no thread ever acts for "no command".
THEOREM TypeCorrect == Spec => []TypeOK
  <1>1. IInv => TypeOK
    BY DEF IInv
  <1> QED
    BY <1>1, Invariance, PTL

\* A command is run at most once, whatever is duplicated, fails, crashes or restarts.
THEOREM RunAtMostOnce == Spec => []AtMostOnce
  <1>1. IInv => AtMostOnce
    BY DEF IInv, RunInv, AtMostOnce
  <1> QED
    BY <1>1, Invariance, PTL

\* What the worker holds, runs or has run is neither queued nor in the queue file.
THEOREM OneRunnableCopy == Spec => []SingleRunnableCopy
  <1>1. IInv => SingleRunnableCopy
    BY DEF IInv, RunInv, SingleRunnableCopy
  <1> QED
    BY <1>1, Invariance, PTL

\* One command, one run: the types, the single run and the single runnable copy
\* together, as a run of the model checker states them on an instance.
THEOREM DeliveredOnce == Spec => []RunsOnce
  <1>1. TypeOK /\ AtMostOnce /\ SingleRunnableCopy => RunsOnce
    BY DEF RunsOnce
  <1> QED
    BY <1>1, TypeCorrect, RunAtMostOnce, OneRunnableCopy, PTL

(***************************************************************************)
(* What a restart needs, and what is refused.                              *)
(***************************************************************************)
At(t, labels, c) == pc[t] \in labels /\ arg[t] = c

(***************************************************************************)
(* The ledger.  The consume lock makes record, pop and claim one section;  *)
(* release_intent_if_unclaimed runs outside of it, so what protects a      *)
(* claim from its unlink is that a thread which may release an intent came *)
(* upon an approval that nobody can take any more.                         *)
(***************************************************************************)
Claiming(t, c) == pc[t] = "claim" /\ arg[t] = c

\* Between the intent and the claim nobody else writes the record.
HoldsSection(t) ==
    /\ pc[t] \in {"popNew", "popOld", "claim"} => consumeLock = t
    /\ pc[t] \in {"popNew", "popOld"} /\ arg[t] \in Usable => HasIntent(arg[t])
    /\ pc[t] = "claim" => ledger[arg[t]] = "intent"

\* Who may release the intent of a command, or is done with it.
Releasing == {"check", "unlink", "checkTaken", "unlinkTaken", "done"}

ReleasesSafely(t) ==
    /\ pc[t] \in Releasing \cup {"missing"} => arg[t] \notin Usable
    /\ pc[t] \in Releasing => \A u \in Responders : ~Claiming(u, arg[t])
    /\ pc[t] \in {"unlink", "unlinkTaken"} => ledger[arg[t]] # "claimed"
    /\ pc[t] \in {"checkTaken", "unlinkTaken"} =>
          consumer[arg[t]] = "reject" /\ arg[t] \notin pending

\* The command of an authorised approval has been in the queue file, has a logged
\* outcome, or is past its deadline: it does not need the ledger any more.
Safe(c) == c \in everQueued \/ log[c] # {} \/ c \in due

LosesNothing(t) ==
    /\ pc[t] \in {"popNew", "unlink"} /\ Authorised(arg[t]) => Safe(arg[t])
    /\ pc[t] = "check" /\ Authorised(arg[t]) => Safe(arg[t]) \/ ledger[arg[t]] = "claimed"
    /\ pc[t] = "done" => arg[t] \in everQueued \/ log[arg[t]] # {}

ThreadInv(t) == HoldsSection(t) /\ ReleasesSafely(t) /\ LosesNothing(t)

LedgerInv ==
    /\ \A t \in Threads : ThreadInv(t)
    /\ RecoverableUntilQueued

\* What memory alone knows as queued, recovery does not meet again: else the
\* enqueue of an intent would be skipped and the intent deleted.
RecoveryInv ==
    /\ queueDisk \subseteq everQueued
    /\ ~Up => \A c \in queue \ everQueued :
                 /\ pc[Boot] \notin {"down", "hung", "reconcile", "scan"}
                 /\ c \notin batch[Boot]
                 /\ pc[Boot] # "replay" => arg[Boot] # c
    /\ ~Up /\ pc[Boot] \notin HomeLabels => arg[Boot] \notin batch[Boot]

(***************************************************************************)
(* Refusals.  A command is out when nothing would start it.                *)
(***************************************************************************)
Out(c) ==
    /\ c \notin queue \cup queueDisk
    /\ ~Starting(c)
    /\ "Started" \notin log[c]
    /\ \A t \in Responders : ~Carrying(t, c)

\* An intent may survive an approval that expired; its deadline outlives it.
ExpiryInv ==
    \A c \in Cmds : consumer[c] = "expiry" =>
        /\ c \in due /\ c \in created
        /\ c \notin pending \cup pendingDisk
        /\ ledger[c] # "claimed"
        /\ Out(c)

\* About to log the rejection of a command.
Rejecting(t, c) ==
    \/ At(t, {"checkTaken", "unlinkTaken", "rejAudit", "cxlReject"}, c)
    \/ pc[t] = "cascadeLog" /\ c \in batch[t]

RejectingInv ==
    \A t \in Handlers, c \in Cmds : Rejecting(t, c) =>
        /\ c \in created
        /\ c \notin pending \cup pendingDisk
        /\ Out(c)

\* An intent may survive a logged rejection too and reach the enqueue again,
\* which is where the event stops it.
RejectedInv ==
    \A c \in Cmds : "Rejected" \in log[c] =>
        /\ c \in created
        /\ c \notin Usable /\ c \notin pendingDisk \ due
        /\ c \notin queue \cup queueDisk
        /\ ~Starting(c)

SInv == LedgerInv /\ RecoveryInv /\ ExpiryInv /\ RejectingInv /\ RejectedInv /\ RemovalIsDurable
-----------------------------------------------------------------------------
(* What any step of the bridge does to the files, the store and the log,     *)
(* whatever thread takes it: the two lemmas every proof below starts from.   *)

\* Nothing comes back: an approval leaves the store for one of the four reasons,
\* and what has happened stays so.
Grows ==
    /\ created \subseteq created' /\ due \subseteq due'
    /\ everQueued' = everQueued \cup queueDisk'
    /\ \A c \in Cmds : log[c] \subseteq log'[c]

Leaves(c) ==
    /\ c \in pending /\ c \notin pending'
    /\ consumer'[c] = "expiry" => c \in due
    /\ consumer'[c] = "approve" => c \notin due
    /\ consumer'[c] = "cancel" => MissionOf[c] # NoCmd \/ c \notin pendingDisk'
    /\ consumer'[c] # "cancel" => c \notin pendingDisk'

StoreShrinks ==
    /\ \A c \in created :
          /\ c \in pending' => c \in pending
          /\ c \in pendingDisk' => c \in pending \cup pendingDisk
    /\ \A c \in Cmds : consumer'[c] # consumer[c] => Leaves(c)

FileKeepsUp ==
    \A c \in pendingDisk' \ pending' :
        \/ c \in pendingDisk \ pending
        \/ MissionOf[c] # NoCmd /\ consumer'[c] = "cancel"

\* The two outcomes of an operation that pops: the sweep alone, or the sweep and
\* the pop.
LEMMA ExpireEffect ==
    ASSUME TypeOK, created' = created, NEW o, ExpireApprovals(o),
           consumer' = Mark(o.gone, "expiry")
    PROVE  StoreShrinks /\ FileKeepsUp /\ due' = due /\ \A c \in Cmds : log[c] \subseteq log'[c]
  BY DEF TypeOK, LogTypeOK, StoreTypeOK, ExpireApprovals, SweptPending, SweptDisk, Sweep,
     Recorded, SweepOutcomes, Expired, Mark, StoreShrinks, FileKeepsUp, Leaves

LEMMA TakeEffect ==
    ASSUME TypeOK, created' = created, NEW o, NEW c \in Cmds, TakeApproval(c, o),
           NEW who \in {"approve", "reject", "cancel"},
           consumer' = [Mark(o.gone, "expiry") EXCEPT ![c] = who]
    PROVE  StoreShrinks /\ FileKeepsUp /\ due' = due /\ \A d \in Cmds : log[d] \subseteq log'[d]
  <1> USE DEF TypeOK, LogTypeOK, StoreTypeOK, TakeApproval, SweptPending, Sweep, Recorded,
      SweepOutcomes, Expired, Usable
  <1>1. /\ \A d \in Cmds \ {c} : consumer'[d] = IF d \in o.gone THEN "expiry" ELSE consumer[d]
        /\ consumer'[c] = who
    BY DEF Mark
  <1>2. /\ pending' = (pending \ o.gone) \ {c} /\ pendingDisk' = pending'
        /\ c \in pending \ due /\ o.gone \subseteq pending \cap due
    OBVIOUS
  <1>3. StoreShrinks /\ FileKeepsUp
    BY <1>1, <1>2 DEF StoreShrinks, FileKeepsUp, Leaves
  <1> QED
    BY <1>3

\* A live process only takes approvals out, and says why in "consumer".
LEMMA StoreStep ==
    ASSUME TypeOK, ControlInv, KnownInv, Next
    PROVE  /\ Grows
           /\ ~Crash => StoreShrinks /\ FileKeepsUp
  <1> DEFINE Kept == Grows /\ (~Crash => StoreShrinks /\ FileKeepsUp)
  <1> USE DeliveryAssumption, CommandsAssumption DEF TypeOK, LogTypeOK, StoreTypeOK, Grows
  <1>a. /\ everQueued' = everQueued \cup queueDisk'
        /\ \A t \in Threads : pc[t] \notin HomeLabels => arg[t] \in Cmds
        /\ created \subseteq Cmds
    BY DEF Next, KnownInv, ArgKnown
  <1>1. ASSUME NEW t \in Responders, NEW c \in Cmds, NEW o, Peek(t, c, o)
         PROVE  Kept
    BY <1>1, <1>a DEF Peek, ExpireApprovals, SweptPending, SweptDisk, Sweep, Recorded,
       SweepOutcomes, Expired, PeekResult, queueVars, Mark, StoreShrinks, FileKeepsUp,
       Leaves
  <1>2. ASSUME NEW t \in Responders, Missing(t)
         PROVE  Kept
    BY <1>2, <1>a DEF Missing, storeVars, queueVars, budget, historyVars, StoreShrinks,
       FileKeepsUp, Leaves
  <1>3. ASSUME NEW t \in Responders, ReleaseCheck(t)
         PROVE  Kept
    BY <1>3, <1>a DEF ReleaseCheck, storeVars, queueVars, budget, historyVars, StoreShrinks,
       FileKeepsUp, Leaves
  <1>4. ASSUME NEW t \in Responders, NEW ok \in BOOLEAN, ReleaseUnlink(t, ok)
         PROVE  Kept
    BY <1>4, <1>a DEF ReleaseUnlink, Unlink, storeVars, queueVars, historyVars, StoreShrinks,
       FileKeepsUp, Leaves
  <1>5. ASSUME NEW t \in Responders, NEW ok \in BOOLEAN, RecordDispatchIntent(t, ok)
         PROVE  Kept
    BY <1>5, <1>a DEF RecordDispatchIntent, RecordIntent, storeVars, queueVars, historyVars,
       StoreShrinks, FileKeepsUp, Leaves
  <1>6. ASSUME NEW t \in Responders, NEW o, NEW ok \in BOOLEAN, PopForDispatch(t, o, ok)
         PROVE  Kept
    <2>1. /\ created' = created
          /\ \/ ExpireApprovals(o) /\ consumer' = Mark(o.gone, "expiry")
             \/ TakeApproval(arg[t], o) /\ consumer' = [Mark(o.gone, "expiry") EXCEPT ![arg[t]] = "approve"]
      BY <1>6 DEF PopForDispatch
    <2>2. arg[t] \in Cmds
      BY <1>6, <1>a DEF PopForDispatch, HomeLabels, Responders, Threads
    <2> QED
      BY <2>1, <2>2, <1>a, ExpireEffect, TakeEffect
  <1>7. ASSUME NEW t \in Responders, NEW ok \in BOOLEAN, Claim(t, ok)
         PROVE  Kept
    BY <1>7, <1>a DEF Claim, ClaimIntent, storeVars, queueVars, historyVars, StoreShrinks,
       FileKeepsUp, Leaves
  <1>8. ASSUME NEW t \in Responders, NEW ok \in BOOLEAN, AuditApproval(t, ok)
         PROVE  Kept
    BY <1>8, <1>a DEF AuditApproval, storeVars, queueVars, historyVars, StoreShrinks,
       FileKeepsUp, Leaves
  <1>9. ASSUME NEW t \in Responders, NEW ok \in BOOLEAN, Enqueue(t, ok)
         PROVE  Kept
    BY <1>9, <1>a DEF Enqueue, EnqueueDict, HasQueued, HasCommandDispatched, storeVars,
       queueVars, historyVars, StoreShrinks, FileKeepsUp, Leaves
  <1>10. ASSUME NEW t \in Responders, NEW ok \in BOOLEAN, Done(t, ok)
         PROVE  Kept
    BY <1>10, <1>a DEF Done, Unlink, storeVars, queueVars, historyVars, StoreShrinks,
       FileKeepsUp, Leaves
  <1>11. ASSUME NEW t \in Handlers, NEW c \in Cmds, NEW o, NEW ok \in BOOLEAN, Reject(t, c, o, ok)
         PROVE  Kept
    <2>1. /\ created' = created
          /\ \/ ExpireApprovals(o) /\ consumer' = Mark(o.gone, "expiry")
             \/ TakeApproval(c, o) /\ consumer' = [Mark(o.gone, "expiry") EXCEPT ![c] = "reject"]
      BY <1>11 DEF Reject
    <2>2. c \in Cmds
      BY <1>11, <1>a DEF Reject, HomeLabels, Responders, Threads
    <2> QED
      BY <2>1, <2>2, <1>a, ExpireEffect, TakeEffect
  <1>12. ASSUME NEW t \in Handlers, NEW ok \in BOOLEAN, RejectAudit(t, ok)
         PROVE  Kept
    BY <1>12, <1>a DEF RejectAudit, Recorded, storeVars, queueVars, historyVars, StoreShrinks,
       FileKeepsUp, Leaves
  <1>13. ASSUME NEW t \in Handlers, NEW c \in Cmds, NEW ok \in BOOLEAN, Submit(t, c, ok)
         PROVE  Kept
    BY <1>13, <1>a DEF Submit, Recorded, AddApproval, EnqueueDict, HasQueued, storeVars, queueVars,
       threadVars, historyVars, StoreShrinks, FileKeepsUp, Leaves
  <1>14. ASSUME NEW t \in Handlers, NEW c \in Cmds, Cancel(t, c)
         PROVE  Kept
    BY <1>14, <1>a DEF Cancel, storeVars, budget, historyVars, StoreShrinks, FileKeepsUp,
       Leaves
  <1>15. ASSUME NEW t \in Handlers, NEW ok \in BOOLEAN, CancelLog(t, ok)
         PROVE  Kept
    BY <1>15, <1>a DEF CancelLog, Recorded, storeVars, queueVars, historyVars, StoreShrinks,
       FileKeepsUp, Leaves
  <1>16. ASSUME NEW t \in Handlers, NEW ok \in BOOLEAN, CancelDump(t, ok)
         PROVE  Kept
    BY <1>16, <1>a DEF CancelDump, storeVars, queueVars, historyVars, StoreShrinks,
       FileKeepsUp, Leaves
  <1>17. ASSUME NEW t \in Handlers, NEW o, NEW ok \in BOOLEAN, CancelPop(t, o, ok)
         PROVE  Kept
    <2>1. /\ created' = created
          /\ \/ ExpireApprovals(o) /\ consumer' = Mark(o.gone, "expiry")
             \/ TakeApproval(arg[t], o) /\ consumer' = [Mark(o.gone, "expiry") EXCEPT ![arg[t]] = "cancel"]
      BY <1>17 DEF CancelPop
    <2>2. arg[t] \in Cmds
      BY <1>17, <1>a DEF CancelPop, HomeLabels, Responders, Threads
    <2> QED
      BY <2>1, <2>2, <1>a, ExpireEffect, TakeEffect
  <1>18. ASSUME NEW t \in Handlers, NEW ok \in BOOLEAN, CancelReject(t, ok)
         PROVE  Kept
    BY <1>18, <1>a DEF CancelReject, Recorded, storeVars, queueVars, historyVars,
       StoreShrinks, FileKeepsUp, Leaves
  <1>19. ASSUME NEW t \in Handlers, NEW o, NEW ok \in BOOLEAN, Cascade(t, o, ok)
         PROVE  Kept
    <2> DEFINE kids == ChildrenOf(arg[t])
    <2>1. arg[t] \in Cmds
      BY <1>19, <1>a DEF Cascade, HomeLabels, Threads
    <2>2. kids \subseteq pending \ due /\ \A c \in kids : MissionOf[c] # NoCmd
      BY <2>1 DEF ChildrenOf, Usable
    <2>3. o.gone \subseteq pending \cap due /\ pending' = (pending \ o.gone) \ kids
      BY <1>19 DEF Cascade, CancelMission, Sweep, SweepOutcomes, Expired, SweptPending
    <2>4. \/ pendingDisk' = pending'
          \/ pendingDisk' = pending \ o.gone
          \/ o.gone = {} /\ pendingDisk' = pendingDisk
      BY <1>19 DEF Cascade, CancelMission, SweptPending, SweptDisk
    <2>5. \A c \in Cmds : consumer'[c] = IF c \in kids THEN "cancel"
                                         ELSE IF c \in o.gone THEN "expiry" ELSE consumer[c]
      BY <1>19 DEF Cascade, Mark
    <2>6. StoreShrinks /\ FileKeepsUp
      <3>1. created \subseteq Cmds
        BY <1>a
      <3> HIDE DEF kids
      <3> QED
        BY <3>1, <2>2, <2>3, <2>4, <2>5 DEF StoreShrinks, FileKeepsUp, Leaves
    <2> QED
      BY <1>19, <1>a, <2>6 DEF Cascade, CancelMission, Sweep, Recorded
  <1>20. ASSUME NEW t \in Handlers, NEW c \in Cmds, NEW ok \in BOOLEAN, CascadeLog(t, c, ok)
         PROVE  Kept
    BY <1>20, <1>a DEF CascadeLog, Recorded, storeVars, queueVars, historyVars, StoreShrinks,
       FileKeepsUp, Leaves
  <1>21. ASSUME NEW o, WorkerSweep(o)
         PROVE  Kept
    BY <1>21, <1>a DEF WorkerSweep, ExpireApprovals, SweptPending, SweptDisk, Sweep, Recorded,
       SweepOutcomes, Expired, queueVars, threadVars, Mark, StoreShrinks, FileKeepsUp,
       Leaves
  <1>22. ASSUME NEW c \in Cmds, NEW ok \in BOOLEAN, DispatchNext(c, ok)
         PROVE  Kept
    BY <1>22, <1>a DEF DispatchNext, PopQueued, storeVars, historyVars, StoreShrinks,
       FileKeepsUp, Leaves
  <1>23. ASSUME NEW ok \in BOOLEAN, StartRun(ok)
         PROVE  Kept
    BY <1>23, <1>a DEF StartRun, Recorded, storeVars, queueVars, StoreShrinks, FileKeepsUp,
       Leaves
  <1>24. ASSUME NEW c \in Cmds, NEW e \in {"Completed", "Failed", "none"}, RunEnds(c, e)
         PROVE  Kept
    BY <1>24, <1>a DEF RunEnds, Recorded, storeVars, queueVars, threadVars, historyVars,
       StoreShrinks, FileKeepsUp, Leaves
  <1>25. ASSUME NEW c \in Cmds, Deadline(c)
         PROVE  Kept
    BY <1>25, <1>a DEF Deadline, queueVars, threadVars, budget, historyVars, StoreShrinks,
       FileKeepsUp, Leaves
  <1>26. ASSUME Crash
         PROVE  Kept
    BY <1>26, <1>a DEF Crash, StoreRestart, Mark, StoreShrinks, FileKeepsUp, Leaves
  <1>27. ASSUME LoadQueue
         PROVE  Kept
    BY <1>27, <1>a DEF LoadQueue, InitFromDisk, storeVars, budget, historyVars, StoreShrinks,
       FileKeepsUp, Leaves
  <1>28. ASSUME RecoverHungCommands
         PROVE  Kept
    BY <1>28, <1>a DEF RecoverHungCommands, Recorded, Hung, storeVars, queueVars, budget,
       historyVars, StoreShrinks, FileKeepsUp, Leaves
  <1>29. ASSUME ReconcileTasks
         PROVE  Kept
    BY <1>29, <1>a DEF ReconcileTasks, storeVars, queueVars, budget, historyVars,
       StoreShrinks, FileKeepsUp, Leaves
  <1>30. ASSUME ScanIntents
         PROVE  Kept
    BY <1>30, <1>a DEF ScanIntents, storeVars, queueVars, budget, historyVars, StoreShrinks,
       FileKeepsUp, Leaves
  <1>31. ASSUME NEW c \in Cmds, ReplayClaimed(c)
         PROVE  Kept
    BY <1>31, <1>a DEF ReplayClaimed, storeVars, queueVars, budget, historyVars, StoreShrinks,
       FileKeepsUp, Leaves
  <1>32. ASSUME NEW c \in Cmds, NEW o, ReplayIntent(c, o)
         PROVE  Kept
    BY <1>32, <1>a DEF ReplayIntent, ExpireApprovals, SweptPending, SweptDisk, Sweep,
       Recorded, SweepOutcomes, Expired, PeekResult, queueVars, Mark, StoreShrinks,
       FileKeepsUp, Leaves
  <1>33. ASSUME StartWorker
         PROVE  Kept
    BY <1>33, <1>a DEF StartWorker, InitFromDisk, storeVars, budget, historyVars,
       StoreShrinks, FileKeepsUp, Leaves
  <1> QED
    BY <1>1, <1>2, <1>3, <1>4, <1>5, <1>6, <1>7, <1>8, <1>9, <1>10, <1>11, <1>12, <1>13,
       <1>14, <1>15, <1>16, <1>17, <1>18, <1>19, <1>20, <1>21, <1>22, <1>23, <1>24,
       <1>25, <1>26, <1>27, <1>28, <1>29, <1>30, <1>31, <1>32, <1>33
    DEF Next, HandlerStep, ResponderStep, WorkerStep, RunStep, BootStep, Responders, Threads

\* The ways a command gets somewhere: a place in the queue from its submission or
\* from a thread that carries it, unless it has an outcome; the worker's hands
\* from the queue; a carrier from an approval just taken, or from an intent that
\* recovery replays.
Replayed(c) ==
    /\ pc[Boot] = "replay" /\ c \in batch[Boot]
    /\ \/ ledger[c] = "claimed"
       \/ ledger[c] = "intent" /\ c \notin pending \cup due

Moves ==
    \A c \in Cmds :
        /\ c \in queue' \cup queueDisk' =>
              \/ c \in queue \cup queueDisk
              \/ c \notin created /\ c \in created'
              \/ log[c] = {} /\ \E t \in Responders : Carrying(t, c)
        /\ Starting(c)' => Starting(c) \/ c \in queue
        /\ "Started" \in log'[c] => "Started" \in log[c] \/ Starting(c)
        /\ \A t \in Responders :
              Carrying(t, c)' => \/ Carrying(t, c)
                                 \/ c \in Usable /\ Authorised(c)'
                                 \/ Replayed(c)
        /\ ledger'[c] = "claimed" =>
              ledger[c] = "claimed" \/ \E t \in Responders : Claiming(t, c)

\* Every step moves a command in one of these ways only.
LEMMA MoveStep ==
    ASSUME TypeOK, ControlInv, KnownInv, Next
    PROVE  Moves
  <1> USE DeliveryAssumption DEF TypeOK, LogTypeOK, LedgerTypeOK, ControlInv,
      Responders, Threads, Starting, Carrying, Claiming, Goto, GotoFor, Return, Home, Moves
  <1>1. ASSUME NEW t \in Responders, NEW c \in Cmds, NEW o, Peek(t, c, o)
         PROVE  Moves
    BY <1>1 DEF Peek, ExpireApprovals, SweptPending, SweptDisk, Sweep, Recorded,
       SweepOutcomes, Expired, PeekResult, queueVars
  <1>2. ASSUME NEW t \in Responders, Missing(t)
         PROVE  Moves
    BY <1>2 DEF Missing, storeVars, queueVars, budget, historyVars
  <1>3. ASSUME NEW t \in Responders, ReleaseCheck(t)
         PROVE  Moves
    BY <1>3 DEF ReleaseCheck, storeVars, queueVars, budget, historyVars
  <1>4. ASSUME NEW t \in Responders, NEW ok \in BOOLEAN, ReleaseUnlink(t, ok)
         PROVE  Moves
    BY <1>4 DEF ReleaseUnlink, Unlink, storeVars, queueVars, historyVars
  <1>5. ASSUME NEW t \in Responders, NEW ok \in BOOLEAN, RecordDispatchIntent(t, ok)
         PROVE  Moves
    BY <1>5 DEF RecordDispatchIntent, RecordIntent, storeVars, queueVars, historyVars
  <1>6. ASSUME NEW t \in Responders, NEW o, NEW ok \in BOOLEAN, PopForDispatch(t, o, ok)
         PROVE  Moves
    <2>1. arg[t] \in Cmds
      BY <1>6 DEF PopForDispatch, KnownInv, ArgKnown, HomeLabels
    <2>2. /\ UNCHANGED <<queue, queueDisk, ledger>>
          /\ \A d \in Cmds : Starting(d)' => Starting(d)
          /\ \A d \in Cmds : "Started" \in log'[d] => "Started" \in log[d]
      BY <1>6 DEF PopForDispatch, TakeApproval, ExpireApprovals, Sweep, Recorded, queueVars
    <2>3. CASE /\ TakeApproval(arg[t], o) /\ Goto(t, "claim") /\ UNCHANGED arg
               /\ consumer' = [Mark(o.gone, "expiry") EXCEPT ![arg[t]] = "approve"]
      <3>1. \A d \in Cmds : d = arg[t] => d \in Usable /\ Authorised(d)'
        BY <2>1, <2>3 DEF TakeApproval, Authorised, Mark
      <3>2. \A u \in Responders, d \in Cmds :
               Carrying(u, d)' => Carrying(u, d) \/ d = arg[t]
        BY <2>3
      <3> QED
        BY <2>2, <3>1, <3>2
    <2>4. CASE Return(t) \/ (Goto(t, "check") /\ UNCHANGED arg)
      BY <2>2, <2>4
    <2> QED
      BY <1>6, <2>3, <2>4 DEF PopForDispatch
  <1>7. ASSUME NEW t \in Responders, NEW ok \in BOOLEAN, Claim(t, ok)
         PROVE  Moves
    BY <1>7 DEF Claim, ClaimIntent, storeVars, queueVars, historyVars
  <1>8. ASSUME NEW t \in Responders, NEW ok \in BOOLEAN, AuditApproval(t, ok)
         PROVE  Moves
    BY <1>8 DEF AuditApproval, storeVars, queueVars, historyVars
  <1>9. ASSUME NEW t \in Responders, NEW ok \in BOOLEAN, Enqueue(t, ok)
         PROVE  Moves
    BY <1>9 DEF Enqueue, EnqueueDict, HasQueued, HasCommandDispatched, storeVars,
       queueVars, historyVars
  <1>10. ASSUME NEW t \in Responders, NEW ok \in BOOLEAN, Done(t, ok)
         PROVE  Moves
    BY <1>10 DEF Done, Unlink, storeVars, queueVars, historyVars
  <1>11. ASSUME NEW t \in Handlers, NEW c \in Cmds, NEW o, NEW ok \in BOOLEAN, Reject(t, c, o, ok)
         PROVE  Moves
    BY <1>11 DEF Reject, TakeApproval, ExpireApprovals, SweptPending, SweptDisk, Sweep,
       Recorded, SweepOutcomes, Expired, queueVars
  <1>12. ASSUME NEW t \in Handlers, NEW ok \in BOOLEAN, RejectAudit(t, ok)
         PROVE  Moves
    BY <1>12 DEF RejectAudit, Recorded, storeVars, queueVars, historyVars
  <1>13. ASSUME NEW t \in Handlers, NEW c \in Cmds, NEW ok \in BOOLEAN, Submit(t, c, ok)
         PROVE  Moves
    BY <1>13 DEF Submit, Recorded, AddApproval, EnqueueDict, HasQueued, storeVars, queueVars,
       threadVars, historyVars, HasCommandDispatched
  <1>14. ASSUME NEW t \in Handlers, NEW c \in Cmds, Cancel(t, c)
         PROVE  Moves
    BY <1>14 DEF Cancel, storeVars, budget, historyVars
  <1>15. ASSUME NEW t \in Handlers, NEW ok \in BOOLEAN, CancelLog(t, ok)
         PROVE  Moves
    BY <1>15 DEF CancelLog, Recorded, storeVars, queueVars, historyVars
  <1>16. ASSUME NEW t \in Handlers, NEW ok \in BOOLEAN, CancelDump(t, ok)
         PROVE  Moves
    BY <1>16 DEF CancelDump, storeVars, queueVars, historyVars
  <1>17. ASSUME NEW t \in Handlers, NEW o, NEW ok \in BOOLEAN, CancelPop(t, o, ok)
         PROVE  Moves
    BY <1>17 DEF CancelPop, TakeApproval, ExpireApprovals, SweptPending, SweptDisk,
       Sweep, Recorded, SweepOutcomes, Expired, queueVars
  <1>18. ASSUME NEW t \in Handlers, NEW ok \in BOOLEAN, CancelReject(t, ok)
         PROVE  Moves
    BY <1>18 DEF CancelReject, Recorded, storeVars, queueVars, historyVars
  <1>19. ASSUME NEW t \in Handlers, NEW o, NEW ok \in BOOLEAN, Cascade(t, o, ok)
         PROVE  Moves
    BY <1>19 DEF Cascade, CancelMission, SweptPending, SweptDisk, Sweep, Recorded,
       SweepOutcomes, Expired, ChildrenOf, queueVars
  <1>20. ASSUME NEW t \in Handlers, NEW c \in Cmds, NEW ok \in BOOLEAN, CascadeLog(t, c, ok)
         PROVE  Moves
    BY <1>20 DEF CascadeLog, Recorded, storeVars, queueVars, historyVars
  <1>21. ASSUME NEW o, WorkerSweep(o)
         PROVE  Moves
    BY <1>21 DEF WorkerSweep, ExpireApprovals, SweptPending, SweptDisk, Sweep, Recorded,
       SweepOutcomes, Expired, queueVars, threadVars
  <1>22. ASSUME NEW c \in Cmds, NEW ok \in BOOLEAN, DispatchNext(c, ok)
         PROVE  Moves
    BY <1>22 DEF DispatchNext, PopQueued, storeVars, historyVars
  <1>23. ASSUME NEW ok \in BOOLEAN, StartRun(ok)
         PROVE  Moves
    BY <1>23 DEF StartRun, Recorded, storeVars, queueVars
  <1>24. ASSUME NEW c \in Cmds, NEW e \in {"Completed", "Failed", "none"}, RunEnds(c, e)
         PROVE  Moves
    BY <1>24 DEF RunEnds, Recorded, storeVars, queueVars, threadVars, historyVars
  <1>25. ASSUME NEW c \in Cmds, Deadline(c)
         PROVE  Moves
    BY <1>25 DEF Deadline, queueVars, threadVars, budget, historyVars
  <1>26. ASSUME Crash
         PROVE  Moves
    BY <1>26 DEF Crash, StoreRestart
  <1>27. ASSUME LoadQueue
         PROVE  Moves
    BY <1>27 DEF LoadQueue, InitFromDisk, storeVars, budget, historyVars
  <1>28. ASSUME RecoverHungCommands
         PROVE  Moves
    BY <1>28 DEF RecoverHungCommands, Recorded, Hung, storeVars, queueVars, budget,
       historyVars
  <1>29. ASSUME ReconcileTasks
         PROVE  Moves
    BY <1>29 DEF ReconcileTasks, storeVars, queueVars, budget, historyVars
  <1>30. ASSUME ScanIntents
         PROVE  Moves
    BY <1>30 DEF ScanIntents, storeVars, queueVars, budget, historyVars
  <1>31. ASSUME NEW c \in Cmds, ReplayClaimed(c)
         PROVE  Moves
    <2>1. Replayed(c)
      BY <1>31 DEF ReplayClaimed, Replayed
    <2> QED
      BY <1>31, <2>1 DEF ReplayClaimed, queueVars
  <1>32. ASSUME NEW c \in Cmds, NEW o, ReplayIntent(c, o)
         PROVE  Moves
    <2>1. Carrying(Boot, c)' => Replayed(c)
      BY <1>32 DEF ReplayIntent, PeekResult, Usable, Expired, Replayed
    <2> QED
      BY <1>32, <2>1 DEF ReplayIntent, ExpireApprovals, Sweep, Recorded, queueVars
  <1>33. ASSUME StartWorker
         PROVE  Moves
    BY <1>33 DEF StartWorker, InitFromDisk, storeVars, budget, historyVars
  <1> HIDE DEF TypeOK, LogTypeOK, LedgerTypeOK, ControlInv, Starting, Carrying, Claiming,
      Goto, GotoFor, Return, Home, Moves
  <1> QED
    BY <1>1, <1>2, <1>3, <1>4, <1>5, <1>6, <1>7, <1>8, <1>9, <1>10, <1>11, <1>12, <1>13,
       <1>14, <1>15, <1>16, <1>17, <1>18, <1>19, <1>20, <1>21, <1>22, <1>23, <1>24,
       <1>25, <1>26, <1>27, <1>28, <1>29, <1>30, <1>31, <1>32, <1>33
    DEF Next, HandlerStep, ResponderStep, WorkerStep, RunStep, BootStep, Responders, Threads

\* A thread is about to log the rejection of what it just took out of memory and
\* file, and a rejection is logged by such a thread or by a sweep.
\* The policy rejects c as it is submitted.
TurnedAway(c) ==
    /\ c \in created' /\ c \notin created
    /\ c \notin pending' \cup pendingDisk' \cup queue' \cup queueDisk'
    /\ ~Starting(c)'

Rejects ==
    \A c \in Cmds :
        /\ \A t \in Handlers :
              Rejecting(t, c)' => \/ Rejecting(t, c)
                                  \/ /\ c \in pending /\ c \notin pending' \cup pendingDisk'
                                     /\ Up /\ ~Authorised(c)'
        /\ "Rejected" \in log'[c] => \/ "Rejected" \in log[c]
                                     \/ c \in Expired
                                     \/ \E t \in Handlers : Rejecting(t, c)
                                     \/ TurnedAway(c)

LEMMA RejectStep ==
    ASSUME TypeOK, ControlInv, KnownInv, Next
    PROVE  Rejects
  <1> USE DeliveryAssumption DEF TypeOK, LogTypeOK, ControlInv, At, Up,
      Responders, Threads, Rejecting, Goto, GotoFor, Return, Home, Rejects
  <1>1. ASSUME NEW t \in Responders, NEW c \in Cmds, NEW o, Peek(t, c, o)
         PROVE  Rejects
    BY <1>1 DEF Peek, ExpireApprovals, SweptPending, SweptDisk, Sweep, Recorded,
       SweepOutcomes, Expired, PeekResult, queueVars
  <1>2. ASSUME NEW t \in Responders, Missing(t)
         PROVE  Rejects
    BY <1>2 DEF Missing, storeVars, queueVars, budget, historyVars
  <1>3. ASSUME NEW t \in Responders, ReleaseCheck(t)
         PROVE  Rejects
    BY <1>3 DEF ReleaseCheck, storeVars, queueVars, budget, historyVars
  <1>4. ASSUME NEW t \in Responders, NEW ok \in BOOLEAN, ReleaseUnlink(t, ok)
         PROVE  Rejects
    BY <1>4 DEF ReleaseUnlink, Unlink, storeVars, queueVars, historyVars
  <1>5. ASSUME NEW t \in Responders, NEW ok \in BOOLEAN, RecordDispatchIntent(t, ok)
         PROVE  Rejects
    BY <1>5 DEF RecordDispatchIntent, RecordIntent, storeVars, queueVars, historyVars
  <1>6. ASSUME NEW t \in Responders, NEW o, NEW ok \in BOOLEAN, PopForDispatch(t, o, ok)
         PROVE  Rejects
    BY <1>6 DEF PopForDispatch, TakeApproval, ExpireApprovals, SweptPending, SweptDisk,
       Sweep, Recorded, SweepOutcomes, Expired, queueVars, Authorised, Mark, Usable
  <1>7. ASSUME NEW t \in Responders, NEW ok \in BOOLEAN, Claim(t, ok)
         PROVE  Rejects
    BY <1>7 DEF Claim, ClaimIntent, storeVars, queueVars, historyVars
  <1>8. ASSUME NEW t \in Responders, NEW ok \in BOOLEAN, AuditApproval(t, ok)
         PROVE  Rejects
    BY <1>8 DEF AuditApproval, storeVars, queueVars, historyVars
  <1>9. ASSUME NEW t \in Responders, NEW ok \in BOOLEAN, Enqueue(t, ok)
         PROVE  Rejects
    BY <1>9 DEF Enqueue, EnqueueDict, HasQueued, HasCommandDispatched, storeVars,
       queueVars, historyVars
  <1>10. ASSUME NEW t \in Responders, NEW ok \in BOOLEAN, Done(t, ok)
         PROVE  Rejects
    BY <1>10 DEF Done, Unlink, storeVars, queueVars, historyVars
  <1>11. ASSUME NEW t \in Handlers, NEW c \in Cmds, NEW o, NEW ok \in BOOLEAN, Reject(t, c, o, ok)
         PROVE  Rejects
    BY <1>11 DEF Reject, TakeApproval, ExpireApprovals, SweptPending, SweptDisk, Sweep,
       Recorded, SweepOutcomes, Expired, queueVars, Authorised, Mark, Usable
  <1>12. ASSUME NEW t \in Handlers, NEW ok \in BOOLEAN, RejectAudit(t, ok)
         PROVE  Rejects
    BY <1>12 DEF RejectAudit, Recorded, storeVars, queueVars, historyVars
  <1>13. ASSUME NEW t \in Handlers, NEW c \in Cmds, NEW ok \in BOOLEAN, Submit(t, c, ok)
         PROVE  Rejects
    <2>1. c \notin pending \cup pendingDisk \cup queue \cup queueDisk /\ ~Starting(c)
      BY <1>13 DEF Submit, KnownInv, KnownData, ArgKnown, HomeLabels, Starting
    <2>2. CASE c \in Blocked
      <3>1. /\ UNCHANGED <<pc, arg, batch, pending, pendingDisk, queue, queueDisk, due, consumer>>
            /\ c \notin created /\ created' = created \cup {c}
            /\ \A d \in Cmds \ {c} : log'[d] = log[d]
        BY <1>13, <2>2 DEF Submit, Recorded, storeVars, queueVars, threadVars, historyVars
      <3>2. TurnedAway(c)
        BY <2>1, <3>1 DEF TurnedAway, Starting
      <3>3. \A u \in Handlers, d \in Cmds : Rejecting(u, d)' <=> Rejecting(u, d)
        BY <3>1
      <3>4. \A d \in Cmds : "Rejected" \in log'[d] => "Rejected" \in log[d] \/ TurnedAway(d)
        BY <3>1, <3>2
      <3> QED
        BY <3>3, <3>4
    <2>3. CASE c \notin Blocked
      BY <1>13, <2>3 DEF Submit, AddApproval, EnqueueDict, HasQueued, storeVars, queueVars,
         threadVars, historyVars
    <2> QED
      BY <2>2, <2>3
  <1>14. ASSUME NEW t \in Handlers, NEW c \in Cmds, Cancel(t, c)
         PROVE  Rejects
    BY <1>14 DEF Cancel, storeVars, budget, historyVars
  <1>15. ASSUME NEW t \in Handlers, NEW ok \in BOOLEAN, CancelLog(t, ok)
         PROVE  Rejects
    BY <1>15 DEF CancelLog, Recorded, storeVars, queueVars, historyVars
  <1>16. ASSUME NEW t \in Handlers, NEW ok \in BOOLEAN, CancelDump(t, ok)
         PROVE  Rejects
    BY <1>16 DEF CancelDump, storeVars, queueVars, historyVars
  <1>17. ASSUME NEW t \in Handlers, NEW o, NEW ok \in BOOLEAN, CancelPop(t, o, ok)
         PROVE  Rejects
    BY <1>17 DEF CancelPop, TakeApproval, ExpireApprovals, SweptPending, SweptDisk,
       Sweep, Recorded, SweepOutcomes, Expired, queueVars, Authorised, Mark, Usable
  <1>18. ASSUME NEW t \in Handlers, NEW ok \in BOOLEAN, CancelReject(t, ok)
         PROVE  Rejects
    BY <1>18 DEF CancelReject, Recorded, storeVars, queueVars, historyVars
  <1>19. ASSUME NEW t \in Handlers, NEW o, NEW ok \in BOOLEAN, Cascade(t, o, ok)
         PROVE  Rejects
    BY <1>19 DEF Cascade, CancelMission, SweptPending, SweptDisk, Sweep, Recorded,
       SweepOutcomes, Expired, ChildrenOf, queueVars, Authorised, Mark, Usable
  <1>20. ASSUME NEW t \in Handlers, NEW c \in Cmds, NEW ok \in BOOLEAN, CascadeLog(t, c, ok)
         PROVE  Rejects
    BY <1>20 DEF CascadeLog, Recorded, storeVars, queueVars, historyVars
  <1>21. ASSUME NEW o, WorkerSweep(o)
         PROVE  Rejects
    BY <1>21 DEF WorkerSweep, ExpireApprovals, SweptPending, SweptDisk, Sweep, Recorded,
       SweepOutcomes, Expired, queueVars, threadVars
  <1>22. ASSUME NEW c \in Cmds, NEW ok \in BOOLEAN, DispatchNext(c, ok)
         PROVE  Rejects
    BY <1>22 DEF DispatchNext, PopQueued, storeVars, historyVars
  <1>23. ASSUME NEW ok \in BOOLEAN, StartRun(ok)
         PROVE  Rejects
    BY <1>23 DEF StartRun, Recorded, storeVars, queueVars
  <1>24. ASSUME NEW c \in Cmds, NEW e \in {"Completed", "Failed", "none"}, RunEnds(c, e)
         PROVE  Rejects
    BY <1>24 DEF RunEnds, Recorded, storeVars, queueVars, threadVars, historyVars
  <1>25. ASSUME NEW c \in Cmds, Deadline(c)
         PROVE  Rejects
    BY <1>25 DEF Deadline, queueVars, threadVars, budget, historyVars
  <1>26. ASSUME Crash
         PROVE  Rejects
    BY <1>26 DEF Crash, StoreRestart
  <1>27. ASSUME LoadQueue
         PROVE  Rejects
    BY <1>27 DEF LoadQueue, InitFromDisk, storeVars, budget, historyVars
  <1>28. ASSUME RecoverHungCommands
         PROVE  Rejects
    BY <1>28 DEF RecoverHungCommands, Recorded, Hung, storeVars, queueVars, budget,
       historyVars
  <1>29. ASSUME ReconcileTasks
         PROVE  Rejects
    BY <1>29 DEF ReconcileTasks, storeVars, queueVars, budget, historyVars
  <1>30. ASSUME ScanIntents
         PROVE  Rejects
    BY <1>30 DEF ScanIntents, storeVars, queueVars, budget, historyVars
  <1>31. ASSUME NEW c \in Cmds, ReplayClaimed(c)
         PROVE  Rejects
    BY <1>31 DEF ReplayClaimed, storeVars, queueVars, budget, historyVars
  <1>32. ASSUME NEW c \in Cmds, NEW o, ReplayIntent(c, o)
         PROVE  Rejects
    BY <1>32 DEF ReplayIntent, ExpireApprovals, SweptPending, SweptDisk, Sweep,
       Recorded, SweepOutcomes, Expired, PeekResult, queueVars
  <1>33. ASSUME StartWorker
         PROVE  Rejects
    BY <1>33 DEF StartWorker, InitFromDisk, storeVars, budget, historyVars
  <1> HIDE DEF TypeOK, LogTypeOK, ControlInv, At, Up, Rejecting, Goto, GotoFor, Return,
      Home, Rejects
  <1> QED
    BY <1>1, <1>2, <1>3, <1>4, <1>5, <1>6, <1>7, <1>8, <1>9, <1>10, <1>11, <1>12, <1>13,
       <1>14, <1>15, <1>16, <1>17, <1>18, <1>19, <1>20, <1>21, <1>22, <1>23, <1>24,
       <1>25, <1>26, <1>27, <1>28, <1>29, <1>30, <1>31, <1>32, <1>33
    DEF Next, HandlerStep, ResponderStep, WorkerStep, RunStep, BootStep, Responders, Threads

-----------------------------------------------------------------------------
(* Refusals are final.                                                       *)

\* An approval in the store has no copy of its command anywhere.
LEMMA PendingIsOut ==
    ASSUME IInv, NEW c \in pending
    PROVE  Out(c) /\ c \in created /\ ledger[c] # "claimed"
  BY DEF IInv, ConsumedInv, KnownInv, KnownData, Out

\* What is out stays out, unless an approve response or recovery takes it up.
LEMMA OutStays ==
    ASSUME IInv, Next, NEW c \in created, Out(c), c \notin Usable \/ ~Authorised(c)', ~Replayed(c)
    PROVE  Out(c)'
  <1>1. c \in Cmds
    BY DEF IInv, TypeOK
  <1>2. Moves
    BY MoveStep DEF IInv
  <1> QED
    BY <1>1, <1>2 DEF Moves, Out

LEMMA ExpiryStep ==
    ASSUME IInv, ExpiryInv, Next
    PROVE  ExpiryInv'
  <1> SUFFICES ASSUME NEW c \in Cmds, consumer'[c] = "expiry"
               PROVE  /\ c \in due' /\ c \in created'
                      /\ c \notin pending' \cup pendingDisk'
                      /\ ledger'[c] # "claimed"
                      /\ Out(c)'
    BY DEF ExpiryInv
  <1>1. /\ Grows /\ Moves
        /\ ~Crash => StoreShrinks
        /\ IInv
    BY StoreStep, MoveStep DEF IInv
  <1>2. /\ c \in due /\ c \in created /\ ledger[c] # "claimed" /\ Out(c)
        /\ c \notin pending' \cup pendingDisk'
    <2>1. CASE Crash
      <3>1. consumer[c] = "expiry" /\ c \notin pendingDisk
        BY <2>1 DEF Crash, Mark
      <3> QED
        BY <2>1, <3>1 DEF Crash, StoreRestart, ExpiryInv
    <2>2. CASE ~Crash /\ consumer[c] = "expiry"
      BY <1>1, <2>2 DEF ExpiryInv, StoreShrinks
    <2>3. CASE ~Crash /\ consumer[c] # "expiry"
      <3>1. Leaves(c)
        BY <1>1, <2>3 DEF StoreShrinks
      <3>2. c \in created
        BY <3>1, PendingIsOut DEF Leaves
      <3> QED
        BY <3>1, <3>2, PendingIsOut DEF Leaves
    <2> QED
      BY <2>1, <2>2, <2>3
  <1>3. ~Replayed(c)
    BY <1>2 DEF Replayed
  <1>4. Out(c)'
    BY <1>2, <1>3, OutStays DEF Usable
  <1>5. ledger'[c] # "claimed"
    BY <1>1, <1>2 DEF Moves, Out, Claiming, Carrying
  <1> QED
    BY <1>1, <1>2, <1>4, <1>5 DEF Grows

LEMMA RejectingStep ==
    ASSUME IInv, RejectingInv, Next
    PROVE  RejectingInv'
  <1> SUFFICES ASSUME NEW t \in Handlers, NEW c \in Cmds, Rejecting(t, c)'
               PROVE  /\ c \in created'
                      /\ c \notin pending' \cup pendingDisk'
                      /\ Out(c)'
    BY DEF RejectingInv
  <1>1. /\ Grows /\ Rejects
        /\ ~Crash => StoreShrinks
    BY StoreStep, RejectStep DEF IInv
  <1>2. ~Crash
    BY DEF Crash, Rejecting, At, Threads, IInv, ControlInv, Goto
  <1>3. CASE Rejecting(t, c)
    <2>1. /\ c \in created /\ c \notin pending \cup pendingDisk /\ Out(c)
          /\ Up
      BY <1>3 DEF RejectingInv, Rejecting, At, IInv, ControlInv
    <2> QED
      BY <1>1, <1>2, <2>1, OutStays DEF StoreShrinks, Grows, Usable, Replayed, Up
  <1>4. CASE ~Rejecting(t, c)
    <2>1. c \in pending /\ c \notin pending' \cup pendingDisk' /\ Up /\ ~Authorised(c)'
      BY <1>1, <1>4 DEF Rejects
    <2>2. c \in created /\ Out(c)
      BY <2>1, PendingIsOut
    <2> QED
      BY <1>1, <1>2, <2>1, <2>2, OutStays DEF Grows, Replayed, Up
  <1> QED
    BY <1>3, <1>4

LEMMA RejectedStep ==
    ASSUME IInv, RejectingInv, RejectedInv, Next
    PROVE  RejectedInv'
  <1> SUFFICES ASSUME NEW c \in Cmds, "Rejected" \in log'[c]
               PROVE  /\ c \in created'
                      /\ c \notin Usable' /\ c \notin pendingDisk' \ due'
                      /\ c \notin queue' \cup queueDisk'
                      /\ ~Starting(c)'
    BY DEF RejectedInv
  <1>1. Grows /\ Moves /\ Rejects /\ (~Crash => StoreShrinks)
    BY StoreStep, MoveStep, RejectStep DEF IInv
  <1>2. CASE TurnedAway(c)
    BY <1>2 DEF TurnedAway, Usable
  <1>3. CASE ~TurnedAway(c)
    <2>1. /\ c \in created /\ c \notin Usable /\ c \notin pendingDisk \ due
          /\ c \notin queue \cup queueDisk /\ ~Starting(c)
          /\ log[c] # {} \/ \A t \in Responders : ~Carrying(t, c)
      <3>1. CASE "Rejected" \in log[c]
        BY <3>1 DEF RejectedInv
      <3>2. CASE c \in Expired
        BY <3>2, PendingIsOut DEF Expired, Usable, Out
      <3>3. CASE \E t \in Handlers : Rejecting(t, c)
        BY <3>3 DEF RejectingInv, Out, Usable
      <3> QED
        BY <1>1, <1>3, <3>1, <3>2, <3>3 DEF Rejects
    <2>2. c \notin queue' \cup queueDisk' /\ ~Starting(c)'
      BY <1>1, <2>1 DEF Moves
    <2>3. c \notin Usable' /\ c \notin pendingDisk' \ due'
      <3>1. CASE Crash
        BY <2>1, <3>1 DEF Crash, StoreRestart, Usable
      <3>2. CASE ~Crash
        BY <1>1, <2>1, <3>2 DEF StoreShrinks, Grows, Usable
      <3> QED
        BY <3>1, <3>2
    <2> QED
      BY <1>1, <2>1, <2>2, <2>3 DEF Grows
  <1> QED
    BY <1>2, <1>3

LEMMA RemovalStep ==
    ASSUME IInv, RemovalIsDurable, Next
    PROVE  RemovalIsDurable'
  <1>1. CASE Crash
    BY <1>1 DEF Crash, StoreRestart, RemovalIsDurable
  <1>2. CASE ~Crash
    <2>1. FileKeepsUp /\ StoreShrinks
      BY <1>2, StoreStep DEF IInv
    <2>2. pendingDisk' \subseteq Cmds
      BY TypeStep DEF IInv, KnownInv, TypeOK, StoreTypeOK
    <2> QED
      BY <2>1, <2>2 DEF FileKeepsUp, StoreShrinks, RemovalIsDurable, Leaves
  <1> QED
    BY <1>1, <1>2

-----------------------------------------------------------------------------
(* The ledger.  A step moves one thread; what the others rely on is kept.    *)

Watched == Releasing \cup {"missing", "popNew", "popOld", "claim"}

\* What thread t relies on in the record of its command.
RecordKept(t) ==
    LET c == arg[t] IN
    /\ pc[t] \in {"popNew", "popOld"} /\ c \in Usable /\ HasIntent(c) => ledger'[c] # "none"
    /\ pc[t] = "claim" /\ ledger[c] = "intent" => ledger'[c] = "intent"
    /\ pc[t] \in {"unlink", "unlinkTaken"} /\ ledger[c] # "claimed" => ledger'[c] # "claimed"
    /\ pc[t] = "check" /\ ledger[c] = "claimed" => ledger'[c] = "claimed" \/ Safe(c)

\* A thread the step does not move.
LEMMA Bystander ==
    ASSUME IInv, LedgerInv, Grows, StoreShrinks,
           NEW t \in Threads, pc'[t] = pc[t], arg'[t] = arg[t],
           consumeLock = t => consumeLock' = t,
           RecordKept(t),
           \A u \in Responders : Claiming(u, arg[t])' => Claiming(u, arg[t]) \/ arg[t] \in Usable,
           pc[t] = "popNew" /\ Authorised(arg[t])' => Authorised(arg[t])
    PROVE  ThreadInv(t)'
  <1> DEFINE c == arg[t]
  <1>1. ThreadInv(t)
    BY DEF LedgerInv
  <1>2. CASE pc[t] \notin Watched
    BY <1>2 DEF ThreadInv, HoldsSection, ReleasesSafely, LosesNothing, Watched, Releasing
  <1>3. CASE pc[t] \in Watched
    <2>1. c \in created /\ c \in Cmds
      BY <1>3 DEF IInv, TypeOK, KnownInv, ArgKnown, HomeLabels, Watched, Releasing
    <2>2. /\ c \in Usable' => c \in Usable
          /\ Safe(c) => Safe(c)'
          /\ c \in everQueued \/ log[c] # {} => c \in everQueued' \/ log'[c] # {}
      BY <2>1 DEF Grows, StoreShrinks, Usable, Safe
    <2>3. /\ Authorised(c)' => Authorised(c) \/ c \in Usable
          /\ consumer[c] = "reject" /\ c \notin pending => consumer'[c] = "reject" /\ c \notin pending'
      BY <2>1 DEF StoreShrinks, Leaves, Usable, Authorised
    <2>4. HoldsSection(t)'
      BY <1>1, <2>2 DEF ThreadInv, HoldsSection, RecordKept, HasIntent
    <2>5. ReleasesSafely(t)'
      BY <1>1, <2>2, <2>3 DEF ThreadInv, ReleasesSafely, RecordKept, Releasing
    <2>6. LosesNothing(t)'
      BY <1>1, <2>2, <2>3 DEF ThreadInv, LosesNothing, ReleasesSafely, RecordKept, Releasing
    <2> QED
      BY <2>4, <2>5, <2>6 DEF ThreadInv
  <1> QED
    BY <1>2, <1>3

\* A step of thread s, with the lock it may give back.
Turn(s) ==
    /\ \A t \in Threads \ {s} : pc'[t] = pc[t] /\ arg'[t] = arg[t]
    /\ \A t \in Threads \ {s} : consumeLock = t => consumeLock' = t

LEMMA TurnKeeps ==
    ASSUME IInv, LedgerInv, Grows, StoreShrinks, NEW s \in Threads, Turn(s),
           \A t \in Threads \ {s} : RecordKept(t),
           pc'[s] = "claim" => (pc[s] = "claim" /\ arg'[s] = arg[s]) \/ arg'[s] \in Usable,
           \A t \in Threads \ {s} :
              pc[t] = "popNew" /\ Authorised(arg[t])' => Authorised(arg[t]),
           ThreadInv(s)', RecoverableUntilQueued'
    PROVE  LedgerInv'
  <1>1. ASSUME NEW t \in Threads \ {s}
        PROVE  ThreadInv(t)'
    <2>1. pc'[t] = pc[t] /\ arg'[t] = arg[t]
      BY DEF Turn
    <2>2. \A u \in Responders : Claiming(u, arg[t])' => Claiming(u, arg[t]) \/ arg[t] \in Usable
      BY <2>1 DEF Claiming, Turn, Responders, Threads
    <2> QED
      BY <2>1, <2>2, Bystander DEF Turn
  <1> QED
    BY <1>1 DEF LedgerInv

\* A step that also leaves the ledger alone and consumes no approval to approve it.
Aside(s) ==
    /\ Turn(s)
    /\ pc'[s] # "claim"
    /\ ledger' = ledger
    /\ \A c \in Cmds : Authorised(c)' => Authorised(c)

LEMMA AsideKeeps ==
    ASSUME IInv, LedgerInv, Grows, StoreShrinks, NEW s \in Threads, Aside(s), ThreadInv(s)'
    PROVE  LedgerInv'
  <1>1. \A t \in Threads \ {s} : RecordKept(t)
    BY DEF RecordKept, Aside, HasIntent
  <1>2. \A t \in Threads \ {s} : pc[t] = "popNew" /\ Authorised(arg[t])' => Authorised(arg[t])
    BY DEF Aside, Turn, Authorised, IInv, TypeOK, KnownInv, ArgKnown, HomeLabels
  <1>3. RecoverableUntilQueued'
    BY DEF LedgerInv, RecoverableUntilQueued, Aside, HasIntent, Grows, IInv, TypeOK, LogTypeOK
  <1> QED
    BY <1>1, <1>2, <1>3, TurnKeeps DEF Aside

\* Most steps also take the thread nowhere near the ledger.
Passes(s) == Aside(s) /\ pc'[s] \notin Watched

LEMMA PassingKeeps ==
    ASSUME IInv, LedgerInv, Grows, StoreShrinks, NEW s \in Threads, Passes(s)
    PROVE  LedgerInv'
  <1>1. ThreadInv(s)'
    BY DEF Passes, ThreadInv, HoldsSection, ReleasesSafely, LosesNothing, Watched, Releasing
  <1> QED
    BY <1>1, AsideKeeps DEF Passes

\* Every step keeps the ledger's invariant.
LEMMA LedgerStep ==
    ASSUME IInv, LedgerInv, RecoveryInv, ~Crash, Next
    PROVE  LedgerInv'
  <1> USE DeliveryAssumption DEF Responders, Threads, Goto, GotoFor, Return, Home
  <1>a. /\ Grows /\ StoreShrinks
        /\ TypeOK /\ ControlInv /\ ConsumedInv
        /\ \A t \in Threads : ThreadInv(t)
        /\ \A t \in Threads : pc[t] \notin HomeLabels => arg[t] \in created /\ arg[t] \in Cmds
    BY StoreStep DEF LedgerInv, IInv, KnownInv, ArgKnown, TypeOK
  <1>1. ASSUME NEW t \in Responders, NEW c \in Cmds, NEW o, Peek(t, c, o)
         PROVE  LedgerInv'
    <2>1. Aside(t)
      BY <1>1, <1>a DEF Peek, PeekResult, Aside, Turn, Authorised, Mark, TypeOK
    <2>2. c \in Cmds /\ arg'[t] = c /\ pc'[t] = PeekResult(c, "record", "check", "missing")
      BY <1>1, <1>a DEF Peek, TypeOK
    <2>3. CASE c \in Expired
      <3>1. c \in due' /\ pc'[t] = "check" /\ \A u \in Responders : ~Claiming(u, c)'
        BY <1>a, <2>1, <2>2, <2>3 DEF PeekResult, Expired, Usable, ConsumedInv, Carrying, Claiming,
           Grows, Aside, Turn
      <3> QED
        BY <1>a, <2>1, <2>2, <3>1, AsideKeeps
        DEF ThreadInv, HoldsSection, ReleasesSafely, LosesNothing, Releasing, Safe, Usable
    <2>4. CASE c \notin Expired
      <3>1. pc'[t] \in {"record", "missing"} /\ (pc'[t] = "missing" => c \notin Usable')
        BY <1>1, <2>2, <2>4 DEF Peek, ExpireApprovals, SweptPending, PeekResult, Expired, Usable
      <3> QED
        BY <1>a, <2>1, <2>2, <3>1, AsideKeeps
        DEF ThreadInv, HoldsSection, ReleasesSafely, LosesNothing, Releasing
    <2> QED
      BY <2>3, <2>4
  <1>2. ASSUME NEW t \in Responders, Missing(t)
         PROVE  LedgerInv'
    <2> DEFINE c == arg[t]
    <2>1. Aside(t)
      BY <1>2, <1>a DEF Missing, Aside, Turn, Authorised, TypeOK, historyVars
    <2>2. CASE pc'[t] # "check"
      BY <1>2, <1>a, <2>1, <2>2, PassingKeeps DEF Missing, Passes, Watched, Releasing, TypeOK
    <2>3. CASE pc'[t] = "check"
      <3>1. /\ pc[t] = "missing" /\ arg'[t] = c /\ ledger[c] # "intent"
            /\ UNCHANGED <<pending, due, ledger, consumer, log>>
        BY <1>2, <1>a, <2>3 DEF Missing, HasUnclaimedIntent, TypeOK, storeVars, historyVars
      <3>2. c \in Cmds /\ c \notin Usable
        BY <1>a, <3>1 DEF ThreadInv, ReleasesSafely, HomeLabels
      <3>3. \A u \in Responders : ~Claiming(u, c)
        BY <1>a, <3>1 DEF ThreadInv, HoldsSection, Claiming
      <3>4. Authorised(c) => Safe(c) \/ ledger[c] = "claimed"
        BY <1>a, <3>1, <3>2 DEF LedgerInv, RecoverableUntilQueued, HasIntent, Safe, TypeOK,
           LedgerTypeOK, LedgerStates
      <3>5. ThreadInv(t)'
        BY <1>a, <2>1, <2>3, <3>1, <3>2, <3>3, <3>4
        DEF ThreadInv, HoldsSection, ReleasesSafely, LosesNothing, Releasing, Usable, Safe,
            Authorised, Claiming, Grows, Aside, Turn
      <3> QED
        BY <1>a, <2>1, <3>5, AsideKeeps
    <2> QED
      BY <2>2, <2>3
  <1>3. ASSUME NEW t \in Responders, ReleaseCheck(t)
         PROVE  LedgerInv'
    <2> DEFINE c == arg[t]
    <2>1. Aside(t)
      BY <1>3, <1>a DEF ReleaseCheck, Aside, Turn, Authorised, TypeOK, historyVars
    <2>2. CASE pc'[t] \notin {"unlink", "unlinkTaken"}
      BY <1>3, <1>a, <2>1, <2>2, PassingKeeps DEF ReleaseCheck, Passes, Watched, Releasing, TypeOK
    <2>3. CASE pc'[t] \in {"unlink", "unlinkTaken"}
      <3>1. /\ arg'[t] = c /\ ledger[c] = "intent"
            /\ \/ pc[t] = "check" /\ pc'[t] = "unlink"
               \/ pc[t] = "checkTaken" /\ pc'[t] = "unlinkTaken"
            /\ UNCHANGED <<pending, due, ledger, consumer, log>>
        BY <1>3, <1>a, <2>3 DEF ReleaseCheck, HasUnclaimedIntent, TypeOK, storeVars, historyVars
      <3>2. ThreadInv(t)
        BY <1>a
      <3>3. ThreadInv(t)'
        BY <1>a, <2>1, <3>1, <3>2
        DEF ThreadInv, HoldsSection, ReleasesSafely, LosesNothing, Releasing, Usable, Safe,
            Authorised, Claiming, Grows, Aside, Turn
      <3> QED
        BY <1>a, <2>1, <3>3, AsideKeeps
    <2> QED
      BY <2>2, <2>3
  <1>4. ASSUME NEW t \in Responders, NEW ok \in BOOLEAN, ReleaseUnlink(t, ok)
         PROVE  LedgerInv'
    <2> DEFINE c == arg[t]
    <2>1. Turn(t) /\ pc'[t] \notin Watched
      BY <1>4, <1>a DEF ReleaseUnlink, Turn, Watched, Releasing, TypeOK
    <2>2. ThreadInv(t)'
      BY <2>1 DEF ThreadInv, HoldsSection, ReleasesSafely, LosesNothing, Watched, Releasing
    <2>3. /\ c \in created /\ c \in Cmds /\ c \notin Usable
          /\ \A u \in Responders : ~Claiming(u, c)
          /\ ledger[c] # "claimed" /\ (Authorised(c) => Safe(c))
          /\ \A d \in Cmds \ {c} : ledger'[d] = ledger[d]
          /\ consumer' = consumer /\ ledger'[c] \in {"none", ledger[c]}
      BY <1>4, <1>a DEF ReleaseUnlink, Unlink, ThreadInv, ReleasesSafely, LosesNothing, Releasing,
         HomeLabels, TypeOK, LedgerTypeOK, historyVars, Authorised, Safe
    <2>4. \A u \in Threads \ {t} : RecordKept(u)
      BY <1>a, <2>3 DEF RecordKept, Claiming, HomeLabels, HasIntent, ControlInv, Safe
    <2>5. RecoverableUntilQueued'
      BY <1>a, <2>3 DEF LedgerInv, RecoverableUntilQueued, Authorised, HasIntent, Safe, Grows
    <2>6. \A u \in Threads \ {t} : pc[u] = "popNew" /\ Authorised(arg[u])' => Authorised(arg[u])
      BY <2>1, <2>3 DEF Turn, Authorised
    <2> QED
      BY <1>a, <2>1, <2>2, <2>4, <2>5, <2>6, TurnKeeps DEF Watched
  <1>5. ASSUME NEW t \in Responders, NEW ok \in BOOLEAN, RecordDispatchIntent(t, ok)
         PROVE  LedgerInv'
    <2> DEFINE c == arg[t]
    <2>0. pc[t] = "record" /\ c \in Cmds /\ consumeLock = NoThread /\ NoThread \notin Threads
      BY <1>5, <1>a DEF RecordDispatchIntent, HomeLabels
    <2>1. Turn(t)
      BY <1>5, <1>a DEF RecordDispatchIntent, Turn, TypeOK
    <2>2. CASE ~ok
      BY <1>5, <1>a, <2>1, <2>2, PassingKeeps DEF RecordDispatchIntent, Passes, Aside, Watched, Releasing,
         Authorised, TypeOK, historyVars
    <2>3. CASE ok
      <3>1. /\ arg'[t] = c /\ consumeLock' = t /\ ledger'[c] # "none"
            /\ pc'[t] = IF HasIntent(c) THEN "popOld" ELSE "popNew"
            /\ ledger[c] # "none" => ledger'[c] = ledger[c]
            /\ ledger[c] = "none" => ledger'[c] = "intent"
            /\ \A d \in Cmds \ {c} : ledger'[d] = ledger[d]
            /\ consumer' = consumer
        BY <1>5, <1>a, <2>0, <2>3 DEF RecordDispatchIntent, RecordIntent, HasIntent, TypeOK,
           LedgerTypeOK, historyVars
      <3>2. \A u \in Threads \ {t} : RecordKept(u)
        BY <1>a, <2>0, <3>1 DEF RecordKept, ThreadInv, HoldsSection, HomeLabels, HasIntent
      <3>3. RecoverableUntilQueued'
        BY <1>a, <2>0, <3>1 DEF LedgerInv, RecoverableUntilQueued, Authorised, HasIntent, Grows
      <3>4. \A u \in Threads \ {t} : pc[u] = "popNew" /\ Authorised(arg[u])' => Authorised(arg[u])
        BY <2>1, <3>1 DEF Turn, Authorised
      <3>5. ledger[c] = "none" /\ Authorised(c) => Safe(c)
        BY <1>a, <2>0 DEF LedgerInv, RecoverableUntilQueued, HasIntent, Safe
      <3>6. ThreadInv(t)'
        BY <1>a, <2>0, <3>1, <3>5 DEF ThreadInv, HoldsSection, ReleasesSafely, LosesNothing,
           Releasing, HasIntent, Authorised, Safe, Grows
      <3> QED
        BY <1>a, <2>1, <3>1, <3>2, <3>3, <3>4, <3>6, TurnKeeps
    <2> QED
      BY <1>5, <2>2, <2>3
  <1>6. ASSUME NEW t \in Responders, NEW o, NEW ok \in BOOLEAN, PopForDispatch(t, o, ok)
         PROVE  LedgerInv'
    <2> DEFINE c == arg[t]
    <2>0. pc[t] \in {"popNew", "popOld"} /\ c \in Cmds /\ c \in created /\ consumeLock = t
      BY <1>6, <1>a DEF PopForDispatch, HomeLabels, ThreadInv, HoldsSection
    <2>1. CASE /\ TakeApproval(c, o) /\ Goto(t, "claim") /\ UNCHANGED <<arg, consumeLock>>
               /\ consumer' = [Mark(o.gone, "expiry") EXCEPT ![c] = "approve"]
      <3>1. Turn(t) /\ pc'[t] = "claim" /\ arg'[t] = c /\ c \in Usable
        BY <1>a, <2>1 DEF Turn, TypeOK, TakeApproval
      <3>2. ledger' = ledger /\ ledger[c] = "intent"
        BY <1>6, <1>a, <2>0, <3>1 DEF PopForDispatch, ThreadInv, HoldsSection, ConsumedInv, Usable,
           HasIntent, TypeOK, LedgerTypeOK, LedgerStates
      <3>3. \A u \in Threads \ {t} : RecordKept(u) /\ pc[u] # "popNew"
        BY <1>a, <2>0, <3>2 DEF RecordKept, ThreadInv, HoldsSection, HasIntent
      <3>4. \A d \in Cmds \ {c} : Authorised(d)' => Authorised(d)
        BY <2>1 DEF Mark, Authorised
      <3>5. RecoverableUntilQueued'
        BY <1>a, <3>2, <3>4 DEF LedgerInv, RecoverableUntilQueued, HasIntent, Grows
      <3>6. ThreadInv(t)'
        BY <2>0, <2>1, <3>1, <3>2 DEF ThreadInv, HoldsSection, ReleasesSafely, LosesNothing, Releasing
      <3> QED
        BY <1>a, <3>1, <3>3, <3>5, <3>6, TurnKeeps
    <2>2. CASE /\ ExpireApprovals(o) /\ Return(t)
               /\ consumer' = Mark(o.gone, "expiry")
      BY <1>6, <1>a, <2>2, PassingKeeps DEF PopForDispatch, Passes, Aside, Turn, Watched, Releasing,
         Authorised, Mark, TypeOK
    <2>3. CASE /\ ExpireApprovals(o) /\ Goto(t, "check") /\ UNCHANGED <<arg, consumeLock>>
               /\ consumer' = Mark(o.gone, "expiry") /\ c \notin Usable /\ pc[t] = "popNew"
      <3>1. Aside(t) /\ pc'[t] = "check" /\ arg'[t] = c
        BY <1>6, <1>a, <2>3 DEF PopForDispatch, Aside, Turn, Authorised, Mark, TypeOK
      <3>2. c \notin Usable'
        BY <2>3 DEF ExpireApprovals, SweptPending, Sweep, Usable
      <3>3. \A u \in Responders : ~Claiming(u, c)'
        BY <1>a, <2>0, <3>1 DEF ThreadInv, HoldsSection, Claiming, Aside, Turn
      <3>4. Authorised(c)' => Safe(c)'
        <4>1. Authorised(c) => Safe(c)
          BY <1>a, <2>0, <2>3 DEF ThreadInv, LosesNothing
        <4> QED
          BY <1>a, <2>0, <3>1, <4>1 DEF Safe, Grows, Authorised, Aside
      <3>5. ThreadInv(t)'
        BY <3>1, <3>2, <3>3, <3>4
        DEF ThreadInv, HoldsSection, ReleasesSafely, LosesNothing, Releasing
      <3> QED
        BY <1>a, <3>1, <3>5, AsideKeeps
    <2> QED
      BY <1>6, <2>1, <2>2, <2>3 DEF PopForDispatch
  <1>7. ASSUME NEW t \in Responders, NEW ok \in BOOLEAN, Claim(t, ok)
         PROVE  LedgerInv'
    <2> DEFINE c == arg[t]
    <2>0. pc[t] = "claim" /\ c \in Cmds /\ consumeLock = t
      BY <1>7, <1>a DEF Claim, HomeLabels, ThreadInv, HoldsSection
    <2>1. Turn(t) /\ pc'[t] \notin Watched
      BY <1>7, <1>a, <2>0 DEF Claim, Turn, Watched, Releasing, TypeOK
    <2>2. ThreadInv(t)'
      BY <2>1 DEF ThreadInv, HoldsSection, ReleasesSafely, LosesNothing, Watched, Releasing
    <2>3. /\ ledger[c] # "none" => ledger'[c] # "none"
          /\ \A d \in Cmds \ {c} : ledger'[d] = ledger[d]
          /\ ledger[c] = "claimed" => ledger'[c] = "claimed"
          /\ consumer' = consumer
      BY <1>7, <1>a, <2>0 DEF Claim, ClaimIntent, HasUnclaimedIntent, TypeOK, LedgerTypeOK,
         historyVars
    <2>4. \A u \in Threads \ {t} :
             /\ pc[u] \notin {"popNew", "popOld", "claim"}
             /\ pc[u] \in {"unlink", "unlinkTaken"} => arg[u] # c
      BY <1>a, <2>0 DEF ThreadInv, HoldsSection, ReleasesSafely, Releasing, Claiming
    <2>5. \A u \in Threads \ {t} : RecordKept(u)
      BY <1>a, <2>3, <2>4 DEF RecordKept, HomeLabels
    <2>6. RecoverableUntilQueued'
      BY <1>a, <2>3 DEF LedgerInv, RecoverableUntilQueued, Authorised, HasIntent, Grows
    <2> QED
      BY <1>a, <2>1, <2>2, <2>4, <2>5, <2>6, TurnKeeps DEF Watched
  <1>8. ASSUME NEW t \in Responders, NEW ok \in BOOLEAN, AuditApproval(t, ok)
         PROVE  Passes(t)
    BY <1>8, <1>a DEF AuditApproval, storeVars, queueVars, historyVars, Passes, Aside, Turn,
       Watched, Releasing, Authorised, TypeOK, ControlInv
  <1>9. ASSUME NEW t \in Responders, NEW ok \in BOOLEAN, Enqueue(t, ok)
         PROVE  LedgerInv'
    <2> DEFINE c == arg[t]
    <2>1. Aside(t)
      BY <1>9, <1>a DEF Enqueue, Aside, Turn, Authorised, TypeOK, historyVars
    <2>2. CASE ~ok
      BY <1>9, <1>a, <2>1, <2>2, PassingKeeps DEF Enqueue, Passes, Watched, Releasing, TypeOK
    <2>3. CASE ok
      <3>1. pc'[t] = "done" /\ arg'[t] = c /\ Carrying(t, c) /\ c \in Cmds
        BY <1>9, <1>a, <2>3 DEF Enqueue, TypeOK, Carrying, HomeLabels
      <3>2. c \notin pending /\ c \notin pending'
        BY <1>9, <1>a, <3>1 DEF ConsumedInv, Enqueue, storeVars
      <3>3. \A u \in Responders : ~Claiming(u, c)'
        <4>1. \A u \in Responders : Carrying(u, c) => u = t
          <5>1. CASE t \in Handlers
            BY <3>1, <5>1 DEF IInv, CarrierInv, ControlInv, Up, Carrying
          <5>2. CASE t = Boot
            BY <1>a, <3>1, <5>2 DEF ControlInv, Up, Carrying
          <5> QED
            BY <1>9, <5>1, <5>2
        <4> QED
          BY <2>1, <3>1, <4>1 DEF Carrying, Claiming, Aside, Turn
      <3>4. c \in everQueued' \/ log'[c] # {}
        <4>1. c \in queue \cup queueDisk => c \in everQueued
          <5>1. CASE t \in Handlers
            BY <3>1, <5>1 DEF IInv, CarrierInv
          <5>2. CASE t = Boot
            BY <1>9, <1>a, <5>2 DEF RecoveryInv, Enqueue, Up
          <5> QED
            BY <1>9, <5>1, <5>2
        <4>2. c \in queueDisk' \/ c \in queue \cup queueDisk \/ log[c] # {}
          BY <1>9, <2>3 DEF Enqueue, EnqueueDict, HasQueued, HasCommandDispatched
        <4> QED
          BY <1>a, <3>1, <4>1, <4>2 DEF Grows
      <3>5. ThreadInv(t)'
        BY <3>1, <3>2, <3>3, <3>4
        DEF ThreadInv, HoldsSection, ReleasesSafely, LosesNothing, Releasing, Usable
      <3> QED
        BY <1>a, <2>1, <3>5, AsideKeeps
    <2> QED
      BY <2>2, <2>3
  <1>10. ASSUME NEW t \in Responders, NEW ok \in BOOLEAN, Done(t, ok)
         PROVE  LedgerInv'
    <2> DEFINE c == arg[t]
    <2>1. Turn(t) /\ pc'[t] \notin Watched
      BY <1>10, <1>a DEF Done, Turn, Watched, Releasing, TypeOK
    <2>2. ThreadInv(t)'
      BY <2>1 DEF ThreadInv, HoldsSection, ReleasesSafely, LosesNothing, Watched, Releasing
    <2>3. /\ c \in created /\ c \in Cmds /\ c \notin Usable
          /\ \A u \in Responders : ~Claiming(u, c)
          /\ (ledger[c] = "claimed" \/ Authorised(c)) => Safe(c)
          /\ \A d \in Cmds \ {c} : ledger'[d] = ledger[d]
          /\ consumer' = consumer /\ ledger'[c] \in {"none", ledger[c]}
      BY <1>10, <1>a DEF Done, Unlink, ThreadInv, ReleasesSafely, LosesNothing, Releasing,
         HomeLabels, TypeOK, LedgerTypeOK, historyVars, Authorised, Safe
    <2>4. \A u \in Threads \ {t} : RecordKept(u)
      BY <1>a, <2>3 DEF RecordKept, Claiming, HomeLabels, HasIntent, ControlInv, Safe
    <2>5. RecoverableUntilQueued'
      BY <1>a, <2>3 DEF LedgerInv, RecoverableUntilQueued, Authorised, HasIntent, Safe, Grows
    <2>6. \A u \in Threads \ {t} : pc[u] = "popNew" /\ Authorised(arg[u])' => Authorised(arg[u])
      BY <2>1, <2>3 DEF Turn, Authorised
    <2> QED
      BY <1>a, <2>1, <2>2, <2>4, <2>5, <2>6, TurnKeeps DEF Watched
  <1>11. ASSUME NEW t \in Handlers, NEW c \in Cmds, NEW o, NEW ok \in BOOLEAN, Reject(t, c, o, ok)
         PROVE  LedgerInv'
    <2>1. Aside(t)
      BY <1>11, <1>a DEF Reject, Aside, Turn, Authorised, Mark, TypeOK
    <2>2. CASE pc'[t] \notin {"check", "checkTaken"}
      BY <1>11, <1>a, <2>1, <2>2, PassingKeeps DEF Reject, Passes, Watched, Releasing, TypeOK
    <2>3. CASE pc'[t] \in {"check", "checkTaken"}
      <3>1. /\ arg'[t] = c /\ c \in pending /\ c \notin Usable'
            /\ pc'[t] = "check" => c \in due'
            /\ pc'[t] = "checkTaken" => consumer'[c] = "reject" /\ c \notin pending'
        BY <1>11, <1>a, <2>3 DEF Reject, TakeApproval, ExpireApprovals, SweptPending, Sweep, Mark,
           Expired, Usable, TypeOK
      <3>2. \A u \in Responders : ~Claiming(u, c)'
        BY <1>a, <2>1, <3>1 DEF ConsumedInv, Carrying, Claiming, Aside, Turn
      <3>3. ThreadInv(t)'
        BY <2>3, <3>1, <3>2
        DEF ThreadInv, HoldsSection, ReleasesSafely, LosesNothing, Releasing, Safe
      <3> QED
        BY <1>a, <2>1, <3>3, AsideKeeps
    <2> QED
      BY <2>2, <2>3
  <1>12. ASSUME NEW t \in Handlers, NEW ok \in BOOLEAN, RejectAudit(t, ok)
         PROVE  Passes(t)
    BY <1>12, <1>a DEF RejectAudit, Recorded, storeVars, queueVars, historyVars, Passes,
       Aside, Turn, Watched, Releasing, Authorised, TypeOK, ControlInv
  <1>13. ASSUME NEW t \in Handlers, NEW c \in Cmds, NEW ok \in BOOLEAN, Submit(t, c, ok)
         PROVE  Passes(Worker)
    BY <1>13, <1>a DEF Submit, Recorded, AddApproval, EnqueueDict, HasQueued, storeVars, queueVars,
       threadVars, historyVars, Passes, Aside, Turn, Watched, Releasing, Authorised,
       TypeOK, ControlInv
  <1>14. ASSUME NEW t \in Handlers, NEW c \in Cmds, Cancel(t, c)
         PROVE  Passes(t)
    BY <1>14, <1>a DEF Cancel, storeVars, budget, historyVars, Passes, Aside, Turn, Watched,
       Releasing, Authorised, TypeOK, ControlInv
  <1>15. ASSUME NEW t \in Handlers, NEW ok \in BOOLEAN, CancelLog(t, ok)
         PROVE  Passes(t)
    BY <1>15, <1>a DEF CancelLog, Recorded, storeVars, queueVars, historyVars, Passes, Aside,
       Turn, Watched, Releasing, Authorised, TypeOK, ControlInv
  <1>16. ASSUME NEW t \in Handlers, NEW ok \in BOOLEAN, CancelDump(t, ok)
         PROVE  Passes(t)
    BY <1>16, <1>a DEF CancelDump, storeVars, queueVars, historyVars, Passes, Aside, Turn,
       Watched, Releasing, Authorised, TypeOK, ControlInv
  <1>17. ASSUME NEW t \in Handlers, NEW o, NEW ok \in BOOLEAN, CancelPop(t, o, ok)
         PROVE  Passes(t)
    BY <1>17, <1>a DEF CancelPop, TakeApproval, ExpireApprovals, SweptPending, SweptDisk,
       Sweep, Recorded, SweepOutcomes, Expired, queueVars, Mark, Passes, Aside, Turn,
       Watched, Releasing, Authorised, TypeOK, ControlInv
  <1>18. ASSUME NEW t \in Handlers, NEW ok \in BOOLEAN, CancelReject(t, ok)
         PROVE  Passes(t)
    BY <1>18, <1>a DEF CancelReject, Recorded, storeVars, queueVars, historyVars, Passes,
       Aside, Turn, Watched, Releasing, Authorised, TypeOK, ControlInv
  <1>19. ASSUME NEW t \in Handlers, NEW o, NEW ok \in BOOLEAN, Cascade(t, o, ok)
         PROVE  Passes(t)
    BY <1>19, <1>a DEF Cascade, CancelMission, SweptPending, SweptDisk, Sweep, Recorded,
       SweepOutcomes, Expired, ChildrenOf, queueVars, Mark, Passes, Aside, Turn,
       Watched, Releasing, Authorised, TypeOK, ControlInv
  <1>20. ASSUME NEW t \in Handlers, NEW c \in Cmds, NEW ok \in BOOLEAN, CascadeLog(t, c, ok)
         PROVE  Passes(t)
    BY <1>20, <1>a DEF CascadeLog, Recorded, storeVars, queueVars, historyVars, Passes, Aside,
       Turn, Watched, Releasing, Authorised, TypeOK, ControlInv
  <1>21. ASSUME NEW o, WorkerSweep(o)
         PROVE  Passes(Worker)
    BY <1>21, <1>a DEF WorkerSweep, ExpireApprovals, SweptPending, SweptDisk, Sweep, Recorded,
       SweepOutcomes, Expired, queueVars, threadVars, Mark, Passes, Aside, Turn,
       Watched, Releasing, Authorised, TypeOK, ControlInv
  <1>22. ASSUME NEW c \in Cmds, NEW ok \in BOOLEAN, DispatchNext(c, ok)
         PROVE  Passes(Worker)
    BY <1>22, <1>a DEF DispatchNext, PopQueued, storeVars, historyVars, Passes, Aside, Turn,
       Watched, Releasing, Authorised, TypeOK, ControlInv
  <1>23. ASSUME NEW ok \in BOOLEAN, StartRun(ok)
         PROVE  Passes(Worker)
    BY <1>23, <1>a DEF StartRun, Recorded, storeVars, queueVars, Passes, Aside, Turn, Watched,
       Releasing, Authorised, TypeOK, ControlInv
  <1>24. ASSUME NEW c \in Cmds, NEW e \in {"Completed", "Failed", "none"}, RunEnds(c, e)
         PROVE  Passes(Worker)
    BY <1>24, <1>a DEF RunEnds, Recorded, storeVars, queueVars, threadVars, historyVars,
       Passes, Aside, Turn, Watched, Releasing, Authorised, TypeOK, ControlInv
  <1>25. ASSUME NEW c \in Cmds, Deadline(c)
         PROVE  Passes(Worker)
    BY <1>25, <1>a DEF Deadline, queueVars, threadVars, budget, historyVars, Passes, Aside,
       Turn, Watched, Releasing, Authorised, TypeOK, ControlInv
  <1>26. ASSUME Crash
         PROVE  LedgerInv'
    BY <1>26
  <1>27. ASSUME LoadQueue
         PROVE  Passes(Boot)
    BY <1>27, <1>a DEF LoadQueue, InitFromDisk, storeVars, budget, historyVars, Passes, Aside,
       Turn, Watched, Releasing, Authorised, TypeOK, ControlInv
  <1>28. ASSUME RecoverHungCommands
         PROVE  Passes(Boot)
    BY <1>28, <1>a DEF RecoverHungCommands, Recorded, Hung, storeVars, queueVars, budget,
       historyVars, Passes, Aside, Turn, Watched, Releasing, Authorised, TypeOK,
       ControlInv
  <1>29. ASSUME ReconcileTasks
         PROVE  Passes(Boot)
    BY <1>29, <1>a DEF ReconcileTasks, storeVars, queueVars, budget, historyVars, Passes,
       Aside, Turn, Watched, Releasing, Authorised, TypeOK, ControlInv
  <1>30. ASSUME ScanIntents
         PROVE  Passes(Boot)
    BY <1>30, <1>a DEF ScanIntents, storeVars, queueVars, budget, historyVars, Passes, Aside,
       Turn, Watched, Releasing, Authorised, TypeOK, ControlInv
  <1>31. ASSUME NEW c \in Cmds, ReplayClaimed(c)
         PROVE  Passes(Boot)
    BY <1>31, <1>a DEF ReplayClaimed, storeVars, queueVars, budget, historyVars, Passes,
       Aside, Turn, Watched, Releasing, Authorised, TypeOK, ControlInv
  <1>32. ASSUME NEW c \in Cmds, NEW o, ReplayIntent(c, o)
         PROVE  LedgerInv'
    <2>1. Aside(Boot)
      BY <1>32, <1>a DEF ReplayIntent, PeekResult, Aside, Turn, Authorised, Mark, TypeOK
    <2>2. CASE pc'[Boot] # "check"
      BY <1>32, <1>a, <2>1, <2>2, PassingKeeps
      DEF ReplayIntent, PeekResult, Passes, Watched, Releasing, TypeOK
    <2>3. CASE pc'[Boot] = "check"
      <3>1. arg'[Boot] = c /\ c \in due /\ c \in due'
        BY <1>32, <1>a, <2>3 DEF ReplayIntent, ExpireApprovals, Sweep, PeekResult, Expired, TypeOK
      <3>2. \A u \in Responders : ~Claiming(u, c)'
        BY <1>32, <1>a, <2>3, <2>1 DEF ControlInv, Up, ReplayIntent, Claiming, Aside, Turn
      <3>3. ThreadInv(Boot)'
        BY <2>3, <3>1, <3>2
        DEF ThreadInv, HoldsSection, ReleasesSafely, LosesNothing, Releasing, Safe, Usable
      <3> QED
        BY <1>a, <2>1, <3>3, AsideKeeps
    <2> QED
      BY <2>2, <2>3
  <1>33. ASSUME StartWorker
         PROVE  Passes(Boot)
    BY <1>33, <1>a DEF StartWorker, InitFromDisk, storeVars, budget, historyVars, Passes,
       Aside, Turn, Watched, Releasing, Authorised, TypeOK, ControlInv
  <1> QED
    BY <1>a, PassingKeeps, <1>1, <1>2, <1>3, <1>4, <1>5, <1>6, <1>7, <1>8, <1>9, <1>10,
       <1>11, <1>12, <1>13, <1>14, <1>15, <1>16, <1>17, <1>18, <1>19, <1>20, <1>21,
       <1>22, <1>23, <1>24, <1>25, <1>26, <1>27, <1>28, <1>29, <1>30, <1>31, <1>32,
       <1>33
    DEF Next, HandlerStep, ResponderStep, WorkerStep, RunStep, BootStep

\* Recovery enqueues an intent once; what it queued without reaching the file it
\* does not see again, and a crash empties the memory.
LEMMA RecoveryStep ==
    ASSUME IInv, RecoveryInv, Next
    PROVE  RecoveryInv'
  <1> USE DeliveryAssumption DEF Responders, Threads, Goto, GotoFor, Return, Home, Up, RecoveryInv,
      HomeLabels, HandlerLabels, BootLabels
  <1>a. /\ everQueued' = everQueued \cup queueDisk'
        /\ TypeOK /\ ControlInv
    BY DEF Next, IInv
  <1>1. ASSUME NEW t \in Responders, NEW c \in Cmds, NEW o, Peek(t, c, o)
         PROVE  RecoveryInv'
    BY <1>1, <1>a DEF Peek, ExpireApprovals, SweptPending, SweptDisk, Sweep, Recorded,
       SweepOutcomes, Expired, PeekResult, queueVars, TypeOK, ControlInv, QueueTypeOK
  <1>2. ASSUME NEW t \in Responders, Missing(t)
         PROVE  RecoveryInv'
    BY <1>2, <1>a DEF Missing, queueVars, TypeOK, ControlInv, QueueTypeOK
  <1>3. ASSUME NEW t \in Responders, ReleaseCheck(t)
         PROVE  RecoveryInv'
    BY <1>3, <1>a DEF ReleaseCheck, queueVars, TypeOK, ControlInv, QueueTypeOK
  <1>4. ASSUME NEW t \in Responders, NEW ok \in BOOLEAN, ReleaseUnlink(t, ok)
         PROVE  RecoveryInv'
    BY <1>4, <1>a DEF ReleaseUnlink, Unlink, queueVars, TypeOK, ControlInv, QueueTypeOK
  <1>5. ASSUME NEW t \in Responders, NEW ok \in BOOLEAN, RecordDispatchIntent(t, ok)
         PROVE  RecoveryInv'
    BY <1>5, <1>a DEF RecordDispatchIntent, RecordIntent, queueVars, TypeOK, ControlInv,
       QueueTypeOK
  <1>6. ASSUME NEW t \in Responders, NEW o, NEW ok \in BOOLEAN, PopForDispatch(t, o, ok)
         PROVE  RecoveryInv'
    BY <1>6, <1>a DEF PopForDispatch, TakeApproval, ExpireApprovals, SweptPending, SweptDisk,
       Sweep, Recorded, SweepOutcomes, Expired, queueVars, TypeOK, ControlInv,
       QueueTypeOK
  <1>7. ASSUME NEW t \in Responders, NEW ok \in BOOLEAN, Claim(t, ok)
         PROVE  RecoveryInv'
    BY <1>7, <1>a DEF Claim, ClaimIntent, queueVars, TypeOK, ControlInv, QueueTypeOK
  <1>8. ASSUME NEW t \in Responders, NEW ok \in BOOLEAN, AuditApproval(t, ok)
         PROVE  RecoveryInv'
    BY <1>8, <1>a DEF AuditApproval, queueVars, TypeOK, ControlInv, QueueTypeOK
  <1>9. ASSUME NEW t \in Responders, NEW ok \in BOOLEAN, Enqueue(t, ok)
         PROVE  RecoveryInv'
    BY <1>9, <1>a DEF Enqueue, EnqueueDict, HasQueued, HasCommandDispatched, queueVars,
       TypeOK, ControlInv, QueueTypeOK
  <1>10. ASSUME NEW t \in Responders, NEW ok \in BOOLEAN, Done(t, ok)
         PROVE  RecoveryInv'
    BY <1>10, <1>a DEF Done, Unlink, queueVars, TypeOK, ControlInv, QueueTypeOK
  <1>11. ASSUME NEW t \in Handlers, NEW c \in Cmds, NEW o, NEW ok \in BOOLEAN, Reject(t, c, o, ok)
         PROVE  RecoveryInv'
    BY <1>11, <1>a DEF Reject, TakeApproval, ExpireApprovals, SweptPending, SweptDisk, Sweep,
       Recorded, SweepOutcomes, Expired, queueVars, TypeOK, ControlInv, QueueTypeOK
  <1>12. ASSUME NEW t \in Handlers, NEW ok \in BOOLEAN, RejectAudit(t, ok)
         PROVE  RecoveryInv'
    BY <1>12, <1>a DEF RejectAudit, Recorded, queueVars, TypeOK, ControlInv, QueueTypeOK
  <1>13. ASSUME NEW t \in Handlers, NEW c \in Cmds, NEW ok \in BOOLEAN, Submit(t, c, ok)
         PROVE  RecoveryInv'
    BY <1>13, <1>a DEF Submit, Recorded, AddApproval, EnqueueDict, HasQueued, queueVars, threadVars,
       TypeOK, ControlInv, QueueTypeOK
  <1>14. ASSUME NEW t \in Handlers, NEW c \in Cmds, Cancel(t, c)
         PROVE  RecoveryInv'
    BY <1>14, <1>a DEF Cancel, TypeOK, ControlInv, QueueTypeOK
  <1>15. ASSUME NEW t \in Handlers, NEW ok \in BOOLEAN, CancelLog(t, ok)
         PROVE  RecoveryInv'
    BY <1>15, <1>a DEF CancelLog, Recorded, queueVars, TypeOK, ControlInv, QueueTypeOK
  <1>16. ASSUME NEW t \in Handlers, NEW ok \in BOOLEAN, CancelDump(t, ok)
         PROVE  RecoveryInv'
    BY <1>16, <1>a DEF CancelDump, queueVars, TypeOK, ControlInv, QueueTypeOK
  <1>17. ASSUME NEW t \in Handlers, NEW o, NEW ok \in BOOLEAN, CancelPop(t, o, ok)
         PROVE  RecoveryInv'
    BY <1>17, <1>a DEF CancelPop, TakeApproval, ExpireApprovals, SweptPending, SweptDisk,
       Sweep, Recorded, SweepOutcomes, Expired, queueVars, TypeOK, ControlInv,
       QueueTypeOK
  <1>18. ASSUME NEW t \in Handlers, NEW ok \in BOOLEAN, CancelReject(t, ok)
         PROVE  RecoveryInv'
    BY <1>18, <1>a DEF CancelReject, Recorded, queueVars, TypeOK, ControlInv, QueueTypeOK
  <1>19. ASSUME NEW t \in Handlers, NEW o, NEW ok \in BOOLEAN, Cascade(t, o, ok)
         PROVE  RecoveryInv'
    BY <1>19, <1>a DEF Cascade, CancelMission, SweptPending, SweptDisk, Sweep, Recorded,
       SweepOutcomes, Expired, ChildrenOf, queueVars, TypeOK, ControlInv, QueueTypeOK
  <1>20. ASSUME NEW t \in Handlers, NEW c \in Cmds, NEW ok \in BOOLEAN, CascadeLog(t, c, ok)
         PROVE  RecoveryInv'
    BY <1>20, <1>a DEF CascadeLog, Recorded, queueVars, TypeOK, ControlInv, QueueTypeOK
  <1>21. ASSUME NEW o, WorkerSweep(o)
         PROVE  RecoveryInv'
    BY <1>21, <1>a DEF WorkerSweep, ExpireApprovals, SweptPending, SweptDisk, Sweep, Recorded,
       SweepOutcomes, Expired, queueVars, threadVars, TypeOK, ControlInv, QueueTypeOK
  <1>22. ASSUME NEW c \in Cmds, NEW ok \in BOOLEAN, DispatchNext(c, ok)
         PROVE  RecoveryInv'
    BY <1>22, <1>a DEF DispatchNext, PopQueued, TypeOK, ControlInv, QueueTypeOK
  <1>23. ASSUME NEW ok \in BOOLEAN, StartRun(ok)
         PROVE  RecoveryInv'
    BY <1>23, <1>a DEF StartRun, Recorded, queueVars, TypeOK, ControlInv, QueueTypeOK
  <1>24. ASSUME NEW c \in Cmds, NEW e \in {"Completed", "Failed", "none"}, RunEnds(c, e)
         PROVE  RecoveryInv'
    BY <1>24, <1>a DEF RunEnds, Recorded, queueVars, threadVars, TypeOK, ControlInv,
       QueueTypeOK
  <1>25. ASSUME NEW c \in Cmds, Deadline(c)
         PROVE  RecoveryInv'
    BY <1>25, <1>a DEF Deadline, queueVars, threadVars, TypeOK, ControlInv, QueueTypeOK
  <1>26. ASSUME Crash
         PROVE  RecoveryInv'
    BY <1>26, <1>a DEF Crash, StoreRestart, TypeOK, ControlInv, QueueTypeOK
  <1>27. ASSUME LoadQueue
         PROVE  RecoveryInv'
    BY <1>27, <1>a DEF LoadQueue, InitFromDisk, TypeOK, ControlInv, QueueTypeOK
  <1>28. ASSUME RecoverHungCommands
         PROVE  RecoveryInv'
    BY <1>28, <1>a DEF RecoverHungCommands, Recorded, Hung, queueVars, TypeOK, ControlInv,
       QueueTypeOK
  <1>29. ASSUME ReconcileTasks
         PROVE  RecoveryInv'
    BY <1>29, <1>a DEF ReconcileTasks, queueVars, TypeOK, ControlInv, QueueTypeOK
  <1>30. ASSUME ScanIntents
         PROVE  RecoveryInv'
    BY <1>30, <1>a DEF ScanIntents, queueVars, TypeOK, ControlInv, QueueTypeOK
  <1>31. ASSUME NEW c \in Cmds, ReplayClaimed(c)
         PROVE  RecoveryInv'
    BY <1>31, <1>a DEF ReplayClaimed, queueVars, TypeOK, ControlInv, QueueTypeOK
  <1>32. ASSUME NEW c \in Cmds, NEW o, ReplayIntent(c, o)
         PROVE  RecoveryInv'
    BY <1>32, <1>a DEF ReplayIntent, ExpireApprovals, SweptPending, SweptDisk, Sweep,
       Recorded, SweepOutcomes, Expired, PeekResult, queueVars, TypeOK, ControlInv,
       QueueTypeOK
  <1>33. ASSUME StartWorker
         PROVE  RecoveryInv'
    BY <1>33, <1>a DEF StartWorker, InitFromDisk, TypeOK, ControlInv, QueueTypeOK
  <1> HIDE DEF Goto, GotoFor, Return, Home, Up, RecoveryInv, HomeLabels, HandlerLabels,
      BootLabels
  <1> QED
    BY <1>1, <1>2, <1>3, <1>4, <1>5, <1>6, <1>7, <1>8, <1>9, <1>10, <1>11, <1>12, <1>13,
       <1>14, <1>15, <1>16, <1>17, <1>18, <1>19, <1>20, <1>21, <1>22, <1>23, <1>24,
       <1>25, <1>26, <1>27, <1>28, <1>29, <1>30, <1>31, <1>32, <1>33
    DEF Next, HandlerStep, ResponderStep, WorkerStep, RunStep, BootStep, Responders, Threads

-----------------------------------------------------------------------------
(* The theorems.                                                             *)

\* After a crash every thread starts anew, and what was taken in vain is back.
LEMMA CrashStep ==
    ASSUME IInv, LedgerInv, Crash, Next
    PROVE  LedgerInv'
  <1>1. \A t \in Threads : pc'[t] \notin Watched
    BY DEF Crash, Watched, Releasing
  <1>2. \A c \in Cmds : Authorised(c)' => Authorised(c)
    BY DEF Crash, Mark, Authorised
  <1>3. Grows /\ ledger' = ledger
    BY StoreStep DEF Crash, IInv
  <1>4. RecoverableUntilQueued'
    BY <1>2, <1>3 DEF LedgerInv, RecoverableUntilQueued, HasIntent, Grows
  <1> QED
    BY <1>1, <1>4
    DEF LedgerInv, ThreadInv, HoldsSection, ReleasesSafely, LosesNothing, Watched, Releasing

LEMMA SafetyStep ==
    ASSUME IInv, SInv, Next
    PROVE  SInv'
  BY LedgerStep, CrashStep, RecoveryStep, ExpiryStep, RejectingStep, RejectedStep, RemovalStep
  DEF SInv

LEMMA SafetyStutter ==
    ASSUME SInv, UNCHANGED vars
    PROVE  SInv'
  <1> USE DEF vars, storeVars, queueVars, threadVars, budget, historyVars
  <1>1. LedgerInv'
    BY DEF SInv, LedgerInv, ThreadInv, HoldsSection, ReleasesSafely, LosesNothing, Safe, Usable,
       HasIntent, Claiming, Authorised, RecoverableUntilQueued
  <1>2. RecoveryInv' /\ RemovalIsDurable'
    BY DEF SInv, RecoveryInv, RemovalIsDurable, Up
  <1>3. ExpiryInv' /\ RejectingInv' /\ RejectedInv'
    BY DEF SInv, ExpiryInv, RejectingInv, RejectedInv, Out, Starting, Carrying, Rejecting, At, Usable
  <1> QED
    BY <1>1, <1>2, <1>3 DEF SInv

LEMMA InitSInv ==
    ASSUME Init
    PROVE  SInv
  <1> USE DeliveryAssumption, CommandsAssumption DEF Init, LogInit, StoreInit, LedgerInit, QueueInit
  <1>1. LedgerInv
    BY DEF LedgerInv, ThreadInv, HoldsSection, ReleasesSafely, LosesNothing, Releasing,
       RecoverableUntilQueued, Authorised, Threads
  <1>2. RecoveryInv /\ RemovalIsDurable
    BY DEF RecoveryInv, RemovalIsDurable, HomeLabels, Threads
  <1>3. ExpiryInv /\ RejectingInv /\ RejectedInv
    BY DEF ExpiryInv, RejectingInv, RejectedInv, Rejecting, At, Threads
  <1> QED
    BY <1>1, <1>2, <1>3 DEF SInv

\* The two inductive invariants hold together in every reachable state.
THEOREM Safety == Spec => [](IInv /\ SInv)
  <1>1. IInv /\ SInv /\ [Next]_vars => SInv'
    BY SafetyStep, SafetyStutter
  <1> QED
    BY <1>1, InitSInv, Invariance, PTL DEF Spec

\* No release deletes a claim; an authorised command is in the ledger until it has
\* first been in the queue file or has a logged outcome, unless recovery met it after
\* its deadline (of what happens after the pop nothing is said); and a taken approval
\* does not come back.
THEOREM NothingForgotten == Spec => []NothingIsForgotten
  <1>1. SInv => NothingIsForgotten
    BY DEF SInv, LedgerInv, ThreadInv, ReleasesSafely, NothingIsForgotten, ReleaseNeverDropsClaim
  <1> QED
    BY <1>1, Safety, PTL

\* No step consumes an overdue approval to approve it, although the sweep may
\* have failed to remove it.
LEMMA OverdueStep ==
    ASSUME IInv, [Next]_vars, NEW c \in Cmds, Authorised(c)', ~Authorised(c)
    PROVE  c \notin due
  <1>1. CASE UNCHANGED vars
    BY <1>1 DEF vars, historyVars, Authorised
  <1>2. CASE Crash
    BY <1>2 DEF Crash, Mark, Authorised
  <1>3. CASE Next /\ ~Crash
    BY <1>3, StoreStep DEF IInv, StoreShrinks, Leaves, Authorised
  <1> QED
    BY <1>1, <1>2, <1>3

\* No step starts a command whose rejection is in the log.
LEMMA RejectedRunStep ==
    ASSUME IInv, SInv, IInv', [Next]_vars, NEW c \in Cmds, "Rejected" \in log[c]
    PROVE  runs'[c] = runs[c]
  <1>1. CASE UNCHANGED vars
    BY <1>1 DEF vars, historyVars
  <1>2. CASE Next
    <2>1. "Started" \in log'[c] <=> "Started" \in log[c]
      BY <1>2, MoveStep, StoreStep DEF IInv, Moves, Grows, SInv, RejectedInv
    <2> QED
      BY <2>1 DEF IInv, RunInv
  <1> QED
    BY <1>1, <1>2

\* Of the refusals: an approval that the expiry sweep removed authorises nothing and
\* is never queued or run, and no command is started after its rejection was logged.
\* A reject or cancel that was not logged when the process died is not among them.
THEOREM RefusalIsFinal == Spec => RefusedStaysRefused
  <1>1. IInv /\ SInv => ExpiredNeverRuns
    BY DEF IInv, RunInv, SInv, ExpiryInv, Out, ExpiredNeverRuns
  <1>2. IInv /\ SInv /\ [Next]_vars => [\A c \in Cmds : Authorised(c)' /\ ~Authorised(c) => c \notin due]_vars
    BY OverdueStep
  <1>3. IInv /\ SInv /\ (IInv /\ SInv)' /\ [Next]_vars
            => [\A c \in Cmds : "Rejected" \in log[c] => runs'[c] = runs[c]]_vars
    BY RejectedRunStep
  <1> QED
    BY <1>1, <1>2, <1>3, Safety, PTL
    DEF Spec, RefusedStaysRefused, ExpiredNeverAuthorises, RejectionIsTerminal

(***************************************************************************)
(* ApprovalDelivery implements DeliveryContract, and what was withdrawn    *)
(* never runs while the process lives.                                     *)
(*                                                                         *)
(* The contract is about the approvals a person, a deadline or a mission   *)
(* refuses.  A crash may bring a refused command back (its intent is       *)
(* replayed) and a write that fails may leave it in the file, so the       *)
(* theorem assumes that no write fails, and that the process does not      *)
(* crash unless every request approves.                                    *)
(***************************************************************************)
\* The first boot finds no file, so it recovers nothing.
FirstBoot ==
    crashes = 0 /\ ~Up =>
        /\ pc[Boot] \in HomeLabels
        /\ batch[Boot] = {} /\ queue = {} /\ queueDisk = {}
        /\ \A c \in Cmds : ledger[c] = "none"

\* Within one life of the process nothing takes a withdrawn command up again.
WithdrawnInv ==
    crashes = 0 => \A c \in Cmds : consumer[c] \in {"reject", "cancel"} =>
        c \in created /\ c \notin pending /\ Out(c)

\* Where no request withdraws, nothing is withdrawn.
Withdrawing == {"checkTaken", "unlinkTaken", "rejAudit", "cxlLog", "cxlDump", "cxlPop",
                "cxlReject", "cascade", "cascadeLog"}

RequestInv ==
    Requests \subseteq {"approve"} =>
        /\ \A t \in Handlers : pc[t] \notin Withdrawing
        /\ \A c \in Cmds : consumer[c] \notin {"reject", "cancel"}

LifeInv == crashes <= MaxCrashes /\ FirstBoot /\ WithdrawnInv /\ RequestInv

\* Without failing writes the file is the memory, and an approval that is not in
\* the store was taken out by someone.
AccountInv ==
    /\ pending = pendingDisk
    /\ \A c \in Cmds : c \notin created => consumer[c] = "none"
    /\ \A c \in Gated : c \in created => (c \in pending <=> consumer[c] = "none")

\* A command that was cancelled out of the queue, or is about to be logged so.
Cancelled(c) ==
    \/ "Failed" \in log[c] /\ "Started" \notin log[c]
    \/ \E t \in Handlers : At(t, {"cxlLog"}, c)

CancelledInv ==
    \A c \in Cmds : Cancelled(c) =>
        /\ "cancel" \in Requests
        /\ c \in created /\ c \notin pending
        /\ c \notin queue /\ ~Starting(c) /\ "Started" \notin log[c]
        /\ \A t \in Responders : ~Carrying(t, c)

-----------------------------------------------------------------------------
\* The first boot passes without effect, and a later one counts as a crash.
LEMMA FirstBootStep ==
    ASSUME IInv, FirstBoot, Next
    PROVE  FirstBoot'
  <1> USE DeliveryAssumption DEF Responders, Threads, Goto, GotoFor, Return, Home, Up, FirstBoot,
      HomeLabels, HandlerLabels, BootLabels
  <1>a. TypeOK /\ ControlInv
    BY DEF IInv
  <1>1. ASSUME NEW t \in Responders, NEW c \in Cmds, NEW o, Peek(t, c, o)
         PROVE  FirstBoot'
    BY <1>1, <1>a DEF Peek, ExpireApprovals, SweptPending, SweptDisk, Sweep, Recorded,
       SweepOutcomes, Expired, PeekResult, queueVars, TypeOK, ControlInv, QueueTypeOK,
       LedgerTypeOK
  <1>2. ASSUME NEW t \in Responders, Missing(t)
         PROVE  FirstBoot'
    BY <1>2, <1>a DEF Missing, queueVars, budget, TypeOK, ControlInv, QueueTypeOK,
       LedgerTypeOK
  <1>3. ASSUME NEW t \in Responders, ReleaseCheck(t)
         PROVE  FirstBoot'
    BY <1>3, <1>a DEF ReleaseCheck, queueVars, budget, TypeOK, ControlInv, QueueTypeOK,
       LedgerTypeOK
  <1>4. ASSUME NEW t \in Responders, NEW ok \in BOOLEAN, ReleaseUnlink(t, ok)
         PROVE  FirstBoot'
    BY <1>4, <1>a DEF ReleaseUnlink, Unlink, queueVars, TypeOK, ControlInv, QueueTypeOK,
       LedgerTypeOK
  <1>5. ASSUME NEW t \in Responders, NEW ok \in BOOLEAN, RecordDispatchIntent(t, ok)
         PROVE  FirstBoot'
    BY <1>5, <1>a DEF RecordDispatchIntent, RecordIntent, queueVars, TypeOK, ControlInv,
       QueueTypeOK, LedgerTypeOK
  <1>6. ASSUME NEW t \in Responders, NEW o, NEW ok \in BOOLEAN, PopForDispatch(t, o, ok)
         PROVE  FirstBoot'
    BY <1>6, <1>a DEF PopForDispatch, TakeApproval, ExpireApprovals, SweptPending, SweptDisk,
       Sweep, Recorded, SweepOutcomes, Expired, queueVars, TypeOK, ControlInv,
       QueueTypeOK, LedgerTypeOK
  <1>7. ASSUME NEW t \in Responders, NEW ok \in BOOLEAN, Claim(t, ok)
         PROVE  FirstBoot'
    BY <1>7, <1>a DEF Claim, ClaimIntent, queueVars, TypeOK, ControlInv, QueueTypeOK,
       LedgerTypeOK
  <1>8. ASSUME NEW t \in Responders, NEW ok \in BOOLEAN, AuditApproval(t, ok)
         PROVE  FirstBoot'
    BY <1>8, <1>a DEF AuditApproval, queueVars, TypeOK, ControlInv, QueueTypeOK, LedgerTypeOK
  <1>9. ASSUME NEW t \in Responders, NEW ok \in BOOLEAN, Enqueue(t, ok)
         PROVE  FirstBoot'
    BY <1>9, <1>a DEF Enqueue, EnqueueDict, HasQueued, HasCommandDispatched, queueVars,
       TypeOK, ControlInv, QueueTypeOK, LedgerTypeOK
  <1>10. ASSUME NEW t \in Responders, NEW ok \in BOOLEAN, Done(t, ok)
         PROVE  FirstBoot'
    BY <1>10, <1>a DEF Done, Unlink, queueVars, TypeOK, ControlInv, QueueTypeOK, LedgerTypeOK
  <1>11. ASSUME NEW t \in Handlers, NEW c \in Cmds, NEW o, NEW ok \in BOOLEAN, Reject(t, c, o, ok)
         PROVE  FirstBoot'
    BY <1>11, <1>a DEF Reject, TakeApproval, ExpireApprovals, SweptPending, SweptDisk, Sweep,
       Recorded, SweepOutcomes, Expired, queueVars, TypeOK, ControlInv, QueueTypeOK,
       LedgerTypeOK
  <1>12. ASSUME NEW t \in Handlers, NEW ok \in BOOLEAN, RejectAudit(t, ok)
         PROVE  FirstBoot'
    BY <1>12, <1>a DEF RejectAudit, Recorded, queueVars, TypeOK, ControlInv, QueueTypeOK,
       LedgerTypeOK
  <1>13. ASSUME NEW t \in Handlers, NEW c \in Cmds, NEW ok \in BOOLEAN, Submit(t, c, ok)
         PROVE  FirstBoot'
    BY <1>13, <1>a DEF Submit, Recorded, AddApproval, EnqueueDict, HasQueued, queueVars, threadVars,
       TypeOK, ControlInv, QueueTypeOK, LedgerTypeOK
  <1>14. ASSUME NEW t \in Handlers, NEW c \in Cmds, Cancel(t, c)
         PROVE  FirstBoot'
    BY <1>14, <1>a DEF Cancel, budget, TypeOK, ControlInv, QueueTypeOK, LedgerTypeOK
  <1>15. ASSUME NEW t \in Handlers, NEW ok \in BOOLEAN, CancelLog(t, ok)
         PROVE  FirstBoot'
    BY <1>15, <1>a DEF CancelLog, Recorded, queueVars, TypeOK, ControlInv, QueueTypeOK,
       LedgerTypeOK
  <1>16. ASSUME NEW t \in Handlers, NEW ok \in BOOLEAN, CancelDump(t, ok)
         PROVE  FirstBoot'
    BY <1>16, <1>a DEF CancelDump, queueVars, TypeOK, ControlInv, QueueTypeOK, LedgerTypeOK
  <1>17. ASSUME NEW t \in Handlers, NEW o, NEW ok \in BOOLEAN, CancelPop(t, o, ok)
         PROVE  FirstBoot'
    BY <1>17, <1>a DEF CancelPop, TakeApproval, ExpireApprovals, SweptPending, SweptDisk,
       Sweep, Recorded, SweepOutcomes, Expired, queueVars, TypeOK, ControlInv,
       QueueTypeOK, LedgerTypeOK
  <1>18. ASSUME NEW t \in Handlers, NEW ok \in BOOLEAN, CancelReject(t, ok)
         PROVE  FirstBoot'
    BY <1>18, <1>a DEF CancelReject, Recorded, queueVars, TypeOK, ControlInv, QueueTypeOK,
       LedgerTypeOK
  <1>19. ASSUME NEW t \in Handlers, NEW o, NEW ok \in BOOLEAN, Cascade(t, o, ok)
         PROVE  FirstBoot'
    BY <1>19, <1>a DEF Cascade, CancelMission, SweptPending, SweptDisk, Sweep, Recorded,
       SweepOutcomes, Expired, ChildrenOf, queueVars, TypeOK, ControlInv, QueueTypeOK,
       LedgerTypeOK
  <1>20. ASSUME NEW t \in Handlers, NEW c \in Cmds, NEW ok \in BOOLEAN, CascadeLog(t, c, ok)
         PROVE  FirstBoot'
    BY <1>20, <1>a DEF CascadeLog, Recorded, queueVars, TypeOK, ControlInv, QueueTypeOK,
       LedgerTypeOK
  <1>21. ASSUME NEW o, WorkerSweep(o)
         PROVE  FirstBoot'
    BY <1>21, <1>a DEF WorkerSweep, ExpireApprovals, SweptPending, SweptDisk, Sweep, Recorded,
       SweepOutcomes, Expired, queueVars, threadVars, TypeOK, ControlInv, QueueTypeOK,
       LedgerTypeOK
  <1>22. ASSUME NEW c \in Cmds, NEW ok \in BOOLEAN, DispatchNext(c, ok)
         PROVE  FirstBoot'
    BY <1>22, <1>a DEF DispatchNext, PopQueued, TypeOK, ControlInv, QueueTypeOK, LedgerTypeOK
  <1>23. ASSUME NEW ok \in BOOLEAN, StartRun(ok)
         PROVE  FirstBoot'
    BY <1>23, <1>a DEF StartRun, Recorded, queueVars, TypeOK, ControlInv, QueueTypeOK,
       LedgerTypeOK
  <1>24. ASSUME NEW c \in Cmds, NEW e \in {"Completed", "Failed", "none"}, RunEnds(c, e)
         PROVE  FirstBoot'
    BY <1>24, <1>a DEF RunEnds, Recorded, queueVars, threadVars, TypeOK, ControlInv,
       QueueTypeOK, LedgerTypeOK
  <1>25. ASSUME NEW c \in Cmds, Deadline(c)
         PROVE  FirstBoot'
    BY <1>25, <1>a DEF Deadline, queueVars, threadVars, budget, TypeOK, ControlInv,
       QueueTypeOK, LedgerTypeOK
  <1>26. ASSUME Crash
         PROVE  FirstBoot'
    BY <1>26, <1>a DEF Crash, StoreRestart, TypeOK, ControlInv, QueueTypeOK, LedgerTypeOK
  <1>27. ASSUME LoadQueue
         PROVE  FirstBoot'
    BY <1>27, <1>a DEF LoadQueue, InitFromDisk, budget, TypeOK, ControlInv, QueueTypeOK,
       LedgerTypeOK
  <1>28. ASSUME RecoverHungCommands
         PROVE  FirstBoot'
    BY <1>28, <1>a DEF RecoverHungCommands, Recorded, Hung, queueVars, budget, TypeOK,
       ControlInv, QueueTypeOK, LedgerTypeOK
  <1>29. ASSUME ReconcileTasks
         PROVE  FirstBoot'
    BY <1>29, <1>a DEF ReconcileTasks, queueVars, budget, TypeOK, ControlInv, QueueTypeOK,
       LedgerTypeOK
  <1>30. ASSUME ScanIntents
         PROVE  FirstBoot'
    BY <1>30, <1>a DEF ScanIntents, queueVars, budget, HasIntent, TypeOK, ControlInv,
       QueueTypeOK, LedgerTypeOK
  <1>31. ASSUME NEW c \in Cmds, ReplayClaimed(c)
         PROVE  FirstBoot'
    BY <1>31, <1>a DEF ReplayClaimed, queueVars, budget, TypeOK, ControlInv, QueueTypeOK,
       LedgerTypeOK
  <1>32. ASSUME NEW c \in Cmds, NEW o, ReplayIntent(c, o)
         PROVE  FirstBoot'
    BY <1>32, <1>a DEF ReplayIntent, ExpireApprovals, SweptPending, SweptDisk, Sweep,
       Recorded, SweepOutcomes, Expired, PeekResult, queueVars, TypeOK, ControlInv,
       QueueTypeOK, LedgerTypeOK
  <1>33. ASSUME StartWorker
         PROVE  FirstBoot'
    BY <1>33, <1>a DEF StartWorker, InitFromDisk, budget, TypeOK, ControlInv, QueueTypeOK,
       LedgerTypeOK
  <1> QED
    BY <1>1, <1>2, <1>3, <1>4, <1>5, <1>6, <1>7, <1>8, <1>9, <1>10, <1>11, <1>12, <1>13,
       <1>14, <1>15, <1>16, <1>17, <1>18, <1>19, <1>20, <1>21, <1>22, <1>23, <1>24,
       <1>25, <1>26, <1>27, <1>28, <1>29, <1>30, <1>31, <1>32, <1>33
    DEF Next, HandlerStep, ResponderStep, WorkerStep, RunStep, BootStep, Responders, Threads

\* No step withdraws an approval without such a request.
LEMMA RequestStep ==
    ASSUME IInv, RequestInv, Next
    PROVE  RequestInv'
  <1> USE DeliveryAssumption DEF Responders, Threads, Goto, GotoFor, Return, Home
  <1>a. TypeOK /\ ControlInv
    BY DEF IInv
  <1>1. ASSUME NEW t \in Responders, NEW c \in Cmds, NEW o, Peek(t, c, o)
         PROVE  RequestInv'
    BY <1>1, <1>a DEF Peek, ExpireApprovals, SweptPending, SweptDisk, Sweep, Recorded,
       SweepOutcomes, Expired, PeekResult, Mark, TypeOK, ControlInv, RequestInv,
       Withdrawing
  <1>2. ASSUME NEW t \in Responders, Missing(t)
         PROVE  RequestInv'
    BY <1>2, <1>a DEF Missing, historyVars, TypeOK, ControlInv, RequestInv, Withdrawing
  <1>3. ASSUME NEW t \in Responders, ReleaseCheck(t)
         PROVE  RequestInv'
    BY <1>3, <1>a DEF ReleaseCheck, historyVars, TypeOK, ControlInv, RequestInv, Withdrawing
  <1>4. ASSUME NEW t \in Responders, NEW ok \in BOOLEAN, ReleaseUnlink(t, ok)
         PROVE  RequestInv'
    BY <1>4, <1>a DEF ReleaseUnlink, Unlink, historyVars, TypeOK, ControlInv, RequestInv,
       Withdrawing
  <1>5. ASSUME NEW t \in Responders, NEW ok \in BOOLEAN, RecordDispatchIntent(t, ok)
         PROVE  RequestInv'
    BY <1>5, <1>a DEF RecordDispatchIntent, RecordIntent, historyVars, TypeOK, ControlInv,
       RequestInv, Withdrawing
  <1>6. ASSUME NEW t \in Responders, NEW o, NEW ok \in BOOLEAN, PopForDispatch(t, o, ok)
         PROVE  RequestInv'
    <2>1. \A c \in Cmds : consumer'[c] \in {consumer[c], "approve", "expiry"}
      <3>1. \/ consumer' = Mark(o.gone, "expiry")
            \/ consumer' = [Mark(o.gone, "expiry") EXCEPT ![arg[t]] = "approve"]
        BY <1>6, <1>a DEF PopForDispatch
      <3> QED
        BY <3>1 DEF Mark
    <2>2. \A u \in Handlers : pc'[u] \in {pc[u], "claim", "check", "idle"}
      BY <1>6, <1>a DEF PopForDispatch, TypeOK
    <2> QED
      BY <2>1, <2>2 DEF RequestInv, Withdrawing
  <1>7. ASSUME NEW t \in Responders, NEW ok \in BOOLEAN, Claim(t, ok)
         PROVE  RequestInv'
    BY <1>7, <1>a DEF Claim, ClaimIntent, historyVars, TypeOK, ControlInv, RequestInv,
       Withdrawing
  <1>8. ASSUME NEW t \in Responders, NEW ok \in BOOLEAN, AuditApproval(t, ok)
         PROVE  RequestInv'
    BY <1>8, <1>a DEF AuditApproval, historyVars, TypeOK, ControlInv, RequestInv, Withdrawing
  <1>9. ASSUME NEW t \in Responders, NEW ok \in BOOLEAN, Enqueue(t, ok)
         PROVE  RequestInv'
    BY <1>9, <1>a DEF Enqueue, EnqueueDict, HasQueued, HasCommandDispatched, historyVars,
       TypeOK, ControlInv, RequestInv, Withdrawing
  <1>10. ASSUME NEW t \in Responders, NEW ok \in BOOLEAN, Done(t, ok)
         PROVE  RequestInv'
    BY <1>10, <1>a DEF Done, Unlink, historyVars, TypeOK, ControlInv, RequestInv, Withdrawing
  <1>11. ASSUME NEW t \in Handlers, NEW c \in Cmds, NEW o, NEW ok \in BOOLEAN, Reject(t, c, o, ok)
         PROVE  RequestInv'
    BY <1>11, <1>a DEF Reject, TakeApproval, ExpireApprovals, SweptPending, SweptDisk, Sweep,
       Recorded, SweepOutcomes, Expired, Mark, TypeOK, ControlInv, RequestInv,
       Withdrawing
  <1>12. ASSUME NEW t \in Handlers, NEW ok \in BOOLEAN, RejectAudit(t, ok)
         PROVE  RequestInv'
    BY <1>12, <1>a DEF RejectAudit, Recorded, historyVars, TypeOK, ControlInv, RequestInv,
       Withdrawing
  <1>13. ASSUME NEW t \in Handlers, NEW c \in Cmds, NEW ok \in BOOLEAN, Submit(t, c, ok)
         PROVE  RequestInv'
    BY <1>13, <1>a DEF Submit, Recorded, AddApproval, EnqueueDict, HasQueued, threadVars, historyVars,
       TypeOK, ControlInv, RequestInv, Withdrawing
  <1>14. ASSUME NEW t \in Handlers, NEW c \in Cmds, Cancel(t, c)
         PROVE  RequestInv'
    BY <1>14, <1>a DEF Cancel, historyVars, TypeOK, ControlInv, RequestInv, Withdrawing
  <1>15. ASSUME NEW t \in Handlers, NEW ok \in BOOLEAN, CancelLog(t, ok)
         PROVE  RequestInv'
    BY <1>15, <1>a DEF CancelLog, Recorded, historyVars, TypeOK, ControlInv, RequestInv,
       Withdrawing
  <1>16. ASSUME NEW t \in Handlers, NEW ok \in BOOLEAN, CancelDump(t, ok)
         PROVE  RequestInv'
    BY <1>16, <1>a DEF CancelDump, historyVars, TypeOK, ControlInv, RequestInv, Withdrawing
  <1>17. ASSUME NEW t \in Handlers, NEW o, NEW ok \in BOOLEAN, CancelPop(t, o, ok)
         PROVE  RequestInv'
    BY <1>17, <1>a DEF CancelPop, TakeApproval, ExpireApprovals, SweptPending, SweptDisk,
       Sweep, Recorded, SweepOutcomes, Expired, Mark, TypeOK, ControlInv, RequestInv,
       Withdrawing
  <1>18. ASSUME NEW t \in Handlers, NEW ok \in BOOLEAN, CancelReject(t, ok)
         PROVE  RequestInv'
    BY <1>18, <1>a DEF CancelReject, Recorded, historyVars, TypeOK, ControlInv, RequestInv,
       Withdrawing
  <1>19. ASSUME NEW t \in Handlers, NEW o, NEW ok \in BOOLEAN, Cascade(t, o, ok)
         PROVE  RequestInv'
    BY <1>19, <1>a DEF Cascade, CancelMission, SweptPending, SweptDisk, Sweep, Recorded,
       SweepOutcomes, Expired, ChildrenOf, Mark, TypeOK, ControlInv, RequestInv,
       Withdrawing
  <1>20. ASSUME NEW t \in Handlers, NEW c \in Cmds, NEW ok \in BOOLEAN, CascadeLog(t, c, ok)
         PROVE  RequestInv'
    BY <1>20, <1>a DEF CascadeLog, Recorded, historyVars, TypeOK, ControlInv, RequestInv,
       Withdrawing
  <1>21. ASSUME NEW o, WorkerSweep(o)
         PROVE  RequestInv'
    BY <1>21, <1>a DEF WorkerSweep, ExpireApprovals, SweptPending, SweptDisk, Sweep, Recorded,
       SweepOutcomes, Expired, threadVars, Mark, TypeOK, ControlInv, RequestInv,
       Withdrawing
  <1>22. ASSUME NEW c \in Cmds, NEW ok \in BOOLEAN, DispatchNext(c, ok)
         PROVE  RequestInv'
    BY <1>22, <1>a DEF DispatchNext, PopQueued, historyVars, TypeOK, ControlInv, RequestInv,
       Withdrawing
  <1>23. ASSUME NEW ok \in BOOLEAN, StartRun(ok)
         PROVE  RequestInv'
    BY <1>23, <1>a DEF StartRun, Recorded, TypeOK, ControlInv, RequestInv, Withdrawing
  <1>24. ASSUME NEW c \in Cmds, NEW e \in {"Completed", "Failed", "none"}, RunEnds(c, e)
         PROVE  RequestInv'
    BY <1>24, <1>a DEF RunEnds, Recorded, threadVars, historyVars, TypeOK, ControlInv,
       RequestInv, Withdrawing
  <1>25. ASSUME NEW c \in Cmds, Deadline(c)
         PROVE  RequestInv'
    BY <1>25, <1>a DEF Deadline, threadVars, historyVars, TypeOK, ControlInv, RequestInv,
       Withdrawing
  <1>26. ASSUME Crash
         PROVE  RequestInv'
    BY <1>26, <1>a DEF Crash, StoreRestart, Mark, TypeOK, ControlInv, RequestInv, Withdrawing
  <1>27. ASSUME LoadQueue
         PROVE  RequestInv'
    BY <1>27, <1>a DEF LoadQueue, InitFromDisk, historyVars, TypeOK, ControlInv, RequestInv,
       Withdrawing
  <1>28. ASSUME RecoverHungCommands
         PROVE  RequestInv'
    BY <1>28, <1>a DEF RecoverHungCommands, Recorded, Hung, historyVars, TypeOK, ControlInv,
       RequestInv, Withdrawing
  <1>29. ASSUME ReconcileTasks
         PROVE  RequestInv'
    BY <1>29, <1>a DEF ReconcileTasks, historyVars, TypeOK, ControlInv, RequestInv,
       Withdrawing
  <1>30. ASSUME ScanIntents
         PROVE  RequestInv'
    BY <1>30, <1>a DEF ScanIntents, historyVars, TypeOK, ControlInv, RequestInv, Withdrawing
  <1>31. ASSUME NEW c \in Cmds, ReplayClaimed(c)
         PROVE  RequestInv'
    BY <1>31, <1>a DEF ReplayClaimed, historyVars, TypeOK, ControlInv, RequestInv, Withdrawing
  <1>32. ASSUME NEW c \in Cmds, NEW o, ReplayIntent(c, o)
         PROVE  RequestInv'
    BY <1>32, <1>a DEF ReplayIntent, ExpireApprovals, SweptPending, SweptDisk, Sweep,
       Recorded, SweepOutcomes, Expired, PeekResult, Mark, TypeOK, ControlInv,
       RequestInv, Withdrawing
  <1>33. ASSUME StartWorker
         PROVE  RequestInv'
    BY <1>33, <1>a DEF StartWorker, InitFromDisk, historyVars, TypeOK, ControlInv, RequestInv,
       Withdrawing
  <1> QED
    BY <1>1, <1>2, <1>3, <1>4, <1>5, <1>6, <1>7, <1>8, <1>9, <1>10, <1>11, <1>12, <1>13,
       <1>14, <1>15, <1>16, <1>17, <1>18, <1>19, <1>20, <1>21, <1>22, <1>23, <1>24,
       <1>25, <1>26, <1>27, <1>28, <1>29, <1>30, <1>31, <1>32, <1>33
    DEF Next, HandlerStep, ResponderStep, WorkerStep, RunStep, BootStep, Responders, Threads

\* A sweep, with or without the pop that follows it, keeps the account.
LEMMA AccountExpire ==
    ASSUME TypeOK, KnownInv, AccountInv, created' = created, NEW o, ExpireApprovals(o),
           consumer' = Mark(o.gone, "expiry")
    PROVE  AccountInv'
  <1>1. \A d \in Cmds : consumer'[d] = IF d \in o.gone THEN "expiry" ELSE consumer[d]
    BY DEF Mark
  <1>2. /\ pending' = pending \ o.gone /\ pendingDisk' = pending' /\ o.gone \subseteq pending
    BY DEF ExpireApprovals, SweptPending, SweptDisk, Sweep, SweepOutcomes, Expired, AccountInv
  <1>3. pending \subseteq created
    BY DEF KnownInv, KnownData
  <1> QED
    BY <1>1, <1>2, <1>3, CommandsAssumption DEF AccountInv

LEMMA AccountPop ==
    ASSUME TypeOK, KnownInv, AccountInv, created' = created, NEW o, NEW c \in Cmds,
           TakeApproval(c, o), NEW who \in {"approve", "reject", "cancel"},
           consumer' = [Mark(o.gone, "expiry") EXCEPT ![c] = who]
    PROVE  AccountInv'
  <1>1. /\ \A d \in Cmds \ {c} : consumer'[d] = IF d \in o.gone THEN "expiry" ELSE consumer[d]
        /\ consumer'[c] = who
    BY DEF Mark
  <1>2. /\ pending' = (pending \ o.gone) \ {c} /\ pendingDisk' = pending'
        /\ c \in pending /\ o.gone \subseteq pending
    BY DEF TakeApproval, SweptPending, Sweep, SweepOutcomes, Expired, Usable
  <1>3. pending \subseteq created
    BY DEF KnownInv, KnownData
  <1> QED
    BY <1>1, <1>2, <1>3, CommandsAssumption DEF AccountInv

\* Memory, file and history of the store move together.
LEMMA AccountStep ==
    ASSUME IInv, AccountInv, MaxFaults = 0, Next
    PROVE  AccountInv'
  <1> USE CommandsAssumption, DeliveryAssumption DEF Responders, AccountInv
  <1>a. /\ TypeOK /\ KnownInv
        /\ \A ok \in BOOLEAN : Io(ok) => ok
        /\ \A t \in Threads : pc[t] \notin HomeLabels => arg[t] \in Cmds
    BY DEF IInv, KnownInv, ArgKnown, TypeOK, Io
  <1>1. ASSUME NEW t \in Responders, NEW c \in Cmds, NEW o, Peek(t, c, o)
         PROVE  AccountInv'
    BY <1>1, <1>a DEF Peek, ExpireApprovals, SweptPending, SweptDisk, Sweep, Recorded,
       SweepOutcomes, Expired, PeekResult, Mark, Usable, Threads, HomeLabels, TypeOK,
       KnownInv, KnownData, StoreTypeOK
  <1>2. ASSUME NEW t \in Responders, Missing(t)
         PROVE  AccountInv'
    BY <1>2, <1>a DEF Missing, storeVars, historyVars, TypeOK, KnownInv, KnownData,
       StoreTypeOK
  <1>3. ASSUME NEW t \in Responders, ReleaseCheck(t)
         PROVE  AccountInv'
    BY <1>3, <1>a DEF ReleaseCheck, storeVars, historyVars, TypeOK, KnownInv, KnownData,
       StoreTypeOK
  <1>4. ASSUME NEW t \in Responders, NEW ok \in BOOLEAN, ReleaseUnlink(t, ok)
         PROVE  AccountInv'
    BY <1>4, <1>a DEF ReleaseUnlink, Unlink, storeVars, historyVars, TypeOK, KnownInv,
       KnownData, StoreTypeOK
  <1>5. ASSUME NEW t \in Responders, NEW ok \in BOOLEAN, RecordDispatchIntent(t, ok)
         PROVE  AccountInv'
    BY <1>5, <1>a DEF RecordDispatchIntent, RecordIntent, storeVars, historyVars, TypeOK,
       KnownInv, KnownData, StoreTypeOK
  <1>6. ASSUME NEW t \in Responders, NEW o, NEW ok \in BOOLEAN, PopForDispatch(t, o, ok)
         PROVE  AccountInv'
    <2>1. CASE TakeApproval(arg[t], o) /\ consumer' = [Mark(o.gone, "expiry") EXCEPT ![arg[t]] = "approve"]
      <3>1. arg[t] \in Cmds /\ created' = created
        BY <1>6, <1>a DEF PopForDispatch, Threads, HomeLabels
      <3> QED
        BY <1>a, <2>1, <3>1, AccountPop
    <2>2. CASE ExpireApprovals(o) /\ consumer' = Mark(o.gone, "expiry")
      BY <1>6, <1>a, <2>2, AccountExpire DEF PopForDispatch
    <2> QED
      BY <1>6, <2>1, <2>2 DEF PopForDispatch
  <1>7. ASSUME NEW t \in Responders, NEW ok \in BOOLEAN, Claim(t, ok)
         PROVE  AccountInv'
    BY <1>7, <1>a DEF Claim, ClaimIntent, storeVars, historyVars, TypeOK, KnownInv, KnownData,
       StoreTypeOK
  <1>8. ASSUME NEW t \in Responders, NEW ok \in BOOLEAN, AuditApproval(t, ok)
         PROVE  AccountInv'
    BY <1>8, <1>a DEF AuditApproval, storeVars, historyVars, TypeOK, KnownInv, KnownData,
       StoreTypeOK
  <1>9. ASSUME NEW t \in Responders, NEW ok \in BOOLEAN, Enqueue(t, ok)
         PROVE  AccountInv'
    BY <1>9, <1>a DEF Enqueue, EnqueueDict, HasQueued, HasCommandDispatched, storeVars,
       historyVars, TypeOK, KnownInv, KnownData, StoreTypeOK
  <1>10. ASSUME NEW t \in Responders, NEW ok \in BOOLEAN, Done(t, ok)
         PROVE  AccountInv'
    BY <1>10, <1>a DEF Done, Unlink, storeVars, historyVars, TypeOK, KnownInv, KnownData,
       StoreTypeOK
  <1>11. ASSUME NEW t \in Handlers, NEW c \in Cmds, NEW o, NEW ok \in BOOLEAN, Reject(t, c, o, ok)
         PROVE  AccountInv'
    <2>1. CASE TakeApproval(c, o) /\ consumer' = [Mark(o.gone, "expiry") EXCEPT ![c] = "reject"]
      <3>1. c \in Cmds /\ created' = created
        BY <1>11, <1>a DEF Reject, Threads, HomeLabels
      <3> QED
        BY <1>a, <2>1, <3>1, AccountPop
    <2>2. CASE ExpireApprovals(o) /\ consumer' = Mark(o.gone, "expiry")
      BY <1>11, <1>a, <2>2, AccountExpire DEF Reject
    <2> QED
      BY <1>11, <2>1, <2>2 DEF Reject
  <1>12. ASSUME NEW t \in Handlers, NEW ok \in BOOLEAN, RejectAudit(t, ok)
         PROVE  AccountInv'
    BY <1>12, <1>a DEF RejectAudit, Recorded, storeVars, historyVars, TypeOK, KnownInv,
       KnownData, StoreTypeOK
  <1>13. ASSUME NEW t \in Handlers, NEW c \in Cmds, NEW ok \in BOOLEAN, Submit(t, c, ok)
         PROVE  AccountInv'
    BY <1>13, <1>a DEF Submit, Recorded, AddApproval, EnqueueDict, HasQueued, storeVars, threadVars,
       historyVars, TypeOK, KnownInv, KnownData, StoreTypeOK
  <1>14. ASSUME NEW t \in Handlers, NEW c \in Cmds, Cancel(t, c)
         PROVE  AccountInv'
    BY <1>14, <1>a DEF Cancel, storeVars, historyVars, TypeOK, KnownInv, KnownData,
       StoreTypeOK
  <1>15. ASSUME NEW t \in Handlers, NEW ok \in BOOLEAN, CancelLog(t, ok)
         PROVE  AccountInv'
    BY <1>15, <1>a DEF CancelLog, Recorded, storeVars, historyVars, TypeOK, KnownInv,
       KnownData, StoreTypeOK
  <1>16. ASSUME NEW t \in Handlers, NEW ok \in BOOLEAN, CancelDump(t, ok)
         PROVE  AccountInv'
    BY <1>16, <1>a DEF CancelDump, storeVars, historyVars, TypeOK, KnownInv, KnownData,
       StoreTypeOK
  <1>17. ASSUME NEW t \in Handlers, NEW o, NEW ok \in BOOLEAN, CancelPop(t, o, ok)
         PROVE  AccountInv'
    <2>1. CASE TakeApproval(arg[t], o) /\ consumer' = [Mark(o.gone, "expiry") EXCEPT ![arg[t]] = "cancel"]
      <3>1. arg[t] \in Cmds /\ created' = created
        BY <1>17, <1>a DEF CancelPop, Threads, HomeLabels
      <3> QED
        BY <1>a, <2>1, <3>1, AccountPop
    <2>2. CASE ExpireApprovals(o) /\ consumer' = Mark(o.gone, "expiry")
      BY <1>17, <1>a, <2>2, AccountExpire DEF CancelPop
    <2> QED
      BY <1>17, <2>1, <2>2 DEF CancelPop
  <1>18. ASSUME NEW t \in Handlers, NEW ok \in BOOLEAN, CancelReject(t, ok)
         PROVE  AccountInv'
    BY <1>18, <1>a DEF CancelReject, Recorded, storeVars, historyVars, TypeOK, KnownInv,
       KnownData, StoreTypeOK
  <1>19. ASSUME NEW t \in Handlers, NEW o, NEW ok \in BOOLEAN, Cascade(t, o, ok)
         PROVE  AccountInv'
    BY <1>19, <1>a DEF Cascade, CancelMission, SweptPending, SweptDisk, Sweep, Recorded,
       SweepOutcomes, Expired, ChildrenOf, Mark, Usable, Threads, HomeLabels, TypeOK,
       KnownInv, KnownData, StoreTypeOK
  <1>20. ASSUME NEW t \in Handlers, NEW c \in Cmds, NEW ok \in BOOLEAN, CascadeLog(t, c, ok)
         PROVE  AccountInv'
    BY <1>20, <1>a DEF CascadeLog, Recorded, storeVars, historyVars, TypeOK, KnownInv,
       KnownData, StoreTypeOK
  <1>21. ASSUME NEW o, WorkerSweep(o)
         PROVE  AccountInv'
    BY <1>21, <1>a DEF WorkerSweep, ExpireApprovals, SweptPending, SweptDisk, Sweep, Recorded,
       SweepOutcomes, Expired, threadVars, Mark, Usable, Threads, HomeLabels, TypeOK,
       KnownInv, KnownData, StoreTypeOK
  <1>22. ASSUME NEW c \in Cmds, NEW ok \in BOOLEAN, DispatchNext(c, ok)
         PROVE  AccountInv'
    BY <1>22, <1>a DEF DispatchNext, PopQueued, storeVars, historyVars, TypeOK, KnownInv,
       KnownData, StoreTypeOK
  <1>23. ASSUME NEW ok \in BOOLEAN, StartRun(ok)
         PROVE  AccountInv'
    BY <1>23, <1>a DEF StartRun, Recorded, storeVars, TypeOK, KnownInv, KnownData, StoreTypeOK
  <1>24. ASSUME NEW c \in Cmds, NEW e \in {"Completed", "Failed", "none"}, RunEnds(c, e)
         PROVE  AccountInv'
    BY <1>24, <1>a DEF RunEnds, Recorded, storeVars, threadVars, historyVars, TypeOK,
       KnownInv, KnownData, StoreTypeOK
  <1>25. ASSUME NEW c \in Cmds, Deadline(c)
         PROVE  AccountInv'
    BY <1>25, <1>a DEF Deadline, threadVars, historyVars, TypeOK, KnownInv, KnownData,
       StoreTypeOK
  <1>26. ASSUME Crash
         PROVE  AccountInv'
    BY <1>26, <1>a DEF Crash, StoreRestart, Mark, Usable, Threads, HomeLabels, TypeOK,
       KnownInv, KnownData, StoreTypeOK
  <1>27. ASSUME LoadQueue
         PROVE  AccountInv'
    BY <1>27, <1>a DEF LoadQueue, InitFromDisk, storeVars, historyVars, TypeOK, KnownInv,
       KnownData, StoreTypeOK
  <1>28. ASSUME RecoverHungCommands
         PROVE  AccountInv'
    BY <1>28, <1>a DEF RecoverHungCommands, Recorded, Hung, storeVars, historyVars, TypeOK,
       KnownInv, KnownData, StoreTypeOK
  <1>29. ASSUME ReconcileTasks
         PROVE  AccountInv'
    BY <1>29, <1>a DEF ReconcileTasks, storeVars, historyVars, TypeOK, KnownInv, KnownData,
       StoreTypeOK
  <1>30. ASSUME ScanIntents
         PROVE  AccountInv'
    BY <1>30, <1>a DEF ScanIntents, storeVars, historyVars, TypeOK, KnownInv, KnownData,
       StoreTypeOK
  <1>31. ASSUME NEW c \in Cmds, ReplayClaimed(c)
         PROVE  AccountInv'
    BY <1>31, <1>a DEF ReplayClaimed, storeVars, historyVars, TypeOK, KnownInv, KnownData,
       StoreTypeOK
  <1>32. ASSUME NEW c \in Cmds, NEW o, ReplayIntent(c, o)
         PROVE  AccountInv'
    BY <1>32, <1>a DEF ReplayIntent, ExpireApprovals, SweptPending, SweptDisk, Sweep,
       Recorded, SweepOutcomes, Expired, PeekResult, Mark, Usable, Threads, HomeLabels,
       TypeOK, KnownInv, KnownData, StoreTypeOK
  <1>33. ASSUME StartWorker
         PROVE  AccountInv'
    BY <1>33, <1>a DEF StartWorker, InitFromDisk, storeVars, historyVars, TypeOK, KnownInv,
       KnownData, StoreTypeOK
  <1> QED
    BY <1>1, <1>2, <1>3, <1>4, <1>5, <1>6, <1>7, <1>8, <1>9, <1>10, <1>11, <1>12, <1>13,
       <1>14, <1>15, <1>16, <1>17, <1>18, <1>19, <1>20, <1>21, <1>22, <1>23, <1>24,
       <1>25, <1>26, <1>27, <1>28, <1>29, <1>30, <1>31, <1>32, <1>33
    DEF Next, HandlerStep, ResponderStep, WorkerStep, RunStep, BootStep, Responders, Threads

\* What the two lemmas on steps leave out: the queue in memory, cancelled commands,
\* and the clock.
Fails ==
    \A c \in Cmds :
        /\ c \in queue' => \/ c \in queue
                           \/ ~Up /\ c \in queueDisk
                           \/ c \notin created
                           \/ log[c] = {} /\ \E t \in Responders : Carrying(t, c)
        /\ "Failed" \in log'[c] => \/ "Failed" \in log[c] \/ "Started" \in log[c]
                                   \/ \E t \in Handlers : At(t, {"cxlLog"}, c)
        /\ \A t \in Handlers :
              At(t, {"cxlLog"}, c)' => At(t, {"cxlLog"}, c) \/ (Cancel(t, c) /\ c \in queue)

LEMMA FailStep ==
    ASSUME IInv, Next
    PROVE  Fails
  <1> USE DeliveryAssumption DEF Responders, Threads, Goto, GotoFor, Return, Home, Fails, At, Carrying
  <1>a. TypeOK /\ ControlInv /\ RunInv
    BY DEF IInv
  <1>1. ASSUME NEW t \in Responders, NEW c \in Cmds, NEW o, Peek(t, c, o)
         PROVE  Fails
    BY <1>1, <1>a DEF Peek, ExpireApprovals, SweptPending, SweptDisk, Sweep, Recorded,
       SweepOutcomes, Expired, PeekResult, queueVars, TypeOK, ControlInv, LogTypeOK,
       QueueTypeOK
  <1>2. ASSUME NEW t \in Responders, Missing(t)
         PROVE  Fails
    BY <1>2, <1>a DEF Missing, queueVars, historyVars, TypeOK, ControlInv, LogTypeOK,
       QueueTypeOK
  <1>3. ASSUME NEW t \in Responders, ReleaseCheck(t)
         PROVE  Fails
    BY <1>3, <1>a DEF ReleaseCheck, queueVars, historyVars, TypeOK, ControlInv, LogTypeOK,
       QueueTypeOK
  <1>4. ASSUME NEW t \in Responders, NEW ok \in BOOLEAN, ReleaseUnlink(t, ok)
         PROVE  Fails
    BY <1>4, <1>a DEF ReleaseUnlink, Unlink, queueVars, historyVars, TypeOK, ControlInv,
       LogTypeOK, QueueTypeOK
  <1>5. ASSUME NEW t \in Responders, NEW ok \in BOOLEAN, RecordDispatchIntent(t, ok)
         PROVE  Fails
    BY <1>5, <1>a DEF RecordDispatchIntent, RecordIntent, queueVars, historyVars, TypeOK,
       ControlInv, LogTypeOK, QueueTypeOK
  <1>6. ASSUME NEW t \in Responders, NEW o, NEW ok \in BOOLEAN, PopForDispatch(t, o, ok)
         PROVE  Fails
    BY <1>6, <1>a DEF PopForDispatch, TakeApproval, ExpireApprovals, SweptPending, SweptDisk,
       Sweep, Recorded, SweepOutcomes, Expired, queueVars, TypeOK, ControlInv,
       LogTypeOK, QueueTypeOK
  <1>7. ASSUME NEW t \in Responders, NEW ok \in BOOLEAN, Claim(t, ok)
         PROVE  Fails
    BY <1>7, <1>a DEF Claim, ClaimIntent, queueVars, historyVars, TypeOK, ControlInv,
       LogTypeOK, QueueTypeOK
  <1>8. ASSUME NEW t \in Responders, NEW ok \in BOOLEAN, AuditApproval(t, ok)
         PROVE  Fails
    BY <1>8, <1>a DEF AuditApproval, queueVars, historyVars, TypeOK, ControlInv, LogTypeOK,
       QueueTypeOK
  <1>9. ASSUME NEW t \in Responders, NEW ok \in BOOLEAN, Enqueue(t, ok)
         PROVE  Fails
    BY <1>9, <1>a DEF Enqueue, EnqueueDict, HasQueued, HasCommandDispatched, queueVars,
       historyVars, TypeOK, ControlInv, LogTypeOK, QueueTypeOK
  <1>10. ASSUME NEW t \in Responders, NEW ok \in BOOLEAN, Done(t, ok)
         PROVE  Fails
    BY <1>10, <1>a DEF Done, Unlink, queueVars, historyVars, TypeOK, ControlInv, LogTypeOK,
       QueueTypeOK
  <1>11. ASSUME NEW t \in Handlers, NEW c \in Cmds, NEW o, NEW ok \in BOOLEAN, Reject(t, c, o, ok)
         PROVE  Fails
    BY <1>11, <1>a DEF Reject, TakeApproval, ExpireApprovals, SweptPending, SweptDisk, Sweep,
       Recorded, SweepOutcomes, Expired, queueVars, TypeOK, ControlInv, LogTypeOK,
       QueueTypeOK
  <1>12. ASSUME NEW t \in Handlers, NEW ok \in BOOLEAN, RejectAudit(t, ok)
         PROVE  Fails
    BY <1>12, <1>a DEF RejectAudit, Recorded, queueVars, historyVars, TypeOK, ControlInv,
       LogTypeOK, QueueTypeOK
  <1>13. ASSUME NEW t \in Handlers, NEW c \in Cmds, NEW ok \in BOOLEAN, Submit(t, c, ok)
         PROVE  Fails
    BY <1>13, <1>a DEF Submit, Recorded, AddApproval, EnqueueDict, HasQueued, queueVars, threadVars,
       historyVars, HasCommandDispatched, TypeOK, ControlInv, LogTypeOK, QueueTypeOK
  <1>14. ASSUME NEW t \in Handlers, NEW c \in Cmds, Cancel(t, c)
         PROVE  Fails
    BY <1>14, <1>a DEF Cancel, historyVars, Up, TypeOK, ControlInv, LogTypeOK, QueueTypeOK
  <1>15. ASSUME NEW t \in Handlers, NEW ok \in BOOLEAN, CancelLog(t, ok)
         PROVE  Fails
    BY <1>15, <1>a DEF CancelLog, Recorded, queueVars, historyVars, TypeOK, ControlInv,
       LogTypeOK, QueueTypeOK
  <1>16. ASSUME NEW t \in Handlers, NEW ok \in BOOLEAN, CancelDump(t, ok)
         PROVE  Fails
    BY <1>16, <1>a DEF CancelDump, queueVars, historyVars, TypeOK, ControlInv, LogTypeOK,
       QueueTypeOK
  <1>17. ASSUME NEW t \in Handlers, NEW o, NEW ok \in BOOLEAN, CancelPop(t, o, ok)
         PROVE  Fails
    BY <1>17, <1>a DEF CancelPop, TakeApproval, ExpireApprovals, SweptPending, SweptDisk,
       Sweep, Recorded, SweepOutcomes, Expired, queueVars, TypeOK, ControlInv,
       LogTypeOK, QueueTypeOK
  <1>18. ASSUME NEW t \in Handlers, NEW ok \in BOOLEAN, CancelReject(t, ok)
         PROVE  Fails
    BY <1>18, <1>a DEF CancelReject, Recorded, queueVars, historyVars, TypeOK, ControlInv,
       LogTypeOK, QueueTypeOK
  <1>19. ASSUME NEW t \in Handlers, NEW o, NEW ok \in BOOLEAN, Cascade(t, o, ok)
         PROVE  Fails
    BY <1>19, <1>a DEF Cascade, CancelMission, SweptPending, SweptDisk, Sweep, Recorded,
       SweepOutcomes, Expired, ChildrenOf, queueVars, TypeOK, ControlInv, LogTypeOK,
       QueueTypeOK
  <1>20. ASSUME NEW t \in Handlers, NEW c \in Cmds, NEW ok \in BOOLEAN, CascadeLog(t, c, ok)
         PROVE  Fails
    BY <1>20, <1>a DEF CascadeLog, Recorded, queueVars, historyVars, TypeOK, ControlInv,
       LogTypeOK, QueueTypeOK
  <1>21. ASSUME NEW o, WorkerSweep(o)
         PROVE  Fails
    BY <1>21, <1>a DEF WorkerSweep, ExpireApprovals, SweptPending, SweptDisk, Sweep, Recorded,
       SweepOutcomes, Expired, queueVars, threadVars, TypeOK, ControlInv, LogTypeOK,
       QueueTypeOK
  <1>22. ASSUME NEW c \in Cmds, NEW ok \in BOOLEAN, DispatchNext(c, ok)
         PROVE  Fails
    BY <1>22, <1>a DEF DispatchNext, PopQueued, historyVars, TypeOK, ControlInv, LogTypeOK,
       QueueTypeOK
  <1>23. ASSUME NEW ok \in BOOLEAN, StartRun(ok)
         PROVE  Fails
    BY <1>23, <1>a DEF StartRun, Recorded, queueVars, TypeOK, ControlInv, LogTypeOK,
       QueueTypeOK
  <1>24. ASSUME NEW c \in Cmds, NEW e \in {"Completed", "Failed", "none"}, RunEnds(c, e)
         PROVE  Fails
    BY <1>24, <1>a DEF RunEnds, Recorded, queueVars, threadVars, historyVars, RunInv, TypeOK,
       ControlInv, LogTypeOK, QueueTypeOK
  <1>25. ASSUME NEW c \in Cmds, Deadline(c)
         PROVE  Fails
    BY <1>25, <1>a DEF Deadline, queueVars, threadVars, historyVars, TypeOK, ControlInv,
       LogTypeOK, QueueTypeOK
  <1>26. ASSUME Crash
         PROVE  Fails
    BY <1>26, <1>a DEF Crash, StoreRestart, Up, TypeOK, ControlInv, LogTypeOK, QueueTypeOK
  <1>27. ASSUME LoadQueue
         PROVE  Fails
    BY <1>27, <1>a DEF LoadQueue, InitFromDisk, historyVars, Up, TypeOK, ControlInv,
       LogTypeOK, QueueTypeOK
  <1>28. ASSUME RecoverHungCommands
         PROVE  Fails
    BY <1>28, <1>a DEF RecoverHungCommands, Recorded, Hung, queueVars, historyVars, RunInv,
       TypeOK, ControlInv, LogTypeOK, QueueTypeOK
  <1>29. ASSUME ReconcileTasks
         PROVE  Fails
    BY <1>29, <1>a DEF ReconcileTasks, queueVars, historyVars, TypeOK, ControlInv, LogTypeOK,
       QueueTypeOK
  <1>30. ASSUME ScanIntents
         PROVE  Fails
    BY <1>30, <1>a DEF ScanIntents, queueVars, historyVars, TypeOK, ControlInv, LogTypeOK,
       QueueTypeOK
  <1>31. ASSUME NEW c \in Cmds, ReplayClaimed(c)
         PROVE  Fails
    BY <1>31, <1>a DEF ReplayClaimed, queueVars, historyVars, TypeOK, ControlInv, LogTypeOK,
       QueueTypeOK
  <1>32. ASSUME NEW c \in Cmds, NEW o, ReplayIntent(c, o)
         PROVE  Fails
    BY <1>32, <1>a DEF ReplayIntent, ExpireApprovals, SweptPending, SweptDisk, Sweep,
       Recorded, SweepOutcomes, Expired, PeekResult, queueVars, TypeOK, ControlInv,
       LogTypeOK, QueueTypeOK
  <1>33. ASSUME StartWorker
         PROVE  Fails
    BY <1>33, <1>a DEF StartWorker, InitFromDisk, historyVars, Up, TypeOK, ControlInv,
       LogTypeOK, QueueTypeOK
  <1> HIDE DEF Goto, GotoFor, Return, Home, Fails, At, Carrying
  <1> QED
    BY <1>1, <1>2, <1>3, <1>4, <1>5, <1>6, <1>7, <1>8, <1>9, <1>10, <1>11, <1>12, <1>13,
       <1>14, <1>15, <1>16, <1>17, <1>18, <1>19, <1>20, <1>21, <1>22, <1>23, <1>24,
       <1>25, <1>26, <1>27, <1>28, <1>29, <1>30, <1>31, <1>32, <1>33
    DEF Next, HandlerStep, ResponderStep, WorkerStep, RunStep, BootStep, Responders, Threads

\* Only the clock changes what is overdue, and only a crash is counted as one.
LEMMA ClockStep ==
    ASSUME Next
    PROVE  due' = due \/ \E c \in Cmds : Deadline(c)
  <1> DEFINE Clocks == due' = due \/ \E c \in Cmds : Deadline(c)
  <1>1. ASSUME NEW t \in Responders, NEW c \in Cmds, NEW o, Peek(t, c, o)
         PROVE  Clocks
    BY <1>1 DEF Peek, ExpireApprovals, SweptPending, SweptDisk, Sweep, Recorded,
       SweepOutcomes, Expired, PeekResult
  <1>2. ASSUME NEW t \in Responders, Missing(t)
         PROVE  Clocks
    BY <1>2 DEF Missing, storeVars
  <1>3. ASSUME NEW t \in Responders, ReleaseCheck(t)
         PROVE  Clocks
    BY <1>3 DEF ReleaseCheck, storeVars
  <1>4. ASSUME NEW t \in Responders, NEW ok \in BOOLEAN, ReleaseUnlink(t, ok)
         PROVE  Clocks
    BY <1>4 DEF ReleaseUnlink, Unlink, storeVars
  <1>5. ASSUME NEW t \in Responders, NEW ok \in BOOLEAN, RecordDispatchIntent(t, ok)
         PROVE  Clocks
    BY <1>5 DEF RecordDispatchIntent, RecordIntent, storeVars
  <1>6. ASSUME NEW t \in Responders, NEW o, NEW ok \in BOOLEAN, PopForDispatch(t, o, ok)
         PROVE  Clocks
    BY <1>6 DEF PopForDispatch, TakeApproval, ExpireApprovals, SweptPending, SweptDisk,
       Sweep, Recorded, SweepOutcomes, Expired
  <1>7. ASSUME NEW t \in Responders, NEW ok \in BOOLEAN, Claim(t, ok)
         PROVE  Clocks
    BY <1>7 DEF Claim, ClaimIntent, storeVars
  <1>8. ASSUME NEW t \in Responders, NEW ok \in BOOLEAN, AuditApproval(t, ok)
         PROVE  Clocks
    BY <1>8 DEF AuditApproval, storeVars
  <1>9. ASSUME NEW t \in Responders, NEW ok \in BOOLEAN, Enqueue(t, ok)
         PROVE  Clocks
    BY <1>9 DEF Enqueue, EnqueueDict, HasQueued, HasCommandDispatched, storeVars
  <1>10. ASSUME NEW t \in Responders, NEW ok \in BOOLEAN, Done(t, ok)
         PROVE  Clocks
    BY <1>10 DEF Done, Unlink, storeVars
  <1>11. ASSUME NEW t \in Handlers, NEW c \in Cmds, NEW o, NEW ok \in BOOLEAN, Reject(t, c, o, ok)
         PROVE  Clocks
    BY <1>11 DEF Reject, TakeApproval, ExpireApprovals, SweptPending, SweptDisk, Sweep,
       Recorded, SweepOutcomes, Expired
  <1>12. ASSUME NEW t \in Handlers, NEW ok \in BOOLEAN, RejectAudit(t, ok)
         PROVE  Clocks
    BY <1>12 DEF RejectAudit, Recorded, storeVars
  <1>13. ASSUME NEW t \in Handlers, NEW c \in Cmds, NEW ok \in BOOLEAN, Submit(t, c, ok)
         PROVE  Clocks
    BY <1>13 DEF Submit, Recorded, AddApproval, EnqueueDict, HasQueued, storeVars
  <1>14. ASSUME NEW t \in Handlers, NEW c \in Cmds, Cancel(t, c)
         PROVE  Clocks
    BY <1>14 DEF Cancel, storeVars
  <1>15. ASSUME NEW t \in Handlers, NEW ok \in BOOLEAN, CancelLog(t, ok)
         PROVE  Clocks
    BY <1>15 DEF CancelLog, Recorded, storeVars
  <1>16. ASSUME NEW t \in Handlers, NEW ok \in BOOLEAN, CancelDump(t, ok)
         PROVE  Clocks
    BY <1>16 DEF CancelDump, storeVars
  <1>17. ASSUME NEW t \in Handlers, NEW o, NEW ok \in BOOLEAN, CancelPop(t, o, ok)
         PROVE  Clocks
    BY <1>17 DEF CancelPop, TakeApproval, ExpireApprovals, SweptPending, SweptDisk,
       Sweep, Recorded, SweepOutcomes, Expired
  <1>18. ASSUME NEW t \in Handlers, NEW ok \in BOOLEAN, CancelReject(t, ok)
         PROVE  Clocks
    BY <1>18 DEF CancelReject, Recorded, storeVars
  <1>19. ASSUME NEW t \in Handlers, NEW o, NEW ok \in BOOLEAN, Cascade(t, o, ok)
         PROVE  Clocks
    BY <1>19 DEF Cascade, CancelMission, SweptPending, SweptDisk, Sweep, Recorded,
       SweepOutcomes, Expired, ChildrenOf
  <1>20. ASSUME NEW t \in Handlers, NEW c \in Cmds, NEW ok \in BOOLEAN, CascadeLog(t, c, ok)
         PROVE  Clocks
    BY <1>20 DEF CascadeLog, Recorded, storeVars
  <1>21. ASSUME NEW o, WorkerSweep(o)
         PROVE  Clocks
    BY <1>21 DEF WorkerSweep, ExpireApprovals, SweptPending, SweptDisk, Sweep, Recorded,
       SweepOutcomes, Expired
  <1>22. ASSUME NEW c \in Cmds, NEW ok \in BOOLEAN, DispatchNext(c, ok)
         PROVE  Clocks
    BY <1>22 DEF DispatchNext, PopQueued, storeVars
  <1>23. ASSUME NEW ok \in BOOLEAN, StartRun(ok)
         PROVE  Clocks
    BY <1>23 DEF StartRun, Recorded, storeVars
  <1>24. ASSUME NEW c \in Cmds, NEW e \in {"Completed", "Failed", "none"}, RunEnds(c, e)
         PROVE  Clocks
    BY <1>24 DEF RunEnds, Recorded, storeVars
  <1>25. ASSUME NEW c \in Cmds, Deadline(c)
         PROVE  Clocks
    BY <1>25 DEF Deadline
  <1>26. ASSUME Crash
         PROVE  Clocks
    BY <1>26 DEF Crash, StoreRestart
  <1>27. ASSUME LoadQueue
         PROVE  Clocks
    BY <1>27 DEF LoadQueue, InitFromDisk, storeVars
  <1>28. ASSUME RecoverHungCommands
         PROVE  Clocks
    BY <1>28 DEF RecoverHungCommands, Recorded, Hung, storeVars
  <1>29. ASSUME ReconcileTasks
         PROVE  Clocks
    BY <1>29 DEF ReconcileTasks, storeVars
  <1>30. ASSUME ScanIntents
         PROVE  Clocks
    BY <1>30 DEF ScanIntents, storeVars
  <1>31. ASSUME NEW c \in Cmds, ReplayClaimed(c)
         PROVE  Clocks
    BY <1>31 DEF ReplayClaimed, storeVars
  <1>32. ASSUME NEW c \in Cmds, NEW o, ReplayIntent(c, o)
         PROVE  Clocks
    BY <1>32 DEF ReplayIntent, ExpireApprovals, SweptPending, SweptDisk, Sweep,
       Recorded, SweepOutcomes, Expired, PeekResult
  <1>33. ASSUME StartWorker
         PROVE  Clocks
    BY <1>33 DEF StartWorker, InitFromDisk, storeVars
  <1> QED
    BY <1>1, <1>2, <1>3, <1>4, <1>5, <1>6, <1>7, <1>8, <1>9, <1>10, <1>11, <1>12, <1>13,
       <1>14, <1>15, <1>16, <1>17, <1>18, <1>19, <1>20, <1>21, <1>22, <1>23, <1>24,
       <1>25, <1>26, <1>27, <1>28, <1>29, <1>30, <1>31, <1>32, <1>33
    DEF Next, HandlerStep, ResponderStep, WorkerStep, RunStep, BootStep, Responders, Threads

LEMMA CountStep ==
    ASSUME Next
    PROVE  crashes' = crashes \/ Crash
  <1> DEFINE Counts == crashes' = crashes \/ Crash
  <1>1. ASSUME NEW t \in Responders, NEW c \in Cmds, NEW o, Peek(t, c, o)
         PROVE  Counts
    BY <1>1 DEF Peek, ExpireApprovals, SweptPending, SweptDisk, Sweep, Recorded,
       SweepOutcomes, Expired, PeekResult
  <1>2. ASSUME NEW t \in Responders, Missing(t)
         PROVE  Counts
    BY <1>2 DEF Missing, budget
  <1>3. ASSUME NEW t \in Responders, ReleaseCheck(t)
         PROVE  Counts
    BY <1>3 DEF ReleaseCheck, budget
  <1>4. ASSUME NEW t \in Responders, NEW ok \in BOOLEAN, ReleaseUnlink(t, ok)
         PROVE  Counts
    BY <1>4 DEF ReleaseUnlink, Unlink
  <1>5. ASSUME NEW t \in Responders, NEW ok \in BOOLEAN, RecordDispatchIntent(t, ok)
         PROVE  Counts
    BY <1>5 DEF RecordDispatchIntent, RecordIntent
  <1>6. ASSUME NEW t \in Responders, NEW o, NEW ok \in BOOLEAN, PopForDispatch(t, o, ok)
         PROVE  Counts
    BY <1>6 DEF PopForDispatch, TakeApproval, ExpireApprovals, SweptPending, SweptDisk,
       Sweep, Recorded, SweepOutcomes, Expired
  <1>7. ASSUME NEW t \in Responders, NEW ok \in BOOLEAN, Claim(t, ok)
         PROVE  Counts
    BY <1>7 DEF Claim, ClaimIntent
  <1>8. ASSUME NEW t \in Responders, NEW ok \in BOOLEAN, AuditApproval(t, ok)
         PROVE  Counts
    BY <1>8 DEF AuditApproval
  <1>9. ASSUME NEW t \in Responders, NEW ok \in BOOLEAN, Enqueue(t, ok)
         PROVE  Counts
    BY <1>9 DEF Enqueue, EnqueueDict, HasQueued, HasCommandDispatched
  <1>10. ASSUME NEW t \in Responders, NEW ok \in BOOLEAN, Done(t, ok)
         PROVE  Counts
    BY <1>10 DEF Done, Unlink
  <1>11. ASSUME NEW t \in Handlers, NEW c \in Cmds, NEW o, NEW ok \in BOOLEAN, Reject(t, c, o, ok)
         PROVE  Counts
    BY <1>11 DEF Reject, TakeApproval, ExpireApprovals, SweptPending, SweptDisk, Sweep,
       Recorded, SweepOutcomes, Expired
  <1>12. ASSUME NEW t \in Handlers, NEW ok \in BOOLEAN, RejectAudit(t, ok)
         PROVE  Counts
    BY <1>12 DEF RejectAudit, Recorded
  <1>13. ASSUME NEW t \in Handlers, NEW c \in Cmds, NEW ok \in BOOLEAN, Submit(t, c, ok)
         PROVE  Counts
    BY <1>13 DEF Submit, Recorded, AddApproval, EnqueueDict, HasQueued
  <1>14. ASSUME NEW t \in Handlers, NEW c \in Cmds, Cancel(t, c)
         PROVE  Counts
    BY <1>14 DEF Cancel, budget
  <1>15. ASSUME NEW t \in Handlers, NEW ok \in BOOLEAN, CancelLog(t, ok)
         PROVE  Counts
    BY <1>15 DEF CancelLog, Recorded
  <1>16. ASSUME NEW t \in Handlers, NEW ok \in BOOLEAN, CancelDump(t, ok)
         PROVE  Counts
    BY <1>16 DEF CancelDump
  <1>17. ASSUME NEW t \in Handlers, NEW o, NEW ok \in BOOLEAN, CancelPop(t, o, ok)
         PROVE  Counts
    BY <1>17 DEF CancelPop, TakeApproval, ExpireApprovals, SweptPending, SweptDisk,
       Sweep, Recorded, SweepOutcomes, Expired
  <1>18. ASSUME NEW t \in Handlers, NEW ok \in BOOLEAN, CancelReject(t, ok)
         PROVE  Counts
    BY <1>18 DEF CancelReject, Recorded
  <1>19. ASSUME NEW t \in Handlers, NEW o, NEW ok \in BOOLEAN, Cascade(t, o, ok)
         PROVE  Counts
    BY <1>19 DEF Cascade, CancelMission, SweptPending, SweptDisk, Sweep, Recorded,
       SweepOutcomes, Expired, ChildrenOf
  <1>20. ASSUME NEW t \in Handlers, NEW c \in Cmds, NEW ok \in BOOLEAN, CascadeLog(t, c, ok)
         PROVE  Counts
    BY <1>20 DEF CascadeLog, Recorded
  <1>21. ASSUME NEW o, WorkerSweep(o)
         PROVE  Counts
    BY <1>21 DEF WorkerSweep, ExpireApprovals, SweptPending, SweptDisk, Sweep, Recorded,
       SweepOutcomes, Expired
  <1>22. ASSUME NEW c \in Cmds, NEW ok \in BOOLEAN, DispatchNext(c, ok)
         PROVE  Counts
    BY <1>22 DEF DispatchNext, PopQueued
  <1>23. ASSUME NEW ok \in BOOLEAN, StartRun(ok)
         PROVE  Counts
    BY <1>23 DEF StartRun, Recorded
  <1>24. ASSUME NEW c \in Cmds, NEW e \in {"Completed", "Failed", "none"}, RunEnds(c, e)
         PROVE  Counts
    BY <1>24 DEF RunEnds, Recorded
  <1>25. ASSUME NEW c \in Cmds, Deadline(c)
         PROVE  Counts
    BY <1>25 DEF Deadline, budget
  <1>26. ASSUME Crash
         PROVE  Counts
    BY <1>26
  <1>27. ASSUME LoadQueue
         PROVE  Counts
    BY <1>27 DEF LoadQueue, InitFromDisk, budget
  <1>28. ASSUME RecoverHungCommands
         PROVE  Counts
    BY <1>28 DEF RecoverHungCommands, Recorded, Hung, budget
  <1>29. ASSUME ReconcileTasks
         PROVE  Counts
    BY <1>29 DEF ReconcileTasks, budget
  <1>30. ASSUME ScanIntents
         PROVE  Counts
    BY <1>30 DEF ScanIntents, budget
  <1>31. ASSUME NEW c \in Cmds, ReplayClaimed(c)
         PROVE  Counts
    BY <1>31 DEF ReplayClaimed, budget
  <1>32. ASSUME NEW c \in Cmds, NEW o, ReplayIntent(c, o)
         PROVE  Counts
    BY <1>32 DEF ReplayIntent, ExpireApprovals, SweptPending, SweptDisk, Sweep,
       Recorded, SweepOutcomes, Expired, PeekResult
  <1>33. ASSUME StartWorker
         PROVE  Counts
    BY <1>33 DEF StartWorker, InitFromDisk, budget
  <1> QED
    BY <1>1, <1>2, <1>3, <1>4, <1>5, <1>6, <1>7, <1>8, <1>9, <1>10, <1>11, <1>12, <1>13,
       <1>14, <1>15, <1>16, <1>17, <1>18, <1>19, <1>20, <1>21, <1>22, <1>23, <1>24,
       <1>25, <1>26, <1>27, <1>28, <1>29, <1>30, <1>31, <1>32, <1>33
    DEF Next, HandlerStep, ResponderStep, WorkerStep, RunStep, BootStep, Responders, Threads

-----------------------------------------------------------------------------
(* What is withdrawn or cancelled stays so.                                  *)

\* While the first boot lasts there is nothing for it to replay.
LEMMA NoReplay ==
    ASSUME FirstBoot, crashes = 0, NEW c \in Cmds
    PROVE  ~Replayed(c) /\ (~Up => c \notin queueDisk)
  BY DEF FirstBoot, Replayed, Up

LEMMA WithdrawnStep ==
    ASSUME IInv, FirstBoot, WithdrawnInv, Next
    PROVE  WithdrawnInv'
  <1> SUFFICES ASSUME crashes' = 0, NEW c \in Cmds, consumer'[c] \in {"reject", "cancel"}
               PROVE  c \in created' /\ c \notin pending' /\ Out(c)'
    BY DEF WithdrawnInv
  <1>1. crashes = 0 /\ ~Crash
    BY CountStep DEF Crash, IInv, TypeOK
  <1>2. Grows /\ StoreShrinks
    BY <1>1, StoreStep DEF IInv
  <1>3. ~Replayed(c)
    BY <1>1, NoReplay
  <1>4. c \in created /\ c \notin pending' /\ Out(c)
    <2>1. CASE consumer'[c] = consumer[c]
      BY <1>1, <1>2, <2>1 DEF WithdrawnInv, StoreShrinks
    <2>2. CASE consumer'[c] # consumer[c]
      BY <1>2, <2>2, PendingIsOut DEF StoreShrinks, Leaves
    <2> QED
      BY <2>1, <2>2
  <1>5. Out(c)'
    BY <1>3, <1>4, OutStays DEF Authorised
  <1> QED
    BY <1>2, <1>4, <1>5 DEF Grows

LEMMA LifeStep ==
    ASSUME IInv, LifeInv, Next
    PROVE  LifeInv'
  <1>1. crashes' <= MaxCrashes
    BY CountStep, DeliveryAssumption DEF Crash, IInv, TypeOK, LifeInv
  <1> QED
    BY <1>1, FirstBootStep, WithdrawnStep, RequestStep DEF LifeInv

\* The two situations the refinement is stated for.
Tame == MaxCrashes = 0 \/ Requests \subseteq {"approve"}

LEMMA CancelledStep ==
    ASSUME Tame, IInv, LifeInv, CancelledInv, Next
    PROVE  CancelledInv'
  <1> SUFFICES ASSUME NEW c \in Cmds, Cancelled(c)'
               PROVE  /\ "cancel" \in Requests
                      /\ c \in created' /\ c \notin pending'
                      /\ c \notin queue' /\ ~Starting(c)' /\ "Started" \notin log'[c]
                      /\ \A t \in Responders : ~Carrying(t, c)'
    BY DEF CancelledInv
  <1>1. Fails /\ Grows /\ Moves
    BY FailStep, StoreStep, MoveStep DEF IInv
  <1>2. Cancelled(c) \/ \E t \in Handlers : Cancel(t, c) /\ c \in queue
    BY <1>1 DEF Cancelled, Fails, Grows
  <1>3. CASE Cancelled(c)
    <2>1. /\ "cancel" \in Requests
          /\ c \in created /\ c \notin pending
          /\ c \notin queue /\ ~Starting(c) /\ "Started" \notin log[c]
          /\ \A t \in Responders : ~Carrying(t, c)
      BY <1>3 DEF CancelledInv
    <2>2. crashes = 0 /\ ~Crash
      BY <2>1, DeliveryAssumption DEF Tame, LifeInv, IInv, TypeOK, Crash
    <2>3. ~Replayed(c) /\ (~Up => c \notin queueDisk)
      BY <2>2, NoReplay DEF LifeInv
    <2>4. c \in created' /\ c \notin pending'
      BY <1>1, <2>1, <2>2, StoreStep DEF IInv, Grows, StoreShrinks
    <2>5. c \notin queue' /\ ~Starting(c)' /\ "Started" \notin log'[c]
      BY <1>1, <2>1, <2>3 DEF Fails, Moves
    <2>6. \A t \in Responders : ~Carrying(t, c)'
      BY <1>1, <2>1, <2>3 DEF Moves, Usable
    <2> QED
      BY <2>1, <2>4, <2>5, <2>6
  <1>4. ASSUME NEW t \in Handlers, Cancel(t, c), c \in queue
        PROVE  /\ "cancel" \in Requests
               /\ c \in created' /\ c \notin pending'
               /\ c \notin queue' /\ ~Starting(c)' /\ "Started" \notin log'[c]
               /\ \A u \in Responders : ~Carrying(u, c)'
    <2>1. /\ "cancel" \in Requests /\ c \in created /\ Up
          /\ UNCHANGED <<created, pending, log>> /\ queue' = queue \ {c}
          /\ \A u \in Threads : u # t => pc'[u] = pc[u] /\ arg'[u] = arg[u]
          /\ pc'[t] = "cxlLog"
      BY <1>4 DEF Cancel, storeVars, Goto, GotoFor, IInv, TypeOK, Threads
    <2>2. c \notin pending
      BY <1>4 DEF IInv, ConsumedInv
    <2>3. ~Starting(c) /\ "Started" \notin log[c]
      BY <1>4 DEF IInv, RunInv
    <2>4. \A u \in Responders : ~Carrying(u, c)
      BY <1>4, <2>1 DEF IInv, CarrierInv, Responders, Carrying, Up
    <2>5. ~Starting(c)'
      BY <2>1, <2>3, DeliveryAssumption DEF Starting, Threads
    <2>6. \A u \in Responders : ~Carrying(u, c)'
      BY <2>1, <2>4 DEF Carrying, Responders, Threads
    <2> QED
      BY <2>1, <2>2, <2>3, <2>5, <2>6
  <1> QED
    BY <1>2, <1>3, <1>4

-----------------------------------------------------------------------------
LEMMA RefinementInit ==
    ASSUME Init
    PROVE  LifeInv /\ AccountInv /\ CancelledInv
  <1> USE DeliveryAssumption, CommandsAssumption
      DEF Init, LogInit, StoreInit, LedgerInit, QueueInit, Threads
  <1>1. LifeInv
    BY DEF LifeInv, FirstBoot, HomeLabels, WithdrawnInv, RequestInv, Withdrawing
  <1>2. AccountInv /\ CancelledInv
    BY DEF AccountInv, CancelledInv, Cancelled, At
  <1> QED
    BY <1>1, <1>2

LEMMA RefinementStutter ==
    ASSUME UNCHANGED vars
    PROVE  /\ LifeInv => LifeInv'
           /\ AccountInv => AccountInv'
           /\ CancelledInv => CancelledInv'
  <1> USE DEF vars, storeVars, queueVars, threadVars, budget, historyVars
  <1>1. LifeInv => LifeInv'
    BY DEF LifeInv, FirstBoot, WithdrawnInv, RequestInv, Out, Starting, Carrying, Up
  <1>2. AccountInv => AccountInv'
    BY DEF AccountInv
  <1>3. CancelledInv => CancelledInv'
    BY DEF CancelledInv, Cancelled, At, Starting, Carrying
  <1> QED
    BY <1>1, <1>2, <1>3

\* Within one life of the process.
THEOREM LifeAlways == Spec => [](IInv /\ LifeInv)
  <1>1. IInv /\ LifeInv /\ [Next]_vars => LifeInv'
    BY LifeStep, RefinementStutter
  <1> QED
    BY <1>1, RefinementInit, Invariance, PTL DEF Spec

\* An approval withdrawn by a reject or a cancel, also by the cancel of its
\* mission, is never queued or run while the process lives: an interrupted approve
\* may have left an intent, which only a restart would replay.
THEOREM WithdrawnStaysOut == Spec => [](crashes = 0 => WithdrawnNeverRuns)
  <1>1. IInv /\ LifeInv => (crashes = 0 => WithdrawnNeverRuns)
    BY CommandsAssumption DEF IInv, RunInv, LifeInv, WithdrawnInv, Out, WithdrawnNeverRuns
  <1> QED
    BY <1>1, LifeAlways, PTL

-----------------------------------------------------------------------------
(* The refinement.                                                           *)

\* Outcome read off the log: a command has started when its event is there.
Stage(c) ==
    IF "Started" \in log[c] THEN "started"
    ELSE IF consumer[c] = "approve"
         THEN IF "Failed" \in log[c] THEN "refused" ELSE "granted"
         ELSE IF consumer[c] # "none" THEN "refused"
              ELSE IF c \in created THEN "waiting" ELSE "new"

LEMMA OutcomeIsStage ==
    ASSUME IInv, NEW c \in Cmds
    PROVE  Outcome(c) = Stage(c)
  <1>1. /\ runs[c] = IF "Started" \in log[c] THEN 1 ELSE 0
        /\ consumer[c] \in Consumers
    BY DEF IInv, TypeOK, RunInv
  <1> QED
    BY <1>1 DEF Outcome, Stage, Authorised, Consumers

\* What the step of one command is allowed to be.
Allowed(c) ==
    /\ <<Stage(c), Stage(c)'>> \in Contract!Moves \/ Stage(c)' = Stage(c)
    /\ Stage(c) = "waiting" /\ Stage(c)' = "granted" => c \notin due

\* A command starts only if it was granted.
LEMMA StartsGranted ==
    ASSUME Tame, IInv, SInv, LifeInv, AccountInv, CancelledInv, Next,
           NEW c \in Gated, "Started" \in log'[c], "Started" \notin log[c]
    PROVE  Stage(c) = "granted" /\ consumer'[c] = consumer[c]
  <1>0. c \in Cmds
    BY CommandsAssumption
  <1>1. Starting(c)
    BY <1>0, MoveStep DEF Moves, IInv
  <1>2. c \in created /\ c \notin pending
    BY <1>0, <1>1 DEF IInv, ConsumedInv, KnownInv, ArgKnown, Starting, Threads, HomeLabels
  <1>3. consumer[c] # "none"
    BY <1>2 DEF AccountInv
  <1>4. consumer[c] # "expiry"
    BY <1>0, <1>1 DEF SInv, ExpiryInv, Out
  <1>5. consumer[c] \notin {"reject", "cancel"}
    <2>1. CASE Requests \subseteq {"approve"}
      BY <1>0, <2>1 DEF LifeInv, RequestInv
    <2>2. CASE MaxCrashes = 0
      <3>1. crashes = 0
        BY <2>2 DEF LifeInv, IInv, TypeOK
      <3> QED
        BY <1>0, <1>1, <3>1 DEF LifeInv, WithdrawnInv, Out
    <2> QED
      BY <2>1, <2>2 DEF Tame
  <1>6. "Failed" \notin log[c]
    BY <1>0, <1>1 DEF CancelledInv, Cancelled
  <1>7. consumer'[c] = consumer[c]
    BY <1>0, <1>1, <1>2, StoreStep DEF IInv, StoreShrinks, Leaves, Crash, Mark, AccountInv
  <1> QED
    BY <1>0, <1>3, <1>4, <1>5, <1>6, <1>7 DEF IInv, TypeOK, Consumers, Stage

\* While a command waits it is in the store, and it leaves for one reason.
LEMMA WaitingIsOut ==
    ASSUME IInv, AccountInv, CancelledInv, NEW c \in Gated, consumer[c] = "none"
    PROVE  /\ c \in created <=> c \in pending
           /\ ~Starting(c) /\ "Started" \notin log[c] /\ ~Cancelled(c)
  <1>1. c \in Cmds /\ (c \in created <=> c \in pending)
    BY CommandsAssumption DEF AccountInv, IInv, KnownInv, KnownData
  <1>2. Starting(c) \/ "Started" \in log[c] => c \in created /\ c \notin pending
    BY <1>1 DEF IInv, ConsumedInv, KnownInv, KnownData, ArgKnown, Starting, Threads, HomeLabels
  <1>3. Cancelled(c) => c \in created /\ c \notin pending
    BY <1>1 DEF CancelledInv
  <1> QED
    BY <1>1, <1>2, <1>3

\* A failure is logged for a command that started or was cancelled.
LEMMA FailsCancelled ==
    ASSUME IInv, Next, NEW c \in Cmds, "Failed" \in log'[c], "Started" \notin log'[c]
    PROVE  Cancelled(c)
  <1>1. Fails /\ Grows
    BY FailStep, StoreStep DEF IInv
  <1> QED
    BY <1>1 DEF Fails, Grows, Cancelled

LEMMA StageStep ==
    ASSUME Tame, IInv, IInv', SInv, LifeInv, AccountInv, AccountInv', CancelledInv, Next,
           NEW c \in Gated
    PROVE  Allowed(c)
  <1> USE DEF Contract!Moves
  <1>0. c \in Cmds
    BY CommandsAssumption
  <1>a. Grows /\ consumer[c] \in Consumers /\ consumer'[c] \in Consumers
    BY <1>0, StoreStep DEF IInv, TypeOK
  <1>b. /\ created \subseteq created'
        /\ log[c] \subseteq log'[c]
    BY <1>0, <1>a DEF Grows
  <1>c. c \in created => (~Crash => StoreShrinks)
    BY StoreStep DEF IInv
  <1>1. CASE "Started" \in log'[c] /\ "Started" \notin log[c]
    <2>1. Stage(c) = "granted" /\ Stage(c)' = "started"
      BY <1>1, StartsGranted DEF Stage
    <2> QED
      BY <2>1 DEF Allowed
  <1>2. CASE "Started" \in log[c]
    BY <1>b, <1>2 DEF Allowed, Stage
  <1>3. CASE "Started" \notin log'[c] /\ consumer[c] = "none"
    <2>1. /\ c \in created <=> c \in pending
          /\ "Started" \notin log[c] /\ ~Cancelled(c)
      BY <1>3, WaitingIsOut
    <2>2. Stage(c) = IF c \in created THEN "waiting" ELSE "new"
      BY <1>3, <2>1 DEF Stage
    <2>3. CASE consumer'[c] = "none"
      <3>1. Stage(c)' = IF c \in created' THEN "waiting" ELSE "new"
        BY <1>3, <2>3 DEF Stage
      <3> QED
        BY <1>b, <2>2, <3>1 DEF Allowed
    <2>4. CASE consumer'[c] # "none"
      <3>1. ~Crash
        BY <1>0, <1>3, <2>4 DEF Crash, Mark
      <3>2. Leaves(c)
        BY <1>0, <1>3, <2>4, <3>1, StoreStep DEF IInv, StoreShrinks
      <3>3. Stage(c) = "waiting"
        BY <2>1, <2>2, <3>2 DEF Leaves
      <3>4. CASE consumer'[c] = "approve"
        <4>1. "Failed" \notin log'[c]
          BY <1>0, <1>3, <2>1, FailsCancelled
        <4>2. Stage(c)' = "granted"
          BY <1>3, <3>4, <4>1 DEF Stage
        <4> QED
          BY <3>2, <3>3, <3>4, <4>2 DEF Allowed, Leaves
      <3>5. CASE consumer'[c] # "approve"
        <4>1. Stage(c)' = "refused"
          BY <1>3, <2>4, <3>5 DEF Stage
        <4> QED
          BY <3>3, <4>1 DEF Allowed
      <3> QED
        BY <3>4, <3>5
    <2> QED
      BY <2>3, <2>4
  <1>4. CASE "Started" \notin log'[c] /\ consumer[c] # "none"
    <2>1. c \in created /\ c \notin pending /\ c \notin pendingDisk
      BY <1>0, <1>4 DEF AccountInv
    <2>2. consumer'[c] = consumer[c]
      <3>1. CASE Crash
        BY <1>0, <2>1, <3>1 DEF Crash, Mark
      <3>2. CASE ~Crash
        BY <1>0, <2>1, <3>2, StoreStep DEF IInv, StoreShrinks, Leaves
      <3> QED
        BY <3>1, <3>2
    <2>3. "Started" \notin log[c]
      BY <1>b, <1>4
    <2>4. CASE consumer[c] = "approve"
      <3>1. /\ Stage(c) = IF "Failed" \in log[c] THEN "refused" ELSE "granted"
            /\ Stage(c)' = IF "Failed" \in log'[c] THEN "refused" ELSE "granted"
        BY <1>4, <2>2, <2>3, <2>4 DEF Stage
      <3> QED
        BY <1>b, <3>1 DEF Allowed
    <2>5. CASE consumer[c] # "approve"
      <3>1. Stage(c) = "refused" /\ Stage(c)' = "refused"
        BY <1>4, <2>2, <2>3, <2>5 DEF Stage
      <3> QED
        BY <3>1 DEF Allowed
    <2> QED
      BY <2>4, <2>5
  <1> QED
    BY <1>1, <1>2, <1>3, <1>4

\* A step of the bridge is a move of the contract, the passing of a deadline, or
\* a stutter.
LEMMA ContractStep ==
    ASSUME Tame, IInv, IInv', SInv, LifeInv, AccountInv, AccountInv', CancelledInv, [Next]_vars
    PROVE  [Contract!Next]_<<[c \in Gated |-> Outcome(c)], due \cap Gated>>
  <1> DEFINE state == [c \in Gated |-> Outcome(c)]
             state2 == [c \in Gated |-> Outcome(c)']
             overdue == due \cap Gated
  <1>0. state' = state2
    OBVIOUS
  <1>a. \A c \in Gated : Outcome(c) = Stage(c) /\ Outcome(c)' = Stage(c)'
    <2>1. \A c \in Cmds : Outcome(c)' = Stage(c)'
      BY DEF IInv, TypeOK, RunInv, Consumers, Outcome, Stage, Authorised
    <2> QED
      BY <2>1, OutcomeIsStage, CommandsAssumption
  <1>1. CASE UNCHANGED vars
    <2>1. overdue' = overdue /\ \A c \in Gated : Outcome(c)' = Outcome(c)
      BY <1>1 DEF vars, storeVars, historyVars, Outcome, Authorised
    <2> QED
      BY <1>0, <2>1
  <1>2. CASE Next /\ due' = due
    <2>1. \A c \in Gated : Allowed(c)
      BY <1>2, StageStep
    <2>2. Contract!Move
      BY <1>2, <1>0, <1>a, <2>1 DEF Allowed, Contract!Move
    <2> QED
      BY <2>2 DEF Contract!Next
  <1>3. ASSUME NEW c \in Cmds, Deadline(c)
        PROVE  Contract!Next
    <2>1. /\ c \in Gated /\ c \in created
          /\ overdue' = overdue \cup {c}
          /\ \A d \in Gated : Outcome(d)' = Outcome(d)
      BY <1>3 DEF Deadline, historyVars, Outcome, Authorised
    <2>2. Outcome(c) # "new"
      BY <1>a, <2>1 DEF Stage
    <2>3. Contract!TimePasses(c)
      BY <1>0, <2>1, <2>2 DEF Contract!TimePasses
    <2> QED
      BY <2>1, <2>3 DEF Contract!Next
  <1> QED
    BY <1>1, <1>2, <1>3, ClockStep

\* What the contract's theorem is proved from, in every reachable state.
LEMMA ContractInvariance ==
    ASSUME Tame, MaxFaults = 0
    PROVE  Spec => [](IInv /\ SInv /\ LifeInv /\ AccountInv /\ CancelledInv)
  <1>1. IInv /\ LifeInv /\ AccountInv /\ CancelledInv /\ [Next]_vars
            => AccountInv' /\ CancelledInv'
    BY AccountStep, CancelledStep, RefinementStutter
  <1> QED
    BY <1>1, RefinementInit, Safety, LifeAlways, PTL DEF Spec

\* The protocol implements the contract of the approval gate, as long as no write
\* fails and, where requests may refuse, the process does not crash: a command is
\* granted before its deadline or refused, only a granted one starts, and nothing
\* that was refused or has started moves again.
THEOREM Refinement ==
    ASSUME Tame, MaxFaults = 0
    PROVE  Spec => ImplementsContract
  <1>1. Init => Contract!Init
    <2>1. Init => \A c \in Gated : Outcome(c) = "new"
      BY CommandsAssumption DEF Init, LogInit, Outcome, Authorised
    <2> QED
      BY <2>1 DEF Init, StoreInit, Contract!Init
  <1>2. /\ IInv /\ SInv /\ LifeInv /\ AccountInv /\ CancelledInv
        /\ (IInv /\ SInv /\ LifeInv /\ AccountInv /\ CancelledInv)'
        /\ [Next]_vars
        => [Contract!Next]_<<[c \in Gated |-> Outcome(c)], due \cap Gated>>
    BY ContractStep
  <1> QED
    BY <1>1, <1>2, ContractInvariance, PTL DEF Spec, ImplementsContract, Contract!Spec
=============================================================================
