--------------------------- MODULE SchedulerProofs ---------------------------
(***************************************************************************)
(* Proofs about Scheduler, for every set of commands, agents and request   *)
(* threads, every limit, and any bound on failing writes and restarts.     *)
(***************************************************************************)
EXTENDS Scheduler, FiniteSetTheorems, TLAPS

(***************************************************************************)
(* The inductive invariant behind SlotsHold.                               *)
(*                                                                         *)
(* ConcurrencyBounded is not inductive: it says nothing of the slots, and  *)
(* a dispatch that finds a slot free may start a run too many.  The slots  *)
(* of an agent are at least the runs it has and the one it is about to     *)
(* have, and exactly those until a write fails.  StartedNotInFile needs    *)
(* that the command between the pop and its event is in no list either,    *)
(* and cannot be enqueued again because its id was submitted.              *)
(***************************************************************************)
Starting(c) == pc[Worker] = "starting" /\ arg[Worker] = c

\* What the slots of an agent are taken for.
Held(b) == {c \in Cmds : BaseOf[c] = b /\ (c \in running \/ Starting(c))}

\* Where each thread can be.
ControlInv ==
    /\ pc[Worker] \in {"idle", "sorting", "starting"}
    /\ pc[Worker] = "starting" => arg[Worker] \in Cmds
    /\ \A t \in Handlers : pc[t] \in {"idle", "sorting", "cxlLog", "cxlDump"}
    /\ \A t \in Handlers : pc[t] \in {"cxlLog", "cxlDump"} => arg[t] \in Cmds

\* What was queued, or is about to start, was submitted.
KnownInv ==
    /\ queue \cup queueDisk \subseteq submitted
    /\ \A c \in Cmds : Starting(c) => c \in submitted

\* A command is in a list, about to start, or started; of these, one.
PlaceInv ==
    /\ StartedNotInFile
    /\ \A c \in Cmds : Starting(c) => c \notin queue \cup queueDisk /\ "Started" \notin log[c]
    /\ \A c \in running : "Started" \in log[c]

SlotInv ==
    \A b \in Bases :
        /\ IsFiniteSet(Held(b))
        /\ Cardinality(Held(b)) <= leases[b]
        /\ leases[b] <= Limit[b]
        /\ faults = 0 => leases[b] = Cardinality(Held(b))

IInv == TypeOK /\ ControlInv /\ KnownInv /\ PlaceInv /\ SlotInv

-----------------------------------------------------------------------------
(* A fresh installation satisfies the invariant.                           *)

LEMMA InitIInv ==
    ASSUME Init
    PROVE  IInv
  <1> USE SchedulerAssumption
  <1>1. TypeOK
    BY DEF Init, TypeOK, LogInit, QueueInit, LogTypeOK, QueueTypeOK, EventTypes
  <1>2. ControlInv /\ KnownInv /\ PlaceInv
    BY DEF Init, ControlInv, KnownInv, PlaceInv, StartedNotInFile, LogInit, QueueInit,
       Starting, Threads
  <1>3. ASSUME NEW b \in Bases
        PROVE  Held(b) = {}
    BY DEF Init, Held, Starting, Threads
  <1>4. IsFiniteSet({}) /\ Cardinality({}) = 0
    BY FS_EmptySet
  <1>5. \A b \in Bases : leases[b] = 0 /\ 0 <= Limit[b]
    BY DEF Init
  <1>6. SlotInv
    BY <1>3, <1>4, <1>5 DEF SlotInv
  <1> QED
    BY <1>1, <1>2, <1>6 DEF IInv

-----------------------------------------------------------------------------
(* Every step keeps the types.                                             *)

LEMMA RecordedTypes ==
    ASSUME LogTypeOK, NEW C, NEW e \in EventTypes
    PROVE  Recorded(C, e) \in [Cmds -> SUBSET EventTypes]
  BY DEF LogTypeOK, Recorded

LEMMA GotoTypes ==
    ASSUME pc \in [Threads -> {"idle", "sorting", "starting", "cxlLog", "cxlDump"}],
           arg \in [Threads -> Cmds \cup {NoCmd}],
           NEW t, NEW l \in {"idle", "sorting", "starting", "cxlLog", "cxlDump"},
           NEW c \in Cmds \cup {NoCmd}, Goto(t, l, c)
    PROVE  /\ pc' \in [Threads -> {"idle", "sorting", "starting", "cxlLog", "cxlDump"}]
           /\ arg' \in [Threads -> Cmds \cup {NoCmd}]
  BY DEF Goto

LEMMA IoTypes ==
    ASSUME faults \in Nat, NEW ok, Io(ok)
    PROVE  faults' \in Nat
  BY DEF Io

LEMMA SlotTypes ==
    ASSUME leases \in [Bases -> Nat], NEW b \in Bases
    PROVE  Acquired(b) \in [Bases -> Nat] /\ Released(b) \in [Bases -> Nat]
  <1>1. Acquired(b) \in [Bases -> Nat]
    BY DEF Acquired
  <1>2. \A x \in Nat : (IF x = 0 THEN 0 ELSE x - 1) \in Nat
    OBVIOUS
  <1>3. Released(b) \in [Bases -> Nat]
    BY <1>2 DEF Released
  <1> QED
    BY <1>1, <1>3

LEMMA TypeStep ==
    ASSUME TypeOK, ControlInv, Next
    PROVE  TypeOK'
  <1> USE SchedulerAssumption
  <1>t. \A t \in Handlers : t \in Threads
    BY DEF Threads
  <1>w. Worker \in Threads
    BY DEF Threads
  <1>1. ASSUME NEW t \in Handlers, NEW c \in Cmds, EnqueueAppend(t, c)
        PROVE  TypeOK'
    BY <1>1, <1>t, GotoTypes DEF EnqueueAppend, TypeOK, LogTypeOK, QueueTypeOK, budget
  <1>2. ASSUME NEW t \in Handlers, NEW ok \in BOOLEAN, EnqueueDump(t, ok)
        PROVE  TypeOK'
    <2>1. /\ pc' \in [Threads -> {"idle", "sorting", "starting", "cxlLog", "cxlDump"}]
          /\ arg' \in [Threads -> Cmds \cup {NoCmd}]
      BY <1>2, GotoTypes DEF EnqueueDump, TypeOK
    <2>2. faults' \in Nat
      BY <1>2, IoTypes DEF EnqueueDump, TypeOK
    <2> QED
      BY <1>2, <2>1, <2>2 DEF EnqueueDump, TypeOK, LogTypeOK, QueueTypeOK
  <1>3. ASSUME NEW t \in Handlers, NEW c \in Cmds, CancelRemove(t, c)
        PROVE  TypeOK'
    BY <1>3, GotoTypes DEF CancelRemove, TypeOK, LogTypeOK, QueueTypeOK, budget
  <1>4. ASSUME NEW t \in Handlers, NEW ok \in BOOLEAN, CancelLog(t, ok)
        PROVE  TypeOK'
    <2>1. LogTypeOK'
      BY <1>4, RecordedTypes DEF CancelLog, TypeOK, LogTypeOK, EventTypes
    <2>2. /\ pc' \in [Threads -> {"idle", "sorting", "starting", "cxlLog", "cxlDump"}]
          /\ arg' \in [Threads -> Cmds \cup {NoCmd}]
      BY <1>4, <1>t, GotoTypes DEF CancelLog, TypeOK
    <2> QED
      BY <1>4, <2>1, <2>2 DEF CancelLog, Io, TypeOK, QueueTypeOK, queueVars
  <1>5. ASSUME NEW t \in Handlers, NEW ok \in BOOLEAN, CancelDump(t, ok)
        PROVE  TypeOK'
    <2>1. /\ pc' \in [Threads -> {"idle", "sorting", "starting", "cxlLog", "cxlDump"}]
          /\ arg' \in [Threads -> Cmds \cup {NoCmd}]
      BY <1>5, GotoTypes DEF CancelDump, TypeOK
    <2>2. faults' \in Nat
      BY <1>5, IoTypes DEF CancelDump, TypeOK
    <2> QED
      BY <1>5, <2>1, <2>2 DEF CancelDump, TypeOK, LogTypeOK, QueueTypeOK
  <1>6. ASSUME DispatchSort
        PROVE  TypeOK'
    BY <1>6, <1>w, GotoTypes DEF DispatchSort, TypeOK, LogTypeOK, QueueTypeOK, queueVars, budget
  <1>7. ASSUME DispatchNone
        PROVE  TypeOK'
    BY <1>7, GotoTypes DEF DispatchNone, TypeOK, LogTypeOK, QueueTypeOK, queueVars, budget
  <1>8. ASSUME NEW c \in Cmds, NEW ok \in BOOLEAN, DispatchPop(c, ok)
        PROVE  TypeOK'
    <2>1. leases' \in [Bases -> Nat]
      BY <1>8, SlotTypes DEF DispatchPop, TypeOK
    <2>2. /\ pc' \in [Threads -> {"idle", "sorting", "starting", "cxlLog", "cxlDump"}]
          /\ arg' \in [Threads -> Cmds \cup {NoCmd}]
      BY <1>8, GotoTypes DEF DispatchPop, TypeOK
    <2> QED
      BY <1>8, <2>1, <2>2 DEF DispatchPop, PopQueued, Io, TypeOK, LogTypeOK, QueueTypeOK
  <1>9. ASSUME NEW ok \in BOOLEAN, StartRun(ok)
        PROVE  TypeOK'
    <2>1. LogTypeOK'
      BY <1>9, RecordedTypes DEF StartRun, TypeOK, LogTypeOK, EventTypes
    <2>2. arg[Worker] \in Cmds
      BY <1>9 DEF StartRun, ControlInv
    <2>3. running' \subseteq Cmds /\ runs' \in [Cmds -> Nat]
      BY <1>9, <2>2 DEF StartRun, TypeOK
    <2>4. /\ pc' \in [Threads -> {"idle", "sorting", "starting", "cxlLog", "cxlDump"}]
          /\ arg' \in [Threads -> Cmds \cup {NoCmd}]
      BY <1>9, GotoTypes DEF StartRun, TypeOK
    <2>5. faults' \in Nat
      BY <1>9, IoTypes DEF StartRun, TypeOK
    <2> QED
      BY <1>9, <2>1, <2>3, <2>4, <2>5 DEF StartRun, TypeOK, QueueTypeOK, queueVars
  <1>10. ASSUME NEW c \in Cmds, NEW e \in {"Completed", "Failed", "none"}, RunEnds(c, e)
         PROVE  TypeOK'
    <2>1. leases' \in [Bases -> Nat]
      BY <1>10, SlotTypes DEF RunEnds, TypeOK
    <2>2. LogTypeOK'
      BY <1>10, RecordedTypes DEF RunEnds, TypeOK, LogTypeOK, EventTypes
    <2> QED
      BY <1>10, <2>1, <2>2 DEF RunEnds, TypeOK, QueueTypeOK, queueVars, budget
  <1>11. ASSUME Restart
         PROVE  TypeOK'
    <2>1. LogTypeOK'
      BY <1>11, RecordedTypes DEF Restart, TypeOK, LogTypeOK, EventTypes
    <2> QED
      BY <1>11, <2>1 DEF Restart, TypeOK, QueueTypeOK
  <1> QED
    BY <1>1, <1>2, <1>3, <1>4, <1>5, <1>6, <1>7, <1>8, <1>9, <1>10, <1>11
    DEF Next, HandlerStep, WorkerStep, RunStep

-----------------------------------------------------------------------------
(* Where threads and commands are.                                         *)

LEMMA ControlStep ==
    ASSUME TypeOK, ControlInv, Next
    PROVE  ControlInv'
  <1> USE SchedulerAssumption
  <1>1. ASSUME NEW t \in Handlers, HandlerStep(t)
        PROVE  ControlInv'
    BY <1>1 DEF HandlerStep, EnqueueAppend, EnqueueDump, CancelRemove, CancelLog, CancelDump,
       Goto, TypeOK, ControlInv, Threads
  <1>2. ASSUME WorkerStep
        PROVE  ControlInv'
    <2>1. ASSUME NEW c \in Cmds, NEW ok \in BOOLEAN, DispatchPop(c, ok)
          PROVE  ControlInv'
      BY <2>1 DEF DispatchPop, Goto, TypeOK, ControlInv, Threads
    <2>2. CASE DispatchSort \/ DispatchNone \/ \E ok \in BOOLEAN : StartRun(ok)
      BY <2>2 DEF DispatchSort, DispatchNone, StartRun, Goto, TypeOK, ControlInv, Threads
    <2> QED
      BY <1>2, <2>1, <2>2 DEF WorkerStep
  <1>3. ASSUME (\E b \in Bases : RunStep(b)) \/ Restart
        PROVE  ControlInv'
    BY <1>3 DEF RunStep, RunEnds, Restart, TypeOK, ControlInv, Threads
  <1> QED
    BY <1>1, <1>2, <1>3 DEF Next

\* What a request thread does is nothing to the worker's position.
LEMMA WorkerStays ==
    ASSUME TypeOK, NEW t \in Handlers, HandlerStep(t)
    PROVE  \A c \in Cmds : Starting(c)' <=> Starting(c)
  <1>1. t # Worker /\ Worker \in Threads
    BY SchedulerAssumption DEF Threads
  <1>2. UNCHANGED <<pc, arg>> \/ \E l, c : Goto(t, l, c)
    BY DEF HandlerStep, EnqueueAppend, EnqueueDump, CancelRemove, CancelLog, CancelDump
  <1>3. pc'[Worker] = pc[Worker] /\ arg'[Worker] = arg[Worker]
    BY <1>1, <1>2 DEF Goto, TypeOK
  <1> QED
    BY <1>3 DEF Starting

LEMMA KnownStep ==
    ASSUME TypeOK, ControlInv, KnownInv, Next
    PROVE  KnownInv'
  <1> USE SchedulerAssumption
  <1>1. ASSUME NEW t \in Handlers, HandlerStep(t)
        PROVE  KnownInv'
    <2>1. \A c \in Cmds : Starting(c)' <=> Starting(c)
      BY <1>1, WorkerStays
    <2>2. submitted \subseteq submitted' /\ queue' \cup queueDisk' \subseteq submitted'
      BY <1>1 DEF HandlerStep, EnqueueAppend, EnqueueDump, CancelRemove, CancelLog, CancelDump,
         KnownInv, queueVars
    <2> QED
      BY <2>1, <2>2 DEF KnownInv
  <1>2. ASSUME DispatchSort \/ DispatchNone \/ (\E ok \in BOOLEAN : StartRun(ok))
        PROVE  KnownInv'
    BY <1>2 DEF DispatchSort, DispatchNone, StartRun, Goto, Starting, KnownInv, TypeOK, queueVars, Threads
  <1>3. ASSUME NEW c \in Cmds, NEW ok \in BOOLEAN, DispatchPop(c, ok)
        PROVE  KnownInv'
    BY <1>3 DEF DispatchPop, PopQueued, Goto, Starting, KnownInv, TypeOK, Threads
  <1>4. ASSUME (\E b \in Bases : RunStep(b)) \/ Restart
        PROVE  KnownInv'
    BY <1>4 DEF RunStep, RunEnds, Restart, Starting, KnownInv, queueVars, Threads
  <1> QED
    BY <1>1, <1>2, <1>3, <1>4 DEF Next, WorkerStep

\* A step that starts nothing, queues nothing that was started or is about to
\* start, and sends no command to start, keeps the places apart.
LEMMA PlaceKept ==
    ASSUME PlaceInv,
           \A c \in Cmds : "Started" \in log'[c] => "Started" \in log[c],
           \A c \in running' : c \in running /\ "Started" \in log'[c],
           \A c \in Cmds : Starting(c)' => Starting(c),
           \A c \in Cmds : c \in queue' \cup queueDisk' =>
                c \in queue \cup queueDisk \/ ("Started" \notin log[c] /\ ~Starting(c))
    PROVE  PlaceInv'
  BY DEF PlaceInv, StartedNotInFile

LEMMA PlaceStep ==
    ASSUME TypeOK, ControlInv, KnownInv, PlaceInv, Next
    PROVE  PlaceInv'
  <1> USE SchedulerAssumption
  <1>r. running \subseteq Cmds
    BY DEF TypeOK
  <1>1. ASSUME NEW t \in Handlers, NEW c \in Cmds, EnqueueAppend(t, c)
        PROVE  PlaceInv'
    <2>1. log' = log /\ running' = running /\ \A d \in Cmds : Starting(d)' <=> Starting(d)
      BY <1>1, WorkerStays DEF HandlerStep, EnqueueAppend
    <2>2. \A d \in Cmds : d \in queue' \cup queueDisk' =>
             d \in queue \cup queueDisk \/ ("Started" \notin log[d] /\ ~Starting(d))
      BY <1>1 DEF EnqueueAppend, HasQueued, HasCommandDispatched, KnownInv
    <2> QED
      BY <2>1, <2>2, PlaceKept DEF PlaceInv
  <1>2. ASSUME NEW t \in Handlers, NEW ok \in BOOLEAN,
               EnqueueDump(t, ok) \/ CancelDump(t, ok) \/ \E c \in Cmds : CancelRemove(t, c)
        PROVE  PlaceInv'
    <2>1. log' = log /\ running' = running /\ \A d \in Cmds : Starting(d)' <=> Starting(d)
      BY <1>2, WorkerStays DEF HandlerStep, EnqueueDump, CancelDump, CancelRemove
    <2>2. queue' \cup queueDisk' \subseteq queue \cup queueDisk
      BY <1>2 DEF EnqueueDump, CancelDump, CancelRemove
    <2> QED
      BY <2>1, <2>2, PlaceKept DEF PlaceInv
  <1>3. ASSUME NEW t \in Handlers, NEW ok \in BOOLEAN, CancelLog(t, ok)
        PROVE  PlaceInv'
    <2>1. /\ \A d \in Cmds : "Started" \in log'[d] <=> "Started" \in log[d]
          /\ running' = running /\ \A d \in Cmds : Starting(d)' <=> Starting(d)
      BY <1>3, WorkerStays DEF HandlerStep, CancelLog, Recorded, TypeOK, LogTypeOK
    <2>2. queue' = queue /\ queueDisk' = queueDisk
      BY <1>3 DEF CancelLog, queueVars
    <2> QED
      BY <1>r, <2>1, <2>2, PlaceKept DEF PlaceInv
  <1>4. ASSUME DispatchSort \/ DispatchNone
        PROVE  PlaceInv'
    <2>1. UNCHANGED <<log, queue, queueDisk, running>> /\ \A d \in Cmds : Starting(d)' => Starting(d)
      BY <1>4 DEF DispatchSort, DispatchNone, Goto, Starting, TypeOK, queueVars
    <2> QED
      BY <1>r, <2>1, PlaceKept DEF PlaceInv
  <1>5. ASSUME NEW c \in Cmds, NEW ok \in BOOLEAN, DispatchPop(c, ok)
        PROVE  PlaceInv'
    <2>1. log' = log /\ running' = running /\ c \in queue /\ queue' = queue \ {c}
      BY <1>5 DEF DispatchPop, PopQueued
    <2>2. queueDisk' \subseteq queue \cup queueDisk /\ (ok => c \notin queueDisk')
      BY <1>5 DEF DispatchPop, PopQueued
    <2>3. \A d \in Cmds : Starting(d)' => ok /\ d = c
      BY <1>5 DEF DispatchPop, Goto, Starting, TypeOK, Threads
    <2> QED
      BY <1>r, <2>1, <2>2, <2>3 DEF PlaceInv, StartedNotInFile
  <1>6. ASSUME NEW ok \in BOOLEAN, StartRun(ok)
        PROVE  PlaceInv'
    <2> DEFINE c == arg[Worker]
    <2>1. c \in Cmds /\ Starting(c)
      BY <1>6 DEF StartRun, ControlInv, Starting
    <2>2. UNCHANGED <<queue, queueDisk>> /\ \A d \in Cmds : ~Starting(d)'
      BY <1>6 DEF StartRun, Goto, Starting, TypeOK, queueVars, Threads
    <2>3. /\ \A d \in Cmds : "Started" \in log[d] => "Started" \in log'[d]
          /\ \A d \in Cmds : "Started" \in log'[d] => "Started" \in log[d] \/ d = c
          /\ \A d \in running' : d \in running \/ (d = c /\ "Started" \in log'[d])
      BY <1>6, <2>1 DEF StartRun, Recorded, TypeOK, LogTypeOK
    <2> QED
      BY <1>r, <2>1, <2>2, <2>3 DEF PlaceInv, StartedNotInFile
  <1>7. ASSUME NEW c \in Cmds, NEW e \in {"Completed", "Failed", "none"}, RunEnds(c, e)
        PROVE  PlaceInv'
    <2>1. \A d \in Cmds : "Started" \in log'[d] <=> "Started" \in log[d]
      BY <1>7 DEF RunEnds, Recorded, TypeOK, LogTypeOK
    <2>2. /\ UNCHANGED <<queue, queueDisk>> /\ running' \subseteq running
          /\ \A d \in Cmds : Starting(d)' <=> Starting(d)
      BY <1>7 DEF RunEnds, Starting, queueVars
    <2> QED
      BY <1>r, <2>1, <2>2, PlaceKept DEF PlaceInv
  <1>8. ASSUME Restart
        PROVE  PlaceInv'
    <2>1. \A d \in Cmds : "Started" \in log'[d] <=> "Started" \in log[d]
      BY <1>8 DEF Restart, Recorded, TypeOK, LogTypeOK
    <2>2. /\ queue' \cup queueDisk' \subseteq queue \cup queueDisk /\ running' = {}
          /\ \A d \in Cmds : ~Starting(d)'
      BY <1>8 DEF Restart, Starting, Threads
    <2> QED
      BY <2>1, <2>2, PlaceKept DEF PlaceInv
  <1> QED
    BY <1>1, <1>2, <1>3, <1>4, <1>5, <1>6, <1>7, <1>8
    DEF Next, HandlerStep, WorkerStep, RunStep

-----------------------------------------------------------------------------
(* Slots.                                                                  *)

\* A step that takes no slot, gives none back and neither starts nor ends a run.
LEMMA SlotsKept ==
    ASSUME SlotInv, UNCHANGED <<leases, running>>, faults' = 0 => faults = 0,
           \A c \in Cmds : Starting(c)' <=> Starting(c)
    PROVE  SlotInv'
  <1>1. \A b \in Bases : Held(b)' = Held(b)
    BY DEF Held
  <1> QED
    BY <1>1 DEF SlotInv

\* A command that is popped is not among those its agent has slots for.
LEMMA PoppedIsNew ==
    ASSUME TypeOK, PlaceInv, NEW c \in queue
    PROVE  c \notin running /\ ~Starting(c)
  BY DEF TypeOK, QueueTypeOK, PlaceInv, StartedNotInFile

LEMMA SlotStep ==
    ASSUME TypeOK, ControlInv, PlaceInv, SlotInv, Next
    PROVE  SlotInv'
  <1> USE SchedulerAssumption
  <1>f. \A b \in Bases : leases[b] \in Nat /\ Limit[b] \in Nat
    BY DEF TypeOK
  <1>c. \A b \in Bases : Cardinality(Held(b)) \in Nat
    BY FS_CardinalityType DEF SlotInv
  <1>1. ASSUME NEW t \in Handlers, HandlerStep(t)
        PROVE  SlotInv'
    <2>1. UNCHANGED <<leases, running>>
      BY <1>1 DEF HandlerStep, EnqueueAppend, EnqueueDump, CancelRemove, CancelLog, CancelDump
    <2>2. faults' = 0 => faults = 0
      BY <1>1 DEF HandlerStep, EnqueueAppend, EnqueueDump, CancelRemove, CancelLog, CancelDump,
         Io, budget, TypeOK
    <2> QED
      BY <1>1, <2>1, <2>2, WorkerStays, SlotsKept
  <1>2. ASSUME DispatchSort \/ DispatchNone
        PROVE  SlotInv'
    <2>1. UNCHANGED <<leases, running, faults>> /\ \A c \in Cmds : Starting(c)' <=> Starting(c)
      BY <1>2 DEF DispatchSort, DispatchNone, Goto, Starting, TypeOK, Threads, budget
    <2> QED
      BY <2>1, SlotsKept
  <1>3. ASSUME NEW c \in Cmds, NEW ok \in BOOLEAN, DispatchPop(c, ok)
        PROVE  SlotInv'
    <2> DEFINE B == BaseOf[c]
    <2>1. /\ B \in Bases /\ leases[B] < Limit[B] /\ running' = running
          /\ leases' = [leases EXCEPT ![B] = @ + 1]
      BY <1>3 DEF DispatchPop, SlotFree, Acquired
    <2>2. \A b \in Bases : leases'[b] = IF b = B THEN leases[b] + 1 ELSE leases[b]
      BY <2>1 DEF TypeOK
    <2>3. c \notin running /\ ~Starting(c)
      BY <1>3, PoppedIsNew DEF DispatchPop, PopQueued
    <2>4. \A d \in Cmds : ~Starting(d) /\ (Starting(d)' <=> ok /\ d = c)
      BY <1>3 DEF DispatchPop, Goto, Starting, TypeOK, Threads
    <2>5. \A b \in Bases : Held(b)' = IF ok /\ b = B THEN Held(b) \cup {c} ELSE Held(b)
      BY <2>1, <2>4 DEF Held
    <2>6. c \notin Held(B)
      BY <2>3 DEF Held
    <2>7. (faults' = 0 => ok /\ faults = 0)
      BY <1>3 DEF DispatchPop, Io, TypeOK
    <2>8. ASSUME NEW b \in Bases, b # B \/ ~ok
          PROVE  /\ IsFiniteSet(Held(b)') /\ Cardinality(Held(b)') <= leases'[b]
                 /\ leases'[b] <= Limit[b]
                 /\ faults' = 0 => leases'[b] = Cardinality(Held(b)')
      <3>1. /\ IsFiniteSet(Held(b)) /\ Cardinality(Held(b)) <= leases[b] /\ leases[b] <= Limit[b]
            /\ faults = 0 => leases[b] = Cardinality(Held(b))
        BY DEF SlotInv
      <3>2. Held(b)' = Held(b)
        BY <2>5, <2>8
      <3> QED
        BY <3>1, <3>2, <2>1, <2>2, <2>7, <2>8, <1>f, <1>c
    <2>9. ASSUME ok
          PROVE  /\ IsFiniteSet(Held(B)') /\ Cardinality(Held(B)') <= leases'[B]
                 /\ leases'[B] <= Limit[B]
                 /\ faults' = 0 => leases'[B] = Cardinality(Held(B)')
      <3>1. /\ IsFiniteSet(Held(B)) /\ Cardinality(Held(B)) <= leases[B]
            /\ faults = 0 => leases[B] = Cardinality(Held(B))
        BY <2>1 DEF SlotInv
      <3>2. IsFiniteSet(Held(B) \cup {c}) /\ Cardinality(Held(B) \cup {c}) = Cardinality(Held(B)) + 1
        BY <2>6, <3>1, FS_AddElement
      <3>3. Held(B)' = Held(B) \cup {c}
        BY <2>1, <2>5, <2>9
      <3> QED
        BY <3>1, <3>2, <3>3, <2>1, <2>2, <2>7, <1>f, <1>c
    <2> QED
      BY <2>8, <2>9 DEF SlotInv
  <1>4. ASSUME NEW ok \in BOOLEAN, StartRun(ok)
        PROVE  SlotInv'
    <2> DEFINE c == arg[Worker]
    <2>1. c \in Cmds /\ Starting(c) /\ \A d \in Cmds : Starting(d) => d = c
      BY <1>4 DEF StartRun, ControlInv, Starting
    <2>2. leases' = leases /\ \A d \in Cmds : ~Starting(d)'
      BY <1>4 DEF StartRun, Goto, Starting, TypeOK, Threads
    <2>3. running' = (IF ok THEN running \cup {c} ELSE running) /\ (faults' = 0 => ok /\ faults = 0)
      BY <1>4 DEF StartRun, Io, TypeOK
    <2>4. \A b \in Bases : Held(b)' \subseteq Held(b) /\ (ok => Held(b)' = Held(b))
      BY <2>1, <2>2, <2>3 DEF Held
    <2>5. ASSUME NEW b \in Bases
          PROVE  /\ IsFiniteSet(Held(b)') /\ Cardinality(Held(b)') <= leases'[b]
                 /\ leases'[b] <= Limit[b]
                 /\ faults' = 0 => leases'[b] = Cardinality(Held(b)')
      <3>1. /\ IsFiniteSet(Held(b)) /\ Cardinality(Held(b)) <= leases[b] /\ leases[b] <= Limit[b]
            /\ faults = 0 => leases[b] = Cardinality(Held(b))
        BY DEF SlotInv
      <3>2. IsFiniteSet(Held(b)') /\ Cardinality(Held(b)') <= Cardinality(Held(b))
        BY <3>1, <2>4, FS_Subset
      <3>3. Cardinality(Held(b)') \in Nat
        BY <3>2, FS_CardinalityType
      <3>4. faults' = 0 => leases'[b] = Cardinality(Held(b)')
        BY <3>1, <2>2, <2>3, <2>4
      <3> QED
        BY <3>1, <3>2, <3>3, <3>4, <2>2, <1>f, <1>c
    <2> QED
      BY <2>5 DEF SlotInv
  <1>5. ASSUME NEW c \in Cmds, NEW e \in {"Completed", "Failed", "none"}, RunEnds(c, e)
        PROVE  SlotInv'
    <2> DEFINE B == BaseOf[c]
    <2>1. /\ B \in Bases /\ c \in running /\ running' = running \ {c} /\ faults' = faults
          /\ leases' = [leases EXCEPT ![B] = IF @ = 0 THEN 0 ELSE @ - 1]
      BY <1>5 DEF RunEnds, Released, budget
    <2>2. ~Starting(c) /\ \A d \in Cmds : Starting(d)' <=> Starting(d)
      BY <1>5 DEF RunEnds, Starting, PlaceInv
    <2>3. \A b \in Bases : Held(b)' = IF b = B THEN Held(b) \ {c} ELSE Held(b)
      BY <2>1, <2>2 DEF Held
    <2>4. c \in Held(B)
      BY <2>1 DEF Held
    <2>5. ASSUME NEW b \in Bases
          PROVE  /\ IsFiniteSet(Held(b)') /\ Cardinality(Held(b)') <= leases'[b]
                 /\ leases'[b] <= Limit[b]
                 /\ faults' = 0 => leases'[b] = Cardinality(Held(b)')
      <3>1. /\ IsFiniteSet(Held(b)) /\ Cardinality(Held(b)) <= leases[b] /\ leases[b] <= Limit[b]
            /\ faults = 0 => leases[b] = Cardinality(Held(b))
        BY DEF SlotInv
      <3>2. CASE b # B
        <4>1. Held(b)' = Held(b) /\ leases'[b] = leases[b]
          BY <2>1, <2>3, <3>2 DEF TypeOK
        <4> QED
          BY <3>1, <4>1, <2>1
      <3>3. CASE b = B
        <4>1. /\ IsFiniteSet(Held(b) \ {c})
              /\ Cardinality(Held(b) \ {c}) = Cardinality(Held(b)) - 1
          BY <2>4, <3>1, <3>3, FS_RemoveElement
        <4>2. Held(b)' = Held(b) \ {c} /\ leases'[b] = IF leases[b] = 0 THEN 0 ELSE leases[b] - 1
          BY <2>1, <2>3, <3>3 DEF TypeOK
        <4>3. Cardinality(Held(b) \ {c}) \in Nat
          BY <4>1, FS_CardinalityType
        <4> QED
          BY <3>1, <4>1, <4>2, <4>3, <2>1, <1>f, <1>c
      <3> QED
        BY <3>2, <3>3
    <2> QED
      BY <2>5 DEF SlotInv
  <1>6. ASSUME Restart
        PROVE  SlotInv'
    <2>1. \A b \in Bases : Held(b)' = {} /\ leases'[b] = 0
      BY <1>6 DEF Restart, Held, Starting, Threads
    <2>2. IsFiniteSet({}) /\ Cardinality({}) = 0
      BY FS_EmptySet
    <2>3. ASSUME NEW b \in Bases
          PROVE  /\ IsFiniteSet(Held(b)') /\ Cardinality(Held(b)') <= leases'[b]
                 /\ leases'[b] <= Limit[b]
                 /\ faults' = 0 => leases'[b] = Cardinality(Held(b)')
      <3>1. Held(b)' = {} /\ leases'[b] = 0 /\ Limit[b] \in Nat
        BY <2>1, <1>f
      <3>2. IsFiniteSet(Held(b)') /\ Cardinality(Held(b)') = 0
        BY <3>1, <2>2
      <3> QED
        BY <3>1, <3>2
    <2> QED
      BY <2>3 DEF SlotInv
  <1> QED
    BY <1>1, <1>2, <1>3, <1>4, <1>5, <1>6 DEF Next, WorkerStep, RunStep

-----------------------------------------------------------------------------
(* The theorems.                                                           *)

LEMMA Stuttering ==
    ASSUME IInv, UNCHANGED vars
    PROVE  IInv'
  BY DEF IInv, vars, TypeOK, LogTypeOK, QueueTypeOK, ControlInv, KnownInv, PlaceInv,
     StartedNotInFile, SlotInv, Held, Starting, queueVars, budget

\* IInv is an invariant: requests, the worker, the runs, writes that fail and
\* restarts all keep it.
THEOREM Invariance == Spec => []IInv
  <1>1. IInv /\ [Next]_vars => IInv'
    BY TypeStep, ControlStep, KnownStep, PlaceStep, SlotStep, Stuttering DEF IInv
  <1> QED
    BY <1>1, InitIInv, PTL DEF Spec

\* The runs of an agent are among the things its slots are taken for.
LEMMA RunsAreHeld ==
    ASSUME TypeOK, SlotInv, NEW b \in Bases
    PROVE  /\ Cardinality(RunsOf(b)) <= Limit[b]
           /\ Held(b) = RunsOf(b) \cup {c \in Cmds : pc[Worker] = "starting" /\ arg[Worker] = c /\ BaseOf[c] = b}
  <1>1. RunsOf(b) \subseteq Held(b)
    BY DEF RunsOf, Held, TypeOK
  <1>2. IsFiniteSet(Held(b)) /\ Cardinality(Held(b)) <= leases[b] /\ leases[b] <= Limit[b]
    BY DEF SlotInv
  <1>3. IsFiniteSet(RunsOf(b)) /\ Cardinality(RunsOf(b)) <= Cardinality(Held(b))
    BY <1>1, <1>2, FS_Subset
  <1>4. /\ Cardinality(RunsOf(b)) \in Nat /\ Cardinality(Held(b)) \in Nat
        /\ leases[b] \in Nat /\ Limit[b] \in Nat
    BY <1>2, <1>3, FS_CardinalityType, SchedulerAssumption DEF TypeOK
  <1>5. Cardinality(RunsOf(b)) <= Limit[b]
    BY <1>2, <1>3, <1>4
  <1>6. Held(b) = RunsOf(b) \cup {c \in Cmds : pc[Worker] = "starting" /\ arg[Worker] = c /\ BaseOf[c] = b}
    BY DEF RunsOf, Held, Starting, TypeOK
  <1> QED
    BY <1>5, <1>6

\* Whatever raises, is cancelled or restarts: no agent has more runs than its
\* limit, its slots are those of its runs until a write fails, and no list holds
\* a command that was started (scheduler.py, _try_acquire_slot, _release_slot).
THEOREM SlotsAlwaysHold == Spec => []SlotsHold
  <1>1. IInv => SlotsHold
    <2> SUFFICES ASSUME IInv PROVE SlotsHold
      OBVIOUS
    <2>1. ConcurrencyBounded
      BY RunsAreHeld DEF IInv, ConcurrencyBounded
    <2>2. SlotsMatchRuns
      BY RunsAreHeld DEF IInv, SlotInv, SlotsMatchRuns
    <2> QED
      BY <2>1, <2>2 DEF IInv, PlaceInv, SlotsHold
  <1> QED
    BY <1>1, Invariance, PTL
=============================================================================
