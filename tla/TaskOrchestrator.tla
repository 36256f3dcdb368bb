-------------------------- MODULE TaskOrchestrator --------------------------
(***************************************************************************)
(* server/task_orchestrator.py for one issue, with the files it drives     *)
(* (state.json and the sentinel of workspace_issue.py, checkpoint.py) and  *)
(* the start-up reconciliation of task_recovery.py.                        *)
(*                                                                         *)
(* run_task holds the lock of its task throughout, so one call is in       *)
(* progress at a time: pc, resumed, step, fails and out are its locals.    *)
(* cancel_task takes no such lock, and an agent or a person may write the  *)
(* sentinel file at any time.  A step is one durable write or one read     *)
(* that decides.                                                           *)
(***************************************************************************)
EXTENDS Naturals

CONSTANTS
    N,              \* steps of the plan
    MaxFailures,    \* MAX_CONSECUTIVE_FAILURES
    Enabled,        \* answers checkpoints_enabled may give
    Cancellers,     \* request threads in cancel_task
    MaxFaults, MaxCrashes

ASSUME TaskAssumption ==
    /\ N \in Nat \ {0}
    /\ MaxFailures \in Nat \ {0}
    /\ Enabled \subseteq BOOLEAN
    /\ MaxFaults \in Nat
    /\ MaxCrashes \in Nat

VARIABLES
    phase, gate,    \* state.json: phase and checkpointGate
    sentinel,       \* .repociv/status
    ckpt,           \* checkpoint file: stepIndex + 1, or 0 without a file
    reg,            \* phase in the in-memory registry
    pc, resumed, step, fails, out,
    cpc,            \* per thread in cancel_task
    faults, crashes,
    saved,          \* history: steps that succeeded and were checkpointed
    attempted,      \* history: steps that were begun
    orphaned,       \* history: this start-up found the task interrupted
    reviewed        \* history: a person cleared the sentinel since the task set it

disk == <<phase, gate, sentinel, ckpt>>
locals == <<resumed, step, fails, out>>
budget == <<faults, crashes>>
history == <<saved, attempted, orphaned, reviewed>>
vars == <<disk, reg, pc, locals, cpc, budget, history>>

Terminal == {"complete", "failed", "cancelled"}
Phases == Terminal \cup {"none", "init", "spec", "planned", "executing", "blocked",
                         "circuit_open", "failed_by_validation"}
Gates == {"post-diagnose", "post-plan", "post-fix", "post-validation"}
Blocking == {"blocked", "needs-human-review"}

\* Labels before and inside the try block of run_task.
Entry == {"recovered", "gateCheck", "gateClear", "gateResume", "a2o", "a2oBlock", "register"}
InTry == {"spec", "sentinel", "gateOn", "plan", "dispatch", "resume", "loop",
          "stepBlock", "cancelCheck", "forget", "execute", "trip", "validate",
          "invalid", "invalidSentinel", "reviewOn", "reviewSentinel",
          "complete", "clear", "doneSentinel"}
Labels == Entry \cup InTry \cup {"idle", "running", "save", "fail", "publish"}

TypeOK ==
    /\ phase \in Phases
    /\ gate \in Gates \cup {"none"}
    /\ sentinel \in Blocking \cup {"none", "done"}
    /\ ckpt \in 0..N
    /\ reg \in Phases \cup {"absent", "interrupted"}
    /\ pc \in Labels
    /\ resumed \in Gates \cup {"none"}
    /\ step \in 0..N
    /\ fails \in 0..MaxFailures
    /\ out \in Phases \cup Gates
    /\ cpc \in [Cancellers -> {"idle", "patch", "registry"}]
    /\ faults \in Nat
    /\ crashes \in Nat
    /\ saved \subseteq 0..(N - 1)
    /\ attempted \subseteq 0..(N - 1)
    /\ orphaned \in BOOLEAN
    /\ reviewed \in BOOLEAN

Init ==
    /\ phase = "none" /\ gate = "none" /\ sentinel = "none" /\ ckpt = 0
    /\ reg = "absent"
    /\ pc = "idle" /\ resumed = "none" /\ step = 0 /\ fails = 0 /\ out = "none"
    /\ cpc = [c \in Cancellers |-> "idle"]
    /\ faults = 0 /\ crashes = 0
    /\ saved = {} /\ attempted = {} /\ orphaned = FALSE /\ reviewed = FALSE

-----------------------------------------------------------------------------
\* The call returns or raises, and the lock is released.
Leave ==
    /\ pc' = "idle"
    /\ resumed' = "none" /\ step' = 0 /\ fails' = 0 /\ out' = "none"

Goto(l) == pc' = l /\ UNCHANGED locals

\* The call ends after it has put phase p in the registry.
Report(p) == pc' = "publish" /\ out' = p /\ UNCHANGED <<resumed, step, fails>>

\* The call pauses at gate g for a person.
AskReview(g) == pc' = "sentinel" /\ out' = g /\ UNCHANGED <<resumed, step, fails>>

Fault == faults < MaxFaults /\ faults' = faults + 1

\* patch_issue_state of the phase alone.
Patch(p) == phase' = p /\ UNCHANGED <<gate, sentinel, ckpt>>

-----------------------------------------------------------------------------
(* run_task up to its try block.                                           *)

\* Take the lock, load or create state.json; a terminal task returns at once.
\* (A gate is set only while blocked: GateMeansBlocked.)
Load ==
    /\ pc = "idle"
    /\ Patch(IF phase = "none" THEN "init" ELSE phase)
    /\ IF phase \in Terminal THEN Report(phase)
       ELSE /\ pc' = "recovered"
            /\ resumed' = gate
            /\ UNCHANGED <<step, fails, out>>
    /\ UNCHANGED <<reg, cpc, budget, history>>

\* A task that start-up found interrupted is not run.
Recovered ==
    /\ pc = "recovered"
    /\ IF reg = "interrupted" THEN Leave
       ELSE Goto(IF resumed # "none" THEN "gateCheck" ELSE "a2o")
    /\ UNCHANGED <<disk, reg, cpc, budget, history>>

GateCheck ==
    /\ pc = "gateCheck"
    /\ IF sentinel \in Blocking THEN Report("blocked") ELSE Goto("gateClear")
    /\ UNCHANGED <<disk, reg, cpc, budget, history>>

GateClear ==
    /\ pc = "gateClear"
    /\ sentinel' = "none"
    /\ Goto("gateResume")
    /\ UNCHANGED <<phase, gate, ckpt, reg, cpc, budget, history>>

GateResume ==
    /\ pc = "gateResume"
    /\ phase' = "executing" /\ gate' = "none"
    /\ Goto("register")
    /\ UNCHANGED <<sentinel, ckpt, reg, cpc, budget, history>>

SentinelCheck ==
    /\ pc = "a2o"
    /\ Goto(IF sentinel \in Blocking THEN "a2oBlock" ELSE "register")
    /\ UNCHANGED <<disk, reg, cpc, budget, history>>

\* Blocked by the sentinel, at the start or between two steps.
Block ==
    /\ pc \in {"a2oBlock", "stepBlock"}
    /\ Patch("blocked")
    /\ Report("blocked")
    /\ UNCHANGED <<reg, cpc, budget, history>>

\* In flight: from here on a gate that was passed decides what is skipped.
Register ==
    /\ pc = "register"
    /\ reg' = "executing"
    /\ pc' = CASE resumed = "post-diagnose" -> "plan"
               [] resumed = "post-plan" -> "dispatch"
               [] resumed = "post-fix" -> "loop"
               [] OTHER -> "spec"
    /\ step' = IF resumed = "post-fix" THEN N ELSE 0
    /\ UNCHANGED <<disk, resumed, fails, out, cpc, budget, history>>

-----------------------------------------------------------------------------
(* spec, plan, dispatch and their gates.                                   *)

ReadSpec(valid, gated) ==
    /\ pc = "spec"
    /\ IF valid
       THEN /\ Patch("spec")
            /\ IF gated THEN AskReview("post-diagnose") ELSE Goto("plan")
       ELSE Goto("fail") /\ UNCHANGED disk
    /\ UNCHANGED <<reg, cpc, budget, history>>

Plan(gated) ==
    /\ pc = "plan"
    /\ Patch("planned")
    /\ IF gated THEN AskReview("post-plan") ELSE Goto("dispatch")
    /\ UNCHANGED <<reg, cpc, budget, history>>

WriteSentinel ==
    /\ pc = "sentinel"
    /\ sentinel' = "needs-human-review" /\ reviewed' = FALSE
    /\ Goto("gateOn")
    /\ UNCHANGED <<phase, gate, ckpt, reg, cpc, budget, saved, attempted, orphaned>>

GateOn ==
    /\ pc = "gateOn"
    /\ phase' = "blocked" /\ gate' = out
    /\ Report("blocked")
    /\ UNCHANGED <<sentinel, ckpt, reg, cpc, budget, history>>

Dispatch ==
    /\ pc = "dispatch"
    /\ Patch("executing")
    /\ Goto("resume")
    /\ UNCHANGED <<reg, cpc, budget, history>>

\* Slip of FirstStep: the checkpointed step itself is taken for the next.
CheckpointedStep == IF ckpt = 0 THEN 0 ELSE ckpt - 1

FirstStep == ckpt

ResumeFrom ==
    /\ pc = "resume"
    /\ step' = FirstStep
    /\ pc' = "loop"
    /\ UNCHANGED <<disk, reg, resumed, fails, out, cpc, budget, history>>

-----------------------------------------------------------------------------
(* The step loop.                                                          *)

\* Slip of StepsLeft: the last step is missed.
AllButLast == step < N - 1

StepsLeft == step < N

LoopHead(gated) ==
    /\ pc = "loop"
    /\ IF StepsLeft
       THEN Goto(IF sentinel \in Blocking THEN "stepBlock" ELSE "cancelCheck")
       ELSE IF gated /\ resumed # "post-fix" THEN AskReview("post-fix")
       ELSE Goto("validate")
    /\ UNCHANGED <<disk, reg, cpc, budget, history>>

CancelCheck ==
    /\ pc = "cancelCheck"
    /\ Goto(IF phase = "cancelled" THEN "forget" ELSE "execute")
    /\ UNCHANGED <<disk, reg, cpc, budget, history>>

Forget ==
    /\ pc = "forget"
    /\ ckpt' = 0
    /\ Report("cancelled")
    /\ UNCHANGED <<phase, gate, sentinel, reg, cpc, budget, history>>

Execute ==
    /\ pc = "execute"
    /\ attempted' = attempted \cup {step}
    /\ Goto("running")
    /\ UNCHANGED <<disk, reg, cpc, budget, saved, orphaned, reviewed>>

\* A failing step is counted and passed over, until too many fail in a row.
AfterFailure(count) ==
    /\ fails' = count
    /\ IF count >= MaxFailures THEN pc' = "trip" /\ UNCHANGED step
       ELSE pc' = "loop" /\ step' = step + 1
    /\ UNCHANGED <<resumed, out>>

StepRan(ok) ==
    /\ pc = "running"
    /\ IF ok THEN Goto("save") ELSE AfterFailure(fails + 1)
    /\ UNCHANGED <<disk, reg, cpc, budget, history>>

CheckpointAfter == step + 1

\* The failure count is reset before the checkpoint; a write that raises makes
\* the step a failed one although it ran.
SaveCheckpoint(ok) ==
    /\ pc = "save"
    /\ IF ok
       THEN /\ ckpt' = CheckpointAfter
            /\ saved' = saved \cup {step}
            /\ fails' = 0 /\ step' = step + 1 /\ pc' = "loop"
            /\ UNCHANGED <<resumed, out, faults>>
       ELSE AfterFailure(1) /\ Fault /\ UNCHANGED <<ckpt, saved>>
    /\ UNCHANGED <<phase, gate, sentinel, reg, cpc, crashes, attempted, orphaned, reviewed>>

Trip ==
    /\ pc = "trip"
    /\ Patch("circuit_open")
    /\ Report("circuit_open")
    /\ UNCHANGED <<reg, cpc, budget, history>>

-----------------------------------------------------------------------------
(* Validation and the end of the call.                                     *)

Validate(verdict) ==
    /\ pc = "validate"
    /\ Goto(CASE verdict = "pass" -> "complete"
              [] verdict = "fail" -> "invalid"
              [] OTHER -> "reviewOn")
    /\ UNCHANGED <<disk, reg, cpc, budget, history>>

Invalid ==
    /\ pc = "invalid"
    /\ Patch("failed_by_validation")
    /\ Goto("invalidSentinel")
    /\ UNCHANGED <<reg, cpc, budget, history>>

InvalidSentinel ==
    /\ pc = "invalidSentinel"
    /\ sentinel' = "blocked" /\ reviewed' = FALSE
    /\ Report("failed_by_validation")
    /\ UNCHANGED <<phase, gate, ckpt, reg, cpc, budget, saved, attempted, orphaned>>

\* Here the gate is set before the sentinel, unlike GateOn.
ReviewOn ==
    /\ pc = "reviewOn"
    /\ phase' = "blocked" /\ gate' = "post-validation"
    /\ Goto("reviewSentinel")
    /\ UNCHANGED <<sentinel, ckpt, reg, cpc, budget, history>>

ReviewSentinel ==
    /\ pc = "reviewSentinel"
    /\ sentinel' = "needs-human-review" /\ reviewed' = FALSE
    /\ Report("blocked")
    /\ UNCHANGED <<phase, gate, ckpt, reg, cpc, budget, saved, attempted, orphaned>>

Complete ==
    /\ pc = "complete"
    /\ Patch("complete")
    /\ Goto("clear")
    /\ UNCHANGED <<reg, cpc, budget, history>>

DeleteCheckpoint ==
    /\ pc = "clear"
    /\ ckpt' = 0
    /\ Goto("doneSentinel")
    /\ UNCHANGED <<phase, gate, sentinel, reg, cpc, budget, history>>

DoneSentinel ==
    /\ pc = "doneSentinel"
    /\ sentinel' = "done"
    /\ Report("complete")
    /\ UNCHANGED <<phase, gate, ckpt, reg, cpc, budget, history>>

\* A write raises: the except clause, unless it is not reached or raises itself.  At
\* "save" the clause of the step takes it (SaveCheckpoint); if the error artifact that
\* clause writes raises as well, that is the Raise of the next label.
Raise ==
    /\ Fault
    /\ \/ pc \in InTry \cup {"running"} /\ Goto("fail")
       \/ pc \in Entry \cup {"fail"} /\ Leave
    /\ UNCHANGED <<disk, reg, cpc, crashes, history>>

Fail ==
    /\ pc = "fail"
    /\ Patch("failed")
    /\ Report("failed")
    /\ UNCHANGED <<reg, cpc, budget, history>>

Publish ==
    /\ pc = "publish"
    /\ reg' = out
    /\ Leave
    /\ UNCHANGED <<disk, cpc, budget, history>>

-----------------------------------------------------------------------------
(* cancel_task, without the lock of the task.                              *)

CancelLoad(c) ==
    /\ cpc[c] = "idle"
    /\ phase \notin Terminal \cup {"none"}
    /\ cpc' = [cpc EXCEPT ![c] = "patch"]
    /\ UNCHANGED <<disk, reg, pc, locals, budget, history>>

\* The operator has settled an interrupted task by cancelling it.
CancelPatch(c, ok) ==
    /\ cpc[c] = "patch"
    /\ IF ok
       THEN /\ Patch("cancelled")
            /\ orphaned' = FALSE
            /\ cpc' = [cpc EXCEPT ![c] = "registry"]
            /\ UNCHANGED faults
       ELSE /\ Fault
            /\ cpc' = [cpc EXCEPT ![c] = "idle"]
            /\ UNCHANGED <<disk, orphaned>>
    /\ UNCHANGED <<reg, pc, locals, crashes, saved, attempted, reviewed>>

CancelRegistry(c) ==
    /\ cpc[c] = "registry"
    /\ reg' = "cancelled"
    /\ cpc' = [cpc EXCEPT ![c] = "idle"]
    /\ UNCHANGED <<disk, pc, locals, budget, history>>

-----------------------------------------------------------------------------
\* An agent, of the running step or left over from an earlier one, blocks the task,
\* whatever the orchestrator has just read.
AgentBlocks ==
    /\ sentinel' = "blocked"
    /\ UNCHANGED <<phase, gate, ckpt, reg, pc, locals, cpc, budget, history>>

\* A person has looked and clears the sentinel.
PersonClears ==
    /\ sentinel \in Blocking
    /\ sentinel' = "none" /\ reviewed' = TRUE
    /\ UNCHANGED <<phase, gate, ckpt, reg, pc, locals, cpc, budget, saved, attempted, orphaned>>

\* build_recovery_view: what start-up registers for a persisted phase.
RecoveryPhase(p) ==
    IF p \in Terminal \cup {"none", "failed_by_validation"} THEN "absent"
    ELSE IF p \in {"blocked", "circuit_open"} THEN p ELSE "interrupted"

\* The process dies and starts again; main goes on when reconciliation raises.
Restart(ok) ==
    /\ crashes < MaxCrashes /\ crashes' = crashes + 1
    /\ IF ok THEN UNCHANGED faults ELSE Fault
    /\ reg' = IF ok THEN RecoveryPhase(phase) ELSE "absent"
    /\ orphaned' = (ok /\ phase \in {"init", "spec", "planned", "executing"})
    /\ Leave
    /\ cpc' = [c \in Cancellers |-> "idle"]
    /\ UNCHANGED <<disk, saved, attempted, reviewed>>

-----------------------------------------------------------------------------
RunStep ==
    \/ Load \/ Recovered \/ GateCheck \/ GateClear \/ GateResume \/ SentinelCheck
    \/ Block \/ Register \/ WriteSentinel \/ GateOn \/ Dispatch \/ ResumeFrom
    \/ \E valid \in BOOLEAN, gated \in Enabled : ReadSpec(valid, gated)
    \/ \E gated \in Enabled : Plan(gated) \/ LoopHead(gated)
    \/ CancelCheck \/ Forget \/ Execute
    \/ \E ok \in BOOLEAN : StepRan(ok) \/ SaveCheckpoint(ok)
    \/ Trip
    \/ \E verdict \in {"pass", "fail", "needs-human-review"} : Validate(verdict)
    \/ Invalid \/ InvalidSentinel \/ ReviewOn \/ ReviewSentinel
    \/ Complete \/ DeleteCheckpoint \/ DoneSentinel \/ Raise \/ Fail \/ Publish

CancelStep(c) ==
    CancelLoad(c) \/ CancelRegistry(c) \/ \E ok \in BOOLEAN : CancelPatch(c, ok)

Next ==
    \/ RunStep
    \/ \E c \in Cancellers : CancelStep(c)
    \/ AgentBlocks \/ PersonClears
    \/ \E ok \in BOOLEAN : Restart(ok)

Spec == Init /\ [][Next]_vars

-----------------------------------------------------------------------------
(* Properties.                                                             *)

Begins == pc # "running" /\ pc' = "running"

\* "a task reconciled as interrupted at startup never re-runs on its own"
\* (task_orchestrator.py:226): no step begins until an operator has cancelled it.
InterruptedNeverReruns == [][Begins => ~orphaned]_vars

\* A step that succeeded and was checkpointed is never begun again, over gates,
\* failing steps, circuit breaks, cancels and restarts.
NoStepRepeats == [][Begins => step \notin saved]_vars

\* A task is complete only when every step of its plan was begun at some time,
\* in whichever of the calls that brought it there.
AllStepsAttempted == phase = "complete" => attempted = 0..(N - 1)

\* A call passes a gate of the plan only if a person cleared the sentinel after the
\* gate had set it.  (Not so for post-validation, which sets gate before sentinel.)
GatesAreReviewed ==
    [][gate' # gate => gate \in {"none", "post-validation"} \/ reviewed]_vars

\* Of a task that can still run, a gate is recorded only while it is blocked.
GateMeansBlocked == gate # "none" /\ phase \notin Terminal => phase = "blocked"

\* Whatever calls, gates, failures and restarts brought a task where it is, its
\* steps are accounted for (task_orchestrator.py, checkpoint.py).
StepsAccounted == TypeOK /\ AllStepsAttempted /\ GateMeansBlocked

\* No call goes on where it may not: not after a restart nobody looked at, not
\* with a step that is done, not past a gate nobody reviewed
\* (task_orchestrator.py, checkpoint.py).
NothingIsRepeated == InterruptedNeverReruns /\ NoStepRepeats /\ GatesAreReviewed

-----------------------------------------------------------------------------
(* Claims of the code that it does not keep.                               *)

\* "Human cleared the sentinel" (task_orchestrator.py:257): what the resumed call
\* clears is no block that nobody looked at.  One that an agent writes between the
\* check of the gate and the unlink is erased.
BlocksStand == [][pc = "gateClear" => sentinel \notin Blocking]_vars

\* "already terminal" (task_orchestrator.py:883): a cancelled task stays so.
CancelledIsTerminal == [][phase = "cancelled" => phase' = "cancelled"]_vars
=============================================================================
