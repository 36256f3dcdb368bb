---------------------------- MODULE TaskProofs -----------------------------
(***************************************************************************)
(* Theorems about TaskOrchestrator: a plan of any length, any failure      *)
(* limit, any number of threads that cancel, of failing writes and of      *)
(* crashes.                                                                *)
(***************************************************************************)
EXTENDS TaskOrchestrator, TLAPS

(***************************************************************************)
(* The inductive invariant of TaskOrchestrator.                            *)
(***************************************************************************)
Resuming == {"recovered", "gateCheck", "gateClear", "gateResume"}
Stepping == {"cancelCheck", "execute", "running", "save"}
Closing == {"validate", "invalid", "invalidSentinel", "reviewOn", "reviewSentinel",
            "complete", "clear", "doneSentinel"}

\* A call past the head of the loop has a step of the plan in hand; what it
\* reports or pauses at fits where it is.
LocalInv ==
    /\ pc \in Stepping => step < N
    /\ pc \in {"sentinel", "gateOn"} => out \in Gates \ {"post-validation"}
    /\ pc = "publish" => out \in Phases
    /\ fails = MaxFailures => pc \in {"trip", "fail", "publish"}

\* Until an operator acts, the registry says interrupted and no call gets past
\* the check of it.
OrphanInv ==
    orphaned =>
        /\ reg = "interrupted"
        /\ pc \in {"idle", "recovered"}
        /\ phase \notin Terminal \cup {"none"}
        /\ \A c \in Cancellers : cpc[c] # "registry"

\* Checkpointed steps are below the checkpoint and the call works above it; the
\* checkpoint is deleted only when the task can never run again.
Closed == phase \in Terminal /\ pc \in {"idle", "publish", "doneSentinel", "fail"}

SavedInv ==
    /\ saved \subseteq 0..(ckpt - 1) \/ Closed
    /\ pc \in Stepping \cup {"loop"} => ckpt <= step
    /\ pc = "forget" => phase = "cancelled"
    /\ pc \in {"clear", "doneSentinel"} => phase \in Terminal

\* Whatever a checkpoint, the step loop or the gate after it skips was begun.
AttemptInv ==
    /\ 0..(ckpt - 1) \subseteq attempted
    /\ pc \in Stepping \cup {"loop"} => 0..(step - 1) \subseteq attempted
    /\ pc \in {"running", "save"} => step \in attempted
    /\ \/ gate = "post-fix"
       \/ resumed = "post-fix"
       \/ pc \in {"sentinel", "gateOn"} /\ out = "post-fix"
       \/ pc \in Closing
       \/ phase = "complete"
       => attempted = 0..(N - 1)

\* A gate is set while the task is blocked; only the call that passes it, after
\* a person has cleared the sentinel, removes it.
GateInv ==
    /\ gate # "none" => phase \in {"blocked", "cancelled", "failed"}
    /\ pc \in Resuming => gate = resumed
    /\ pc \in {"gateCheck", "gateClear", "gateResume"} => resumed # "none"
    /\ pc \in InTry \ {"reviewSentinel"} => gate = "none"
    /\ pc \in {"a2o", "a2oBlock", "register", "running", "save"} => gate = "none"
    /\ gate \in Gates \ {"post-validation"} => sentinel \in Blocking \/ reviewed
    /\ pc \in {"gateClear", "gateResume"} /\ resumed # "post-validation" => reviewed
    /\ pc = "gateOn" => sentinel \in Blocking \/ reviewed

IInv == TypeOK /\ LocalInv /\ OrphanInv /\ SavedInv /\ AttemptInv /\ GateInv

---------------------------------------------------------------------------
\* Adding the step in hand to the checkpointed ones.
LEMMA SavedBelow ==
  ASSUME NEW S, NEW k \in Nat, NEW s \in Nat, S \subseteq 0..(k - 1), k <= s
  PROVE  S \cup {s} \subseteq 0..((s + 1) - 1)
OBVIOUS

\* With the step in hand begun, everything below the next one is.
LEMMA BegunBelow ==
  ASSUME NEW S, NEW s \in Nat, 0..(s - 1) \subseteq S, s \in S
  PROVE  0..((s + 1) - 1) \subseteq S
OBVIOUS

-----------------------------------------------------------------------------
\* The invariant holds before the first call.
LEMMA InitIInv == Init => IInv
<1> SUFFICES ASSUME Init PROVE IInv
  OBVIOUS
<1> USE TaskAssumption DEF Init, Labels, Entry, InTry, Phases, Terminal, Gates, Blocking
<1>1. ~orphaned /\ orphaned \in BOOLEAN /\ reviewed \in BOOLEAN
  BY Zenon
<1>2. TypeOK
  BY <1>1 DEF TypeOK
<1>3. LocalInv /\ OrphanInv
  BY <1>1 DEF LocalInv, OrphanInv, Stepping
<1>4. SavedInv /\ AttemptInv /\ GateInv
  BY DEF SavedInv, AttemptInv, GateInv, Stepping, Closing, Closed, Resuming
<1> QED
  BY <1>2, <1>3, <1>4 DEF IInv

\* Every step of run_task, cancel_task, the agent, the person and a restart
\* keeps it.
LEMMA StepIInv == IInv /\ [Next]_vars => IInv'
<1> SUFFICES ASSUME IInv, [Next]_vars PROVE IInv'
  OBVIOUS
<1> USE TaskAssumption
    DEF IInv, TypeOK, LocalInv, OrphanInv, SavedInv, AttemptInv, GateInv,
        Stepping, Closing, Closed, Resuming, Labels, Entry, InTry, Phases, Terminal, Gates, Blocking,
        vars, disk, locals, budget, history
<1>1. CASE Load
  BY <1>1 DEF Load, Patch, Report
<1>2. CASE Recovered
  BY <1>2 DEF Recovered, Leave, Goto
<1>3. CASE GateCheck
  BY <1>3 DEF GateCheck, Report, Goto
<1>4. CASE GateClear
  BY <1>4 DEF GateClear, Goto
<1>5. CASE GateResume
  BY <1>5 DEF GateResume, Goto
<1>6. CASE SentinelCheck
  BY <1>6 DEF SentinelCheck, Goto
<1>7. CASE Block
  BY <1>7 DEF Block, Patch, Report
<1>8. CASE Register
  BY <1>8 DEF Register
<1>9. ASSUME NEW valid \in BOOLEAN, NEW gated \in Enabled, ReadSpec(valid, gated) PROVE IInv'
  BY <1>9 DEF ReadSpec, Patch, Goto, AskReview
<1>10. ASSUME NEW gated \in Enabled, Plan(gated) PROVE IInv'
  BY <1>10 DEF Plan, Patch, Goto, AskReview
<1>11. CASE WriteSentinel
  <2>1. reviewed' \in BOOLEAN /\ orphaned' \in BOOLEAN
    BY <1>11, Zenon DEF WriteSentinel
  <2>2. TypeOK'
    BY <1>11, <2>1 DEF WriteSentinel, Goto
  <2>3. LocalInv' /\ OrphanInv' /\ SavedInv' /\ AttemptInv'
    BY <1>11 DEF WriteSentinel, Goto
  <2>4. GateInv'
    BY <1>11 DEF WriteSentinel, Goto
  <2> QED
    BY <2>2, <2>3, <2>4
<1>12. CASE GateOn
  BY <1>12 DEF GateOn, Report
<1>13. CASE Dispatch
  BY <1>13 DEF Dispatch, Patch, Goto
<1>14. CASE ResumeFrom
  BY <1>14 DEF ResumeFrom, FirstStep
<1>15. ASSUME NEW gated \in Enabled, LoopHead(gated) PROVE IInv'
  <2>1. step = N /\ pc = "loop" => attempted = 0..(N - 1)
    OBVIOUS
  <2> QED
    BY <1>15, <2>1 DEF LoopHead, Goto, AskReview, StepsLeft
<1>16. CASE CancelCheck
  BY <1>16 DEF CancelCheck, Goto
<1>17. CASE Forget
  BY <1>17 DEF Forget, Report
<1>18. CASE Execute
  BY <1>18 DEF Execute, Goto
<1>19. ASSUME NEW ok \in BOOLEAN, StepRan(ok) PROVE IInv'
  BY <1>19 DEF StepRan, Goto, AfterFailure
<1>20. ASSUME NEW ok \in BOOLEAN, SaveCheckpoint(ok) PROVE IInv'
  <2>0. /\ pc = "save" /\ step \in Nat /\ ckpt \in Nat /\ ckpt <= step
        /\ saved \subseteq 0..(ckpt - 1)
        /\ 0..(step - 1) \subseteq attempted /\ step \in attempted
    BY <1>20 DEF SaveCheckpoint
  <2>3. /\ saved \cup {step} \subseteq 0..((step + 1) - 1)
        /\ 0..((step + 1) - 1) \subseteq attempted
    BY ONLY <2>0, SavedBelow, BegunBelow
  <2>1. CASE ok
    <3>1. /\ UNCHANGED <<phase, gate, sentinel, reg, resumed, out, cpc, budget>>
          /\ UNCHANGED <<attempted, orphaned, reviewed>>
          /\ fails' = 0 /\ pc' = "loop" /\ step' = step + 1
          /\ ckpt' = step + 1 /\ saved' = saved \cup {step}
      BY <1>20, <2>1 DEF SaveCheckpoint, CheckpointAfter
    <3>2. ckpt' \in 0..N /\ step' \in 0..N /\ saved' \subseteq 0..(N - 1)
      BY <2>0, <3>1
    <3>3. TypeOK' /\ LocalInv'
      BY <2>0, <3>1, <3>2
    <3>4. SavedInv' /\ AttemptInv'
      BY <2>0, <2>3, <3>1, <3>2
    <3>5. OrphanInv' /\ GateInv'
      BY <2>0, <3>1, <3>2
    <3> QED
      BY <3>3, <3>4, <3>5
  <2>2. CASE ~ok
    <3>1. /\ UNCHANGED <<disk, reg, resumed, out, cpc, crashes, history>>
          /\ faults' = faults + 1 /\ fails' = 1
          /\ \/ pc' = "trip" /\ step' = step
             \/ MaxFailures # 1 /\ pc' = "loop" /\ step' = step + 1
      BY <1>20, <2>2 DEF SaveCheckpoint, AfterFailure, Fault
    <3>2. step' \in 0..N /\ fails' \in 0..MaxFailures
      BY <2>0, <3>1
    <3>3. TypeOK' /\ LocalInv'
      BY <2>0, <3>1, <3>2
    <3>4. ckpt' <= step' /\ saved' \subseteq 0..(ckpt' - 1)
      BY <2>0, <3>1
    <3>6. SavedInv'
      BY <2>0, <3>1, <3>4
    <3>7. AttemptInv'
      BY <2>0, <2>3, <3>1
    <3>5. OrphanInv' /\ GateInv'
      BY <2>0, <3>1, <3>2
    <3> QED
      BY <3>3, <3>5, <3>6, <3>7
  <2> QED BY <2>1, <2>2
<1>21. CASE Trip
  BY <1>21 DEF Trip, Patch, Report
<1>22. ASSUME NEW verdict \in {"pass", "fail", "needs-human-review"}, Validate(verdict) PROVE IInv'
  BY <1>22 DEF Validate, Goto
<1>23. CASE Invalid
  BY <1>23 DEF Invalid, Patch, Goto
<1>24. CASE InvalidSentinel
  <2>1. reviewed' \in BOOLEAN /\ orphaned' \in BOOLEAN
    BY <1>24, Zenon DEF InvalidSentinel
  <2>2. TypeOK'
    BY <1>24, <2>1 DEF InvalidSentinel, Report
  <2>3. LocalInv' /\ OrphanInv' /\ SavedInv' /\ AttemptInv'
    BY <1>24 DEF InvalidSentinel, Report
  <2>4. GateInv'
    BY <1>24 DEF InvalidSentinel, Report
  <2> QED
    BY <2>2, <2>3, <2>4
<1>25. CASE ReviewOn
  BY <1>25 DEF ReviewOn, Goto
<1>26. CASE ReviewSentinel
  <2>1. reviewed' \in BOOLEAN /\ orphaned' \in BOOLEAN
    BY <1>26, Zenon DEF ReviewSentinel
  <2>2. TypeOK'
    BY <1>26, <2>1 DEF ReviewSentinel, Report
  <2>3. LocalInv' /\ OrphanInv' /\ SavedInv' /\ AttemptInv'
    BY <1>26 DEF ReviewSentinel, Report
  <2>4. GateInv'
    BY <1>26 DEF ReviewSentinel, Report
  <2> QED
    BY <2>2, <2>3, <2>4
<1>27. CASE Complete
  BY <1>27 DEF Complete, Patch, Goto
<1>28. CASE DeleteCheckpoint
  BY <1>28 DEF DeleteCheckpoint, Goto
<1>29. CASE DoneSentinel
  BY <1>29 DEF DoneSentinel, Report
<1>30. CASE Raise
  BY <1>30 DEF Raise, Fault, Leave, Goto
<1>31. CASE Fail
  BY <1>31 DEF Fail, Patch, Report
<1>32. CASE Publish
  BY <1>32 DEF Publish, Leave
<1>33. ASSUME NEW c \in Cancellers, CancelLoad(c) PROVE IInv'
  BY <1>33 DEF CancelLoad
<1>34. ASSUME NEW c \in Cancellers, NEW ok \in BOOLEAN, CancelPatch(c, ok) PROVE IInv'
  <2>1. CASE ok
    <3>1. orphaned' \in BOOLEAN /\ ~orphaned'
      BY <1>34, <2>1, Zenon DEF CancelPatch
    <3> QED
      BY <1>34, <2>1, <3>1 DEF CancelPatch, Patch
  <2>2. CASE ~ok
    BY <1>34, <2>2 DEF CancelPatch, Fault
  <2> QED
    BY <2>1, <2>2
<1>35. ASSUME NEW c \in Cancellers, CancelRegistry(c) PROVE IInv'
  BY <1>35 DEF CancelRegistry
<1>36. CASE AgentBlocks
  <2>1. reviewed' \in BOOLEAN /\ orphaned' \in BOOLEAN
    BY <1>36, Zenon DEF AgentBlocks
  <2>2. TypeOK'
    BY <1>36, <2>1 DEF AgentBlocks
  <2>3. LocalInv' /\ OrphanInv' /\ SavedInv' /\ AttemptInv'
    BY <1>36 DEF AgentBlocks
  <2>4. GateInv'
    BY <1>36 DEF AgentBlocks
  <2> QED
    BY <2>2, <2>3, <2>4
<1>37. CASE PersonClears
  <2>1. reviewed' \in BOOLEAN /\ orphaned' \in BOOLEAN
    BY <1>37, Zenon DEF PersonClears
  <2>2. TypeOK'
    BY <1>37, <2>1 DEF PersonClears
  <2>3. LocalInv' /\ OrphanInv' /\ SavedInv' /\ AttemptInv'
    BY <1>37 DEF PersonClears
  <2>4. GateInv'
    BY <1>37 DEF PersonClears
  <2> QED
    BY <2>2, <2>3, <2>4
<1>38. ASSUME NEW ok \in BOOLEAN, Restart(ok) PROVE IInv'
  <2> DEFINE InFlight == phase \in {"init", "spec", "planned", "executing"}
  <2>1. orphaned' = (ok /\ InFlight)
    BY <1>38 DEF Restart
  <2>2. CASE ok /\ InFlight
    <3>1. orphaned' = TRUE
      BY <2>1, <2>2, Zenon
    <3> QED
      BY <1>38, <2>2, <3>1 DEF Restart, Leave, RecoveryPhase, Fault
  <2>3. CASE ~(ok /\ InFlight)
    <3>1. orphaned' \in BOOLEAN /\ ~orphaned'
      BY <2>1, <2>3, Zenon
    <3> QED
      BY <1>38, <2>3, <3>1 DEF Restart, Leave, RecoveryPhase, Fault
  <2> QED
    BY <2>2, <2>3
<1>39. CASE UNCHANGED vars
  BY <1>39
<1> QED
  BY <1>1, <1>2, <1>3, <1>4, <1>5, <1>6, <1>7, <1>8, <1>9, <1>10, <1>11,
     <1>12, <1>13, <1>14, <1>15, <1>16, <1>17, <1>18, <1>19, <1>20, <1>21,
     <1>22, <1>23, <1>24, <1>25, <1>26, <1>27, <1>28, <1>29, <1>30, <1>31,
     <1>32, <1>33, <1>34, <1>35, <1>36, <1>37, <1>38, <1>39 DEF Next,
     RunStep, CancelStep

\* The inductive invariant of the orchestrator.
THEOREM TaskInvariance == Spec => []IInv
<1>1. Init => IInv
  BY InitIInv
<1>2. IInv /\ [Next]_vars => IInv'
  BY StepIInv
<1> QED
  BY <1>1, <1>2, PTL DEF Spec

-----------------------------------------------------------------------------
\* Every variable of the orchestrator keeps its type.
THEOREM TaskTypeCorrect == Spec => []TypeOK
<1>1. IInv => TypeOK
  BY DEF IInv
<1> QED
  BY <1>1, TaskInvariance, PTL

\* run_task marks a task complete only when each step of its plan was begun, in
\* this call or in an earlier one whose checkpoint or gate it relied on.
THEOREM CompleteHasAllSteps == Spec => []AllStepsAttempted
<1>1. IInv => AllStepsAttempted
  BY DEF IInv, AttemptInv, AllStepsAttempted
<1> QED
  BY <1>1, TaskInvariance, PTL

\* state.json of a task that can still run has a gate only while it is blocked.
THEOREM GateOnlyWhileBlocked == Spec => []GateMeansBlocked
<1>1. IInv => GateMeansBlocked
  BY DEF IInv, GateInv, GateMeansBlocked, Terminal
<1> QED
  BY <1>1, TaskInvariance, PTL

-----------------------------------------------------------------------------
\* Only the body of the step loop begins a step.
LEMMA OnlyExecuteBegins ==
  ASSUME Next, Begins
  PROVE  Execute
<1>1. ~Load
  BY DEF Load, Patch, Report, Begins, locals
<1>2. ~Recovered
  BY DEF Recovered, Leave, Goto, Begins, locals
<1>3. ~GateCheck
  BY DEF GateCheck, Report, Goto, Begins, locals
<1>4. ~GateClear
  BY DEF GateClear, Goto, Begins, locals
<1>5. ~GateResume
  BY DEF GateResume, Goto, Begins, locals
<1>6. ~SentinelCheck
  BY DEF SentinelCheck, Goto, Begins, locals
<1>7. ~Block
  BY DEF Block, Patch, Report, Begins, locals
<1>8. ~Register
  BY DEF Register, Begins, locals
<1>9. \A valid \in BOOLEAN, gated \in Enabled : ~ReadSpec(valid, gated)
  BY DEF ReadSpec, Patch, Goto, AskReview, Begins, locals
<1>10. \A gated \in Enabled : ~Plan(gated)
  BY DEF Plan, Patch, Goto, AskReview, Begins, locals
<1>11. ~WriteSentinel
  BY DEF WriteSentinel, Goto, Begins, locals
<1>12. ~GateOn
  BY DEF GateOn, Report, Begins, locals
<1>13. ~Dispatch
  BY DEF Dispatch, Patch, Goto, Begins, locals
<1>14. ~ResumeFrom
  BY DEF ResumeFrom, FirstStep, Begins, locals
<1>15. \A gated \in Enabled : ~LoopHead(gated)
  BY DEF LoopHead, Goto, AskReview, StepsLeft, Begins, locals
<1>16. ~CancelCheck
  BY DEF CancelCheck, Goto, Begins, locals
<1>17. ~Forget
  BY DEF Forget, Report, Begins, locals
<1>18. \A ok \in BOOLEAN : ~StepRan(ok)
  BY DEF StepRan, Goto, AfterFailure, Begins, locals
<1>19. \A ok \in BOOLEAN : ~SaveCheckpoint(ok)
  BY DEF SaveCheckpoint, AfterFailure, Fault, CheckpointAfter, Begins, locals
<1>20. ~Trip
  BY DEF Trip, Patch, Report, Begins, locals
<1>21. \A verdict \in {"pass", "fail", "needs-human-review"} : ~Validate(verdict)
  BY DEF Validate, Goto, Begins, locals
<1>22. ~Invalid
  BY DEF Invalid, Patch, Goto, Begins, locals
<1>23. ~InvalidSentinel
  BY DEF InvalidSentinel, Report, Begins, locals
<1>24. ~ReviewOn
  BY DEF ReviewOn, Goto, Begins, locals
<1>25. ~ReviewSentinel
  BY DEF ReviewSentinel, Report, Begins, locals
<1>26. ~Complete
  BY DEF Complete, Patch, Goto, Begins, locals
<1>27. ~DeleteCheckpoint
  BY DEF DeleteCheckpoint, Goto, Begins, locals
<1>28. ~DoneSentinel
  BY DEF DoneSentinel, Report, Begins, locals
<1>29. ~Raise
  BY DEF Raise, Fault, Leave, Goto, Begins, locals
<1>30. ~Fail
  BY DEF Fail, Patch, Report, Begins, locals
<1>31. ~Publish
  BY DEF Publish, Leave, Begins, locals
<1>32. \A c \in Cancellers : ~CancelLoad(c)
  BY DEF CancelLoad, Begins, locals
<1>33. \A c \in Cancellers, ok \in BOOLEAN : ~CancelPatch(c, ok)
  BY DEF CancelPatch, Patch, Fault, Begins, locals
<1>34. \A c \in Cancellers : ~CancelRegistry(c)
  BY DEF CancelRegistry, Begins, locals
<1>35. ~AgentBlocks
  BY DEF AgentBlocks, Begins, locals
<1>36. ~PersonClears
  BY DEF PersonClears, Begins, locals
<1>37. \A ok \in BOOLEAN : ~Restart(ok)
  BY DEF Restart, Fault, RecoveryPhase, Leave, Begins, locals
<1> QED
  BY <1>1, <1>2, <1>3, <1>4, <1>5, <1>6, <1>7, <1>8, <1>9, <1>10, <1>11,
     <1>12, <1>13, <1>14, <1>15, <1>16, <1>17, <1>18, <1>19, <1>20, <1>21,
     <1>22, <1>23, <1>24, <1>25, <1>26, <1>27, <1>28, <1>29, <1>30, <1>31,
     <1>32, <1>33, <1>34, <1>35, <1>36, <1>37 DEF Next, RunStep,
     CancelStep

\* A checkpointed step is never begun again.
THEOREM CheckpointedStepsDoNotRepeat == Spec => NoStepRepeats
<1>1. IInv /\ [Next]_vars => [Begins => step \notin saved]_vars
  <2> SUFFICES ASSUME IInv, Next, Begins PROVE step \notin saved
    OBVIOUS
  <2>1. pc = "execute"
    BY OnlyExecuteBegins DEF Execute
  <2>2. saved \subseteq 0..(ckpt - 1) /\ ckpt <= step
    BY <2>1 DEF IInv, SavedInv, Closed, Stepping
  <2>3. ckpt \in Nat /\ step \in Nat
    BY TaskAssumption DEF IInv, TypeOK
  <2> QED
    BY <2>2, <2>3
<1> QED
  BY <1>1, TaskInvariance, PTL DEF Spec, NoStepRepeats

\* No step begins on a task that start-up found interrupted, until an operator
\* has cancelled it.
THEOREM InterruptedTasksStay == Spec => InterruptedNeverReruns
<1>1. IInv /\ [Next]_vars => [Begins => ~orphaned]_vars
  <2> SUFFICES ASSUME IInv, Next, Begins PROVE ~orphaned
    OBVIOUS
  <2>1. pc = "execute"
    BY OnlyExecuteBegins DEF Execute
  <2> QED
    BY <2>1 DEF IInv, OrphanInv
<1> QED
  BY <1>1, TaskInvariance, PTL DEF Spec, InterruptedNeverReruns

\* Only three writes of state.json change the gate.
LEMMA OnlyGatesChangeGate ==
  ASSUME Next, gate' # gate
  PROVE  GateOn \/ GateResume \/ ReviewOn
<1>1. ~Load
  BY DEF Load, Patch, Report, disk
<1>2. ~Recovered
  BY DEF Recovered, Leave, Goto, disk
<1>3. ~GateCheck
  BY DEF GateCheck, Report, Goto, disk
<1>4. ~GateClear
  BY DEF GateClear, Goto, disk
<1>5. ~SentinelCheck
  BY DEF SentinelCheck, Goto, disk
<1>6. ~Block
  BY DEF Block, Patch, Report, disk
<1>7. ~Register
  BY DEF Register, disk
<1>8. \A valid \in BOOLEAN, gated \in Enabled : ~ReadSpec(valid, gated)
  BY DEF ReadSpec, Patch, Goto, AskReview, disk
<1>9. \A gated \in Enabled : ~Plan(gated)
  BY DEF Plan, Patch, Goto, AskReview, disk
<1>10. ~WriteSentinel
  BY DEF WriteSentinel, Goto, disk
<1>11. ~Dispatch
  BY DEF Dispatch, Patch, Goto, disk
<1>12. ~ResumeFrom
  BY DEF ResumeFrom, FirstStep, disk
<1>13. \A gated \in Enabled : ~LoopHead(gated)
  BY DEF LoopHead, Goto, AskReview, StepsLeft, disk
<1>14. ~CancelCheck
  BY DEF CancelCheck, Goto, disk
<1>15. ~Forget
  BY DEF Forget, Report, disk
<1>16. ~Execute
  BY DEF Execute, Goto, disk
<1>17. \A ok \in BOOLEAN : ~StepRan(ok)
  BY DEF StepRan, Goto, AfterFailure, disk
<1>18. \A ok \in BOOLEAN : ~SaveCheckpoint(ok)
  BY DEF SaveCheckpoint, AfterFailure, Fault, CheckpointAfter, disk
<1>19. ~Trip
  BY DEF Trip, Patch, Report, disk
<1>20. \A verdict \in {"pass", "fail", "needs-human-review"} : ~Validate(verdict)
  BY DEF Validate, Goto, disk
<1>21. ~Invalid
  BY DEF Invalid, Patch, Goto, disk
<1>22. ~InvalidSentinel
  BY DEF InvalidSentinel, Report, disk
<1>23. ~ReviewSentinel
  BY DEF ReviewSentinel, Report, disk
<1>24. ~Complete
  BY DEF Complete, Patch, Goto, disk
<1>25. ~DeleteCheckpoint
  BY DEF DeleteCheckpoint, Goto, disk
<1>26. ~DoneSentinel
  BY DEF DoneSentinel, Report, disk
<1>27. ~Raise
  BY DEF Raise, Fault, Leave, Goto, disk
<1>28. ~Fail
  BY DEF Fail, Patch, Report, disk
<1>29. ~Publish
  BY DEF Publish, Leave, disk
<1>30. \A c \in Cancellers : ~CancelLoad(c)
  BY DEF CancelLoad, disk
<1>31. \A c \in Cancellers, ok \in BOOLEAN : ~CancelPatch(c, ok)
  BY DEF CancelPatch, Patch, Fault, disk
<1>32. \A c \in Cancellers : ~CancelRegistry(c)
  BY DEF CancelRegistry, disk
<1>33. ~AgentBlocks
  BY DEF AgentBlocks, disk
<1>34. ~PersonClears
  BY DEF PersonClears, disk
<1>35. \A ok \in BOOLEAN : ~Restart(ok)
  BY DEF Restart, Fault, RecoveryPhase, Leave, disk
<1> QED
  BY <1>1, <1>2, <1>3, <1>4, <1>5, <1>6, <1>7, <1>8, <1>9, <1>10, <1>11,
     <1>12, <1>13, <1>14, <1>15, <1>16, <1>17, <1>18, <1>19, <1>20, <1>21,
     <1>22, <1>23, <1>24, <1>25, <1>26, <1>27, <1>28, <1>29, <1>30, <1>31,
     <1>32, <1>33, <1>34, <1>35 DEF Next, RunStep, CancelStep

\* A gate of the plan is passed only after a person has cleared the sentinel.
THEOREM GatesNeedAPerson == Spec => GatesAreReviewed
<1>1. IInv /\ [Next]_vars =>
        [gate' # gate => gate \in {"none", "post-validation"} \/ reviewed]_vars
  <2> SUFFICES ASSUME IInv, Next, gate' # gate
               PROVE  gate \in {"none", "post-validation"} \/ reviewed
    OBVIOUS
  <2>1. CASE GateOn \/ ReviewOn
    BY <2>1 DEF GateOn, ReviewOn, IInv, GateInv, InTry
  <2>2. CASE GateResume
    BY <2>2 DEF GateResume, IInv, GateInv, Resuming
  <2> QED
    BY <2>1, <2>2, OnlyGatesChangeGate
<1> QED
  BY <1>1, TaskInvariance, PTL DEF Spec, GatesAreReviewed

\* The steps of a task are accounted for, whatever calls, gates, failures and
\* restarts brought it where it is.
THEOREM TaskStepsAccounted == Spec => []StepsAccounted
<1>1. TypeOK /\ AllStepsAttempted /\ GateMeansBlocked => StepsAccounted
  BY DEF StepsAccounted
<1> QED
  BY <1>1, TaskTypeCorrect, CompleteHasAllSteps, GateOnlyWhileBlocked, PTL

\* No call goes on where it may not: after a restart, with a step that is done,
\* past a gate.
THEOREM NothingRunsAgain == Spec => NothingIsRepeated
<1> QED
  BY CheckpointedStepsDoNotRepeat, InterruptedTasksStay, GatesNeedAPerson DEF NothingIsRepeated
===========================================================================
