----------------------------- MODULE MCContract -----------------------------
(***************************************************************************)
(* The delivery against the contract of the approval gate, and what it     *)
(* gets done.  A behaviour is one of five instances (part) of one state:   *)
(* two commands that are approved while the bridge crashes twice; a        *)
(* mission and the approval of its sub-agent, which a cancel cascades to;  *)
(* a mission that needs no approval itself, with a crash; one command with *)
(* failing writes and a crash; one with two crashes.                       *)
(***************************************************************************)
EXTENDS Naturals, FiniteSets

CONSTANTS
    Parts,          \* the parts that are checked
    Cmds,           \* the commands of the parts approving, mission and posting
    Parent,         \* of the mission's: which mission proposed each of them
    First,          \* the command of the parts expiring and recovering
    Handlers, Worker, Boot, NoCmd, NoThread,
    Crashes,        \* of the parts approving and recovering
    Faults          \* failing writes of the part expiring

VARIABLES
    part,
    log, pending, pendingDisk, audited, due, ledger, queue, queueDisk, created,
    pc, arg, batch, consumeLock, running, faults, crashes, consumer, runs, everQueued

\* Instances of the module that has the theorems about ApprovalDelivery.
Approving ==
    INSTANCE DeliveryProofs WITH
        Gated <- Cmds, MissionOf <- [c \in Cmds |-> NoCmd],
        Requests <- {"approve"}, MaxFaults <- 0, MaxCrashes <- Crashes, TornDumps <- FALSE,
        Blocked <- {}

Mission ==
    INSTANCE DeliveryProofs WITH
        Gated <- Cmds, MissionOf <- Parent,
        Requests <- {"approve", "reject", "cancel"}, MaxFaults <- 0, MaxCrashes <- 0, TornDumps <- TRUE,
        Blocked <- {}

Posting ==
    INSTANCE DeliveryProofs WITH
        Gated <- Cmds \ {First}, MissionOf <- Parent,
        Requests <- {"approve", "cancel"}, MaxFaults <- 0, MaxCrashes <- 1, TornDumps <- TRUE,
        Blocked <- {}

Expiring ==
    INSTANCE DeliveryProofs WITH
        Cmds <- {First}, Gated <- {First}, MissionOf <- [c \in {First} |-> NoCmd],
        Requests <- {"approve", "reject", "cancel"}, MaxFaults <- Faults, MaxCrashes <- 1, TornDumps <- FALSE,
        Blocked <- {}

Recovering ==
    INSTANCE DeliveryProofs WITH
        Cmds <- {First}, Gated <- {First}, MissionOf <- [c \in {First} |-> NoCmd],
        Requests <- {"approve", "reject", "cancel"}, MaxFaults <- 0, MaxCrashes <- Crashes, TornDumps <- FALSE,
        Blocked <- {}

ASSUME Bounds ==
    /\ Approving!CommandsAssumption /\ Approving!DeliveryAssumption
    /\ Mission!CommandsAssumption /\ Mission!DeliveryAssumption
    /\ Posting!CommandsAssumption /\ Posting!DeliveryAssumption
    /\ Expiring!CommandsAssumption /\ Expiring!DeliveryAssumption
    /\ Recovering!CommandsAssumption /\ Recovering!DeliveryAssumption

Init ==
    /\ part \in Parts
    /\ CASE part = "approving" -> Approving!Init [] part = "mission" -> Mission!Init
         [] part = "posting" -> Posting!Init
         [] part = "expiring" -> Expiring!Init [] part = "recovering" -> Recovering!Init

Next ==
    /\ \/ part = "approving" /\ Approving!Next
       \/ part = "mission" /\ Mission!Next
       \/ part = "posting" /\ Posting!Next
       \/ part = "expiring" /\ Expiring!Next
       \/ part = "recovering" /\ Recovering!Next
    /\ UNCHANGED part

vars == <<part, log, pending, pendingDisk, audited, due, ledger, queue, queueDisk, created,
          pc, arg, batch, consumeLock, running, faults, crashes, consumer, runs, everQueued>>

Spec == Init /\ [][Next]_vars

\* Of ApprovalDelivery!Fairness, in the parts with a deadline to meet.
InExpiring(A) == part = "expiring" /\ A /\ UNCHANGED part
InRecovering(A) == part = "recovering" /\ A /\ UNCHANGED part
Fairness ==
    /\ \A t \in Handlers : /\ WF_vars(InExpiring(Expiring!RequestGoesOn(t)))
                          /\ WF_vars(InRecovering(Recovering!RequestGoesOn(t)))
    /\ WF_vars(InExpiring(Expiring!LoopSweeps)) /\ WF_vars(InRecovering(Recovering!LoopSweeps))
    /\ WF_vars(InExpiring(Expiring!LoopDispatches)) /\ WF_vars(InRecovering(Recovering!LoopDispatches))
    /\ WF_vars(InExpiring(Expiring!LoopStarts)) /\ WF_vars(InRecovering(Recovering!LoopStarts))
    /\ WF_vars(InExpiring(Expiring!BootGoesOn)) /\ WF_vars(InRecovering(Recovering!BootGoesOn))

FairSpec == Spec /\ Fairness

-----------------------------------------------------------------------------
Outcome(c) ==
    CASE part = "approving" -> Approving!Outcome(c)
      [] part = "mission" -> Mission!Outcome(c)
      [] OTHER -> "new"
Overdue == IF part \in {"approving", "mission"} THEN due \cap Cmds ELSE {}

Contract ==
    INSTANCE DeliveryContract WITH
        state <- [c \in Cmds |-> Outcome(c)],
        overdue <- Overdue

\* The protocol implements the contract of the gate: a command that was refused,
\* by a person, by its deadline or with its mission, never starts, and one that
\* was granted starts once (ApprovalDelivery against DeliveryContract).
ImplementsContract == Contract!Spec

\* An approval withdrawn by a reject or a cancel, also by the cancel of its
\* mission, is never queued or run while the process lives, whatever intent an
\* interrupted approve left behind and whatever write fails (approval_store.py,
\* dispatch_ledger.py).
WithdrawnNeverRuns ==
    /\ part = "mission" => Mission!WithdrawnNeverRuns
    /\ part = "posting" /\ crashes = 0 => Posting!WithdrawnNeverRuns
    /\ part = "expiring" /\ crashes = 0 => Expiring!WithdrawnNeverRuns

\* An approval past its deadline gets its rejection event in spite of failing
\* writes and a restart; recovery completes the delivery of an authorised one,
\* wherever two crashes hit it (approval_store.py, approval_resolution.py).
Late == part = "expiring" /\ First \in Expiring!Expired \cap pendingDisk
Authorised == part = "recovering" /\ Recovering!Authorised(First)
Delivers ==
    /\ Late ~> "Rejected" \in log[First]
    /\ Authorised ~> First \in everQueued \/ log[First] # {} \/ First \in due

-----------------------------------------------------------------------------
\* The constants of the run: the second command is proposed by a sub-agent of
\* the first.
OfFirst == [c \in Cmds |-> IF c = First THEN NoCmd ELSE First]
=============================================================================
