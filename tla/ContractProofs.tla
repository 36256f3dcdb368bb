--------------------------- MODULE ContractProofs ---------------------------
(***************************************************************************)
(* Proofs about MCContract, for any commands, parent relation, threads and *)
(* numbers of crashes and failing writes.  What DeliveryProofs proves  *)
(* of an ApprovalDelivery holds of each part, and so of a behaviour that   *)
(* is one of them.                                                         *)
(***************************************************************************)
EXTENDS MCContract, TLAPS

\* A step is one of the part that the behaviour is.
LEMMA StepOfPart ==
    [Next]_vars =>
        /\ (part = "approving")' <=> part = "approving"
        /\ (part = "mission")' <=> part = "mission"
        /\ (part = "posting")' <=> part = "posting"
        /\ (part = "expiring")' <=> part = "expiring"
        /\ part = "approving" => [Approving!Next]_(Approving!vars)
        /\ part = "mission" => [Mission!Next]_(Mission!vars)
        /\ part = "posting" => [Posting!Next]_(Posting!vars)
        /\ part = "expiring" => [Expiring!Next]_(Expiring!vars)
  <1>1. CASE Next
    BY <1>1 DEF Next
  <1>2. CASE UNCHANGED vars
    BY <1>2 DEF vars,
        Approving!vars, Approving!storeVars, Approving!queueVars, Approving!threadVars, Approving!budget, Approving!historyVars,
        Mission!vars, Mission!storeVars, Mission!queueVars, Mission!threadVars, Mission!budget, Mission!historyVars,
        Posting!vars, Posting!storeVars, Posting!queueVars, Posting!threadVars, Posting!budget, Posting!historyVars,
        Expiring!vars, Expiring!storeVars, Expiring!queueVars, Expiring!threadVars, Expiring!budget, Expiring!historyVars
  <1> QED
    BY <1>1, <1>2

\* However many commands a mission has proposed, itself approved or posted freely:
\* none of them runs once it was withdrawn, by itself or with the mission; nor does, until the process crashes, a
\* command that was withdrawn while writes failed.
THEOREM WithdrawnStays == Spec => []WithdrawnNeverRuns
  <1>1. Init => /\ part = "mission" => Mission!Init
                /\ part = "posting" => Posting!Init
                /\ part = "expiring" => Expiring!Init
    BY DEF Init
  <1>2. Mission!Spec => [](Mission!IInv /\ Mission!LifeInv)
    BY Bounds, Mission!LifeAlways
  <1>3. Mission!Spec => [](crashes = 0 => Mission!WithdrawnNeverRuns)
    BY Bounds, Mission!WithdrawnStaysOut
  <1>4. Mission!IInv /\ Mission!LifeInv => crashes = 0
    BY DEF Mission!IInv, Mission!TypeOK, Mission!LifeInv
  <1>5. Expiring!Spec => [](crashes = 0 => Expiring!WithdrawnNeverRuns)
    BY Bounds, Expiring!WithdrawnStaysOut
  <1>6. Posting!Spec => [](crashes = 0 => Posting!WithdrawnNeverRuns)
    BY Bounds, Posting!WithdrawnStaysOut
  <1> QED
    BY <1>1, <1>2, <1>3, <1>4, <1>5, <1>6, StepOfPart, PTL
    DEF Spec, Mission!Spec, Posting!Spec, Expiring!Spec, WithdrawnNeverRuns

\* What the contract sees of a part is what the part says, and nothing of others.
LEMMA ContractSees ==
    /\ part = "approving" => /\ [c \in Cmds |-> Outcome(c)] = [c \in Cmds |-> Approving!Outcome(c)]
                             /\ Overdue = due \cap Cmds
    /\ part = "mission" => /\ [c \in Cmds |-> Outcome(c)] = [c \in Cmds |-> Mission!Outcome(c)]
                           /\ Overdue = due \cap Cmds
    /\ part \notin {"approving", "mission"} => /\ [c \in Cmds |-> Outcome(c)] = [c \in Cmds |-> "new"]
                                               /\ Overdue = {}
  BY DEF Outcome, Overdue

LEMMA ContractStarts ==
    /\ part = "approving" /\ Approving!Contract!Init => Contract!Init
    /\ part = "mission" /\ Mission!Contract!Init => Contract!Init
    /\ part \notin {"approving", "mission"} => Contract!Init
  BY ContractSees DEF Contract!Init, Approving!Contract!Init, Mission!Contract!Init

LEMMA ApprovingIsContract ==
    ASSUME part = "approving", UNCHANGED part,
           [Approving!Contract!Next]_<<[c \in Cmds |-> Approving!Outcome(c)], due \cap Cmds>>
    PROVE  [Contract!Next]_<<[c \in Cmds |-> Outcome(c)], Overdue>>
  <1>1. /\ [c \in Cmds |-> Outcome(c)] = [c \in Cmds |-> Approving!Outcome(c)]
        /\ Overdue = due \cap Cmds
    BY ContractSees
  <1>2. /\ [c \in Cmds |-> Outcome(c)]' = [c \in Cmds |-> Approving!Outcome(c)]'
        /\ Overdue' = (due \cap Cmds)'
    BY DEF Outcome, Overdue
  <1> QED
    BY <1>1, <1>2 DEF Contract!Next, Contract!Move, Contract!TimePasses, Contract!Moves,
        Approving!Contract!Next, Approving!Contract!Move, Approving!Contract!TimePasses, Approving!Contract!Moves

LEMMA MissionIsContract ==
    ASSUME part = "mission", UNCHANGED part,
           [Mission!Contract!Next]_<<[c \in Cmds |-> Mission!Outcome(c)], due \cap Cmds>>
    PROVE  [Contract!Next]_<<[c \in Cmds |-> Outcome(c)], Overdue>>
  <1>1. /\ [c \in Cmds |-> Outcome(c)] = [c \in Cmds |-> Mission!Outcome(c)]
        /\ Overdue = due \cap Cmds
    BY ContractSees
  <1>2. /\ [c \in Cmds |-> Outcome(c)]' = [c \in Cmds |-> Mission!Outcome(c)]'
        /\ Overdue' = (due \cap Cmds)'
    BY DEF Outcome, Overdue
  <1> QED
    BY <1>1, <1>2 DEF Contract!Next, Contract!Move, Contract!TimePasses, Contract!Moves,
        Mission!Contract!Next, Mission!Contract!Move, Mission!Contract!TimePasses, Mission!Contract!Moves

LEMMA OthersRest ==
    ASSUME part \notin {"approving", "mission"}, UNCHANGED part
    PROVE  UNCHANGED <<[c \in Cmds |-> Outcome(c)], Overdue>>
BY DEF Outcome, Overdue

\* Any number of commands, approved while the process crashes any number of times,
\* or under every request of a mission: each is granted, refused and started as the
\* gate promises.
THEOREM ContractKept == Spec => ImplementsContract
  <1>1. Approving!Spec => Approving!ImplementsContract
    BY Bounds, Approving!Refinement DEF Approving!Tame
  <1>2. Mission!Spec => Mission!ImplementsContract
    BY Bounds, Mission!Refinement DEF Mission!Tame
  <1>3. Init => /\ part = "approving" => Approving!Init
                /\ part = "mission" => Mission!Init
    BY DEF Init
  <1>4. [Next]_vars => UNCHANGED part
    BY DEF Next, vars
  <1>5. [Next]_vars =>
          /\ part = "approving" /\ [Approving!Contract!Next]_<<[c \in Cmds |-> Approving!Outcome(c)], due \cap Cmds>>
               => [Contract!Next]_<<[c \in Cmds |-> Outcome(c)], Overdue>>
          /\ part = "mission" /\ [Mission!Contract!Next]_<<[c \in Cmds |-> Mission!Outcome(c)], due \cap Cmds>>
               => [Contract!Next]_<<[c \in Cmds |-> Outcome(c)], Overdue>>
          /\ ~(part = "approving") /\ ~(part = "mission") => [Contract!Next]_<<[c \in Cmds |-> Outcome(c)], Overdue>>
    BY <1>4, ApprovingIsContract, MissionIsContract, OthersRest
  <1>6. ~(part = "approving") /\ ~(part = "mission") => Contract!Init
    BY ContractStarts
  <1> QED
    BY <1>1, <1>2, <1>3, <1>5, <1>6, ContractStarts, StepOfPart, PTL
    DEF Spec, Approving!Spec, Mission!Spec, ImplementsContract, Approving!ImplementsContract,
        Mission!ImplementsContract, Contract!Spec, Approving!Contract!Spec, Mission!Contract!Spec
=============================================================================
