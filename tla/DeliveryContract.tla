-------------------------- MODULE DeliveryContract --------------------------
(***************************************************************************)
(* What the approval gate promises of a command that needs approval        *)
(* (docs/DURABLE_APPROVAL_DELIVERY.md, docs/APPROVAL_EXPIRY.md): it waits, *)
(* is granted or refused, and only a granted command starts, once.  Nothing*)
(* is granted past its deadline; a granted one may still be cancelled.     *)
(***************************************************************************)

CONSTANT Cmds

VARIABLES
    state,      \* of each command
    overdue     \* commands past their deadline

Moves == {<<"new", "waiting">>, <<"waiting", "granted">>, <<"waiting", "refused">>,
          <<"granted", "started">>, <<"granted", "refused">>}

Init ==
    /\ state = [c \in Cmds |-> "new"]
    /\ overdue = {}

\* Several commands may move at once: a mission is cancelled, a sweep runs.
Move ==
    /\ \A c \in Cmds :
          /\ <<state[c], state'[c]>> \in Moves \/ state'[c] = state[c]
          /\ state[c] = "waiting" /\ state'[c] = "granted" => c \notin overdue
    /\ UNCHANGED overdue

TimePasses(c) ==
    /\ state[c] # "new"
    /\ overdue' = overdue \cup {c}
    /\ UNCHANGED state

Next == Move \/ \E c \in Cmds : TimePasses(c)

Spec == Init /\ [][Next]_<<state, overdue>>
=============================================================================
