---------------------------- MODULE ApprovalUI ----------------------------
(***************************************************************************)
(* Where a person answers an approval: the approval panel, which polls the *)
(* server's list (ui/approvalPanel.ts), and the card in the agent's chat   *)
(* (ui/chat/history.ts, ui/approvalCards.ts), both through commandBus.ts.  *)
(* Events, polls and decisions are in flight at once and any may be lost.  *)
(***************************************************************************)
EXTENDS Naturals, Sequences, FiniteSets

CONSTANTS
    Cmds,
    High,           \* commands of high or destructive risk
    Auto,           \* chat commands, which trust.autoApproveChat approves without asking
    MaxFetches,     \* GET /approvals in flight
    MaxFaults       \* requests and events lost

ApprovalUIAssumption ==
    /\ High \subseteq Cmds /\ Auto \subseteq Cmds
    /\ MaxFetches \in Nat \ {0} /\ MaxFaults \in Nat

VARIABLES
    server,         \* command -> its status on the server
    events,         \* events on their way to the page, in order
    card,           \* command -> its card in the chat
    items,          \* the panel's list
    confirming,
    disabled,       \* panel buttons pressed since it was last rendered
    decisions,      \* decisions in flight
    fetches,        \* GET /approvals in flight: what the server answered
    last,           \* command -> the panel button pressed last
    faults

vars == <<server, events, card, items, confirming, disabled, decisions, fetches, last, faults>>
panel == <<items, confirming, disabled, last>>

Status == {"none", "pending", "approved", "rejected", "expired"}
Outcomes == {"approved", "rejected", "expired", "unavailable"}
Pending == {c \in Cmds : server[c] = "pending"}
Decision == [cmd : Cmds, approve : BOOLEAN, from : {"card", "panel", "auto"},
             answer : {"unsent", "ok", "refused"}]

TypeOK ==
    /\ server \in [Cmds -> Status]
    /\ events \in Seq({"waiting", "expired"} \X Cmds)
    /\ card \in [Cmds -> {"none", "open", "busy"} \cup Outcomes]
    /\ items \subseteq Cmds /\ confirming \subseteq Cmds
    /\ disabled \subseteq Cmds \X BOOLEAN
    /\ decisions \subseteq Decision
    /\ fetches \subseteq [id : 1..MaxFetches, ids : SUBSET Cmds]
    /\ last \in [Cmds -> {"none", "approve", "sent", "reject"}]
    /\ faults \in 0..MaxFaults

Init ==
    /\ server = [c \in Cmds |-> "none"] /\ events = <<>>
    /\ card = [c \in Cmds |-> "none"]
    /\ items = {} /\ confirming = {} /\ disabled = {}
    /\ decisions = {} /\ fetches = {}
    /\ last = [c \in Cmds |-> "none"] /\ faults = 0

Fault == faults < MaxFaults /\ faults' = faults + 1

-----------------------------------------------------------------------------
(* The bridge (server/bridge.py, server/approval_store.py): a request, its  *)
(* expiry, a decision.  A write that fails there is an answer that failed.  *)
Request(c) ==
    /\ server[c] = "none"
    /\ server' = [server EXCEPT ![c] = "pending"]
    /\ events' = Append(events, <<"waiting", c>>)
    /\ UNCHANGED <<card, panel, decisions, fetches, faults>>

Expire(c) ==
    /\ server[c] = "pending"
    /\ server' = [server EXCEPT ![c] = "expired"]
    /\ events' = Append(events, <<"expired", c>>)
    /\ UNCHANGED <<card, panel, decisions, fetches, faults>>

Decide(d) ==
    /\ d.answer = "unsent"
    /\ decisions' = (decisions \ {d}) \cup
           {[d EXCEPT !.answer = IF server[d.cmd] = "pending" THEN "ok" ELSE "refused"]}
    /\ server' = IF server[d.cmd] = "pending"
                 THEN [server EXCEPT ![d.cmd] = IF d.approve THEN "approved" ELSE "rejected"]
                 ELSE server
    /\ UNCHANGED <<events, card, panel, fetches, faults>>

Lose ==
    /\ Fault
    /\ \/ events # <<>> /\ events' = Tail(events) /\ UNCHANGED fetches
       \/ fetches # {} /\ events' = events /\ \E f \in fetches : fetches' = fetches \ {f}
    /\ UNCHANGED <<server, card, panel, decisions>>

-----------------------------------------------------------------------------
(* Cards.                                                                  *)
settleApprovalCard(k, outcome) ==
    IF k = "none" \/ (k = "expired" /\ outcome # "expired") THEN k ELSE outcome

\* The setting may be on or off; the chat may be bound to another agent, and
\* then only a badge appears.
waiting_approval(c) ==
    \/ /\ c \in Auto
       /\ decisions' = decisions \cup {[cmd |-> c, approve |-> TRUE, from |-> "auto", answer |-> "unsent"]}
       /\ card' = card
    \/ /\ decisions' = decisions
       /\ card' \in {card, [card EXCEPT ![c] = "open"]}

HandleEvent ==
    /\ events # <<>> /\ events' = Tail(events)
    /\ LET c == Head(events)[2]
       IN IF Head(events)[1] = "waiting" THEN waiting_approval(c)
          ELSE /\ card' = [card EXCEPT ![c] = settleApprovalCard(@, "expired")]
               /\ decisions' = decisions
    /\ UNCHANGED <<server, panel, fetches, faults>>

\* Slip of clickCard: the card shows the outcome it asked for.
ClickOptimistic(c, approve) ==
    /\ card[c] = "open"
    /\ card' = [card EXCEPT ![c] = IF approve THEN "approved" ELSE "rejected"]
    /\ decisions' = decisions \cup {[cmd |-> c, approve |-> approve, from |-> "card", answer |-> "unsent"]}
    /\ UNCHANGED <<server, events, panel, fetches, faults>>

clickCard(c, approve) ==
    /\ card[c] = "open"
    /\ card' = [card EXCEPT ![c] = "busy"]
    /\ decisions' = decisions \cup {[cmd |-> c, approve |-> approve, from |-> "card", answer |-> "unsent"]}
    /\ UNCHANGED <<server, events, panel, fetches, faults>>

\* Another chat is shown: the messages are rebuilt from history, without cards.
leaveChat ==
    /\ \E c \in Cmds : card[c] # "none"
    /\ card' = [c \in Cmds |-> "none"]
    /\ UNCHANGED <<server, events, panel, decisions, fetches, faults>>

-----------------------------------------------------------------------------
(* The panel.                                                              *)
FreeFetch == {i \in 1..MaxFetches : \A f \in fetches : f.id # i}
StartFetch(others) ==
    /\ FreeFetch # {}
    /\ fetches' = others \cup {[id |-> CHOOSE i \in FreeFetch : TRUE, ids |-> Pending]}

fetchApprovals ==
    /\ StartFetch(fetches)
    /\ UNCHANGED <<server, events, card, panel, decisions, faults>>

reconcileApprovalCards(ids) ==
    [c \in Cmds |-> IF c \notin ids /\ card[c] \in {"open", "busy"}
                    THEN settleApprovalCard(card[c], "unavailable") ELSE card[c]]

FetchAnswers(f) ==
    /\ fetches' = fetches \ {f}
    /\ items' = f.ids /\ disabled' = {}
    /\ card' = reconcileApprovalCards(f.ids)
    /\ UNCHANGED <<server, events, confirming, last, decisions, faults>>

\* A second copy of a decision still in flight is left out.
Decided(c, approve) == [cmd |-> c, approve |-> approve, from |-> "panel", answer |-> "unsent"]
Send(c, approve) ==
    /\ Decided(c, approve) \notin decisions
    /\ disabled' = disabled \cup {<<c, approve>>}
    /\ decisions' = decisions \cup {Decided(c, approve)}

clickApprove(c) ==
    /\ c \in items /\ <<c, TRUE>> \notin disabled
    /\ IF c \in High /\ c \notin confirming
       THEN /\ confirming' = confirming \cup {c} /\ disabled' = {}
            /\ last' = [last EXCEPT ![c] = "approve"] /\ UNCHANGED decisions
       ELSE /\ Send(c, TRUE) /\ confirming' = confirming \ {c}
            /\ last' = [last EXCEPT ![c] = "sent"]
    /\ UNCHANGED <<server, events, card, items, fetches, faults>>

\* Slip of clickReject: a reject leaves the first press of approve in force.
KeepConfirming(c) ==
    /\ c \in items /\ <<c, FALSE>> \notin disabled
    /\ Send(c, FALSE) /\ confirming' = confirming
    /\ last' = [last EXCEPT ![c] = "reject"]
    /\ UNCHANGED <<server, events, card, items, fetches, faults>>

clickReject(c) ==
    /\ c \in items /\ <<c, FALSE>> \notin disabled
    /\ Send(c, FALSE) /\ confirming' = confirming \ {c}
    /\ last' = [last EXCEPT ![c] = "reject"]
    /\ UNCHANGED <<server, events, card, items, fetches, faults>>

\* approveCommand and rejectCommand answer true only when the server did;
\* a request that failed, before or after the server took it, answers false.
DecisionAnswers(d) ==
    /\ decisions' = decisions \ {d}
    /\ \E ok \in BOOLEAN :
           /\ ok => d.answer = "ok"
           /\ IF ok \/ d.answer = "refused" THEN UNCHANGED faults ELSE Fault
           /\ card' = IF d.from # "card" THEN card
                      ELSE [card EXCEPT ![d.cmd] = settleApprovalCard(@,
                              IF ~ok THEN "unavailable"
                              ELSE IF d.approve THEN "approved" ELSE "rejected")]
    /\ IF d.from = "panel" THEN StartFetch(fetches) ELSE fetches' = fetches
    /\ UNCHANGED <<server, events, panel>>

\* The decisions of one button are answered one after the other.
DecisionGoesOn(from) == \E d \in decisions : d.from = from /\ (Decide(d) \/ DecisionAnswers(d))

Next ==
    \/ \E c \in Cmds : Request(c) \/ Expire(c) \/ clickApprove(c) \/ clickReject(c)
    \/ \E c \in Cmds, approve \in BOOLEAN : clickCard(c, approve)
    \/ \E d \in decisions : Decide(d) \/ DecisionAnswers(d)
    \/ \E f \in fetches : FetchAnswers(f)
    \/ HandleEvent \/ Lose \/ leaveChat \/ fetchApprovals

Spec == Init /\ [][Next]_vars

(* The poll runs, requests are answered and events handled.                *)
FairSpec ==
    /\ Spec /\ WF_vars(HandleEvent) /\ WF_vars(fetchApprovals)
    /\ WF_vars(\E f \in fetches : FetchAnswers(f))
    /\ \A from \in {"card", "panel", "auto"} : WF_vars(DecisionGoesOn(from))

-----------------------------------------------------------------------------
(* "Approval cards display server-confirmed outcomes, never optimistic     *)
(* success": what a card says is what the server decided.                  *)
CardTruthful == \A c \in Cmds : card[c] \in {"approved", "rejected", "expired"} => server[c] = card[c]

(* A card that says its command expired keeps saying so, whatever late     *)
(* answers to earlier clicks still come.                                   *)
ExpiredStays == [][\A k \in Cmds : card[k] = "expired" => card'[k] \in {"expired", "none"}]_vars

(* The panel sends the approval of a high-risk command only on the second  *)
(* of two presses of approve with no other button of it pressed between.   *)
ConfirmedTwice ==
    [][\A k \in High : Decided(k, TRUE) \in decisions' \ decisions => last[k] = "approve"]_vars

(* The poll makes up for lost events: a card whose command is no longer    *)
(* pending loses its buttons.                                              *)
Undecided == \E c \in Cmds : card[c] \in {"open", "busy"} /\ server[c] # "pending"

---------------------------------------------------------------------------
(* What a document, a comment or a test says and this code does not keep    *)
(* (README, "Where the code differs").                                      *)

(* "Reconcile missed terminal events after reconnect"                      *)
(* (ui/approvalCards.ts:39): the poll settles only what is terminal.       *)
ReconcilesTerminal ==
    [][\A f \in fetches : FetchAnswers(f) =>
          \A c \in Cmds : card'[c] # card[c] => server[c] # "pending"]_vars
=============================================================================
