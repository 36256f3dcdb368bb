-------------------------- MODULE SessionDirectory --------------------------
(***************************************************************************)
(* The shared list of external sessions                                    *)
(* (src/ui/externalSessionDirectory.ts) and what the attention strip makes *)
(* of it and of RepoCiv's own units (src/ui/agentAttention.ts,             *)
(* src/ui/agentAttentionStrip.ts).                                         *)
(***************************************************************************)
EXTENDS Integers, FiniteSets

CONSTANTS
  Own,        \* RepoCiv's own units
  External,   \* external sessions
  MaxFaults   \* bound: refreshes that fail

DirectoryAssumption == Own \cap External = {} /\ MaxFaults \in Nat

VARIABLES
  truth,      \* what every agent is doing
  rows,       \* _rows: the sessions' states, or Unavailable
  refreshing, \* Idle, Asked, or Read when the bridge has read the sessions
  answer,     \* what it read
  listeners,  \* who subscribed
  timer,
  panel,      \* what the agents panel last got
  previous,   \* AgentAttention.previous
  unseen,     \* AgentAttention.unseen
  blocked,    \* units an approval waits for
  faults,
  ended,      \* agents that have ended a turn
  observed    \* agents the strip saw end a turn, not reviewed nor at work since

vars == <<truth, rows, refreshing, answer, listeners, timer, panel, previous, unseen, blocked, faults, ended, observed>>

Agents == Own \cup External
States == {"working", "thinking", "idle"}
Gone == "gone"
Unavailable == [s \in External |-> Gone]   \* null: the same inputs as an empty list
Idle == "no refresh"
Asked == "asked"
Read == "read"

Init ==
  /\ truth = [a \in Agents |-> "idle"]
  /\ rows = Unavailable
  /\ refreshing = Idle /\ answer = Unavailable
  /\ listeners = {} /\ timer = FALSE
  /\ panel = Unavailable
  /\ previous = [a \in Agents |-> Gone]
  /\ unseen = {} /\ blocked = {}
  /\ faults = 0
  /\ ended = {} /\ observed = {}

(* The strip's inputs: own units as they are, sessions as listed.           *)
inputs(world, list) == [a \in Agents |-> IF a \in Own THEN world[a] ELSE list[a]]

(* AgentAttention.update: an agent that is not listed is forgotten.         *)
update(in) ==
  /\ unseen' = {a \in Agents : /\ in[a] \in {"thinking", "idle"}
                               /\ a \in unseen \/ (previous[a] = "working" /\ in[a] = "idle")}
  /\ previous' = in
  /\ observed' = {a \in Agents : /\ in[a] # "working" /\ (in[a] # Gone \/ a \in External)
                                 /\ a \in observed \/ (previous[a] = "working" /\ in[a] = "idle")}

render(in) == IF "strip" \in listeners' THEN update(in) ELSE UNCHANGED <<previous, unseen, observed>>

\* Slip of entries: what is done and unreviewed is listed only while active.
UnreviewedNeedsActive(in) ==
  [a \in {x \in Agents : in[x] # Gone /\ (x \in blocked \/ in[x] # "idle")} |->
     IF a \in blocked THEN "blocked" ELSE IF a \in unseen THEN "unreviewed" ELSE in[a]]

(* What the strip lists: blocked before unreviewed before what it does.     *)
entries(in) ==
  [a \in {x \in Agents : in[x] # Gone} |->
     IF a \in blocked THEN "blocked" ELSE IF a \in unseen THEN "unreviewed" ELSE in[a]]

Ask == IF refreshing = Idle THEN refreshing' = Asked ELSE UNCHANGED refreshing

(* An agent works, is busy, rests, leaves or comes back.                    *)
Moves(a, st) ==
  /\ truth[a] # st
  /\ truth' = [truth EXCEPT ![a] = st]
  /\ ended' = IF truth[a] = "working" THEN ended \cup {a} ELSE ended
  /\ UNCHANGED <<refreshing, listeners>>
  /\ IF a \in Own THEN render(inputs(truth', rows)) ELSE UNCHANGED <<previous, unseen, observed>>
  /\ UNCHANGED <<answer, rows, timer, panel, blocked, faults>>

(* The strip binds once; the panel subscribes whenever it opens and asks    *)
(* for a refresh of its own.                                                *)
Subscribe(who) ==
  /\ who \notin listeners
  /\ listeners' = listeners \cup {who}
  /\ panel' = IF who = "panel" THEN rows ELSE panel
  /\ timer' = TRUE
  /\ IF ~timer \/ who = "panel" THEN Ask ELSE UNCHANGED refreshing
  /\ IF who = "strip" THEN render(inputs(truth, rows)) ELSE UNCHANGED <<previous, unseen, observed>>
  /\ UNCHANGED <<answer, truth, rows, blocked, faults, ended>>

Unsubscribe ==
  /\ "panel" \in listeners
  /\ listeners' = listeners \ {"panel"}
  /\ timer' = (timer /\ listeners' # {})
  /\ UNCHANGED <<answer, truth, rows, refreshing, panel, previous, unseen, blocked, faults, ended, observed>>

Tick ==
  /\ timer /\ refreshing = Idle
  /\ refreshing' = Asked
  /\ UNCHANGED <<answer, truth, rows, listeners, timer, panel, previous, unseen, blocked, faults, ended, observed>>

(* The bridge reads the sessions.                                           *)
Reads ==
  /\ refreshing = Asked
  /\ refreshing' = Read
  /\ answer' = [s \in External |-> truth[s]]
  /\ UNCHANGED <<truth, rows, listeners, timer, panel, previous, unseen, blocked, faults, ended, observed>>

Refreshed(list) ==
  /\ rows' = list
  /\ UNCHANGED listeners
  /\ panel' = IF "panel" \in listeners THEN list ELSE panel
  /\ render(inputs(truth, list))
  /\ UNCHANGED <<truth, timer, answer, blocked, ended>>

Answers ==
  /\ refreshing = Read
  /\ Refreshed(answer)
  /\ refreshing' = Idle
  /\ UNCHANGED faults

Fails ==
  /\ refreshing # Idle /\ faults < MaxFaults
  /\ Refreshed(Unavailable)
  /\ refreshing' = Idle
  /\ faults' = faults + 1

(* The strip's chip of an agent is clicked: its chat opens.                 *)
Review(a) ==
  /\ "strip" \in listeners
  /\ a \in DOMAIN entries(inputs(truth, rows))
  /\ unseen' = unseen \ {a}
  /\ observed' = observed \ {a}
  /\ UNCHANGED <<answer, truth, rows, refreshing, listeners, timer, panel, previous, blocked, faults, ended>>

(* Approvals come and go.                                                   *)
Approvals(units) ==
  /\ blocked' = units
  /\ UNCHANGED listeners
  /\ render(inputs(truth, rows))
  /\ UNCHANGED <<answer, truth, rows, refreshing, timer, panel, faults, ended>>

Next ==
  \/ \E a \in Agents, st \in States \cup {Gone} : Moves(a, st)
  \/ \E who \in {"strip", "panel"} : Subscribe(who)
  \/ Unsubscribe \/ Tick \/ Reads \/ Answers \/ Fails
  \/ \E a \in Agents : Review(a)
  \/ \E units \in SUBSET Own : Approvals(units)

Spec == Init /\ [][Next]_vars

FairSpec == Spec /\ WF_vars(Tick) /\ WF_vars(Reads) /\ WF_vars(Answers)

(***************************************************************************)
(* Properties.                                                             *)
(***************************************************************************)

TypeOK ==
  /\ truth \in [Agents -> States \cup {Gone}]
  /\ rows \in [External -> States \cup {Gone}]
  /\ listeners \subseteq {"strip", "panel"}
  /\ previous \in [Agents -> States \cup {Gone}]
  /\ unseen \subseteq Agents /\ blocked \subseteq Own

(* "No invented blocked/done state from silence" (agentAttention.ts:1): an  *)
(* agent is said to have stopped only after it stopped working, whatever    *)
(* the failed and the late lists showed in between.                         *)
NoInvented == unseen \subseteq ended

(* A list that nobody uses is not polled, and one that somebody uses is.    *)
PolledWhileUsed == timer = (listeners # {})

(* An own unit that the strip saw stop is listed as unreviewed, or as       *)
(* waiting for an approval, until it is reviewed, works again or leaves.    *)
OwnUnreviewedListed ==
  LET in == inputs(truth, rows)
  IN  "strip" \in listeners =>
        \A a \in observed \cap Own :
          in[a] # Gone => a \in DOMAIN entries(in) /\ entries(in)[a] \in {"blocked", "unreviewed"}

---------------------------------------------------------------------------
(* What a document, a comment or a test says and this code does not keep    *)
(* (README, "Where the code differs").                                      *)

(* "retains an observed completion after leaving the active window, until   *)
(* reviewed" (agentAttention.test.ts): also for an external session.        *)
UnreviewedUntilSeen ==
  [][\A a \in unseen \ unseen' : \/ a \notin observed'
                                 \/ truth'[a] = Gone]_vars
=============================================================================
