--------------------------- MODULE StatusPolling ---------------------------
(***************************************************************************)
(* ui/pollScheduler.ts with two of its users, the Hermes banner            *)
(* (ui/hermesStatusBanner.ts) and the MCP indicator (ui/mcpStatus.ts).     *)
(* One interval tick runs every callback that is due unless the page is    *)
(* hidden; a callback sends a request, whose answer paints the DOM when it *)
(* comes.  Requests overlap, and answers come in any order.                *)
(*                                                                         *)
(* Time counts in ticks: wait[p] is nextDue - now of poll p, 0 once due.   *)
(***************************************************************************)
EXTENDS Naturals, FiniteSets

CONSTANTS
    Interval,       \* poll -> its intervalMs
    MaxInFlight,    \* requests of one caller in flight
    MaxChanges,     \* times a watched service goes up or down
    Mounts          \* calls of mountHermesStatusBanner

Polls == {"hermes", "mcp"}
Roots == 1 .. MaxInFlight + 1       \* banner elements: the one shown, and those refreshes were asked for

StatusPollingAssumption ==
    /\ Interval \in [Polls -> Nat \ {0}]
    /\ MaxInFlight \in Nat \ {0} /\ MaxChanges \in Nat /\ Mounts \in Nat

VARIABLES
    up,             \* poll -> is the service it watches up?
    registered,     \* polls in the scheduler's entries
    wait,
    hidden,         \* document.hidden
    asked,          \* requests in flight: who asked, for which banner, the answer
    banners,        \* Hermes banners in the DOM
    dismissed,      \* the session's dismissal flag
    mcpShown,       \* is the MCP indicator lit?
    idle,           \* poll -> ticks since its callback last ran
    mounts, changes

vars == <<up, registered, wait, hidden, asked, banners, dismissed, mcpShown,
          idle, mounts, changes>>
dom == <<banners, dismissed, mcpShown>>
sched == <<registered, wait, idle, hidden>>

Askers == {"mount", "poll", "refresh", "mcp"}
PollOf(who) == IF who = "mcp" THEN "mcp" ELSE "hermes"

TypeOK ==
    /\ up \in [Polls -> BOOLEAN] /\ registered \subseteq Polls
    /\ wait \in [Polls -> Nat] /\ \A p \in Polls : wait[p] <= Interval[p]
    /\ idle \in [Polls -> Nat] /\ \A p \in Polls : idle[p] <= Interval[p]
    /\ hidden \in BOOLEAN /\ dismissed \in BOOLEAN /\ mcpShown \in BOOLEAN
    /\ asked \subseteq [who : Askers, root : {0} \cup Roots, seen : BOOLEAN, id : 1..MaxInFlight]
    /\ banners \subseteq Roots
    /\ mounts \in 0..Mounts /\ changes \in 0..MaxChanges

Init ==
    /\ up \in [Polls -> BOOLEAN] /\ hidden \in BOOLEAN
    /\ registered = {} /\ wait = [p \in Polls |-> 0]
    /\ idle = [p \in Polls |-> Interval[p]]
    /\ asked = {} /\ banners = {} /\ dismissed = FALSE /\ mcpShown = FALSE
    /\ mounts = 0 /\ changes = 0

-----------------------------------------------------------------------------
(* The scheduler.                                                          *)
Free(who) == {i \in 1..MaxInFlight : \A q \in asked : q.who = who => q.id # i}
Request(who, root) ==
    [who |-> who, root |-> root, seen |-> up[PollOf(who)],
     id |-> CHOOSE i \in Free(who) : TRUE]
Asker(p) == IF p = "mcp" THEN "mcp" ELSE "poll"
callback(p) == Request(Asker(p), 0)

Run(ps) ==
    /\ \A p \in ps : Free(Asker(p)) # {}
    /\ asked' = asked \cup {callback(p) : p \in ps}

\* Slip of onTick: every poll runs, due or not.
TickRunsAll(w, age) ==
    /\ wait' = [p \in Polls |-> IF p \in registered THEN Interval[p] ELSE w[p]]
    /\ idle' = [p \in Polls |-> IF p \in registered THEN 0 ELSE age[p]]
    /\ Run(registered)

\* w and age: what is left to wait, and how long each poll has been idle, now.
onTick(w, age) ==
    LET due == {p \in registered : w[p] = 0}
    IN /\ wait' = [p \in Polls |-> IF p \in due THEN Interval[p] ELSE w[p]]
       /\ idle' = [p \in Polls |-> IF p \in due THEN 0 ELSE age[p]]
       /\ Run(due)

\* The clock runs on while the page is hidden.
Tick ==
    LET w == [p \in Polls |-> IF wait[p] = 0 THEN 0 ELSE wait[p] - 1]
        age == [p \in Polls |-> IF idle[p] = Interval[p] THEN idle[p] ELSE idle[p] + 1]
    IN /\ registered # {}
       /\ IF hidden THEN wait' = w /\ idle' = age /\ asked' = asked ELSE onTick(w, age)
       /\ UNCHANGED <<up, registered, hidden, dom, mounts, changes>>

visibilitychange ==
    /\ hidden' = ~hidden
    /\ IF hidden THEN onTick(wait, idle) ELSE UNCHANGED <<wait, idle, asked>>
    /\ UNCHANGED <<up, registered, dom, mounts, changes>>

-----------------------------------------------------------------------------
(* The MCP indicator.                                                      *)
startMcpStatusPolling ==
    /\ "mcp" \notin registered
    /\ registered' = registered \cup {"mcp"}
    /\ wait' = [wait EXCEPT !["mcp"] = Interval["mcp"]]
    /\ IF hidden THEN UNCHANGED <<asked, idle>>
       ELSE Run({"mcp"}) /\ idle' = [idle EXCEPT !["mcp"] = 0]
    /\ UNCHANGED <<up, hidden, dom, mounts, changes>>

setMcpStatus(shown, ok) == ok

\* Whatever fails (the request, its status, its body) counts as down.
McpAnswers(q, ok) ==
    /\ q.who = "mcp"
    /\ mcpShown' = setMcpStatus(mcpShown, ok)
    /\ UNCHANGED <<banners, dismissed, registered, wait>>

-----------------------------------------------------------------------------
(* The Hermes banner.                                                      *)
NewRoot == CHOOSE r \in Roots : r \notin banners /\ \A q \in asked : q.root # r

mountHermesStatusBanner ==
    /\ mounts < Mounts /\ mounts' = mounts + 1
    /\ Free("mount") # {}
    /\ asked' = IF banners = {} THEN asked \cup {Request("mount", 0)} ELSE asked
    /\ UNCHANGED <<up, sched, dom, changes>>

\* Slip of HasHtml: a closed banner gets its markup again.
HtmlUnlessUp(ok) == ~ok

\* buildHermesBannerHtml gives markup, not null.
HasHtml(ok) == ~ok /\ ~dismissed

MountAnswers(q, ok) ==
    /\ q.who = "mount"
    /\ banners' = IF HasHtml(ok) THEN banners \cup {NewRoot} ELSE banners
    /\ registered' = registered \cup {"hermes"}
    /\ wait' = IF "hermes" \in registered THEN wait ELSE [wait EXCEPT !["hermes"] = 0]
    /\ UNCHANGED <<dismissed, mcpShown>>

\* getElementById finds the first banner of the document.
pollHermesBanner(q, ok) ==
    /\ q.who = "poll"
    /\ IF banners = {}
       THEN banners' = IF HasHtml(ok) THEN {NewRoot} ELSE {}
       ELSE \E existing \in banners :
                banners' = IF HasHtml(ok) THEN banners ELSE banners \ {existing}
    /\ UNCHANGED <<registered, wait, dismissed, mcpShown>>

clickClose(r) ==
    /\ r \in banners
    /\ dismissed' = TRUE /\ banners' = banners \ {r}
    /\ UNCHANGED <<up, sched, asked, mcpShown, mounts, changes>>

clickRefresh(r) ==
    /\ r \in banners /\ Free("refresh") # {}
    /\ asked' = asked \cup {Request("refresh", r)}
    /\ UNCHANGED <<up, sched, dom, mounts, changes>>

\* A banner that is no longer in the document stays out of it.
RefreshAnswers(q, ok) ==
    /\ q.who = "refresh"
    /\ banners' = IF ok THEN banners \ {q.root} ELSE banners
    /\ UNCHANGED <<registered, wait, dismissed, mcpShown>>

\* The server answered some time between the request and now.
Answers(q) ==
    \E ok \in {q.seen, up[PollOf(q.who)]} :
        /\ asked' = asked \ {q}
        /\ \/ McpAnswers(q, ok) \/ MountAnswers(q, ok)
           \/ pollHermesBanner(q, ok) \/ RefreshAnswers(q, ok)
        /\ UNCHANGED <<up, idle, hidden, mounts, changes>>

Change(p) ==
    /\ changes < MaxChanges /\ changes' = changes + 1
    /\ up' = [up EXCEPT ![p] = ~@]
    /\ UNCHANGED <<sched, asked, dom, mounts>>

Next ==
    \/ Tick \/ visibilitychange
    \/ startMcpStatusPolling \/ mountHermesStatusBanner
    \/ \E r \in Roots : clickClose(r) \/ clickRefresh(r)
    \/ \E q \in asked : Answers(q)
    \/ \E p \in Polls : Change(p)

AnswersTo(who, i) == \E q \in asked : q.who = who /\ q.id = i /\ Answers(q)

(* The interval timer ticks, requests are answered or time out, and the    *)
(* page starts its pollers; nothing is assumed of the user or the server.  *)
Spec == Init /\ [][Next]_vars
FairSpec ==
    /\ Spec /\ WF_vars(Tick)
    /\ WF_vars(startMcpStatusPolling) /\ WF_vars(mountHermesStatusBanner)
    /\ \A who \in Askers, i \in 1..MaxInFlight : WF_vars(AnswersTo(who, i))

-----------------------------------------------------------------------------

(* A banner the user closed does not come back in this session, whatever   *)
(* probes were in flight when it was closed.                               *)
DismissedStaysAway == dismissed => banners = {}

(* What is shown of a service is not what it is, while the page is visible. *)
Outdated ==
    /\ ~hidden
    /\ \/ "hermes" \in registered /\ up["hermes"] /\ banners # {}
       \/ "hermes" \in registered /\ ~up["hermes"] /\ ~dismissed /\ banners = {}
       \/ "mcp" \in registered /\ mcpShown # up["mcp"]

(* Hidden time is not caught up with: a callback that ran runs again only  *)
(* after its interval (of which a tick is the last part and showing the    *)
(* page is none), however often the page is hidden and shown, and one      *)
(* missed for many intervals runs once.                                    *)
NoBurst ==
    \A p \in registered :
        idle'[p] = 0 /\ idle[p] # 0 => idle[p] + (IF hidden' = hidden THEN 1 ELSE 0) >= Interval[p]

(* "Idempotent: calling twice does nothing the second time"                *)
(* (ui/hermesStatusBanner.ts:111).                                         *)
OneBanner == Cardinality(banners) <= 1
=============================================================================
