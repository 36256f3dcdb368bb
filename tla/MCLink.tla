------------------------------- MODULE MCLink -------------------------------
(***************************************************************************)
(* What keeps the page and the bridge together: the transport with its     *)
(* event streams, the polls of the status indicators, the banners of the   *)
(* notifications and the cards of the approvals.  None reads or changes    *)
(* the state of another, so a behaviour is one of them (part) while the    *)
(* others rest: the states of the four add up and do not multiply.         *)
(***************************************************************************)
EXTENDS Naturals, Sequences, FiniteSets

CONSTANTS
  Parts,    \* the parts that are checked
  MaxFlaps, MaxFaults, MaxHealth, MaxTimers,      \* of the transport
  Interval, MaxInFlight, MaxChanges, Mounts,      \* of the polls
  MaxBanners,                                     \* of the notifications
  Cmds, High, Trusted, MaxFetches, MaxLost           \* of the approvals

VARIABLES
  part,
  up, auth, c, discovering, health, snapshot, missed, copies, flaps, faults,
  services, registered, wait, hidden, asked, banners, dismissed, mcpShown, idle, mounts, changes,
  idSeq, queue, active, shown, handle, autos, exits, order,
  server, events, card, items, confirming, disabled, decisions, fetches, last, failures

(* The transport, the polls, the notifications, of which a banner may be    *)
(* closed at any time or only before it slides out, and the approvals.      *)
Bridge == INSTANCE BridgeClient
Polling == INSTANCE StatusPolling WITH up <- services
Banners == INSTANCE Notifications WITH ClickWhileLeaving <- TRUE
Patient == INSTANCE Notifications WITH ClickWhileLeaving <- FALSE
Cards == INSTANCE ApprovalUI WITH Auto <- Trusted, MaxFaults <- MaxLost, faults <- failures

(* Both polls are due at every second tick (every thirtieth and every tenth *)
(* in the code).                                                            *)
EveryOtherTick == [p \in {"hermes", "mcp"} |-> 2]

ASSUME Bounds ==
  /\ Bridge!BridgeClientAssumption /\ Polling!StatusPollingAssumption
  /\ Banners!NotificationsAssumption /\ Cards!ApprovalUIAssumption

bridgeVars == <<up, auth, c, discovering, health, snapshot, missed, copies, flaps, faults>>
pollingVars == <<services, registered, wait, hidden, asked, banners, dismissed, mcpShown, idle, mounts, changes>>
bannerVars == <<idSeq, queue, active, shown, handle, autos, exits, order>>
cardVars == <<server, events, card, items, confirming, disabled, decisions, fetches, last, failures>>

(* A part at rest has one initial state.                                    *)
Init ==
  /\ part \in Parts
  /\ Bridge!Init /\ (part # "bridge" => up /\ auth)
  /\ Polling!Init /\ (part # "polling" => ~hidden /\ services = [p \in Polling!Polls |-> TRUE])
  /\ IF part = "patient" THEN Patient!Init ELSE Banners!Init
  /\ Cards!Init

Next ==
  \/ part = "bridge" /\ Bridge!Next /\ UNCHANGED <<part, pollingVars, bannerVars, cardVars>>
  \/ part = "polling" /\ Polling!Next /\ UNCHANGED <<part, bridgeVars, bannerVars, cardVars>>
  \/ part = "banners" /\ Banners!Next /\ UNCHANGED <<part, bridgeVars, pollingVars, cardVars>>
  \/ part = "patient" /\ Patient!Next /\ UNCHANGED <<part, bridgeVars, pollingVars, cardVars>>
  \/ part = "cards" /\ Cards!Next /\ UNCHANGED <<part, bridgeVars, pollingVars, bannerVars>>

vars == <<part, bridgeVars, pollingVars, bannerVars, cardVars>>

Spec == Init /\ [][Next]_vars

---------------------------------------------------------------------------
(* Timers fire, requests are answered, connection attempts end and events   *)
(* are handled; no server has to flap and nobody has to click.              *)
InBridge(A) == part = "bridge" /\ A
InPolling(A) == part = "polling" /\ A
InBanners(A) == part = "banners" /\ A
InPatient(A) == part = "patient" /\ A
InCards(A) == part = "cards" /\ A

BridgeFair ==
  /\ WF_bridgeVars(InBridge(Bridge!DiscoverWs))
  /\ WF_bridgeVars(InBridge(Bridge!CheckHealth \/ Bridge!HealthAnswers))
  /\ WF_bridgeVars(InBridge(Bridge!Sync \/ Bridge!SnapshotAnswers))
  /\ WF_bridgeVars(InBridge(Bridge!WsOpens \/ Bridge!WsAnswers \/ Bridge!WsCloses \/ Bridge!WsRetries))
  /\ WF_bridgeVars(InBridge(\E s \in Bridge!Streams : Bridge!SseOpens(s) \/ Bridge!SseErrs(s)))
  /\ WF_bridgeVars(InBridge(\E t \in Bridge!Timers : Bridge!SseRetries(t)))

PollingFair ==
  /\ WF_pollingVars(InPolling(Polling!Tick))
  /\ WF_pollingVars(InPolling(Polling!startMcpStatusPolling))
  /\ WF_pollingVars(InPolling(Polling!mountHermesStatusBanner))
  /\ \A who \in Polling!Askers, i \in 1 .. MaxInFlight : WF_pollingVars(InPolling(Polling!AnswersTo(who, i)))

BannersFair ==
  \A b \in Banners!Banners :
    /\ WF_bannerVars(InBanners(Banners!autoDismiss(b))) /\ WF_bannerVars(InBanners(Banners!exitEnds(b)))
    /\ WF_bannerVars(InPatient(Patient!autoDismiss(b))) /\ WF_bannerVars(InPatient(Patient!exitEnds(b)))

CardsFair ==
  /\ WF_cardVars(InCards(Cards!HandleEvent)) /\ WF_cardVars(InCards(Cards!fetchApprovals))
  /\ WF_cardVars(InCards(\E f \in fetches : Cards!FetchAnswers(f)))
  /\ \A from \in {"card", "panel", "auto"} : WF_cardVars(InCards(Cards!DecisionGoesOn(from)))

FairSpec == Spec /\ BridgeFair /\ PollingFair /\ BannersFair /\ CardsFair

---------------------------------------------------------------------------
(* BridgeEvents never holds two event streams, never loses the reference to *)
(* one that is open, and holds none after stop(), although a reconnection   *)
(* timer whose handle was overwritten still fires.                          *)
OneStream ==
  part = "bridge" => Bridge!TypeOK /\ Bridge!OneStream /\ Bridge!StopClosesStreams

(* Notifications are shown in the order they were raised, none twice and    *)
(* none skipped, whichever dismissals overlap (notificationBanner.ts); a    *)
(* Hermes banner the user closed does not come back in this session,        *)
(* whatever probes were in flight then (hermesStatusBanner.ts).             *)
BannersKept ==
  /\ part = "banners" => Banners!TypeOK /\ Banners!ShownInOrder
  /\ part = "patient" => Patient!TypeOK /\ Patient!ShownInOrder /\ Patient!OneBanner
  /\ part = "polling" => Polling!TypeOK /\ Polling!DismissedStaysAway

(* "Approval cards display server-confirmed outcomes, never optimistic      *)
(* success" (approvalCards.ts): what a card says is what the server decided. *)
CardTruthful == part = "cards" => Cards!TypeOK /\ Cards!CardTruthful

(* The approval of a high-risk command is sent only on the second of two    *)
(* presses of approve, and a card that says expired keeps saying so         *)
(* (approvalCards.ts); a poll runs again only after its interval, and hidden *)
(* time is not caught up with (ui/pollScheduler.ts).                          *)
NothingTooSoon ==
  /\ Cards!ConfirmedTwice /\ Cards!ExpiredStays
  /\ [][part = "polling" => Polling!NoBurst]_vars

(* What the page owes is done: an event lost while no transport was up is   *)
(* made good by a snapshot, a banner or an indicator follows the service it *)
(* watches, a notification gets its turn, a banner leaves, a card whose     *)
(* command was decided loses its buttons even when the event of the         *)
(* decision is lost.  While the server stays up the indicator, which also   *)
(* gates send(), ends on online, though a health request issued before may  *)
(* fail after.                                                              *)
Owed ==
  \/ part = "bridge" /\ Bridge!Behind
  \/ part = "polling" /\ Polling!Outdated
  \/ part = "banners" /\ queue # <<>>
  \/ part = "patient" /\ shown # {}
  \/ part = "cards" /\ Cards!Undecided
Done ==
  \/ part = "bridge" /\ ~Bridge!Behind
  \/ part = "polling" /\ ~Polling!Outdated
  \/ part = "banners" /\ queue = <<>>
  \/ part = "patient" /\ shown = {}
  \/ part = "cards" /\ ~Cards!Undecided
Online == part = "bridge" => ~up \/ c.stopped \/ (c.online /\ ~c.demo)
NothingIsStuck == (Owed ~> Done) /\ <>[]Online
=============================================================================
