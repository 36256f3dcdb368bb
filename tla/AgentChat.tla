----------------------------- MODULE AgentChat -----------------------------
(***************************************************************************)
(* The chat of an external session in the agents panel                     *)
(* (src/ui/agentsPanel.ts): which session is open, its transcript, the     *)
(* composer and what is under way for it.  The view is rebuilt on every    *)
(* answer; a rebuild first takes back what the text box on screen holds.   *)
(* A text is named by the session it was written to.                       *)
(***************************************************************************)
EXTENDS Integers, FiniteSets

CONSTANTS
  Sessions,
  MaxVersion,  \* bound: how far a transcript grows
  MaxLoads,    \* bound: transcripts asked for at once
  MaxFlying,   \* bound: turns, and resume plans, under way at once
  Reopens      \* whether the panel is opened again while it is open (the F8 button of the strip)

ChatAssumption == MaxVersion \in Nat \ {0} /\ MaxLoads \in Nat /\ MaxFlying \in Nat /\ Reopens \in BOOLEAN

VARIABLES
  visible,   \* the panel is open
  chat,      \* the session whose chat is open (_chatSession)
  shown,     \* the transcript on screen: [of, version]
  box,       \* what the text box on screen holds, NoBox without one
  draft,     \* _draft
  sending,   \* _sending
  error,     \* the session whose send failed, as shown
  resume,    \* the session whose resume plan is shown
  polled,    \* the 15 s timer runs
  pending,   \* sessions to open once the list has come
  loads, sends, plans,  \* requests under way
  version    \* the bridge's transcripts

vars == <<visible, chat, shown, box, draft, sending, error, resume, polled, pending,
          loads, sends, plans, version>>
flying == <<loads, sends, plans>>

None == "none"
NoText == "empty"
NoBox == "no box"
Texts == Sessions \cup {NoText}

Init ==
  /\ visible = FALSE
  /\ chat = None
  /\ shown = [of |-> None, version |-> 0]
  /\ box = NoBox
  /\ draft = NoText
  /\ sending = FALSE
  /\ error = None
  /\ resume = None
  /\ polled = FALSE
  /\ pending = {}
  /\ loads = {} /\ sends = {} /\ plans = {}
  /\ version = [s \in Sessions |-> 1]

(* The view is rebuilt with d in _draft: a box on screen has the last word. *)
Rebuild(d) ==
  LET text == IF box # NoBox THEN box ELSE d
  IN  draft' = text /\ box' = text

renderList == box' = NoBox

loadChat(s) ==
  /\ Cardinality(loads) < MaxLoads
  /\ loads' = loads \cup {[of |-> s, since |-> version[s]]}

openChat(s) ==
  /\ chat' = s
  /\ shown' = [of |-> s, version |-> 0]
  /\ resume' = None /\ error' = None /\ sending' = FALSE
  /\ Rebuild(NoText)
  /\ loadChat(s)
  /\ polled' = TRUE

(* F8, the strip's F8 button, the toolbar.                                  *)
OpenPanel ==
  /\ ~visible \/ Reopens
  /\ visible' = TRUE
  /\ IF chat # None THEN Rebuild(draft) ELSE renderList /\ UNCHANGED draft
  /\ polled' = FALSE
  /\ UNCHANGED <<chat, shown, sending, error, resume, pending, flying, version>>

ClosePanel ==
  /\ visible
  /\ visible' = FALSE
  /\ polled' = FALSE
  /\ chat' = None
  /\ UNCHANGED <<shown, box, draft, sending, error, resume, pending, flying, version>>

(* A card of the list.                                                      *)
ClickCard(s) ==
  /\ visible /\ chat = None
  /\ openChat(s)
  /\ UNCHANGED <<visible, pending, sends, plans, version>>

(* The strip or the command palette asks for a session the page lists: the  *)
(* panel opens first, on its list, when it is closed.                       *)
OpenListed(s) ==
  /\ IF visible THEN openChat(s)
     ELSE /\ chat' = s
          /\ shown' = [of |-> s, version |-> 0]
          /\ resume' = None /\ error' = None /\ sending' = FALSE
          /\ draft' = NoText /\ box' = NoText
          /\ loadChat(s)
          /\ polled' = TRUE
  /\ visible' = TRUE
  /\ UNCHANGED <<pending, sends, plans, version>>

(* ... or one it does not list yet: the panel opens, the list is loaded.    *)
OpenUnlisted(s) ==
  /\ pending' = pending \cup {s}
  /\ visible' = TRUE
  /\ box' = IF visible THEN box ELSE NoBox
  /\ UNCHANGED <<chat, shown, draft, sending, error, resume, polled, flying, version>>

ListArrives(s) ==
  /\ s \in pending
  /\ pending' = pending \ {s}
  /\ openChat(s)
  /\ UNCHANGED <<visible, sends, plans, version>>

BackToList ==
  /\ visible /\ chat # None
  /\ chat' = None
  /\ resume' = None /\ error' = None /\ sending' = FALSE
  /\ draft' = NoText
  /\ renderList
  /\ polled' = FALSE
  /\ UNCHANGED <<visible, shown, pending, flying, version>>

\* Slip of Poll: only a chat of which nothing is shown yet is polled.
PollsOnceBehind ==
  /\ polled /\ chat # None /\ shown.version = 0
  /\ loadChat(chat)
  /\ Rebuild(draft)
  /\ UNCHANGED <<visible, chat, shown, sending, error, resume, polled, pending, sends, plans, version>>

Poll ==
  /\ polled /\ chat # None
  /\ loadChat(chat)
  /\ Rebuild(draft)
  /\ UNCHANGED <<visible, chat, shown, sending, error, resume, polled, pending, sends, plans, version>>

\* Slip of LoadAnswers: an answer for a chat that was left is shown.
MovedOnUnseen(load) ==
  /\ load \in loads
  /\ loads' = loads \ {load}
  /\ \E v \in load.since .. version[load.of] : shown' = [of |-> load.of, version |-> v]
  /\ IF chat = None THEN UNCHANGED <<draft, box>> ELSE Rebuild(draft)
  /\ UNCHANGED <<visible, chat, sending, error, resume, polled, pending, sends, plans, version>>

(* A transcript read at some moment between the request and now; or none.   *)
LoadAnswers(load) ==
  /\ load \in loads
  /\ loads' = loads \ {load}
  /\ IF chat # load.of THEN UNCHANGED <<shown, draft, box>>
     ELSE /\ \E v \in load.since .. version[load.of] : shown' = [of |-> load.of, version |-> v]
          /\ Rebuild(draft)
  /\ UNCHANGED <<visible, chat, sending, error, resume, polled, pending, sends, plans, version>>

LoadFails(load) ==
  /\ load \in loads
  /\ loads' = loads \ {load}
  /\ IF chat # load.of THEN UNCHANGED <<draft, box>> ELSE Rebuild(draft)
  /\ UNCHANGED <<visible, chat, shown, sending, error, resume, polled, pending, sends, plans, version>>

AskResume ==
  /\ chat # None /\ Cardinality(plans) < MaxFlying
  /\ plans' = plans \cup {chat}
  /\ UNCHANGED <<visible, chat, shown, box, draft, sending, error, resume, polled, pending, loads, sends, version>>

ResumeAnswers(s) ==
  /\ s \in plans
  /\ plans' = plans \ {s}
  /\ IF chat # s THEN UNCHANGED <<resume, draft, box>>
     ELSE resume' = s /\ Rebuild(draft)
  /\ UNCHANGED <<visible, chat, shown, sending, error, polled, pending, loads, sends, version>>

Type ==
  /\ visible /\ chat # None /\ box \notin {NoBox, chat} /\ ~sending
  /\ box' = chat /\ draft' = chat
  /\ UNCHANGED <<visible, chat, shown, sending, error, resume, polled, pending, flying, version>>

Send ==
  /\ visible /\ chat # None /\ draft # NoText /\ ~sending
  /\ Cardinality(sends) < MaxFlying
  /\ sending' = TRUE
  /\ error' = None
  /\ sends' = sends \cup {[to |-> chat, text |-> draft]}
  /\ Rebuild(draft)
  /\ UNCHANGED <<visible, chat, shown, resume, polled, pending, loads, plans, version>>

SendAnswers(msg, ok) ==
  /\ msg \in sends
  /\ sends' = sends \ {msg}
  /\ IF chat # msg.to THEN UNCHANGED <<sending, error, draft, box>>
     ELSE /\ sending' = FALSE
          /\ error' = IF ok THEN error ELSE msg.to
          /\ Rebuild(IF ok THEN NoText ELSE draft)
  /\ UNCHANGED <<visible, chat, shown, resume, polled, pending, loads, plans, version>>

(* The session's transcript grows.                                          *)
Grows(s) ==
  /\ version[s] < MaxVersion
  /\ version' = [version EXCEPT ![s] = @ + 1]
  /\ UNCHANGED <<visible, chat, shown, box, draft, sending, error, resume, polled, pending, flying>>

Next ==
  \/ OpenPanel \/ ClosePanel \/ BackToList \/ Poll \/ AskResume \/ Type \/ Send
  \/ \E s \in Sessions : \/ ClickCard(s) \/ OpenListed(s) \/ OpenUnlisted(s)
                         \/ ListArrives(s) \/ ResumeAnswers(s) \/ Grows(s)
  \/ \E load \in loads : LoadAnswers(load) \/ LoadFails(load)
  \/ \E msg \in sends, ok \in BOOLEAN : SendAnswers(msg, ok)

Spec == Init /\ [][Next]_vars

(* The timer goes on, a request is answered, and a transcript is not        *)
(* unreadable for ever.                                                     *)
FairSpec ==
  /\ Spec
  /\ WF_vars(Poll)
  /\ \A s \in Sessions, v \in 1 .. MaxVersion : SF_vars(LoadAnswers([of |-> s, since |-> v]))
  /\ \A to \in Sessions, text \in Sessions :
       WF_vars(\E ok \in BOOLEAN : SendAnswers([to |-> to, text |-> text], ok))

(***************************************************************************)
(* Properties.                                                             *)
(***************************************************************************)

TypeOK ==
  /\ chat \in Sessions \cup {None}
  /\ shown \in [of : Sessions \cup {None}, version : 0 .. MaxVersion]
  /\ box \in Texts \cup {NoBox}
  /\ draft \in Texts
  /\ {error, resume} \subseteq Sessions \cup {None}
  /\ pending \subseteq Sessions
  /\ sends \subseteq [to : Sessions, text : Sessions]

(* Whatever answers after the user moved on, nothing of another session is  *)
(* shown in the chat that is open: transcript, error or resume plan         *)
(* (agentsPanel.ts:245, 281, 457).                                          *)
ShownIsOurs ==
  chat # None => shown.of = chat /\ error \in {None, chat} /\ resume \in {None, chat}

---------------------------------------------------------------------------
(* What a document, a comment or a test says and this code does not keep    *)
(* (README, "Where the code differs").                                      *)

(* "The answer comes to the session's transcript, which the panel already   *)
(* polls": an open chat is polled.                                          *)
OpenChatIsPolled == chat # None => polled

(* "Send the draft as one turn over this session": what a session gets was  *)
(* written to it.                                                           *)
SentWhereTyped == \A msg \in sends : msg.text = msg.to
=============================================================================
