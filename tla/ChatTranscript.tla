--------------------------- MODULE ChatTranscript ---------------------------
(***************************************************************************)
(* ui/chat/: one transcript per agent, streamed into by the bridge, and    *)
(* one DOM container that shows one of them at a time.  The transcript     *)
(* lives in chatHistory and chatBuffers, which persist; the DOM holds its  *)
(* own copy and a reference to the bubble an agent is streaming into.      *)
(*                                                                         *)
(* A message is its role and, for an agent, how many chunks it holds; a    *)
(* user's is "text" or "empty".  Switching is one step: what it awaits is  *)
(* a module that is already loaded.                                        *)
(***************************************************************************)
EXTENDS Naturals, Sequences

CONSTANTS
    Units,
    H,              \* the unit closeChip falls back to
    MaxMessages,    \* messages of a transcript
    MaxChunks,      \* chunks of one answer
    Retry           \* does the user type /retry?

ChatTranscriptAssumption ==
    H \in Units /\ MaxMessages \in Nat /\ MaxChunks \in Nat /\ Retry \in BOOLEAN

None == "none"
User(text) == [role |-> "user", chunks |-> 0, text |-> text]
Agent(n) == [role |-> "agent", chunks |-> n, text |-> "text"]

VARIABLES
    history,        \* chatHistory: unit -> transcript, <<>> for no entry
    stored,         \* what localStorage holds of it
    buffer,         \* chatBuffers
    index,          \* currentAgentMessageIndex: 0 for no entry
    bubble,         \* currentAgentBubble: where the unit's bubble is
    active,         \* _activeChatUnit
    bound,          \* data-active-unit of the container
    dom,            \* the container's messages
    badges,         \* agentsWithNewMessages
    chips,          \* units with a chip
    closable,       \* those whose chip has a close button
    lastMsg,        \* repociv:lastMsg of each unit
    sent,           \* unit -> chunks since the user's last message
    unread          \* units with a chunk not shown since it came

vars == <<history, stored, buffer, index, bubble, active, bound, dom, badges,
          chips, closable, lastMsg, sent, unread>>
tabs == <<badges, chips, closable, unread>>

Message == {Agent(n) : n \in 0..MaxChunks} \cup {User("text"), User("empty")}

TypeOK ==
    /\ \A u \in Units : history[u] \in Seq(Message) /\ stored[u] \in Seq(Message)
    /\ \A u \in Units : index[u] \in 0..Len(history[u])
    /\ buffer \in [Units -> Nat] /\ sent \in [Units -> Nat]
    /\ bubble \in [Units -> {None, "attached", "detached"}]
    /\ active \in Units \cup {None} /\ bound \in Units \cup {None}
    /\ dom \in Seq([unit : Units, msg : Message, live : BOOLEAN])
    /\ badges \subseteq Units /\ chips \subseteq Units /\ unread \subseteq Units
    /\ closable \subseteq chips
    /\ lastMsg \in [Units -> {None, "text", "empty"}]

Init ==
    /\ history = [u \in Units |-> <<>>] /\ stored = history
    /\ buffer = [u \in Units |-> 0] /\ index = [u \in Units |-> 0]
    /\ bubble = [u \in Units |-> None]
    /\ active = None /\ bound = None /\ dom = <<>>
    /\ badges = {} /\ chips = {} /\ closable = {}
    /\ lastMsg = [u \in Units |-> None]
    /\ sent = [u \in Units |-> 0] /\ unread = {}

-----------------------------------------------------------------------------
isChatDomBoundTo(u) == bound = u /\ active = u

Rendered(u) == [i \in DOMAIN history[u] |-> [unit |-> u, msg |-> history[u][i], live |-> FALSE]]
Detach == [u \in Units |-> IF bubble[u] = "attached" THEN "detached" ELSE bubble[u]]

\* A chip made while its unit is active has no close button.
EnsureChip(u, isActive) ==
    /\ chips' = chips \cup {u}
    /\ closable' = IF u \in chips \/ isActive THEN closable ELSE closable \cup {u}

Render(u) ==
    /\ active' = u /\ bound' = u /\ dom' = Rendered(u)
    /\ bubble' = Detach
    /\ badges' = badges \ {u} /\ unread' = unread \ {u}
    /\ UNCHANGED <<history, stored, buffer, index, lastMsg, sent>>

\* A click on the active chip renders nothing.
switchToChatUnit(u) ==
    /\ u # active /\ u \in chips
    /\ Render(u) /\ UNCHANGED <<chips, closable>>

\* initAgentSelector makes the chips anew, then the switch is forced.
openSidePanel(u) ==
    /\ Render(u)
    /\ chips' = {v \in Units : history[v] # <<>>} \cup {u}
    /\ closable' = chips' \ {u}

-----------------------------------------------------------------------------

\* Slip of appendUserMessage: the buffer of the last answer goes on.
NoBufferReset(u, text) ==
    /\ Len(history[u]) + 2 <= MaxMessages
    /\ history' = [history EXCEPT ![u] = @ \o <<User(text), Agent(0)>>]
    /\ stored' = [stored EXCEPT ![u] = Append(history[u], User(text))]
    /\ buffer' = buffer
    /\ index' = [index EXCEPT ![u] = Len(history'[u])]
    /\ bubble' = [Detach EXCEPT ![u] = "attached"]
    /\ active' = u /\ bound' = u
    /\ dom' = Rendered(u) \o <<[unit |-> u, msg |-> User(text), live |-> FALSE],
                              [unit |-> u, msg |-> Agent(0), live |-> TRUE]>>
    /\ sent' = [sent EXCEPT ![u] = 0]

\* The message and an empty slot for the answer; the slot is stored with the
\* first chunk.  The caller has switched to u before.
appendUserMessage(u, text) ==
    /\ Len(history[u]) + 2 <= MaxMessages
    /\ history' = [history EXCEPT ![u] = @ \o <<User(text), Agent(0)>>]
    /\ stored' = [stored EXCEPT ![u] = Append(history[u], User(text))]
    /\ buffer' = [buffer EXCEPT ![u] = 0]
    /\ index' = [index EXCEPT ![u] = Len(history'[u])]
    /\ bubble' = [Detach EXCEPT ![u] = "attached"]
    /\ active' = u /\ bound' = u
    /\ dom' = Rendered(u) \o <<[unit |-> u, msg |-> User(text), live |-> FALSE],
                              [unit |-> u, msg |-> Agent(0), live |-> TRUE]>>
    /\ sent' = [sent EXCEPT ![u] = 0]

\* sendMessage from the moment it has switched to u with text in the input.
SendText(u, text) ==
    /\ appendUserMessage(u, text)
    /\ lastMsg' = [lastMsg EXCEPT ![u] = text]
    /\ EnsureChip(u, TRUE)
    /\ badges' = badges \ {u} /\ unread' = unread \ {u}

sendMessage(u) == SendText(u, "text")

\* /retry puts the last message in the input, calls sendMessage, which awaits
\* the switch before it reads the input, and clears the input meanwhile.
retry(u) ==
    /\ Retry /\ lastMsg[u] = "text"
    /\ SendText(u, "empty")

-----------------------------------------------------------------------------
WriteSlot(u, n) ==
    IF index[u] = 0 THEN UNCHANGED <<history, stored>>
    ELSE /\ history' = [history EXCEPT ![u][index[u]] = Agent(n)]
         /\ stored' = [stored EXCEPT ![u] = history'[u]]


\* ensureLiveAgentBubble, then the bubble shows the buffer.  A reference to a
\* bubble that left the document is kept, and written to.
ChunkToDom(u, n) ==
    LET at == CHOOSE i \in DOMAIN dom : dom[i].live /\ dom[i].unit = u
    IN IF bubble[u] = None
       THEN /\ bubble' = [bubble EXCEPT ![u] = "attached"]
            /\ dom' = Append(dom, [unit |-> u, msg |-> Agent(n), live |-> TRUE])
       ELSE /\ bubble' = bubble
            /\ dom' = IF bubble[u] = "attached" THEN [dom EXCEPT ![at].msg = Agent(n)] ELSE dom

Announce(u) ==
    /\ badges' = badges \cup {u} /\ unread' = unread \cup {u}
    /\ EnsureChip(u, active = u)
    /\ UNCHANGED <<bubble, dom>>

ShowChunk(u, n) ==
    IF isChatDomBoundTo(u) THEN ChunkToDom(u, n) /\ UNCHANGED tabs ELSE Announce(u)

appendChatChunk(u) ==
    LET n == buffer[u] + 1
    IN /\ n <= MaxChunks
       /\ buffer' = [buffer EXCEPT ![u] = n]
       /\ WriteSlot(u, n)
       /\ ShowChunk(u, n)
       /\ sent' = [sent EXCEPT ![u] = @ + 1]
       /\ UNCHANGED <<index, active, bound, lastMsg>>

-----------------------------------------------------------------------------
Forget(u) ==
    /\ history' = [history EXCEPT ![u] = <<>>] /\ stored' = [stored EXCEPT ![u] = <<>>]
    /\ buffer' = [buffer EXCEPT ![u] = 0] /\ index' = [index EXCEPT ![u] = 0]

\* /new
resetChatHistory(u) ==
    /\ active = u /\ Forget(u)
    /\ bubble' = [Detach EXCEPT ![u] = None]
    /\ dom' = <<>>
    /\ sent' = [sent EXCEPT ![u] = 0]
    /\ UNCHANGED <<active, bound, tabs, lastMsg>>

\* The unit left the game.
clearChat(u) ==
    /\ Forget(u)
    /\ IF active = u
       THEN active' = None /\ dom' = <<>> /\ bubble' = [Detach EXCEPT ![u] = None]
       ELSE UNCHANGED <<active, dom>> /\ bubble' = [bubble EXCEPT ![u] = None]
    /\ sent' = [sent EXCEPT ![u] = 0]
    /\ UNCHANGED <<bound, tabs, lastMsg>>

closeChip(u) ==
    LET others == chips \ {u}
    IN /\ u \in closable
       /\ Forget(u)
       /\ sent' = [sent EXCEPT ![u] = 0]
       /\ IF active # u
          THEN /\ bubble' = [bubble EXCEPT ![u] = None] /\ chips' = others
               /\ badges' = badges \ {u} /\ unread' = unread \ {u}
               /\ UNCHANGED <<active, bound, dom>>
          ELSE \E next \in IF others = {} THEN {H} ELSE others :
               /\ active' = next /\ bound' = next /\ dom' = Rendered(next)
               /\ bubble' = [Detach EXCEPT ![u] = None]
               /\ chips' = others \cup {next}
               /\ badges' = badges \ (IF others = {} THEN {u} ELSE {u, next})
               /\ unread' = unread \ {u, next}
       /\ closable' = closable \ {u}
       /\ lastMsg' = lastMsg

\* Only what is in localStorage survives; the chips come with the panel.
Reload ==
    /\ history' = stored /\ dom' = <<>> /\ bound' = None
    /\ index' = [u \in Units |-> 0] /\ bubble' = [u \in Units |-> None]
    /\ badges' = {} /\ chips' = {} /\ closable' = {} /\ unread' = {}
    /\ UNCHANGED <<stored, buffer, active, lastMsg, sent>>

Next ==
    \/ \E u \in Units : sendMessage(u) \/ retry(u) \/ appendChatChunk(u)
    \/ \E u \in Units : switchToChatUnit(u) \/ openSidePanel(u)
    \/ \E u \in Units : resetChatHistory(u) \/ clearChat(u) \/ closeChip(u)
    \/ Reload

Spec == Init /\ [][Next]_vars

-----------------------------------------------------------------------------
(* The shared container never mixes transcripts: every message it shows is *)
(* the bound unit's ("critical so SCOUT messages never append on top of    *)
(* MAIN's DOM").                                                           *)
DomPurity == \A i \in DOMAIN dom : dom[i].unit = bound

(* The answer being streamed holds exactly the chunks that came since the  *)
(* user's last message, whichever chat was on screen when they came.       *)
AnswerComplete == \A u \in Units : index[u] # 0 => history[u][index[u]] = Agent(sent[u])

(* A chunk that was not put on screen is announced until its chat is.      *)
UnreadHasBadge == unread \subseteq badges

(* What a reload restores is the transcript, but for the slot of an answer *)
(* that has not started.                                                   *)
StoredTranscript ==
    \A u \in Units : stored[u] = history[u] \/ Append(stored[u], Agent(0)) = history[u]

visibleMessages(ms) ==
    IF ms # <<>> /\ ms[Len(ms)] = Agent(0) THEN SubSeq(ms, 1, Len(ms) - 1) ELSE ms

---------------------------------------------------------------------------
(* What a document, a comment or a test says and this code does not keep    *)
(* (README, "Where the code differs").                                      *)

(* "A second presentation of the SAME transcript the side panel shows"     *)
(* (ui/localChat/feed.ts:2): the panel shows the transcript the feed reads.*)
SameTranscript ==
    active # None /\ bound = active =>
        visibleMessages([i \in DOMAIN dom |-> dom[i].msg]) = visibleMessages(history[active])

(* "Reenvía el último mensaje del usuario al agente"                       *)
(* (ui/chat/slashCommands.ts:265).                                         *)
RetryResends ==
    [][\A u \in Units : retry(u) => history'[u][Len(history'[u]) - 1] = User(lastMsg[u])]_vars
=============================================================================
