---------------------------- MODULE AgentsProofs ----------------------------
(***************************************************************************)
(* What MCAgents checks of the page's agents, for every number of units,   *)
(* sessions, runs, connections and hexes, and for every bound.  Each part  *)
(* is proved for its component under any constants c that meet the         *)
(* component's assumption: an invariant, that it holds at first, after a   *)
(* step and while the part rests, and the properties it implies.  The      *)
(* theorems at the end put the parts together.                             *)
(***************************************************************************)
EXTENDS MCAgents, FiniteSetTheorems, SequenceTheorems, TLAPS

---------------------------------------------------------------------------
(* The transcripts of the page's own units.                                 *)

Msgs(c) == Transcript(c)!Message
Bubbles(c) == [unit : c.units, msg : Msgs(c), live : BOOLEAN]

(* What is kept of each transcript: an answer under way is at the index,    *)
(* and its chunks are those in the buffer and those that came.              *)
SlotOf(c, u) ==
  /\ index[u] \in 0 .. Len(history[u])
  /\ index[u] # 0 => buffer[u] = sent[u] /\ history[u][index[u]] = Transcript(c)!Agent(sent[u])
  /\ stored[u] = history[u] \/ Append(stored[u], Transcript(c)!Agent(0)) = history[u]

SlotsTyped(c) ==
  /\ history \in [c.units -> Seq(Msgs(c))] /\ stored \in [c.units -> Seq(Msgs(c))]
  /\ index \in [c.units -> Nat] /\ buffer \in [c.units -> Nat] /\ sent \in [c.units -> Nat]
Slots(c) == SlotsTyped(c) /\ \A u \in c.units : SlotOf(c, u)

(* What is on screen, with the tabs above it.                               *)
Screen(c) ==
  /\ bubble \in [c.units -> {"none", "attached", "detached"}]
  /\ active \in c.units \cup {"none"} /\ bound \in c.units \cup {"none"}
  /\ dom \in Seq(Bubbles(c)) /\ Transcript(c)!DomPurity
  /\ badges \subseteq c.units /\ chips \subseteq c.units /\ unread \subseteq badges /\ closable \subseteq chips
  /\ lastMsg \in [c.units -> {"none", "text", "empty"}]

LEMMA MessagesTyped ==
  ASSUME NEW c, Transcript(c)!ChatTranscriptAssumption
  PROVE  /\ \A n \in 0 .. c.chunks : Transcript(c)!Agent(n) \in Msgs(c)
         /\ Transcript(c)!Agent(0) \in Msgs(c)
         /\ \A text \in {"text", "empty"} : Transcript(c)!User(text) \in Msgs(c)
<1>1. 0 \in 0 .. c.chunks
  BY DEF Transcript!ChatTranscriptAssumption
<1> QED BY <1>1 DEF Msgs, Transcript!Message

LEMMA SlotsStart ==
  ASSUME NEW c, Transcript(c)!Init
  PROVE  Slots(c)
<1>1. <<>> \in Seq(Msgs(c)) /\ Len(<<>>) = 0
  OBVIOUS
<1>2. SlotsTyped(c)
  BY <1>1 DEF Transcript!Init, SlotsTyped
<1> QED BY <1>1, <1>2 DEF Transcript!Init, Slots, SlotOf

(* A question and the slot of its answer.                                   *)
LEMMA Asks ==
  ASSUME NEW c, Transcript(c)!ChatTranscriptAssumption, Slots(c), NEW u \in c.units,
         NEW text \in {"text", "empty"}, Transcript(c)!appendUserMessage(u, text)
  PROVE  Slots(c)'
<1> DEFINE x == Transcript(c)!User(text)
           y == Transcript(c)!Agent(0)
<1>1. x \in Msgs(c) /\ y \in Msgs(c)
  BY MessagesTyped
<1>2. PICK h : h = history[u]
  OBVIOUS
<1>3. h \in Seq(Msgs(c)) /\ Len(h) \in Nat
  BY <1>2 DEF Slots, SlotsTyped
<1>4. /\ history' = [history EXCEPT ![u] = h \o <<x, y>>] /\ stored' = [stored EXCEPT ![u] = Append(h, x)]
      /\ buffer' = [buffer EXCEPT ![u] = 0] /\ index' = [index EXCEPT ![u] = Len(history'[u])]
      /\ sent' = [sent EXCEPT ![u] = 0]
  BY <1>2 DEF Transcript!appendUserMessage, Slots, SlotsTyped
<1> HIDE DEF x, y
<1>5. PICK pair, long, short : pair = <<x, y>> /\ long = h \o pair /\ short = Append(h, x)
  OBVIOUS
<1>6. pair \in Seq(Msgs(c)) /\ Len(pair) = 2 /\ pair[1] = x /\ pair[2] = y
  BY <1>1, <1>5
<1>7. /\ long \in Seq(Msgs(c)) /\ Len(long) = Len(h) + 2
      /\ \A i \in 1 .. Len(h) + 2 : long[i] = IF i <= Len(h) THEN h[i] ELSE pair[i - Len(h)]
  BY <1>3, <1>5, <1>6, ConcatProperties
<1>8. long[Len(h) + 1] = x /\ long[Len(h) + 2] = y
  BY <1>3, <1>6, <1>7
<1>9. /\ short \in Seq(Msgs(c)) /\ Len(short) = Len(h) + 1
      /\ \A i \in 1 .. Len(h) : short[i] = h[i]
      /\ short[Len(h) + 1] = x
  BY <1>1, <1>3, <1>5, AppendProperties
<1>10. Append(short, y) = long
  <2>1. PICK s : s = Append(short, y)
    OBVIOUS
  <2>2. /\ s \in Seq(Msgs(c)) /\ Len(s) = Len(short) + 1
        /\ \A i \in 1 .. Len(short) : s[i] = short[i]
        /\ s[Len(short) + 1] = y
    BY <1>1, <1>9, <2>1, AppendProperties
  <2>3. Len(s) = Len(long)
    BY <1>3, <1>7, <1>9, <2>2
  <2>4. ASSUME NEW i \in 1 .. Len(s) PROVE s[i] = long[i]
    <3>1. i \in 1 .. Len(h) \/ i = Len(h) + 1 \/ i = Len(h) + 2
      BY <1>3, <1>7, <2>3
    <3>2. CASE i \in 1 .. Len(h)
      BY <1>3, <1>7, <1>9, <2>2, <3>2
    <3>3. CASE i = Len(h) + 1
      BY <1>3, <1>8, <1>9, <2>2, <3>3
    <3>4. CASE i = Len(h) + 2
      BY <1>3, <1>8, <1>9, <2>2, <3>4
    <3> QED BY <3>1, <3>2, <3>3, <3>4
  <2>5. s = long
    BY <1>7, <2>2, <2>3, <2>4, SeqEqual
  <2> QED BY <2>1, <2>5
<1>11. history'[u] = long /\ stored'[u] = short /\ buffer'[u] = 0 /\ index'[u] = Len(h) + 2 /\ sent'[u] = 0
  BY <1>4, <1>5, <1>7 DEF Slots, SlotsTyped
<1>12. \A v \in c.units : v # u => /\ history'[v] = history[v] /\ stored'[v] = stored[v] /\ buffer'[v] = buffer[v]
                                   /\ index'[v] = index[v] /\ sent'[v] = sent[v]
  BY <1>4 DEF Slots, SlotsTyped
<1>13. SlotsTyped(c)'
  <2>1. Len(history'[u]) \in Nat
    BY <1>3, <1>7, <1>11
  <2> QED BY <1>4, <1>5, <1>7, <1>9, <2>1 DEF Slots, SlotsTyped
<1>14. SlotOf(c, u)'
  BY <1>3, <1>7, <1>8, <1>10, <1>11 DEF SlotOf, y
<1>15. ASSUME NEW v \in c.units, v # u PROVE SlotOf(c, v)'
  <2>1. SlotOf(c, v)
    BY DEF Slots
  <2> QED BY <1>12, <1>15, <2>1 DEF SlotOf
<1> QED BY <1>13, <1>14, <1>15 DEF Slots

(* A chunk.                                                                 *)
LEMMA Streams ==
  ASSUME NEW c, Transcript(c)!ChatTranscriptAssumption, Slots(c), NEW u \in c.units, Transcript(c)!appendChatChunk(u)
  PROVE  Slots(c)'
<1> DEFINE n == buffer[u] + 1
           x == Transcript(c)!Agent(n)
<1>1. /\ n <= c.chunks /\ buffer' = [buffer EXCEPT ![u] = n] /\ Transcript(c)!WriteSlot(u, n)
      /\ sent' = [sent EXCEPT ![u] = sent[u] + 1] /\ index' = index
  BY DEF Transcript!appendChatChunk, Slots, SlotsTyped
<1>2. n \in 0 .. c.chunks /\ n \in Nat /\ sent[u] + 1 \in Nat
  <2>1. buffer[u] \in Nat /\ sent[u] \in Nat
    BY DEF Slots, SlotsTyped
  <2>2. c.chunks \in Nat
    BY DEF Transcript!ChatTranscriptAssumption
  <2> QED BY <1>1, <2>1, <2>2
<1>3. x \in Msgs(c)
  BY <1>2, MessagesTyped
<1>4. /\ buffer'[u] = n /\ sent'[u] = sent[u] + 1
      /\ \A v \in c.units : v # u => buffer'[v] = buffer[v] /\ sent'[v] = sent[v]
      /\ buffer' \in [c.units -> Nat] /\ sent' \in [c.units -> Nat]
  BY <1>1, <1>2 DEF Slots, SlotsTyped
<1>5. CASE index[u] = 0
  <2>1. UNCHANGED <<history, stored>>
    BY <1>1, <1>5 DEF Transcript!WriteSlot
  <2>2. SlotsTyped(c)'
    BY <1>1, <1>4, <2>1 DEF Slots, SlotsTyped
  <2>3. \A v \in c.units : SlotOf(c, v)'
    BY <1>1, <1>4, <1>5, <2>1 DEF Slots, SlotOf
  <2> QED BY <2>2, <2>3 DEF Slots
<1>6. CASE index[u] # 0
  <2>1. PICK h, k : h = history[u] /\ k = index[u]
    OBVIOUS
  <2>2. h \in Seq(Msgs(c)) /\ k \in 1 .. Len(h) /\ buffer[u] = sent[u]
    BY <1>6, <2>1 DEF Slots, SlotsTyped, SlotOf
  <2>3. history' = [history EXCEPT ![u] = [h EXCEPT ![k] = x]] /\ stored' = [stored EXCEPT ![u] = history'[u]]
    BY <1>1, <1>6, <2>1 DEF Transcript!WriteSlot, Slots, SlotsTyped
  <2> HIDE DEF x
  <2>4. PICK w : w = [h EXCEPT ![k] = x]
    OBVIOUS
  <2>5. w \in Seq(Msgs(c)) /\ Len(w) = Len(h) /\ w[k] = x
    BY <1>3, <2>2, <2>4, ExceptSeq
  <2>6. /\ history'[u] = w /\ stored'[u] = w
        /\ \A v \in c.units : v # u => history'[v] = history[v] /\ stored'[v] = stored[v]
        /\ history' \in [c.units -> Seq(Msgs(c))] /\ stored' \in [c.units -> Seq(Msgs(c))]
    BY <2>3, <2>4, <2>5 DEF Slots, SlotsTyped
  <2>7. SlotsTyped(c)'
    BY <1>1, <1>4, <2>6 DEF Slots, SlotsTyped
  <2>8. SlotOf(c, u)'
    <3>1. index'[u] = k /\ k \in 0 .. Len(w) /\ w[k] = Transcript(c)!Agent(sent[u] + 1) /\ buffer'[u] = sent[u] + 1
      BY <1>1, <1>4, <2>1, <2>2, <2>5 DEF x
    <3>2. PICK m : m = sent'[u]
      OBVIOUS
    <3>3. /\ index'[u] \in 0 .. Len(history'[u]) /\ buffer'[u] = m /\ history'[u][index'[u]] = Transcript(c)!Agent(m)
          /\ stored'[u] = history'[u]
      BY <1>4, <2>6, <3>1, <3>2
    <3> QED BY <3>2, <3>3 DEF SlotOf
  <2>r. \A v \in c.units : v # u => /\ history'[v] = history[v] /\ stored'[v] = stored[v] /\ buffer'[v] = buffer[v]
                                    /\ index'[v] = index[v] /\ sent'[v] = sent[v]
    BY <1>1, <1>4, <2>6
  <2>9. ASSUME NEW v \in c.units, v # u PROVE SlotOf(c, v)'
    <3>1. SlotOf(c, v)
      BY DEF Slots
    <3> QED BY <2>r, <2>9, <3>1 DEF SlotOf
  <2> QED BY <2>7, <2>8, <2>9 DEF Slots
<1> QED BY <1>5, <1>6

LEMMA Forgets ==
  ASSUME NEW c, Slots(c), NEW u \in c.units, Transcript(c)!Forget(u), sent' = [sent EXCEPT ![u] = 0]
  PROVE  Slots(c)'
<1>1. <<>> \in Seq(Msgs(c)) /\ Len(<<>>) = 0 /\ 0 \in Nat
  OBVIOUS
<1>2. /\ history' = [history EXCEPT ![u] = <<>>] /\ stored' = [stored EXCEPT ![u] = <<>>]
      /\ buffer' = [buffer EXCEPT ![u] = 0] /\ index' = [index EXCEPT ![u] = 0]
  BY DEF Transcript!Forget
<1>3. SlotsTyped(c)'
  BY <1>1, <1>2 DEF Slots, SlotsTyped
<1>4. history'[u] = <<>> /\ stored'[u] = <<>> /\ index'[u] = 0
  BY <1>2 DEF Slots, SlotsTyped
<1>5. SlotOf(c, u)'
  BY <1>1, <1>4 DEF SlotOf
<1>6. \A v \in c.units : v # u => /\ history'[v] = history[v] /\ stored'[v] = stored[v] /\ buffer'[v] = buffer[v]
                                  /\ index'[v] = index[v] /\ sent'[v] = sent[v]
  BY <1>2 DEF Slots, SlotsTyped
<1>7. \A v \in c.units : v # u => SlotOf(c, v)'
  BY <1>6 DEF Slots, SlotOf
<1> QED BY <1>3, <1>5, <1>7 DEF Slots

LEMMA SlotsRest ==
  ASSUME NEW c, Slots(c), UNCHANGED <<history, stored, buffer, index, sent>>
  PROVE  Slots(c)'
BY DEF Slots, SlotsTyped, SlotOf

LEMMA Reloads ==
  ASSUME NEW c, Slots(c), Transcript(c)!Reload
  PROVE  Slots(c)'
<1>1. history' = stored /\ stored' = stored /\ index' = [u \in c.units |-> 0] /\ buffer' = buffer /\ sent' = sent
  BY DEF Transcript!Reload
<1>2. SlotsTyped(c)'
  BY <1>1 DEF Slots, SlotsTyped
<1>3. \A u \in c.units : Len(stored[u]) \in Nat
  BY DEF Slots, SlotsTyped
<1>4. \A u \in c.units : SlotOf(c, u)'
  BY <1>1, <1>3 DEF SlotOf
<1> QED BY <1>2, <1>4 DEF Slots

LEMMA RenderedTyped ==
  ASSUME NEW c, Slots(c), NEW u \in c.units
  PROVE  /\ Transcript(c)!Rendered(u) \in Seq(Bubbles(c))
         /\ Len(Transcript(c)!Rendered(u)) = Len(history[u])
         /\ \A i \in DOMAIN Transcript(c)!Rendered(u) : Transcript(c)!Rendered(u)[i].unit = u
<1>1. PICK h : h = history[u]
  OBVIOUS
<1>2. h \in Seq(Msgs(c)) /\ Len(h) \in Nat /\ DOMAIN h = 1 .. Len(h) /\ \A i \in 1 .. Len(h) : h[i] \in Msgs(c)
  <2>1. h \in Seq(Msgs(c))
    BY <1>1 DEF Slots, SlotsTyped
  <2> QED BY <2>1, LenProperties, ElementOfSeq
<1> DEFINE r == [i \in 1 .. Len(h) |-> [unit |-> u, msg |-> h[i], live |-> FALSE]]
<1>3. Transcript(c)!Rendered(u) = r
  BY <1>1, <1>2 DEF Transcript!Rendered
<1>4. \A i \in 1 .. Len(h) : r[i] \in Bubbles(c) /\ r[i].unit = u
  BY <1>2 DEF Bubbles
<1>5. r \in Seq(Bubbles(c)) /\ Len(r) = Len(h) /\ DOMAIN r = 1 .. Len(h)
  BY <1>2, <1>4, LenProperties
<1> HIDE DEF r
<1> QED BY <1>1, <1>3, <1>4, <1>5

LEMMA DetachTyped ==
  ASSUME NEW c, Screen(c), NEW u \in c.units, NEW k \in {"none", "attached"}
  PROVE  /\ Transcript(c)!Detach \in [c.units -> {"none", "attached", "detached"}]
         /\ [Transcript(c)!Detach EXCEPT ![u] = k] \in [c.units -> {"none", "attached", "detached"}]
         /\ [bubble EXCEPT ![u] = k] \in [c.units -> {"none", "attached", "detached"}]
BY DEF Screen, Transcript!Detach

(* One unit's transcript comes on screen.                                   *)
LEMMA ComesOnScreen ==
  ASSUME NEW c, Slots(c), Screen(c), NEW u \in c.units, Transcript(c)!Render(u),
         chips' \subseteq c.units, closable' \subseteq chips'
  PROVE  Screen(c)'
<1>1. dom' \in Seq(Bubbles(c)) /\ \A i \in DOMAIN dom' : dom'[i].unit = u
  <2>1. dom' = Transcript(c)!Rendered(u)
    BY DEF Transcript!Render
  <2> QED BY <2>1, RenderedTyped
<1>2. bubble' \in [c.units -> {"none", "attached", "detached"}]
  BY DetachTyped DEF Transcript!Render
<1>3. active' = u /\ bound' = u /\ badges' = badges \ {u} /\ unread' = unread \ {u} /\ lastMsg' = lastMsg
  BY DEF Transcript!Render
<1> QED BY <1>1, <1>2, <1>3 DEF Screen, Transcript!DomPurity

LEMMA ChipsTyped ==
  ASSUME NEW c, Screen(c), NEW u \in c.units, NEW isActive, Transcript(c)!EnsureChip(u, isActive)
  PROVE  chips' \subseteq c.units /\ closable' \subseteq chips'
BY DEF Screen, Transcript!EnsureChip

LEMMA QuestionShown ==
  ASSUME NEW c, Transcript(c)!ChatTranscriptAssumption, Slots(c), Screen(c), NEW u \in c.units,
         NEW text \in {"text", "empty"}, Transcript(c)!SendText(u, text)
  PROVE  Screen(c)'
<1> DEFINE x == [unit |-> u, msg |-> Transcript(c)!User(text), live |-> FALSE]
           y == [unit |-> u, msg |-> Transcript(c)!Agent(0), live |-> TRUE]
<1>1. x \in Bubbles(c) /\ y \in Bubbles(c) /\ x.unit = u /\ y.unit = u
  BY MessagesTyped DEF Bubbles
<1>2. PICK r : r = Transcript(c)!Rendered(u)
  OBVIOUS
<1>3. r \in Seq(Bubbles(c)) /\ \A i \in DOMAIN r : r[i].unit = u
  BY <1>2, RenderedTyped
<1>4. dom' = r \o <<x, y>> /\ active' = u /\ bound' = u
  BY <1>2 DEF Transcript!SendText, Transcript!appendUserMessage
<1> HIDE DEF x, y
<1>5. PICK pair, new : pair = <<x, y>> /\ new = r \o pair
  OBVIOUS
<1>6. pair \in Seq(Bubbles(c)) /\ Len(pair) = 2 /\ pair[1] = x /\ pair[2] = y
  BY <1>1, <1>5
<1>7. Len(r) \in Nat /\ DOMAIN r = 1 .. Len(r)
  BY <1>3, LenProperties
<1>8. /\ new \in Seq(Bubbles(c)) /\ Len(new) = Len(r) + 2
      /\ \A i \in 1 .. Len(r) + 2 : new[i] = IF i <= Len(r) THEN r[i] ELSE pair[i - Len(r)]
  BY <1>3, <1>5, <1>6, ConcatProperties
<1>9. DOMAIN new = 1 .. Len(r) + 2
  BY <1>8, LenProperties
<1>10. ASSUME NEW i \in DOMAIN new PROVE new[i].unit = u
  <2>1. i \in 1 .. Len(r) \/ (~(i <= Len(r)) /\ (i - Len(r) = 1 \/ i - Len(r) = 2))
    BY <1>7, <1>9
  <2>2. CASE i \in 1 .. Len(r)
    BY <1>3, <1>7, <1>8, <2>2
  <2>3. CASE ~(i <= Len(r)) /\ (i - Len(r) = 1 \/ i - Len(r) = 2)
    BY <1>1, <1>6, <1>8, <1>9, <2>3
  <2> QED BY <2>1, <2>2, <2>3
<1>11. dom' = new
  BY <1>4, <1>5
<1>12. bubble' \in [c.units -> {"none", "attached", "detached"}]
  BY DetachTyped DEF Transcript!SendText, Transcript!appendUserMessage
<1>13. chips' \subseteq c.units /\ closable' \subseteq chips'
  BY ChipsTyped DEF Transcript!SendText
<1>14. badges' = badges \ {u} /\ unread' = unread \ {u} /\ lastMsg' = [lastMsg EXCEPT ![u] = text]
  BY DEF Transcript!SendText
<1> QED BY <1>4, <1>8, <1>10, <1>11, <1>12, <1>13, <1>14 DEF Screen, Transcript!DomPurity

LEMMA ChunkShown ==
  ASSUME NEW c, Transcript(c)!ChatTranscriptAssumption, Slots(c), Screen(c), NEW u \in c.units,
         Transcript(c)!appendChatChunk(u)
  PROVE  Screen(c)'
<1> DEFINE n == buffer[u] + 1
<1>1. n <= c.chunks /\ Transcript(c)!ShowChunk(u, n) /\ UNCHANGED <<active, bound, lastMsg>>
  BY DEF Transcript!appendChatChunk
<1>2. n \in 0 .. c.chunks
  <2>1. buffer[u] \in Nat
    BY DEF Slots, SlotsTyped
  <2>2. c.chunks \in Nat
    BY DEF Transcript!ChatTranscriptAssumption
  <2> QED BY <1>1, <2>1, <2>2
<1>3. CASE ~Transcript(c)!isChatDomBoundTo(u)
  <2>1. Transcript(c)!Announce(u)
    BY <1>1, <1>3 DEF Transcript!ShowChunk
  <2>2. chips' \subseteq c.units /\ closable' \subseteq chips'
    BY <2>1, ChipsTyped DEF Transcript!Announce
  <2>3. badges' = badges \cup {u} /\ unread' = unread \cup {u} /\ UNCHANGED <<bubble, dom>>
    BY <2>1 DEF Transcript!Announce
  <2> QED BY <1>1, <2>2, <2>3 DEF Screen, Transcript!DomPurity
<1>4. CASE Transcript(c)!isChatDomBoundTo(u)
  <2>1. bound = u /\ Transcript(c)!ChunkToDom(u, n) /\ UNCHANGED <<badges, chips, closable, unread>>
    BY <1>1, <1>4 DEF Transcript!ShowChunk, Transcript!isChatDomBoundTo, Transcript!tabs
  <2> DEFINE x == [unit |-> u, msg |-> Transcript(c)!Agent(n), live |-> TRUE]
  <2>2. x \in Bubbles(c) /\ x.unit = u
    BY <1>2, MessagesTyped DEF Bubbles
  <2>3. PICK d : d = dom
    OBVIOUS
  <2>4. d \in Seq(Bubbles(c)) /\ \A i \in DOMAIN d : d[i].unit = u
    BY <2>1, <2>3 DEF Screen, Transcript!DomPurity
  <2>5. Len(d) \in Nat /\ DOMAIN d = 1 .. Len(d)
    BY <2>4, LenProperties
  <2>6. /\ dom' \in Seq(Bubbles(c)) /\ \A i \in DOMAIN dom' : dom'[i].unit = u
        /\ bubble' \in [c.units -> {"none", "attached", "detached"}]
    <3>1. CASE bubble[u] = "none"
      <4>1. bubble' = [bubble EXCEPT ![u] = "attached"] /\ dom' = Append(d, x)
        BY <2>1, <2>3, <3>1 DEF Transcript!ChunkToDom, Transcript!None
      <4> HIDE DEF x
      <4>2. PICK new : new = Append(d, x)
        OBVIOUS
      <4>3. /\ new \in Seq(Bubbles(c)) /\ Len(new) = Len(d) + 1
            /\ \A i \in 1 .. Len(d) : new[i] = d[i]
            /\ new[Len(d) + 1] = x
        BY <2>2, <2>4, <4>2, AppendProperties
      <4>4. DOMAIN new = 1 .. Len(d) + 1
        BY <4>3, LenProperties
      <4>5. \A i \in DOMAIN new : new[i].unit = u
        BY <2>2, <2>4, <2>5, <4>3, <4>4
      <4>6. bubble' \in [c.units -> {"none", "attached", "detached"}]
        BY <4>1, DetachTyped
      <4> QED BY <4>1, <4>2, <4>3, <4>5, <4>6
    <3>2. CASE bubble[u] # "none"
      <4>1. PICK at : bubble' = bubble /\ (dom' = d \/ dom' = [d EXCEPT ![at].msg = Transcript(c)!Agent(n)])
        BY <2>1, <2>3, <3>2 DEF Transcript!ChunkToDom, Transcript!None
      <4>2. PICK m : m = Transcript(c)!Agent(n)
        OBVIOUS
      <4>3. m \in Msgs(c)
        BY <1>2, <4>2, MessagesTyped
      <4>4. CASE dom' = d \/ at \notin DOMAIN d
        <5>1. dom' = d
          <6>1. d \in [1 .. Len(d) -> Bubbles(c)]
            BY <2>4, LenProperties
          <6> QED BY <2>5, <4>1, <4>4, <6>1
        <5> QED BY <2>4, <4>1, <5>1 DEF Screen
      <4>5. CASE dom' = [d EXCEPT ![at].msg = m] /\ at \in DOMAIN d
        <5>1. at \in 1 .. Len(d) /\ d[at] \in Bubbles(c) /\ d[at].unit = u
          BY <2>4, <2>5, <4>5, ElementOfSeq
        <5> DEFINE b == [d[at] EXCEPT !.msg = m]
        <5>2. b \in Bubbles(c) /\ b.unit = u
          BY <4>3, <5>1 DEF Bubbles
        <5>3. dom' = [d EXCEPT ![at] = b]
          BY <4>5
        <5> HIDE DEF b
        <5>4. PICK new : new = [d EXCEPT ![at] = b]
          OBVIOUS
        <5>5. /\ new \in Seq(Bubbles(c)) /\ Len(new) = Len(d)
              /\ \A j \in 1 .. Len(d) : new[j] = IF j = at THEN b ELSE d[j]
          BY <2>4, <5>1, <5>2, <5>4, ExceptSeq
        <5>6. DOMAIN new = 1 .. Len(d)
          BY <5>5, LenProperties
        <5>7. \A i \in DOMAIN new : new[i].unit = u
          BY <2>4, <2>5, <5>2, <5>5, <5>6
        <5> QED BY <4>1, <5>3, <5>4, <5>5, <5>7 DEF Screen
      <4> QED BY <4>1, <4>2, <4>4, <4>5
    <3> QED BY <3>1, <3>2
  <2> QED BY <1>1, <2>1, <2>6 DEF Screen, Transcript!DomPurity
<1> QED BY <1>3, <1>4

LEMMA ChipCloses ==
  ASSUME NEW c, Transcript(c)!ChatTranscriptAssumption, Slots(c), Screen(c), NEW u \in c.units, Transcript(c)!closeChip(u)
  PROVE  Screen(c)'
<1> DEFINE others == chips \ {u}
<1>1. closable' = closable \ {u} /\ lastMsg' = lastMsg /\ u \in closable
  BY DEF Transcript!closeChip
<1>2. CASE active # u
  <2>1. /\ bubble' = [bubble EXCEPT ![u] = "none"] /\ chips' = others
        /\ badges' = badges \ {u} /\ unread' = unread \ {u}
        /\ UNCHANGED <<active, bound, dom>>
    BY <1>2 DEF Transcript!closeChip, Transcript!None
  <2>2. bubble' \in [c.units -> {"none", "attached", "detached"}]
    BY <2>1, DetachTyped
  <2> QED BY <1>1, <2>1, <2>2 DEF Screen, Transcript!DomPurity
<1>3. CASE active = u
  <2>1. PICK next \in IF others = {} THEN {c.first} ELSE others :
          /\ active' = next /\ bound' = next /\ dom' = Transcript(c)!Rendered(next)
          /\ bubble' = [Transcript(c)!Detach EXCEPT ![u] = "none"]
          /\ chips' = others \cup {next}
          /\ badges' = badges \ (IF others = {} THEN {u} ELSE {u, next})
          /\ unread' = unread \ {u, next}
    BY <1>3 DEF Transcript!closeChip, Transcript!None
  <2>2. next \in c.units
    BY <2>1 DEF Transcript!ChatTranscriptAssumption, Screen
  <2>3. dom' \in Seq(Bubbles(c)) /\ \A i \in DOMAIN dom' : dom'[i].unit = next
    BY <2>1, <2>2, RenderedTyped
  <2>4. bubble' \in [c.units -> {"none", "attached", "detached"}]
    BY <2>1, DetachTyped
  <2>5. /\ badges' \subseteq c.units /\ unread' \subseteq badges' /\ chips' \subseteq c.units
        /\ closable' \subseteq chips'
    BY <1>1, <2>1, <2>2 DEF Screen
  <2> QED BY <1>1, <2>1, <2>2, <2>3, <2>4, <2>5 DEF Screen, Transcript!DomPurity
<1> QED BY <1>2, <1>3

(* One operation of the chat.                                               *)
TranscriptHolds(c) == Slots(c) /\ Screen(c)

LEMMA TranscriptStarts ==
  ASSUME NEW c, Transcript(c)!Init
  PROVE  TranscriptHolds(c)
<1>1. Screen(c)
  BY DEF Transcript!Init, Transcript!None, Screen, Transcript!DomPurity
<1> QED BY <1>1, SlotsStart DEF TranscriptHolds

LEMMA TranscriptStep ==
  ASSUME NEW c, Transcript(c)!ChatTranscriptAssumption, TranscriptHolds(c), Transcript(c)!Next
  PROVE  TranscriptHolds(c)'
<1> USE DEF TranscriptHolds
<1>1. ASSUME NEW u \in c.units, Transcript(c)!sendMessage(u) \/ Transcript(c)!retry(u) PROVE TranscriptHolds(c)'
  <2>1. PICK text \in {"text", "empty"} : Transcript(c)!SendText(u, text)
    BY <1>1 DEF Transcript!sendMessage, Transcript!retry
  <2>2. Slots(c)'
    BY <2>1, Asks DEF Transcript!SendText
  <2> QED BY <2>1, <2>2, QuestionShown
<1>2. ASSUME NEW u \in c.units, Transcript(c)!appendChatChunk(u) PROVE TranscriptHolds(c)'
  BY <1>2, Streams, ChunkShown
<1>3. ASSUME NEW u \in c.units, Transcript(c)!switchToChatUnit(u) PROVE TranscriptHolds(c)'
  <2>1. Transcript(c)!Render(u) /\ UNCHANGED <<chips, closable>>
    BY <1>3 DEF Transcript!switchToChatUnit
  <2>2. Slots(c)'
    BY <2>1, SlotsRest DEF Transcript!Render
  <2>3. chips' \subseteq c.units /\ closable' \subseteq chips'
    BY <2>1 DEF Screen
  <2> QED BY <2>1, <2>2, <2>3, ComesOnScreen
<1>4. ASSUME NEW u \in c.units, Transcript(c)!openSidePanel(u) PROVE TranscriptHolds(c)'
  <2>1. Transcript(c)!Render(u) /\ closable' = chips' \ {u} /\ chips' = {v \in c.units : history[v] # <<>>} \cup {u}
    BY <1>4 DEF Transcript!openSidePanel
  <2>2. Slots(c)'
    BY <2>1, SlotsRest DEF Transcript!Render
  <2>3. chips' \subseteq c.units /\ closable' \subseteq chips'
    BY <2>1
  <2> QED BY <2>1, <2>2, <2>3, ComesOnScreen
<1>5. ASSUME NEW u \in c.units, Transcript(c)!resetChatHistory(u) PROVE TranscriptHolds(c)'
  <2>1. Slots(c)'
    BY <1>5, Forgets DEF Transcript!resetChatHistory
  <2>2. bubble' \in [c.units -> {"none", "attached", "detached"}]
    BY <1>5, DetachTyped DEF Transcript!resetChatHistory, Transcript!None
  <2>3. dom' = <<>> /\ UNCHANGED <<active, bound, badges, chips, closable, unread, lastMsg>>
    BY <1>5 DEF Transcript!resetChatHistory, Transcript!tabs
  <2> QED BY <2>1, <2>2, <2>3 DEF Screen, Transcript!DomPurity
<1>6. ASSUME NEW u \in c.units, Transcript(c)!clearChat(u) PROVE TranscriptHolds(c)'
  <2>1. Slots(c)'
    BY <1>6, Forgets DEF Transcript!clearChat
  <2>2. bubble' \in [c.units -> {"none", "attached", "detached"}]
    BY <1>6, DetachTyped DEF Transcript!clearChat, Transcript!None
  <2>3. /\ (active' = "none" /\ dom' = <<>>) \/ UNCHANGED <<active, dom>>
        /\ UNCHANGED <<bound, badges, chips, closable, unread, lastMsg>>
    BY <1>6 DEF Transcript!clearChat, Transcript!tabs, Transcript!None
  <2>4. CASE active' = "none" /\ dom' = <<>>
    BY <2>1, <2>2, <2>3, <2>4 DEF Screen, Transcript!DomPurity
  <2>5. CASE UNCHANGED <<active, dom>>
    BY <2>1, <2>2, <2>3, <2>5 DEF Screen, Transcript!DomPurity
  <2> QED BY <2>3, <2>4, <2>5
<1>7. ASSUME NEW u \in c.units, Transcript(c)!closeChip(u) PROVE TranscriptHolds(c)'
  BY <1>7, Forgets, ChipCloses DEF Transcript!closeChip
<1>8. ASSUME Transcript(c)!Reload PROVE TranscriptHolds(c)'
  <2>1. Slots(c)'
    BY <1>8, Reloads
  <2>2. /\ dom' = <<>> /\ bound' = "none" /\ bubble' = [u \in c.units |-> "none"] /\ badges' = {} /\ chips' = {}
        /\ closable' = {} /\ unread' = {} /\ UNCHANGED <<active, lastMsg>>
    BY <1>8 DEF Transcript!Reload, Transcript!None
  <2> QED BY <2>1, <2>2 DEF Screen, Transcript!DomPurity
<1> QED BY <1>1, <1>2, <1>3, <1>4, <1>5, <1>6, <1>7, <1>8 DEF Transcript!Next

LEMMA TranscriptKept ==
  ASSUME NEW c, TranscriptHolds(c)
  PROVE  /\ Transcript(c)!TypeOK /\ Transcript(c)!DomPurity /\ Transcript(c)!AnswerComplete
         /\ Transcript(c)!UnreadHasBadge /\ Transcript(c)!StoredTranscript
<1>1. Transcript(c)!TypeOK
  BY DEF TranscriptHolds, Slots, SlotsTyped, SlotOf, Screen, Transcript!TypeOK, Transcript!None, Msgs, Bubbles
<1> QED BY <1>1 DEF TranscriptHolds, Slots, SlotOf, Screen, Transcript!AnswerComplete, Transcript!UnreadHasBadge,
                    Transcript!StoredTranscript

LEMMA TranscriptRests ==
  ASSUME NEW c, TranscriptHolds(c), UNCHANGED transcriptVars
  PROVE  TranscriptHolds(c)'
<1>1. Slots(c)'
  BY SlotsRest DEF transcriptVars, TranscriptHolds
<1> QED BY <1>1 DEF transcriptVars, TranscriptHolds, Screen, Transcript!DomPurity

---------------------------------------------------------------------------
(* The chat of an external session.                                         *)

(* What is under way concerns sessions of the page, and what was read of a  *)
(* transcript is at most what the transcript has become.                    *)
DialogHolds(c) ==
  /\ Dialog(c)!TypeOK
  /\ Dialog(c)!ShownIsOurs
  /\ loads \subseteq [of : c.sessions, since : 0 .. c.versions]
  /\ plans \subseteq c.sessions
  /\ version \in [c.sessions -> 0 .. c.versions]

LEMMA DialogStarts ==
  ASSUME NEW c, Dialog(c)!ChatAssumption, Dialog(c)!Init
  PROVE  DialogHolds(c)
<1>1. 0 \in 0 .. c.versions /\ 1 \in 0 .. c.versions
  BY DEF Dialog!ChatAssumption
<1>2. version \in [c.sessions -> 0 .. c.versions]
  BY <1>1 DEF Dialog!Init
<1>3. Dialog(c)!TypeOK
  BY <1>1 DEF Dialog!Init, Dialog!TypeOK, Dialog!Texts
<1>4. Dialog(c)!ShownIsOurs
  BY DEF Dialog!Init, Dialog!ShownIsOurs
<1> QED
  BY <1>2, <1>3, <1>4 DEF DialogHolds, Dialog!Init

(* A rebuild keeps a text on screen.                                        *)
LEMMA RebuildTypes ==
  ASSUME NEW c, Dialog(c)!TypeOK, NEW d \in Dialog(c)!Texts, Dialog(c)!Rebuild(d)
  PROVE  draft' \in Dialog(c)!Texts /\ box' \in Dialog(c)!Texts
BY DEF Dialog!TypeOK, Dialog!Rebuild

LEMMA AsksInTime ==
  ASSUME NEW c, DialogHolds(c), NEW s \in c.sessions, Dialog(c)!loadChat(s)
  PROVE  loads' \subseteq [of : c.sessions, since : 0 .. c.versions]
<1>1. version[s] \in 0 .. c.versions
  BY DEF DialogHolds
<1>2. [of |-> s, since |-> version[s]] \in [of : c.sessions, since : 0 .. c.versions]
  BY <1>1
<1> QED
  BY <1>2 DEF DialogHolds, Dialog!loadChat

LEMMA OpensChat ==
  ASSUME NEW c, Dialog(c)!ChatAssumption, DialogHolds(c), NEW s \in c.sessions, Dialog(c)!openChat(s),
         pending' \subseteq c.sessions, UNCHANGED <<sends, plans, version>>
  PROVE  DialogHolds(c)'
<1>1. draft' \in Dialog(c)!Texts /\ box' \in Dialog(c)!Texts
  BY RebuildTypes DEF DialogHolds, Dialog!openChat, Dialog!Texts
<1>2. loads' \subseteq [of : c.sessions, since : 0 .. c.versions]
  BY AsksInTime DEF Dialog!openChat
<1>3. shown' \in [of : c.sessions \cup {Dialog(c)!None}, version : 0 .. c.versions]
  BY DEF Dialog!ChatAssumption, Dialog!openChat
<1> QED
  BY <1>1, <1>2, <1>3 DEF DialogHolds, Dialog!openChat, Dialog!TypeOK, Dialog!ShownIsOurs

(* One action of the panel, of the bridge or of an answer.                  *)
LEMMA DialogStep ==
  ASSUME NEW c, Dialog(c)!ChatAssumption, DialogHolds(c), Dialog(c)!Next
  PROVE  DialogHolds(c)'
<1> USE DEF DialogHolds, Dialog!TypeOK, Dialog!ShownIsOurs, Dialog!flying
<1>0. Dialog(c)!NoText \in Dialog(c)!Texts /\ draft \in Dialog(c)!Texts
  BY DEF Dialog!Texts
<1>v. c.versions \in Nat /\ 0 \in 0 .. c.versions
  BY DEF Dialog!ChatAssumption
<1>1. ASSUME Dialog(c)!OpenPanel PROVE DialogHolds(c)'
  BY <1>1, <1>0, RebuildTypes DEF Dialog!OpenPanel, Dialog!renderList
<1>2. ASSUME Dialog(c)!ClosePanel PROVE DialogHolds(c)'
  BY <1>2 DEF Dialog!ClosePanel
<1>3. ASSUME Dialog(c)!BackToList PROVE DialogHolds(c)'
  BY <1>3, <1>0 DEF Dialog!BackToList, Dialog!renderList
<1>4. ASSUME Dialog(c)!Poll PROVE DialogHolds(c)'
  <2>1. chat \in c.sessions /\ Dialog(c)!loadChat(chat) /\ Dialog(c)!Rebuild(draft)
    BY <1>4 DEF Dialog!Poll
  <2>2. loads' \subseteq [of : c.sessions, since : 0 .. c.versions]
    BY <2>1, AsksInTime
  <2>3. draft' \in Dialog(c)!Texts /\ box' \in Dialog(c)!Texts
    BY <2>1, <1>0, RebuildTypes
  <2> QED BY <1>4, <2>2, <2>3 DEF Dialog!Poll
<1>5. ASSUME Dialog(c)!AskResume PROVE DialogHolds(c)'
  BY <1>5 DEF Dialog!AskResume
<1>6. ASSUME Dialog(c)!Type PROVE DialogHolds(c)'
  BY <1>6 DEF Dialog!Type, Dialog!Texts
<1>7. ASSUME Dialog(c)!Send PROVE DialogHolds(c)'
  <2>1. draft' \in Dialog(c)!Texts /\ box' \in Dialog(c)!Texts
    BY <1>7, <1>0, RebuildTypes DEF Dialog!Send
  <2>2. sends' \subseteq [to : c.sessions, text : c.sessions]
    BY <1>7 DEF Dialog!Send, Dialog!Texts
  <2> QED BY <1>7, <2>1, <2>2 DEF Dialog!Send
<1>8. ASSUME NEW s \in c.sessions,
             Dialog(c)!ClickCard(s) \/ Dialog(c)!OpenListed(s) \/ Dialog(c)!ListArrives(s)
      PROVE  DialogHolds(c)'
  <2>1. CASE Dialog(c)!openChat(s)
    <3>1. pending' \subseteq c.sessions /\ UNCHANGED <<sends, plans, version>>
      BY <1>8 DEF Dialog!ClickCard, Dialog!OpenListed, Dialog!ListArrives
    <3> QED BY <2>1, <3>1, OpensChat
  <2>2. CASE ~Dialog(c)!openChat(s)
    <3>1. /\ chat' = s /\ shown' = [of |-> s, version |-> 0] /\ Dialog(c)!loadChat(s)
          /\ resume' = Dialog(c)!None /\ error' = Dialog(c)!None
          /\ draft' = Dialog(c)!NoText /\ box' = Dialog(c)!NoText
          /\ UNCHANGED <<pending, sends, plans, version>>
      BY <1>8, <2>2 DEF Dialog!ClickCard, Dialog!OpenListed, Dialog!ListArrives
    <3>2. shown' \in [of : c.sessions \cup {Dialog(c)!None}, version : 0 .. c.versions]
      BY <3>1, <1>v
    <3>3. loads' \subseteq [of : c.sessions, since : 0 .. c.versions]
      BY <3>1, AsksInTime
    <3> QED BY <1>0, <3>1, <3>2, <3>3
  <2> QED BY <2>1, <2>2
<1>9. ASSUME NEW s \in c.sessions, Dialog(c)!OpenUnlisted(s) PROVE DialogHolds(c)'
  BY <1>9 DEF Dialog!OpenUnlisted
<1>10. ASSUME NEW s \in c.sessions, Dialog(c)!ResumeAnswers(s) PROVE DialogHolds(c)'
  <2>1. draft' \in Dialog(c)!Texts /\ box' \in Dialog(c)!Texts \cup {Dialog(c)!NoBox}
    BY <1>10, <1>0, RebuildTypes DEF Dialog!ResumeAnswers
  <2> QED BY <1>10, <2>1 DEF Dialog!ResumeAnswers
<1>11. ASSUME NEW s \in c.sessions, Dialog(c)!Grows(s) PROVE DialogHolds(c)'
  <2>1. version[s] + 1 \in 0 .. c.versions
    BY <1>11, <1>v DEF Dialog!Grows
  <2>2. version' \in [c.sessions -> 0 .. c.versions]
    BY <1>11, <2>1 DEF Dialog!Grows
  <2> QED BY <1>11, <2>2 DEF Dialog!Grows
<1>12. ASSUME NEW load \in loads, Dialog(c)!LoadAnswers(load) PROVE DialogHolds(c)'
  <2>1. draft' \in Dialog(c)!Texts /\ box' \in Dialog(c)!Texts \cup {Dialog(c)!NoBox}
    BY <1>12, <1>0, RebuildTypes DEF Dialog!LoadAnswers
  <2>2. load.of \in c.sessions /\ load.since \in 0 .. c.versions /\ version[load.of] \in 0 .. c.versions
    OBVIOUS
  <2>3. CASE chat = load.of
    <3>1. PICK v \in load.since .. version[load.of] : shown' = [of |-> load.of, version |-> v]
      BY <1>12, <2>3 DEF Dialog!LoadAnswers
    <3>2. v \in 0 .. c.versions
      BY <2>2, <3>1, <1>v
    <3> QED BY <1>12, <2>1, <2>2, <2>3, <3>1, <3>2 DEF Dialog!LoadAnswers
  <2>4. CASE chat # load.of
    BY <1>12, <2>1, <2>4 DEF Dialog!LoadAnswers
  <2> QED BY <2>3, <2>4
<1>13. ASSUME NEW load \in loads, Dialog(c)!LoadFails(load) PROVE DialogHolds(c)'
  <2>1. draft' \in Dialog(c)!Texts /\ box' \in Dialog(c)!Texts \cup {Dialog(c)!NoBox}
    BY <1>13, <1>0, RebuildTypes DEF Dialog!LoadFails
  <2> QED BY <1>13, <2>1 DEF Dialog!LoadFails
<1>14. ASSUME NEW msg \in sends, NEW ok \in BOOLEAN, Dialog(c)!SendAnswers(msg, ok) PROVE DialogHolds(c)'
  <2>1. draft' \in Dialog(c)!Texts /\ box' \in Dialog(c)!Texts \cup {Dialog(c)!NoBox}
    BY <1>14, <1>0, RebuildTypes DEF Dialog!SendAnswers
  <2>2. msg.to \in c.sessions
    OBVIOUS
  <2> QED BY <1>14, <2>1, <2>2 DEF Dialog!SendAnswers
<1> QED
  BY <1>1, <1>2, <1>3, <1>4, <1>5, <1>6, <1>7, <1>8, <1>9, <1>10, <1>11, <1>12, <1>13, <1>14 DEF Dialog!Next

(* The chat is not in this step.                                            *)
LEMMA DialogRests ==
  ASSUME NEW c, DialogHolds(c), UNCHANGED chatVars
  PROVE  DialogHolds(c)'
BY DEF DialogHolds, chatVars, Dialog!TypeOK, Dialog!ShownIsOurs

---------------------------------------------------------------------------
(* The list of sessions and the attention strip.                            *)

Doings == {"working", "thinking", "idle", "gone"}

(* The strip remembers its last inputs.  A session that a list shows at     *)
(* work is at work or has ended a turn since, and so has one that the list  *)
(* under way no longer shows at work.                                       *)
RosterHolds(c) ==
  /\ Roster(c)!TypeOK
  /\ Roster(c)!NoInvented
  /\ Roster(c)!PolledWhileUsed
  /\ answer \in [c.external -> Doings]
  /\ previous = IF "strip" \in listeners THEN Roster(c)!inputs(truth, rows) ELSE [a \in Roster(c)!Agents |-> "gone"]
  /\ \A s \in c.external : rows[s] = "working" => truth[s] = "working" \/ s \in ended
  /\ refreshing = "read" =>
       \A s \in c.external :
         /\ rows[s] = "working" /\ answer[s] # "working" => s \in ended
         /\ answer[s] = "working" => truth[s] = "working" \/ s \in ended
  /\ observed \cap c.own \subseteq unseen

LEMMA RosterStarts ==
  ASSUME NEW c, Roster(c)!Init
  PROVE  RosterHolds(c)
<1> USE DEF Roster!Init, Roster!Unavailable, Roster!Gone, Doings
<1>1. answer \in [c.external -> Doings] /\ rows = answer
  OBVIOUS
<1>2. Roster(c)!TypeOK
  BY DEF Roster!TypeOK, Roster!States
<1>3. Roster(c)!NoInvented /\ Roster(c)!PolledWhileUsed
  BY DEF Roster!NoInvented, Roster!PolledWhileUsed
<1>4. \A s \in c.external : rows[s] # "working" /\ refreshing # "read"
  BY DEF Roster!Idle
<1> QED BY <1>1, <1>2, <1>3, <1>4 DEF RosterHolds

LEMMA InputsTyped ==
  ASSUME NEW c, NEW world \in [Roster(c)!Agents -> Doings], NEW list \in [c.external -> Doings]
  PROVE  /\ Roster(c)!inputs(world, list) \in [Roster(c)!Agents -> Doings]
         /\ \A a \in c.own : Roster(c)!inputs(world, list)[a] = world[a]
         /\ Roster(c)!DirectoryAssumption => \A s \in c.external : Roster(c)!inputs(world, list)[s] = list[s]
BY DEF Roster!inputs, Roster!Agents, Roster!DirectoryAssumption

(* What the strip makes of its inputs, when whoever they show idle that it  *)
(* knew at work has ended a turn.                                           *)
LEMMA Updates ==
  ASSUME NEW c, Roster(c)!DirectoryAssumption, RosterHolds(c),
         NEW in \in [Roster(c)!Agents -> Doings], ended \subseteq ended',
         \A a \in Roster(c)!Agents : previous[a] = "working" /\ in[a] = "idle" => a \in ended',
         Roster(c)!update(in)
  PROVE  /\ unseen' \subseteq ended' /\ unseen' \subseteq Roster(c)!Agents
         /\ previous' = in /\ observed' \cap c.own \subseteq unseen'
<1>1. unseen' \subseteq ended' /\ unseen' \subseteq Roster(c)!Agents /\ previous' = in
  BY DEF RosterHolds, Roster!NoInvented, Roster!update
<1>2. ASSUME NEW a \in observed' \cap c.own PROVE a \in unseen'
  <2>1. a \notin c.external /\ a \in Roster(c)!Agents
    BY DEF Roster!DirectoryAssumption, Roster!Agents
  <2>2. in[a] \in {"thinking", "idle"}
    BY <2>1, <1>2 DEF Roster!update, Roster!Gone, Doings
  <2> QED BY <1>2, <2>1, <2>2 DEF Roster!update, RosterHolds
<1> QED BY <1>1, <1>2

(* The strip draws what it is given, if it is there.                        *)
LEMMA Renders ==
  ASSUME NEW c, Roster(c)!DirectoryAssumption, RosterHolds(c), listeners' = listeners,
         truth' \in [Roster(c)!Agents -> Doings], rows' \in [c.external -> Doings], ended \subseteq ended',
         \A a \in Roster(c)!Agents :
           "strip" \in listeners /\ previous[a] = "working" =>
             Roster(c)!inputs(truth', rows')[a] # "idle" \/ a \in ended',
         Roster(c)!render(Roster(c)!inputs(truth', rows'))
  PROVE  /\ unseen' \subseteq ended' /\ unseen' \subseteq Roster(c)!Agents
         /\ previous' = IF "strip" \in listeners' THEN Roster(c)!inputs(truth', rows')
                        ELSE [a \in Roster(c)!Agents |-> "gone"]
         /\ observed' \cap c.own \subseteq unseen'
<1> DEFINE in == Roster(c)!inputs(truth', rows')
<1>1. in \in [Roster(c)!Agents -> Doings]
  BY InputsTyped
<1>2. CASE "strip" \in listeners
  <2>1. Roster(c)!update(in)
    BY <1>2 DEF Roster!render
  <2> HIDE DEF in
  <2>2. \A a \in Roster(c)!Agents : previous[a] = "working" /\ in[a] = "idle" => a \in ended'
    BY <1>2 DEF in
  <2>3. /\ unseen' \subseteq ended' /\ unseen' \subseteq Roster(c)!Agents
        /\ previous' = in /\ observed' \cap c.own \subseteq unseen'
    BY <1>1, <2>1, <2>2, Updates
  <2> QED BY <1>2, <2>3 DEF in
<1>3. CASE "strip" \notin listeners
  BY <1>3 DEF Roster!render, RosterHolds, Roster!NoInvented, Roster!TypeOK
<1> QED BY <1>2, <1>3

(* An agent works, is busy, rests, leaves or comes back.                    *)
LEMMA RosterMoves ==
  ASSUME NEW c, Roster(c)!DirectoryAssumption, RosterHolds(c),
         NEW a \in Roster(c)!Agents, NEW st \in Doings, Roster(c)!Moves(a, st)
  PROVE  RosterHolds(c)'
<1>1. /\ truth' = [truth EXCEPT ![a] = st] /\ truth[a] # st
      /\ ended' = IF truth[a] = "working" THEN ended \cup {a} ELSE ended
      /\ UNCHANGED <<refreshing, listeners, answer, rows, timer, panel, blocked, faults>>
  BY DEF Roster!Moves
<1>2. truth \in [Roster(c)!Agents -> Doings] /\ rows \in [c.external -> Doings]
  BY DEF RosterHolds, Roster!TypeOK, Roster!States, Roster!Gone, Doings
<1>3. truth' \in [Roster(c)!Agents -> Doings] /\ rows' \in [c.external -> Doings]
  BY <1>1, <1>2
<1>4. ended \subseteq ended' /\ \A b \in Roster(c)!Agents : truth[b] = "working" /\ truth'[b] # "working" => b \in ended'
  BY <1>1, <1>2
<1>5. /\ unseen' \subseteq ended' /\ unseen' \subseteq Roster(c)!Agents
      /\ previous' = IF "strip" \in listeners' THEN Roster(c)!inputs(truth', rows')
                     ELSE [b \in Roster(c)!Agents |-> "gone"]
      /\ observed' \cap c.own \subseteq unseen'
  <2>1. CASE a \in c.own
    <3>1. Roster(c)!render(Roster(c)!inputs(truth', rows'))
      BY <2>1, <1>1 DEF Roster!Moves
    <3>2. ASSUME NEW b \in Roster(c)!Agents, "strip" \in listeners, previous[b] = "working",
                 Roster(c)!inputs(truth', rows')[b] = "idle"
          PROVE  b \in ended'
      <4>1. previous = Roster(c)!inputs(truth, rows)
        BY <3>2 DEF RosterHolds
      <4>2. CASE b \in c.own
        BY <4>1, <4>2, <3>2, <1>4 DEF Roster!inputs
      <4>3. CASE b \notin c.own
        BY <4>1, <4>3, <3>2, <1>1 DEF Roster!inputs
      <4> QED BY <4>2, <4>3
    <3> QED BY <1>1, <1>3, <1>4, <3>1, <3>2, Renders
  <2>2. CASE a \notin c.own
    <3>1. UNCHANGED <<previous, unseen, observed>>
      BY <2>2 DEF Roster!Moves
    <3>2. Roster(c)!inputs(truth', rows') = Roster(c)!inputs(truth, rows)
      BY <2>2, <1>1, <1>2 DEF Roster!inputs
    <3> QED BY <3>1, <3>2, <1>1, <1>4 DEF RosterHolds, Roster!NoInvented, Roster!TypeOK
  <2> QED BY <2>1, <2>2
<1>6. Roster(c)!TypeOK'
  <2>1. previous' \in [Roster(c)!Agents -> Doings]
    BY <1>3, <1>5, InputsTyped DEF Doings
  <2>2. Doings = Roster(c)!States \cup {Roster(c)!Gone}
    BY DEF Roster!States, Roster!Gone, Doings
  <2>3. listeners' \subseteq {"strip", "panel"} /\ blocked' \subseteq c.own
    BY <1>1 DEF RosterHolds, Roster!TypeOK
  <2> QED BY <1>3, <1>5, <2>1, <2>2, <2>3 DEF Roster!TypeOK
<1>7. \A s \in c.external : s \in Roster(c)!Agents
  BY DEF Roster!Agents
<1>8. \A s \in c.external : truth[s] = "working" \/ s \in ended => truth'[s] = "working" \/ s \in ended'
  BY <1>4, <1>7
<1> QED BY <1>1, <1>4, <1>5, <1>6, <1>8 DEF RosterHolds, Roster!NoInvented, Roster!PolledWhileUsed

(* The strip binds, or the panel opens.                                     *)
LEMMA RosterSubscribes ==
  ASSUME NEW c, Roster(c)!DirectoryAssumption, RosterHolds(c),
         NEW who \in {"strip", "panel"}, Roster(c)!Subscribe(who)
  PROVE  RosterHolds(c)'
<1>1. /\ who \notin listeners /\ listeners' = listeners \cup {who} /\ timer' = TRUE
      /\ UNCHANGED <<answer, truth, rows, blocked, faults, ended>>
      /\ refreshing' = refreshing \/ refreshing' = "asked"
  BY DEF Roster!Subscribe, Roster!Ask, Roster!Asked
<1>2. truth \in [Roster(c)!Agents -> Doings] /\ rows \in [c.external -> Doings]
  BY DEF RosterHolds, Roster!TypeOK, Roster!States, Roster!Gone, Doings
<1>3. Roster(c)!inputs(truth, rows) \in [Roster(c)!Agents -> Doings]
  BY <1>2, InputsTyped
<1>4. /\ unseen' \subseteq ended' /\ unseen' \subseteq Roster(c)!Agents
      /\ previous' = IF "strip" \in listeners' THEN Roster(c)!inputs(truth', rows')
                     ELSE [a \in Roster(c)!Agents |-> "gone"]
      /\ observed' \cap c.own \subseteq unseen'
  <2>1. CASE who = "strip"
    <3>1. Roster(c)!update(Roster(c)!inputs(truth, rows))
      BY <2>1, <1>1 DEF Roster!Subscribe, Roster!render
    <3>2. \A a \in Roster(c)!Agents : previous[a] # "working"
      BY <2>1, <1>1 DEF RosterHolds
    <3> QED BY <2>1, <1>1, <1>3, <3>1, <3>2, Updates
  <2>2. CASE who = "panel"
    BY <2>2, <1>1 DEF Roster!Subscribe, RosterHolds, Roster!NoInvented, Roster!TypeOK
  <2> QED BY <2>1, <2>2
<1>5. previous' \in [Roster(c)!Agents -> Doings]
  BY <1>1, <1>3, <1>4 DEF Doings
<1>6. Roster(c)!TypeOK'
  BY <1>1, <1>4, <1>5 DEF RosterHolds, Roster!TypeOK, Roster!States, Roster!Gone, Doings
<1> QED BY <1>1, <1>4, <1>6 DEF RosterHolds, Roster!NoInvented, Roster!PolledWhileUsed

(* A refresh ends: with what the bridge read, or with nothing.              *)
LEMMA RosterRefreshed ==
  ASSUME NEW c, Roster(c)!DirectoryAssumption, RosterHolds(c),
         NEW list \in [c.external -> Doings], Roster(c)!Refreshed(list), refreshing' = "no refresh",
         \A s \in c.external :
           /\ rows[s] = "working" /\ list[s] = "idle" => s \in ended
           /\ list[s] = "working" => truth[s] = "working" \/ s \in ended
  PROVE  RosterHolds(c)'
<1>1. rows' = list /\ UNCHANGED <<listeners, truth, timer, answer, blocked, ended>>
  BY DEF Roster!Refreshed
<1>2. truth \in [Roster(c)!Agents -> Doings] /\ rows \in [c.external -> Doings]
  BY DEF RosterHolds, Roster!TypeOK, Roster!States, Roster!Gone, Doings
<1>3. Roster(c)!render(Roster(c)!inputs(truth', rows'))
  BY <1>1 DEF Roster!Refreshed
<1>4. ASSUME NEW a \in Roster(c)!Agents, "strip" \in listeners, previous[a] = "working",
             Roster(c)!inputs(truth', rows')[a] = "idle"
      PROVE  a \in ended'
  <2>1. previous = Roster(c)!inputs(truth, rows)
    BY <1>4 DEF RosterHolds
  <2>2. CASE a \in c.own
    BY <2>1, <2>2, <1>1, <1>4 DEF Roster!inputs
  <2>3. CASE a \notin c.own
    BY <2>1, <2>3, <1>1, <1>4 DEF Roster!inputs, Roster!Agents
  <2> QED BY <2>2, <2>3
<1>5. /\ unseen' \subseteq ended' /\ unseen' \subseteq Roster(c)!Agents
      /\ previous' = IF "strip" \in listeners' THEN Roster(c)!inputs(truth', rows')
                     ELSE [a \in Roster(c)!Agents |-> "gone"]
      /\ observed' \cap c.own \subseteq unseen'
  BY <1>1, <1>2, <1>3, <1>4, Renders
<1>6. previous' \in [Roster(c)!Agents -> Doings]
  BY <1>1, <1>2, <1>5, InputsTyped DEF Doings
<1>7. Roster(c)!TypeOK'
  BY <1>1, <1>2, <1>5, <1>6 DEF RosterHolds, Roster!TypeOK, Roster!States, Roster!Gone, Doings
<1> QED BY <1>1, <1>5, <1>7 DEF RosterHolds, Roster!NoInvented, Roster!PolledWhileUsed

LEMMA RosterStep ==
  ASSUME NEW c, Roster(c)!DirectoryAssumption, RosterHolds(c), Roster(c)!Next
  PROVE  RosterHolds(c)'
<1>1. truth \in [Roster(c)!Agents -> Doings] /\ rows \in [c.external -> Doings]
  BY DEF RosterHolds, Roster!TypeOK, Roster!States, Roster!Gone, Doings
<1>2. ASSUME NEW a \in Roster(c)!Agents, NEW st \in Roster(c)!States \cup {Roster(c)!Gone}, Roster(c)!Moves(a, st)
      PROVE  RosterHolds(c)'
  <2>1. st \in Doings
    BY DEF Roster!States, Roster!Gone, Doings
  <2> QED BY <1>2, <2>1, RosterMoves
<1>3. ASSUME NEW who \in {"strip", "panel"}, Roster(c)!Subscribe(who) PROVE RosterHolds(c)'
  BY <1>3, RosterSubscribes
<1>4. ASSUME Roster(c)!Unsubscribe PROVE RosterHolds(c)'
  <2>1. "strip" \in listeners' <=> "strip" \in listeners
    BY <1>4 DEF Roster!Unsubscribe
  <2> QED BY <1>4, <2>1 DEF Roster!Unsubscribe, RosterHolds, Roster!TypeOK, Roster!NoInvented, Roster!PolledWhileUsed
<1>5. ASSUME Roster(c)!Tick PROVE RosterHolds(c)'
  BY <1>5 DEF Roster!Tick, Roster!Asked, RosterHolds, Roster!TypeOK, Roster!NoInvented, Roster!PolledWhileUsed
<1>6. ASSUME Roster(c)!Reads PROVE RosterHolds(c)'
  <2>1. /\ answer' = [s \in c.external |-> truth[s]] /\ refreshing' = "read"
        /\ UNCHANGED <<truth, rows, listeners, timer, panel, previous, unseen, blocked, faults, ended, observed>>
    BY <1>6 DEF Roster!Reads, Roster!Read
  <2>2. answer' \in [c.external -> Doings]
    BY <2>1, <1>1 DEF Roster!Agents
  <2> QED BY <2>1, <2>2 DEF RosterHolds, Roster!TypeOK, Roster!NoInvented, Roster!PolledWhileUsed
<1>7. ASSUME Roster(c)!Answers PROVE RosterHolds(c)'
  <2>1. Roster(c)!Refreshed(answer) /\ refreshing = "read" /\ refreshing' = "no refresh"
    BY <1>7 DEF Roster!Answers, Roster!Read, Roster!Idle
  <2>2. answer \in [c.external -> Doings] /\ \A s \in c.external :
          /\ rows[s] = "working" /\ answer[s] = "idle" => s \in ended
          /\ answer[s] = "working" => truth[s] = "working" \/ s \in ended
    BY <2>1 DEF RosterHolds
  <2> QED BY <2>1, <2>2, RosterRefreshed
<1>8. ASSUME Roster(c)!Fails PROVE RosterHolds(c)'
  <2> DEFINE none == Roster(c)!Unavailable
  <2>1. Roster(c)!Refreshed(none) /\ refreshing' = "no refresh"
    BY <1>8 DEF Roster!Fails, Roster!Idle
  <2>2. none \in [c.external -> Doings] /\ \A s \in c.external : none[s] = "gone"
    BY DEF Roster!Unavailable, Roster!Gone, Doings
  <2> HIDE DEF none
  <2> QED BY <2>1, <2>2, RosterRefreshed
<1>9. ASSUME NEW a \in Roster(c)!Agents, Roster(c)!Review(a) PROVE RosterHolds(c)'
  BY <1>9 DEF Roster!Review, RosterHolds, Roster!TypeOK, Roster!NoInvented, Roster!PolledWhileUsed
<1>10. ASSUME NEW waiting \in SUBSET c.own, Roster(c)!Approvals(waiting) PROVE RosterHolds(c)'
  <2>1. /\ UNCHANGED <<listeners, answer, truth, rows, refreshing, timer, ended>> /\ blocked' = waiting
        /\ Roster(c)!render(Roster(c)!inputs(truth', rows'))
    BY <1>10 DEF Roster!Approvals
  <2>2. "strip" \in listeners => previous = Roster(c)!inputs(truth', rows')
    BY <2>1 DEF RosterHolds
  <2>3. /\ unseen' \subseteq ended' /\ unseen' \subseteq Roster(c)!Agents
        /\ previous' = IF "strip" \in listeners' THEN Roster(c)!inputs(truth', rows')
                       ELSE [a \in Roster(c)!Agents |-> "gone"]
        /\ observed' \cap c.own \subseteq unseen'
    BY <1>1, <2>1, <2>2, Renders
  <2>4. previous' \in [Roster(c)!Agents -> Doings]
    BY <1>1, <2>1, <2>3, InputsTyped DEF Doings
  <2>5. Roster(c)!TypeOK'
    BY <2>1, <2>3, <2>4 DEF RosterHolds, Roster!TypeOK, Roster!States, Roster!Gone, Doings
  <2> QED BY <2>1, <2>3, <2>5 DEF RosterHolds, Roster!NoInvented, Roster!PolledWhileUsed
<1> QED
  BY <1>2, <1>3, <1>4, <1>5, <1>6, <1>7, <1>8, <1>9, <1>10 DEF Roster!Next

(* What the strip saw end and nobody reviewed is listed.                    *)
LEMMA RosterLists ==
  ASSUME NEW c, RosterHolds(c)
  PROVE  Roster(c)!OwnUnreviewedListed
BY DEF RosterHolds, Roster!OwnUnreviewedListed, Roster!entries, Roster!Agents

LEMMA RosterRests ==
  ASSUME NEW c, RosterHolds(c), UNCHANGED directoryVars
  PROVE  RosterHolds(c)'
BY DEF RosterHolds, directoryVars, Roster!TypeOK, Roster!NoInvented, Roster!PolledWhileUsed

---------------------------------------------------------------------------
(* Missions and sub-agents.                                                 *)

RunKinds == {"subagent_spawn", "subagent_proposed", "subagent_progress", "subagent_complete",
             "subagent_cancel", "unit_spawn", "unit_despawn"}
QuestKinds == {"mission_start", "mission_complete"}
DetachedEvents(c) == [type : RunKinds, id : c.runs, ok : BOOLEAN] \cup [type : QuestKinds, id : c.missions, ok : BOOLEAN]

RunStages == {"none", "proposed", "recalled", "settled", "running", "revived", "complete", "failed", "cancelled"}
Live == {"running", "revived"}
OfRun(e, r) == e.type \in RunKinds /\ e.id = r

DetachedTyped(c) ==
  /\ Detached(c)!TypeOK
  /\ server \in [c.runs -> RunStages]
  /\ queue \in [c.transports -> Seq(DetachedEvents(c))]
  /\ completed \in Seq([run : c.runs, status : {"complete", "failed", "cancelled"}])

LEMMA DetachedTypedStarts ==
  ASSUME NEW c, Detached(c)!DetachmentsAssumption, Detached(c)!Init
  PROVE  DetachedTyped(c)
<1>1. Detached(c)!TypeOK
  BY DEF Detached!DetachmentsAssumption, Detached!Init, Detached!TypeOK, Detached!Absent, Detached!None
<1>2. server \in [c.runs -> RunStages] /\ completed \in Seq([run : c.runs, status : {"complete", "failed", "cancelled"}])
  BY DEF Detached!Init, Detached!None, RunStages
<1>3. queue \in [c.transports -> Seq(DetachedEvents(c))]
  BY DEF Detached!Init
<1> QED BY <1>1, <1>2, <1>3 DEF DetachedTyped

(* A queue to which events were added; what is left of one when the first   *)
(* event was taken.                                                         *)
Followed(p, q, evts) ==
  /\ Len(q) \in Nat /\ Len(evts) \in Nat /\ Len(p) = Len(q) + Len(evts)
  /\ \A i \in 1 .. Len(p) : IF i <= Len(q) THEN p[i] = q[i]
                            ELSE i - Len(q) \in 1 .. Len(evts) /\ p[i] = evts[i - Len(q)]
IsTail(p, q) ==
  /\ Len(q) \in Nat \ {0} /\ Len(p) = Len(q) - 1
  /\ \A i \in 1 .. Len(p) : p[i] = q[i + 1]

(* What the bridge sends comes last on every connection.                    *)
LEMMA Sends ==
  ASSUME NEW c, DetachedTyped(c), NEW evts \in Seq(DetachedEvents(c)), Detached(c)!Send(evts)
  PROVE  /\ queue' \in [c.transports -> Seq(DetachedEvents(c))]
         /\ \A t \in c.transports : Followed(queue'[t], queue[t], evts)
<1>1. \A t \in c.transports : queue[t] \in Seq(DetachedEvents(c)) /\ queue'[t] = queue[t] \o evts
  BY DEF DetachedTyped, Detached!Send
<1>2. queue' = [t \in c.transports |-> queue[t] \o evts]
  BY DEF Detached!Send
<1>3. \A t \in c.transports : queue[t] \o evts \in Seq(DetachedEvents(c))
  BY <1>1, ConcatProperties
<1>4. ASSUME NEW t \in c.transports PROVE Followed(queue'[t], queue[t], evts)
  <2>1. Len(queue[t]) \in Nat /\ Len(evts) \in Nat
    BY <1>1
  <2> DEFINE q == queue[t]
             p == queue'[t]
  <2>2. q \in Seq(DetachedEvents(c)) /\ p = q \o evts
    BY <1>1
  <2> HIDE DEF q, p
  <2>3. /\ Len(p) = Len(q) + Len(evts)
        /\ \A i \in 1 .. Len(q) + Len(evts) : p[i] = IF i <= Len(q) THEN q[i] ELSE evts[i - Len(q)]
    BY <2>2, ConcatProperties
  <2>4. \A i \in 1 .. Len(p) : IF i <= Len(q) THEN p[i] = q[i]
                               ELSE i - Len(q) \in 1 .. Len(evts) /\ p[i] = evts[i - Len(q)]
    BY <2>1, <2>3 DEF q
  <2>5. Len(q) \in Nat
    BY <2>1 DEF q
  <2>6. Followed(p, q, evts)
    BY <2>1, <2>3, <2>4, <2>5 DEF Followed
  <2> QED BY <2>6 DEF p, q
<1> QED BY <1>2, <1>3, <1>4

(* A connection gives its first event and keeps the others.                 *)
LEMMA Shifts ==
  ASSUME NEW c, DetachedTyped(c), NEW t \in c.transports, queue[t] # <<>>,
         queue' = [queue EXCEPT ![t] = Tail(queue[t])]
  PROVE  /\ queue' \in [c.transports -> Seq(DetachedEvents(c))]
         /\ Head(queue[t]) \in DetachedEvents(c) /\ Head(queue[t]) = queue[t][1]
         /\ IsTail(queue'[t], queue[t])
         /\ \A u \in c.transports : u # t => queue'[u] = queue[u]
<1> DEFINE q == queue[t]
<1>1. q \in Seq(DetachedEvents(c)) /\ q # <<>>
  BY DEF DetachedTyped
<1>2. /\ Head(q) = q[1] /\ Tail(q) \in Seq(DetachedEvents(c)) /\ Len(Tail(q)) = Len(q) - 1
      /\ \A i \in 1 .. Len(Tail(q)) : Tail(q)[i] = q[i + 1]
  <2> HIDE DEF q
  <2> QED BY <1>1, HeadTailProperties
<1>3. Len(q) \in Nat \ {0} /\ q[1] \in DetachedEvents(c)
  <2> HIDE DEF q
  <2> QED BY <1>1
<1>4. queue'[t] = Tail(q) /\ \A u \in c.transports : u # t => queue'[u] = queue[u]
  BY DEF DetachedTyped
<1>5. queue' \in [c.transports -> Seq(DetachedEvents(c))]
  BY <1>2 DEF DetachedTyped
<1> QED BY <1>2, <1>3, <1>4, <1>5 DEF IsTail

LEMMA TwoEvents ==
  ASSUME NEW S, NEW a \in S, NEW b \in S
  PROVE  /\ <<a, b>> \in Seq(S) /\ Len(<<a, b>>) = 2
         /\ <<a, b>>[1] = a /\ <<a, b>>[2] = b
         /\ \A i \in 1 .. 2 : <<a, b>>[i] \in {a, b}
OBVIOUS

LEMMA ThreeEvents ==
  ASSUME NEW S, NEW a \in S, NEW b \in S, NEW d \in S
  PROVE  /\ <<a, b, d>> \in Seq(S) /\ Len(<<a, b, d>>) = 3
         /\ <<a, b, d>>[1] = a /\ <<a, b, d>>[2] = b /\ <<a, b, d>>[3] = d
         /\ \A i \in 1 .. 3 : <<a, b, d>>[i] \in {a, b, d}
OBVIOUS

LEMMA FourEvents ==
  ASSUME NEW S, NEW a \in S, NEW b \in S, NEW d \in S, NEW e \in S, NEW evts, evts = <<a>> \o <<b, d, e>>
  PROVE  /\ evts \in Seq(S) /\ Len(evts) = 4
         /\ evts[1] = a /\ evts[2] = b /\ evts[3] = d /\ evts[4] = e
         /\ \A i \in 1 .. 4 : evts[i] \in {a, b, d, e}
<1>1. <<a>> \in Seq(S) /\ Len(<<a>>) = 1 /\ <<a>>[1] = a
  OBVIOUS
<1>2. evts \in Seq(S) /\ Len(evts) = 4
  BY <1>1, ThreeEvents, ConcatProperties
<1>3. \A i \in 1 .. 4 : evts[i] = IF i <= 1 THEN <<a>>[i] ELSE <<b, d, e>>[i - 1]
  BY <1>1, ThreeEvents, ConcatProperties
<1>4. evts[1] = a /\ evts[2] = b /\ evts[3] = d /\ evts[4] = e
  BY <1>1, <1>3, ThreeEvents
<1> QED BY <1>2, <1>4

(* What the bridge says of a run when it takes it to a stage.               *)
Tells(r, evts, stage) ==
  \/ /\ server[r] = "none" /\ stage = "running" /\ Len(evts) = 3
     /\ evts[1].type = "subagent_spawn" /\ evts[2].type = "subagent_progress" /\ evts[3].type = "unit_spawn"
  \/ /\ server[r] = "none" /\ stage = "proposed" /\ Len(evts) = 3
     /\ evts[1].type = "subagent_spawn" /\ ~evts[1].ok
     /\ evts[2].type = "subagent_progress" /\ evts[3].type = "subagent_proposed"
  \/ /\ \/ server[r] \in {"proposed", "recalled"} /\ stage = "running"
        \/ server[r] = "settled" /\ stage = "revived"
     /\ Len(evts) = 2
     /\ evts[1].type = "subagent_progress" /\ evts[2].type = "unit_spawn"
  \/ /\ server[r] # "none" /\ stage \in {"complete", "failed", "settled"} /\ Len(evts) = 3
     /\ evts[1].type = "subagent_progress" /\ evts[2].type = "subagent_complete" /\ evts[3].type = "unit_despawn"
  \/ /\ \/ server[r] = "proposed" /\ stage = "recalled"
        \/ server[r] \in Live /\ stage = "cancelled"
     /\ Len(evts) = 4
     /\ evts[1].type = "subagent_cancel" /\ evts[2].type = "subagent_progress"
     /\ evts[3].type = "subagent_complete" /\ evts[4].type = "unit_despawn"

LEMMA RunIsSent ==
  ASSUME NEW c, DetachedTyped(c), NEW r \in c.runs,
         \/ Detached(c)!RegisterSpawn(r) \/ Detached(c)!Propose(r) \/ Detached(c)!ApproveSpawn(r)
         \/ Detached(c)!RegisterComplete(r) \/ Detached(c)!RequestCancel(r)
  PROVE  /\ UNCHANGED <<activeRuns, completed, onMap, highlighted, missions, counted>>
         /\ \E evts \in Seq(DetachedEvents(c)), stage \in RunStages \ {"none"} :
              /\ Detached(c)!Send(evts) /\ \A i \in 1 .. Len(evts) : OfRun(evts[i], r)
              /\ Tells(r, evts, stage) /\ server' = [server EXCEPT ![r] = stage]
<1> DEFINE E(k, ok) == [type |-> k, id |-> r, ok |-> ok]
<1>0. UNCHANGED <<activeRuns, completed, onMap, highlighted, missions, counted>>
  BY DEF Detached!RegisterSpawn, Detached!Propose, Detached!ApproveSpawn, Detached!RegisterComplete,
         Detached!RequestCancel, Detached!page
<1>e. ASSUME NEW k \in RunKinds, NEW ok \in BOOLEAN
      PROVE  E(k, ok) \in DetachedEvents(c) /\ OfRun(E(k, ok), r) /\ E(k, ok).type = k /\ E(k, ok).ok = ok
  BY DEF DetachedEvents, OfRun
<1>k. /\ "subagent_spawn" \in RunKinds /\ "subagent_proposed" \in RunKinds /\ "subagent_progress" \in RunKinds
      /\ "subagent_complete" \in RunKinds /\ "subagent_cancel" \in RunKinds
      /\ "unit_spawn" \in RunKinds /\ "unit_despawn" \in RunKinds
  BY DEF RunKinds
<1>s. \A k : Detached(c)!Evt(k, r) = E(k, TRUE) /\ \A ok : Detached(c)!EvtOk(k, r, ok) = E(k, ok)
  BY DEF Detached!Evt, Detached!EvtOk
<1> HIDE DEF E
<1>1. CASE Detached(c)!RegisterSpawn(r)
  <2> DEFINE a == E("subagent_spawn", TRUE)
             b == E("subagent_progress", TRUE)
             d == E("unit_spawn", TRUE)
  <2>1. \A x \in {a, b, d} : x \in DetachedEvents(c) /\ OfRun(x, r)
    BY <1>e, <1>k
  <2>2. a.type = "subagent_spawn" /\ b.type = "subagent_progress" /\ d.type = "unit_spawn" /\ a.ok = TRUE
    BY <1>e, <1>k
  <2>3. Detached(c)!Send(<<a, b, d>>) /\ server[r] = "none" /\ server' = [server EXCEPT ![r] = "running"]
    BY <1>1, <1>s DEF Detached!RegisterSpawn, Detached!None
  <2> HIDE DEF a, b, d
  <2> DEFINE evts == <<a, b, d>>
  <2>4. /\ evts \in Seq(DetachedEvents(c)) /\ Len(evts) = 3 /\ evts[1] = a /\ evts[2] = b /\ evts[3] = d
        /\ \A i \in 1 .. 3 : OfRun(evts[i], r)
    BY <2>1, ThreeEvents
  <2> HIDE DEF evts
  <2>5. Tells(r, evts, "running")
    BY <2>2, <2>3, <2>4 DEF Tells
  <2> QED BY <1>0, <2>3, <2>4, <2>5 DEF evts, RunStages
<1>2. CASE Detached(c)!Propose(r)
  <2> DEFINE a == E("subagent_spawn", FALSE)
             b == E("subagent_progress", TRUE)
             d == E("subagent_proposed", TRUE)
  <2>1. \A x \in {a, b, d} : x \in DetachedEvents(c) /\ OfRun(x, r)
    BY <1>e, <1>k
  <2>2. a.type = "subagent_spawn" /\ b.type = "subagent_progress" /\ d.type = "subagent_proposed" /\ a.ok = FALSE
    BY <1>e, <1>k
  <2>3. Detached(c)!Send(<<a, b, d>>) /\ server[r] = "none" /\ server' = [server EXCEPT ![r] = "proposed"]
    BY <1>2, <1>s DEF Detached!Propose, Detached!None
  <2> HIDE DEF a, b, d
  <2> DEFINE evts == <<a, b, d>>
  <2>4. /\ evts \in Seq(DetachedEvents(c)) /\ Len(evts) = 3 /\ evts[1] = a /\ evts[2] = b /\ evts[3] = d
        /\ \A i \in 1 .. 3 : OfRun(evts[i], r)
    BY <2>1, ThreeEvents
  <2> HIDE DEF evts
  <2>5. Tells(r, evts, "proposed")
    BY <2>2, <2>3, <2>4 DEF Tells
  <2> QED BY <1>0, <2>3, <2>4, <2>5 DEF evts, RunStages
<1>3. CASE Detached(c)!ApproveSpawn(r)
  <2> DEFINE a == E("subagent_progress", TRUE)
             b == E("unit_spawn", TRUE)
  <2>1. \A x \in {a, b} : x \in DetachedEvents(c) /\ OfRun(x, r)
    BY <1>e, <1>k
  <2>2. a.type = "subagent_progress" /\ b.type = "unit_spawn"
    BY <1>e, <1>k
  <2> DEFINE stage == IF server[r] = "settled" THEN "revived" ELSE "running"
  <2>3. Detached(c)!Send(<<a, b>>) /\ server' = [server EXCEPT ![r] = stage]
    BY <1>3, <1>s DEF Detached!ApproveSpawn, DetachedTyped
  <2>s. /\ \/ server[r] \in {"proposed", "recalled"} /\ stage = "running"
           \/ server[r] = "settled" /\ stage = "revived"
        /\ stage \in RunStages \ {"none"}
    BY <1>3 DEF Detached!ApproveSpawn, RunStages
  <2> HIDE DEF a, b, stage
  <2> DEFINE evts == <<a, b>>
  <2>4. /\ evts \in Seq(DetachedEvents(c)) /\ Len(evts) = 2 /\ evts[1] = a /\ evts[2] = b
        /\ \A i \in 1 .. 2 : OfRun(evts[i], r)
    BY <2>1, TwoEvents
  <2> HIDE DEF evts
  <2>5. Tells(r, evts, stage)
    BY <2>2, <2>s, <2>4 DEF Tells
  <2> QED BY <1>0, <2>3, <2>4, <2>5, <2>s DEF evts
<1>4. CASE Detached(c)!RegisterComplete(r)
  <2>0. PICK ok \in BOOLEAN :
          /\ server' = [server EXCEPT ![r] = IF server[r] \in {"proposed", "recalled", "settled"} THEN "settled"
                                             ELSE IF ok THEN "complete" ELSE "failed"]
          /\ Detached(c)!Send(Detached(c)!EndEvents(r, ok))
    BY <1>4 DEF Detached!RegisterComplete, DetachedTyped
  <2> DEFINE a == E("subagent_progress", TRUE)
             b == E("subagent_complete", ok)
             d == E("unit_despawn", TRUE)
             stage == IF server[r] \in {"proposed", "recalled", "settled"} THEN "settled"
                      ELSE IF ok THEN "complete" ELSE "failed"
  <2>1. \A x \in {a, b, d} : x \in DetachedEvents(c) /\ OfRun(x, r)
    BY <1>e, <1>k
  <2>2. a.type = "subagent_progress" /\ b.type = "subagent_complete" /\ d.type = "unit_despawn"
    BY <1>e, <1>k
  <2>3. Detached(c)!Send(<<a, b, d>>) /\ server[r] # "none"
    BY <1>4, <1>s, <2>0 DEF Detached!RegisterComplete, Detached!EndEvents, Detached!None
  <2>s. stage \in {"complete", "failed", "settled"} /\ server' = [server EXCEPT ![r] = stage]
    BY <2>0
  <2> HIDE DEF a, b, d, stage
  <2> DEFINE evts == <<a, b, d>>
  <2>4. /\ evts \in Seq(DetachedEvents(c)) /\ Len(evts) = 3 /\ evts[1] = a /\ evts[2] = b /\ evts[3] = d
        /\ \A i \in 1 .. 3 : OfRun(evts[i], r)
    BY <2>1, ThreeEvents
  <2> HIDE DEF evts
  <2>5. Tells(r, evts, stage)
    BY <2>2, <2>3, <2>4, <2>s DEF Tells
  <2> QED BY <1>0, <2>3, <2>4, <2>5, <2>s DEF evts, RunStages
<1>5. CASE Detached(c)!RequestCancel(r)
  <2> DEFINE a == E("subagent_cancel", TRUE)
             b == E("subagent_progress", TRUE)
             d == E("subagent_complete", FALSE)
             e == E("unit_despawn", TRUE)
             stage == IF server[r] = "proposed" THEN "recalled" ELSE "cancelled"
  <2>1. \A x \in {a, b, d, e} : x \in DetachedEvents(c) /\ OfRun(x, r)
    BY <1>e, <1>k
  <2>2. a.type = "subagent_cancel" /\ b.type = "subagent_progress" /\ d.type = "subagent_complete" /\ e.type = "unit_despawn"
    BY <1>e, <1>k
  <2>3. Detached(c)!Send(<<a>> \o <<b, d, e>>) /\ server[r] \in {"proposed", "running", "revived"}
    BY <1>5, <1>s DEF Detached!RequestCancel, Detached!EndEvents
  <2>4. server' = [server EXCEPT ![r] = stage]
    BY <1>5 DEF Detached!RequestCancel, DetachedTyped
  <2>5. \/ server[r] = "proposed" /\ stage = "recalled"
        \/ server[r] \in Live /\ stage = "cancelled"
    BY <2>3 DEF Live
  <2> HIDE DEF a, b, d, e, stage
  <2> DEFINE evts == <<a>> \o <<b, d, e>>
  <2>6. /\ evts \in Seq(DetachedEvents(c)) /\ Len(evts) = 4
        /\ evts[1] = a /\ evts[2] = b /\ evts[3] = d /\ evts[4] = e
        /\ \A i \in 1 .. 4 : evts[i] \in {a, b, d, e}
    BY <2>1, FourEvents
  <2>7. \A i \in 1 .. 4 : OfRun(evts[i], r)
    BY <2>1, <2>6
  <2> HIDE DEF evts
  <2>8. Tells(r, evts, stage)
    BY <2>2, <2>5, <2>6 DEF Tells
  <2> QED BY <1>0, <2>3, <2>4, <2>5, <2>6, <2>7, <2>8 DEF evts, RunStages
<1> QED BY <1>1, <1>2, <1>3, <1>4, <1>5

Registers(e, r) == e.type \in {"subagent_spawn", "subagent_proposed"} /\ e.id = r
Ends(e, r) == e.type \in {"subagent_complete", "subagent_cancel"} /\ e.id = r
Absence == [status |-> "none", knowsUnit |-> FALSE]
PageRuns(c) == [c.runs -> [status : {"none", "proposed", "running"}, knowsUnit : BOOLEAN]]
Finished(c) == [run : c.runs, status : {"complete", "failed", "cancelled"}]

(* A finished run comes first in the list, which drops its oldest.          *)
LEMMA ListsFirst ==
  ASSUME NEW S, NEW list \in Seq(S), NEW x \in S, NEW m \in Nat \ {0}, NEW new,
         new = SubSeq(<<x>> \o list, 1, IF Len(<<x>> \o list) > m THEN m ELSE Len(<<x>> \o list))
  PROVE  /\ new \in Seq(S) /\ Len(new) <= m /\ Len(new) > 0 /\ new[1] = x
         /\ \A k \in 2 .. Len(new) : k - 1 \in 1 .. Len(list) /\ new[k] = list[k - 1]
<1> DEFINE all == <<x>> \o list
           n == IF Len(all) > m THEN m ELSE Len(all)
<1>1. <<x>> \in Seq(S) /\ Len(<<x>>) = 1 /\ <<x>>[1] = x /\ Len(list) \in Nat
  OBVIOUS
<1>2. /\ all \in Seq(S) /\ Len(all) = 1 + Len(list)
      /\ \A i \in 1 .. 1 + Len(list) : all[i] = IF i <= 1 THEN <<x>>[i] ELSE list[i - 1]
  BY <1>1, ConcatProperties
<1> HIDE DEF all
<1>3. n \in Nat /\ n <= m /\ n > 0 /\ n <= Len(all)
  BY <1>1, <1>2
<1> HIDE DEF n
<1>4. \A i \in 1 .. n : all[i] \in S
  BY <1>1, <1>2, <1>3
<1>5. /\ SubSeq(all, 1, n) \in Seq(S) /\ Len(SubSeq(all, 1, n)) = n
      /\ \A i \in 1 .. n : SubSeq(all, 1, n)[i] = all[i]
  <2>1. 1 \in Int /\ n \in Int
    BY <1>3
  <2>2. /\ SubSeq(all, 1, n) \in Seq(S)
        /\ Len(SubSeq(all, 1, n)) = IF 1 <= n THEN n - 1 + 1 ELSE 0
        /\ \A i \in 1 .. n - 1 + 1 : SubSeq(all, 1, n)[i] = all[1 + i - 1]
    BY <1>4, <2>1, SubSeqProperties
  <2> QED BY <1>3, <2>2
<1>6. new = SubSeq(all, 1, n)
  BY DEF all, n
<1>7. new[1] = x
  BY <1>1, <1>2, <1>3, <1>5, <1>6
<1>8. \A k \in 2 .. Len(new) : k - 1 \in 1 .. Len(list) /\ new[k] = list[k - 1]
  BY <1>1, <1>2, <1>3, <1>5, <1>6
<1> QED BY <1>3, <1>5, <1>6, <1>7, <1>8

(* What an event does to the page.                                          *)
Handled(c, evt) ==
  /\ activeRuns' \in PageRuns(c) /\ onMap' \subseteq c.runs
  /\ highlighted' \in c.runs \cup {"none"}
  /\ missions' \in [c.missions -> {"none", "running", "complete", "failed"}]
  /\ completed' \in Seq(Finished(c)) /\ Len(completed') <= c.history
  /\ \A r \in c.runs : ~OfRun(evt, r) => activeRuns'[r] = activeRuns[r] /\ (r \in onMap' <=> r \in onMap)
  /\ evt.type = "unit_spawn" => evt.id \in onMap'
  /\ evt.type = "unit_despawn" => evt.id \notin onMap'
  /\ evt.type # "unit_spawn" /\ ~(evt.type = "subagent_spawn" /\ evt.ok) => onMap' \subseteq onMap
  /\ \A r \in c.runs : ~Registers(evt, r) /\ activeRuns[r] = Absence => activeRuns'[r] = Absence
  /\ \A r \in c.runs : Ends(evt, r) => activeRuns'[r] = Absence
  /\ \/ completed' = completed
     \/ \E r \in c.runs :
          /\ Ends(evt, r) /\ activeRuns[r] # Absence
          /\ Len(completed') > 0 /\ completed'[1].run = r
          /\ completed'[1].status \in {"complete", "failed"} => evt.type = "subagent_complete"
          /\ \A k \in 2 .. Len(completed') : k - 1 \in 1 .. Len(completed) /\ completed'[k] = completed[k - 1]

LEMMA Finishes ==
  ASSUME NEW c, Detached(c)!DetachmentsAssumption, DetachedTyped(c), NEW evt \in DetachedEvents(c),
         NEW status \in {"complete", "failed", "cancelled"}, evt.type \in {"subagent_complete", "subagent_cancel"},
         status \in {"complete", "failed"} => evt.type = "subagent_complete",
         Detached(c)!finish(evt.id, status)
  PROVE  Handled(c, evt)
<1> DEFINE r == evt.id
<1>1. r \in c.runs
  BY DEF DetachedEvents, QuestKinds
<1>2. activeRuns \in PageRuns(c) /\ completed \in Seq(Finished(c)) /\ c.history \in Nat \ {0}
  BY DEF DetachedTyped, Detached!TypeOK, Detached!None, PageRuns, Finished, Detached!DetachmentsAssumption
<1>3. onMap \subseteq c.runs /\ highlighted \in c.runs \cup {"none"} /\ Len(completed) <= c.history
      /\ missions \in [c.missions -> {"none", "running", "complete", "failed"}]
  BY DEF DetachedTyped, Detached!TypeOK, Detached!None
<1>4. /\ \A q \in c.runs : OfRun(evt, q) <=> q = r
      /\ \A q \in c.runs : Ends(evt, q) <=> q = r
      /\ evt.type # "unit_spawn" /\ evt.type # "unit_despawn"
  BY DEF OfRun, Ends, RunKinds
<1>5. UNCHANGED <<missions, counted>>
  BY DEF Detached!finish
<1> HIDE DEF r
<1>6. CASE activeRuns[r] = Absence
  <2>1. UNCHANGED <<activeRuns, completed, onMap, highlighted>>
    BY <1>6 DEF Detached!finish, Detached!IsActive, Detached!Absent, Detached!None, Absence, r
  <2> QED BY <1>2, <1>3, <1>4, <1>5, <1>6, <2>1 DEF Handled
<1>7. CASE activeRuns[r] # Absence
  <2> DEFINE x == [run |-> r, status |-> status]
  <2>1. /\ activeRuns' = [activeRuns EXCEPT ![r] = Absence]
        /\ completed' = SubSeq(<<x>> \o completed, 1, IF Len(<<x>> \o completed) > c.history THEN c.history ELSE Len(<<x>> \o completed))
        /\ onMap' = IF activeRuns[r].knowsUnit THEN onMap \ {r} ELSE onMap
        /\ highlighted' = IF highlighted = r THEN "none" ELSE highlighted
    BY <1>7 DEF Detached!finish, Detached!IsActive, Detached!Absent, Detached!None, Absence, r
  <2>2. x \in Finished(c) /\ x.run = r /\ x.status = status
    BY <1>1 DEF Finished
  <2> HIDE DEF x
  <2>3. /\ completed' \in Seq(Finished(c)) /\ Len(completed') <= c.history /\ Len(completed') > 0 /\ completed'[1] = x
        /\ \A k \in 2 .. Len(completed') : k - 1 \in 1 .. Len(completed) /\ completed'[k] = completed[k - 1]
    <3>1. PICK list, new : list = completed /\ new = completed'
      OBVIOUS
    <3>2. new = SubSeq(<<x>> \o list, 1, IF Len(<<x>> \o list) > c.history THEN c.history ELSE Len(<<x>> \o list))
      BY <2>1, <3>1
    <3>3. list \in Seq(Finished(c)) /\ x \in Finished(c) /\ c.history \in Nat \ {0}
      BY <1>2, <2>2, <3>1
    <3>4. /\ new \in Seq(Finished(c)) /\ Len(new) <= c.history /\ Len(new) > 0 /\ new[1] = x
          /\ \A k \in 2 .. Len(new) : k - 1 \in 1 .. Len(list) /\ new[k] = list[k - 1]
      BY <3>2, <3>3, ListsFirst
    <3> QED BY <3>1, <3>4
  <2>4. Absence \in [status : {"none", "proposed", "running"}, knowsUnit : BOOLEAN]
    BY DEF Absence
  <2>5. /\ activeRuns' \in PageRuns(c) /\ activeRuns'[r] = Absence
        /\ \A q \in c.runs : q # r => activeRuns'[q] = activeRuns[q]
    BY <1>1, <1>2, <2>1, <2>4 DEF PageRuns
  <2>6. /\ onMap' \subseteq onMap /\ \A q \in c.runs : q # r => (q \in onMap' <=> q \in onMap)
        /\ highlighted' \in c.runs \cup {"none"}
    BY <1>3, <2>1
  <2> QED BY <1>1, <1>3, <1>4, <1>5, <1>7, <2>2, <2>3, <2>5, <2>6 DEF Handled
<1> QED BY <1>6, <1>7

LEMMA Handles ==
  ASSUME NEW c, Detached(c)!DetachmentsAssumption, DetachedTyped(c), NEW evt \in DetachedEvents(c),
         Detached(c)!Handle(evt)
  PROVE  Handled(c, evt)
<1>2. activeRuns \in PageRuns(c) /\ completed \in Seq(Finished(c))
  BY DEF DetachedTyped, Detached!TypeOK, Detached!None, PageRuns, Finished
<1>3. onMap \subseteq c.runs /\ highlighted \in c.runs \cup {"none"} /\ Len(completed) <= c.history
      /\ missions \in [c.missions -> {"none", "running", "complete", "failed"}]
  BY DEF DetachedTyped, Detached!TypeOK, Detached!None
<1>4. CASE evt.type \in {"subagent_complete", "subagent_cancel"}
  <2> DEFINE status == IF evt.type = "subagent_cancel" THEN "cancelled" ELSE IF evt.ok THEN "complete" ELSE "failed"
  <2>1. Detached(c)!finish(evt.id, status)
    BY <1>4 DEF Detached!Handle
  <2>2. status \in {"complete", "failed", "cancelled"} /\ (status \in {"complete", "failed"} => evt.type = "subagent_complete")
    BY <1>4
  <2> HIDE DEF status
  <2> QED BY <1>4, <2>1, <2>2, Finishes
<1>5. CASE evt.type \in {"subagent_spawn", "subagent_proposed"}
  <2> DEFINE r == evt.id
             isRunning == evt.type = "subagent_spawn" /\ evt.ok
             row == [status |-> IF isRunning THEN "running" ELSE "proposed", knowsUnit |-> evt.type = "subagent_spawn"]
  <2>1. r \in c.runs /\ evt.ok \in BOOLEAN
    BY <1>5 DEF DetachedEvents, QuestKinds
  <2>2. /\ activeRuns' = [activeRuns EXCEPT ![r] = row]
        /\ onMap' = IF isRunning THEN onMap \cup {r} ELSE onMap
        /\ UNCHANGED <<completed, highlighted, missions, counted>>
    <3>1. CASE evt.type = "subagent_spawn"
      BY <3>1, <2>1 DEF Detached!Handle, Detached!subagent_spawn, Detached!register
    <3>2. CASE evt.type = "subagent_proposed"
      BY <3>2, <2>1 DEF Detached!Handle, Detached!subagent_proposed, Detached!register
    <3> QED BY <1>5, <3>1, <3>2
  <2>3. row \in [status : {"none", "proposed", "running"}, knowsUnit : BOOLEAN]
    OBVIOUS
  <2>4. /\ \A q \in c.runs : OfRun(evt, q) <=> q = r
        /\ \A q \in c.runs : Registers(evt, q) <=> q = r
        /\ \A q \in c.runs : ~Ends(evt, q)
        /\ evt.type # "unit_spawn" /\ evt.type # "unit_despawn"
    BY <1>5 DEF OfRun, Ends, Registers, RunKinds
  <2> HIDE DEF r, row
  <2>5. activeRuns' \in PageRuns(c) /\ \A q \in c.runs : q # r => activeRuns'[q] = activeRuns[q]
    BY <1>2, <2>1, <2>2, <2>3 DEF PageRuns
  <2> QED BY <1>2, <1>3, <2>1, <2>2, <2>4, <2>5 DEF Handled
<1>6. CASE evt.type = "subagent_progress"
  <2> DEFINE r == evt.id
             row == [activeRuns[r] EXCEPT !.status = IF activeRuns[r].status = "proposed" THEN "running" ELSE activeRuns[r].status]
  <2>1. r \in c.runs
    BY <1>6 DEF DetachedEvents, QuestKinds
  <2>2. /\ activeRuns' = [activeRuns EXCEPT ![r] = row]
        /\ UNCHANGED <<completed, onMap, highlighted, missions, counted>>
    BY <1>2, <1>6, <2>1 DEF Detached!Handle, Detached!subagent_progress, PageRuns
  <2>3. row \in [status : {"none", "proposed", "running"}, knowsUnit : BOOLEAN]
    BY <1>2, <2>1 DEF PageRuns
  <2>4. activeRuns[r] = Absence => row = Absence
    BY DEF Absence
  <2>5. /\ \A q \in c.runs : OfRun(evt, q) <=> q = r
        /\ \A q \in c.runs : ~Ends(evt, q) /\ ~Registers(evt, q)
        /\ evt.type # "unit_spawn" /\ evt.type # "unit_despawn"
    BY <1>6 DEF OfRun, Ends, Registers, RunKinds
  <2> HIDE DEF r, row
  <2>6. /\ activeRuns' \in PageRuns(c) /\ activeRuns'[r] = row
        /\ \A q \in c.runs : q # r => activeRuns'[q] = activeRuns[q]
    BY <1>2, <2>1, <2>2, <2>3 DEF PageRuns
  <2> QED BY <1>2, <1>3, <2>1, <2>2, <2>4, <2>5, <2>6 DEF Handled
<1>7. CASE evt.type \in {"unit_spawn", "unit_despawn"}
  <2>1. evt.id \in c.runs
    BY <1>7 DEF DetachedEvents, QuestKinds
  <2>2. /\ onMap' = IF evt.type = "unit_spawn" THEN onMap \cup {evt.id} ELSE onMap \ {evt.id}
        /\ UNCHANGED <<activeRuns, completed, highlighted, missions, counted>>
    BY <1>7 DEF Detached!Handle, Detached!PlaceUnit, Detached!DropUnit
  <2>3. /\ \A q \in c.runs : OfRun(evt, q) <=> q = evt.id
        /\ \A q \in c.runs : ~Ends(evt, q) /\ ~Registers(evt, q)
    BY <1>7 DEF OfRun, Ends, Registers, RunKinds
  <2> QED BY <1>2, <1>3, <1>7, <2>1, <2>2, <2>3 DEF Handled
<1>8. CASE evt.type \in QuestKinds
  <2>1. evt.id \in c.missions
    BY <1>8 DEF DetachedEvents, QuestKinds, RunKinds
  <2>2. /\ missions' \in [c.missions -> {"none", "running", "complete", "failed"}]
        /\ UNCHANGED <<activeRuns, completed, onMap, highlighted>>
    BY <1>3, <1>8, <2>1 DEF Detached!Handle, Detached!startMission, Detached!completeMission, Detached!None, QuestKinds
  <2>3. /\ \A q \in c.runs : ~OfRun(evt, q) /\ ~Ends(evt, q) /\ ~Registers(evt, q)
        /\ evt.type # "unit_spawn" /\ evt.type # "unit_despawn"
    BY <1>8 DEF OfRun, Ends, Registers, RunKinds, QuestKinds
  <2> QED BY <1>2, <1>3, <2>2, <2>3 DEF Handled
<1> QED
  BY <1>4, <1>5, <1>6, <1>7, <1>8 DEF DetachedEvents, RunKinds

---------------------------------------------------------------------------
(* What is said of a run on one connection, and where it leaves the map.    *)

Adds(e) == e.type = "unit_spawn" \/ (e.type = "subagent_spawn" /\ e.ok)
Closing(r) == IF server[r] \in Live THEN "unit_spawn" ELSE "unit_despawn"

Quiet(q, r) == \A i \in 1 .. Len(q) : ~OfRun(q[i], r)
NoneAdds(q, r) == \A i \in 1 .. Len(q) : OfRun(q[i], r) => ~Adds(q[i])
EndsWith(q, r, k) ==
  \A i \in 1 .. Len(q) : OfRun(q[i], r) /\ (\A j \in i + 1 .. Len(q) : ~OfRun(q[j], r)) => q[i].type = k

LEMMA OthersFollow ==
  ASSUME NEW p, NEW q, NEW evts, Followed(p, q, evts), NEW r, NEW k, \A i \in 1 .. Len(evts) : ~OfRun(evts[i], r)
  PROVE  /\ Quiet(p, r) <=> Quiet(q, r)
         /\ NoneAdds(q, r) => NoneAdds(p, r)
         /\ EndsWith(q, r, k) => EndsWith(p, r, k)
<1>1. \A i \in 1 .. Len(p) : OfRun(p[i], r) => i \in 1 .. Len(q) /\ p[i] = q[i]
  BY DEF Followed
<1>2. \A i \in 1 .. Len(q) : i \in 1 .. Len(p) /\ p[i] = q[i]
  BY DEF Followed
<1>3. (Quiet(p, r) <=> Quiet(q, r)) /\ (NoneAdds(q, r) => NoneAdds(p, r))
  BY <1>1, <1>2 DEF Quiet, NoneAdds
<1>4. ASSUME EndsWith(q, r, k), NEW i \in 1 .. Len(p), OfRun(p[i], r), \A j \in i + 1 .. Len(p) : ~OfRun(p[j], r)
      PROVE  p[i].type = k
  <2>1. i \in 1 .. Len(q) /\ p[i] = q[i]
    BY <1>1, <1>4
  <2>2. \A j \in i + 1 .. Len(q) : j \in 1 .. Len(q) /\ j \in i + 1 .. Len(p)
    BY <2>1 DEF Followed
  <2>3. \A j \in i + 1 .. Len(q) : ~OfRun(q[j], r)
    BY <1>2, <1>4, <2>2
  <2> QED BY <1>4, <2>1, <2>3 DEF EndsWith
<1> QED BY <1>3, <1>4 DEF EndsWith

LEMMA OwnFollow ==
  ASSUME NEW p, NEW q, NEW evts, Followed(p, q, evts), NEW r, Len(evts) > 0,
         \A i \in 1 .. Len(evts) : OfRun(evts[i], r)
  PROVE  /\ ~Quiet(p, r)
         /\ EndsWith(p, r, evts[Len(evts)].type)
         /\ NoneAdds(q, r) /\ (\A i \in 1 .. Len(evts) : ~Adds(evts[i])) => NoneAdds(p, r)
<1>1. /\ Len(p) \in 1 .. Len(p) /\ ~(Len(p) <= Len(q)) /\ Len(p) - Len(q) = Len(evts)
      /\ Len(evts) \in 1 .. Len(evts)
  BY DEF Followed
<1>2. p[Len(p)] = evts[Len(evts)] /\ OfRun(p[Len(p)], r)
  BY <1>1 DEF Followed
<1>3. ~Quiet(p, r)
  BY <1>1, <1>2 DEF Quiet
<1>4. ASSUME NEW i \in 1 .. Len(p), \A j \in i + 1 .. Len(p) : ~OfRun(p[j], r)
      PROVE  p[i].type = evts[Len(evts)].type
  <2>1. CASE i = Len(p)
    BY <2>1, <1>2
  <2>2. CASE i # Len(p)
    <3>1. Len(p) \in i + 1 .. Len(p)
      BY <1>1, <2>2
    <3> QED BY <3>1, <1>2, <1>4
  <2> QED BY <2>1, <2>2
<1>5. NoneAdds(q, r) /\ (\A i \in 1 .. Len(evts) : ~Adds(evts[i])) => NoneAdds(p, r)
  BY DEF NoneAdds, Followed
<1> QED BY <1>3, <1>4, <1>5 DEF EndsWith

LEMMA TailOf ==
  ASSUME NEW p, NEW q, IsTail(p, q), NEW r, NEW k
  PROVE  /\ Quiet(q, r) <=> ~OfRun(q[1], r) /\ Quiet(p, r)
         /\ NoneAdds(q, r) => NoneAdds(p, r) /\ (OfRun(q[1], r) => ~Adds(q[1]))
         /\ EndsWith(q, r, k) => EndsWith(p, r, k) /\ (OfRun(q[1], r) /\ Quiet(p, r) => q[1].type = k)
<1>1. \A i \in 1 .. Len(p) : i + 1 \in 1 .. Len(q) /\ p[i] = q[i + 1]
  BY DEF IsTail
<1>2. \A i \in 1 .. Len(q) : i = 1 \/ (i - 1 \in 1 .. Len(p) /\ q[i] = p[i - 1])
  BY DEF IsTail
<1>3. 1 \in 1 .. Len(q)
  BY DEF IsTail
<1>4. Quiet(q, r) <=> ~OfRun(q[1], r) /\ Quiet(p, r)
  BY <1>1, <1>2, <1>3 DEF Quiet
<1>5. NoneAdds(q, r) => NoneAdds(p, r) /\ (OfRun(q[1], r) => ~Adds(q[1]))
  BY <1>1, <1>3 DEF NoneAdds
<1>6. ASSUME EndsWith(q, r, k), NEW i \in 1 .. Len(p), OfRun(p[i], r), \A j \in i + 1 .. Len(p) : ~OfRun(p[j], r)
      PROVE  p[i].type = k
  <2>1. i + 1 \in 1 .. Len(q) /\ p[i] = q[i + 1]
    BY <1>1
  <2>2. ASSUME NEW j \in i + 1 + 1 .. Len(q) PROVE ~OfRun(q[j], r)
    <3>1. j \in 1 .. Len(q) /\ j # 1 /\ j - 1 \in i + 1 .. Len(p)
      BY <2>2 DEF IsTail
    <3> QED BY <3>1, <1>2, <1>6
  <2> QED BY <1>6, <2>1, <2>2 DEF EndsWith
<1>7. ASSUME EndsWith(q, r, k), OfRun(q[1], r), Quiet(p, r) PROVE q[1].type = k
  <2>1. ASSUME NEW j \in 1 + 1 .. Len(q) PROVE ~OfRun(q[j], r)
    <3>1. j \in 1 .. Len(q) /\ j # 1
      BY <2>1 DEF IsTail
    <3> QED BY <3>1, <1>2, <1>7 DEF Quiet
  <2> QED BY <1>3, <1>7, <2>1 DEF EndsWith
<1> QED BY <1>4, <1>5, <1>6, <1>7 DEF EndsWith

(* What a mission sends is of no run.                                       *)
LEMMA QuestIsSent ==
  ASSUME NEW c, DetachedTyped(c), NEW q \in c.missions, Detached(c)!StartQuest(q) \/ Detached(c)!EndQuest(q)
  PROVE  /\ UNCHANGED <<server, activeRuns, completed, onMap, highlighted, missions, counted>>
         /\ \E evts \in Seq(DetachedEvents(c)) :
              /\ Detached(c)!Send(evts)
              /\ \A i \in 1 .. Len(evts), r \in c.runs : ~OfRun(evts[i], r)
<1>1. UNCHANGED <<server, activeRuns, completed, onMap, highlighted, missions, counted>>
  BY DEF Detached!StartQuest, Detached!EndQuest, Detached!page
<1>2. PICK k \in QuestKinds, ok \in BOOLEAN : Detached(c)!Send(<<[type |-> k, id |-> q, ok |-> ok]>>)
  BY DEF Detached!StartQuest, Detached!EndQuest, Detached!Evt, Detached!EvtOk, QuestKinds
<1> DEFINE e == [type |-> k, id |-> q, ok |-> ok]
<1>3. e \in DetachedEvents(c) /\ \A r \in c.runs : ~OfRun(e, r)
  BY DEF DetachedEvents, OfRun, QuestKinds, RunKinds
<1> HIDE DEF e
<1> DEFINE evts == <<e>>
<1>4. evts \in Seq(DetachedEvents(c)) /\ Len(evts) = 1 /\ evts[1] = e
  BY <1>3
<1>5. \A i \in 1 .. Len(evts), r \in c.runs : ~OfRun(evts[i], r)
  BY <1>3, <1>4
<1>6. Detached(c)!Send(evts)
  BY <1>2 DEF e
<1> QED BY <1>1, <1>4, <1>5, <1>6

LEMMA DetachedTypedStep ==
  ASSUME NEW c, Detached(c)!DetachmentsAssumption, DetachedTyped(c), Detached(c)!Next
  PROVE  DetachedTyped(c)'
<1>1. ASSUME NEW r \in c.runs,
             \/ Detached(c)!RegisterSpawn(r) \/ Detached(c)!Propose(r) \/ Detached(c)!ApproveSpawn(r)
             \/ Detached(c)!RegisterComplete(r) \/ Detached(c)!RequestCancel(r)
      PROVE  DetachedTyped(c)'
  <2>1. /\ UNCHANGED <<activeRuns, completed, onMap, highlighted, missions, counted>>
        /\ \E evts \in Seq(DetachedEvents(c)), stage \in RunStages \ {"none"} :
             /\ Detached(c)!Send(evts) /\ \A i \in 1 .. Len(evts) : OfRun(evts[i], r)
             /\ Tells(r, evts, stage) /\ server' = [server EXCEPT ![r] = stage]
    BY <1>1, RunIsSent
  <2>2. PICK evts \in Seq(DetachedEvents(c)), stage \in RunStages \ {"none"} :
          Detached(c)!Send(evts) /\ server' = [server EXCEPT ![r] = stage]
    BY <2>1
  <2>3. queue' \in [c.transports -> Seq(DetachedEvents(c))] /\ server' \in [c.runs -> RunStages]
    BY <2>2, Sends DEF DetachedTyped
  <2> QED BY <2>1, <2>3 DEF DetachedTyped, Detached!TypeOK
<1>2. ASSUME NEW q \in c.missions, Detached(c)!StartQuest(q) \/ Detached(c)!EndQuest(q)
      PROVE  DetachedTyped(c)'
  <2>1. PICK evts \in Seq(DetachedEvents(c)) : Detached(c)!Send(evts)
    BY <1>2, QuestIsSent
  <2>2. queue' \in [c.transports -> Seq(DetachedEvents(c))]
    BY <2>1, Sends
  <2>3. UNCHANGED <<server, activeRuns, completed, onMap, highlighted, missions, counted>>
    BY <1>2, QuestIsSent
  <2> QED BY <2>2, <2>3 DEF DetachedTyped, Detached!TypeOK
<1>3. ASSUME NEW t \in c.transports, Detached(c)!Deliver(t) PROVE DetachedTyped(c)'
  <2>1. /\ queue[t] # <<>> /\ queue' = [queue EXCEPT ![t] = Tail(queue[t])]
        /\ Detached(c)!Handle(Head(queue[t])) /\ UNCHANGED <<server, quests>>
    BY <1>3 DEF Detached!Deliver, DetachedTyped
  <2>2. queue' \in [c.transports -> Seq(DetachedEvents(c))] /\ Head(queue[t]) \in DetachedEvents(c)
    BY <2>1, Shifts
  <2>3. Handled(c, Head(queue[t]))
    BY <2>1, <2>2, Handles
  <2>4. completed' \in Seq(Finished(c))
    BY <2>3 DEF Handled
  <2>5. \A i \in 1 .. Len(completed') : completed'[i] \in Finished(c)
    BY <2>4
  <2> QED BY <2>1, <2>2, <2>3, <2>4, <2>5
          DEF DetachedTyped, Detached!TypeOK, Detached!None, Detached!Ended, Handled, PageRuns, Finished
<1>4. ASSUME NEW r \in c.runs, Detached(c)!Select(r) PROVE DetachedTyped(c)'
  BY <1>4 DEF Detached!Select, DetachedTyped, Detached!TypeOK
<1> QED BY <1>1, <1>2, <1>3, <1>4 DEF Detached!Next

(* A run that never started adds no unit.  Of any other, the last event on  *)
(* every connection tells whether it runs, and so does the map when they    *)
(* were all delivered.                                                      *)
Ghostless(c) ==
  \A r \in c.runs :
    IF server[r] \in {"none", "proposed"}
    THEN r \notin onMap /\ \A t \in c.transports : NoneAdds(queue[t], r)
    ELSE /\ \A t \in c.transports : EndsWith(queue[t], r, Closing(r))
         /\ (\A t \in c.transports : Quiet(queue[t], r)) => (r \in onMap <=> server[r] \in Live)

LEMMA GhostlessStarts ==
  ASSUME NEW c, Detached(c)!Init
  PROVE  Ghostless(c)
BY DEF Detached!Init, Detached!None, Ghostless, NoneAdds

LEMMA GhostlessAfterRun ==
  ASSUME NEW c, Detached(c)!DetachmentsAssumption, DetachedTyped(c), Ghostless(c), NEW r \in c.runs,
         UNCHANGED onMap, NEW evts \in Seq(DetachedEvents(c)), NEW stage \in RunStages \ {"none"},
         Detached(c)!Send(evts), \A i \in 1 .. Len(evts) : OfRun(evts[i], r),
         Tells(r, evts, stage), server' = [server EXCEPT ![r] = stage]
  PROVE  Ghostless(c)'
<1>1. \A t \in c.transports : Followed(queue'[t], queue[t], evts)
  BY Sends
<1>2. server'[r] = stage /\ \A q \in c.runs : q # r => server'[q] = server[q]
  BY DEF DetachedTyped
<1>3. Len(evts) > 0
  BY DEF Tells
<1>4. ASSUME NEW q \in c.runs, q # r
      PROVE  /\ \A t \in c.transports : \A k :
                  /\ Quiet(queue'[t], q) <=> Quiet(queue[t], q)
                  /\ NoneAdds(queue[t], q) => NoneAdds(queue'[t], q)
                  /\ EndsWith(queue[t], q, k) => EndsWith(queue'[t], q, k)
             /\ Closing(q)' = Closing(q) /\ server'[q] = server[q]
  <2>1. \A i \in 1 .. Len(evts) : ~OfRun(evts[i], q)
    BY <1>4 DEF OfRun
  <2>2. Closing(q)' = Closing(q) /\ server'[q] = server[q]
    BY <1>2, <1>4 DEF Closing
  <2> QED BY <1>1, <2>1, <2>2, OthersFollow
<1>5. ASSUME NEW t \in c.transports
      PROVE  /\ ~Quiet(queue'[t], r)
             /\ EndsWith(queue'[t], r, evts[Len(evts)].type)
             /\ NoneAdds(queue[t], r) /\ (\A i \in 1 .. Len(evts) : ~Adds(evts[i])) => NoneAdds(queue'[t], r)
  <2>1. Followed(queue'[t], queue[t], evts)
    BY <1>1
  <2> DEFINE p == queue'[t]
             q == queue[t]
  <2>2. Followed(p, q, evts)
    BY <2>1
  <2> HIDE DEF p, q
  <2>3. \A i \in 1 .. Len(evts) : OfRun(evts[i], r)
    OBVIOUS
  <2>4. /\ ~Quiet(p, r)
        /\ EndsWith(p, r, evts[Len(evts)].type)
        /\ NoneAdds(q, r) /\ (\A i \in 1 .. Len(evts) : ~Adds(evts[i])) => NoneAdds(p, r)
    BY ONLY <1>3, <2>2, <2>3, OwnFollow
  <2> QED BY <2>4 DEF p, q
<1>6. CASE stage = "proposed"
  <2>0. /\ server[r] = "none" /\ Len(evts) = 3 /\ evts[1].type = "subagent_spawn" /\ ~evts[1].ok
        /\ evts[2].type = "subagent_progress" /\ evts[3].type = "subagent_proposed"
    BY <1>6 DEF Tells
  <2>1. server[r] = "none" /\ \A i \in 1 .. Len(evts) : ~Adds(evts[i])
    <3>1. \A i \in 1 .. Len(evts) : i = 1 \/ i = 2 \/ i = 3
      BY <2>0
    <3> QED BY <2>0, <3>1 DEF Adds
  <2>2. r \notin onMap /\ \A t \in c.transports : NoneAdds(queue'[t], r)
    BY <1>5, <2>1 DEF Ghostless
  <2> QED BY <1>2, <1>4, <1>6, <2>2 DEF Ghostless
<1>7. CASE stage # "proposed"
  <2>1. evts[Len(evts)].type = Closing(r)'
    BY <1>2, <1>7 DEF Tells, Closing, Live
  <2>2. \A t \in c.transports : EndsWith(queue'[t], r, Closing(r)') /\ ~Quiet(queue'[t], r)
    BY <1>5, <2>1
  <2>3. \E t \in c.transports : ~Quiet(queue'[t], r)
    BY <2>2 DEF Detached!DetachmentsAssumption
  <2>4. server'[r] \notin {"none", "proposed"}
    BY <1>2, <1>7
  <2> QED BY <1>4, <2>2, <2>3, <2>4 DEF Ghostless
<1> QED BY <1>6, <1>7

LEMMA GhostlessStep ==
  ASSUME NEW c, Detached(c)!DetachmentsAssumption, DetachedTyped(c), Ghostless(c), Detached(c)!Next
  PROVE  Ghostless(c)'
<1>1. ASSUME NEW r \in c.runs,
             \/ Detached(c)!RegisterSpawn(r) \/ Detached(c)!Propose(r) \/ Detached(c)!ApproveSpawn(r)
             \/ Detached(c)!RegisterComplete(r) \/ Detached(c)!RequestCancel(r)
      PROVE  Ghostless(c)'
  <2>1. PICK evts \in Seq(DetachedEvents(c)), stage \in RunStages \ {"none"} :
          /\ Detached(c)!Send(evts) /\ \A i \in 1 .. Len(evts) : OfRun(evts[i], r)
          /\ Tells(r, evts, stage) /\ server' = [server EXCEPT ![r] = stage]
    BY <1>1, RunIsSent
  <2>2. UNCHANGED onMap
    BY <1>1, RunIsSent
  <2> QED BY <2>1, <2>2, GhostlessAfterRun
<1>2. ASSUME NEW q \in c.missions, Detached(c)!StartQuest(q) \/ Detached(c)!EndQuest(q)
      PROVE  Ghostless(c)'
  <2>1. PICK evts \in Seq(DetachedEvents(c)) :
          Detached(c)!Send(evts) /\ \A i \in 1 .. Len(evts), r \in c.runs : ~OfRun(evts[i], r)
    BY <1>2, QuestIsSent
  <2>2. UNCHANGED <<server, onMap>>
    BY <1>2, QuestIsSent
  <2>3. \A t \in c.transports : Followed(queue'[t], queue[t], evts)
    BY <2>1, Sends
  <2>4. \A r \in c.runs, t \in c.transports : \A k :
          /\ Quiet(queue'[t], r) <=> Quiet(queue[t], r)
          /\ NoneAdds(queue[t], r) => NoneAdds(queue'[t], r)
          /\ EndsWith(queue[t], r, k) => EndsWith(queue'[t], r, k)
    BY <2>1, <2>3, OthersFollow
  <2>5. \A r : Closing(r)' = Closing(r)
    BY <2>2 DEF Closing
  <2> QED BY <2>2, <2>4, <2>5 DEF Ghostless
<1>3. ASSUME NEW t \in c.transports, Detached(c)!Deliver(t) PROVE Ghostless(c)'
  <2> DEFINE evt == Head(queue[t])
  <2>1. /\ queue[t] # <<>> /\ queue' = [queue EXCEPT ![t] = Tail(queue[t])]
        /\ Detached(c)!Handle(evt) /\ UNCHANGED <<server, quests>>
    BY <1>3 DEF Detached!Deliver, DetachedTyped
  <2>2. /\ evt \in DetachedEvents(c) /\ evt = queue[t][1] /\ IsTail(queue'[t], queue[t])
        /\ \A u \in c.transports : u # t => queue'[u] = queue[u]
    BY <2>1, Shifts
  <2>3. Handled(c, evt)
    BY <2>1, <2>2, Handles
  <2> HIDE DEF evt
  <2>4. \A r : Closing(r)' = Closing(r)
    BY <2>1 DEF Closing
  <2>5. \A r \in c.runs : ~OfRun(evt, r) => (r \in onMap' <=> r \in onMap)
    BY <2>3 DEF Handled
  <2>6. \A r, k :
          /\ Quiet(queue[t], r) <=> ~OfRun(evt, r) /\ Quiet(queue'[t], r)
          /\ NoneAdds(queue[t], r) => NoneAdds(queue'[t], r) /\ (OfRun(evt, r) => ~Adds(evt))
          /\ EndsWith(queue[t], r, k) => EndsWith(queue'[t], r, k) /\ (OfRun(evt, r) /\ Quiet(queue'[t], r) => evt.type = k)
    BY <2>2, TailOf
  <2>7. ASSUME NEW r \in c.runs, server[r] \in {"none", "proposed"}
        PROVE  r \notin onMap' /\ \A u \in c.transports : NoneAdds(queue'[u], r)
    <3>1. r \notin onMap /\ \A u \in c.transports : NoneAdds(queue[u], r)
      BY <2>7 DEF Ghostless
    <3>2. NoneAdds(queue'[t], r) /\ (OfRun(evt, r) => ~Adds(evt))
      BY <2>6, <3>1
    <3>3. \A u \in c.transports : NoneAdds(queue'[u], r)
      BY <2>2, <3>1, <3>2
    <3>4. r \notin onMap'
      BY <2>3, <2>5, <3>1, <3>2 DEF Handled, Adds
    <3> QED BY <3>3, <3>4
  <2>8. ASSUME NEW r \in c.runs, server[r] \notin {"none", "proposed"}
        PROVE  /\ \A u \in c.transports : EndsWith(queue'[u], r, Closing(r))
               /\ (\A u \in c.transports : Quiet(queue'[u], r)) => (r \in onMap' <=> server[r] \in Live)
    <3>1. /\ \A u \in c.transports : EndsWith(queue[u], r, Closing(r))
          /\ (\A u \in c.transports : Quiet(queue[u], r)) => (r \in onMap <=> server[r] \in Live)
      BY <2>8 DEF Ghostless
    <3>2. EndsWith(queue'[t], r, Closing(r)) /\ (OfRun(evt, r) /\ Quiet(queue'[t], r) => evt.type = Closing(r))
      BY <2>6, <3>1
    <3>3. \A u \in c.transports : EndsWith(queue'[u], r, Closing(r))
      BY <2>2, <3>1, <3>2
    <3>4. ASSUME \A u \in c.transports : Quiet(queue'[u], r) PROVE r \in onMap' <=> server[r] \in Live
      <4>1. CASE OfRun(evt, r)
        <5>1. evt.type = Closing(r) /\ evt.id = r
          BY <3>2, <3>4, <4>1 DEF OfRun
        <5> QED BY <2>3, <5>1 DEF Handled, Closing
      <4>2. CASE ~OfRun(evt, r)
        <5>1. \A u \in c.transports : Quiet(queue[u], r)
          BY <2>2, <2>6, <3>4, <4>2
        <5> QED BY <2>5, <3>1, <4>2, <5>1
      <4> QED BY <4>1, <4>2
    <3> QED BY <3>3, <3>4
  <2> QED BY <2>1, <2>4, <2>7, <2>8 DEF Ghostless
<1>4. ASSUME NEW r \in c.runs, Detached(c)!Select(r) PROVE Ghostless(c)'
  BY <1>4 DEF Detached!Select, Ghostless, Closing
<1> QED BY <1>1, <1>2, <1>3, <1>4 DEF Detached!Next

LEMMA GhostlessHasNoGhost ==
  ASSUME NEW c, DetachedTyped(c), Ghostless(c)
  PROVE  Detached(c)!NoGhost
<1>1. ASSUME \A t \in c.transports : queue[t] = <<>>, NEW r \in c.runs
      PROVE  r \in onMap <=> server[r] \in Live
  <2>1. \A t \in c.transports : Quiet(queue[t], r)
    BY <1>1 DEF Quiet
  <2> QED BY <2>1 DEF Ghostless, Live
<1>2. onMap \subseteq c.runs
  BY DEF DetachedTyped, Detached!TypeOK
<1> QED BY <1>1, <1>2 DEF Detached!NoGhost, Detached!CaughtUp, Live

---------------------------------------------------------------------------
(* In which order a connection speaks of a run.                             *)

Finals == {"complete", "failed", "cancelled", "settled", "revived"}
Completes(e, r) == e.type = "subagent_complete" /\ e.id = r
Cancels(e, r) == e.type = "subagent_cancel" /\ e.id = r

InOrder(q, r) == \A i, j \in 1 .. Len(q) : i < j /\ Ends(q[i], r) => ~Registers(q[j], r)
NoneRegisters(q, r) == \A i \in 1 .. Len(q) : ~Registers(q[i], r)

(* A completion on its way is that of a run that did end, or is void: the   *)
(* run is recalled before, or not listed when it is handled.                *)
Void(q, r, i) ==
  \/ \E j \in 1 .. i - 1 : Cancels(q[j], r)
  \/ activeRuns[r] = Absence /\ \A j \in 1 .. i - 1 : ~Registers(q[j], r)
Told(q, r) == \A i \in 1 .. Len(q) : Completes(q[i], r) => server[r] \in Finals \/ Void(q, r, i)

(* What a run's events are among themselves.                                *)
Spoken(r, evts, stage) ==
  /\ server[r] \in Finals => stage \in Finals
  /\ \/ server[r] = "none" /\ \A i \in 1 .. Len(evts) : ~Ends(evts[i], r)
     \/ server[r] # "none" /\ \A i \in 1 .. Len(evts) : ~Registers(evts[i], r)
  /\ \A i \in 1 .. Len(evts) : Completes(evts[i], r) => stage \in Finals \/ \E j \in 1 .. i - 1 : Cancels(evts[j], r)

LEMMA TellsIsSpoken ==
  ASSUME NEW c, NEW r, NEW evts, NEW stage, Tells(r, evts, stage), \A i \in 1 .. Len(evts) : OfRun(evts[i], r)
  PROVE  Spoken(r, evts, stage)
<1>1. server[r] \in Finals => stage \in Finals
  BY DEF Tells, Finals
<1>2. CASE Len(evts) = 2
  <2>1. \A i \in 1 .. Len(evts) : i = 1 \/ i = 2
    BY <1>2
  <2>2. server[r] # "none" /\ evts[1].type = "subagent_progress" /\ evts[2].type = "unit_spawn"
    BY <1>2 DEF Tells
  <2> QED BY <1>1, <2>1, <2>2 DEF Spoken, Ends, Registers, Completes
<1>3. CASE Len(evts) = 3
  <2>1. \A i \in 1 .. Len(evts) : i = 1 \/ i = 2 \/ i = 3
    BY <1>3
  <2>2. \/ /\ server[r] = "none" /\ evts[1].type = "subagent_spawn"
           /\ evts[2].type = "subagent_progress" /\ evts[3].type \in {"unit_spawn", "subagent_proposed"}
        \/ /\ server[r] # "none" /\ evts[1].type = "subagent_progress"
           /\ evts[2].type = "subagent_complete" /\ evts[3].type = "unit_despawn" /\ stage \in Finals
    BY <1>3 DEF Tells, Finals
  <2> QED BY <1>1, <2>1, <2>2 DEF Spoken, Ends, Registers, Completes
<1>4. CASE Len(evts) = 4
  <2>1. \A i \in 1 .. Len(evts) : i = 1 \/ i = 2 \/ i = 3 \/ i = 4
    BY <1>4
  <2>2. /\ server[r] # "none" /\ evts[1].type = "subagent_cancel" /\ evts[2].type = "subagent_progress"
        /\ evts[3].type = "subagent_complete" /\ evts[4].type = "unit_despawn"
    BY <1>4 DEF Tells, Live
  <2>3. Cancels(evts[1], r)
    BY <1>4, <2>2 DEF OfRun, Cancels
  <2>4. \A i \in 1 .. Len(evts) : ~Registers(evts[i], r)
    BY <2>1, <2>2 DEF Registers
  <2>5. \A i \in 1 .. Len(evts) : Completes(evts[i], r) => 1 \in 1 .. i - 1
    BY <2>1, <2>2 DEF Completes
  <2> QED BY <1>1, <2>2, <2>3, <2>4, <2>5 DEF Spoken
<1> QED BY <1>2, <1>3, <1>4 DEF Tells

LEMMA OrderFollows ==
  ASSUME NEW p, NEW q, NEW evts, Followed(p, q, evts), NEW r, NEW stage,
         \/ \A i \in 1 .. Len(evts) : ~OfRun(evts[i], r)
         \/ Spoken(r, evts, stage) /\ server'[r] = stage /\ (server[r] = "none" => Quiet(q, r)),
         server[r] = server'[r] \/ (server'[r] = stage /\ (server[r] \in Finals => stage \in Finals)),
         UNCHANGED activeRuns, InOrder(q, r), Told(q, r)
  PROVE  /\ InOrder(p, r)
         /\ \A i \in 1 .. Len(p) : Completes(p[i], r) => server'[r] \in Finals \/ Void(p, r, i)
<1>1. \A i \in 1 .. Len(p) :
        \/ i \in 1 .. Len(q) /\ p[i] = q[i]
        \/ i > Len(q) /\ i - Len(q) \in 1 .. Len(evts) /\ p[i] = evts[i - Len(q)]
  BY DEF Followed
<1>2. Len(q) \in Nat /\ Len(evts) \in Nat /\ Len(p) = Len(q) + Len(evts)
  BY DEF Followed
<1>3. \A e : Ends(e, r) \/ Registers(e, r) \/ Completes(e, r) \/ Cancels(e, r) => OfRun(e, r)
  BY DEF Ends, Registers, Completes, Cancels, OfRun, RunKinds
<1>4. ASSUME NEW i \in 1 .. Len(p), NEW j \in 1 .. Len(p), i < j, Ends(p[i], r), Registers(p[j], r)
      PROVE  FALSE
  <2>1. CASE j \in 1 .. Len(q) /\ p[j] = q[j]
    <3>1. i \in 1 .. Len(q) /\ p[i] = q[i]
      BY <1>1, <1>2, <1>4, <2>1
    <3> QED BY <1>4, <2>1, <3>1 DEF InOrder
  <2>2. CASE j > Len(q) /\ j - Len(q) \in 1 .. Len(evts) /\ p[j] = evts[j - Len(q)]
    <3>1. Spoken(r, evts, stage) /\ server[r] = "none" /\ Quiet(q, r)
      BY <1>3, <1>4, <2>2 DEF Spoken
    <3>2. \A k \in 1 .. Len(evts) : ~Ends(evts[k], r)
      BY <3>1 DEF Spoken
    <3> QED BY <1>1, <1>3, <1>4, <3>1, <3>2 DEF Quiet
  <2> QED BY <1>1, <2>1, <2>2
<1>5. ASSUME NEW i \in 1 .. Len(p), Completes(p[i], r), server'[r] \notin Finals
      PROVE  Void(p, r, i)
  <2>1. CASE i \in 1 .. Len(q) /\ p[i] = q[i]
    <3>1. \A j \in 1 .. i - 1 : p[j] = q[j]
      BY <1>2, <2>1 DEF Followed
    <3>2. server[r] \notin Finals
      BY <1>5
    <3>3. Void(q, r, i)
      BY <1>5, <2>1, <3>2 DEF Told
    <3> QED BY <3>1, <3>3 DEF Void
  <2>2. CASE i > Len(q) /\ i - Len(q) \in 1 .. Len(evts) /\ p[i] = evts[i - Len(q)]
    <3>1. Spoken(r, evts, stage) /\ server'[r] = stage
      BY <1>3, <1>5, <2>2
    <3>2. PICK k \in 1 .. (i - Len(q)) - 1 : Cancels(evts[k], r)
      BY <1>5, <2>2, <3>1 DEF Spoken
    <3> DEFINE j == Len(q) + k
    <3>3. j \in 1 .. i - 1 /\ j \in 1 .. Len(p) /\ ~(j <= Len(q)) /\ j - Len(q) = k
      BY <1>2, <2>2, <3>2
    <3> HIDE DEF j
    <3>4. p[j] = evts[k]
      BY <3>3 DEF Followed
    <3> QED BY <3>2, <3>3, <3>4 DEF Void
  <2> QED BY <1>1, <2>1, <2>2
<1> QED BY <1>4, <1>5 DEF InOrder

LEMMA OrderOfTail ==
  ASSUME NEW p, NEW q, IsTail(p, q), NEW r, InOrder(q, r), Told(q, r), UNCHANGED server,
         ~Registers(q[1], r) /\ activeRuns[r] = Absence => activeRuns'[r] = Absence,
         Ends(q[1], r) => activeRuns'[r] = Absence
  PROVE  /\ InOrder(p, r)
         /\ NoneRegisters(q, r) => NoneRegisters(p, r) /\ ~Registers(q[1], r)
         /\ Ends(q[1], r) => NoneRegisters(p, r)
         /\ Completes(q[1], r) /\ activeRuns[r] # Absence => server[r] \in Finals
         /\ \A i \in 1 .. Len(p) : Completes(p[i], r) => server[r] \in Finals \/ Void(p, r, i)'
<1>1. \A i \in 1 .. Len(p) : i + 1 \in 1 .. Len(q) /\ p[i] = q[i + 1]
  BY DEF IsTail
<1>2. 1 \in 1 .. Len(q) /\ Len(p) \in Nat
  BY DEF IsTail
<1>3. InOrder(p, r)
  BY <1>1 DEF InOrder
<1>4. NoneRegisters(q, r) => NoneRegisters(p, r) /\ ~Registers(q[1], r)
  BY <1>1, <1>2 DEF NoneRegisters
<1>5. Ends(q[1], r) => NoneRegisters(p, r)
  BY <1>1, <1>2 DEF NoneRegisters, InOrder
<1>6. Completes(q[1], r) /\ activeRuns[r] # Absence => server[r] \in Finals
  BY <1>2 DEF Told, Void
<1>7. ASSUME NEW i \in 1 .. Len(p), Completes(p[i], r), server[r] \notin Finals
      PROVE  Void(p, r, i)'
  <2>1. i + 1 \in 1 .. Len(q) /\ Completes(q[i + 1], r)
    BY <1>1, <1>7
  <2>2. Void(q, r, i + 1)
    BY <1>7, <2>1 DEF Told
  <2>3. CASE \E j \in 1 .. (i + 1) - 1 : Cancels(q[j], r)
    <3>1. PICK j \in 1 .. (i + 1) - 1 : Cancels(q[j], r)
      BY <2>3
    <3>2. CASE j = 1
      <4>1. Ends(q[1], r)
        BY <3>1, <3>2 DEF Cancels, Ends
      <4>2. activeRuns'[r] = Absence /\ \A k \in 1 .. i - 1 : ~Registers(p[k], r)
        BY <1>5, <4>1 DEF NoneRegisters
      <4> QED BY <4>2 DEF Void
    <3>3. CASE j # 1
      <4>1. j - 1 \in 1 .. i - 1 /\ j - 1 \in 1 .. Len(p) /\ (j - 1) + 1 = j
        BY <1>2, <3>3
      <4>2. p[j - 1] = q[(j - 1) + 1]
        BY <1>1, <4>1
      <4>3. Cancels(p[j - 1], r)
        BY <3>1, <4>1, <4>2
      <4> QED BY <4>1, <4>3 DEF Void
    <3> QED BY <3>2, <3>3
  <2>4. CASE activeRuns[r] = Absence /\ \A j \in 1 .. (i + 1) - 1 : ~Registers(q[j], r)
    <3>1. activeRuns'[r] = Absence
      BY <2>4
    <3>2. \A j \in 1 .. i - 1 : j + 1 \in 1 .. (i + 1) - 1 /\ p[j] = q[j + 1]
      BY <1>1
    <3> QED BY <2>4, <3>1, <3>2 DEF Void
  <2> QED BY <2>2, <2>3, <2>4 DEF Void
<1> QED BY <1>3, <1>4, <1>5, <1>6, <1>7

(* A run that was not opened is not spoken of; a finished one is not        *)
(* opened again, is listed once and, unless it was recalled, had ended.     *)
FinishedEntry(c, x) ==
  /\ activeRuns[x.run] = Absence /\ server[x.run] # "none"
  /\ \A t \in c.transports : NoneRegisters(queue[t], x.run)
  /\ x.status \in {"complete", "failed"} => server[x.run] \in Finals

Orderly(c) ==
  /\ \A r \in c.runs, t \in c.transports : InOrder(queue[t], r) /\ Told(queue[t], r)
  /\ \A r \in c.runs : server[r] = "none" => activeRuns[r] = Absence /\ \A t \in c.transports : Quiet(queue[t], r)
  /\ \A k \in 1 .. Len(completed) : FinishedEntry(c, completed[k])
  /\ \A i, j \in 1 .. Len(completed) : completed[i].run = completed[j].run => i = j

LEMMA OrderlyStarts ==
  ASSUME NEW c, Detached(c)!Init
  PROVE  Orderly(c)
BY DEF Detached!Init, Detached!None, Detached!Absent, Orderly, InOrder, Told, Quiet, Absence

LEMMA EntriesAreRuns ==
  ASSUME NEW c, DetachedTyped(c)
  PROVE  \A k \in 1 .. Len(completed) : completed[k].run \in c.runs
<1>1. completed \in Seq(Finished(c))
  BY DEF DetachedTyped, Finished
<1>2. \A k \in 1 .. Len(completed) : completed[k] \in Finished(c)
  BY <1>1
<1> QED BY <1>2 DEF Finished

LEMMA QuietRegistersNone ==
  ASSUME NEW p, NEW q, NEW evts, Followed(p, q, evts), NEW r, NoneRegisters(q, r),
         \A i \in 1 .. Len(evts) : ~Registers(evts[i], r)
  PROVE  NoneRegisters(p, r)
BY DEF Followed, NoneRegisters

LEMMA OrderlyAfterRun ==
  ASSUME NEW c, DetachedTyped(c), Orderly(c), NEW r \in c.runs,
         UNCHANGED <<activeRuns, completed>>, NEW evts \in Seq(DetachedEvents(c)), NEW stage \in RunStages \ {"none"},
         Detached(c)!Send(evts), \A i \in 1 .. Len(evts) : OfRun(evts[i], r),
         Tells(r, evts, stage), server' = [server EXCEPT ![r] = stage]
  PROVE  Orderly(c)'
<1>1. \A t \in c.transports : Followed(queue'[t], queue[t], evts)
  BY Sends
<1>2. server'[r] = stage /\ \A q \in c.runs : q # r => server'[q] = server[q]
  BY DEF DetachedTyped
<1>3. Spoken(r, evts, stage)
  BY TellsIsSpoken
<1>4. \A q \in c.runs, i \in 1 .. Len(evts) : q # r => ~OfRun(evts[i], q)
  BY DEF OfRun
<1>5. ASSUME NEW q \in c.runs, NEW t \in c.transports
      PROVE  InOrder(queue'[t], q) /\ Told(queue[t], q)'
  <2> DEFINE to == queue'[t]
             from == queue[t]
  <2>1. Followed(to, from, evts) /\ InOrder(from, q) /\ Told(from, q)
    BY <1>1 DEF Orderly
  <2>2. \/ \A i \in 1 .. Len(evts) : ~OfRun(evts[i], q)
        \/ Spoken(q, evts, stage) /\ server'[q] = stage /\ (server[q] = "none" => Quiet(from, q))
    BY <1>2, <1>3, <1>4 DEF Orderly
  <2>3. server[q] = server'[q] \/ (server'[q] = stage /\ (server[q] \in Finals => stage \in Finals))
    BY <1>2, <1>3 DEF Spoken
  <2> HIDE DEF from, to
  <2>4. InOrder(to, q) /\ \A i \in 1 .. Len(to) : Completes(to[i], q) => server'[q] \in Finals \/ Void(to, q, i)
    BY <2>1, <2>2, <2>3, OrderFollows
  <2>5. \A i : Void(to, q, i) => Void(queue[t], q, i)'
    BY DEF Void, to
  <2> QED BY <2>4, <2>5 DEF Told, to
<1>6. ASSUME NEW q \in c.runs, server'[q] = "none"
      PROVE  activeRuns'[q] = Absence /\ \A t \in c.transports : Quiet(queue'[t], q)
  <2>1. q # r /\ server[q] = "none"
    BY <1>2, <1>6
  <2>2. activeRuns[q] = Absence /\ \A t \in c.transports : Quiet(queue[t], q)
    BY <2>1 DEF Orderly
  <2>3. \A i \in 1 .. Len(evts) : ~OfRun(evts[i], q)
    BY <1>4, <2>1
  <2> QED BY <1>1, <2>2, <2>3, OthersFollow
<1>7. ASSUME NEW k \in 1 .. Len(completed) PROVE FinishedEntry(c, completed[k])'
  <2> DEFINE q == completed[k].run
  <2>1. q \in c.runs
    BY EntriesAreRuns
  <2>2. FinishedEntry(c, completed[k])
    BY DEF Orderly
  <2>3. server'[q] # "none" /\ (server[q] \in Finals => server'[q] \in Finals)
    BY <1>2, <1>3, <2>1, <2>2 DEF FinishedEntry, Spoken
  <2>4. \A i \in 1 .. Len(evts) : ~Registers(evts[i], q)
    <3>1. CASE q = r
      BY <1>3, <2>2, <3>1 DEF FinishedEntry, Spoken
    <3>2. CASE q # r
      BY <1>4, <2>1, <3>2 DEF Registers, OfRun, RunKinds
    <3> QED BY <3>1, <3>2
  <2>5. \A t \in c.transports : NoneRegisters(queue'[t], q)
    BY <1>1, <2>2, <2>4, QuietRegistersNone DEF FinishedEntry
  <2> QED BY <2>2, <2>3, <2>5 DEF FinishedEntry
<1> QED BY <1>5, <1>6, <1>7 DEF Orderly

LEMMA OrderlyAfterQuest ==
  ASSUME NEW c, DetachedTyped(c), Orderly(c), UNCHANGED <<server, activeRuns, completed>>,
         NEW evts \in Seq(DetachedEvents(c)), Detached(c)!Send(evts),
         \A i \in 1 .. Len(evts), r \in c.runs : ~OfRun(evts[i], r)
  PROVE  Orderly(c)'
<1>1. \A t \in c.transports : Followed(queue'[t], queue[t], evts)
  BY Sends
<1>2. ASSUME NEW q \in c.runs, NEW t \in c.transports
      PROVE  InOrder(queue'[t], q) /\ Told(queue[t], q)' /\ (Quiet(queue'[t], q) <=> Quiet(queue[t], q))
  <2> DEFINE to == queue'[t]
             from == queue[t]
  <2>1. Followed(to, from, evts) /\ InOrder(from, q) /\ Told(from, q) /\ \A i \in 1 .. Len(evts) : ~OfRun(evts[i], q)
    BY <1>1 DEF Orderly
  <2> HIDE DEF from, to
  <2>s. server'[q] = server[q] /\ UNCHANGED activeRuns
    OBVIOUS
  <2>2. InOrder(to, q) /\ \A i \in 1 .. Len(to) : Completes(to[i], q) => server'[q] \in Finals \/ Void(to, q, i)
    BY ONLY <2>1, <2>s, OrderFollows
  <2>3. Quiet(to, q) <=> Quiet(from, q)
    BY <2>1, OthersFollow
  <2>4. \A i : Void(to, q, i) => Void(queue[t], q, i)'
    BY DEF Void, to
  <2> QED BY <2>2, <2>3, <2>4 DEF Told, to, from
<1>3. ASSUME NEW k \in 1 .. Len(completed) PROVE FinishedEntry(c, completed[k])'
  <2> DEFINE q == completed[k].run
  <2>1. q \in c.runs
    BY EntriesAreRuns
  <2>2. FinishedEntry(c, completed[k])
    BY DEF Orderly
  <2>3. \A i \in 1 .. Len(evts) : ~Registers(evts[i], q)
    BY <2>1 DEF Registers, OfRun, RunKinds
  <2>4. \A t \in c.transports : NoneRegisters(queue'[t], q)
    BY <1>1, <2>2, <2>3, QuietRegistersNone DEF FinishedEntry
  <2> QED BY <2>2, <2>4 DEF FinishedEntry
<1> QED BY <1>2, <1>3 DEF Orderly

LEMMA OrderlyAfterEvent ==
  ASSUME NEW c, Detached(c)!DetachmentsAssumption, \A t, u \in c.transports : t = u,
         DetachedTyped(c), Orderly(c), NEW t \in c.transports, Detached(c)!Deliver(t)
  PROVE  Orderly(c)'
<1>0. PICK evt, q, p : evt = Head(queue[t]) /\ q = queue[t] /\ p = queue'[t]
  OBVIOUS
<1>1. /\ queue[t] # <<>> /\ queue' = [queue EXCEPT ![t] = Tail(queue[t])]
      /\ Detached(c)!Handle(evt) /\ UNCHANGED <<server, quests>>
  BY <1>0 DEF Detached!Deliver, DetachedTyped
<1>2. evt \in DetachedEvents(c) /\ evt = q[1] /\ IsTail(p, q)
  BY <1>0, <1>1, Shifts
<1>3. Handled(c, evt)
  BY <1>1, <1>2, Handles
<1>4. \A u \in c.transports : queue[u] = q /\ queue'[u] = p
  BY <1>0
<1>5. /\ \A r \in c.runs : InOrder(q, r) /\ Told(q, r)
      /\ \A r \in c.runs : server[r] = "none" => activeRuns[r] = Absence /\ Quiet(q, r)
      /\ \A r \in c.runs : ~Registers(evt, r) /\ activeRuns[r] = Absence => activeRuns'[r] = Absence
      /\ \A r \in c.runs : Ends(evt, r) => activeRuns'[r] = Absence
  BY <1>0, <1>3 DEF Orderly, Handled
<1>6. ASSUME NEW r \in c.runs
      PROVE  /\ InOrder(p, r)
             /\ NoneRegisters(q, r) => NoneRegisters(p, r) /\ ~Registers(evt, r)
             /\ Ends(evt, r) => NoneRegisters(p, r)
             /\ Completes(evt, r) /\ activeRuns[r] # Absence => server[r] \in Finals
             /\ \A i \in 1 .. Len(p) : Completes(p[i], r) => server[r] \in Finals \/ Void(p, r, i)'
  <2>1. /\ IsTail(p, q) /\ InOrder(q, r) /\ Told(q, r) /\ UNCHANGED server /\ q[1] = evt
        /\ ~Registers(q[1], r) /\ activeRuns[r] = Absence => activeRuns'[r] = Absence
        /\ Ends(q[1], r) => activeRuns'[r] = Absence
    BY <1>1, <1>2, <1>5
  <2> QED BY ONLY <2>1, OrderOfTail
<1>7. ASSUME NEW r \in c.runs, NEW u \in c.transports
      PROVE  InOrder(queue[u], r)' /\ Told(queue[u], r)'
  <2>1. queue'[u] = p
    BY <1>4
  <2>2. \A i : Void(p, r, i)' => Void(queue[u], r, i)'
    BY <2>1 DEF Void
  <2> QED BY <1>1, <1>6, <2>1, <2>2 DEF Told
<1>8. ASSUME NEW r \in c.runs, server[r] = "none" PROVE activeRuns'[r] = Absence /\ Quiet(p, r)
  <2>1. activeRuns[r] = Absence /\ Quiet(q, r)
    BY <1>5, <1>8
  <2>2. ~OfRun(evt, r) /\ Quiet(p, r)
    BY <1>2, <2>1, TailOf
  <2> QED BY <1>5, <2>1, <2>2 DEF OfRun, Registers, RunKinds
<1>9. ASSUME NEW k \in 1 .. Len(completed)
      PROVE  /\ completed[k].run \in c.runs /\ activeRuns[completed[k].run] = Absence
             /\ activeRuns'[completed[k].run] = Absence /\ server[completed[k].run] # "none"
             /\ NoneRegisters(p, completed[k].run)
             /\ completed[k].status \in {"complete", "failed"} => server[completed[k].run] \in Finals
  <2>1. completed[k].run \in c.runs /\ FinishedEntry(c, completed[k])
    BY EntriesAreRuns DEF Orderly
  <2>2. NoneRegisters(q, completed[k].run)
    BY <1>4, <2>1 DEF FinishedEntry
  <2>3. NoneRegisters(p, completed[k].run) /\ ~Registers(evt, completed[k].run)
    BY <1>6, <2>1, <2>2
  <2> QED BY <1>5, <2>1, <2>3 DEF FinishedEntry
<1>10. /\ \A k \in 1 .. Len(completed') : FinishedEntry(c, completed[k])'
       /\ \A i, j \in 1 .. Len(completed') : completed'[i].run = completed'[j].run => i = j
  <2>0. \A x : (/\ activeRuns'[x.run] = Absence /\ server[x.run] # "none" /\ NoneRegisters(p, x.run)
                /\ x.status \in {"complete", "failed"} => server[x.run] \in Finals) => FinishedEntry(c, x)'
    BY <1>1, <1>4 DEF FinishedEntry
  <2>1. CASE completed' = completed
    BY <1>9, <2>0, <2>1 DEF Orderly
  <2>2. CASE completed' # completed
    <3>1. PICK r \in c.runs :
            /\ Ends(evt, r) /\ activeRuns[r] # Absence
            /\ Len(completed') > 0 /\ completed'[1].run = r
            /\ completed'[1].status \in {"complete", "failed"} => evt.type = "subagent_complete"
            /\ \A k \in 2 .. Len(completed') : k - 1 \in 1 .. Len(completed) /\ completed'[k] = completed[k - 1]
      BY <1>3, <2>2 DEF Handled
    <3>2. activeRuns'[r] = Absence /\ server[r] # "none" /\ NoneRegisters(p, r)
      BY <1>5, <1>6, <3>1
    <3>3. completed'[1].status \in {"complete", "failed"} => server[r] \in Finals
      BY <1>6, <3>1 DEF Completes, Ends
    <3>4. \A k \in 1 .. Len(completed') : k = 1 \/ k \in 2 .. Len(completed')
      OBVIOUS
    <3>5. \A k \in 2 .. Len(completed') : completed'[k].run # r /\ k # 1
      <4>1. \A k \in 1 .. Len(completed) : completed[k].run # r
        BY <1>9, <3>1
      <4> QED BY <3>1, <4>1
    <3>n. PICK new : new = completed'
      OBVIOUS
    <3>6. FinishedEntry(c, new[1])'
      BY <2>0, <3>1, <3>2, <3>3, <3>n
    <3>7. \A k \in 2 .. Len(new) : FinishedEntry(c, new[k])'
      <4>1. \A k \in 2 .. Len(new) : k - 1 \in 1 .. Len(completed) /\ new[k] = completed[k - 1]
        BY <3>1, <3>n
      <4> QED BY <1>9, <2>0, <4>1
    <3>k. \A k \in 1 .. Len(completed') : FinishedEntry(c, completed[k])'
      BY <3>4, <3>6, <3>7, <3>n
    <3>8. ASSUME NEW i \in 1 .. Len(completed'), NEW j \in 1 .. Len(completed'), completed'[i].run = completed'[j].run
          PROVE  i = j
      <4>1. CASE i = 1 \/ j = 1
        BY <3>1, <3>4, <3>5, <3>8, <4>1
      <4>2. CASE i # 1 /\ j # 1
        <5>1. /\ i - 1 \in 1 .. Len(completed) /\ completed'[i] = completed[i - 1]
              /\ j - 1 \in 1 .. Len(completed) /\ completed'[j] = completed[j - 1]
          BY <3>1, <3>4, <4>2
        <5>2. i - 1 = j - 1
          BY <3>8, <5>1 DEF Orderly
        <5> QED BY <5>2
      <4> QED BY <4>1, <4>2
    <3> QED BY <3>k, <3>8
  <2> QED BY <2>1, <2>2
<1> QED BY <1>1, <1>4, <1>7, <1>8, <1>10 DEF Orderly

LEMMA OrderlyStep ==
  ASSUME NEW c, Detached(c)!DetachmentsAssumption, \A t, u \in c.transports : t = u,
         DetachedTyped(c), Orderly(c), Detached(c)!Next
  PROVE  Orderly(c)'
<1>1. ASSUME NEW r \in c.runs,
             \/ Detached(c)!RegisterSpawn(r) \/ Detached(c)!Propose(r) \/ Detached(c)!ApproveSpawn(r)
             \/ Detached(c)!RegisterComplete(r) \/ Detached(c)!RequestCancel(r)
      PROVE  Orderly(c)'
  <2>1. PICK evts \in Seq(DetachedEvents(c)), stage \in RunStages \ {"none"} :
          /\ Detached(c)!Send(evts) /\ \A i \in 1 .. Len(evts) : OfRun(evts[i], r)
          /\ Tells(r, evts, stage) /\ server' = [server EXCEPT ![r] = stage]
    BY <1>1, RunIsSent
  <2>2. UNCHANGED <<activeRuns, completed>>
    BY <1>1, RunIsSent
  <2> QED BY <2>1, <2>2, OrderlyAfterRun
<1>2. ASSUME NEW q \in c.missions, Detached(c)!StartQuest(q) \/ Detached(c)!EndQuest(q)
      PROVE  Orderly(c)'
  <2>1. PICK evts \in Seq(DetachedEvents(c)) :
          Detached(c)!Send(evts) /\ \A i \in 1 .. Len(evts), r \in c.runs : ~OfRun(evts[i], r)
    BY <1>2, QuestIsSent
  <2>2. UNCHANGED <<server, activeRuns, completed>>
    BY <1>2, QuestIsSent
  <2> QED BY <2>1, <2>2, OrderlyAfterQuest
<1>3. ASSUME NEW t \in c.transports, Detached(c)!Deliver(t) PROVE Orderly(c)'
  BY <1>3, OrderlyAfterEvent
<1>4. ASSUME NEW r \in c.runs, Detached(c)!Select(r) PROVE Orderly(c)'
  BY <1>4 DEF Detached!Select, Orderly, FinishedEntry, Told, Void
<1> QED BY <1>1, <1>2, <1>3, <1>4 DEF Detached!Next

LEMMA OrderlyListsOnce ==
  ASSUME NEW c, Orderly(c)
  PROVE  Detached(c)!ListedOnce /\ Detached(c)!FinishedWasEnded
BY DEF Orderly, FinishedEntry, Detached!ListedOnce, Detached!FinishedWasEnded, Detached!IsActive,
       Detached!Absent, Detached!None, Detached!Ended, Absence, Finals

LEMMA DetachedRests ==
  ASSUME NEW c, UNCHANGED runVars
  PROVE  (DetachedTyped(c) => DetachedTyped(c)') /\ (Ghostless(c) => Ghostless(c)') /\ (Orderly(c) => Orderly(c)')
BY DEF runVars, DetachedTyped, Detached!TypeOK, Ghostless, Closing, Orderly, FinishedEntry, Told, Void

---------------------------------------------------------------------------
(* The units of external agents on the map.                                 *)

SessionIds(c) == c.ext \cup c.own
References(c) == (DOMAIN c.home) \cup {c.elsewhere}
Row(c) == [city : References(c), state : {"working", "idle", "closed", "none"}]

(* What a tracker or a session store lists: no row at all, or one with a    *)
(* state; only RepoCiv's own sessions are closed.                           *)
Listings(c) ==
  {f \in [SessionIds(c) -> Row(c)] :
     \A id \in SessionIds(c) :
       /\ f[id].state = "none" => f[id] = Agents(c)!NoRow
       /\ f[id].state = "closed" => id \notin c.ext}

UnitEvents(c) ==
  [type : {"unit_spawn", "unit_relocate"}, unit : SessionIds(c), city : References(c)]
  \cup [type : {"unit_state"}, unit : SessionIds(c), state : {"working", "idle"}]
  \cup [type : {"unit_despawn"}, unit : SessionIds(c)]

(* A unit on the map; one that moves has a way that leads to its target.    *)
UnitRecords(c) ==
  [at : 0 .. c.edge, to : (0 .. c.edge) \cup {-1}, path : Seq(0 .. c.edge),
   state : {"idle", "working", "moving"}, arrival : {"idle", "working", "none"},
   mission : BOOLEAN, city : DOMAIN c.home]
Walkers(c) ==
  {u \in UnitRecords(c) :
     /\ Len(u.path) <= c.edge
     /\ u.state = "moving" => u.to \in 0 .. c.edge /\ u.path # <<>> /\ u.path[Len(u.path)] = u.to}
Pieces(c) == Walkers(c) \cup {Agents(c)!NoUnit}

AgentsHold(c) ==
  /\ sessions \in Listings(c)
  /\ units \in [SessionIds(c) -> Pieces(c)]
  /\ feed \in Seq(UnitEvents(c))
  /\ answers \subseteq Listings(c) /\ IsFiniteSet(answers) /\ Cardinality(answers) <= c.flying
  /\ due \in BOOLEAN

LEMMA WalkersAreOnMap ==
  ASSUME NEW c, Agents(c)!MapAssumption, NEW u \in Pieces(c)
  PROVE  Agents(c)!OnMap(u) <=> u \in Walkers(c)
<1>1. \A w \in Walkers(c) : w.at # -1
  BY DEF Walkers, UnitRecords, Agents!MapAssumption
<1>2. Agents(c)!NoUnit.at = -1
  BY DEF Agents!NoUnit
<1> QED BY <1>1, <1>2 DEF Pieces, Agents!OnMap

(* A path that leads from one hex to another ends there.                    *)
LEMMA PathLeads ==
  ASSUME NEW c, Agents(c)!MapAssumption, NEW a \in 0 .. c.edge, NEW b \in 0 .. c.edge,
         NEW p, p = Agents(c)!aStarPath(a, b)
  PROVE  /\ p \in Seq(0 .. c.edge) /\ Len(p) <= c.edge
         /\ p # <<>> => p[Len(p)] = b
<1>1. c.edge \in Nat
  BY DEF Agents!MapAssumption
<1> DEFINE up == [i \in 1 .. b - a |-> a + i * 1]
           down == [i \in 1 .. a - b |-> a + i * (-1)]
<1>2. p = <<>> \/ (b > a /\ p = up) \/ (b <= a /\ p = down)
  <2>1. PICK step, n : step = (IF b > a THEN 1 ELSE -1) /\ n = IF b > a THEN b - a ELSE a - b
    OBVIOUS
  <2>2. p = <<>> \/ p = [i \in 1 .. n |-> a + i * step]
    BY <2>1, Zenon DEF Agents!aStarPath
  <2>3. CASE b > a
    <3>1. step = 1 /\ n = b - a
      BY <2>1, <2>3
    <3> QED BY <2>2, <2>3, <3>1, Zenon
  <2>4. CASE ~(b > a)
    <3>1. step = -1 /\ n = a - b /\ b <= a
      BY <2>1, <2>4
    <3> QED BY <2>2, <3>1, Zenon
  <2> QED BY <2>3, <2>4
<1>3. CASE p = <<>>
  BY <1>1, <1>3
<1>4. CASE b > a /\ p = up
  <2>1. b - a \in Nat /\ b - a <= c.edge /\ b - a \in 1 .. b - a
    BY <1>1, <1>4
  <2>2. \A i \in 1 .. b - a : up[i] = a + i /\ a + i \in 0 .. c.edge
    BY <1>1, <1>4
  <2>3. up \in Seq(0 .. c.edge) /\ Len(up) = b - a
    BY <2>1, <2>2, LenProperties
  <2>4. up[b - a] = b
    BY <2>1, <2>2
  <2> QED BY <1>4, <2>1, <2>3, <2>4
<1>5. CASE b <= a /\ p = down
  <2>1. a - b \in Nat /\ a - b <= c.edge
    BY <1>1, <1>5
  <2>2. \A i \in 1 .. a - b : down[i] = a - i /\ a - i \in 0 .. c.edge
    BY <1>1, <1>5
  <2>3. down \in Seq(0 .. c.edge) /\ Len(down) = a - b
    BY <2>1, <2>2, LenProperties
  <2>4. down # <<>> => down[a - b] = b
    <3>1. CASE a - b = 0
      BY <2>3, <3>1
    <3>2. CASE a - b # 0
      BY <2>1, <2>2, <3>2
    <3> QED BY <3>1, <3>2
  <2> QED BY <1>5, <2>1, <2>3, <2>4
<1> QED BY <1>2, <1>3, <1>4, <1>5

LEMMA CityOfRef ==
  ASSUME NEW c, Agents(c)!MapAssumption, Agents(c)!AgentsAssumption, NEW ref
  PROVE  /\ Agents(c)!cityForRef(ref) \in DOMAIN c.home
         /\ c.home[Agents(c)!cityForRef(ref)] \in 0 .. c.edge
BY DEF Agents!MapAssumption, Agents!AgentsAssumption, Agents!cityForRef

LEMMA Spawned ==
  ASSUME NEW c, Agents(c)!MapAssumption, NEW u \in Pieces(c),
         NEW coord \in 0 .. c.edge, NEW city \in DOMAIN c.home
  PROVE  Agents(c)!spawnUnit(u, coord, TRUE, city) \in Walkers(c)
<1>1. CASE Agents(c)!OnMap(u)
  BY <1>1, WalkersAreOnMap DEF Agents!spawnUnit
<1>2. CASE ~Agents(c)!OnMap(u)
  <2> DEFINE w == [at |-> coord, to |-> -1, path |-> <<>>, state |-> "idle", arrival |-> "none", mission |-> TRUE, city |-> city]
  <2>1. w \in UnitRecords(c) /\ w.path = <<>> /\ w.state = "idle"
    BY DEF UnitRecords
  <2>2. Agents(c)!spawnUnit(u, coord, TRUE, city) = w
    BY <1>2 DEF Agents!spawnUnit, Agents!NoHex, Agents!NoState
  <2>3. c.edge \in Nat /\ Len(w.path) = 0
    BY DEF Agents!MapAssumption
  <2> HIDE DEF w
  <2>4. w \in Walkers(c)
    BY <2>1, <2>3 DEF Walkers
  <2> QED BY <2>2, <2>4, Zenon
<1> QED BY <1>1, <1>2

LEMMA Sent ==
  ASSUME NEW c, Agents(c)!MapAssumption, NEW u \in Walkers(c), NEW hex \in 0 .. c.edge
  PROVE  /\ Agents(c)!moveUnit(u, hex) \in Walkers(c)
         /\ Agents(c)!walkUnitTo(u, hex) \in Walkers(c)
<1>1. u \in UnitRecords(c)
  BY DEF Walkers
<1>2. CASE ~Agents(c)!CanWalk(u, hex)
  BY <1>2 DEF Agents!moveUnit, Agents!walkUnitTo
<1>3. CASE Agents(c)!CanWalk(u, hex)
  <2> DEFINE p == Agents(c)!aStarPath(u.at, hex)
             w == [u EXCEPT !.path = p, !.to = hex, !.state = "moving"]
             before == IF u.state = "moving" THEN u.arrival ELSE u.state
             after == IF before = "none" THEN "idle" ELSE before
             v == [w EXCEPT !.arrival = after]
  <2>0. u.at \in 0 .. c.edge
    BY <1>1 DEF UnitRecords
  <2>1. p \in Seq(0 .. c.edge) /\ Len(p) <= c.edge /\ p # <<>> /\ (p # <<>> => p[Len(p)] = hex)
    BY <1>3, <2>0, PathLeads DEF Agents!CanWalk
  <2>2. Agents(c)!moveUnit(u, hex) = w
    BY <1>3 DEF Agents!moveUnit
  <2>3. Agents(c)!walkUnitTo(u, hex) = v
    BY <1>3, <2>2 DEF Agents!walkUnitTo, Agents!NoState
  <2> HIDE DEF p
  <2>4. /\ w \in UnitRecords(c) /\ w.path = p /\ w.to = hex /\ w.state = "moving"
    BY <1>1, <2>1 DEF UnitRecords
  <2>5. after \in {"idle", "working", "none"}
    BY <1>1 DEF UnitRecords
  <2> HIDE DEF w, after
  <2>6. v \in UnitRecords(c) /\ v.path = p /\ v.to = hex
    BY <2>4, <2>5 DEF UnitRecords
  <2> HIDE DEF v
  <2> QED BY <2>1, <2>2, <2>3, <2>4, <2>6 DEF Walkers
<1> QED BY <1>2, <1>3

LEMMA Stated ==
  ASSUME NEW c, Agents(c)!MapAssumption, NEW u \in Pieces(c), NEW s \in {"working", "idle"}
  PROVE  Agents(c)!setUnitState(u, s) \in Pieces(c)
<1>1. CASE ~Agents(c)!OnMap(u)
  BY <1>1 DEF Agents!setUnitState
<1>2. CASE Agents(c)!OnMap(u)
  <2>1. u \in Walkers(c) /\ u \in UnitRecords(c)
    BY <1>2, WalkersAreOnMap DEF Walkers
  <2> DEFINE v == [u EXCEPT !.arrival = s]
             w == [u EXCEPT !.state = s]
  <2>2. /\ v \in UnitRecords(c) /\ v.path = u.path /\ v.to = u.to /\ v.state = u.state
        /\ w \in UnitRecords(c) /\ w.path = u.path /\ w.state # "moving"
    BY <2>1 DEF UnitRecords
  <2>3. Agents(c)!setUnitState(u, s) \in {v, w}
    BY <1>2 DEF Agents!setUnitState
  <2> HIDE DEF v, w
  <2> QED BY <2>1, <2>2, <2>3 DEF Walkers, Pieces
<1> QED BY <1>1, <1>2

LEMMA Relocated ==
  ASSUME NEW c, Agents(c)!MapAssumption, Agents(c)!AgentsAssumption, NEW u \in Pieces(c), NEW evt
  PROVE  Agents(c)!unit_relocate(u, evt) \in Pieces(c)
<1> DEFINE city == Agents(c)!cityForRef(evt.city)
           hex == c.home[city]
<1>1. city \in DOMAIN c.home /\ hex \in 0 .. c.edge
  BY CityOfRef
<1>2. CASE ~Agents(c)!OnMap(u) \/ u.city = city
  BY <1>2 DEF Agents!unit_relocate
<1>3. CASE Agents(c)!OnMap(u) /\ u.city # city
  <2>1. u \in Walkers(c) /\ u \in UnitRecords(c)
    BY <1>3, WalkersAreOnMap DEF Walkers
  <2> DEFINE put == [u EXCEPT !.at = hex]
             moved == IF Agents(c)!CanWalk(u, hex) THEN Agents(c)!walkUnitTo(u, hex) ELSE put
             v == [moved EXCEPT !.city = city]
  <2>2. Agents(c)!unit_relocate(u, evt) = Agents(c)!setUnitCity(moved, city)
    BY <1>3 DEF Agents!unit_relocate
  <2> HIDE DEF city, hex
  <2>3. put \in UnitRecords(c) /\ put.path = u.path /\ put.to = u.to /\ put.state = u.state
    BY <1>1, <2>1 DEF UnitRecords
  <2> HIDE DEF put
  <2>4. put \in Walkers(c)
    BY <2>1, <2>3 DEF Walkers
  <2>5. moved \in Walkers(c)
    BY <1>1, <2>1, <2>4, Sent
  <2> HIDE DEF moved
  <2>6. v \in UnitRecords(c) /\ v.path = moved.path /\ v.to = moved.to /\ v.state = moved.state
    BY <1>1, <2>5 DEF Walkers, UnitRecords
  <2>7. Agents(c)!setUnitCity(moved, city) \in {moved, v}
    BY DEF Agents!setUnitCity
  <2> HIDE DEF v
  <2> QED BY <2>2, <2>5, <2>6, <2>7 DEF Walkers, Pieces
<1> QED BY <1>2, <1>3

LEMMA Steps ==
  ASSUME NEW c, Agents(c)!MapAssumption, NEW u \in Pieces(c), Agents(c)!Walking(u)
  PROVE  Agents(c)!updateUnits(u) \in Pieces(c)
<1>1. u \in Walkers(c) /\ u \in UnitRecords(c) /\ u.state = "moving"
  BY WalkersAreOnMap DEF Walkers, Agents!Walking
<1>2. /\ u.path \in Seq(0 .. c.edge) /\ Len(u.path) <= c.edge /\ u.path # <<>>
      /\ u.to \in 0 .. c.edge /\ u.path[Len(u.path)] = u.to
  BY <1>1 DEF Walkers, UnitRecords
<1> DEFINE p == u.path
<1>3. CASE Len(p) > 1
  <2>0. PICK q : q = p
    OBVIOUS
  <2>1. /\ Head(q) = q[1] /\ Tail(q) \in Seq(0 .. c.edge) /\ Len(Tail(q)) = Len(q) - 1
        /\ \A i \in 1 .. Len(Tail(q)) : Tail(q)[i] = q[i + 1]
    <3>1. q \in Seq(0 .. c.edge) /\ q # <<>>
      BY <1>2, <2>0
    <3> QED BY <3>1, HeadTailProperties
  <2>2. Len(q) \in Nat /\ q[1] \in 0 .. c.edge
    <3>1. q \in Seq(0 .. c.edge) /\ Len(q) > 1
      BY <1>2, <1>3, <2>0
    <3>2. Len(q) \in Nat
      BY <3>1
    <3>3. 1 \in 1 .. Len(q)
      BY <3>1, <3>2
    <3> QED BY <3>1, <3>2, <3>3, ElementOfSeq
  <2>3. PICK head, tail : head = Head(q) /\ tail = Tail(q)
    OBVIOUS
  <2>4. /\ head \in 0 .. c.edge /\ tail \in Seq(0 .. c.edge) /\ tail # <<>> /\ Len(tail) <= c.edge
        /\ tail[Len(tail)] = u.to
    <3>1. Len(tail) = Len(q) - 1 /\ Len(tail) \in 1 .. Len(tail)
      BY <1>3, <2>0, <2>1, <2>2, <2>3
    <3>2. tail[Len(tail)] = q[Len(q)]
      BY <2>1, <2>2, <2>3, <3>1
    <3>3. c.edge \in Nat
      BY DEF Agents!MapAssumption
    <3>4. tail # <<>>
      BY <3>1
    <3>5. head \in 0 .. c.edge /\ tail \in Seq(0 .. c.edge)
      BY <2>1, <2>2, <2>3
    <3>6. Len(tail) <= c.edge
      BY <1>2, <2>0, <2>2, <3>1, <3>3
    <3>7. tail[Len(tail)] = u.to
      BY <1>2, <2>0, <3>2
    <3> QED BY <3>4, <3>5, <3>6, <3>7
  <2> DEFINE v == [u EXCEPT !.at = head, !.path = tail]
  <2>5. Agents(c)!updateUnits(u) = v
    BY <1>3, <2>0, <2>3 DEF Agents!updateUnits
  <2>6. v \in UnitRecords(c) /\ v.path = tail /\ v.to = u.to
    BY <1>1, <2>4 DEF UnitRecords
  <2> HIDE DEF v
  <2> QED BY <1>2, <2>4, <2>5, <2>6 DEF Walkers, Pieces
<1>4. CASE ~(Len(p) > 1)
  <2> DEFINE after == IF u.arrival # "none" THEN u.arrival ELSE IF u.mission THEN "working" ELSE "idle"
             v == [u EXCEPT !.at = u.to, !.to = -1, !.path = <<>>, !.arrival = "none", !.state = after]
  <2>1. Agents(c)!updateUnits(u) = v
    BY <1>4 DEF Agents!updateUnits, Agents!NoHex, Agents!NoState
  <2>2. after \in {"idle", "working"}
    BY <1>1 DEF UnitRecords
  <2> HIDE DEF after
  <2>n. PICK nil : nil = <<>> /\ nil \in Seq(0 .. c.edge)
    <3>1. <<>> \in Seq(0 .. c.edge)
      OBVIOUS
    <3> QED BY <3>1, Zenon
  <2>h. PICK hex : hex = u.to /\ hex \in 0 .. c.edge
    BY <1>2, Zenon
  <2>v. nil = <<>> /\ nil \in Seq(0 .. c.edge) /\ hex = u.to /\ hex \in 0 .. c.edge
    BY <2>n, <2>h
  <2>w. v = [u EXCEPT !.at = hex, !.to = -1, !.path = nil, !.arrival = "none", !.state = after]
    BY <2>v
  <2> HIDE DEF v
  <2>u. v \in UnitRecords(c) /\ v.path = nil /\ v.state = after
    BY <1>1, <2>2, <2>v, <2>w DEF UnitRecords
  <2>3. v \in UnitRecords(c) /\ v.path = <<>> /\ v.state # "moving" /\ Len(v.path) = 0
    BY <2>2, <2>v, <2>u
  <2>4. c.edge \in Nat
    BY DEF Agents!MapAssumption
  <2> QED BY <2>1, <2>3, <2>4 DEF Walkers, Pieces
<1> QED BY <1>3, <1>4

(* Every event leaves a unit that walks somewhere.                          *)
LEMMA EventHandled ==
  ASSUME NEW c, Agents(c)!MapAssumption, Agents(c)!AgentsAssumption, NEW u \in Pieces(c), NEW evt \in UnitEvents(c)
  PROVE  Agents(c)!handleBridgeEvent(u, evt) \in Pieces(c)
<1>1. CASE evt.type = "unit_spawn"
  <2>1. Agents(c)!handleBridgeEvent(u, evt) = Agents(c)!unit_spawn(u, evt)
    BY <1>1 DEF Agents!handleBridgeEvent
  <2> QED BY <2>1, CityOfRef, Spawned DEF Agents!unit_spawn, Pieces
<1>2. CASE evt.type = "unit_relocate"
  <2>1. Agents(c)!handleBridgeEvent(u, evt) = Agents(c)!unit_relocate(u, evt)
    BY <1>2 DEF Agents!handleBridgeEvent
  <2> QED BY <2>1, Relocated
<1>3. CASE evt.type = "unit_state"
  <2>1. Agents(c)!handleBridgeEvent(u, evt) = Agents(c)!setUnitState(u, evt.state)
    BY <1>3 DEF Agents!handleBridgeEvent
  <2>2. evt.state \in {"working", "idle"}
    BY <1>3 DEF UnitEvents
  <2> QED BY <2>1, <2>2, Stated
<1>4. CASE evt.type = "unit_despawn"
  BY <1>4 DEF Agents!handleBridgeEvent, Pieces
<1>5. evt.type \in {"unit_spawn", "unit_relocate", "unit_state", "unit_despawn"} /\ evt.unit \in SessionIds(c)
  BY DEF UnitEvents
<1> QED BY <1>1, <1>2, <1>3, <1>4, <1>5

LEMMA EventsTyped ==
  ASSUME NEW c, NEW id \in SessionIds(c), NEW row \in Row(c)
  PROVE  /\ Agents(c)!Spawn(id, row) \in UnitEvents(c) /\ Agents(c)!Relocate(id, row) \in UnitEvents(c)
         /\ Agents(c)!Despawn(id) \in UnitEvents(c)
         /\ row.state \in {"working", "idle"} => Agents(c)!State(id, row) \in UnitEvents(c)
<1>1. row.city \in References(c)
  BY DEF Row
<1> QED BY <1>1 DEF UnitEvents, Agents!Spawn, Agents!Relocate, Agents!Despawn, Agents!State

LEMMA Optional ==
  ASSUME NEW c, NEW test, NEW evt, test => evt \in UnitEvents(c)
  PROVE  Agents(c)!If(test, evt) \in Seq(UnitEvents(c))
<1>1. CASE test
  <2>1. <<evt>> \in Seq(UnitEvents(c))
    BY <1>1
  <2> QED BY <1>1, <2>1, Zenon DEF Agents!If
<1>2. CASE ~test
  <2>1. <<>> \in Seq(UnitEvents(c))
    OBVIOUS
  <2> QED BY <1>2, <2>1, Zenon DEF Agents!If
<1> QED BY <1>1, <1>2

(* The difference to a listing is made of events of the feed.               *)
LEMMA SyncTyped ==
  ASSUME NEW c, NEW id \in SessionIds(c), NEW f \in Listings(c), NEW u
  PROVE  Agents(c)!SyncEvents(id, u, f[id]) \in Seq(UnitEvents(c))
<1> DEFINE row == f[id]
           S == Seq(UnitEvents(c))
<1>1. row \in Row(c) /\ (row.state = "none" => row = Agents(c)!NoRow) /\ (row.state = "closed" => id \notin c.ext)
  BY DEF Listings
<1>2. row.state \in {"working", "idle", "closed", "none"}
  BY <1>1 DEF Row
<1> HIDE DEF row
<1>3. \A test : Agents(c)!If(test, Agents(c)!Despawn(id)) \in S /\ Agents(c)!If(test, Agents(c)!Spawn(id, row)) \in S
                /\ Agents(c)!If(test, Agents(c)!Relocate(id, row)) \in S
  BY <1>1, EventsTyped, Optional
<1>4. ASSUME Agents(c)!HasRow(row), row.state # "closed"
      PROVE  \A test : Agents(c)!If(test, Agents(c)!State(id, row)) \in S
  <2>1. row.state \in {"working", "idle"}
    BY <1>1, <1>2, <1>4 DEF Agents!HasRow
  <2> QED BY <1>1, <2>1, EventsTyped, Optional
<1>5. \A s, t \in S : s \o t \in S
  BY ConcatProperties
<1>6. <<>> \in S
  OBVIOUS
<1> HIDE DEF S
<1>7. CASE id \in c.ext
  <2>1. row.state # "closed"
    BY <1>1, <1>7
  <2>2. Agents(c)!SyncEvents(id, u, row) = Agents(c)!externalAgentEvents(id, u, row)
    BY <1>7 DEF Agents!SyncEvents
  <2>3. CASE ~Agents(c)!HasRow(row)
    BY <1>3, <2>2, <2>3, Zenon DEF Agents!externalAgentEvents, row, S
  <2>4. CASE Agents(c)!HasRow(row)
    <3>1. PICK x, y, z \in S : Agents(c)!externalAgentEvents(id, u, row) = x \o y \o z
      BY <1>3, <1>4, <2>1, <2>4, Zenon DEF Agents!externalAgentEvents
    <3>2. x \o y \in S
      BY <1>5
    <3> QED BY <1>5, <2>2, <3>1, <3>2 DEF row, S
  <2> QED BY <2>3, <2>4 DEF row, S
<1>8. CASE id \notin c.ext
  <2>1. Agents(c)!SyncEvents(id, u, row) = Agents(c)!ownSessionEvents(id, u, row)
    BY <1>8 DEF Agents!SyncEvents
  <2>2. CASE ~Agents(c)!HasRow(row)
    <3>0. row.state # "closed"
      BY <2>2 DEF Agents!HasRow, Agents!NoRow
    <3>1. Agents(c)!ownSessionEvents(id, u, row) = <<>>
      BY <2>2, <3>0, Zenon DEF Agents!ownSessionEvents
    <3> QED BY <1>6, <2>1, <3>1 DEF row, S
  <2>3. CASE Agents(c)!HasRow(row) /\ row.state = "closed"
    <3>1. Agents(c)!ownSessionEvents(id, u, row) = Agents(c)!If(Agents(c)!OnMap(u), Agents(c)!Despawn(id))
      BY <2>3, Zenon DEF Agents!ownSessionEvents
    <3>2. Agents(c)!If(Agents(c)!OnMap(u), Agents(c)!Despawn(id)) \in S
      BY <1>3, Zenon
    <3> QED BY <2>1, <3>1, <3>2 DEF row, S
  <2>4. CASE Agents(c)!HasRow(row) /\ row.state # "closed"
    <3>1. PICK x, y \in S : Agents(c)!ownSessionEvents(id, u, row) = x \o y
      BY <1>3, <1>4, <2>4, Zenon DEF Agents!ownSessionEvents
    <3> QED BY <1>5, <2>1, <3>1 DEF row, S
  <2> QED BY <2>2, <2>3, <2>4 DEF row, S
<1> QED BY <1>7, <1>8

LEMMA Replayed ==
  ASSUME NEW c, Agents(c)!MapAssumption, Agents(c)!AgentsAssumption, NEW u \in Pieces(c),
         NEW evts \in Seq(UnitEvents(c))
  PROVE  Agents(c)!Replay(u, evts) \in Pieces(c)
<1> DEFINE first == IF evts # <<>> THEN Agents(c)!handleBridgeEvent(u, evts[1]) ELSE u
<1>1. first \in Pieces(c)
  <2>1. CASE evts # <<>>
    <3>1. evts[1] \in UnitEvents(c)
      BY <2>1
    <3> QED BY <2>1, <3>1, EventHandled
  <2> QED BY <2>1
<1> HIDE DEF first
<1>2. CASE Len(evts) > 1
  <2>1. evts[2] \in UnitEvents(c)
    <3>1. 2 \in 1 .. Len(evts)
      BY <1>2
    <3> QED BY <3>1, ElementOfSeq
  <2>2. Agents(c)!Replay(u, evts) = Agents(c)!handleBridgeEvent(first, evts[2])
    BY <1>2 DEF Agents!Replay, first
  <2> QED BY <1>1, <2>1, <2>2, EventHandled
<1>3. CASE ~(Len(evts) > 1)
  <2>1. Agents(c)!Replay(u, evts) = first
    BY <1>3 DEF Agents!Replay, first
  <2> QED BY <1>1, <2>1
<1> QED BY <1>2, <1>3

LEMMA AgentsStart ==
  ASSUME NEW c, Agents(c)!MapAssumption, Agents(c)!AgentsAssumption, Agents(c)!Init
  PROVE  AgentsHold(c)
<1>1. sessions \in Listings(c)
  <2>1. Agents(c)!NoRow \in Row(c) /\ Agents(c)!NoRow.state = "none"
    BY DEF Agents!NoRow, Row, References
  <2>2. sessions = [id \in SessionIds(c) |-> Agents(c)!NoRow]
    BY DEF Agents!Init, Agents!Ids, SessionIds
  <2> QED BY <2>1, <2>2 DEF Listings
<1>2. units \in [SessionIds(c) -> Pieces(c)]
  BY DEF Agents!Init, Agents!Ids, SessionIds, Pieces
<1>3. IsFiniteSet(answers) /\ Cardinality(answers) = 0 /\ c.flying \in Nat
  BY FS_EmptySet DEF Agents!Init, Agents!AgentsAssumption
<1>4. feed \in Seq(UnitEvents(c))
  BY DEF Agents!Init
<1> QED BY <1>1, <1>2, <1>3, <1>4 DEF AgentsHold, Agents!Init

(* The bridge changes a row, and tells it or not.                           *)
LEMMA RowChanges ==
  ASSUME NEW c, AgentsHold(c), NEW id \in SessionIds(c), NEW row \in Row(c),
         row.state = "none" => row = Agents(c)!NoRow, row.state = "closed" => id \notin c.ext,
         NEW evts \in Seq(UnitEvents(c)), Agents(c)!Change(id, row, evts), units' \in [SessionIds(c) -> Pieces(c)]
  PROVE  AgentsHold(c)'
<1>1. sessions' \in Listings(c)
  <2>1. sessions' = [sessions EXCEPT ![id] = row]
    BY DEF Agents!Change
  <2> QED BY <2>1 DEF AgentsHold, Listings
<1>2. feed' \in Seq(UnitEvents(c))
  <2>1. feed \o evts \in Seq(UnitEvents(c))
    BY ConcatProperties DEF AgentsHold
  <2> QED BY <2>1 DEF Agents!Change, Agents!Announce, AgentsHold
<1>3. UNCHANGED <<answers, due>>
  BY DEF Agents!Change
<1> QED BY <1>1, <1>2, <1>3 DEF AgentsHold

LEMMA AgentsStep ==
  ASSUME NEW c, Agents(c)!MapAssumption, Agents(c)!AgentsAssumption, AgentsHold(c), Agents(c)!Next
  PROVE  AgentsHold(c)'
<1>0. /\ Agents(c)!Ids = SessionIds(c) /\ Agents(c)!Refs = References(c)
      /\ units \in [SessionIds(c) -> Pieces(c)] /\ sessions \in Listings(c)
  BY DEF Agents!Ids, SessionIds, Agents!Refs, References, AgentsHold
<1>r. \A id \in SessionIds(c) :
        /\ sessions[id] \in Row(c)
        /\ sessions[id].state = "none" => sessions[id] = Agents(c)!NoRow
        /\ sessions[id].state = "closed" => id \notin c.ext
  BY <1>0 DEF Listings
<1>n. Agents(c)!NoRow \in Row(c) /\ Agents(c)!NoRow.state = "none"
  BY DEF Agents!NoRow, Row, References
<1>e. <<>> \in Seq(UnitEvents(c)) /\ \A a, b \in UnitEvents(c) : <<a>> \in Seq(UnitEvents(c)) /\ <<a, b>> \in Seq(UnitEvents(c))
  OBVIOUS
<1>1. ASSUME NEW id \in SessionIds(c), Agents(c)!Start(id) PROVE AgentsHold(c)'
  <2>1. PICK ref \in References(c), s \in {"working", "idle"} :
          LET row == [city |-> ref, state |-> s]
          IN  IF id \in c.ext
              THEN Agents(c)!Change(id, row, <<Agents(c)!Spawn(id, row), Agents(c)!State(id, row)>>) /\ UNCHANGED units
              ELSE /\ Agents(c)!Change(id, row, <<>>)
                   /\ units' = [units EXCEPT ![id] =
                                  Agents(c)!spawnUnit(units[id], c.home[Agents(c)!cityForRef(ref)], TRUE, Agents(c)!cityForRef(ref))]
    BY <1>0, <1>1 DEF Agents!Start, Agents!RowStates
  <2> DEFINE row == [city |-> ref, state |-> s]
  <2>2. row \in Row(c) /\ row.state \in {"working", "idle"}
    BY DEF Row
  <2>3. CASE id \in c.ext
    <3>1. Agents(c)!Change(id, row, <<Agents(c)!Spawn(id, row), Agents(c)!State(id, row)>>) /\ UNCHANGED units
      BY <2>1, <2>3
    <3> HIDE DEF row
    <3>2. <<Agents(c)!Spawn(id, row), Agents(c)!State(id, row)>> \in Seq(UnitEvents(c))
      BY <1>e, <2>2, EventsTyped
    <3> QED BY <1>0, <2>2, <3>1, <3>2, RowChanges
  <2>4. CASE id \notin c.ext
    <3> DEFINE city == Agents(c)!cityForRef(ref)
               u == Agents(c)!spawnUnit(units[id], c.home[city], TRUE, city)
    <3>1. Agents(c)!Change(id, row, <<>>) /\ units' = [units EXCEPT ![id] = u]
      BY <2>1, <2>4
    <3>2. u \in Pieces(c)
      <4>1. city \in DOMAIN c.home /\ c.home[city] \in 0 .. c.edge
        BY CityOfRef
      <4>2. units[id] \in Pieces(c)
        BY <1>0
      <4> QED BY <4>1, <4>2, Spawned DEF Pieces
    <3> HIDE DEF row, u
    <3>3. units' \in [SessionIds(c) -> Pieces(c)]
      BY <1>0, <3>1, <3>2
    <3> QED BY <1>e, <2>2, <3>1, <3>3, RowChanges
  <2> QED BY <2>3, <2>4
<1>2. ASSUME NEW id \in SessionIds(c), Agents(c)!Relocates(id) PROVE AgentsHold(c)'
  <2>1. PICK ref \in References(c) :
          Agents(c)!Change(id, [sessions[id] EXCEPT !.city = ref], <<Agents(c)!Relocate(id, [sessions[id] EXCEPT !.city = ref])>>)
    BY <1>0, <1>2 DEF Agents!Relocates
  <2> DEFINE row == [sessions[id] EXCEPT !.city = ref]
  <2>2. id \in c.ext /\ Agents(c)!HasRow(sessions[id]) /\ UNCHANGED units
    BY <1>2 DEF Agents!Relocates
  <2>3. sessions[id].state \in {"working", "idle"}
    BY <1>r, <2>2 DEF Agents!HasRow, Row
  <2>4. row \in Row(c) /\ row.state = sessions[id].state
    BY <1>r DEF Row
  <2>5. Agents(c)!Change(id, row, <<Agents(c)!Relocate(id, row)>>)
    BY <2>1
  <2> HIDE DEF row
  <2>6. <<Agents(c)!Relocate(id, row)>> \in Seq(UnitEvents(c))
    BY <1>e, <2>4, EventsTyped
  <2> QED BY <1>0, <2>2, <2>3, <2>4, <2>5, <2>6, RowChanges
<1>3. ASSUME NEW id \in SessionIds(c), Agents(c)!ChangesState(id) PROVE AgentsHold(c)'
  <2>1. PICK s \in {"working", "idle"} :
          Agents(c)!Change(id, [sessions[id] EXCEPT !.state = s], <<Agents(c)!State(id, [sessions[id] EXCEPT !.state = s])>>)
    BY <1>3 DEF Agents!ChangesState, Agents!RowStates
  <2> DEFINE row == [sessions[id] EXCEPT !.state = s]
  <2>2. row \in Row(c) /\ row.state = s
    BY <1>r DEF Row
  <2>3. Agents(c)!Change(id, row, <<Agents(c)!State(id, row)>>) /\ UNCHANGED units
    BY <1>3, <2>1 DEF Agents!ChangesState
  <2> HIDE DEF row
  <2>4. <<Agents(c)!State(id, row)>> \in Seq(UnitEvents(c))
    BY <1>e, <2>2, EventsTyped
  <2> QED BY <1>0, <2>2, <2>3, <2>4, RowChanges
<1>4. ASSUME NEW id \in SessionIds(c), Agents(c)!Ends(id) PROVE AgentsHold(c)'
  <2>1. UNCHANGED units
    BY <1>4 DEF Agents!Ends
  <2>2. <<Agents(c)!Despawn(id)>> \in Seq(UnitEvents(c))
    BY <1>e, <1>n, EventsTyped
  <2>3. CASE id \in c.ext
    <3>1. Agents(c)!Change(id, Agents(c)!NoRow, <<Agents(c)!Despawn(id)>>)
      BY <1>4, <2>3 DEF Agents!Ends
    <3> QED BY <1>0, <1>n, <2>1, <2>2, <3>1, RowChanges
  <2>4. CASE id \notin c.ext
    <3> DEFINE row == [sessions[id] EXCEPT !.state = "closed"]
    <3>1. Agents(c)!Change(id, row, <<Agents(c)!Despawn(id)>>)
      BY <1>4, <2>4 DEF Agents!Ends
    <3>2. row \in Row(c) /\ row.state = "closed"
      BY <1>r DEF Row
    <3> HIDE DEF row
    <3> QED BY <1>0, <2>1, <2>2, <2>4, <3>1, <3>2, RowChanges
  <2> QED BY <2>3, <2>4
<1>5. ASSUME NEW id \in SessionIds(c), Agents(c)!Walk(id) PROVE AgentsHold(c)'
  <2>1. /\ Agents(c)!Walking(units[id]) /\ units' = [units EXCEPT ![id] = Agents(c)!updateUnits(units[id])]
        /\ UNCHANGED <<sessions, feed, answers, due>>
    BY <1>0, <1>5 DEF Agents!Walk
  <2>2. Agents(c)!updateUnits(units[id]) \in Pieces(c)
    BY <1>0, <2>1, Steps
  <2>3. units' \in [SessionIds(c) -> Pieces(c)]
    BY <1>0, <2>1, <2>2
  <2> QED BY <2>1, <2>3 DEF AgentsHold
<1>6. ASSUME NEW id \in SessionIds(c), Agents(c)!Move(id) PROVE AgentsHold(c)'
  <2>1. PICK hex \in 0 .. c.edge :
          Agents(c)!CanWalk(units[id], hex) /\ units' = [units EXCEPT ![id] = Agents(c)!moveUnit(units[id], hex)]
    BY <1>0, <1>6 DEF Agents!Move, Agents!Hexes
  <2>2. units[id] \in Walkers(c)
    BY <1>0, <2>1, WalkersAreOnMap DEF Agents!CanWalk
  <2>3. Agents(c)!moveUnit(units[id], hex) \in Pieces(c)
    BY <2>2, Sent DEF Pieces
  <2>4. units' \in [SessionIds(c) -> Pieces(c)]
    BY <1>0, <2>1, <2>3
  <2>5. UNCHANGED <<sessions, feed, answers, due>>
    BY <1>6 DEF Agents!Move
  <2> QED BY <2>4, <2>5 DEF AgentsHold
<1>7. ASSUME Agents(c)!Deliver PROVE AgentsHold(c)'
  <2>1. PICK q : q = feed
    OBVIOUS
  <2>2. q \in Seq(UnitEvents(c)) /\ q # <<>>
    BY <1>7, <2>1 DEF Agents!Deliver, AgentsHold
  <2>3. Head(q) \in UnitEvents(c) /\ Tail(q) \in Seq(UnitEvents(c))
    BY <2>2, HeadTailProperties
  <2>4. PICK evt : evt = Head(q)
    OBVIOUS
  <2>5. /\ units' = [units EXCEPT ![evt.unit] = Agents(c)!handleBridgeEvent(units[evt.unit], evt)]
        /\ feed' = Tail(q) /\ UNCHANGED <<sessions, answers, due>>
    BY <1>7, <2>1, <2>4 DEF Agents!Deliver
  <2>6. evt.unit \in SessionIds(c)
    BY <2>3, <2>4 DEF UnitEvents
  <2>7. Agents(c)!handleBridgeEvent(units[evt.unit], evt) \in Pieces(c)
    BY <1>0, <2>3, <2>4, <2>6, EventHandled
  <2>8. units' \in [SessionIds(c) -> Pieces(c)]
    BY <1>0, <2>5, <2>6, <2>7
  <2> QED BY <2>3, <2>5, <2>8 DEF AgentsHold
<1>8. ASSUME Agents(c)!SyncDue PROVE AgentsHold(c)'
  BY <1>8 DEF Agents!SyncDue, AgentsHold
<1>9. ASSUME Agents(c)!Fetch PROVE AgentsHold(c)'
  <2>1. /\ answers' = answers \cup {sessions} /\ due' = FALSE /\ UNCHANGED <<sessions, feed, units>>
        /\ Agents(c)!Cardinality(answers) < c.flying
    BY <1>9 DEF Agents!Fetch
  <2>2. Cardinality(answers) < c.flying /\ c.flying \in Nat /\ IsFiniteSet(answers) /\ Cardinality(answers) \in Nat
    BY <2>1, FS_CardinalityType DEF Agents!Cardinality, Cardinality, Agents!AgentsAssumption, AgentsHold
  <2>3. IsFiniteSet(answers') /\ Cardinality(answers') <= c.flying
    BY <2>1, <2>2, FS_AddElement
  <2> QED BY <1>0, <2>1, <2>3 DEF AgentsHold
<1>10. ASSUME NEW listing \in answers, Agents(c)!Sync(listing) PROVE AgentsHold(c)'
  <2>1. /\ answers' = answers \ {listing} /\ UNCHANGED <<sessions, feed, due>>
        /\ units' = [id \in SessionIds(c) |-> Agents(c)!Replay(units[id], Agents(c)!SyncEvents(id, units[id], listing[id]))]
    BY <1>0, <1>10 DEF Agents!Sync
  <2>2. listing \in Listings(c)
    BY DEF AgentsHold
  <2>3. \A id \in SessionIds(c) : Agents(c)!Replay(units[id], Agents(c)!SyncEvents(id, units[id], listing[id])) \in Pieces(c)
    BY <1>0, <2>2, SyncTyped, Replayed
  <2>4. units' \in [SessionIds(c) -> Pieces(c)]
    BY <2>1, <2>3
  <2>5. IsFiniteSet(answers) /\ Cardinality(answers) <= c.flying /\ Cardinality(answers) \in Nat /\ c.flying \in Nat
    BY FS_CardinalityType DEF AgentsHold, Agents!AgentsAssumption
  <2>6. IsFiniteSet(answers') /\ Cardinality(answers') <= c.flying
    <3>1. answers' = answers \ {listing}
      BY <2>1
    <3>2. /\ IsFiniteSet(answers \ {listing})
          /\ Cardinality(answers \ {listing}) = IF listing \in answers THEN Cardinality(answers) - 1 ELSE Cardinality(answers)
      BY <2>5, FS_RemoveElement
    <3>3. Cardinality(answers \ {listing}) <= c.flying
      BY <2>5, <3>2
    <3> QED BY <3>1, <3>2, <3>3
  <2> QED BY <2>1, <2>4, <2>6 DEF AgentsHold
<1> QED
  BY <1>0, <1>1, <1>2, <1>3, <1>4, <1>5, <1>6, <1>7, <1>8, <1>9, <1>10 DEF Agents!Next

LEMMA AgentsWalk ==
  ASSUME NEW c, Agents(c)!MapAssumption, AgentsHold(c)
  PROVE  Agents(c)!TypeOK /\ Agents(c)!WalksSomewhere
<1>0. /\ Agents(c)!Ids = SessionIds(c) /\ Agents(c)!Refs = References(c)
      /\ units \in [SessionIds(c) -> Pieces(c)] /\ sessions \in Listings(c)
  BY DEF Agents!Ids, SessionIds, Agents!Refs, References, AgentsHold
<1>1. sessions \in [SessionIds(c) -> [city : References(c), state : {"working", "idle"} \cup {"closed", "none"}]]
  BY <1>0 DEF Listings, Row
<1>2. ASSUME NEW u \in Walkers(c) PROVE u \in Agents(c)!Units
  <2>1. u.path \in Seq(0 .. c.edge) /\ Len(u.path) <= c.edge /\ u \in UnitRecords(c)
    BY DEF Walkers, UnitRecords
  <2>2. Len(u.path) \in 0 .. c.edge /\ u.path \in [1 .. Len(u.path) -> 0 .. c.edge]
    BY <2>1, LenProperties DEF Agents!MapAssumption
  <2>3. u.path \in UNION {[1 .. n -> 0 .. c.edge] : n \in 0 .. c.edge}
    BY <2>2
  <2> QED BY <2>1, <2>3 DEF UnitRecords, Agents!Units, Agents!Hexes, Agents!NoHex, Agents!UnitStates, Agents!NoState
<1>3. units \in [SessionIds(c) -> Agents(c)!Units \cup {Agents(c)!NoUnit}]
  BY <1>0, <1>2 DEF Pieces
<1>4. \A i \in 1 .. Len(feed) : feed[i].unit \in SessionIds(c)
  <2>1. \A i \in 1 .. Len(feed) : feed[i] \in UnitEvents(c)
    BY DEF AgentsHold
  <2> QED BY <2>1 DEF UnitEvents
<1>5. Agents(c)!TypeOK
  BY <1>0, <1>1, <1>3, <1>4 DEF Agents!TypeOK, Agents!RowStates, AgentsHold, Agents!Cardinality, Cardinality
<1>6. Agents(c)!WalksSomewhere
  <2>1. \A id \in SessionIds(c) : units[id] # Agents(c)!NoUnit => units[id] \in Walkers(c)
    BY <1>0 DEF Pieces
  <2> QED BY <1>0, <2>1 DEF Agents!WalksSomewhere, Walkers, Agents!Hexes
<1> QED BY <1>5, <1>6

LEMMA AgentsRest ==
  ASSUME NEW c, AgentsHold(c), UNCHANGED agentVars
  PROVE  AgentsHold(c)'
BY DEF AgentsHold, agentVars

---------------------------------------------------------------------------
(* The parts together: a step of the specification is a step of the         *)
(* component that is its part, and no other part matters to a property.     *)

LEMMA StepOfPart ==
  ASSUME Next
  PROVE  /\ part' = part
         /\ part = "transcript" => Transcript(Chat)!Next
         /\ part = "chunks" => Transcript(Chunks)!Next
         /\ part = "pair" => Dialog(Pair)!Next
         /\ part \in {"single", "composer"} => Dialog(Single)!Next
         /\ part = "strip" => Roster(Strip)!Next
         /\ part = "directory" => Roster(Directory)!Next
         /\ part = "drift" => Detached(Drift)!Next
         /\ part = "quests" => Detached(Quests)!Next
         /\ part = "runs" => Detached(Runs)!Next
         /\ part = "visitor" => Agents(Visitor)!Next
         /\ part = "resident" => Agents(Resident)!Next
BY DEF Next, Rest

LEMMA AllRest ==
  ASSUME UNCHANGED vars
  PROVE  /\ part' = part /\ UNCHANGED transcriptVars /\ UNCHANGED chatVars
         /\ UNCHANGED directoryVars /\ UNCHANGED runVars /\ UNCHANGED agentVars
BY DEF vars

Kept ==
  /\ part = "transcript" => TranscriptHolds(Chat)
  /\ part = "chunks" => TranscriptHolds(Chunks)

LEMMA KeptStarts == Init => Kept
BY TranscriptStarts DEF Init, Kept

LEMMA KeptStep == Kept /\ [Next]_vars => Kept'
<1> SUFFICES ASSUME Kept, [Next]_vars PROVE Kept'
  OBVIOUS
<1>1. CASE Next
  <2>1. CASE part = "transcript"
    BY <1>1, <2>1, Bounds, StepOfPart, TranscriptStep DEF Kept
  <2>2. CASE part = "chunks"
    BY <1>1, <2>2, Bounds, StepOfPart, TranscriptStep DEF Kept
  <2>3. CASE part \notin {"transcript", "chunks"}
    BY <1>1, <2>3, StepOfPart DEF Kept
  <2> QED BY <2>1, <2>2, <2>3
<1>2. CASE UNCHANGED vars
  BY <1>2, AllRest, TranscriptRests DEF Kept
<1> QED BY <1>1, <1>2

(* The transcripts of any number of units, of any length: the container     *)
(* shows one unit's, the answer under way holds the chunks that came, what  *)
(* was not shown has a badge and a reload restores what was there.          *)
THEOREM TranscriptsAreKept == Spec => []TranscriptsKept
<1>1. Kept => TranscriptsKept
  BY TranscriptKept DEF Kept, TranscriptsKept
<1> QED BY <1>1, KeptStarts, KeptStep, PTL DEF Spec

Ours ==
  /\ part = "pair" => DialogHolds(Pair)
  /\ part \in {"single", "composer"} => DialogHolds(Single)

LEMMA OursStarts == Init => Ours
BY Bounds, DialogStarts DEF Init, Ours

LEMMA OursStep == Ours /\ [Next]_vars => Ours'
<1> SUFFICES ASSUME Ours, [Next]_vars PROVE Ours'
  OBVIOUS
<1>1. CASE Next
  <2>1. CASE part = "pair"
    BY <1>1, <2>1, Bounds, StepOfPart, DialogStep DEF Ours
  <2>2. CASE part \in {"single", "composer"}
    BY <1>1, <2>2, Bounds, StepOfPart, DialogStep DEF Ours
  <2>3. CASE part \notin {"pair", "single", "composer"}
    BY <1>1, <2>3, StepOfPart DEF Ours
  <2> QED BY <2>1, <2>2, <2>3
<1>2. CASE UNCHANGED vars
  BY <1>2, AllRest, DialogRests DEF Ours
<1> QED BY <1>1, <1>2

(* Among any number of sessions, whatever answers late: the open chat shows *)
(* nothing of another session.                                              *)
THEOREM OnlyOursShown == Spec => []ShownIsOurs
<1>1. Ours => ShownIsOurs
  BY DEF Ours, DialogHolds, ShownIsOurs
<1> QED BY <1>1, OursStarts, OursStep, PTL DEF Spec

Honest ==
  /\ part = "strip" => RosterHolds(Strip)
  /\ part = "directory" => RosterHolds(Directory)

LEMMA HonestStarts == Init => Honest
BY Bounds, RosterStarts DEF Init, Honest

LEMMA HonestStep == Honest /\ [Next]_vars => Honest'
<1> SUFFICES ASSUME Honest, [Next]_vars PROVE Honest'
  OBVIOUS
<1>1. CASE Next
  <2>1. CASE part = "strip"
    BY <1>1, <2>1, Bounds, StepOfPart, RosterStep DEF Honest
  <2>2. CASE part = "directory"
    BY <1>1, <2>2, Bounds, StepOfPart, RosterStep DEF Honest
  <2>3. CASE part \notin {"strip", "directory"}
    BY <1>1, <2>3, StepOfPart DEF Honest
  <2> QED BY <2>1, <2>2, <2>3
<1>2. CASE UNCHANGED vars
  BY <1>2, AllRest, RosterRests DEF Honest
<1> QED BY <1>1, <1>2

(* For any sessions, of the page and of others: no stop is invented from a  *)
(* failed or late list, what was seen to stop stays listed until it is      *)
(* reviewed, and the list is polled exactly while it is used.               *)
THEOREM AttentionIsHonest == Spec => []AttentionHonest
<1>1. Honest => AttentionHonest
  BY RosterLists DEF Honest, RosterHolds, AttentionHonest
<1> QED BY <1>1, HonestStarts, HonestStep, PTL DEF Spec

Shown ==
  /\ part = "drift" => DetachedTyped(Drift) /\ Ghostless(Drift)
  /\ part = "quests" => DetachedTyped(Quests)
  /\ part = "runs" => DetachedTyped(Runs) /\ Orderly(Runs)
  /\ part = "visitor" => AgentsHold(Visitor)
  /\ part = "resident" => AgentsHold(Resident)

LEMMA ShownStarts == Init => Shown
<1> SUFFICES ASSUME Init PROVE Shown
  OBVIOUS
<1>1. CASE part = "drift"
  <2>1. Detached(Drift)!Init
    BY <1>1 DEF Init
  <2> QED BY <1>1, <2>1, Bounds, DetachedTypedStarts, GhostlessStarts DEF Shown
<1>2. CASE part = "quests"
  <2>1. Detached(Quests)!Init
    BY <1>2 DEF Init
  <2> QED BY <1>2, <2>1, Bounds, DetachedTypedStarts DEF Shown
<1>3. CASE part = "runs"
  <2>1. Detached(Runs)!Init
    BY <1>3 DEF Init
  <2> QED BY <1>3, <2>1, Bounds, DetachedTypedStarts, OrderlyStarts DEF Shown
<1>4. CASE part = "visitor"
  BY <1>4, Bounds, AgentsStart DEF Init, Shown
<1>5. CASE part = "resident"
  BY <1>5, Bounds, AgentsStart DEF Init, Shown
<1>6. CASE part \notin {"drift", "quests", "runs", "visitor", "resident"}
  BY <1>6 DEF Shown
<1> QED BY <1>1, <1>2, <1>3, <1>4, <1>5, <1>6

LEMMA ShownStep == Shown /\ [Next]_vars => Shown'
<1> SUFFICES ASSUME Shown, [Next]_vars PROVE Shown'
  OBVIOUS
<1>1. CASE Next
  <2>1. CASE part = "drift"
    BY <1>1, <2>1, Bounds, StepOfPart, DetachedTypedStep, GhostlessStep DEF Shown
  <2>2. CASE part = "quests"
    BY <1>1, <2>2, Bounds, StepOfPart, DetachedTypedStep DEF Shown
  <2>3. CASE part = "runs"
    BY <1>1, <2>3, Bounds, StepOfPart, DetachedTypedStep, OrderlyStep DEF Shown
  <2>4. CASE part = "visitor"
    BY <1>1, <2>4, Bounds, StepOfPart, AgentsStep DEF Shown
  <2>5. CASE part = "resident"
    BY <1>1, <2>5, Bounds, StepOfPart, AgentsStep DEF Shown
  <2>6. CASE part \notin {"drift", "quests", "runs", "visitor", "resident"}
    BY <1>1, <2>6, StepOfPart DEF Shown
  <2> QED BY <2>1, <2>2, <2>3, <2>4, <2>5, <2>6
<1>2. CASE UNCHANGED vars
  BY <1>2, AllRest, DetachedRests, AgentsRest DEF Shown
<1> QED BY <1>1, <1>2

(* For any runs, over any connections however they drift: the map ends with *)
(* the units of the running ones and no other.  Over one connection a run   *)
(* is listed as finished once, and only when it did end.  On a map of any   *)
(* size a unit that walks has a way to its target.                          *)
THEOREM NoGhostStays == Spec => []NoGhost
<1>1. Shown => NoGhost
  <2> SUFFICES ASSUME Shown PROVE NoGhost
    OBVIOUS
  <2>1. part = "drift" => Detached(Drift)!TypeOK /\ Detached(Drift)!NoGhost
    BY GhostlessHasNoGhost DEF Shown, DetachedTyped
  <2>2. part = "quests" => Detached(Quests)!TypeOK
    BY DEF Shown, DetachedTyped
  <2>3. part = "runs" => Detached(Runs)!TypeOK /\ Detached(Runs)!ListedOnce /\ Detached(Runs)!FinishedWasEnded
    BY OrderlyListsOnce DEF Shown, DetachedTyped
  <2>4. part = "visitor" => Agents(Visitor)!TypeOK /\ Agents(Visitor)!WalksSomewhere
    BY Bounds, AgentsWalk DEF Shown
  <2>5. part = "resident" => Agents(Resident)!TypeOK /\ Agents(Resident)!WalksSomewhere
    BY Bounds, AgentsWalk DEF Shown
  <2> QED BY <2>1, <2>2, <2>3, <2>4, <2>5 DEF NoGhost
<1> QED BY <1>1, ShownStarts, ShownStep, PTL DEF Spec
=============================================================================
