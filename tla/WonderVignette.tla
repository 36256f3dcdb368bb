--------------------------- MODULE WonderVignette ---------------------------
(***************************************************************************)
(* The window that shows a wonder in a frame (src/ui/wonderVignette.ts):   *)
(* the check of its health, the launch of its server                       *)
(* (src/wonders/wonderLauncher.ts), the messages between page and wonder   *)
(* (src/wonders/postMessageBridge.ts), and the selection of a city in the  *)
(* page (src/main.ts).  Where the window lies and how it is dragged are    *)
(* left out.                                                               *)
(***************************************************************************)
EXTENDS Naturals, FiniteSets

CONSTANTS
  Wonders,
  Native,      \* the gazette, which has no frame
  Unknown,     \* wonders the registry does not know, or without an address
  Probed,      \* wonders with a health address
  Lenient,     \* wonders whose manifest allows a degraded server
  Elsewhere,   \* wonders whose launcher reports another address than the manifest
  Cities,
  Layers,
  Patient,     \* the user leaves a window open until it shows something
  MaxOpens,    \* bound: windows opened
  MaxPolls     \* bound: polls of a launch before its deadline

VignetteAssumption ==
  /\ UNION {Native, Unknown, Probed, Lenient, Elsewhere} \subseteq Wonders
  /\ Patient \in BOOLEAN /\ MaxOpens \in Nat /\ MaxPolls \in Nat

VARIABLES
  view,       \* the windows opened so far: each lives on in the awaits of its opening
  opened,
  current,    \* _vignette: the window shown, or 0
  mounted,    \* _mounted: the window whose frame gets the context, or 0
  listening,  \* the listener for the wonder's messages
  allowed,    \* ALLOWED_ORIGINS
  context,    \* _runtimeContext: the city last heard of
  selected,   \* the page's _selectedCityId
  local,      \* the city whose local view is shown, or None
  layers,     \* the layers that are on
  told,       \* what the page in a window's frame was told last
  unheard     \* windows whose wonder asked for a city in vain

vars == <<view, opened, current, mounted, listening, allowed, context, selected, local, layers, told, unheard>>

None == "none"
Windows == 1 .. MaxOpens
Waiting == {"health", "launch", "poll"}
NoView == [wonder |-> None, step |-> "none", body |-> "none", address |-> None, health |-> None, answer |-> None, polls |-> 0]
Nothing == [city |-> None, mode |-> "macro", layers |-> {}]

Init ==
  /\ view = [g \in Windows |-> NoView]
  /\ opened = 0 /\ current = 0 /\ mounted = 0
  /\ listening = FALSE /\ allowed = {}
  /\ context = None /\ selected = None /\ local = None
  /\ layers \in SUBSET Layers
  /\ told = [g \in Windows |-> Nothing] /\ unheard = {}

page == <<context, selected, local, layers>>

(* The frame of a window on the screen whose page has loaded.               *)
Loaded(g) == g # 0 /\ g = current /\ view[g].body = "frame" /\ view[g].step = "loaded"

(* pushContextToOpenWonder: a city is named only when one is known; what is  *)
(* posted to a frame that is not on the screen, or has no page of the wonder *)
(* yet, is lost.                                                             *)
Pushed(city, mode) ==
  IF mounted # 0 /\ Loaded(mounted) /\ city # None
    THEN [told EXCEPT ![mounted].city = city, ![mounted].mode = mode] ELSE told

(***************************************************************************)
(* Opening and closing.                                                    *)
(***************************************************************************)
MayMove == IF Patient /\ current # 0 THEN view[current].step \notin Waiting \cup {"loading"} ELSE TRUE

(* The early returns of openWonderVignette, and the first await.            *)
Opening(w) ==
  LET seen(step, body) == [NoView EXCEPT !.wonder = w, !.step = step, !.body = body] IN
  IF w \in Unknown \ Native THEN seen("over", "empty")
  ELSE IF w \in Native THEN seen("over", "text") ELSE seen("health", "checking")

(* registerWonderOrigin *)
registerWonderOrigin(w) == allowed' = allowed \cup {<<w, "own">>}

(* openWonderVignette up to its first await: the window before it closes,   *)
(* the awaits of its opening do not.                                        *)
Open(w) ==
  /\ opened < MaxOpens /\ opened' = opened + 1
  /\ MayMove
  /\ current' = opened'
  /\ view' = [view EXCEPT ![opened'] = Opening(w)]
  /\ mounted' = IF current = 0 THEN mounted ELSE 0
  /\ IF Opening(w).step = "health"
       THEN registerWonderOrigin(w) /\ listening' = TRUE
       ELSE allowed' = allowed /\ listening' = (listening /\ current = 0)
  /\ UNCHANGED <<page, told, unheard>>

(* closeWonderVignette *)
Close ==
  /\ current # 0 /\ MayMove
  /\ current' = 0 /\ mounted' = 0 /\ listening' = FALSE
  /\ UNCHANGED <<view, opened, allowed, page, told, unheard>>

(***************************************************************************)
(* The health check and the launch.                                        *)
(***************************************************************************)
(* _mountIframe: whatever window is shown, this frame is the one mounted.   *)
Mount(g, address, answer) ==
  /\ view' = [view EXCEPT ![g].step = "loading", ![g].body = "frame", ![g].address = address, ![g].answer = answer]
  /\ mounted' = g

(* _showEmptyState *)
Empty(g, answer) ==
  /\ view' = [view EXCEPT ![g].step = "over", ![g].body = "empty", ![g].answer = answer]
  /\ mounted' = mounted

Others == <<opened, current, listening, allowed, page, told, unheard>>

(* _checkWonderHealth: without a health address all is well; a server that  *)
(* refuses for lack of rights is up; another refusal is degraded if the     *)
(* manifest allows that, else offline.                                      *)
Health(w) ==
  IF w \notin Probed THEN {"ok"}
  ELSE {"ok", "timeout", "offline", "no-permissions"} \cup (IF w \in Lenient THEN {"degraded"} ELSE {})

CheckHealth(g) ==
  /\ view[g].step = "health"
  /\ \E h \in Health(view[g].wonder) :
       \/ h \in {"timeout", "offline"} /\ mounted' = mounted
          /\ view' = [view EXCEPT ![g].step = "launch", ![g].body = "progress", ![g].health = h, ![g].answer = h]
       \/ h \in {"degraded", "no-permissions"} /\ Empty(g, h)
       \/ h = "ok" /\ Mount(g, "own", h)
  /\ UNCHANGED Others

(* resolveMountUrl, for an address that is not the page's own.              *)
resolveMountUrl(w) == IF w \in Elsewhere THEN "launcher's" ELSE "own"

\* Slip of isFullyReady: a server half up is enough.
HalfReady(s) == s \in {"ready", "degraded"}

(* isFullyReady *)
isFullyReady(s) == s = "ready"

(* _pollUntilReady: a launch that ends ready mounts the frame.              *)
Ready(g, s) == isFullyReady(s) /\ Mount(g, resolveMountUrl(view[g].wonder), s)

(* isTerminalRejection *)
isTerminalRejection(s) == s = "rejected"

Waits(g, s, step) == mounted' = mounted /\ view' = [view EXCEPT ![g].step = step, ![g].answer = s]

(* launchWonder: the bridge's answer, its refusal for good, or none.        *)
Launch(g) ==
  /\ view[g].step = "launch"
  /\ \E s \in {"ready", "starting", "degraded", "error", "rejected", "unreachable"} :
       \/ Ready(g, s)
       \/ isTerminalRejection(s) /\ Empty(g, s)
       \/ ~isFullyReady(s) /\ ~isTerminalRejection(s) /\ Waits(g, s, "poll")
  /\ UNCHANGED Others

(* pollWonderUntilReady: until the server is ready.  A request that fails   *)
(* throws, which ends the wait; a refusal does not.                         *)
Poll(g) ==
  /\ view[g].step = "poll" /\ view[g].polls < MaxPolls
  /\ \E s \in {"ready", "starting", "degraded", "error", "rejected", "unreachable"} :
       \/ Ready(g, s)
       \/ s = "unreachable" /\ Empty(g, s)
       \/ /\ ~isFullyReady(s) /\ s # "unreachable" /\ mounted' = mounted
          /\ view' = [view EXCEPT ![g].answer = s, ![g].polls = @ + 1]
  /\ UNCHANGED Others

\* Slip of Deadline: each round of polls gets a deadline of its own.
WaitsOn(g) ==
  /\ view[g].step = "poll" /\ view[g].polls = MaxPolls
  /\ view' = [view EXCEPT ![g].polls = 0]
  /\ mounted' = mounted /\ UNCHANGED Others

(* The deadline has passed: the last answer is all there is.                *)
Deadline(g) ==
  /\ view[g].step = "poll" /\ view[g].polls = MaxPolls
  /\ Empty(g, view[g].answer)
  /\ UNCHANGED Others

(* The frame's page loads, which takes the window to be on the screen: what *)
(* is mounted is told the city, this frame the layers.                      *)
FrameLoads(g) ==
  /\ g = current /\ view[g].step = "loading"
  /\ view' = [view EXCEPT ![g].step = "loaded"]
  /\ told' = [told EXCEPT ![g].layers = layers,
                          ![g].city = IF mounted = g /\ context # None THEN context ELSE @,
                          ![g].mode = IF mounted = g /\ context # None THEN "macro" ELSE @]
  /\ UNCHANGED <<opened, current, mounted, listening, allowed, page, unheard>>

(* The frame's page does not load in time: the empty state replaces it.     *)
FrameFails(g) ==
  /\ view[g].step = "loading" /\ Empty(g, "timeout")
  /\ UNCHANGED Others

(***************************************************************************)
(* The page and the wonder.                                                *)
(***************************************************************************)
(* _ensureContextListener: the context is heard from the first window on.   *)
Hears(c) ==
  /\ context' = IF opened > 0 THEN c ELSE context
  /\ told' = IF opened > 0 THEN Pushed(c, "macro") ELSE told

(* _publishWonderContext, for the city onCitySelect keeps.                  *)
Chosen(c) == selected' = c /\ Hears(c)

Select(c) ==
  /\ local = None /\ c # selected /\ Chosen(c)
  /\ UNCHANGED <<view, opened, current, mounted, listening, allowed, local, layers, unheard>>

(* _enterLocalViewForCity, for the city that is selected.                   *)
EnterLocal ==
  /\ local = None /\ selected # None
  /\ local' = selected
  /\ told' = Pushed(context, "local")
  /\ UNCHANGED <<view, opened, current, mounted, listening, allowed, context, selected, layers, unheard>>

LeaveLocal ==
  /\ local # None /\ local' = None
  /\ UNCHANGED <<view, opened, current, mounted, listening, allowed, context, selected, layers, told, unheard>>

ToggleLayer(l) ==
  /\ layers' = IF l \in layers THEN layers \ {l} ELSE layers \cup {l}
  /\ UNCHANGED <<view, opened, current, mounted, listening, allowed, context, selected, local, told, unheard>>

(* _isOriginAllowed: some manifest registered the address of this frame.    *)
isOriginAllowed(g) == <<view[g].wonder, view[g].address>> \in allowed

(* _handleMessage: the wonder asks for a city.                              *)
WonderAsks(c) ==
  /\ current # 0 /\ Loaded(current) /\ local = None
  /\ IF listening /\ isOriginAllowed(current)
       THEN Chosen(c) /\ unheard' = unheard
       ELSE UNCHANGED <<selected, context, told>> /\ unheard' = unheard \cup {current}
  /\ UNCHANGED <<view, opened, current, mounted, listening, allowed, local, layers>>

Works(g) == CheckHealth(g) \/ Launch(g) \/ Poll(g) \/ Deadline(g) \/ FrameLoads(g) \/ FrameFails(g)

Next ==
  \/ \E w \in Wonders : Open(w)
  \/ Close
  \/ \E g \in Windows : Works(g)
  \/ \E c \in Cities : Select(c) \/ WonderAsks(c)
  \/ EnterLocal \/ LeaveLocal
  \/ \E l \in Layers : ToggleLayer(l)

Spec == Init /\ [][Next]_vars

(* Requests are answered or time out, and so do frames.                     *)
FairSpec == Spec /\ \A g \in Windows : WF_vars(Works(g))

(***************************************************************************)
(* Properties.                                                             *)
(***************************************************************************)
TypeOK ==
  /\ opened \in 0 .. MaxOpens /\ current \in 0 .. opened /\ mounted \in 0 .. opened
  /\ listening \in BOOLEAN /\ allowed \subseteq Wonders \X {"own"}
  /\ {context, selected, local} \subseteq Cities \cup {None} /\ layers \subseteq Layers
  /\ \A g \in Windows :
       /\ view[g].step \in Waiting \cup {"none", "loading", "loaded", "over"}
       /\ view[g].step = "none" <=> g > opened
       /\ view[g].step \in {"loading", "loaded"} <=> view[g].body = "frame"
       /\ view[g].polls \in 0 .. MaxPolls

(* No frame shows a wonder that did not answer well, neither its health     *)
(* check nor its launcher: the window does not open blindly.                *)
NotBlind == \A g \in Windows : view[g].body = "frame" => view[g].answer \in {"ok", "ready"}

(* The wonder in the window knows the city the window heard of last.        *)
ContextFollows == (current # 0 /\ Loaded(current) /\ context # None) => told[current].city = context

(* With no window open no wonder is listened to, whatever openings go on.   *)
ClosedHearsNone == current = 0 => ~listening

(* Every window comes to show a frame, an empty state or a text.            *)
Shows(g) == view[g].step \in {"loaded", "over"}
Pending(g) == current = g /\ ~Shows(g)
Done(g) == current # g \/ Shows(g)
EveryWindowShows == \A g \in Windows : Pending(g) ~> Done(g)

---------------------------------------------------------------------------
(* What a document, a comment or a test says and this code does not keep    *)
(* (README, "Where the code differs").                                      *)

(* The wonder in the window knows the city selected in the page.            *)
KnowsTheSelection == (current # 0 /\ Loaded(current) /\ selected # None) => told[current].city = selected

(* The wonder in the window follows into the local view of its city.        *)
FollowsIntoLocal ==
  (current # 0 /\ Loaded(current) /\ local # None /\ context = local) => told[current].mode = "local"

(* The wonder in the window knows which layers are on.                      *)
LayersFollow == (current # 0 /\ Loaded(current)) => told[current].layers = layers

(* What the wonder in a frame asks for is heard.                            *)
WonderIsHeard == unheard = {}

(* A refusal for good ends the wait for a launch.                           *)
RefusalEndsWait ==
  [][\A g \in Windows : (view[g].step = "poll" /\ view'[g].polls > view[g].polls) => view'[g].answer # "rejected"]_vars

(* A poll that finds no bridge is not the end of the wait.                  *)
BlipIsWaitedOut ==
  [][\A g \in Windows : (view[g].step = "poll" /\ view'[g].step = "over") => view[g].polls = MaxPolls]_vars

(* A degraded server its manifest allows is shown.                          *)
DegradedIsShown ==
  \A g \in Windows : (view[g].answer = "degraded" /\ view[g].health = None) => view[g].body = "frame"
=============================================================================
