----------------------------- MODULE ViewSwitch -----------------------------
(* What the canvas shows (renderer.ts): the map, flat or in WebGL, or the    *)
(* office of a repository, in 2D or in 3D. The renderers are loaded on       *)
(* demand, offices are fetched, a frame is drawn again and again, and what   *)
(* the user asks for may change between any two of these.                    *)
EXTENDS Integers, FiniteSets, TLC

CONSTANTS
  Repos,       \* cities one can enter
  Local3D,     \* TRUE with ?local3d=1
  MaxLoads,    \* bound: offices fetched
  InFlight     \* bound: fetches at a time

ViewAssumption == Local3D \in BOOLEAN /\ MaxLoads \in Nat /\ InFlight \in Nat \ {0}

VARIABLES
  viewMode,    \* "macro" or "local"
  world,       \* localWorld: the office of a repository, and which fetch it is of
  asked,       \* the city that was entered last
  loads,       \* fetches under way
  fetched,     \* fetches begun
  mode,        \* worldRenderMode
  threeMap, scene, ctor,   \* what is loaded: LocalScene3D, LocalRenderer
  screen       \* what the renderer keeps from frame to frame

vars == <<viewMode, world, asked, loads, fetched, mode, threeMap, scene, ctor, screen>>
None == [repo |-> "none", n |-> 0]
Loaded == {"none", "loading", "ready"}

(* localR, its transition and its input; the view of the last frame; the     *)
(* worlds the two local renderers were given (localWorldId2D, 3D); the class *)
(* of the body, with the mark on the canvas; the local chat; and what the    *)
(* last frame was of.                                                        *)
FirstScreen ==
  [localR |-> FALSE, trans |-> "none", input |-> FALSE, prev |-> "none", exiting |-> FALSE,
   given2D |-> None, given3D |-> None, body |-> FALSE, marked |-> FALSE, chat |-> FALSE,
   mapActive |-> mode = "webgl", sceneActive |-> FALSE, painted |-> "none"]

TypeOK ==
  /\ viewMode \in {"macro", "local"} /\ mode \in {"flat", "webgl"} /\ (mode = "webgl" => threeMap = "ready")
  /\ threeMap \in Loaded /\ scene \in Loaded /\ fetched \in 0 .. MaxLoads

---------------------------------------------------------------------------
(* The office is shown at once, and fetched if another is there. *)
enterLocalView(repo) ==
  /\ viewMode' = "local" /\ asked' = repo
  /\ IF world.repo = repo THEN UNCHANGED <<loads, fetched>>
     ELSE /\ fetched < MaxLoads /\ Cardinality(loads) < InFlight
          /\ fetched' = fetched + 1 /\ loads' = loads \cup {[repo |-> repo, n |-> fetched + 1]}
  /\ UNCHANGED <<world, mode, threeMap, scene, ctor, screen>>

(* A fetch that fails gives a mock office. *)
Fetched(l) ==
  /\ l \in loads /\ world' = l /\ loads' = loads \ {l}
  /\ UNCHANGED <<viewMode, asked, fetched, mode, threeMap, scene, ctor, screen>>

enterMacroView ==
  /\ viewMode' = "macro" /\ UNCHANGED <<world, asked, loads, fetched, mode, threeMap, scene, ctor, screen>>

flatten(s) == [s EXCEPT !.mapActive = FALSE, !.sceneActive = FALSE]

(* toggleWorldRenderMode. To WebGL, the map waits for its renderer, and is   *)
(* flat if that cannot be had.                                               *)
toggleWorldRenderMode ==
  /\ IF mode = "webgl" THEN mode' = "flat" /\ screen' = flatten(screen) /\ UNCHANGED threeMap
     ELSE IF threeMap = "ready" THEN mode' = "webgl" /\ screen' = [screen EXCEPT !.mapActive = TRUE] /\ UNCHANGED threeMap
     ELSE threeMap' = "loading" /\ UNCHANGED <<mode, screen>>
  /\ UNCHANGED <<viewMode, world, asked, loads, fetched, scene, ctor>>
ensureThreeMap(ok) ==
  /\ threeMap = "loading"
  /\ IF ok THEN threeMap' = "ready" /\ mode' = "webgl" /\ screen' = [screen EXCEPT !.mapActive = TRUE]
     ELSE threeMap' = "none" /\ mode' = "flat" /\ screen' = flatten(screen)
  /\ UNCHANGED <<viewMode, world, asked, loads, fetched, scene, ctor>>
ensureLocalScene3D(ok) ==
  /\ scene = "loading" /\ scene' = (IF ok THEN "ready" ELSE "none")
  /\ UNCHANGED <<viewMode, world, asked, loads, fetched, mode, threeMap, ctor, screen>>
preloadLocalRenderer ==
  /\ ~ctor /\ ctor' = TRUE /\ UNCHANGED <<viewMode, world, asked, loads, fetched, mode, threeMap, scene, screen>>

---------------------------------------------------------------------------
(* A frame, step by step.                                                    *)

createLocalRenderer(s) ==
  IF viewMode = "local" /\ ~s.localR /\ ctor THEN [s EXCEPT !.localR = TRUE, !.input = TRUE] ELSE s

(* The view of the last frame stays "local" until the office has faded out. *)
switchView(s) ==
  IF viewMode = s.prev THEN s
  ELSE IF ~s.localR THEN [s EXCEPT !.prev = viewMode]
  ELSE IF viewMode = "local" THEN [s EXCEPT !.exiting = FALSE, !.trans = "entering", !.input = TRUE, !.prev = "local"]
  ELSE IF s.exiting THEN s ELSE [s EXCEPT !.exiting = TRUE, !.trans = "exiting"]

\* Slip of renderLocal: without a 2D world to draw the transition does not end.
NeedsAWorld(s, due) ==
  IF ~due \/ s.given2D = None THEN s
  ELSE IF s.trans = "exiting" THEN [s EXCEPT !.trans = "none"]
  ELSE IF s.trans = "entering" THEN [s EXCEPT !.trans = "active"] ELSE s

(* LocalRenderer.render: a transition that is due ends, whatever there is to *)
(* draw.                                                                     *)
renderLocal(s, due) ==
  IF ~due THEN s
  ELSE IF s.trans = "exiting" THEN [s EXCEPT !.trans = "none"]
  ELSE IF s.trans = "entering" THEN [s EXCEPT !.trans = "active"] ELSE s
fading(s) == s.trans \in {"entering", "exiting"}

(* The 3D office: given a world when that is of another repository. *)
drawLocal3D(s) ==
  [s EXCEPT !.given3D = IF world.repo # @.repo THEN world ELSE @, !.sceneActive = TRUE, !.input = FALSE, !.painted = "local3D"]

(* The 2D office. The class of the body tells an entry. *)
drawLocal2D(s, due) ==
  LET on == [s EXCEPT !.sceneActive = FALSE, !.input = s.localR, !.body = TRUE, !.chat = IF s.body THEN @ ELSE TRUE, !.marked = TRUE]
  IN IF ~s.localR THEN [on EXCEPT !.painted = "waiting"]
     ELSE renderLocal([on EXCEPT !.given2D = IF world # None /\ world.repo # @.repo THEN world ELSE @, !.painted = "local2D"], due)

wants3D == mode = "webgl" /\ threeMap = "ready" /\ Local3D

\* Slip of drawLocal: the office is drawn and the map is not hidden.
OverTheMap(s, due) ==
  IF wants3D /\ scene = "ready" /\ world # None THEN
    IF s.localR THEN renderLocal(drawLocal3D(s), due) ELSE drawLocal3D(s)
  ELSE drawLocal2D(s, due)

drawLocal(s, due) ==
  LET off == [s EXCEPT !.mapActive = FALSE]
  IN IF wants3D /\ scene = "ready" /\ world # None THEN
       IF s.localR THEN renderLocal(drawLocal3D(off), due) ELSE drawLocal3D(off)
     ELSE drawLocal2D(off, due)

(* The map: what was left of the office is put away first. *)
drawMacro(s) ==
  [s EXCEPT !.sceneActive = FALSE, !.body = FALSE, !.chat = IF s.body THEN FALSE ELSE @, !.marked = IF s.body THEN FALSE ELSE @,
            !.exiting = FALSE, !.input = FALSE, !.prev = "macro", !.mapActive = IF mode = "webgl" THEN TRUE ELSE @, !.painted = "macro"]
render(due) ==
  LET s == switchView(createLocalRenderer(screen))
  IN /\ screen' = IF viewMode = "local" THEN drawLocal(s, due)
                  ELSE IF s.exiting /\ s.localR /\ fading(s) THEN renderLocal([s EXCEPT !.painted = "leaving"], due)
                  ELSE drawMacro(s)
     /\ scene' = IF viewMode = "local" /\ wants3D /\ scene = "none" THEN "loading" ELSE scene
     /\ UNCHANGED <<viewMode, world, asked, loads, fetched, mode, threeMap, ctor>>

---------------------------------------------------------------------------
(* After boot, with the map in WebGL if that could be had. *)
Init ==
  /\ viewMode = "macro" /\ world = None /\ asked = "none" /\ loads = {} /\ fetched = 0
  /\ mode \in {"flat", "webgl"} /\ threeMap = (IF mode = "webgl" THEN "ready" ELSE "none")
  /\ scene = "none" /\ ctor = FALSE /\ screen = FirstScreen
Next ==
  \/ \E repo \in Repos : enterLocalView(repo)
  \/ \E l \in loads : Fetched(l)
  \/ enterMacroView \/ toggleWorldRenderMode \/ preloadLocalRenderer
  \/ \E ok \in BOOLEAN : ensureThreeMap(ok) \/ ensureLocalScene3D(ok)
  \/ \E due \in BOOLEAN : render(due)
Spec == Init /\ [][Next]_vars
(* Frames are drawn as long as the program runs, and transitions take less   *)
(* than half a second.                                                       *)
FairSpec == Spec /\ WF_vars(render(TRUE))

---------------------------------------------------------------------------
Frame == \E due \in BOOLEAN : render(due)
bailIfLocal == viewMode = "local" \/ screen.marked

(* renderer.ts:530, "Two-channel guard": the office listens to the mouse     *)
(* only while the map does not.                                              *)
InputToOneView == screen.input => bailIfLocal

(* renderer.ts, render: of the map and the office, a frame leaves one        *)
(* renderer on, and the map's only on the map.                               *)
OneSceneOn == Frame => /\ ~(screen'.mapActive /\ screen'.sceneActive)
                       /\ (screen'.mapActive => viewMode = "macro" /\ mode = "webgl")
                       /\ (screen'.sceneActive => viewMode = "local" \/ screen'.painted = "leaving")

(* renderer.ts:216, "its setWorld() is never called": a renderer that draws  *)
(* the office has been given that of the repository.                         *)
DrawsTheRepo ==
  Frame /\ world # None => /\ (screen'.painted = "local2D" => screen'.given2D.repo = world.repo)
                           /\ (screen'.painted = "local3D" => screen'.given3D.repo = world.repo)

(* renderer.ts:215, "Fires once per local-view entry": in the office there   *)
(* is the chat, on the map there is not.                                     *)
ChatInTheOffice ==
  Frame => /\ (viewMode = "local" => screen'.chat) /\ (screen'.painted = "macro" => ~screen'.chat)

(* local-view.spec.ts:222: who leaves the office gets to the map.            *)
Leaves == viewMode = "macro" ~> (screen.painted = "macro" \/ viewMode = "local")

---------------------------------------------------------------------------
(* What a document, a comment or a test says and this code does not keep    *)
(* (README, "Where the code differs").                                      *)

(* The office that was fetched last is the one that is drawn.                *)
DrawsTheWorld == [][Frame /\ world # None /\ screen'.painted = "local2D" => screen'.given2D = world]_vars

(* GETTING_STARTED.md:238, "The view zooms into the city interior": that of  *)
(* the city that was entered, once it has come.                              *)
ShowsTheAsked == (loads = {} /\ viewMode = "local") => world.repo = asked

(* local-transition.test.ts:44, "null → entering → active → exiting → null": *)
(* in the office nothing fades out.                                          *)
InsideNeverFades == [][Frame /\ viewMode = "local" => screen'.trans # "exiting"]_vars
=============================================================================
