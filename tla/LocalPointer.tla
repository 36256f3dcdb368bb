---------------------------- MODULE LocalPointer ----------------------------
(* The pointer and the keys in the office of a repository (localRenderer.ts *)
(* setupInput, localRenderer/input.ts, and the callbacks main.ts gives the  *)
(* renderer): a press takes an agent, begins a zone or pans the camera, and *)
(* its release assigns, paints or clicks. The office may be left and        *)
(* entered again between the two.                                           *)
EXTENDS Integers, FiniteSets

CONSTANTS
  Tiles,       \* a row of tiles of the office
  kindOf,      \* what they are at first: "floor", "workbench", "wall", "kiosk"
  Panel,       \* anything over the canvas
  None,
  Outside,     \* the button goes down and up on panels too
  KeysInPress, \* keys are hit while the button is down
  Across,      \* a press may begin in one view and end in the other
  ZoneTypes    \* of "stockpile", "growing", "recreation", ...: those used

Agent == "agent"

PointerAssumption ==
  /\ Tiles \subseteq Int /\ IsFiniteSet(Tiles) /\ Panel \notin Tiles
  /\ Outside \in BOOLEAN /\ KeysInPress \in BOOLEAN /\ Across \in BOOLEAN
  /\ None \notin Tiles \cup {Panel} /\ None \notin ZoneTypes /\ None # Agent

VARIABLES
  pointer, held,                    \* where it is; the left button
  viewMode, view,                   \* of the game; of the screen: "local", "fading", "map"
  inputActive,
  isDragging, dragStart,            \* the camera is panned, from where
  zonePaintMode, zoneStart, zoneCurrent,
  dragAssignUnit,                   \* the agent in hand: dragAssignState is "dragging"
  hoveredUnit, tooltip,             \* of the renderer; of the panel over it
  at, despawning,                   \* where the agent stands; it fades out
  tileType,
  press,                            \* of this press: where, on whom, in which zone mode, still live
  did                               \* what the last step did to the office

drag == <<isDragging, dragStart>>
zone == <<zonePaintMode, zoneStart, zoneCurrent>>
hover == <<hoveredUnit, tooltip>>
office == <<at, despawning, tileType>>
vars == <<pointer, held, viewMode, view, inputActive, drag, zone, dragAssignUnit, hover, office, press, did>>

NoPress == [at |-> None, unit |-> None, zone |-> None, live |-> FALSE]
nothing == [kind |-> "nothing", who |-> None, to |-> None, tiles |-> {}]

TypeOK ==
  /\ pointer \in Tiles \cup {Panel} /\ held \in BOOLEAN /\ inputActive \in BOOLEAN /\ isDragging \in BOOLEAN
  /\ viewMode \in {"local", "macro"} /\ view \in {"local", "fading", "map"}
  /\ zonePaintMode \in ZoneTypes \cup {None} /\ (zoneStart = None) = (zoneCurrent = None)
  /\ (zoneStart # None => zonePaintMode # None)
  /\ dragAssignUnit \in {None, Agent} /\ hoveredUnit \in {None, Agent} /\ tooltip \in {None, Agent}

getUnitAt(p) == IF p = at THEN Agent ELSE None

Init ==
  /\ pointer \in Tiles /\ held = FALSE
  /\ viewMode = "local" /\ view = "local" /\ inputActive = TRUE
  /\ isDragging = FALSE /\ dragStart = None
  /\ zonePaintMode = None /\ zoneStart = None /\ zoneCurrent = None
  /\ dragAssignUnit = None /\ hoveredUnit = None /\ tooltip = None
  /\ at \in {t \in Tiles : kindOf[t] = "floor"} /\ despawning = FALSE
  /\ tileType = kindOf /\ press = NoPress /\ did = nothing

---------------------------------------------------------------------------
(* mousedown. *)

pressZone(p) ==
  /\ zonePaintMode # None /\ zoneStart' = p /\ zoneCurrent' = p
  /\ UNCHANGED <<drag, dragAssignUnit, zonePaintMode>>

(* An agent in hand pans nothing: the handler returns. *)
pressUnit(p) ==
  /\ zonePaintMode = None /\ getUnitAt(p) # None /\ ~despawning
  /\ dragAssignUnit' = getUnitAt(p)
  /\ UNCHANGED <<drag, zone>>

pressFloor(p) ==
  /\ zonePaintMode = None /\ (getUnitAt(p) = None \/ despawning)
  /\ isDragging' = TRUE /\ dragStart' = p
  /\ UNCHANGED <<zone, dragAssignUnit>>

MouseDown ==
  /\ ~held /\ held' = TRUE /\ (pointer = Panel => Outside)
  /\ IF pointer # Panel /\ inputActive
     THEN pressZone(pointer) \/ pressUnit(pointer) \/ pressFloor(pointer)
     ELSE UNCHANGED <<drag, zone, dragAssignUnit>>
  /\ press' = [at |-> pointer, unit |-> IF pointer # Panel /\ inputActive /\ ~despawning THEN getUnitAt(pointer) ELSE None,
               zone |-> zonePaintMode, live |-> pointer # Panel /\ inputActive]
  /\ did' = nothing /\ UNCHANGED <<pointer, viewMode, view, inputActive, hover, office>>

---------------------------------------------------------------------------
(* mousemove: the agent under the pointer, the zone, the camera. *)
MouseMove(p) ==
  /\ p # pointer /\ pointer' = p /\ (held /\ p = Panel => Outside)
  /\ IF p = Panel \/ ~inputActive THEN did' = nothing /\ UNCHANGED <<hover, zone>>
     ELSE /\ zoneCurrent' = (IF zoneStart # None /\ zonePaintMode # None THEN p ELSE zoneCurrent)
          /\ hoveredUnit' = getUnitAt(p)
          /\ tooltip' = (IF hoveredUnit' # hoveredUnit THEN hoveredUnit' ELSE tooltip)
          /\ did' = (IF isDragging THEN [nothing EXCEPT !.kind = "pan"] ELSE nothing)
          /\ UNCHANGED <<zonePaintMode, zoneStart>>
  /\ UNCHANGED <<held, viewMode, view, inputActive, drag, dragAssignUnit, office, press>>

---------------------------------------------------------------------------
(* mouseup. *)

(* queueLocalMission: the desk is looked for by its file among the tiles    *)
(* that still are workbenches; without one the agent goes to any other.     *)
deskOf(t) == IF tileType[t] = "workbench" THEN t ELSE None

\* Slip of releaseUnit: the agent is let go of only over a desk.
KeepsTheUnit(p) ==
  /\ dragAssignUnit # None
  /\ did' = (IF kindOf[p] = "workbench"
             THEN [kind |-> "assign", who |-> dragAssignUnit, to |-> p, tiles |-> {deskOf(p)}] ELSE nothing)
  /\ dragAssignUnit' = (IF did'.kind = "assign" THEN None ELSE dragAssignUnit)
  /\ UNCHANGED <<drag, zone, tileType, tooltip>>

(* The agent in hand is dropped, on a desk or not. A painted desk keeps its *)
(* workbench. The handler returns before isDragging is reset.               *)
releaseUnit(p) ==
  /\ dragAssignUnit # None /\ dragAssignUnit' = None
  /\ did' = (IF kindOf[p] = "workbench"
             THEN [kind |-> "assign", who |-> dragAssignUnit, to |-> p, tiles |-> {deskOf(p)}] ELSE nothing)
  /\ UNCHANGED <<drag, zone, tileType, tooltip>>

between(a, b) == {t \in Tiles : (a <= t /\ t <= b) \/ (b <= t /\ t <= a)}

(* finalizeZonePaint and onZonePaintedCb: every tile of the rectangle       *)
(* becomes stockpile, whatever it was and whatever the type of the zone.    *)
releaseZone(p) ==
  /\ dragAssignUnit = None /\ zonePaintMode # None /\ zoneStart # None
  /\ did' = [kind |-> "zone", who |-> zonePaintMode, to |-> zoneStart, tiles |-> between(zoneStart, zoneCurrent)]
  /\ tileType' = [t \in Tiles |-> IF t \in did'.tiles THEN "stockpile" ELSE tileType[t]]
  /\ zoneStart' = None /\ zoneCurrent' = None /\ isDragging' = FALSE
  /\ UNCHANGED <<zonePaintMode, dragStart, dragAssignUnit, tooltip>>

wasDrag(p) == p # dragStart

(* A click, unless the pointer has moved from where the camera was last     *)
(* taken: an agent, a desk, a kiosk or a whiteboard.                        *)
releaseClick(p) ==
  /\ dragAssignUnit = None /\ ~(zonePaintMode # None /\ zoneStart # None)
  /\ isDragging' = FALSE
  /\ IF wasDrag(p) THEN did' = nothing /\ UNCHANGED tooltip
     ELSE IF getUnitAt(p) # None THEN did' = [nothing EXCEPT !.kind = "unit", !.to = p] /\ tooltip' = getUnitAt(p)
     ELSE /\ UNCHANGED tooltip
          /\ did' = IF kindOf[p] = "workbench" THEN [nothing EXCEPT !.kind = "menu", !.to = p]
                    ELSE IF tileType[p] = "kiosk" THEN [nothing EXCEPT !.kind = "rest", !.to = p] ELSE nothing
  /\ UNCHANGED <<zone, dragStart, dragAssignUnit, tileType>>

MouseUp ==
  /\ held /\ held' = FALSE /\ (pointer = Panel => Outside)
  /\ IF pointer # Panel /\ inputActive
     THEN releaseUnit(pointer) \/ releaseZone(pointer) \/ releaseClick(pointer)
     ELSE did' = nothing /\ UNCHANGED <<drag, zone, dragAssignUnit, tileType, tooltip>>
  /\ UNCHANGED <<pointer, viewMode, view, inputActive, hoveredUnit, at, despawning, press>>

---------------------------------------------------------------------------
(* Keys. *)

setZonePaintMode(z) == zonePaintMode' = z /\ zoneStart' = None /\ zoneCurrent' = None

(* Shift and a letter; the same again leaves the mode. *)
ZoneShortcut(z) ==
  /\ inputActive /\ (held => KeysInPress)
  /\ setZonePaintMode(IF zonePaintMode = z THEN None ELSE z)
  /\ did' = nothing
  /\ UNCHANGED <<pointer, held, viewMode, view, inputActive, drag, dragAssignUnit, hover, office, press>>

(* Renderer's own handler comes first and leaves the office; this one drops *)
(* the agent, or else leaves the zone mode.                                 *)
Escape ==
  /\ inputActive /\ (held => KeysInPress)
  /\ viewMode' = "macro"
  /\ IF dragAssignUnit # None THEN dragAssignUnit' = None /\ UNCHANGED zone
     ELSE IF zonePaintMode # None THEN setZonePaintMode(None) /\ UNCHANGED dragAssignUnit
     ELSE UNCHANGED <<zone, dragAssignUnit>>
  /\ press' = [press EXCEPT !.live = FALSE]
  /\ did' = nothing /\ UNCHANGED <<pointer, held, view, inputActive, drag, hover, office>>

(* The back button, or a command that shows something on the map. *)
enterMacroView ==
  /\ ~held /\ viewMode' = "macro" /\ did' = nothing
  /\ UNCHANGED <<pointer, held, view, inputActive, drag, zone, dragAssignUnit, hover, office, press>>
enterLocalView ==
  /\ view = "map" /\ viewMode' = "local" /\ did' = nothing
  /\ UNCHANGED <<pointer, held, view, inputActive, drag, zone, dragAssignUnit, hover, office, press>>

---------------------------------------------------------------------------
(* Frames: the office fades in and out, the input with it.                  *)

startEnterTransition ==
  /\ (held => Across) /\ viewMode = "local" /\ view = "map" /\ view' = "local" /\ inputActive' = TRUE /\ did' = nothing
  /\ UNCHANGED <<pointer, held, viewMode, drag, zone, dragAssignUnit, hover, office, press>>

(* The input stays active while the office fades out: startExitTransition   *)
(* of transitions.ts is given a copy of the flag.                           *)
startExitTransition ==
  /\ (held => Across) /\ viewMode = "macro" /\ view = "local" /\ view' = "fading"
  /\ isDragging' = FALSE /\ zoneStart' = None /\ zoneCurrent' = None /\ did' = nothing
  /\ UNCHANGED <<pointer, held, viewMode, inputActive, dragStart, zonePaintMode, dragAssignUnit, hover, office, press>>

(* setInputActive(false): the gestures are dropped, the agent in hand and   *)
(* the tooltip are not.                                                     *)
setInputInactive ==
  /\ inputActive' = FALSE /\ isDragging' = FALSE /\ zoneStart' = None /\ zoneCurrent' = None /\ hoveredUnit' = None

drawMacro ==
  /\ (held => Across) /\ viewMode = "macro" /\ view = "fading" /\ view' = "map"
  /\ setInputInactive /\ did' = nothing
  /\ UNCHANGED <<pointer, held, viewMode, dragStart, zonePaintMode, dragAssignUnit, tooltip, office, press>>

(* The agent walks, or is told to go and fades out; another may come.       *)
UnitMoves(t) ==
  /\ kindOf[t] = "floor" /\ t # at /\ at' = t /\ did' = nothing
  /\ UNCHANGED <<pointer, held, viewMode, view, inputActive, drag, zone, dragAssignUnit, hover, despawning, tileType, press>>
Despawns ==
  /\ despawning' = ~despawning /\ did' = nothing
  /\ UNCHANGED <<pointer, held, viewMode, view, inputActive, drag, zone, dragAssignUnit, hover, at, tileType, press>>

Next ==
  \/ MouseDown \/ MouseUp \/ \E p \in Tiles \cup {Panel} : MouseMove(p)
  \/ \E z \in ZoneTypes : ZoneShortcut(z)
  \/ Escape \/ enterMacroView \/ enterLocalView
  \/ startEnterTransition \/ startExitTransition \/ drawMacro
  \/ \E t \in Tiles : UnitMoves(t)
  \/ Despawns
Spec == Init /\ [][Next]_vars

---------------------------------------------------------------------------
(* local-drag-assign.test.ts, "mousedown on unit transitions idle to        *)
(* dragging": an agent is given a desk by the press that took it.           *)
AssignsWhatIsHeld == did'.kind = "assign" => press.unit = did'.who

(* input.ts: the camera follows the pointer while the button is down.       *)
PansWhileHeld == did'.kind = "pan" => held

(* input.ts, finalizeZonePaint: a zone is the rectangle from where the      *)
(* button went down to where it came up, of the type chosen at the press.   *)
PaintsTheDrag ==
  did'.kind = "zone" => press.zone = did'.who /\ press.at # Panel /\ did'.tiles = between(press.at, pointer)

(* input.ts, wasDrag: what is clicked is where the button went down.        *)
ClicksWhereItPressed == did'.kind \in {"unit", "menu", "rest"} => did'.to = press.at

---------------------------------------------------------------------------
(* What a document, a comment or a test says and this code does not keep    *)
(* (README, "Where the code differs").                                      *)

(* "ESC cancels drag without firing callback": after Escape the release of  *)
(* the same press does nothing.                                             *)
EscapeCancels == [][MouseUp /\ ~press.live => did'.kind = "nothing"]_vars

(* main.ts:1263, "Also update tile types visually": an agent dropped on a   *)
(* desk is sent to that desk.                                               *)
DroppedOnTheDesk == [][did'.kind = "assign" => did'.tiles = {did'.to}]_vars

(* localSpatialPreview.ts:2, "panels for the local (RimWorld) view": on the *)
(* map there is no tooltip of an agent of the office.                       *)
TooltipInTheOffice == view = "map" => tooltip = None
=============================================================================
