----------------------------- MODULE MapPointer -----------------------------
(***************************************************************************)
(* The pointer and the keys on the macro map (src/renderer.ts setupInput,  *)
(* handleClick, and the Escape chain of src/ui/hudWiring/hotkeys.ts): the  *)
(* gesture of a press, what the release does, the modes of the map, the    *)
(* two selections (the renderer's and the game's) and the keys held.  The  *)
(* local view and the panels lie over the same canvas.                     *)
(***************************************************************************)
EXTENDS Integers, Sequences, FiniteSets

CONSTANTS
  Hexes,      \* hexes the pointer is on
  unitOn,     \* what stands on them: a unit or None
  cityOn,     \* a city or None
  None,
  Panel,      \* anything over the canvas
  Modes,      \* of "editor", "placing", "orders": the ones used
  Keys,       \* the pan and orbit keys used
  Away,       \* the window may lose the focus
  Removals    \* units may be removed

Units == {unitOn[h] : h \in Hexes} \ {None}
Cities == {cityOn[h] : h \in Hexes} \ {None}

PointerAssumption ==
  /\ Keys \subseteq {"w", "q"} /\ Away \in BOOLEAN /\ Removals \in BOOLEAN
  /\ Modes \subseteq {"editor", "placing", "orders"}
  /\ Panel \notin Hexes /\ None \notin Hexes /\ Units \cap Cities = {}

VARIABLES
  held, pressed,           \* the buttons down; where the left one went down
  gesture, isDragging,     \* gestureMode
  draggedUnit, draggedCity, routeFrom,
  painting,                \* _mapEditorPainting
  editor, tool, relocate, placing, actionMode,
  view,                    \* viewMode
  alive, drawn, chosen,    \* units; selectedUnit of the renderer and of the game
  menu,                    \* the unit or the city whose context menu is open
  keys, mods, panning,     \* keys and modifiers down; panDirs and yawDirs
  did                      \* the effect of the last step on the world

mode == <<editor, tool, relocate, placing, actionMode>>
drag == <<gesture, isDragging, draggedUnit, draggedCity, routeFrom, painting>>
selection == <<alive, drawn, chosen, menu>>
board == <<keys, mods, panning>>
vars == <<held, pressed, drag, mode, view, selection, board, did>>

nothing == [kind |-> "nothing", who |-> None, to |-> None]
effect(k, w, h) == [kind |-> k, who |-> w, to |-> h]

unitAt(h) == IF unitOn[h] \in alive THEN unitOn[h] ELSE None

Init ==
  /\ held = {} /\ pressed = None
  /\ gesture = "camera_pan" /\ isDragging = FALSE
  /\ draggedUnit = None /\ draggedCity = None /\ routeFrom = None
  /\ painting = FALSE
  /\ editor = FALSE /\ tool = "move" /\ relocate = FALSE /\ placing = FALSE /\ actionMode = "none"
  /\ view = "macro"
  /\ alive = Units /\ drawn = None /\ chosen = None /\ menu = None
  /\ keys = {} /\ mods = {} /\ panning = {}
  /\ did = nothing

macro == view = "macro"

---------------------------------------------------------------------------
(* mousedown on the canvas.                                                 *)

beginCameraOrbit ==
  /\ gesture' = "camera_orbit" /\ isDragging' = FALSE /\ draggedUnit' = None
  /\ UNCHANGED <<draggedCity, routeFrom, painting>>

pressEditor(h) ==
  /\ editor /\ tool # "move"
  /\ painting' = (painting \/ tool = "terrain")
  /\ did' = IF tool = "terrain" THEN effect("paint", None, h) ELSE nothing
  /\ gesture' = "camera_pan" /\ isDragging' = FALSE
  /\ UNCHANGED <<draggedUnit, draggedCity, routeFrom>>

pressCity(h) ==
  /\ ~(editor /\ tool # "move")
  /\ relocate /\ cityOn[h] # None
  /\ draggedCity' = cityOn[h]
  /\ gesture' = "camera_pan" /\ isDragging' = FALSE
  /\ did' = nothing
  /\ UNCHANGED <<draggedUnit, routeFrom, painting>>

pressMap(h, shift) ==
  /\ ~(editor /\ tool # "move") /\ ~(relocate /\ cityOn[h] # None)
  /\ did' = nothing
  /\ UNCHANGED <<draggedCity, painting>>
  /\ LET unit == unitAt(h)
         kind == IF unit # None THEN "unit_drag"
                 ELSE IF shift /\ cityOn[h] # None THEN "route"
                 ELSE IF shift THEN "area_select" ELSE "camera_pan"
     IN  /\ gesture' = kind
         /\ isDragging' = (kind = "camera_pan")
         /\ draggedUnit' = IF kind = "unit_drag" THEN unit ELSE draggedUnit
         /\ routeFrom' = IF kind = "route" THEN h ELSE routeFrom

(* A press outside the menu closes it, once it is 50 ms old.                *)
pressOutside == menu' \in {None, menu}

MouseDown(b, h, shift) ==
  /\ b \notin held /\ pressOutside
  /\ held' = held \cup {b}
  /\ pressed' = IF b = "L" THEN h ELSE pressed
  /\ IF ~macro THEN UNCHANGED drag /\ did' = nothing
     ELSE IF b = "M" THEN beginCameraOrbit /\ did' = nothing
     ELSE pressEditor(h) \/ pressCity(h) \/ pressMap(h, shift)
  /\ UNCHANGED <<mode, view, alive, drawn, chosen, board>>

(* A button goes down on a panel: the canvas hears nothing.                 *)
PressPanel(b) ==
  /\ b \notin held /\ pressOutside
  /\ held' = held \cup {b}
  /\ pressed' = IF b = "L" THEN Panel ELSE pressed
  /\ did' = nothing
  /\ UNCHANGED <<drag, mode, view, alive, drawn, chosen, board>>

(* mousemove: the brush paints.                                             *)
MouseMove(h) ==
  /\ macro /\ editor /\ tool = "terrain" /\ painting
  /\ did' = effect("paint", None, h)
  /\ UNCHANGED <<held, pressed, drag, mode, view, selection, board>>

---------------------------------------------------------------------------
(* mouseup.                                                                 *)

select(u) == drawn' = u /\ chosen' = u
NoSelection == UNCHANGED <<drawn, chosen>>

handleClick(h) ==
  LET unit == unitAt(h)
      city == cityOn[h]
  IN  IF editor /\ tool # "move"
      THEN /\ did' = IF tool = "erase" THEN effect("erase", city, h) ELSE nothing
           /\ NoSelection /\ UNCHANGED <<placing, actionMode>>
      ELSE IF placing
      THEN /\ did' = IF city = None /\ unit = None THEN effect("found", None, h) ELSE nothing
           /\ placing' = FALSE
           /\ NoSelection /\ UNCHANGED actionMode
      ELSE IF actionMode = "move" /\ drawn # None
      THEN /\ did' = IF drawn \in alive THEN effect("move", drawn, h) ELSE nothing
           /\ actionMode' = "none"
           /\ NoSelection /\ UNCHANGED placing
      ELSE IF actionMode = "build" /\ drawn # None /\ city # None
      THEN /\ did' = effect("build", city, h)
           /\ actionMode' = "none"
           /\ NoSelection /\ UNCHANGED placing
      ELSE did' = nothing /\ select(unit) /\ UNCHANGED <<placing, actionMode>>

(* dragged is wasDrag: the release is away from the press.                  *)
releaseUnit(h, dragged) ==
  /\ gesture = "unit_drag"
  /\ IF dragged /\ draggedUnit # None
     THEN /\ did' = IF draggedUnit \in alive THEN effect("drop", draggedUnit, h) ELSE nothing
          /\ NoSelection
     ELSE did' = nothing /\ (IF draggedUnit # None THEN select(draggedUnit) ELSE NoSelection)
  /\ draggedUnit' = None
  /\ UNCHANGED <<draggedCity, routeFrom, placing, actionMode, relocate>>

releaseRoute(h, dragged) ==
  /\ gesture = "route"
  /\ did' = IF dragged /\ routeFrom # None /\ cityOn[h] # None /\ cityOn[h] # cityOn[routeFrom]
            THEN effect("route", cityOn[routeFrom], h) ELSE nothing
  /\ routeFrom' = None
  /\ NoSelection /\ UNCHANGED <<draggedUnit, draggedCity, placing, actionMode, relocate>>

releaseOther ==
  /\ gesture \in {"area_select", "camera_orbit"}
  /\ did' = nothing
  /\ NoSelection /\ UNCHANGED <<draggedUnit, draggedCity, routeFrom, placing, actionMode, relocate>>

(* Outside the editor a drop that moves ends the relocate mode.             *)
releasePan(h, dragged) ==
  /\ gesture = "camera_pan"
  /\ UNCHANGED <<draggedUnit, routeFrom>>
  /\ IF relocate /\ draggedCity # None
     THEN /\ draggedCity' = None
          /\ did' = IF dragged /\ cityOn[h] = None THEN effect("city", draggedCity, h) ELSE nothing
          /\ relocate' = (editor \/ did' = nothing)
          /\ NoSelection /\ UNCHANGED <<placing, actionMode>>
     ELSE /\ UNCHANGED <<draggedCity, relocate>>
          /\ IF dragged THEN did' = nothing /\ NoSelection /\ UNCHANGED <<placing, actionMode>>
             ELSE handleClick(h)

\* Slip of MouseUp: the stroke ends, and the orbit, only over the canvas.
EndsOnTheCanvas(b, h, dragged) ==
  /\ b \in held
  /\ held' = held \ {b}
  /\ pressed' = IF b = "L" THEN None ELSE pressed
  /\ painting' = (painting /\ ~(b = "L" /\ h # Panel))
  /\ IF b = "L" /\ h # Panel /\ macro
     THEN /\ gesture' = "camera_pan" /\ isDragging' = FALSE
          /\ releaseUnit(h, dragged) \/ releaseRoute(h, dragged) \/ releaseOther \/ releasePan(h, dragged)
     ELSE /\ did' = nothing
          /\ UNCHANGED <<gesture, isDragging, draggedUnit, draggedCity, routeFrom, drawn, chosen, placing, actionMode, relocate>>
  /\ UNCHANGED <<editor, tool, view, alive, menu, board>>

(* The window ends the stroke wherever the left button comes up, and the    *)
(* orbit for the middle one.                                                *)
MouseUp(b, h, dragged) ==
  /\ b \in held
  /\ held' = held \ {b}
  /\ pressed' = IF b = "L" THEN None ELSE pressed
  /\ painting' = (painting /\ b # "L")
  /\ IF b = "L" /\ h # Panel /\ macro
     THEN /\ gesture' = "camera_pan" /\ isDragging' = FALSE
          /\ releaseUnit(h, dragged) \/ releaseRoute(h, dragged) \/ releaseOther \/ releasePan(h, dragged)
     ELSE /\ IF b = "M" /\ gesture = "camera_orbit"
             THEN gesture' = "camera_pan" /\ isDragging' = FALSE
             ELSE UNCHANGED <<gesture, isDragging>>
          /\ did' = nothing
          /\ UNCHANGED <<draggedUnit, draggedCity, routeFrom, drawn, chosen, placing, actionMode, relocate>>
  /\ UNCHANGED <<editor, tool, view, alive, menu, board>>

(* The window loses the focus with buttons and keys down.                   *)
Blur ==
  /\ Away /\ held \cup keys # {}
  /\ held' = {} /\ keys' = {} /\ mods' = {} /\ pressed' = None
  /\ panning' = {} /\ painting' = FALSE
  /\ did' = nothing
  /\ UNCHANGED <<gesture, isDragging, draggedUnit, draggedCity, routeFrom, mode, view, selection>>

---------------------------------------------------------------------------
(* The context menu, the double click, the modes and the panels.            *)

(* The menu of the unit there; else of the city, if the policy leaves it a  *)
(* command (offers); else no menu, and the renderer forgets the selection.  *)
ContextMenu(h, offers) ==
  /\ macro
  /\ actionMode' = "none"
  /\ menu' = IF unitAt(h) # None THEN unitAt(h) ELSE IF offers THEN cityOn[h] ELSE None
  /\ drawn' = IF menu' = None THEN None ELSE drawn
  /\ did' = nothing
  /\ UNCHANGED <<held, pressed, drag, editor, tool, relocate, placing, view, alive, chosen, board>>

(* One of a unit's items: an order mode, sleep or information.              *)
MenuPick(item) ==
  /\ menu \in Units /\ menu' = None
  /\ select(menu)
  /\ actionMode' = IF item \in {"move", "build"} THEN item ELSE actionMode
  /\ did' = nothing
  /\ UNCHANGED <<held, pressed, drag, editor, tool, relocate, placing, view, alive, board>>

(* One of a city's: a command goes to the bridge, or to a preview of it.     *)
MenuCommand ==
  /\ menu \in Cities /\ menu' = None
  /\ did' = nothing
  /\ UNCHANGED <<held, pressed, drag, mode, view, alive, drawn, chosen, board>>

MenuHide ==
  /\ menu \in Units /\ menu' = None
  /\ (IF drawn = menu THEN select(None) ELSE NoSelection)
  /\ did' = nothing
  /\ UNCHANGED <<held, pressed, drag, mode, view, alive, board>>

(* dblclick on a city opens its local view.                                 *)
EnterLocal ==
  /\ macro /\ Cities # {} /\ held = {}
  /\ view' = "local" /\ did' = nothing
  /\ UNCHANGED <<held, pressed, drag, mode, selection, board>>

(* Keys m and b.                                                            *)
setActionMode(m) ==
  /\ "orders" \in Modes
  /\ actionMode' = m /\ did' = nothing
  /\ UNCHANGED <<held, pressed, drag, editor, tool, relocate, placing, view, selection, board>>

setPlacingMode ==
  /\ "placing" \in Modes /\ ~placing
  /\ placing' = TRUE /\ relocate' = FALSE /\ draggedCity' = None
  /\ did' = nothing
  /\ UNCHANGED <<held, pressed, gesture, isDragging, draggedUnit, routeFrom, painting, editor, tool, actionMode,
                 view, selection, board>>

setCityRelocateMode(on) ==
  /\ relocate' = IF editor THEN tool = "move" ELSE on
  /\ placing' = (placing /\ ~on)
  /\ draggedCity' = IF on /\ relocate' THEN draggedCity ELSE None

(* The construction panel is opened or closed.                              *)
ConstructionPanel ==
  /\ setCityRelocateMode(FALSE) /\ did' = nothing
  /\ UNCHANGED <<held, pressed, gesture, isDragging, draggedUnit, routeFrom, painting, editor, tool, actionMode,
                 view, selection, board>>

(* Key k.                                                                   *)
setMapEditorMode(on) ==
  /\ editor' = on /\ painting' = (painting /\ on)
  /\ relocate' = (on /\ tool = "move")
  /\ draggedCity' = IF relocate' THEN draggedCity ELSE None

toggleMapEditor == setMapEditorMode(~editor)

ToggleEditor ==
  /\ "editor" \in Modes
  /\ toggleMapEditor /\ did' = nothing
  /\ UNCHANGED <<held, pressed, gesture, isDragging, draggedUnit, routeFrom, tool, placing, actionMode,
                 view, selection, board>>

setMapEditorTool(t) ==
  /\ editor /\ tool # t /\ held = {}
  /\ tool' = t /\ painting' = FALSE
  /\ relocate' = (t = "move")
  /\ draggedCity' = IF t = "move" THEN draggedCity ELSE None
  /\ did' = nothing
  /\ UNCHANGED <<held, pressed, gesture, isDragging, draggedUnit, routeFrom, editor, placing, actionMode,
                 view, selection, board>>

(* Three listeners hear it: the relocate mode, the panels one at a time and *)
(* then the selection, the local view.                                      *)
Escape ==
  /\ did' = nothing
  /\ view' = "macro"
  /\ editor' = FALSE
  /\ IF editor THEN relocate' = FALSE /\ draggedCity' = None /\ painting' = FALSE
     ELSE /\ relocate' = FALSE /\ UNCHANGED painting
          /\ draggedCity' = IF relocate THEN None ELSE draggedCity
  /\ IF ~editor /\ chosen # None THEN select(None) ELSE NoSelection
  /\ UNCHANGED <<held, pressed, gesture, isDragging, draggedUnit, routeFrom, tool, placing, actionMode, alive, menu, board>>

removeUnit(u) ==
  /\ Removals /\ u \in alive
  /\ alive' = alive \ {u}
  /\ chosen' = IF chosen = u THEN None ELSE chosen
  /\ did' = nothing
  /\ UNCHANGED <<held, pressed, drag, mode, view, drawn, menu, board>>

---------------------------------------------------------------------------
(* Keys.  panKey hears w without control, alt or meta; yawKey hears q       *)
(* without shift either.                                                    *)

heard(k) == "ctrl" \notin mods /\ (k = "w" \/ "shift" \notin mods)

KeyDown(k) ==
  /\ k \notin keys /\ keys' = keys \cup {k}
  /\ panning' = IF heard(k) THEN panning \cup {k} ELSE panning
  /\ did' = nothing
  /\ UNCHANGED <<held, pressed, drag, mode, view, selection, mods>>

KeyUp(k) ==
  /\ k \in keys /\ keys' = keys \ {k}
  /\ panning' = IF heard(k) THEN panning \ {k} ELSE panning
  /\ did' = nothing
  /\ UNCHANGED <<held, pressed, drag, mode, view, selection, mods>>

Modifier(m) ==
  /\ Keys # {}
  /\ mods' = (mods \ {m}) \cup ({m} \ mods)
  /\ did' = nothing
  /\ UNCHANGED <<held, pressed, drag, mode, view, selection, keys, panning>>

Pointer ==
  \/ \E b \in {"L", "M"}, h \in Hexes, shift \in BOOLEAN : MouseDown(b, h, shift)
  \/ \E b \in {"L", "M"} : PressPanel(b)
  \/ \E h \in Hexes : MouseMove(h)
  \/ \E b \in {"L", "M"}, h \in Hexes \cup {Panel}, dragged \in BOOLEAN : MouseUp(b, h, dragged)
  \/ \E h \in Hexes, offers \in BOOLEAN : ContextMenu(h, offers)
  \/ \E item \in {"move", "build", "info"} : MenuPick(item)
  \/ MenuCommand \/ MenuHide \/ EnterLocal

Next ==
  \/ Pointer
  \/ Blur
  \/ \E m \in {"move", "build"} : setActionMode(m)
  \/ setPlacingMode \/ ConstructionPanel \/ ToggleEditor
  \/ \E t \in {"move", "terrain", "erase"} : setMapEditorTool(t)
  \/ Escape
  \/ \E u \in Units : removeUnit(u)
  \/ \E k \in Keys : KeyDown(k) \/ KeyUp(k)
  \/ \E m \in {"ctrl", "shift"} : Modifier(m)

Spec == Init /\ [][Next]_vars

(***************************************************************************)
(* Properties.                                                             *)
(***************************************************************************)

TypeOK ==
  /\ held \subseteq {"L", "M"} /\ pressed \in Hexes \cup {Panel, None}
  /\ gesture \in {"camera_pan", "camera_orbit", "unit_drag", "area_select", "route"}
  /\ gesture = "unit_drag" => draggedUnit \in Units
  /\ gesture = "route" => routeFrom \in Hexes
  /\ draggedCity \in Cities \cup {None} /\ drawn \in Units \cup {None} /\ chosen \in Units \cup {None}
  /\ panning \subseteq Keys

(* A stroke is open only while the left button is down and the brush is the *)
(* tool, wherever the button comes up and whatever the keys close meanwhile *)
(* ("The terrain brush stops painting when the button comes up").           *)
PaintsOnlyWhileHeld == painting => "L" \in held /\ editor /\ tool = "terrain"

(* The view turns only while the middle button is down.                     *)
OrbitsOnlyWhileHeld == gesture = "camera_orbit" => "M" \in held

(* The local view owns the canvas: nothing done there touches the map.      *)
LocalOwnsCanvas == view = "local" /\ view' = "local" => did' = nothing /\ draggedUnit' = draggedUnit

---------------------------------------------------------------------------
(* What a document, a comment or a test says and this code does not keep    *)
(* (README, "Where the code differs").                                      *)

(* The city a drop moves is the one the same press took (mapEditor.ts:37,   *)
(* "Arrastra una ciudad a otra casilla del mapa").                          *)
MovesWhatWasPressed ==
  [][did'.kind = "city" => pressed \in Hexes /\ cityOn[pressed] = did'.who]_vars

(* "empty hex -> clear selection" (renderer.ts:943): of the game as well.   *)
ClearsSelection ==
  [][\A h \in Hexes, offers \in BOOLEAN :
       ContextMenu(h, offers) /\ unitAt(h) = None /\ cityOn[h] = None => drawn' = None /\ chosen' = None]_vars

(* panDirs holds the "Pan keys currently held" (renderer.ts:109).           *)
HeldKeysOnly == panning \subseteq keys
=============================================================================
