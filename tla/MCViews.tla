------------------------------- MODULE MCViews -------------------------------
(***************************************************************************)
(* What the user's hand does to the page: the pointer on the map, the      *)
(* switch between the map and the office of a city with the frames each    *)
(* view draws, the pointer in the office and the panels over it, and the   *)
(* windows of the page.  A behaviour is one of them (part) while the       *)
(* others rest.                                                            *)
(***************************************************************************)
EXTENDS Integers, FiniteSets, TLC

CONSTANTS
  Parts,                       \* the parts that are checked
  none,                        \* nothing
  Sketching, Ordering, Roaming, \* of the map: [hexes, unitOn, cityOn, modes, keys, away, removals]
  TwoD, ThreeD,                \* of the views: [repos, local3D, loads, inFlight]
  Hurry, Stray, Steady,        \* of the office: [tiles, kindOf, outside, across, keysInPress, zoneTypes]
  Furnished, Resized           \* of its panels: [repos, files, timers, late, grip]

VARIABLES
  part,
  mapHeld, pressed, gesture, mapDragging, draggedUnit, draggedCity, routeFrom, painting, editor, tool,
  relocate, placing, actionMode, mapView, alive, mapDrawn, chosen, mapMenu, keys, mods, panning, mapDid,
  viewMode, world, asked, loads, fetched, mode, threeMap, scene, ctor, screen,
  pointer, floorHeld, floorMode, floorView, inputActive, isDragging, dragStart, zonePaintMode, zoneStart,
  zoneCurrent, dragAssignUnit, hoveredUnit, tooltip, at, despawning, tileType, press, floorDid,
  panelView, office, drawn, menu, preview, board, git, gitBody, gitAsked, info, timers, arming, armed,
  gripHeld, isResizing, panelDid,
  viewport, gaceta, open, docked, content, style, custom, saved, visible, winHeld, frame, reflow, sizes, calm, acts

(* The pointer on the map, the views, the pointer in the office and the    *)
(* panels over it, each under constants c.                                  *)
Map(c) == INSTANCE MapPointer WITH
  Hexes <- c.hexes, unitOn <- c.unitOn, cityOn <- c.cityOn, None <- "none", Panel <- "panel",
  Modes <- c.modes, Keys <- c.keys, Away <- c.away, Removals <- c.removals,
  held <- mapHeld, isDragging <- mapDragging, view <- mapView, drawn <- mapDrawn, menu <- mapMenu, did <- mapDid

Canvas(c) == INSTANCE ViewSwitch WITH
  Repos <- c.repos, Local3D <- c.local3D, MaxLoads <- c.loads, InFlight <- c.inFlight

Floor(c) == INSTANCE LocalPointer WITH
  Tiles <- c.tiles, kindOf <- c.kindOf, Panel <- 0, None <- none,
  Outside <- c.outside, Across <- c.across, KeysInPress <- c.keysInPress, ZoneTypes <- c.zoneTypes,
  held <- floorHeld, viewMode <- floorMode, view <- floorView, did <- floorDid

Panels(c) == INSTANCE LocalPanels WITH
  Repos <- c.repos, Files <- c.files, None <- none, MaxTimers <- c.timers, Late <- c.late, Grip <- c.grip,
  view <- panelView, world <- office, asked <- gitAsked, held <- gripHeld, did <- panelDid

(* The unit card and the side panel, on a screen of two sizes.              *)
At(l, t, w, h) == [left |-> l, top |-> t, width |-> w, height |-> h]
Windows == INSTANCE HudWindows WITH
  Order <- <<"unit", "side">>, Unit <- "unit", Side <- "side", None <- none,
  natural <- ("unit" :> At(1, 4, 3, 2)) @@ ("side" :> At(4, 1, 3, 3)), tall <- 4,
  Gacetas <- {At(1, 1, 2, 1), At(1, 1, 3, 3)},
  Viewports <- {[width |-> 9, height |-> 7], [width |-> 6, height |-> 6]},
  minimum <- [width |-> 2, height |-> 2], Offsets <- {[x |-> 2, y |-> -1]}, MaxActs <- 5, held <- winHeld

(* The window keeps the focus while the view turns; the office is flat where *)
(* its chat is looked for; a press ends in the view it began in unless it    *)
(* strays, and then, as where it only clicks, no key is hit meanwhile; a     *)
(* desk is clicked once its office is drawn.                                 *)
ASSUME Bounds ==
  /\ Map(Sketching)!PointerAssumption
  /\ Map(Ordering)!PointerAssumption /\ ~Ordering.away
  /\ Map(Roaming)!PointerAssumption /\ ~Roaming.away
  /\ Canvas(TwoD)!ViewAssumption /\ ~TwoD.local3D /\ Canvas(ThreeD)!ViewAssumption
  /\ Floor(Hurry)!PointerAssumption /\ ~Hurry.outside /\ ~Hurry.across
  /\ Floor(Stray)!PointerAssumption /\ ~Stray.outside /\ ~Stray.keysInPress
  /\ Floor(Steady)!PointerAssumption /\ ~Steady.outside /\ ~Steady.across /\ ~Steady.keysInPress
  /\ Panels(Furnished)!PanelAssumption /\ ~Furnished.late
  /\ Panels(Resized)!PanelAssumption
  /\ Windows!WindowAssumption

mapVars == <<mapHeld, pressed, gesture, mapDragging, draggedUnit, draggedCity, routeFrom, painting, editor,
             tool, relocate, placing, actionMode, mapView, alive, mapDrawn, chosen, mapMenu, keys, mods,
             panning, mapDid>>
viewVars == <<viewMode, world, asked, loads, fetched, mode, threeMap, scene, ctor, screen>>
floorVars == <<pointer, floorHeld, floorMode, floorView, inputActive, isDragging, dragStart, zonePaintMode,
               zoneStart, zoneCurrent, dragAssignUnit, hoveredUnit, tooltip, at, despawning, tileType, press,
               floorDid>>
panelVars == <<panelView, office, drawn, menu, preview, board, git, gitBody, gitAsked, info, timers, arming,
               armed, gripHeld, isResizing, panelDid>>
windowVars == <<viewport, gaceta, open, docked, content, style, custom, saved, visible, winHeld, frame, reflow,
                sizes, calm, acts>>

(* A part at rest has one initial state.                                    *)
Init ==
  /\ part \in Parts
  /\ CASE part = "editor" -> Map(Sketching)!Init [] part = "panning" -> Map(Roaming)!Init [] OTHER -> Map(Ordering)!Init
  /\ IF part = "flat" THEN Canvas(TwoD)!Init ELSE Canvas(ThreeD)!Init
  /\ part \notin {"flat", "three"} => mode = "flat"
  /\ CASE part = "hurried" -> Floor(Hurry)!Init [] part = "crossing" -> Floor(Stray)!Init [] OTHER -> Floor(Steady)!Init
  /\ part \notin {"hurried", "crossing", "clicks"} => pointer = 1 /\ at = 1
  /\ IF part = "gripped" THEN Panels(Resized)!Init ELSE Panels(Furnished)!Init
  /\ Windows!Init
  /\ viewport.width = 9 /\ gaceta.height = 1

Rest(others) == UNCHANGED <<part, others>>

Next ==
  \/ part = "editor" /\ Map(Sketching)!Next /\ Rest(<<viewVars, floorVars, panelVars, windowVars>>)
  \/ part = "orders" /\ Map(Ordering)!Next /\ Rest(<<viewVars, floorVars, panelVars, windowVars>>)
  \/ part = "panning" /\ Map(Roaming)!Next /\ Rest(<<viewVars, floorVars, panelVars, windowVars>>)
  \/ part = "flat" /\ Canvas(TwoD)!Next /\ Rest(<<mapVars, floorVars, panelVars, windowVars>>)
  \/ part = "three" /\ Canvas(ThreeD)!Next /\ Rest(<<mapVars, floorVars, panelVars, windowVars>>)
  \/ part = "hurried" /\ Floor(Hurry)!Next /\ Rest(<<mapVars, viewVars, panelVars, windowVars>>)
  \/ part = "crossing" /\ Floor(Stray)!Next /\ Rest(<<mapVars, viewVars, panelVars, windowVars>>)
  \/ part = "clicks" /\ Floor(Steady)!Next /\ Rest(<<mapVars, viewVars, panelVars, windowVars>>)
  \/ part = "panels" /\ Panels(Furnished)!Next /\ Rest(<<mapVars, viewVars, floorVars, windowVars>>)
  \/ part = "gripped" /\ Panels(Resized)!Next /\ Rest(<<mapVars, viewVars, floorVars, windowVars>>)
  \/ part = "windows" /\ Windows!Next /\ Rest(<<mapVars, viewVars, floorVars, panelVars>>)

vars == <<part, mapVars, viewVars, floorVars, panelVars, windowVars>>

Spec == Init /\ [][Next]_vars

(* Frames are drawn as long as the program runs.                            *)
InThree(A) == part = "three" /\ A
FairSpec == Spec /\ WF_viewVars(InThree(Canvas(ThreeD)!render(TRUE)))

---------------------------------------------------------------------------
(* On the map a stroke of the brush is open only while the left button is   *)
(* down and the brush is the tool, and the view turns only while the middle *)
(* button is down, wherever the buttons come up and whatever closes         *)
(* meanwhile (renderer.ts); the office listens to the mouse only while the  *)
(* map does not ("Two-channel guard", renderer.ts:530); and a panel shown   *)
(* over the office will be closed by a click outside it, now or once its    *)
(* timer or its answer has come ("Close on click outside",                  *)
(* localSpatialPreview.ts).                                                 *)
InputHasOneOwner ==
  /\ part = "editor" => Map(Sketching)!TypeOK /\ Map(Sketching)!PaintsOnlyWhileHeld
  /\ part = "orders" => Map(Ordering)!TypeOK /\ Map(Ordering)!OrbitsOnlyWhileHeld
  /\ part = "panning" => Map(Roaming)!TypeOK /\ Map(Roaming)!OrbitsOnlyWhileHeld
  /\ part = "flat" => Canvas(TwoD)!TypeOK /\ Canvas(TwoD)!InputToOneView
  /\ part = "three" => Canvas(ThreeD)!TypeOK /\ Canvas(ThreeD)!InputToOneView
  /\ part = "panels" => Panels(Furnished)!TypeOK /\ Panels(Furnished)!Closes
  /\ part = "gripped" => Panels(Resized)!TypeOK /\ Panels(Resized)!Closes

(* A window of the page is on the screen once its frames have settled, and  *)
(* a frame places it at the nearest place that is free (hudWindow.ts:94).   *)
WindowsFit ==
  /\ [](part = "windows" => Windows!TypeOK /\ Windows!OnScreen)
  /\ [][part = "windows" => Windows!TakesTheNearest]_vars

(* Of the map and the office a frame leaves one renderer on; one that draws *)
(* the office has been given that of its repository; in the office there is *)
(* the chat, on the map there is not; and nothing done in the office        *)
(* touches the map (renderer.ts:215-217).                                   *)
FramesAgree ==
  [][/\ part = "flat" => Canvas(TwoD)!OneSceneOn /\ Canvas(TwoD)!DrawsTheRepo /\ Canvas(TwoD)!ChatInTheOffice
     /\ part = "three" => Canvas(ThreeD)!OneSceneOn /\ Canvas(ThreeD)!DrawsTheRepo
     /\ part = "editor" => Map(Sketching)!LocalOwnsCanvas
     /\ part = "orders" => Map(Ordering)!LocalOwnsCanvas]_vars

(* What a release or a click does is done to what the press took: an agent  *)
(* given a desk, the rectangle of a zone, the tile clicked, the repository  *)
(* a mission names; and the camera pans only while the button is down       *)
(* (localRenderer/input.ts, main.ts:1147).                                  *)
ActsOnWhatWasPressed ==
  [][/\ part = "hurried" => Floor(Hurry)!AssignsWhatIsHeld /\ Floor(Hurry)!PansWhileHeld /\ Floor(Hurry)!PaintsTheDrag
     /\ part = "crossing" => Floor(Stray)!PaintsTheDrag
     /\ part = "clicks" => Floor(Steady)!ClicksWhereItPressed
     /\ part = "panels" => Panels(Furnished)!MissionInItsRepo]_vars

(* Who leaves the office gets to the map (local-view.spec.ts:222).          *)
Leaving == part = "three" /\ viewMode = "macro" /\ screen.painted # "macro"
Leaves == Leaving ~> ~Leaving

---------------------------------------------------------------------------
(* The constants of the run.  A hex with a unit, one with a city, one with  *)
(* neither.  The editor, with a window that loses the focus and a unit that *)
(* is removed meanwhile; the other tools; the keys.                         *)
Land == {"hu", "hc", "hn"}
UnitOn == [h \in Land |-> IF h = "hu" THEN "u1" ELSE "none"]
CityOn == [h \in Land |-> IF h = "hc" THEN "c1" ELSE "none"]
EditedLand ==
  [hexes |-> Land, unitOn |-> UnitOn, cityOn |-> CityOn, modes |-> {"editor"}, keys |-> {}, away |-> TRUE, removals |-> TRUE]
OrderedLand == [EditedLand EXCEPT !.modes = {"placing", "orders"}, !.away = FALSE, !.removals = FALSE]
EmptyLand ==
  [OrderedLand EXCEPT !.hexes = {"hc", "hn"}, !.unitOn = [h \in {"hc", "hn"} |-> "none"], !.modes = {}, !.keys = {"w"}]

(* Two cities whose offices are fetched, drawn flat or in three dimensions. *)
FlatOffices == [repos |-> {"a", "b"}, local3D |-> FALSE, loads |-> 3, inFlight |-> 1]
DeepOffices == [FlatOffices EXCEPT !.local3D = TRUE, !.loads = 2]

(* A desk between two tiles of floor, with keys hit during a press; a press *)
(* that begins in one view and ends in the other; a kiosk and two zones.    *)
HurriedFloor ==
  [tiles |-> {1, 2}, kindOf |-> (1 :> "floor") @@ (2 :> "workbench"),
   outside |-> FALSE, across |-> FALSE, keysInPress |-> TRUE, zoneTypes |-> {"growing"}]
LeftFloor ==
  [HurriedFloor EXCEPT !.kindOf = (1 :> "floor") @@ (2 :> "floor"), !.across = TRUE, !.keysInPress = FALSE]
ClickedFloor ==
  [LeftFloor EXCEPT !.kindOf = (1 :> "floor") @@ (2 :> "kiosk"), !.across = FALSE, !.zoneTypes = {"growing", "dining"}]

(* Two offices with a desk each; one office with the grip of the side panel.*)
TwoOffices == [repos |-> {"r1", "r2"}, files |-> {"f1"}, timers |-> 0, late |-> FALSE, grip |-> FALSE]
OneOffice == [TwoOffices EXCEPT !.repos = {"r1"}, !.timers = 1, !.grip = TRUE]
=============================================================================
