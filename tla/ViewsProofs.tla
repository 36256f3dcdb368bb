----------------------------- MODULE ViewsProofs -----------------------------
(***************************************************************************)
(* Proofs about MCViews: the pointer on the map, the switch of the views,  *)
(* the pointer in the office and the panels over it, for any hexes, units, *)
(* cities, tools and keys, any repositories and fetches, any tiles, zones  *)
(* and files.                                                              *)
(***************************************************************************)
EXTENDS MCViews, TLAPS

---------------------------------------------------------------------------
(* The pointer on the map.                                                  *)

MapHolds(c) ==
  /\ Map(c)!TypeOK /\ Map(c)!PaintsOnlyWhileHeld
  /\ painting \in BOOLEAN
  /\ alive \subseteq Map(c)!Units
  /\ mapMenu \in Map(c)!Units \cup Map(c)!Cities \cup {"none"}

Held(c) == ~c.away => Map(c)!OrbitsOnlyWhileHeld

LEMMA MapStarts ==
  ASSUME NEW c, Map(c)!Init
  PROVE  MapHolds(c) /\ Held(c)
BY DEF Map!Init, MapHolds, Held, Map!TypeOK, Map!PaintsOnlyWhileHeld, Map!OrbitsOnlyWhileHeld

LEMMA UnitsAlive ==
  ASSUME NEW c, alive \subseteq Map(c)!Units, NEW h
  PROVE  Map(c)!unitAt(h) \in Map(c)!Units \cup {"none"}
BY DEF Map!unitAt

LEMMA CitiesOfHexes ==
  ASSUME NEW c, NEW h \in c.hexes
  PROVE  c.cityOn[h] \in Map(c)!Cities \cup {"none"}
BY DEF Map!Cities

LEMMA PressHolds ==
  ASSUME NEW c, Map(c)!PointerAssumption, MapHolds(c), Held(c),
         NEW b \in {"L", "M"}, NEW h \in c.hexes, NEW shift \in BOOLEAN, Map(c)!MouseDown(b, h, shift)
  PROVE  MapHolds(c)' /\ Held(c)'
<1>1. UNCHANGED <<editor, tool, relocate, placing, actionMode, mapView, alive, mapDrawn, chosen, keys, mods, panning>>
      /\ mapHeld' = mapHeld \cup {b} /\ pressed' \in {h, pressed} /\ mapMenu' \in {"none", mapMenu}
  BY DEF Map!MouseDown, Map!pressOutside, Map!mode, Map!board
<1>2. CASE UNCHANGED <<gesture, mapDragging, draggedUnit, draggedCity, routeFrom, painting>>
  BY <1>1, <1>2 DEF MapHolds, Held, Map!TypeOK, Map!PaintsOnlyWhileHeld, Map!OrbitsOnlyWhileHeld
<1>3. CASE b = "M" /\ Map(c)!beginCameraOrbit
  BY <1>1, <1>3 DEF Map!beginCameraOrbit, MapHolds, Held, Map!TypeOK, Map!PaintsOnlyWhileHeld, Map!OrbitsOnlyWhileHeld
<1>4. CASE b = "L" /\ Map(c)!pressEditor(h)
  <2>1. painting' \in BOOLEAN
    BY <1>4, Zenon DEF Map!pressEditor, MapHolds
  <2> QED BY <1>1, <1>4, <2>1 DEF Map!pressEditor, MapHolds, Held, Map!TypeOK, Map!PaintsOnlyWhileHeld, Map!OrbitsOnlyWhileHeld
<1>5. CASE Map(c)!pressCity(h)
  BY <1>1, <1>5, CitiesOfHexes
     DEF Map!pressCity, MapHolds, Held, Map!TypeOK, Map!PaintsOnlyWhileHeld, Map!OrbitsOnlyWhileHeld
<1>6. CASE Map(c)!pressMap(h, shift)
  <2>1. Map(c)!unitAt(h) \in Map(c)!Units \cup {"none"}
    BY UnitsAlive DEF MapHolds
  <2>2. /\ gesture' \in {"camera_pan", "unit_drag", "area_select", "route"}
        /\ gesture' = "unit_drag" => draggedUnit' \in Map(c)!Units
        /\ gesture' = "route" => routeFrom' \in c.hexes
    BY <1>6, <2>1 DEF Map!pressMap
  <2> QED BY <1>1, <1>6, <2>2
          DEF Map!pressMap, MapHolds, Held, Map!TypeOK, Map!PaintsOnlyWhileHeld, Map!OrbitsOnlyWhileHeld
<1> QED BY <1>2, <1>3, <1>4, <1>5, <1>6 DEF Map!MouseDown, Map!drag

(* What a release selects, and what is left in hand.                        *)
LEMMA ReleaseSelects ==
  ASSUME NEW c, Map(c)!PointerAssumption, MapHolds(c), NEW h \in c.hexes, NEW dragged \in BOOLEAN,
         Map(c)!releaseUnit(h, dragged) \/ Map(c)!releaseRoute(h, dragged) \/ Map(c)!releaseOther
         \/ Map(c)!releasePan(h, dragged)
  PROVE  /\ mapDrawn' \in Map(c)!Units \cup {"none"} /\ chosen' \in Map(c)!Units \cup {"none"}
         /\ draggedCity' \in Map(c)!Cities \cup {"none"}
<1>1. Map(c)!unitAt(h) \in Map(c)!Units \cup {"none"}
  BY UnitsAlive DEF MapHolds
<1>2. CASE Map(c)!releasePan(h, dragged)
  BY <1>1, <1>2 DEF Map!releasePan, Map!handleClick, Map!select, Map!NoSelection, MapHolds, Map!TypeOK
<1>3. CASE Map(c)!releaseUnit(h, dragged)
  BY <1>3 DEF Map!releaseUnit, Map!select, Map!NoSelection, MapHolds, Map!TypeOK
<1>4. CASE Map(c)!releaseRoute(h, dragged) \/ Map(c)!releaseOther
  BY <1>4 DEF Map!releaseRoute, Map!releaseOther, Map!NoSelection, MapHolds, Map!TypeOK
<1> QED BY <1>2, <1>3, <1>4

LEMMA ReleaseHolds ==
  ASSUME NEW c, Map(c)!PointerAssumption, MapHolds(c), Held(c),
         NEW b \in {"L", "M"}, NEW h \in c.hexes \cup {"panel"}, NEW dragged \in BOOLEAN, Map(c)!MouseUp(b, h, dragged)
  PROVE  MapHolds(c)' /\ Held(c)'
<1>1. /\ UNCHANGED <<editor, tool, mapView, alive, mapMenu, keys, mods, panning>>
      /\ mapHeld' = mapHeld \ {b} /\ pressed' \in {"none", pressed}
      /\ painting' = (painting /\ b # "L")
  BY DEF Map!MouseUp, Map!board
<1>2. painting' \in BOOLEAN /\ (painting' => b # "L" /\ painting)
  BY <1>1, Zenon DEF MapHolds
<1>3. CASE b = "L" /\ h # "panel" /\ Map(c)!macro
  <2>1. gesture' = "camera_pan"
    BY <1>3 DEF Map!MouseUp
  <2>2. /\ mapDrawn' \in Map(c)!Units \cup {"none"} /\ chosen' \in Map(c)!Units \cup {"none"}
        /\ draggedCity' \in Map(c)!Cities \cup {"none"}
    BY <1>3, ReleaseSelects DEF Map!MouseUp
  <2> QED BY <1>1, <1>2, <2>1, <2>2 DEF MapHolds, Held, Map!TypeOK, Map!PaintsOnlyWhileHeld, Map!OrbitsOnlyWhileHeld
<1>4. CASE ~(b = "L" /\ h # "panel" /\ Map(c)!macro)
  <2>1. /\ UNCHANGED <<draggedUnit, draggedCity, routeFrom, mapDrawn, chosen>>
        /\ gesture' = IF b = "M" /\ gesture = "camera_orbit" THEN "camera_pan" ELSE gesture
    BY <1>4 DEF Map!MouseUp
  <2> QED BY <1>1, <1>2, <2>1 DEF MapHolds, Held, Map!TypeOK, Map!PaintsOnlyWhileHeld, Map!OrbitsOnlyWhileHeld
<1> QED BY <1>3, <1>4

(* The other things the pointer does, and the focus.                        *)
LEMMA PointerHolds ==
  ASSUME NEW c, Map(c)!PointerAssumption, MapHolds(c), Held(c),
         \/ \E b \in {"L", "M"} : Map(c)!PressPanel(b)
         \/ \E h \in c.hexes : Map(c)!MouseMove(h)
         \/ \E h \in c.hexes, offers \in BOOLEAN : Map(c)!ContextMenu(h, offers)
         \/ \E item \in {"move", "build", "info"} : Map(c)!MenuPick(item)
         \/ Map(c)!MenuCommand \/ Map(c)!MenuHide \/ Map(c)!EnterLocal \/ Map(c)!Blur
  PROVE  MapHolds(c)' /\ Held(c)'
<1>1. CASE \E b \in {"L", "M"} : Map(c)!PressPanel(b)
  BY <1>1 DEF Map!PressPanel, Map!pressOutside, Map!drag, Map!mode, Map!board,
     MapHolds, Held, Map!TypeOK, Map!PaintsOnlyWhileHeld, Map!OrbitsOnlyWhileHeld
<1>2. CASE \E h \in c.hexes : Map(c)!MouseMove(h)
  BY <1>2 DEF Map!MouseMove, Map!drag, Map!mode, Map!selection, Map!board,
     MapHolds, Held, Map!TypeOK, Map!PaintsOnlyWhileHeld, Map!OrbitsOnlyWhileHeld
<1>6. CASE Map(c)!EnterLocal
  BY <1>6 DEF Map!EnterLocal, Map!drag, Map!mode, Map!selection, Map!board,
     MapHolds, Held, Map!TypeOK, Map!PaintsOnlyWhileHeld, Map!OrbitsOnlyWhileHeld
<1>3. CASE \E h \in c.hexes, offers \in BOOLEAN : Map(c)!ContextMenu(h, offers)
  BY <1>3, UnitsAlive, CitiesOfHexes DEF Map!ContextMenu, Map!drag, Map!board,
     MapHolds, Held, Map!TypeOK, Map!PaintsOnlyWhileHeld, Map!OrbitsOnlyWhileHeld
<1>4. CASE \E item \in {"move", "build", "info"} : Map(c)!MenuPick(item)
  BY <1>4 DEF Map!MenuPick, Map!select, Map!drag, Map!board,
     MapHolds, Held, Map!TypeOK, Map!PaintsOnlyWhileHeld, Map!OrbitsOnlyWhileHeld
<1>7. CASE Map(c)!MenuHide
  BY <1>7 DEF Map!MenuHide, Map!select, Map!NoSelection, Map!drag, Map!mode, Map!board,
     MapHolds, Held, Map!TypeOK, Map!PaintsOnlyWhileHeld, Map!OrbitsOnlyWhileHeld
<1>8. CASE Map(c)!MenuCommand
  BY <1>8 DEF Map!MenuCommand, Map!drag, Map!mode, Map!board,
     MapHolds, Held, Map!TypeOK, Map!PaintsOnlyWhileHeld, Map!OrbitsOnlyWhileHeld
<1>5. CASE Map(c)!Blur
  BY <1>5 DEF Map!Blur, Map!mode, Map!selection,
     MapHolds, Held, Map!TypeOK, Map!PaintsOnlyWhileHeld, Map!OrbitsOnlyWhileHeld
<1> QED BY <1>1, <1>2, <1>3, <1>4, <1>5, <1>6, <1>7, <1>8

LEMMA ModesHold ==
  ASSUME NEW c, Map(c)!PointerAssumption, MapHolds(c), Held(c),
         \/ \E m \in {"move", "build"} : Map(c)!setActionMode(m)
         \/ Map(c)!setPlacingMode \/ Map(c)!ConstructionPanel \/ Map(c)!ToggleEditor
         \/ \E t \in {"move", "terrain", "erase"} : Map(c)!setMapEditorTool(t)
         \/ Map(c)!Escape
  PROVE  MapHolds(c)' /\ Held(c)'
<1>1. CASE \E m \in {"move", "build"} : Map(c)!setActionMode(m)
  BY <1>1 DEF Map!setActionMode, Map!drag, Map!selection, Map!board,
     MapHolds, Held, Map!TypeOK, Map!PaintsOnlyWhileHeld, Map!OrbitsOnlyWhileHeld
<1>5. CASE Map(c)!setPlacingMode
  BY <1>5 DEF Map!setPlacingMode, Map!selection, Map!board,
     MapHolds, Held, Map!TypeOK, Map!PaintsOnlyWhileHeld, Map!OrbitsOnlyWhileHeld
<1>6. CASE Map(c)!ConstructionPanel
  BY <1>6 DEF Map!ConstructionPanel, Map!setCityRelocateMode, Map!selection, Map!board,
     MapHolds, Held, Map!TypeOK, Map!PaintsOnlyWhileHeld, Map!OrbitsOnlyWhileHeld
<1>2. CASE Map(c)!ToggleEditor
  <2>1. painting' = (painting /\ ~editor) /\ editor' = ~editor
    BY <1>2 DEF Map!ToggleEditor, Map!toggleMapEditor, Map!setMapEditorMode
  <2>2. painting' \in BOOLEAN
    BY <2>1, Zenon DEF MapHolds
  <2>3. ~painting'
    BY <2>1 DEF MapHolds, Map!PaintsOnlyWhileHeld
  <2> QED BY <1>2, <2>2, <2>3 DEF Map!ToggleEditor, Map!toggleMapEditor, Map!setMapEditorMode, Map!selection, Map!board,
          MapHolds, Held, Map!TypeOK, Map!PaintsOnlyWhileHeld, Map!OrbitsOnlyWhileHeld
<1>3. CASE \E t \in {"move", "terrain", "erase"} : Map(c)!setMapEditorTool(t)
  BY <1>3 DEF Map!setMapEditorTool, Map!selection, Map!board,
     MapHolds, Held, Map!TypeOK, Map!PaintsOnlyWhileHeld, Map!OrbitsOnlyWhileHeld
<1>4. CASE Map(c)!Escape
  BY <1>4 DEF Map!Escape, Map!select, Map!NoSelection, Map!board,
     MapHolds, Held, Map!TypeOK, Map!PaintsOnlyWhileHeld, Map!OrbitsOnlyWhileHeld
<1> QED BY <1>1, <1>2, <1>3, <1>4, <1>5, <1>6

LEMMA KeysHold ==
  ASSUME NEW c, Map(c)!PointerAssumption, MapHolds(c), Held(c),
         \/ \E u \in Map(c)!Units : Map(c)!removeUnit(u)
         \/ \E k \in c.keys : Map(c)!KeyDown(k) \/ Map(c)!KeyUp(k)
         \/ \E m \in {"ctrl", "shift"} : Map(c)!Modifier(m)
  PROVE  MapHolds(c)' /\ Held(c)'
<1>1. CASE \E u \in Map(c)!Units : Map(c)!removeUnit(u)
  BY <1>1 DEF Map!removeUnit, Map!drag, Map!mode, Map!board,
     MapHolds, Held, Map!TypeOK, Map!PaintsOnlyWhileHeld, Map!OrbitsOnlyWhileHeld
<1>2. CASE \E k \in c.keys : Map(c)!KeyDown(k) \/ Map(c)!KeyUp(k)
  <2>1. panning' \subseteq c.keys
    BY <1>2 DEF Map!KeyDown, Map!KeyUp, MapHolds, Map!TypeOK
  <2>2. UNCHANGED <<mapHeld, pressed, Map(c)!drag, Map(c)!mode, mapView, Map(c)!selection>>
    BY <1>2 DEF Map!KeyDown, Map!KeyUp
  <2> QED BY <2>1, <2>2 DEF Map!drag, Map!mode, Map!selection, MapHolds, Held, Map!TypeOK, Map!PaintsOnlyWhileHeld, Map!OrbitsOnlyWhileHeld
<1>3. CASE \E m \in {"ctrl", "shift"} : Map(c)!Modifier(m)
  BY <1>3 DEF Map!Modifier, Map!drag, Map!mode, Map!selection,
     MapHolds, Held, Map!TypeOK, Map!PaintsOnlyWhileHeld, Map!OrbitsOnlyWhileHeld
<1> QED BY <1>1, <1>2, <1>3

LEMMA MapStep ==
  ASSUME NEW c, Map(c)!PointerAssumption, MapHolds(c), Held(c), Map(c)!Next
  PROVE  MapHolds(c)' /\ Held(c)'
BY PressHolds, ReleaseHolds, PointerHolds, ModesHold, KeysHold DEF Map!Next, Map!Pointer

(* In the office every step either is no press on the map or leaves it.     *)
LEMMA OfficeOwnsCanvas ==
  ASSUME NEW c, Map(c)!Next
  PROVE  Map(c)!LocalOwnsCanvas
<1> SUFFICES ASSUME mapView = "local", mapView' = "local"
             PROVE  mapDid' = Map(c)!nothing /\ draggedUnit' = draggedUnit
  BY DEF Map!LocalOwnsCanvas
<1>1. ~Map(c)!macro /\ "local" # "macro"
  BY DEF Map!macro
<1>2. CASE Map(c)!Pointer
  BY <1>1, <1>2 DEF Map!Pointer, Map!MouseDown, Map!PressPanel, Map!MouseMove, Map!MouseUp, Map!ContextMenu,
     Map!MenuPick, Map!MenuCommand, Map!MenuHide, Map!EnterLocal, Map!drag
<1>3. CASE Map(c)!Blur \/ Map(c)!Escape \/ \E u \in Map(c)!Units : Map(c)!removeUnit(u)
  BY <1>1, <1>3 DEF Map!Blur, Map!Escape, Map!removeUnit, Map!drag
<1>4. CASE \/ \E m \in {"move", "build"} : Map(c)!setActionMode(m)
           \/ Map(c)!setPlacingMode \/ Map(c)!ConstructionPanel \/ Map(c)!ToggleEditor
           \/ \E t \in {"move", "terrain", "erase"} : Map(c)!setMapEditorTool(t)
  BY <1>4 DEF Map!setActionMode, Map!setPlacingMode, Map!ConstructionPanel, Map!ToggleEditor, Map!setMapEditorTool, Map!drag
<1>5. CASE \/ \E k \in c.keys : Map(c)!KeyDown(k) \/ Map(c)!KeyUp(k)
           \/ \E m \in {"ctrl", "shift"} : Map(c)!Modifier(m)
  BY <1>5 DEF Map!KeyDown, Map!KeyUp, Map!Modifier, Map!drag
<1> QED BY <1>2, <1>3, <1>4, <1>5 DEF Map!Next

LEMMA MapRests ==
  ASSUME NEW c, UNCHANGED mapVars
  PROVE  (MapHolds(c) => MapHolds(c)') /\ (Held(c) => Held(c)')
BY DEF mapVars, MapHolds, Held, Map!TypeOK, Map!PaintsOnlyWhileHeld, Map!OrbitsOnlyWhileHeld

---------------------------------------------------------------------------
(* The views.                                                               *)

Fields ==
  {"localR", "trans", "input", "prev", "exiting", "given2D", "given3D", "body", "marked", "chat",
   "mapActive", "sceneActive", "painted"}

(* The office has the mouse only on a marked canvas, and its chat with its  *)
(* class of the body; only WebGL has a renderer on, and one at a time.      *)
OneOwner(s) ==
  /\ DOMAIN s = Fields
  /\ s.input => s.marked
  /\ s.body <=> s.chat
  /\ s.mapActive \/ s.sceneActive => mode = "webgl"
  /\ ~(s.mapActive /\ s.sceneActive)

ViewHolds(c) == Canvas(c)!TypeOK /\ OneOwner(screen)

(* What the first steps of a frame leave as it was.                         *)
Same(s, t) ==
  /\ DOMAIN s = Fields /\ DOMAIN t = Fields
  /\ t.marked = s.marked /\ t.body = s.body /\ t.chat = s.chat
  /\ t.mapActive = s.mapActive /\ t.sceneActive = s.sceneActive
  /\ t.painted = s.painted /\ t.given2D = s.given2D /\ t.given3D = s.given3D

LEMMA ViewStarts ==
  ASSUME NEW c, Canvas(c)!ViewAssumption, Canvas(c)!Init
  PROVE  ViewHolds(c)
<1>1. Canvas(c)!TypeOK
  BY DEF Canvas!ViewAssumption, Canvas!Init, Canvas!TypeOK, Canvas!Loaded
<1>2. OneOwner(screen)
  BY DEF Canvas!Init, Canvas!FirstScreen, OneOwner, Fields
<1> QED BY <1>1, <1>2 DEF ViewHolds

LEMMA FrameBegins ==
  ASSUME NEW c, NEW s, DOMAIN s = Fields
  PROVE  /\ Same(s, Canvas(c)!createLocalRenderer(s)) /\ Same(s, Canvas(c)!switchView(s))
         /\ viewMode # "local" => /\ Canvas(c)!createLocalRenderer(s).input = s.input
                                 /\ Canvas(c)!switchView(s).input = s.input
<1>1. Same(s, Canvas(c)!createLocalRenderer(s))
      /\ (viewMode # "local" => Canvas(c)!createLocalRenderer(s).input = s.input)
  BY DEF Canvas!createLocalRenderer, Same, Fields
<1>2. Same(s, Canvas(c)!switchView(s)) /\ (viewMode # "local" => Canvas(c)!switchView(s).input = s.input)
  BY DEF Canvas!switchView, Same, Fields
<1> QED BY <1>1, <1>2

LEMMA TransitionEnds ==
  ASSUME NEW c, NEW s, DOMAIN s = Fields, NEW due
  PROVE  Same(s, Canvas(c)!renderLocal(s, due)) /\ Canvas(c)!renderLocal(s, due).input = s.input
BY DEF Canvas!renderLocal, Same, Fields

(* A frame of the flat office, of the office in 3D, and of the map.         *)
LEMMA FlatFrame ==
  ASSUME NEW c, NEW s, DOMAIN s = Fields, s.body <=> s.chat, NEW due
  PROVE  LET t == Canvas(c)!drawLocal2D(s, due) IN
         /\ DOMAIN t = Fields /\ t.marked /\ t.body /\ t.chat /\ ~t.sceneActive
         /\ t.mapActive = s.mapActive
         /\ t.painted \in {"waiting", "local2D"}
         /\ t.painted = "local2D" /\ world # Canvas(c)!None => t.given2D.repo = world.repo
<1> DEFINE on == [s EXCEPT !.sceneActive = FALSE, !.input = s.localR, !.body = TRUE,
                           !.chat = IF s.body THEN @ ELSE TRUE, !.marked = TRUE]
           w == IF world # Canvas(c)!None /\ world.repo # on.given2D.repo THEN world ELSE on.given2D
           drawn2D == [on EXCEPT !.given2D = w, !.painted = "local2D"]
<1>1. /\ DOMAIN on = Fields /\ on.marked /\ on.body /\ on.chat /\ ~on.sceneActive
      /\ on.mapActive = s.mapActive
  BY DEF Fields
<1>2. /\ DOMAIN drawn2D = Fields /\ drawn2D.marked /\ drawn2D.body /\ drawn2D.chat /\ ~drawn2D.sceneActive
      /\ drawn2D.mapActive = s.mapActive /\ drawn2D.painted = "local2D"
      /\ drawn2D.given2D = w
  <2> HIDE DEF on, w
  <2> QED BY <1>1 DEF Fields
<1>3. world # Canvas(c)!None => w.repo = world.repo
  OBVIOUS
<1>4. CASE ~s.localR
  <2>1. Canvas(c)!drawLocal2D(s, due) = [on EXCEPT !.painted = "waiting"]
    BY <1>4 DEF Canvas!drawLocal2D
  <2> HIDE DEF on
  <2> QED BY <1>1, <2>1 DEF Fields
<1>5. CASE s.localR
  <2>1. Canvas(c)!drawLocal2D(s, due) = Canvas(c)!renderLocal(drawn2D, due)
    BY <1>5 DEF Canvas!drawLocal2D
  <2> HIDE DEF on, w, drawn2D
  <2>2. Same(drawn2D, Canvas(c)!renderLocal(drawn2D, due))
    BY <1>2, TransitionEnds
  <2> QED BY <1>2, <1>3, <2>1, <2>2 DEF Same
<1> QED BY <1>4, <1>5

LEMMA DeepFrame ==
  ASSUME NEW c, NEW s, DOMAIN s = Fields
  PROVE  LET t == Canvas(c)!drawLocal3D(s) IN
         /\ DOMAIN t = Fields /\ ~t.input /\ t.body = s.body /\ t.chat = s.chat /\ t.sceneActive
         /\ t.mapActive = s.mapActive /\ t.painted = "local3D" /\ t.given3D.repo = world.repo
<1>1. Canvas(c)!drawLocal3D(s).given3D = IF world.repo # s.given3D.repo THEN world ELSE s.given3D
  BY DEF Canvas!drawLocal3D, Fields
<1> QED BY <1>1 DEF Canvas!drawLocal3D, Fields

LEMMA MapFrame ==
  ASSUME NEW c, NEW s, DOMAIN s = Fields, s.body <=> s.chat
  PROVE  LET t == Canvas(c)!drawMacro(s) IN
         /\ DOMAIN t = Fields /\ ~t.input /\ ~t.body /\ ~t.chat /\ ~t.sceneActive
         /\ t.mapActive => s.mapActive \/ mode = "webgl"
         /\ t.painted = "macro"
BY DEF Canvas!drawMacro, Fields

(* What a frame shows, and that it leaves one owner.                        *)
LEMMA FrameShows ==
  ASSUME NEW c, ViewHolds(c), NEW due, Canvas(c)!render(due)
  PROVE  /\ DOMAIN screen' = Fields
         /\ screen'.input => screen'.marked
         /\ screen'.body <=> screen'.chat
         /\ screen'.mapActive \/ screen'.sceneActive => mode = "webgl"
         /\ ~(screen'.mapActive /\ screen'.sceneActive)
         /\ screen'.mapActive => viewMode = "macro"
         /\ screen'.sceneActive => viewMode = "local" \/ screen'.painted = "leaving"
         /\ world # Canvas(c)!None =>
              /\ screen'.painted = "local2D" => screen'.given2D.repo = world.repo
              /\ screen'.painted = "local3D" => screen'.given3D.repo = world.repo
         /\ viewMode = "local" /\ ~c.local3D => screen'.chat
         /\ screen'.painted = "macro" => ~screen'.chat
<1> DEFINE r == Canvas(c)!createLocalRenderer(screen)
           s == Canvas(c)!switchView(r)
<1>1. Same(screen, r) /\ Same(r, s) /\ (viewMode # "local" => s.input = screen.input)
  BY FrameBegins DEF ViewHolds, OneOwner, Same
<1>2. DOMAIN s = Fields /\ (s.body <=> s.chat) /\ (s.mapActive \/ s.sceneActive => mode = "webgl")
      /\ ~(s.mapActive /\ s.sceneActive) /\ (viewMode # "local" /\ s.input => s.marked)
  <2> HIDE DEF r, s
  <2> QED BY <1>1 DEF Same, ViewHolds, OneOwner
<1>3. screen' = IF viewMode = "local" THEN Canvas(c)!drawLocal(s, due)
                ELSE IF s.exiting /\ s.localR /\ Canvas(c)!fading(s)
                  THEN Canvas(c)!renderLocal([s EXCEPT !.painted = "leaving"], due)
                  ELSE Canvas(c)!drawMacro(s)
  BY DEF Canvas!render
<1> HIDE DEF s
<1>4. viewMode \in {"macro", "local"}
  BY DEF ViewHolds, Canvas!TypeOK
<1>5. CASE viewMode = "local"
  <2> DEFINE off == [s EXCEPT !.mapActive = FALSE]
  <2>1. DOMAIN off = Fields /\ ~off.mapActive /\ (off.body <=> off.chat)
    BY <1>2 DEF Fields
  <2>2. Canvas(c)!drawLocal(s, due) =
          IF Canvas(c)!wants3D /\ scene = "ready" /\ world # Canvas(c)!None
          THEN IF off.localR THEN Canvas(c)!renderLocal(Canvas(c)!drawLocal3D(off), due) ELSE Canvas(c)!drawLocal3D(off)
          ELSE Canvas(c)!drawLocal2D(off, due)
    <3>1. off.localR = s.localR
      BY <1>2 DEF Fields
    <3> QED BY <3>1 DEF Canvas!drawLocal
  <2> HIDE DEF off
  <2>3. CASE Canvas(c)!wants3D /\ scene = "ready" /\ world # Canvas(c)!None
    <3>1. mode = "webgl" /\ c.local3D
      BY <2>3 DEF Canvas!wants3D
    <3>2. /\ DOMAIN screen' = Fields /\ ~screen'.input /\ screen'.body = off.body /\ screen'.chat = off.chat
          /\ screen'.sceneActive /\ screen'.mapActive = off.mapActive
          /\ screen'.painted = "local3D" /\ screen'.given3D.repo = world.repo
      BY <1>3, <1>5, <2>1, <2>2, <2>3, DeepFrame, TransitionEnds DEF Same
    <3> QED BY <1>5, <2>1, <3>1, <3>2
  <2>4. CASE ~(Canvas(c)!wants3D /\ scene = "ready" /\ world # Canvas(c)!None)
    <3>1. screen' = Canvas(c)!drawLocal2D(off, due)
      BY <1>3, <1>5, <2>2, <2>4
    <3> QED BY <1>5, <2>1, <3>1, FlatFrame
  <2> QED BY <2>3, <2>4
<1>6. CASE viewMode = "macro" /\ s.exiting /\ s.localR /\ Canvas(c)!fading(s)
  <2> DEFINE left == [s EXCEPT !.painted = "leaving"]
  <2>1. Same(left, screen') /\ screen'.input = left.input
    BY <1>2, <1>3, <1>6, TransitionEnds DEF Fields
  <2>2. /\ left.marked = s.marked /\ left.body = s.body /\ left.chat = s.chat /\ left.input = s.input
        /\ left.mapActive = s.mapActive /\ left.sceneActive = s.sceneActive /\ left.painted = "leaving"
    BY <1>2 DEF Fields
  <2> HIDE DEF left
  <2> QED BY <1>2, <1>6, <2>1, <2>2 DEF Same
<1>7. CASE viewMode = "macro" /\ ~(s.exiting /\ s.localR /\ Canvas(c)!fading(s))
  BY <1>2, <1>3, <1>7, MapFrame
<1> QED BY <1>4, <1>5, <1>6, <1>7

LEMMA FrameHolds ==
  ASSUME NEW c, ViewHolds(c), NEW due, Canvas(c)!render(due)
  PROVE  ViewHolds(c)'
<1>1. OneOwner(screen)'
  BY FrameShows DEF OneOwner, Canvas!render
<1>2. Canvas(c)!TypeOK'
  BY DEF Canvas!render, Canvas!TypeOK, Canvas!Loaded, ViewHolds
<1> QED BY <1>1, <1>2 DEF ViewHolds

(* What loads, what is fetched and what the user asks for.                  *)
LEMMA ToggleHolds ==
  ASSUME NEW c, ViewHolds(c),
         Canvas(c)!toggleWorldRenderMode \/ \E ok \in BOOLEAN : Canvas(c)!ensureThreeMap(ok)
  PROVE  ViewHolds(c)'
<1>1. UNCHANGED <<viewMode, scene, fetched>>
  BY DEF Canvas!toggleWorldRenderMode, Canvas!ensureThreeMap
<1>2. \/ mode' = "flat" /\ screen' = Canvas(c)!flatten(screen)
      \/ mode' = "webgl" /\ mode = "flat" /\ screen' = [screen EXCEPT !.mapActive = TRUE]
      \/ UNCHANGED <<mode, screen>>
  BY DEF Canvas!toggleWorldRenderMode, Canvas!ensureThreeMap, ViewHolds, Canvas!TypeOK
<1>3. OneOwner(screen)'
  BY <1>2 DEF OneOwner, Fields, Canvas!flatten, ViewHolds
<1>4. threeMap' \in {"none", "loading", "ready"} /\ mode' \in {"flat", "webgl"} /\ (mode' = "webgl" => threeMap' = "ready")
  BY DEF Canvas!toggleWorldRenderMode, Canvas!ensureThreeMap, ViewHolds, Canvas!TypeOK, Canvas!Loaded
<1> QED BY <1>1, <1>3, <1>4 DEF ViewHolds, Canvas!TypeOK, Canvas!Loaded

LEMMA LoadsHold ==
  ASSUME NEW c, Canvas(c)!ViewAssumption, ViewHolds(c),
         \/ \E repo \in c.repos : Canvas(c)!enterLocalView(repo)
         \/ \E l \in loads : Canvas(c)!Fetched(l)
         \/ Canvas(c)!enterMacroView \/ Canvas(c)!preloadLocalRenderer
         \/ \E ok \in BOOLEAN : Canvas(c)!ensureLocalScene3D(ok)
  PROVE  ViewHolds(c)'
<1>1. UNCHANGED <<mode, threeMap, screen>>
  BY DEF Canvas!enterLocalView, Canvas!Fetched, Canvas!enterMacroView, Canvas!preloadLocalRenderer, Canvas!ensureLocalScene3D
<1>2. viewMode' \in {"macro", "local"} /\ scene' \in {"none", "loading", "ready"}
  BY DEF Canvas!enterLocalView, Canvas!Fetched, Canvas!enterMacroView, Canvas!preloadLocalRenderer,
     Canvas!ensureLocalScene3D, ViewHolds, Canvas!TypeOK, Canvas!Loaded
<1>3. fetched' \in 0 .. c.loads
  BY DEF Canvas!enterLocalView, Canvas!Fetched, Canvas!enterMacroView, Canvas!preloadLocalRenderer,
     Canvas!ensureLocalScene3D, ViewHolds, Canvas!TypeOK, Canvas!ViewAssumption
<1> QED BY <1>1, <1>2, <1>3 DEF ViewHolds, OneOwner, Canvas!TypeOK, Canvas!Loaded

LEMMA ViewStep ==
  ASSUME NEW c, Canvas(c)!ViewAssumption, ViewHolds(c), Canvas(c)!Next
  PROVE  ViewHolds(c)'
BY FrameHolds, ToggleHolds, LoadsHold DEF Canvas!Next

LEMMA ViewRests ==
  ASSUME NEW c, ViewHolds(c), UNCHANGED viewVars
  PROVE  ViewHolds(c)'
BY DEF viewVars, ViewHolds, OneOwner, Canvas!TypeOK

LEMMA FramesShow ==
  ASSUME NEW c, ViewHolds(c)
  PROVE  /\ Canvas(c)!OneSceneOn /\ Canvas(c)!DrawsTheRepo
         /\ ~c.local3D => Canvas(c)!ChatInTheOffice
         /\ Canvas(c)!InputToOneView
<1>1. Canvas(c)!InputToOneView
  BY DEF ViewHolds, OneOwner, Canvas!InputToOneView, Canvas!bailIfLocal
<1>2. CASE Canvas(c)!Frame
  BY <1>1, <1>2, FrameShows DEF Canvas!Frame, Canvas!OneSceneOn, Canvas!DrawsTheRepo, Canvas!ChatInTheOffice
<1>3. CASE ~Canvas(c)!Frame
  BY <1>1, <1>3 DEF Canvas!OneSceneOn, Canvas!DrawsTheRepo, Canvas!ChatInTheOffice
<1> QED BY <1>2, <1>3

---------------------------------------------------------------------------
(* The pointer in the office.                                               *)

(* The rectangle of a zone goes from the press to the pointer, and is open  *)
(* only while the office listens.                                           *)
ZoneOfPress(c) ==
  /\ zoneStart \in c.tiles \cup {none}
  /\ zoneStart # none => inputActive
  /\ zoneStart # none /\ floorHeld =>
       press.at = zoneStart /\ press.zone = zonePaintMode /\ zoneCurrent = pointer

FloorHolds(c) ==
  /\ Floor(c)!TypeOK /\ DOMAIN press = {"at", "unit", "zone", "live"}
  /\ ZoneOfPress(c)

(* An agent is in hand, or the camera panned, only during the press that    *)
(* began it, if a press ends in the view it began in.                       *)
OnePress(c) ==
  /\ dragAssignUnit # none => floorHeld /\ inputActive /\ press.unit = dragAssignUnit
  /\ isDragging => floorHeld /\ inputActive /\ dragAssignUnit = none

(* And no press goes without what it began, if no key is hit meanwhile.     *)
Begun ==
  floorHeld /\ inputActive =>
    \/ isDragging /\ dragStart = press.at
    \/ dragAssignUnit # none
    \/ zonePaintMode # none /\ zoneStart # none

Presses(c) ==
  /\ FloorHolds(c)
  /\ ~c.across => OnePress(c)
  /\ ~c.across /\ ~c.keysInPress => Begun

LEMMA FloorStarts ==
  ASSUME NEW c, Floor(c)!Init
  PROVE  Presses(c)
BY DEF Floor!Init, Floor!NoPress, Floor!TypeOK, Presses, FloorHolds, ZoneOfPress, OnePress, Begun

LEMMA UnitOrNone ==
  ASSUME NEW c, NEW p
  PROVE  Floor(c)!getUnitAt(p) \in {none, "agent"}
BY DEF Floor!getUnitAt, Floor!Agent

LEMMA PressBegins ==
  ASSUME NEW c, Floor(c)!PointerAssumption, ~c.outside, Presses(c), Floor(c)!MouseDown
  PROVE  Presses(c)'
<1>1. /\ ~floorHeld /\ floorHeld' = TRUE /\ pointer \in c.tiles /\ pointer # none
      /\ UNCHANGED <<pointer, floorMode, floorView, inputActive, hoveredUnit, tooltip>>
      /\ DOMAIN press' = {"at", "unit", "zone", "live"} /\ press'.at = pointer /\ press'.zone = zonePaintMode
  BY DEF Floor!MouseDown, Floor!PointerAssumption, Floor!hover, Presses, FloorHolds, Floor!TypeOK
<1>2. CASE inputActive
  <2>1. press'.unit = IF ~despawning THEN Floor(c)!getUnitAt(pointer) ELSE none
    BY <1>1, <1>2 DEF Floor!MouseDown, Floor!PointerAssumption
  <2>2. Floor(c)!pressZone(pointer) \/ Floor(c)!pressUnit(pointer) \/ Floor(c)!pressFloor(pointer)
    BY <1>1, <1>2 DEF Floor!MouseDown, Floor!PointerAssumption
  <2>3. CASE Floor(c)!pressZone(pointer)
    BY <1>1, <1>2, <2>3 DEF Floor!pressZone, Floor!drag, Presses, FloorHolds, Floor!TypeOK, ZoneOfPress, OnePress, Begun
  <2>4. CASE Floor(c)!pressUnit(pointer)
    <3>1. /\ dragAssignUnit' = press'.unit /\ dragAssignUnit' # none /\ dragAssignUnit' \in {none, "agent"}
          /\ zonePaintMode = none
          /\ UNCHANGED <<isDragging, dragStart, zonePaintMode, zoneStart, zoneCurrent>>
      BY <2>1, <2>4, UnitOrNone DEF Floor!pressUnit, Floor!drag, Floor!zone
    <3> QED BY <1>1, <1>2, <3>1 DEF Presses, FloorHolds, Floor!TypeOK, Floor!Agent, ZoneOfPress, OnePress, Begun
  <2>5. CASE Floor(c)!pressFloor(pointer)
    BY <1>1, <1>2, <2>5
       DEF Floor!pressFloor, Floor!zone, Presses, FloorHolds, Floor!TypeOK, ZoneOfPress, OnePress, Begun
  <2> QED BY <2>2, <2>3, <2>4, <2>5
<1>3. CASE ~inputActive
  <2>1. UNCHANGED <<isDragging, dragStart, zonePaintMode, zoneStart, zoneCurrent, dragAssignUnit>>
    BY <1>3 DEF Floor!MouseDown, Floor!drag, Floor!zone
  <2> QED BY <1>1, <1>3, <2>1 DEF Presses, FloorHolds, Floor!TypeOK, ZoneOfPress, OnePress, Begun
<1> QED BY <1>2, <1>3

LEMMA PointerMoves ==
  ASSUME NEW c, Floor(c)!PointerAssumption, ~c.outside, Presses(c), NEW p \in c.tiles \cup {0}, Floor(c)!MouseMove(p)
  PROVE  Presses(c)'
<1>1. /\ pointer' = p /\ (floorHeld => p # 0) /\ p # none
      /\ UNCHANGED <<floorHeld, floorMode, floorView, inputActive, isDragging, dragStart, dragAssignUnit, press,
                     zonePaintMode, zoneStart>>
  BY DEF Floor!MouseMove, Floor!PointerAssumption, Floor!zone, Floor!drag
<1>2. CASE p = 0 \/ ~inputActive
  <2>1. UNCHANGED <<hoveredUnit, tooltip, zoneCurrent>>
    BY <1>2 DEF Floor!MouseMove, Floor!hover, Floor!zone
  <2> QED BY <1>1, <1>2, <2>1 DEF Presses, FloorHolds, Floor!TypeOK, ZoneOfPress, OnePress, Begun
<1>3. CASE ~(p = 0 \/ ~inputActive)
  <2>1. /\ zoneCurrent' = (IF zoneStart # none /\ zonePaintMode # none THEN p ELSE zoneCurrent)
        /\ hoveredUnit' \in {none, "agent"} /\ tooltip' \in {hoveredUnit', tooltip}
    BY <1>3, UnitOrNone DEF Floor!MouseMove
  <2> QED BY <1>1, <1>3, <2>1 DEF Presses, FloorHolds, Floor!TypeOK, Floor!Agent, ZoneOfPress, OnePress, Begun
<1> QED BY <1>2, <1>3

LEMMA PressEnds ==
  ASSUME NEW c, Floor(c)!PointerAssumption, ~c.outside, Presses(c), Floor(c)!MouseUp
  PROVE  Presses(c)'
<1>1. /\ floorHeld' = FALSE /\ pointer # 0
      /\ UNCHANGED <<pointer, floorMode, floorView, inputActive, hoveredUnit, press>>
  BY DEF Floor!MouseUp
<1>2. CASE inputActive
  <2>1. Floor(c)!releaseUnit(pointer) \/ Floor(c)!releaseZone(pointer) \/ Floor(c)!releaseClick(pointer)
    BY <1>1, <1>2 DEF Floor!MouseUp
  <2>2. CASE Floor(c)!releaseUnit(pointer)
    BY <1>1, <1>2, <2>2 DEF Floor!releaseUnit, Floor!drag, Floor!zone,
       Presses, FloorHolds, Floor!TypeOK, ZoneOfPress, OnePress, Begun
  <2>3. CASE Floor(c)!releaseZone(pointer)
    BY <1>1, <1>2, <2>3 DEF Floor!releaseZone,
       Presses, FloorHolds, Floor!TypeOK, ZoneOfPress, OnePress, Begun
  <2>4. CASE Floor(c)!releaseClick(pointer)
    <3>1. /\ isDragging' = FALSE /\ dragAssignUnit = none /\ tooltip' \in {tooltip, Floor(c)!getUnitAt(pointer)}
          /\ UNCHANGED <<zonePaintMode, zoneStart, zoneCurrent, dragAssignUnit>>
      BY <2>4 DEF Floor!releaseClick, Floor!zone
    <3>2. tooltip' \in {none, "agent"}
      BY <3>1, UnitOrNone DEF Presses, FloorHolds, Floor!TypeOK, Floor!Agent
    <3> QED BY <1>1, <3>1, <3>2 DEF Presses, FloorHolds, Floor!TypeOK, Floor!Agent, ZoneOfPress, OnePress, Begun
  <2> QED BY <2>1, <2>2, <2>3, <2>4
<1>3. CASE ~inputActive
  <2>1. UNCHANGED <<isDragging, dragStart, zonePaintMode, zoneStart, zoneCurrent, dragAssignUnit, tooltip>>
    BY <1>3 DEF Floor!MouseUp, Floor!drag, Floor!zone
  <2> QED BY <1>1, <1>3, <2>1 DEF Presses, FloorHolds, Floor!TypeOK, ZoneOfPress, OnePress, Begun
<1> QED BY <1>2, <1>3

LEMMA FloorKeys ==
  ASSUME NEW c, Floor(c)!PointerAssumption, Presses(c),
         (\E z \in c.zoneTypes : Floor(c)!ZoneShortcut(z)) \/ Floor(c)!Escape
  PROVE  Presses(c)'
<1>1. ASSUME NEW z \in c.zoneTypes, Floor(c)!ZoneShortcut(z)
      PROVE  Presses(c)'
  <2>1. /\ zonePaintMode' \in c.zoneTypes \cup {none} /\ zoneStart' = none /\ zoneCurrent' = none
        /\ floorHeld => c.keysInPress
        /\ UNCHANGED <<pointer, floorHeld, floorMode, floorView, inputActive, isDragging, dragStart, dragAssignUnit,
                       hoveredUnit, tooltip, press>>
    BY <1>1 DEF Floor!ZoneShortcut, Floor!setZonePaintMode, Floor!drag, Floor!hover
  <2> QED BY <2>1 DEF Presses, FloorHolds, Floor!TypeOK, ZoneOfPress, OnePress, Begun
<1>2. CASE Floor(c)!Escape
  <2>1. /\ floorHeld => c.keysInPress
        /\ floorMode' = "macro" /\ dragAssignUnit' \in {dragAssignUnit, none}
        /\ \/ UNCHANGED <<zonePaintMode, zoneStart, zoneCurrent>>
           \/ zonePaintMode' = none /\ zoneStart' = none /\ zoneCurrent' = none
        /\ UNCHANGED <<pointer, floorHeld, floorView, inputActive, isDragging, dragStart, hoveredUnit, tooltip>>
    BY <1>2 DEF Floor!Escape, Floor!setZonePaintMode, Floor!drag, Floor!hover, Floor!zone
  <2>2. DOMAIN press' = DOMAIN press /\ press'.at = press.at /\ press'.unit = press.unit /\ press'.zone = press.zone
    BY <1>2 DEF Floor!Escape, Presses, FloorHolds
  <2> QED BY <2>1, <2>2 DEF Presses, FloorHolds, Floor!TypeOK, ZoneOfPress, OnePress, Begun
<1> QED BY <1>1, <1>2

LEMMA ViewsFade ==
  ASSUME NEW c, Floor(c)!PointerAssumption, Presses(c),
         Floor(c)!startEnterTransition \/ Floor(c)!startExitTransition \/ Floor(c)!drawMacro
  PROVE  Presses(c)'
<1>1. CASE Floor(c)!startEnterTransition
  BY <1>1 DEF Floor!startEnterTransition, Floor!drag, Floor!zone, Floor!hover,
     Presses, FloorHolds, Floor!TypeOK, ZoneOfPress, OnePress, Begun
<1>2. CASE Floor(c)!startExitTransition
  BY <1>2 DEF Floor!startExitTransition, Floor!hover,
     Presses, FloorHolds, Floor!TypeOK, ZoneOfPress, OnePress, Begun
<1>3. CASE Floor(c)!drawMacro
  BY <1>3 DEF Floor!drawMacro, Floor!setInputInactive,
     Presses, FloorHolds, Floor!TypeOK, ZoneOfPress, OnePress, Begun
<1> QED BY <1>1, <1>2, <1>3

LEMMA OthersMove ==
  ASSUME NEW c, Presses(c),
         Floor(c)!enterMacroView \/ Floor(c)!enterLocalView \/ Floor(c)!Despawns
         \/ \E t \in c.tiles : Floor(c)!UnitMoves(t)
  PROVE  Presses(c)'
<1>1. /\ floorMode' \in {"local", "macro"}
      /\ UNCHANGED <<pointer, floorHeld, floorView, inputActive, isDragging, dragStart, zonePaintMode, zoneStart,
                     zoneCurrent, dragAssignUnit, hoveredUnit, tooltip, press>>
  BY DEF Floor!enterMacroView, Floor!enterLocalView, Floor!Despawns, Floor!UnitMoves, Floor!drag, Floor!zone,
     Floor!hover, Presses, FloorHolds, Floor!TypeOK
<1> QED BY <1>1 DEF Presses, FloorHolds, Floor!TypeOK, ZoneOfPress, OnePress, Begun

LEMMA FloorStep ==
  ASSUME NEW c, Floor(c)!PointerAssumption, ~c.outside, Presses(c), Floor(c)!Next
  PROVE  Presses(c)'
BY PressBegins, PointerMoves, PressEnds, FloorKeys, ViewsFade, OthersMove DEF Floor!Next

LEMMA FloorRests ==
  ASSUME NEW c, Presses(c), UNCHANGED floorVars
  PROVE  Presses(c)'
BY DEF floorVars, Presses, FloorHolds, Floor!TypeOK, ZoneOfPress, OnePress, Begun

(* What a release does is of the press it ends.                             *)
LEMMA ReleaseActs ==
  ASSUME NEW c, Floor(c)!PointerAssumption, ~c.outside, Presses(c), Floor(c)!Next
  PROVE  /\ Floor(c)!PaintsTheDrag
         /\ ~c.across => Floor(c)!AssignsWhatIsHeld /\ Floor(c)!PansWhileHeld
         /\ ~c.across /\ ~c.keysInPress => Floor(c)!ClicksWhereItPressed
<1> DEFINE Goal == /\ Floor(c)!PaintsTheDrag
                   /\ ~c.across => Floor(c)!AssignsWhatIsHeld /\ Floor(c)!PansWhileHeld
                   /\ ~c.across /\ ~c.keysInPress => Floor(c)!ClicksWhereItPressed
<1>1. ASSUME floorDid'.kind = "nothing" PROVE Goal
  BY <1>1 DEF Floor!PaintsTheDrag, Floor!AssignsWhatIsHeld, Floor!PansWhileHeld, Floor!ClicksWhereItPressed
<1>0. \A k : [Floor(c)!nothing EXCEPT !.kind = k].kind = k /\ Floor(c)!nothing.kind = "nothing"
  BY DEF Floor!nothing
<1>2. ASSUME NEW p \in c.tiles \cup {0}, Floor(c)!MouseMove(p) PROVE Goal
  <2>1. floorDid'.kind = "nothing" \/ (floorDid'.kind = "pan" /\ isDragging)
    BY <1>0, <1>2 DEF Floor!MouseMove
  <2> QED BY <1>1, <2>1 DEF Presses, OnePress,
          Floor!PaintsTheDrag, Floor!AssignsWhatIsHeld, Floor!PansWhileHeld, Floor!ClicksWhereItPressed
<1>3. CASE Floor(c)!MouseUp
  <2>1. floorHeld /\ pointer # 0
    BY <1>3 DEF Floor!MouseUp
  <2>2. CASE ~inputActive
    BY <1>1, <1>3, <2>2 DEF Floor!MouseUp, Floor!nothing
  <2>3. CASE inputActive /\ Floor(c)!releaseUnit(pointer)
    <3>1. floorDid'.kind = "nothing" \/ (floorDid'.kind = "assign" /\ floorDid'.who = dragAssignUnit /\ dragAssignUnit # none)
      BY <1>0, <2>3 DEF Floor!releaseUnit
    <3> QED BY <1>1, <3>1 DEF Presses, OnePress,
            Floor!PaintsTheDrag, Floor!AssignsWhatIsHeld, Floor!PansWhileHeld, Floor!ClicksWhereItPressed
  <2>4. CASE inputActive /\ Floor(c)!releaseZone(pointer)
    <3>1. /\ floorDid'.kind = "zone" /\ floorDid'.who = zonePaintMode /\ zoneStart # none
          /\ floorDid'.tiles = Floor(c)!between(zoneStart, zoneCurrent)
      BY <2>4 DEF Floor!releaseZone
    <3>2. press.at = zoneStart /\ press.zone = zonePaintMode /\ zoneCurrent = pointer /\ zoneStart \in c.tiles
      BY <2>1, <3>1 DEF Presses, FloorHolds, ZoneOfPress
    <3> QED BY <3>1, <3>2 DEF Floor!PointerAssumption,
            Floor!PaintsTheDrag, Floor!AssignsWhatIsHeld, Floor!PansWhileHeld, Floor!ClicksWhereItPressed
  <2>5. CASE inputActive /\ Floor(c)!releaseClick(pointer)
    <3>1. \/ floorDid'.kind = "nothing"
          \/ /\ floorDid'.kind \in {"unit", "menu", "rest"} /\ floorDid'.to = pointer /\ pointer = dragStart
             /\ dragAssignUnit = none /\ ~(zonePaintMode # none /\ zoneStart # none)
      <4>1. [Floor(c)!nothing EXCEPT !.kind = "unit", !.to = pointer].kind = "unit"
            /\ [Floor(c)!nothing EXCEPT !.kind = "unit", !.to = pointer].to = pointer
        BY DEF Floor!nothing
      <4>2. [Floor(c)!nothing EXCEPT !.kind = "menu", !.to = pointer].kind = "menu"
            /\ [Floor(c)!nothing EXCEPT !.kind = "menu", !.to = pointer].to = pointer
        BY DEF Floor!nothing
      <4>3. [Floor(c)!nothing EXCEPT !.kind = "rest", !.to = pointer].kind = "rest"
            /\ [Floor(c)!nothing EXCEPT !.kind = "rest", !.to = pointer].to = pointer
        BY DEF Floor!nothing
      <4>4. \/ floorDid' = Floor(c)!nothing
            \/ /\ floorDid' \in {[Floor(c)!nothing EXCEPT !.kind = "unit", !.to = pointer],
                              [Floor(c)!nothing EXCEPT !.kind = "menu", !.to = pointer],
                              [Floor(c)!nothing EXCEPT !.kind = "rest", !.to = pointer]}
               /\ pointer = dragStart
        BY <2>5, Zenon DEF Floor!releaseClick, Floor!wasDrag
      <4>5. dragAssignUnit = none /\ ~(zonePaintMode # none /\ zoneStart # none)
        BY <2>5 DEF Floor!releaseClick
      <4> QED BY <1>0, <4>1, <4>2, <4>3, <4>4, <4>5
    <3> QED BY <1>1, <2>1, <2>5, <3>1 DEF Presses, Begun,
            Floor!PaintsTheDrag, Floor!AssignsWhatIsHeld, Floor!PansWhileHeld, Floor!ClicksWhereItPressed
  <2> QED BY <1>3, <2>1, <2>2, <2>3, <2>4, <2>5 DEF Floor!MouseUp
<1>4. CASE \/ Floor(c)!MouseDown \/ Floor(c)!Escape \/ Floor(c)!enterMacroView \/ Floor(c)!enterLocalView
           \/ Floor(c)!startEnterTransition \/ Floor(c)!startExitTransition \/ Floor(c)!drawMacro
           \/ Floor(c)!Despawns
           \/ (\E z \in c.zoneTypes : Floor(c)!ZoneShortcut(z)) \/ (\E t \in c.tiles : Floor(c)!UnitMoves(t))
  <2>1. floorDid' = Floor(c)!nothing
    BY <1>4 DEF Floor!MouseDown, Floor!Escape, Floor!enterMacroView, Floor!enterLocalView, Floor!startEnterTransition,
       Floor!startExitTransition, Floor!drawMacro, Floor!Despawns, Floor!ZoneShortcut, Floor!UnitMoves
  <2> QED BY <1>1, <2>1 DEF Floor!nothing
<1> QED BY <1>2, <1>3, <1>4 DEF Floor!Next

---------------------------------------------------------------------------
(* The panels over the office.                                              *)

PanelsHold(c) == Panels(c)!TypeOK /\ Panels(c)!Closes

(* The desk of a menu, and of a mission to confirm, is in its repository.   *)
Named == menu.desk[1] = menu.repo /\ preview.desk[1] = preview.repo

LEMMA PanelsStart ==
  ASSUME NEW c, Panels(c)!PanelAssumption, Panels(c)!Init
  PROVE  PanelsHold(c) /\ Named
<1>1. Named
  BY DEF Panels!Init, Panels!NoDesk, Named
<1>2. PanelsHold(c)
  BY DEF Panels!Init, PanelsHold, Panels!TypeOK, Panels!Closes, Panels!Shown, Panels!Closable, Panels!PanelAssumption
<1> QED BY <1>1, <1>2

(* Clicks on the canvas.                                                    *)
LEMMA CanvasHolds ==
  ASSUME NEW c, PanelsHold(c),
         \/ \E f \in c.files : Panels(c)!ClickDesk(f)
         \/ Panels(c)!showWhiteboardPanel \/ Panels(c)!ClickCanvas
  PROVE  PanelsHold(c)' /\ (~c.late /\ Named => Named')
<1>1. Panels(c)!Closes
  BY DEF PanelsHold
<1>2. ASSUME NEW f \in c.files, Panels(c)!ClickDesk(f)
      PROVE  PanelsHold(c)' /\ (~c.late /\ Named => Named')
  <2>1. /\ menu' = [desk |-> <<drawn, f>>, repo |-> office] /\ preview' = Panels(c)!NoDesk
        /\ arming' = arming \cup {"menu"} /\ (c.late \/ drawn = office) /\ drawn # none
        /\ UNCHANGED <<panelView, office, drawn, board, git, gitAsked, timers, armed>>
    BY <1>2 DEF Panels!ClickDesk, Panels!showLocalContextMenu, Panels!TheOffice
  <2>2. Panels(c)!Closes'
    BY <1>1, <2>1 DEF Panels!Closes, Panels!Closable, Panels!Shown
  <2>3. menu'.desk \in Panels(c)!Desks
    BY <2>1 DEF Panels!Desks, PanelsHold, Panels!TypeOK
  <2>4. Panels(c)!TypeOK'
    BY <2>1, <2>3 DEF PanelsHold, Panels!TypeOK, Panels!Closable
  <2>5. ~c.late => Named'
    BY <2>1 DEF Named, Panels!NoDesk
  <2> QED BY <2>2, <2>4, <2>5 DEF PanelsHold
<1>3. CASE Panels(c)!showWhiteboardPanel \/ Panels(c)!ClickCanvas
  <2>1. /\ \/ board' = office /\ arming' = arming \cup {"board"}
           \/ board' = board /\ arming' = arming
        /\ UNCHANGED <<panelView, office, drawn, menu, preview, git, gitAsked, timers, armed>>
    BY <1>3 DEF Panels!showWhiteboardPanel, Panels!ClickCanvas, Panels!panels
  <2>2. Panels(c)!Closes'
    BY <1>1, <2>1 DEF Panels!Closes, Panels!Closable, Panels!Shown
  <2>3. Panels(c)!TypeOK'
    BY <2>1 DEF PanelsHold, Panels!TypeOK, Panels!Closable
  <2> QED BY <2>1, <2>2, <2>3 DEF PanelsHold, Named
<1> QED BY <1>2, <1>3

(* Clicks on the page: a panel that listened and stays has its listener.    *)
LEMMA ClicksHold ==
  ASSUME NEW c, Panels(c)!PanelAssumption, PanelsHold(c),
         \/ Panels(c)!ClickPage \/ Panels(c)!MenuSend \/ Panels(c)!MenuInfo \/ Panels(c)!Confirm \/ Panels(c)!Cancel
         \/ Panels(c)!Navigate \/ Panels(c)!GripDown \/ \E p \in Panels(c)!Closable : Panels(c)!ClickInside(p)
  PROVE  PanelsHold(c)' /\ (Named => Named')
<1>1. PICK inside \in SUBSET Panels(c)!Closable :
           /\ armed' = armed \cap inside
           /\ board' = none \/ (board' = board /\ ("board" \in armed => "board" \in inside))
           /\ git' = none \/ (git' = git /\ ("git" \in armed => "git" \in inside))
           /\ menu' = Panels(c)!NoDesk \/ (menu' = menu /\ "menu" \notin armed)
  <2>1. ASSUME NEW p \in Panels(c)!Closable, Panels(c)!ClickInside(p)
        PROVE  /\ {p} \in SUBSET Panels(c)!Closable
               /\ armed' = armed \cap {p}
               /\ board' = none \/ (board' = board /\ ("board" \in armed => "board" \in {p}))
               /\ git' = none \/ (git' = git /\ ("git" \in armed => "git" \in {p}))
               /\ menu' = Panels(c)!NoDesk \/ (menu' = menu /\ "menu" \notin armed)
    BY <2>1 DEF Panels!ClickInside, Panels!close
  <2>2. ASSUME Panels(c)!Navigate
        PROVE  /\ {"board"} \in SUBSET Panels(c)!Closable
               /\ armed' = armed \cap {"board"} /\ board' = none
               /\ git' = none \/ (git' = git /\ ("git" \in armed => "git" \in {"board"}))
               /\ menu' = Panels(c)!NoDesk \/ (menu' = menu /\ "menu" \notin armed)
    BY <2>2 DEF Panels!Navigate, Panels!Closable
  <2>3. ASSUME Panels(c)!MenuSend \/ Panels(c)!MenuInfo
        PROVE  /\ {"menu"} \in SUBSET Panels(c)!Closable
               /\ armed' = armed \cap {"menu"} /\ menu' = Panels(c)!NoDesk
               /\ board' = none \/ (board' = board /\ ("board" \in armed => "board" \in {"menu"}))
               /\ git' = none \/ (git' = git /\ ("git" \in armed => "git" \in {"menu"}))
    BY <2>3 DEF Panels!MenuSend, Panels!MenuInfo, Panels!close, Panels!Closable
  <2>4. ASSUME Panels(c)!ClickPage \/ Panels(c)!Confirm \/ Panels(c)!Cancel \/ Panels(c)!GripDown
        PROVE  /\ armed' = armed \cap {}
               /\ board' = none \/ (board' = board /\ ("board" \in armed => "board" \in {}))
               /\ git' = none \/ (git' = git /\ ("git" \in armed => "git" \in {}))
               /\ menu' = Panels(c)!NoDesk \/ (menu' = menu /\ "menu" \notin armed)
    BY <2>4 DEF Panels!ClickPage, Panels!Confirm, Panels!Cancel, Panels!GripDown, Panels!close
  <2> QED BY <2>1, <2>2, <2>3, <2>4
<1>2. /\ UNCHANGED <<panelView, office, drawn, gitAsked, arming>>
      /\ \/ preview' \in {preview, Panels(c)!NoDesk}
         \/ preview' = menu /\ menu' = Panels(c)!NoDesk
      /\ timers' = timers \/ (timers < c.timers /\ timers' = timers + 1)
  BY DEF Panels!ClickPage, Panels!MenuSend, Panels!MenuInfo, Panels!Confirm, Panels!Cancel, Panels!Navigate,
     Panels!GripDown, Panels!ClickInside
<1>3. Panels(c)!Closes'
  BY <1>1, <1>2 DEF PanelsHold, Panels!Closes, Panels!Closable, Panels!Shown
<1>4. Panels(c)!TypeOK'
  <2>1. timers' \in 0 .. c.timers
    BY <1>2 DEF PanelsHold, Panels!TypeOK, Panels!PanelAssumption
  <2> QED BY <1>1, <1>2, <2>1 DEF PanelsHold, Panels!TypeOK
<1>5. Named => Named'
  BY <1>1, <1>2 DEF Named, Panels!NoDesk
<1> QED BY <1>3, <1>4, <1>5 DEF PanelsHold

LEMMA GitHolds ==
  ASSUME NEW c, PanelsHold(c), Panels(c)!showGitForFile
  PROVE  PanelsHold(c)' /\ (Named => Named')
<1>1. /\ menu' = Panels(c)!NoDesk /\ git' \in gitAsked' /\ armed' = armed \cap {"menu"}
      /\ board' = (IF "board" \in armed THEN none ELSE board)
      /\ UNCHANGED <<panelView, office, drawn, preview, timers, arming>>
  BY DEF Panels!showGitForFile
<1>2. Panels(c)!Closes'
  BY <1>1 DEF PanelsHold, Panels!Closes, Panels!Closable, Panels!Shown
<1>3. Panels(c)!TypeOK' /\ (Named => Named')
  BY <1>1 DEF PanelsHold, Panels!TypeOK, Named, Panels!NoDesk
<1> QED BY <1>2, <1>3 DEF PanelsHold

(* Answers, timers, frames and the grip.                                    *)
LEMMA LaterHolds ==
  ASSUME NEW c, Panels(c)!PanelAssumption, PanelsHold(c),
         \/ Panels(c)!InfoTimer \/ Panels(c)!Frame \/ Panels(c)!enterMacroView \/ Panels(c)!MouseMove
         \/ \E d \in Panels(c)!Desks : Panels(c)!GitAnswer(d)
         \/ \E p \in Panels(c)!Closable : Panels(c)!Arm(p)
         \/ \E r \in c.repos : Panels(c)!enterLocalView(r)
         \/ \E on \in BOOLEAN : Panels(c)!Release(on)
  PROVE  PanelsHold(c)' /\ (Named => Named')
<1>1. /\ UNCHANGED <<menu, preview, board, git>>
      /\ panelView' \in {"map", "local"} /\ office' \in c.repos \cup {none} /\ drawn' \in c.repos \cup {none}
  BY DEF Panels!InfoTimer, Panels!Frame, Panels!enterMacroView, Panels!MouseMove, Panels!GitAnswer, Panels!Arm,
     Panels!enterLocalView, Panels!Release, Panels!panels, PanelsHold, Panels!TypeOK
<1>2. /\ arming' \cup armed' \subseteq Panels(c)!Closable /\ arming \cup armed \subseteq arming' \cup armed'
      /\ git \in gitAsked => git \in gitAsked' \/ "git" \in arming'
  BY DEF Panels!InfoTimer, Panels!Frame, Panels!enterMacroView, Panels!MouseMove, Panels!GitAnswer, Panels!Arm,
     Panels!enterLocalView, Panels!Release, Panels!panels, Panels!Closable, PanelsHold, Panels!TypeOK
<1>3. timers' \in 0 .. c.timers
  BY DEF Panels!InfoTimer, Panels!Frame, Panels!enterMacroView, Panels!MouseMove, Panels!GitAnswer, Panels!Arm,
     Panels!enterLocalView, Panels!Release, Panels!panels, PanelsHold, Panels!TypeOK, Panels!PanelAssumption
<1>4. Panels(c)!Closes'
  BY <1>1, <1>2 DEF PanelsHold, Panels!Closes, Panels!Closable, Panels!Shown
<1>5. Panels(c)!TypeOK' /\ (Named => Named')
  BY <1>1, <1>2, <1>3 DEF PanelsHold, Panels!TypeOK, Named
<1> QED BY <1>4, <1>5 DEF PanelsHold

LEMMA PanelsStep ==
  ASSUME NEW c, Panels(c)!PanelAssumption, PanelsHold(c), Panels(c)!Next
  PROVE  PanelsHold(c)' /\ (~c.late /\ Named => Named')
BY CanvasHolds, ClicksHold, GitHolds, LaterHolds DEF Panels!Next

LEMMA PanelsRest ==
  ASSUME NEW c, UNCHANGED panelVars
  PROVE  (PanelsHold(c) => PanelsHold(c)') /\ (Named => Named')
BY DEF panelVars, PanelsHold, Named, Panels!TypeOK, Panels!Closes, Panels!Closable, Panels!Shown

(* Only a confirmation sends, and it sends what it showed.                  *)
LEMMA MissionsNamed ==
  ASSUME NEW c, Named, Panels(c)!Next
  PROVE  Panels(c)!MissionInItsRepo
<1>1. CASE Panels(c)!Confirm
  BY <1>1 DEF Panels!Confirm, Named, Panels!MissionInItsRepo
<1>2. CASE ~Panels(c)!Confirm
  <2>1. panelDid' \in {Panels(c)!nothing, [Panels(c)!nothing EXCEPT !.kind = "outside"],
                       [Panels(c)!nothing EXCEPT !.kind = "resize"]}
    BY <1>2 DEF Panels!Next, Panels!ClickDesk, Panels!showWhiteboardPanel, Panels!ClickCanvas, Panels!ClickPage,
       Panels!MenuSend, Panels!showGitForFile, Panels!MenuInfo, Panels!InfoTimer, Panels!Cancel, Panels!Navigate,
       Panels!GitAnswer, Panels!Arm, Panels!ClickInside, Panels!enterLocalView, Panels!Frame, Panels!enterMacroView,
       Panels!GripDown, Panels!MouseMove, Panels!Release
  <2>2. panelDid'.kind # "mission"
    BY <2>1 DEF Panels!nothing
  <2> QED BY <2>2 DEF Panels!MissionInItsRepo
<1> QED BY <1>1, <1>2

---------------------------------------------------------------------------
(* A step of MCViews is one of its parts, and the others rest.              *)

LEMMA StepOfPart ==
  ASSUME Next
  PROVE  /\ part' = part
         /\ part = "editor" => Map(Sketching)!Next
         /\ part = "orders" => Map(Ordering)!Next
         /\ part = "panning" => Map(Roaming)!Next
         /\ part = "flat" => Canvas(TwoD)!Next
         /\ part = "three" => Canvas(ThreeD)!Next
         /\ part = "hurried" => Floor(Hurry)!Next
         /\ part = "crossing" => Floor(Stray)!Next
         /\ part = "clicks" => Floor(Steady)!Next
         /\ part = "panels" => Panels(Furnished)!Next
         /\ part = "gripped" => Panels(Resized)!Next
BY DEF Next, Rest

LEMMA AllRest ==
  ASSUME UNCHANGED vars
  PROVE  part' = part /\ UNCHANGED mapVars /\ UNCHANGED viewVars /\ UNCHANGED floorVars /\ UNCHANGED panelVars
BY DEF vars

Owned ==
  /\ part = "editor" => MapHolds(Sketching) /\ Held(Sketching)
  /\ part = "orders" => MapHolds(Ordering) /\ Held(Ordering)
  /\ part = "panning" => MapHolds(Roaming) /\ Held(Roaming)
  /\ part = "flat" => ViewHolds(TwoD)
  /\ part = "three" => ViewHolds(ThreeD)
  /\ part = "panels" => PanelsHold(Furnished) /\ Named
  /\ part = "gripped" => PanelsHold(Resized)

Pressed ==
  /\ part = "hurried" => Presses(Hurry)
  /\ part = "crossing" => Presses(Stray)
  /\ part = "clicks" => Presses(Steady)

LEMMA OwnedStarts == Init => Owned
<1> SUFFICES ASSUME Init PROVE Owned
  OBVIOUS
<1>1. /\ part = "editor" => Map(Sketching)!Init
      /\ part = "orders" => Map(Ordering)!Init
      /\ part = "panning" => Map(Roaming)!Init
      /\ part = "flat" => Canvas(TwoD)!Init
      /\ part = "three" => Canvas(ThreeD)!Init
      /\ part = "panels" => Panels(Furnished)!Init
      /\ part = "gripped" => Panels(Resized)!Init
  BY DEF Init
<1> QED BY <1>1, Bounds, MapStarts, ViewStarts, PanelsStart DEF Owned

LEMMA PressedStarts == Init => Pressed
<1> SUFFICES ASSUME Init PROVE Pressed
  OBVIOUS
<1>1. /\ part = "hurried" => Floor(Hurry)!Init
      /\ part = "crossing" => Floor(Stray)!Init
      /\ part = "clicks" => Floor(Steady)!Init
  BY DEF Init
<1> QED BY <1>1, FloorStarts DEF Pressed

LEMMA OwnedStep == Owned /\ [Next]_vars => Owned'
<1> SUFFICES ASSUME Owned, [Next]_vars PROVE Owned'
  OBVIOUS
<1>1. CASE Next
  <2>1. CASE part = "editor"
    BY <1>1, <2>1, Bounds, StepOfPart, MapStep DEF Owned
  <2>2. CASE part = "orders"
    BY <1>1, <2>2, Bounds, StepOfPart, MapStep DEF Owned
  <2>6. CASE part = "panning"
    BY <1>1, <2>6, Bounds, StepOfPart, MapStep DEF Owned
  <2>3. CASE part \in {"flat", "three"}
    BY <1>1, <2>3, Bounds, StepOfPart, ViewStep DEF Owned
  <2>4. CASE part \in {"panels", "gripped"}
    BY <1>1, <2>4, Bounds, StepOfPart, PanelsStep DEF Owned
  <2>5. CASE part \notin {"editor", "orders", "panning", "flat", "three", "panels", "gripped"}
    BY <1>1, <2>5, StepOfPart DEF Owned
  <2> QED BY <2>1, <2>2, <2>3, <2>4, <2>5, <2>6
<1>2. CASE UNCHANGED vars
  BY <1>2, AllRest, MapRests, ViewRests, PanelsRest DEF Owned
<1> QED BY <1>1, <1>2

LEMMA PressedStep == Pressed /\ [Next]_vars => Pressed'
<1> SUFFICES ASSUME Pressed, [Next]_vars PROVE Pressed'
  OBVIOUS
<1>1. CASE Next
  <2>1. CASE part \in {"hurried", "crossing", "clicks"}
    BY <1>1, <2>1, Bounds, StepOfPart, FloorStep DEF Pressed
  <2>2. CASE part \notin {"hurried", "crossing", "clicks"}
    BY <1>1, <2>2, StepOfPart DEF Pressed
  <2> QED BY <2>1, <2>2
<1>2. CASE UNCHANGED vars
  BY <1>2, AllRest, FloorRests DEF Pressed
<1> QED BY <1>1, <1>2

(* For any map, repositories, files and fetches: the brush paints and the   *)
(* view turns only under the button that began it, the office has the mouse *)
(* only while the map has not, and a panel that is shown can be closed.     *)
THEOREM InputHasAnOwner == Spec => []InputHasOneOwner
<1>1. Owned => InputHasOneOwner
  <2> SUFFICES ASSUME Owned PROVE InputHasOneOwner
    OBVIOUS
  <2>1. /\ part = "orders" => Map(Ordering)!OrbitsOnlyWhileHeld
        /\ part = "panning" => Map(Roaming)!OrbitsOnlyWhileHeld
    BY Bounds DEF Owned, Held
  <2>2. /\ part = "flat" => Canvas(TwoD)!InputToOneView
        /\ part = "three" => Canvas(ThreeD)!InputToOneView
    BY FramesShow DEF Owned
  <2> QED BY <2>1, <2>2 DEF Owned, MapHolds, ViewHolds, PanelsHold, InputHasOneOwner
<1> QED BY <1>1, OwnedStarts, OwnedStep, PTL DEF Spec

(* For any repositories, fetches and map: a frame leaves one renderer on,   *)
(* of the repository it is to draw, with the chat in the office only; and   *)
(* nothing done in the office touches the map.                              *)
THEOREM FramesDoAgree == Spec => FramesAgree
<1> DEFINE Agree ==
      /\ part = "flat" => Canvas(TwoD)!OneSceneOn /\ Canvas(TwoD)!DrawsTheRepo /\ Canvas(TwoD)!ChatInTheOffice
      /\ part = "three" => Canvas(ThreeD)!OneSceneOn /\ Canvas(ThreeD)!DrawsTheRepo
      /\ part = "editor" => Map(Sketching)!LocalOwnsCanvas
      /\ part = "orders" => Map(Ordering)!LocalOwnsCanvas
<1>1. Owned /\ [Next]_vars => [Agree]_vars
  <2> SUFFICES ASSUME Owned, Next PROVE Agree
    OBVIOUS
  <2>1. CASE part \in {"flat", "three"}
    BY <2>1, Bounds, FramesShow DEF Owned
  <2>2. CASE part \in {"editor", "orders"}
    BY <2>2, StepOfPart, OfficeOwnsCanvas
  <2>3. CASE part \notin {"flat", "three", "editor", "orders"}
    BY <2>3
  <2> QED BY <2>1, <2>2, <2>3
<1>2. FramesAgree <=> [][Agree]_vars
  BY DEF FramesAgree
<1> HIDE DEF Agree
<1> QED BY <1>1, <1>2, OwnedStarts, OwnedStep, PTL DEF Spec

(* For any office, zones, files and agents: what a release assigns, paints  *)
(* or clicks is what its press took, a pan has its button down, and a       *)
(* mission names the repository of its desk.                                *)
THEOREM ActsOnThePress == Spec => ActsOnWhatWasPressed
<1> DEFINE Acts ==
      /\ part = "hurried" => Floor(Hurry)!AssignsWhatIsHeld /\ Floor(Hurry)!PansWhileHeld /\ Floor(Hurry)!PaintsTheDrag
      /\ part = "crossing" => Floor(Stray)!PaintsTheDrag
      /\ part = "clicks" => Floor(Steady)!ClicksWhereItPressed
      /\ part = "panels" => Panels(Furnished)!MissionInItsRepo
<1>1. Owned /\ Pressed /\ [Next]_vars => [Acts]_vars
  <2> SUFFICES ASSUME Owned, Pressed, Next PROVE Acts
    OBVIOUS
  <2>1. CASE part \in {"hurried", "crossing", "clicks"}
    BY <2>1, Bounds, StepOfPart, ReleaseActs DEF Pressed
  <2>2. CASE part = "panels"
    BY <2>2, StepOfPart, MissionsNamed DEF Owned
  <2>3. CASE part \notin {"hurried", "crossing", "clicks", "panels"}
    BY <2>3
  <2> QED BY <2>1, <2>2, <2>3
<1>2. ActsOnWhatWasPressed <=> [][Acts]_vars
  BY DEF ActsOnWhatWasPressed
<1> HIDE DEF Acts
<1> QED BY <1>1, <1>2, OwnedStarts, OwnedStep, PressedStarts, PressedStep, PTL DEF Spec
=============================================================================
