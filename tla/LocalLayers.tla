---------------------------- MODULE LocalLayers -----------------------------
(***************************************************************************)
(* The renderer of the office, frame by frame (localRenderer.ts): the      *)
(* layer it keeps, the doors that open for who comes near, the atlas of    *)
(* sprites, the particles, and what it draws of all that.  The isometric   *)
(* view is the one that is shown: nothing calls setIsometric, and          *)
(* Isometric is TRUE in every instance.                                    *)
(***************************************************************************)
EXTENDS Integers, Sequences, FiniteSets

(***************************************************************************)
(* What is painted on the tiles of an office seen from above a corner      *)
(* (isoLocalRenderer.ts, isoOfficeSprites.ts, localStaticLayers.ts).       *)
(*                                                                         *)
(* A tile's picture has what lies flat on its floor and what stands on     *)
(* it.  The floor is opaque: painted again, it hides all that lay on it,   *)
(* and nothing that stands there.  Walls and the corridors are painted     *)
(* once, into a layer that is kept (StaticLayer); doors, windows and       *)
(* furniture at every frame over it (Shown).  Colours, sizes and curves    *)
(* are left out; a thing that is painted bears the pass that painted it.   *)
(*                                                                         *)
(* An office w is a record: repo, width, height, kind and room and decor   *)
(* of every tile, and rooms: for each room its corner, size, zone, whether *)
(* it has a name of its own, the desks its plan placed and the extensions  *)
(* of its files.                                                           *)
(***************************************************************************)

NoRoom == "outside"
Nothing == "nothing"

Tiles(w) == (0 .. w.width - 1) \X (0 .. w.height - 1)
KindAt(w, t) == IF t \in Tiles(w) THEN w.kind[t] ELSE Nothing
RoomsOf(w) == DOMAIN w.rooms

North(t) == <<t[1], t[2] - 1>>
West(t)  == <<t[1] - 1, t[2]>>
Around(t) == {North(t), West(t), <<t[1] + 1, t[2]>>, <<t[1], t[2] + 1>>}

Corridor == {"path", "aisle"}
WallLike == {"wall", "door", "window", "vent"}
OfficeSprites == {"workbench", "standing_desk", "chair", "cubicle_partition", "reception",
                  "watercooler", "planter", "whiteboard"}
OwnSprites == {"sofa", "server_rack", "meeting_room", "phone_booth", "break_area", "stairs"}

isDynamicIsoFurniture(kind) == kind \in (OfficeSprites \cup OwnSprites \cup {"window"})

(* A blank tile, and a thing that lies or stands on one. *)
Blank == [flat |-> {}, up |-> {}]
Lay(p, part) == [p EXCEPT !.flat = @ \cup {part}]
Stand(p, part) == [p EXCEPT !.up = @ \cup {part}]

(***************************************************************************)
(* drawIsoTile.                                                            *)
(***************************************************************************)
ZoneOf(w, t) == IF w.room[t] = NoRoom THEN "none" ELSE w.rooms[w.room[t]].zone

FloorColor(w, t, kind) ==
  CASE kind \in Corridor     -> "path"
    [] w.room[t] = NoRoom    -> "outside"
    [] OTHER                 -> ZoneOf(w, t)

Accents(w, t) == {<<"accent", z>> : z \in {ZoneOf(w, t)} \cap {"meeting", "focus", "infra"}}

(* Corridors are hatched, and marked where a door opens on them. *)
Hatch(w, t, kind) ==
  IF kind \notin Corridor THEN {}
  ELSE {<<"hatch", IF \E n \in Around(t) : KindAt(w, n) = "door" THEN "by a door" ELSE "plain">>}

Border(w, t) ==
     (IF t[1] = 0            THEN {<<"border", "west">>}  ELSE {})
\cup (IF t[2] = 0            THEN {<<"border", "north">>} ELSE {})
\cup (IF t[1] = w.width - 1  THEN {<<"border", "east">>}  ELSE {})
\cup (IF t[2] = w.height - 1 THEN {<<"border", "south">>} ELSE {})

Floor(w, t, kind) == {<<"floor", FloorColor(w, t, kind)>>} \cup Accents(w, t) \cup Hatch(w, t, kind) \cup Border(w, t)

(* A wall shows the faces whose neighbour to the north or west is open. *)
isOpen(w, t) == KindAt(w, t) \in {Nothing, "floor", "path", "aisle", "chair", "door", "workbench", "kiosk"}

Faces(w, t) == {f \in {"north", "west"} : isOpen(w, IF f = "north" THEN North(t) ELSE West(t))}

Matter(zone) ==
  CASE zone \in {"team_cluster", "meeting"} -> "glass"
    [] zone \in {"break", "biophilic"}      -> "wood"
    [] zone = "infra"                       -> "concrete"
    [] OTHER                                -> "plaster"

(* The prism of a wall; what climbs or scores it goes with its zone. *)
WallTile(w, t, pass) ==
  [thing |-> "wall", pass |-> pass, faces |-> Faces(w, t), matter |-> Matter(ZoneOf(w, t)),
   mark |-> CASE ZoneOf(w, t) = "infra" /\ Faces(w, t) # {} -> "seams"
              [] ZoneOf(w, t) = "biophilic"                -> "ivy"
              [] OTHER                                     -> "none"]

(* The panels of a door slide apart on every face of its wall. *)
DoorTile(w, t, pass, open) ==
  [thing |-> "door", pass |-> pass, faces |-> Faces(w, t), matter |-> Matter(ZoneOf(w, t)), open |-> open]

WindowTile(pass) == [thing |-> "window", pass |-> pass]

Walls(w, t, kind, pass, open) ==
  IF kind \notin WallLike THEN {}
  ELSE {WallTile(w, t, pass)}
       \cup (IF kind = "door"   THEN {DoorTile(w, t, pass, open)} ELSE {})
       \cup (IF kind = "window" THEN {WindowTile(pass)}           ELSE {})

(* A sprite of the atlas, or what is drawn in its place: for a whiteboard,  *)
(* nothing.                                                                 *)
drawSpriteOrFallback(kind, pass, atlas, lit) ==
  IF atlas \/ kind # "whiteboard"
  THEN {[thing |-> kind, pass |-> pass, look |-> IF atlas THEN "atlas" ELSE "plain", lit |-> lit /\ ~atlas]}
  ELSE {}

(* Only a desk is lit by who works there, and a chair is always plain. *)
drawProceduralDesk(kind, pass, atlas, lit) == drawSpriteOrFallback(kind, pass, atlas, lit)
drawIsoCubiclePartition(kind, pass, atlas) == drawSpriteOrFallback(kind, pass, atlas, FALSE)
drawProceduralChair(kind, pass) == {[thing |-> kind, pass |-> pass, look |-> "plain", lit |-> FALSE]}

drawIsoOfficeSprite(kind, pass, atlas, lit) ==
  CASE kind = "workbench"         -> drawProceduralDesk(kind, pass, atlas, lit)
    [] kind = "standing_desk"     -> drawProceduralDesk(kind, pass, atlas, FALSE)
    [] kind = "chair"             -> drawProceduralChair(kind, pass)
    [] kind = "cubicle_partition" -> drawIsoCubiclePartition(kind, pass, atlas)
    [] OTHER                      -> drawSpriteOrFallback(kind, pass, atlas, FALSE)

Furniture(kind, pass, atlas, lit) ==
  IF kind \in OfficeSprites THEN drawIsoOfficeSprite(kind, pass, atlas, lit)
  ELSE {[thing |-> k, pass |-> pass] : k \in {kind} \cap OwnSprites}

Decor(w, t, pass) == {[thing |-> d, pass |-> pass] : d \in {w.decor[t]} \cap {"focus_lamp", "coffee_machine"}}

drawIsoTile(p, w, t, kind, pass, atlas, lit, open) ==
  [flat |-> Floor(w, t, kind),
   up   |-> p.up \cup Walls(w, t, kind, pass, open) \cup Furniture(kind, pass, atlas, lit)
                 \cup Decor(w, t, pass)]

(***************************************************************************)
(* The layer that is kept.                                                 *)
(***************************************************************************)
hasCorridorNeighbor(w, t) == \E n \in Around(t) : KindAt(w, n) \in Corridor

Glow(p, w, t) == IF w.room[t] = NoRoom THEN p ELSE Lay(p, <<"glow", ZoneOf(w, t)>>)

drawIsoCarpetTile(p, w, t) == IF w.kind[t] \in Corridor THEN Lay(p, <<"carpet">>) ELSE p

drawIsoCeilingLight(p, w, t) ==
  IF w.kind[t] \in Corridor /\ (t[1] + t[2]) % 5 = 0 THEN Lay(p, <<"light">>) ELSE p

drawIsoExteriorFacade(p, w, t) ==
  IF w.kind[t] = "wall" /\ Border(w, t) # {} THEN Stand(p, [thing |-> "facade", pass |-> "kept"]) ELSE p

drawIsoDoorSignage(p, w, t) ==
  IF w.kind[t] = "door" /\ w.room[t] # NoRoom /\ w.rooms[w.room[t]].named /\ hasCorridorNeighbor(w, t)
  THEN Stand(p, [thing |-> "sign", pass |-> "kept"]) ELSE p

(* Doors and furniture leave only their floor in it. *)
KeptKind(kind) == IF kind = "door" \/ isDynamicIsoFurniture(kind) THEN "floor" ELSE kind

buildIsoStaticLayer(w) ==
  [t \in Tiles(w) |->
     LET ground == drawIsoTile(Blank, w, t, KeptKind(w.kind[t]), "kept", FALSE, FALSE, 0)
         over   == drawIsoCeilingLight(drawIsoCarpetTile(Glow(ground, w, t), w, t), w, t)
     IN drawIsoDoorSignage(drawIsoExteriorFacade(over, w, t), w, t)]

(***************************************************************************)
(* A frame: the kept layer, and over it the tiles that are drawn anew.     *)
(***************************************************************************)
InView(view, t) == t[1] \in view.x0 .. view.x1 /\ t[2] \in view.y0 .. view.y1

(* The tiles of a view that a frame draws anew. *)
Drawn(w, view) == {t \in Tiles(w) : InView(view, t) /\ w.kind[t] \notin {"floor", "path", "wall", "vent"}}

(* Light falls from a window on the bare floors by it. *)
Rays(w, view) ==
  {n \in Tiles(w) : /\ InView(view, n) /\ w.kind[n] \in {"floor", "path"}
                    /\ \E t \in Around(n) : InView(view, t) /\ KindAt(w, t) = "window"}

(* busy: the desks somebody works at; open: how far each door is open. *)
Shown(layer, w, view, atlas, busy, open) ==
  [t \in {u \in Tiles(w) : InView(view, u)} |->
     LET p == IF t \in Drawn(w, view)
              THEN drawIsoTile(layer[t], w, t, w.kind[t], "frame", atlas, t \in busy,
                               IF t \in DOMAIN open THEN open[t] ELSE 0)
              ELSE layer[t]
     IN IF t \in Rays(w, view) THEN Lay(p, <<"ray">>) ELSE p]

(***************************************************************************)
(* What a frame draws over the tiles of an office: people, names, pills,   *)
(* tooltip and overlays (isoLocalRenderer.ts, isoPowerOverlay.ts,          *)
(* isoTemperatureOverlay.ts, isoLocalZones.ts, isoDebugOverlay.ts).  Each  *)
(* operator gives the set of its marks.                                    *)
(*                                                                         *)
(* An office has, besides, filed (the desks with a file), npcs (their      *)
(* tiles), power (conduits, sources, consumers, generated, consumed),      *)
(* climates (of some rooms: degrees, target, heaters, coolers, open vents) *)
(* and zones.                                                              *)
(***************************************************************************)
Least(S) == CHOOSE x \in S : \A y \in S : x <= y
Most(S)  == CHOOSE x \in S : \A y \in S : x >= y
Lower(a, b) == Least({a, b})
Higher(a, b) == Most({a, b})

(***************************************************************************)
(* People.                                                                 *)
(***************************************************************************)
isUnitMoving(u) == u.to # u.at

(* Of a step only its start and its end are told apart. *)
computeUnitDirAngle(u) == IF isUnitMoving(u) THEN <<u.to[1] - u.at[1], u.to[2] - u.at[2]>> ELSE <<0, 0>>

Icon(state) ==
  CASE state = "idle_in_room" -> "ring"
    [] state \in {"walking_to_workbench", "walking_to_room"} -> "arrow"
    [] state = "working_on_file" -> "gear"
    [] state = "resting" -> "moon"
    [] OTHER -> "?"

(* One who has faded away is not drawn, nor told of to the bubbles. *)
FadedAway(u) == u.leaving /\ u.alpha = 0

Breathes(u) == ~isUnitMoving(u) /\ u.state \in {"idle_in_room", "resting"}

drawIsoUnit(name, u, hovered) ==
  IF FadedAway(u) THEN {}
  ELSE {[who    |-> name,
         where  |-> u.at,
         faces  |-> computeUnitDirAngle(u),
         icon   |-> Icon(u.state),
         ring   |-> u.state = "working_on_file" /\ u.progress > 0,
         helmet |-> u.state = "working_on_file",
         chosen |-> hovered = name,
         moves  |-> Breathes(u),
         pulse  |-> u.lit]}

(* Everyone is drawn, in view or not; the others who work there only in view. *)
Units(units, hovered) == UNION {drawIsoUnit(n, units[n], hovered) : n \in DOMAIN units}
Npcs(w, view) == {t \in w.npcs : InView(view, t)}

(* Who is idle or rests may breathe out a Z. *)
MaySleep(units) == {n \in DOMAIN units : units[n].state \in {"idle_in_room", "resting"}}

(* The desks that someone is at work at. *)
activeWbIds(units) == {units[n].desk : n \in {m \in DOMAIN units : units[m].state = "working_on_file"}}

(***************************************************************************)
(* Names.                                                                  *)
(***************************************************************************)
Files(w, r) == Len(w.rooms[r].files)
Footprint(w, r) == LET o == w.rooms[r] IN (o.x .. o.x + o.width - 1) \X (o.y .. o.y + o.height - 1)

(* The plaque of a room hangs on its first door, row by row, if it has one. *)
RoomDoors(w, r) == {t \in Footprint(w, r) : KindAt(w, t) = "door" /\ w.room[t] = r}

drawIsoRoomLabel(w, r) ==
  LET doors == RoomDoors(w, r)
      first == CHOOSE t \in doors : \A d \in doors : t[2] < d[2] \/ (t[2] = d[2] /\ t[1] <= d[1])
  IN [room |-> r, on |-> IF doors = {} THEN <<>> ELSE first, zone |-> w.rooms[r].zone]

\* Slip of DeskLabels: only a room of more than three files is left out.
LabelsThree(w, view) ==
  {t \in Tiles(w) : /\ InView(view, t) /\ t \in w.filed
                    /\ w.room[t] = NoRoom \/ Files(w, w.room[t]) <= 3}

(* The desks whose file is named: a room of three files or more has none.   *)
DeskLabels(w, view) ==
  {t \in Tiles(w) : /\ InView(view, t) /\ t \in w.filed
                    /\ w.room[t] = NoRoom \/ Files(w, w.room[t]) < 3}

(* Rooms with more files than desks, and three or more, get pills instead. *)
Clustered(w) == {r \in RoomsOf(w) : Files(w, r) > w.rooms[r].placed /\ Files(w, r) >= 3}

(* The eight extensions a room has most of, and how many files in all. *)
Exts(w, r) == {w.rooms[r].files[i] : i \in 1 .. Files(w, r)}
Times(w, r, e) == Cardinality({i \in 1 .. Files(w, r) : w.rooms[r].files[i] = e})

(* Of extensions as frequent, the one met first. *)
Met(w, r, e) == Least({i \in 1 .. Files(w, r) : w.rooms[r].files[i] = e})
Ahead(w, r, e, f) == \/ Times(w, r, e) > Times(w, r, f)
                     \/ Times(w, r, e) = Times(w, r, f) /\ Met(w, r, e) < Met(w, r, f)

drawIsoWorkbenchCluster(w, r) ==
  [room  |-> r, files |-> Files(w, r),
   pills |-> {<<e, Times(w, r, e)>> :
               e \in {f \in Exts(w, r) : Cardinality({g \in Exts(w, r) : Ahead(w, r, g, f)}) < 8}}]

isoProject(t) == <<32 * (t[1] - t[2]), 16 * (t[1] + t[2])>>

(* The file under the pointer, above it; below when there is no room; never *)
(* past the left edge, nor past the right if it fits.                       *)
drawIsoWorkbenchTooltip(t, camera, size, screen) ==
  LET sx == isoProject(t)[1] - camera[1] + screen.w \div 2
      sy == isoProject(t)[2] - camera[2] + screen.h \div 2
  IN [x |-> Higher(4, Lower(sx - size.w \div 2, screen.w - size.w - 4)),
      y |-> IF sy - size.h - 12 < 4 THEN sy + 12 ELSE sy - size.h - 12]

(***************************************************************************)
(* Overlays.                                                               *)
(***************************************************************************)
(* Lines where the power runs, what gives and takes it, and the sums. *)
LoadColor(watts) == IF 10 * watts > 8 * 200 THEN "red" ELSE IF 2 * watts > 200 THEN "amber" ELSE "green"

drawIsoPowerOverlay(p, view) ==
     {[mark |-> "conduit", at |-> t] : t \in {c \in p.conduits : InView(view, c)}}
\cup {[mark |-> "source", at |-> s.at, watts |-> s.watts] : s \in {q \in p.sources : InView(view, q.at)}}
\cup {[mark |-> "load", at |-> c.at, color |-> LoadColor(c.watts)] : c \in {q \in p.consumers : InView(view, q.at)}}
\cup (IF p.generated > 0 \/ p.consumed > 0
      THEN {[mark |-> "sums", at |-> <<view.x0, view.y0>>, made |-> p.generated, used |-> p.consumed]} ELSE {})

(* Degrees in the middle of a room, and where they are going if far enough *)
(* (in tenths of a degree); what heats and cools, and vents that are open. *)
Middle(o) == <<o.x + o.width \div 2, o.y + o.height \div 2>>

Degrees(w, r, view) ==
  LET c == w.climates[r] IN
  IF ~InView(view, Middle(w.rooms[r])) THEN {}
  ELSE {[mark |-> "degrees", at |-> Middle(w.rooms[r]), degrees |-> c.degrees,
         goes |-> CASE c.target - c.degrees > 5 -> "up"
                    [] c.degrees - c.target > 5 -> "down"
                    [] OTHER                    -> "stays"]}

Machines(w, r, view) ==
  LET c == w.climates[r] IN
     {[mark |-> "heater", at |-> t] : t \in {h \in c.heaters : InView(view, h)}}
\cup {[mark |-> "cooler", at |-> t] : t \in {h \in c.coolers : InView(view, h)}}
\cup {[mark |-> "vent",   at |-> t] : t \in {h \in c.openVents : InView(view, h)}}

drawIsoTemperatureOverlay(w, view) ==
  UNION {Degrees(w, r, view) \cup Machines(w, r, view) : r \in DOMAIN w.climates \cap RoomsOf(w)}

(* In a cold room that is in view, somebody's breath may show. *)
Cold(w, view) == {r \in DOMAIN w.climates \cap RoomsOf(w) :
                    InView(view, Middle(w.rooms[r])) /\ w.climates[r].degrees < 100}

(* A rectangle by its corners. *)
Box(S) == [x0 |-> Least({t[1] : t \in S}), y0 |-> Least({t[2] : t \in S}),
           x1 |-> Most({t[1] : t \in S}),  y1 |-> Most({t[2] : t \in S})]

(* A zone's tiles in view are tinted; its outline is drawn wherever it is. *)
drawIsoZone(z, view) ==
     {[mark |-> "tint", type |-> z.type, at |-> t] : t \in {u \in z.tiles : InView(view, u)}}
\cup (IF z.tiles = {} THEN {} ELSE {[mark |-> "outline", type |-> z.type, box |-> Box(z.tiles)]})

drawIsoZones(zones, view) == UNION {drawIsoZone(z, view) : z \in zones}

drawIsoZonePaintPreview(from, to, view) ==
  LET box == Box({from, to}) IN
     {[mark |-> "tint", at |-> t] : t \in {u \in (box.x0 .. box.x1) \X (box.y0 .. box.y1) : InView(view, u)}}
\cup {[mark |-> "size", at |-> <<box.x0, box.y0>>, w |-> box.x1 - box.x0 + 1, h |-> box.y1 - box.y0 + 1]}

(* The way someone still has to go, and a card for everyone. *)
drawIsoDebugOverlay(units) ==
     {[mark |-> "way", of |-> n, from |-> units[n].at, to |-> units[n].to] :
        n \in {m \in DOMAIN units : isUnitMoving(units[m])}}
\cup {[mark |-> "card", of |-> n, at |-> units[n].at, state |-> units[n].state] : n \in DOMAIN units}

---------------------------------------------------------------------------
CONSTANTS
  Offices,    \* the offices of the repositories
  Agents,     \* those who are in the office
  Ways,       \* how an agent may be: where, going where, doing what
  Views,      \* where the camera may be, and the tiles it shows there
  Options,    \* zoom, overlays, what is hovered or being painted or dragged
  Screen,     \* the size of the canvas
  TipSize,    \* the size of a tooltip
  Pool,       \* particles there is room for (64 in the code)
  Painting,   \* whether zones are painted
  Isometric

VARIABLES
  world,      \* the office it was given, or NoWorld
  layer,      \* the kept layer: whose, and its tiles; or NoLayer
  atlas,      \* the sprites: "none", "loading", "ready" or "failed"
  waiting,    \* an office waits for the atlas
  doors,      \* doorOpenStates: how far the door of a tile is open, 0 .. 2
  units,      \* the agents
  view, option,
  pool        \* the particles that are flying

vars == <<world, layer, atlas, waiting, doors, units, view, option, pool>>

NoWorld == [repo |-> "none"]
NoLayer == [key |-> <<>>]

AllTiles == UNION {Tiles(w) : w \in Offices}

TypeOK ==
  /\ world = NoWorld \/ world.repo \in {w.repo : w \in Offices}
  /\ layer = NoLayer \/ (world # NoWorld /\ DOMAIN layer.tiles = Tiles(world))
  /\ atlas \in {"none", "loading", "ready", "failed"} /\ waiting \in BOOLEAN
  /\ doors \in [AllTiles -> 0 .. 2]
  /\ units \in [Agents -> Ways] /\ view \in Views /\ option \in Options
  /\ pool \in 0 .. Pool

Init ==
  /\ world = NoWorld /\ layer = NoLayer /\ atlas = "none" /\ waiting = FALSE
  /\ doors = [t \in AllTiles |-> 0]
  /\ units \in [Agents -> Ways] /\ view \in Views /\ option \in Options
  /\ pool = 0

(***************************************************************************)
(* The office and its sprites.                                             *)
(***************************************************************************)
(* The renderer is given an office when its repository is not the one it   *)
(* has; it drops what it keeps, and asks for the atlas, once and for all.  *)
setWorld(w) ==
  /\ world.repo # w.repo
  /\ world' = w /\ layer' = NoLayer /\ waiting' = TRUE
  /\ atlas' = IF atlas = "none" THEN "loading" ELSE atlas
  /\ UNCHANGED <<doors, units, view, option, pool>>

(* The atlas comes or does not; an office that waited drops what it keeps. *)
loadOfficeAtlas(ok) ==
  /\ waiting
  /\ atlas = "ready" => ok
  /\ atlas = "failed" => ~ok
  /\ atlas' = IF ok THEN "ready" ELSE "failed"
  /\ waiting' = FALSE
  /\ layer' = IF ok THEN NoLayer ELSE layer
  /\ UNCHANGED <<world, doors, units, view, option, pool>>

(* What is painted as a zone becomes a zone, and its tiles stockpiles. *)
onZonePainted(type, from, to) ==
  LET box   == Box({from, to})
      tiles == Tiles(world) \cap ((box.x0 .. box.x1) \X (box.y0 .. box.y1))
  IN /\ Painting /\ world # NoWorld /\ tiles # {}
     /\ world' = [world EXCEPT !.zones = @ \cup {[type |-> type, tiles |-> tiles]},
                               !.kind = [t \in DOMAIN @ |-> IF t \in tiles THEN "stockpile" ELSE @[t]]]
     /\ UNCHANGED <<layer, atlas, waiting, doors, units, view, option, pool>>

(***************************************************************************)
(* A frame.                                                                *)
(***************************************************************************)
AllFiles(w) == UNION {{<<r, i>> : i \in 1 .. Files(w, r)} : r \in RoomsOf(w)}

cacheKey(w) == <<w.repo, Cardinality(AllFiles(w)), Cardinality({r \in RoomsOf(w) : Files(w, r) >= 3})>>

rebuildIsoStaticLayer(w) == [key |-> cacheKey(w), tiles |-> buildIsoStaticLayer(w)]

Kept(w) == IF layer = NoLayer \/ layer.key # cacheKey(w) THEN rebuildIsoStaticLayer(w) ELSE layer

(* How far apart two tiles look, squared, in sixty-fourths of a tile's      *)
(* width over sixteen: a door opens for who is within 1.13 tiles, and stays *)
(* shut for who is at 1.8 or more.                                          *)
Gap(t, u) == LET a == t[1] - u[1]  b == t[2] - u[2] IN 4 * (a - b) * (a - b) + (a + b) * (a + b)

targetOpen(t) ==
  LET gaps == {Gap(t, units[n].at) : n \in DOMAIN units}
  IN IF \E g \in gaps : g <= 20 THEN 2 ELSE IF \E g \in gaps : g <= 51 THEN 1 ELSE 0

\* Slip of DoorsMoved: doors open, and stay so.
NeverShut(w) ==
  [t \in DOMAIN doors |->
     IF KindAt(w, t) # "door" \/ ~InView(view, t) THEN doors[t]
     ELSE IF doors[t] < targetOpen(t) THEN doors[t] + 1 ELSE doors[t]]

(* The doors in view go toward what they should be. *)
DoorsMoved(w) ==
  [t \in DOMAIN doors |->
     IF KindAt(w, t) # "door" \/ ~InView(view, t) THEN doors[t]
     ELSE CASE doors[t] < targetOpen(t) -> doors[t] + 1
            [] doors[t] > targetOpen(t) -> doors[t] - 1
            [] OTHER                    -> doors[t]]

(* Names are drawn from near, or from not too far when they are asked for. *)
lodLow(o) == o.zoom = "low"
NamesShown(o) == ~lodLow(o) /\ (o.labels \/ o.zoom = "near")

busy(w) == {t \in w.filed : t \in activeWbIds(units)}

(* The marks over the tiles, by what they are. *)
Marks(w, o) ==
  [pills       |-> {drawIsoWorkbenchCluster(w, r) : r \in Clustered(w)},
   npcs        |-> Npcs(w, view),
   people      |-> Units(units, o.chosen),
   plaques     |-> IF lodLow(o) THEN {} ELSE {drawIsoRoomLabel(w, r) : r \in RoomsOf(w)},
   desks       |-> IF NamesShown(o) THEN DeskLabels(w, view) ELSE {},
   tooltip     |-> {drawIsoWorkbenchTooltip(t, view.camera, TipSize, Screen) : t \in o.hover \cap w.filed},
   power       |-> IF o.power THEN drawIsoPowerOverlay(w.power, view) ELSE {},
   temperature |-> IF o.temperature THEN drawIsoTemperatureOverlay(w, view) ELSE {},
   zones       |-> drawIsoZones(w.zones, view),
   preview     |-> IF o.preview = <<>> THEN {} ELSE drawIsoZonePaintPreview(o.preview[1], o.preview[2], view),
   hover       |-> o.hover,
   debug       |-> IF o.debug THEN drawIsoDebugOverlay(units) ELSE {},
   particles   |-> IF Isometric THEN 0 ELSE pool,
   dragged     |-> IF Isometric THEN {} ELSE {o.drag} \ {"nobody"}]

(* How many particles a frame may set off; there they stay in this view.    *)
Sparks(w, o) == Cardinality(MaySleep(units)) + (IF o.temperature THEN Cardinality(Cold(w, view)) ELSE 0)

spawnZzz(w, o) == pool .. Lower(Pool, pool + Sparks(w, o))

Frame ==
  /\ world # NoWorld
  /\ layer' = Kept(world)
  /\ doors' = DoorsMoved(world)
  /\ pool' \in (IF Isometric THEN spawnZzz(world, option) ELSE 0 .. Lower(Pool, pool + Sparks(world, option)))
  /\ UNCHANGED <<world, atlas, waiting, units, view, option>>

(* What a frame shows of its tiles, from the layer and the doors it has. *)
Picture(w, kept, open) == Shown(kept.tiles, w, view, atlas = "ready", busy(w), open)

(***************************************************************************)
(* What the rest of the program does between two frames.                   *)
(***************************************************************************)
Walk(n, way) == units' = [units EXCEPT ![n] = way] /\ UNCHANGED <<world, layer, atlas, waiting, doors, view, option, pool>>
Look(v) == view' = v /\ UNCHANGED <<world, layer, atlas, waiting, doors, units, option, pool>>
Choose(o) == option' = o /\ UNCHANGED <<world, layer, atlas, waiting, doors, units, view, pool>>

Next ==
  \/ \E w \in Offices : setWorld(w)
  \/ \E ok \in BOOLEAN : loadOfficeAtlas(ok)
  \/ \E p \in {o.preview : o \in Options} \ {<<>>} : onZonePainted("stockpile", p[1], p[2])
  \/ Frame
  \/ \E n \in Agents, way \in Ways : Walk(n, way)
  \/ \E v \in Views : Look(v)
  \/ \E o \in Options : Choose(o)

Spec == Init /\ [][Next]_vars

(* Frames go on as long as the page is shown (requestAnimationFrame). *)
FairSpec == Spec /\ WF_vars(Frame)

(***************************************************************************)
(* What should hold.                                                       *)
(***************************************************************************)
(* localStaticLayers.ts:124: what the kept layer holds a frame does not     *)
(* draw again, and what it leaves out a frame does draw: every wall, door,  *)
(* window and piece of furniture in view is there once, on its own floor.   *)
Things(p) == {x \in p.up : x.thing \notin {"facade", "sign", "focus_lamp", "coffee_machine"}}

ThingsOf(kind) ==
  CASE kind \in {"wall", "vent"} -> {"wall"}
    [] kind = "door"             -> {"wall", "door"}
    [] kind = "window"           -> {"wall", "window"}
    [] kind = "whiteboard"       -> IF atlas = "ready" THEN {"whiteboard"} ELSE {}
    [] kind \in {"workbench", "standing_desk", "chair", "cubicle_partition", "reception", "watercooler",
                 "planter", "sofa", "server_rack", "meeting_room", "phone_booth", "break_area", "stairs"} -> {kind}
    [] OTHER                     -> {}

OnceEach(w, picture) ==
  \A t \in DOMAIN picture :
     /\ {x.thing : x \in Things(picture[t])} = ThingsOf(w.kind[t])
     /\ Cardinality(Things(picture[t])) = Cardinality(ThingsOf(w.kind[t]))
     /\ Cardinality({x \in picture[t].flat : x[1] = "floor"}) = 1

EachThingOnce == Frame => OnceEach(world, Picture(world, layer', doors'))

(* main.ts:1263, "Also update tile types visually": a frame shows the       *)
(* office as it is, and not as it was when the layer was made.              *)
ShowsTheOffice ==
  Frame => /\ layer' # NoLayer
           /\ Picture(world, layer', doors') = Picture(world, rebuildIsoStaticLayer(world), doors')

(* isoLocalRenderer.ts:170: a desk is named over it or in the pills of its  *)
(* room, never twice.                                                       *)
NamedOnce ==
  world # NoWorld =>
    LET m == Marks(world, option) IN \A t \in m.desks : \A p \in m.pills : world.room[t] # p.room

(* isoLocalRenderer.ts:131: a door in view that someone stays by gets open, *)
(* and one that everybody has left gets shut.                               *)
DoorSeen(t) == world # NoWorld /\ KindAt(world, t) = "door" /\ InView(view, t)
Stayed(t) == DoorSeen(t) /\ \E n \in Agents : Gap(t, units[n].at) <= 20
Left(t)   == DoorSeen(t) /\ \A n \in Agents : Gap(t, units[n].at) > 51
Open(t)   == doors[t] = 2
Shut(t)   == doors[t] = 0

(* isoLocalRenderer.ts:1220, "clamped to screen": sideways a tooltip starts *)
(* on the screen, and if it fits it ends there.                             *)
TooltipOnScreen ==
  world # NoWorld =>
    \A tip \in Marks(world, option).tooltip :
       tip.x >= 4 /\ (TipSize.w + 8 <= Screen.w => tip.x + TipSize.w <= Screen.w - 4)

(* local_view_beautification_plan.md:81: letters Z float over who rests.    *)
Flying == world # NoWorld /\ pool > 0
Floats == world # NoWorld /\ Marks(world, option).particles > 0

---------------------------------------------------------------------------
(* What a document, a comment or a test says and this code does not keep    *)
(* (README, "Where the code differs").                                      *)

(* isoLocalRenderer.ts:238, "Skip high-density rooms (cluster pills handle  *)
(* those)": when names are shown, every desk in view is named somewhere.    *)
EveryDeskNamed ==
  world # NoWorld /\ NamesShown(option) =>
    LET m == Marks(world, option)
    IN \A t \in world.filed : InView(view, t) => t \in m.desks \/ \E p \in m.pills : world.room[t] = p.room

(* isoOfficeSprites.ts:225, "Carpet overlay for aisle tiles (static layer)". *)
AislesCarpeted ==
  [][Frame => LET p == Picture(world, layer', doors')
              IN \A t \in DOMAIN p : world.kind[t] = "aisle" => <<"carpet">> \in p[t].flat]_vars

ZzzFloat == Flying ~> (Floats \/ pool = 0)

(* local-drag-assign.test.ts:91: a line is drawn from who is dragged. *)
DragShown == world # NoWorld => ({option.drag} \ {"nobody"}) \subseteq Marks(world, option).dragged
=============================================================================
