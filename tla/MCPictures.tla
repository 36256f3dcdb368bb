----------------------------- MODULE MCPictures -----------------------------
(***************************************************************************)
(* What the frames draw: the land of the 3D map, the figurines of its      *)
(* units, and the office of a repository.  A behaviour is one of these     *)
(* (part) while the others rest.                                           *)
(***************************************************************************)
EXTENDS Integers, Sequences, SequencesExt, FiniteSets, TLC

CONSTANTS
  Parts,           \* the parts that are checked
  capital, town,   \* the cities of the map
  worker           \* an agent of the office

VARIABLES
  part,
  world, opts, kit, rev, known, seen, settled, layer, fades, covered, framed, changes,
  roster, unit, revealed, selected, colour, models, entries, ghosts, ribbons, signed, stepped, events,
  office, kept, atlas, waiting, doors, units, view, option, pool

---------------------------------------------------------------------------
(* One row of hexes with a capital and a town: land of every kind that is   *)
(* painted and uncovered, and land where every kit has its use, on which    *)
(* cities move and wonders come.                                            *)
Row == 1 .. 4
Beside == [h \in Row |-> {h - 1, h + 1} \cap Row]

MixedLand ==
  [tiles |-> Row, terrain |-> [h \in Row |-> CASE h = 1 -> "sacred" [] h = 2 -> "ice" [] h = 3 -> "ocean" [] OTHER -> "mountain"],
   revealed |-> {1, 2, 3}, at |-> [c \in {capital, town} |-> IF c = capital THEN 1 ELSE 2],
   colour |-> [c \in {capital, town} |-> "own"], rich |-> {2, 3}, wonders |-> {}]
KitLand ==
  [MixedLand EXCEPT !.revealed = Row,
     !.terrain = [h \in Row |-> CASE h = 1 -> "sacred" [] h = 2 -> "plains" [] h = 3 -> "mountain" [] OTHER -> "ice"]]

Land == INSTANCE SceneFrame WITH
  Hexes <- Row, Neighbours <- Beside, Cities <- {capital, town}, Capital <- capital, First <- MixedLand,
  Changes <- {"paint", "erase", "reveal", "load", "fail", "view"}, Paints <- {"ocean", "mountain", "forest", "ice"}, MaxChanges <- 2
Town == INSTANCE SceneFrame WITH
  Hexes <- Row, Neighbours <- Beside, Cities <- {capital, town}, Capital <- capital, First <- KitLand,
  Changes <- {"move", "align", "wonder", "load", "view"}, Paints <- {}, MaxChanges <- 3
Loading == INSTANCE SceneFrame WITH
  Hexes <- Row, Neighbours <- Beside, Cities <- {capital, town}, Capital <- capital, First <- KitLand,
  Changes <- {"load", "fail", "view"}, Paints <- {}, MaxChanges <- 3

(* One unit that comes, goes and walks; two that walk on each other's hexes; *)
(* one that is dismissed.                                                    *)
Alone == INSTANCE UnitFigures WITH
  Units <- {"u"}, Hexes <- 1 .. 3, CityHexes <- {3}, Shrouded <- {2}, MaxChanges <- 4,
  Changes <- {"spawn", "remove", "hide", "reveal", "move", "align", "select"}, kit <- models, changes <- events
Pair == INSTANCE UnitFigures WITH
  Units <- {"u", "v"}, Hexes <- 1 .. 3, CityHexes <- {3}, Shrouded <- {2}, MaxChanges <- 3,
  Changes <- {"spawn", "move", "select", "reveal"}, kit <- models, changes <- events
Leaving == INSTANCE UnitFigures WITH
  Units <- {"u"}, Hexes <- 1 .. 3, CityHexes <- {3}, Shrouded <- {2}, MaxChanges <- 4,
  Changes <- {"spawn", "remove"}, kit <- models, changes <- events

---------------------------------------------------------------------------
(* An office from its rows of kinds: a team's room with its desks, its      *)
(* corridor and a window, and a small room of many files where people rest. *)
Office(repo, rows, roomOf, decorOf, theRooms, desks, people, grid, climates) ==
  [repo |-> repo, width |-> Len(rows[1]), height |-> Len(rows),
   kind |-> [t \in (0 .. Len(rows[1]) - 1) \X (0 .. Len(rows) - 1) |-> rows[t[2] + 1][t[1] + 1]],
   room |-> roomOf, decor |-> decorOf, rooms |-> theRooms, filed |-> desks, npcs |-> people,
   power |-> grid, climates |-> climates, zones |-> {}]

TeamGrid == (0 .. 4) \X (0 .. 4)
TeamRoom == Office("team",
  << <<"wall", "window",    "wall",  "wall",       "wall">>,
     <<"wall", "workbench", "chair", "aisle",      "wall">>,
     <<"vent", "floor",     "aisle", "whiteboard", "wall">>,
     <<"wall", "door",      "wall",  "wall",       "wall">>,
     <<"path", "path",      "path",  "path",       "path">> >>,
  [t \in TeamGrid |-> IF t[2] = 4 THEN "outside" ELSE "eng"],
  [t \in TeamGrid |-> IF t = <<1, 1>> THEN "focus_lamp" ELSE "none"],
  [r \in {"eng"} |-> [x |-> 0, y |-> 0, width |-> 5, height |-> 4, zone |-> "team_cluster", named |-> TRUE,
                      placed |-> 1, files |-> <<"ts", "md">>]],
  {<<1, 1>>}, {},
  [conduits |-> {<<2, 2>>}, sources |-> {[at |-> <<3, 1>>, watts |-> 500]},
   consumers |-> {[at |-> <<1, 1>>, watts |-> 150]}, generated |-> 500, consumed |-> 150],
  [r \in {"eng"} |-> [degrees |-> 210, target |-> 220, heaters |-> {<<1, 2>>}, coolers |-> {}, openVents |-> {<<0, 2>>}]])

LoungeGrid == (0 .. 3) \X (0 .. 3)
Lounge == Office("rest",
  << <<"wall", "wall",      "wall",      "wall">>,
     <<"door", "workbench", "workbench", "wall">>,
     <<"wall", "sofa",      "stairs",    "wall">>,
     <<"wall", "wall",      "window",    "wall">> >>,
  [t \in LoungeGrid |-> "lounge"],
  [t \in LoungeGrid |-> IF t = <<1, 2>> THEN "coffee_machine" ELSE "none"],
  [r \in {"lounge"} |-> [x |-> 0, y |-> 0, width |-> 4, height |-> 4, zone |-> "break", named |-> TRUE,
                         placed |-> 2, files |-> <<"py", "py", "md">>]],
  {<<1, 1>>, <<2, 1>>}, {<<1, 2>>},
  [conduits |-> {}, sources |-> {}, consumers |-> {}, generated |-> 0, consumed |-> 0],
  [r \in {"lounge"} |-> [degrees |-> 90, target |-> 90, heaters |-> {}, coolers |-> {<<1, 2>>}, openVents |-> {}]])

Way(at, to, state, progress, desk, leaving, alpha, lit) ==
  [at |-> at, to |-> to, state |-> state, progress |-> progress, desk |-> desk, leaving |-> leaving,
   alpha |-> alpha, lit |-> lit]
AtTheDoor  == Way(<<1, 3>>, <<1, 3>>, "idle_in_room", 0, <<>>, FALSE, 2, FALSE)
Working    == Way(<<1, 1>>, <<1, 1>>, "working_on_file", 10, <<1, 1>>, FALSE, 2, TRUE)
WalkingOff == Way(<<3, 1>>, <<2, 1>>, "walking_to_room", 0, <<>>, FALSE, 2, FALSE)
GoneHome   == Way(<<3, 1>>, <<3, 1>>, "resting", 0, <<>>, TRUE, 0, FALSE)

WholeView == [x0 |-> 0, y0 |-> 0, x1 |-> 3, y1 |-> 4, camera |-> <<0, 64>>]
NearView  == [x0 |-> 1, y0 |-> 1, x1 |-> 2, y1 |-> 3, camera |-> <<180, 32>>]

Option(zoom, labels, overlays, hover, preview) ==
  [zoom |-> zoom, labels |-> labels, power |-> overlays, temperature |-> overlays, debug |-> overlays,
   hover |-> hover, chosen |-> worker, preview |-> preview, drag |-> "nobody"]
Plain   == Option("near", FALSE, FALSE, {<<1, 1>>}, <<>>)
Asked   == Option("far", TRUE, TRUE, {}, <<<<2, 2>>, <<0, 1>>>>)
FromFar == Option("low", TRUE, FALSE, {<<2, 2>>}, <<>>)

Frames == INSTANCE LocalLayers WITH
  Offices <- {TeamRoom, Lounge}, Views <- {WholeView, NearView}, Options <- {Plain, Asked, FromFar},
  Painting <- FALSE, Agents <- {worker}, Ways <- {AtTheDoor, Working, WalkingOff, GoneHome},
  Screen <- [w |-> 200, h |-> 150], TipSize <- [w |-> 120, h |-> 45], Pool <- 2, Isometric <- TRUE,
  world <- office, layer <- kept
Opening == INSTANCE LocalLayers WITH
  Offices <- {TeamRoom}, Views <- {WholeView, NearView}, Options <- {Plain},
  Painting <- FALSE, Agents <- {worker}, Ways <- {AtTheDoor, WalkingOff},
  Screen <- [w |-> 200, h |-> 150], TipSize <- [w |-> 120, h |-> 45], Pool <- 0, Isometric <- TRUE,
  world <- office, layer <- kept
Painted == INSTANCE LocalLayers WITH
  Offices <- {TeamRoom}, Views <- {WholeView}, Options <- {Asked},
  Painting <- TRUE, Agents <- {worker}, Ways <- {AtTheDoor},
  Screen <- [w |-> 200, h |-> 150], TipSize <- [w |-> 120, h |-> 45], Pool <- 0, Isometric <- TRUE,
  world <- office, layer <- kept

---------------------------------------------------------------------------
ASSUME Bounds ==
  /\ Land!SceneAssumption
  /\ Alone!FiguresAssumption /\ Pair!FiguresAssumption /\ Leaving!FiguresAssumption

landVars == <<world, opts, kit, rev, known, seen, settled, layer, fades, covered, framed, changes>>
figureVars == <<roster, unit, revealed, selected, colour, models, entries, ghosts, ribbons, signed, stepped, events>>
officeVars == <<office, kept, atlas, waiting, doors, units, view, option, pool>>

(* A part at rest has one initial state.                                    *)
Init ==
  /\ part \in Parts
  /\ CASE part = "town" -> Town!Init [] part = "loading" -> Loading!Init [] OTHER -> Land!Init
  /\ CASE part = "pair" -> Pair!Init [] OTHER -> Alone!Init
  /\ CASE part = "frames" -> Frames!Init [] part = "doors" -> Opening!Init [] OTHER -> Painted!Init

Rest(others) == UNCHANGED <<part, others>>

Next ==
  \/ part = "land" /\ Land!Next /\ Rest(<<figureVars, officeVars>>)
  \/ part = "town" /\ Town!Next /\ Rest(<<figureVars, officeVars>>)
  \/ part = "loading" /\ Loading!Next /\ Rest(<<figureVars, officeVars>>)
  \/ part = "alone" /\ Alone!Next /\ Rest(<<landVars, officeVars>>)
  \/ part = "pair" /\ Pair!Next /\ Rest(<<landVars, officeVars>>)
  \/ part = "leaving" /\ Leaving!Next /\ Rest(<<landVars, officeVars>>)
  \/ part = "frames" /\ Frames!Next /\ Rest(<<landVars, figureVars>>)
  \/ part = "doors" /\ Opening!Next /\ Rest(<<landVars, figureVars>>)
  \/ part = "painted" /\ Painted!Next /\ Rest(<<landVars, figureVars>>)

vars == <<part, landVars, figureVars, officeVars>>

Spec == Init /\ [][Next]_vars

(* Frames go on as long as the page is shown.                               *)
InLeaving(A) == part = "leaving" /\ A
InDoors(A) == part = "doors" /\ A
FairSpec ==
  Spec /\ WF_figureVars(InLeaving(Leaving!updateHexWorldScene)) /\ WF_officeVars(InDoors(Opening!Frame))

---------------------------------------------------------------------------
(* After a frame every layer of the land shows the land as it is, however   *)
(* it was painted, erased, revealed, built on or loaded: a layer that keeps *)
(* its picture keeps the right one. Only the mesh may be gone when its      *)
(* atlas failed, and the decor may be behind when a city moved or a wonder  *)
(* came. No hex shows two shapes of one thing while cities and wonders      *)
(* stay, and every town has one ring of walls (three/HexWorldScene.ts).     *)
LandShown ==
  /\ part = "land" => Land!TypeOK /\ Land!ReliefShown /\ Land!DecorShown
  /\ part = "town" => Town!SettlementShown /\ Town!ReliefShown /\ Town!DecorFollowsTheLand
  /\ part = "loading" => Loading!OneModelPerHex /\ Loading!OneRing

(* After a frame a figurine stands where its unit does, on the slot that    *)
(* clicks compute, walks the route its unit has, with a ribbon along what   *)
(* is left of it (three/UnitMesh3D.ts, unitStack.ts, UnitPathRibbon3D.ts).  *)
FiguresFollow ==
  /\ part = "alone" => Alone!TypeOK /\ Alone!StandsWhereItIs
  /\ part = "pair" => Pair!StandsWhereItIs /\ Pair!WalksItsRoute /\ Pair!RibbonsAhead /\ Pair!SlotsAgree

(* A desk is named once, and a tooltip does not leave the screen sideways   *)
(* (isoLocalRenderer.ts).                                                   *)
NamesFit ==
  /\ part = "frames" => Frames!TypeOK /\ Frames!NamedOnce /\ Frames!TooltipOnScreen
  /\ part = "painted" => Painted!TypeOK

(* A frame of the office draws each thing once and shows the office as it   *)
(* is, whichever layer it kept; a figurine that gets its model does not     *)
(* appear again; and a cloud over a hex fades before it is gone             *)
(* (localRenderer.ts, UnitMesh3D.ts, FogTransition3D.ts).                   *)
EachThingOnce ==
  [][/\ part = "frames" => Frames!EachThingOnce /\ Frames!ShowsTheOffice
     /\ part = "alone" => Alone!SwapKeepsLife
     /\ part = "land" => Land!CloudsFade]_vars

(* The figurine of a unit that left goes away, and a door gets open for who *)
(* stays by it and shut when everybody left (UnitMesh3D.ts,                 *)
(* isoLocalRenderer.ts).                                                    *)
Stays(t) == part = "doors" /\ Opening!Stayed(t)
Left(t) == part = "doors" /\ Opening!Left(t)
TheDoor == {t \in TeamGrid : TeamRoom.kind[t] = "door"}
Absent == part = "leaving" /\ "u" \notin Leaving!OnMap
Catches ==
  /\ [](Absent => <>(~Absent \/ entries["u"].life = "none"))
  /\ \A t \in TheDoor : (<>[]Stays(t) => <>[]Opening!Open(t)) /\ (<>[]Left(t) => <>[]Opening!Shut(t))
=============================================================================
