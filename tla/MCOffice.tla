------------------------------ MODULE MCOffice ------------------------------
(***************************************************************************)
(* The office of a repository: how its floor is planned and drawn, how one *)
(* walks it, and the life of the agents in it.  A behaviour is one of      *)
(* these (part) while the others rest.                                     *)
(***************************************************************************)
EXTENDS Integers, Sequences, SequencesExt, FiniteSets, TLC

CONSTANT Parts    \* the parts that are checked

VARIABLES
  part,
  viewMode, localWorld, pending, wanted, office, changes,
  total, size, rooms, planned, pass, turn, floor,
  grid, search, desks, open, known, cameFrom, closed, fallback, result

(* Two agents and a sub-agent with two desks and one bed: at work, at rest, *)
(* with two offices, and with a sub-agent that ends.                        *)
Both(repos) == [r \in repos |-> {1, 2}]
Team == INSTANCE OfficeLife WITH
  Repos <- {"A"}, Desks <- {1, 2}, DesksOf <- Both({"A"}), Open <- Both({"A"}), Beds <- 1,
  Agents <- {"hero", "ana"}, Subagents <- {"sub"}, Parent <- "hero", Hero <- "hero",
  Missions <- {1, 2}, FileDesk <- <<1, 2>>, Score <- <<9, 8>>,
  Changes <- {"enter", "leave", "mission", "byId", "subagent"}, MaxChanges <- 6
Sleepers == INSTANCE OfficeLife WITH
  Repos <- {"A"}, Desks <- {1, 2}, DesksOf <- Both({"A"}), Open <- Both({"A"}), Beds <- 1,
  Agents <- {"hero", "ana"}, Subagents <- {"sub"}, Parent <- "hero", Hero <- "hero",
  Missions <- {1, 2}, FileDesk <- <<1, 2>>, Score <- <<9, 8>>,
  Changes <- {"enter", "tire", "mission"}, MaxChanges <- 3
Solo == INSTANCE OfficeLife WITH
  Repos <- {"A", "B"}, Desks <- {1, 2}, DesksOf <- Both({"A", "B"}), Open <- Both({"A", "B"}), Beds <- 1,
  Agents <- {"hero"}, Subagents <- {}, Parent <- "hero", Hero <- "hero",
  Missions <- {1, 2}, FileDesk <- <<1, 2>>, Score <- <<9, 8>>,
  Changes <- {"enter", "mission", "byId", "dispatch", "tire"}, MaxChanges <- 4
Ephemeral == INSTANCE OfficeLife WITH
  Repos <- {"A"}, Desks <- {1, 2}, DesksOf <- Both({"A"}), Open <- Both({"A"}), Beds <- 1,
  Agents <- {"hero"}, Subagents <- {"sub"}, Parent <- "hero", Hero <- "hero",
  Missions <- {1}, FileDesk <- <<1>>, Score <- <<9>>,
  Changes <- {"enter", "leave", "subagent", "mission"}, MaxChanges <- 3

(* Up to five folders in a small grid; a folder of each name drawn to the   *)
(* end; three folders of teams side by side; and two folders in a grid so   *)
(* small that rooms overlap, touch and reach below it; and one repository   *)
(* whose last folder, of tests, reaches below the grid.                     *)
Plan == INSTANCE OfficeFloor WITH
  MinGrid <- 24, Names <- {"src"}, FileCounts <- {1, 2, 3, 12}, Totals <- {60}, MaxFolders <- 5
Zones == INSTANCE OfficeFloor WITH
  MinGrid <- 30, FileCounts <- {1, 4}, Totals <- {5}, MaxFolders <- 1,
  Names <- {"src", "docs", "tests", "scripts", "build", "examples", "assets", "barracks"}
Teams == INSTANCE OfficeFloor WITH
  MinGrid <- 30, Names <- {"src"}, FileCounts <- {1, 3, 12}, Totals <- {36}, MaxFolders <- 3
Crowded == INSTANCE OfficeFloor WITH
  MinGrid <- 25, Names <- {"build", "tests"}, FileCounts <- {1, 3, 6, 12}, Totals <- {24}, MaxFolders <- 2
Tight == INSTANCE OfficeFloor WITH
  MinGrid <- 40, Names <- {"src", "tests"}, FileCounts <- {1, 6, 12}, Totals <- {72}, MaxFolders <- 6
TightFolders == <<1, 6, 12, 12, 1, 6>>
OfTight ==
  LET n == Len(rooms)
  IN n \in DOMAIN TightFolders =>
       ~planned' /\ rooms'[n + 1].files = TightFolders[n] /\ (rooms'[n + 1].name = "tests" <=> n = 6)

(* Every office of three by three tiles of floor and wall; every one of     *)
(* three by two of paths, walls and conduits, which are not in the table of *)
(* costs, with two desks that may be another's.                             *)
Square == (0 .. 2) \X (0 .. 2)
Oblong == (0 .. 2) \X (0 .. 1)
Ways == INSTANCE OfficePaths WITH
  Width <- 3, Height <- 3, Layouts <- [Square -> {"floor", "wall"}], Desks <- {}, Searches <- {"path"}
Benches == INSTANCE OfficePaths WITH
  Width <- 3, Height <- 2, Layouts <- [Oblong -> {"conduit", "path", "wall"}], Desks <- {<<1, 1>>, <<2, 0>>},
  Searches <- {"desk"}
Still == INSTANCE OfficePaths WITH
  Width <- 3, Height <- 2, Layouts <- [Oblong -> {"floor"}], Desks <- {}, Searches <- {"desk"}

ASSUME Bounds ==
  /\ Team!OfficeAssumption /\ Sleepers!OfficeAssumption /\ Solo!OfficeAssumption /\ Ephemeral!OfficeAssumption
  /\ Plan!PlanAssumption /\ Zones!PlanAssumption /\ Teams!PlanAssumption /\ Crowded!PlanAssumption /\ Tight!PlanAssumption
  /\ Ways!PathAssumption /\ Benches!PathAssumption

lifeVars == <<viewMode, localWorld, pending, wanted, office, changes>>
floorVars == <<total, size, rooms, planned, pass, turn, floor>>
pathVars == <<grid, search, desks, open, known, cameFrom, closed, fallback, result>>

(* A part at rest has one initial state.                                    *)
Init ==
  /\ part \in Parts
  /\ CASE part = "sleepers" -> Sleepers!Init [] part = "solo" -> Solo!Init
       [] part = "ephemeral" -> Ephemeral!Init [] OTHER -> Team!Init
  /\ CASE part = "zones" -> Zones!Init [] part = "teams" -> Teams!Init
       [] part = "crowded" -> Crowded!Init [] part = "tight" -> Tight!Init [] OTHER -> Plan!Init
  /\ CASE part = "ways" -> Ways!Init [] part = "benches" -> Benches!Init [] OTHER -> Still!Init

Rest(others) == UNCHANGED <<part, others>>

Next ==
  \/ part = "team" /\ Team!Next /\ Rest(<<floorVars, pathVars>>)
  \/ part = "sleepers" /\ Sleepers!Next /\ Rest(<<floorVars, pathVars>>)
  \/ part = "solo" /\ Solo!Next /\ Rest(<<floorVars, pathVars>>)
  \/ part = "ephemeral" /\ Ephemeral!Next /\ Rest(<<floorVars, pathVars>>)
  \/ part = "plan" /\ Plan!PlanNext /\ Rest(<<pass, turn, floor, lifeVars, pathVars>>)
  \/ part = "zones" /\ Zones!Next /\ Rest(<<lifeVars, pathVars>>)
  \/ part = "teams" /\ Teams!Next /\ Rest(<<lifeVars, pathVars>>)
  \/ part = "crowded" /\ Crowded!Next /\ Rest(<<lifeVars, pathVars>>)
  \/ part = "tight" /\ Tight!Next /\ OfTight /\ Rest(<<lifeVars, pathVars>>)
  \/ part = "ways" /\ Ways!Next /\ Rest(<<lifeVars, floorVars>>)
  \/ part = "benches" /\ Benches!Next /\ Rest(<<lifeVars, floorVars>>)

vars == <<part, lifeVars, floorVars, pathVars>>

Spec == Init /\ [][Next]_vars

(* The office ticks, and the offices that are asked for come.               *)
InSolo(A) == part = "solo" /\ A
InEphemeral(A) == part = "ephemeral" /\ A
FairSpec ==
  /\ Spec
  /\ WF_lifeVars(InSolo(Solo!tick) \/ InEphemeral(Ephemeral!tick))
  /\ \A i \in 1 .. 3 : WF_lifeVars(\/ InSolo(Solo!generateLocalWorldFromApi(i))
                                   \/ InEphemeral(Ephemeral!generateLocalWorldFromApi(i)))

---------------------------------------------------------------------------
(* A desk that is taken is taken by someone in the office who has no other, *)
(* a new mission takes the place of the one a unit is on, and no more units *)
(* go to rest than there are beds, also while a mission calls one of them   *)
(* away (localWorldManager.ts).                                             *)
OfficeHolds ==
  /\ part = "team" => Team!TypeOK /\ Team!DesksAreHeld /\ Team!OneMissionEach
  /\ part = "sleepers" => Sleepers!TypeOK /\ Sleepers!BedsHold /\ Sleepers!DesksAreHeld /\ Sleepers!OneMissionEach
  /\ part = "solo" => Solo!TypeOK /\ Solo!BedsHold

(* Every shelf is opened by a room that fits, below all the others; the     *)
(* rooms of a shelf are three tiles apart, and a room is sized so that its  *)
(* files, twelve at most, find a seat; the wall of a room no other overlaps *)
(* has doors, windows and vents in it and nothing else; devices and beds    *)
(* that are counted are where the office says; and from a desk of a team    *)
(* one can walk to the teams next to it (localMap.ts, officeLayout.ts).     *)
FloorStands ==
  /\ part = "plan" => Plan!ShelvesOpenInGrid /\ Plan!ShelfSpacing
  /\ part = "crowded" => Crowded!ShelvesOpenInGrid /\ Crowded!WallsStand /\ Crowded!DevicesStand
  /\ part = "zones" => Zones!SeatsAsSized /\ Zones!WallsStand /\ Zones!DevicesStand
  /\ part = "teams" => Teams!SeatsAsSized /\ Teams!TeamsReachable

(* No folder is left without a room, however full the grid was, and no pass *)
(* takes a desk or its chair away (localMap.ts, buildLocalWorld).           *)
FloorGrows ==
  [][/\ part = "plan" => Plan!EveryFolderHasARoom
     /\ part = "zones" => Zones!DesksSurvive
     /\ part = "teams" => Teams!DesksSurvive
     /\ part = "crowded" => Crowded!DesksSurvive
     /\ part = "tight" => Tight!EveryFolderHasARoom /\ Tight!DesksSurvive]_vars

(* A path goes from the start to the goal a tile at a time and over no      *)
(* wall, there is none only when the way is blocked, and the desk that is   *)
(* found is the nearest by walking of those others do not have              *)
(* (localPathfinding.ts).                                                   *)
PathIsAWay ==
  /\ part = "ways" => Ways!PathIsAWay /\ Ways!NoneOnlyWhenBlocked
  /\ part = "benches" => Benches!NearestByWalking

(* The mission a unit is on comes to an end if the unit is not sent to bed, *)
(* and a sub-agent whose end was announced leaves the office, if the user   *)
(* stays to see it (localWorldManager.ts).                                  *)
Walks(m) == part = "solo" /\ Solo!OnIt(m)
Fades == part = "ephemeral" /\ office.unit["sub"].fade > 0 /\ Ephemeral!Here("sub") /\ viewMode # "macro"
MissionsEnd ==
  /\ \A m \in {1, 2} : Walks(m) ~> (~Walks(m) \/ Solo!Abed(m))
  /\ Fades ~> ~Fades
=============================================================================
