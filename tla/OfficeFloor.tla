---------------------------- MODULE OfficeFloor -----------------------------
(* The floor of the office of a repository (localMap.ts): once the rooms are *)
(* placed, one pass after another draws on the same grid of tiles: walls,    *)
(* desks, furniture, corridors, conduits, beds, heaters. Later passes take   *)
(* only tiles that are still free.                                           *)
EXTENDS Integers, FiniteSets, SequencesExt

(* The rooms of the office of a repository (localMap.ts): a lobby sized by   *)
(* the files of the repository, then a room for every folder with files,     *)
(* the deepest first and the root last, packed on shelves from the top.      *)

(* How the desks of a room are laid out (officeLayout.ts). A cell is a pair  *)
(* <<x, y>>, a room a record with its corner and size; what is laid out is a *)
(* sequence of placements, of which the first on a cell counts.              *)
MAX_DESKS_PER_ROOM == 12
MIN_AISLE_WIDTH == 2

least(a, b) == IF a < b THEN a ELSE b
most(a, b) == IF a > b THEN a ELSE b
Below(c) == <<c[1], c[2] + 1>>

(* A room, and its inside: what its walls of one tile enclose. *)
box(x0, y0, x1, y1) == [x0 |-> x0, y0 |-> y0, x1 |-> x1, y1 |-> y1]
inside(r) == box(r.x + 1, r.y + 1, r.x + r.w - 2, r.y + r.h - 2)
cellsOf(b) == {<<x, y>> : x \in b.x0 .. b.x1, y \in b.y0 .. b.y1}
innerW(b) == b.x1 - b.x0 + 1
innerH(b) == b.y1 - b.y0 + 1
(* Its cells row by row. *)
rowMajor(b) ==
  [i \in 1 .. innerW(b) * innerH(b) |-> <<b.x0 + ((i - 1) % innerW(b)), b.y0 + ((i - 1) \div innerW(b))>>]

---------------------------------------------------------------------------
(* What a tile is; a room may reach below the grid, where there are none.    *)
has(t, c, type) == c \in DOMAIN t /\ t[c] = type

(* The grid of desks: columns two apart, mirrored around an aisle when the   *)
(* room is wide; rows three apart: desk, chair, walkway.                     *)
teamClusterCols(w) ==
  LET a0 == (w \div 2) - 1
      a1 == a0 + MIN_AISLE_WIDTH - 1
  IN {x \in 1 .. w - 2 : IF w >= 7 THEN \/ (x <= a0 - 2 /\ (a0 - 2 - x) % 2 = 0)
                                       \/ (x >= a1 + 2 /\ (x - a1 - 2) % 2 = 0)
                         ELSE x % 2 = 1}
teamClusterRows(h) ==
  LET n == ((h - 4) \div 3) + 1
      start == 1 + ((h - 2 - (3 * n - 1)) \div 2)
  IN IF h < 4 THEN {} ELSE {start + 3 * i : i \in 0 .. n - 1}
teamClusterCapacity(w, h) ==
  IF w < 4 \/ h < 3 THEN 0 ELSE Cardinality(teamClusterCols(w)) * Cardinality(teamClusterRows(h))

at(c, t) == [at |-> c, t |-> t, wb |-> 0]
deskAt(c, i) == [at |-> c, t |-> "workbench", wb |-> i]
layout(places, desks) == [places |-> places, deskCount |-> desks]
AllAt(cells, t) == [i \in DOMAIN cells |-> at(cells[i], t)]

(* The files of the room sit down in the grid, twelve at most. *)
layoutTeamCluster(b, files) ==
  LET seats == SelectSeq(rowMajor(b), LAMBDA c : /\ c[1] - b.x0 \in teamClusterCols(innerW(b))
                                                /\ c[2] - b.y0 \in teamClusterRows(innerH(b)))
      n == least(Len(seats), least(files, MAX_DESKS_PER_ROOM))
      mid == b.x0 + (innerW(b) \div 2)
      aisle == IF innerW(b) >= 7 THEN rowMajor(box(mid - 1, b.y0, mid, b.y1)) ELSE <<>>
  IN layout(AllAt(aisle, "aisle") \o FlattenSeq([i \in 1 .. n |-> <<deskAt(seats[i], i), at(Below(seats[i]), "chair")>>]), n)

(* A pod of four by four with partitions on three sides; a desk with its     *)
(* chair, and the other files on what the aisle and the partitions leave.    *)
layoutFocusPod(b, files) ==
  LET pw == least(4, innerW(b))
      ph == least(4, innerH(b))
      x0 == b.x0 + ((innerW(b) - pw) \div 2)
      y0 == b.y0 + ((innerH(b) - ph) \div 2)
      p == box(x0, y0, x0 + pw - 1, y0 + ph - 1)
      partitions == SelectSeq(rowMajor(p), LAMBDA c : c[2] = p.y0 \/ c[1] \in {p.x0, p.x1})
      aisle == rowMajor(box(p.x0 + 1, p.y1, p.x1 - 1, p.y1))
      first == <<p.x0 + (pw \div 2), p.y0 + 1>>
      more == SelectSeq(rowMajor(box(p.x0 + 1, p.y0 + 1, p.x1 - 1, p.y1 - 1)), LAMBDA c : c # first)
      n == least(Len(more), files - 1)
  IN layout(AllAt(partitions, "cubicle_partition") \o AllAt(aisle, "aisle")
              \o <<deskAt(first, 1), at(Below(first), "chair")>> \o [i \in 1 .. n |-> deskAt(more[i], i + 1)],
            n + 1)

(* An aisle through the reception; no desks. *)
layoutReception(b) ==
  LET cx == b.x0 + ((b.x1 - b.x0) \div 2)
  IN layout(AllAt(rowMajor(box(cx - 1, b.y0, cx, b.y1)), "aisle"), 0)

(* Rooms too small for a grid: every other floor tile, then the rest. *)
layoutFallback(floors, files) ==
  LET even == SelectSeq(floors, LAMBDA c : (c[1] + c[2]) % 2 = 0)
      odd == SelectSeq(floors, LAMBDA c : (c[1] + c[2]) % 2 # 0)
      seats == SubSeq(even \o odd, 1, least(Len(floors), files))
  IN layout([i \in 1 .. Len(seats) |-> deskAt(seats[i], i)], Len(seats))

layoutOfficeRoom(tile, r) ==
  LET b == inside(r)
      floors == SelectSeq(rowMajor(b), LAMBDA c : has(tile, c, "floor"))
      grid == IF teamClusterCapacity(innerW(b), innerH(b)) = 0 THEN layoutFallback(floors, r.files)
              ELSE layoutTeamCluster(b, r.files)
  IN IF innerW(b) < 4 \/ innerH(b) < 3 THEN layoutFallback(floors, r.files)
     ELSE IF r.zone = "reception" THEN layoutReception(b)
     ELSE IF r.zone = "focus" /\ r.files <= 6 THEN layoutFocusPod(b, r.files)
     ELSE IF r.files = 0 THEN layout(<<>>, 0) ELSE grid

(* What is laid out goes on floor and paths only; the workbench of a desk    *)
(* goes with its tile.                                                       *)
applyOfficeLayout(g, r) ==
  LET l == layoutOfficeRoom(g.tile, r)
      put(f, p) ==
        IF p.at \notin DOMAIN f.tile \/ f.tile[p.at] \notin {"floor", "path"} THEN f
        ELSE [f EXCEPT !.tile[p.at] = p.t,
                       !.desks = IF p.wb > 0 THEN @ \cup {[at |-> p.at, room |-> r.id, wb |-> p.wb]} ELSE @]
  IN [FoldLeft(put, g, l.places) EXCEPT !.planned[r.id] = l.deskCount]

---------------------------------------------------------------------------
CONSTANTS
  MinGrid,      \* MIN_GRID: 60
  Names,        \* names of folders
  FileCounts,   \* numbers of files of a folder
  Totals,       \* numbers of files of the repository
  MaxFolders    \* folders of a repository

\* A repository has the files of all its folders, so that any of these may
\* stand side by side. The files of a folder inside another count for both,
\* which makes no sequence of folders that is not there already.
PlanAssumption ==
  /\ MinGrid \in Nat /\ MinGrid >= 20 /\ FileCounts \subseteq Nat \ {0} /\ MaxFolders \in Nat
  /\ \A n \in FileCounts, t \in Totals : MaxFolders * n <= t

VARIABLES
  total,      \* files of the repository
  size,       \* width and height of the grid
  rooms,      \* the rooms placed so far
  planned     \* TRUE when the root has its room

planVars == <<total, size, rooms, planned>>

SHELF_SPACE == 3
MIN_ROOM_SIZE == 4
REST_NAMES == {"bedroom", "barracks", "sleep", "rest"}

(* The kind of room a folder gets. *)
classifyFolderZone(name) ==
  CASE name = "docs" -> "meeting"
    [] name = "tests" -> "focus"
    [] name \in {"scripts", "build"} -> "infra"
    [] name = "examples" -> "break"
    [] name = "assets" -> "biophilic"
    [] name = "/" -> "reception"
    [] OTHER -> "team_cluster"

(* The smallest room, grown one side at a time, that seats the files. *)
computeRoomSize(files) ==
  LET seats(n) == teamClusterCapacity(((n + 1) \div 2) + MIN_ROOM_SIZE - 2, (n \div 2) + MIN_ROOM_SIZE - 2)
      n == CHOOSE k \in 0 .. 40 : /\ seats(k) >= least(files, MAX_DESKS_PER_ROOM)
                                  /\ \A j \in 0 .. k - 1 : seats(j) < least(files, MAX_DESKS_PER_ROOM)
  IN [w |-> MIN_ROOM_SIZE + ((n + 1) \div 2), h |-> MIN_ROOM_SIZE + (n \div 2)]
lobbySize(files) ==
  LET enough == {w \in 8 .. 13 : 10 * w * w >= 6 * files} \cup {14}
      w == CHOOSE x \in enough : \A y \in enough : x <= y
  IN [w |-> w, h |-> most(6, least(10, (4 * files + 10 * w - 1) \div (10 * w)))]

(* First fit: at the end of a shelf, from the top one down, or below all of  *)
(* them. Rooms of a shelf have one y. <<>> when nothing fits.                *)
placeRoom(rs, g, s) ==
  LET shelves == {rs[i].y : i \in DOMAIN rs}
      on(y) == {rs[i] : i \in {j \in DOMAIN rs : rs[j].y = y}}
      end(y) == CHOOSE x \in {r.x + r.w + SHELF_SPACE : r \in on(y)} : \A r \in on(y) : x >= r.x + r.w + SHELF_SPACE
      open == {y \in shelves : end(y) + s.w <= g.w - 1}
      top == CHOOSE y \in open : \A z \in open : y <= z
      ends == {rs[i].y + rs[i].h + SHELF_SPACE : i \in DOMAIN rs} \cup {1}
      below == CHOOSE y \in ends : \A z \in ends : y >= z
  IN IF open # {} THEN <<end(top), top>> ELSE IF below + s.h <= g.h - 1 THEN <<1, below>> ELSE <<>>

\* Slip of expandGrid: the grid grows by the room alone, without its margin.
GrowsByTheRoom(g, s) == [g EXCEPT !.h = @ + s.h]

expandGrid(g, s) == [g EXCEPT !.h = most(2 * @, @ + s.h + 10)]

\* Slip of makeRoom: the size, walls included, gets the walls once more.
AddsTheWallsAgain(name, files, s, c, i) ==
  [id |-> i, name |-> name, zone |-> classifyFolderZone(name), x |-> c[1], y |-> c[2], w |-> s.w + 2, h |-> s.h + 2,
   files |-> least(files, s.w * s.h)]

makeRoom(name, files, s, c, i) ==
  [id |-> i, name |-> name, zone |-> classifyFolderZone(name), x |-> c[1], y |-> c[2], w |-> s.w, h |-> s.h,
   files |-> least(files, (s.w - 2) * (s.h - 2))]

(* A room that does not fit makes the grid higher, and is tried once more. *)
addRoom(name, files, s) ==
  LET first == placeRoom(rooms, size, s)
      grown == IF first = <<>> THEN expandGrid(size, s) ELSE size
      c == IF first = <<>> THEN placeRoom(rooms, grown, s) ELSE first
  IN /\ size' = grown
     /\ rooms' = IF c = <<>> THEN rooms ELSE Append(rooms, makeRoom(name, files, s, c, Len(rooms) + 1))

PlaceLobby ==
  /\ rooms = <<>> /\ LET s == lobbySize(total) IN addRoom("/", 0, s)
  /\ UNCHANGED <<total, planned>>
PlaceFolder(name, files) ==
  /\ Len(rooms) \in 1 .. MaxFolders /\ ~planned
  /\ addRoom(name, files, computeRoomSize(files)) /\ UNCHANGED <<total, planned>>
PlaceRoot ==
  /\ rooms # <<>> /\ ~planned /\ addRoom("repo", total, computeRoomSize(total))
  /\ planned' = TRUE /\ UNCHANGED total

PlanInit ==
  /\ total \in Totals /\ size = [w |-> most(10, MinGrid), h |-> most(10, MinGrid)] /\ rooms = <<>> /\ planned = FALSE
PlanNext == PlaceLobby \/ PlaceRoot \/ \E name \in Names, files \in FileCounts : PlaceFolder(name, files)

---------------------------------------------------------------------------
(* Properties. *)
Cells(r) == (r.x .. r.x + r.w - 1) \X (r.y .. r.y + r.h - 1)

(* localMap.ts, placeRoom: a shelf is opened three tiles below every room    *)
(* there is, by a room that fits above the lower edge of the grid; and no    *)
(* room reaches the right edge.                                              *)
ShelvesOpenInGrid ==
  \A i \in DOMAIN rooms :
    LET r == rooms[i]
        opens == \A j \in 1 .. i - 1 : rooms[j].y # r.y
    IN /\ r.x >= 1 /\ r.y >= 1 /\ r.x + r.w <= size.w - 1
       /\ opens => /\ r.y + r.h <= size.h - 1
                   /\ \A j \in 1 .. i - 1 : rooms[j].y + rooms[j].h + SHELF_SPACE <= r.y

(* localMap.ts, buildLocalWorld: no folder is left without a room, however   *)
(* full the grid was.                                                        *)
EveryFolderHasARoom == planVars' # planVars => Len(rooms') = Len(rooms) + 1

(* Rooms of one shelf leave the three tiles a corridor takes between them.   *)
ShelfSpacing ==
  \A i, j \in DOMAIN rooms :
    (i < j /\ rooms[i].y = rooms[j].y) => rooms[i].x + rooms[i].w + SHELF_SPACE <= rooms[j].x

---------------------------------------------------------------------------
(* What a document, a comment or a test says and this code does not keep    *)
(* (README, "Where the code differs").                                      *)

(* localMap.test.ts:17, "rooms do not overlap". *)
apart(r, s) == r.x + r.w <= s.x \/ s.x + s.w <= r.x \/ r.y + r.h <= s.y \/ s.y + s.h <= r.y
RoomsApart == \A i, j \in DOMAIN rooms : i # j => apart(rooms[i], rooms[j])

(* localMap.test.ts:34, "all rooms are within world bounds". A room is put   *)
(* on a shelf for its width alone, however near the lower edge that is.      *)
RoomsInGrid == \A i \in DOMAIN rooms : rooms[i].y + rooms[i].h <= size.h

---------------------------------------------------------------------------
VARIABLES
  pass,    \* the pass that is being done
  turn,    \* rooms it has done
  floor    \* tile, desks, planned (desks per room), npcs, rests and climate

vars == <<planVars, pass, turn, floor>>
CONDUIT_SPACING == 4

Grid == (0 .. size.w - 1) \X (0 .. size.h - 1)
Walls(r) == {c \in Cells(r) : c[1] \in {r.x, r.x + r.w - 1} \/ c[2] \in {r.y, r.y + r.h - 1}}
Around(c) == {<<c[1] - 1, c[2]>>, <<c[1] + 1, c[2]>>, <<c[1], c[2] - 1>>, <<c[1], c[2] + 1>>}
Center(r) == <<r.x + (r.w \div 2), r.y + (r.h \div 2)>>
Corners(b) == <<<<b.x0, b.y0>>, <<b.x1, b.y0>>, <<b.x0, b.y1>>, <<b.x1, b.y1>>>>
middle(s) == s[(Len(s) \div 2) + 1]

(* One tile of furniture, on free floor only. *)
place(t, c, type) == IF c \in DOMAIN t /\ t[c] = "floor" THEN [t EXCEPT ![c] = type] ELSE t
placeAll(t, cells, type) == FoldLeft(LAMBDA u, c : place(u, c, type), t, cells)

emptyGrid ==
  [tile |-> [c \in Grid |-> "floor"], desks |-> {}, planned |-> [i \in DOMAIN rooms |-> 0],
   npcs |-> {}, rests |-> {}, climate |-> {}]
buildGrid(f, r) ==
  [f EXCEPT !.tile = [c \in DOMAIN @ |-> IF c \in Walls(r) THEN "wall" ELSE IF c \in Cells(r) THEN "floor" ELSE @[c]]]
layoutOfficeRooms(f, r) == IF r.files = 0 /\ r.zone # "reception" THEN f ELSE applyOfficeLayout(f, r)

---------------------------------------------------------------------------
(* Furniture, by the zone of a room. The floors of a room are those that are *)
(* free when its turn comes.                                                 *)

facing(t, floors, dy) == SelectSeq(floors, LAMBDA c : <<c[1], c[2] + dy>> \in DOMAIN t /\ t[<<c[1], c[2] + dy>>] = "wall")
boards(t, floors) == IF facing(t, floors, -1) # <<>> THEN facing(t, floors, -1) ELSE facing(t, floors, 1)
whiteboard(t, floors) == IF boards(t, floors) = <<>> THEN t ELSE place(t, middle(boards(t, floors)), "whiteboard")

(* Every other tile of the north and of the west wall is glass. *)
placeWallWindows(t, r) ==
  [c \in DOMAIN t |->
    IF t[c] = "wall" /\ \/ (c[2] = r.y /\ c[1] \in r.x + 1 .. r.x + r.w - 2 /\ (c[1] - r.x) % 2 = 1)
                        \/ (c[1] = r.x /\ c[2] \in r.y + 1 .. r.y + r.h - 2 /\ (c[2] - r.y) % 2 = 1)
    THEN "window" ELSE t[c]]

(* A whiteboard, the manager in front of it, and on the walkway a cooler and *)
(* planters in the corners, but not where the manager stands.                *)
furnishTeam(f, r, floors) ==
  LET b == inside(r)
      board == boards(f.tile, floors)
      north == facing(f.tile, floors, -1)
      hung == whiteboard(f.tile, floors)
      spot == IF board = <<>> THEN {} ELSE
              LET c == middle(board)
                  s == <<c[1], IF c[2] = b.y0 THEN c[2] + 1 ELSE c[2] - 1>>
              IN IF s \in DOMAIN hung /\ hung[s] = "floor" THEN {s} ELSE {}
      free(c) == c \notin spot
      cooled == IF Len(north) > 1 /\ free(north[Len(north) - 1]) THEN place(hung, north[Len(north) - 1], "watercooler") ELSE hung
  IN [f EXCEPT !.tile = placeAll(cooled, SelectSeq(Corners(b), free), "planter"),
               !.npcs = @ \cup {[room |-> r.id, at |-> c] : c \in spot}]

furnishMeeting(t, r, floors) ==
  LET c == middle(floors)
      one == place(t, c, "meeting_room")
      two == IF Len(floors) > 6 THEN place(one, <<c[1] + 1, c[2]>>, "meeting_room") ELSE one
  IN placeWallWindows(whiteboard(two, floors), r)
furnishFocus(t, r, floors) ==
  LET corners == SelectSeq(Corners(inside(r)), LAMBDA c : has(t, c, "floor"))
      booths == placeAll(t, SubSeq(corners, 1, least(2, Len(corners))), "phone_booth")
      wall == boards(booths, floors)
  IN IF wall = <<>> THEN booths ELSE place(booths, wall[1], "whiteboard")
furnishBreak(t, floors) ==
  LET cooled == place(t, middle(floors), "watercooler")
      north == facing(cooled, floors, -1)
      counter == place(cooled, IF north # <<>> THEN middle(north) ELSE floors[1], "break_area")
      green == IF Len(floors) > 1 THEN place(counter, floors[2], "planter") ELSE counter
      south == SelectSeq(IF facing(green, floors, 1) = <<>> THEN floors ELSE facing(green, floors, 1), LAMBDA c : TRUE)
      k == ((Len(south) - 2) \div 2) + 1
      pair == Len(facing(green, floors, 1)) >= 2 /\ green[south[k]] = "floor" /\ green[south[k + 1]] = "floor"
      single == SelectSeq(south, LAMBDA c : green[c] = "floor")
  IN IF pair THEN placeAll(green, <<south[k], south[k + 1]>>, "sofa")
     ELSE IF single = <<>> THEN green ELSE place(green, single[1], "sofa")
furnishInfra(t, floors) ==
  LET racks == placeAll(t, SubSeq(floors, 1, least(4, Len(floors) \div 2)), "server_rack")
  IN IF Len(floors) > 3 THEN place(racks, floors[Len(floors)], "stairs") ELSE racks
furnishReception(t, r, floors) ==
  LET c == middle(floors)
      flanks == SelectSeq(floors, LAMBDA d : d # c /\ d[1] - c[1] \in -1 .. 1 /\ d[2] - c[2] \in -1 .. 1)
  IN placeAll(placeWallWindows(place(t, c, "reception"), r), SubSeq(flanks, 1, least(2, Len(flanks))), "planter")
furnishBiophilic(t, r, floors) ==
  LET third == [i \in 1 .. (Len(floors) + 2) \div 3 |-> floors[3 * i - 2]]
      green == placeWallWindows(placeAll(t, third, "planter"), r)
  IN IF Len(floors) > 4 THEN place(green, floors[3], "sofa") ELSE green

freeFloors(f, r) == SelectSeq(rowMajor(inside(r)), LAMBDA c : has(f.tile, c, "floor"))
(* The corners of a focus room are looked up whether or not they are in the  *)
(* grid: one below it throws.                                                *)
throws(f, r) == r.zone = "focus" /\ freeFloors(f, r) # <<>> /\ inside(r).y1 >= size.h
furnishRooms(f, r) ==
  LET floors == freeFloors(f, r)
      with(t) == [f EXCEPT !.tile = t]
  IN IF floors = <<>> THEN f ELSE
     CASE r.zone = "team_cluster" -> furnishTeam(f, r, floors)
       [] r.zone = "meeting" -> with(furnishMeeting(f.tile, r, floors))
       [] r.zone = "focus" -> with(furnishFocus(f.tile, r, floors))
       [] r.zone = "break" -> with(furnishBreak(f.tile, floors))
       [] r.zone = "infra" -> with(furnishInfra(f.tile, floors))
       [] r.zone = "reception" -> with(furnishReception(f.tile, r, floors))
       [] r.zone = "biophilic" -> with(furnishBiophilic(f.tile, r, floors))

---------------------------------------------------------------------------
(* Corridors: from the right wall of a room to the left wall of the next, at *)
(* the mean height of the two; walls become doors, floor a path three wide.  *)
leftToRight == SortSeq(rooms, LAMBDA a, b : IF a.y - b.y \in -4 .. 4 THEN a.x < b.x ELSE a.y < b.y)

corridor(t, a, b) ==
  LET y == (2 * a.y + a.h + 2 * b.y + b.h + 2) \div 4
      xs == a.x + a.w - 1 .. b.x
  IN [c \in DOMAIN t |->
       IF c[1] \in xs /\ c[2] = y /\ t[c] = "wall" THEN "door"
       ELSE IF c[1] \in xs /\ c[2] \in y - 1 .. y + 1 /\ t[c] = "floor" THEN "path" ELSE t[c]]
addCorridors(f, i) == IF i = Len(rooms) THEN f ELSE [f EXCEPT !.tile = corridor(@, leftToRight[i], leftToRight[i + 1])]
decorateCorridors(f) ==
  [f EXCEPT !.tile = [c \in DOMAIN @ |->
    LET walls == Cardinality({d \in Around(c) \cap DOMAIN f.tile : f.tile[d] = "wall"})
    IN IF f.tile[c] = "path" /\ \/ (walls >= 2 /\ (c[1] * 7 + c[2] * 3) % 5 = 0)
                                \/ (walls = 1 /\ (c[1] * 13 + c[2] * 11) % 7 = 0)
       THEN "planter" ELSE f.tile[c]]]

---------------------------------------------------------------------------

(* Power: lines across the grid, one down from every room, and a source just *)
(* inside each room with a line of its own to the middle.                    *)
wire(t, S) == [c \in DOMAIN t |-> IF c \in S /\ t[c] \in {"floor", "path"} THEN "conduit" ELSE t[c]]
connectRoom(t, r) ==
  LET c == Center(r)
      lines == {y \in 0 .. size.h - 1 : y % CONDUIT_SPACING = 0}
      away(y) == IF y > c[2] THEN y - c[2] ELSE c[2] - y
      line == CHOOSE y \in lines : \A z \in lines : away(y) < away(z) \/ (away(y) = away(z) /\ y <= z)
      down == wire(t, {c[1]} \X (least(c[2], line) .. most(c[2], line)))
      src == <<r.x + 1, r.y + 1>>
  IN IF ~has(down, src, "floor") THEN down
     ELSE wire(place(down, src, "power_source"), ((src[1] .. c[1]) \X {src[2]}) \cup ({c[1]} \X (src[2] .. c[2])))
placeLines(f) == [f EXCEPT !.tile = wire(@, {c \in DOMAIN @ : c[2] % CONDUIT_SPACING = 0})]
placePowerSystem(f, r) == [f EXCEPT !.tile = connectRoom(@, r)]

(* Rest: the sofas of break rooms, the booths of focus rooms, beds in        *)
(* bedrooms and one in a small room.                                         *)
placeRestAreas(f, r) ==
  LET b == inside(r)
      isBreak == r.zone = "break"
      isBedroom == r.name \in REST_NAMES
      isSmall == r.files <= 2 /\ r.w * r.h <= 36
      target == IF isBreak THEN "sofa" ELSE "bed"
      found == {c \in cellsOf(b) : has(f.tile, c, target)}
      maxBeds == IF isBedroom THEN most(2, least(innerW(b), innerH(b)) \div 2) ELSE 1
      wanted == {IF innerW(b) >= innerH(b) THEN <<b.x0 + 2 * i + 1, b.y1>> ELSE <<b.x1, b.y0 + 2 * i + 1>> : i \in 0 .. maxBeds - 1}
      beds == IF found # {} \/ isBreak \/ ~(isBedroom \/ isSmall) THEN {}
              ELSE {c \in wanted \cap cellsOf(b) : has(f.tile, c, "floor")}
      booths == IF r.zone = "focus" THEN {c \in cellsOf(b) : has(f.tile, c, "phone_booth")} ELSE {}
      tiles == (IF isBreak \/ isBedroom \/ isSmall THEN found ELSE {}) \cup beds \cup booths
  IN [f EXCEPT !.tile = [c \in DOMAIN @ |-> IF c \in beds THEN "bed" ELSE @[c]],
               !.rests = IF tiles = {} THEN @ ELSE @ \cup {[room |-> r.id, tiles |-> tiles]}]

(* Climate: a heater on the left and a cooler on the right of a room; some   *)
(* kinds of rooms have them, of the others every room may. Where two rooms   *)
(* touch, each gets a vent in its wall.                                      *)
install(f, r, d, on) ==
  IF ~has(f.tile, d.at, on) THEN f
  ELSE [f EXCEPT !.tile[d.at] = d.t, !.climate = @ \cup {[room |-> r.id, t |-> d.t, at |-> d.at]}]

meet(a, la, b, lb) == a + la = b \/ b + lb = a
vents(r, o) ==
  LET across == meet(r.x, r.w, o.x, o.w) /\ ~(r.y + r.h <= o.y \/ o.y + o.h <= r.y)
      along == meet(r.y, r.h, o.y, o.h) /\ ~(r.x + r.w <= o.x \/ o.x + o.w <= r.x)
      side == IF r.x + r.w = o.x THEN r.x + r.w - 1 ELSE r.x
      edge == IF r.y + r.h = o.y THEN r.y + r.h - 1 ELSE r.y
  IN IF r.id = o.id THEN <<>>
     ELSE IF across THEN <<[t |-> "vent", at |-> <<side, most(r.y, o.y) + 1>>]>>
     ELSE IF along THEN <<[t |-> "vent", at |-> <<most(r.x, o.x) + 1, edge>>]>> ELSE <<>>

placeTemperatureSystem(f, r, lucky) ==
  LET b == inside(r)
      y == b.y0 + ((b.y1 - b.y0) \div 2)
      cold == r.name \in {"build", "dist", "out", "server", "servers", "data", "archive", "archives", "cold"}
      living == r.name \in {"bedroom", "barracks", "living", "lounge"}
      heats == IF living \/ (lucky /\ ~cold) THEN <<[at |-> <<b.x0, y>>, t |-> "heater"]>> ELSE <<>>
      cools == IF cold \/ living \/ lucky THEN <<[at |-> <<b.x1, y>>, t |-> "cooler"]>> ELSE <<>>
      devices == FoldLeft(LAMBDA g, d : install(g, r, d, "floor"), f, heats \o cools)
  IN FoldLeft(LAMBDA g, d : install(g, r, d, "wall"), devices, FlattenSeq([i \in DOMAIN rooms |-> vents(r, rooms[i])]))

---------------------------------------------------------------------------
(* A pass goes through the rooms one by one; the corridors are decorated and *)
(* the lines of the grid laid between two passes.                            *)
After == [walls |-> "desks", desks |-> "furniture", furniture |-> "corridors", corridors |-> "power",
          power |-> "rest", rest |-> "climate", climate |-> "done"]
room == rooms[turn + 1]
Begin == /\ planned /\ pass = "plan" /\ pass' = "walls" /\ turn' = 0 /\ floor' = emptyGrid /\ UNCHANGED planVars
Draw(p, f) == /\ pass = p /\ turn < Len(rooms) /\ turn' = turn + 1 /\ floor' = f /\ UNCHANGED <<planVars, pass>>
(* The plan that throws is dropped for a mock of one (buildMockLocalWorld).  *)
Throw ==
  /\ pass = "furniture" /\ turn < Len(rooms) /\ throws(floor, room) /\ pass' = "mock" /\ floor' = <<>>
  /\ UNCHANGED <<planVars, turn>>
NextPass ==
  /\ pass \in DOMAIN After /\ turn = Len(rooms) /\ pass' = After[pass] /\ turn' = 0
  /\ floor' = (IF pass = "corridors" THEN placeLines(decorateCorridors(floor)) ELSE floor) /\ UNCHANGED planVars

Init == PlanInit /\ pass = "plan" /\ turn = 0 /\ floor = <<>>
Next ==
  \/ PlanNext /\ UNCHANGED <<pass, turn, floor>>
  \/ Begin \/ NextPass
  \/ Draw("walls", buildGrid(floor, room))
  \/ Draw("desks", layoutOfficeRooms(floor, room))
  \/ Throw
  \/ Draw("furniture", furnishRooms(floor, room)) /\ ~throws(floor, room)
  \/ Draw("corridors", addCorridors(floor, turn + 1))
  \/ Draw("power", placePowerSystem(floor, room))
  \/ Draw("rest", placeRestAreas(floor, room))
  \/ \E lucky \in BOOLEAN : Draw("climate", placeTemperatureSystem(floor, room, lucky))
Spec == Init /\ [][Next]_vars

---------------------------------------------------------------------------
(* Where one can walk: the tiles localPathfinding.ts gives a finite cost.    *)
Impassable == {"wall", "cubicle_partition", "window", "vent", "phone_booth", "break_area", "meeting_room", "server_rack", "reception"}
Passable(f) == {c \in DOMAIN f.tile : f.tile[c] \notin Impassable}
(* All that can be reached from a cell: what is seen, grown at its border.   *)
RECURSIVE flood(_, _, _)
flood(open, seen, border) ==
  IF border = {} THEN seen
  ELSE LET next == {c \in UNION {Around(d) : d \in border} : c \in open /\ c \notin seen}
       IN flood(open, seen \cup next, next)
reach(f, from) == flood(Passable(f), {from} \cap Passable(f), {from} \cap Passable(f))
Entrance == Center(rooms[1])
chairTileForWorkbench(f, c) == IF Below(c) \in DOMAIN f.tile /\ f.tile[Below(c)] = "chair" THEN Below(c) ELSE c
desksOf(f, i) == {d \in f.desks : d.room = i}

Done == pass = "done"
Drawn == pass \in {"desks", "furniture", "corridors", "power", "rest", "climate", "done"}
Furnished == pass \in {"furniture", "corridors", "power", "rest", "climate", "done"}

(* localMap.test.ts:50 and :171: no later pass takes a desk or its chair     *)
(* away.                                                                     *)
DesksSurvive ==
  Drawn /\ pass' # "mock" =>
           /\ floor.desks \subseteq floor'.desks
           /\ \A d \in floor'.desks : floor'.tile[d.at] = "workbench"
           /\ \A c \in DOMAIN floor.tile : floor.tile[c] = "chair" => floor'.tile[c] = "chair"

(* localMap.ts:436, computeRoomSize: a room is sized so that all its files   *)
(* (twelve at most) find a seat in the grid of desks.                        *)
SeatsAsSized ==
  Furnished =>
    \A i \in DOMAIN rooms : rooms[i].zone \notin {"reception", "focus"} =>
      /\ Cardinality(desksOf(floor, i)) = least(rooms[i].files, MAX_DESKS_PER_ROOM)
      /\ \A d \in desksOf(floor, i) : chairTileForWorkbench(floor, d.at) # d.at

(* localMap.test.ts:143, "does not overwrite walls with furniture": the wall *)
(* of a room that no other overlaps has doors, windows and vents in it, and  *)
(* nothing else.                                                             *)
Alone(i) == \A j \in DOMAIN rooms \ {i} : apart(rooms[i], rooms[j])
WallsStand ==
  Drawn => \A i \in DOMAIN rooms : Alone(i) =>
             \A c \in Walls(rooms[i]) \cap Grid : floor.tile[c] \in {"wall", "window", "door", "vent"}

(* Devices and beds that the office counts are where it says: one thing to a *)
(* tile.                                                                     *)
DevicesStand ==
  Done => /\ \A d \in floor.climate : floor.tile[d.at] = d.t
          /\ \A a \in floor.rests : \A c \in a.tiles : floor.tile[c] \in {"bed", "sofa", "phone_booth"}

(* localMap.ts, addCorridors: the team rooms of one shelf are open to the    *)
(* rooms next to them.                                                       *)
Neighbours(i) == {j \in DOMAIN rooms \ {i} : rooms[j].y = rooms[i].y /\ rooms[j].h = rooms[i].h /\ rooms[j].zone = "team_cluster"}
TeamsReachable ==
  Done => \A i \in DOMAIN rooms : rooms[i].zone = "team_cluster" =>
            \A j \in Neighbours(i) :
              LET there == reach(floor, CHOOSE c \in {d.at : d \in desksOf(floor, j)} : TRUE)
              IN \A d \in desksOf(floor, i) : chairTileForWorkbench(floor, d.at) \in there

---------------------------------------------------------------------------
(* What a document, a comment or a test says and this code does not keep    *)
(* (README, "Where the code differs").                                      *)

(* officeLayout.ts:215, "making pathfinding aim units at non-existent desk   *)
(* cells": the plan of a room counts the desks it has.                       *)
PlanCountsDesks == Furnished => \A i \in DOMAIN rooms : floor.planned[i] = Cardinality(desksOf(floor, i))

(* localMap.ts:602, "Corridors: connect adjacent rooms": from the entrance   *)
(* one can walk to every desk.                                               *)
DesksReachable ==
  Done => LET there == reach(floor, Entrance) IN \A d \in floor.desks : chairTileForWorkbench(floor, d.at) \in there

(* localMap.ts:1235, "Use phone_booth tiles as rest areas (focus pods)": one *)
(* can walk to where one is to rest, if one can to the room.                 *)
RestReachable == Done => \A a \in floor.rests : \A c \in a.tiles : c \in Passable(floor)
=============================================================================
