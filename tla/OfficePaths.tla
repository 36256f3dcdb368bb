---------------------------- MODULE OfficePaths -----------------------------
(* How agents find their way in an office (localPathfinding.ts): a search    *)
(* from tile to tile for one way, and one for the nearest desk by walking    *)
(* distance. Costs are in tenths.                                            *)
EXTENDS Integers, FiniteSets, SequencesExt, TLC

CONSTANTS
  Width, Height,
  Layouts,    \* offices: the kind of every tile
  Desks,      \* tiles that may have a workbench
  Searches    \* "path", "desk": what is looked for

PathAssumption == Width \in Nat \ {0} /\ Height \in Nat \ {0} /\ Searches \subseteq {"path", "desk"}

VARIABLES
  grid,      \* the kinds of the tiles
  search,    \* what is looked for, from where, and to where
  desks,     \* workbenches, and which of them another unit has
  open,      \* openList, heap: tiles found and not visited yet
  known,     \* gScore, dist: the least cost known of a tile
  cameFrom, closed,
  fallback,  \* the nearest desk of another unit
  result

vars == <<grid, search, desks, open, known, cameFrom, closed, fallback, result>>
Cells == (0 .. Width - 1) \X (0 .. Height - 1)
None == <<>>
searching == [is |-> "searching", path |-> <<>>, at |-> <<>>, cost |-> 0]
nothing == [searching EXCEPT !.is = "none"]
found(path, c, g) == [is |-> "found", path |-> path, at |-> c, cost |-> g]
Infinity == 1000

(* Kinds that are not in the table, such as conduits and beds, cost 1. *)
Impassable ==
  {"wall", "cubicle_partition", "window", "vent", "phone_booth", "break_area", "meeting_room", "server_rack", "reception"}
TILE_COST(type) ==
  CASE type = "path" -> 6 [] type = "chair" -> 12 [] type \in {"planter", "sofa", "stairs"} -> 15
    [] type = "door" -> 20 [] type = "debris" -> 50 [] type \in Impassable -> Infinity [] OTHER -> 10
cost(c) == TILE_COST(grid[c])
Passable(c) == c \in Cells /\ cost(c) < Infinity
abs(n) == IF n < 0 THEN -n ELSE n
heuristic(c, d) == 10 * (abs(c[1] - d[1]) + abs(c[2] - d[2]))

North(c) == <<c[1], c[2] - 1>>
East(c) == <<c[1] + 1, c[2]>>
South(c) == <<c[1], c[2] + 1>>
West(c) == <<c[1] - 1, c[2]>>
Neighbours(c) == SelectSeq(<<North(c), East(c), South(c), West(c)>>, Passable)
entry(c, f, g) == [at |-> c, f |-> f, g |-> g]

(* The first of the entries with the least key. *)
IndexOfLeast(key(_)) ==
  CHOOSE i \in DOMAIN open : \A j \in DOMAIN open : key(open[i]) < key(open[j]) \/ (key(open[i]) = key(open[j]) /\ i <= j)
Finish(r) == result' = r /\ open' = <<>> /\ UNCHANGED <<known, cameFrom, closed, fallback>>

---------------------------------------------------------------------------

(* findPath. The way is read back from the goal. *)
reconstructPath ==
  LET back[i \in 0 .. Cardinality(Cells)] ==
        IF i = 0 THEN <<search.to>>
        ELSE IF Head(back[i - 1]) = search.from \/ Head(back[i - 1]) \notin DOMAIN cameFrom THEN back[i - 1]
        ELSE <<cameFrom[Head(back[i - 1])]>> \o back[i - 1]
  IN back[Cardinality(Cells)]

(* A neighbour found cheaper is noted; it is listed again only if it is not  *)
(* on the list, where it keeps the cost it was first found with.             *)
expand(r, n, from, g) ==
  LET d == g + cost(n)
      old == IF n \in DOMAIN r.known THEN r.known[n] ELSE Infinity
      listed == \E i \in DOMAIN r.open : r.open[i].at = n
  IN IF d >= old THEN r
     ELSE [open |-> IF listed THEN r.open ELSE Append(r.open, entry(n, d + heuristic(n, search.to), d)),
           known |-> [c \in DOMAIN r.known \cup {n} |-> IF c = n THEN d ELSE r.known[c]],
           cameFrom |-> [c \in DOMAIN r.cameFrom \cup {n} |-> IF c = n THEN from ELSE r.cameFrom[c]]]
findPath ==
  /\ search.for = "path" /\ result = searching
  /\ IF open = <<>> \/ ~Passable(search.from) \/ ~Passable(search.to) THEN Finish(nothing)
     ELSE LET i == IndexOfLeast(LAMBDA e : e.f)
              cur == open[i]
              rest == RemoveAt(open, i)
              next == SelectSeq(Neighbours(cur.at), LAMBDA n : n \notin closed \cup {cur.at})
              done == FoldLeft(LAMBDA r, n : expand(r, n, cur.at, cur.g), [open |-> rest, known |-> known, cameFrom |-> cameFrom], next)
          IN IF cur.at = search.to THEN Finish(found(reconstructPath, cur.at, cur.g))
             ELSE IF cur.at \in closed THEN open' = rest /\ UNCHANGED <<known, cameFrom, closed, fallback, result>>
             ELSE /\ open' = done.open /\ known' = done.known /\ cameFrom' = done.cameFrom
                  /\ closed' = closed \cup {cur.at} /\ UNCHANGED <<fallback, result>>
  /\ UNCHANGED <<grid, search, desks>>

---------------------------------------------------------------------------

\* Slip of isTakenByOther: a desk another has is free.
TakesAnyDesk(c) == FALSE

(* findNearestWorkbench. A desk of another unit is kept for want of a better *)
(* one.                                                                      *)
isTakenByOther(c) == c \in desks.taken
relax(r, n, d) ==
  LET nd == d + cost(n)
  IN IF n \in DOMAIN r.known /\ nd >= r.known[n] THEN r
     ELSE [open |-> Append(r.open, entry(n, nd, nd)),
           known |-> [c \in DOMAIN r.known \cup {n} |-> IF c = n THEN nd ELSE r.known[c]]]
findNearestWorkbench ==
  /\ search.for = "desk" /\ result = searching
  /\ IF open = <<>> THEN Finish(IF fallback = None THEN nothing ELSE fallback[1])
     ELSE LET i == IndexOfLeast(LAMBDA e : e.g)
              cur == open[i]
              rest == RemoveAt(open, i)
              isDesk == cur.at # search.from /\ cur.at \in desks.all
              done == FoldLeft(LAMBDA r, n : relax(r, n, cur.g), [open |-> rest, known |-> known], Neighbours(cur.at))
          IN IF cur.g > known[cur.at] THEN open' = rest /\ UNCHANGED <<known, cameFrom, closed, fallback, result>>
             ELSE IF isDesk /\ ~isTakenByOther(cur.at) THEN Finish(found(<<>>, cur.at, cur.g))
             ELSE /\ open' = done.open /\ known' = done.known
                  /\ fallback' = (IF isDesk /\ fallback = None THEN <<found(<<>>, cur.at, cur.g)>> ELSE fallback)
                  /\ UNCHANGED <<cameFrom, closed, result>>
  /\ UNCHANGED <<grid, search, desks>>

Init ==
  /\ grid \in Layouts
  /\ \E for \in Searches, from \in Cells, to \in Cells :
       /\ from = <<0, 0>> /\ (for = "desk" => to = from) /\ (for = "path" => to \in {<<Width - 1, 0>>, <<Width - 1, Height - 1>>})
       /\ search = [for |-> for, from |-> from, to |-> to]
       /\ open = <<entry(from, heuristic(from, to), 0)>> /\ known = (from :> 0)
  /\ \E all \in SUBSET Desks, taken \in SUBSET Desks :
       /\ (search.for = "path" => all = {}) /\ taken \subseteq all /\ desks = [all |-> all, taken |-> taken]
  /\ cameFrom = <<>> /\ closed = {} /\ fallback = None /\ result = searching
Next == findPath \/ findNearestWorkbench
Spec == Init /\ [][Next]_vars

---------------------------------------------------------------------------
(* What the searches should find: the cheapest cost of every tile one can    *)
(* get to, as pairs, from those that are known until nothing gets cheaper.   *)
RECURSIVE settle(_)
settle(S) ==
  LET more == S \cup UNION {{<<n, p[2] + cost(n)>> : n \in ToSet(Neighbours(p[1]))} : p \in S}
      least == {p \in more : \A q \in more : q[1] = p[1] => p[2] <= q[2]}
  IN IF least = S THEN S ELSE settle(least)
costs == settle({<<search.from, 0>>})
Reachable == {p[1] : p \in costs}
cheapest(c) == (CHOOSE p \in costs : p[1] = c)[2]
Found == result.is = "found"
FoundPath == Found /\ search.for = "path"
FoundDesk == Found /\ search.for = "desk"

(* localPathfinding.test.ts, "routes around walls": a path goes from the     *)
(* start to the goal, a tile at a time, over no wall.                        *)
PathIsAWay ==
  FoundPath =>
    LET p == result.path
    IN /\ p[1] = search.from /\ p[Len(p)] = search.to /\ \A i \in DOMAIN p : Passable(p[i])
       /\ \A i \in 1 .. Len(p) - 1 : p[i + 1] \in ToSet(Neighbours(p[i]))

(* localPathfinding.test.ts, "returns null when path is fully blocked", and  *)
(* only then.                                                                *)
NoneOnlyWhenBlocked ==
  (search.for = "path" /\ result.is = "none") => (~Passable(search.from) \/ ~Passable(search.to) \/ search.to \notin Reachable)

(* localPathfinding.ts:195, "Find nearest workbench by walking": of the      *)
(* desks others do not have, one at the least cost; of theirs, if there is   *)
(* no other.                                                                 *)
NearestByWalking ==
  LET near == (desks.all \ {search.from}) \cap Reachable
      free == near \ desks.taken
      from == IF free # {} THEN free ELSE near
  IN /\ FoundDesk => /\ result.at \in from /\ result.cost = cheapest(result.at)
                     /\ \A c \in from : result.cost <= cheapest(c)
     /\ (search.for = "desk" /\ result.is = "none") => near = {}

(* localPathfinding.ts:36, "total path cost": the cost that is returned is   *)
(* that of the path.                                                         *)
RECURSIVE costAlong(_)
costAlong(p) == IF Len(p) <= 1 THEN 0 ELSE cost(p[2]) + costAlong(Tail(p))

---------------------------------------------------------------------------
(* What a document, a comment or a test says and this code does not keep    *)
(* (README, "Where the code differs").                                      *)

CostIsThePaths == FoundPath => result.cost = costAlong(result.path)

(* localPathfinding.ts:162, "admissible heuristic": no way is cheaper than   *)
(* the one that is found.                                                    *)
PathIsCheapest == FoundPath => costAlong(result.path) = cheapest(search.to)
=============================================================================
