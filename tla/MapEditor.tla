----------------------------- MODULE MapEditor -----------------------------
(***************************************************************************)
(* The map editor (src/map.ts, src/mapEdits.ts, src/mapEditHistory.ts,     *)
(* src/renderer.ts): its edits of the live world, the document it saves,   *)
(* what a reload makes of that document, undo and redo.  The map is one    *)
(* row of hexes, near enough to each other that reconnectCities finds      *)
(* every city connected; a city has at most one district, at its right.    *)
(***************************************************************************)
EXTENDS Integers, Sequences, FiniteSets

CONSTANTS
  Repos,      \* the repos on disk
  Order,      \* those selected at first, in order
  Capital,    \* its key
  Wide,       \* the cities generated with a district
  Length,     \* hexes of the row
  Gap,        \* MIN_CITY_DISTANCE
  Tools,      \* the tools of the editor in use
  Movable,    \* the cities dragged
  Paints,     \* the terrains painted
  MaxEdits    \* bound: edits

Paintable == {"land", "wood", "sea"}

EditorAssumption ==
  /\ Order \in Seq(Repos) /\ Capital \notin Repos /\ Capital \notin Wide
  /\ Movable \subseteq Repos \cup {Capital} /\ Paints \subseteq Paintable
  /\ Length \in Nat /\ Gap \in Nat \ {0, 1, 2} /\ MaxEdits \in Nat

VARIABLES
  world,   \* where each city is, its district's offset, the tiles there are and their terrain
  store,   \* what is saved: painted, erased hexes, removed cities, placed cities,
           \* and chosen, the repos selected
  done,    \* undoStack
  undone,  \* redoStack
  edits,
  fits,    \* when the history began, what was saved was there (for the properties)
  refused  \* a unit stood in the way of a redo: bound, the history is not followed further

vars == <<world, store, done, undone, edits, fits, refused>>

Cities == Repos \cup {Capital}
Hexes == 0 .. Length - 1
Off == Length + 10    \* not on the map
None == "none"
NoEntry == [at |-> Off, moved |-> FALSE]

Nothing(chosen) ==
  [chosen |-> chosen, paint |-> [h \in Hexes |-> None], erased |-> {}, gone |-> {}, placed |-> [c \in Cities |-> NoEntry]]

onMap(w) == {c \in Cities : w.city[c] # Off}
footprint(w, c) == {w.city[c], w.city[c] + w.arm[c]}
occupied(w) == UNION {footprint(w, c) : c \in onMap(w)}

---------------------------------------------------------------------------
(* The operations on a world and on the saved document.                     *)

canPaintHex(w, h) == h \in w.tiles /\ w.city[Capital] # h
paintHex(w, h, t) == [w EXCEPT !.terrain[h] = t]

canEraseHex(w, h) == h \in w.tiles /\ h \notin occupied(w)
eraseHex(w, h) == [w EXCEPT !.tiles = @ \ {h}]

canRemoveCity(w, c) == c # Capital /\ w.city[c] # Off
removeCity(w, c) == [w EXCEPT !.city[c] = Off]

canFoundCity(w, c, h) ==
  /\ c \in Repos /\ w.city[c] = Off
  /\ h \in w.tiles \ occupied(w) /\ w.terrain[h] # "sea"

(* An unpainted hex is plains, as after a reload.                           *)
foundCity(w, st, c, h) ==
  [w EXCEPT !.city[c] = h, !.arm[c] = 0,
            !.terrain[h] = IF st.paint[h] # None THEN st.paint[h] ELSE "land"]

\* Slip of canRelocateCityTo: only the new centre is looked at, not its districts.
CentreFits(w, units, c, h) ==
  h \notin units /\ w.city[c] \notin {Off, h} /\ h \in w.tiles /\ w.terrain[h] # "sea" /\ h \notin occupied(w)

(* units are the hexes on which a unit stands.                              *)
canRelocateCityTo(w, units, c, h) ==
  LET from == w.city[c]
      to == {h, h + w.arm[c]}
  IN  /\ from \notin {Off} \cup to
      /\ to \subseteq w.tiles
      /\ \A x \in to : w.terrain[x] # "sea"
      /\ (to \ footprint(w, c)) \cap occupied(w) = {}
      /\ to \cap units = {}

(* Terrain travels with the city.                                           *)
moveCityInWorld(w, c, h) ==
  LET from == w.city[c]
      to == {h, h + w.arm[c]}
  IN  [w EXCEPT !.city[c] = h,
                !.terrain = [x \in Hexes |-> IF x \in to THEN w.terrain[from + (x - h)] ELSE @[x]]]

(* Saved terrain travels with it too; a painted destination stays painted   *)
(* with what the move left there.  w and moved are before and after.        *)
persistCityCoord(st, w, moved, c) ==
  LET to == footprint(moved, c)
      origin(x) == w.city[c] + (x - moved.city[c])
      carried(x) ==
        IF st.paint[origin(x)] # None THEN st.paint[origin(x)]
        ELSE IF st.paint[x] = None THEN None
        ELSE IF moved.terrain[x] \in Paintable THEN moved.terrain[x] ELSE st.paint[x]
  IN  [st EXCEPT !.paint = [x \in Hexes |-> IF x \in to THEN carried(x) ELSE @[x]],
                 !.placed[c] = IF @ = NoEntry THEN [at |-> moved.city[c], moved |-> TRUE]
                               ELSE [@ EXCEPT !.at = moved.city[c]],
                 !.gone = @ \ {c}]

(* The store's setters (mapEdits.ts).  A brush stores the terrain even when *)
(* the hex already shows it; None takes the override away.                  *)
setHexTerrain(st, h, t) == IF t \in Paintable \cup {None} THEN [st EXCEPT !.paint[h] = t] ELSE st
removeHex(st, h) == [st EXCEPT !.erased = @ \cup {h}]
restoreHex(st, h) == [st EXCEPT !.erased = @ \ {h}]
removeCityFromMap(st, c) == [st EXCEPT !.gone = @ \cup {c}]
restoreCityToMap(st, c) == [st EXCEPT !.gone = @ \ {c}]
placeCity(st, c, entry) == [st EXCEPT !.placed[c] = entry, !.gone = @ \ {c}]
removePlacedCity(st, c) == [st EXCEPT !.placed[c] = NoEntry]

---------------------------------------------------------------------------
(* A reload: the world is generated from the workspace, the edits are       *)
(* applied.                                                                 *)

saved(st, c) == IF c \in st.gone THEN Off ELSE st.placed[c].at

(* The automatic layout, repo after repo: the first hex far enough from the *)
(* cities so far that is not saved for another one.                         *)
layout(st) ==
  LET leaves(c) == c \in st.gone \/ st.placed[c] # NoEntry
      free(c, h, at) ==
        /\ leaves(c) \/ \A d \in Cities \ {c} : saved(st, d) # h
        /\ \A d \in Repos : at[d] # Off => h - at[d] >= Gap \/ at[d] - h >= Gap
      upTo[i \in 0 .. Len(Order)] ==
        IF i = 0 THEN [at |-> [c \in Cities |-> IF c = Capital THEN 0 ELSE Off], next |-> 1]
        ELSE IF Order[i] \notin st.chosen THEN upTo[i - 1]
        ELSE LET prev == upTo[i - 1]
                 slots == {h \in prev.next .. Length - 1 : free(Order[i], h, prev.at)}
                 slot == CHOOSE h \in slots : \A x \in slots : h <= x
             IN  [at |-> [prev.at EXCEPT ![Order[i]] = slot], next |-> slot + 1]
  IN  upTo[Len(Order)].at

(* Saved hexes that form a cycle cannot be replayed one move at a time.     *)
startHexes(st) ==
  LET at == layout(st)
      next(c) == {d \in st.chosen : saved(st, c) # Off /\ at[d] = saved(st, c)}
      inCycle(c) == \E d \in next(c) \ {c} :
                      c \in next(d) \/ \E e \in next(d) \ {c, d} : c \in next(e)
  IN  [c \in Cities |-> IF c \in st.chosen /\ inCycle(c) THEN saved(st, c) ELSE at[c]]

generateWorld(st) ==
  LET at == startHexes(st)
      taken == UNION {{at[c], at[c] + (IF c \in Wide THEN 1 ELSE 0)} : c \in st.chosen \cup {Capital}}
      edge == CHOOSE h \in taken : \A x \in taken : x <= h
  IN  [city |-> at,
       arm |-> [c \in Cities |-> IF c \in Wide THEN 1 ELSE 0],
       tiles |-> Hexes,
       terrain |-> [h \in Hexes |-> IF h = 0 THEN "sacred" ELSE IF h <= edge THEN "land" ELSE "sea"]]

withoutGone(w, st) == [w EXCEPT !.city = [c \in Cities |-> IF c \in st.gone \ {Capital} THEN Off ELSE @[c]]]

(* A painted sea already reads as land to a city that goes there.           *)
readable(w, st) ==
  LET targets == UNION {{saved(st, c), saved(st, c) + w.arm[c]} :
                          c \in {d \in onMap(w) : saved(st, d) \notin {Off, w.city[d]}}}
  IN  [w EXCEPT !.terrain = [h \in Hexes |->
         IF h \in targets /\ st.paint[h] # None /\ @[h] = "sea" THEN st.paint[h] ELSE @[h]]]

(* Cities go to their saved hexes as long as one of them can; a new world   *)
(* has no units.                                                            *)
moveAll(w, st) ==
  LET goes(v) == {c \in onMap(v) : saved(st, c) # Off /\ canRelocateCityTo(v, {}, c, saved(st, c))}
      after[n \in 0 .. 2 * Cardinality(Cities)] ==
        IF n = 0 THEN w
        ELSE LET v == after[n - 1]
             IN  IF goes(v) = {} THEN v
                 ELSE LET c == CHOOSE x \in goes(v) : TRUE IN moveCityInWorld(v, c, saved(st, c))
  IN  after[2 * Cardinality(Cities)]

painted(w, st) ==
  [w EXCEPT !.terrain = [h \in Hexes |-> IF st.paint[h] # None /\ canPaintHex(w, h) THEN st.paint[h] ELSE @[h]]]

foundAll(w, st) ==
  LET new == {c \in Repos : /\ st.placed[c] # NoEntry /\ ~st.placed[c].moved /\ c \notin st.gone
                            /\ canFoundCity(w, c, st.placed[c].at)}
  IN  [w EXCEPT !.city = [c \in Cities |-> IF c \in new THEN st.placed[c].at ELSE @[c]],
                !.arm = [c \in Cities |-> IF c \in new THEN 0 ELSE @[c]],
                !.terrain = [h \in Hexes |-> IF \E c \in new : st.placed[c].at = h
                                             THEN (IF st.paint[h] # None THEN st.paint[h] ELSE "land")
                                             ELSE @[h]]]

applyMapEdits(w, st) ==
  LET moved == moveAll(readable(withoutGone(w, st), st), st)
      founded == foundAll(painted(moved, st), st)
  IN  [founded EXCEPT !.tiles = @ \ {h \in st.erased : canEraseHex(founded, h)}]

reloaded(st) == applyMapEdits(generateWorld(st), st)

(* What is saved is there: an erased hex is off the map, and so is a repo   *)
(* that was removed; a repo off the map has no place.                       *)
Accounted(w, st) ==
  /\ w.tiles \cap st.erased = {}
  /\ \A c \in Repos : IF c \in onMap(w) THEN c \notin st.gone ELSE st.placed[c] = NoEntry

---------------------------------------------------------------------------
(* The editor.                                                              *)

Init ==
  /\ store = Nothing({Order[i] : i \in DOMAIN Order})
  /\ world = reloaded(store)
  /\ done = <<>> /\ undone = <<>>
  /\ edits = 0 /\ fits = Accounted(world, store) /\ refused = FALSE

(* An edit of the world w and the document st, as a step can do it again.   *)
edit(tool, c, h, t) == [tool |-> tool, city |-> c, hex |-> h, terrain |-> t]

possible(e, w, st, units) ==
  CASE e.tool = "terrain" -> canPaintHex(w, e.hex) /\ ~(w.terrain[e.hex] = e.terrain /\ st.paint[e.hex] = e.terrain)
    [] e.tool = "erase"   -> canEraseHex(w, e.hex)
    [] e.tool = "remove"  -> canRemoveCity(w, e.city)
    [] e.tool = "place"   -> canFoundCity(w, e.city, e.hex)
    [] e.tool = "move"    -> w.city[e.city] # Off /\ canRelocateCityTo(w, units, e.city, e.hex)

(* The world and the document after it.                                     *)
perform(e, w, st) ==
  CASE e.tool = "terrain" -> <<paintHex(w, e.hex, e.terrain), setHexTerrain(st, e.hex, e.terrain)>>
    [] e.tool = "erase"   -> <<eraseHex(w, e.hex), removeHex(st, e.hex)>>
    [] e.tool = "remove"  -> <<removeCity(w, e.city), removeCityFromMap(removePlacedCity(st, e.city), e.city)>>
    [] e.tool = "place"   -> <<foundCity(w, st, e.city, e.hex),
                               placeCity(st, e.city, [at |-> e.hex, moved |-> FALSE])>>
    [] e.tool = "move"    -> LET v == moveCityInWorld(w, e.city, e.hex)
                             IN  <<v, persistCityCoord(st, w, v, e.city)>>

\* Slip of revert: that the city had been removed before it was placed is forgotten.
UndoForgetsRemoval(e, w, st, was, wasSt) ==
  CASE e.tool = "place" -> <<[w EXCEPT !.city[e.city] = Off, !.terrain[e.hex] = was.terrain[e.hex]],
                             IF wasSt.placed[e.city] # NoEntry THEN placeCity(st, e.city, wasSt.placed[e.city])
                             ELSE removePlacedCity(st, e.city)>>
    [] OTHER -> <<was, wasSt>>

(* What undo puts back: was and wasSt are what the operation returned of    *)
(* the world and the document before it.  The entry a founding returns is   *)
(* the saved one itself, which placeCity then overwrote.                    *)
revert(e, w, st, was, wasSt) ==
  LET prevPlaced == [at |-> e.hex, moved |-> FALSE] IN
  CASE e.tool = "terrain" -> <<[w EXCEPT !.terrain[e.hex] = was.terrain[e.hex]],
                               setHexTerrain(st, e.hex, wasSt.paint[e.hex])>>
    [] e.tool = "erase"   -> <<[w EXCEPT !.tiles = @ \cup {e.hex}], restoreHex(st, e.hex)>>
    [] e.tool = "remove"  ->
         <<[w EXCEPT !.city[e.city] = was.city[e.city]],
           LET entered == IF wasSt.placed[e.city] # NoEntry THEN placeCity(st, e.city, wasSt.placed[e.city]) ELSE st
           IN  IF e.city \in wasSt.gone THEN entered ELSE restoreCityToMap(entered, e.city)>>
    [] e.tool = "place"   ->
         <<[w EXCEPT !.city[e.city] = Off, !.arm[e.city] = was.arm[e.city], !.terrain[e.hex] = was.terrain[e.hex]],
           LET entered == IF wasSt.placed[e.city] # NoEntry THEN placeCity(st, e.city, prevPlaced)
                          ELSE removePlacedCity(st, e.city)
           IN  IF e.city \in wasSt.gone THEN removeCityFromMap(entered, e.city) ELSE entered>>
    [] e.tool = "move"    ->
         LET hexes == {was.city[e.city], was.city[e.city] + was.arm[e.city], e.hex, e.hex + was.arm[e.city]}
             to == {e.hex, e.hex + was.arm[e.city]}
         IN  <<[w EXCEPT !.city[e.city] = was.city[e.city],
                         !.terrain = [h \in Hexes |-> IF h \in hexes THEN was.terrain[h] ELSE @[h]]],
               [(IF wasSt.placed[e.city] # NoEntry THEN placeCity(st, e.city, wasSt.placed[e.city])
                 ELSE removePlacedCity(st, e.city))
                  EXCEPT !.paint = [h \in Hexes |-> IF h \in to THEN wasSt.paint[h] ELSE @[h]]]>>

step(e) == [edit |-> e, was |-> world, wasSt |-> store]

(* One that a unit is in the way of does nothing.                           *)
Edit(e) ==
  /\ edits < MaxEdits
  /\ possible(e, world, store, {})
  /\ world' = perform(e, world, store)[1]
  /\ store' = perform(e, world, store)[2]
  /\ done' = Append(done, step(e))
  /\ undone' = <<>>
  /\ edits' = edits + 1
  /\ UNCHANGED <<fits, refused>>

paintTerrainAt(h, t) == "terrain" \in Tools /\ Edit(edit("terrain", Capital, h, t))
eraseAt(h) ==
  /\ "erase" \in Tools
  /\ \/ \E c \in Repos : world.city[c] = h /\ Edit(edit("remove", c, h, None))
     \/ Edit(edit("erase", Capital, h, None))
placeRepoAt(c, h) == "place" \in Tools /\ Edit(edit("place", c, h, None))
moveCitySync(c, h) == "move" \in Tools /\ world.city[c] # Off /\ Edit(edit("move", c, h, None))

undoMapEdit ==
  /\ done # <<>> /\ ~refused
  /\ LET s == done[Len(done)]
         back == revert(s.edit, world, store, s.was, s.wasSt)
     IN  /\ world' = back[1] /\ store' = back[2]
         /\ undone' = Append(undone, s)
  /\ done' = SubSeq(done, 1, Len(done) - 1)
  /\ UNCHANGED <<edits, fits, refused>>

(* The operation again; undoing it again uses what it returns this time, or *)
(* what it returned the last time if units are in the way.                  *)
redoMapEdit ==
  /\ undone # <<>> /\ ~refused
  /\ LET e == undone[Len(undone)].edit
     IN  \E units \in {{}, Hexes} :
           IF possible(e, world, store, units)
           THEN /\ world' = perform(e, world, store)[1]
                /\ store' = perform(e, world, store)[2]
                /\ done' = Append(done, step(e)) /\ UNCHANGED refused
           ELSE /\ done' = Append(done, undone[Len(undone)]) /\ refused' = TRUE
                /\ UNCHANGED <<world, store>>
  /\ undone' = SubSeq(undone, 1, Len(undone) - 1)
  /\ UNCHANGED <<edits, fits>>

Reload ==
  /\ done # <<>> \/ undone # <<>>
  /\ world' = reloaded(store)
  /\ done' = <<>> /\ undone' = <<>> /\ fits' = Accounted(world', store) /\ refused' = FALSE
  /\ UNCHANGED <<store, edits>>

(* Another selection of repos (src/ui/constructionPanel.ts), and a reload.  *)
Select(c) ==
  /\ "select" \in Tools /\ edits < MaxEdits
  /\ c \in {Order[i] : i \in DOMAIN Order}
  /\ LET other == (store.chosen \ {c}) \cup ({c} \ store.chosen)
     IN  other # {} /\ store' = [store EXCEPT !.chosen = other]
  /\ world' = reloaded(store')
  /\ done' = <<>> /\ undone' = <<>> /\ fits' = Accounted(world', store') /\ refused' = FALSE
  /\ edits' = edits + 1

(* "Restaurar todo"                                                         *)
RestoreAll ==
  /\ store # Nothing(store.chosen)
  /\ store' = Nothing(store.chosen)
  /\ world' = reloaded(store')
  /\ done' = <<>> /\ undone' = <<>> /\ fits' = Accounted(world', store') /\ refused' = FALSE
  /\ UNCHANGED edits

Next ==
  \/ \E h \in Hexes, t \in Paints : paintTerrainAt(h, t)
  \/ \E h \in Hexes : eraseAt(h)
  \/ \E c \in Repos, h \in Hexes : placeRepoAt(c, h)
  \/ \E c \in Movable, h \in Hexes : moveCitySync(c, h)
  \/ \E c \in Repos : Select(c)
  \/ undoMapEdit \/ redoMapEdit \/ Reload \/ RestoreAll

Spec == Init /\ [][Next]_vars

(***************************************************************************)
(* Properties.                                                             *)
(***************************************************************************)

Worlds ==
  [city : [Cities -> Hexes \cup {Off}], arm : [Cities -> {0, 1}],
   tiles : SUBSET Hexes, terrain : [Hexes -> Paintable \cup {"sacred"}]]
Documents ==
  [chosen : SUBSET Repos, paint : [Hexes -> Paintable \cup {None}], erased : SUBSET Hexes, gone : SUBSET Repos,
   placed : [Cities -> [at : Hexes \cup {Off}, moved : BOOLEAN]]]
TypeOK == world \in Worlds /\ store \in Documents

(* No hex holds two cities or districts, none stands on a hole, and the     *)
(* capital is never off the map, live or after a reload.                    *)
Standing(w) ==
  /\ w.city[Capital] # Off
  /\ \A c \in onMap(w) : footprint(w, c) \subseteq w.tiles
  /\ \A c, d \in onMap(w) : c # d => footprint(w, c) \cap footprint(w, d) = {}
EveryCityStands == Standing(world)

(* "Each one puts back exactly what its operation changed, in the world and *)
(* in the saved store" (map.ts:1378), after redos as well.                  *)
UndoRestores ==
  [][undoMapEdit => /\ world' = done[Len(done)].was
                    /\ store' = done[Len(done)].wasSt]_vars

(* "whatever the editor does with record: true must be exactly what         *)
(* applyMapEdits rebuilds on the next load" (mapEdits.test.ts:853), for     *)
(* what is saved: cities with their districts, holes and painted hexes.     *)
Agree(w, v) ==
  /\ w.city = v.city
  /\ \A c \in onMap(w) : w.arm[c] = v.arm[c]
  /\ w.tiles = v.tiles
  /\ \A h \in w.tiles : store.paint[h] # None => w.terrain[h] = v.terrain[h]
LiveIsReload == Agree(world, reloaded(store))
=============================================================================
