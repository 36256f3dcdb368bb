---------------------------- MODULE UnitFigures ----------------------------
(* The units of the map as the 3D scene draws them: a figurine per unit     *)
(* (three/UnitMesh3D.ts) with a lifecycle and a walk of its own, the slots  *)
(* units share inside a hex (unitStack.ts), the ribbon along a route        *)
(* (three/UnitPathRibbon3D.ts), the models of the figurines                 *)
(* (three/UnitProps3D.ts) and the world they follow (game.ts).              *)
(* A frame walks and fades the figurines first, and rebuilds figurines and  *)
(* ribbons only when the signature of the scene changed.                    *)
EXTENDS Integers, FiniteSets, SequencesExt

CONSTANTS
  Units,       \* the ids a unit may have
  Hexes,       \* the hexes, a row of them
  CityHexes,   \* those with a city
  Shrouded,    \* those not revealed at first
  Changes,     \* the changes of the world an instance allows
  MaxChanges   \* how many of them happen

FiguresAssumption ==
  /\ Hexes \subseteq Nat /\ CityHexes \subseteq Hexes /\ Shrouded \subseteq Hexes
  /\ MaxChanges \in Nat

VARIABLES
  roster,    \* world.units in order, ids only
  unit,      \* each id's record
  revealed, selected, colour,
  kit,       \* state of the unit models
  entries,   \* unitEntries
  ghosts,    \* figurines of unitGroup that no entry holds
  ribbons,   \* activeMeshes: the routes drawn
  signed,    \* lastTileSignature, and the lastSignature of figurines and ribbons
  stepped,   \* units the world has stepped since the last frame
  changes    \* changes so far

world == <<roster, unit, revealed, selected, colour>>
scene == <<entries, ghosts, ribbons, signed, stepped>>
vars == <<world, kit, scene, changes>>

None == "none"
NoSlot == <<0, 0>>
NewUnit(h) == [at |-> h, state |-> "idle", path |-> <<>>, idx |-> 1, hidden |-> FALSE]
OnMap == {roster[i] : i \in DOMAIN roster}
Kits == {"loading", "ready", "failed"}

(* A route along the row: what the path search finds from one hex to another. *)
aStarPath(from, to) ==
  IF from <= to THEN [i \in 1 .. to - from + 1 |-> from + i - 1]
                ELSE [i \in 1 .. from - to + 1 |-> from - i + 1]

---------------------------------------------------------------------------
(* What the drawings read. *)

(* A unit is drawn while its hex is revealed. *)
visibleUnits == SelectSeq(roster, LAMBDA u : unit[u].at \in revealed)

(* Units sharing a hex, or in a city, stand on a ring inside the hex. *)
stackOffsets(seq) ==
  LET standing == SelectSeq(seq, LAMBDA u : ~unit[u].hidden /\ unit[u].state # "moving")
      here(u) == SelectSeq(standing, LAMBDA v : unit[v].at = unit[u].at)
      place(u) == CHOOSE i \in DOMAIN here(u) : here(u)[i] = u
  IN [u \in Units |->
        IF ~Contains(standing, u) \/ (Len(here(u)) = 1 /\ unit[u].at \notin CityHexes)
        THEN NoSlot ELSE <<place(u), Len(here(u))>>]

unitPropsSignature == kit

UnitSignature == <<unitPropsSignature,
  [i \in DOMAIN visibleUnits |-> LET u == visibleUnits[i] IN <<u, unit[u].at, unit[u].state, colour>>]>>

(* What is left of the route of a unit that walks, or that is selected. *)
ahead(u) == SubSeq(unit[u].path, unit[u].idx, Len(unit[u].path))
activeUnits ==
  {u \in OnMap : ~unit[u].hidden /\ Len(ahead(u)) >= 2 /\ (unit[u].state = "moving" \/ u = selected)}
PathSignature == [u \in activeUnits |-> ahead(u)]

(* The inputs the scene compares from frame to frame, those of units. *)
computeWorldSignature ==
  <<Cardinality(revealed), colour, selected, unitPropsSignature,
    [i \in DOMAIN roster |->
       LET u == roster[i] IN <<u, unit[u].at, unit[u].state, Len(unit[u].path), unit[u].idx>>]>>

---------------------------------------------------------------------------
(* The figurines. *)

Full == 2   \* frames a figurine takes to grow or to shrink
Gone == [life |-> None, tween |-> 0, at |-> 0, slot |-> NoSlot, path |-> <<>>, idx |-> 1,
         moving |-> FALSE, glb |-> FALSE, ring |-> None]

placeOnPath(e) == IF e.idx < Len(e.path) THEN [e EXCEPT !.at = e.path[e.idx], !.slot = NoSlot] ELSE e

(* One frame of a figurine; `stride` when its progress passes the next hex. *)
Spawn(e) == [e EXCEPT !.tween = @ + 1, !.life = IF e.tween + 1 >= Full THEN "alive" ELSE @]
Despawn(e) == IF e.tween - 1 <= 0 THEN Gone ELSE [e EXCEPT !.tween = @ - 1]
Walk(e, stride) ==
  IF ~(e.moving /\ Len(e.path) > 1 /\ e.idx < Len(e.path)) THEN [e EXCEPT !.moving = FALSE]
  ELSE IF ~stride THEN placeOnPath(e)
  ELSE [e EXCEPT !.idx = @ + 1, !.at = e.path[e.idx + 1], !.slot = NoSlot,
                 !.moving = e.idx + 1 < Len(e.path)]
tickUnits(es, strides) ==
  [u \in Units |-> CASE es[u].life = "spawning" -> Spawn(es[u])
                     [] es[u].life = "despawning" -> Despawn(es[u])
                     [] es[u].life = "alive" -> Walk(es[u], u \in strides)
                     [] OTHER -> es[u]]

areUnitPropsReady == kit = "ready"

\* Slip of follow: a figurine that walks is not told of a new route.
KeepsItsRoute(e, u, slot) ==
  LET moving == unit[u].state = "moving"
      dressed == [e EXCEPT !.moving = moving, !.glb = areUnitPropsReady, !.ring = colour]
  IN IF moving THEN dressed ELSE [dressed EXCEPT !.at = unit[u].at, !.slot = slot, !.path = <<>>, !.idx = 1]

(* A figurine that exists follows its unit; one that walks its route is left *)
(* to its own walk until the route changes.                                  *)
follow(e, u, slot) ==
  LET rerouted == e.path # unit[u].path
      moving == unit[u].state = "moving"
      led == IF ~moving \/ rerouted THEN [e EXCEPT !.path = unit[u].path, !.idx = unit[u].idx] ELSE e
      dressed == [led EXCEPT !.moving = moving, !.glb = areUnitPropsReady, !.ring = colour]
  IN IF ~moving THEN [dressed EXCEPT !.at = unit[u].at, !.slot = slot]
     ELSE IF rerouted THEN placeOnPath(dressed) ELSE dressed

appear(u, slot) ==
  [life |-> "spawning", tween |-> 0, at |-> unit[u].at, slot |-> slot, path |-> unit[u].path,
   idx |-> unit[u].idx, moving |-> unit[u].state = "moving", glb |-> areUnitPropsReady, ring |-> colour]

(* A unit that left is marked to shrink; one that is there follows, or       *)
(* appears. A figurine still shrinking is not the one of a unit that is back:*)
(* the new one takes its entry.                                              *)
IsLive(e) == e.life \in {"spawning", "alive"}

\* Slip of rebuildUnits: a figurine that gets its model appears anew.
AppearsAgain(es) ==
  LET slots == stackOffsets(visibleUnits)
  IN [u \in Units |->
        IF Contains(visibleUnits, u)
        THEN IF IsLive(es[u]) /\ es[u].glb = areUnitPropsReady THEN follow(es[u], u, slots[u]) ELSE appear(u, slots[u])
        ELSE IF IsLive(es[u]) THEN [es[u] EXCEPT !.life = "despawning", !.tween = Full] ELSE es[u]]

rebuildUnits(es) ==
  LET slots == stackOffsets(visibleUnits)
  IN [u \in Units |->
        IF Contains(visibleUnits, u)
        THEN IF IsLive(es[u]) THEN follow(es[u], u, slots[u]) ELSE appear(u, slots[u])
        ELSE IF IsLive(es[u]) THEN [es[u] EXCEPT !.life = "despawning", !.tween = Full] ELSE es[u]]
overwritten(es) == {u \in Units : Contains(visibleUnits, u) /\ es[u].life = "despawning"}

(* One frame of the scene. *)
updateHexWorldScene ==
  \E strides \in SUBSET {u \in Units : entries[u].moving} :
    LET ticked == tickUnits(entries, strides)
        dirty == computeWorldSignature # signed.world
        redraw == dirty /\ UnitSignature # signed.units
    IN /\ entries' = IF redraw THEN rebuildUnits(ticked) ELSE ticked
       /\ ghosts' = ghosts + (IF redraw THEN Cardinality(overwritten(ticked)) ELSE 0)
       /\ ribbons' = IF dirty THEN PathSignature ELSE ribbons
       /\ signed' = [world |-> computeWorldSignature, units |-> IF dirty THEN UnitSignature ELSE signed.units]
       /\ stepped' = {} /\ UNCHANGED <<world, kit, changes>>

---------------------------------------------------------------------------
(* The world. *)

Change(kind) == kind \in Changes /\ changes < MaxChanges /\ changes' = changes + 1 /\ UNCHANGED <<scene>>

spawnUnit(u) ==
  /\ Change("spawn") /\ u \notin OnMap
  /\ \E h \in Hexes : unit' = [unit EXCEPT ![u] = NewUnit(h)]
  /\ roster' = Append(roster, u) /\ UNCHANGED <<revealed, selected, colour, kit>>

removeUnit(u) ==
  /\ Change("remove") /\ u \in OnMap
  /\ roster' = SelectSeq(roster, LAMBDA v : v # u)
  /\ selected' = IF selected = u THEN None ELSE selected
  /\ UNCHANGED <<unit, revealed, colour, kit>>
hideUnit(u) ==
  /\ Change("hide") /\ u \in OnMap /\ ~unit[u].hidden
  /\ unit' = [unit EXCEPT ![u].hidden = TRUE]
  /\ selected' = IF selected = u THEN None ELSE selected
  /\ UNCHANGED <<roster, revealed, colour, kit>>
unhideUnit(u) ==
  /\ Change("hide") /\ u \in OnMap /\ unit[u].hidden
  /\ unit' = [unit EXCEPT ![u].hidden = FALSE] /\ UNCHANGED <<roster, revealed, selected, colour, kit>>
moveUnit(u, h) ==
  /\ Change("move") /\ u \in OnMap /\ h # unit[u].at
  /\ "reroute" \in Changes \/ unit[u].state # "moving"
  /\ unit' = [unit EXCEPT ![u].path = aStarPath(unit[u].at, h), ![u].idx = 1, ![u].state = "moving"]
  /\ UNCHANGED <<roster, revealed, selected, colour, kit>>
selectUnit(u) ==
  /\ Change("select") /\ u \in OnMap /\ ~unit[u].hidden /\ selected' \in {u, None}
  /\ UNCHANGED <<roster, unit, revealed, colour, kit>>
revealHexes ==
  /\ Change("reveal") /\ revealed # Hexes /\ revealed' = Hexes
  /\ UNCHANGED <<roster, unit, selected, colour, kit>>
assignCityToNation ==
  /\ Change("align") /\ colour' = (IF colour = "red" THEN None ELSE "red")
  /\ UNCHANGED <<roster, unit, revealed, selected, kit>>

(* A step of the world's own walk: the next hex, or the end of the route.    *)
(* Both loops run on animation frames, so no unit takes two between frames.  *)
updateUnits(u) ==
  /\ u \in OnMap \ stepped /\ stepped' = stepped \cup {u} /\ unit[u].state = "moving"
  /\ LET now == unit[u]
         i == now.idx + 1
     IN unit' = [unit EXCEPT ![u] =
          IF i >= Len(now.path) THEN [now EXCEPT !.at = now.path[Len(now.path)], !.path = <<>>, !.idx = 1, !.state = "idle"]
                                ELSE [now EXCEPT !.at = now.path[i], !.idx = i]]
  /\ UNCHANGED <<roster, revealed, selected, colour, kit, entries, ghosts, ribbons, signed, changes>>

(* The models settle: any one of them is enough. *)
ensureUnitPropsLoad ==
  /\ kit = "loading" /\ kit' \in {"ready", "failed"} /\ UNCHANGED <<world, scene, changes>>

Init ==
  /\ roster = <<>> /\ unit = [u \in Units |-> NewUnit(CHOOSE h \in Hexes : TRUE)]
  /\ revealed = Hexes \ Shrouded /\ selected = None /\ colour = None
  /\ kit = "loading"
  /\ entries = [u \in Units |-> Gone] /\ ghosts = 0 /\ ribbons = <<>>
  /\ signed = [world |-> <<>>, units |-> <<>>] /\ stepped = {} /\ changes = 0
Next ==
  \/ updateHexWorldScene \/ ensureUnitPropsLoad \/ revealHexes \/ assignCityToNation
  \/ \E u \in Units : spawnUnit(u) \/ removeUnit(u) \/ hideUnit(u) \/ unhideUnit(u)
                      \/ selectUnit(u) \/ updateUnits(u) \/ \E h \in Hexes : moveUnit(u, h)
Spec == Init /\ [][Next]_vars
FairSpec == Spec /\ WF_vars(updateHexWorldScene)

---------------------------------------------------------------------------
(* Properties. *)

TypeOK ==
  /\ OnMap \subseteq Units /\ Len(roster) = Cardinality(OnMap)
  /\ \A u \in Units : unit[u].at \in Hexes /\ unit[u].state \in {"idle", "moving"} /\ unit[u].hidden \in BOOLEAN
  /\ revealed \subseteq Hexes /\ selected \in OnMap \cup {None} /\ kit \in Kits
  /\ \A u \in Units : entries[u].life \in {None, "spawning", "alive", "despawning"} /\ entries[u].tween \in 0 .. Full
  /\ ghosts \in Nat

(* Nothing changed since the last frame. *)
Framed == signed.world = computeWorldSignature

(* UnitMesh3D.ts, UnitProps3D.ts: after a frame, a unit that stands on a     *)
(* revealed hex has one live figurine there, with the model that is loaded   *)
(* and the colour of its nation, and no other unit has one.                  *)
StandsWhereItIs ==
  Framed => /\ \A u \in Units : IsLive(entries[u]) <=> Contains(visibleUnits, u)
            /\ \A u \in OnMap : (unit[u].at \in revealed /\ unit[u].state = "idle") =>
                 entries[u].at = unit[u].at /\ entries[u].glb = areUnitPropsReady /\ entries[u].ring = colour

(* UnitMesh3D.ts: the walk of a figurine is along the route its unit has,    *)
(* wherever the walk of the world has got to.                                *)
WalksItsRoute ==
  Framed => \A u \in OnMap : (IsLive(entries[u]) /\ unit[u].state = "moving") => entries[u].path = unit[u].path

(* UnitPathRibbon3D.ts: the ribbon shows what is left of the route of every  *)
(* unit that walks, and of no other.                                         *)
RibbonsAhead == Framed => ribbons = PathSignature

(* UnitMesh3D.ts: swapping the capsule for a model, or its flag, never       *)
(* starts the figurine's appearance again.                                   *)
SwapKeepsLife ==
  \A u \in Units : (IsLive(entries[u]) /\ IsLive(entries'[u])) => entries'[u].tween >= entries[u].tween

(* unitStack.ts:8, "Both renderers read the same offsets": the figurines     *)
(* stand on the slots that clicks and the 2D map compute.                    *)
SlotsAgree ==
  Framed => \A u \in OnMap : (unit[u].at \in revealed /\ unit[u].state = "idle" /\ ~unit[u].hidden) =>
              entries[u].slot = stackOffsets(visibleUnits)[u]

---------------------------------------------------------------------------
(* What a document, a comment or a test says and this code does not keep    *)
(* (README, "Where the code differs").                                      *)

(* UnitMesh3D.ts:377: every figurine of the scene belongs to an entry, which *)
(* finishes its tween and removes it.                                        *)
OneFigurePerUnit == ghosts = 0

(* game.ts:251, "visual dismiss from macro map": a hidden unit is not drawn. *)
HiddenIsDismissed == Framed => \A u \in OnMap : unit[u].hidden => ~IsLive(entries[u])
=============================================================================
