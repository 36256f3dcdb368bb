----------------------------- MODULE SceneFrame -----------------------------
(***************************************************************************)
(* One frame of the 3D map (src/three/ThreeMapRenderer.ts,                 *)
(* src/three/HexWorldScene.ts, terrainRevision.ts, FogTransition3D.ts):    *)
(* the frame compares a signature of the whole world and, when it differs, *)
(* offers every layer its rebuild; a layer compares its own signature and  *)
(* draws or keeps what it had.  Between the frames the world, the options  *)
(* and the kits change.  Every rebuild reads the same input, so a layer is *)
(* right when its picture is the one its input gives.                      *)
(***************************************************************************)
EXTENDS Naturals, FiniteSets, Sequences

(***************************************************************************)
(* What the layers of the 3D map are drawn from (src/types.ts,             *)
(* src/three/HexWorldScene.ts): the world, the view options, the model     *)
(* kits that have loaded and the revision of the terrain.  A layer keeps a *)
(* signature of what it was last drawn from and skips the drawing while    *)
(* the signature stays the same.  i is one such input throughout.          *)
(***************************************************************************)

CONSTANTS
  Hexes,       \* the coordinates
  Neighbours,  \* [Hexes -> SUBSET Hexes]
  Cities,
  Capital      \* a city

SceneAssumption ==
  Capital \in Cities /\ Neighbours \in [Hexes -> SUBSET Hexes]

Terrains == {"plains", "forest", "mountain", "ice", "sacred", "ocean"}

\* The kits of models, each loaded on its own.
Kits == {"atlas", "mountain", "forest", "marker", "scatter", "bridge", "props", "walls", "wonder"}

Worlds == [tiles : SUBSET Hexes, terrain : [Hexes -> Terrains], revealed : SUBSET Hexes,
           at : [Cities -> Hexes], colour : [Cities -> {"own", "nation"}],
           rich : SUBSET Hexes, wonders : SUBSET Hexes]

Options == [lod : {"low", "medium", "high"}, structure : BOOLEAN, labels : BOOLEAN]

near(i, h) == Neighbours[h] \cap i.w.tiles
isCity(i, h) == \E c \in Cities : i.w.at[c] = h
\* The revealed hexes of terrain t.
of(i, t) == {h \in i.w.revealed : i.w.terrain[h] = t}
\* A model is placed at the height of its hex, which its terrain decides, or near an edge,
\* where the terrain of the neighbours bends it.
standing(i, what, h) == <<what, h, i.w.terrain[h]>>
edges(i, h) == [n \in near(i, h) |-> i.w.terrain[n]]
seated(i, what, h) == <<what, h, i.w.terrain[h], edges(i, h)>>
\* The surface under a line that crosses many hexes.
surface(i) == [h \in i.w.tiles |-> i.w.terrain[h]]
territory(i, c) == {i.w.at[c]} \cup near(i, i.w.at[c])

(***************************************************************************)
(* The layers of the 3D map that show the land: mesh, clouds, shore, foam, *)
(* grid, decor, the models of mountains, woods, markers and scatter, and   *)
(* the rivers (src/three/HexWorldScene.ts, TileDecor3D.ts,                 *)
(* MountainProps3D.ts, ForestProps3D.ts, ResourceProps3D.ts,               *)
(* TerrainScatter3D.ts, Rivers3D.ts).  For each layer, the signature it    *)
(* compares and the picture it draws.                                      *)
(***************************************************************************)
(* The mesh: every hex with its terrain, that of its neighbours and the     *)
(* colour of the city that holds it.                                        *)
MeshSignature(i) == <<i.w.tiles, i.w.terrain>>
tint(i, h) == {i.w.colour[c] : c \in {d \in Cities : h \in territory(i, d)}}
MeshPicture(i) ==
  {<<h, i.w.terrain[h], edges(i, h), tint(i, h), "atlas" \in i.k>> : h \in i.w.tiles}

GroundSignature(i) == <<Cardinality(i.w.tiles)>>
GroundPicture(i) == {Cardinality(i.w.tiles)}

hidden(i) == i.w.tiles \ i.w.revealed
FogSignature(i) == <<hidden(i)>>
FogPicture(i) == {standing(i, "cloud", h) : h \in hidden(i)}

coast(i, h) == {n \in near(i, h) : i.w.terrain[n] # "ocean"}

ShoreSignature(i) == <<{h \in of(i, "ocean") : coast(i, h) # {}}>>
ShorePicture(i) == {<<"ring", h>> : h \in {x \in of(i, "ocean") : coast(i, x) # {}}}

FoamSignature(i) == <<of(i, "ocean")>>
FoamPicture(i) == UNION {{<<"foam", h, n>> : n \in coast(i, h)} : h \in of(i, "ocean")}

GridSignature(i) == <<i.r, i.o.structure, i.o.lod, Cardinality(i.w.revealed)>>
GridPicture(i) ==
  IF ~i.o.structure THEN {}
  ELSE UNION {{<<h, n, i.w.terrain[h], i.w.terrain[n], i.o.lod>> :
                n \in {m \in near(i, h) : ~(i.w.terrain[h] = "ocean" /\ i.w.terrain[m] = "ocean")}} : h \in i.w.revealed}

---------------------------------------------------------------------------
(* Decor: procedural shapes where no kit draws the terrain.                 *)

\* The cones make room for a city.
cone(i, h) == Append(standing(i, "cone", h), IF isCity(i, h) THEN "rim" ELSE "centre")
Cones(i) == IF "mountain" \in i.k THEN {} ELSE {cone(i, h) : h \in of(i, "mountain")}
Trees(i) == IF "forest" \in i.k THEN {} ELSE {standing(i, "tree", h) : h \in of(i, "forest")}
Shards(i) ==
  IF "scatter" \in i.k THEN {} ELSE {standing(i, "shard", h) : h \in {x \in of(i, "ice") : ~isCity(i, x)}}
Stones(i) ==
  IF "marker" \in i.k THEN {}
  ELSE {standing(i, "stones", h) : h \in {x \in of(i, "sacred") : ~isCity(i, x) /\ x \notin i.w.wonders}}

DecorSignature(i) ==
  <<i.o.lod, i.k \cap {"mountain", "forest", "marker", "scatter"}, i.w.tiles,
    [h \in i.w.tiles |-> <<i.w.terrain[h], h \in i.w.revealed>>]>>
DecorPicture(i) == Cones(i) \cup Trees(i) \cup Shards(i) \cup Stones(i)

(* The kits.                                                                *)

MountainSignature(i) == <<of(i, "mountain"), {h \in of(i, "mountain") : isCity(i, h)}>>
MountainPicture(i) ==
  {<<"peak", h, IF isCity(i, h) THEN "aside" ELSE "centre">> : h \in of(i, "mountain")}

ForestSignature(i) == <<of(i, "forest")>>
ForestPicture(i) == {standing(i, "pine", h) : h \in of(i, "forest")}

markers(i) == {h \in of(i, "sacred") : ~isCity(i, h) /\ h \notin i.w.wonders}
MarkerSignature(i) == <<i.r, markers(i)>>
MarkerPicture(i) == {standing(i, "marker", h) : h \in markers(i)}

scattered(i) == {h \in of(i, "ice") : ~isCity(i, h)}
ScatterSignature(i) == <<[h \in scattered(i) |-> i.w.terrain[h]]>>
ScatterPicture(i) == {standing(i, "scatter", h) : h \in scattered(i)}

(* The rivers follow the whole terrain and are drawn where it is revealed.  *)
RiverSignature(i) == <<i.w.tiles, [h \in i.w.tiles |-> <<i.w.terrain[h], h \in i.w.revealed>>], "bridge" \in i.k>>
RiverPicture(i) ==
  {<<"span", h, surface(i), "bridge" \in i.k>> : h \in {x \in i.w.revealed : i.w.terrain[x] # "ocean"}}

(***************************************************************************)
(* The layers of the 3D map that show what stands on the land: borders,    *)
(* city clusters, models and walls, yields, wonders, flags, gulls and      *)
(* smoke, labels (src/three/HexWorldScene.ts, CityCluster3D.ts,            *)
(* CityProps3D.ts, CityWalls3D.ts, TileYields3D.ts, WonderProps3D.ts,      *)
(* AmbientLife3D.ts, MapLabels3D.ts).                                      *)
(***************************************************************************)
towns == Cities \ {Capital}
\* Something of city c standing on its hex.
ofCity(i, what, c) == standing(i, what, i.w.at[c])
besideCity(i, what, c) == seated(i, what, i.w.at[c])

BorderSignature(i) ==
  <<i.r>> \o (IF i.o.structure
              THEN <<i.o.lod, [c \in Cities |-> <<i.w.at[c], Cardinality(territory(i, c)), i.w.colour[c]>>]>>
              ELSE <<>>)
\* The edges of a hex that leave the territory, seated on the ground.
ribbon(i, c, h) == <<seated(i, "border", h), i.w.colour[c], {n \in Neighbours[h] : n \notin territory(i, c)}>>
BorderPicture(i) ==
  IF ~i.o.structure \/ i.o.lod # "high" THEN {}
  ELSE UNION {{ribbon(i, c, h) : h \in territory(i, c)} : c \in Cities}

---------------------------------------------------------------------------
(* Clusters: what is drawn of a city while its models are not loaded.       *)

Dots(i) == {ofCity(i, "dot", c) : c \in Cities}
Focal(i) == IF "props" \in i.k THEN {} ELSE {besideCity(i, "plaza", c) : c \in Cities}
Houses(i) == IF "props" \in i.k THEN {} ELSE {ofCity(i, "houses", c) : c \in towns}
Ring(i) == IF "walls" \in i.k THEN {} ELSE {ofCity(i, "ring", c) : c \in towns}
Compound(i) == IF "props" \in i.k THEN {} ELSE {ofCity(i, "keep", Capital), ofCity(i, "ring", Capital)}

\* Slip of ClusterSignature: the walls do not take part.
ClusterForgetsWalls(i) == <<i.r, i.o.lod, i.k \cap {"props"}, i.w.at>>

ClusterSignature(i) == <<i.r, i.o.lod, i.k \cap {"props", "walls"}, i.w.at>>
ClusterPicture(i) ==
  IF i.o.lod = "low" THEN Dots(i) ELSE Focal(i) \cup Houses(i) \cup Ring(i) \cup Compound(i)

\* What a city is signed with, its capital, level and banner, never changes here.
PropsSignature(i) == <<i.r, Cities>>
PropsPicture(i) == {besideCity(i, "model", c) : c \in Cities} \cup {besideCity(i, "banner", c) : c \in Cities}

WallsSignature(i) == <<i.r, i.w.at>>
WallsPicture(i) == {besideCity(i, "wall", c) : c \in Cities}

---------------------------------------------------------------------------

YieldSignature(i) ==
  IF ~i.o.structure \/ i.o.lod = "low" THEN <<>> ELSE <<i.r, i.w.revealed, i.w.revealed \cap i.w.rich>>
YieldPicture(i) ==
  IF ~i.o.structure \/ i.o.lod = "low" THEN {}
  ELSE {standing(i, IF isCity(i, h) THEN "row" ELSE "icons", h) : h \in i.w.revealed \cap i.w.rich}

shownWonders(i) == i.w.wonders \cap i.w.revealed
WonderSignature(i) ==
  IF shownWonders(i) = {} THEN <<>> ELSE <<i.r, "wonder" \in i.k, shownWonders(i)>>
WonderPicture(i) ==
  {standing(i, IF "wonder" \in i.k THEN "model" ELSE "temple", h) : h \in shownWonders(i)}

\* The gulls circle over some of the revealed sea.
anchors(i) == of(i, "ocean")
LifeSignature(i) == <<i.r, i.w.at, anchors(i)>>
flags(i) == {ofCity(i, "flag", c) : c \in {d \in Cities : i.w.at[d] \in i.w.revealed}}
smoke(i) == {ofCity(i, "smoke", c) : c \in {d \in {Capital} : i.w.at[d] \in i.w.revealed}}
LifePicture(i) == flags(i) \cup {<<"gull", h>> : h \in anchors(i)} \cup smoke(i)

LabelSignature(i) == IF ~i.o.labels THEN <<>> ELSE <<i.r, i.o.lod, Cities, shownWonders(i)>>
cityLabels(i) == {ofCity(i, c, c) : c \in Cities}
LabelPicture(i) ==
  IF ~i.o.labels \/ i.o.lod = "low" THEN {}
  ELSE cityLabels(i) \cup {standing(i, "wonder", h) : h \in shownWonders(i)}

---------------------------------------------------------------------------
CONSTANTS
  First,       \* the world at the start
  Changes,     \* the kinds of change that happen
  Paints,      \* the terrains painted
  MaxChanges   \* bound: changes in a behaviour

VARIABLES
  world, opts,
  kit,       \* [Kits -> loading, ready or failed]
  rev,       \* terrainRevision
  known,     \* the mesh signature it was counted for
  seen,      \* lastTileSignature
  settled,   \* areCityPropsSettledCalled, areCityWallsSettledCalled
  layer,     \* [Layers -> its signature and picture]
  fades,     \* hexes whose cloud is fading
  covered,   \* prevUnrevealedKeys
  framed,    \* nothing has changed since the last frame
  changes

vars == <<world, opts, kit, rev, known, seen, settled, layer, fades, covered, framed, changes>>

Layers == {"mesh", "ground", "fog", "shore", "foam", "grid", "decor", "mountain", "forest", "marker", "scatter",
           "river", "border", "cluster", "props", "walls", "yield", "wonder", "life", "label"}

ready == {k \in Kits : kit[k] = "ready"}
input(r) == [w |-> world, o |-> opts, k |-> ready, r |-> r]

TypeOK ==
  /\ world \in Worlds /\ world.revealed \subseteq world.tiles /\ world.rich \subseteq world.tiles
  /\ opts \in Options
  /\ kit \in [Kits -> {"loading", "ready", "failed"}]
  /\ rev \in Nat /\ settled \subseteq {"props", "walls"}
  /\ DOMAIN layer = Layers /\ fades \subseteq Hexes /\ covered \subseteq Hexes
  /\ framed \in BOOLEAN /\ changes \in 0 .. MaxChanges

Blank == [sig |-> <<>>, pic |-> {}]

Init ==
  /\ world = First
  /\ opts = [lod |-> "high", structure |-> TRUE, labels |-> TRUE]
  /\ kit = [k \in Kits |-> "loading"]
  /\ rev = 0 /\ known = <<>> /\ seen = <<>> /\ settled = {}
  /\ layer = [n \in Layers |-> Blank]
  /\ fades = {} /\ covered = {}
  /\ framed = FALSE /\ changes = 0

---------------------------------------------------------------------------
(* A frame.                                                                 *)

computeWorldSignature(w) ==
  <<Cardinality(w.tiles), Cardinality(w.revealed), [h \in w.tiles |-> w.terrain[h]], w.at,
    [c \in Cities |-> Cardinality(territory([w |-> w], c))], w.colour, Cardinality(w.wonders)>>

\* The walls are the one kit that is left out.
tileSignature == <<computeWorldSignature(world), opts, ready \ {"walls"}>>

done(k) == kit[k] # "loading"
\* Kits that settled since the last frame: their layers are rebuilt even if nothing else changed.
justSettled == {k \in {"props", "walls"} : done(k)} \ settled
atlasJustLoaded == layer["mesh"].pic = {} /\ "atlas" \in ready

\* Draw, unless the signature is that of the last drawing.
drawn(l, sig, pic) == IF l.sig = sig THEN l ELSE [sig |-> sig, pic |-> pic]
\* A kit draws again when it lost its meshes and has something to show.
instanced(l, sig, pic) == IF l.sig = sig /\ (l.pic # {} \/ pic = {}) THEN l ELSE [sig |-> sig, pic |-> pic]

\* The mesh is made again or only coloured again.
rebuildTerrainMesh(l, i) == [sig |-> MeshSignature(i), pic |-> MeshPicture(i)]

rebuildDecor(l, i) == IF i.o.lod = "low" THEN Blank ELSE drawn(l, DecorSignature(i), DecorPicture(i))

whenReady(l, i, k, sig, pic) == IF k \notin i.k THEN l ELSE instanced(l, sig, pic)

clearedWhenFar(l, i, k, sig, pic) ==
  IF k \notin i.k \/ i.o.lod = "low" THEN [l EXCEPT !.pic = {}] ELSE instanced(l, sig, pic)

rebuilt(n, l, i) ==
  CASE n = "mesh" -> rebuildTerrainMesh(l, i)
    [] n = "ground" -> drawn(l, GroundSignature(i), GroundPicture(i))
    [] n = "fog" -> drawn(l, FogSignature(i), FogPicture(i))
    [] n = "border" -> drawn(l, BorderSignature(i), BorderPicture(i))
    [] n = "grid" -> instanced(l, GridSignature(i), GridPicture(i))
    [] n = "decor" -> rebuildDecor(l, i)
    [] n = "mountain" -> whenReady(l, i, "mountain", MountainSignature(i), MountainPicture(i))
    [] n = "forest" -> whenReady(l, i, "forest", ForestSignature(i), ForestPicture(i))
    [] n = "marker" -> whenReady(l, i, "marker", MarkerSignature(i), MarkerPicture(i))
    [] n = "scatter" -> whenReady(l, i, "scatter", ScatterSignature(i), ScatterPicture(i))
    [] n = "river" -> drawn(l, RiverSignature(i), RiverPicture(i))
    [] n = "cluster" -> drawn(l, ClusterSignature(i), ClusterPicture(i))
    [] n = "props" -> clearedWhenFar(l, i, "props", PropsSignature(i), PropsPicture(i))
    [] n = "walls" -> clearedWhenFar(l, i, "walls", WallsSignature(i), WallsPicture(i))
    [] n = "yield" -> drawn(l, YieldSignature(i), YieldPicture(i))
    [] n = "wonder" -> drawn(l, WonderSignature(i), WonderPicture(i))
    [] n = "life" -> drawn(l, LifeSignature(i), LifePicture(i))
    [] n = "label" -> drawn(l, LabelSignature(i), LabelPicture(i))
    [] OTHER -> l

\* The shore and the foam, on the frames the world changed.
shores(l, i) ==
  [l EXCEPT !["shore"] = drawn(@, ShoreSignature(i), ShorePicture(i)),
            !["foam"] = drawn(@, FoamSignature(i), FoamPicture(i))]

\* A hex that was under a cloud and is not any more.
updateFogTransition(i) == {h \in covered \cap i.w.tiles : h \notin hidden(i)}

noteTerrainMeshSignature(sig) == rev + (IF sig = known THEN 0 ELSE 1)

updateHexWorldScene ==
  LET i == input(rev)
      dirty == tileSignature # seen IN
  /\ ~framed /\ framed' = TRUE /\ seen' = tileSignature
  /\ settled' = settled \cup justSettled
  /\ LET s == IF dirty THEN shores(layer, i) ELSE layer IN
     IF dirty \/ justSettled # {} \/ atlasJustLoaded
       THEN /\ rev' = noteTerrainMeshSignature(MeshSignature(i)) /\ known' = MeshSignature(i)
            /\ layer' = LET j == input(rev') IN [n \in Layers |-> rebuilt(n, s[n], j)]
            /\ fades' = fades \cup updateFogTransition(i) /\ covered' = hidden(i)
       ELSE layer' = s /\ UNCHANGED <<rev, known, fades, covered>>
  /\ UNCHANGED <<world, opts, kit, changes>>

\* The time of a cloud to fade passes.
tickFogTransition ==
  /\ fades # {} /\ fades' = {}
  /\ UNCHANGED <<world, opts, kit, rev, known, seen, settled, layer, covered, framed, changes>>

---------------------------------------------------------------------------
(* What changes between two frames.                                         *)

change(kind) == kind \in Changes /\ changes < MaxChanges /\ changes' = changes + 1 /\ framed' = FALSE
same == UNCHANGED <<rev, known, seen, settled, fades, covered>>
changeWorld(kind, w) == change(kind) /\ world' = w /\ same /\ UNCHANGED <<opts, kit, layer>>

\* A kit arrives and forgets the signature of its layer.
dropMesh == layer' = [layer EXCEPT !["mesh"] = Blank]
forget(k) ==
  CASE k = "atlas" -> dropMesh
    [] k = "bridge" -> layer' = [layer EXCEPT !["river"].sig = <<>>]
    [] OTHER -> layer' = [layer EXCEPT ![k].sig = <<>>]

Load(k) ==
  /\ change("load") /\ kit[k] = "loading" /\ kit' = [kit EXCEPT ![k] = "ready"]
  /\ forget(k) /\ same /\ UNCHANGED <<world, opts>>

\* The atlas drops the mesh whether it arrives or not.
Fail(k) ==
  /\ change("fail") /\ kit[k] = "loading" /\ kit' = [kit EXCEPT ![k] = "failed"]
  /\ IF k = "atlas" THEN dropMesh ELSE UNCHANGED layer
  /\ same /\ UNCHANGED <<world, opts>>

\* The brush, on any hex but the capital's.
Paint(h, t) ==
  /\ h \in world.tiles /\ h # world.at[Capital] /\ world.terrain[h] # t
  /\ changeWorld(IF h \in world.revealed THEN "paint" ELSE "paint under the clouds", [world EXCEPT !.terrain[h] = t])

Erase(h) ==
  /\ h \in world.tiles \ world.wonders /\ ~isCity(input(rev), h)
  /\ changeWorld("erase", [world EXCEPT !.tiles = @ \ {h}, !.revealed = @ \ {h}, !.rich = @ \ {h}])

revealHexes(h) == h \in world.tiles \ world.revealed /\ changeWorld("reveal", [world EXCEPT !.revealed = @ \cup {h}])

\* The city carries its terrain and its resources; the hex it leaves keeps both.
moveCityInWorld(c, h) ==
  LET from == world.at[c] IN
  /\ h \in (world.tiles \cap world.revealed) \ world.wonders /\ world.terrain[h] # "ocean" /\ ~isCity(input(rev), h)
  /\ changeWorld("move", [world EXCEPT !.at[c] = h, !.terrain[h] = world.terrain[from],
                          !.rich = IF from \in @ THEN @ \cup {h} ELSE @ \ {h}])

assignCityToNation(c) ==
  changeWorld("align", [world EXCEPT !.colour[c] = IF @ = "own" THEN "nation" ELSE "own"])

\* A wonder takes its hex of the capital's spiral; it leaves plains behind.
connectWonder(h) ==
  /\ h \in Hexes \ (world.wonders \cup {First.at[Capital]}) /\ ~isCity(input(rev), h)
  /\ changeWorld("wonder", [world EXCEPT !.wonders = @ \cup {h}, !.terrain[h] = "sacred", !.tiles = @ \cup {h},
                            !.revealed = @ \cup {h}, !.rich = @ \cup {h}])
disconnectWonder(h) ==
  h \in world.wonders /\ changeWorld("wonder", [world EXCEPT !.wonders = @ \ {h}, !.terrain[h] = "plains"])

View(o) ==
  /\ o # opts /\ opts' = o /\ change("view") /\ same /\ UNCHANGED <<world, kit, layer>>

Next ==
  \/ updateHexWorldScene \/ tickFogTransition
  \/ \E k \in Kits : Load(k) \/ Fail(k)
  \/ \E h \in Hexes : \/ \E t \in Paints : Paint(h, t)
                      \/ Erase(h) \/ revealHexes(h) \/ connectWonder(h) \/ disconnectWonder(h)
                      \/ \E c \in Cities : moveCityInWorld(c, h)
  \/ \E c \in Cities : assignCityToNation(c)
  \/ \E l \in {"low", "medium", "high"}, b, d \in BOOLEAN : View([lod |-> l, structure |-> b, labels |-> d])

Spec == Init /\ [][Next]_vars

---------------------------------------------------------------------------

now == input(rev)
shown(n) == layer[n].pic
shows(n, pic) == framed => shown(n) = pic
close(i) == i.o.lod # "low"
modelled(k, pic) == IF k \in now.k THEN pic ELSE {}

(* After a frame every layer of the land shows the land as it is, whatever *)
(* was painted, erased, revealed, moved, built on, loaded or not loaded    *)
(* before: a layer that keeps its picture keeps the right one. Only the    *)
(* mesh may be gone, after the atlas failed.                               *)
ReliefShown ==
  /\ shown("mesh") # {} => shows("mesh", MeshPicture(now))
  /\ (framed /\ shown("mesh") = {}) => kit["atlas"] = "failed"
  /\ shows("ground", GroundPicture(now))
  /\ shows("shore", ShorePicture(now)) /\ shows("grid", GridPicture(now)) /\ shows("river", RiverPicture(now))
  /\ shows("mountain", modelled("mountain", MountainPicture(now)))
  /\ shows("forest", modelled("forest", ForestPicture(now)))
  /\ shows("marker", modelled("marker", MarkerPicture(now)))
  /\ shows("scatter", modelled("scatter", ScatterPicture(now)))

(* So does the decor while no city moves and no wonder comes; when they    *)
(* do, it is still right for the land, if not for where they are now.      *)
DecorShown == shows("decor", IF close(now) THEN DecorPicture(now) ELSE {})
DecorFollowsTheLand ==
  framed =>
    IF ~close(now) THEN shown("decor") = {}
    ELSE \E at \in [Cities -> Hexes], wonders \in SUBSET Hexes :
           shown("decor") = DecorPicture([now EXCEPT !.w.at = at, !.w.wonders = wonders])

(* After a frame the borders, the clusters, the walls and the flags stand  *)
(* where their city is, at the height of its hex and in its colours.       *)
SettlementShown ==
  /\ shows("border", BorderPicture(now)) /\ shows("cluster", ClusterPicture(now))
  /\ shows("walls", IF close(now) THEN modelled("walls", WallsPicture(now)) ELSE {})
  /\ shows("life", LifePicture(now))

(* A hex never shows the procedural shapes and the models of a terrain at  *)
(* once, nor a wonder and the stones of a bare sacred hex.                 *)
on(n, kinds) == {p[2] : p \in {x \in shown(n) : x[1] \in kinds}}
OneModelPerHex ==
  framed =>
    /\ on("decor", {"cone"}) \cap on("mountain", {"peak"}) = {}
    /\ on("decor", {"tree"}) \cap on("forest", {"pine"}) = {}
    /\ on("decor", {"shard"}) \cap on("scatter", {"scatter"}) = {}
    /\ on("decor", {"stones"}) \cap (on("marker", {"marker"}) \cup on("wonder", {"model", "temple"})) = {}
    /\ on("cluster", {"houses", "plaza"}) \cap on("props", {"model"}) = {}

(* Every town has one ring of walls, and only one.                         *)
rings(c) == Cardinality(on("cluster", {"ring"}) \cap {world.at[c]}) + Cardinality(on("walls", {"wall"}) \cap {world.at[c]})
OneRing == (framed /\ close(now)) => \A c \in towns : rings(c) = 1

(* A cloud never vanishes at once: the hex it hid fades.                   *)
CloudsFade ==
  \A h \in world.tiles :
    (h \in on("fog", {"cloud"}) /\ h \notin on("fog", {"cloud"})' /\ h \in world.revealed) => h \in fades'

---------------------------------------------------------------------------
(* What a document, a comment or a test says and this code does not keep    *)
(* (README, "Where the code differs").                                      *)

(* A wonder is drawn while it is connected.                                *)
WonderShown == shows("wonder", WonderPicture(now))

(* The models, the banners and the names of the cities too.                *)
CityModelsMove ==
  /\ shows("props", IF close(now) THEN modelled("props", PropsPicture(now)) ELSE {})
  /\ shows("label", LabelPicture(now))

(* The clouds lie on the hexes they hide, and the foam where the sea meets *)
(* the land.                                                               *)
CloudsLieOnTheLand == shows("fog", FogPicture(now)) /\ shows("foam", FoamPicture(now))

(* TileDecor3D.ts:465, "the 0.3·HEX stone ring would stand inside the      *)
(* keep": DecorShown, when the capital moves between two sacred hexes.     *)

(* TerrainTextureAtlas.ts:95, "3D map uses flat vertex colors until fixed":*)
(* without the atlas the land is shown all the same.                       *)
MeshStays == framed => shown("mesh") # {}

(* The capital too.                                                        *)
CapitalRing == (framed /\ close(now)) => rings(Capital) = 1
=============================================================================
