----------------------------- MODULE WorldProofs -----------------------------
(***************************************************************************)
(* Proofs about MCWorld: the undo and redo of the map editor, for any      *)
(* repos, rows of hexes and numbers of edits; the map, the palace and the  *)
(* disk against the registry, and the window that opens a wonder, for any  *)
(* wonders, rings, requests, faults, windows, polls, cities and layers.    *)
(***************************************************************************)
EXTENDS MCWorld, TLAPS

---------------------------------------------------------------------------
(* The registry and the map.                                                *)

Distinct(list) == \A i, j \in DOMAIN list : list[i] = list[j] => i = j

(* A request, and the list that came back for it.                           *)
Requests(c) ==
  {r \in [step : {"idle", "posted", "done", "asked", "read"}, op : {"connect", "disconnect", "none"},
          wonder : c.wonders \cup {"none"}, answer : Seq(c.wonders)] :
     /\ Distinct(r.answer)
     /\ r.op \in {"connect", "disconnect"} => r.wonder \in c.wonders}
Tiles(c) == [terrain : {"plains", "sacred"}, city : BOOLEAN, wonder : c.wonders \cup {"none"}]
Lists(c) == {list \in Seq(c.wonders) : Distinct(list)}

RegistryTyped(c) ==
  /\ disk \subseteq c.wonders /\ booted \in BOOLEAN /\ loaded \in BOOLEAN
  /\ registry \in Lists(c)
  /\ calls \in [c.calls -> Requests(c)]
  /\ tiles \in [Registry(c)!Hexes -> Tiles(c)]
  /\ DOMAIN districts \subseteq c.wonders
  /\ tabs = {"none"} \/ tabs \subseteq c.wonders
  /\ made \in Nat /\ drops \in Nat /\ faults \in Nat

(* The page shows nothing of the registry before it starts.                 *)
MapFollows(c) ==
  /\ booted => DOMAIN districts = {registry[i] : i \in DOMAIN registry \cap DOMAIN c.ring}
  /\ tabs # {"none"} => booted /\ tabs = {registry[i] : i \in DOMAIN registry}
  /\ ~booted => \A k \in c.calls : calls[k].step = "idle"

(* Where the only request stands says which list is that of the disk.       *)
Of(list, files) == {list[i] : i \in DOMAIN list} = files
Fresh(c) ==
  /\ (booted /\ \A k \in c.calls : calls[k].step \in {"idle", "posted"}) => Of(registry, disk)
  /\ \A k \in c.calls : calls[k].step = "read" => Of(calls[k].answer, disk)

WondersHold(c) == RegistryTyped(c) /\ MapFollows(c)

LEMMA ListsAreLists ==
  ASSUME NEW c, Registry(c)!WondersAssumption, NEW some \in SUBSET c.wonders
  PROVE  /\ c.listing[some] \in Lists(c)
         /\ {c.listing[some][i] : i \in DOMAIN c.listing[some]} = some
BY DEF Registry!WondersAssumption, Registry!Range, Registry!IsInjective, Lists, Distinct

LEMMA NothingListed ==
  ASSUME NEW c
  PROVE  <<>> \in Lists(c)
BY DEF Lists, Distinct

(* Where the wonders of a list go: as many as there are hexes.              *)
LEMMA PlacesOfList ==
  ASSUME NEW c, NEW list
  PROVE  Registry(c)!Placed(list) = {list[i] : i \in DOMAIN list \cap DOMAIN c.ring}
BY DEF Registry!Placed, Registry!assignWonderCoords

LEMMA PlacedWonders ==
  ASSUME NEW c, NEW list \in Seq(c.wonders)
  PROVE  Registry(c)!Placed(list) \subseteq c.wonders
BY PlacesOfList

LEMMA SyncFollows ==
  ASSUME NEW c, RegistryTyped(c), NEW list \in Seq(c.wonders), Registry(c)!syncWorldWonders(list)
  PROVE  /\ tiles' \in [Registry(c)!Hexes -> Tiles(c)]
         /\ DOMAIN districts' = {list[i] : i \in DOMAIN list \cap DOMAIN c.ring}
         /\ DOMAIN districts' \subseteq c.wonders
<1> DEFINE new == Registry(c)!Placed(list) \ DOMAIN districts
           here(h) == \E w \in new : Registry(c)!HexOf(list, w) = h
           first(h) == CHOOSE w \in new : Registry(c)!HexOf(list, w) = h
<1>1. DOMAIN districts' = Registry(c)!Placed(list)
  BY DEF Registry!syncWorldWonders
<1>2. new \subseteq c.wonders
  BY PlacedWonders
<1>3. ASSUME NEW h \in Registry(c)!Hexes, here(h)
      PROVE  tiles'[h] \in Tiles(c)
  <2>1. first(h) \in c.wonders
    BY <1>2, <1>3
  <2>2. tiles'[h] = Registry(c)!Sacred(first(h))
    BY <1>3 DEF Registry!syncWorldWonders
  <2> HIDE DEF first, new
  <2> QED BY <2>1, <2>2 DEF Registry!Sacred, Tiles
<1>4. ASSUME NEW h \in Registry(c)!Hexes, ~here(h)
      PROVE  tiles'[h] \in Tiles(c)
  <2>1. tiles'[h] \in {tiles[h], [tiles[h] EXCEPT !.wonder = "none", !.terrain = "plains"]}
    BY <1>4 DEF Registry!syncWorldWonders, Registry!None
  <2>2. tiles[h] \in Tiles(c)
    BY DEF RegistryTyped
  <2> QED BY <2>1, <2>2 DEF Tiles
<1>5. tiles' = [h \in Registry(c)!Hexes |-> tiles'[h]]
  BY DEF Registry!syncWorldWonders
<1> QED BY <1>1, <1>3, <1>4, <1>5, PlacesOfList, PlacedWonders

LEMMA WondersStart ==
  ASSUME NEW c, Registry(c)!Init
  PROVE  WondersHold(c)
<1>1. disk \subseteq c.wonders /\ booted = FALSE /\ loaded = FALSE /\ registry \in Lists(c) /\ tabs = {"none"}
      /\ made = 0 /\ drops = 0 /\ faults = 0
  BY NothingListed DEF Registry!Init, Registry!Closed, Registry!None
<1>2. calls \in [c.calls -> Requests(c)] /\ \A k \in c.calls : calls[k].step = "idle"
  BY DEF Registry!Init, Registry!Free, Registry!None, Requests, Distinct
<1>3. tiles \in [Registry(c)!Hexes -> Tiles(c)]
  BY DEF Registry!Init, Registry!Plain, Registry!None, Tiles
<1>4. DOMAIN districts = {}
  BY DEF Registry!Init
<1> QED BY <1>1, <1>2, <1>3, <1>4 DEF WondersHold, RegistryTyped, MapFollows

LEMMA BootHolds ==
  ASSUME NEW c, Registry(c)!WondersAssumption, WondersHold(c), Registry(c)!Boot
  PROVE  WondersHold(c)'
<1>1. registry' \in Lists(c) /\ loaded' \in BOOLEAN /\ faults' \in Nat
  <2>1. disk \in SUBSET c.wonders /\ faults \in Nat
    BY DEF WondersHold, RegistryTyped
  <2>2. c.listing[disk] \in Lists(c)
    BY <2>1, ListsAreLists
  <2>3. registry' \in {c.listing[disk], <<>>} /\ loaded' = TRUE /\ faults' \in {faults, faults + 1}
    BY DEF Registry!Boot, Registry!Loads, Registry!Listed
  <2>4. loaded' \in BOOLEAN
    BY <2>3, Zenon
  <2> QED BY <2>1, <2>2, <2>3, <2>4, NothingListed
<1>2. Registry(c)!Placed(registry') \subseteq c.wonders
  BY <1>1, PlacedWonders DEF Lists
<1>3. PICK h : tiles' = [x \in Registry(c)!Hexes |->
                 IF x = h THEN [Registry(c)!Plain EXCEPT !.city = TRUE]
                 ELSE IF x \in {Registry(c)!HexOf(registry', w) : w \in Registry(c)!Placed(registry')}
                   THEN Registry(c)!Sacred(CHOOSE w \in Registry(c)!Placed(registry') : Registry(c)!HexOf(registry', w) = x)
                   ELSE Registry(c)!Plain]
  BY DEF Registry!Boot
<1>4. ASSUME NEW x \in Registry(c)!Hexes
      PROVE  tiles'[x] \in Tiles(c)
  <2>1. CASE x \in {Registry(c)!HexOf(registry', w) : w \in Registry(c)!Placed(registry')}
    <3>1. (CHOOSE w \in Registry(c)!Placed(registry') : Registry(c)!HexOf(registry', w) = x) \in c.wonders
      BY <1>2, <2>1
    <3> QED BY <1>3, <2>1, <3>1 DEF Registry!Sacred, Registry!Plain, Registry!None, Tiles
  <2>2. CASE x \notin {Registry(c)!HexOf(registry', w) : w \in Registry(c)!Placed(registry')}
    BY <1>3, <2>2 DEF Registry!Plain, Registry!None, Tiles
  <2> QED BY <2>1, <2>2
<1>5. tiles' \in [Registry(c)!Hexes -> Tiles(c)]
  BY <1>3, <1>4
<1>6. DOMAIN districts' = Registry(c)!Placed(registry')
  BY DEF Registry!Boot
<1> QED BY <1>1, <1>2, <1>5, <1>6, PlacesOfList DEF Registry!Boot, WondersHold, RegistryTyped, MapFollows

LEMMA EndHolds ==
  ASSUME NEW c, Registry(c)!WondersAssumption, WondersHold(c), NEW k \in c.calls,
         Registry(c)!Answer(k) \/ Registry(c)!LoadFails(k)
  PROVE  WondersHold(c)'
<1>1. registry' \in Lists(c) /\ loaded' \in BOOLEAN /\ faults' \in Nat
  <2>1. calls[k] \in Requests(c) /\ registry \in Lists(c) /\ faults \in Nat
    BY DEF WondersHold, RegistryTyped
  <2>2. calls[k].answer \in Lists(c)
    BY <2>1 DEF Requests, Lists
  <2>3. registry' \in {registry, calls[k].answer} /\ loaded' = TRUE /\ faults' \in {faults, faults + 1}
    BY DEF Registry!Answer, Registry!LoadFails, Registry!Loads
  <2>4. loaded' \in BOOLEAN
    BY <2>3, Zenon
  <2> QED BY <2>1, <2>2, <2>3, <2>4
<1>2. Registry(c)!Ends(k)
  BY DEF Registry!Answer, Registry!LoadFails
<1>3. booted
  BY DEF Registry!Answer, Registry!LoadFails, WondersHold, MapFollows
<1>4. /\ tiles' \in [Registry(c)!Hexes -> Tiles(c)]
      /\ DOMAIN districts' = {registry'[i] : i \in DOMAIN registry' \cap DOMAIN c.ring}
      /\ DOMAIN districts' \subseteq c.wonders
  BY <1>1, <1>2, SyncFollows DEF Registry!Ends, WondersHold, Lists
<1>5. calls' \in [c.calls -> Requests(c)]
  BY <1>2 DEF Registry!Ends, Registry!Free, Registry!None, WondersHold, RegistryTyped, Requests, Distinct
<1>6. /\ tabs' = {"none"} \/ tabs' = {registry'[i] : i \in DOMAIN registry'}
      /\ {registry'[i] : i \in DOMAIN registry'} \subseteq c.wonders
  BY <1>1, <1>2 DEF Registry!Ends, Registry!rebuildTabsBar, Registry!Closed, Registry!None, Registry!Range, Lists
<1> QED BY <1>1, <1>2, <1>3, <1>4, <1>5, <1>6 DEF Registry!Ends, WondersHold, RegistryTyped, MapFollows

(* The steps that leave the registry and the map as they are.               *)
LEMMA RequestHolds ==
  ASSUME NEW c, Registry(c)!WondersAssumption, WondersHold(c), NEW k \in c.calls,
         \/ \E w \in c.wonders : Registry(c)!Connect(k, w) \/ Registry(c)!Disconnect(k, w)
         \/ Registry(c)!Serve(k) \/ Registry(c)!Invalidate(k) \/ Registry(c)!Read(k) \/ Registry(c)!PostFails(k)
  PROVE  WondersHold(c)'
<1>1. UNCHANGED <<booted, registry, tiles, districts, tabs, drops>> /\ booted
  BY DEF Registry!Connect, Registry!Disconnect, Registry!Begin, Registry!Serve, Registry!Invalidate,
         Registry!Read, Registry!PostFails, WondersHold, MapFollows
<1>2. disk' \subseteq c.wonders /\ loaded' \in BOOLEAN /\ made' \in Nat /\ faults' \in Nat
  <2>1. ASSUME Registry(c)!Serve(k) PROVE disk' \subseteq c.wonders
    <3>1. calls[k] \in Requests(c) /\ disk \subseteq c.wonders
      BY DEF WondersHold, RegistryTyped
    <3> QED BY <2>1, <3>1 DEF Registry!Serve, Requests
  <2>2. ASSUME ~Registry(c)!Serve(k) PROVE disk' = disk
    BY <2>2 DEF Registry!Connect, Registry!Disconnect, Registry!Begin, Registry!Invalidate, Registry!Read, Registry!PostFails
  <2>3. made' \in {made, made + 1} /\ faults' \in {faults, faults + 1}
    BY DEF Registry!Connect, Registry!Disconnect, Registry!Begin, Registry!Serve, Registry!Invalidate,
           Registry!Read, Registry!PostFails
  <2>4. loaded' = loaded \/ loaded' = FALSE
    BY DEF Registry!Connect, Registry!Disconnect, Registry!Begin, Registry!Serve, Registry!Invalidate,
           Registry!Read, Registry!PostFails
  <2>5. loaded' \in BOOLEAN
    BY <2>4, Zenon DEF WondersHold, RegistryTyped
  <2> QED BY <2>1, <2>2, <2>3, <2>5 DEF WondersHold, RegistryTyped
<1>3. PICK r : calls' = [calls EXCEPT ![k] = r] /\ r \in Requests(c)
  <2>1. calls \in [c.calls -> Requests(c)] /\ calls[k] \in Requests(c) /\ disk \in SUBSET c.wonders
    BY DEF WondersHold, RegistryTyped
  <2>2. CASE \E w \in c.wonders : Registry(c)!Connect(k, w) \/ Registry(c)!Disconnect(k, w)
    <3>1. PICK w \in c.wonders, op \in {"connect", "disconnect"} : Registry(c)!Begin(k, op, w)
      BY <2>2 DEF Registry!Connect, Registry!Disconnect
    <3> DEFINE r == [step |-> "posted", op |-> op, wonder |-> w, answer |-> <<>>]
    <3>2. calls' = [calls EXCEPT ![k] = r]
      BY <3>1 DEF Registry!Begin
    <3>3. r \in Requests(c)
      BY DEF Requests, Distinct
    <3> QED BY <3>2, <3>3
  <2>3. CASE Registry(c)!Serve(k) \/ Registry(c)!Invalidate(k) \/ Registry(c)!PostFails(k)
    <3>1. Registry(c)!Free \in Requests(c)
      BY DEF Registry!Free, Registry!None, Requests, Distinct
    <3>2. \A st \in {"done", "asked"} : [calls[k] EXCEPT !.step = st] \in Requests(c)
      BY <2>1 DEF Requests
    <3>3. \/ calls' = [calls EXCEPT ![k] = Registry(c)!Free]
          \/ \E st \in {"done", "asked"} : calls' = [calls EXCEPT ![k].step = st]
      BY <2>3 DEF Registry!Serve, Registry!Invalidate, Registry!PostFails
    <3> QED BY <2>1, <3>1, <3>2, <3>3
  <2>4. CASE Registry(c)!Read(k)
    <3>1. c.listing[disk] \in Lists(c)
      BY <2>1, ListsAreLists
    <3> DEFINE r == [calls[k] EXCEPT !.step = "read", !.answer = c.listing[disk]]
    <3>2. calls' = [calls EXCEPT ![k] = r]
      BY <2>1, <2>4 DEF Registry!Read, Registry!Listed
    <3>3. r \in Requests(c)
      BY <2>1, <3>1 DEF Requests, Lists
    <3> QED BY <3>2, <3>3
  <2> QED BY <2>2, <2>3, <2>4
<1> QED BY <1>1, <1>2, <1>3 DEF WondersHold, RegistryTyped, MapFollows

LEMMA WondersStep ==
  ASSUME NEW c, Registry(c)!WondersAssumption, WondersHold(c), Registry(c)!Next
  PROVE  WondersHold(c)'
<1>1. CASE Registry(c)!OpenPalace
  BY <1>1 DEF Registry!OpenPalace, Registry!Closed, Registry!None, Registry!Range, Lists,
         WondersHold, RegistryTyped, MapFollows
<1>2. ASSUME NEW w \in c.wonders, Registry(c)!DropFile(w) PROVE WondersHold(c)'
  BY <1>2 DEF Registry!DropFile, WondersHold, RegistryTyped, MapFollows
<1> QED BY <1>1, <1>2, BootHolds, EndHolds, RequestHolds DEF Registry!Next

LEMMA FreshStarts ==
  ASSUME NEW c, Registry(c)!Init
  PROVE  Fresh(c)
BY DEF Registry!Init, Registry!Free, Fresh

(* One request at a time, of which none fails, and no file written by hand. *)
LEMMA FreshStep ==
  ASSUME NEW c, Registry(c)!WondersAssumption, \A j, k \in c.calls : j = k, c.drops = 0, c.faults = 0,
         WondersHold(c), Fresh(c), Registry(c)!Next
  PROVE  Fresh(c)'
<1>1. drops \in Nat /\ faults \in Nat /\ disk \in SUBSET c.wonders
  BY DEF WondersHold, RegistryTyped
<1>2. CASE Registry(c)!Boot
  <2>1. registry' = c.listing[disk] /\ disk' = disk /\ calls' = calls
    BY <1>1, <1>2 DEF Registry!Boot, Registry!Loads, Registry!Listed
  <2>2. \A k \in c.calls : calls[k].step = "idle"
    BY <1>2 DEF Registry!Boot, WondersHold, MapFollows
  <2> QED BY <1>1, <2>1, <2>2, ListsAreLists DEF Fresh, Of
<1>3. CASE Registry(c)!OpenPalace
  BY <1>3 DEF Registry!OpenPalace, Fresh, Of
<1>4. ASSUME NEW w \in c.wonders, Registry(c)!DropFile(w) PROVE FALSE
  BY <1>1, <1>4 DEF Registry!DropFile
<1>5. ASSUME NEW k \in c.calls,
             \/ \E w \in c.wonders : Registry(c)!Connect(k, w) \/ Registry(c)!Disconnect(k, w)
             \/ Registry(c)!Serve(k) \/ Registry(c)!Invalidate(k) \/ Registry(c)!Read(k)
             \/ Registry(c)!Answer(k) \/ Registry(c)!LoadFails(k) \/ Registry(c)!PostFails(k)
      PROVE  Fresh(c)'
  <2>1. ~Registry(c)!LoadFails(k) /\ ~Registry(c)!PostFails(k)
    BY <1>1 DEF Registry!LoadFails, Registry!PostFails
  <2>2. calls \in [c.calls -> Requests(c)] /\ booted' = booted
    BY <1>5 DEF WondersHold, RegistryTyped, Registry!Connect, Registry!Disconnect, Registry!Begin, Registry!Serve,
           Registry!Invalidate, Registry!Read, Registry!Answer, Registry!Ends, Registry!LoadFails, Registry!PostFails
  <2>3. SUFFICES /\ booted /\ calls'[k].step \in {"idle", "posted"} => Of(registry', disk')
                 /\ calls'[k].step = "read" => Of(calls'[k].answer, disk')
    BY <1>5, <2>2 DEF Fresh
  <2>4. /\ booted /\ calls[k].step \in {"idle", "posted"} => Of(registry, disk)
        /\ calls[k].step = "read" => Of(calls[k].answer, disk)
    BY <1>5 DEF Fresh
  <2>5. CASE \E w \in c.wonders : Registry(c)!Connect(k, w) \/ Registry(c)!Disconnect(k, w)
    <3>1. calls[k].step = "idle" /\ UNCHANGED <<registry, disk>>
      BY <2>5 DEF Registry!Connect, Registry!Disconnect, Registry!Begin
    <3>2. calls'[k].step = "posted"
      BY <1>5, <2>2, <2>5 DEF Registry!Connect, Registry!Disconnect, Registry!Begin
    <3> QED BY <2>4, <3>1, <3>2
  <2>6. CASE Registry(c)!Serve(k) \/ Registry(c)!Invalidate(k)
    <3>1. \/ calls' = [calls EXCEPT ![k].step = "done"] \/ calls' = [calls EXCEPT ![k].step = "asked"]
          \/ /\ calls' = [calls EXCEPT ![k] = Registry(c)!Free]
             /\ calls[k].step = "posted" /\ disk' = disk /\ registry' = registry
      BY <2>6 DEF Registry!Serve, Registry!Invalidate
    <3>2. CASE calls' = [calls EXCEPT ![k].step = "done"] \/ calls' = [calls EXCEPT ![k].step = "asked"]
      <4>1. [calls[k] EXCEPT !.step = "done"].step = "done" /\ [calls[k] EXCEPT !.step = "asked"].step = "asked"
        BY <2>2 DEF Requests
      <4>2. calls'[k].step \in {"done", "asked"}
        BY <2>2, <3>2, <4>1
      <4> QED BY <4>2
    <3>3. CASE /\ calls' = [calls EXCEPT ![k] = Registry(c)!Free]
               /\ calls[k].step = "posted" /\ disk' = disk /\ registry' = registry
      <4>1. calls'[k].step = "idle"
        BY <2>2, <3>3 DEF Registry!Free
      <4> QED BY <2>2, <2>4, <3>3, <4>1
    <3> QED BY <3>1, <3>2, <3>3
  <2>7. CASE Registry(c)!Read(k)
    <3>1. calls'[k].step = "read" /\ calls'[k].answer = c.listing[disk] /\ disk' = disk
      BY <2>2, <2>7 DEF Registry!Read, Registry!Listed, Requests
    <3> QED BY <1>1, <3>1, ListsAreLists DEF Of
  <2>8. CASE Registry(c)!Answer(k)
    <3>1. calls[k].step = "read" /\ registry' = calls[k].answer /\ disk' = disk /\ calls'[k].step = "idle"
      BY <2>2, <2>8 DEF Registry!Answer, Registry!Loads, Registry!Ends, Registry!Free
    <3> QED BY <2>4, <3>1 DEF Of
  <2> QED BY <1>5, <2>1, <2>5, <2>6, <2>7, <2>8
<1> QED BY <1>2, <1>3, <1>4, <1>5 DEF Registry!Next

LEMMA WondersRest ==
  ASSUME NEW c, UNCHANGED wonderVars
  PROVE  (WondersHold(c) => WondersHold(c)') /\ (Fresh(c) => Fresh(c)')
BY DEF wonderVars, WondersHold, RegistryTyped, MapFollows, Fresh, Of

LEMMA WondersFollow ==
  ASSUME NEW c, WondersHold(c)
  PROVE  /\ Registry(c)!TypeOK /\ Registry(c)!MapFollowsRegistry /\ Registry(c)!TabsFollowRegistry
         /\ Fresh(c) => Registry(c)!RegistryFresh
BY DEF WondersHold, RegistryTyped, MapFollows, Fresh, Of, Lists, Requests, Tiles, Distinct,
       Registry!TypeOK, Registry!MapFollowsRegistry, Registry!TabsFollowRegistry, Registry!RegistryFresh,
       Registry!Closed, Registry!None, Registry!Range, Registry!IsInjective

---------------------------------------------------------------------------
(* The window of a wonder.                                                  *)

Answers == {"none", "ok", "timeout", "offline", "no-permissions", "degraded",
            "ready", "starting", "error", "rejected", "unreachable"}
Steps == {"none", "health", "launch", "poll", "loading", "loaded", "over"}

(* A window; a frame is mounted only upon a good answer.                    *)
Views(c) ==
  {v \in [wonder : c.wonders \cup {"none"}, step : Steps,
          body : {"none", "empty", "text", "checking", "progress", "frame"},
          address : {"none", "own", "launcher's"}, health : Answers, answer : Answers, polls : 0 .. c.polls] :
     /\ v.step \in {"loading", "loaded"} <=> v.body = "frame"
     /\ v.body = "frame" => v.answer \in {"ok", "ready"}}
Contexts(c) == [city : c.cities \cup {"none"}, mode : {"macro", "local"}, layers : SUBSET c.layers]

WindowHolds(c) ==
  /\ opened \in 0 .. c.opens /\ current \in 0 .. opened /\ mounted \in 0 .. opened
  /\ listening \in BOOLEAN /\ allowed \subseteq c.wonders \X {"own"}
  /\ context \in c.cities \cup {"none"} /\ selected \in c.cities \cup {"none"}
  /\ local \in c.cities \cup {"none"} /\ layers \subseteq c.layers
  /\ view \in [1 .. c.opens -> Views(c)] /\ told \in [1 .. c.opens -> Contexts(c)]
  /\ \A g \in 1 .. c.opens : view[g].step = "none" <=> g > opened
  /\ current = 0 => ~listening

(* Nobody leaves a window that is still at work, so only the one on the     *)
(* screen is; its frame is the one mounted, and was told the city.          *)
Followed(c) ==
  /\ mounted \in {0, current}
  /\ \A g \in 1 .. c.opens : g # current => view[g].step \in {"none", "over", "loaded"}
  /\ current # 0 /\ view[current].body = "frame" => mounted = current
  /\ current # 0 /\ view[current].step = "loaded" /\ context # "none" => told[current].city = context

(* What the awaits of an opening make of its window and of the mounted one. *)
Turns(c, g, v, m) ==
  /\ view' = [view EXCEPT ![g] = v] /\ v \in Views(c) /\ v.step # "none"
  /\ mounted' = m /\ m = IF v.body = "frame" THEN g ELSE mounted
  /\ v.step # "loaded"
  /\ UNCHANGED <<opened, current, listening, allowed, context, selected, local, layers, told>>

LEMMA WindowTurns ==
  ASSUME NEW c, Window(c)!VignetteAssumption, WindowHolds(c), NEW g \in 1 .. c.opens,
         \/ Window(c)!CheckHealth(g) \/ Window(c)!Launch(g) \/ Window(c)!Poll(g)
         \/ Window(c)!Deadline(g) \/ Window(c)!FrameFails(g)
  PROVE  /\ view[g].step \in {"health", "launch", "poll", "loading"}
         /\ \E v, m : Turns(c, g, v, m)
<1>1. view \in [1 .. c.opens -> Views(c)] /\ view[g] \in Views(c)
  BY DEF WindowHolds
<1>2. CASE Window(c)!CheckHealth(g)
  <2>1. PICK h \in Window(c)!Health(view[g].wonder) :
           \/ h \in {"timeout", "offline"} /\ mounted' = mounted
              /\ view' = [view EXCEPT ![g].step = "launch", ![g].body = "progress", ![g].health = h, ![g].answer = h]
           \/ h \in {"degraded", "no-permissions"} /\ Window(c)!Empty(g, h)
           \/ h = "ok" /\ Window(c)!Mount(g, "own", h)
    BY <1>2 DEF Window!CheckHealth
  <2>2. view[g].step = "health" /\ UNCHANGED <<opened, current, listening, allowed, context, selected, local, layers, told>>
    BY <1>2 DEF Window!CheckHealth, Window!Others, Window!page
  <2>3. CASE h \in {"timeout", "offline"}
    <3> DEFINE v == [view[g] EXCEPT !.step = "launch", !.body = "progress", !.health = h, !.answer = h]
    <3>1. view' = [view EXCEPT ![g] = v] /\ mounted' = mounted
      BY <1>1, <2>1, <2>3 DEF Window!Empty, Window!Mount
    <3>2. h \in Answers
      BY <2>3 DEF Answers
    <3>3. v \in Views(c) /\ v.step = "launch" /\ v.body = "progress"
      BY <1>1, <3>2 DEF Views, Steps
    <3> QED BY <2>2, <3>1, <3>3 DEF Turns
  <2>4. CASE h \in {"degraded", "no-permissions"}
    <3> DEFINE v == [view[g] EXCEPT !.step = "over", !.body = "empty", !.answer = h]
    <3>1. view' = [view EXCEPT ![g] = v] /\ mounted' = mounted
      BY <1>1, <2>1, <2>4 DEF Window!Empty
    <3>2. h \in Answers
      BY <2>4 DEF Answers
    <3>3. v \in Views(c) /\ v.step = "over" /\ v.body = "empty"
      BY <1>1, <3>2 DEF Views, Steps
    <3> QED BY <2>2, <3>1, <3>3 DEF Turns
  <2>5. CASE h = "ok"
    <3> DEFINE v == [view[g] EXCEPT !.step = "loading", !.body = "frame", !.address = "own", !.answer = h]
    <3>1. view' = [view EXCEPT ![g] = v] /\ mounted' = g
      BY <1>1, <2>1, <2>5 DEF Window!Mount
    <3>2. h \in Answers
      BY <2>5 DEF Answers
    <3>3. v \in Views(c) /\ v.step = "loading" /\ v.body = "frame"
      BY <1>1, <3>2, <2>5 DEF Views, Steps
    <3> QED BY <2>2, <3>1, <3>3 DEF Turns
  <2> QED BY <2>1, <2>3, <2>4, <2>5
<1>3. ASSUME NEW s \in Answers, Window(c)!Ready(g, s), view[g].step \in {"launch", "poll"},
             UNCHANGED Window(c)!Others
      PROVE  \E v, m : Turns(c, g, v, m)
  <2> DEFINE a == Window(c)!resolveMountUrl(view[g].wonder)
             v == [view[g] EXCEPT !.step = "loading", !.body = "frame", !.address = a, !.answer = s]
  <2>1. a \in {"own", "launcher's"} /\ s = "ready"
    BY <1>3 DEF Window!resolveMountUrl, Window!Ready, Window!isFullyReady
  <2>2. view' = [view EXCEPT ![g] = v] /\ mounted' = g
    BY <1>1, <1>3 DEF Window!Mount, Window!Ready
  <2> HIDE DEF a
  <2>3. v \in Views(c) /\ v.step = "loading" /\ v.body = "frame"
    BY <1>1, <1>3, <2>1 DEF Views, Steps
  <2> QED BY <1>3, <2>2, <2>3 DEF Turns, Window!Others, Window!page
<1>4. ASSUME NEW s \in Answers, Window(c)!Empty(g, s), UNCHANGED Window(c)!Others
      PROVE  \E v, m : Turns(c, g, v, m)
  <2> DEFINE v == [view[g] EXCEPT !.step = "over", !.body = "empty", !.answer = s]
  <2>1. view' = [view EXCEPT ![g] = v] /\ mounted' = mounted
    BY <1>1, <1>4 DEF Window!Empty
  <2>2. v \in Views(c) /\ v.step = "over" /\ v.body = "empty"
    BY <1>1, <1>4 DEF Views, Steps
  <2> QED BY <1>4, <2>1, <2>2 DEF Turns, Window!Others, Window!page
<1>5. CASE Window(c)!Launch(g)
  <2>1. PICK s \in Answers :
           \/ Window(c)!Ready(g, s)
           \/ Window(c)!Empty(g, s)
           \/ Window(c)!Waits(g, s, "poll")
    BY <1>5 DEF Window!Launch, Answers
  <2>2. view[g].step = "launch" /\ UNCHANGED Window(c)!Others
    BY <1>5 DEF Window!Launch
  <2>3. CASE Window(c)!Waits(g, s, "poll")
    <3> DEFINE v == [view[g] EXCEPT !.step = "poll", !.answer = s]
    <3>1. view' = [view EXCEPT ![g] = v] /\ mounted' = mounted
      BY <1>1, <2>3 DEF Window!Waits
    <3>2. v \in Views(c) /\ v.step = "poll" /\ v.body # "frame"
      BY <1>1, <2>2 DEF Views, Steps
    <3> QED BY <2>2, <3>1, <3>2 DEF Turns, Window!Others, Window!page
  <2> QED BY <1>3, <1>4, <2>1, <2>2, <2>3
<1>6. CASE Window(c)!Poll(g)
  <2>1. PICK s \in Answers :
           \/ Window(c)!Ready(g, s)
           \/ Window(c)!Empty(g, s)
           \/ /\ s # "unreachable" /\ mounted' = mounted
              /\ view' = [view EXCEPT ![g].answer = s, ![g].polls = @ + 1]
    BY <1>6 DEF Window!Poll, Answers
  <2>2. view[g].step = "poll" /\ view[g].polls < c.polls /\ UNCHANGED Window(c)!Others
    BY <1>6 DEF Window!Poll
  <2>3. CASE mounted' = mounted /\ view' = [view EXCEPT ![g].answer = s, ![g].polls = @ + 1]
    <3> DEFINE v == [view[g] EXCEPT !.answer = s, !.polls = @ + 1]
    <3>1. view' = [view EXCEPT ![g] = v] /\ mounted' = mounted
      BY <1>1, <2>3
    <3>2. v.polls \in 0 .. c.polls
      BY <1>1, <2>2 DEF Views, Window!VignetteAssumption
    <3>3. v \in Views(c) /\ v.step = "poll" /\ v.body # "frame"
      BY <1>1, <2>2, <3>2 DEF Views, Steps
    <3> QED BY <2>2, <3>1, <3>3 DEF Turns, Window!Others, Window!page
  <2> QED BY <1>3, <1>4, <2>1, <2>2, <2>3
<1>7. CASE Window(c)!Deadline(g)
  <2>1. view[g].answer \in Answers
    BY <1>1 DEF Views
  <2> QED BY <1>4, <1>7, <2>1 DEF Window!Deadline
<1>8. CASE Window(c)!FrameFails(g)
  BY <1>4, <1>8 DEF Window!FrameFails, Answers
<1> QED BY <1>2, <1>5, <1>6, <1>7, <1>8 DEF Window!CheckHealth, Window!Launch, Window!Poll, Window!Deadline, Window!FrameFails

LEMMA WindowStarts ==
  ASSUME NEW c, Window(c)!VignetteAssumption, Window(c)!Init
  PROVE  WindowHolds(c) /\ Followed(c)
<1>1. /\ opened = 0 /\ current = 0 /\ mounted = 0 /\ listening = FALSE /\ allowed = {}
      /\ context = "none" /\ selected = "none" /\ local = "none" /\ layers \subseteq c.layers
  BY DEF Window!Init, Window!None
<1>2. c.opens \in Nat /\ c.polls \in Nat
  BY DEF Window!VignetteAssumption
<1>3. Window(c)!NoView \in Views(c) /\ Window(c)!NoView.step = "none"
  BY <1>2 DEF Window!NoView, Window!None, Views, Steps, Answers
<1>4. Window(c)!Nothing \in Contexts(c)
  BY DEF Window!Nothing, Window!None, Contexts
<1>5. view \in [1 .. c.opens -> Views(c)] /\ \A g \in 1 .. c.opens : view[g].step = "none"
  BY <1>3 DEF Window!Init, Window!Windows
<1>6. told \in [1 .. c.opens -> Contexts(c)]
  BY <1>4 DEF Window!Init, Window!Windows
<1>7. WindowHolds(c)
  <2>1. opened \in 0 .. c.opens /\ current \in 0 .. opened /\ mounted \in 0 .. opened
    BY <1>1, <1>2
  <2>2. allowed \subseteq c.wonders \X {"own"}
    BY <1>1
  <2>3. \A g \in 1 .. c.opens : view[g].step = "none" <=> g > opened
    BY <1>1, <1>2, <1>5
  <2> QED BY <1>1, <1>5, <1>6, <2>1, <2>2, <2>3 DEF WindowHolds
<1>8. Followed(c)
  BY <1>1, <1>5 DEF Followed
<1> QED BY <1>7, <1>8

LEMMA OnScreen ==
  ASSUME NEW c, Window(c)!VignetteAssumption, WindowHolds(c), current # 0
  PROVE  current \in 1 .. c.opens /\ view[current] \in Views(c) /\ view[current].step \in Steps
<1>1. current \in 1 .. c.opens
  BY DEF Window!VignetteAssumption, WindowHolds
<1>2. view[current] \in Views(c)
  BY <1>1 DEF WindowHolds
<1> QED BY <1>1, <1>2 DEF Views

(* Nobody leaves a window at work if the user waits.                        *)
LEMMA NotAtWork ==
  ASSUME NEW c, Window(c)!VignetteAssumption, WindowHolds(c), current # 0, c.waits, Window(c)!MayMove
  PROVE  view[current].step \in {"none", "over", "loaded"}
<1>1. view[current].step \notin {"health", "launch", "poll", "loading"}
  BY DEF Window!MayMove, Window!Waiting
<1> QED BY <1>1, OnScreen DEF Steps

LEMMA OpenHolds ==
  ASSUME NEW c, Window(c)!VignetteAssumption, WindowHolds(c), NEW w \in c.wonders, Window(c)!Open(w)
  PROVE  WindowHolds(c)' /\ (c.waits /\ Followed(c) => Followed(c)')
<1> DEFINE n == opened + 1
           v == Window(c)!Opening(w)
<1>1. n \in 1 .. c.opens /\ opened' = n /\ current' = n
  BY DEF Window!Open, Window!VignetteAssumption, WindowHolds
<1>2. v \in Views(c) /\ v.step \in {"over", "health"} /\ v.body # "frame"
  <2>1. PICK step \in {"over", "health"}, body \in {"empty", "text", "checking"} :
           v = [Window(c)!NoView EXCEPT !.wonder = w, !.step = step, !.body = body]
    BY DEF Window!Opening
  <2>2. v = [wonder |-> w, step |-> step, body |-> body, address |-> "none", health |-> "none",
             answer |-> "none", polls |-> 0]
    BY <2>1 DEF Window!NoView, Window!None
  <2>3. 0 \in 0 .. c.polls
    BY DEF Window!VignetteAssumption
  <2> HIDE DEF v
  <2> QED BY <2>2, <2>3 DEF Views, Steps, Answers
<1>3. view' = [view EXCEPT ![n] = v] /\ UNCHANGED <<context, selected, local, layers, told>>
  BY <1>1 DEF Window!Open, Window!page
<1>4. mounted' = (IF current = 0 THEN mounted ELSE 0) /\ mounted' \in 0 .. n
  <2>1. mounted' = IF current = 0 THEN mounted ELSE 0
    BY DEF Window!Open
  <2>2. opened \in Nat /\ mounted \in 0 .. opened
    BY DEF WindowHolds
  <2> QED BY <2>1, <2>2
<1>5. listening' \in BOOLEAN /\ allowed' \subseteq c.wonders \X {"own"}
  <2>1. listening' \in BOOLEAN
    BY Zenon DEF Window!Open
  <2>2. allowed' \in {allowed, allowed \cup {<<w, "own">>}}
    BY DEF Window!Open, Window!registerWonderOrigin
  <2>3. allowed \subseteq c.wonders \X {"own"} /\ <<w, "own">> \in c.wonders \X {"own"}
    BY DEF WindowHolds
  <2> QED BY <2>1, <2>2, <2>3
<1>6. \A g \in 1 .. c.opens : view'[g].step = "none" <=> g > n
  BY <1>1, <1>2, <1>3 DEF WindowHolds
<1>7. WindowHolds(c)'
  BY <1>1, <1>2, <1>3, <1>4, <1>5, <1>6 DEF WindowHolds
<1>8. ASSUME c.waits, Followed(c)
      PROVE  Followed(c)'
  <2>1. mounted' = 0
    BY <1>4, <1>8 DEF Followed
  <2>2. current # 0 => view[current].step \in {"none", "over", "loaded"}
    BY <1>8, NotAtWork DEF Window!Open
  <2>3. \A g \in 1 .. c.opens : g # n => view'[g].step \in {"none", "over", "loaded"}
    BY <1>1, <1>3, <1>8, <2>2 DEF WindowHolds, Followed
  <2>4. view'[n] = v
    BY <1>1, <1>3 DEF WindowHolds
  <2> QED BY <1>1, <1>2, <2>1, <2>3, <2>4 DEF Followed
<1> QED BY <1>7, <1>8

LEMMA CloseHolds ==
  ASSUME NEW c, Window(c)!VignetteAssumption, WindowHolds(c), Window(c)!Close
  PROVE  WindowHolds(c)' /\ (c.waits /\ Followed(c) => Followed(c)')
<1>1. WindowHolds(c)'
  <2>1. UNCHANGED <<view, opened, allowed, context, selected, local, layers, told>>
        /\ current' = 0 /\ mounted' = 0 /\ listening' = FALSE
    BY DEF Window!Close, Window!page
  <2>2. opened \in Nat /\ listening' \in BOOLEAN
    <3>1. listening' \in BOOLEAN
      BY <2>1, Zenon
    <3> QED BY <3>1 DEF WindowHolds
  <2>3. current' \in 0 .. opened' /\ mounted' \in 0 .. opened' /\ ~listening'
    BY <2>1, <2>2
  <2> QED BY <2>1, <2>2, <2>3 DEF WindowHolds
<1>2. ASSUME c.waits, Followed(c)
      PROVE  Followed(c)'
  <2>1. view[current].step \in {"none", "over", "loaded"}
    BY <1>2, NotAtWork DEF Window!Close
  <2> QED BY <1>2, <2>1 DEF Window!Close, Followed
<1> QED BY <1>1, <1>2

LEMMA TurnHolds ==
  ASSUME NEW c, Window(c)!VignetteAssumption, WindowHolds(c), NEW g \in 1 .. c.opens,
         view[g].step \in {"health", "launch", "poll", "loading"}, NEW v, NEW m, Turns(c, g, v, m)
  PROVE  WindowHolds(c)' /\ (Followed(c) => Followed(c)')
<1>1. view' = [view EXCEPT ![g] = v] /\ view'[g] = v /\ v \in Views(c)
  BY DEF Turns, WindowHolds
<1>2. g \in 1 .. opened /\ opened \in Nat /\ c.opens \in Nat
  BY DEF Window!VignetteAssumption, WindowHolds
<1>3. mounted' \in 0 .. opened
  BY <1>2 DEF Turns, WindowHolds
<1>4. \A k \in 1 .. c.opens : view'[k].step = "none" <=> k > opened
  BY <1>1, <1>2 DEF Turns, WindowHolds
<1>5. WindowHolds(c)'
  BY <1>1, <1>3, <1>4 DEF Turns, WindowHolds
<1>6. ASSUME Followed(c)
      PROVE  Followed(c)'
  <2>1. g = current
    BY <1>6 DEF Followed
  <2> QED BY <1>1, <1>2, <1>6, <2>1 DEF Turns, Followed, WindowHolds
<1> QED BY <1>5, <1>6

LEMMA LoadHolds ==
  ASSUME NEW c, Window(c)!VignetteAssumption, WindowHolds(c), NEW g \in 1 .. c.opens, Window(c)!FrameLoads(g)
  PROVE  WindowHolds(c)' /\ (Followed(c) => Followed(c)')
<1> DEFINE v == [view[g] EXCEPT !.step = "loaded"]
           t == [city |-> IF mounted = g /\ context # "none" THEN context ELSE told[g].city,
                 mode |-> IF mounted = g /\ context # "none" THEN "macro" ELSE told[g].mode,
                 layers |-> layers]
<1>1. view[g] \in Views(c) /\ told[g] \in Contexts(c) /\ view[g].step = "loading" /\ g = current
  BY DEF Window!FrameLoads, WindowHolds
<1>2. view' = [view EXCEPT ![g] = v] /\ v \in Views(c) /\ v.step = "loaded"
  BY <1>1 DEF Window!FrameLoads, Views, Steps
<1>3. told' = [told EXCEPT ![g] = t] /\ t \in Contexts(c)
  <2> DEFINE city == IF mounted = g /\ context # "none" THEN context ELSE told[g].city
             mode == IF mounted = g /\ context # "none" THEN "macro" ELSE told[g].mode
             e == [told[g] EXCEPT !.layers = layers, !.city = city, !.mode = mode]
  <2>1. told[g] \in [{"city", "mode", "layers"} -> {told[g].city, told[g].mode, told[g].layers}]
    BY <1>1 DEF Contexts
  <2>2. t = e
    <3> HIDE DEF city, mode
    <3>1. DOMAIN told[g] = {"city", "mode", "layers"}
      BY <2>1
    <3>2. e = [x \in {"city", "mode", "layers"} |-> IF x = "mode" THEN mode ELSE IF x = "city" THEN city ELSE layers]
      BY <1>1, <3>1 DEF Contexts
    <3>3. [city |-> city, mode |-> mode, layers |-> layers]
          = [x \in {"city", "mode", "layers"} |-> IF x = "mode" THEN mode ELSE IF x = "city" THEN city ELSE layers]
      OBVIOUS
    <3> QED BY <3>2, <3>3 DEF city, mode
  <2>3. told' = [told EXCEPT ![g] = t]
    BY <1>1, <2>2 DEF Window!FrameLoads, Window!None, WindowHolds
  <2>4. t \in Contexts(c)
    BY <1>1 DEF Contexts, WindowHolds
  <2> QED BY <2>3, <2>4
<1>4. UNCHANGED <<opened, current, mounted, listening, allowed, context, selected, local, layers>>
  BY DEF Window!FrameLoads, Window!page
<1>5. WindowHolds(c)'
  BY <1>1, <1>2, <1>3, <1>4 DEF WindowHolds
<1>6. ASSUME Followed(c)
      PROVE  Followed(c)'
  <2>1. mounted = current /\ told'[g] = t /\ view'[g] = v
    BY <1>1, <1>2, <1>3, <1>6 DEF Followed, WindowHolds, Views
  <2> QED BY <1>1, <1>2, <1>4, <1>6, <2>1 DEF Followed, WindowHolds
<1> QED BY <1>5, <1>6

(* The window is told the city, or there is none on the screen to tell.     *)
LEMMA PushHolds ==
  ASSUME NEW c, Window(c)!VignetteAssumption, WindowHolds(c), NEW city \in c.cities \cup {"none"}, NEW mode \in {"macro", "local"},
         told' = Window(c)!Pushed(city, mode)
  PROVE  /\ told' \in [1 .. c.opens -> Contexts(c)]
         /\ Followed(c) /\ current # 0 /\ view[current].step = "loaded" /\ city # "none" => told'[current].city = city
<1>1. mounted \in 1 .. c.opens => told[mounted] \in Contexts(c)
  BY DEF WindowHolds
<1>2. told' \in [1 .. c.opens -> Contexts(c)]
  BY <1>1 DEF Window!Pushed, Window!None, Contexts, WindowHolds
<1>3. ASSUME Followed(c), current # 0, view[current].step = "loaded", city # "none"
      PROVE  told'[current].city = city
  <2>1. current \in 1 .. c.opens /\ view[current] \in Views(c) /\ told[current] \in Contexts(c)
    BY <1>3, OnScreen DEF WindowHolds
  <2>2. mounted = current /\ view[current].body = "frame"
    BY <1>3, <2>1 DEF Followed, Views
  <2> QED BY <1>3, <2>1, <2>2 DEF Window!Pushed, Window!Loaded, Window!None, Contexts, WindowHolds
<1> QED BY <1>2, <1>3

LEMMA PageHolds ==
  ASSUME NEW c, Window(c)!VignetteAssumption, WindowHolds(c),
         \/ \E city \in c.cities : Window(c)!Select(city) \/ Window(c)!WonderAsks(city)
         \/ Window(c)!EnterLocal \/ Window(c)!LeaveLocal
         \/ \E l \in c.layers : Window(c)!ToggleLayer(l)
  PROVE  WindowHolds(c)' /\ (Followed(c) => Followed(c)')
<1>1. ASSUME NEW city \in c.cities, Window(c)!Chosen(city),
             UNCHANGED <<view, opened, current, mounted, listening, allowed, local, layers>>
      PROVE  WindowHolds(c)' /\ (Followed(c) => Followed(c)')
  <2>1. CASE opened > 0
    <3>1. told' = Window(c)!Pushed(city, "macro") /\ context' = city /\ selected' = city
      BY <1>1, <2>1 DEF Window!Chosen, Window!Hears
    <3> QED BY <1>1, <3>1, PushHolds DEF WindowHolds, Followed
  <2>2. CASE ~(opened > 0)
    BY <1>1, <2>2 DEF Window!Chosen, Window!Hears, WindowHolds, Followed
  <2> QED BY <2>1, <2>2
<1>2. ASSUME NEW city \in c.cities, Window(c)!Select(city) \/ Window(c)!WonderAsks(city)
      PROVE  WindowHolds(c)' /\ (Followed(c) => Followed(c)')
  BY <1>1, <1>2 DEF Window!Select, Window!WonderAsks, WindowHolds, Followed
<1>3. CASE Window(c)!EnterLocal
  <2>1. told' = Window(c)!Pushed(context, "local")
    BY <1>3 DEF Window!EnterLocal
  <2> QED BY <1>3, <2>1, PushHolds DEF Window!EnterLocal, WindowHolds, Followed
<1>4. CASE Window(c)!LeaveLocal \/ \E l \in c.layers : Window(c)!ToggleLayer(l)
  <2>1. UNCHANGED <<view, opened, current, mounted, listening, allowed, context, selected, told>>
    BY <1>4 DEF Window!LeaveLocal, Window!ToggleLayer
  <2>2. local' \in c.cities \cup {"none"} /\ layers' \subseteq c.layers
    BY <1>4 DEF Window!LeaveLocal, Window!ToggleLayer, Window!None, WindowHolds
  <2> QED BY <2>1, <2>2 DEF WindowHolds, Followed
<1> QED BY <1>2, <1>3, <1>4

LEMMA WindowStep ==
  ASSUME NEW c, Window(c)!VignetteAssumption, WindowHolds(c), Window(c)!Next
  PROVE  WindowHolds(c)' /\ (c.waits /\ Followed(c) => Followed(c)')
<1>1. ASSUME NEW g \in 1 .. c.opens, Window(c)!Works(g)
      PROVE  WindowHolds(c)' /\ (Followed(c) => Followed(c)')
  BY <1>1, WindowTurns, TurnHolds, LoadHolds DEF Window!Works
<1> QED BY <1>1, OpenHolds, CloseHolds, PageHolds DEF Window!Next, Window!Windows

LEMMA WindowRests ==
  ASSUME NEW c, UNCHANGED windowVars
  PROVE  (WindowHolds(c) => WindowHolds(c)') /\ (Followed(c) => Followed(c)')
BY DEF windowVars, WindowHolds, Followed

LEMMA WindowIsSafe ==
  ASSUME NEW c, Window(c)!VignetteAssumption, WindowHolds(c)
  PROVE  /\ Window(c)!TypeOK /\ Window(c)!NotBlind /\ Window(c)!ClosedHearsNone
         /\ Followed(c) => Window(c)!ContextFollows
<1>1. \A g \in 1 .. c.opens : view[g] \in Views(c)
  BY DEF WindowHolds
<1>2. Window(c)!TypeOK
  BY <1>1 DEF WindowHolds, Window!TypeOK, Window!Windows, Window!None, Window!Waiting, Views, Steps
<1>3. Window(c)!NotBlind /\ Window(c)!ClosedHearsNone
  BY <1>1 DEF WindowHolds, Window!NotBlind, Window!ClosedHearsNone, Window!Windows, Views
<1>4. Followed(c) => Window(c)!ContextFollows
  BY DEF Followed, Window!ContextFollows, Window!Loaded, Window!None
<1> QED BY <1>2, <1>3, <1>4

---------------------------------------------------------------------------
(* The editor and its history.                                              *)

Edits(c) ==
  {e \in [tool : {"terrain", "erase", "remove", "place", "move"}, city : Editor(c)!Cities, hex : Editor(c)!Hexes,
          terrain : c.paints \cup {"none"}] :
     e.tool = "terrain" => e.terrain \in c.paints}
Entries(c) == [edit : Edits(c), was : Editor(c)!Worlds, wasSt : Editor(c)!Documents]

(* A world and a document that edits are made on.                           *)
Sound(c, w, st) == w \in Editor(c)!Worlds /\ st \in Editor(c)!Documents /\ Editor(c)!Standing(w)

(* What an undo is sure to put back: the world and the painted hexes; all   *)
(* that is saved if exact, when what was saved was there.                   *)
Kept(exact, w, st) == <<w, IF exact THEN st ELSE st.paint>>
Before(exact, s) == Kept(exact, s.was, s.wasSt)
After(c, exact, s) ==
  Kept(exact, Editor(c)!perform(s.edit, s.was, s.wasSt)[1], Editor(c)!perform(s.edit, s.was, s.wasSt)[2])
Now == Kept(fits, world, store)

Possible(c, exact, s) ==
  /\ Sound(c, s.was, s.wasSt) /\ Editor(c)!possible(s.edit, s.was, s.wasSt, {})
  /\ exact => Editor(c)!Accounted(s.was, s.wasSt)

(* What each step left is what the next one found, and what is there now;   *)
(* what was undone waits in front of it.  After a refused redo nothing is   *)
(* said of the history, and none of it is done or undone.                   *)
Behind(c, exact, steps, now) ==
  \A i \in DOMAIN steps :
    /\ Possible(c, exact, steps[i])
    /\ After(c, exact, steps[i]) = IF i = Len(steps) THEN now ELSE Before(exact, steps[i + 1])
Ahead(c, exact, steps, now) ==
  \A i \in DOMAIN steps :
    /\ Possible(c, exact, steps[i])
    /\ Before(exact, steps[i]) = IF i = Len(steps) THEN now ELSE After(c, exact, steps[i + 1])

EditorHolds(c) ==
  /\ done \in Seq(Entries(c)) /\ undone \in Seq(Entries(c))
  /\ Sound(c, world, store) /\ (fits => Editor(c)!Accounted(world, store))
  /\ ~refused => Behind(c, fits, done, Now) /\ Ahead(c, fits, undone, Now)

(* A world and a document, by their fields.                                 *)
WorldIs(c, v, ci, ar, ti, te) ==
  v \in Editor(c)!Worlds /\ v.city = ci /\ v.arm = ar /\ v.tiles = ti /\ v.terrain = te
DocumentIs(c, s, ch, pa, er, go, pl) ==
  s \in Editor(c)!Documents /\ s.chosen = ch /\ s.paint = pa /\ s.erased = er /\ s.gone = go /\ s.placed = pl

LEMMA SameWorld ==
  ASSUME NEW c, NEW w \in Editor(c)!Worlds, NEW v, WorldIs(c, v, w.city, w.arm, w.tiles, w.terrain)
  PROVE  v = w
BY DEF Editor!Worlds, WorldIs

LEMMA SameDocument ==
  ASSUME NEW c, NEW st \in Editor(c)!Documents, NEW s,
         DocumentIs(c, s, st.chosen, st.paint, st.erased, st.gone, st.placed)
  PROVE  s = st
BY DEF Editor!Documents, DocumentIs

LEMMA PutBack ==
  ASSUME NEW S, NEW T, NEW f \in [S -> T], NEW x \in S
  PROVE  /\ [f EXCEPT ![x] = f[x]] = f
         /\ \A a : [[f EXCEPT ![x] = a] EXCEPT ![x] = f[x]] = f
OBVIOUS

LEMMA FieldTypes ==
  ASSUME NEW c, NEW w \in Editor(c)!Worlds, NEW st \in Editor(c)!Documents
  PROVE  /\ w.city \in [Editor(c)!Cities -> Editor(c)!Hexes \cup {Editor(c)!Off}]
         /\ w.arm \in [Editor(c)!Cities -> {0, 1}] /\ w.tiles \subseteq Editor(c)!Hexes
         /\ w.terrain \in [Editor(c)!Hexes -> Editor(c)!Paintable \cup {"sacred"}]
         /\ st.paint \in [Editor(c)!Hexes -> Editor(c)!Paintable \cup {Editor(c)!None}]
         /\ st.erased \subseteq Editor(c)!Hexes /\ st.gone \subseteq c.repos
         /\ st.placed \in [Editor(c)!Cities -> [at : Editor(c)!Hexes \cup {Editor(c)!Off}, moved : BOOLEAN]]
BY DEF Editor!Worlds, Editor!Documents

(* What the setters make of a document.                                     *)
LEMMA HexRemoved ==
  ASSUME NEW c, NEW st \in Editor(c)!Documents, NEW h \in Editor(c)!Hexes
  PROVE  DocumentIs(c, Editor(c)!removeHex(st, h), st.chosen, st.paint, st.erased \cup {h}, st.gone, st.placed)
BY DEF DocumentIs, Editor!Documents, Editor!removeHex

LEMMA HexRestored ==
  ASSUME NEW c, NEW st \in Editor(c)!Documents, NEW h \in Editor(c)!Hexes
  PROVE  DocumentIs(c, Editor(c)!restoreHex(st, h), st.chosen, st.paint, st.erased \ {h}, st.gone, st.placed)
BY DEF DocumentIs, Editor!Documents, Editor!restoreHex

LEMMA TerrainSetter ==
  ASSUME NEW c, NEW st \in Editor(c)!Documents, NEW h \in Editor(c)!Hexes,
         NEW t \in Editor(c)!Paintable \cup {Editor(c)!None}
  PROVE  DocumentIs(c, Editor(c)!setHexTerrain(st, h, t),
                    st.chosen, [st.paint EXCEPT ![h] = t], st.erased, st.gone, st.placed)
BY DEF DocumentIs, Editor!Documents, Editor!setHexTerrain

LEMMA CityRemoved ==
  ASSUME NEW c, NEW st \in Editor(c)!Documents, NEW d \in c.repos
  PROVE  DocumentIs(c, Editor(c)!removeCityFromMap(st, d),
                    st.chosen, st.paint, st.erased, st.gone \cup {d}, st.placed)
BY DEF DocumentIs, Editor!Documents, Editor!removeCityFromMap

LEMMA CityRestored ==
  ASSUME NEW c, NEW st \in Editor(c)!Documents, NEW d
  PROVE  DocumentIs(c, Editor(c)!restoreCityToMap(st, d), st.chosen, st.paint, st.erased, st.gone \ {d}, st.placed)
BY DEF DocumentIs, Editor!Documents, Editor!restoreCityToMap

LEMMA PlaceRemoved ==
  ASSUME NEW c, NEW st \in Editor(c)!Documents, NEW d \in Editor(c)!Cities
  PROVE  DocumentIs(c, Editor(c)!removePlacedCity(st, d),
                    st.chosen, st.paint, st.erased, st.gone, [st.placed EXCEPT ![d] = Editor(c)!NoEntry])
BY DEF DocumentIs, Editor!Documents, Editor!removePlacedCity, Editor!NoEntry

LEMMA PlaceSetter ==
  ASSUME NEW c, NEW st \in Editor(c)!Documents, NEW d \in Editor(c)!Cities,
         NEW entry \in [at : Editor(c)!Hexes \cup {Editor(c)!Off}, moved : BOOLEAN]
  PROVE  DocumentIs(c, Editor(c)!placeCity(st, d, entry),
                    st.chosen, st.paint, st.erased, st.gone \ {d}, [st.placed EXCEPT ![d] = entry])
BY DEF DocumentIs, Editor!Documents, Editor!placeCity

(* Each edit, undone, puts back the map it found and its paint, whatever    *)
(* else the document p holds by then; and all it found, if what was saved   *)
(* was there.                                                               *)
Reverts(c, e, w, st) ==
  LET v == Editor(c)!perform(e, w, st)[1]
      s == Editor(c)!perform(e, w, st)[2]
  IN  /\ Sound(c, v, s)
      /\ \A p \in Editor(c)!Documents : p.paint = s.paint =>
           /\ Editor(c)!revert(e, v, p, w, st)[1] = w
           /\ Editor(c)!revert(e, v, p, w, st)[2] \in Editor(c)!Documents
           /\ Editor(c)!revert(e, v, p, w, st)[2].paint = st.paint
      /\ Editor(c)!Accounted(w, st) =>
           Editor(c)!Accounted(v, s) /\ Editor(c)!revert(e, v, s, w, st)[2] = st

LEMMA PaintIsUndone ==
  ASSUME NEW c, Editor(c)!EditorAssumption, NEW e \in Edits(c), e.tool = "terrain",
         NEW w, NEW st, Sound(c, w, st), Editor(c)!possible(e, w, st, {})
  PROVE  Reverts(c, e, w, st)
<1>1. w \in Editor(c)!Worlds /\ st \in Editor(c)!Documents /\ e.hex \in Editor(c)!Hexes /\ e.terrain \in Editor(c)!Paintable
  BY DEF Sound, Edits, Editor!EditorAssumption
<1> DEFINE v == Editor(c)!paintHex(w, e.hex, e.terrain)
           s == Editor(c)!setHexTerrain(st, e.hex, e.terrain)
           back == [v EXCEPT !.terrain[e.hex] = w.terrain[e.hex]]
           saved(p) == Editor(c)!setHexTerrain(p, e.hex, st.paint[e.hex])
<1>2. Editor(c)!perform(e, w, st) = <<v, s>>
  BY DEF Editor!perform
<1>3. \A p : Editor(c)!revert(e, v, p, w, st) = <<back, saved(p)>>
  BY DEF Editor!revert
<1>4. WorldIs(c, v, w.city, w.arm, w.tiles, [w.terrain EXCEPT ![e.hex] = e.terrain])
  BY <1>1 DEF WorldIs, Editor!Worlds, Editor!paintHex
<1>5. DocumentIs(c, s, st.chosen, [st.paint EXCEPT ![e.hex] = e.terrain], st.erased, st.gone, st.placed)
  BY <1>1, TerrainSetter
<1> HIDE DEF v, s
<1>6. back = w
  <2>1. WorldIs(c, back, v.city, v.arm, v.tiles, [v.terrain EXCEPT ![e.hex] = w.terrain[e.hex]])
    BY <1>1, <1>4 DEF WorldIs, Editor!Worlds
  <2>2. [v.terrain EXCEPT ![e.hex] = w.terrain[e.hex]] = w.terrain
    BY <1>1, <1>4, FieldTypes, PutBack DEF WorldIs
  <2> HIDE DEF back
  <2> QED BY <1>1, <1>4, <2>1, <2>2, SameWorld DEF WorldIs
<1>7. ASSUME NEW p \in Editor(c)!Documents, p.paint = s.paint
      PROVE  DocumentIs(c, saved(p), p.chosen, st.paint, p.erased, p.gone, p.placed)
  <2>1. DocumentIs(c, saved(p), p.chosen, [p.paint EXCEPT ![e.hex] = st.paint[e.hex]], p.erased, p.gone, p.placed)
    <3>1. st.paint[e.hex] \in Editor(c)!Paintable \cup {Editor(c)!None}
      BY <1>1, FieldTypes
    <3> QED BY <1>1, <1>7, <3>1, TerrainSetter
  <2>2. [p.paint EXCEPT ![e.hex] = st.paint[e.hex]] = st.paint
    BY <1>1, <1>5, <1>7, FieldTypes, PutBack DEF DocumentIs
  <2> QED BY <2>1, <2>2
<1> HIDE DEF back, saved
<1>8. s \in Editor(c)!Documents /\ saved(s) = st
  <2>1. DocumentIs(c, saved(s), st.chosen, st.paint, st.erased, st.gone, st.placed)
    BY <1>5, <1>7 DEF DocumentIs
  <2> QED BY <1>1, <1>5, <2>1, SameDocument DEF DocumentIs
<1>9. Sound(c, v, s)
  BY <1>4, <1>5 DEF Sound, WorldIs, DocumentIs, Editor!Standing, Editor!onMap, Editor!footprint
<1>10. Editor(c)!Accounted(w, st) => Editor(c)!Accounted(v, s)
  BY <1>4, <1>5 DEF WorldIs, DocumentIs, Editor!Accounted, Editor!onMap
<1> QED BY <1>2, <1>3, <1>6, <1>7, <1>8, <1>9, <1>10 DEF Reverts, DocumentIs

LEMMA EraseIsUndone ==
  ASSUME NEW c, NEW e \in Edits(c), e.tool = "erase", NEW w, NEW st, Sound(c, w, st), Editor(c)!possible(e, w, st, {})
  PROVE  Reverts(c, e, w, st)
<1>1. w \in Editor(c)!Worlds /\ st \in Editor(c)!Documents /\ e.hex \in Editor(c)!Hexes
  BY DEF Sound, Edits
<1>2. e.hex \in w.tiles /\ e.hex \notin Editor(c)!occupied(w)
  BY DEF Editor!possible, Editor!canEraseHex
<1> DEFINE v == Editor(c)!eraseHex(w, e.hex)
           s == Editor(c)!removeHex(st, e.hex)
           back == [v EXCEPT !.tiles = @ \cup {e.hex}]
           saved(p) == Editor(c)!restoreHex(p, e.hex)
<1>3. Editor(c)!perform(e, w, st) = <<v, s>>
  BY DEF Editor!perform
<1>4. \A p : Editor(c)!revert(e, v, p, w, st) = <<back, saved(p)>>
  BY DEF Editor!revert
<1>5. WorldIs(c, v, w.city, w.arm, w.tiles \ {e.hex}, w.terrain)
  BY <1>1 DEF WorldIs, Editor!Worlds, Editor!eraseHex
<1>6. DocumentIs(c, s, st.chosen, st.paint, st.erased \cup {e.hex}, st.gone, st.placed)
  BY <1>1, HexRemoved
<1> HIDE DEF v, s
<1>7. back = w
  <2>1. WorldIs(c, back, v.city, v.arm, v.tiles \cup {e.hex}, v.terrain)
    BY <1>1, <1>5 DEF WorldIs, Editor!Worlds
  <2>2. v.tiles \cup {e.hex} = w.tiles
    BY <1>2, <1>5 DEF WorldIs
  <2> HIDE DEF back
  <2> QED BY <1>1, <1>5, <2>1, <2>2, SameWorld DEF WorldIs
<1>8. \A p \in Editor(c)!Documents : DocumentIs(c, saved(p), p.chosen, p.paint, p.erased \ {e.hex}, p.gone, p.placed)
  BY <1>1, HexRestored
<1> HIDE DEF back, saved
<1>9. Sound(c, v, s)
  <2>1. Editor(c)!Standing(v)
    BY <1>2, <1>5 DEF Sound, WorldIs, Editor!Standing, Editor!onMap, Editor!footprint, Editor!occupied
  <2> QED BY <1>5, <1>6, <2>1 DEF Sound, WorldIs, DocumentIs
<1>10. ASSUME Editor(c)!Accounted(w, st)
       PROVE  Editor(c)!Accounted(v, s) /\ saved(s) = st
  <2>1. Editor(c)!Accounted(v, s)
    BY <1>5, <1>6, <1>10 DEF WorldIs, DocumentIs, Editor!Accounted, Editor!onMap
  <2>2. (st.erased \cup {e.hex}) \ {e.hex} = st.erased
    BY <1>2, <1>10 DEF Editor!Accounted
  <2>3. DocumentIs(c, saved(s), st.chosen, st.paint, st.erased, st.gone, st.placed)
    BY <1>6, <1>8, <2>2 DEF DocumentIs
  <2> QED BY <1>1, <2>1, <2>3, SameDocument
<1> QED BY <1>3, <1>4, <1>6, <1>7, <1>8, <1>9, <1>10 DEF Reverts, DocumentIs

LEMMA RemoveIsUndone ==
  ASSUME NEW c, NEW e \in Edits(c), e.tool = "remove", NEW w, NEW st, Sound(c, w, st), Editor(c)!possible(e, w, st, {})
  PROVE  Reverts(c, e, w, st)
<1>1. w \in Editor(c)!Worlds /\ st \in Editor(c)!Documents /\ e.city \in Editor(c)!Cities
  BY DEF Sound, Edits
<1>2. e.city \in c.repos /\ e.city # c.capital /\ e.city \in Editor(c)!onMap(w)
  BY <1>1 DEF Editor!possible, Editor!canRemoveCity, Editor!onMap, Editor!Cities
<1> DEFINE v == Editor(c)!removeCity(w, e.city)
           left == Editor(c)!removePlacedCity(st, e.city)
           s == Editor(c)!removeCityFromMap(left, e.city)
           back == [v EXCEPT !.city[e.city] = w.city[e.city]]
           entered(p) == IF st.placed[e.city] # Editor(c)!NoEntry THEN Editor(c)!placeCity(p, e.city, st.placed[e.city]) ELSE p
           saved(p) == IF e.city \in st.gone THEN entered(p) ELSE Editor(c)!restoreCityToMap(entered(p), e.city)
<1>3. Editor(c)!perform(e, w, st) = <<v, s>>
  BY DEF Editor!perform
<1>4. \A p : Editor(c)!revert(e, v, p, w, st) = <<back, saved(p)>>
  BY DEF Editor!revert
<1>5. WorldIs(c, v, [w.city EXCEPT ![e.city] = Editor(c)!Off], w.arm, w.tiles, w.terrain)
  BY <1>1 DEF WorldIs, Editor!Worlds, Editor!removeCity
<1>6. DocumentIs(c, s, st.chosen, st.paint, st.erased, st.gone \cup {e.city}, [st.placed EXCEPT ![e.city] = Editor(c)!NoEntry])
  <2>1. DocumentIs(c, left, st.chosen, st.paint, st.erased, st.gone, [st.placed EXCEPT ![e.city] = Editor(c)!NoEntry])
    BY <1>1, PlaceRemoved
  <2> HIDE DEF left
  <2>2. left \in Editor(c)!Documents
    BY <2>1 DEF DocumentIs
  <2>3. DocumentIs(c, s, left.chosen, left.paint, left.erased, left.gone \cup {e.city}, left.placed)
    BY <1>2, <2>2, CityRemoved
  <2> HIDE DEF s
  <2> QED BY <2>1, <2>3 DEF DocumentIs
<1> HIDE DEF v, s
<1>7. back = w
  <2>1. WorldIs(c, back, [v.city EXCEPT ![e.city] = w.city[e.city]], v.arm, v.tiles, v.terrain)
    BY <1>1, <1>5 DEF WorldIs, Editor!Worlds
  <2>2. [v.city EXCEPT ![e.city] = w.city[e.city]] = w.city
    BY <1>1, <1>5, FieldTypes, PutBack DEF WorldIs
  <2> HIDE DEF back
  <2> QED BY <1>1, <1>5, <2>1, <2>2, SameWorld DEF WorldIs
<1>8. st.placed \in [Editor(c)!Cities -> [at : Editor(c)!Hexes \cup {Editor(c)!Off}, moved : BOOLEAN]]
  BY <1>1, FieldTypes
<1>9. ASSUME NEW p \in Editor(c)!Documents
      PROVE  saved(p) \in Editor(c)!Documents /\ saved(p).paint = p.paint
  <2>1. entered(p) \in Editor(c)!Documents /\ entered(p).paint = p.paint
    <3>1. DocumentIs(c, Editor(c)!placeCity(p, e.city, st.placed[e.city]), p.chosen, p.paint, p.erased,
                     p.gone \ {e.city}, [p.placed EXCEPT ![e.city] = st.placed[e.city]])
      BY <1>1, <1>8, <1>9, PlaceSetter
    <3> QED BY <1>9, <3>1 DEF DocumentIs
  <2> HIDE DEF entered
  <2> QED BY <2>1, CityRestored DEF DocumentIs
<1>10. Sound(c, v, s) /\ Editor(c)!onMap(v) = Editor(c)!onMap(w) \ {e.city}
  <2>1. Editor(c)!onMap(v) = Editor(c)!onMap(w) \ {e.city}
    BY <1>1, <1>5, FieldTypes DEF WorldIs, Editor!onMap
  <2>2. Editor(c)!Standing(v)
    <3>1. \A d \in Editor(c)!onMap(v) : d # e.city /\ Editor(c)!footprint(v, d) = Editor(c)!footprint(w, d)
      BY <1>1, <1>5, <2>1, FieldTypes DEF WorldIs, Editor!onMap, Editor!footprint
    <3>2. v.city[c.capital] = w.city[c.capital] /\ v.tiles = w.tiles
      BY <1>1, <1>2, <1>5, FieldTypes DEF WorldIs, Editor!Cities
    <3> QED BY <2>1, <3>1, <3>2 DEF Sound, Editor!Standing
  <2> QED BY <1>5, <1>6, <2>1, <2>2 DEF Sound, WorldIs, DocumentIs
<1>11. ASSUME Editor(c)!Accounted(w, st)
       PROVE  Editor(c)!Accounted(v, s) /\ saved(s) = st
  <2>1. e.city \notin st.gone
    BY <1>2, <1>11 DEF Editor!Accounted
  <2>2. Editor(c)!Accounted(v, s)
    <3>1. v.tiles \cap s.erased = {}
      BY <1>5, <1>6, <1>11 DEF WorldIs, DocumentIs, Editor!Accounted
    <3>2. ASSUME NEW d \in c.repos, d # e.city
          PROVE  IF d \in Editor(c)!onMap(v) THEN d \notin s.gone ELSE s.placed[d] = Editor(c)!NoEntry
      BY <1>1, <1>6, <1>10, <1>11, <3>2, FieldTypes DEF DocumentIs, Editor!Accounted, Editor!Cities
    <3>3. e.city \notin Editor(c)!onMap(v) /\ s.placed[e.city] = Editor(c)!NoEntry
      BY <1>1, <1>6, <1>8, <1>10 DEF DocumentIs
    <3> QED BY <3>1, <3>2, <3>3 DEF Editor!Accounted
  <2>3. DocumentIs(c, entered(s), st.chosen, st.paint, st.erased, entered(s).gone, st.placed)
        /\ entered(s).gone \ {e.city} = st.gone
    <3>1. CASE st.placed[e.city] # Editor(c)!NoEntry
      <4>1. DocumentIs(c, entered(s), s.chosen, s.paint, s.erased, s.gone \ {e.city},
                       [s.placed EXCEPT ![e.city] = st.placed[e.city]])
        BY <1>1, <1>6, <1>8, <3>1, PlaceSetter DEF DocumentIs
      <4>2. [s.placed EXCEPT ![e.city] = st.placed[e.city]] = st.placed
        BY <1>1, <1>6, <1>8, PutBack DEF DocumentIs
      <4> HIDE DEF entered
      <4> QED BY <1>6, <2>1, <4>1, <4>2 DEF DocumentIs
    <3>2. CASE st.placed[e.city] = Editor(c)!NoEntry
      <4>1. [st.placed EXCEPT ![e.city] = Editor(c)!NoEntry] = st.placed
        BY <1>1, <1>8, <3>2, PutBack
      <4> QED BY <1>6, <2>1, <3>2, <4>1 DEF DocumentIs
    <3> QED BY <3>1, <3>2
  <2> HIDE DEF entered
  <2>4. DocumentIs(c, saved(s), st.chosen, st.paint, st.erased, st.gone, st.placed)
    <3>1. entered(s) \in Editor(c)!Documents
      BY <2>3 DEF DocumentIs
    <3>2. DocumentIs(c, saved(s), entered(s).chosen, entered(s).paint, entered(s).erased,
                     entered(s).gone \ {e.city}, entered(s).placed)
      BY <2>1, <3>1, CityRestored
    <3> HIDE DEF saved
    <3> QED BY <2>3, <3>2 DEF DocumentIs
  <2> HIDE DEF saved
  <2> QED BY <1>1, <2>2, <2>4, SameDocument
<1> HIDE DEF back, saved
<1> QED BY <1>3, <1>4, <1>6, <1>7, <1>9, <1>10, <1>11 DEF Reverts, DocumentIs

LEMMA PlaceIsUndone ==
  ASSUME NEW c, Editor(c)!EditorAssumption, NEW e \in Edits(c), e.tool = "place", NEW w, NEW st, Sound(c, w, st), Editor(c)!possible(e, w, st, {})
  PROVE  Reverts(c, e, w, st)
<1> DEFINE entry == [at |-> e.hex, moved |-> FALSE]
           t == IF st.paint[e.hex] # Editor(c)!None THEN st.paint[e.hex] ELSE "land"
           v == Editor(c)!foundCity(w, st, e.city, e.hex)
           s == Editor(c)!placeCity(st, e.city, entry)
           back == [v EXCEPT !.city[e.city] = Editor(c)!Off, !.arm[e.city] = w.arm[e.city],
                             !.terrain[e.hex] = w.terrain[e.hex]]
           left(p) == IF st.placed[e.city] # Editor(c)!NoEntry THEN Editor(c)!placeCity(p, e.city, entry)
                      ELSE Editor(c)!removePlacedCity(p, e.city)
           saved(p) == IF e.city \in st.gone THEN Editor(c)!removeCityFromMap(left(p), e.city) ELSE left(p)
<1>1. /\ w \in Editor(c)!Worlds /\ st \in Editor(c)!Documents /\ e.city \in Editor(c)!Cities
      /\ e.hex \in Editor(c)!Hexes /\ e.hex \in w.tiles
      /\ entry \in [at : Editor(c)!Hexes \cup {Editor(c)!Off}, moved : BOOLEAN]
  BY DEF Sound, Edits, Editor!possible, Editor!canFoundCity
<1>2. e.city \in c.repos /\ w.city[e.city] = Editor(c)!Off
  BY DEF Editor!possible, Editor!canFoundCity
<1>3. t \in Editor(c)!Paintable
  BY <1>1, FieldTypes DEF Editor!Paintable
<1>4. Editor(c)!perform(e, w, st) = <<v, s>>
  BY DEF Editor!perform
<1>5. \A p : Editor(c)!revert(e, v, p, w, st) = <<back, saved(p)>>
  BY DEF Editor!revert
<1>6. WorldIs(c, v, [w.city EXCEPT ![e.city] = e.hex], [w.arm EXCEPT ![e.city] = 0], w.tiles,
              [w.terrain EXCEPT ![e.hex] = t])
  <2>1. v = [w EXCEPT !.city[e.city] = e.hex, !.arm[e.city] = 0, !.terrain[e.hex] = t]
    BY DEF Editor!foundCity
  <2> HIDE DEF t, v
  <2> QED BY <1>1, <1>3, <2>1 DEF WorldIs, Editor!Worlds
<1>7. DocumentIs(c, s, st.chosen, st.paint, st.erased, st.gone \ {e.city}, [st.placed EXCEPT ![e.city] = entry])
  BY <1>1, PlaceSetter
<1> HIDE DEF t, v, s, entry
<1>8. back = w
  <2>1. WorldIs(c, back, [v.city EXCEPT ![e.city] = w.city[e.city]], [v.arm EXCEPT ![e.city] = w.arm[e.city]], v.tiles,
                [v.terrain EXCEPT ![e.hex] = w.terrain[e.hex]])
    BY <1>1, <1>2, <1>6 DEF WorldIs, Editor!Worlds
  <2>2. [v.city EXCEPT ![e.city] = w.city[e.city]] = w.city
    BY <1>1, <1>6, FieldTypes, PutBack DEF WorldIs
  <2>3. [v.arm EXCEPT ![e.city] = w.arm[e.city]] = w.arm
    BY <1>1, <1>6, FieldTypes, PutBack DEF WorldIs
  <2>4. [v.terrain EXCEPT ![e.hex] = w.terrain[e.hex]] = w.terrain
    BY <1>1, <1>6, FieldTypes, PutBack DEF WorldIs
  <2> HIDE DEF back
  <2> QED BY <1>1, <1>6, <2>1, <2>2, <2>3, <2>4, SameWorld DEF WorldIs
<1>9. ASSUME NEW p \in Editor(c)!Documents
      PROVE  saved(p) \in Editor(c)!Documents /\ saved(p).paint = p.paint
  <2>1. left(p) \in Editor(c)!Documents /\ left(p).paint = p.paint
    <3>1. DocumentIs(c, Editor(c)!placeCity(p, e.city, entry), p.chosen, p.paint, p.erased,
                     p.gone \ {e.city}, [p.placed EXCEPT ![e.city] = entry])
      BY <1>1, <1>9, PlaceSetter
    <3>2. DocumentIs(c, Editor(c)!removePlacedCity(p, e.city), p.chosen, p.paint, p.erased,
                     p.gone, [p.placed EXCEPT ![e.city] = Editor(c)!NoEntry])
      BY <1>1, <1>9, PlaceRemoved
    <3> QED BY <3>1, <3>2 DEF DocumentIs
  <2> HIDE DEF left
  <2> QED BY <1>2, <2>1, CityRemoved DEF DocumentIs
<1>10. Sound(c, v, s) /\ Editor(c)!onMap(v) = Editor(c)!onMap(w) \cup {e.city}
  <2>1. Editor(c)!onMap(v) = Editor(c)!onMap(w) \cup {e.city}
    <3>1. e.hex # Editor(c)!Off
      BY <1>1 DEF Editor!EditorAssumption, Editor!Hexes, Editor!Off
    <3>2. v.city = [w.city EXCEPT ![e.city] = e.hex] /\ w.city \in [Editor(c)!Cities -> Editor(c)!Hexes \cup {Editor(c)!Off}]
      BY <1>1, <1>6, FieldTypes DEF WorldIs
    <3> QED BY <1>1, <3>1, <3>2 DEF Editor!onMap
  <2>2. Editor(c)!Standing(v)
    <3>1. \A d \in Editor(c)!onMap(w) : d # e.city /\ Editor(c)!footprint(v, d) = Editor(c)!footprint(w, d)
                                      /\ e.hex \notin Editor(c)!footprint(w, d)
      BY <1>1, <1>2, <1>6, FieldTypes
      DEF WorldIs, Editor!onMap, Editor!footprint, Editor!possible, Editor!canFoundCity, Editor!occupied
    <3>2. Editor(c)!footprint(v, e.city) = {e.hex}
      BY <1>1, <1>6, FieldTypes DEF WorldIs, Editor!footprint, Editor!Hexes
    <3>3. v.city[c.capital] = w.city[c.capital] /\ v.tiles = w.tiles
      BY <1>1, <1>2, <1>6, FieldTypes DEF WorldIs, Editor!Cities, Editor!EditorAssumption
    <3> QED BY <1>1, <2>1, <3>1, <3>2, <3>3 DEF Sound, Editor!Standing
  <2> QED BY <1>6, <1>7, <2>1, <2>2 DEF Sound, WorldIs, DocumentIs
<1>11. ASSUME Editor(c)!Accounted(w, st)
       PROVE  Editor(c)!Accounted(v, s) /\ saved(s) = st
  <2>1. st.placed[e.city] = Editor(c)!NoEntry
    BY <1>2, <1>11 DEF Editor!Accounted, Editor!onMap
  <2>2. Editor(c)!Accounted(v, s)
    <3>1. v.tiles \cap s.erased = {}
      BY <1>6, <1>7, <1>11 DEF WorldIs, DocumentIs, Editor!Accounted
    <3>2. ASSUME NEW d \in c.repos, d # e.city
          PROVE  IF d \in Editor(c)!onMap(v) THEN d \notin s.gone ELSE s.placed[d] = Editor(c)!NoEntry
      BY <1>1, <1>7, <1>10, <1>11, <3>2, FieldTypes DEF DocumentIs, Editor!Accounted, Editor!Cities
    <3>3. e.city \in Editor(c)!onMap(v) /\ e.city \notin s.gone
      BY <1>7, <1>10 DEF DocumentIs
    <3> QED BY <3>1, <3>2, <3>3 DEF Editor!Accounted
  <2>3. DocumentIs(c, left(s), st.chosen, st.paint, st.erased, st.gone \ {e.city}, st.placed)
    <3>1. s \in Editor(c)!Documents
      BY <1>7 DEF DocumentIs
    <3>2. DocumentIs(c, left(s), s.chosen, s.paint, s.erased, s.gone, [s.placed EXCEPT ![e.city] = st.placed[e.city]])
      BY <1>1, <2>1, <3>1, PlaceRemoved
    <3>3. [s.placed EXCEPT ![e.city] = st.placed[e.city]] = st.placed
      BY <1>1, <1>7, FieldTypes, PutBack DEF DocumentIs
    <3> HIDE DEF left
    <3> QED BY <1>7, <3>2, <3>3 DEF DocumentIs
  <2> HIDE DEF left
  <2>4. left(s) \in Editor(c)!Documents
    BY <2>3 DEF DocumentIs
  <2>5. DocumentIs(c, saved(s), st.chosen, st.paint, st.erased, st.gone, st.placed)
    <3>1. CASE e.city \in st.gone
      <4>1. (st.gone \ {e.city}) \cup {e.city} = st.gone
        BY <3>1
      <4>2. DocumentIs(c, saved(s), left(s).chosen, left(s).paint, left(s).erased, left(s).gone \cup {e.city}, left(s).placed)
        BY <1>2, <2>4, <3>1, CityRemoved
      <4> QED BY <2>3, <4>1, <4>2 DEF DocumentIs
    <3>2. CASE e.city \notin st.gone
      <4>1. st.gone \ {e.city} = st.gone
        BY <3>2
      <4> QED BY <2>3, <3>2, <4>1
    <3> QED BY <3>1, <3>2
  <2> HIDE DEF saved
  <2> QED BY <1>1, <2>2, <2>5, SameDocument
<1> HIDE DEF back, saved
<1> QED BY <1>4, <1>5, <1>7, <1>8, <1>9, <1>10, <1>11 DEF Reverts, DocumentIs

LEMMA MoveIsUndone ==
  ASSUME NEW c, Editor(c)!EditorAssumption, NEW e \in Edits(c), e.tool = "move",
         NEW w, NEW st, Sound(c, w, st), Editor(c)!possible(e, w, st, {})
  PROVE  Reverts(c, e, w, st)
<1> DEFINE from == w.city[e.city]
           arm == w.arm[e.city]
           to == {e.hex, e.hex + arm}
           carried == [x \in Editor(c)!Hexes |-> IF x \in to THEN w.terrain[from + (x - e.hex)] ELSE w.terrain[x]]
           v == Editor(c)!moveCityInWorld(w, e.city, e.hex)
           s == Editor(c)!persistCityCoord(st, w, v, e.city)
           hexes == {from, from + arm, e.hex, e.hex + arm}
           back == [v EXCEPT !.city[e.city] = from,
                             !.terrain = [h \in Editor(c)!Hexes |-> IF h \in hexes THEN w.terrain[h] ELSE @[h]]]
           entered(p) == IF st.placed[e.city] # Editor(c)!NoEntry THEN Editor(c)!placeCity(p, e.city, st.placed[e.city])
                         ELSE Editor(c)!removePlacedCity(p, e.city)
           saved(p) == [entered(p) EXCEPT !.paint = [h \in Editor(c)!Hexes |-> IF h \in to THEN st.paint[h] ELSE @[h]]]
<1>1. /\ w \in Editor(c)!Worlds /\ st \in Editor(c)!Documents /\ e.city \in Editor(c)!Cities
      /\ e.hex \in Editor(c)!Hexes /\ from # Editor(c)!Off /\ e.city \in Editor(c)!onMap(w)
  BY DEF Sound, Edits, Editor!possible, Editor!onMap
<1>2. /\ from \in Int /\ arm \in {0, 1} /\ e.hex \in Int
      /\ {from, from + arm} \subseteq Editor(c)!Hexes /\ to \subseteq w.tiles /\ to \subseteq Editor(c)!Hexes
  <2>1. Editor(c)!footprint(w, e.city) \subseteq w.tiles
    BY <1>1 DEF Sound, Editor!Standing
  <2>2. to \subseteq w.tiles
    BY DEF Editor!possible, Editor!canRelocateCityTo
  <2>3. arm \in {0, 1} /\ w.tiles \subseteq Editor(c)!Hexes
    BY <1>1, FieldTypes
  <2>4. {from, from + arm} \subseteq Editor(c)!Hexes
    BY <2>1, <2>3 DEF Editor!footprint
  <2> QED BY <1>1, <2>2, <2>3, <2>4 DEF Editor!Hexes
<1>3. \A x \in to : from + (x - e.hex) \in Editor(c)!Hexes
  BY <1>2
<1>4. Editor(c)!Accounted(w, st) => e.city \notin st.gone
  <2>1. CASE e.city \in c.repos
    BY <1>1, <2>1 DEF Editor!Accounted
  <2>2. CASE e.city \notin c.repos
    BY <1>1, <2>2, FieldTypes
  <2> QED BY <2>1, <2>2
<1>5. Editor(c)!perform(e, w, st) = <<v, s>>
  BY DEF Editor!perform
<1>6. \A p : Editor(c)!revert(e, v, p, w, st) = <<back, saved(p)>>
  <2>1. e.tool \notin {"terrain", "erase", "remove", "place"}
    OBVIOUS
  <2> HIDE DEF v, s
  <2> QED BY <2>1, Zenon DEF Editor!revert
<1>7. WorldIs(c, v, [w.city EXCEPT ![e.city] = e.hex], w.arm, w.tiles, carried)
  <2>1. carried \in [Editor(c)!Hexes -> Editor(c)!Paintable \cup {"sacred"}]
    BY <1>1, <1>3, FieldTypes
  <2>2. v = [w EXCEPT !.city[e.city] = e.hex, !.terrain = carried]
    BY DEF Editor!moveCityInWorld
  <2> HIDE DEF carried, v
  <2> QED BY <1>1, <2>1, <2>2 DEF WorldIs, Editor!Worlds
<1>8. /\ s \in Editor(c)!Documents /\ s.chosen = st.chosen /\ s.erased = st.erased /\ s.gone = st.gone \ {e.city}
      /\ \A x \in Editor(c)!Hexes \ to : s.paint[x] = st.paint[x]
      /\ \A d \in Editor(c)!Cities \ {e.city} : s.placed[d] = st.placed[d]
  <2> DEFINE origin(x) == w.city[e.city] + (x - v.city[e.city])
             left(x) == IF st.paint[origin(x)] # Editor(c)!None THEN st.paint[origin(x)]
                        ELSE IF st.paint[x] = Editor(c)!None THEN Editor(c)!None
                        ELSE IF v.terrain[x] \in Editor(c)!Paintable THEN v.terrain[x] ELSE st.paint[x]
             paint == [x \in Editor(c)!Hexes |-> IF x \in Editor(c)!footprint(v, e.city) THEN left(x) ELSE st.paint[x]]
             entry == IF st.placed[e.city] = Editor(c)!NoEntry THEN [at |-> v.city[e.city], moved |-> TRUE]
                      ELSE [st.placed[e.city] EXCEPT !.at = v.city[e.city]]
  <2>1. v.city[e.city] = e.hex /\ v.arm[e.city] = arm
    BY <1>1, <1>7, FieldTypes DEF WorldIs
  <2>2. Editor(c)!footprint(v, e.city) = to
    BY <2>1 DEF Editor!footprint
  <2> HIDE DEF v
  <2>3. \A x \in to : left(x) \in Editor(c)!Paintable \cup {Editor(c)!None}
    BY <1>1, <1>2, <1>3, <2>1, FieldTypes
  <2>4. paint \in [Editor(c)!Hexes -> Editor(c)!Paintable \cup {Editor(c)!None}]
        /\ \A x \in Editor(c)!Hexes \ to : paint[x] = st.paint[x]
    <3>1. \A x \in Editor(c)!Hexes : st.paint[x] \in Editor(c)!Paintable \cup {Editor(c)!None}
      BY <1>1, FieldTypes
    <3> HIDE DEF left, to
    <3> QED BY <2>2, <2>3, <3>1
  <2>5. entry \in [at : Editor(c)!Hexes \cup {Editor(c)!Off}, moved : BOOLEAN]
    <3>1. st.placed[e.city] \in [at : Editor(c)!Hexes \cup {Editor(c)!Off}, moved : BOOLEAN]
      BY <1>1, FieldTypes
    <3> QED BY <1>1, <2>1, <3>1
  <2>6. s = [st EXCEPT !.paint = paint, !.placed[e.city] = entry, !.gone = st.gone \ {e.city}]
    BY <1>1 DEF Editor!persistCityCoord, Editor!Documents
  <2> HIDE DEF s, paint, entry
  <2>7. DocumentIs(c, s, st.chosen, paint, st.erased, st.gone \ {e.city}, [st.placed EXCEPT ![e.city] = entry])
    BY <1>1, <2>4, <2>5, <2>6 DEF DocumentIs, Editor!Documents
  <2> QED BY <1>1, <2>4, <2>7, FieldTypes DEF DocumentIs
<1> HIDE DEF v, s
<1>9. back = w
  <2> DEFINE whole == [h \in Editor(c)!Hexes |-> IF h \in hexes THEN w.terrain[h] ELSE v.terrain[h]]
  <2>1. w.terrain \in [Editor(c)!Hexes -> Editor(c)!Paintable \cup {"sacred"}]
    BY <1>1, FieldTypes
  <2>2. whole = w.terrain
    <3>1. \A h \in Editor(c)!Hexes : whole[h] = w.terrain[h]
      BY <1>7 DEF WorldIs
    <3> HIDE DEF whole
    <3>2. whole \in [Editor(c)!Hexes -> Editor(c)!Paintable \cup {"sacred"}]
      BY <1>7, <2>1 DEF WorldIs, Editor!Worlds, whole
    <3> QED BY <2>1, <3>1, <3>2
  <2>3. back = [v EXCEPT !.city[e.city] = from, !.terrain = whole]
    BY <1>1, <1>7 DEF WorldIs, Editor!Worlds
  <2> HIDE DEF back, whole
  <2>4. WorldIs(c, back, [v.city EXCEPT ![e.city] = from], v.arm, v.tiles, w.terrain)
    BY <1>1, <1>7, <2>1, <2>2, <2>3, FieldTypes DEF WorldIs, Editor!Worlds
  <2>5. [v.city EXCEPT ![e.city] = from] = w.city
    BY <1>1, <1>7, FieldTypes, PutBack DEF WorldIs
  <2>6. WorldIs(c, back, w.city, w.arm, w.tiles, w.terrain)
    BY <1>7, <2>4, <2>5 DEF WorldIs
  <2> QED BY <1>1, <2>6, SameWorld
<1>10. ASSUME NEW p \in Editor(c)!Documents, p.paint = s.paint
       PROVE  /\ saved(p) \in Editor(c)!Documents /\ saved(p).paint = st.paint
              /\ DocumentIs(c, entered(p), saved(p).chosen, p.paint, saved(p).erased, saved(p).gone, saved(p).placed)
  <2>1. st.placed \in [Editor(c)!Cities -> [at : Editor(c)!Hexes \cup {Editor(c)!Off}, moved : BOOLEAN]]
        /\ st.paint \in [Editor(c)!Hexes -> Editor(c)!Paintable \cup {Editor(c)!None}]
        /\ s.paint \in [Editor(c)!Hexes -> Editor(c)!Paintable \cup {Editor(c)!None}]
    BY <1>1, <1>8, FieldTypes
  <2>2. entered(p) \in Editor(c)!Documents /\ entered(p).paint = p.paint
    <3>1. DocumentIs(c, Editor(c)!placeCity(p, e.city, st.placed[e.city]), p.chosen, p.paint, p.erased,
                     p.gone \ {e.city}, [p.placed EXCEPT ![e.city] = st.placed[e.city]])
      BY <1>1, <1>10, <2>1, PlaceSetter
    <3>2. DocumentIs(c, Editor(c)!removePlacedCity(p, e.city), p.chosen, p.paint, p.erased,
                     p.gone, [p.placed EXCEPT ![e.city] = Editor(c)!NoEntry])
      BY <1>1, <1>10, PlaceRemoved
    <3> QED BY <3>1, <3>2 DEF DocumentIs
  <2> HIDE DEF entered
  <2> DEFINE whole == [h \in Editor(c)!Hexes |-> IF h \in to THEN st.paint[h] ELSE s.paint[h]]
  <2>3. whole = st.paint
    BY <1>8, <2>1
  <2>4. saved(p) = [entered(p) EXCEPT !.paint = whole]
    BY <1>10, <2>2
  <2> HIDE DEF saved, whole
  <2> QED BY <2>1, <2>2, <2>3, <2>4 DEF DocumentIs, Editor!Documents
<1>11. Sound(c, v, s) /\ Editor(c)!onMap(v) = Editor(c)!onMap(w)
  <2>1. v.city = [w.city EXCEPT ![e.city] = e.hex] /\ w.city \in [Editor(c)!Cities -> Editor(c)!Hexes \cup {Editor(c)!Off}]
    BY <1>1, <1>7, FieldTypes DEF WorldIs
  <2>2. Editor(c)!onMap(v) = Editor(c)!onMap(w)
    <3>1. e.hex # Editor(c)!Off
      BY <1>1 DEF Editor!EditorAssumption, Editor!Hexes, Editor!Off
    <3> QED BY <1>1, <2>1, <3>1 DEF Editor!onMap
  <2>3. Editor(c)!Standing(v)
    <3>1. \A d \in Editor(c)!onMap(w) \ {e.city} : Editor(c)!footprint(v, d) = Editor(c)!footprint(w, d)
      BY <1>7, <2>1 DEF WorldIs, Editor!onMap, Editor!footprint
    <3>2. Editor(c)!footprint(v, e.city) = to
      BY <1>1, <1>7, <2>1 DEF WorldIs, Editor!footprint
    <3>3. \A d \in Editor(c)!onMap(w) \ {e.city} : to \cap Editor(c)!footprint(w, d) = {}
      <4>1. (to \ Editor(c)!footprint(w, e.city)) \cap Editor(c)!occupied(w) = {}
        BY DEF Editor!possible, Editor!canRelocateCityTo
      <4>2. \A d \in Editor(c)!onMap(w) \ {e.city} :
              /\ Editor(c)!footprint(w, d) \subseteq Editor(c)!occupied(w)
              /\ Editor(c)!footprint(w, e.city) \cap Editor(c)!footprint(w, d) = {}
        BY <1>1 DEF Sound, Editor!Standing, Editor!occupied
      <4> QED BY <4>1, <4>2
    <3>4. v.city[c.capital] # Editor(c)!Off /\ v.tiles = w.tiles
      BY <1>1, <1>7, <2>2 DEF Sound, WorldIs, Editor!Standing, Editor!onMap, Editor!Cities
    <3> HIDE DEF v, to
    <3> QED BY <1>2, <2>2, <3>1, <3>2, <3>3, <3>4 DEF Sound, Editor!Standing
  <2> QED BY <1>7, <1>8, <2>2, <2>3 DEF Sound, WorldIs
<1>12. ASSUME Editor(c)!Accounted(w, st)
       PROVE  Editor(c)!Accounted(v, s) /\ saved(s) = st
  <2>1. Editor(c)!Accounted(v, s)
    <3>1. v.tiles \cap s.erased = {}
      BY <1>7, <1>8, <1>12 DEF WorldIs, Editor!Accounted
    <3>2. ASSUME NEW d \in c.repos
          PROVE  IF d \in Editor(c)!onMap(v) THEN d \notin s.gone ELSE s.placed[d] = Editor(c)!NoEntry
      BY <1>1, <1>8, <1>11, <1>12 DEF Editor!Accounted, Editor!Cities
    <3> QED BY <3>1, <3>2 DEF Editor!Accounted
  <2>2. [s.placed EXCEPT ![e.city] = st.placed[e.city]] = st.placed
    BY <1>1, <1>8, FieldTypes
  <2>3. s.gone = st.gone /\ s.gone \ {e.city} = st.gone
    BY <1>4, <1>8, <1>12
  <2>4. DocumentIs(c, entered(s), st.chosen, s.paint, st.erased, st.gone, st.placed)
    <3>1. CASE st.placed[e.city] # Editor(c)!NoEntry
      <4>1. st.placed[e.city] \in [at : Editor(c)!Hexes \cup {Editor(c)!Off}, moved : BOOLEAN]
        BY <1>1, FieldTypes
      <4>2. DocumentIs(c, Editor(c)!placeCity(s, e.city, st.placed[e.city]), s.chosen, s.paint, s.erased,
                       s.gone \ {e.city}, [s.placed EXCEPT ![e.city] = st.placed[e.city]])
        BY <1>1, <1>8, <4>1, PlaceSetter
      <4> QED BY <1>8, <2>2, <2>3, <3>1, <4>2
    <3>2. CASE st.placed[e.city] = Editor(c)!NoEntry
      <4>1. DocumentIs(c, Editor(c)!removePlacedCity(s, e.city), s.chosen, s.paint, s.erased,
                       s.gone, [s.placed EXCEPT ![e.city] = Editor(c)!NoEntry])
        BY <1>1, <1>8, PlaceRemoved
      <4> QED BY <1>8, <2>2, <2>3, <3>2, <4>1
    <3> QED BY <3>1, <3>2
  <2> HIDE DEF entered, saved
  <2>5. DocumentIs(c, saved(s), st.chosen, st.paint, st.erased, st.gone, st.placed)
    BY <1>8, <1>10, <2>4 DEF DocumentIs
  <2> QED BY <1>1, <2>1, <2>5, SameDocument
<1> HIDE DEF back, saved, entered
<1> QED BY <1>5, <1>6, <1>9, <1>10, <1>11, <1>12 DEF Reverts

LEMMA EditIsUndone ==
  ASSUME NEW c, Editor(c)!EditorAssumption, NEW e \in Edits(c),
         NEW w, NEW st, Sound(c, w, st), Editor(c)!possible(e, w, st, {})
  PROVE  Reverts(c, e, w, st)
<1>1. e.tool \in {"terrain", "erase", "remove", "place", "move"}
  BY DEF Edits
<1> QED BY <1>1, PaintIsUndone, EraseIsUndone, RemoveIsUndone, PlaceIsUndone, MoveIsUndone

LEMMA BehindGrows ==
  ASSUME NEW c, NEW exact, NEW steps \in Seq(Entries(c)), NEW s \in Entries(c), Possible(c, exact, s), Behind(c, exact, steps, Before(exact, s))
  PROVE  Append(steps, s) \in Seq(Entries(c)) /\ Behind(c, exact, Append(steps, s), After(c, exact, s))
<1> DEFINE more == Append(steps, s)
<1>1. more \in Seq(Entries(c)) /\ Len(steps) \in Nat /\ Len(more) = Len(steps) + 1 /\ more[Len(more)] = s
      /\ \A i \in 1 .. Len(steps) : more[i] = steps[i]
  OBVIOUS
<1> HIDE DEF more
<1>2. ASSUME NEW i \in DOMAIN more
      PROVE  Possible(c, exact, more[i])
             /\ After(c, exact, more[i]) = IF i = Len(more) THEN After(c, exact, s) ELSE Before(exact, more[i + 1])
  <2>1. CASE i = Len(more)
    BY <1>1, <2>1
  <2>2. CASE i = Len(steps) /\ i # Len(more)
    BY <1>1, <1>2, <2>2 DEF Behind
  <2>3. CASE i \in 1 .. Len(steps) - 1
    <3>1. i \in DOMAIN steps /\ i # Len(steps) /\ i + 1 \in 1 .. Len(steps) /\ i # Len(more)
      BY <1>1, <2>3
    <3> QED BY <1>1, <3>1 DEF Behind
  <2> QED BY <1>1, <1>2, <2>1, <2>2, <2>3
<1> QED BY <1>1, <1>2 DEF Behind, more

LEMMA BehindShrinks ==
  ASSUME NEW c, NEW exact, NEW steps \in Seq(Entries(c)), steps # <<>>, NEW now, Behind(c, exact, steps, now)
  PROVE  LET s == steps[Len(steps)]
             fewer == SubSeq(steps, 1, Len(steps) - 1)
         IN  /\ s \in Entries(c) /\ Possible(c, exact, s) /\ After(c, exact, s) = now
             /\ fewer \in Seq(Entries(c)) /\ Behind(c, exact, fewer, Before(exact, s))
<1> DEFINE s == steps[Len(steps)]
           fewer == SubSeq(steps, 1, Len(steps) - 1)
<1>1. Len(steps) \in Nat \ {0} /\ Len(steps) \in DOMAIN steps /\ s \in Entries(c)
  OBVIOUS
<1>2. fewer \in Seq(Entries(c)) /\ Len(fewer) = Len(steps) - 1 /\ \A i \in 1 .. Len(fewer) : fewer[i] = steps[i]
  <2>1. \A i \in 1 .. Len(steps) - 1 : steps[i] \in Entries(c)
    BY <1>1
  <2>2. fewer = [i \in 1 .. Len(steps) - 1 |-> steps[i]]
    BY <1>1
  <2> HIDE DEF fewer
  <2>3. fewer \in Seq(Entries(c))
    BY <1>1, <2>1, <2>2
  <2>4. Len(fewer) = Len(steps) - 1
    BY <1>1, <2>2
  <2> QED BY <1>1, <2>2, <2>3, <2>4
<1>3. Possible(c, exact, s) /\ After(c, exact, s) = now
  BY <1>1 DEF Behind
<1> HIDE DEF fewer
<1>4. ASSUME NEW i \in DOMAIN fewer
      PROVE  Possible(c, exact, fewer[i]) /\ After(c, exact, fewer[i]) = IF i = Len(fewer) THEN Before(exact, s) ELSE Before(exact, fewer[i + 1])
  <2>1. i \in 1 .. Len(fewer) /\ i \in DOMAIN steps /\ i # Len(steps) /\ fewer[i] = steps[i]
    BY <1>1, <1>2, <1>4
  <2>2. Possible(c, exact, steps[i]) /\ After(c, exact, steps[i]) = Before(exact, steps[i + 1])
    BY <2>1 DEF Behind
  <2>3. CASE i = Len(fewer)
    BY <1>1, <1>2, <2>1, <2>2, <2>3
  <2>4. CASE i # Len(fewer)
    <3>1. i + 1 \in 1 .. Len(fewer)
      BY <1>1, <1>2, <2>1, <2>4
    <3> QED BY <1>2, <2>1, <2>2, <2>4, <3>1
  <2> QED BY <2>3, <2>4
<1>5. Behind(c, exact, fewer, Before(exact, s))
  BY <1>4 DEF Behind
<1> QED BY <1>1, <1>2, <1>3, <1>5 DEF fewer

LEMMA AheadGrows ==
  ASSUME NEW c, NEW exact, NEW steps \in Seq(Entries(c)), NEW s \in Entries(c), Possible(c, exact, s), Ahead(c, exact, steps, After(c, exact, s))
  PROVE  Append(steps, s) \in Seq(Entries(c)) /\ Ahead(c, exact, Append(steps, s), Before(exact, s))
<1> DEFINE more == Append(steps, s)
<1>1. more \in Seq(Entries(c)) /\ Len(steps) \in Nat /\ Len(more) = Len(steps) + 1 /\ more[Len(more)] = s
      /\ \A i \in 1 .. Len(steps) : more[i] = steps[i]
  OBVIOUS
<1> HIDE DEF more
<1>2. ASSUME NEW i \in DOMAIN more
      PROVE  Possible(c, exact, more[i])
             /\ Before(exact, more[i]) = IF i = Len(more) THEN Before(exact, s) ELSE After(c, exact, more[i + 1])
  <2>1. CASE i = Len(more)
    BY <1>1, <2>1
  <2>2. CASE i = Len(steps) /\ i # Len(more)
    BY <1>1, <1>2, <2>2 DEF Ahead
  <2>3. CASE i \in 1 .. Len(steps) - 1
    <3>1. i \in DOMAIN steps /\ i # Len(steps) /\ i + 1 \in 1 .. Len(steps) /\ i # Len(more)
      BY <1>1, <2>3
    <3> QED BY <1>1, <3>1 DEF Ahead
  <2> QED BY <1>1, <1>2, <2>1, <2>2, <2>3
<1> QED BY <1>1, <1>2 DEF Ahead, more

LEMMA AheadShrinks ==
  ASSUME NEW c, NEW exact, NEW steps \in Seq(Entries(c)), steps # <<>>, NEW now, Ahead(c, exact, steps, now)
  PROVE  LET s == steps[Len(steps)]
             fewer == SubSeq(steps, 1, Len(steps) - 1)
         IN  /\ s \in Entries(c) /\ Possible(c, exact, s) /\ Before(exact, s) = now
             /\ fewer \in Seq(Entries(c)) /\ Ahead(c, exact, fewer, After(c, exact, s))
<1> DEFINE s == steps[Len(steps)]
           fewer == SubSeq(steps, 1, Len(steps) - 1)
<1>1. Len(steps) \in Nat \ {0} /\ Len(steps) \in DOMAIN steps /\ s \in Entries(c)
  OBVIOUS
<1>2. fewer \in Seq(Entries(c)) /\ Len(fewer) = Len(steps) - 1 /\ \A i \in 1 .. Len(fewer) : fewer[i] = steps[i]
  <2>1. \A i \in 1 .. Len(steps) - 1 : steps[i] \in Entries(c)
    BY <1>1
  <2>2. fewer = [i \in 1 .. Len(steps) - 1 |-> steps[i]]
    BY <1>1
  <2> HIDE DEF fewer
  <2>3. fewer \in Seq(Entries(c))
    BY <1>1, <2>1, <2>2
  <2>4. Len(fewer) = Len(steps) - 1
    BY <1>1, <2>2
  <2> QED BY <1>1, <2>2, <2>3, <2>4
<1>3. Possible(c, exact, s) /\ Before(exact, s) = now
  BY <1>1 DEF Ahead
<1> HIDE DEF fewer
<1>4. ASSUME NEW i \in DOMAIN fewer
      PROVE  Possible(c, exact, fewer[i]) /\ Before(exact, fewer[i]) = IF i = Len(fewer) THEN After(c, exact, s) ELSE After(c, exact, fewer[i + 1])
  <2>1. i \in 1 .. Len(fewer) /\ i \in DOMAIN steps /\ i # Len(steps) /\ fewer[i] = steps[i]
    BY <1>1, <1>2, <1>4
  <2>2. Possible(c, exact, steps[i]) /\ Before(exact, steps[i]) = After(c, exact, steps[i + 1])
    BY <2>1 DEF Ahead
  <2>3. CASE i = Len(fewer)
    BY <1>1, <1>2, <2>1, <2>2, <2>3
  <2>4. CASE i # Len(fewer)
    <3>1. i + 1 \in 1 .. Len(fewer)
      BY <1>1, <1>2, <2>1, <2>4
    <3> QED BY <1>2, <2>1, <2>2, <2>4, <3>1
  <2> QED BY <2>3, <2>4
<1>5. Ahead(c, exact, fewer, After(c, exact, s))
  BY <1>4 DEF Ahead
<1> QED BY <1>1, <1>2, <1>3, <1>5 DEF fewer

(* What an edit does to the map and its paint depends on nothing else.      *)
LEMMA OnTheMap ==
  ASSUME NEW c, NEW e \in Edits(c), NEW w, NEW st \in Editor(c)!Documents, NEW p \in Editor(c)!Documents,
         p.paint = st.paint
  PROVE  /\ Editor(c)!possible(e, w, p, {}) = Editor(c)!possible(e, w, st, {})
         /\ Editor(c)!perform(e, w, p)[1] = Editor(c)!perform(e, w, st)[1]
         /\ Editor(c)!perform(e, w, p)[2].paint = Editor(c)!perform(e, w, st)[2].paint
<1>1. Editor(c)!possible(e, w, p, {}) = Editor(c)!possible(e, w, st, {})
  BY DEF Editor!possible
<1>2. Editor(c)!perform(e, w, p)[1] = Editor(c)!perform(e, w, st)[1]
  BY DEF Edits, Editor!perform, Editor!foundCity
<1>3. Editor(c)!perform(e, w, p)[2].paint = Editor(c)!perform(e, w, st)[2].paint
  <2>1. CASE e.tool = "terrain"
    BY <2>1 DEF Editor!perform, Editor!setHexTerrain, Editor!Documents
  <2>2. CASE e.tool \in {"erase", "remove", "place"}
    BY <2>2 DEF Editor!perform, Editor!removeHex, Editor!removeCityFromMap, Editor!removePlacedCity, Editor!placeCity,
                Editor!Documents
  <2>3. CASE e.tool = "move"
    <3> DEFINE v == Editor(c)!moveCityInWorld(w, e.city, e.hex)
               origin(x) == w.city[e.city] + (x - v.city[e.city])
               left(q, x) == IF q.paint[origin(x)] # Editor(c)!None THEN q.paint[origin(x)]
                             ELSE IF q.paint[x] = Editor(c)!None THEN Editor(c)!None
                             ELSE IF v.terrain[x] \in Editor(c)!Paintable THEN v.terrain[x] ELSE q.paint[x]
               paint(q) == [x \in Editor(c)!Hexes |->
                              IF x \in Editor(c)!footprint(v, e.city) THEN left(q, x) ELSE q.paint[x]]
               entry(q) == IF q.placed[e.city] = Editor(c)!NoEntry THEN [at |-> v.city[e.city], moved |-> TRUE]
                           ELSE [q.placed[e.city] EXCEPT !.at = v.city[e.city]]
    <3>1. ASSUME NEW q \in Editor(c)!Documents
          PROVE  Editor(c)!perform(e, w, q)[2].paint = paint(q)
      <4>1. Editor(c)!perform(e, w, q)[2]
            = [q EXCEPT !.paint = paint(q), !.placed[e.city] = entry(q), !.gone = q.gone \ {e.city}]
        BY <2>3, <3>1 DEF Editor!perform, Editor!persistCityCoord, Editor!Documents
      <4> HIDE DEF paint, entry
      <4> QED BY <3>1, <4>1 DEF Editor!Documents
    <3>2. paint(p) = paint(st)
      OBVIOUS
    <3> HIDE DEF paint
    <3> QED BY <3>1, <3>2
  <2> QED BY <2>1, <2>2, <2>3 DEF Edits
<1> QED BY <1>1, <1>2, <1>3

(* A history begins with nothing to undo.                                   *)
LEMMA HistoryBegins ==
  ASSUME NEW c, done = <<>>, undone = <<>>, Editor(c)!TypeOK, Editor(c)!EveryCityStands,
         fits => Editor(c)!Accounted(world, store)
  PROVE  EditorHolds(c)
BY DEF EditorHolds, Behind, Ahead, Sound, Editor!TypeOK, Editor!EveryCityStands

(* An edit, or one done again.                                              *)
LEMMA DoneOnce ==
  ASSUME NEW c, Editor(c)!EditorAssumption, EditorHolds(c), UNCHANGED <<fits, refused>>, NEW e \in Edits(c),
         Editor(c)!possible(e, world, store, {}),
         world' = Editor(c)!perform(e, world, store)[1], store' = Editor(c)!perform(e, world, store)[2],
         done' = Append(done, Editor(c)!step(e)),
         undone' \in Seq(Entries(c)), ~refused => Ahead(c, fits, undone', Now')
  PROVE  EditorHolds(c)'
<1> DEFINE s == Editor(c)!step(e)
<1>1. Sound(c, world, store) /\ (fits => Editor(c)!Accounted(world, store))
  BY DEF EditorHolds
<1>2. s \in Entries(c) /\ s.edit = e /\ s.was = world /\ s.wasSt = store
  BY <1>1 DEF Entries, Sound, Editor!step
<1>3. Possible(c, fits, s) /\ Before(fits, s) = Now
  BY <1>1, <1>2 DEF Possible, Before, Now
<1>4. After(c, fits, s) = Now'
  BY <1>2 DEF After, Now
<1>5. Sound(c, world', store') /\ (fits' => Editor(c)!Accounted(world', store'))
  BY <1>1, EditIsUndone DEF Reverts
<1> HIDE DEF s
<1>6. done \in Seq(Entries(c)) /\ done' = Append(done, s) /\ done' \in Seq(Entries(c))
  BY <1>2 DEF EditorHolds, s
<1>7. ~refused => Behind(c, fits, done', Now')
  <2>1. ~refused => Behind(c, fits, done, Before(fits, s))
    BY <1>3 DEF EditorHolds
  <2> QED BY <1>2, <1>3, <1>4, <1>6, <2>1, BehindGrows
<1> QED BY <1>5, <1>6, <1>7 DEF EditorHolds

LEMMA EditHolds ==
  ASSUME NEW c, Editor(c)!EditorAssumption, EditorHolds(c), NEW e \in Edits(c), Editor(c)!Edit(e)
  PROVE  EditorHolds(c)'
<1>1. undone' \in Seq(Entries(c)) /\ Ahead(c, fits, undone', Now')
  BY DEF Editor!Edit, Ahead
<1> QED BY <1>1, DoneOnce DEF Editor!Edit

LEMMA UndoHolds ==
  ASSUME NEW c, Editor(c)!EditorAssumption, EditorHolds(c), Editor(c)!undoMapEdit
  PROVE  /\ EditorHolds(c)'
         /\ world' = done[Len(done)].was /\ store'.paint = done[Len(done)].wasSt.paint
         /\ fits => store' = done[Len(done)].wasSt
<1> DEFINE s == done[Len(done)]
           fewer == SubSeq(done, 1, Len(done) - 1)
           e == s.edit
           v == Editor(c)!perform(e, s.was, s.wasSt)[1]
           st == Editor(c)!perform(e, s.was, s.wasSt)[2]
<1>1. done \in Seq(Entries(c)) /\ undone \in Seq(Entries(c)) /\ done # <<>> /\ ~refused
      /\ Behind(c, fits, done, Now) /\ Ahead(c, fits, undone, Now) /\ store \in Editor(c)!Documents
  BY DEF EditorHolds, Sound, Editor!undoMapEdit
<1>2. /\ s \in Entries(c) /\ Possible(c, fits, s) /\ After(c, fits, s) = Now
      /\ fewer \in Seq(Entries(c)) /\ Behind(c, fits, fewer, Before(fits, s))
  BY <1>1, BehindShrinks
<1>3. world' = Editor(c)!revert(e, world, store, s.was, s.wasSt)[1]
      /\ store' = Editor(c)!revert(e, world, store, s.was, s.wasSt)[2]
      /\ undone' = Append(undone, s) /\ done' = fewer /\ fits' = fits /\ refused' = refused
  BY DEF Editor!undoMapEdit
<1> HIDE DEF s, fewer
<1>4. v = world /\ st.paint = store.paint /\ (fits => st = store)
  BY <1>2 DEF After, Now, Kept
<1>5. Reverts(c, e, s.was, s.wasSt)
  <2>1. e \in Edits(c) /\ Sound(c, s.was, s.wasSt) /\ Editor(c)!possible(e, s.was, s.wasSt, {})
    BY <1>2 DEF Entries, Possible
  <2> QED BY <2>1, EditIsUndone
<1>6. fits => Editor(c)!Accounted(s.was, s.wasSt)
  BY <1>2 DEF Possible
<1> HIDE DEF v, st
<1>7. /\ world' = s.was /\ store' \in Editor(c)!Documents /\ store'.paint = s.wasSt.paint
      /\ fits => store' = s.wasSt
  BY <1>1, <1>3, <1>4, <1>5, <1>6 DEF Reverts, v, st
<1>8. Sound(c, world', store') /\ (fits' => Editor(c)!Accounted(world', store')) /\ Now' = Before(fits, s)
  BY <1>2, <1>3, <1>6, <1>7 DEF Possible, Sound, Now, Before, Kept
<1>9. undone' \in Seq(Entries(c)) /\ Ahead(c, fits, undone', Now')
  BY <1>1, <1>2, <1>3, <1>8, AheadGrows
<1>10. EditorHolds(c)'
  BY <1>2, <1>3, <1>8, <1>9 DEF EditorHolds
<1> QED BY <1>7, <1>10 DEF s

LEMMA RedoHolds ==
  ASSUME NEW c, Editor(c)!EditorAssumption, EditorHolds(c), Editor(c)!redoMapEdit
  PROVE  EditorHolds(c)'
<1> DEFINE s == undone[Len(undone)]
           fewer == SubSeq(undone, 1, Len(undone) - 1)
<1>1. /\ undone \in Seq(Entries(c)) /\ undone # <<>> /\ ~refused
      /\ Ahead(c, fits, undone, Now) /\ store \in Editor(c)!Documents
  BY DEF EditorHolds, Sound, Editor!redoMapEdit
<1>2. /\ s \in Entries(c) /\ Possible(c, fits, s) /\ Before(fits, s) = Now
      /\ fewer \in Seq(Entries(c)) /\ Ahead(c, fits, fewer, After(c, fits, s))
  BY <1>1, AheadShrinks
<1>3. undone' = fewer /\ fits' = fits
  BY DEF Editor!redoMapEdit
<1>4. s.edit \in Edits(c) /\ s.wasSt \in Editor(c)!Documents /\ s.was = world /\ s.wasSt.paint = store.paint
      /\ (fits => s.wasSt = store)
  BY <1>2 DEF Entries, Before, Now, Kept
<1>5. \/ /\ world' = Editor(c)!perform(s.edit, world, store)[1] /\ store' = Editor(c)!perform(s.edit, world, store)[2]
         /\ done' = Append(done, Editor(c)!step(s.edit)) /\ refused' = refused
      \/ done' = Append(done, s) /\ refused' = TRUE /\ world' = world /\ store' = store
  BY DEF Editor!redoMapEdit
<1>6. Editor(c)!possible(s.edit, world, store, {})
  BY <1>1, <1>2, <1>4, OnTheMap DEF Possible
<1> HIDE DEF s, fewer
<1>7. CASE done' = Append(done, Editor(c)!step(s.edit)) /\ refused' = refused
           /\ world' = Editor(c)!perform(s.edit, world, store)[1] /\ store' = Editor(c)!perform(s.edit, world, store)[2]
  <2>1. After(c, fits, s) = Now'
    BY <1>1, <1>3, <1>4, <1>7, OnTheMap DEF After, Now, Kept
  <2> QED BY <1>2, <1>3, <1>4, <1>6, <1>7, <2>1, DoneOnce
<1>8. CASE done' = Append(done, s) /\ refused' = TRUE /\ world' = world /\ store' = store
  <2>1. done' \in Seq(Entries(c))
    BY <1>2, <1>8 DEF EditorHolds
  <2> QED BY <1>2, <1>3, <1>8, <2>1 DEF EditorHolds
<1> QED BY <1>5, <1>7, <1>8

(* A step of the editor; what a reload makes of the document is supposed.   *)
LEMMA EditorStep ==
  ASSUME NEW c, Editor(c)!EditorAssumption, EditorHolds(c), Editor(c)!Next,
         done' = <<>> /\ undone' = <<>> => Editor(c)!TypeOK' /\ Editor(c)!EveryCityStands'
  PROVE  EditorHolds(c)'
<1>1. ASSUME NEW h \in Editor(c)!Hexes, NEW t \in c.paints, Editor(c)!paintTerrainAt(h, t)
      PROVE  EditorHolds(c)'
  <2>1. Editor(c)!edit("terrain", c.capital, h, t) \in Edits(c)
    BY DEF Edits, Editor!edit, Editor!Cities
  <2> QED BY <1>1, <2>1, EditHolds DEF Editor!paintTerrainAt
<1>2. ASSUME NEW h \in Editor(c)!Hexes, Editor(c)!eraseAt(h)
      PROVE  EditorHolds(c)'
  <2>1. Editor(c)!edit("erase", c.capital, h, Editor(c)!None) \in Edits(c)
        /\ \A d \in c.repos : Editor(c)!edit("remove", d, h, Editor(c)!None) \in Edits(c)
    BY DEF Edits, Editor!edit, Editor!Cities, Editor!None
  <2> QED BY <1>2, <2>1, EditHolds DEF Editor!eraseAt
<1>3. ASSUME NEW d \in c.repos, NEW h \in Editor(c)!Hexes, Editor(c)!placeRepoAt(d, h)
      PROVE  EditorHolds(c)'
  <2>1. Editor(c)!edit("place", d, h, Editor(c)!None) \in Edits(c)
    BY DEF Edits, Editor!edit, Editor!Cities, Editor!None
  <2> QED BY <1>3, <2>1, EditHolds DEF Editor!placeRepoAt
<1>4. ASSUME NEW d \in c.movable, NEW h \in Editor(c)!Hexes, Editor(c)!moveCitySync(d, h)
      PROVE  EditorHolds(c)'
  <2>1. Editor(c)!edit("move", d, h, Editor(c)!None) \in Edits(c)
    BY DEF Edits, Editor!edit, Editor!Cities, Editor!None, Editor!EditorAssumption
  <2> QED BY <1>4, <2>1, EditHolds DEF Editor!moveCitySync
<1>5. CASE (\E d \in c.repos : Editor(c)!Select(d)) \/ Editor(c)!Reload \/ Editor(c)!RestoreAll
  <2>1. done' = <<>> /\ undone' = <<>> /\ fits' = Editor(c)!Accounted(world', store')
    BY <1>5 DEF Editor!Select, Editor!Reload, Editor!RestoreAll
  <2>2. world' \in Editor(c)!Worlds /\ store' \in Editor(c)!Documents /\ Editor(c)!Standing(world')
    BY <2>1 DEF Editor!TypeOK, Editor!EveryCityStands
  <2> QED BY <2>1, <2>2 DEF EditorHolds, Behind, Ahead, Sound
<1> QED BY <1>1, <1>2, <1>3, <1>4, <1>5, UndoHolds, RedoHolds DEF Editor!Next

LEMMA EditorRests ==
  ASSUME NEW c, EditorHolds(c), UNCHANGED editorVars
  PROVE  EditorHolds(c)'
BY DEF editorVars, EditorHolds, Now

---------------------------------------------------------------------------
(* A step of MCWorld is one of its parts, and the others rest.              *)

LEMMA StepOfPart ==
  ASSUME Next
  PROVE  /\ part' = part
         /\ part = "paint" => Editor(Brushing)!Next
         /\ part = "district" => Editor(Winging)!Next
         /\ part = "towns" => Editor(Founding)!Next
         /\ part = "selection" => Editor(Selecting)!Next
         /\ part = "wonders" => Registry(Crowded)!Next
         /\ part = "single" => Registry(Alone)!Next
         /\ part = "patient" => Window(Steady)!Next
         /\ part = "hasty" => Window(Hasty)!Next
BY DEF Next, Rest

LEMMA AllRest ==
  ASSUME UNCHANGED vars
  PROVE  part' = part /\ UNCHANGED editorVars /\ UNCHANGED wonderVars /\ UNCHANGED windowVars
BY DEF vars

Follows ==
  /\ part = "wonders" => WondersHold(Crowded)
  /\ part = "single" => WondersHold(Alone) /\ Fresh(Alone)

LEMMA FollowsStarts == Init => Follows
BY WondersStart, FreshStarts DEF Init, Follows

LEMMA FollowsStep == Follows /\ [Next]_vars => Follows'
<1> SUFFICES ASSUME Follows, [Next]_vars PROVE Follows'
  OBVIOUS
<1>1. CASE Next
  <2>1. CASE part = "wonders"
    BY <1>1, <2>1, Bounds, StepOfPart, WondersStep DEF Follows
  <2>2. CASE part = "single"
    BY <1>1, <2>2, Bounds, StepOfPart, WondersStep, FreshStep DEF Follows
  <2>3. CASE part \notin {"wonders", "single"}
    BY <1>1, <2>3, StepOfPart DEF Follows
  <2> QED BY <2>1, <2>2, <2>3
<1>2. CASE UNCHANGED vars
  BY <1>2, AllRest, WondersRest DEF Follows
<1> QED BY <1>1, <1>2

(* For any wonders, ring, listing and number of requests, faults and files  *)
(* written by hand: the map has a district and the palace a tab for each    *)
(* registered wonder that has a place; and with one request at a time, of   *)
(* which none fails, the page knows the wonders on the disk.                *)
THEOREM MapFollowsTheRegistry == Spec => []MapFollowsRegistry
<1>1. Follows => MapFollowsRegistry
  BY WondersFollow DEF Follows, MapFollowsRegistry
<1> QED BY <1>1, FollowsStarts, FollowsStep, PTL DEF Spec

Sees ==
  /\ part = "patient" => WindowHolds(Steady) /\ Followed(Steady)
  /\ part = "hasty" => WindowHolds(Hasty)

LEMMA SeesStarts == Init => Sees
BY Bounds, WindowStarts DEF Init, Sees

LEMMA SeesStep == Sees /\ [Next]_vars => Sees'
<1> SUFFICES ASSUME Sees, [Next]_vars PROVE Sees'
  OBVIOUS
<1>1. CASE Next
  <2>1. CASE part = "patient"
    BY <1>1, <2>1, Bounds, StepOfPart, WindowStep DEF Sees
  <2>2. CASE part = "hasty"
    BY <1>1, <2>2, Bounds, StepOfPart, WindowStep DEF Sees
  <2>3. CASE part \notin {"patient", "hasty"}
    BY <1>1, <2>3, StepOfPart DEF Sees
  <2> QED BY <2>1, <2>2, <2>3
<1>2. CASE UNCHANGED vars
  BY <1>2, AllRest, WindowRests DEF Sees
<1> QED BY <1>1, <1>2

(* For any wonders, cities, layers, windows and polls: no frame shows a     *)
(* wonder that did not answer well, a closed window listens to nobody, and  *)
(* for a user who waits for each window, the wonder in it knows the city.   *)
THEOREM NoWindowIsBlind == Spec => []NotBlind
<1>1. Sees => NotBlind
  BY Bounds, WindowIsSafe DEF Sees, NotBlind
<1> QED BY <1>1, SeesStarts, SeesStep, PTL DEF Spec

(* What a reload makes of the saved edits, when a history begins: a world   *)
(* on its row, of cities that stand.  The automatic layout and the replay   *)
(* of the moves are recursive, so this is left to EditsAreSaved.            *)
LoadsStand ==
  done = <<>> /\ undone = <<>> =>
    /\ part = "paint" => Editor(Brushing)!TypeOK /\ Editor(Brushing)!EveryCityStands
    /\ part = "district" => Editor(Winging)!TypeOK /\ Editor(Winging)!EveryCityStands
    /\ part = "towns" => Editor(Founding)!TypeOK /\ Editor(Founding)!EveryCityStands
    /\ part = "selection" => Editor(Selecting)!TypeOK /\ Editor(Selecting)!EveryCityStands

Remembers ==
  /\ part = "paint" => EditorHolds(Brushing)
  /\ part = "district" => EditorHolds(Winging)
  /\ part = "towns" => EditorHolds(Founding)
  /\ part = "selection" => EditorHolds(Selecting)

LEMMA RemembersStarts == Init /\ LoadsStand => Remembers
<1> SUFFICES ASSUME Init, LoadsStand PROVE Remembers
  OBVIOUS
<1>1. \A c : Editor(c)!Init => done = <<>> /\ undone = <<>> /\ fits = Editor(c)!Accounted(world, store)
  BY DEF Editor!Init
<1>2. part = "paint" => EditorHolds(Brushing)
  BY <1>1, HistoryBegins DEF Init, LoadsStand
<1>3. part = "district" => EditorHolds(Winging)
  BY <1>1, HistoryBegins DEF Init, LoadsStand
<1>4. part = "towns" => EditorHolds(Founding)
  BY <1>1, HistoryBegins DEF Init, LoadsStand
<1>5. part = "selection" => EditorHolds(Selecting)
  BY <1>1, HistoryBegins DEF Init, LoadsStand
<1> QED BY <1>2, <1>3, <1>4, <1>5 DEF Remembers

LEMMA RemembersStep == Remembers /\ LoadsStand' /\ [Next]_vars => Remembers'
<1> SUFFICES ASSUME Remembers, LoadsStand', [Next]_vars PROVE Remembers'
  OBVIOUS
<1>1. CASE Next
  <2>1. CASE part = "paint"
    BY <1>1, <2>1, Bounds, StepOfPart, EditorStep DEF Remembers, LoadsStand
  <2>2. CASE part = "district"
    BY <1>1, <2>2, Bounds, StepOfPart, EditorStep DEF Remembers, LoadsStand
  <2>3. CASE part = "towns"
    BY <1>1, <2>3, Bounds, StepOfPart, EditorStep DEF Remembers, LoadsStand
  <2>4. CASE part = "selection"
    BY <1>1, <2>4, Bounds, StepOfPart, EditorStep DEF Remembers, LoadsStand
  <2>5. CASE part \notin {"paint", "district", "towns", "selection"}
    BY <1>1, <2>5, StepOfPart DEF Remembers
  <2> QED BY <2>1, <2>2, <2>3, <2>4, <2>5
<1>2. CASE UNCHANGED vars
  BY <1>2, AllRest, EditorRests DEF Remembers
<1> QED BY <1>1, <1>2

(* For any repos, row, terrains and number of edits, also after redos:      *)
(* undoing puts back the map and the paint the edit found, and all that was *)
(* saved in a history that began with what was saved there.                 *)
THEOREM UndoDoesRestore == Spec /\ []LoadsStand => UndoRestores
<1>1. Remembers /\ [Next]_vars => [Undone => PutsBack(done[Len(done)])]_vars
  <2> SUFFICES ASSUME Remembers, Undone
               PROVE  PutsBack(done[Len(done)])
    OBVIOUS
  <2> QED BY Bounds, UndoHolds DEF Remembers, Undone, PutsBack
<1> QED BY <1>1, RemembersStarts, RemembersStep, PTL DEF Spec, UndoRestores

(* No edit, undo or redo ever puts two cities on a hex or leaves one on a   *)
(* hole, nor takes the capital off the map.                                 *)
CitiesStand ==
  /\ part = "paint" => Editor(Brushing)!EveryCityStands
  /\ part = "district" => Editor(Winging)!EveryCityStands
  /\ part = "towns" => Editor(Founding)!EveryCityStands
  /\ part = "selection" => Editor(Selecting)!EveryCityStands

THEOREM EditsStand == Spec /\ []LoadsStand => []CitiesStand
<1>1. Remembers => CitiesStand
  BY DEF Remembers, CitiesStand, EditorHolds, Sound, Editor!EveryCityStands
<1> QED BY <1>1, RemembersStarts, RemembersStep, PTL DEF Spec
=============================================================================
