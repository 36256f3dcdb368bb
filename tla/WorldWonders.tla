---------------------------- MODULE WorldWonders ----------------------------
(***************************************************************************)
(* The registry of connected wonders (src/wonders/manifest.ts), the        *)
(* palace's panel that connects and disconnects them                       *)
(* (src/ui/capitalPanel.ts) and their hexes around the capital             *)
(* (src/map.ts, src/main.ts).  A connection is a file that the bridge      *)
(* lists by name; what a file says of a wonder is left out.                *)
(***************************************************************************)
EXTENDS Naturals, Sequences, Functions

CONSTANTS
  Wonders,     \* those one may connect
  Listing,     \* the list of any of them, in the order of their files' names
  Ring,        \* the hexes around the capital, from the inside out
  CityHexes,   \* hexes the first city may get once those of wonders are reserved
  Calls,       \* connections and disconnections the user may have under way
  MaxCalls,    \* bound: how many there are in all
  MaxDrops,    \* bound: files put on the disk by hand
  MaxFaults    \* bound: requests that fail

WondersAssumption ==
  /\ \A some \in SUBSET Wonders :
       Listing[some] \in Seq(Wonders) /\ Range(Listing[some]) = some /\ IsInjective(Listing[some])
  /\ Ring \in Seq(Range(Ring)) /\ IsInjective(Ring)
  /\ MaxCalls \in Nat /\ MaxDrops \in Nat /\ MaxFaults \in Nat

VARIABLES
  disk,       \* the connected wonders' files
  booted,
  registry,   \* _registry: the iframe wonders, in order; gaceta is always there
  loaded,     \* _loaded
  calls,      \* a connection or disconnection and its reload
  tiles,      \* the map's tiles
  districts,  \* the capital's wonder districts: where each wonder stands
  tabs,       \* the wonders the palace has a tab for, or Closed before it is built
  made, drops, faults

vars == <<disk, booted, registry, loaded, calls, tiles, districts, tabs, made, drops, faults>>

Hexes == Range(Ring) \cup CityHexes
None == "none"
Closed == {None}
Listed == Listing[disk]
Free == [step |-> "idle", op |-> None, wonder |-> None, answer |-> <<>>]
Plain == [terrain |-> "plains", city |-> FALSE, wonder |-> None]

Init ==
  /\ disk \in SUBSET Wonders /\ booted = FALSE
  /\ registry = <<>> /\ loaded = FALSE
  /\ calls = [c \in Calls |-> Free]
  /\ tiles = [h \in Hexes |-> Plain] /\ districts = <<>>
  /\ tabs = Closed
  /\ made = 0 /\ drops = 0 /\ faults = 0

(***************************************************************************)
(* Placement.                                                              *)
(***************************************************************************)
(* assignWonderCoords: the n-th wonder gets the n-th hex of the spiral.     *)
assignWonderCoords(list) == [i \in DOMAIN list \cap DOMAIN Ring |-> [wonder |-> list[i], at |-> Ring[i]]]

Placed(list) == {assignWonderCoords(list)[i].wonder : i \in DOMAIN assignWonderCoords(list)}
HexOf(list, w) == (CHOOSE p \in Range(assignWonderCoords(list)) : p.wonder = w).at

Sacred(w) == [terrain |-> "sacred", city |-> FALSE, wonder |-> w]

\* Slip of syncWorldWonders: what is no longer connected stays on the map.
OnlyAdds(list) ==
  LET new == Placed(list) \ DOMAIN districts IN
  /\ districts' = [w \in DOMAIN districts \cup new |-> IF w \in new THEN HexOf(list, w) ELSE districts[w]]
  /\ tiles' = [h \in Hexes |-> IF \E w \in new : HexOf(list, w) = h
                                 THEN Sacred(CHOOSE w \in new : HexOf(list, w) = h) ELSE tiles[h]]

(* syncWorldWonders: the hexes of the wonders that left become plains, those *)
(* that came get the hex of their place in the registry, the others stay.    *)
syncWorldWonders(list) ==
  LET new  == Placed(list) \ DOMAIN districts
      gone == DOMAIN districts \ Placed(list)
  IN /\ districts' = [w \in Placed(list) |-> IF w \in new THEN HexOf(list, w) ELSE districts[w]]
     /\ tiles' = [h \in Hexes |->
          IF \E w \in new : HexOf(list, w) = h THEN Sacred(CHOOSE w \in new : HexOf(list, w) = h)
          ELSE IF \E w \in gone : districts[w] = h
            THEN [tiles[h] EXCEPT !.wonder = None, !.terrain = "plains"] ELSE tiles[h]]

(***************************************************************************)
(* The registry.                                                           *)
(***************************************************************************)
(* loadWonders at its end: an answer replaces the registry, a failure leaves *)
(* it; either way it is not asked for again.                                 *)
Loads(list) == registry' = list /\ loaded' = TRUE

(* The page starts: the registry is loaded or not, then the world generated  *)
(* with the wonders' hexes reserved.                                         *)
Boot ==
  /\ ~booted /\ booted' = TRUE
  /\ \/ Loads(Listed) /\ faults' = faults
     \/ faults < MaxFaults /\ faults' = faults + 1 /\ Loads(<<>>)
  /\ LET reserved == {HexOf(registry', w) : w \in Placed(registry')}
     IN \E h \in CityHexes \ reserved :
          tiles' = [x \in Hexes |-> IF x = h THEN [Plain EXCEPT !.city = TRUE]
                                    ELSE IF x \in reserved THEN Sacred(CHOOSE w \in Placed(registry') : HexOf(registry', w) = x)
                                    ELSE Plain]
  /\ districts' = [w \in Placed(registry') |-> HexOf(registry', w)]
  /\ UNCHANGED <<disk, calls, tabs, made, drops>>

(***************************************************************************)
(* Connecting and disconnecting.                                           *)
(***************************************************************************)
Begin(c, op, w) ==
  /\ booted /\ calls[c].step = "idle" /\ made < MaxCalls
  /\ made' = made + 1
  /\ calls' = [calls EXCEPT ![c] = [step |-> "posted", op |-> op, wonder |-> w, answer |-> <<>>]]
  /\ UNCHANGED <<disk, booted, registry, loaded, tiles, districts, tabs, drops, faults>>

(* A manifest pasted in the guide, and the button of a wonder's tab.         *)
Connect(c, w) == tabs # Closed /\ Begin(c, "connect", w)
Disconnect(c, w) == w \in tabs /\ Begin(c, "disconnect", w)

(* The bridge writes or removes the file.  It refuses to remove what is not  *)
(* there.                                                                    *)
Serve(c) ==
  /\ calls[c].step = "posted"
  /\ LET w == calls[c].wonder IN
     \/ /\ calls[c].op = "connect" /\ disk' = disk \cup {w}
        /\ calls' = [calls EXCEPT ![c].step = "done"]
     \/ /\ calls[c].op = "disconnect" /\ w \in disk /\ disk' = disk \ {w}
        /\ calls' = [calls EXCEPT ![c].step = "done"]
     \/ /\ calls[c].op = "disconnect" /\ w \notin disk /\ disk' = disk
        /\ calls' = [calls EXCEPT ![c] = Free]
  /\ UNCHANGED <<booted, registry, loaded, tiles, districts, tabs, made, drops, faults>>

(* connectWonder and disconnectWonder: the answer came, the registry is      *)
(* asked for again.                                                          *)
Invalidate(c) ==
  /\ calls[c].step = "done"
  /\ calls' = [calls EXCEPT ![c].step = "asked"] /\ loaded' = FALSE
  /\ UNCHANGED <<disk, booted, registry, tiles, districts, tabs, made, drops, faults>>

(* The bridge lists the files.                                               *)
Read(c) ==
  /\ calls[c].step = "asked"
  /\ calls' = [calls EXCEPT ![c].step = "read", ![c].answer = Listed]
  /\ UNCHANGED <<disk, booted, registry, loaded, tiles, districts, tabs, made, drops, faults>>

(* _rebuildTabsBar *)
rebuildTabsBar(c) == IF tabs = Closed THEN tabs' = tabs ELSE tabs' = Range(registry')

(* Both flows end alike: the map follows the registry, then the tabs.        *)
Ends(c) ==
  /\ syncWorldWonders(registry')
  /\ rebuildTabsBar(c)
  /\ calls' = [calls EXCEPT ![c] = Free]
  /\ UNCHANGED <<disk, booted, made, drops>>

Answer(c) == calls[c].step = "read" /\ Loads(calls[c].answer) /\ Ends(c) /\ faults' = faults
LoadFails(c) ==
  /\ calls[c].step \in {"asked", "read"} /\ faults < MaxFaults /\ faults' = faults + 1
  /\ Loads(registry) /\ Ends(c)

(* The request or its answer is lost: the panel says so and does no more.    *)
PostFails(c) ==
  /\ calls[c].step \in {"posted", "done"} /\ faults < MaxFaults /\ faults' = faults + 1
  /\ calls' = [calls EXCEPT ![c] = Free]
  /\ UNCHANGED <<disk, booted, registry, loaded, tiles, districts, tabs, made, drops>>

(* openCapitalPanel: the panel is built once and shown again afterwards.     *)
OpenPalace ==
  /\ booted
  /\ tabs' = IF tabs = Closed THEN Range(registry) ELSE tabs
  /\ UNCHANGED <<disk, booted, registry, loaded, calls, tiles, districts, made, drops, faults>>

(* The documented way without the panel: a file written by hand.             *)
DropFile(w) ==
  /\ drops < MaxDrops /\ drops' = drops + 1
  /\ w \notin disk /\ disk' = disk \cup {w}
  /\ UNCHANGED <<booted, registry, loaded, calls, tiles, districts, tabs, made, faults>>

Next ==
  \/ Boot \/ OpenPalace
  \/ \E w \in Wonders : DropFile(w)
  \/ \E c \in Calls :
       \/ \E w \in Wonders : Connect(c, w) \/ Disconnect(c, w)
       \/ Serve(c) \/ Invalidate(c) \/ Read(c) \/ Answer(c) \/ LoadFails(c) \/ PostFails(c)

Spec == Init /\ [][Next]_vars

(***************************************************************************)
(* Properties.                                                             *)
(***************************************************************************)
TypeOK ==
  /\ disk \subseteq Wonders /\ booted \in BOOLEAN /\ loaded \in BOOLEAN
  /\ registry \in Seq(Wonders) /\ IsInjective(registry)
  /\ \A c \in Calls : calls[c].step \in {"idle", "posted", "done", "asked", "read"}
  /\ \A h \in Hexes : /\ tiles[h].terrain \in {"plains", "sacred"} /\ tiles[h].city \in BOOLEAN
                      /\ tiles[h].wonder \in Wonders \cup {None}
  /\ DOMAIN districts \subseteq Wonders
  /\ tabs = Closed \/ tabs \subseteq Wonders

(* The capital has a district for each registered wonder as far as the ring *)
(* goes, and for no other: also when one that came in front pushed another  *)
(* off its end.                                                             *)
MapFollowsRegistry == booted => DOMAIN districts = {registry[i] : i \in DOMAIN registry \cap DOMAIN Ring}

(* The palace has a tab for each registered wonder and for no other.        *)
TabsFollowRegistry == tabs # Closed => tabs = Range(registry)

(* With nothing under way the page knows the wonders on the disk: with one  *)
(* request at a time and none that fails.                                   *)
RegistryFresh == (booted /\ \A c \in Calls : calls[c].step = "idle") => Range(registry) = disk

---------------------------------------------------------------------------
(* What a document, a comment or a test says and this code does not keep    *)
(* (README, "Where the code differs").                                      *)

(* Each wonder on the map has a hex of its own.                             *)
OneHexEach == \A v, w \in DOMAIN districts : v # w => districts[v] # districts[w]

(* A city keeps its tile.                                                   *)
CityKeepsTile == [][\A h \in Hexes : tiles[h].city => tiles'[h].city]_vars

(* What a connection that succeeded says: the wonder is on the map.         *)
ConnectedIsShown ==
  [][\A c \in Calls : (calls[c].step \in {"asked", "read"} /\ calls'[c].step = "idle" /\ calls[c].op = "connect")
                        => calls[c].wonder \in DOMAIN districts']_vars

(* Opening the palace shows the wonders on the disk.                        *)
PalaceShowsDisk == [][OpenPalace => tabs' = disk]_vars
=============================================================================
