------------------------------- MODULE MCWorld -------------------------------
(***************************************************************************)
(* The world the user shapes: the map editor with what it saves, the stack *)
(* of its edits, the wonders connected to the capital and the window that  *)
(* opens one.  None reads the state of another here, so a behaviour is one *)
(* of them (part) while the others rest.                                   *)
(***************************************************************************)
EXTENDS Integers, Sequences, FiniteSets

CONSTANTS
  Parts,           \* the parts that are checked
  Brushing, Winging, Founding, Selecting,  \* of the editor: [repos, order, capital, gap, length, wide,
                                           \* tools, movable, paints, edits]
  Crowded, Alone,  \* of the registry: [wonders, listing, ring, cityHexes, calls, made, drops, faults]
  Steady, Hasty    \* of the windows: [wonders, native, unknown, probed, lenient, elsewhere, cities,
                   \* layers, waits, opens, polls]

VARIABLES
  part,
  world, store, done, undone, edits, fits, refused,
  terrain, undoStack, redoStack, groups, brush, strokes, base, shown,
  disk, booted, registry, loaded, calls, tiles, districts, tabs, made, drops, faults,
  view, opened, current, mounted, listening, allowed, context, selected, local, layers, told, unheard

(* The editor, under constants c. *)
Editor(c) == INSTANCE MapEditor WITH
  Repos <- c.repos, Order <- c.order, Capital <- c.capital, Gap <- c.gap, Length <- c.length, Wide <- c.wide,
  Tools <- c.tools, Movable <- c.movable, Paints <- c.paints, MaxEdits <- c.edits

(* Three strokes over two hexes, and a stack of two.                        *)
History == INSTANCE EditHistory WITH
  Hexes <- {"h1", "h2"}, Colours <- {"sea", "wood"}, Limit <- 2, Keyboard <- FALSE, MaxStrokes <- 3

(* The registry and the window of a wonder, each under constants c.         *)
Registry(c) == INSTANCE WorldWonders WITH
  Wonders <- c.wonders, Listing <- c.listing, Ring <- c.ring, CityHexes <- c.cityHexes,
  Calls <- c.calls, MaxCalls <- c.made, MaxDrops <- c.drops, MaxFaults <- c.faults

Window(c) == INSTANCE WonderVignette WITH
  Wonders <- c.wonders, Native <- c.native, Unknown <- c.unknown,
  Probed <- c.probed, Lenient <- c.lenient, Elsewhere <- c.elsewhere, Cities <- c.cities,
  Layers <- c.layers, Patient <- c.waits, MaxOpens <- c.opens, MaxPolls <- c.polls

(* Of Alone there is one request at a time, and none that fails; a user who *)
(* is Steady leaves a window open until it shows something.                 *)
ASSUME Bounds ==
  /\ Editor(Brushing)!EditorAssumption /\ Editor(Winging)!EditorAssumption
  /\ Editor(Founding)!EditorAssumption /\ Editor(Selecting)!EditorAssumption
  /\ History!HistoryAssumption /\ Registry(Crowded)!WondersAssumption /\ Registry(Alone)!WondersAssumption
  /\ (\A c, d \in Alone.calls : c = d) /\ Alone.drops = 0 /\ Alone.faults = 0
  /\ Window(Steady)!VignetteAssumption /\ Steady.waits /\ Window(Hasty)!VignetteAssumption

editorVars == <<world, store, done, undone, edits, fits, refused>>
historyVars == <<terrain, undoStack, redoStack, groups, brush, strokes, base, shown>>
wonderVars == <<disk, booted, registry, loaded, calls, tiles, districts, tabs, made, drops, faults>>
windowVars == <<view, opened, current, mounted, listening, allowed, context, selected, local, layers,
                told, unheard>>

(* A part at rest has one initial state.                                    *)
Init ==
  /\ part \in Parts
  /\ CASE part = "district" -> Editor(Winging)!Init [] part = "towns" -> Editor(Founding)!Init
       [] part = "selection" -> Editor(Selecting)!Init [] OTHER -> Editor(Brushing)!Init
  /\ History!Init /\ (part # "history" => brush = "sea" /\ terrain = [h \in {"h1", "h2"} |-> "sea"])
  /\ IF part = "wonders" THEN Registry(Crowded)!Init ELSE Registry(Alone)!Init
  /\ part \notin {"wonders", "single"} => disk = {}
  /\ IF part = "patient" THEN Window(Steady)!Init ELSE Window(Hasty)!Init

Rest(others) == UNCHANGED <<part, others>>

Next ==
  \/ part = "paint" /\ Editor(Brushing)!Next /\ Rest(<<historyVars, wonderVars, windowVars>>)
  \/ part = "district" /\ Editor(Winging)!Next /\ Rest(<<historyVars, wonderVars, windowVars>>)
  \/ part = "towns" /\ Editor(Founding)!Next /\ Rest(<<historyVars, wonderVars, windowVars>>)
  \/ part = "selection" /\ Editor(Selecting)!Next /\ Rest(<<historyVars, wonderVars, windowVars>>)
  \/ part = "history" /\ History!Next /\ Rest(<<editorVars, wonderVars, windowVars>>)
  \/ part = "wonders" /\ Registry(Crowded)!Next /\ Rest(<<editorVars, historyVars, windowVars>>)
  \/ part = "single" /\ Registry(Alone)!Next /\ Rest(<<editorVars, historyVars, windowVars>>)
  \/ part = "patient" /\ Window(Steady)!Next /\ Rest(<<editorVars, historyVars, wonderVars>>)
  \/ part = "hasty" /\ Window(Hasty)!Next /\ Rest(<<editorVars, historyVars, wonderVars>>)

vars == <<part, editorVars, historyVars, wonderVars, windowVars>>

Spec == Init /\ [][Next]_vars

(* Requests of a window are answered or time out, and so do its frames.     *)
InHasty(A) == part = "hasty" /\ A
FairSpec == Spec /\ \A g \in Window(Hasty)!Windows : WF_windowVars(InHasty(Window(Hasty)!Works(g)))

---------------------------------------------------------------------------
(* The map the user sees is the one a reload rebuilds from what was saved   *)
(* ("whatever the editor does with record: true must be exactly what        *)
(* applyMapEdits rebuilds on the next load", mapEdits.test.ts:853), while   *)
(* the editor paints and moves; and whatever it does no hex holds two       *)
(* cities or districts, none stands on a hole, and the capital stays; and   *)
(* undoing all the history keeps leads to what was there before it, a       *)
(* stroke over its own hexes included, and a redo to what was there before  *)
(* its undo (map.ts, mapEditHistory.ts).                                    *)
EditsAreSaved ==
  /\ part = "paint" => Editor(Brushing)!TypeOK /\ Editor(Brushing)!EveryCityStands /\ Editor(Brushing)!LiveIsReload
  /\ part = "district" => Editor(Winging)!TypeOK /\ Editor(Winging)!EveryCityStands /\ Editor(Winging)!LiveIsReload
  /\ part = "towns" => Editor(Founding)!TypeOK /\ Editor(Founding)!EveryCityStands
  /\ part = "selection" => Editor(Selecting)!TypeOK /\ Editor(Selecting)!EveryCityStands
  /\ part = "history" => History!TypeOK /\ History!UndoesToTheBase /\ History!RedoesWhatWasUndone

(* An undo puts back the map and its paint, and all that is saved ("exactly *)
(* what its operation changed", map.ts:1378) if what was saved was there    *)
(* when the history began; also after redos.                                *)
Undone ==
  \/ part = "paint" /\ Editor(Brushing)!undoMapEdit
  \/ part = "district" /\ Editor(Winging)!undoMapEdit
  \/ part = "towns" /\ Editor(Founding)!undoMapEdit
  \/ part = "selection" /\ Editor(Selecting)!undoMapEdit
PutsBack(step) ==
  world' = step.was /\ store'.paint = step.wasSt.paint /\ (fits => store' = step.wasSt)
UndoRestores == [][Undone => PutsBack(done[Len(done)])]_vars

(* The capital has a district, and the palace a tab, for each registered    *)
(* wonder as far as its ring goes and for no other, also when one that came *)
(* in front pushed another off the ring; with one request at a time the     *)
(* page knows the wonders on the disk (wonders/manifest.ts).                *)
MapFollowsRegistry ==
  /\ part = "wonders" => Registry(Crowded)!TypeOK /\ Registry(Crowded)!MapFollowsRegistry /\ Registry(Crowded)!TabsFollowRegistry
  /\ part = "single" => Registry(Alone)!TypeOK /\ Registry(Alone)!MapFollowsRegistry /\ Registry(Alone)!RegistryFresh

(* No window shows a wonder that did not answer well, neither its health    *)
(* check nor its launcher; the wonder in the window knows the city the      *)
(* window heard of last; and with no window open no wonder is listened to,  *)
(* whatever openings go on (wonderVignette.ts).                             *)
NotBlind ==
  /\ part = "patient" =>
       Window(Steady)!TypeOK /\ Window(Steady)!NotBlind /\ Window(Steady)!ContextFollows /\ Window(Steady)!ClosedHearsNone
  /\ part = "hasty" => Window(Hasty)!TypeOK /\ Window(Hasty)!NotBlind /\ Window(Hasty)!ClosedHearsNone

(* Every window that stays open comes to show a frame, an empty state or a  *)
(* text: no launcher and no frame is waited for without end.                *)
Blank == part = "hasty" /\ current # 0 /\ ~Window(Hasty)!Shows(current)
EveryWindowShows == Blank ~> ~Blank

---------------------------------------------------------------------------
(* The constants of the run.  Two repos and the capital on a row of hexes:  *)
(* painting and moving; a city with a district; founding and erasing; the   *)
(* selection of the repos.                                                  *)
TwoRepos ==
  [repos |-> {"a", "b"}, order |-> <<"a", "b">>, capital |-> "cap", gap |-> 3, length |-> 7, wide |-> {},
   tools |-> {"terrain", "move"}, movable |-> {"a", "b"}, paints |-> {"wood"}, edits |-> 3]
WithDistrict == [TwoRepos EXCEPT !.length = 8, !.wide = {"a"}, !.paints = {"wood", "land"}, !.edits = 2]
WithTowns == [TwoRepos EXCEPT !.wide = {"a"}, !.tools = {"terrain", "erase", "place", "move"}, !.paints = {"sea"}]
WithChoice ==
  [WithTowns EXCEPT !.tools = {"erase", "place", "move", "select"}, !.movable = {"a", "b", "cap"}, !.paints = {}]

(* Three wonders for the two hexes of the capital's ring, one of which a    *)
(* city may take; two requests at once, or one at a time.                   *)
ThreeWonders ==
  [wonders |-> {"atlas", "bench", "cinema"},
   listing |-> [some \in SUBSET {"atlas", "bench", "cinema"} |->
                  SelectSeq(<<"atlas", "bench", "cinema">>, LAMBDA w : w \in some)],
   ring |-> <<"h1", "h2">>, cityHexes |-> {"h2", "far"},
   calls |-> {"c1", "c2"}, made |-> 2, drops |-> 1, faults |-> 1]
OneRequest == [ThreeWonders EXCEPT !.calls = {"c1"}, !.made = 4, !.drops = 0, !.faults = 0]

(* A wonder with a health address, one with a launcher only, one the        *)
(* registry lost and the gazette.  The user waits for a window to show      *)
(* something, or closes it at any time.                                     *)
FourWonders ==
  [wonders |-> {"desk", "board", "lost", "gaceta"}, native |-> {"gaceta"}, unknown |-> {"lost"},
   probed |-> {"desk"}, lenient |-> {"desk"}, elsewhere |-> {"desk"},
   cities |-> {"c1", "c2"}, layers |-> {"fog"}, waits |-> TRUE, opens |-> 2, polls |-> 1]
OneCity == [FourWonders EXCEPT !.cities = {"c1"}, !.layers = {}, !.waits = FALSE]
=============================================================================
