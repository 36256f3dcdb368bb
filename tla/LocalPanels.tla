---------------------------- MODULE LocalPanels -----------------------------
(* The panels that float over the office of a repository                    *)
(* (ui/localSpatialPreview.ts, and the callbacks of main.ts that open them):*)
(* the menu of a desk, the mission to confirm, the whiteboard of a room, the*)
(* git history of a file, and the info of a desk. They are divs of the page:*)
(* they outlive the office, the frame and the click they were opened by. The*)
(* grip of the side panel listens to the document, as they do.              *)
EXTENDS Integers, FiniteSets

CONSTANTS
  Repos, Files,    \* offices; a desk of each for every file
  None,
  Late,            \* a click may come between a fetched office and its frame
  Grip,            \* the grip of the side panel is used
  MaxTimers        \* bound: info timers

PanelAssumption == Late \in BOOLEAN /\ Grip \in BOOLEAN /\ MaxTimers \in Nat /\ None \notin Repos \cup Files

VARIABLES
  view, world, drawn,    \* "map" or "local"; the office of the game; of the renderer
  menu, preview,         \* [desk, repo] or NoDesk
  board,                 \* of the office of a repository, or None
  git, gitBody, asked,   \* the file in the header; in the body; the fetches
  info, timers,          \* the desk shown; the timers that will hide it
  arming, armed,         \* panels whose "click outside" is about to be, is, listened for
  held, isResizing,      \* a button is down; the grip is
  did

panels == <<menu, preview, board, git, gitBody, asked, info, timers, arming, armed>>
mouse == <<held, isResizing>>
vars == <<view, world, drawn, panels, mouse, did>>

Desks == Repos \X Files            \* a desk of the office it is in
NoDesk == [desk |-> <<None, None>>, repo |-> None]
nothing == [kind |-> "nothing", desk |-> <<None, None>>, repo |-> None, walks |-> None]
Closable == {"menu", "board", "git"}

TypeOK ==
  /\ view \in {"map", "local"} /\ world \in Repos \cup {None} /\ drawn \in Repos \cup {None}
  /\ (menu # NoDesk => menu.desk \in Desks) /\ arming \subseteq Closable /\ armed \subseteq Closable
  /\ timers \in 0 .. MaxTimers /\ ~(menu # NoDesk /\ preview # NoDesk)

Init ==
  /\ view = "map" /\ world = None /\ drawn = None
  /\ menu = NoDesk /\ preview = NoDesk /\ board = None
  /\ git = None /\ gitBody = None /\ asked = {}
  /\ info = NoDesk /\ timers = 0 /\ arming = {} /\ armed = {}
  /\ held = FALSE /\ isResizing = FALSE /\ did = nothing

Shown(p) == CASE p = "menu" -> menu # NoDesk [] p = "board" -> board # None [] p = "git" -> git # None

---------------------------------------------------------------------------
(* Clicks on the canvas. LocalRenderer stops every mousedown and mouseup of *)
(* the canvas, on the map too once it exists: no panel hears of them.       *)

showLocalContextMenu(d, r) ==
  /\ menu' = [desk |-> d, repo |-> r] /\ preview' = NoDesk /\ arming' = arming \cup {"menu"}

TheOffice == drawn # None /\ view = "local" /\ ~held /\ (Late \/ drawn = world)

(* The desk is of the office that is drawn, the repository the game's.      *)
ClickDesk(f) ==
  /\ TheOffice /\ showLocalContextMenu(<<drawn, f>>, world) /\ did' = nothing
  /\ UNCHANGED <<view, world, drawn, mouse, board, git, gitBody, asked, info, timers, armed>>

showWhiteboardPanel ==
  /\ TheOffice /\ board' = world /\ arming' = arming \cup {"board"} /\ did' = nothing
  /\ UNCHANGED <<view, world, drawn, mouse, menu, preview, git, gitBody, asked, info, timers, armed>>

(* What a canvas click that opens nothing does to the panels. *)
ClickCanvas ==
  /\ ~held /\ drawn # None /\ did' = [nothing EXCEPT !.kind = "outside"]
  /\ UNCHANGED <<view, world, drawn, mouse, panels>>

---------------------------------------------------------------------------

(* Clicks on the page, on a panel or elsewhere: the closers that listen and *)
(* are not of the panel hide theirs, and are removed.                       *)

close(inside) ==
  /\ board' = (IF "board" \in armed \ inside THEN None ELSE board)
  /\ git' = (IF "git" \in armed \ inside THEN None ELSE git)
  /\ armed' = armed \cap inside

ClickPage ==
  /\ ~held /\ close({}) /\ menu' = (IF "menu" \in armed THEN NoDesk ELSE menu)
  /\ did' = [nothing EXCEPT !.kind = "outside"]
  /\ UNCHANGED <<view, world, drawn, mouse, preview, gitBody, asked, info, timers, arming>>

(* An item of the menu: an agent to send, the git of the file, its info.    *)
MenuSend ==
  /\ menu # NoDesk /\ ~held /\ close({"menu"}) /\ menu' = NoDesk
  /\ preview' = menu /\ did' = nothing
  /\ UNCHANGED <<view, world, drawn, mouse, gitBody, asked, info, timers, arming>>

(* showGitForFile: one panel for every file, and a fetch for each time.     *)
showGitForFile ==
  /\ menu # NoDesk /\ ~held /\ menu' = NoDesk
  /\ git' = menu.desk /\ gitBody' = None /\ asked' = asked \cup {menu.desk}
  /\ board' = (IF "board" \in armed THEN None ELSE board) /\ armed' = armed \cap {"menu"}
  /\ did' = nothing /\ UNCHANGED <<view, world, drawn, mouse, preview, info, timers, arming>>

(* showLocalWorkbenchTooltip, and a timer of three seconds for each time.   *)
MenuInfo ==
  /\ menu # NoDesk /\ ~held /\ timers < MaxTimers /\ close({"menu"}) /\ menu' = NoDesk
  /\ info' = menu /\ timers' = timers + 1 /\ did' = nothing
  /\ UNCHANGED <<view, world, drawn, mouse, preview, gitBody, asked, arming>>
InfoTimer ==
  /\ timers > 0 /\ timers' = timers - 1 /\ info' = NoDesk /\ did' = nothing
  /\ UNCHANGED <<view, world, drawn, mouse, menu, preview, board, git, gitBody, asked, arming, armed>>

(* showLocalMissionPreview: confirmed, the agent walks in the office of the *)
(* game, and the command goes to the repository the menu was opened in.     *)
Confirm ==
  /\ preview # NoDesk /\ ~held /\ close({}) /\ preview' = NoDesk
  /\ menu' = (IF "menu" \in armed THEN NoDesk ELSE menu)
  /\ did' = [kind |-> "mission", desk |-> preview.desk, repo |-> preview.repo, walks |-> world]
  /\ UNCHANGED <<view, world, drawn, mouse, gitBody, asked, info, timers, arming>>
Cancel ==
  /\ preview # NoDesk /\ ~held /\ close({}) /\ preview' = NoDesk
  /\ menu' = (IF "menu" \in armed THEN NoDesk ELSE menu) /\ did' = nothing
  /\ UNCHANGED <<view, world, drawn, mouse, gitBody, asked, info, timers, arming>>

(* The panel stays: its folder is opened, or its text is read.              *)
ClickInside(p) ==
  /\ p \in {"board", "git"} /\ Shown(p) /\ ~held /\ close({p})
  /\ menu' = (IF "menu" \in armed THEN NoDesk ELSE menu) /\ did' = nothing
  /\ UNCHANGED <<view, world, drawn, mouse, preview, gitBody, asked, info, timers, arming>>

(* A folder of the whiteboard: the panel goes, the camera does.             *)
Navigate ==
  /\ board # None /\ ~held /\ board' = None
  /\ git' = (IF "git" \in armed THEN None ELSE git)
  /\ menu' = (IF "menu" \in armed THEN NoDesk ELSE menu)
  /\ armed' = armed \cap {"board"} /\ did' = nothing
  /\ UNCHANGED <<view, world, drawn, mouse, preview, gitBody, asked, info, timers, arming>>

---------------------------------------------------------------------------
(* What comes later. *)

(* The answer, or the failure, of a fetch fills the body of the panel; only *)
(* then is a click outside listened for.                                    *)
GitAnswer(d) ==
  /\ d \in asked /\ asked' = asked \ {d} /\ gitBody' = d
  /\ arming' = arming \cup {"git"} /\ did' = nothing
  /\ UNCHANGED <<view, world, drawn, mouse, menu, preview, board, git, info, timers, armed>>
Arm(p) ==
  /\ p \in arming /\ arming' = arming \ {p} /\ armed' = armed \cup {p} /\ did' = nothing
  /\ UNCHANGED <<view, world, drawn, mouse, menu, preview, board, git, gitBody, asked, info, timers>>

(* The office is left with whatever is open; another is fetched and drawn.  *)
enterLocalView(r) ==
  /\ view = "map" /\ view' = "local" /\ world' = r /\ did' = nothing /\ UNCHANGED <<drawn, panels, mouse>>
Frame ==
  /\ view = "local" /\ drawn' = world /\ did' = nothing /\ UNCHANGED <<view, world, panels, mouse>>
enterMacroView ==
  /\ view = "local" /\ view' = "map" /\ did' = nothing /\ UNCHANGED <<world, drawn, panels, mouse>>

(* The grip of the side panel; the canvas keeps the release from it.        *)
GripDown ==
  /\ Grip /\ ~held /\ held' = TRUE /\ isResizing' = TRUE /\ close({})
  /\ menu' = (IF "menu" \in armed THEN NoDesk ELSE menu) /\ did' = nothing
  /\ UNCHANGED <<view, world, drawn, preview, gitBody, asked, info, timers, arming>>
Release(onCanvas) ==
  /\ held /\ held' = FALSE /\ isResizing' = (onCanvas /\ drawn # None /\ isResizing) /\ did' = nothing
  /\ UNCHANGED <<view, world, drawn, panels>>
MouseMove ==
  /\ isResizing /\ did' = [nothing EXCEPT !.kind = "resize"] /\ UNCHANGED <<view, world, drawn, panels, mouse>>

Next ==
  \/ \E f \in Files : ClickDesk(f)
  \/ showWhiteboardPanel \/ ClickCanvas \/ ClickPage
  \/ MenuSend \/ showGitForFile \/ MenuInfo \/ InfoTimer \/ Confirm \/ Cancel \/ Navigate
  \/ \E d \in Desks : GitAnswer(d)
  \/ \E p \in Closable : Arm(p) \/ ClickInside(p)
  \/ \E r \in Repos : enterLocalView(r)
  \/ Frame \/ enterMacroView
  \/ GripDown \/ MouseMove \/ \E c \in BOOLEAN : Release(c)
Spec == Init /\ [][Next]_vars

---------------------------------------------------------------------------
(* "Close on click outside": what is shown will be closed by a click on the *)
(* page, now, or once its timer or its answer has come.                     *)
Closes ==
  \A p \in Closable : Shown(p) => p \in arming \cup armed \/ (p = "git" /\ git \in asked)

(* main.ts:1147, "with full repo context": a mission is on a file of the    *)
(* repository its command names.                                            *)
MissionInItsRepo == did'.kind = "mission" => did'.desk[1] = did'.repo

---------------------------------------------------------------------------
(* What a document, a comment or a test says and this code does not keep    *)
(* (README, "Where the code differs").                                      *)

(* localSpatialPreview.ts, "Close on click outside".                        *)
ClickOutsideCloses ==
  [][did'.kind = "outside" => \A p \in armed : p = "menu" => menu' = NoDesk]_vars

(* "Git panel for a single file": what it shows is of the file it names.    *)
GitOfTheFile == git # None /\ gitBody # None => gitBody = git

(* main.ts:1145, "Animate the unit walking to the workbench locally".       *)
WalksWhereItWorks == [][did'.kind = "mission" => did'.walks = did'.repo]_vars

(* main.ts:454, "resize handle for dragging": it is dragged while held.     *)
ResizesWhileHeld == [][did'.kind = "resize" => held]_vars
=============================================================================
