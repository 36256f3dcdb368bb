----------------------------- MODULE HudWindows -----------------------------
(***************************************************************************)
(* The movable windows of the page (src/ui/hudWindow.ts): where a window   *)
(* opens, how it is dragged, resized, reset and remembered, and the frame  *)
(* that moves the windows apart when one opens or changes its size; and    *)
(* the unit card that docks in the side panel (src/ui/unitPanelDock.ts).   *)
(* Lengths are in units of the gap that the code keeps around a window.    *)
(***************************************************************************)
EXTENDS Integers, FiniteSets, SequencesExt

CONSTANTS
  Order,      \* the windows, as the document has them
  Unit, Side, \* the unit card, and the panel it docks in
  natural,    \* where the style sheet puts a window, and the size of its content
  tall,       \* the height of the unit card when its text grows
  Gacetas,    \* the rectangles of the gazette: folded, expanded
  Viewports,  \* sizes of the browser window
  minimum,    \* minWidth, minHeight
  Offsets,    \* how far a pointer goes
  MaxActs,    \* things the user does
  None

VIEWPORT_GAP == 1
Windows == ToSet(Order)

WindowAssumption ==
  /\ {Unit, Side} \subseteq Windows
  /\ MaxActs \in Nat
  /\ \A v \in Viewports : v.width > 2 * VIEWPORT_GAP /\ v.height > 2 * VIEWPORT_GAP

VARIABLES
  viewport, gaceta,
  open, docked,    \* the windows displayed; the unit card is in the side panel
  content,         \* the height of the unit card's text
  style, custom,   \* the rectangle of a window's inline style; hud-window--customized
  saved,           \* localStorage
  visible,         \* binding.visible: displayed at the last frame
  held,            \* the pointer's interaction: window, mode, where it began
  frame, reflow,   \* a frame is requested; it arranges every window
  sizes,           \* what the size observer has seen
  calm, acts       \* history: frames since something else happened; what the user did

page == <<viewport, gaceta, open, docked, content>>
vars == <<page, style, custom, saved, visible, held, frame, reflow, sizes, calm, acts>>

clamp(x, lo, hi) == IF x < lo THEN lo ELSE IF x > hi THEN hi ELSE x
least(a, b) == IF a < b THEN a ELSE b
most(a, b) == IF a > b THEN a ELSE b

(* A window within the screen, first its size and then its place.           *)
clampHudWindowGeometry(g) ==
  LET maxWidth == most(1, viewport.width - 2 * VIEWPORT_GAP)
      maxHeight == most(1, viewport.height - 2 * VIEWPORT_GAP)
      w == clamp(g.width, least(minimum.width, maxWidth), maxWidth)
      h == clamp(g.height, least(minimum.height, maxHeight), maxHeight)
  IN  [left |-> clamp(g.left, VIEWPORT_GAP, most(VIEWPORT_GAP, viewport.width - w - VIEWPORT_GAP)),
       top |-> clamp(g.top, VIEWPORT_GAP, most(VIEWPORT_GAP, viewport.height - h - VIEWPORT_GAP)),
       width |-> w, height |-> h]

(* Two windows with less than the gap between them.                         *)
Collide(a, b) ==
  /\ a.left < b.left + b.width + VIEWPORT_GAP /\ b.left < a.left + a.width + VIEWPORT_GAP
  /\ a.top < b.top + b.height + VIEWPORT_GAP /\ b.top < a.top + a.height + VIEWPORT_GAP

Free(g, obstacles) == \A r \in obstacles : ~Collide(g, r)

Far(a, b) == (a.left - b.left) * (a.left - b.left) + (a.top - b.top) * (a.top - b.top)

(* The nearest of the free places at the edges of what is there; if there   *)
(* is none, where it is.                                                    *)
placeHudWindow(preferred, obstacles) ==
  LET base == clampHudWindowGeometry(preferred)
      xs == {base.left, VIEWPORT_GAP, viewport.width - base.width - VIEWPORT_GAP}
              \cup UNION {{r.left + r.width + VIEWPORT_GAP, r.left - base.width - VIEWPORT_GAP} : r \in obstacles}
      ys == {base.top, VIEWPORT_GAP, viewport.height - base.height - VIEWPORT_GAP}
              \cup UNION {{r.top + r.height + VIEWPORT_GAP, r.top - base.height - VIEWPORT_GAP} : r \in obstacles}
      candidates == {g \in {clampHudWindowGeometry([base EXCEPT !.left = x, !.top = y]) : x \in xs, y \in ys} :
                       Free(g, obstacles)}
  IN  IF candidates = {} THEN base
      ELSE CHOOSE g \in candidates : \A o \in candidates : Far(g, base) <= Far(o, base)

---------------------------------------------------------------------------
(* What is on the screen.  A window that was placed keeps the height of its *)
(* content, up to the screen's, unless the user sized it.                   *)

Text(w) == IF w = Unit THEN content ELSE natural[w].height

Rect(w, s, c) ==
  IF s[w] = None THEN [natural[w] EXCEPT !.height = Text(w)]
  ELSE IF c[w] THEN s[w]
  ELSE [s[w] EXCEPT !.height = least(Text(w), viewport.height - 2 * VIEWPORT_GAP)]

(* The docked card fills a slot of the side panel.                          *)
Slot(s, c) == [Rect(Side, s, c) EXCEPT !.height = Text(Unit)]

getPanelGeometry(w) == IF w = Unit /\ docked THEN Slot(style, custom) ELSE Rect(w, style, custom)

floating == {w \in open : ~(w = Unit /\ docked)}

readLayout(w) == saved[w]

applyLayout(w, g) ==
  /\ style' = IF w = Unit /\ docked THEN style ELSE [style EXCEPT ![w] = g]
  /\ custom' = [custom EXCEPT ![w] = TRUE]

saveLayout(w, g) == saved' = [saved EXCEPT ![w] = g]

(* Any change of a class or a style asks for a frame.                       *)
Mutated == frame' = TRUE /\ calm' = 0

---------------------------------------------------------------------------
(* The frame.                                                               *)

Obstacles(w, s) == {gaceta} \cup {Rect(o, s, custom) : o \in floating \ {w}}

preferred(w, s) ==
  IF w = Unit /\ readLayout(w) = None
  THEN [Rect(w, s, custom) EXCEPT !.left = gaceta.left + gaceta.width + VIEWPORT_GAP, !.top = gaceta.top]
  ELSE Rect(w, s, custom)

Arranged(w) == w \in floating /\ (w \notin visible \/ reflow) /\ (held = None \/ held.panel # w)

arrange ==
  FoldLeft(LAMBDA s, w : IF Arranged(w) THEN [s EXCEPT ![w] = placeHudWindow(preferred(w, s), Obstacles(w, s))] ELSE s,
           style, Order)

Size(r) == [width |-> r.width, height |-> r.height]
Hidden == [width |-> 0, height |-> 0]
Shown(w, s) == IF w \notin open THEN Hidden
               ELSE IF w = Unit /\ docked THEN Size(Slot(s, custom)) ELSE Size(Rect(w, s, custom))

(* The observer hears of a window first when it is displayed.               *)
Unseen(s) == {w \in Windows : Shown(w, s) # sizes[w] /\ (sizes[w] = None => w \in open)}

(* Frame callbacks run, then the size observer; it remembers also the       *)
(* gazette, whose change asks for the frame at once here.                   *)
Frame ==
  /\ frame \/ Unseen(style) # {}
  /\ LET s == IF frame THEN arrange ELSE style
         changed == {w \in Unseen(s) : sizes[w] # None} # {}
     IN  /\ style' = s
         /\ sizes' = [w \in Windows |-> IF w \in Unseen(s) THEN Shown(w, s) ELSE sizes[w]]
         /\ frame' = (s # style \/ changed)
         /\ reflow' = (changed \/ (reflow /\ ~frame))
  /\ visible' = IF frame THEN open ELSE visible
  /\ calm' = least(calm + 1, 4)
  /\ UNCHANGED <<page, custom, saved, held, acts>>

---------------------------------------------------------------------------
(* The pointer and the keys.  Between two frames the pointer may move and   *)
(* come up; anything else finds the frames of what came before it done.     *)

Settled == ~frame /\ Unseen(style) = {}
Act == acts < MaxActs /\ acts' = acts + 1

moved(g, mode, o) ==
  IF mode = "move" THEN [g EXCEPT !.left = @ + o.x, !.top = @ + o.y]
  ELSE [g EXCEPT !.width = @ + o.x, !.height = @ + o.y]

(* A docked window is laid out by its host.                                *)
startPointerInteraction(w, mode) ==
  /\ Act /\ Settled /\ held = None /\ w \in floating
  /\ held' = [panel |-> w, mode |-> mode, initial |-> getPanelGeometry(w)]
  /\ Mutated
  /\ UNCHANGED <<page, style, custom, saved, visible, reflow, sizes>>

onMove(o) ==
  /\ held # None
  /\ applyLayout(held.panel, clampHudWindowGeometry(moved(held.initial, held.mode, o)))
  /\ Mutated
  /\ UNCHANGED <<page, saved, visible, held, reflow, sizes, acts>>

persistCurrentLayout(w) ==
  IF w \in open
  THEN LET g == clampHudWindowGeometry(getPanelGeometry(w)) IN applyLayout(w, g) /\ saveLayout(w, g)
  ELSE UNCHANGED <<style, custom, saved>>

onEnd ==
  /\ held # None
  /\ persistCurrentLayout(held.panel)
  /\ held' = None
  /\ Mutated
  /\ UNCHANGED <<page, visible, reflow, sizes, acts>>

KeyResize(w, o) ==
  /\ Act /\ Settled /\ held = None /\ w \in floating
  /\ LET g == clampHudWindowGeometry(moved(getPanelGeometry(w), "resize", o))
     IN  applyLayout(w, g) /\ saveLayout(w, g)
  /\ Mutated
  /\ UNCHANGED <<page, visible, held, reflow, sizes>>

(* To the next frame it is a window that opens.                             *)
resetLayout(w) ==
  /\ Act /\ Settled /\ held = None /\ w \in floating
  /\ style' = [style EXCEPT ![w] = None]
  /\ custom' = [custom EXCEPT ![w] = FALSE]
  /\ saved' = [saved EXCEPT ![w] = None]
  /\ visible' = visible \ {w}
  /\ Mutated
  /\ UNCHANGED <<page, held, reflow, sizes>>

---------------------------------------------------------------------------
(* What happens to the page.                                                *)

(* The card docks when it and the panel are shown, and leaves the panel     *)
(* with the style it came with.                                             *)
syncUnitPanelDock == docked' = (Side \in open' /\ (docked \/ Unit \in open'))

Toggle(some) ==
  /\ Act /\ Settled
  /\ open' = (open \ some) \cup (some \ open)
  /\ syncUnitPanelDock
  /\ Mutated
  /\ UNCHANGED <<viewport, gaceta, content, style, custom, saved, visible, held, reflow, sizes>>

ContentChanges ==
  /\ Act /\ Settled
  /\ content' \in {natural[Unit].height, tall} \ {content}
  /\ calm' = 0
  /\ UNCHANGED <<viewport, gaceta, open, docked, style, custom, saved, visible, held, frame, reflow, sizes>>

\* Slip of constrainWindows: the frame arranges only the windows that open.
ArrangesNewOnes ==
  /\ Act /\ Settled
  /\ viewport' \in Viewports \ {viewport}
  /\ Mutated
  /\ UNCHANGED <<gaceta, open, docked, content, style, custom, saved, visible, held, reflow, sizes>>

constrainWindows ==
  /\ Act /\ Settled
  /\ viewport' \in Viewports \ {viewport}
  /\ reflow' = TRUE /\ Mutated
  /\ UNCHANGED <<gaceta, open, docked, content, style, custom, saved, visible, held, sizes>>

GacetaToggles ==
  /\ Act /\ Settled
  /\ gaceta' \in Gacetas \ {gaceta}
  /\ reflow' = TRUE /\ Mutated
  /\ UNCHANGED <<viewport, open, docked, content, style, custom, saved, visible, held, sizes>>

(* A load of the page: a window takes its saved layout when it is mounted.  *)
mountHudWindow(w) == IF readLayout(w) = None THEN None ELSE clampHudWindowGeometry(readLayout(w))

initHudWindows ==
  /\ Act
  /\ style' = [w \in Windows |-> mountHudWindow(w)]
  /\ custom' = [w \in Windows |-> readLayout(w) # None]
  /\ open' = {} /\ docked' = FALSE /\ visible' = {} /\ held' = None
  /\ frame' = TRUE /\ reflow' = FALSE /\ calm' = 0
  /\ sizes' = [w \in Windows |-> None]
  /\ UNCHANGED <<viewport, gaceta, content, saved>>

Init ==
  /\ viewport \in Viewports /\ gaceta \in Gacetas
  /\ open = {} /\ docked = FALSE /\ content = natural[Unit].height
  /\ style = [w \in Windows |-> None] /\ custom = [w \in Windows |-> FALSE]
  /\ saved = [w \in Windows |-> None] /\ visible = {} /\ held = None
  /\ frame = TRUE /\ reflow = FALSE /\ sizes = [w \in Windows |-> None] /\ calm = 0 /\ acts = 0

Next ==
  \/ Frame
  \/ \E w \in Windows, m \in {"move", "resize"} : startPointerInteraction(w, m)
  \/ \E o \in Offsets : onMove(o)
  \/ onEnd
  \/ \E w \in Windows, o \in Offsets : KeyResize(w, o)
  \/ \E w \in Windows : resetLayout(w)
  \/ \E some \in SUBSET Windows \ {{}} : Toggle(some)
  \/ ContentChanges \/ constrainWindows \/ GacetaToggles \/ initHudWindows

Spec == Init /\ [][Next]_vars

(***************************************************************************)
(* Properties.                                                             *)
(***************************************************************************)

TypeOK ==
  /\ viewport \in Viewports /\ gaceta \in Gacetas
  /\ open \subseteq Windows /\ visible \subseteq Windows
  /\ {docked, frame, reflow} \subseteq BOOLEAN
  /\ custom \in [Windows -> BOOLEAN]
  /\ \A f \in {style, saved, sizes} : DOMAIN f = Windows
  /\ held = None \/ held.panel \in Windows
  /\ calm \in 0..4 /\ acts \in 0..MaxActs

Inside(g) ==
  /\ g.left >= VIEWPORT_GAP /\ g.left + g.width <= viewport.width - VIEWPORT_GAP
  /\ g.top >= VIEWPORT_GAP /\ g.top + g.height <= viewport.height - VIEWPORT_GAP

(* Once the frames have settled every window is on the screen, whatever was *)
(* dragged, docked, grown, remembered from a larger screen or reset, and    *)
(* they settle at once: an arrangement is not chased by the next one.       *)
OnScreen ==
  /\ docked => Side \in open
  /\ Settled => \A w \in floating : (held = None \/ held.panel # w) => Inside(getPanelGeometry(w))
  /\ ~Settled => calm <= 3

(* "Edge candidates cover every free rectangle for a window of this size":  *)
(* the last window that a frame places covers no other and no place on the  *)
(* screen that covers none is nearer to the one preferred, if there is one. *)
Places(g) == {[g EXCEPT !.left = x, !.top = y] :
                x \in VIEWPORT_GAP..(viewport.width - g.width - VIEWPORT_GAP),
                y \in VIEWPORT_GAP..(viewport.height - g.height - VIEWPORT_GAP)}
LastArranged == SelectLastInSeq(Order, Arranged)
TakesTheNearest ==
  frame /\ calm' = calm + 1 /\ LastArranged > 0 =>
    LET w == Order[LastArranged]
        base == clampHudWindowGeometry(preferred(w, style))
        free == {g \in Places(base) : Free(g, Obstacles(w, style'))}
    IN  IF free = {} THEN style'[w] = base
        ELSE /\ Free(style'[w], Obstacles(w, style'))
             /\ \A g \in free : Far(style'[w], base) <= Far(g, base)

---------------------------------------------------------------------------
(* What a document, a comment or a test says and this code does not keep    *)
(* (README, "Where the code differs").                                      *)

(* A docked card's header "must not start a drag nor persist that slot as   *)
(* the floating position" (hudWindow.ts:24).                                *)
DockedNeverSaved == [][docked /\ docked' => saved'[Unit] = saved[Unit]]_vars
=============================================================================
