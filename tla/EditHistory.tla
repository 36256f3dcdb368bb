---------------------------- MODULE EditHistory ----------------------------
(***************************************************************************)
(* The undo and redo stacks of the map editor with grouped strokes         *)
(* (src/mapEditHistory.ts), over the terrain the brush paints              *)
(* (src/renderer.ts paintTerrainAt, src/map.ts paintHexOp, undoPaintHex).  *)
(***************************************************************************)
EXTENDS Integers, Sequences, SequencesExt

CONSTANTS
  Hexes, Colours,
  Limit,       \* LIMIT: steps kept
  Keyboard,    \* Ctrl+Z and Ctrl+Y are pressed while a stroke is open
  MaxStrokes   \* bound: strokes

HistoryAssumption ==
  /\ Limit \in Nat \ {0} /\ Keyboard \in BOOLEAN /\ MaxStrokes \in Nat

VARIABLES
  terrain,
  undoStack, redoStack,   \* steps: the hexes painted, with the colour before and after
  groups,                 \* the entries of the open groups, outermost first
  brush,                  \* the colour of the stroke
  strokes,
  base, shown             \* what the oldest step kept was made on; after each redoable step

vars == <<terrain, undoStack, redoStack, groups, brush, strokes, base, shown>>

Undone(entry, t) == [t EXCEPT ![entry.hex] = entry.was]
Redone(entry, t) == [t EXCEPT ![entry.hex] = entry.now]

(* A composite undoes its entries from the last to the first.               *)
undoAll(step, t) == FoldRight(LAMBDA e, acc : Undone(e, acc), step, t)
redoAll(step, t) == FoldLeft(LAMBDA acc, e : Redone(e, acc), t, step)

(* An entry done again undoes to what it found this time.                   *)
refreshed(step, t) ==
  [i \in DOMAIN step |-> [step[i] EXCEPT !.was = redoAll(SubSeq(step, 1, i - 1), t)[step[i].hex]]]

Init ==
  /\ terrain \in [Hexes -> Colours]
  /\ undoStack = <<>> /\ redoStack = <<>> /\ groups = <<>>
  /\ brush \in Colours /\ strokes = 0
  /\ base = terrain /\ shown = <<>>

NotMidStroke == groups = <<>> \/ Keyboard

appendToUndo(step) ==
  LET over == Len(undoStack) = Limit
      kept == IF over THEN Tail(undoStack) ELSE undoStack
  IN  /\ undoStack' = Append(kept, step)
      /\ base' = IF over THEN redoAll(undoStack[1], base) ELSE base

beginMapEditGroup(c) ==
  /\ strokes < MaxStrokes /\ groups = <<>>
  /\ groups' = Append(groups, <<>>)
  /\ brush' = c /\ strokes' = strokes + 1
  /\ UNCHANGED <<terrain, undoStack, redoStack, base, shown>>

(* The brush leaves a hex that already shows its colour.                    *)
pushMapEdit(h) ==
  /\ terrain[h] # brush
  /\ groups # <<>>
  /\ terrain' = [terrain EXCEPT ![h] = brush]
  /\ LET n == Len(groups)
     IN  groups' = [groups EXCEPT ![n] = Append(@, [hex |-> h, was |-> terrain[h], now |-> brush])]
  /\ redoStack' = <<>> /\ shown' = <<>>
  /\ UNCHANGED <<undoStack, brush, strokes, base>>

endMapEditGroup ==
  /\ groups # <<>>
  /\ LET entries == groups[Len(groups)]
     IN  IF entries = <<>> THEN UNCHANGED <<undoStack, redoStack, base, shown>>
         ELSE appendToUndo(entries) /\ redoStack' = <<>> /\ shown' = <<>>
  /\ groups' = SubSeq(groups, 1, Len(groups) - 1)
  /\ UNCHANGED <<terrain, brush, strokes>>

undoMapEdit ==
  /\ undoStack # <<>> /\ NotMidStroke
  /\ LET step == undoStack[Len(undoStack)]
     IN  /\ terrain' = undoAll(step, terrain)
         /\ redoStack' = Append(redoStack, step)
         /\ shown' = Append(shown, terrain)
  /\ undoStack' = SubSeq(undoStack, 1, Len(undoStack) - 1)
  /\ UNCHANGED <<groups, brush, strokes, base>>

redoMapEdit ==
  /\ redoStack # <<>> /\ NotMidStroke
  /\ LET n == Len(redoStack)
         step == redoStack[n]
     IN  /\ terrain' = redoAll(step, terrain)
         /\ undoStack' = Append(undoStack, refreshed(step, terrain))
         /\ redoStack' = SubSeq(redoStack, 1, n - 1)
         /\ shown' = SubSeq(shown, 1, n - 1)
  /\ UNCHANGED <<groups, brush, strokes, base>>

Next ==
  \/ \E c \in Colours : beginMapEditGroup(c)
  \/ \E h \in Hexes : pushMapEdit(h)
  \/ endMapEditGroup \/ undoMapEdit \/ redoMapEdit

Spec == Init /\ [][Next]_vars

(***************************************************************************)
(* Properties.                                                             *)
(***************************************************************************)

TypeOK ==
  /\ terrain \in [Hexes -> Colours] /\ Len(undoStack) <= Limit
  /\ Len(redoStack) = Len(shown) /\ Len(groups) <= 1

(* Undoing what is kept leads back to what was there before it, a stroke    *)
(* over its own hexes included: "Each one puts back exactly what its        *)
(* operation changed" (map.ts:1378).                                        *)
UndoesToTheBase ==
  groups = <<>> => FoldRight(LAMBDA step, t : undoAll(step, t), undoStack, terrain) = base

(* A redo shows what was there before its undo.                             *)
RedoesWhatWasUndone ==
  redoStack # <<>> => redoAll(redoStack[Len(redoStack)], terrain) = shown[Len(shown)]
=============================================================================
