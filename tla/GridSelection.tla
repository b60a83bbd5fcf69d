---------------------------- MODULE GridSelection ---------------------------
(***************************************************************************)
(* Selecting cells and rows of the review table: the multi-selection by    *)
(* click and drag (review-grid.tsx), its mode and its confirmation         *)
(* (result-table.tsx), and the rows marked by their checkboxes for         *)
(* removal.  The handlers read the mode and the selection from refs, which *)
(* every render sets; mouse events, clicks and the answers of the server   *)
(* come in any order.  Which cells are open and when an answer was given   *)
(* is ReviewSession's: here an answer may be of any moment, and whether it *)
(* changes the number of open cells is left open.                          *)
(***************************************************************************)
EXTENDS Integers, FiniteSets

CONSTANTS
    Rows, Columns,   \* 1..n, in displayed order
    NoDrag, NoRow

GridAssumption ==
    /\ Rows \subseteq Int /\ Columns \subseteq Int
    /\ NoRow \notin Rows

Cells == Rows \X Columns

VARIABLES
    present,         \* the rows of the result
    selectionMode,
    selectedCells,   \* the multi-selection
    drag,            \* NoDrag, or its anchor, the selection before it, and whether
                     \* the pointer has moved
    buttonDown,
    checked,         \* rows whose checkbox is set
    focusedRow,
    requested,       \* rows that were asked to be taken out
    seen             \* bookkeeping: the rows on the grid when a drag last moved

vars == <<present, selectionMode, selectedCells, drag, buttonDown, checked, focusedRow,
          requested, seen>>

Drag == [anchor : Cells, base : SUBSET Cells, dragged : BOOLEAN]

Init ==
    /\ present = Rows
    /\ selectionMode = FALSE
    /\ selectedCells = {}
    /\ drag = NoDrag
    /\ buttonDown = FALSE
    /\ checked = {}
    /\ focusedRow = NoRow
    /\ requested = {}
    /\ seen = Rows

-----------------------------------------------------------------------------
(* The mouse.                                                              *)

Between(x, y) == IF x <= y THEN x..y ELSE y..x

\* rectangleKeys: the displayed cells between two corners, in any direction
rectangleKeys(a, b) ==
    IF a[1] \in present /\ b[1] \in present
    THEN (Between(a[1], b[1]) \X Between(a[2], b[2])) \cap (present \X Columns)
    ELSE {}

\* a mouse button goes down on a cell of the grid
onGridMouseDown(c) ==
    /\ ~buttonDown /\ c[1] \in present
    /\ buttonDown' = TRUE
    /\ drag' = IF selectionMode
               THEN [anchor |-> c, base |-> selectedCells, dragged |-> FALSE] ELSE drag
    /\ focusedRow' = c[1]
    /\ UNCHANGED <<present, selectionMode, selectedCells, checked, requested, seen>>

\* the pointer comes to another cell with the button held
onGridMouseOver(c) ==
    /\ buttonDown /\ c[1] \in present
    /\ selectionMode /\ drag # NoDrag
    /\ drag' = [drag EXCEPT !.dragged = TRUE]
    /\ selectedCells' = drag.base \cup rectangleKeys(drag.anchor, c)
    /\ seen' = present
    /\ UNCHANGED <<present, selectionMode, buttonDown, checked, focusedRow, requested>>

Toggle(c, set) == IF c \in set THEN set \ {c} ELSE set \cup {c}

\* the button comes up anywhere: a press that never moved toggles its cell
onUp ==
    /\ buttonDown
    /\ buttonDown' = FALSE
    /\ drag' = NoDrag
    /\ selectedCells' = IF drag # NoDrag /\ selectionMode /\ ~drag.dragged
                        THEN Toggle(drag.anchor, selectedCells) ELSE selectedCells
    /\ UNCHANGED <<present, selectionMode, checked, focusedRow, requested, seen>>

-----------------------------------------------------------------------------
(* The toolbar.                                                            *)

\* "Mehrfachauswahl", with the mouse or with the keyboard on the button
toggleSelectionMode ==
    /\ selectionMode' = ~selectionMode
    /\ selectedCells' = IF selectionMode THEN {} ELSE selectedCells
    /\ UNCHANGED <<present, drag, buttonDown, checked, focusedRow, requested, seen>>

\* "Auswahl uebernehmen": confirms what is selected (ReviewSession) and ends the selection
acceptSelected ==
    /\ selectionMode /\ selectedCells # {}
    /\ selectedCells' = {}
    /\ UNCHANGED <<present, selectionMode, drag, buttonDown, checked, focusedRow, requested, seen>>

\* the checkbox column and its header
Check(rows) ==
    /\ ~buttonDown
    /\ rows \subseteq present
    /\ checked' = rows
    /\ UNCHANGED <<present, selectionMode, selectedCells, drag, buttonDown, focusedRow, requested,
                   seen>>

\* the checked rows, or the focused one when none is checked
RowsToDelete == IF checked # {} THEN checked ELSE {focusedRow} \cap present

\* deleteSelectedRows and the Delete key, confirmed; the key does not wait for the
\* answer to an earlier request
deleteSelectedRows ==
    /\ RowsToDelete # {}
    /\ requested' = requested \cup RowsToDelete
    /\ UNCHANGED <<present, selectionMode, selectedCells, drag, buttonDown, checked, focusedRow,
                   seen>>

-----------------------------------------------------------------------------
\* VARIANT of ResultArrives: the mode ends and the selection stays.
ResultArrivesKeeping ==
    \E out \in SUBSET requested :
        /\ present' = Rows \ out
        /\ checked' = checked \ out
        /\ selectionMode' \in {selectionMode, FALSE}
        /\ UNCHANGED <<selectedCells, drag, buttonDown, focusedRow, requested, seen>>

\* The answer to a save or an exclusion is the result of some moment: some of the rows
\* asked for are out, with the checkboxes the grid keeps per row, others may be back.
\* The effect on [job_id, totalOpen] resets mode and selection when the number of open
\* cells is another.
ResultArrives ==
    \E out \in SUBSET requested :
        /\ present' = Rows \ out
        /\ checked' = checked \ out
        /\ \/ selectionMode' = FALSE /\ selectedCells' = {}
           \/ UNCHANGED <<selectionMode, selectedCells>>
        /\ UNCHANGED <<drag, buttonDown, focusedRow, requested, seen>>

Next ==
    \/ \E c \in Cells : onGridMouseDown(c) \/ onGridMouseOver(c)
    \/ onUp
    \/ toggleSelectionMode \/ acceptSelected
    \/ \E rows \in SUBSET Rows : Check(rows)
    \/ deleteSelectedRows
    \/ ResultArrives

Spec == Init /\ [][Next]_vars

-----------------------------------------------------------------------------
\* Types of the variables.
TypeOK ==
    /\ present \subseteq Rows /\ seen \subseteq Rows
    /\ selectionMode \in BOOLEAN /\ buttonDown \in BOOLEAN
    /\ selectedCells \subseteq Cells
    /\ drag \in Drag \cup {NoDrag}
    /\ checked \subseteq present
    /\ focusedRow \in Rows \cup {NoRow}
    /\ requested \subseteq Rows

\* Outside the selection mode nothing is selected, however a drag, the mode button
\* and an answer that ends the mode come together: cells nobody sees as selected
\* are not confirmed later.
SelectionNeedsMode == ~selectionMode => selectedCells = {}

\* A drag shows the selection it began with and one rectangle from its anchor to
\* some cell, whatever way the pointer took in between and whatever rows answers have
\* taken out or brought back: of the rows that were there when the pointer last moved,
\* all cells of the rectangle, and never a cell outside it.
InRectangle(d, a, c) ==
    \A i \in {1, 2} : \/ a[i] <= d[i] /\ d[i] <= c[i]
                      \/ c[i] <= d[i] /\ d[i] <= a[i]
DragIsRectangle ==
    (drag # NoDrag /\ drag.dragged /\ selectionMode) =>
        \/ selectedCells = {}
        \/ selectedCells = drag.base /\ drag.anchor[1] \notin seen
        \/ \E c \in Cells :
              LET rectangle == {d \in Cells : InRectangle(d, drag.anchor, c)} IN
              selectedCells = drag.base \cup (rectangle \cap (seen \X Columns))
=============================================================================
