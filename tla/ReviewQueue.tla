----------------------------- MODULE ReviewQueue ----------------------------
(***************************************************************************)
(* How a reviewer moves through the open cells of the table: layout and    *)
(* filter of the grid (review-grid.tsx), the focus, the selected cell and  *)
(* the keys N and A (result-table.tsx).  Saving is ReviewSession; here the *)
(* cells only get confirmed.                                               *)
(*                                                                         *)
(* The grid counts displayed rows, so the focus is a position.  A filter   *)
(* hides rows at once; a row whose last open cell is confirmed stays until *)
(* the filter is applied again.  Columns stand as columnDefs orders them:  *)
(* key fields are pinned to the left, the rest follows in the order of the *)
(* sheet.  Nobody drags columns or sorts rows here.                        *)
(***************************************************************************)
EXTENDS SequencesExt, FiniteSets

CONSTANTS
    Rows,            \* 1..n, in the order of the table
    Fields,          \* the target fields
    Place,           \* the place of a field in the array of columns
    Templates,       \* Excel columns of the fields, as sequences over 1..26
    Required,        \* key fields of the template
    NoCell           \* null

Cells == Rows \X Fields

\* excelColIndex: base 26 without a zero
excelColIndex(letters) == FoldLeft(LAMBDA index, letter : index * 26 + letter, 0, letters)

QueueAssumption ==
    /\ IsFiniteSet(Rows) /\ Rows = 1..Cardinality(Rows)
    /\ Required \subseteq Fields
    /\ Place \in [Fields -> Nat] /\ \A f, g \in Fields : f # g => Place[f] # Place[g]
    /\ Templates \subseteq [Fields -> Seq(1..26)]
    /\ NoCell \notin Cells

VARIABLES
    column,          \* the Excel column of every field; empty without a template
    required,        \* the fields of pinned columns, always visible
    class,           \* "neutral" (and empty), "open", or "manual", which stands for green
    populated,       \* fields that carry content in the result
    reviewOnly,      \* viewMode = "review"
    showAllColumns,
    matching,        \* rows that pass the column filters of the user
    displayed,       \* rows the grid displays
    focus,           \* NoCell or <<position, field>>
    selectedCell,    \* NoCell or the cell last clicked or jumped to
    editing          \* a cell editor or an input has the keyboard

layout == <<column, required, populated>>
view == <<reviewOnly, showAllColumns, matching, displayed>>
vars == <<layout, class, view, focus, selectedCell, editing>>

-----------------------------------------------------------------------------
(* Layout.                                                                 *)

index(f) == excelColIndex(column[f])

\* The stable sort of columnDefs: by Excel column, equal ones as they stand in the array.
SortedBefore(f, g) == index(f) < index(g) \/ (index(f) = index(g) /\ Place[f] < Place[g])

\* field f is displayed left of field g: pinned columns come first
LeftOf(f, g) ==
    \/ f \in required /\ g \notin required
    \/ (f \in required <=> g \in required) /\ SortedBefore(f, g)

\* hide of columnDefs
Visible(f) == showAllColumns \/ f \in required \/ f \in populated

isOpen(c) == class[c] = "open"
rowHasOpenCell(r) == \E f \in Fields : isOpen(<<r, f>>)

\* doesExternalFilterPass, behind the column filters
Pass(rows, review) == {r \in rows : review => rowHasOpenCell(r)}

DisplayedFields == {f \in Fields : Visible(f)}

\* the position of a displayed row, from 1 on, and the row at a position
Position(r) == Cardinality({q \in displayed : q <= r})
Positions == 1..Cardinality(displayed)
RowAt(i) == CHOOSE r \in displayed : Position(r) = i

\* VARIANT of PopulatedFields: the first row stands for all of them.
PopulatedInFirstRow(content) == {f \in Fields : content[<<1, f>>] # "neutral"}

\* populatedFields
PopulatedFields(content) == {f \in Fields : \E r \in Rows : content[<<r, f>>] # "neutral"}

\* The columns of a result: those of its template, or all target fields, none of them
\* with an Excel column and none required.
NoColumns == [f \in Fields |-> <<>>]
NoTemplate == column = NoColumns /\ required = {}
FromTemplate == column \in Templates /\ required = Required

Init ==
    /\ NoTemplate \/ FromTemplate
    /\ class \in [Cells -> {"neutral", "open"}]
    /\ populated = PopulatedFields(class)
    /\ reviewOnly = FALSE /\ showAllColumns = FALSE
    /\ matching = Rows
    /\ displayed = Pass(Rows, reviewOnly)
    /\ focus = NoCell
    /\ selectedCell = NoCell
    /\ editing = FALSE

-----------------------------------------------------------------------------
(* The keys.                                                               *)

\* The displayed row and the field under a focus; the position may be past the
\* end once rows have been hidden.
Under(at) == <<RowAt(at[1]), at[2]>>
OnGrid(at) == at # NoCell /\ at[1] \in Positions

\* where focusNextOpen starts: the focused row, and right of the focused column
startNode == IF OnGrid(focus) THEN focus[1] ELSE 1
RightOfStart(f) == focus # NoCell /\ Visible(focus[2]) => LeftOf(focus[2], f)

\* VARIANT of IsSearched: the columns left of the focus are skipped in every row.
IsSearchedEverywhere(c) == Position(c[1]) >= startNode /\ RightOfStart(c[2])

\* The cells the loops of focusNextOpen come to.
IsSearched(c) ==
    \/ Position(c[1]) > startNode
    \/ Position(c[1]) = startNode /\ RightOfStart(c[2])

\* those that are open in content; it stops at the first
Candidates(content) ==
    {c \in displayed \X DisplayedFields : IsSearched(c) /\ content[c] = "open"}

ReadBefore(c, d) == c[1] < d[1] \/ (c[1] = d[1] /\ ~LeftOf(d[2], c[2]))

\* focusNextOpen moves the focus and the selection, or neither
focusNextOpen(content) ==
    LET candidates == Candidates(content) IN
    IF candidates = {}
    THEN UNCHANGED <<focus, selectedCell>>
    ELSE LET next == CHOOSE c \in candidates : \A d \in candidates : ReadBefore(c, d)
         IN focus' = <<Position(next[1]), next[2]>> /\ selectedCell' = next

\* acceptCell
acceptCell(c) == class' = IF isOpen(c) THEN [class EXCEPT ![c] = "manual"] ELSE class

\* acceptCurrentAndNext: confirms the selected cell, and looks for the next open
\* one from the focus on.
acceptCurrentAndNext ==
    /\ IF selectedCell # NoCell THEN acceptCell(selectedCell) ELSE UNCHANGED class
    /\ focusNextOpen(class')

\* single keys are ignored while somebody types
PressN ==
    /\ ~editing
    /\ focusNextOpen(class)
    /\ UNCHANGED <<layout, class, view, editing>>

PressA ==
    /\ ~editing
    /\ acceptCurrentAndNext
    /\ UNCHANGED <<layout, view, editing>>

-----------------------------------------------------------------------------
(* The mouse and the arrow keys.                                           *)

\* onCellClicked: focus and selection
ClickCell(i, f) ==
    /\ i \in Positions /\ Visible(f)
    /\ focus' = <<i, f>>
    /\ selectedCell' = Under(<<i, f>>)
    /\ editing' = FALSE
    /\ UNCHANGED <<layout, class, view>>

\* the arrow keys of the grid move the focus only
ArrowKey(i, f) ==
    /\ ~editing /\ focus # NoCell
    /\ i \in Positions /\ Visible(f)
    /\ focus' = <<i, f>>
    /\ UNCHANGED <<layout, class, view, selectedCell, editing>>

\* a cell is edited in place and confirmed by what was typed
StartEditing ==
    /\ ~editing /\ OnGrid(focus)
    /\ editing' = TRUE
    /\ UNCHANGED <<layout, class, view, focus, selectedCell>>
StopEditing ==
    /\ editing /\ OnGrid(focus)
    /\ class' \in {class, [class EXCEPT ![Under(focus)] = "manual"]}
    /\ editing' = FALSE
    /\ UNCHANGED <<layout, view, focus, selectedCell>>

\* A filter is applied; the grid keeps the focused position or drops it.
Refilter(rows, review) ==
    /\ matching' = rows
    /\ reviewOnly' = review
    /\ displayed' = Pass(rows, review)
    /\ focus' \in {focus, NoCell}
    /\ editing' = FALSE
    /\ UNCHANGED <<layout, class, showAllColumns, selectedCell>>

\* onOpenList, onOpenFilter, and the effect that filters again
SetViewMode(review) == reviewOnly # review /\ Refilter(matching, review)

SetColumnFilter(rows) == matching # rows /\ Refilter(rows, reviewOnly)

\* toggleShowAllColumns; a focus on a column that disappears is dropped
toggleShowAllColumns ==
    /\ showAllColumns' = ~showAllColumns
    /\ focus' = IF focus # NoCell /\ ~(focus[2] \in required \cup populated) THEN NoCell ELSE focus
    /\ editing' = FALSE
    /\ UNCHANGED <<layout, class, reviewOnly, matching, displayed, selectedCell>>

Mouse ==
    \/ \E i \in Rows, f \in Fields : ClickCell(i, f) \/ ArrowKey(i, f)
    \/ StartEditing \/ StopEditing
    \/ \E review \in BOOLEAN : SetViewMode(review)
    \/ \E rows \in SUBSET Rows : SetColumnFilter(rows)
    \/ toggleShowAllColumns

Next == PressN \/ PressA \/ Mouse

Spec == Init /\ [][Next]_vars

-----------------------------------------------------------------------------
\* Types of the variables.
TypeOK ==
    /\ column \in Templates \cup {NoColumns}
    /\ required \subseteq Fields
    /\ class \in [Cells -> {"neutral", "open", "manual"}]
    /\ populated \subseteq Fields
    /\ reviewOnly \in BOOLEAN /\ showAllColumns \in BOOLEAN /\ editing \in BOOLEAN
    /\ matching \subseteq Rows /\ displayed \subseteq matching
    /\ focus \in {NoCell} \cup Rows \X Fields
    /\ selectedCell \in {NoCell} \cup Cells

\* Neither the density of the columns nor the review filter hides work: an open
\* cell whose row passes the filters of the user is on the grid.
NoOpenCellHidden ==
    \A c \in Cells : isOpen(c) /\ c[1] \in matching => c[1] \in displayed /\ Visible(c[2])

\* N skips nothing: an open cell the grid displays after the focus, in reading
\* order, is not passed over; the focus comes to it or stops before it.
After(c, at) ==
    \/ at = NoCell
    \/ at[1] < Position(c[1])
    \/ at[1] = Position(c[1]) /\ LeftOf(at[2], c[2])
PassesOverNothing ==
    OnGrid(focus) \/ focus = NoCell =>
        \A c \in displayed \X DisplayedFields :
            isOpen(c) /\ After(c, focus) =>
                /\ focus' # focus
                /\ \/ focus'[1] < Position(c[1])
                   \/ focus'[1] = Position(c[1]) /\ ~LeftOf(c[2], focus'[2])
SkipsNothing == [][PressN => PassesOverNothing]_vars
=============================================================================
