------------------------- MODULE GridSelectionProofs ------------------------
(***************************************************************************)
(* Proofs about GridSelection for any rows and columns: types, and that    *)
(* the selection lives only in its mode and is a rectangle while one       *)
(* drags, whatever answers arrive meanwhile.                               *)
(***************************************************************************)
EXTENDS GridSelection, TLAPS

SelectionInv == TypeOK /\ SelectionNeedsMode /\ DragIsRectangle

-----------------------------------------------------------------------------
\* rectangleKeys takes the displayed cells of the rectangle between two corners, and
\* no other cell.
LEMMA RectangleIsBetween ==
    ASSUME GridAssumption, present \subseteq Rows, NEW a \in Cells, NEW b \in Cells
    PROVE  /\ rectangleKeys(a, b) \subseteq Cells
           /\ a[1] \notin present => rectangleKeys(a, b) = {}
           /\ a[1] \in present /\ b[1] \in present =>
                rectangleKeys(a, b) =
                   {d \in Cells : InRectangle(d, a, b)} \cap (present \X Columns)
<1>1. \A x, y, z \in Int : z \in Between(x, y) <=> (x <= z /\ z <= y) \/ (y <= z /\ z <= x)
  BY DEF Between
<1>2. /\ a[1] \in Int /\ a[2] \in Int /\ b[1] \in Int /\ b[2] \in Int
      /\ \A d \in Cells : d[1] \in Rows /\ d[2] \in Columns /\ d[1] \in Int /\ d[2] \in Int
      /\ present \X Columns \subseteq Cells
  BY DEF GridAssumption, Cells
<1>3. \A d \in Cells : InRectangle(d, a, b) <=>
                          d[1] \in Between(a[1], b[1]) /\ d[2] \in Between(a[2], b[2])
  <2> SUFFICES ASSUME NEW d \in Cells
               PROVE  InRectangle(d, a, b) <=>
                         d[1] \in Between(a[1], b[1]) /\ d[2] \in Between(a[2], b[2])
    OBVIOUS
  <2>1. InRectangle(d, a, b) <=>
           /\ (a[1] <= d[1] /\ d[1] <= b[1]) \/ (b[1] <= d[1] /\ d[1] <= a[1])
           /\ (a[2] <= d[2] /\ d[2] <= b[2]) \/ (b[2] <= d[2] /\ d[2] <= a[2])
    BY DEF InRectangle
  <2> QED
    BY <1>1, <1>2, <2>1
<1>4. rectangleKeys(a, b) \subseteq present \X Columns
  BY DEF rectangleKeys
<1>5. ASSUME NEW d \in rectangleKeys(a, b) PROVE InRectangle(d, a, b)
  BY <1>2, <1>3, <1>4 DEF rectangleKeys
<1>6. ASSUME a[1] \in present, b[1] \in present, NEW d \in present \X Columns, InRectangle(d, a, b)
      PROVE  d \in rectangleKeys(a, b)
  BY <1>2, <1>3, <1>6 DEF rectangleKeys
<1>7. a[1] \notin present => rectangleKeys(a, b) = {}
  BY DEF rectangleKeys
<1> QED
  BY <1>2, <1>4, <1>5, <1>6, <1>7

LEMMA InitSelection == ASSUME GridAssumption, Init PROVE SelectionInv
BY DEF Init, SelectionInv, TypeOK, SelectionNeedsMode, DragIsRectangle

LEMMA MouseStep ==
    ASSUME GridAssumption, SelectionInv,
           \/ \E c \in Cells : onGridMouseDown(c) \/ onGridMouseOver(c)
           \/ onUp
    PROVE  SelectionInv'
<1>1. ASSUME NEW c \in Cells, onGridMouseDown(c) PROVE SelectionInv'
  <2>1. drag' \in Drag \cup {NoDrag} /\ focusedRow' \in Rows
    BY <1>1 DEF onGridMouseDown, SelectionInv, TypeOK, Drag, Cells
  <2>2. selectionMode => drag'.dragged = FALSE
    BY <1>1 DEF onGridMouseDown
  <2>3. TypeOK'
    BY <1>1, <2>1 DEF onGridMouseDown, SelectionInv, TypeOK
  <2>4. SelectionNeedsMode' /\ DragIsRectangle'
    BY <1>1, <2>2 DEF onGridMouseDown, SelectionInv, SelectionNeedsMode, DragIsRectangle
  <2> QED
    BY <2>3, <2>4 DEF SelectionInv
<1>2. ASSUME NEW c \in Cells, onGridMouseOver(c) PROVE SelectionInv'
  <2>1. /\ drag \in Drag /\ drag' \in Drag
        /\ drag'.anchor = drag.anchor /\ drag'.base = drag.base
        /\ drag.anchor \in Cells /\ drag.base \subseteq Cells
    BY <1>2 DEF onGridMouseOver, SelectionInv, TypeOK, Drag
  <2>2. /\ selectedCells' = drag.base \cup rectangleKeys(drag.anchor, c)
        /\ selectionMode /\ c[1] \in present
        /\ UNCHANGED <<present, selectionMode, buttonDown, checked, focusedRow, requested>>
        /\ seen' = present
    BY <1>2 DEF onGridMouseOver
  <2>3. selectedCells' \subseteq Cells
    BY <2>1, <2>2, RectangleIsBetween DEF SelectionInv, TypeOK
  <2>4. TypeOK'
    BY <2>1, <2>2, <2>3 DEF SelectionInv, TypeOK
  <2>5. DragIsRectangle'
    <3>1. CASE drag.anchor[1] \notin present
      <4>1. rectangleKeys(drag.anchor, c) = {}
        BY <2>1, <3>1, RectangleIsBetween DEF SelectionInv, TypeOK
      <4> QED
        BY <2>1, <2>2, <3>1, <4>1 DEF DragIsRectangle
    <3>2. CASE drag.anchor[1] \in present
      <4> DEFINE rectangle == {d \in Cells : InRectangle(d, drag'.anchor, c)}
      <4>1. rectangleKeys(drag.anchor, c) = rectangle \cap (present \X Columns)
        BY <2>1, <2>2, <3>2, RectangleIsBetween DEF SelectionInv, TypeOK
      <4>2. selectedCells' = drag'.base \cup (rectangle \cap (seen' \X Columns))
        BY <2>1, <2>2, <4>1
      <4> QED
        BY <4>2 DEF DragIsRectangle
    <3> QED
      BY <3>1, <3>2
  <2>6. SelectionNeedsMode'
    BY <2>2 DEF SelectionNeedsMode
  <2> QED
    BY <2>4, <2>5, <2>6 DEF SelectionInv
<1>3. CASE onUp
  <2>1. selectedCells' \subseteq Cells
    BY <1>3 DEF onUp, SelectionInv, TypeOK, Drag, Toggle
  <2>2. TypeOK'
    BY <1>3, <2>1 DEF onUp, SelectionInv, TypeOK
  <2>3. SelectionNeedsMode' /\ DragIsRectangle'
    BY <1>3 DEF onUp, SelectionInv, SelectionNeedsMode, DragIsRectangle
  <2> QED
    BY <2>2, <2>3 DEF SelectionInv
<1> QED
  BY <1>1, <1>2, <1>3

LEMMA ToolbarStep ==
    ASSUME GridAssumption, SelectionInv,
           \/ toggleSelectionMode \/ acceptSelected \/ deleteSelectedRows
           \/ \E rows \in SUBSET Rows : Check(rows)
    PROVE  SelectionInv'
<1>1. CASE toggleSelectionMode
  <2>1. selectionMode' \in BOOLEAN
    BY <1>1, Zenon DEF toggleSelectionMode
  <2>2. TypeOK'
    BY <1>1, <2>1 DEF toggleSelectionMode, SelectionInv, TypeOK
  <2>3. selectedCells' = {}
    BY <1>1 DEF toggleSelectionMode, SelectionInv, SelectionNeedsMode
  <2> QED
    BY <2>2, <2>3 DEF SelectionInv, SelectionNeedsMode, DragIsRectangle
<1>2. CASE acceptSelected
  <2>1. TypeOK'
    BY <1>2 DEF acceptSelected, SelectionInv, TypeOK
  <2> QED
    BY <1>2, <2>1 DEF acceptSelected, SelectionInv, SelectionNeedsMode, DragIsRectangle
<1>3. CASE deleteSelectedRows \/ \E rows \in SUBSET Rows : Check(rows)
  <2>1. RowsToDelete \subseteq Rows
    BY DEF RowsToDelete, SelectionInv, TypeOK
  <2>2. TypeOK'
    BY <1>3, <2>1 DEF deleteSelectedRows, Check, SelectionInv, TypeOK
  <2>3. UNCHANGED <<selectionMode, selectedCells, drag, seen>>
    BY <1>3 DEF deleteSelectedRows, Check
  <2> QED
    BY <2>2, <2>3 DEF SelectionInv, SelectionNeedsMode, DragIsRectangle
<1> QED
  BY <1>1, <1>2, <1>3

LEMMA AnswerStep == ASSUME GridAssumption, SelectionInv, ResultArrives PROVE SelectionInv'
<1>1. PICK out \in SUBSET requested :
         /\ present' = Rows \ out /\ checked' = checked \ out
         /\ \/ selectionMode' = FALSE /\ selectedCells' = {}
            \/ UNCHANGED <<selectionMode, selectedCells>>
         /\ UNCHANGED <<drag, buttonDown, focusedRow, requested, seen>>
  BY DEF ResultArrives
<1>2. checked' \subseteq present'
  BY <1>1 DEF SelectionInv, TypeOK
<1>3. TypeOK'
  BY <1>1, <1>2 DEF SelectionInv, TypeOK
<1>4. SelectionNeedsMode'
  BY <1>1 DEF SelectionInv, SelectionNeedsMode
<1>5. DragIsRectangle'
  BY <1>1 DEF SelectionInv, DragIsRectangle
<1> QED
  BY <1>3, <1>4, <1>5 DEF SelectionInv

LEMMA SelectionStep == ASSUME GridAssumption, SelectionInv, [Next]_vars PROVE SelectionInv'
<1>1. CASE UNCHANGED vars
  BY <1>1 DEF vars, SelectionInv, TypeOK, SelectionNeedsMode, DragIsRectangle
<1>2. CASE Next
  BY <1>2, MouseStep, ToolbarStep, AnswerStep DEF Next
<1> QED
  BY <1>1, <1>2

\* The selection is empty outside its mode and shows one rectangle while one drags,
\* however mouse, mode button and answers interleave (the drag of review-grid.tsx, the
\* mode and the resets of result-table.tsx).
THEOREM SelectionIsWhatIsSeen ==
    ASSUME GridAssumption PROVE Spec => [](TypeOK /\ SelectionNeedsMode /\ DragIsRectangle)
<1>1. Init => SelectionInv
  BY InitSelection
<1>2. SelectionInv /\ [Next]_vars => SelectionInv'
  BY SelectionStep
<1>3. SelectionInv => TypeOK /\ SelectionNeedsMode /\ DragIsRectangle
  BY DEF SelectionInv
<1> QED
  BY <1>1, <1>2, <1>3, PTL DEF Spec
=============================================================================
