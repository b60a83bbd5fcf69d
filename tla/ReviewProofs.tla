----------------------------- MODULE ReviewProofs ----------------------------
(***************************************************************************)
(* Proofs about the review page, for any constants.  First the session     *)
(* (ReviewSession, which ReviewPage extends): types, that what the grid    *)
(* shows as confirmed is confirmed or pending, that the table is the audit *)
(* unless answers were lost or overtaken, and that a patient reviewer      *)
(* loses no edit.  Then the queue (ReviewQueue, with the order its search  *)
(* rests on), and last the properties of ReviewPage: a part that runs      *)
(* takes only steps of its component, so that what is proved of the        *)
(* component holds of it.                                                  *)
(***************************************************************************)
EXTENDS ReviewPage, FiniteSetTheorems, SequenceTheorems, WellFoundedInduction, TLAPS

\* An answer shows no cell as confirmed that the audit has not confirmed: a confirmation,
\* once stored, is never taken back.
Backed(answer) == \A c \in Cells : answer.cells[c].class = "manual" => cells[c].class = "manual"
AnswersAreBacked ==
    /\ \A answer \in saveAnswers : Backed(answer)
    /\ \A a \in exclusionAnswers : Backed(a.result)

BackedInv == TypeOK /\ ConfirmedIsBacked /\ AnswersAreBacked

\* An answer takes in some number of changes, and is the audit when it takes in all.
UpToDate(answer) ==
    /\ answer.changes <= changes
    /\ answer.changes = changes => answer.cells = cells /\ answer.excluded = excluded
AnswersInOrder ==
    /\ \A answer \in saveAnswers : UpToDate(answer)
    /\ \A a \in exclusionAnswers : UpToDate(a.result)
    /\ UpToDate([cells |-> resultCells, excluded |-> resultExcluded, changes |-> resultChanges])

\* As long as the order is kept, of every change the result does not take in there is an
\* answer under way.
ChangesAreOut ==
    inOrder => \A n \in Nat : resultChanges < n /\ n <= changes =>
                  \/ \E answer \in saveAnswers : answer.changes = n
                  \/ \E a \in exclusionAnswers : a.result.changes = n

\* The grid differs from the result only where edits are pending.
GridIsResult == \A c \in Cells : pendingEdits[c] = NoEdit => grid[c] = resultCells[c]

SaveAnswered ==
    /\ saving # "done" => saveAnswers = {}
    /\ \A answer, other \in saveAnswers : answer = other

OrderInv == TypeOK /\ AnswersInOrder /\ ChangesAreOut /\ GridIsResult /\ SaveAnswered

\* A patient reviewer has no save and exclusion out together; what is pending while a
\* save is out is what it sent, and while an exclusion is out nothing is.
NoExclusion == exclusions = {} /\ exclusionAnswers = {}
OneRequest ==
    patient =>
        /\ saving = "none" \/ NoExclusion
        /\ saving # "none" => saveEdits = pendingEdits
        /\ ~NoExclusion => pendingEdits = NoEdits
        /\ \A c \in Cells : pendingEdits[c] \in {NoEdit, wanted[c]}

\* When his save has been answered, what is pending is stored.
SavedIsStored ==
    patient /\ saveAnswers # {} =>
        \A c \in Cells : pendingEdits[c] # NoEdit => cells[c] = Manual(pendingEdits[c])

PendingIsShown ==
    patient => \A c \in Cells : pendingEdits[c] # NoEdit => grid[c] = Manual(pendingEdits[c])

PatientInv == OrderInv /\ OneRequest /\ SavedIsStored /\ NoEditLost /\ PendingIsShown

-----------------------------------------------------------------------------
(* Types.                                                                  *)

LEMMA CellsAreFinite == IsFiniteSet(Cells)
  BY ReviewAssumption, FS_Product DEF Cells

LEMMA CountIsNat ==
    ASSUME NEW S \in SUBSET Cells
    PROVE  Cardinality(S) \in Nat
  BY CellsAreFinite, FS_Subset, FS_CardinalityType

LEMMA ManualIsCell ==
    ASSUME NEW v \in Values
    PROVE  Manual(v) \in CellState /\ Manual(v).class = "manual"
  BY DEF Manual, CellState, Classes

LEMMA NoEditsIsEdits == NoEdits \in Edits /\ \A c \in Cells : NoEdits[c] = NoEdit
  BY DEF NoEdits, Edits

\* Both ways to record edits keep what they write in its type.
LEMMA RecordTypes ==
    ASSUME TypeOK, NEW edits \in Edits, recordEdit(edits)
    PROVE  pendingEdits' \in Edits /\ openCount' \in Nat /\ wanted' \in Edits
<1> DEFINE edited == {c \in Cells : edits[c] # NoEdit}
<1>1. Cardinality(edited) \in Nat
  BY CountIsNat
<1>2. /\ pendingEdits' = [c \in Cells |-> IF c \in edited THEN edits[c] ELSE pendingEdits[c]]
      /\ openCount' = NotNegative(openCount - Cardinality(edited))
      /\ wanted' = [c \in Cells |-> IF c \in edited THEN edits[c] ELSE wanted[c]]
  BY DEF recordEdit
<1> HIDE DEF edited
<1>3. openCount' \in Nat
  BY <1>1, <1>2 DEF NotNegative, TypeOK
<1>4. pendingEdits' \in Edits /\ wanted' \in Edits
  BY <1>2 DEF TypeOK, Edits
<1> QED
  BY <1>3, <1>4

LEMMA ShowTypes ==
    ASSUME TypeOK, NEW answer \in Snapshot, NEW kept \in Edits, ShowAnswer(answer, kept)
    PROVE  /\ resultCells' \in [Cells -> CellState] /\ resultExcluded' \in SUBSET Rows
           /\ resultChanges' \in Nat /\ inOrder' \in BOOLEAN
           /\ grid' \in [Cells -> CellState]
           /\ openCount' \in Nat /\ pendingEdits' \in Edits
<1>1. /\ answer.cells \in [Cells -> CellState] /\ answer.excluded \in SUBSET Rows
      /\ answer.changes \in Nat
  BY DEF Snapshot
<1>2. NewTotal(answer) \in Nat
  BY CountIsNat DEF NewTotal, OpenCells
<1> QED
  BY <1>1, <1>2, NoEditsIsEdits DEF ShowAnswer, BuildRows, TypeOK

-----------------------------------------------------------------------------
(* A hand on the table: typed values and confirmations are one kind of step. *)

Edited(edits) ==
    /\ patient => Idle
    /\ recordEdit(edits)
    /\ grid' = [c \in Cells |-> IF edits[c] # NoEdit THEN Manual(edits[c]) ELSE grid[c]]
    /\ UNCHANGED <<audit, result, save, exclusion, sent>>

LEMMA TypedIsEdited ==
    ASSUME TypeOK, NEW c \in Cells, NEW v \in Values, onCellValueChanged(c, v)
    PROVE  \E edits \in Edits : Edited(edits)
<1> DEFINE edits == [NoEdits EXCEPT ![c] = v]
<1>1. edits \in Edits /\ v # NoEdit
  BY ReviewAssumption, NoEditsIsEdits DEF Edits
<1>2. \A d \in Cells : edits[d] = IF d = c THEN v ELSE NoEdit
  BY NoEditsIsEdits DEF Edits
<1>3. recordEdit(edits) /\ grid' = [grid EXCEPT ![c] = Manual(v)]
  BY DEF onCellValueChanged
<1>4. grid' = [d \in Cells |-> IF edits[d] # NoEdit THEN Manual(edits[d]) ELSE grid[d]]
  <2> HIDE DEF edits
  <2> QED
    BY <1>1, <1>2, <1>3 DEF TypeOK
<1>5. (patient => Idle) /\ UNCHANGED <<audit, result, save, exclusion, sent>>
  BY DEF onCellValueChanged
<1> HIDE DEF edits
<1>6. Edited(edits)
  BY <1>3, <1>4, <1>5 DEF Edited
<1> QED
  BY <1>1, <1>6

LEMMA AcceptedIsEdited ==
    ASSUME TypeOK, NEW chosen \in SUBSET Cells, Accept(chosen)
    PROVE  \E edits \in Edits : Edited(edits)
<1> DEFINE accepted == {c \in chosen : Shown(c) /\ isOpen(grid[c])}
           edits == [c \in Cells |-> IF c \in accepted THEN grid[c].value ELSE NoEdit]
<1>1. \A c \in Cells : grid[c].value \in Values /\ grid[c].value # NoEdit
  BY ReviewAssumption DEF TypeOK, CellState
<1>2. edits \in Edits
  BY <1>1 DEF Edits
<1>3. \A c \in Cells : edits[c] = IF c \in accepted THEN grid[c].value ELSE NoEdit
  OBVIOUS
<1>4. recordEdit(edits)
  BY DEF Accept
<1>5. grid' = [c \in Cells |-> IF c \in accepted THEN Manual(grid[c].value) ELSE grid[c]]
  BY DEF Accept
<1>6. (patient => Idle) /\ UNCHANGED <<audit, result, save, exclusion, sent>>
  BY DEF Accept
<1> HIDE DEF accepted, edits
<1>7. grid' = [c \in Cells |-> IF edits[c] # NoEdit THEN Manual(edits[c]) ELSE grid[c]]
  BY <1>1, <1>3, <1>5
<1>8. Edited(edits)
  BY <1>4, <1>6, <1>7 DEF Edited
<1> QED
  BY <1>2, <1>8

\* A request is sent or refused, or an answer is lost.
Posted ==
    /\ UNCHANGED <<cells, excluded, changes, resultCells, resultExcluded, resultChanges, grid,
                   pendingEdits, openCount, wanted>>
    /\ saveAnswers' \in {saveAnswers, {}} /\ exclusionAnswers' \subseteq exclusionAnswers
    /\ \/ UNCHANGED <<inOrder, saveAnswers, exclusionAnswers>>
       \/ inOrder' = FALSE

SendsExclusion == \E out, back \in SUBSET Rows : SendExclusion(out, back)
Posts ==
    \/ handleSave \/ SendsExclusion
    \/ RefuseSave \/ \E x \in exclusions : RefuseExclusion(x)
    \/ LoseSaveAnswer \/ \E a \in exclusionAnswers : LoseExclusionAnswer(a)

LEMMA PostsArePosted == ASSUME Posts PROVE Posted
<1> USE DEF audit, table, result, save, exclusion
<1>1. CASE handleSave
  BY <1>1 DEF handleSave, Posted
<1>2. CASE SendsExclusion
  BY <1>2 DEF SendsExclusion, SendExclusion, Posted
<1>3. CASE RefuseSave
  BY <1>3 DEF RefuseSave, Posted
<1>4. CASE \E x \in exclusions : RefuseExclusion(x)
  BY <1>4 DEF RefuseExclusion, Posted
<1>5. CASE LoseSaveAnswer
  BY <1>5 DEF LoseSaveAnswer, Posted
<1>6. CASE \E a \in exclusionAnswers : LoseExclusionAnswer(a)
  BY <1>6 DEF LoseExclusionAnswer, Posted
<1> QED
  BY <1>1, <1>2, <1>3, <1>4, <1>5, <1>6 DEF Posts

\* Every step is an edit, a request or its end, the work of the server, or an answer.
LEMMA Steps ==
    ASSUME TypeOK, Next
    PROVE  /\ patient' = patient
           /\ \/ \E edits \in Edits : Edited(edits)
              \/ Posts
              \/ update_cells \/ \E x \in exclusions : update_row_exclusions(x)
              \/ SaveDone \/ \E a \in exclusionAnswers : ExclusionDone(a)
<1>1. patient' = patient
  BY DEF Next
<1>2. ASSUME Reviewer PROVE (\E edits \in Edits : Edited(edits)) \/ Posts
  <2>1. CASE \E c \in Cells, v \in Values : onCellValueChanged(c, v)
    BY <2>1, TypedIsEdited
  <2>2. CASE \E chosen \in SUBSET Cells : Accept(chosen)
    BY <2>2, AcceptedIsEdited
  <2>3. ASSUME NEW c \in Cells, acceptCell(c) PROVE \E chosen \in SUBSET Cells : Accept(chosen)
    BY <2>3 DEF acceptCell
  <2>4. ASSUME NEW f \in Fields, acceptColumn(f) PROVE \E chosen \in SUBSET Cells : Accept(chosen)
    <3>1. Rows \X {f} \in SUBSET Cells
      BY DEF Cells
    <3> QED
      BY <2>4, <3>1 DEF acceptColumn
  <2>5. ASSUME NEW rows \in SUBSET Rows, ExcludeRows(rows) PROVE SendsExclusion
    BY <2>5 DEF ExcludeRows, SendsExclusion
  <2>6. ASSUME handleRestoreExcluded PROVE SendsExclusion
    <3>1. resultExcluded \in SUBSET Rows
      BY DEF TypeOK
    <3> QED
      BY <2>6, <3>1 DEF handleRestoreExcluded, SendsExclusion
  <2> QED
    BY <1>2, <2>1, <2>2, <2>3, <2>4, <2>5, <2>6 DEF Reviewer, acceptSelected, Posts
<1> QED
  BY <1>1, <1>2 DEF Next, Posts

-----------------------------------------------------------------------------
LEMMA InitTypes == Init => TypeOK
<1> SUFFICES ASSUME Init PROVE TypeOK
  OBVIOUS
<1>1. cells \in [Cells -> CellState]
  BY DEF Init, CellState, Classes
<1>2. openCount \in Nat
  BY CountIsNat DEF Init, totalOpen, OpenCells
<1> QED
  BY <1>1, <1>2, NoEditsIsEdits DEF Init, TypeOK, Phases

\* The server stores edits of the right type and answers with a result.
LEMMA SaveStores ==
    ASSUME TypeOK, update_cells
    PROVE  /\ cells' \in [Cells -> CellState] /\ excluded' = excluded /\ changes' = changes + 1
           /\ saveAnswers' = {[cells |-> cells', excluded |-> excluded', changes |-> changes']}
           /\ saveAnswers' \subseteq Snapshot
           /\ \A c \in Cells : cells'[c] = IF saveEdits[c] = NoEdit THEN cells[c]
                                            ELSE Manual(saveEdits[c])
<1>1. \A c \in Cells : saveEdits[c] # NoEdit => Manual(saveEdits[c]) \in CellState
  BY ManualIsCell DEF TypeOK, Edits
<1>2. cells' = [c \in Cells |-> IF saveEdits[c] = NoEdit THEN cells[c] ELSE Manual(saveEdits[c])]
  BY DEF update_cells, apply_cell_edits
<1>3. cells' \in [Cells -> CellState]
  BY <1>1, <1>2 DEF TypeOK
<1>4. [cells |-> cells', excluded |-> excluded, changes |-> changes'] \in Snapshot
  BY <1>3 DEF update_cells, Snapshot, TypeOK
<1> QED
  BY <1>2, <1>3, <1>4 DEF update_cells

LEMMA ExclusionStores ==
    ASSUME TypeOK, NEW x \in exclusions, update_row_exclusions(x)
    PROVE  /\ cells' = cells /\ excluded' \in SUBSET Rows /\ changes' = changes + 1
           /\ \E a \in ExclusionAnswer :
                 /\ exclusionAnswers' = exclusionAnswers \cup {a}
                 /\ a.result = [cells |-> cells', excluded |-> excluded', changes |-> changes']
<1>1. /\ x.id \in Nat /\ x.out \in SUBSET Rows
  BY DEF TypeOK, Exclusion
<1>2. excluded' \in SUBSET Rows /\ cells' = cells /\ changes' = changes + 1 /\ changes' \in Nat
  BY <1>1 DEF update_row_exclusions, apply_row_exclusions, TypeOK
<1> DEFINE shown == [cells |-> cells', excluded |-> excluded', changes |-> changes']
           a == [to |-> x.id, result |-> shown]
<1>3. shown \in Snapshot
  BY <1>2 DEF Snapshot, TypeOK
<1>4. exclusionAnswers' = exclusionAnswers \cup {a}
  BY <1>2 DEF update_row_exclusions
<1>5. a \in ExclusionAnswer /\ a.result = shown
  BY <1>1, <1>3 DEF ExclusionAnswer
<1> QED
  BY <1>2, <1>4, <1>5

\* What the end of a request shows: the answer, or the table as it was.
LEMMA SaveShows ==
    ASSUME SaveDone
    PROVE  /\ UNCHANGED <<cells, excluded, changes, exclusions, exclusionAnswers, wanted>>
           /\ saving' = "none" /\ saveAnswers' = {} /\ saveEdits' = NoEdits
           /\ \/ \E answer \in saveAnswers : ShowAnswer(answer, NoEdits)
              \/ saving = "refused" /\ UNCHANGED <<result, grid, pendingEdits, openCount>>
BY DEF SaveDone, audit, exclusion, table

LEMMA TypeStep == TypeOK /\ [Next]_vars => TypeOK'
<1> SUFFICES ASSUME TypeOK, [Next]_vars PROVE TypeOK'
  OBVIOUS
<1>1. patient' = patient
  BY Steps DEF vars
<1>2. ASSUME NEW edits \in Edits, Edited(edits) PROVE TypeOK'
  <2>1. pendingEdits' \in Edits /\ openCount' \in Nat /\ wanted' \in Edits
    BY <1>2, RecordTypes DEF Edited
  <2>2. \A c \in Cells : edits[c] # NoEdit => Manual(edits[c]) \in CellState
    BY ManualIsCell DEF Edits
  <2>3. grid' \in [Cells -> CellState]
    BY <1>2, <2>2 DEF Edited, TypeOK
  <2> QED
    BY <1>1, <1>2, <2>1, <2>3 DEF Edited, TypeOK, audit, result, save, exclusion
<1>3. CASE Posts
  <2>1. /\ UNCHANGED <<cells, excluded, changes, resultCells, resultExcluded, resultChanges, grid,
                        pendingEdits, openCount, wanted>>
        /\ saveAnswers' \subseteq Snapshot /\ exclusionAnswers' \subseteq ExclusionAnswer
        /\ inOrder' \in BOOLEAN
    BY <1>3, PostsArePosted DEF Posted, TypeOK
  <2>2. saving' \in Phases /\ saveEdits' \in Edits /\ sent' \in Nat /\ latestExclusion' \in Nat
    BY <1>3 DEF Posts, handleSave, SendsExclusion, SendExclusion, RefuseSave, RefuseExclusion,
                LoseSaveAnswer, LoseExclusionAnswer, MaySend, save, exclusion, Phases, TypeOK
  <2>3. exclusions' \subseteq Exclusion
    <3>1. CASE SendsExclusion
      <4>1. PICK out \in SUBSET Rows, back \in SUBSET Rows : SendExclusion(out, back)
        BY <3>1 DEF SendsExclusion
      <4>2. [id |-> sent', out |-> out, back |-> back] \in Exclusion
        BY <4>1, <2>2 DEF Exclusion
      <4> QED
        BY <4>1, <4>2 DEF SendExclusion, TypeOK
    <3>2. CASE exclusions' \subseteq exclusions
      BY <3>2 DEF TypeOK
    <3> QED
      BY <1>3, <3>1, <3>2 DEF Posts, handleSave, RefuseSave, RefuseExclusion, LoseSaveAnswer,
                              LoseExclusionAnswer, exclusion
  <2> QED
    BY <1>1, <2>1, <2>2, <2>3 DEF TypeOK
<1>4. CASE update_cells
  BY <1>1, <1>4, SaveStores DEF update_cells, TypeOK, Phases, table, result, exclusion
<1>5. ASSUME NEW x \in exclusions, update_row_exclusions(x) PROVE TypeOK'
  <2>1. /\ cells' = cells /\ excluded' \in SUBSET Rows /\ changes' = changes + 1
        /\ exclusionAnswers' \subseteq ExclusionAnswer
    BY <1>5, ExclusionStores DEF TypeOK
  <2> QED
    BY <1>1, <1>5, <2>1 DEF update_row_exclusions, TypeOK, table, result, save
<1>6. ASSUME NEW answer \in Snapshot, NEW kept \in Edits, ShowAnswer(answer, kept),
             UNCHANGED <<audit, wanted, sent>>,
             saving' \in Phases, saveEdits' \in Edits, saveAnswers' \subseteq saveAnswers,
             exclusions' = exclusions, exclusionAnswers' \subseteq exclusionAnswers,
             latestExclusion' = latestExclusion
      PROVE  TypeOK'
  <2>1. /\ resultCells' \in [Cells -> CellState] /\ resultExcluded' \in SUBSET Rows
        /\ resultChanges' \in Nat /\ inOrder' \in BOOLEAN
        /\ grid' \in [Cells -> CellState]
        /\ openCount' \in Nat /\ pendingEdits' \in Edits
    BY <1>6, ShowTypes
  <2> QED
    BY <1>1, <1>6, <2>1 DEF TypeOK, audit
<1>7. CASE SaveDone
  <2>1. saving' \in Phases /\ saveEdits' \in Edits /\ saveAnswers' \subseteq saveAnswers
    BY <1>7, SaveShows, NoEditsIsEdits DEF Phases
  <2>2. CASE \E answer \in saveAnswers : ShowAnswer(answer, NoEdits)
    BY <1>6, <1>7, <2>1, <2>2, NoEditsIsEdits DEF SaveDone, exclusion, TypeOK
  <2>3. CASE UNCHANGED <<result, grid, pendingEdits, openCount>>
    BY <1>1, <1>7, <2>1, <2>3 DEF SaveDone, TypeOK, audit, result, exclusion
  <2> QED
    BY <1>7, <2>2, <2>3, SaveShows
<1>8. ASSUME NEW a \in exclusionAnswers, ExclusionDone(a) PROVE TypeOK'
  <2>1. a.result \in Snapshot /\ pendingEdits \in Edits
    BY DEF TypeOK, ExclusionAnswer
  <2> QED
    BY <1>6, <1>8, <2>1 DEF ExclusionDone, save, TypeOK
<1>9. CASE UNCHANGED vars
  BY <1>9 DEF vars, audit, table, result, save, exclusion, TypeOK
<1> QED
  BY Steps, <1>2, <1>3, <1>4, <1>5, <1>7, <1>8, <1>9

\* Every variable keeps its type; the count of open cells never becomes negative.
THEOREM ReviewTypes == Spec => []TypeOK
  BY InitTypes, TypeStep, PTL DEF Spec

-----------------------------------------------------------------------------
(* What is shown as confirmed.                                             *)

LEMMA InitBacked == Init => BackedInv
<1> SUFFICES ASSUME Init PROVE ConfirmedIsBacked /\ AnswersAreBacked
  BY InitTypes DEF BackedInv
<1>1. \A c \in Cells : grid[c].class # "manual"
  BY DEF Init
<1> QED
  BY <1>1 DEF Init, ConfirmedIsBacked, AnswersAreBacked

\* A confirmation that is stored stays stored.
LEMMA ConfirmedStays ==
    ASSUME TypeOK, update_cells
    PROVE  \A c \in Cells : cells[c].class = "manual" => cells'[c].class = "manual"
<1>1. \A c \in Cells : saveEdits[c] # NoEdit => Manual(saveEdits[c]).class = "manual"
  BY ManualIsCell DEF TypeOK, Edits
<1> QED
  BY <1>1, SaveStores

LEMMA BackedStep == BackedInv /\ [Next]_vars => BackedInv'
<1> SUFFICES ASSUME BackedInv, [Next]_vars PROVE ConfirmedIsBacked' /\ AnswersAreBacked'
  BY TypeStep DEF BackedInv
<1> USE DEF BackedInv
<1>1. ASSUME NEW edits \in Edits, Edited(edits) PROVE ConfirmedIsBacked' /\ AnswersAreBacked'
  <2>1. \A c \in Cells : /\ edits[c] # NoEdit => pendingEdits'[c] # NoEdit
                         /\ edits[c] = NoEdit => /\ pendingEdits'[c] = pendingEdits[c]
                                                /\ grid'[c] = grid[c]
    BY <1>1 DEF Edited, recordEdit
  <2>2. cells' = cells
    BY <1>1 DEF Edited, audit
  <2>3. ConfirmedIsBacked'
    BY <2>1, <2>2 DEF ConfirmedIsBacked
  <2>4. AnswersAreBacked'
    BY <1>1, <2>2 DEF Edited, save, exclusion, AnswersAreBacked, Backed
  <2> QED
    BY <2>3, <2>4
<1>2. CASE Posts
  <2>1. Posted
    BY <1>2, PostsArePosted
  <2> QED
    BY <2>1 DEF Posted, ConfirmedIsBacked, AnswersAreBacked, Backed
<1>3. CASE update_cells
  <2>1. \A c \in Cells : cells[c].class = "manual" => cells'[c].class = "manual"
    BY <1>3, ConfirmedStays
  <2>2. \A answer \in saveAnswers' : answer.cells = cells'
    BY <1>3, SaveStores
  <2>3. UNCHANGED <<grid, pendingEdits, exclusionAnswers>>
    BY <1>3 DEF update_cells, table, exclusion
  <2> QED
    BY <2>1, <2>2, <2>3 DEF ConfirmedIsBacked, AnswersAreBacked, Backed
<1>4. ASSUME NEW x \in exclusions, update_row_exclusions(x)
      PROVE  ConfirmedIsBacked' /\ AnswersAreBacked'
  <2>1. /\ cells' = cells
        /\ \A a \in exclusionAnswers' : a \in exclusionAnswers \/ a.result.cells = cells
    BY <1>4, ExclusionStores
  <2>2. UNCHANGED <<grid, pendingEdits, saveAnswers>>
    BY <1>4 DEF update_row_exclusions, table, save
  <2> QED
    BY <2>1, <2>2 DEF ConfirmedIsBacked, AnswersAreBacked, Backed
<1>5. ASSUME NEW answer, NEW kept, ShowAnswer(answer, kept), Backed(answer), cells' = cells,
             saveAnswers' \subseteq saveAnswers, exclusionAnswers' \subseteq exclusionAnswers
      PROVE  ConfirmedIsBacked' /\ AnswersAreBacked'
  <2>1. grid' = answer.cells
    BY <1>5 DEF ShowAnswer, BuildRows
  <2> QED
    BY <1>5, <2>1 DEF ConfirmedIsBacked, AnswersAreBacked, Backed
<1>6. CASE SaveDone
  <2>1. CASE \E answer \in saveAnswers : ShowAnswer(answer, NoEdits)
    BY <1>5, <1>6, <2>1, SaveShows DEF AnswersAreBacked
  <2>2. CASE UNCHANGED <<result, grid, pendingEdits, openCount>>
    BY <1>6, <2>2, SaveShows DEF ConfirmedIsBacked, AnswersAreBacked, Backed
  <2> QED
    BY <1>6, <2>1, <2>2, SaveShows
<1>7. ASSUME NEW a \in exclusionAnswers, ExclusionDone(a)
      PROVE  ConfirmedIsBacked' /\ AnswersAreBacked'
  BY <1>5, <1>7 DEF ExclusionDone, audit, save, AnswersAreBacked
<1>8. CASE UNCHANGED vars
  BY <1>8 DEF vars, audit, table, result, save, exclusion, ConfirmedIsBacked, AnswersAreBacked,
              Backed
<1> QED
  BY Steps, <1>1, <1>2, <1>3, <1>4, <1>6, <1>7, <1>8

\* Whatever saves, exclusions and answers overlap: no cell is shown as confirmed by a
\* human that is neither confirmed in the audit nor pending.
THEOREM ConfirmationsBacked == Spec => []ConfirmedIsBacked
<1>1. BackedInv => ConfirmedIsBacked
  BY DEF BackedInv
<1> QED
  BY <1>1, InitBacked, BackedStep, PTL DEF Spec

-----------------------------------------------------------------------------
(* The order of the answers.                                               *)

LEMMA InitOrder == Init => OrderInv
<1> SUFFICES ASSUME Init
             PROVE  AnswersInOrder /\ ChangesAreOut /\ GridIsResult /\ SaveAnswered
  BY InitTypes DEF OrderInv
<1>1. AnswersInOrder
  BY DEF Init, AnswersInOrder, UpToDate
<1>2. ChangesAreOut
  BY DEF Init, ChangesAreOut
<1>3. GridIsResult /\ SaveAnswered
  BY DEF Init, GridIsResult, SaveAnswered
<1> QED
  BY <1>1, <1>2, <1>3

\* An answer of before takes in less than the audit now has.
LEMMA OlderAnswer ==
    ASSUME TypeOK, NEW answer, answer.changes \in Nat, UpToDate(answer), changes' = changes + 1
    PROVE  UpToDate(answer)'
BY DEF UpToDate, TypeOK

LEMMA NumbersOfAnswers ==
    ASSUME TypeOK
    PROVE  /\ \A answer \in saveAnswers : answer.changes \in Nat
           /\ \A a \in exclusionAnswers : a.result.changes \in Nat
BY DEF TypeOK, ExclusionAnswer, Snapshot

LEMMA OrderedEdits ==
    ASSUME OrderInv, NEW edits \in Edits, Edited(edits)
    PROVE  AnswersInOrder' /\ ChangesAreOut' /\ GridIsResult' /\ SaveAnswered'
<1> USE DEF OrderInv
<1>1. UNCHANGED <<cells, excluded, changes, resultCells, resultExcluded, resultChanges, inOrder,
                  saving, saveAnswers, exclusionAnswers>>
  BY DEF Edited, audit, result, save, exclusion
<1>2. AnswersInOrder' /\ ChangesAreOut' /\ SaveAnswered'
  BY <1>1 DEF AnswersInOrder, UpToDate, ChangesAreOut, SaveAnswered
<1>3. \A c \in Cells : /\ edits[c] # NoEdit => pendingEdits'[c] # NoEdit
                       /\ edits[c] = NoEdit => /\ pendingEdits'[c] = pendingEdits[c]
                                              /\ grid'[c] = grid[c]
  BY DEF Edited, recordEdit
<1> QED
  BY <1>1, <1>2, <1>3 DEF GridIsResult

LEMMA OrderedPosts ==
    ASSUME OrderInv, Posts
    PROVE  AnswersInOrder' /\ ChangesAreOut' /\ GridIsResult' /\ SaveAnswered'
<1> USE DEF OrderInv
<1>1. Posted
  BY PostsArePosted
<1>2. AnswersInOrder' /\ GridIsResult'
  BY <1>1 DEF Posted, AnswersInOrder, UpToDate, GridIsResult
<1>3. ChangesAreOut'
  BY <1>1 DEF Posted, ChangesAreOut
<1>4. \/ saveAnswers' = {}
      \/ UNCHANGED <<saving, saveAnswers>>
  BY DEF Posts, handleSave, SendsExclusion, SendExclusion, RefuseSave, RefuseExclusion,
         LoseSaveAnswer, LoseExclusionAnswer, save, SaveAnswered
<1> QED
  BY <1>2, <1>3, <1>4 DEF SaveAnswered

LEMMA OrderedServer ==
    ASSUME OrderInv, update_cells \/ \E x \in exclusions : update_row_exclusions(x)
    PROVE  AnswersInOrder' /\ ChangesAreOut' /\ GridIsResult' /\ SaveAnswered'
<1> USE DEF OrderInv
<1>1. /\ UNCHANGED <<resultCells, resultExcluded, resultChanges, inOrder, grid, pendingEdits>>
      /\ changes' = changes + 1
  BY DEF update_cells, update_row_exclusions, table, result
<1>2. resultChanges \in Nat /\ changes \in Nat
  BY DEF TypeOK
<1>3. UpToDate([cells |-> resultCells, excluded |-> resultExcluded, changes |-> resultChanges])'
  BY <1>1, <1>2 DEF AnswersInOrder, UpToDate
<1>4. CASE update_cells
  <2>1. /\ saveAnswers = {} /\ exclusionAnswers' = exclusionAnswers /\ saving' = "done"
        /\ saveAnswers' = {[cells |-> cells', excluded |-> excluded', changes |-> changes']}
    BY <1>4, SaveStores DEF update_cells, SaveAnswered, exclusion
  <2>2. AnswersInOrder'
    <3>1. ASSUME NEW a \in exclusionAnswers PROVE UpToDate(a.result)'
      BY <1>1, <3>1, OlderAnswer, NumbersOfAnswers DEF AnswersInOrder
    <3>2. \A answer \in saveAnswers' : UpToDate(answer)'
      BY <1>1, <1>2, <2>1 DEF UpToDate
    <3> QED
      BY <1>3, <2>1, <3>1, <3>2 DEF AnswersInOrder
  <2>3. ChangesAreOut'
    BY <1>1, <1>2, <2>1 DEF ChangesAreOut
  <2> QED
    BY <1>1, <2>1, <2>2, <2>3 DEF GridIsResult, SaveAnswered
<1>5. ASSUME NEW x \in exclusions, update_row_exclusions(x)
      PROVE  AnswersInOrder' /\ ChangesAreOut' /\ GridIsResult' /\ SaveAnswered'
  <2>1. saveAnswers' = saveAnswers /\ saving' = saving
    BY <1>5 DEF update_row_exclusions, save
  <2>2. PICK a \in ExclusionAnswer :
           /\ exclusionAnswers' = exclusionAnswers \cup {a}
           /\ a.result = [cells |-> cells', excluded |-> excluded', changes |-> changes']
    BY <1>5, ExclusionStores
  <2>3. AnswersInOrder'
    <3>1. ASSUME NEW b \in exclusionAnswers PROVE UpToDate(b.result)'
      BY <1>1, <3>1, OlderAnswer, NumbersOfAnswers DEF AnswersInOrder
    <3>2. ASSUME NEW answer \in saveAnswers PROVE UpToDate(answer)'
      BY <1>1, <3>2, OlderAnswer, NumbersOfAnswers DEF AnswersInOrder
    <3>3. UpToDate(a.result)'
      BY <1>1, <1>2, <2>2 DEF UpToDate
    <3> QED
      BY <1>3, <2>1, <2>2, <3>1, <3>2, <3>3 DEF AnswersInOrder
  <2>4. ChangesAreOut'
    <3> SUFFICES ASSUME inOrder, NEW n \in Nat, resultChanges < n, n <= changes + 1
                 PROVE  \/ \E answer \in saveAnswers : answer.changes = n
                        \/ \E b \in exclusionAnswers \cup {a} : b.result.changes = n
      BY <1>1, <2>1, <2>2 DEF ChangesAreOut
    <3>1. CASE n <= changes
      BY <3>1 DEF ChangesAreOut
    <3>2. CASE n = changes + 1
      BY <1>1, <2>2, <3>2
    <3> QED
      BY <1>2, <3>1, <3>2
  <2> QED
    BY <1>1, <2>1, <2>3, <2>4 DEF GridIsResult, SaveAnswered
<1> QED
  BY <1>4, <1>5

\* The answer that is shown is one of those under way, and the others remain.
LEMMA OrderedAnswer ==
    ASSUME OrderInv, NEW answer \in Snapshot, NEW kept, ShowAnswer(answer, kept), UpToDate(answer),
           UNCHANGED <<cells, excluded, changes>>,
           saveAnswers' \subseteq saveAnswers, exclusionAnswers' \subseteq exclusionAnswers,
           \A other \in saveAnswers : other \notin saveAnswers' => other = answer,
           \A b \in exclusionAnswers : b \notin exclusionAnswers' => b.result = answer
    PROVE  AnswersInOrder' /\ ChangesAreOut' /\ GridIsResult'
<1> USE DEF OrderInv
<1>1. /\ resultCells' = answer.cells /\ resultExcluded' = answer.excluded
      /\ resultChanges' = answer.changes
      /\ inOrder' = (inOrder /\ answer.changes = resultChanges + 1)
      /\ grid' = answer.cells
  BY DEF ShowAnswer, BuildRows
<1>2. AnswersInOrder'
  BY <1>1 DEF AnswersInOrder, UpToDate
<1>3. ChangesAreOut'
  <2> SUFFICES ASSUME inOrder', NEW n \in Nat, answer.changes < n, n <= changes
               PROVE  \/ \E other \in saveAnswers' : other.changes = n
                      \/ \E b \in exclusionAnswers' : b.result.changes = n
    BY <1>1 DEF ChangesAreOut
  <2>1. inOrder /\ answer.changes = resultChanges + 1
    BY <1>1
  <2>2. resultChanges \in Nat /\ answer.changes \in Nat
    BY DEF TypeOK, Snapshot
  <2>3. resultChanges < n /\ answer.changes # n
    BY <2>1, <2>2
  <2>4. \/ \E other \in saveAnswers : other.changes = n
        \/ \E b \in exclusionAnswers : b.result.changes = n
    BY <2>1, <2>3 DEF ChangesAreOut
  <2> QED
    BY <2>3, <2>4
<1>4. GridIsResult'
  BY <1>1 DEF GridIsResult
<1> QED
  BY <1>2, <1>3, <1>4

LEMMA OrderedAnswers ==
    ASSUME OrderInv, SaveDone \/ \E a \in exclusionAnswers : ExclusionDone(a)
    PROVE  AnswersInOrder' /\ ChangesAreOut' /\ GridIsResult' /\ SaveAnswered'
<1> USE DEF OrderInv
<1>1. CASE SaveDone
  <2>1. /\ UNCHANGED <<cells, excluded, changes, exclusionAnswers>> /\ saveAnswers' = {}
    BY <1>1, SaveShows
  <2>2. SaveAnswered'
    BY <2>1 DEF SaveAnswered
  <2>3. ASSUME NEW answer \in saveAnswers, ShowAnswer(answer, NoEdits)
        PROVE  AnswersInOrder' /\ ChangesAreOut' /\ GridIsResult'
    <3>1. answer \in Snapshot /\ UpToDate(answer)
      BY DEF TypeOK, AnswersInOrder
    <3>2. \A other \in saveAnswers : other = answer
      BY DEF SaveAnswered
    <3> QED
      BY <2>1, <2>3, <3>1, <3>2, OrderedAnswer
  <2>4. ASSUME saving = "refused", UNCHANGED <<result, grid, pendingEdits, openCount>>
        PROVE  AnswersInOrder' /\ ChangesAreOut' /\ GridIsResult'
    <3>1. saveAnswers = {}
      BY <2>4 DEF SaveAnswered
    <3> QED
      BY <2>1, <2>4, <3>1
         DEF result, AnswersInOrder, UpToDate, ChangesAreOut, GridIsResult
  <2> QED
    BY <1>1, <2>2, <2>3, <2>4, SaveShows
<1>2. ASSUME NEW a \in exclusionAnswers, ExclusionDone(a)
      PROVE  AnswersInOrder' /\ ChangesAreOut' /\ GridIsResult' /\ SaveAnswered'
  <2>1. a.result \in Snapshot /\ UpToDate(a.result)
    BY DEF TypeOK, ExclusionAnswer, AnswersInOrder
  <2>2. /\ UNCHANGED <<cells, excluded, changes, saving, saveAnswers>>
        /\ exclusionAnswers' = exclusionAnswers \ {a}
        /\ ShowAnswer(a.result, pendingEdits)
    BY <1>2 DEF ExclusionDone, audit, save
  <2>3. SaveAnswered'
    BY <2>2 DEF SaveAnswered
  <2> QED
    BY <2>1, <2>2, <2>3, OrderedAnswer
<1> QED
  BY <1>1, <1>2

LEMMA OrderStep == OrderInv /\ [Next]_vars => OrderInv'
<1> SUFFICES ASSUME OrderInv, [Next]_vars PROVE OrderInv'
  OBVIOUS
<1>1. TypeOK /\ TypeOK'
  BY TypeStep DEF OrderInv
<1>2. CASE UNCHANGED vars
  BY <1>1, <1>2 DEF vars, audit, table, result, save, exclusion, OrderInv, AnswersInOrder, UpToDate,
                    ChangesAreOut, GridIsResult, SaveAnswered
<1>3. CASE Next
  BY <1>1, <1>3, Steps, OrderedEdits, OrderedPosts, OrderedServer, OrderedAnswers DEF OrderInv
<1> QED
  BY <1>2, <1>3

LEMMA OrderInvariant == Spec => []OrderInv
  BY InitOrder, OrderStep, PTL DEF Spec

\* With nothing under way and no answer lost or overtaken, every change is taken in.
LEMMA NothingOutstanding ==
    ASSUME OrderInv, inOrder, Idle
    PROVE  resultCells = cells /\ resultExcluded = excluded
<1> USE DEF OrderInv
<1>1. saveAnswers = {} /\ exclusionAnswers = {}
  BY DEF Idle, SaveAnswered
<1>2. resultChanges \in Nat /\ changes \in Nat /\ resultChanges <= changes
  BY DEF TypeOK, AnswersInOrder, UpToDate
<1>3. ~(resultChanges < changes)
  BY <1>1, <1>2 DEF ChangesAreOut
<1>4. resultChanges = changes
  BY <1>2, <1>3
<1> QED
  BY <1>4 DEF AnswersInOrder, UpToDate

-----------------------------------------------------------------------------
(* The patient reviewer.                                                   *)

LEMMA InitPatient == Init => PatientInv
<1> SUFFICES ASSUME Init PROVE OneRequest /\ SavedIsStored /\ NoEditLost /\ PendingIsShown
  BY InitOrder DEF PatientInv
<1>1. \A c \in Cells : pendingEdits[c] = NoEdit /\ wanted[c] = NoEdit
  BY NoEditsIsEdits DEF Init
<1> QED
  BY <1>1 DEF Init, OneRequest, NoExclusion, SavedIsStored, NoEditLost, EditsKept, PendingIsShown

LEMMA PatientEdits ==
    ASSUME PatientInv, patient, patient' = patient, NEW edits \in Edits, Edited(edits)
    PROVE  OneRequest' /\ SavedIsStored' /\ NoEditLost' /\ PendingIsShown'
<1> USE DEF PatientInv
<1>1. /\ saving' = "none" /\ exclusions' = {} /\ exclusionAnswers' = {} /\ saveAnswers' = {}
      /\ cells' = cells
  BY DEF Edited, Idle, audit, save, exclusion, OrderInv, SaveAnswered
<1>2. \A c \in Cells :
         /\ edits[c] # NoEdit => /\ pendingEdits'[c] = edits[c] /\ wanted'[c] = edits[c]
                                /\ grid'[c] = Manual(edits[c])
         /\ edits[c] = NoEdit => /\ pendingEdits'[c] = pendingEdits[c]
                                /\ wanted'[c] = wanted[c] /\ grid'[c] = grid[c]
  BY DEF Edited, recordEdit
<1>3. OneRequest'
  BY <1>1, <1>2 DEF OneRequest, NoExclusion
<1>4. SavedIsStored'
  BY <1>1 DEF SavedIsStored
<1>5. NoEditLost'
  BY <1>1, <1>2 DEF NoEditLost, EditsKept
<1>6. PendingIsShown'
  BY <1>2 DEF PendingIsShown
<1> QED
  BY <1>3, <1>4, <1>5, <1>6

LEMMA PatientPosts ==
    ASSUME PatientInv, patient, patient' = patient, Posts
    PROVE  OneRequest' /\ SavedIsStored' /\ NoEditLost' /\ PendingIsShown'
<1> USE DEF PatientInv
<1>1. /\ cells' = cells /\ wanted' = wanted /\ grid' = grid /\ pendingEdits' = pendingEdits
      /\ saveAnswers' \in {saveAnswers, {}}
  BY PostsArePosted DEF Posted
<1>2. SavedIsStored' /\ NoEditLost' /\ PendingIsShown'
  BY <1>1 DEF SavedIsStored, NoEditLost, EditsKept, PendingIsShown
<1>3. CASE handleSave
  <2>1. NoExclusion' /\ saveEdits' = pendingEdits
    BY <1>3 DEF handleSave, Idle, exclusion, NoExclusion
  <2> QED
    BY <1>1, <1>2, <2>1 DEF OneRequest
<1>4. CASE SendsExclusion
  <2>1. saving' = "none" /\ pendingEdits = NoEdits
    BY <1>4 DEF SendsExclusion, SendExclusion, Idle, NothingPending, save
  <2> QED
    BY <1>1, <1>2, <2>1 DEF OneRequest
<1>5. CASE RefuseSave \/ LoseSaveAnswer
  <2>1. saving # "none" /\ saveEdits' = saveEdits /\ UNCHANGED exclusion
    BY <1>5 DEF RefuseSave, LoseSaveAnswer
  <2> QED
    BY <1>1, <1>2, <2>1 DEF OneRequest, NoExclusion, exclusion
<1>6. CASE \/ \E x \in exclusions : RefuseExclusion(x)
           \/ \E a \in exclusionAnswers : LoseExclusionAnswer(a)
  <2>1. ~NoExclusion /\ saving' = saving
    BY <1>6 DEF RefuseExclusion, LoseExclusionAnswer, save, NoExclusion
  <2> QED
    BY <1>1, <1>2, <2>1 DEF OneRequest
<1> QED
  BY <1>3, <1>4, <1>5, <1>6 DEF Posts

LEMMA PatientServer ==
    ASSUME PatientInv, patient, patient' = patient,
           update_cells \/ \E x \in exclusions : update_row_exclusions(x)
    PROVE  OneRequest' /\ SavedIsStored' /\ NoEditLost' /\ PendingIsShown'
<1> USE DEF PatientInv
<1>1. CASE update_cells
  <2>1. /\ saving = "sent" /\ NoExclusion /\ NoExclusion'
        /\ saveEdits = pendingEdits /\ saveEdits' = saveEdits
        /\ pendingEdits' = pendingEdits /\ wanted' = wanted /\ grid' = grid
    BY <1>1 DEF update_cells, OneRequest, table, exclusion, NoExclusion
  <2>2. \A c \in Cells : cells'[c] = IF pendingEdits[c] = NoEdit THEN cells[c]
                                     ELSE Manual(pendingEdits[c])
    BY <1>1, <2>1, SaveStores DEF OrderInv
  <2>3. NoEditLost'
    BY <2>1, <2>2 DEF NoEditLost, EditsKept, OneRequest
  <2>4. OneRequest'
    BY <2>1 DEF OneRequest
  <2>5. SavedIsStored'
    BY <2>1, <2>2 DEF SavedIsStored
  <2> QED
    BY <2>1, <2>3, <2>4, <2>5 DEF PendingIsShown
<1>2. ASSUME NEW x \in exclusions, update_row_exclusions(x)
      PROVE  OneRequest' /\ SavedIsStored' /\ NoEditLost' /\ PendingIsShown'
  <2>1. /\ ~NoExclusion /\ cells' = cells
        /\ saving' = saving /\ saveAnswers' = saveAnswers
        /\ pendingEdits' = pendingEdits /\ wanted' = wanted /\ grid' = grid
    BY <1>2 DEF update_row_exclusions, table, save, NoExclusion
  <2> QED
    BY <2>1 DEF NoEditLost, EditsKept, OneRequest, SavedIsStored, PendingIsShown
<1> QED
  BY <1>1, <1>2

LEMMA PatientAnswers ==
    ASSUME PatientInv, patient, patient' = patient,
           SaveDone \/ \E a \in exclusionAnswers : ExclusionDone(a)
    PROVE  OneRequest' /\ SavedIsStored' /\ NoEditLost' /\ PendingIsShown'
<1> USE DEF PatientInv
<1>1. /\ saving' = "none" /\ cells' = cells /\ wanted' = wanted
      /\ saveAnswers' = {}
  <2>1. CASE SaveDone
    BY <2>1, SaveShows
  <2>2. CASE \E a \in exclusionAnswers : ExclusionDone(a)
    BY <2>2 DEF ExclusionDone, audit, save, OneRequest, NoExclusion, OrderInv, SaveAnswered
  <2> QED
    BY <2>1, <2>2
<1>2. SavedIsStored'
  BY <1>1 DEF SavedIsStored
<1>3. ASSUME pendingEdits' = NoEdits,
             \A c \in Cells : pendingEdits[c] # NoEdit => cells[c] = Manual(pendingEdits[c])
      PROVE  OneRequest' /\ NoEditLost' /\ PendingIsShown'
  <2>1. \A c \in Cells : pendingEdits'[c] = NoEdit
    BY <1>3, NoEditsIsEdits
  <2> QED
    BY <1>1, <1>3, <2>1 DEF OneRequest, NoEditLost, EditsKept, PendingIsShown
<1>4. ASSUME NEW answer, ShowAnswer(answer, NoEdits) PROVE pendingEdits' = NoEdits
  BY <1>4 DEF ShowAnswer
<1>5. CASE SaveDone
  <2>1. CASE \E answer \in saveAnswers : ShowAnswer(answer, NoEdits)
    BY <1>2, <1>3, <1>4, <2>1 DEF SavedIsStored
  <2>2. CASE UNCHANGED <<result, grid, pendingEdits, openCount>>
    <3>1. NoExclusion' \/ pendingEdits = NoEdits
      BY <1>5, SaveShows DEF OneRequest, NoExclusion
    <3> QED
      BY <1>1, <1>2, <2>2, <3>1 DEF OneRequest, NoEditLost, EditsKept, PendingIsShown
  <2> QED
    BY <1>5, <2>1, <2>2, SaveShows
<1>6. ASSUME NEW a \in exclusionAnswers, ExclusionDone(a)
      PROVE  OneRequest' /\ NoEditLost' /\ PendingIsShown'
  <2>1. pendingEdits = NoEdits
    BY DEF OneRequest, NoExclusion
  <2>2. pendingEdits' = NoEdits
    BY <1>4, <1>6, <2>1 DEF ExclusionDone
  <2> QED
    BY <1>3, <2>1, <2>2, NoEditsIsEdits
<1> QED
  BY <1>2, <1>5, <1>6

LEMMA PatientStep == PatientInv /\ [Next]_vars => PatientInv'
<1> SUFFICES ASSUME PatientInv, [Next]_vars PROVE PatientInv'
  OBVIOUS
<1>1. TypeOK /\ OrderInv'
  BY OrderStep DEF PatientInv, OrderInv
<1>2. patient' = patient
  BY <1>1, Steps DEF vars
<1>3. CASE ~patient
  BY <1>1, <1>2, <1>3 DEF PatientInv, OneRequest, SavedIsStored, NoEditLost, PendingIsShown
<1>4. CASE patient /\ UNCHANGED vars
  BY <1>1, <1>4 DEF PatientInv, vars, audit, table, result, save, exclusion, OneRequest,
                    NoExclusion, SavedIsStored, NoEditLost, EditsKept, PendingIsShown
<1>5. CASE patient /\ Next
  BY <1>1, <1>2, <1>5, Steps, PatientEdits, PatientPosts, PatientServer, PatientAnswers
     DEF PatientInv
<1> QED
  BY <1>3, <1>4, <1>5

LEMMA PatientInvariant == Spec => []PatientInv
  BY InitPatient, PatientStep, PTL DEF Spec

\* A reviewer who waits for the answers, and saves before rows are taken out, loses no
\* edit, however many requests fail.
THEOREM PatientLosesNothing == Spec => []NoEditLost
<1>1. PatientInv => NoEditLost
  BY DEF PatientInv
<1> QED
  BY <1>1, PatientInvariant, PTL

\* However saves and exclusions of any reviewer overlap, the table is the audit when no
\* request is out, unless an answer was lost or came after a newer one; and the grid of
\* a patient reviewer shows what he has not saved.
THEOREM TableShowsTheAudit == Spec => []ViewIsCurrent
<1>1. OrderInv /\ PatientInv => ViewIsCurrent
  <2> SUFFICES ASSUME OrderInv, PatientInv PROVE ViewIsCurrent
    OBVIOUS
  <2>1. ASSUME inOrder, Idle
        PROVE  /\ resultCells = cells /\ resultExcluded = excluded
               /\ \A c \in Cells : Shown(c) /\ pendingEdits[c] = NoEdit => grid[c] = cells[c]
    BY <2>1, NothingOutstanding DEF OrderInv, GridIsResult
  <2>2. PendingIsShown
    BY DEF PatientInv
  <2> QED
    BY <2>1, <2>2 DEF ViewIsCurrent, PendingIsShown
<1> QED
  BY <1>1, OrderInvariant, PatientInvariant, PTL

-----------------------------------------------------------------------------
(* The queue.  A displayed row has a position, from 1 on; the search comes *)
(* to a first candidate because rows, pinned or not, Excel columns and     *)
(* places in the array are numbered, and to one only because every field   *)
(* has a place of its own.                                                 *)

\* What is assumed of the queue.
\* (An instance has its own copy of the operators of FiniteSets; expanded, they are the same.)
LEMMA QueueConstants ==
    /\ IsFiniteSet(QueueRows) /\ Cardinality(QueueRows) \in Nat
    /\ QueueRows = 1..Cardinality(QueueRows)
    /\ Required \subseteq QueueFields
    /\ Templates \subseteq [QueueFields -> Seq(1..26)]
    /\ Place \in [QueueFields -> Nat] /\ \A f, g \in QueueFields : f # g => Place[f] # Place[g]
    /\ NoCell \notin Queue!Cells
<1>1. IsFiniteSet(QueueRows) /\ QueueRows = 1..Cardinality(QueueRows)
  BY ReviewPageAssumption
     DEF Queue!QueueAssumption, Queue!IsFiniteSet, IsFiniteSet, Queue!Cardinality, Cardinality
<1> QED
  BY <1>1, ReviewPageAssumption, FS_CardinalityType DEF Queue!QueueAssumption

LEMMA LeastOf == ASSUME NEW S, S \subseteq Nat, S # {} PROVE \E m \in S : \A k \in S : m <= k
<1>1. PICK m \in S : \A k \in S : <<k, m>> \notin OpToRel(<, Nat)
  BY WFMin, NatLessThanWellFounded
<1>2. \A k \in S : ~(k < m)
  BY <1>1 DEF OpToRel
<1> QED
  BY <1>2

\* A set of naturals that has 0 and every successor has them all.
LEMMA Counting ==
    ASSUME NEW G, G \subseteq Nat, 0 \in G, \A n \in G : n + 1 \in G
    PROVE  G = Nat
<1> SUFFICES ASSUME Nat \ G # {} PROVE FALSE
  OBVIOUS
<1>1. PICK m \in Nat \ G : \A k \in Nat \ G : m <= k
  BY LeastOf
<1>2. m - 1 \in Nat /\ m - 1 < m
  OBVIOUS
<1> QED
  BY <1>1, <1>2

\* The number of elements of D up to r.
Rank(D, r) == Cardinality({q \in D : q <= r})

LEMMA RankBounded ==
    ASSUME NEW D, IsFiniteSet(D), D \subseteq Nat, NEW r \in D
    PROVE  Rank(D, r) \in 1..Cardinality(D)
<1> DEFINE UpTo == {q \in D : q <= r}
<1>1. IsFiniteSet(UpTo) /\ Cardinality(UpTo) <= Cardinality(D)
  BY FS_Subset
<1>2. Cardinality(UpTo) \in Nat /\ Cardinality(D) \in Nat
  BY <1>1, FS_CardinalityType
<1>3. UpTo # {}
  <2>1. r \in UpTo
    OBVIOUS
  <2> QED
    BY <2>1
<1>4. Cardinality(UpTo) # 0
  BY <1>1, <1>3, FS_EmptySet
<1> QED
  BY <1>1, <1>2, <1>4 DEF Rank

LEMMA RankRises ==
    ASSUME NEW D, IsFiniteSet(D), D \subseteq Nat, NEW r \in D, NEW s \in D, r < s
    PROVE  Rank(D, r) < Rank(D, s)
<1> DEFINE UpTo(x) == {q \in D : q <= x}
<1>1. IsFiniteSet(UpTo(r)) /\ IsFiniteSet(UpTo(s))
  BY FS_Subset
<1>2. s \notin UpTo(r) /\ UpTo(r) \cup {s} \subseteq UpTo(s)
  <2>1. \A q \in D : q <= r => q <= s
    OBVIOUS
  <2>2. s <= s /\ ~(s <= r)
    OBVIOUS
  <2> QED
    BY <2>1, <2>2
<1>3. Cardinality(UpTo(r) \cup {s}) = Cardinality(UpTo(r)) + 1
  BY <1>1, <1>2, FS_AddElement
<1>4. Cardinality(UpTo(r) \cup {s}) <= Cardinality(UpTo(s))
  BY <1>1, <1>2, FS_Subset
<1>5. Cardinality(UpTo(r)) \in Nat /\ Cardinality(UpTo(s)) \in Nat
  BY <1>1, FS_CardinalityType
<1> QED
  BY <1>3, <1>4, <1>5 DEF Rank

LEMMA RankTaken ==
    ASSUME NEW D, IsFiniteSet(D), D \subseteq Nat, NEW k \in 1..Cardinality(D)
    PROVE  \E r \in D : Rank(D, r) = k
<1> DEFINE n == Cardinality(D)
           f == [r \in D |-> Rank(D, r)]
<1>1. n \in Nat
  BY FS_CardinalityType
<1>2. IsFiniteSet(1..n) /\ Cardinality(1..n) = n
  BY <1>1, FS_Interval
<1>3. f \in [D -> 1..n]
  BY RankBounded
<1>4. ASSUME NEW x \in D, NEW y \in D, x < y PROVE f[x] # f[y]
  <2>1. Rank(D, x) < Rank(D, y) /\ f[x] = Rank(D, x) /\ f[y] = Rank(D, y)
    BY <1>4, RankRises
  <2>2. f[x] \in Int /\ f[y] \in Int
    BY <1>3
  <2> HIDE DEF f
  <2> QED
    BY <2>1, <2>2
<1> HIDE DEF f
<1>5. f \in Injection(D, 1..n)
  <2>1. \A x, y \in D : x # y => x < y \/ y < x
    OBVIOUS
  <2>2. \A x, y \in D : f[x] = f[y] => x = y
    BY <1>4, <2>1
  <2> QED
    BY <1>3, <2>2 DEF Injection, IsInjective
<1>6. f \in Surjection(D, 1..n)
  BY <1>2, <1>5, FS_Injection
<1> QED
  BY <1>6 DEF Surjection, f

LEMMA DisplayedRows ==
    ASSUME Queue!TypeOK
    PROVE  /\ IsFiniteSet(displayed) /\ displayed \subseteq Nat
           /\ displayed \subseteq QueueRows
           /\ Queue!Positions = 1..Cardinality(displayed)
           /\ Queue!Positions \subseteq QueueRows
           /\ \A r : Queue!Position(r) = Rank(displayed, r)
<1>1. displayed \subseteq QueueRows
  BY DEF Queue!TypeOK
<1>2. IsFiniteSet(displayed) /\ Cardinality(displayed) <= Cardinality(QueueRows)
  BY <1>1, QueueConstants, FS_Subset
<1>3. Cardinality(displayed) \in Nat
  BY <1>2, FS_CardinalityType
<1>4. \A r : Queue!Position(r) = Rank(displayed, r)
  BY DEF Queue!Position, Rank, Queue!Cardinality, Cardinality
<1>5. Queue!Positions = 1..Cardinality(displayed)
  BY DEF Queue!Positions, Queue!Cardinality, Cardinality
<1>6. displayed \subseteq Nat /\ Queue!Positions \subseteq QueueRows
  BY <1>1, <1>2, <1>3, <1>5, QueueConstants
<1> QED
  BY <1>1, <1>2, <1>4, <1>5, <1>6

\* Under a position of the grid there is one displayed row.
LEMMA PositionsAndRows ==
    ASSUME Queue!TypeOK
    PROVE  /\ \A r \in displayed : Queue!Position(r) \in Queue!Positions
           /\ \A r, s \in displayed : r < s => Queue!Position(r) < Queue!Position(s)
           /\ \A i \in Queue!Positions : Queue!RowAt(i) \in displayed
<1>1. \A i \in Queue!Positions : \E r \in displayed : Queue!Position(r) = i
  BY DisplayedRows, RankTaken
<1>2. \A i \in Queue!Positions : Queue!RowAt(i) \in displayed
  BY <1>1 DEF Queue!RowAt
<1>3. \A r \in displayed : Queue!Position(r) \in Queue!Positions
  BY DisplayedRows, RankBounded
<1>4. \A r, s \in displayed : r < s => Queue!Position(r) < Queue!Position(s)
  BY DisplayedRows, RankRises
<1> QED
  BY <1>2, <1>3, <1>4

-----------------------------------------------------------------------------
(* Excel columns.  The fold of excelColIndex is a function defined by      *)
(* recursion over sets of positions: it exists, and it computes the index  *)
(* letter by letter.                                                       *)

\* The greatest element of a set of positions.
LEMMA LastOf ==
    ASSUME NEW n \in Nat, NEW s \in SUBSET (1..n), s # {}
    PROVE  Queue!Max(s) \in s /\ \A i \in s : i <= Queue!Max(s)
<1> DEFINE fromEnd == {n - i : i \in s}
<1>1. fromEnd \subseteq Nat /\ fromEnd # {}
  <2>1. ASSUME NEW i \in s PROVE n - i \in Nat
    <3>1. i \in 1..n
      OBVIOUS
    <3> QED
      BY <3>1
  <2> QED
    BY <2>1
<1>2. PICK m \in fromEnd : \A k \in fromEnd : m <= k
  BY <1>1, LeastOf
<1>3. PICK j \in s : m = n - j
  BY <1>2
<1>4. \A i \in s : j >= i
  BY <1>2, <1>3
<1>5. \E x \in s : \A y \in s : x >= y
  BY <1>4
<1>6. Queue!Max(s) \in s /\ \A i \in s : Queue!Max(s) >= i
  BY <1>5 DEF Queue!Max
<1> QED
  BY <1>6

\* The equation of excelColIndex, over the sets of positions in S.
DigitStep(S, seq, g) ==
    [s \in SUBSET S |->
        IF s = {} THEN 0 ELSE g[s \ {Queue!Max(s)}] * 26 + seq[Queue!Max(s)]]
Digits(S, seq) == CHOOSE g : g = DigitStep(S, seq, g)

LEMMA DigitsExist == ASSUME NEW n \in Nat, NEW seq PROVE \E g : g = DigitStep(1..n, seq, g)
<1> DEFINE G == {k \in Nat : \E g : g = DigitStep(1..k, seq, g)}
<1>1. 0 \in G
  <2> DEFINE z == [s \in SUBSET (1..0) |-> 0]
  <2>1. \A s \in SUBSET (1..0) : s = {}
    OBVIOUS
  <2>2. z = DigitStep(1..0, seq, z)
    BY <2>1 DEF DigitStep
  <2> QED
    BY <2>2
<1>2. ASSUME NEW k \in G PROVE k + 1 \in G
  <2>1. k \in Nat /\ k + 1 \in Nat
    OBVIOUS
  <2>2. PICK g : g = DigitStep(1..k, seq, g)
    OBVIOUS
  <2> DEFINE h == DigitStep(1..(k + 1), seq, g)
  <2>3. ASSUME NEW s \in SUBSET (1..(k + 1)), s # {}
        PROVE  h[s \ {Queue!Max(s)}] = g[s \ {Queue!Max(s)}]
    <3> DEFINE last == Queue!Max(s)
               t == s \ {last}
    <3>1. last \in s /\ \A i \in s : i <= last
      BY <2>1, <2>3, LastOf
    <3>2. ASSUME NEW i \in t PROVE i \in 1..k
      <4>1. i \in 1..(k + 1) /\ last \in 1..(k + 1) /\ i <= last /\ i # last
        BY <2>3, <3>1
      <4> QED
        BY <2>1, <4>1
    <3>3. t \in SUBSET (1..k) /\ t \in SUBSET (1..(k + 1))
      BY <2>1, <3>2
    <3>4. h[t] = IF t = {} THEN 0 ELSE g[t \ {Queue!Max(t)}] * 26 + seq[Queue!Max(t)]
      BY <3>3 DEF DigitStep
    <3>5. g[t] = IF t = {} THEN 0 ELSE g[t \ {Queue!Max(t)}] * 26 + seq[Queue!Max(t)]
      BY <2>2, <3>3 DEF DigitStep
    <3> QED
      BY <3>4, <3>5
  <2>4. h = DigitStep(1..(k + 1), seq, h)
    BY <2>3 DEF DigitStep
  <2> HIDE DEF h
  <2> QED
    BY <2>1, <2>4
<1>3. G = Nat
  <2>1. G \subseteq Nat
    OBVIOUS
  <2> HIDE DEF G
  <2> QED
    BY <1>1, <1>2, <2>1, Counting
<1> QED
  BY <1>3

LEMMA LettersOf ==
    ASSUME NEW letters \in Seq(1..26)
    PROVE  /\ Len(letters) \in Nat /\ DOMAIN letters = 1..Len(letters)
           /\ \A k \in 1..Len(letters) : letters[k] \in 1..26
  BY LenProperties, ElementOfSeq

\* excelColIndex is computed letter by letter, from the left.
LEMMA IndexOfPrefixes ==
    ASSUME NEW letters \in Seq(1..26)
    PROVE  \E v \in [0..Len(letters) -> Nat] :
              /\ v[0] = 0
              /\ \A k \in 1..Len(letters) : v[k] = v[k - 1] * 26 + letters[k]
              /\ Queue!excelColIndex(letters) = v[Len(letters)]
<1> DEFINE n == Len(letters)
           g == Digits(1..n, letters)
           v == [k \in 0..n |-> g[1..k]]
<1>1. n \in Nat /\ DOMAIN letters = 1..n /\ \A k \in 1..n : letters[k] \in 1..26
  BY LettersOf, Zenon
<1>2. Queue!excelColIndex(letters) = Digits(DOMAIN letters, letters)[DOMAIN letters]
  BY Zenon DEF Queue!excelColIndex, Queue!FoldLeft, Queue!MapThenFoldSet, Digits, DigitStep
<1>3. g = DigitStep(1..n, letters, g)
  <2>1. \E d : d = DigitStep(1..n, letters, d)
    BY <1>1, DigitsExist
  <2> QED
    BY <2>1 DEF Digits
<1> HIDE DEF g
<1>4. v[0] = 0
  <2>1. 1..0 = {}
    OBVIOUS
  <2> QED
    BY <1>1, <1>3, <2>1 DEF DigitStep
<1>5. ASSUME NEW k \in 1..n PROVE v[k] = v[k - 1] * 26 + letters[k]
  <2>1. 1..k \in SUBSET (1..n) /\ k \in 1..k
    BY <1>1
  <2>2. Queue!Max(1..k) \in 1..k /\ \A i \in 1..k : i <= Queue!Max(1..k)
    BY <1>1, <2>1, LastOf
  <2>3. Queue!Max(1..k) = k
    BY <2>1, <2>2
  <2>4. (1..k) \ {k} = 1..(k - 1)
    BY <1>1
  <2>5. g[1..k] = g[1..(k - 1)] * 26 + letters[k]
    BY <1>3, <2>1, <2>3, <2>4 DEF DigitStep
  <2>6. k \in 0..n /\ k - 1 \in 0..n
    BY <1>1
  <2>7. v[k] = g[1..k] /\ v[k - 1] = g[1..(k - 1)]
    BY <2>6
  <2> HIDE DEF v
  <2> QED
    BY <2>5, <2>7
<1> HIDE DEF n, v
<1>6. \A k \in 0..n : v[k] \in Nat
  <2> DEFINE G == {k \in Nat : k <= n => v[k] \in Nat}
  <2>1. 0 \in G
    BY <1>4
  <2>2. ASSUME NEW k \in G PROVE k + 1 \in G
    <3>1. k \in Nat /\ (k <= n => v[k] \in Nat)
      OBVIOUS
    <3>2. ASSUME k + 1 <= n PROVE v[k + 1] \in Nat
      <4>1. k + 1 \in 1..n /\ (k + 1) - 1 = k /\ v[k] \in Nat
        BY <1>1, <3>1, <3>2
      <4>2. letters[k + 1] \in Nat
        <5>1. letters[k + 1] \in 1..26
          BY <1>1, <4>1
        <5>2. \A d \in 1..26 : d \in Nat
          OBVIOUS
        <5> QED
          BY <5>1, <5>2
      <4>3. v[k + 1] = v[(k + 1) - 1] * 26 + letters[k + 1]
        BY <1>5, <4>1
      <4>4. v[k + 1] = v[k] * 26 + letters[k + 1]
        BY <4>1, <4>3
      <4>5. \A a, b \in Nat : a * 26 + b \in Nat
        OBVIOUS
      <4> QED
        BY <4>1, <4>2, <4>4, <4>5
    <3> QED
      BY <3>1, <3>2
  <2>3. G = Nat
    <3>1. G \subseteq Nat
      OBVIOUS
    <3> HIDE DEF G
    <3> QED
      BY <2>1, <2>2, <3>1, Counting
  <2> QED
    BY <2>3
<1>7. v \in [0..n -> Nat]
  BY <1>6 DEF v
<1>8. Queue!excelColIndex(letters) = v[n]
  BY <1>1, <1>2 DEF g, v
<1> QED
  BY <1>4, <1>5, <1>7, <1>8 DEF n

LEMMA IndexIsNat ==
    ASSUME NEW letters \in Seq(1..26)
    PROVE  Queue!excelColIndex(letters) \in Nat
<1>1. Len(letters) \in 0..Len(letters)
  BY LettersOf
<1> QED
  BY <1>1, IndexOfPrefixes

-----------------------------------------------------------------------------
(* The search for the next open cell.                                      *)

LEMMA ColumnsAreNumbers ==
    ASSUME Queue!TypeOK, NEW f \in QueueFields
    PROVE  Queue!index(f) \in Nat /\ Place[f] \in Nat
<1>1. column[f] \in Seq(1..26)
  <2>1. Queue!NoColumns[f] = <<>> /\ <<>> \in Seq(1..26)
    BY DEF Queue!NoColumns
  <2>2. column = Queue!NoColumns \/ column \in [QueueFields -> Seq(1..26)]
    BY QueueConstants DEF Queue!TypeOK
  <2> QED
    BY <2>1, <2>2
<1> QED
  BY <1>1, IndexIsNat, QueueConstants DEF Queue!index

\* Of a set of things that have numbers, one has the least.
LEMMA LeastNumbered ==
    ASSUME NEW S, S # {}, NEW number, \A x \in S : number[x] \in Nat
    PROVE  \E x \in S : \A y \in S : number[x] <= number[y]
<1> DEFINE numbers == {number[x] : x \in S}
<1>1. numbers \subseteq Nat /\ numbers # {}
  OBVIOUS
<1>2. PICK m \in numbers : \A k \in numbers : m <= k
  BY <1>1, LeastOf
<1> QED
  BY <1>2

\* Of a row of fields one stands left of all others.
LEMMA LeftmostField ==
    ASSUME Queue!TypeOK, NEW F \in SUBSET QueueFields, F # {}
    PROVE  \E f \in F : \A g \in F : ~Queue!LeftOf(g, f)
<1> DEFINE pinned == F \cap required
           first == IF pinned # {} THEN pinned ELSE F
           indices == [f \in QueueFields |-> Queue!index(f)]
<1>1. first # {} /\ first \subseteq F /\ first \subseteq QueueFields
  OBVIOUS
<1>2. \A f \in first, g \in F : Queue!LeftOf(g, f) => g \in first /\ Queue!SortedBefore(g, f)
  BY DEF Queue!LeftOf
<1> HIDE DEF first
<1>3. \A f \in first : indices[f] \in Nat
  BY <1>1, ColumnsAreNumbers
<1>4. PICK least \in first : \A g \in first : indices[least] <= indices[g]
  BY <1>1, <1>3, LeastNumbered
<1> DEFINE same == {f \in first : indices[f] = indices[least]}
<1>5. same # {} /\ same \subseteq first
  OBVIOUS
<1>6. \A f \in same : Place[f] \in Nat
  BY <1>1, <1>5, ColumnsAreNumbers
<1> HIDE DEF same
<1>7. PICK f \in same : \A g \in same : Place[f] <= Place[g]
  BY <1>5, <1>6, LeastNumbered
<1>8. ASSUME NEW g \in first PROVE ~Queue!SortedBefore(g, f)
  <2>1. f \in first /\ indices[f] = indices[least]
    BY <1>5 DEF same
  <2>2. indices[f] <= indices[g] /\ (indices[f] = indices[g] => Place[f] <= Place[g])
    BY <1>4, <1>7, <2>1 DEF same
  <2>3. /\ indices[f] \in Nat /\ indices[g] \in Nat /\ Place[f] \in Nat /\ Place[g] \in Nat
        /\ indices[f] = Queue!index(f) /\ indices[g] = Queue!index(g)
    BY <1>1, <2>1, ColumnsAreNumbers
  <2> HIDE DEF indices
  <2> QED
    BY <2>2, <2>3 DEF Queue!SortedBefore
<1>9. f \in first
  BY <1>5
<1> QED
  BY <1>1, <1>2, <1>8, <1>9

\* Of the candidates one is read before all others.
LEMMA FirstCandidate ==
    ASSUME Queue!TypeOK, NEW T, T \subseteq displayed \X QueueFields, T # {}
    PROVE  \E c \in T : \A d \in T : Queue!ReadBefore(c, d)
<1> DEFINE rows == {c[1] : c \in T}
<1>1. rows \subseteq Nat /\ rows # {}
  BY DisplayedRows
<1>2. PICK m \in rows : \A k \in rows : m <= k
  BY <1>1, LeastOf
<1> DEFINE inRow == {c \in T : c[1] = m}
           fields == {c[2] : c \in inRow}
<1>3. fields \in SUBSET QueueFields /\ fields # {}
  BY <1>2
<1>4. PICK f \in fields : \A g \in fields : ~Queue!LeftOf(g, f)
  BY <1>3, LeftmostField
<1>5. PICK c \in inRow : c[2] = f
  BY <1>4
<1>6. ASSUME NEW d \in T PROVE Queue!ReadBefore(c, d)
  <2>1. c[1] = m /\ m \in Nat /\ d[1] \in Nat /\ m <= d[1]
    BY <1>1, <1>2, <1>5
  <2>2. CASE m < d[1]
    BY <2>1, <2>2 DEF Queue!ReadBefore
  <2>3. CASE m = d[1]
    <3>1. d[2] \in fields
      BY <2>3
    <3>2. ~Queue!LeftOf(d[2], c[2])
      BY <1>4, <1>5, <3>1
    <3> QED
      BY <2>1, <2>3, <3>2 DEF Queue!ReadBefore
  <2> QED
    BY <2>1, <2>2, <2>3
<1> QED
  BY <1>5, <1>6

\* What focusNextOpen does.
LEMMA FocusMoves ==
    ASSUME Queue!TypeOK, NEW content, Queue!focusNextOpen(content)
    PROVE  \/ Queue!Candidates(content) = {} /\ focus' = focus /\ selectedCell' = selectedCell
           \/ \E next \in Queue!Candidates(content) :
                 /\ \A d \in Queue!Candidates(content) : Queue!ReadBefore(next, d)
                 /\ focus' = <<Queue!Position(next[1]), next[2]>>
                 /\ selectedCell' = next
                 /\ next \in displayed \X QueueFields
<1> DEFINE T == Queue!Candidates(content)
           next == CHOOSE c \in T : \A d \in T : Queue!ReadBefore(c, d)
<1>1. T \subseteq displayed \X QueueFields
  BY DEF Queue!Candidates, Queue!DisplayedFields
<1>2. CASE T = {}
  BY <1>2, Zenon DEF Queue!focusNextOpen
<1>3. CASE T # {}
  <2>1. \E c \in T : \A d \in T : Queue!ReadBefore(c, d)
    BY <1>1, <1>3, FirstCandidate
  <2>2. next \in T /\ \A d \in T : Queue!ReadBefore(next, d)
    BY <2>1
  <2>3. focus' = <<Queue!Position(next[1]), next[2]>> /\ selectedCell' = next
    BY <1>3, Zenon DEF Queue!focusNextOpen
  <2> QED
    BY <1>1, <2>2, <2>3
<1> QED
  BY <1>2, <1>3

\* No open cell is hidden: the column of an open cell is one with content, and a filter,
\* once applied, keeps the row of every open cell the user's own filters let pass.
QueueInv ==
    /\ Queue!TypeOK
    /\ \A c \in Queue!Cells : class[c] = "open" => c[2] \in populated
    /\ \A c \in Queue!Cells : class[c] = "open" /\ c[1] \in matching => c[1] \in displayed

LEMMA QueueInit == ASSUME Queue!Init PROVE QueueInv
<1>1. Queue!TypeOK
  <2>1. /\ column \in Templates \cup {Queue!NoColumns} /\ required \subseteq QueueFields
        /\ class \in [Queue!Cells -> {"neutral", "open"}]
        /\ populated \subseteq QueueFields
        /\ matching = QueueRows /\ displayed \subseteq matching
    BY QueueConstants
       DEF Queue!Init, Queue!NoTemplate, Queue!FromTemplate, Queue!PopulatedFields, Queue!Pass
  <2> QED
    BY <2>1 DEF Queue!Init, Queue!TypeOK
<1>2. \A c \in Queue!Cells : class[c] = "open" => c[2] \in populated
  BY DEF Queue!Init, Queue!PopulatedFields, Queue!Cells
<1>3. displayed = QueueRows
  BY DEF Queue!Init, Queue!Pass
<1> QED
  BY <1>1, <1>2, <1>3 DEF QueueInv, Queue!Cells

\* The focus may move over the grid, the selected cell be any cell, and a cell only
\* cease to be open.
LEMMA QueueKept ==
    ASSUME QueueInv,
           UNCHANGED <<column, required, populated, reviewOnly, showAllColumns, matching, displayed>>,
           class' \in [Queue!Cells -> {"neutral", "open", "manual"}],
           \A c \in Queue!Cells : class'[c] = "open" => class[c] = "open",
           focus' \in {NoCell} \cup QueueRows \X QueueFields,
           selectedCell' \in {NoCell} \cup Queue!Cells,
           editing' \in BOOLEAN
    PROVE  QueueInv'
<1>1. Queue!TypeOK'
  BY DEF QueueInv, Queue!TypeOK
<1> QED
  BY <1>1 DEF QueueInv

\* A cell that is confirmed is no longer open.
LEMMA CellConfirmed ==
    ASSUME QueueInv, NEW c
    PROVE  /\ [class EXCEPT ![c] = "manual"] \in [Queue!Cells -> {"neutral", "open", "manual"}]
           /\ \A d \in Queue!Cells : [class EXCEPT ![c] = "manual"][d] = "open" => class[d] = "open"
BY DEF QueueInv, Queue!TypeOK

LEMMA FocusTyped ==
    ASSUME QueueInv, NEW content, Queue!focusNextOpen(content)
    PROVE  /\ focus' \in {NoCell} \cup QueueRows \X QueueFields
           /\ selectedCell' \in {NoCell} \cup Queue!Cells
<1>1. Queue!TypeOK
  BY DEF QueueInv
<1>2. CASE focus' = focus /\ selectedCell' = selectedCell
  BY <1>1, <1>2 DEF Queue!TypeOK
<1>3. ASSUME NEW next \in displayed \X QueueFields,
             focus' = <<Queue!Position(next[1]), next[2]>>, selectedCell' = next
      PROVE  /\ focus' \in {NoCell} \cup QueueRows \X QueueFields
             /\ selectedCell' \in {NoCell} \cup Queue!Cells
  <2>1. Queue!Position(next[1]) \in QueueRows /\ next[1] \in QueueRows /\ next[2] \in QueueFields
    BY <1>1, PositionsAndRows, DisplayedRows
  <2> QED
    BY <1>3, <2>1 DEF Queue!Cells
<1> QED
  BY <1>1, <1>2, <1>3, FocusMoves

LEMMA KeyStep == ASSUME QueueInv, Queue!PressN \/ Queue!PressA PROVE QueueInv'
<1>1. Queue!TypeOK
  BY DEF QueueInv
<1>2. CASE Queue!PressN
  <2>1. /\ Queue!focusNextOpen(class)
        /\ UNCHANGED <<column, required, populated, reviewOnly, showAllColumns, matching,
                       displayed, class, editing>>
    BY <1>2 DEF Queue!PressN, Queue!layout, Queue!view
  <2>2. class' \in [Queue!Cells -> {"neutral", "open", "manual"}] /\ editing' \in BOOLEAN
    BY <1>1, <2>1 DEF Queue!TypeOK
  <2> QED
    BY <2>1, <2>2, FocusTyped, QueueKept
<1>3. CASE Queue!PressA
  <2>1. /\ Queue!focusNextOpen(class')
        /\ UNCHANGED <<column, required, populated, reviewOnly, showAllColumns, matching,
                       displayed, editing>>
    BY <1>3 DEF Queue!PressA, Queue!acceptCurrentAndNext, Queue!layout, Queue!view
  <2>2. class' = class \/ \E c : class' = [class EXCEPT ![c] = "manual"]
    BY <1>3 DEF Queue!PressA, Queue!acceptCurrentAndNext, Queue!acceptCell
  <2>3. /\ class' \in [Queue!Cells -> {"neutral", "open", "manual"}]
        /\ \A c \in Queue!Cells : class'[c] = "open" => class[c] = "open"
    BY <1>1, <2>2, CellConfirmed DEF Queue!TypeOK
  <2>4. editing' \in BOOLEAN
    BY <1>1, <2>1 DEF Queue!TypeOK
  <2> QED
    BY <2>1, <2>3, <2>4, FocusTyped, QueueKept
<1> QED
  BY <1>2, <1>3

LEMMA UnderTyped ==
    ASSUME Queue!TypeOK, NEW i \in Queue!Positions, NEW f \in QueueFields
    PROVE  <<i, f>> \in QueueRows \X QueueFields /\ Queue!Under(<<i, f>>) \in Queue!Cells
<1>1. i \in QueueRows /\ Queue!RowAt(i) \in QueueRows
  BY DisplayedRows, PositionsAndRows
<1> QED
  BY <1>1 DEF Queue!Under, Queue!Cells

LEMMA MouseStep == ASSUME QueueInv, Queue!Mouse PROVE QueueInv'
<1> USE DEF Queue!layout, Queue!view
<1>1. Queue!TypeOK
  BY DEF QueueInv
<1>2. ASSUME NEW i \in QueueRows, NEW f \in QueueFields, Queue!ClickCell(i, f) PROVE QueueInv'
  <2>1. /\ focus' \in QueueRows \X QueueFields /\ selectedCell' \in Queue!Cells
        /\ class' \in [Queue!Cells -> {"neutral", "open", "manual"}] /\ editing' \in BOOLEAN
    BY <1>1, <1>2, UnderTyped DEF Queue!ClickCell, Queue!TypeOK
  <2> QED
    BY <1>2, <2>1, QueueKept DEF Queue!ClickCell
<1>3. ASSUME NEW i \in QueueRows, NEW f \in QueueFields, Queue!ArrowKey(i, f) PROVE QueueInv'
  <2>1. /\ focus' \in QueueRows \X QueueFields /\ selectedCell' \in {NoCell} \cup Queue!Cells
        /\ class' \in [Queue!Cells -> {"neutral", "open", "manual"}] /\ editing' \in BOOLEAN
    BY <1>1, <1>3 DEF Queue!ArrowKey, Queue!TypeOK
  <2> QED
    BY <1>3, <2>1, QueueKept DEF Queue!ArrowKey
<1>4. CASE Queue!StartEditing
  <2>1. /\ focus' \in {NoCell} \cup QueueRows \X QueueFields
        /\ selectedCell' \in {NoCell} \cup Queue!Cells
        /\ class' \in [Queue!Cells -> {"neutral", "open", "manual"}] /\ editing' \in BOOLEAN
    BY <1>1, <1>4 DEF Queue!StartEditing, Queue!TypeOK
  <2> QED
    BY <1>4, <2>1, QueueKept DEF Queue!StartEditing
<1>5. CASE Queue!StopEditing
  <2>1. /\ focus' \in {NoCell} \cup QueueRows \X QueueFields
        /\ selectedCell' \in {NoCell} \cup Queue!Cells /\ editing' \in BOOLEAN
    BY <1>1, <1>5 DEF Queue!StopEditing, Queue!TypeOK
  <2>2. class' = class \/ class' = [class EXCEPT ![Queue!Under(focus)] = "manual"]
    BY <1>5 DEF Queue!StopEditing
  <2>3. /\ class' \in [Queue!Cells -> {"neutral", "open", "manual"}]
        /\ \A c \in Queue!Cells : class'[c] = "open" => class[c] = "open"
    BY <1>1, <2>2, CellConfirmed DEF Queue!TypeOK
  <2> QED
    BY <1>5, <2>1, <2>3, QueueKept DEF Queue!StopEditing
<1>6. ASSUME NEW rows \in SUBSET QueueRows, NEW review \in BOOLEAN, Queue!Refilter(rows, review)
      PROVE  QueueInv'
  <2>1. matching' = rows /\ displayed' = Queue!Pass(rows, review)
    BY <1>6 DEF Queue!Refilter
  <2>2. displayed' \subseteq matching' /\ matching' \subseteq QueueRows
    BY <2>1 DEF Queue!Pass
  <2>3. Queue!TypeOK'
    BY <1>1, <1>6, <2>2 DEF Queue!Refilter, Queue!TypeOK
  <2>4. class' = class /\ populated' = populated
    BY <1>6 DEF Queue!Refilter
  <2>5. \A c \in Queue!Cells : class'[c] = "open" /\ c[1] \in matching' => c[1] \in displayed'
    BY <2>1, <2>4 DEF Queue!Pass, Queue!rowHasOpenCell, Queue!isOpen, Queue!Cells
  <2> QED
    BY <2>3, <2>4, <2>5 DEF QueueInv
<1>7. ASSUME NEW review \in BOOLEAN, Queue!SetViewMode(review) PROVE QueueInv'
  BY <1>1, <1>6, <1>7 DEF Queue!SetViewMode, Queue!TypeOK
<1>8. ASSUME NEW rows \in SUBSET QueueRows, Queue!SetColumnFilter(rows) PROVE QueueInv'
  BY <1>1, <1>6, <1>8 DEF Queue!SetColumnFilter, Queue!TypeOK
<1>9. CASE Queue!toggleShowAllColumns
  <2>1. /\ UNCHANGED <<column, required, class, populated, reviewOnly, matching, displayed,
                       selectedCell>>
        /\ showAllColumns' \in BOOLEAN /\ editing' \in BOOLEAN
        /\ focus' \in {NoCell, focus}
    BY <1>9 DEF Queue!toggleShowAllColumns
  <2>2. Queue!TypeOK'
    BY <1>1, <2>1 DEF Queue!TypeOK
  <2> QED
    BY <2>1, <2>2 DEF QueueInv
<1> QED
  BY <1>2, <1>3, <1>4, <1>5, <1>7, <1>8, <1>9 DEF Queue!Mouse

LEMMA QueueNext == ASSUME QueueInv, [Queue!Next]_(Queue!vars) PROVE QueueInv'
<1>1. CASE UNCHANGED Queue!vars
  BY <1>1 DEF Queue!vars, Queue!layout, Queue!view, QueueInv, Queue!TypeOK
<1>2. CASE Queue!Next
  BY <1>2, KeyStep, MouseStep DEF Queue!Next
<1> QED
  BY <1>1, <1>2

LEMMA QueueHolds == Queue!Spec => []QueueInv
  BY QueueInit, QueueNext, PTL DEF Queue!Spec

LEMMA QueueHidesNothing == ASSUME QueueInv PROVE Queue!NoOpenCellHidden
BY DEF QueueInv, Queue!NoOpenCellHidden, Queue!isOpen, Queue!Visible, Queue!Cells

\* The key N stops at the first open cell after the focus.
LEMMA StopsAtFirst ==
    ASSUME Queue!TypeOK, Queue!PressN PROVE Queue!PassesOverNothing
<1> SUFFICES ASSUME Queue!OnGrid(focus) \/ focus = NoCell,
                    NEW c \in displayed \X Queue!DisplayedFields,
                    Queue!isOpen(c), Queue!After(c, focus)
             PROVE  /\ focus' # focus
                    /\ \/ focus'[1] < Queue!Position(c[1])
                       \/ /\ focus'[1] = Queue!Position(c[1])
                          /\ ~Queue!LeftOf(c[2], focus'[2])
  BY DEF Queue!PassesOverNothing
<1>1. \A r \in displayed : Queue!Position(r) \in Nat \ {0}
  BY DisplayedRows, PositionsAndRows
<1>2. /\ \A f \in QueueFields : ~Queue!LeftOf(f, f)
      /\ Queue!DisplayedFields \subseteq QueueFields
  BY ColumnsAreNumbers DEF Queue!LeftOf, Queue!SortedBefore, Queue!DisplayedFields
<1>3. ASSUME NEW d \in displayed \X Queue!DisplayedFields
      PROVE  /\ focus = NoCell => Queue!IsSearched(d)
             /\ Queue!OnGrid(focus) /\ Queue!After(d, focus) => Queue!IsSearched(d)
  BY <1>1, <1>3 DEF Queue!IsSearched, Queue!startNode, Queue!RightOfStart, Queue!OnGrid, Queue!After
<1>4. c \in Queue!Candidates(class)
  BY <1>3 DEF Queue!Candidates, Queue!isOpen
<1>5. PICK next \in Queue!Candidates(class) :
         /\ \A d \in Queue!Candidates(class) : Queue!ReadBefore(next, d)
         /\ focus' = <<Queue!Position(next[1]), next[2]>>
         /\ next \in displayed \X QueueFields
  BY <1>4, FocusMoves DEF Queue!PressN
<1>6. focus' # focus
  <2>1. CASE focus = NoCell
    BY <1>5, <2>1, QueueConstants, PositionsAndRows, DisplayedRows DEF Queue!Cells
  <2>2. CASE Queue!OnGrid(focus)
    <3>1. /\ Queue!IsSearched(next) /\ Queue!Visible(next[2])
          /\ focus \in QueueRows \X QueueFields
      BY <1>5, <2>2 DEF Queue!Candidates, Queue!DisplayedFields, Queue!OnGrid, Queue!TypeOK
    <3>2. CASE Queue!Position(next[1]) > focus[1]
      BY <1>1, <1>5, <3>1, <3>2, QueueConstants
    <3>3. CASE Queue!RightOfStart(next[2])
      BY <1>2, <1>5, <2>2, <3>1, <3>3 DEF Queue!RightOfStart, Queue!OnGrid
    <3> QED
      BY <2>2, <3>1, <3>2, <3>3 DEF Queue!IsSearched, Queue!startNode
  <2> QED
    BY <2>1, <2>2
<1>7. CASE next[1] < c[1]
  BY <1>5, <1>6, <1>7, PositionsAndRows
<1>8. CASE next[1] = c[1] /\ ~Queue!LeftOf(c[2], next[2])
  BY <1>5, <1>6, <1>8
<1> QED
  BY <1>4, <1>5, <1>6, <1>7, <1>8 DEF Queue!ReadBefore

-----------------------------------------------------------------------------
(* The page.                                                               *)

\* What a step of the page is to each component.
LEMMA OnePart ==
    ASSUME [ReviewNext]_<<part, vars, queueVars, gridVars>>
    PROVE  /\ part' = part
           /\ [Next]_vars
           /\ [Queue!Next]_(Queue!vars)
           /\ [Grid!Next]_(Grid!vars)
<1>1. CASE UNCHANGED <<part, vars, queueVars, gridVars>>
  BY <1>1, Zenon DEF queueVars, gridVars, Queue!vars, Queue!layout, Queue!view, Grid!vars
<1>2. CASE SessionStep
  BY <1>2, Zenon DEF SessionStep, queueVars, gridVars, Queue!vars, Queue!layout, Queue!view, Grid!vars
<1>3. CASE QueueStep
  BY <1>3, Zenon DEF QueueStep, gridVars, Grid!vars
<1>4. CASE SelectionStep
  BY <1>4, Zenon DEF SelectionStep, queueVars, Queue!vars, Queue!layout, Queue!view
<1> QED
  BY <1>1, <1>2, <1>3, <1>4 DEF ReviewNext

\* Every part behaves as its component, also the two that stand still.
LEMMA PartsRun == ReviewSpec => Spec /\ Queue!Spec /\ Grid!Spec
<1>1. ReviewInit => Init /\ Queue!Init /\ Grid!Init
  BY DEF ReviewInit
<1> QED
  BY <1>1, OnePart, PTL DEF ReviewSpec, Spec, Queue!Spec, Grid!Spec

LEMMA GridHolds ==
    ReviewSpec => [](Grid!TypeOK /\ Grid!SelectionNeedsMode /\ Grid!DragIsRectangle)
<1>1. Grid!GridAssumption
  BY ReviewPageAssumption
<1>2. Grid!Spec => [](Grid!TypeOK /\ Grid!SelectionNeedsMode /\ Grid!DragIsRectangle)
  BY <1>1, Grid!SelectionIsWhatIsSeen
<1> QED
  BY <1>2, PartsRun, PTL

\* The variables of every part have their types.
THEOREM PageTypes == ReviewSpec => []PartsTypeOK
<1>1. QueueInv => Queue!TypeOK
  BY DEF QueueInv
<1>2. TypeOK /\ Queue!TypeOK /\ Grid!TypeOK => PartsTypeOK
  BY DEF PartsTypeOK
<1> QED
  BY <1>1, <1>2, PartsRun, ReviewTypes, QueueHolds, GridHolds, PTL

\* Neither the columns that are hidden nor the review filter hide an open cell from
\* the reviewer.
THEOREM QueueHidesNoWork == ReviewSpec => []NoOpenCellHidden
<1>1. QueueInv => NoOpenCellHidden
  BY QueueHidesNothing DEF NoOpenCellHidden
<1> QED
  BY <1>1, PartsRun, QueueHolds, PTL

\* The reading order of the search leaves no choice: of two different cells one comes
\* first.  Pinned columns stand left; fields may share an Excel column, as they all do
\* without a template, and then stand as in the array.
OneReadingOrder ==
    \A c, d \in Queue!Cells : Queue!ReadBefore(c, d) /\ Queue!ReadBefore(d, c) => c = d

LEMMA ReadOneByOne == ASSUME Queue!TypeOK PROVE OneReadingOrder
<1> SUFFICES ASSUME NEW c \in Queue!Cells, NEW d \in Queue!Cells,
                    Queue!ReadBefore(c, d), Queue!ReadBefore(d, c)
             PROVE  c = d
  BY DEF OneReadingOrder
<1>1. /\ c = <<c[1], c[2]>> /\ d = <<d[1], d[2]>>
      /\ c[2] \in QueueFields /\ d[2] \in QueueFields
      /\ c[1] \in QueueRows /\ d[1] \in QueueRows
  BY DEF Queue!Cells
<1>2. c[1] \in Nat /\ d[1] \in Nat
  BY <1>1, QueueConstants
<1>3. c[1] = d[1] /\ ~Queue!LeftOf(c[2], d[2]) /\ ~Queue!LeftOf(d[2], c[2])
  BY <1>2 DEF Queue!ReadBefore
<1>4. ~Queue!SortedBefore(c[2], d[2]) /\ ~Queue!SortedBefore(d[2], c[2])
  BY <1>3 DEF Queue!LeftOf
<1>5. /\ Queue!index(c[2]) \in Nat /\ Queue!index(d[2]) \in Nat
      /\ Place[c[2]] \in Nat /\ Place[d[2]] \in Nat
  BY <1>1, ColumnsAreNumbers
<1>6. Place[c[2]] = Place[d[2]]
  BY <1>4, <1>5 DEF Queue!SortedBefore
<1>7. c[2] = d[2]
  BY <1>1, <1>6, QueueConstants
<1> QED
  BY <1>1, <1>3, <1>7

\* N and A have one cell to go to: the order in which focusNextOpen reads the cells of
\* the grid is strict, whatever columns are pinned and whatever the template is.
THEOREM QueueIsReadInOneOrder == ReviewSpec => []OneReadingOrder
<1>1. QueueInv => OneReadingOrder
  BY ReadOneByOne DEF QueueInv
<1> QED
  BY <1>1, PartsRun, QueueHolds, PTL

\* The key N passes over no open cell that is displayed, whatever the layout, the
\* filters and the focus.
THEOREM NextKeySkipsNothing == ReviewSpec => SkipsNothing
<1>1. QueueInv => Queue!TypeOK
  BY DEF QueueInv
<1>2. Queue!TypeOK => [part = "queue" /\ Queue!PressN => Queue!PassesOverNothing]_queueVars
  BY StopsAtFirst
<1> QED
  BY <1>1, <1>2, PartsRun, QueueHolds, PTL DEF SkipsNothing

\* The cells a reviewer acts on are those the rectangle showed him while he dragged.
THEOREM PageSelectionIsSeen == ReviewSpec => []SelectionIsSeen
<1>1. Grid!SelectionNeedsMode /\ Grid!DragIsRectangle => SelectionIsSeen
  BY DEF SelectionIsSeen
<1> QED
  BY <1>1, GridHolds, PTL
=============================================================================
