--------------------------- MODULE ReviewSession ----------------------------
(***************************************************************************)
(* The review of one completed job: the table of the browser               *)
(* (result-table.tsx over review-grid.tsx), whose edits are shown at once  *)
(* and kept until they are saved, and the audit model of the server        *)
(* (cell_edits.py), which stores edits and row exclusions and answers with *)
(* the result as it then is.  A save and several exclusions may be under   *)
(* way at the same time (the Delete key waits for nothing), and their      *)
(* answers may overtake each other or be lost.                             *)
(***************************************************************************)
EXTENDS Integers, FiniteSets

CONSTANTS
    Rows, Fields,    \* the extracted rows and the target fields
    Values,          \* values of a cell
    NoEdit,          \* not a value
    MaxRequests      \* bound: saves and exclusions sent

ASSUME ReviewAssumption ==
    /\ IsFiniteSet(Rows) /\ IsFiniteSet(Fields)
    /\ NoEdit \notin Values
    /\ MaxRequests \in Nat

Cells == Rows \X Fields
Classes == {"green", "open", "manual"}       \* open: yellow or red
CellState == [value : Values, class : Classes]
Edits == [Cells -> Values \cup {NoEdit}]
NoEdits == [c \in Cells |-> NoEdit]

VARIABLES
    \* the audit model
    cells,           \* value and class of every cell
    excluded,        \* rows taken out
    changes,         \* bookkeeping: the changes stored so far
    \* the browser
    resultCells, resultExcluded,     \* the last result received
    resultChanges,   \* bookkeeping: the changes that result takes in
    inOrder,         \* bookkeeping: every answer so far has come, and after the one before
    grid,            \* rowData: the cells as the grid shows them
    pendingEdits,
    openCount,
    saving,          \* the save: "none", "sent", "done", "refused"
    saveEdits,       \* what it sent
    saveAnswers,     \* its answer, on its way back
    \* the exclusions
    exclusions,      \* on their way to the server
    exclusionAnswers,    \* on their way back
    latestExclusion, \* the one isExcluding reports on
    \* bookkeeping of the model
    patient,         \* the reviewer waits for every answer, and saves before
                     \* taking rows out or back
    wanted,          \* the value the reviewer last gave a cell
    sent             \* counter for the bound

audit == <<cells, excluded, changes>>
result == <<resultCells, resultExcluded, resultChanges, inOrder>>
table == <<result, grid, pendingEdits, openCount>>
save == <<saving, saveEdits, saveAnswers>>
exclusion == <<exclusions, exclusionAnswers, latestExclusion>>
vars == <<audit, table, save, exclusion, patient, wanted, sent>>

Phases == {"none", "sent", "done", "refused"}
Snapshot == [cells : [Cells -> CellState], excluded : SUBSET Rows, changes : Nat]
Exclusion == [id : Nat, out : SUBSET Rows, back : SUBSET Rows]
ExclusionAnswer == [to : Nat, result : Snapshot]

Idle == saving = "none" /\ exclusions = {} /\ exclusionAnswers = {}
NothingPending == pendingEdits = NoEdits

-----------------------------------------------------------------------------
(* The table.                                                              *)

isOpen(cell) == cell.class = "open"

\* rows of a result are those not excluded
Shown(c) == c[1] \notin resultExcluded

OpenCells(content, out) == {c \in Cells : c[1] \notin out /\ isOpen(content[c])}
totalOpen == Cardinality(OpenCells(resultCells, resultExcluded))

\* A corrected or confirmed cell, as the grid shows it and the server stores it.
Manual(v) == [value |-> v, class |-> "manual"]

\* VARIANT of NotNegative: the count is not clamped.
NotClamped(n) == n

NotNegative(n) == IF n < 0 THEN 0 ELSE n

\* recordEdit, for the edits of one click
recordEdit(edits) ==
    LET edited == {c \in Cells : edits[c] # NoEdit} IN
    /\ pendingEdits' = [c \in Cells |-> IF c \in edited THEN edits[c] ELSE pendingEdits[c]]
    /\ openCount' = NotNegative(openCount - Cardinality(edited))
    /\ wanted' = [c \in Cells |-> IF c \in edited THEN edits[c] ELSE wanted[c]]

\* onCellValueChanged of the grid, for a value typed in, pasted or undone
onCellValueChanged(c, v) ==
    /\ patient => Idle
    /\ Shown(c)
    /\ grid[c].value # v
    /\ grid' = [grid EXCEPT ![c] = Manual(v)]
    /\ recordEdit([NoEdits EXCEPT ![c] = v])
    /\ UNCHANGED <<audit, result, save, exclusion, sent>>

\* The open cells among those of a click are confirmed with the value they have.
Accept(chosen) ==
    LET accepted == {c \in chosen : Shown(c) /\ isOpen(grid[c])} IN
    /\ patient => Idle
    /\ accepted # {}
    /\ grid' = [c \in Cells |-> IF c \in accepted THEN Manual(grid[c].value) ELSE grid[c]]
    /\ recordEdit([c \in Cells |-> IF c \in accepted THEN grid[c].value ELSE NoEdit])
    /\ UNCHANGED <<audit, result, save, exclusion, sent>>

acceptCell(c) == Accept({c})
acceptColumn(f) == Accept(Rows \X {f})
acceptSelected(selectedCells) == Accept(selectedCells)

-----------------------------------------------------------------------------
(* The requests.                                                           *)

MaySend == sent < MaxRequests /\ sent' = sent + 1

\* handleSave, from the button and from Ctrl+S: all pending edits are sent
handleSave ==
    /\ saving = "none"
    /\ patient => Idle
    /\ ~NothingPending
    /\ saving' = "sent"
    /\ saveEdits' = pendingEdits
    /\ MaySend
    /\ UNCHANGED <<audit, table, saveAnswers, exclusion, wanted>>

\* isPending of the mutation, which reports on the exclusion sent last
isExcluding ==
    \/ \E x \in exclusions : x.id = latestExclusion
    \/ \E a \in exclusionAnswers : a.to = latestExclusion

SendExclusion(out, back) ==
    /\ patient => Idle /\ NothingPending
    /\ MaySend
    /\ exclusions' = exclusions \cup {[id |-> sent', out |-> out, back |-> back]}
    /\ latestExclusion' = sent'
    /\ UNCHANGED <<audit, table, save, exclusionAnswers, wanted>>

\* excludeRows, confirmed.  The button waits for the exclusion before; the Delete key,
\* which asks for the same, does not.
ExcludeRows(rows) ==
    /\ rows # {} /\ rows \cap resultExcluded = {}
    /\ SendExclusion(rows, {})

\* handleRestoreExcluded: every row the result lists as excluded
handleRestoreExcluded ==
    /\ ~isExcluding
    /\ resultExcluded # {}
    /\ SendExclusion({}, resultExcluded)

-----------------------------------------------------------------------------
(* The server.                                                             *)

\* VARIANT of apply_cell_edits: an edit that keeps the value is skipped.
SkipUnchangedEdits(edits) ==
    cells' = [c \in Cells |-> IF edits[c] \in {NoEdit, cells[c].value} THEN cells[c]
                              ELSE Manual(edits[c])]

apply_cell_edits(edits) ==
    cells' = [c \in Cells |-> IF edits[c] = NoEdit THEN cells[c] ELSE Manual(edits[c])]

apply_row_exclusions(x) == excluded' = (excluded \cup x.out) \ x.back

\* PATCH /api/jobs/{id}/cells
update_cells ==
    /\ saving = "sent"
    /\ apply_cell_edits(saveEdits)
    /\ changes' = changes + 1
    /\ saving' = "done"
    /\ saveAnswers' = {[cells |-> cells', excluded |-> excluded, changes |-> changes']}
    /\ UNCHANGED <<excluded, table, saveEdits, exclusion, wanted, sent>>

\* PATCH /api/jobs/{id}/rows
update_row_exclusions(x) ==
    /\ apply_row_exclusions(x)
    /\ changes' = changes + 1
    /\ exclusions' = exclusions \ {x}
    /\ exclusionAnswers' = exclusionAnswers \cup
          {[to |-> x.id, result |-> [cells |-> cells, excluded |-> excluded', changes |-> changes']]}
    /\ UNCHANGED <<cells, table, save, latestExclusion, wanted, sent>>

\* The guard of the export, a failing write or the network refuses a request; an
\* exclusion that is refused leaves nothing behind.
RefuseSave ==
    /\ saving = "sent" /\ saving' = "refused"
    /\ UNCHANGED <<audit, table, saveEdits, saveAnswers, exclusion, wanted, sent>>
RefuseExclusion(x) ==
    /\ exclusions' = exclusions \ {x}
    /\ UNCHANGED <<audit, table, save, exclusionAnswers, latestExclusion, wanted, sent>>

\* The network loses the answer to a change that was stored: to the browser the request
\* has failed.
LoseSaveAnswer ==
    /\ saving = "done" /\ saving' = "refused"
    /\ saveAnswers' = {}
    /\ inOrder' = FALSE
    /\ UNCHANGED <<audit, resultCells, resultExcluded, resultChanges, grid, pendingEdits, openCount,
                   saveEdits, exclusion, wanted, sent>>
LoseExclusionAnswer(a) ==
    /\ exclusionAnswers' = exclusionAnswers \ {a}
    /\ inOrder' = FALSE
    /\ UNCHANGED <<audit, resultCells, resultExcluded, resultChanges, grid, pendingEdits, openCount,
                   save, exclusions, latestExclusion, wanted, sent>>

-----------------------------------------------------------------------------
(* The answers.                                                            *)

\* setResult: the grid is built again from the answer, and the effect on
\* [result.job_id, totalOpen] resets the rest when the count has changed.
NewTotal(answer) == Cardinality(OpenCells(answer.cells, answer.excluded))

\* buildRows of the grid
BuildRows(answer) == grid' = answer.cells

ShowAnswer(answer, keptEdits) ==
    /\ resultCells' = answer.cells
    /\ resultExcluded' = answer.excluded
    /\ resultChanges' = answer.changes
    /\ inOrder' = (inOrder /\ answer.changes = resultChanges + 1)
    /\ BuildRows(answer)
    /\ IF NewTotal(answer) # totalOpen
       THEN openCount' = NewTotal(answer) /\ pendingEdits' = NoEdits
       ELSE openCount' = openCount /\ pendingEdits' = keptEdits

\* VARIANT of SaveDone: the pending edits are dropped before the answer is known.
SaveDoneForgetful ==
    /\ saving \in {"done", "refused"}
    /\ saving' = "none" /\ saveEdits' = NoEdits /\ saveAnswers' = {}
    /\ \/ \E answer \in saveAnswers : ShowAnswer(answer, NoEdits)
       \/ saving = "refused" /\ pendingEdits' = NoEdits /\ UNCHANGED <<result, grid, openCount>>
    /\ UNCHANGED <<audit, exclusion, wanted, sent>>

\* onSuccess of the save and the rest of handleSave: the answer becomes the result and no
\* edit is pending; a refused save throws and leaves them.
SaveDone ==
    /\ saving \in {"done", "refused"}
    /\ saving' = "none" /\ saveEdits' = NoEdits /\ saveAnswers' = {}
    /\ \/ \E answer \in saveAnswers : ShowAnswer(answer, NoEdits)
       \/ saving = "refused" /\ UNCHANGED table
    /\ UNCHANGED <<audit, exclusion, wanted, sent>>

\* VARIANT of ExclusionDone: the answer does not become the result.
ExclusionDoneIgnored(a) ==
    /\ exclusionAnswers' = exclusionAnswers \ {a}
    /\ UNCHANGED <<audit, table, save, exclusions, latestExclusion, wanted, sent>>

\* onSuccess of an exclusion or a restoration: the answer becomes the result
ExclusionDone(a) ==
    /\ exclusionAnswers' = exclusionAnswers \ {a}
    /\ ShowAnswer(a.result, pendingEdits)
    /\ UNCHANGED <<audit, save, exclusions, latestExclusion, wanted, sent>>

-----------------------------------------------------------------------------
\* The scored cells, as the server sends them first.
Init ==
    /\ cells \in [Cells -> [value : Values, class : {"green", "open"}]]
    /\ excluded = {}
    /\ changes = 0
    /\ resultCells = cells
    /\ resultExcluded = {}
    /\ resultChanges = 0
    /\ inOrder = TRUE
    /\ grid = cells
    /\ pendingEdits = NoEdits
    /\ openCount = totalOpen
    /\ saving = "none"
    /\ saveEdits = NoEdits
    /\ saveAnswers = {}
    /\ exclusions = {}
    /\ exclusionAnswers = {}
    /\ latestExclusion = 0
    /\ patient \in BOOLEAN
    /\ wanted = NoEdits
    /\ sent = 0

Reviewer ==
    \/ \E c \in Cells : acceptCell(c) \/ \E v \in Values : onCellValueChanged(c, v)
    \/ \E f \in Fields : acceptColumn(f)
    \/ \E selectedCells \in SUBSET Cells : acceptSelected(selectedCells)
    \/ handleSave
    \/ \E rows \in SUBSET Rows : ExcludeRows(rows)
    \/ handleRestoreExcluded

Next ==
    /\ \/ Reviewer
       \/ update_cells \/ RefuseSave \/ LoseSaveAnswer \/ SaveDone
       \/ \E x \in exclusions : update_row_exclusions(x) \/ RefuseExclusion(x)
       \/ \E a \in exclusionAnswers : LoseExclusionAnswer(a) \/ ExclusionDone(a)
    /\ UNCHANGED patient

Spec == Init /\ [][Next]_vars

-----------------------------------------------------------------------------
\* Types of the variables.
TypeOK ==
    /\ cells \in [Cells -> CellState]
    /\ excluded \in SUBSET Rows
    /\ changes \in Nat
    /\ resultCells \in [Cells -> CellState]
    /\ resultExcluded \in SUBSET Rows
    /\ resultChanges \in Nat
    /\ inOrder \in BOOLEAN
    /\ grid \in [Cells -> CellState]
    /\ pendingEdits \in Edits
    /\ openCount \in Nat
    /\ saving \in Phases
    /\ saveEdits \in Edits
    /\ saveAnswers \subseteq Snapshot
    /\ exclusions \subseteq Exclusion
    /\ exclusionAnswers \subseteq ExclusionAnswer
    /\ latestExclusion \in Nat
    /\ patient \in BOOLEAN
    /\ wanted \in Edits
    /\ sent \in Nat

\* No cell is shown as confirmed by a human when the confirmation is neither
\* stored nor still going to be: every green-by-hand cell of the grid has its
\* pending edit or is confirmed in the audit (optimistic update of the grid).
ConfirmedIsBacked ==
    \A c \in Cells :
        grid[c].class = "manual" => pendingEdits[c] # NoEdit \/ cells[c].class = "manual"

\* The value a reviewer gave a cell is stored, or still pending: neither a save
\* that fails nor an answer that arrives loses it.
EditsKept ==
    \A c \in Cells : wanted[c] # NoEdit =>
        pendingEdits[c] = wanted[c] \/ cells[c] = Manual(wanted[c])

\* A reviewer who waits for the answers, and saves before rows are taken out, loses
\* no edit, although every answer may reset the pending edits.
NoEditLost == patient => EditsKept

\* Whoever reviews, and however saves and exclusions overlap: as long as no answer was
\* lost or overtaken by a newer one, the table is the audit whenever no request is out,
\* but for the edits still pending; and the grid of a patient reviewer shows those.
ViewIsCurrent ==
    /\ inOrder /\ Idle =>
          /\ resultCells = cells
          /\ resultExcluded = excluded
          /\ \A c \in Cells : Shown(c) /\ pendingEdits[c] = NoEdit => grid[c] = cells[c]
    /\ patient => \A c \in Cells : pendingEdits[c] # NoEdit => grid[c] = Manual(pendingEdits[c])
=============================================================================
