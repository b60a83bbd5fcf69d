---------------------------- MODULE Completeness ----------------------------
(***************************************************************************)
(* No row of the source may be lost silently: the position reconciler      *)
(* (position_reconciler.py), the coverage net at the end of scoring        *)
(* (ensemble_scorer.py), the zero-data-loss guard in front of the workbook *)
(* (excel_exporter.py), and the reviewer's edits and exclusions that pass  *)
(* the guard again (routes/feedback.py, cell_edits.py).                    *)
(*                                                                         *)
(* One job, from the rows the parser extracted to its review.  A row is    *)
(* identified by its band (text-layer PDFs) or by the normalised value of  *)
(* its position field (scans and spreadsheets).  The target schema has one *)
(* position field, "Detail Number".  A handler does not await between      *)
(* reading and writing the audit, so it is one step, unless the process    *)
(* exits in its middle.                                                    *)
(***************************************************************************)
EXTENDS Integers, FiniteSets

CONSTANTS
    Rows,              \* row indices
    Ids,               \* normalised position values
    Bands,             \* row-band identifiers of the coordinate pass
    NoId,              \* an empty position cell
    NoBand,            \* a row without a band
    MaxExtracted,      \* bound: rows the transformation returns
    MaxRead,           \* bound: how often a position occurs in the source
    MaxCrashes         \* bound: process exits during a review

ASSUME SentinelAssumption == NoId \notin Ids /\ NoBand \notin Bands
ASSUME FiniteAssumption == IsFiniteSet(Rows) /\ IsFiniteSet(Ids) /\ IsFiniteSet(Bands)
ASSUME BoundAssumption == MaxExtracted \in Nat /\ MaxRead \in Nat /\ MaxCrashes \in Nat

VARIABLES
    \* what the parser found in the source
    pdfIds,            \* ParsedBOM.raw_pdf_positions
    pdfCount,          \* raw_pdf_position_counts: how often, all 0 if not counted
    pdfBands,          \* pdf_row_bands
    \* the rows, first of the transformation result, then of the stored audit
    phase,             \* "extracted", "reconciled", "scored", "completed", "failed"
    rows,              \* row indices in use
    position,          \* [Rows -> Ids \cup {NoId}]
    band,              \* [Rows -> Bands \cup {NoBand}]
    expectedKeys, expectedIds, expectedCount,     \* what the guard expects
    excluded,          \* rows the reviewer took out
    \* the workbook file, and the rows it was written from
    workbook,          \* "none", "saved", "sample" (saved with the template's own
                       \* rows) or "torn" (the process exited in wb.save)
    shown, shownPosition, shownExcluded,
    \* bookkeeping of the model
    discarded,         \* a correction was logged and then not applied
    interrupted,       \* the process exited since the last successful review
    crashes

source == <<pdfIds, pdfCount, pdfBands>>
expectation == <<expectedKeys, expectedIds, expectedCount>>
sheet == <<workbook, shown, shownPosition, shownExcluded>>
history == <<discarded, interrupted, crashes>>
vars == <<source, phase, rows, position, band, expectation, excluded, sheet, history>>

IdsIn(rs, pos) == {pos[r] : r \in rs} \ {NoId}
BandsIn(rs) == {band[r] : r \in rs} \ {NoBand}

Init ==
    /\ rows \in {R \in SUBSET Rows : R # {} /\ Cardinality(R) =< MaxExtracted}
    /\ position \in [Rows -> Ids \cup {NoId}]
    /\ band \in [Rows -> Bands \cup {NoBand}]
    /\ \A r \in Rows \ rows : position[r] = NoId /\ band[r] = NoBand
    /\ pdfIds \in SUBSET Ids
    /\ pdfCount \in [Ids -> 0 .. MaxRead]
    /\ pdfBands \in SUBSET Bands
    \* Vision counts the positions it collects; the other parsers do not count.
    /\ \/ \A p \in Ids : pdfCount[p] = 0
       \/ pdfBands = {} /\ pdfIds = {p \in Ids : pdfCount[p] > 0}
    \* Only the coordinate pass has bands; it gives every row its own.
    /\ pdfBands = {} => \A r \in Rows : band[r] = NoBand
    /\ pdfBands # {} => \A r, s \in rows : band[r] \in Bands /\ (band[r] = band[s] => r = s)
    /\ phase = "extracted"
    /\ expectedKeys = {}
    /\ expectedIds = {}
    /\ expectedCount = 0
    /\ excluded = {}
    /\ workbook = "none"
    /\ shown = {}
    /\ shownPosition = position
    /\ shownExcluded = {}
    /\ discarded = FALSE
    /\ interrupted = FALSE
    /\ crashes = 0

-----------------------------------------------------------------------------
(* The pipeline.                                                           *)

RowsAt(p) == {r \in rows : position[r] = p}

\* Rows synthesised for position p: one for a position that was not extracted,
\* the difference for one that was extracted less often than it was read.
Shortfall(p) ==
    IF RowsAt(p) = {}
    THEN IF p \in pdfIds THEN 1 ELSE 0
    ELSE IF pdfCount[p] >= 2 /\ pdfCount[p] > Cardinality(RowsAt(p))
         THEN pdfCount[p] - Cardinality(RowsAt(p))
         ELSE 0

\* reconcile_positions without row bands
ReconcilePositions ==
    LET master == IdsIn(rows, position) \cup pdfIds IN
    /\ phase = "extracted"
    /\ pdfBands = {}
    /\ \E added \in SUBSET (Rows \ rows) : \E label \in [added -> Ids] :
        /\ \A p \in Ids : Cardinality({r \in added : label[r] = p}) = Shortfall(p)
        /\ rows' = rows \cup added
        /\ position' = [r \in Rows |-> IF r \in added THEN label[r] ELSE position[r]]
    /\ expectedIds' = master
    /\ expectedCount' = IF master # {} THEN Cardinality(master) ELSE Cardinality(rows)
    /\ phase' = "reconciled"
    /\ UNCHANGED <<source, band, expectedKeys, excluded, sheet, history>>

\* _reconcile_by_row_bands
ReconcileBands ==
    /\ phase = "extracted"
    /\ pdfBands # {}
    /\ \E added \in SUBSET (Rows \ rows) : \E label \in [added -> pdfBands \ BandsIn(rows)] :
        /\ \A b \in pdfBands \ BandsIn(rows) : \E r \in added : label[r] = b
        /\ \A r, s \in added : label[r] = label[s] => r = s
        /\ rows' = rows \cup added
        /\ band' = [r \in Rows |-> IF r \in added THEN label[r] ELSE band[r]]
    /\ expectedKeys' = BandsIn(rows) \cup pdfBands
    /\ expectedCount' = Cardinality(expectedKeys')
    /\ phase' = "reconciled"
    /\ UNCHANGED <<source, position, expectedIds, excluded, sheet, history>>

\* The end of score_bom_async: a RED row for every expected key, or position,
\* that no scored cell carries.
Score ==
    /\ phase = "reconciled"
    /\ \E added \in SUBSET (Rows \ rows) :
        LET lost == IF expectedKeys # {} THEN expectedKeys \ BandsIn(rows)
                    ELSE expectedIds \ IdsIn(rows, position) IN
        \E label \in [added -> lost] :
            /\ \A i \in lost : \E r \in added : label[r] = i
            /\ \A r, s \in added : label[r] = label[s] => r = s
            /\ rows' = rows \cup added
            /\ position' = [r \in Rows |-> IF r \in added /\ expectedKeys = {}
                                           THEN label[r] ELSE position[r]]
            /\ band' = [r \in Rows |-> IF r \in added /\ expectedKeys # {}
                                       THEN label[r] ELSE band[r]]
    /\ phase' = "scored"
    /\ UNCHANGED <<source, expectation, excluded, sheet, history>>

-----------------------------------------------------------------------------
(* The zero-data-loss guard, on the rows rs with positions pos, of which the *)
(* rows out are excluded.                                                    *)

\* VARIANT of Covered: as many identities as expected, whichever they are.
CoveredBySize(expected, active, gone) ==
    Cardinality(active) >= Cardinality(expected \ (gone \ active))

\* VARIANT of Covered: an excluded row counts as lost.
CoveredByActive(expected, active, gone) == expected \subseteq active

\* Every expected identity is in an active row, but for those only excluded rows
\* carry.
Covered(expected, active, gone) == expected \ (gone \ active) \subseteq active

\* VARIANT of GuardPasses: off by one in the row count.
GuardPassesStrictly(rs, pos, out) ==
    /\ expectedKeys # {} => Covered(expectedKeys, BandsIn(rs \ out), BandsIn(out))
    /\ expectedKeys = {} /\ expectedIds # {} =>
           Covered(expectedIds, IdsIn(rs \ out, pos), IdsIn(out, pos))
    /\ expectedKeys = {} /\ expectedIds = {} /\ expectedCount > 0 =>
           Cardinality(rs \ out) > expectedCount - Cardinality(out)

GuardPasses(rs, pos, out) ==
    /\ expectedKeys # {} => Covered(expectedKeys, BandsIn(rs \ out), BandsIn(out))
    /\ expectedKeys = {} /\ expectedIds # {} =>
           Covered(expectedIds, IdsIn(rs \ out, pos), IdsIn(out, pos))
    /\ expectedKeys = {} /\ expectedIds = {} /\ expectedCount > 0 =>
           Cardinality(rs \ out) >= expectedCount - Cardinality(out)

\* Without an active row the template is saved before its rows are cleared.
Save(rs, pos, out) ==
    /\ workbook' = IF rs \ out = {} THEN "sample" ELSE "saved"
    /\ shown' = rs \ out
    /\ shownPosition' = pos
    /\ shownExcluded' = out

\* The first export: the job completes, or fails with ZeroDataLossError.
Export ==
    /\ phase = "scored"
    /\ IF GuardPasses(rows, position, {})
       THEN phase' = "completed" /\ Save(rows, position, {})
       ELSE phase' = "failed" /\ UNCHANGED sheet
    /\ UNCHANGED <<source, rows, position, band, expectation, excluded, history>>

-----------------------------------------------------------------------------
(* The review of a completed job.  A handler works on a copy of the audit:   *)
(* rows rs with positions pos, of which out are excluded.  If logged, the    *)
(* corrections are appended to corrections.jsonl before anything else.       *)

\* _regenerate_export and JobStore.update succeed.
Applied(rs, pos, out) ==
    /\ GuardPasses(rs, pos, out)
    /\ Save(rs, pos, out)
    /\ rows' = rs
    /\ position' = pos
    /\ excluded' = out
    /\ interrupted' = FALSE
    /\ UNCHANGED <<discarded, crashes>>

\* VARIANT of Refused: the audit is stored before the workbook is written.
RefusedAfterUpdate(rs, pos, out, logged) ==
    /\ ~GuardPasses(rs, pos, out)
    /\ discarded' = (discarded \/ logged)
    /\ rows' = rs
    /\ position' = pos
    /\ excluded' = out
    /\ UNCHANGED <<sheet, interrupted, crashes>>

\* export_to_excel raises ZeroDataLossError: the request fails.
Refused(rs, pos, out, logged) ==
    /\ ~GuardPasses(rs, pos, out)
    /\ discarded' = (discarded \/ logged)
    /\ UNCHANGED <<rows, position, excluded, sheet, interrupted, crashes>>

\* The process exits before, in, or after wb.save, and before the update.
Interrupted(rs, pos, out, logged) ==
    /\ crashes < MaxCrashes
    /\ crashes' = crashes + 1
    /\ interrupted' = TRUE
    /\ discarded' = (discarded \/ logged)
    /\ \/ UNCHANGED sheet
       \/ /\ GuardPasses(rs, pos, out)
          /\ workbook' = "torn"
          /\ UNCHANGED <<shown, shownPosition, shownExcluded>>
       \/ /\ GuardPasses(rs, pos, out)
          /\ Save(rs, pos, out)
    /\ UNCHANGED <<rows, position, excluded>>

Review(rs, pos, out, logged) ==
    /\ phase = "completed"
    /\ \/ Applied(rs, pos, out)
       \/ Refused(rs, pos, out, logged)
       \/ Interrupted(rs, pos, out, logged)
    /\ UNCHANGED <<source, phase, band, expectation>>

\* update_cells: edits of the position cells of the rows R, or of other cells of
\* theirs; a row index the audit does not know becomes a row.
UpdateCells ==
    \E R \in SUBSET Rows \ {{}} : \E value \in [R -> Ids \cup {NoId}] :
        Review(rows \cup R,
               [r \in Rows |-> IF r \in R THEN value[r] ELSE position[r]],
               excluded, TRUE)

\* VARIANT of Known: unknown row indices are excluded as well.
KnownOrNot(R) == R

\* apply_row_exclusions skips the rows the audit does not know.
Known(R) == R \cap rows

ExcludeRows ==
    \E R \in SUBSET Rows \ {{}} : Review(rows, position, excluded \cup Known(R), FALSE)

RestoreRows ==
    \E R \in SUBSET Rows \ {{}} : Review(rows, position, excluded \ Known(R), FALSE)

Next ==
    \/ ReconcilePositions
    \/ ReconcileBands
    \/ Score
    \/ Export
    \/ UpdateCells
    \/ ExcludeRows
    \/ RestoreRows

Spec == Init /\ [][Next]_vars

-----------------------------------------------------------------------------
(* Properties.                                                             *)

\* Every variable has its type; only rows of the audit are excluded.
TypeOK ==
    /\ pdfIds \subseteq Ids
    /\ pdfCount \in [Ids -> 0 .. MaxRead]
    /\ pdfBands \subseteq Bands
    /\ phase \in {"extracted", "reconciled", "scored", "completed", "failed"}
    /\ rows \subseteq Rows
    /\ position \in [Rows -> Ids \cup {NoId}]
    /\ band \in [Rows -> Bands \cup {NoBand}]
    /\ expectedKeys \subseteq Bands
    /\ expectedIds \subseteq Ids
    /\ expectedCount \in Nat
    /\ excluded \subseteq rows
    /\ workbook \in {"none", "saved", "sample", "torn"}
    /\ shown \subseteq Rows
    /\ shownPosition \in [Rows -> Ids \cup {NoId}]
    /\ shownExcluded \subseteq Rows
    /\ discarded \in BOOLEAN
    /\ interrupted \in BOOLEAN
    /\ crashes \in 0 .. MaxCrashes

\* The pipeline never trips over its own guard: whatever the parser returned, the
\* reconciler and the coverage net leave an audit that can be exported.
PipelineNeverRefused == phase # "failed"

\* In whatever state the review is, every choice of rows to exclude, or to
\* restore, passes the guard: a deliberate removal is never taken for a loss.
ExclusionNeverRefused ==
    phase = "completed" => \A out \in SUBSET rows : GuardPasses(rows, position, out)

\* What the parser read in the source is in the workbook, or in a row that was
\* excluded when the workbook was written: bands, and positions while the guard
\* goes by them, whatever was edited in between.
NothingLostSilently ==
    workbook \in {"saved", "sample"} =>
        /\ pdfBands \subseteq BandsIn(shown \cup shownExcluded)
        /\ pdfBands = {} => pdfIds \subseteq IdsIn(shown \cup shownExcluded, shownPosition)

\* The workbook shows the audit's active rows, with the audit's positions, unless
\* the process exited during the last review: a refused review changes neither.
WorkbookMatchesAudit ==
    phase = "completed" /\ ~interrupted =>
        /\ workbook \in {"saved", "sample"}
        /\ shown = rows \ excluded
        /\ shownExcluded = excluded
        /\ shownPosition = position

\* update_cells says of itself: "Persist browser cell edits back into the
\* export-relevant audit model."  Without a crash, no correction is logged for the
\* learning loop and then not persisted.
EveryCorrectionApplied == crashes = 0 => ~discarded

\* _regenerate_export: "Rebuild the downloadable Excel so it reflects the current
\* audit state."  The audit has none of the rows of the template.
NoSampleRows == workbook # "sample"

\* reconcile_positions: "positions that appeared more than once in the RAW rows but
\* were extracted fewer times get extra synthetic MISSING rows so under-extraction
\* is visible (BUG-011)".
EveryOccurrenceVisible ==
    phase = "reconciled" =>
        \A p \in Ids : pdfCount[p] >= 2 => Cardinality(RowsAt(p)) >= pdfCount[p]

-----------------------------------------------------------------------------
(* The inductive invariant.                                                *)

\* Rows rs with positions pos carry everything the guard expects.
CarriedBy(rs, pos) ==
    /\ expectedKeys \subseteq BandsIn(rs)
    /\ expectedKeys = {} => expectedIds \subseteq IdsIn(rs, pos)
    /\ expectedKeys = {} /\ expectedIds = {} => Cardinality(rs) >= expectedCount

\* From scoring on, the rows of the audit, excluded or not, carry everything the
\* guard expects, whatever the reviewer edits: an audit that does not is refused
\* before it is stored.
Carried == phase \in {"scored", "completed"} => CarriedBy(rows, position)
=============================================================================
