------------------------- MODULE CompletenessProofs -------------------------
(***************************************************************************)
(* For every set of rows, positions and bands, and any number of edits,    *)
(* exclusions and crashes: the zero-data-loss guard is exact, the pipeline *)
(* satisfies it, exclusions satisfy it, and a saved workbook accounts for  *)
(* everything the parser read; and which rows reconciliation adds.         *)
(***************************************************************************)
EXTENDS Completeness, FiniteSetTheorems, TLAPS

(***************************************************************************)
(* The inductive invariant.  Carried is what makes it inductive: the guard *)
(* looks at active and excluded rows apart, but what it decides only       *)
(* depends on all rows together (GuardIsExact), and those change in edits  *)
(* alone, which pass the guard.                                            *)
(***************************************************************************)
Anchored ==
    phase # "extracted" =>
        /\ pdfBands \subseteq expectedKeys
        /\ pdfBands = {} => expectedKeys = {} /\ pdfIds \subseteq expectedIds

EnoughRows ==
    phase = "reconciled" /\ expectedKeys = {} /\ expectedIds = {} =>
        Cardinality(rows) >= expectedCount

Fresh ==
    phase \in {"extracted", "reconciled", "scored"} =>
        workbook = "none" /\ excluded = {}

Unexpecting == phase = "extracted" => expectedKeys = {} /\ expectedIds = {}

IInv ==
    /\ TypeOK
    /\ PipelineNeverRefused
    /\ Anchored
    /\ EnoughRows
    /\ Fresh
    /\ Unexpecting
    /\ Carried
    /\ NothingLostSilently
    /\ WorkbookMatchesAudit

-----------------------------------------------------------------------------
(* The guard of excel_exporter.export_to_excel.                            *)

\* Rows that are excluded, and rows that are not, are all rows.
LEMMA RowCount ==
    ASSUME NEW rs \in SUBSET Rows, NEW out \in SUBSET rs
    PROVE  /\ Cardinality(rs) \in Nat
           /\ Cardinality(out) \in Nat
           /\ Cardinality(rs \ out) = Cardinality(rs) - Cardinality(out)
<1>1. IsFiniteSet(rs) /\ IsFiniteSet(out)
  BY FS_Subset, FiniteAssumption
<1>2. rs \cap out = out
  OBVIOUS
<1> QED
  BY <1>1, <1>2, FS_Difference, FS_CardinalityType

\* The guard is exact: whichever rows are excluded, it passes just when the rows,
\* excluded or not, carry everything expected.  So an exclusion can never be taken
\* for a loss, and no choice of exclusions hides one.
THEOREM GuardIsExact ==
    ASSUME NEW rs \in SUBSET Rows, NEW out \in SUBSET rs,
           NEW pos \in [Rows -> Ids \cup {NoId}], TypeOK
    PROVE  GuardPasses(rs, pos, out) <=> CarriedBy(rs, pos)
<1>0. /\ expectedCount \in Nat
      /\ Cardinality(rs) \in Nat
      /\ Cardinality(out) \in Nat
      /\ Cardinality(rs \ out) = Cardinality(rs) - Cardinality(out)
  BY RowCount DEF TypeOK
<1>1. BandsIn(rs) = BandsIn(rs \ out) \cup BandsIn(out)
  BY DEF BandsIn
<1>2. IdsIn(rs, pos) = IdsIn(rs \ out, pos) \cup IdsIn(out, pos)
  BY DEF IdsIn
<1>3. ASSUME NEW E, NEW A, NEW G
      PROVE  Covered(E, A, G) <=> E \subseteq A \cup G
  BY DEF Covered
<1>4. Covered(expectedKeys, BandsIn(rs \ out), BandsIn(out))
         <=> expectedKeys \subseteq BandsIn(rs)
  BY <1>1, <1>3
<1>5. Covered(expectedIds, IdsIn(rs \ out, pos), IdsIn(out, pos))
         <=> expectedIds \subseteq IdsIn(rs, pos)
  BY <1>2, <1>3
<1>6. Cardinality(rs \ out) >= expectedCount - Cardinality(out)
         <=> Cardinality(rs) >= expectedCount
  BY <1>0
<1>7. expectedCount > 0 \/ Cardinality(rs) >= expectedCount
  BY <1>0
<1>8. ASSUME GuardPasses(rs, pos, out) PROVE CarriedBy(rs, pos)
  <2>1. expectedKeys \subseteq BandsIn(rs)
    BY <1>4, <1>8 DEF GuardPasses
  <2>2. ASSUME expectedKeys = {} PROVE expectedIds \subseteq IdsIn(rs, pos)
    BY <1>5, <1>8, <2>2 DEF GuardPasses
  <2>3. ASSUME expectedKeys = {}, expectedIds = {}
        PROVE  Cardinality(rs) >= expectedCount
    BY <1>6, <1>7, <1>8, <2>3 DEF GuardPasses
  <2> QED
    BY <2>1, <2>2, <2>3 DEF CarriedBy
<1>9. ASSUME CarriedBy(rs, pos) PROVE GuardPasses(rs, pos, out)
  BY <1>4, <1>5, <1>6, <1>9 DEF GuardPasses, CarriedBy
<1> QED
  BY <1>8, <1>9

-----------------------------------------------------------------------------
(* The pipeline preserves the invariant.                                   *)

\* Nothing is expected before the reconciliation.
LEMMA InitHolds == Init => IInv
<1> SUFFICES ASSUME Init PROVE IInv
  OBVIOUS
<1>1. /\ phase = "extracted" /\ workbook = "none" /\ excluded = {}
      /\ expectedKeys = {} /\ expectedIds = {} /\ expectedCount = 0
  BY DEF Init
<1>2. /\ rows \in SUBSET Rows
      /\ position \in [Rows -> Ids \cup {NoId}] /\ shownPosition = position
      /\ band \in [Rows -> Bands \cup {NoBand}]
      /\ pdfIds \in SUBSET Ids /\ pdfBands \in SUBSET Bands
      /\ pdfCount \in [Ids -> 0 .. MaxRead]
      /\ shown = {} /\ shownExcluded = {}
      /\ discarded = FALSE /\ interrupted = FALSE /\ crashes = 0
  BY Zenon DEF Init
<1>3. TypeOK
  <2>1. crashes \in 0 .. MaxCrashes /\ expectedCount \in Nat
    BY <1>1, <1>2, BoundAssumption
  <2>2. discarded \in BOOLEAN /\ interrupted \in BOOLEAN
    BY <1>2, Zenon
  <2>3. /\ phase \in {"extracted", "reconciled", "scored", "completed", "failed"}
        /\ workbook \in {"none", "saved", "sample", "torn"}
        /\ expectedKeys \subseteq Bands /\ expectedIds \subseteq Ids
        /\ excluded \subseteq rows /\ shown \subseteq Rows /\ shownExcluded \subseteq Rows
    BY <1>1, <1>2
  <2> QED
    BY <1>2, <2>1, <2>2, <2>3 DEF TypeOK
<1> QED
  BY <1>1, <1>3 DEF IInv, PipelineNeverRefused, Anchored, EnoughRows, Fresh,
              Unexpecting, Carried, NothingLostSilently, WorkbookMatchesAudit

\* The master set names everything read, and everything extracted.
LEMMA ReconcilePositionsHolds == IInv /\ ReconcilePositions => IInv'
<1> SUFFICES ASSUME IInv, ReconcilePositions PROVE IInv'
  OBVIOUS
<1> DEFINE master == IdsIn(rows, position) \cup pdfIds
<1>1. /\ phase = "extracted" /\ phase' = "reconciled"
      /\ pdfBands = {} /\ pdfBands' = {} /\ pdfIds' = pdfIds
      /\ expectedKeys = {} /\ expectedKeys' = {}
      /\ expectedIds' = master
      /\ excluded = {} /\ excluded' = {} /\ workbook = "none" /\ workbook' = "none"
  BY DEF IInv, Fresh, Unexpecting, ReconcilePositions, source, sheet, history
<1>2. PICK added \in SUBSET (Rows \ rows) : \E label \in [added -> Ids] :
        /\ rows' = rows \cup added
        /\ position' = [r \in Rows |-> IF r \in added THEN label[r] ELSE position[r]]
  BY DEF ReconcilePositions
<1>3. position' \in [Rows -> Ids \cup {NoId}] /\ rows' \in SUBSET Rows
  BY <1>2 DEF IInv, TypeOK
<1>4. master \subseteq Ids
  BY DEF IInv, TypeOK, IdsIn
<1>5. /\ IsFiniteSet(master)
      /\ Cardinality(rows) \in Nat /\ Cardinality(master) \in Nat
      /\ Cardinality(rows') >= Cardinality(rows) /\ Cardinality(rows') \in Nat
  <2>1. IsFiniteSet(rows') /\ IsFiniteSet(master) /\ rows \in SUBSET rows'
    BY <1>2, <1>3, <1>4, FS_Subset, FiniteAssumption DEF IInv, TypeOK
  <2> QED
    BY <2>1, FS_Subset, FS_CardinalityType
<1>6. /\ expectedCount' \in Nat
      /\ master = {} => expectedCount' = Cardinality(rows)
  BY <1>5 DEF ReconcilePositions
<1>7. TypeOK'
  BY <1>1, <1>3, <1>4, <1>6
     DEF IInv, TypeOK, ReconcilePositions, source, sheet, history
<1>8. EnoughRows'
  BY <1>1, <1>5, <1>6 DEF EnoughRows
<1> QED
  BY <1>1, <1>7, <1>8 DEF IInv, PipelineNeverRefused, Anchored, Fresh, Unexpecting,
                          Carried, NothingLostSilently, WorkbookMatchesAudit

\* With row bands the master set names every band read, and every band extracted.
LEMMA ReconcileBandsHolds == IInv /\ ReconcileBands => IInv'
<1> SUFFICES ASSUME IInv, ReconcileBands PROVE IInv'
  OBVIOUS
<1>1. /\ phase = "extracted" /\ phase' = "reconciled"
      /\ pdfBands # {} /\ pdfBands' = pdfBands
      /\ expectedKeys' = BandsIn(rows) \cup pdfBands
      /\ excluded = {} /\ excluded' = {} /\ workbook = "none" /\ workbook' = "none"
  BY DEF IInv, Fresh, ReconcileBands, source, sheet, history
<1>2. PICK added \in SUBSET (Rows \ rows) :
        \E label \in [added -> pdfBands \ BandsIn(rows)] :
          /\ rows' = rows \cup added
          /\ band' = [r \in Rows |-> IF r \in added THEN label[r] ELSE band[r]]
  BY DEF ReconcileBands
<1>3. band' \in [Rows -> Bands \cup {NoBand}] /\ rows' \in SUBSET Rows
  BY <1>2 DEF IInv, TypeOK
<1>4. expectedKeys' \subseteq Bands
  BY <1>1 DEF IInv, TypeOK, BandsIn
<1>5. expectedCount' \in Nat
  BY <1>4, FS_Subset, FS_CardinalityType, FiniteAssumption DEF ReconcileBands
<1>6. TypeOK'
  BY <1>1, <1>3, <1>4, <1>5
     DEF IInv, TypeOK, ReconcileBands, source, sheet, history
<1> QED
  BY <1>1, <1>6 DEF IInv, PipelineNeverRefused, Anchored, EnoughRows, Fresh, Unexpecting,
                    Carried, NothingLostSilently, WorkbookMatchesAudit

\* The coverage net alone makes the rows carry what is expected.
LEMMA ScoreHolds == IInv /\ Score => IInv'
<1> SUFFICES ASSUME IInv, Score PROVE IInv'
  OBVIOUS
<1> DEFINE lost == IF expectedKeys # {} THEN expectedKeys \ BandsIn(rows)
                   ELSE expectedIds \ IdsIn(rows, position)
<1>1. /\ phase = "reconciled" /\ phase' = "scored"
      /\ UNCHANGED <<pdfIds, pdfCount, pdfBands>>
      /\ UNCHANGED <<expectedKeys, expectedIds, expectedCount>>
      /\ excluded = {} /\ excluded' = {} /\ workbook = "none" /\ workbook' = "none"
  BY DEF IInv, Fresh, Score, source, expectation, sheet, history
<1> DEFINE Appended(added, label) ==
        /\ \A i \in lost : \E r \in added : label[r] = i
        /\ rows' = rows \cup added
        /\ position' = [r \in Rows |-> IF r \in added /\ expectedKeys = {}
                                       THEN label[r] ELSE position[r]]
        /\ band' = [r \in Rows |-> IF r \in added /\ expectedKeys # {}
                                   THEN label[r] ELSE band[r]]
<1>a. PICK added \in SUBSET (Rows \ rows) : \E label \in [added -> lost] : Appended(added, label)
  BY DEF Score
<1>2. PICK label \in [added -> lost] : Appended(added, label)
  BY <1>a
<1>3. /\ position' \in [Rows -> Ids \cup {NoId}]
      /\ band' \in [Rows -> Bands \cup {NoBand}]
      /\ rows' \in SUBSET Rows
  BY <1>2 DEF IInv, TypeOK
<1>4. TypeOK'
  BY <1>1, <1>3 DEF IInv, TypeOK, Score, source, expectation, sheet, history
<1>5. ASSUME expectedKeys # {}, NEW k \in expectedKeys PROVE k \in BandsIn(rows)'
  <2>1. k # NoBand
    BY SentinelAssumption DEF IInv, TypeOK
  <2>2. \E r \in rows' : band'[r] = k
    BY <1>2, <1>5 DEF IInv, TypeOK, BandsIn
  <2> QED
    BY <2>1, <2>2 DEF BandsIn
<1>6. ASSUME expectedKeys = {}, NEW p \in expectedIds PROVE p \in IdsIn(rows, position)'
  <2>1. p # NoId
    BY SentinelAssumption DEF IInv, TypeOK
  <2>2. \E r \in rows' : position'[r] = p
    BY <1>2, <1>6 DEF IInv, TypeOK, IdsIn
  <2> QED
    BY <2>1, <2>2 DEF IdsIn
<1>7. Cardinality(rows') >= Cardinality(rows) /\ Cardinality(rows') \in Nat
      /\ Cardinality(rows) \in Nat
  <2>1. IsFiniteSet(rows') /\ rows \in SUBSET rows'
    BY <1>2, <1>3, FS_Subset, FiniteAssumption DEF IInv, TypeOK
  <2> QED
    BY <2>1, FS_Subset, FS_CardinalityType
<1>8. ASSUME expectedKeys = {}, expectedIds = {}
      PROVE  Cardinality(rows') >= expectedCount
  BY <1>1, <1>7, <1>8 DEF IInv, TypeOK, EnoughRows
<1>9. CarriedBy(rows, position)'
  <2>1. (expectedKeys \subseteq BandsIn(rows))'
    BY <1>1, <1>5
  <2>2. (expectedKeys = {} => expectedIds \subseteq IdsIn(rows, position))'
    BY <1>1, <1>6
  <2> QED
    BY <1>1, <1>8, <2>1, <2>2 DEF CarriedBy
<1> QED
  BY <1>1, <1>4, <1>9 DEF IInv, PipelineNeverRefused, Anchored, EnoughRows, Fresh,
                          Unexpecting, Carried, NothingLostSilently, WorkbookMatchesAudit

\* Saving rows that pass the guard loses nothing silently.
LEMMA SavedIsComplete ==
    ASSUME IInv, phase # "extracted", UNCHANGED <<source, band, expectation>>,
           NEW rs \in SUBSET Rows, NEW out \in SUBSET rs,
           NEW pos \in [Rows -> Ids \cup {NoId}],
           CarriedBy(rs, pos), Save(rs, pos, out)
    PROVE  NothingLostSilently'
<1>1. /\ pdfBands \subseteq BandsIn(rs)
      /\ pdfBands = {} => pdfIds \subseteq IdsIn(rs, pos)
  BY DEF IInv, Anchored, CarriedBy
<1>2. shown' \cup shownExcluded' = rs /\ shownPosition' = pos
  BY DEF Save
<1>3. BandsIn(shown \cup shownExcluded)' = BandsIn(rs)
  BY <1>2 DEF BandsIn
<1>4. IdsIn(shown \cup shownExcluded, shownPosition)' = IdsIn(rs, pos)
  BY <1>2 DEF IdsIn
<1>5. pdfBands' = pdfBands /\ pdfIds' = pdfIds
  BY DEF source
<1> QED
  BY <1>1, <1>3, <1>4, <1>5 DEF NothingLostSilently

\* The scored rows carry what is expected, so the first export passes the guard.
LEMMA ExportHolds == IInv /\ Export => IInv'
<1> SUFFICES ASSUME IInv, Export PROVE IInv'
  OBVIOUS
<1>1. /\ phase = "scored" /\ excluded = {}
      /\ UNCHANGED <<pdfIds, pdfCount, pdfBands, rows, position, band>>
      /\ UNCHANGED <<expectedKeys, expectedIds, expectedCount, excluded>>
      /\ UNCHANGED <<discarded, interrupted, crashes>>
  BY DEF IInv, Fresh, Export, source, expectation, history
<1>2. CarriedBy(rows, position)
  BY <1>1 DEF IInv, Carried
<1>3. rows \in SUBSET Rows /\ position \in [Rows -> Ids \cup {NoId}] /\ TypeOK
  BY DEF IInv, TypeOK
<1>4. GuardPasses(rows, position, {})
  BY <1>2, <1>3, GuardIsExact
<1>5. phase' = "completed" /\ Save(rows, position, {})
  BY <1>4 DEF Export
<1>6. /\ workbook' \in {"saved", "sample"} /\ shown' = rows /\ shownExcluded' = {}
      /\ shownPosition' = position
  BY <1>5 DEF Save
<1>7. TypeOK'
  BY <1>1, <1>3, <1>5, <1>6 DEF TypeOK
<1>8. NothingLostSilently'
  BY <1>1, <1>2, <1>3, <1>5, SavedIsComplete DEF source, expectation
<1>9. CarriedBy(rows, position)'
  BY <1>1, <1>2 DEF CarriedBy, BandsIn, IdsIn
<1>10. WorkbookMatchesAudit'
  BY <1>1, <1>6 DEF WorkbookMatchesAudit
<1> QED
  BY <1>1, <1>5, <1>7, <1>8, <1>9, <1>10
     DEF IInv, PipelineNeverRefused, Anchored, EnoughRows, Fresh, Unexpecting, Carried

-----------------------------------------------------------------------------
(* The review preserves the invariant.                                     *)

\* A request of the review: applied, refused by the guard, or cut short.
LEMMA ReviewHolds ==
    ASSUME IInv, NEW rs \in SUBSET Rows, NEW out \in SUBSET rs,
           NEW pos \in [Rows -> Ids \cup {NoId}], NEW logged \in BOOLEAN,
           Review(rs, pos, out, logged)
    PROVE  IInv'
<1>1. /\ phase = "completed" /\ phase' = "completed"
      /\ UNCHANGED <<pdfIds, pdfCount, pdfBands, band>>
      /\ UNCHANGED <<expectedKeys, expectedIds, expectedCount>>
      /\ UNCHANGED <<source, band, expectation>>
  BY DEF Review, source, expectation
<1>2. TypeOK /\ CarriedBy(rows, position)
  BY <1>1 DEF IInv, Carried
<1>3. ASSUME NEW r2 \in SUBSET Rows, NEW p2 \in [Rows -> Ids \cup {NoId}],
             CarriedBy(r2, p2), rows' = r2, position' = p2
      PROVE  CarriedBy(rows, position)'
  BY <1>1, <1>3 DEF CarriedBy, BandsIn, IdsIn
<1>4. CASE Applied(rs, pos, out)
  <2>1. /\ rows' = rs /\ position' = pos /\ excluded' = out /\ interrupted' = FALSE
        /\ UNCHANGED <<discarded, crashes>>
        /\ Save(rs, pos, out) /\ GuardPasses(rs, pos, out)
    BY <1>4 DEF Applied
  <2>2. CarriedBy(rs, pos)
    BY <1>2, <2>1, GuardIsExact
  <2>3. /\ workbook' \in {"saved", "sample"} /\ shown' = rs \ out /\ shownExcluded' = out
        /\ shownPosition' = pos
    BY <2>1 DEF Save
  <2>4. TypeOK'
    <3>1. interrupted' \in BOOLEAN /\ discarded' \in BOOLEAN
      BY <1>2, <2>1, Zenon DEF TypeOK
    <3> QED
      BY <1>1, <1>2, <2>1, <2>3, <3>1 DEF TypeOK
  <2>5. NothingLostSilently'
    BY <1>1, <2>1, <2>2, SavedIsComplete
  <2>6. CarriedBy(rows, position)'
    BY <1>3, <2>1, <2>2
  <2>7. WorkbookMatchesAudit'
    BY <2>1, <2>3 DEF WorkbookMatchesAudit
  <2> QED
    BY <1>1, <2>4, <2>5, <2>6, <2>7
       DEF IInv, PipelineNeverRefused, Anchored, EnoughRows, Fresh, Unexpecting, Carried
<1>5. CASE Refused(rs, pos, out, logged)
  <2>1. /\ UNCHANGED <<rows, position, excluded, interrupted, crashes>>
        /\ UNCHANGED <<workbook, shown, shownPosition, shownExcluded>>
        /\ discarded' = (discarded \/ logged)
    BY <1>5 DEF Refused, sheet
  <2>2. TypeOK'
    <3>1. discarded' \in BOOLEAN
      BY <2>1, Zenon
    <3> QED
      BY <1>1, <1>2, <2>1, <3>1 DEF TypeOK
  <2>3. CarriedBy(rows, position)'
    BY <1>1, <1>2, <2>1 DEF CarriedBy, BandsIn, IdsIn
  <2>4. NothingLostSilently'
    BY <1>1, <2>1 DEF IInv, NothingLostSilently, BandsIn, IdsIn
  <2>5. WorkbookMatchesAudit'
    BY <1>1, <2>1 DEF IInv, WorkbookMatchesAudit
  <2> QED
    BY <1>1, <2>2, <2>3, <2>4, <2>5
       DEF IInv, PipelineNeverRefused, Anchored, EnoughRows, Fresh, Unexpecting, Carried
<1>6. CASE Interrupted(rs, pos, out, logged)
  <2>1. /\ UNCHANGED <<rows, position, excluded>>
        /\ interrupted' = TRUE /\ crashes < MaxCrashes /\ crashes' = crashes + 1
        /\ discarded' = (discarded \/ logged)
    BY <1>6 DEF Interrupted
  <2>2. /\ workbook' \in {"none", "saved", "sample", "torn"}
        /\ shown' \in SUBSET Rows /\ shownExcluded' \in SUBSET Rows
        /\ shownPosition' \in [Rows -> Ids \cup {NoId}]
    BY <1>2, <1>6 DEF Interrupted, Save, TypeOK, sheet
  <2>3. TypeOK'
    <3>1. discarded' \in BOOLEAN /\ interrupted' \in BOOLEAN
      BY <2>1, Zenon
    <3>2. crashes' \in 0 .. MaxCrashes
      BY <1>2, <2>1, BoundAssumption DEF TypeOK
    <3> QED
      BY <1>1, <1>2, <2>1, <2>2, <3>1, <3>2 DEF TypeOK
  <2>4. CarriedBy(rows, position)'
    BY <1>1, <1>2, <2>1 DEF CarriedBy, BandsIn, IdsIn
  <2>5. NothingLostSilently'
    <3>1. CASE UNCHANGED sheet
      BY <1>1, <3>1 DEF IInv, NothingLostSilently, BandsIn, IdsIn, sheet
    <3>2. CASE workbook' = "torn"
      BY <3>2 DEF NothingLostSilently
    <3>3. CASE GuardPasses(rs, pos, out) /\ Save(rs, pos, out)
      <4>1. CarriedBy(rs, pos)
        BY <1>2, <3>3, GuardIsExact
      <4> QED
        BY <1>1, <3>3, <4>1, SavedIsComplete
    <3> QED
      BY <1>6, <3>1, <3>2, <3>3 DEF Interrupted
  <2>6. WorkbookMatchesAudit'
    BY <2>1 DEF WorkbookMatchesAudit
  <2> QED
    BY <1>1, <2>3, <2>4, <2>5, <2>6
       DEF IInv, PipelineNeverRefused, Anchored, EnoughRows, Fresh, Unexpecting, Carried
<1> QED
  BY <1>4, <1>5, <1>6 DEF Review

\* The inductive step.
LEMMA Inductive == IInv /\ [Next]_vars => IInv'
<1> SUFFICES ASSUME IInv, [Next]_vars PROVE IInv'
  OBVIOUS
<1>1. /\ rows \in SUBSET Rows /\ excluded \in SUBSET rows
      /\ position \in [Rows -> Ids \cup {NoId}]
  BY DEF IInv, TypeOK
<1>2. CASE ReconcilePositions
  BY <1>2, ReconcilePositionsHolds
<1>3. CASE ReconcileBands
  BY <1>3, ReconcileBandsHolds
<1>4. CASE Score
  BY <1>4, ScoreHolds
<1>5. CASE Export
  BY <1>5, ExportHolds
<1>6. CASE UpdateCells
  <2> DEFINE Edited(R, value) == [r \in Rows |-> IF r \in R THEN value[r] ELSE position[r]]
  <2>1. PICK R \in SUBSET Rows \ {{}} : \E value \in [R -> Ids \cup {NoId}] :
                Review(rows \cup R, Edited(R, value), excluded, TRUE)
    BY <1>6 DEF UpdateCells
  <2>2. PICK value \in [R -> Ids \cup {NoId}] :
                Review(rows \cup R, Edited(R, value), excluded, TRUE)
    BY <2>1
  <2>3. /\ rows \cup R \in SUBSET Rows /\ excluded \in SUBSET (rows \cup R)
        /\ Edited(R, value) \in [Rows -> Ids \cup {NoId}]
    BY <1>1, <2>1, <2>2
  <2> HIDE DEF Edited
  <2> QED
    BY <2>2, <2>3, ReviewHolds
<1>7. CASE ExcludeRows
  <2>1. PICK R \in SUBSET Rows \ {{}} :
                Review(rows, position, excluded \cup Known(R), FALSE)
    BY <1>7 DEF ExcludeRows
  <2>2. excluded \cup Known(R) \in SUBSET rows
    BY <1>1 DEF Known
  <2> QED
    BY <1>1, <2>1, <2>2, ReviewHolds
<1>8. CASE RestoreRows
  <2>1. PICK R \in SUBSET Rows \ {{}} :
                Review(rows, position, excluded \ Known(R), FALSE)
    BY <1>8 DEF RestoreRows
  <2>2. excluded \ Known(R) \in SUBSET rows
    BY <1>1
  <2> QED
    BY <1>1, <2>1, <2>2, ReviewHolds
<1>9. CASE UNCHANGED vars
  BY <1>9 DEF vars, source, expectation, sheet, history, IInv, TypeOK, PipelineNeverRefused,
              Anchored, EnoughRows, Fresh, Unexpecting, Carried, CarriedBy,
              NothingLostSilently, WorkbookMatchesAudit, BandsIn, IdsIn
<1> QED
  BY <1>2, <1>3, <1>4, <1>5, <1>6, <1>7, <1>8, <1>9 DEF Next

-----------------------------------------------------------------------------
(* The results.                                                            *)

\* IInv holds in every reachable state.
LEMMA CompletenessInvariant == Spec => []IInv
<1> QED
  BY InitHolds, Inductive, PTL DEF Spec

\* The first export never fails on its own guard, whatever the parser returned.
THEOREM ExportSucceeds == Spec => []PipelineNeverRefused
<1>1. IInv => PipelineNeverRefused
  BY DEF IInv
<1> QED
  BY <1>1, CompletenessInvariant, PTL

\* No exclusion or restoration of rows is ever refused.
THEOREM ExclusionsPass == Spec => []ExclusionNeverRefused
<1>1. IInv => ExclusionNeverRefused
  <2> SUFFICES ASSUME IInv, phase = "completed", NEW out \in SUBSET rows
               PROVE  GuardPasses(rows, position, out)
    BY DEF ExclusionNeverRefused
  <2>1. /\ TypeOK /\ rows \in SUBSET Rows
        /\ position \in [Rows -> Ids \cup {NoId}] /\ CarriedBy(rows, position)
    BY DEF IInv, TypeOK, Carried
  <2> QED
    BY <2>1, GuardIsExact
<1> QED
  BY <1>1, CompletenessInvariant, PTL

\* Every position or band the parser read is in the saved workbook, or in a row
\* excluded when it was saved.
THEOREM NoSilentLoss == Spec => []NothingLostSilently
<1>1. IInv => NothingLostSilently
  BY DEF IInv
<1> QED
  BY <1>1, CompletenessInvariant, PTL

\* The audit always carries what the guard expects.
THEOREM AuditCarries == Spec => []Carried
<1>1. IInv => Carried
  BY DEF IInv
<1> QED
  BY <1>1, CompletenessInvariant, PTL

\* Without an interrupted review the workbook shows what the audit holds.
THEOREM WorkbookFaithful == Spec => []WorkbookMatchesAudit
<1>1. IInv => WorkbookMatchesAudit
  BY DEF IInv
<1> QED
  BY <1>1, CompletenessInvariant, PTL

\* Every variable keeps its type.
THEOREM CompletenessTypes == Spec => []TypeOK
<1>1. IInv => TypeOK
  BY DEF IInv
<1> QED
  BY <1>1, CompletenessInvariant, PTL
-----------------------------------------------------------------------------
(* What holds of the promise that EveryOccurrenceVisible quotes.           *)

\* reconcile_positions adds rows for extracted positions up to the number of times the
\* source has them, and one row for a position that was not extracted; the rows it was
\* given keep their positions.
ExtractedOccurrencesVisible ==
    [][ReconcilePositions =>
          \A p \in Ids :
             /\ RowsAt(p) \subseteq RowsAt(p)'
             /\ RowsAt(p) # {} => Cardinality(RowsAt(p)') >= pdfCount[p]
             /\ p \in pdfIds => RowsAt(p)' # {}]_vars

LEMMA ShortfallIsFilled ==
    ASSUME TypeOK, ReconcilePositions, NEW p \in Ids
    PROVE  /\ RowsAt(p) \subseteq RowsAt(p)'
           /\ Cardinality(RowsAt(p)') = Cardinality(RowsAt(p)) + Shortfall(p)
<1>0. PICK added \in SUBSET (Rows \ rows) : \E label \in [added -> Ids] :
             /\ \A q \in Ids : Cardinality({r \in added : label[r] = q}) = Shortfall(q)
             /\ rows' = rows \cup added
             /\ position' = [r \in Rows |-> IF r \in added THEN label[r] ELSE position[r]]
  BY DEF ReconcilePositions
<1>1. PICK label \in [added -> Ids] :
             /\ \A q \in Ids : Cardinality({r \in added : label[r] = q}) = Shortfall(q)
             /\ rows' = rows \cup added
             /\ position' = [r \in Rows |-> IF r \in added THEN label[r] ELSE position[r]]
  BY <1>0
<1> DEFINE old == RowsAt(p)
           new == {r \in added : label[r] = p}
<1>2. rows \subseteq Rows
  BY DEF TypeOK
<1>3. RowsAt(p)' = old \cup new /\ old \cap new = {}
  BY <1>1, <1>2 DEF RowsAt
<1>4. IsFiniteSet(old) /\ IsFiniteSet(new)
  BY <1>2, FiniteAssumption, FS_Subset DEF RowsAt
<1>5. Cardinality(old) \in Nat /\ Cardinality(new) \in Nat /\ Cardinality({}) = 0
  BY <1>4, FS_CardinalityType, FS_EmptySet
<1>6. Cardinality(new) = Shortfall(p)
  BY <1>1
<1> HIDE DEF old, new
<1>7. Cardinality(old \cup new) = Cardinality(old) + Cardinality(new) - Cardinality(old \cap new)
  BY <1>4, FS_Union
<1>8. Cardinality(old \cup new) = Cardinality(old) + Cardinality(new)
  <2>1. Cardinality(old \cap new) = 0
    BY <1>3, <1>5
  <2> QED
    BY <1>5, <1>7, <2>1
<1>9. Cardinality(RowsAt(p)') = Cardinality(old) + Shortfall(p)
  BY <1>3, <1>6, <1>8
<1>10. old \subseteq RowsAt(p)'
  BY <1>3
<1> QED
  BY <1>9, <1>10 DEF old

\* An extracted position is in the table as often as in the source (BUG-011), and every
\* position of the source at least once: only a position that was not extracted at all
\* may be there less often than it was read.
THEOREM ExtractedAreComplete == Spec => ExtractedOccurrencesVisible
<1>1. IInv =>
        [ReconcilePositions =>
            \A p \in Ids :
               /\ RowsAt(p) \subseteq RowsAt(p)'
               /\ RowsAt(p) # {} => Cardinality(RowsAt(p)') >= pdfCount[p]
               /\ p \in pdfIds => RowsAt(p)' # {}]_vars
  <2> SUFFICES ASSUME TypeOK, ReconcilePositions, NEW p \in Ids
               PROVE  /\ RowsAt(p) \subseteq RowsAt(p)'
                      /\ RowsAt(p) # {} => Cardinality(RowsAt(p)') >= pdfCount[p]
                      /\ p \in pdfIds => RowsAt(p)' # {}
    BY DEF IInv
  <2> DEFINE c == Cardinality(RowsAt(p))
  <2>1. /\ RowsAt(p) \subseteq RowsAt(p)'
        /\ Cardinality(RowsAt(p)') = c + Shortfall(p)
    BY ShortfallIsFilled
  <2>2. pdfCount[p] \in Nat /\ c \in Nat /\ (RowsAt(p) # {} => c # 0)
    <3>1. IsFiniteSet(RowsAt(p))
      BY FiniteAssumption, FS_Subset DEF TypeOK, RowsAt
    <3>2. pdfCount[p] \in 0 .. MaxRead
      BY DEF TypeOK
    <3> QED
      BY <3>1, <3>2, BoundAssumption, FS_CardinalityType, FS_EmptySet
  <2>3. CASE RowsAt(p) = {}
    <3>1. c = 0 /\ Cardinality({}) = 0
      BY <2>3, FS_EmptySet
    <3>2. p \in pdfIds => Cardinality(RowsAt(p)') = 1
      BY <2>1, <2>3, <3>1 DEF Shortfall
    <3>3. p \in pdfIds => RowsAt(p)' # {}
      BY <3>1, <3>2
    <3> QED
      BY <2>1, <2>3, <3>3
  <2>4. CASE RowsAt(p) # {}
    <3>1. Shortfall(p) = IF pdfCount[p] >= 2 /\ pdfCount[p] > c THEN pdfCount[p] - c ELSE 0
      BY <2>4 DEF Shortfall
    <3> HIDE DEF c
    <3>2. c + Shortfall(p) >= pdfCount[p]
      BY <2>2, <2>4, <3>1
    <3>3. RowsAt(p)' # {}
      BY <2>1, <2>4
    <3> QED
      BY <2>1, <3>2, <3>3
  <2> QED
    BY <2>3, <2>4
<1> QED
  BY <1>1, CompletenessInvariant, PTL DEF ExtractedOccurrencesVisible
=============================================================================
