------------------------ MODULE SettingsEditorProofs ------------------------
(***************************************************************************)
(* Proofs about SettingsEditor for any catalogs, materials and bounds: no  *)
(* catalog is written over another but by a save before its text is shown; *)
(* and for an admin who waits until the page is settled, typed text is not *)
(* lost, and a settled page shows what is stored.                          *)
(***************************************************************************)
EXTENDS SettingsEditor, TLAPS

\* What is cached or on its way for a document is a text of that document.
CacheOwn ==
    \A d \in Docs : /\ cache[d] # Unloaded => cache[d].of = d
                    /\ fetch[d] \notin {Idle, Asked} => fetch[d].of = d

\* An editor whose effect has run for its document holds a text of that document.
EditorsOwn ==
    /\ jsonSeen # Unloaded => jsonSeen.of = catalog /\ jsonText.of = catalog
    /\ overridesSeen # Unloaded => overridesSeen.of = Overrides /\ overridesText.of = Overrides

\* A write that is out carries a text of the document it is for.
WriteOwn == busy => write.of = write.doc

FilesOwn == \A d \in Docs : file[d].of = d

\* The inductive invariant, as long as no text was saved before another was shown.
OwnInv == TypeOK /\ CacheOwn /\ EditorsOwn /\ WriteOwn /\ FilesOwn

\* Stamps only grow on the way back from the editor to the file.
StampsRise ==
    /\ \A d \in Docs : /\ file[d].stamp <= writes /\ cache[d].stamp <= file[d].stamp
                       /\ fetch[d] \notin {Idle, Asked} =>
                             cache[d].stamp <= fetch[d].stamp /\ fetch[d].stamp <= file[d].stamp
    /\ jsonSeen.stamp <= cache[catalog].stamp
    /\ overridesSeen.stamp <= cache[Overrides].stamp

\* Only a text that was filled from a document is typed in.
TypedWasShown ==
    /\ jsonText.typed => jsonSeen # Unloaded
    /\ overridesText.typed => overridesSeen # Unloaded

\* Nothing is fetched while a write is out, so a fetch brings what is stored.
QuietWrites ==
    \A d \in Docs : /\ busy => fetch[d] = Idle
                    /\ fetch[d] \notin {Idle, Asked} => fetch[d] = file[d]

\* Data that are not what is stored are marked, or about to be by the write that has
\* changed the file; what is marked and on the page is being fetched, unless that failed.
StaleIsMarked ==
    \A d \in Docs :
        /\ \/ cache[d] \in {Unloaded, file[d]} \/ d \in invalid
           \/ (busy /\ write.phase = "done") \/ failures # 0
        /\ d \in invalid /\ d \in Active(catalog) /\ failures = 0 => fetch[d] # Idle

\* The inductive invariant of an admin who waits.
CarefulInv == ~blind /\ OwnInv /\ StampsRise /\ TypedWasShown /\ QuietWrites /\ StaleIsMarked

-----------------------------------------------------------------------------
(* What is cached, shown and written is of its document.                   *)

LEMMA Basics ==
    ASSUME SettingsAssumption
    PROVE  /\ 0 \in Stamps /\ Stamps \subseteq Nat
           /\ Unloaded \in Document
           /\ Overrides \in Docs /\ Materials \in Docs /\ Units \in Catalogs
           /\ Catalogs \subseteq Docs /\ Nothing \notin Docs
           /\ Idle \notin Document /\ Asked \notin Document /\ Idle # Asked
           /\ NoWrite \notin Write
BY DEF SettingsAssumption, Stamps, Document, Unloaded, Docs

LEMMA InitHolds == ASSUME SettingsAssumption, Init PROVE CarefulInv
<1>1. TypeOK
  <2>1. file \in [Docs -> Document] /\ cache \in [Docs -> Document]
    BY Basics DEF Init, Document
  <2>2. fetch \in [Docs -> Document \cup {Idle, Asked}]
    BY DEF Init
  <2>3. overridesText \in Text /\ jsonText \in Text /\ draft \in Draft
    BY DEF Init, Text, Draft, emptyDraft
  <2>4. writes \in Stamps /\ failures \in 0..MaxFailures
    BY Basics DEF Init, SettingsAssumption
  <2> QED
    BY <2>1, <2>2, <2>3, <2>4, Basics DEF Init, TypeOK, emptyDraft
<1>2. CacheOwn /\ EditorsOwn /\ WriteOwn /\ FilesOwn
  BY DEF Init, CacheOwn, EditorsOwn, WriteOwn, busy, FilesOwn
<1>3. StampsRise
  BY Basics DEF Init, StampsRise, Unloaded
<1>4. TypedWasShown /\ QuietWrites /\ StaleIsMarked
  BY DEF Init, TypedWasShown, QuietWrites, StaleIsMarked, busy
<1>5. ~blind
  BY Zenon DEF Init
<1> QED
  BY <1>1, <1>2, <1>3, <1>4, <1>5 DEF CarefulInv, OwnInv

LEMMA FetchesOwn ==
    ASSUME SettingsAssumption, OwnInv, UNCHANGED careful, NEW d \in Docs,
           AnswerFetch(d) \/ ReceiveFetch(d) \/ FetchFails(d)
    PROVE  OwnInv'
<1> USE DEF saves
<1>1. CASE AnswerFetch(d)
  BY <1>1 DEF AnswerFetch, OwnInv, TypeOK, CacheOwn, EditorsOwn, WriteOwn, FilesOwn, busy,
              editors, form
<1>2. CASE ReceiveFetch(d)
  BY <1>2 DEF ReceiveFetch, OwnInv, TypeOK, CacheOwn, EditorsOwn, WriteOwn, FilesOwn, busy,
              editors, form
<1>3. CASE FetchFails(d)
  <2>1. failures' \in 0..MaxFailures
    BY <1>3 DEF FetchFails, OwnInv, TypeOK, SettingsAssumption
  <2> QED
    BY <1>3, <2>1 DEF FetchFails, OwnInv, TypeOK, CacheOwn, EditorsOwn, WriteOwn, FilesOwn, busy,
                editors, form
<1> QED
  BY <1>1, <1>2, <1>3

LEMMA EffectsOwn ==
    ASSUME SettingsAssumption, OwnInv, UNCHANGED careful, ShowOverrides \/ ShowCatalog
    PROVE  OwnInv'
<1> USE DEF saves
<1>1. CASE ShowOverrides
  <2>1. overridesText' \in Text /\ overridesText'.of = Overrides /\ overridesSeen' = cache[Overrides]
    BY <1>1, Basics DEF ShowOverrides, OwnInv, CacheOwn, Text, TypeOK, Document
  <2>2. cache[Overrides] # Unloaded /\ cache[Overrides] \in Document
    BY <1>1, Basics DEF ShowOverrides, OwnInv, TypeOK
  <2>3. overridesSeen' \in Document /\ overridesSeen'.of = Overrides
    BY <2>1, <2>2, Basics DEF OwnInv, CacheOwn
  <2> QED
    BY <1>1, <2>1, <2>3 DEF ShowOverrides, OwnInv, TypeOK, CacheOwn, EditorsOwn, WriteOwn, FilesOwn,
                busy, queries, form
<1>2. CASE ShowCatalog
  <2>1. catalog \in Docs /\ cache[catalog] # Unloaded /\ cache[catalog] \in Document
    BY <1>2, Basics DEF ShowCatalog, OwnInv, TypeOK
  <2>2. jsonText' \in Text /\ jsonText'.of = catalog /\ jsonSeen' = cache[catalog]
    BY <1>2, <2>1 DEF ShowCatalog, OwnInv, CacheOwn, Text, Document
  <2>3. jsonSeen' \in Document /\ jsonSeen'.of = catalog
    BY <2>1, <2>2 DEF OwnInv, CacheOwn
  <2> QED
    BY <1>2, <2>2, <2>3 DEF ShowCatalog, OwnInv, TypeOK, CacheOwn, EditorsOwn, WriteOwn, FilesOwn,
                busy, queries, form
<1> QED
  BY <1>1, <1>2

LEMMA EditingOwn ==
    ASSUME SettingsAssumption, OwnInv, UNCHANGED careful,
           \/ TypeOverrides \/ TypeJson \/ TypeDraft \/ CancelEditing
           \/ \E c \in Catalogs : SelectCatalog(c)
           \/ \E name \in Names : EditMaterial(name)
    PROVE  OwnInv'
<1> USE DEF saves
<1>1. CASE TypeOverrides
  BY <1>1 DEF TypeOverrides, OwnInv, TypeOK, Text, CacheOwn, EditorsOwn, WriteOwn, FilesOwn, busy,
              queries, form
<1>2. CASE TypeJson
  BY <1>2 DEF TypeJson, OwnInv, TypeOK, Text, CacheOwn, EditorsOwn, WriteOwn, FilesOwn, busy,
              queries, form
<1>3. CASE TypeDraft \/ CancelEditing
  <2>1. /\ draft' \in Draft /\ editingCanonical' \in Names \cup {NoName}
        /\ draft'.from = editingCanonical'
    <3>1. CASE TypeDraft
      BY <3>1 DEF TypeDraft, OwnInv, TypeOK, Draft
    <3>2. CASE CancelEditing
      BY <3>2 DEF CancelEditing, emptyDraft, Draft
    <3> QED
      BY <1>3, <3>1, <3>2
  <2> QED
    BY <1>3, <2>1 DEF TypeDraft, CancelEditing, OwnInv, TypeOK, CacheOwn, EditorsOwn,
                WriteOwn, FilesOwn, busy, queries, editors
<1>4. ASSUME NEW c \in Catalogs, SelectCatalog(c) PROVE OwnInv'
  BY <1>4, Basics DEF SelectCatalog, OwnInv, TypeOK, CacheOwn, EditorsOwn, WriteOwn, FilesOwn, busy, form
<1>5. ASSUME NEW name \in Names, EditMaterial(name) PROVE OwnInv'
  BY <1>5 DEF EditMaterial, OwnInv, TypeOK, Draft, CacheOwn, EditorsOwn, WriteOwn, FilesOwn, busy,
              queries, editors
<1> QED
  BY <1>1, <1>2, <1>3, <1>4, <1>5

Starts ==
    \/ SaveOverrides \/ Reload \/ saveJson \/ SaveMaterial
    \/ \E name \in Names : DeleteMaterial(name)

\* Whatever a button sends, it is a request.
LEMMA StartsRequest ==
    ASSUME SettingsAssumption, TypeOK, Starts
    PROVE  \E w \in Write, unseen \in BOOLEAN : Start(w, unseen)
<1>1. /\ saveSettingsOverrides \in Write /\ reloadSettings \in Write /\ saveMasterData \in Write
      /\ createMaterial \in Write /\ updateMaterial \in Write
  BY Basics DEF TypeOK, Text, Draft, saveSettingsOverrides, reloadSettings, saveMasterData,
                createMaterial, updateMaterial, Request, Write, Kinds
<1>2. \A name \in Names : deleteMaterial(name) \in Write
  BY Basics DEF deleteMaterial, Request, Write, Kinds
<1>3. (overridesSeen = Unloaded) \in BOOLEAN /\ (jsonSeen = Unloaded) \in BOOLEAN
  OBVIOUS
<1> QED
  BY <1>1, <1>2, <1>3 DEF Starts, SaveOverrides, Reload, saveJson, SaveMaterial, DeleteMaterial

\* Every button that starts a write sends a text of the document it is for, provided
\* that the text of that document has been shown.
LEMMA StartsOwnText ==
    ASSUME SettingsAssumption, OwnInv, Starts, ~blind'
    PROVE  write' \in Write /\ write'.of = write'.doc
<1> USE Basics
<1>1. CASE SaveOverrides
  <2>1. write' = saveSettingsOverrides /\ overridesSeen # Unloaded
    BY <1>1 DEF SaveOverrides, Start
  <2>2. overridesText.of = Overrides
    BY <2>1 DEF OwnInv, EditorsOwn
  <2> QED
    BY <2>1, <2>2 DEF saveSettingsOverrides, Request, Write, Kinds
<1>2. CASE Reload
  <2>1. write' = reloadSettings
    BY <1>2 DEF Reload, Start
  <2> QED
    BY <2>1 DEF reloadSettings, Request, Write, Kinds
<1>3. CASE saveJson
  <2>1. write' = saveMasterData /\ jsonSeen # Unloaded
    BY <1>3 DEF saveJson, Start
  <2>2. jsonText.of = catalog /\ catalog \in Docs
    BY <2>1 DEF OwnInv, EditorsOwn, TypeOK
  <2> QED
    BY <2>1, <2>2 DEF saveMasterData, Request, Write, Kinds
<1>4. CASE SaveMaterial
  <2>1. write' \in {createMaterial, updateMaterial}
    BY <1>4 DEF SaveMaterial, Start
  <2>2. draft.from \in Names \cup {NoName} /\ editingCanonical \in Names \cup {NoName}
    BY DEF OwnInv, TypeOK, Draft
  <2> QED
    BY <2>1, <2>2 DEF createMaterial, updateMaterial, Request, Write, Kinds
<1>5. ASSUME NEW name \in Names, DeleteMaterial(name)
      PROVE  write' \in Write /\ write'.of = write'.doc
  <2>1. write' = deleteMaterial(name)
    BY <1>5 DEF DeleteMaterial, Start
  <2> QED
    BY <2>1 DEF deleteMaterial, Request, Write, Kinds
<1> QED
  BY <1>1, <1>2, <1>3, <1>4, <1>5 DEF Starts

\* What the server does with a write, and with its answer.
LEMMA HandleWriteIs ==
    ASSUME SettingsAssumption, TypeOK, HandleWrite
    PROVE  /\ write \in Write /\ write' \in Write /\ busy /\ busy'
           /\ write'.of = write.of /\ write'.doc = write.doc
           /\ \/ UNCHANGED <<file, failures>>
              \/ /\ file' = [file EXCEPT ![write.doc] = [of |-> write.of, stamp |-> writes]]
                 /\ \/ write'.phase = "done" /\ UNCHANGED failures
                    \/ failures' # 0 /\ failures' = failures + 1
           /\ failures' \in 0..MaxFailures
<1>1. busy /\ write \in Write
  BY DEF HandleWrite, busy, TypeOK
<1>2. failures \in 0..MaxFailures /\ MaxFailures \in Nat
  BY DEF TypeOK, SettingsAssumption
<1>3. \E phase \in {"done", "refused"} : write' = [write EXCEPT !.phase = phase]
  BY DEF HandleWrite, WriteDocument, RefuseWrite
<1>4. /\ write' \in Write /\ write'.of = write.of /\ write'.doc = write.doc
  BY <1>1, <1>3 DEF Write
<1>5. busy'
  BY <1>4, Basics DEF busy
<1>6. /\ \/ UNCHANGED <<file, failures>>
         \/ /\ file' = [file EXCEPT ![write.doc] = [of |-> write.of, stamp |-> writes]]
            /\ \/ write'.phase = "done" /\ UNCHANGED failures
               \/ failures' # 0 /\ failures' = failures + 1
      /\ failures' \in 0..MaxFailures
  <2>1. CASE WriteDocument
    <3>1. CASE write' = [write EXCEPT !.phase = "done"] /\ UNCHANGED failures
      <4>1. write'.phase = "done"
        BY <1>1, <3>1 DEF Write
      <4> QED
        BY <1>2, <2>1, <3>1, <4>1 DEF WriteDocument
    <3>2. CASE failures < MaxFailures /\ failures' = failures + 1
      <4>1. failures' # 0 /\ failures' \in 0..MaxFailures
        BY <1>2, <3>2
      <4> QED
        BY <2>1, <3>2, <4>1 DEF WriteDocument
    <3> QED
      BY <2>1, <3>1, <3>2 DEF WriteDocument
  <2>2. CASE RefuseWrite
    BY <1>2, <2>2 DEF RefuseWrite
  <2> QED
    BY <2>1, <2>2 DEF HandleWrite
<1> QED
  BY <1>1, <1>4, <1>5, <1>6

LEMMA WritesOwn ==
    ASSUME SettingsAssumption, OwnInv, UNCHANGED careful, ~blind', Starts \/ HandleWrite \/ WriteDone
    PROVE  OwnInv'
<1>1. CASE Starts
  <2>1. PICK w \in Write, unseen \in BOOLEAN : Start(w, unseen)
    BY <1>1, StartsRequest DEF OwnInv
  <2>2. write' \in Write /\ write'.of = write'.doc
    BY <1>1, StartsOwnText
  <2>3. writes' \in Stamps
    BY <2>1 DEF Start, OwnInv, TypeOK, Stamps, SettingsAssumption
  <2> QED
    BY <2>1, <2>2, <2>3 DEF Start, OwnInv, TypeOK, CacheOwn, EditorsOwn, WriteOwn, FilesOwn, busy,
                queries, editors, form
<1>2. CASE HandleWrite
  <2>1. write \in Write /\ write.of = write.doc /\ write.doc \in Docs /\ write' \in Write
        /\ write'.of = write'.doc /\ failures' \in 0..MaxFailures
    BY <1>2, HandleWriteIs DEF OwnInv, WriteOwn, Write
  <2>2. file' \in [Docs -> Document] /\ \A d \in Docs : file'[d].of = d
    <3>1. file' = file \/ file' = [file EXCEPT ![write.doc] = [of |-> write.of, stamp |-> writes]]
      BY <1>2, HandleWriteIs DEF OwnInv
    <3> QED
      BY <2>1, <3>1 DEF OwnInv, TypeOK, FilesOwn, Document
  <2> QED
    BY <1>2, <2>1, <2>2 DEF HandleWrite, OwnInv, TypeOK, CacheOwn, EditorsOwn, WriteOwn, FilesOwn,
                busy, queries, editors, form
<1>3. CASE WriteDone
  <2>1. /\ cache' = cache /\ invalid' \subseteq Docs
        /\ fetch' \in [Docs -> Document \cup {Idle, Asked}]
        /\ \A d \in Docs : fetch'[d] \in {fetch[d], Asked}
    BY <1>3 DEF WriteDone, invalidateSettings, queries, OwnInv, TypeOK
  <2>2. /\ draft' \in Draft /\ editingCanonical' \in Names \cup {NoName}
        /\ draft'.from = editingCanonical'
    <3>1. CASE MaterialSaved
      BY <3>1 DEF MaterialSaved, emptyDraft, Draft
    <3>2. CASE UNCHANGED form
      BY <3>2 DEF form, OwnInv, TypeOK
    <3> QED
      BY <1>3, <3>1, <3>2 DEF WriteDone
  <2>3. /\ write' = NoWrite
        /\ UNCHANGED <<file, catalog, editors, blind, writes, failures>>
    BY <1>3 DEF WriteDone
  <2> QED
    BY <2>1, <2>2, <2>3 DEF OwnInv, TypeOK, CacheOwn, EditorsOwn, WriteOwn, FilesOwn, busy, editors
<1> QED
  BY <1>1, <1>2, <1>3

LEMMA StutterOwn == ASSUME OwnInv, UNCHANGED vars PROVE OwnInv'
BY DEF vars, queries, editors, form, saves, OwnInv, TypeOK, CacheOwn, EditorsOwn, WriteOwn,
       FilesOwn, busy

\* The actions, grouped as in the lemmas.
LEMMA NextIs ==
    ASSUME Next
    PROVE  /\ UNCHANGED careful
           /\ \/ \E d \in Docs : AnswerFetch(d) \/ ReceiveFetch(d) \/ FetchFails(d)
              \/ ShowOverrides \/ ShowCatalog
              \/ TypeOverrides \/ TypeJson \/ TypeDraft \/ CancelEditing
              \/ \E c \in Catalogs : SelectCatalog(c)
              \/ \E name \in Names : EditMaterial(name)
              \/ Starts \/ HandleWrite \/ WriteDone
<1>1. UNCHANGED careful
  BY DEF Next
<1>2. ASSUME Admin
      PROVE  \/ TypeOverrides \/ TypeJson \/ TypeDraft \/ CancelEditing
             \/ \E c \in Catalogs : SelectCatalog(c)
             \/ \E name \in Names : EditMaterial(name)
             \/ Starts
  BY <1>2, Zenon DEF Admin, Starts
<1> QED
  BY <1>1, <1>2, Zenon DEF Next

\* What was saved unseen remains so.
LEMMA BlindStays == ASSUME SettingsAssumption, TypeOK, [Next]_vars, blind PROVE blind'
<1>1. ASSUME NEW w, NEW unseen, Start(w, unseen) PROVE blind'
  BY <1>1, Zenon DEF Start
<1>2. CASE Starts
  BY <1>1, <1>2, Zenon DEF Starts, SaveOverrides, Reload, saveJson, SaveMaterial, DeleteMaterial
<1>3. CASE UNCHANGED saves
  BY <1>3, Zenon DEF saves
<1>4. CASE HandleWrite \/ WriteDone
  BY <1>4, Zenon DEF HandleWrite, WriteDone
<1>5. CASE UNCHANGED vars
  BY <1>3, <1>5, Zenon DEF vars
<1>6. ASSUME NEW d \in Docs, AnswerFetch(d) \/ ReceiveFetch(d) \/ FetchFails(d) PROVE blind'
  BY <1>3, <1>6, Zenon DEF AnswerFetch, ReceiveFetch, FetchFails
<1>7. CASE ShowOverrides \/ ShowCatalog \/ TypeOverrides \/ TypeJson \/ TypeDraft \/ CancelEditing
  BY <1>3, <1>7, Zenon DEF ShowOverrides, ShowCatalog, TypeOverrides, TypeJson, TypeDraft, CancelEditing
<1>8. ASSUME NEW c, SelectCatalog(c) PROVE blind'
  BY <1>3, <1>8, Zenon DEF SelectCatalog
<1>9. ASSUME NEW name, EditMaterial(name) PROVE blind'
  BY <1>3, <1>9, Zenon DEF EditMaterial
<1> QED
  BY <1>2, <1>4, <1>5, <1>6, <1>7, <1>8, <1>9, NextIs, Zenon

LEMMA OwnStep == ASSUME SettingsAssumption, OwnInv, [Next]_vars, ~blind' PROVE OwnInv'
BY NextIs, FetchesOwn, EffectsOwn, EditingOwn, WritesOwn, StutterOwn

LEMMA TypeStep == ASSUME SettingsAssumption, TypeOK, [Next]_vars PROVE TypeOK'
<1> USE DEF saves
<1>0. Next => careful' \in BOOLEAN
  BY NextIs, Zenon DEF TypeOK
<1>1. ASSUME NEW d \in Docs, careful' \in BOOLEAN, AnswerFetch(d) \/ ReceiveFetch(d) \/ FetchFails(d) PROVE TypeOK'
  <2>1. failures' \in 0..MaxFailures
    BY <1>1 DEF AnswerFetch, ReceiveFetch, FetchFails, TypeOK, SettingsAssumption
  <2> QED
    BY <1>1, <2>1 DEF AnswerFetch, ReceiveFetch, FetchFails, TypeOK, editors, form
<1>2. ASSUME ShowOverrides \/ ShowCatalog, careful' \in BOOLEAN PROVE TypeOK'
  <2>1. catalog \in Docs /\ cache[catalog] \in Document /\ cache[Overrides] \in Document
    BY Basics DEF TypeOK
  <2>2. /\ overridesText' \in Text /\ jsonText' \in Text
        /\ overridesSeen' \in Document /\ jsonSeen' \in Document
    <3>1. /\ [of |-> cache[catalog].of, typed |-> FALSE] \in Text
          /\ [of |-> cache[Overrides].of, typed |-> FALSE] \in Text
      BY <2>1 DEF Text, Document
    <3> QED
      BY <1>2, <2>1, <3>1 DEF ShowOverrides, ShowCatalog, TypeOK
  <2> QED
    BY <1>2, <2>2 DEF ShowOverrides, ShowCatalog, TypeOK, queries, form
<1>3. ASSUME TypeOverrides \/ TypeJson, careful' \in BOOLEAN PROVE TypeOK'
  <2>1. overridesText' \in Text /\ jsonText' \in Text
    BY <1>3 DEF TypeOverrides, TypeJson, TypeOK, Text
  <2> QED
    BY <1>3, <2>1 DEF TypeOverrides, TypeJson, TypeOK, queries, form
<1>4. ASSUME TypeDraft \/ CancelEditing \/ \E name \in Names : EditMaterial(name), careful' \in BOOLEAN PROVE TypeOK'
  <2>1. /\ draft' \in Draft /\ editingCanonical' \in Names \cup {NoName}
        /\ draft'.from = editingCanonical'
    <3>1. CASE TypeDraft
      BY <3>1 DEF TypeDraft, TypeOK, Draft
    <3>2. CASE CancelEditing
      BY <3>2 DEF CancelEditing, emptyDraft, Draft
    <3>3. CASE \E name \in Names : EditMaterial(name)
      BY <3>3 DEF EditMaterial, Draft
    <3> QED
      BY <1>4, <3>1, <3>2, <3>3
  <2> QED
    BY <1>4, <2>1 DEF TypeDraft, CancelEditing, EditMaterial, TypeOK, queries, editors
<1>5. ASSUME NEW c \in Catalogs, SelectCatalog(c), careful' \in BOOLEAN PROVE TypeOK'
  BY <1>5, Basics DEF SelectCatalog, TypeOK, form
<1>6. ASSUME Starts, careful' \in BOOLEAN PROVE TypeOK'
  <2>1. PICK w \in Write, unseen \in BOOLEAN : Start(w, unseen)
    BY <1>6, StartsRequest
  <2>2. writes' \in Stamps
    BY <2>1 DEF Start, TypeOK, Stamps, SettingsAssumption
  <2>3. blind' \in BOOLEAN
    BY <2>1, Zenon DEF Start
  <2> QED
    BY <1>6, <2>1, <2>2, <2>3 DEF Start, TypeOK, queries, editors, form
<1>7. ASSUME HandleWrite, careful' \in BOOLEAN PROVE TypeOK'
  <2>1. write \in Write /\ write' \in Write /\ failures' \in 0..MaxFailures
    BY <1>7, HandleWriteIs
  <2>2. file' \in [Docs -> Document]
    <3>1. file' = file \/ file' = [file EXCEPT ![write.doc] = [of |-> write.of, stamp |-> writes]]
      BY <1>7, HandleWriteIs
    <3> QED
      BY <2>1, <3>1 DEF TypeOK, Document, Write
  <2> QED
    BY <1>7, <2>1, <2>2 DEF HandleWrite, TypeOK, queries, editors, form
<1>8. ASSUME WriteDone, careful' \in BOOLEAN PROVE TypeOK'
  <2>1. /\ cache' = cache /\ invalid' \subseteq Docs
        /\ fetch' \in [Docs -> Document \cup {Idle, Asked}]
    BY <1>8 DEF WriteDone, invalidateSettings, queries, TypeOK
  <2>2. /\ draft' \in Draft /\ editingCanonical' \in Names \cup {NoName}
        /\ draft'.from = editingCanonical'
    <3>1. CASE MaterialSaved
      BY <3>1 DEF MaterialSaved, emptyDraft, Draft
    <3>2. CASE UNCHANGED form
      BY <3>2 DEF form, TypeOK
    <3> QED
      BY <1>8, <3>1, <3>2 DEF WriteDone
  <2> QED
    BY <1>8, <2>1, <2>2 DEF WriteDone, TypeOK, editors
<1>9. CASE UNCHANGED vars
  BY <1>9 DEF vars, queries, editors, form, TypeOK
<1> QED
  BY <1>1, <1>2, <1>3, <1>4, <1>5, <1>6, <1>7, <1>8, <1>9, <1>0, NextIs

\* Types of the variables; the form holds the material it edits (einstellungen/page.tsx),
\* for every admin.
THEOREM SettingsTypes == ASSUME SettingsAssumption PROVE Spec => []TypeOK
<1>1. Init => TypeOK
  BY InitHolds DEF CarefulInv, OwnInv
<1>2. TypeOK /\ [Next]_vars => TypeOK'
  BY TypeStep
<1> QED
  BY <1>1, <1>2, PTL DEF Spec

\* A file only ever receives a text that was loaded from it (saveJson and the effects
\* of einstellungen/page.tsx), whoever edits and however he hurries, until a text is
\* saved before the one that is stored has been shown.
THEOREM CatalogsKeepTheirContent == ASSUME SettingsAssumption PROVE Spec => []OwnContent
<1> DEFINE Inv == TypeOK /\ (~blind => OwnInv)
<1>1. Init => Inv
  BY InitHolds DEF CarefulInv, OwnInv
<1>2. Inv /\ [Next]_vars => Inv'
  BY OwnStep, TypeStep, BlindStays
<1>3. Inv => OwnContent
  BY DEF OwnInv, OwnContent, FilesOwn
<1> HIDE DEF Inv
<1> QED
  BY <1>1, <1>2, <1>3, PTL DEF Spec

-----------------------------------------------------------------------------
(* What is typed is kept, and what is stale is fetched.                    *)

LEMMA Numbers ==
    ASSUME SettingsAssumption, TypeOK
    PROVE  /\ writes \in Nat /\ failures \in Nat
           /\ jsonSeen.stamp \in Nat /\ overridesSeen.stamp \in Nat
           /\ \A d \in Docs : /\ file[d] \in Document /\ cache[d] \in Document
                              /\ file[d].stamp \in Nat /\ cache[d].stamp \in Nat
                              /\ fetch[d] \notin {Idle, Asked} => fetch[d].stamp \in Nat
BY Basics DEF TypeOK, Document, SettingsAssumption

LEMMA FetchesCareful ==
    ASSUME SettingsAssumption, CarefulInv, NEW e \in Docs,
           AnswerFetch(e) \/ ReceiveFetch(e) \/ FetchFails(e)
    PROVE  StampsRise' /\ TypedWasShown' /\ QuietWrites' /\ StaleIsMarked'
<1> USE Basics, Numbers DEF CarefulInv, OwnInv, editors, form, saves
<1>1. CASE AnswerFetch(e)
  <2>1. fetch' = [fetch EXCEPT ![e] = file[e]] /\ fetch[e] = Asked /\ file[e] \notin {Idle, Asked}
    BY <1>1 DEF AnswerFetch
  <2>2. StampsRise'
    BY <1>1, <2>1 DEF AnswerFetch, TypeOK, StampsRise
  <2>3. QuietWrites' /\ StaleIsMarked'
    BY <1>1, <2>1 DEF AnswerFetch, TypeOK, QuietWrites, StaleIsMarked, busy, Active
  <2> QED
    BY <1>1, <2>2, <2>3 DEF AnswerFetch, TypedWasShown
<1>2. CASE ReceiveFetch(e)
  <2>1. fetch[e] = file[e] /\ cache[e].stamp <= fetch[e].stamp
    BY <1>2 DEF ReceiveFetch, QuietWrites, StampsRise
  <2>2. StampsRise'
    <3>1. \A d \in Docs : cache'[d].stamp >= cache[d].stamp /\ cache'[d].stamp <= file[d].stamp
      BY <1>2, <2>1 DEF ReceiveFetch, TypeOK, StampsRise
    <3>2. \A d \in Docs : fetch'[d] \notin {Idle, Asked} => fetch'[d] = fetch[d] /\ cache'[d] = cache[d]
      BY <1>2 DEF ReceiveFetch, TypeOK
    <3>3. \A d \in Docs : cache'[d].stamp \in Nat
      BY <1>2, <2>1 DEF ReceiveFetch, TypeOK
    <3>4. jsonSeen.stamp <= cache'[catalog].stamp /\ overridesSeen.stamp <= cache'[Overrides].stamp
      BY <3>1, <3>3 DEF TypeOK, StampsRise
    <3> QED
      BY <1>2, <3>1, <3>2, <3>4 DEF ReceiveFetch, TypeOK, StampsRise
  <2>3. QuietWrites'
    BY <1>2 DEF ReceiveFetch, TypeOK, QuietWrites, busy
  <2>4. StaleIsMarked'
    BY <1>2, <2>1 DEF ReceiveFetch, TypeOK, StaleIsMarked, busy, Active
  <2> QED
    BY <1>2, <2>2, <2>3, <2>4 DEF ReceiveFetch, TypedWasShown
<1>3. CASE FetchFails(e)
  <2>1. fetch' = [fetch EXCEPT ![e] = Idle] /\ failures' # 0
    BY <1>3 DEF FetchFails
  <2> QED
    BY <1>3, <2>1 DEF FetchFails, TypeOK, StampsRise, TypedWasShown, QuietWrites, StaleIsMarked, busy
<1> QED
  BY <1>1, <1>2, <1>3

\* An effect that replaces a typed text meets data that are newer than the text.
LEMMA EffectsCareful ==
    ASSUME SettingsAssumption, CarefulInv, ShowOverrides \/ ShowCatalog
    PROVE  /\ StampsRise' /\ TypedWasShown' /\ QuietWrites' /\ StaleIsMarked'
           /\ KeepsTypedText
<1> USE Basics, Numbers DEF CarefulInv, OwnInv, queries, form, saves
<1>1. CASE ShowOverrides
  <2>1. StampsRise' /\ TypedWasShown'
    BY <1>1 DEF ShowOverrides, TypeOK, StampsRise, TypedWasShown
  <2>2. QuietWrites' /\ StaleIsMarked'
    BY <1>1 DEF ShowOverrides, QuietWrites, StaleIsMarked, busy
  <2>3. overridesText.typed => file[Overrides].stamp > overridesSeen.stamp
    <3>1. SUFFICES ASSUME overridesText.typed PROVE file[Overrides].stamp > overridesSeen.stamp
      OBVIOUS
    <3>2. cache[Overrides].of = overridesSeen.of /\ cache[Overrides] # overridesSeen
      BY <1>1, <3>1 DEF ShowOverrides, TypedWasShown, CacheOwn, EditorsOwn
    <3>3. cache[Overrides].stamp # overridesSeen.stamp
      BY <3>2 DEF TypeOK, Document
    <3> QED
      BY <3>3 DEF StampsRise
  <2> QED
    BY <1>1, <2>1, <2>2, <2>3 DEF ShowOverrides, KeepsTypedText
<1>2. CASE ShowCatalog
  <2>1. StampsRise' /\ TypedWasShown'
    BY <1>2 DEF ShowCatalog, TypeOK, StampsRise, TypedWasShown
  <2>2. QuietWrites' /\ StaleIsMarked'
    BY <1>2 DEF ShowCatalog, QuietWrites, StaleIsMarked, busy
  <2>3. jsonText.typed => file[catalog].stamp > jsonSeen.stamp
    <3>1. SUFFICES ASSUME jsonText.typed PROVE file[catalog].stamp > jsonSeen.stamp
      OBVIOUS
    <3>2. catalog \in Docs /\ cache[catalog].of = jsonSeen.of /\ cache[catalog] # jsonSeen
      BY <1>2, <3>1 DEF ShowCatalog, TypedWasShown, CacheOwn, EditorsOwn, TypeOK
    <3>3. cache[catalog].stamp # jsonSeen.stamp
      BY <3>2 DEF TypeOK, Document
    <3> QED
      BY <3>2, <3>3 DEF StampsRise
  <2> QED
    BY <1>2, <2>1, <2>2, <2>3 DEF ShowCatalog, KeepsTypedText
<1> QED
  BY <1>1, <1>2

LEMMA EditingCareful ==
    ASSUME SettingsAssumption, careful, CarefulInv,
           \/ TypeOverrides \/ TypeJson \/ TypeDraft \/ CancelEditing
           \/ \E c \in Catalogs : SelectCatalog(c)
           \/ \E name \in Names : EditMaterial(name)
    PROVE  /\ StampsRise' /\ TypedWasShown' /\ QuietWrites' /\ StaleIsMarked'
           /\ KeepsTypedText
<1> USE Basics, Numbers DEF CarefulInv, OwnInv, saves
<1>1. CASE TypeOverrides \/ TypeJson
  <2>1. /\ jsonText'.typed => jsonSeen # Unloaded
        /\ overridesText'.typed => overridesSeen # Unloaded
        /\ jsonText.typed => jsonText'.typed
        /\ overridesText.typed => overridesText'.typed
    BY <1>1 DEF TypeOverrides, TypeJson, Settled, TypedWasShown, TypeOK, Text
  <2>2. UNCHANGED <<file, queries, catalog, jsonSeen, overridesSeen, write, writes, failures>>
    BY <1>1 DEF TypeOverrides, TypeJson
  <2> QED
    BY <2>1, <2>2 DEF queries, StampsRise, TypedWasShown, QuietWrites, StaleIsMarked, busy, KeepsTypedText
<1>2. CASE TypeDraft \/ CancelEditing \/ \E name \in Names : EditMaterial(name)
  <2>1. UNCHANGED <<file, queries, catalog, editors, write, writes, failures>>
    BY <1>2 DEF TypeDraft, CancelEditing, EditMaterial
  <2> QED
    BY <2>1 DEF queries, editors, StampsRise, TypedWasShown, QuietWrites, StaleIsMarked, busy, KeepsTypedText
<1>3. ASSUME NEW c \in Catalogs, SelectCatalog(c)
      PROVE  /\ StampsRise' /\ TypedWasShown' /\ QuietWrites' /\ StaleIsMarked'
             /\ KeepsTypedText
  <2>1. Settled /\ ~jsonText.typed /\ ~overridesText.typed
    BY <1>3 DEF SelectCatalog, Unsaved
  <2>2. ~busy /\ \A d \in Docs : fetch[d] = Idle
    BY <2>1 DEF Settled
  <2>3. /\ catalog' = c /\ jsonSeen' = Unloaded
        /\ UNCHANGED <<file, cache, invalid, overridesText, jsonText, overridesSeen, write, writes,
                       failures>>
    BY <1>3 DEF SelectCatalog, form
  <2>4. \/ fetch' = [fetch EXCEPT ![c] = Asked]
        \/ fetch' = fetch /\ c \notin invalid
    BY <1>3, <2>2 DEF SelectCatalog
  <2>5. StampsRise'
    BY <2>2, <2>3, <2>4 DEF TypeOK, StampsRise, Unloaded
  <2>6. TypedWasShown' /\ KeepsTypedText
    BY <2>1, <2>3 DEF TypedWasShown, KeepsTypedText
  <2>7. QuietWrites'
    BY <2>2, <2>3, <2>4 DEF TypeOK, QuietWrites, busy
  <2>8. StaleIsMarked'
    BY <2>2, <2>3, <2>4 DEF TypeOK, StaleIsMarked, Active, busy
  <2> QED
    BY <2>5, <2>6, <2>7, <2>8
<1> QED
  BY <1>1, <1>2, <1>3

LEMMA WritesCareful ==
    ASSUME SettingsAssumption, careful, CarefulInv, Starts \/ HandleWrite \/ WriteDone
    PROVE  /\ StampsRise' /\ TypedWasShown' /\ QuietWrites' /\ StaleIsMarked'
           /\ KeepsTypedText
<1> USE Basics, Numbers DEF CarefulInv, OwnInv, saves
<1>0. UNCHANGED editors /\ TypedWasShown' /\ KeepsTypedText
  <2>1. UNCHANGED editors
    <3>1. ASSUME Starts PROVE UNCHANGED editors
      BY <3>1, StartsRequest DEF Start
    <3> QED
      BY <3>1 DEF HandleWrite, WriteDone
  <2> QED
    BY <2>1 DEF editors, TypedWasShown, KeepsTypedText
<1>1. CASE Starts
  <2>1. PICK w \in Write, unseen \in BOOLEAN : Start(w, unseen)
    BY <1>1, StartsRequest
  <2>0. Settled
    BY <1>1, Zenon DEF Starts, SaveOverrides, Reload, saveJson, SaveMaterial, DeleteMaterial
  <2>2. /\ UNCHANGED <<file, cache, invalid, fetch, catalog, editors, failures>>
        /\ writes' = writes + 1 /\ ~busy /\ \A d \in Docs : fetch[d] = Idle
    BY <2>1, <2>0 DEF Start, queries, Settled
  <2> QED
    BY <1>0, <2>2 DEF editors, StampsRise, QuietWrites, StaleIsMarked
<1>2. CASE HandleWrite
  <2>1. /\ busy /\ busy' /\ UNCHANGED <<cache, invalid, fetch, catalog, editors, writes>>
        /\ \A d \in Docs : fetch[d] = Idle
    BY <1>2, HandleWriteIs DEF HandleWrite, queries, QuietWrites
  <2>2. \A d \in Docs : /\ file'[d].stamp >= file[d].stamp /\ file'[d].stamp <= writes
                        /\ file'[d].stamp \in Nat
                        /\ file'[d] = file[d] \/ write'.phase = "done" \/ failures' # 0
    <3>1. write \in Write /\ writes \in Stamps
      BY <2>1 DEF TypeOK, busy
    <3>2. CASE UNCHANGED file
      BY <3>2 DEF StampsRise
    <3>3. CASE /\ file' = [file EXCEPT ![write.doc] = [of |-> write.of, stamp |-> writes]]
               /\ write'.phase = "done" \/ failures' # 0
      BY <3>1, <3>3 DEF TypeOK, StampsRise, Write
    <3> QED
      BY <1>2, <3>2, <3>3, HandleWriteIs
  <2>3. StampsRise'
    <3>1. \A d \in Docs : cache[d].stamp <= file'[d].stamp
      BY <2>2 DEF StampsRise
    <3>2. UNCHANGED <<cache, fetch, catalog, jsonSeen, overridesSeen, writes>>
      BY <2>1 DEF editors
    <3>3. ASSUME NEW d \in Docs
          PROVE  /\ file'[d].stamp <= writes' /\ cache'[d].stamp <= file'[d].stamp
                 /\ fetch'[d] \in {Idle, Asked}
      BY <2>1, <2>2, <3>1, <3>2
    <3>4. /\ jsonSeen'.stamp <= cache'[catalog'].stamp
          /\ overridesSeen'.stamp <= cache'[Overrides].stamp
      BY <3>2 DEF StampsRise
    <3> QED
      BY ONLY <3>3, <3>4 DEF StampsRise
  <2>4. QuietWrites'
    BY <2>1 DEF QuietWrites
  <2>5. StaleIsMarked'
    <3>1. write.phase # "done" /\ (failures # 0 => failures' # 0)
      <4>1. UNCHANGED failures \/ failures' # 0
        BY <1>2, HandleWriteIs
      <4> QED
        BY <1>2, <4>1 DEF HandleWrite
    <3> QED
      BY <2>1, <2>2, <3>1 DEF StaleIsMarked, Active
  <2> QED
    BY <1>0, <2>3, <2>4, <2>5
<1>3. CASE WriteDone
  <2>1. /\ busy /\ ~busy' /\ UNCHANGED <<file, cache, catalog, editors, writes, failures>>
        /\ \A d \in Docs : fetch[d] = Idle /\ fetch'[d] \in {Idle, Asked}
    BY <1>3 DEF WriteDone, invalidateSettings, queries, busy, QuietWrites
  <2>2. StampsRise' /\ QuietWrites'
    BY <2>1 DEF editors, StampsRise, QuietWrites
  <2>3. StaleIsMarked'
    <3>1. CASE write.phase = "done"
      BY <1>3, <2>1, <3>1 DEF WriteDone, invalidateSettings, StaleIsMarked, Active
    <3>2. CASE write.phase # "done"
      BY <1>3, <2>1, <3>2 DEF WriteDone, queries, StaleIsMarked, Active
    <3> QED
      BY <3>1, <3>2
  <2> QED
    BY <1>0, <2>2, <2>3
<1> QED
  BY <1>1, <1>2, <1>3

LEMMA CarefulStep ==
    ASSUME SettingsAssumption, careful, CarefulInv, [Next]_vars
    PROVE  careful' /\ CarefulInv' /\ KeepsTypedText
<1>0. careful'
  BY NextIs, Zenon DEF vars
<1>1. ~blind'
  <2>1. ASSUME Starts PROVE ~blind'
    <3>1. Settled
      BY <2>1, Zenon DEF Starts, SaveOverrides, Reload, saveJson, SaveMaterial, DeleteMaterial
    <3>2. ASSUME NEW w, Start(w, FALSE) PROVE ~blind'
      BY <3>2, Zenon DEF Start, CarefulInv
    <3>3. (overridesSeen = Unloaded) = FALSE /\ (jsonSeen = Unloaded) = FALSE
      BY <3>1 DEF Settled
    <3> QED
      BY <2>1, <3>2, <3>3 DEF Starts, SaveOverrides, Reload, saveJson, SaveMaterial, DeleteMaterial
  <2>2. ASSUME UNCHANGED blind PROVE ~blind'
    BY <2>2, Zenon DEF CarefulInv
  <2>3. ASSUME NEW d \in Docs, AnswerFetch(d) \/ ReceiveFetch(d) \/ FetchFails(d) PROVE ~blind'
    BY <2>2, <2>3, Zenon DEF AnswerFetch, ReceiveFetch, FetchFails, saves
  <2>4. CASE ShowOverrides \/ ShowCatalog \/ TypeOverrides \/ TypeJson \/ TypeDraft \/ CancelEditing
    BY <2>2, <2>4, Zenon DEF ShowOverrides, ShowCatalog, TypeOverrides, TypeJson, TypeDraft,
                             CancelEditing, saves
  <2>5. ASSUME NEW c, SelectCatalog(c) PROVE ~blind'
    BY <2>2, <2>5, Zenon DEF SelectCatalog, saves
  <2>6. ASSUME NEW name, EditMaterial(name) PROVE ~blind'
    BY <2>2, <2>6, Zenon DEF EditMaterial, saves
  <2>7. CASE HandleWrite \/ WriteDone
    BY <2>2, <2>7, Zenon DEF HandleWrite, WriteDone
  <2>8. CASE UNCHANGED vars
    BY <2>2, <2>8, Zenon DEF vars, saves
  <2> QED
    BY <2>1, <2>3, <2>4, <2>5, <2>6, <2>7, <2>8, NextIs, Zenon
<1>2. OwnInv'
  BY <1>1, OwnStep DEF CarefulInv
<1>3. ASSUME NEW d \in Docs, AnswerFetch(d) \/ ReceiveFetch(d) \/ FetchFails(d)
      PROVE  UNCHANGED editors
  BY <1>3 DEF AnswerFetch, ReceiveFetch, FetchFails
<1>4. UNCHANGED editors => KeepsTypedText
  BY DEF editors, KeepsTypedText
<1>5. ASSUME UNCHANGED vars
      PROVE  /\ StampsRise' /\ TypedWasShown' /\ QuietWrites' /\ StaleIsMarked'
             /\ KeepsTypedText
  BY <1>5 DEF vars, queries, editors, form, saves, CarefulInv, StampsRise, TypedWasShown,
              QuietWrites, StaleIsMarked, busy, Active, KeepsTypedText
<1>6. StampsRise' /\ TypedWasShown' /\ QuietWrites' /\ StaleIsMarked' /\ KeepsTypedText
  BY <1>3, <1>4, <1>5, NextIs, FetchesCareful, EffectsCareful, EditingCareful, WritesCareful
<1> QED
  BY <1>0, <1>1, <1>2, <1>6 DEF CarefulInv

LEMMA CarefulAdmin ==
    ASSUME SettingsAssumption
    PROVE  Spec => [](careful => CarefulInv)
<1> DEFINE Inv == careful => CarefulInv
<1>1. Init => Inv
  BY InitHolds
<1>2. Inv /\ [Next]_vars => Inv'
  <2>1. [Next]_vars => (careful' => careful)
    BY NextIs, Zenon DEF vars
  <2> QED
    BY <2>1, CarefulStep
<1> HIDE DEF Inv
<1>3. Spec => []Inv
  BY <1>1, <1>2, PTL DEF Spec
<1> QED
  BY <1>3 DEF Inv

\* A text that was typed is replaced only after it has been saved (the effects of
\* einstellungen/page.tsx), for an admin who waits for the page.
THEOREM TypedTextIsKept == ASSUME SettingsAssumption PROVE Spec => TypedTextKept
<1> DEFINE Inv == careful => CarefulInv
<1>1. Spec => []Inv
  BY CarefulAdmin
<1>2. Inv /\ [Next]_vars => [KeepsTypedText]_vars
  BY CarefulStep DEF KeepsTypedText
<1> HIDE DEF Inv
<1> QED
  BY <1>1, <1>2, PTL DEF Spec, TypedTextKept

\* A settled page shows what is stored (invalidateSettings and the effects of
\* einstellungen/page.tsx), for an admin who waits, as long as no request has failed.
THEOREM SettledPageIsCurrent == ASSUME SettingsAssumption PROVE Spec => []ShowsStored
<1>1. ASSUME CarefulInv, Settled, failures = 0
      PROVE  cache[Overrides] = file[Overrides] /\ cache[catalog] = file[catalog]
  <2>1. ~busy /\ \A d \in Docs : fetch[d] = Idle
    BY <1>1 DEF Settled
  <2>2. cache[Overrides] # Unloaded /\ cache[catalog] # Unloaded
    BY <1>1 DEF Settled
  <2>3. catalog \in Docs /\ Overrides \in Docs
    BY <1>1, Basics DEF CarefulInv, OwnInv, TypeOK
  <2>4. catalog \in Active(catalog) /\ Overrides \in Active(catalog)
    BY DEF Active
  <2> QED
    BY <1>1, <2>1, <2>2, <2>3, <2>4 DEF CarefulInv, StaleIsMarked
<1>2. (careful => CarefulInv) => ShowsStored
  BY <1>1 DEF ShowsStored
<1> QED
  BY <1>2, CarefulAdmin, PTL
=============================================================================
