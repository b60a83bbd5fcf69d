--------------------------- MODULE SettingsEditor ---------------------------
(***************************************************************************)
(* The settings page (einstellungen/page.tsx): three editors, for the      *)
(* overrides, for one catalog of master data as JSON, and for one material *)
(* in a form, over queries the page refetches after every write.  An       *)
(* effect copies fetched data into the editors; another one would have to  *)
(* tell whether the admin has typed meanwhile.                             *)
(*                                                                         *)
(* A stored document is abstracted to the document its text was taken from *)
(* and a stamp of the write, and a write of the server to one step.        *)
(***************************************************************************)
EXTENDS Integers, FiniteSets

CONSTANTS
    Overrides,       \* overrides.yaml
    Catalogs,        \* the catalogs of the JSON editor
    Materials,       \* the one of them that the form edits as well
    Units,           \* the one that is selected at first
    Names,           \* canonical names of materials
    Nothing, NoName, NoWrite, Idle, Asked,
    Hasty,           \* bound: the editors an admin uses who does not wait
    MaxHasty,        \* bound: for him, writes sent and requests failed together
    MaxWrites,       \* bound: writes and reloads sent
    MaxFailures      \* bound: fetches that fail for good, answers that are lost

Docs == Catalogs \cup {Overrides}
Stamps == 0..MaxWrites
Document == [of : Docs \cup {Nothing}, stamp : Stamps]

Kinds == {"overrides", "reload", "json", "material", "delete"}
Write == [kind : Kinds, doc : Docs, of : Docs \cup {Nothing}, target : Names \cup {NoName},
          from : Names \cup {NoName}, phase : {"sent", "done", "refused"}]

SettingsAssumption ==
    /\ Overrides \notin Catalogs
    /\ {Materials, Units} \subseteq Catalogs
    /\ Nothing \notin Docs
    /\ Idle # Asked /\ {Idle, Asked} \cap Document = {}
    /\ NoName \notin Names /\ NoWrite \notin Write
    /\ Hasty \subseteq {"overrides", "json", "form"}
    /\ MaxWrites \in Nat /\ MaxHasty \in Nat /\ MaxFailures \in Nat

VARIABLES
    file,            \* the stored documents
    cache,           \* data of the queries, Unloaded without
    invalid,         \* documents whose data are marked stale
    fetch,           \* Idle, Asked, or the document on its way back
    catalog,         \* selectedCatalog
    overridesText, jsonText,           \* the editors
    overridesSeen, jsonSeen,           \* the data their effects ran for last
    draft,           \* the form: the material it was filled from, and whether typed in
    editingCanonical,
    write,           \* the mutation that is pending
    \* bookkeeping of the model
    careful,         \* the admin waits until the page is settled, and starts nothing
                     \* else over an unsaved text
    blind,           \* a text was saved before the stored one had been shown
    writes, failures

editors == <<overridesText, jsonText, overridesSeen, jsonSeen>>
form == <<draft, editingCanonical>>
queries == <<cache, invalid, fetch>>
saves == <<write, blind>>
vars == <<file, queries, catalog, editors, form, saves, careful, writes, failures>>

Unloaded == [of |-> Nothing, stamp |-> 0]
Text == [of : Docs \cup {Nothing}, typed : BOOLEAN]
Draft == [from : Names \cup {NoName}, typed : BOOLEAN]
emptyDraft == [from |-> NoName, typed |-> FALSE]

\* queries some component observes
Active(c) == {Overrides, Materials, c}

Init ==
    /\ file = [d \in Docs |-> [of |-> d, stamp |-> 0]]
    /\ cache = [d \in Docs |-> Unloaded]
    /\ invalid = {}
    /\ fetch = [d \in Docs |-> IF d \in Active(Units) THEN Asked ELSE Idle]
    /\ catalog = Units
    /\ overridesText = [of |-> Nothing, typed |-> FALSE]
    /\ jsonText = [of |-> Nothing, typed |-> FALSE]
    /\ overridesSeen = Unloaded /\ jsonSeen = Unloaded
    /\ draft = emptyDraft /\ editingCanonical = NoName
    /\ write = NoWrite
    /\ careful \in BOOLEAN
    /\ blind = FALSE
    /\ writes = 0 /\ failures = 0

busy == write # NoWrite

\* a bound on what an admin does who does not wait
Bounded == careful \/ writes + failures < MaxHasty

\* Nothing is under way and every effect has run.
Settled ==
    /\ ~busy
    /\ \A d \in Docs : fetch[d] = Idle
    /\ overridesSeen = cache[Overrides] /\ jsonSeen = cache[catalog]
    /\ overridesSeen # Unloaded /\ jsonSeen # Unloaded

Unsaved == overridesText.typed \/ jsonText.typed

-----------------------------------------------------------------------------
(* The queries and their effects.                                          *)

AnswerFetch(d) ==
    /\ fetch[d] = Asked
    /\ fetch' = [fetch EXCEPT ![d] = file[d]]
    /\ UNCHANGED <<file, cache, invalid, catalog, editors, form, saves, writes, failures>>

ReceiveFetch(d) ==
    /\ fetch[d] \notin {Idle, Asked}
    /\ cache' = [cache EXCEPT ![d] = fetch[d]]
    /\ invalid' = invalid \ {d}
    /\ fetch' = [fetch EXCEPT ![d] = Idle]
    /\ UNCHANGED <<file, catalog, editors, form, saves, writes, failures>>

FetchFails(d) ==
    /\ fetch[d] = Asked
    /\ failures < MaxFailures /\ Bounded
    /\ failures' = failures + 1
    /\ fetch' = [fetch EXCEPT ![d] = Idle]
    /\ UNCHANGED <<file, cache, invalid, catalog, editors, form, saves, writes>>

\* The effect on configQuery.data; equal data are the same object and run nothing.
ShowOverrides ==
    /\ cache[Overrides] \notin {Unloaded, overridesSeen}
    /\ overridesText' = [of |-> cache[Overrides].of, typed |-> FALSE]
    /\ overridesSeen' = cache[Overrides]
    /\ UNCHANGED <<file, queries, catalog, jsonText, jsonSeen, form, saves, writes, failures>>

\* VARIANT of ShowCatalog: the effect runs after every render.
ShowCatalogAlways ==
    /\ cache[catalog] # Unloaded
    /\ jsonText' = [of |-> cache[catalog].of, typed |-> FALSE]
    /\ jsonSeen' = cache[catalog]
    /\ UNCHANGED <<file, queries, catalog, overridesText, overridesSeen, form, saves,
                   writes, failures>>

\* VARIANT of ShowCatalog: the text is only filled when it is empty.
ShowCatalogOnce ==
    /\ cache[catalog] \notin {Unloaded, jsonSeen}
    /\ jsonText' = IF jsonText.of = Nothing THEN [of |-> cache[catalog].of, typed |-> FALSE]
                   ELSE jsonText
    /\ jsonSeen' = cache[catalog]
    /\ UNCHANGED <<file, queries, catalog, overridesText, overridesSeen, form, saves,
                   writes, failures>>

\* The effect on selectedCatalogQuery.data.
ShowCatalog ==
    /\ cache[catalog] \notin {Unloaded, jsonSeen}
    /\ jsonText' = [of |-> cache[catalog].of, typed |-> FALSE]
    /\ jsonSeen' = cache[catalog]
    /\ UNCHANGED <<file, queries, catalog, overridesText, overridesSeen, form, saves,
                   writes, failures>>

\* VARIANT of invalidateSettings: only the overrides are fetched again.
invalidateOverrides ==
    /\ fetch' = [fetch EXCEPT ![Overrides] = Asked]
    /\ UNCHANGED <<cache, invalid>>

\* invalidateSettings: what is observed is fetched again, a first fetch under way
\* is left alone, the rest is marked.
invalidateSettings ==
    /\ fetch' = [d \in Docs |->
                   IF d \in Active(catalog) /\ (cache[d] # Unloaded \/ fetch[d] = Idle)
                   THEN Asked ELSE fetch[d]]
    /\ invalid' = invalid \cup {d \in Docs : cache[d] # Unloaded}
    /\ UNCHANGED cache

-----------------------------------------------------------------------------
(* Typing and selecting.                                                   *)

TypeOverrides ==
    /\ careful => Settled /\ ~jsonText.typed
    /\ ~overridesText.typed
    /\ overridesText' = [overridesText EXCEPT !.typed = TRUE]
    /\ UNCHANGED <<file, queries, catalog, jsonText, overridesSeen, jsonSeen, form, saves,
                   writes, failures>>

TypeJson ==
    /\ careful => Settled /\ ~overridesText.typed
    /\ ~jsonText.typed
    /\ jsonText' = [jsonText EXCEPT !.typed = TRUE]
    /\ UNCHANGED <<file, queries, catalog, overridesText, overridesSeen, jsonSeen, form, saves,
                   writes, failures>>

\* setSelectedCatalog; data of the new key are fetched when missing or stale.
SelectCatalog(c) ==
    /\ careful => Settled /\ ~Unsaved
    /\ c # catalog
    /\ catalog' = c
    /\ jsonSeen' = Unloaded
    /\ \/ fetch[c] # Idle /\ UNCHANGED fetch
       \/ fetch[c] = Idle /\ fetch' = [fetch EXCEPT ![c] = Asked]
       \/ cache[c] # Unloaded /\ c \notin invalid /\ UNCHANGED fetch
    /\ UNCHANGED <<file, cache, invalid, overridesText, jsonText, overridesSeen, form, saves,
                   writes, failures>>

\* the pencil of a row: the form is filled, busy or not
EditMaterial(name) ==
    /\ cache[Materials] # Unloaded
    /\ editingCanonical' = name
    /\ draft' = [from |-> name, typed |-> FALSE]
    /\ UNCHANGED <<file, queries, catalog, editors, saves, writes, failures>>

\* a field of the form
TypeDraft ==
    /\ ~draft.typed
    /\ draft' = [draft EXCEPT !.typed = TRUE]
    /\ UNCHANGED <<file, queries, catalog, editors, editingCanonical, saves, writes, failures>>

CancelEditing ==
    /\ editingCanonical # NoName /\ ~busy
    /\ editingCanonical' = NoName
    /\ draft' = emptyDraft
    /\ UNCHANGED <<file, queries, catalog, editors, saves, writes, failures>>

-----------------------------------------------------------------------------
(* The writes: every button is disabled while one is pending.              *)

Start(w, unseen) ==
    /\ ~busy
    /\ blind' = (blind \/ unseen)
    /\ writes < MaxWrites /\ Bounded
    /\ writes' = writes + 1
    /\ write' = w
    /\ UNCHANGED <<file, queries, catalog, editors, form, failures>>

Request(kind, doc, of, target, from) ==
    [kind |-> kind, doc |-> doc, of |-> of, target |-> target, from |-> from, phase |-> "sent"]

saveSettingsOverrides == Request("overrides", Overrides, overridesText.of, NoName, NoName)
reloadSettings == Request("reload", Overrides, Overrides, NoName, NoName)
saveMasterData == Request("json", catalog, jsonText.of, NoName, NoName)
createMaterial == Request("material", Materials, Materials, NoName, draft.from)
updateMaterial == Request("material", Materials, Materials, editingCanonical, draft.from)
deleteMaterial(name) == Request("delete", Materials, Materials, name, name)

SaveOverrides ==
    /\ careful => Settled /\ ~jsonText.typed
    /\ Start(saveSettingsOverrides, overridesSeen = Unloaded)

Reload ==
    /\ careful => Settled /\ ~Unsaved
    /\ Start(reloadSettings, FALSE)

\* VARIANT of saveJson: the text is saved where it came from first.
saveJsonToUnits ==
    /\ careful => Settled /\ ~overridesText.typed
    /\ jsonText.of # Nothing \/ jsonText.typed
    /\ Start([saveMasterData EXCEPT !.doc = Units], jsonSeen = Unloaded)

\* saveJson: an empty text is no JSON and is not sent.  The button waits for the write
\* before, not for the text of the catalog that is selected.
saveJson ==
    /\ careful => Settled /\ ~overridesText.typed
    /\ jsonText.of # Nothing \/ jsonText.typed
    /\ Start(saveMasterData, jsonSeen = Unloaded)

\* onSubmit of the form; a new material needs a name
SaveMaterial ==
    /\ careful => Settled /\ ~Unsaved
    /\ draft # emptyDraft
    /\ Start(IF editingCanonical # NoName THEN updateMaterial ELSE createMaterial, FALSE)

DeleteMaterial(name) ==
    /\ careful => Settled /\ ~Unsaved
    /\ cache[Materials] # Unloaded
    /\ Start(deleteMaterial(name), FALSE)

\* The server writes the document, and the answer may be lost: to the page that write has
\* failed.  Or it refuses: invalid text on either side, unknown or duplicate material.  A
\* reload changes what the configuration query answers.
WriteDocument ==
    /\ file' = [file EXCEPT ![write.doc] = [of |-> write.of, stamp |-> writes]]
    /\ \/ write' = [write EXCEPT !.phase = "done"] /\ UNCHANGED failures
       \/ /\ failures < MaxFailures /\ Bounded
          /\ failures' = failures + 1
          /\ write' = [write EXCEPT !.phase = "refused"]
RefuseWrite ==
    /\ write' = [write EXCEPT !.phase = "refused"]
    /\ UNCHANGED <<file, failures>>
HandleWrite ==
    /\ busy /\ write.phase = "sent"
    /\ WriteDocument \/ RefuseWrite
    /\ UNCHANGED <<queries, catalog, editors, form, blind, writes>>

\* onSuccess of the form
MaterialSaved == draft' = emptyDraft /\ editingCanonical' = NoName

\* onSuccess: message and invalidation; an error leaves everything as typed.
WriteDone ==
    /\ busy /\ write.phase # "sent"
    /\ write' = NoWrite
    /\ IF write.phase = "done" THEN invalidateSettings ELSE UNCHANGED queries
    /\ IF write.phase = "done" /\ write.kind = "material" THEN MaterialSaved ELSE UNCHANGED form
    /\ UNCHANGED <<file, catalog, editors, blind, writes, failures>>

Uses(editor) == careful \/ editor \in Hasty

Admin ==
    \/ Uses("overrides") /\ (TypeOverrides \/ SaveOverrides \/ Reload)
    \/ Uses("json") /\ (TypeJson \/ saveJson \/ \E c \in Catalogs : SelectCatalog(c))
    \/ Uses("form") /\ (TypeDraft \/ CancelEditing \/ SaveMaterial
                         \/ \E name \in Names : EditMaterial(name) \/ DeleteMaterial(name))

Next ==
    /\ \/ Admin
       \/ HandleWrite \/ WriteDone
       \/ \E d \in Docs : AnswerFetch(d) \/ ReceiveFetch(d) \/ FetchFails(d)
       \/ ShowOverrides \/ ShowCatalog
    /\ UNCHANGED careful

Spec == Init /\ [][Next]_vars

-----------------------------------------------------------------------------
\* Types of the variables; the form always holds what it was filled with for the
\* material it edits, and nothing when it edits none.
TypeOK ==
    /\ file \in [Docs -> Document]
    /\ cache \in [Docs -> Document]
    /\ invalid \subseteq Docs
    /\ fetch \in [Docs -> Document \cup {Idle, Asked}]
    /\ catalog \in Catalogs
    /\ overridesText \in Text /\ jsonText \in Text
    /\ overridesSeen \in Document /\ jsonSeen \in Document
    /\ draft \in Draft
    /\ editingCanonical \in Names \cup {NoName}
    /\ draft.from = editingCanonical
    /\ write \in Write \cup {NoWrite}
    /\ careful \in BOOLEAN /\ blind \in BOOLEAN
    /\ writes \in Stamps /\ failures \in 0..MaxFailures

\* Whoever edits, and however selections, fetches, effects and writes overlap: a file
\* receives a text of another document, or of none, only if the admin saves before the
\* text of what he has selected is shown.  That the page lets him: the save button does
\* not wait for the fetch, and the field shows the catalog before until it arrives.
OwnContent == ~blind => \A d \in Docs : file[d].of = d

\* A text that a careful admin has typed is only replaced after it has been saved.
KeepsTypedText ==
    careful =>
        /\ jsonText.typed /\ ~jsonText'.typed => file[catalog].stamp > jsonSeen.stamp
        /\ overridesText.typed /\ ~overridesText'.typed =>
              file[Overrides].stamp > overridesSeen.stamp
TypedTextKept == [][KeepsTypedText]_vars

\* The settled page of a careful admin without unsaved texts shows what is stored, as
\* long as nothing has failed: every write refetches what it may have changed, the
\* catalog behind the form and the one in the text field among it.
ShowsStored ==
    careful /\ Settled /\ failures = 0 =>
        /\ ~overridesText.typed => cache[Overrides] = file[Overrides]
        /\ ~jsonText.typed => cache[catalog] = file[catalog]
=============================================================================
