----------------------------- MODULE SourcePane -----------------------------
(***************************************************************************)
(* The pane beside the review table that shows the page of the original    *)
(* PDF a selected cell was read from (result-table.tsx over                *)
(* pdf-source-viewer.tsx): page number, highlight, and the fall back to    *)
(* the viewer of the browser in an iframe when the renderer does not load. *)
(* Loading is asynchronous, and the effect that turns to the page of the   *)
(* selection is a step between the click and the next event.               *)
(***************************************************************************)
EXTENDS Integers, FiniteSets

CONSTANTS
    Pages,           \* 1..n
    Width,           \* of every page, in points
    Sources,         \* locations of cells: [page, box]
    NoSource,
    PaneWidths,      \* widths of the pane, in pixels
    MaxReloads       \* bound: presses of "Neu laden", and resets

PaneAssumption ==
    /\ IsFiniteSet(Pages) /\ Pages = 1..Cardinality(Pages) /\ 1 \in Pages
    /\ Width \in [Pages -> Nat \ {0}]
    /\ \A s \in Sources : s.page \in Pages
    /\ NoSource \notin Sources
    /\ PaneWidths \subseteq Nat \ {0}
    /\ MaxReloads \in Nat

VARIABLES
    pdfPage, pdfNumPages, pdfError, pdfReloadKey,    \* states of the table
    selectedSource,  \* source_location of the selected cell
    effectPage,      \* the page the effect last saw, 0 for none
    renderer,        \* pdfjs: "loading", "loaded"; the viewer is mounted
    crashed,         \* the error boundary has caught an error
    document,        \* "loading" or "loaded"
    loadedPage,      \* the page onLoadSuccess reported last, 0 for none
    originalWidth,   \* its width, 0 before the first
    containerWidth,
    reloads          \* counter for the bound

table == <<pdfPage, pdfNumPages, pdfError, pdfReloadKey, reloads>>
viewer == <<renderer, document, loadedPage, originalWidth>>
vars == <<table, selectedSource, effectPage, viewer, crashed, containerWidth>>

Larger(a, b) == IF a > b THEN a ELSE b
Smaller(a, b) == IF a < b THEN a ELSE b
LastPage == CHOOSE p \in Pages : \A q \in Pages : q <= p
PageNumbers == 1..(LastPage + 1)

sourcePage == IF selectedSource = NoSource THEN 0 ELSE selectedSource.page
displayPdfPage == Larger(pdfPage, 1)

-----------------------------------------------------------------------------
(* What is rendered.                                                       *)

ShowsIframe == pdfError \/ crashed
ShowsCanvas == ~ShowsIframe /\ renderer = "loaded" /\ document = "loaded"

highlightOnThisPage == sourcePage = displayPdfPage

\* VARIANT of scaleOf: the scale is that of the moment the page was loaded.
scaleOfLoad == <<CHOOSE w \in PaneWidths : TRUE, originalWidth>>

\* pixels per point, as a fraction
scaleOf == <<containerWidth, originalWidth>>

highlightStyle ==
    IF ~highlightOnThisPage \/ originalWidth = 0 THEN NoSource
    ELSE [box |-> selectedSource.box, scale |-> scaleOf]

Init ==
    /\ pdfPage = 1 /\ pdfNumPages = 0 /\ pdfError = FALSE /\ pdfReloadKey = 0
    /\ selectedSource = NoSource /\ effectPage = 0
    /\ renderer = "loading" /\ document = "loading" /\ loadedPage = 0 /\ originalWidth = 0
    /\ crashed = FALSE
    /\ containerWidth \in PaneWidths
    /\ reloads = 0

-----------------------------------------------------------------------------
(* The user.                                                               *)

\* React runs the effects of a render before it takes the next event.
EffectRan == sourcePage = effectPage

\* A cell is selected in the table.
Select(s) ==
    /\ EffectRan
    /\ selectedSource' = s
    /\ UNCHANGED <<table, effectPage, viewer, crashed, containerWidth>>

\* the effect on selectedSource?.page
FollowSource ==
    /\ ~EffectRan
    /\ effectPage' = sourcePage
    /\ pdfPage' = IF sourcePage # 0 THEN sourcePage ELSE pdfPage
    /\ UNCHANGED <<pdfNumPages, pdfError, pdfReloadKey, reloads, selectedSource, viewer, crashed,
                   containerWidth>>

TurnTo(p) ==
    /\ EffectRan
    /\ pdfPage' = p
    /\ UNCHANGED <<pdfNumPages, pdfError, pdfReloadKey, reloads, selectedSource, effectPage, viewer,
                   crashed, containerWidth>>

\* the button with the arrow, and PageUp
PreviousPdfPage == TurnTo(Larger(1, pdfPage - 1))

\* the button with the arrow, and PageDown
NextPdfPage ==
    /\ pdfPage \in Pages
    /\ TurnTo(IF pdfNumPages > 0 THEN Smaller(pdfNumPages, pdfPage + 1) ELSE pdfPage + 1)

\* the input field: any number from 1 on
TypePage(p) == TurnTo(Larger(p, 1))

\* "Zur markierten Quelle"
GoToSource == selectedSource # NoSource /\ TurnTo(selectedSource.page)

\* "Neu laden": a mounted viewer gets a new document, an unmounted one is mounted
ReloadPdf ==
    /\ EffectRan
    /\ reloads < MaxReloads /\ reloads' = reloads + 1
    /\ pdfReloadKey' = pdfReloadKey + 1
    /\ pdfError' = FALSE
    /\ document' = "loading" /\ loadedPage' = 0
    /\ IF pdfError THEN renderer' = "loading" /\ originalWidth' = 0 /\ crashed' = FALSE
                   ELSE UNCHANGED <<renderer, originalWidth, crashed>>
    /\ UNCHANGED <<pdfPage, pdfNumPages, selectedSource, effectPage, containerWidth>>

\* the splitter is moved or the window resized
ResizePane(w) ==
    /\ EffectRan
    /\ containerWidth' = w
    /\ UNCHANGED <<table, selectedSource, effectPage, viewer, crashed>>

\* A save has changed the number of open cells: transient state is reset.
ResetPane ==
    /\ EffectRan
    /\ reloads < MaxReloads /\ reloads' = reloads + 1
    /\ pdfPage' = 1 /\ pdfError' = FALSE /\ pdfReloadKey' = 0
    /\ selectedSource' = NoSource
    /\ IF pdfError THEN renderer' = "loading" /\ originalWidth' = 0 /\ crashed' = FALSE
                   ELSE UNCHANGED <<renderer, originalWidth, crashed>>
    /\ IF pdfError \/ pdfReloadKey # 0 THEN document' = "loading" /\ loadedPage' = 0
                                       ELSE UNCHANGED <<document, loadedPage>>
    /\ UNCHANGED <<pdfNumPages, effectPage, containerWidth>>

-----------------------------------------------------------------------------
(* The viewer.                                                             *)

LoadRenderer ==
    /\ ~ShowsIframe /\ renderer = "loading"
    /\ renderer' = "loaded"
    /\ UNCHANGED <<table, selectedSource, effectPage, document, loadedPage, originalWidth,
                   crashed, containerWidth>>

\* VARIANT of RendererFails: the rejected import is not reported.
RendererFailsSilently ==
    /\ ~ShowsIframe /\ renderer = "loading"
    /\ renderer' = "failed"
    /\ UNCHANGED <<table, selectedSource, effectPage, document, loadedPage, originalWidth,
                   crashed, containerWidth>>

\* onError of the rejected import, of the document, or of the page
ReportError ==
    /\ pdfError' = TRUE
    /\ UNCHANGED <<pdfPage, pdfNumPages, pdfReloadKey, reloads, selectedSource, effectPage, viewer,
                   crashed, containerWidth>>

RendererFails == ~ShowsIframe /\ renderer = "loading" /\ ReportError

\* onDocumentLoad
LoadDocument ==
    /\ ~ShowsIframe /\ renderer = "loaded" /\ document = "loading"
    /\ document' = "loaded"
    /\ pdfNumPages' = LastPage
    /\ UNCHANGED <<pdfPage, pdfError, pdfReloadKey, reloads, selectedSource, effectPage, renderer,
                   loadedPage, originalWidth, crashed, containerWidth>>

DocumentFails ==
    /\ ~ShowsIframe /\ renderer = "loaded"
    /\ document = "loading" \/ loadedPage # displayPdfPage
    /\ ReportError

\* handlePageLoad; a page that does not exist never loads
handlePageLoad ==
    /\ ShowsCanvas
    /\ displayPdfPage \in Pages /\ loadedPage # displayPdfPage
    /\ loadedPage' = displayPdfPage
    /\ originalWidth' = Width[displayPdfPage]
    /\ UNCHANGED <<table, selectedSource, effectPage, renderer, document, crashed,
                   containerWidth>>

\* Rendering throws; the boundary keeps the error until it is unmounted.
Crash ==
    /\ ~ShowsIframe /\ renderer = "loaded"
    /\ crashed' = TRUE
    /\ UNCHANGED <<table, selectedSource, effectPage, viewer, containerWidth>>

Reader ==
    \/ \E s \in Sources : Select(s)
    \/ PreviousPdfPage \/ NextPdfPage \/ GoToSource
    \/ \E p \in PageNumbers : TypePage(p)
    \/ ReloadPdf \/ ResetPane
    \/ \E w \in PaneWidths : ResizePane(w)

Loading == LoadRenderer \/ RendererFails \/ LoadDocument \/ DocumentFails \/ handlePageLoad

Next == Reader \/ FollowSource \/ Loading \/ Crash

Spec == Init /\ [][Next]_vars

\* Effects run, and the renderer and the document load or fail.
Fairness ==
    /\ WF_vars(FollowSource)
    /\ WF_vars(LoadRenderer \/ RendererFails)
    /\ WF_vars(LoadDocument \/ DocumentFails)

FairSpec == Spec /\ Fairness

-----------------------------------------------------------------------------
\* Types of the variables.
TypeOK ==
    /\ pdfPage \in PageNumbers
    /\ pdfNumPages \in {0, LastPage}
    /\ pdfError \in BOOLEAN /\ crashed \in BOOLEAN
    /\ pdfReloadKey \in 0..MaxReloads /\ reloads \in 0..MaxReloads
    /\ selectedSource \in Sources \cup {NoSource}
    /\ effectPage \in Pages \cup {0}
    /\ renderer \in {"loading", "loaded"} /\ document \in {"loading", "loaded"}
    /\ loadedPage \in Pages \cup {0}
    /\ originalWidth \in {Width[p] : p \in Pages} \cup {0}
    /\ containerWidth \in PaneWidths

\* On a page that has loaded, the highlight marks the box of the selected cell in
\* the scale the page is drawn in, also after the pane has been resized and after
\* other pages of other sizes have been seen.
HighlightAligned ==
    (ShowsCanvas /\ loadedPage = displayPdfPage /\ highlightStyle # NoSource) =>
        /\ highlightStyle.box = selectedSource.box
        /\ selectedSource.page = loadedPage
        /\ highlightStyle.scale = <<containerWidth, Width[loadedPage]>>

\* The pane always comes to show the document, on its canvas or in the iframe,
\* whatever fails: a renderer or document that does not load, or a crash.
DocumentComesUp == []<>(ShowsCanvas \/ ShowsIframe)
=============================================================================
