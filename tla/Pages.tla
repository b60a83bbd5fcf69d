-------------------------------- MODULE Pages --------------------------------
(***************************************************************************)
(* The login and the pages of the browser beside the review, one module    *)
(* over all of them: the brakes of the login (LoginThrottle), the session  *)
(* (LoginSession), the settings (SettingsEditor), the lists of jobs        *)
(* (JobList, once for a patient user and once for the pages of a list that *)
(* others change), the upload form (UploadForm), the statistics            *)
(* (Statistics), the source pane (SourcePane) and the workspace            *)
(* (Workspace).  They share no variable; one of them runs, and which one   *)
(* is chosen at the start.                                                 *)
(***************************************************************************)
EXTENDS LoginThrottle

CONSTANTS
    Idle, Asked, NoData,     \* of every cached query
    MaxFailures,             \* bound: requests of a part that fail
    \* of the settings
    Overrides, Catalogs, Materials, Units, Names, Nothing, NoName, NoWrite, Hasty, MaxHasty,
    MaxWrites,
    \* of the lists
    ListJobs, ListCustomer, ListRate, Found, PAGE_SIZE, RECENT, NoMutation,
    ListStart, PagedStart, ListControls, PagedControls, MaxMutations, MaxOthers,
    \* of the session
    MaxLogins, MaxLogouts, MaxExpiries,
    \* of the upload form
    Files, Customers, NoFile, NoUpload, MaxSize, MaxUploads, MaxTrouble,
    \* of the statistics
    StatJobs, StatCustomer, Month, NoCustomer, Unbekannt, MaxCorrections, MaxChanges,
    \* of the source pane
    PdfPages, Width, Sources, NoSource, PaneWidths, MaxReloads,
    \* of the workspace
    WorkJobs, KnownJobs, NoJob, NoResult, Purgeable, MaxEdits, MaxSent

VARIABLES
    part,            \* the part that runs
    \* of the settings
    file, cache, invalid, fetch, catalog, overridesText, jsonText, overridesSeen, jsonSeen,
    draft, editingCanonical, write, careful, blind, writes, failures,
    \* of the lists
    table, listScreen, search, statusFilter, includeArchived, sortKey, page, listData,
    listFetch, listStale, listError, mutation, unheard, mutations, others, listFailures,
    \* of the session
    session, screen, user, isError, stale, meFetch, check, form, bye, logins, logouts,
    expiries, loginFailures,
    \* of the upload form
    open, selectedFile, customer, error, isDragging, upload, uploadError, created, uploads,
    trouble,
    \* of the statistics
    done, archived, log, always, loaded, data, statFetch, answer, statFailed, changes,
    statFailures,
    \* of the source pane
    pdfPage, pdfNumPages, pdfError, pdfReloadKey, selectedSource, effectPage, renderer,
    crashed, document, loadedPage, originalWidth, containerWidth, reloads,
    \* of the workspace
    stored, version, mounted, link, jobId, shown, status, results, resultError, aged,
    statusFetch, resultFetch, sentRequests, answers, pending, deaf, sent, sentFailures

settingsVars == <<file, cache, invalid, fetch, catalog, overridesText, jsonText, overridesSeen,
                  jsonSeen, draft, editingCanonical, write, careful, blind, writes, failures>>
listVars == <<table, listScreen, search, statusFilter, includeArchived, sortKey, page, listData,
              listFetch, listStale, listError, mutation, unheard, mutations, others,
              listFailures>>
loginVars == <<session, screen, user, isError, stale, meFetch, check, form, bye, logins, logouts,
               expiries, loginFailures>>
uploadVars == <<open, selectedFile, customer, error, isDragging, upload, uploadError, created,
                uploads, trouble>>
statVars == <<done, archived, log, always, loaded, data, statFetch, answer, statFailed, changes,
              statFailures>>
paneVars == <<pdfPage, pdfNumPages, pdfError, pdfReloadKey, selectedSource, effectPage, renderer,
              crashed, document, loadedPage, originalWidth, containerWidth, reloads>>
workVars == <<stored, version, mounted, link, jobId, shown, status, results, resultError, aged,
              statusFetch, resultFetch, sentRequests, answers, pending, deaf, sent, sentFailures>>
pagesVars == <<part, vars, settingsVars, listVars, loginVars, uploadVars, statVars, paneVars, workVars>>

-----------------------------------------------------------------------------
(* The parts.                                                              *)

\* The settings.  (A proof module adds theorems to its component and no definition of
\* the model, so that they can be cited here.)
Settings == INSTANCE SettingsEditorProofs

\* The lists and the dashboard of a patient user who is alone.
List == INSTANCE JobListProofs
    WITH Jobs <- ListJobs, Customer <- ListCustomer, Rate <- ListRate,
         Patient <- TRUE, Start <- ListStart, Controls <- ListControls,
         screen <- listScreen, data <- listData, fetch <- listFetch, stale <- listStale,
         isError <- listError, failures <- listFailures

\* The pages of a list that anybody changes at any time.
Paged == INSTANCE JobListProofs
    WITH Jobs <- ListJobs, Customer <- ListCustomer, Rate <- ListRate,
         Patient <- FALSE, Start <- PagedStart, Controls <- PagedControls,
         screen <- listScreen, data <- listData, fetch <- listFetch, stale <- listStale,
         isError <- listError, failures <- listFailures

Login == INSTANCE LoginSession WITH fetch <- meFetch, failures <- loginFailures

Form == INSTANCE UploadForm WITH DropsWhileUploading <- FALSE

Stats == INSTANCE Statistics
    WITH Jobs <- StatJobs, Customer <- StatCustomer,
         fetch <- statFetch, failed <- statFailed, failures <- statFailures

Pane == INSTANCE SourcePane WITH Pages <- PdfPages

\* The workspace of a user who does not wait.
Work == INSTANCE WorkspaceProofs
    WITH Jobs <- WorkJobs, BackWhileBusy <- TRUE, MaxRequests <- MaxSent,
         requests <- sentRequests, failures <- sentFailures

ASSUME PagesAssumption ==
    /\ Settings!SettingsAssumption
    /\ List!JobListAssumption /\ Paged!JobListAssumption
    /\ Login!LoginBounds
    /\ Form!UploadAssumption
    /\ Stats!StatisticsAssumption
    /\ Pane!PaneAssumption
    /\ Work!WorkspaceAssumption

-----------------------------------------------------------------------------
\* A part that does not run is at rest: nothing fairness asks for is enabled.
LoginAtRest ==
    /\ session = TRUE /\ screen = "app" /\ user = TRUE /\ isError = FALSE /\ stale = FALSE
    /\ meFetch = "idle" /\ check = "idle" /\ form = "idle" /\ bye = "idle"
    /\ logins = 0 /\ logouts = 0 /\ expiries = 0 /\ loginFailures = 0

StatsAtRest ==
    /\ done = {} /\ archived = {} /\ log = [j \in StatJobs |-> 0]
    /\ always = {} /\ loaded = {} /\ data = [query \in Stats!Queries |-> NoData]
    /\ statFetch = [query \in Stats!Queries |-> "idle"] /\ answer = data
    /\ statFailed = {} /\ changes = 0 /\ statFailures = 0

PaneAtRest ==
    /\ pdfPage = 1 /\ pdfNumPages = 0 /\ pdfError = TRUE /\ pdfReloadKey = 0
    /\ selectedSource = NoSource /\ effectPage = 0
    /\ renderer = "loading" /\ document = "loading" /\ loadedPage = 0 /\ originalWidth = 0
    /\ crashed = FALSE /\ containerWidth = (CHOOSE w \in PaneWidths : TRUE) /\ reloads = 0

PagesInit ==
    /\ part \in {"throttle", "settings", "list", "paged", "login", "form", "stats", "pane", "work"}
    /\ Init
    /\ Settings!Init /\ (part # "settings" => careful)
    /\ IF part = "paged" THEN Paged!Init ELSE List!Init
    /\ IF part = "login" THEN Login!Init ELSE LoginAtRest
    /\ Form!Init
    /\ IF part = "stats" THEN Stats!Init ELSE StatsAtRest
    /\ IF part = "pane" THEN Pane!Init ELSE PaneAtRest
    /\ Work!Init

Throttled == part = "throttle" /\ Next
             /\ UNCHANGED <<part, settingsVars, listVars, loginVars, uploadVars, statVars, paneVars, workVars>>
SettingsStep == part = "settings" /\ Settings!Next
             /\ UNCHANGED <<part, vars, listVars, loginVars, uploadVars, statVars, paneVars, workVars>>
ListStep == part = "list" /\ List!Next
             /\ UNCHANGED <<part, vars, settingsVars, loginVars, uploadVars, statVars, paneVars, workVars>>
PagedStep == part = "paged" /\ Paged!Next
             /\ UNCHANGED <<part, vars, settingsVars, loginVars, uploadVars, statVars, paneVars, workVars>>
LoginStep == part = "login" /\ Login!Next
             /\ UNCHANGED <<part, vars, settingsVars, listVars, uploadVars, statVars, paneVars, workVars>>
FormStep == part = "form" /\ Form!Next
             /\ UNCHANGED <<part, vars, settingsVars, listVars, loginVars, statVars, paneVars, workVars>>
StatsStep == part = "stats" /\ Stats!Next
             /\ UNCHANGED <<part, vars, settingsVars, listVars, loginVars, uploadVars, paneVars, workVars>>
PaneStep == part = "pane" /\ Pane!Next
             /\ UNCHANGED <<part, vars, settingsVars, listVars, loginVars, uploadVars, statVars, workVars>>
WorkStep == part = "work" /\ Work!Next
             /\ UNCHANGED <<part, vars, settingsVars, listVars, loginVars, uploadVars, statVars, paneVars>>

PagesNext ==
    \/ Throttled \/ SettingsStep \/ ListStep \/ PagedStep \/ LoginStep \/ FormStep
    \/ StatsStep \/ PaneStep \/ WorkStep

PagesSafety == PagesInit /\ [][PagesNext]_pagesVars

PagesSpec == PagesSafety /\ Login!Fairness /\ Stats!Fairness /\ Pane!Fairness /\ Work!Fairness

-----------------------------------------------------------------------------
(* The properties of the parts, where they are about the part that runs.   *)

\* Types of the variables of every part.
PartsTypeOK ==
    /\ part = "throttle" => TypeOK
    /\ part = "settings" => Settings!TypeOK
    /\ part = "list" => List!TypeOK
    /\ part = "paged" => Paged!TypeOK
    /\ part = "login" => Login!TypeOK
    /\ part = "form" => Form!TypeOK
    /\ part = "stats" => Stats!TypeOK
    /\ part = "pane" => Pane!TypeOK
    /\ part = "work" => Work!TypeOK

\* OwnContent of SettingsEditor: a document is written over another one only by a save
\* before its text is shown.
OwnContent == part = "settings" => Settings!OwnContent

\* TypedTextKept of SettingsEditor: typed text stays until it is saved.
TypedTextKept == [][part = "settings" => Settings!KeepsTypedText]_settingsVars

\* What a page says is true of what the server has stored, answered or was sent:
\* ShowsStored of SettingsEditor, ListIsCurrent and DashboardIsCurrent of JobList (pages
\* that are settled after the user's own changes), the charts of Statistics, and the
\* file UploadForm sends or refuses.
PagesAreTrue ==
    /\ part = "settings" => Settings!ShowsStored
    /\ part = "list" => List!ListIsCurrent /\ List!DashboardIsCurrent
    /\ part = "stats" => Stats!ChartsMissNothing
    /\ part = "form" => Form!ShownIsSent /\ Form!OrdinaryFileTaken

\* PagesHoldTheList of JobList: the pages hold every job of the filter once.
PagesHoldTheList == part = "paged" => Paged!PagesHoldTheList

\* PurgedWasArchived of JobList: a patient user who is alone purges a job only when it
\* is archived, unless the answer to a change of his was lost.
PurgedWasArchived == part = "list" => List!PurgedWasArchived

\* HighlightAligned of SourcePane: the highlight lies on its page, in its scale.
HighlightAligned == part = "pane" => Pane!HighlightAligned

\* AggregatesAgree of Statistics: the views of the same jobs add up.
AggregatesAgree == part = "stats" => Stats!AggregatesAgree

\* PageComesUp of Statistics, DocumentComesUp of SourcePane, LoginReachesApp of
\* LoginSession and OpenJobSettles of Workspace: whoever waits for a page, a document,
\* the application after a login, or the result of an open job, gets it or an error.
Waits(j) ==
    \/ part \in {"stats", "pane"}
    \/ part = "login" /\ Login!LoginSucceeded
    \/ part = "work" /\ jobId = j
ComesUp(j) ==
    /\ part = "stats" => ~Stats!loading
    /\ part = "pane" => Pane!ShowsCanvas \/ Pane!ShowsIframe
    /\ part = "login" => Login!ShowsApp \/ ~session
    /\ part = "work" => Work!Settled(j)
WaitingEnds == \A j \in WorkJobs : Waits(j) ~> ComesUp(j)
=============================================================================
