# TLA+ models of the BOM mapper

This directory holds TLA+ models of the Stücklistenagent (`src/`): a web
service that turns customers' parts lists (PDF, Excel, CSV) into one target
Excel template, colours every cell by how far it can be trusted, and lets a
reviewer correct the result in a browser. The models are checked with TLC on
small instances, and the safety properties that matter most are proved with
TLAPS for every instance.

All paths below are relative to the repository; the Python code is under
`src/src/`, the browser's under `src/frontend/src/`.

## 1. The system

One FastAPI process (`api/main.py`) serves HTTP, runs a pool of worker tasks
on the same event loop, and keeps the jobs in one SQLite table. It is restarted
by the container runtime (`docker-compose.prod.yml`, `restart: unless-stopped`).

| component | code | state | operations | what makes it correct |
|---|---|---|---|---|
| job table | `api/job_store.py` | one SQLite row per job | create, get, update, set_deleted, purge, recovery at start | a row always says where its job stands |
| queue and workers | `api/job_queue.py` | asyncio queue, a list for queue positions, N tasks | submit, position, worker loop, start, stop | every job in flight has exactly one owner |
| pipeline runner | `api/pipeline_runner.py` | locals of a coroutine | parse, map, validate, transform, reconcile, score, export, under one timeout | settles every job; completes it only with audit and workbook |
| job and upload routes | `api/routes/jobs.py`, `upload.py` | upload and export files | upload, retry, archive, restore, purge, downloads | files outlive the row that names them, and no longer |
| ingestion | `ingestion/*` | - | text-layer coordinates, Vision waves, Excel anchors | rows, and an independent list of what the source contains |
| mapping | `mapping/*` | cached schema, learnt corrections | LLM rounds, consensus, validator demotions | one source column per target field |
| transformation | `transform/*` | cached catalogs | value normalisation, master data, cross-validation | never invents a value |
| reconciliation | `reconciliation/position_reconciler.py` | expected bands or positions | position mode, row-band mode | what was read and not extracted appears as a RED row |
| scoring | `scoring/ensemble_scorer.py`, `green_gate.py`, `threshold_manager.py`, `audit_trail.py` | the audit | gate per cell, deferred counter-checks, coverage net | GREEN only with independent evidence; no row without a cell |
| counter-checks | `scoring/vision_verifier.py` | page image cache, results | batch per page, release, close | an error leaves the cell YELLOW |
| value comparison | `scoring/value_comparator.py`, `pdf_value_extractor.py` | - | compare, locate in the PDF text | a match means equal values |
| export | `export/excel_exporter.py` | workbook file | zero-data-loss guard, template filling | refuses to save a workbook that lost a row |
| review | `api/routes/feedback.py`, `api/cell_edits.py`, `export/feedback_store.py` | audit, `corrections.jsonl` | edit cells, exclude and restore rows | audit, workbook and log agree |
| LLM client | `llm/azure_openai.py` | parameter capabilities | retry loop | bounded retries |
| login | `core/auth.py`, `core/rate_limit.py`, `api/routes/auth.py` | sessions, attempts, failures | login, me, logout, clean-up | limits hold in every window |
| settings | `api/routes/settings.py`, `core/config_loader.py` | JSON and YAML files, LRU caches | edit catalogs, overrides, reload | no lost update, no stale cache |
| statistics, results | `api/routes/stats.py`, `api/result_builder.py` | a template cache | read only | - |
| workspace | `lib/use-job-pipeline.ts`, `app/page.tsx` | open job, result, two cached queries, four mutations | upload, poll, retry, open another job, save, exclude | shows the open job, and what the server stored of it |
| review table | `components/result-table.tsx`, `review-grid.tsx` | optimistic grid, pending edits, focus, filters, selection | edit, confirm, undo by answer, N and A keys, drag, check rows | loses no edit, hides no open cell, selects only what was seen |
| source pane | `components/pdf-source-viewer.tsx` | page, renderer, scale | select a source, turn pages, resize, fall back | the highlight is where the cell was read |
| upload form | `components/upload-dropzone.tsx` | file, customer, error | drop, choose, clear, send | shows what is being sent |
| lists | `app/stuecklisten/page.tsx`, `app/dashboard/page.tsx`, `lib/dashboard-mappers.ts` | three cached lists, filters, page | archive, restore, purge, sort, turn pages | every job of a filter on one page |
| settings page | `app/einstellungen/page.tsx` | three editors over fetched documents | type, save, reload, choose a catalog | writes no catalog over another, but for a save before the text has come |
| statistics page | `app/statistik/page.tsx` | four queries | load, refresh | says "nothing yet" only of data that arrived |
| login page and guard | `app/login/page.tsx`, `lib/use-auth.ts`, `components/dashboard/dashboard-shell.tsx` | one cached session query | login, redirect, logout | a login reaches the application |

How they interact: the upload route writes the file, then the row, then
enqueues. A worker takes the identifier, reads the row, and runs the pipeline;
the stages hand one object to the next (parsed table, mapping, transformation
result, audit). The workbook is written before the row that completes the job.
The review routes read the audit from the row, change it, write the workbook
again, and store the audit. All handlers of jobs and reviews are coroutines
without an `await` between reading and writing, so each is one step on the event
loop; a worker gives up the loop only in `parse_file`, `map_columns` and
`score_bom_async`. The settings and statistics routes are plain functions and
run in the thread pool, where they do interleave.

The browser runs one callback at a time, but its requests travel independently:
answers overtake each other, and the callback of an answer runs in whatever
state the page is in by then. Data are cached by TanStack Query beyond the life
of a page; a cached value is shown at once and refetched when it is older than
60 s or was invalidated, and dropped 5 minutes after its last use. Effects copy
fetched data into the state of a component, where the user changes it.

What is hard to get right: the queue is lost at an exit while the rows stay;
purge and retry race with a running worker; storing a failure can itself fail;
files and rows are written one after the other; and three places (reconciler,
coverage net, guard) decide with their own sets of identities whether a row is
lost, under a reviewer who edits those very identities. In the browser, state
that was copied from an answer outlives what it was copied from: a table of one
job under the identifier of another, edits that an answer resets, an editor
that a refetch overwrites, a list from before the last change. `PROJECT.json`
lists these hazards at their lines, with the properties that would catch them.

## 2. The modules

### JobContract, JobLifecycle, MCJobLifecycle

`JobContract` is what the service promises, with no queue, worker or server: a
job waits, runs and settles; only a failed one runs again; a completed job stays
downloadable until it is purged; a purged job never comes back; a restart fails
what is in flight and nothing else.

`JobLifecycle` is the code. Its state:

| variables | code |
|---|---|
| `status`, `progress` (tenths), `customer`, `withError`, `withAudit`, `withExportPath`, `archived` | the columns of the jobs table; `status[j] = "none"` means there is no row |
| `uploadFile`, `exportFile` | files under `data/uploads` and `data/exports` |
| `queue`, `pending` | the asyncio queue, and `JobQueue._pending_ids` behind `queue_position` |
| `stage`, `running`, `snapshot` | where each worker awaits, its job, and the customer it read |
| `server` | whether the process runs |
| `issued`, `stranded`, counters | bookkeeping: identifiers given out, jobs whose failure could not be stored, bounds |

`Set` and `Mark` are `JobStore.update`: without a row, an UPDATE silently does
nothing, which is why a purged job can go on running. Each handler is an action
(`Upload`, `Retry`, `Archive`, `Restore`, `Purge`), and where the process can
exit between two of its writes there is an interrupted form next to it. A worker
step is the code between two awaits (`Begin`, `Parsed`, `Mapped`, `Scored`),
with the progress callback, the failure of a stage, the timeout, and the forms
in which an SQL statement raises. `ServerStarts` is the recovery of
`JobStore.__init__` and the start of the worker pool.

Abstracted: the contents of audits, errors and file names; the three statements
of a stretch without an await are one step unless the process exits in it.

### Completeness, MCCompleteness

From the extracted rows to the review of one job. A row is a row index with a
position value and a band; `pdfIds`, `pdfCount` and `pdfBands` are what the
parser found in the source independently. `ReconcilePositions` and
`ReconcileBands` are the two modes of the reconciler, `Score` is the coverage
net at the end of `score_bom_async`, `GuardPasses` and `Save` are
`export_to_excel`, and `UpdateCells`, `ExcludeRows`, `RestoreRows` are the
review: a request is `Applied`, `Refused` by the guard (500, nothing stored,
but the correction already logged) or `Interrupted` by an exit before, in or
after `wb.save`. Reviewers may edit every position and rows the audit does not
know, and exclude any set of rows. `sample` is the workbook that
`export_to_excel` saves without an active row: the template with its own rows.

Abstracted: position values are already normalised; the other cells of a row,
colours and counts; what the parser extracts is arbitrary (any rows, any
positions), which includes every way the stages between parser and reconciler
can lose rows.

### Workspace, MCWorkspace

The hook `useJobPipeline`, the page around it, the query client, and the server
as far as requests meet it. `jobId` and `shown` are the two `useState`s of the
hook, `status` and `results` the data of its two queries, `statusFetch` and
`resultFetch` their fetches in flight, `requests` and `answers` the mutations on
their way, `pending` what each `useMutation` reports (`reset` forgets it, the
callback still runs), `deaf` the requests whose component was unmounted. A
result is the job and the number of changes stored for it. The actions are the
handlers (`Upload`, `Retry`, `SaveEdits`, `ExcludeRows`, `NewUpload`), opening,
following a link and leaving; the timer and the steps of each fetch; the effect
that shows a result (`ShowResult`); the `onSuccess` callbacks (`Deliver`); the
server's handlers; purges, ageing and collection of cached data. The server here
is the service of `JobContract`, reduced to the status and the version of a job.

### ReviewSession, ReviewQueue, GridSelection, ReviewPage, MCReview

Three modules on one table. `ReviewSession` has the audit on the server (`cells`,
`excluded`), the result the table was given (`resultCells`), the optimistic
`grid`, the `pendingEdits`, and one save and any number of exclusions that may be
out together; `SaveDone` and `ExclusionDone` replace the result and reset the
pending edits. The buttons of the toolbar wait for the exclusion before, the
Delete key (`review-grid.tsx:342`) does not, so `exclusions` and
`exclusionAnswers` are sets, served and answered in any order; requests are
refused, and the answers to changes that were stored may be lost. `patient` says
whether the reviewer waits for answers; `changes`, `resultChanges` and `inOrder`
are bookkeeping of which answer the table shows. `ReviewQueue` has layout, filter,
focus and the keys N and A: displayed rows and columns, and a filter that is
applied again only at certain events. Columns stand as `columnDefs` orders them:
required ones pinned to the left, then by Excel column, and those without one (a
result without a template) as they are listed. Nobody drags columns or sorts rows
by hand. The loops of `focusNextOpen` are the set of cells they come to
(`IsSearched`), and the first of them in reading order that is open
(`ReadBefore`). `GridSelection` has drags over the cells, the selection mode, the
checked rows and answers, each of any moment, that take rows away, bring them back
or end the mode. `ReviewPage` puts the three together.

### The other pages: Pages, MCPages

- `LoginThrottle`: `RateLimiter` and `LoginLockout` of `core/rate_limit.py` under
  the login handler, with a clock and success. Attempts outside the window are
  dropped by the next request; the clean-up of whole buckets is not an action.
- `LoginSession`: guard, login page, logout, expiry, and the cached query
  `["auth-me"]` that the login page does not touch.
- `SettingsEditor`: the editors of the settings page over documents that are
  refetched after every write. A document is where its text was taken from and a
  stamp. `careful` says whether the admin waits until the page is settled; the
  other one may use the editors `Hasty` at any moment (`MaxHasty` bounds his writes
  and failures). A write may be refused, a reload too, and its answer may be lost.
  `blind` remembers that a text was saved before the stored one had been shown.
- `JobList`: the list page and the dashboard over one table; the three query
  keys are cached separately. A mutation is done, refused (404), or fails with or
  without its change; no mutation handles an error, so after a lost answer the
  lists stay as they were, and `unheard` holds those not fetched since.
- `UploadForm`: the checks of the form and of `POST /api/upload` side by side.
- `Statistics`: the aggregates of `routes/stats.py`, each of its own moment.
- `SourcePane`: page, highlight, scale and fall back of the PDF pane.

`Pages` and `ReviewPage` are sums of their parts: the parts share no variable in
the code either (they are on different pages, or on different states of one),
so a behaviour chooses one of them at the start and lets it run while the others
stand still; the state space is the sum of the parts', not their product. Each
EXTENDS one of its parts (`LoginThrottle`, `ReviewSession`) and has INSTANCEs of
the others. Their properties are those of the part that runs. Parts at rest are
put into a state in which nothing that fairness asks for is enabled. In `Pages`
the workspace runs too, for its liveness and for failing requests. `MCPages` and
`MCReview` only give the constants their values.

### The proof modules

`JobLifecycleProofs`, `CompletenessProofs`, `WorkspaceProofs`, `JobListProofs`,
`SettingsEditorProofs` and `GridSelectionProofs` EXTEND the module they are named
after. `ReviewProofs` EXTENDS `ReviewPage`, and `PagesProofs` EXTENDS `Pages`; both
begin with proofs about their parts, and end with theorems about the whole. A part
whose proofs are a module of their own is instantiated through it (`List ==
INSTANCE JobListProofs`), so that its theorems can be cited of the instance
(`List!ListCurrent`); such a module adds theorems and inductive invariants to its
component, and nothing to its behaviour.

Definitions commented "VARIANT of X" are deliberately wrong forms of X: the
mistakes the properties are there to catch. No specification uses them;
`PROJECT.json` ("mutants") says which property each of them breaks.

## 3. The runs

| run | instance | what it shows |
|---|---|---|
| `jobs` | 2 jobs, 2 workers, 1 restart, 1 retry, 1 failing SQL statement; 81,773 states | seven invariants, two action properties, and the refinement of `JobContract` |
| `jobs_settle` | 2 jobs, 1 worker, same bounds, with fairness and without symmetry; 146,037 states | every job in flight settles |
| `purge` | 1 job | finding: purging a running job leaves its workbook |
| `completeness` | 3 rows, 2 positions, 2 bands, 1 extracted row, counts up to 2, 1 exit; 53,944 states | the guard, the net and the review |
| `corrections` | no crash | finding: a logged correction that is not persisted |
| `empty_export` | no crash | finding: the template's sample rows are exported |
| `occurrences` | 1 position | finding: N unread occurrences become one row |
| `workspace` | 2 jobs, one of them new, 2 mutations, a purge, a user who waits; 1,775,627 states | the table is that of the open job and shows what is stored; "completed" is never wrong |
| `workspace_back` | the same, a user who goes back while a request is out | finding: changes reach the wrong job |
| `review` | 2 cells and 3 requests; a 2 by 2 queue, with and without a template; a 2 by 2 selection; 1,250,286 states | edits, the queue of open cells, drags and checked rows |
| `review_lost_edit` | the first of these, any reviewer | finding: an answer drops edits that were not sent |
| `pages` | nine parts, one runs; 478,228 states, with fairness | the login limits, and what every other page shows, keeps and waits for |

Why these bounds: two jobs and two workers are what the races need (two workers
on one job, one job twice in the queue, a second job behind a purged one); one
restart reaches every crash point, since recovery leaves nothing in memory; one
retry meets a run that failed in each way. In `completeness`, three rows hold an
extracted row together with both kinds of synthetic row, two positions allow an
edit from one expected position to another, two bands a lost and a found one.
Rows, positions, bands, jobs and workers are interchangeable, so the safety runs
use symmetry; the liveness run does not.

In the browser, two jobs are what "the other job" needs, two mutations what
"overtakes" needs (in `review` three: a save and two exclusions, or one made with
what the others answered). In `pages`: two catalogs and two writes (write one,
load the other), of which the hasty admin makes one, in the JSON editor, where the
effect, the choice of a catalog and the save meet; three jobs on pages of two (a
last page that empties, one that does not), one of them archived at first in the
list of the patient user, so that two changes reach a restore and a purge; sizes
at and beside the limit of an upload; three pages of two widths; two logins with
an expiry between them; three attempts in a window of two ticks, two failures
before a lock of three. `MCWorkspace` has failing status requests without bound;
failing mutations and results are in the workspace of `pages`.

Deadlock: checked in `completeness`; the other runs, whose bounds end every
behaviour, say `CHECK_DEADLOCK FALSE`.

What the main properties say:

- `PositionMatchesQueue`, `NeverRunTwice`, `InFlightIsOwned`, `OwnedIsInFlight`:
  a job in flight has exactly one owner, whatever is retried, purged, timed out
  or restarted. The exception is named: a job whose failure could not be stored
  is `stranded` until the next start.
- `ResultIsComplete`, `SourceOutlivesRow`: what the routes rely on.
- `UserCustomerKept`, `ProgressNeverFalls`: the runner works on the job as it
  was read before its awaits and may not let an older value win.
- `ImplementsContract`: the refinement.
- `PipelineNeverRefused`, `ExclusionNeverRefused`: the guard never refuses what
  it should accept. `NothingLostSilently`: it never accepts what it should
  refuse. `WorkbookMatchesAudit`: a refused review changes nothing.
- `ViewIsOfOpenJob`, `ShownIsStored`, `CompletedIsFinal`: what the browser shows
  of a job, under answers in any order.
- `ConfirmedIsBacked`: a cell that looks confirmed is stored or pending, for any
  reviewer, however answers overtake each other. `ViewIsCurrent`: the table at rest
  is the stored audit unless an answer was lost or overtaken, and a patient reviewer
  sees his pending edits. `NoEditLost`: one who waits for answers and saves before
  taking rows out loses nothing.
- `SkipsNothing`, `NoOpenCellHidden`: the key N, the column density and the
  review filter leave no open cell behind.
- `SelectionIsSeen`: nothing is selected, and confirmed later, that was not marked
  on the screen, whatever answers come in the middle of a drag.
- `WindowBound`, `FailuresBounded`: the limits of the login in every window,
  although buckets are pruned and locks removed.
- `OwnContent`: for any admin, no document is written over another, unless he saves
  before the text of what he selected is shown. `TypedTextKept`: for one who waits
  for the page, nothing typed is lost.
- `PagesAreTrue`: what a page says is true of what the server has stored, answered
  or was sent. A settled settings page shows what is stored to an admin who
  waits, and a settled list and dashboard show the jobs there are to a user who acts
  alone, unless the answer to a change was lost; the charts of the statistics miss
  no month and no customer of a job that was completed all the time, although their
  four answers are of four moments; the form
  sends the file it shows, and takes every ordinary one.
- `AggregatesAgree`: at every moment the months and the customers of the statistics
  count the completed jobs of the overview, each once.
- `PagesHoldTheList`, `PurgedWasArchived`, `HighlightAligned`: the pages of a list
  partition it while jobs disappear; the purge of a user who acts alone on settled
  lists meets an archived job, unless the answer to a change was lost; the highlight
  on a loaded page has the scale of that page.
- `WaitingEnds`: statistics, source pane, login and an open job come up, or say
  why not.

### Fairness

`JobLifecycle!Fairness`: weak fairness of an idle worker taking the head of the
queue (the event loop runs ready tasks), of the timeout of a busy worker
(`asyncio.wait_for` with a finite limit), and of the start of a stopped server
(the restart policy of the container). No fairness of users, of the LLM or of a
stage returning is assumed: that jobs settle rests on the timeout alone.

`Pages!PagesSpec`: weak fairness of answers, effects and timers of the part
that runs: the browser's event loop runs what is ready, and a request is answered
or fails at its own timeout. `Workspace!Fairness` adds that the server settles a
job that exists (this is `EveryJobSettles`, checked in `jobs_settle`), and, since
a status request may fail any number of times, strong fairness of its being
answered: a network that never delivers one status is a page that never settles.
The user owes nothing.

### Findings

1. `PurgeRemovesExport`: `routes/jobs.py` purges a job that is being processed;
   the worker's updates hit no row and its workbook is written afterwards.
2. `EveryCorrectionApplied`: `update_cells` logs corrections before the guard
   may refuse the export.
3. `NoSampleRows`: `export_to_excel` without an active row returns before
   `_clear_data_rows`; `config/target_template.xlsx` contains an example order.
4. `EveryOccurrenceVisible`: a position read N times and not extracted at all
   gets one synthetic row.
5. `ChangesReachTheirJob`: `use-job-pipeline.ts:89` sets the result of a saved
   edit whatever job is open by then. Save, go back, open another job: the old
   table appears under the new identifier, and the next edits go to the new job.
6. `EditsKept`: the effect at `result-table.tsx:155` drops the pending edits when
   any result arrives, also the answer to an earlier save or an exclusion of the
   same job.

Seen while modelling, and in the models as they are in the code, but without a
run of their own:

- After a retry the cached status is still "failed", at which polling stops; the
  page shows the failure until the query is fetched for another reason
  (`use-job-pipeline.ts:55`). `OpenJobSettles` therefore counts a shown failure as
  settled.
- A result cached earlier is shown at once and copied into the state; the refetch
  behind it is not looked at (`use-job-pipeline.ts:83`). The view is then an older
  version, though a stored one (`ShownIsStored`).
- The counter of open cells falls at every edit, also the second of the same cell
  (`result-table.tsx:181`).
- A and N: the cell that is confirmed is the one last clicked or jumped to, not
  the one the arrow keys have moved to (`result-table.tsx:261`).
- Selecting a second source on a page does not turn back to that page, since the
  effect depends on the page number (`result-table.tsx:174`).
- `.xls` passes the form and is refused by the server (`upload-dropzone.tsx:22`,
  `routes/upload.py:64`); `.xlsm` the other way round.
- Any error of the session query leads to the login page, also one of the network
  (`lib/use-auth.ts:27`).
- Failures before a lock never expire, although `rate_limit.py:58` speaks of
  failures "within the current lockout window"; the limit is stricter than said.
- The overview counts corrections of archived and purged jobs
  (`routes/stats.py:81`), and all corrections without a known job go to the
  customer "Unbekannt".
- An admin who types while a write or a fetch is out may lose what he typed
  (`einstellungen/page.tsx:254`, `:211`).
- The JSON editor can write one catalog over another: the save button waits for
  writes only (`einstellungen/page.tsx:532`), and until the text of the chosen
  catalog has arrived the field shows the one before. The file as it was is kept
  next to it (`_atomic_write` of `routes/settings.py`). `OwnContent` says that
  this is the only way; `blind` marks it.
- The answer to an archive, restore or purge may be lost: only `onSuccess`
  invalidates the lists and no error is shown (`stuecklisten/page.tsx:68-79`), so
  the list stays as it was, and after a restore goes on offering the purge of a
  job that is no longer archived, which the server does not look at.
  `ListIsCurrent` and `PurgedWasArchived` except the lists not fetched since
  (`unheard`).
- A user who purges from a list that another user has changed may purge a restored
  job. The properties about lists are about a user who is alone; the model has
  others too (`Patient`).

## 4. What is proved

Every safety property of a passing run is a theorem, and so are its action
properties and the refinement; of the properties that the code does not have
(findings 1, 4, 5 and 6) the part that holds is one.

Assumptions: the named ASSUMEs of the modules only. Sentinels are not identifiers;
bounds are naturals; sets of rows, positions and bands are finite; jobs, displayed
rows and pages of a document are numbered from 1; customers and rates have ranks;
the columns of the sheet are sequences of letters. Jobs, workers, rows, columns,
tables and all bounds are otherwise arbitrary. No assumption is about an operator
of the models.

**Induction over data.** The induction theorems of the library take an operator,
which no backend can instantiate. Where a proof needs induction, the induction
hypothesis is a set instead: `Counting` (a set of naturals with 0 and every
successor is `Nat`, from the well-foundedness of `<`) and `GrowingSets` (the same
for the subsets of a finite set). The folds of the community modules are functions
defined by recursion over sets; that such a function exists is such an induction
(`SumsExist`, `DigitsExist`), and what it computes follows from its equation.

**Job life cycle.** `LifecycleInv` is the inductive invariant. Beyond the safety
properties it needs four facts: a stopped server has nothing in memory
(`VolatileIsLost`; otherwise recovery could meet a queued job), only issued
identifiers are known and a missing row has left no trace (`KnownIsIssued`;
otherwise an upload could meet its own remains), a running worker agrees with
its row (`RunMatchesRow`; the progress bounds that make later stages increase),
and pending jobs have no progress (`PendingIsFresh`). `TypeCorrect` is proved
first; then one lemma per group of actions shows that it preserves the rest.
`CustomerKept` and `ProgressMonotone` are action properties from the invariant;
so is `CompletedPurgeFinal`: a completed job has no worker and a recorded workbook,
so its purge leaves nothing, and what nobody runs and has no row is not written
again (finding 1 is a job purged earlier).
`Refinement` maps each action to a step of the contract or a stutter: rows give
the state, a missing row of an issued identifier is "gone", and a completed job
is downloadable because `ResultIsComplete` keeps its workbook.

**Completeness.** The central fact is `GuardIsExact`: whichever rows are
excluded, the guard passes exactly when the rows, excluded or not, carry
everything expected. Hence exclusions never matter to it, `Carried` is preserved
by every review, and with it `ExportSucceeds`, `ExclusionsPass`, `NoSilentLoss`
and `WorkbookFaithful` follow. `Carried` is established by the coverage net
(`ScoreHolds`) without help from the reconciler's synthesis, except when rows
are only counted. What the reconciler adds is the subject of `ExtractedAreComplete`:
the extracted rows stay, and their positions are filled up to the number read in the
source; finding 4 is about the positions that were not extracted at all.

**Login limits.** `ThrottleInv`: whatever a window that is still to come could
count is still remembered (`RecentIsRemembered`), and the failures of a user are
within his counter or older than a lockout (`FailuresCounted`). From these,
`AttemptsBounded` and `GuessesBounded` follow for any limits and any clock steps.

**Review session.** `BackedInv` relates grid, pending edits and the answers under
way: every cell that is confirmed by hand has its edit pending, or its
confirmation stored, and every answer carries it. It needs no assumption about the
reviewer, and holds for any number of exclusions whose answers overtake each
other. `OrderInv` counts changes: as long as answers have come in their order, the
changes the table has not taken in are exactly those whose answers are still on
their way, so that with nothing out the table is the audit (`TableShowsTheAudit`,
for every reviewer). `PatientInv` adds for a patient one what he has pending and
sent (`PatientLosesNothing`).

**Review queue.** `QueueInv`: the column of an open cell has content (so the
density of the columns does not hide it), and the row of every open cell that
passes the user's own filters is displayed. It is inductive because cells only
cease to be open between two applications of a filter, and an application looks at
the cells again. `SkipsNothing` rests on three facts about numbers that the module
proves first: displayed rows and positions correspond one to one and in order
(`RankRises`, `RankTaken`), every nonempty set of candidates has a first one in
reading order (`FirstCandidate`: the least row, and in it the leftmost field), and
the search comes to every cell after the focus (`StopsAtFirst`). It holds also
when the column of the focus is no longer displayed. `QueueIsReadInOneOrder` says
that the search has no choice: pinned columns come first, `excelColIndex`,
computed letter by letter from the left (`IndexOfPrefixes`), is a natural number
(`IndexIsNat`), and of equal ones the place in the array decides; so some column
is leftmost (`LeftmostField`) and of two cells exactly one is read first
(`ReadOneByOne`).

**Workspace.** `Types` has two facts beyond types: answers that are no refusals
speak of stored jobs in stored versions (`RequestsNamed`), and only existing jobs
are opened (`JobsExist`). With them `ShownResultsAreStored` and
`CompletedStaysTrue` hold for every user. `PatientViewIsOfOpenJob` assumes
`BackWhileBusy = FALSE`; its invariant `FocusInv` adds that requests are numbered
and out once (`NumberedOnce`) and that, of the requests the page still listens
to, an upload means that no job is open and a change that its job is open
(`OwnJob`). For the same user `PatientChangesReachTheirJob`: a change is sent to the
open job, from the table of that job. Run `workspace_back` shows that the assumption
is needed.

**Selection.** `SelectionInv` is inductive as it stands: types, the selection lives
only in its mode, a drag shows one rectangle over the rows that were there when the
pointer last moved, whatever answers come in between. `RectangleIsBetween` says that
`rectangleKeys` takes the displayed cells between two corners, whichever corner
comes first.

**Settings page.** `OwnInv`: what is cached, on its way, in an editor whose effect
has run, or in a write that is out, is a text of its own document; it holds for
every admin as long as no text has been saved before the stored one was shown
(`blind`), and gives `CatalogsKeepTheirContent`. A save between the choice of a
catalog and the arrival of its data would send the old text, and the code allows
it. `CarefulInv`, for an admin who waits for the page (`careful`), adds that he is
never blind, that what is typed was typed over a shown text (`TypedWasShown`),
that stamps only grow on the way from the file through fetch and cache to the
editor (`StampsRise`), that nothing is fetched while a write is out
(`QuietWrites`), and that data which are not what is stored are marked, and
fetched while they are on the page (`StaleIsMarked`). With it `TypedTextIsKept`
and `SettledPageIsCurrent` hold.

**Job list.** `ListIsPaged` follows from the types: the comparison of each sort
key is a strict total order (`BeforeOrders`), so the indices of the rows are the
numbers from 0 on, one each (`IndicesAreRows`), and division by the size of a page
puts each on one page, of which there are enough. `ListCurrent`,
`DashboardCurrent` and `PurgeOfArchived` are about a user who acts on settled
lists, with nobody else at work (`Patient = TRUE`), and about lists fetched since
the answer to a change was lost, if one was. Their `PatientInv`: one query is
fetched at a time (`OneFetch`); an answer under way agrees with the table on which
jobs there are and which are archived (`AnswersAgree`); what is cached agrees too
unless it is marked stale, or older than a change whose answer was lost
(`DataAgree`), and stale data that are mounted are being fetched
(`StaleIsFetched`); a purge that is out names an archived job (`PurgeIsSafe`).
That the counters of the dashboard add up to its jobs is a sum of three disjoint
sets (`CountersAddUp`).

**Smaller pages** (in `PagesProofs`). Statistics: types, among them that a query
still loading is on its way; and that what has loaded misses no job completed all
the time (`ChartsHold`), from which `ChartsComplete` follows by the branches of
the page. Its aggregates are folds over months and over customers; both are sums
(`FoldsAreSums`), and a sum of counts by a key counts every job once
(`CountedByKey`), so they agree with the overview (`StatsAgree`). Form
(`FormInv`): what was sent is what is shown while it is out, and the checks of the
form imply the checks the server makes of an ordinary file. Source pane
(`PaneInv`): the width that scales the highlight is that of the page loaded last,
so that a highlight is drawn on its page only, and in its scale. Login pages:
types.

**The sums.** A step of `Pages` or `ReviewPage` is a step of the part that runs, and
leaves the variables of the others (`OnePart`). Hence a behaviour of the sum is one
of the component wherever it is that part's turn (`SettingsRuns`, `ListRuns`, ...;
in `ReviewPage` always, `PartsRun`), and the theorems of the components carry over
to the properties the runs check: `PagesTypes`, `PagesOwnContent`,
`PagesKeepTypedText`, `PagesTellTheTruth`, `PagesArePaged`, `PagesPurgeArchived`,
`PagesHighlight`, `PagesAggregatesAgree`; `PageTypes`, `QueueHidesNoWork`,
`QueueIsReadInOneOrder`, `NextKeySkipsNothing`,
`PageSelectionIsSeen`. In `Pages` the list part is that of a patient user, as in the
run; the
paged part has a list with every kind of user.

Model-checked only:

- the liveness properties (`EveryJobSettles`, `WaitingEnds`): fairness and ENABLED
  are out of the prover's reach;
- the findings, which are counterexamples.

## 5. What is not modelled, and why

- **Scoring, GREEN gate, value comparison, transformation, mapping**: decisions
  and string algorithms over PDF text and LLM answers. The models abstract these
  data; what matters of their outcome to the rest (which rows and positions there
  are, that a stage may fail or take for ever) is arbitrary in `Completeness` and
  `JobLifecycle`.
- **Counter-checks, LLM client, ingestion waves**: concurrency inside one awaited
  stage around external calls. `JobLifecycle` takes any progress and any failure
  of a stage; the caches and tasks within are not modelled (hazards without a
  property in `PROJECT.json`).
- **Settings handlers in the thread pool**: `SettingsEditor` has one admin and one
  step per write; two interleaving writes, and the catalogs cached by
  `config_loader`, are not modelled.
- **Result builder, sidebar, top bar, badges, counters' markup, styling, logging,
  scripts, demo data**: no state of their own.
- **Grid library**: undo, clipboard, column widths and sorting inside ag-grid are
  external; focus and filters are modelled as the code uses them.
- **Browser history and reloads**: a reload is a new browser (a new initial
  state); going back into the application is opening a page.
