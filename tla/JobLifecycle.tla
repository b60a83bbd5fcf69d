---------------------------- MODULE JobLifecycle ----------------------------
(***************************************************************************)
(* The job service: the SQLite job store (job_store.py), the in-process    *)
(* job queue and its worker tasks (job_queue.py), the pipeline each worker *)
(* runs (pipeline_runner.py), and the HTTP handlers that create, retry,    *)
(* archive, restore and purge jobs (routes/upload.py, routes/jobs.py).     *)
(*                                                                         *)
(* Everything runs on one asyncio event loop.  A handler, and a stretch of *)
(* the pipeline between two awaits, is therefore one action.  The process  *)
(* may be killed at any time, also between two durable writes of one       *)
(* stretch: those are the Interrupted actions.  Store rows and files       *)
(* survive, the queue and the workers do not.                              *)
(***************************************************************************)
EXTENDS SequencesExt

CONSTANTS
    Jobs,              \* job identifiers (uuid4, never issued twice)
    Workers,           \* the worker tasks; their number is JOB_CONCURRENCY
    NoJob,             \* not a job identifier
    MaxRestarts,       \* bound: process exits
    MaxRetries,        \* bound: retry requests that succeed
    MaxStoreErrors     \* bound: SQLite statements that raise

ASSUME NoJobAssumption == NoJob \notin Jobs
ASSUME BoundsAssumption ==
    /\ MaxRestarts \in Nat
    /\ MaxRetries \in Nat
    /\ MaxStoreErrors \in Nat

VARIABLES
    \* the jobs table, by column
    status,            \* "none" for a job without a row
    progress,          \* in tenths
    customer,          \* "unset", "user" (typed in at upload), or "inferred" by parsing
    withError,         \* jobs whose error column is set
    withAudit,         \* jobs whose audit column is set
    withExportPath,    \* jobs whose export_path column is set
    archived,          \* jobs whose deleted_at column is set
    \* the data directory
    uploadFile,        \* jobs whose source file is in data/uploads
    exportFile,        \* jobs whose workbook is in data/exports
    \* the server process
    server,            \* "up" or "down"
    queue,             \* asyncio.Queue of job identifiers
    pending,           \* JobQueue._pending, the list behind queue_position
    stage,             \* [Workers -> Stages]: what each worker task awaits
    running,           \* [Workers -> Jobs \cup {NoJob}]: the job it runs
    snapshot,          \* [Workers -> Customers]: the customer it runs it for
    \* bookkeeping of the model
    issued,            \* identifiers handed out so far
    stranded,          \* jobs in flight whose failure could not be stored
    restarts, retries, storeErrors      \* counters for the bounds

otherColumns == <<customer, withAudit, withExportPath, archived>>
table == <<status, progress, withError, otherColumns>>
files == <<uploadFile, exportFile>>
waiting == <<queue, pending>>
workers == <<stage, running, snapshot>>
counters == <<restarts, retries, storeErrors>>
vars == <<table, files, server, waiting, workers, issued, stranded, counters>>

-----------------------------------------------------------------------------
(* The jobs table.                                                         *)

Statuses == {"none", "pending", "processing", "completed", "failed"}
Customers == {"unset", "user", "inferred"}

Exists(j) == status[j] # "none"
InFlight(j) == status[j] \in {"pending", "processing"}

\* UPDATE jobs SET column = v WHERE job_id = j: without a row, silently nothing
Set(column, j, v) == [column EXCEPT ![j] = IF Exists(j) THEN v ELSE @]
Mark(column, j) == IF Exists(j) THEN column \cup {j} ELSE column

\* JobStore.create
Create(j, c) ==
    /\ status' = [status EXCEPT ![j] = "pending"]
    /\ customer' = [customer EXCEPT ![j] = c]
    /\ UNCHANGED <<progress, withError, withAudit, withExportPath, archived>>

\* JobStore.purge
Delete(j) ==
    /\ status' = [status EXCEPT ![j] = "none"]
    /\ progress' = [progress EXCEPT ![j] = 0]
    /\ customer' = [customer EXCEPT ![j] = "unset"]
    /\ withError' = withError \ {j}
    /\ withAudit' = withAudit \ {j}
    /\ withExportPath' = withExportPath \ {j}
    /\ archived' = archived \ {j}

\* VARIANT of MarkFailed: the failure is stored without its message.
MarkFailedWithoutError(j, p) ==
    /\ status' = Set(status, j, "failed")
    /\ progress' = Set(progress, j, p)
    /\ UNCHANGED <<withError, otherColumns>>

\* _mark_job_failed, and the early returns of _run_inner, at progress p
MarkFailed(j, p) ==
    /\ status' = Set(status, j, "failed")
    /\ progress' = Set(progress, j, p)
    /\ withError' = Mark(withError, j)
    /\ UNCHANGED otherColumns

\* VARIANT of RecoverOrphanedJobs: only running jobs are taken for orphans.
RecoverRunningJobs ==
    /\ status' = [j \in Jobs |-> IF status[j] = "processing" THEN "failed" ELSE status[j]]
    /\ withError' = withError \cup {j \in Jobs : status[j] = "processing"}
    /\ UNCHANGED <<progress, otherColumns>>

\* JobStore._recover_orphaned_jobs
RecoverOrphanedJobs ==
    /\ status' = [j \in Jobs |-> IF InFlight(j) THEN "failed" ELSE status[j]]
    /\ withError' = withError \cup {j \in Jobs : InFlight(j)}
    /\ UNCHANGED <<progress, otherColumns>>

-----------------------------------------------------------------------------
(* The queue and the worker tasks.                                         *)

Stages == {"idle", "parsing", "mapping", "scoring"}

Busy(w) == stage[w] # "idle"
RunBy(w, j) == Busy(w) /\ running[w] = j
Queued(j) == \E i \in 1 .. Len(queue) : queue[i] = j

Init ==
    /\ status = [j \in Jobs |-> "none"]
    /\ progress = [j \in Jobs |-> 0]
    /\ customer = [j \in Jobs |-> "unset"]
    /\ withError = {}
    /\ withAudit = {}
    /\ withExportPath = {}
    /\ archived = {}
    /\ uploadFile = {}
    /\ exportFile = {}
    /\ server = "up"
    /\ queue = <<>>
    /\ pending = <<>>
    /\ stage = [w \in Workers |-> "idle"]
    /\ running = [w \in Workers |-> NoJob]
    /\ snapshot = [w \in Workers |-> "unset"]
    /\ issued = {}
    /\ stranded = {}
    /\ restarts = 0
    /\ retries = 0
    /\ storeErrors = 0

\* VARIANT of Submit: the list behind queue_position grows at the other end.
SubmitAtFront(j) ==
    /\ pending' = <<j>> \o pending
    /\ queue' = Append(queue, j)

\* JobQueue.submit
Submit(j) ==
    /\ pending' = Append(pending, j)
    /\ queue' = Append(queue, j)

\* JobQueue._worker up to the call of the runner
TakeNext(w, j) ==
    /\ server = "up"
    /\ ~Busy(w)
    /\ queue # <<>>
    /\ j = Head(queue)
    /\ queue' = Tail(queue)
    /\ pending' = RemoveFirst(pending, j)

\* VARIANT of Release: the worker forgets its job but not its stage.
ReleaseJobOnly(w) ==
    /\ running' = [running EXCEPT ![w] = NoJob]
    /\ snapshot' = [snapshot EXCEPT ![w] = "unset"]
    /\ UNCHANGED stage

\* The worker goes back to the queue.
Release(w) ==
    /\ stage' = [stage EXCEPT ![w] = "idle"]
    /\ running' = [running EXCEPT ![w] = NoJob]
    /\ snapshot' = [snapshot EXCEPT ![w] = "unset"]

\* One SQLite statement raises.
StoreRaises ==
    /\ storeErrors < MaxStoreErrors
    /\ storeErrors' = storeErrors + 1
    /\ UNCHANGED <<restarts, retries>>

\* The process exits: the queue, the workers and their awaits are gone.
Exit ==
    /\ server = "up"
    /\ restarts < MaxRestarts
    /\ restarts' = restarts + 1
    /\ server' = "down"
    /\ queue' = <<>>
    /\ pending' = <<>>
    /\ stage' = [w \in Workers |-> "idle"]
    /\ running' = [w \in Workers |-> NoJob]
    /\ snapshot' = [w \in Workers |-> "unset"]
    /\ UNCHANGED <<retries, storeErrors>>

Strand(j) == stranded' = IF Exists(j) THEN stranded \cup {j} ELSE stranded

-----------------------------------------------------------------------------
(* The HTTP handlers.                                                      *)

\* upload_file: write the file, create the row, enqueue
Upload(j, c) ==
    /\ server = "up"
    /\ j \notin issued
    /\ issued' = issued \cup {j}
    /\ uploadFile' = uploadFile \cup {j}
    /\ Create(j, c)
    /\ Submit(j)
    /\ UNCHANGED <<exportFile, server, workers, stranded, counters>>

\* upload_file when JobStore.create raises after the file was written
UploadUnrecorded(j) ==
    /\ server = "up"
    /\ j \notin issued
    /\ StoreRaises
    /\ issued' = issued \cup {j}
    /\ uploadFile' = uploadFile \cup {j}
    /\ UNCHANGED <<table, exportFile, server, waiting, workers, stranded>>

\* upload_file when the process exits between the file and the row
UploadInterrupted(j) ==
    /\ j \notin issued
    /\ Exit
    /\ issued' = issued \cup {j}
    /\ uploadFile' = uploadFile \cup {j}
    /\ UNCHANGED <<table, exportFile, stranded>>

\* VARIANTS of Retryable: a retry of whatever is in flight, or of whatever settled.
RetryableInFlight(j) == InFlight(j) /\ j \in uploadFile
RetryableSettled(j) == status[j] \in {"completed", "failed"} /\ j \in uploadFile

\* retry_job: 404 without a row, 409 unless failed, 410 without the source file
Retryable(j) == status[j] = "failed" /\ j \in uploadFile

\* JobStore.update as retry_job calls it
Requeue(j) ==
    /\ status' = Set(status, j, "pending")
    /\ progress' = Set(progress, j, 0)
    /\ withError' = withError \ {j}

Retry(j) ==
    /\ server = "up"
    /\ Retryable(j)
    /\ retries < MaxRetries
    /\ retries' = retries + 1
    /\ Requeue(j)
    /\ Submit(j)
    /\ UNCHANGED <<otherColumns, files, server, workers, issued, stranded,
                   restarts, storeErrors>>

\* delete_job without purge, and restore_job
Archive(j) ==
    /\ server = "up"
    /\ Exists(j)
    /\ archived' = archived \cup {j}
    /\ UNCHANGED <<status, progress, withError, customer, withAudit,
                   withExportPath, files, server, waiting, workers, issued,
                   stranded, counters>>

Restore(j) ==
    /\ server = "up"
    /\ Exists(j)
    /\ archived' = archived \ {j}
    /\ UNCHANGED <<status, progress, withError, customer, withAudit,
                   withExportPath, files, server, waiting, workers, issued,
                   stranded, counters>>

\* delete_job?purge=true: delete the row, then the files the row named
Purge(j) ==
    /\ server = "up"
    /\ Exists(j)
    /\ Delete(j)
    /\ uploadFile' = uploadFile \ {j}
    /\ exportFile' = IF j \in withExportPath THEN exportFile \ {j} ELSE exportFile
    /\ stranded' = stranded \ {j}
    /\ UNCHANGED <<server, waiting, workers, issued, counters>>

\* VARIANT of PurgeInterrupted: the files are removed before the row.
PurgeFilesFirst(j) ==
    /\ Exists(j)
    /\ Exit
    /\ uploadFile' = uploadFile \ {j}
    /\ UNCHANGED <<table, exportFile, issued, stranded>>

\* delete_job?purge=true when the process exits after the row, or after the
\* row and the source file
PurgeInterrupted(j) ==
    /\ Exists(j)
    /\ Exit
    /\ Delete(j)
    /\ \E removed \in {{}, {j}} : uploadFile' = uploadFile \ removed
    /\ stranded' = stranded \ {j}
    /\ UNCHANGED <<exportFile, issued>>

-----------------------------------------------------------------------------
(* run_pipeline.  A worker awaits in parse_file ("parsing"), map_columns   *)
(* ("mapping") and score_bom_async ("scoring"); the code between them does *)
(* not give up the event loop.                                             *)

\* The row is gone by the time the worker gets to it: run_pipeline returns.
SkipPurged(w, j) ==
    /\ TakeNext(w, j)
    /\ ~Exists(j)
    /\ UNCHANGED <<table, files, server, workers, issued, stranded, counters>>

\* Store "processing", initialise the LLM, start parse_file on the job as read.
Begin(w, j) ==
    /\ TakeNext(w, j)
    /\ Exists(j)
    /\ status' = Set(status, j, "processing")
    /\ progress' = Set(progress, j, 1)
    /\ stage' = [stage EXCEPT ![w] = "parsing"]
    /\ running' = [running EXCEPT ![w] = j]
    /\ snapshot' = [snapshot EXCEPT ![w] = customer[j]]
    /\ UNCHANGED <<withError, otherColumns, files, server, issued, stranded,
                   counters>>

\* "processing" cannot be stored, or the LLM cannot be initialised.
BeginFails(w, j) ==
    /\ TakeNext(w, j)
    /\ Exists(j)
    /\ \E p \in {progress[j], 1} : MarkFailed(j, p)
    /\ UNCHANGED <<files, server, workers, issued, stranded, counters>>

\* job_store.get raises, outside the try of run_pipeline, and the worker logs it;
\* or the start fails and that failure cannot be stored either.
BeginUnrecorded(w, j) ==
    /\ TakeNext(w, j)
    /\ StoreRaises
    /\ \/ UNCHANGED <<status, progress>>
       \/ /\ status' = Set(status, j, "processing")
          /\ progress' = Set(progress, j, 1)
    /\ Strand(j)
    /\ UNCHANGED <<withError, otherColumns, files, server, workers, issued>>

\* VARIANT of ParseProgress: the callback reports the page's number, not a count.
ParseProgressByPage(w) ==
    /\ stage[w] = "parsing"
    /\ \E p \in 1..3 : progress' = Set(progress, running[w], p)
    /\ UNCHANGED <<status, withError, otherColumns, files, server, waiting,
                   workers, issued, stranded, counters>>

\* _progress_cb, after a page: 0.1 + 0.2 * done / total
ParseProgress(w) ==
    /\ stage[w] = "parsing"
    /\ \E p \in 2..3 : /\ p > progress[running[w]]
                       /\ progress' = Set(progress, running[w], p)
    /\ UNCHANGED <<status, withError, otherColumns, files, server, waiting,
                   workers, issued, stranded, counters>>

\* VARIANT of CustomerOf: what parsing found wins.
InferredCustomerOf(w, inferred) ==
    IF inferred # "unset" THEN inferred ELSE snapshot[w]

\* The customer of the job as read has priority over the inferred one.
CustomerOf(w, inferred) ==
    IF snapshot[w] # "unset" THEN snapshot[w] ELSE inferred

\* parse_file returns headers and rows.
Parsed(w, inferred) ==
    LET c == CustomerOf(w, inferred) IN
    /\ stage[w] = "parsing"
    /\ progress' = Set(progress, running[w], 3)
    /\ customer' = Set(customer, running[w], c)
    /\ stage' = [stage EXCEPT ![w] = "mapping"]
    /\ snapshot' = [snapshot EXCEPT ![w] = c]
    /\ UNCHANGED <<status, withError, withAudit, withExportPath, archived, files,
                   server, waiting, running, issued, stranded, counters>>

\* map_columns returns a mapping; validation, transform, reconciliation and
\* cross-validation succeed.
Mapped(w) ==
    /\ stage[w] = "mapping"
    /\ progress' = Set(progress, running[w], 7)
    /\ stage' = [stage EXCEPT ![w] = "scoring"]
    /\ UNCHANGED <<status, withError, otherColumns, files, server, waiting,
                   running, snapshot, issued, stranded, counters>>

\* score_bom_async returns; the workbook is written, then the row is completed.
Scored(w) ==
    LET j == running[w] IN
    /\ stage[w] = "scoring"
    /\ exportFile' = exportFile \cup {j}
    /\ status' = Set(status, j, "completed")
    /\ progress' = Set(progress, j, 10)
    /\ customer' = Set(customer, j, snapshot[w])
    /\ withAudit' = Mark(withAudit, j)
    /\ withExportPath' = Mark(withExportPath, j)
    /\ Release(w)
    /\ UNCHANGED <<withError, archived, uploadFile, server, waiting, issued,
                   stranded, counters>>

\* The process exits after the workbook is written, before the row is completed.
ScoredInterrupted(w) ==
    /\ stage[w] = "scoring"
    /\ Exit
    /\ exportFile' = exportFile \cup {running[w]}
    /\ progress' = Set(progress, running[w], 9)
    /\ UNCHANGED <<status, withError, otherColumns, uploadFile, issued, stranded>>

\* The update that completes the row raises: the job is marked failed.
ScoredUnrecorded(w) ==
    /\ stage[w] = "scoring"
    /\ StoreRaises
    /\ exportFile' = exportFile \cup {running[w]}
    /\ MarkFailed(running[w], 9)
    /\ Release(w)
    /\ UNCHANGED <<uploadFile, server, waiting, issued, stranded>>

\* The progress a stage has stored when it fails: 0.5 and 0.7 are stored after
\* the mapping, 0.9 after the scoring, in the stretch that then fails.
ProgressReached(w) ==
    {p \in 0..10 : \/ p = progress[running[w]]
                   \/ stage[w] = "mapping" /\ p \in {5, 7}
                   \/ stage[w] = "scoring" /\ p = 9}

\* A stage raises, or returns early: no rows, no mapped column, invalid mapping.
StageFails(w) ==
    /\ Busy(w)
    /\ \E p \in ProgressReached(w) : MarkFailed(running[w], p)
    /\ Release(w)
    /\ UNCHANGED <<files, server, waiting, issued, stranded, counters>>

\* VARIANT of TimesOut: only parsing is given a time limit.
TimesOutParsing(w) ==
    /\ stage[w] = "parsing"
    /\ MarkFailed(running[w], progress[running[w]])
    /\ Release(w)
    /\ UNCHANGED <<files, server, waiting, issued, stranded, counters>>

\* asyncio.wait_for gives up while a stage awaits.
TimesOut(w) ==
    /\ Busy(w)
    /\ MarkFailed(running[w], progress[running[w]])
    /\ Release(w)
    /\ UNCHANGED <<files, server, waiting, issued, stranded, counters>>

\* The failure itself cannot be stored: _mark_job_failed swallows the error.
FailureUnrecorded(w) ==
    /\ Busy(w)
    /\ StoreRaises
    /\ Strand(running[w])
    /\ Release(w)
    /\ UNCHANGED <<table, files, server, waiting, issued>>

-----------------------------------------------------------------------------
(* The server process.                                                     *)

\* A crash, or JobQueue.stop at shutdown: cancelled workers store nothing.
ServerStops ==
    /\ Exit
    /\ UNCHANGED <<table, files, issued, stranded>>

\* JobStore.__init__ recovers, the lifespan starts the worker pool.
ServerStarts ==
    /\ server = "down"
    /\ server' = "up"
    /\ RecoverOrphanedJobs
    /\ stranded' = {}
    /\ UNCHANGED <<files, waiting, workers, issued, counters>>

Request(j) ==
    \/ \E c \in {"unset", "user"} : Upload(j, c)
    \/ Retry(j)
    \/ Archive(j)
    \/ Restore(j)
    \/ Purge(j)

\* An idle worker gets the next job.
PicksUp(w) == \E j \in Jobs : SkipPurged(w, j) \/ Begin(w, j) \/ BeginFails(w, j)

\* What a worker task does when the store works and the process stays up.
WorkerStep(w) ==
    \/ PicksUp(w)
    \/ ParseProgress(w)
    \/ \E inferred \in {"unset", "inferred"} : Parsed(w, inferred)
    \/ Mapped(w)
    \/ Scored(w)
    \/ StageFails(w)
    \/ TimesOut(w)

\* The store raises, or the process exits, during a handler or a stage.
Disturbance ==
    \/ \E j \in Jobs : \/ UploadUnrecorded(j)
                       \/ UploadInterrupted(j)
                       \/ PurgeInterrupted(j)
    \/ \E w \in Workers : \/ \E j \in Jobs : BeginUnrecorded(w, j)
                          \/ ScoredInterrupted(w)
                          \/ ScoredUnrecorded(w)
                          \/ FailureUnrecorded(w)
    \/ ServerStops

Next ==
    \/ \E j \in Jobs : Request(j)
    \/ \E w \in Workers : WorkerStep(w)
    \/ Disturbance
    \/ ServerStarts

Spec == Init /\ [][Next]_vars

\* An idle worker task gets to run, and asyncio.wait_for ends a run that takes
\* too long: no service is assumed to answer.  The container is restarted
\* ("restart: unless-stopped").
Fairness ==
    /\ \A w \in Workers : WF_vars(PicksUp(w)) /\ WF_vars(TimesOut(w))
    /\ WF_vars(ServerStarts)

FairSpec == Spec /\ Fairness

-----------------------------------------------------------------------------
(* Properties.                                                             *)

\* Every variable has its type.
TypeOK ==
    /\ status \in [Jobs -> Statuses]
    /\ progress \in [Jobs -> 0..10]
    /\ customer \in [Jobs -> Customers]
    /\ withError \subseteq Jobs
    /\ withAudit \subseteq Jobs
    /\ withExportPath \subseteq Jobs
    /\ archived \subseteq Jobs
    /\ uploadFile \subseteq Jobs
    /\ exportFile \subseteq Jobs
    /\ server \in {"up", "down"}
    /\ queue \in Seq(Jobs)
    /\ pending \in Seq(Jobs)
    /\ stage \in [Workers -> Stages]
    /\ running \in [Workers -> Jobs \cup {NoJob}]
    /\ \A w \in Workers : Busy(w) => running[w] \in Jobs
    /\ snapshot \in [Workers -> Customers]
    /\ issued \subseteq Jobs
    /\ stranded \subseteq Jobs
    /\ restarts \in 0 .. MaxRestarts
    /\ retries \in 0 .. MaxRetries
    /\ storeErrors \in 0 .. MaxStoreErrors

\* The queue position the status route reports is the job's place in the queue
\* the workers drain (JobQueue keeps the two lists apart).
PositionMatchesQueue == pending = queue

\* A job waits at most once, is run by at most one worker, and never both: no
\* retry or restart makes two pipelines write one row and one workbook.
NeverRunTwice ==
    /\ \A i, k \in 1 .. Len(queue) : queue[i] = queue[k] => i = k
    /\ \A v, w \in Workers : Busy(v) /\ RunBy(w, running[v]) => v = w
    /\ \A w \in Workers : Busy(w) => ~Queued(running[w])

\* While the server runs, a pending job is in the queue and a processing job has
\* a worker, except where storing the failure itself failed.
InFlightIsOwned ==
    server = "up" =>
        \A j \in Jobs \ stranded :
            /\ status[j] = "pending" => Queued(j)
            /\ status[j] = "processing" => \E w \in Workers : RunBy(w, j)

\* Conversely, what waits is pending and what runs is processing, unless it was
\* purged meanwhile: no worker writes to a row that is settled or was given up.
OwnedIsInFlight ==
    /\ \A i \in 1 .. Len(queue) :
        status[queue[i]] \in {"pending", "none"} /\ queue[i] \notin stranded
    /\ \A w \in Workers : Busy(w) =>
        status[running[w]] \in {"processing", "none"} /\ running[w] \notin stranded

\* The routes that serve a result rely on it: a job has an audit, an export path
\* and full progress exactly when it is completed, and then the workbook exists;
\* it carries an error exactly when it failed.
ResultIsComplete ==
    \A j \in Jobs :
        LET done == status[j] = "completed" IN
        /\ j \in withAudit <=> done
        /\ j \in withExportPath <=> done
        /\ progress[j] = 10 <=> done
        /\ done => j \in exportFile
        /\ j \in withError <=> status[j] = "failed"

\* A job that has a row has its source file, whatever was interrupted: the
\* writes are ordered so that a job can be retried as long as it is listed.
SourceOutlivesRow == \A j \in Jobs : Exists(j) => j \in uploadFile

\* A customer typed in at upload survives every run, retry and completion.
UserCustomerKept ==
    [][\A j \in Jobs : customer[j] = "user" =>
                           customer'[j] = "user" \/ status'[j] = "none"]_vars

\* Stored progress never falls, except when a failed job is retried or a job is
\* purged: no late callback overwrites a later stage.
ProgressNeverFalls ==
    [][\A j \in Jobs : \/ progress'[j] >= progress[j]
                       \/ status[j] = "failed" /\ status'[j] = "pending"
                       \/ status'[j] = "none"]_vars

\* Every job in flight is eventually completed, failed or purged, unless its
\* failure could not be stored.
EveryJobSettles ==
    \A j \in Jobs : InFlight(j) ~> (~InFlight(j) \/ j \in stranded)

\* delete_job says of purge=true that it "removes the DB row and the associated
\* upload/export files - irreversible": an issued job without a row, and without
\* a worker that still runs it, has no workbook left.
PurgeRemovesExport ==
    \A j \in issued :
        ~Exists(j) /\ (\A w \in Workers : ~RunBy(w, j)) => j \notin exportFile

-----------------------------------------------------------------------------
(* The inductive invariant behind the safety properties: what they need to  *)
(* know of the server, the identifiers and the stages.                      *)

\* A stopped server has no queue and no running worker.
VolatileIsLost ==
    server = "down" => queue = <<>> /\ \A w \in Workers : ~Busy(w)

\* An identifier is issued before anything knows it; a job without a row has no
\* trace in the table; only a job in flight is stranded.
KnownIsIssued ==
    /\ \A j \in Jobs : /\ Exists(j) \/ Queued(j) => j \in issued
                       /\ ~Exists(j) => progress[j] = 0 /\ customer[j] = "unset"
                       /\ j \in stranded => InFlight(j)
    /\ \A w \in Workers : Busy(w) => running[w] \in issued

\* A running worker agrees with its row: a customer typed in at upload is in its
\* snapshot, and the stored progress is not beyond its stage.
RunMatchesRow ==
    \A w \in Workers : Busy(w) =>
        /\ customer[running[w]] = "user" => snapshot[w] = "user"
        /\ progress[running[w]] =< (IF stage[w] = "scoring" THEN 7 ELSE 3)

\* Before it begins, a job has made no progress.
PendingIsFresh == \A j \in Jobs : status[j] = "pending" => progress[j] = 0

\* The conjunction is preserved by every step.
LifecycleInv ==
    /\ TypeOK
    /\ PositionMatchesQueue
    /\ NeverRunTwice
    /\ InFlightIsOwned
    /\ OwnedIsInFlight
    /\ ResultIsComplete
    /\ SourceOutlivesRow
    /\ VolatileIsLost
    /\ KnownIsIssued
    /\ RunMatchesRow
    /\ PendingIsFresh

-----------------------------------------------------------------------------
(* The contract this implements.                                           *)

ContractState ==
    [j \in Jobs |-> IF Exists(j) THEN status[j]
                    ELSE IF j \in issued THEN "gone" ELSE "absent"]

ContractDownloadable ==
    {j \in Jobs : /\ status[j] = "completed"
                  /\ j \in withExportPath
                  /\ j \in exportFile}

C == INSTANCE JobContract WITH state <- ContractState,
                               downloadable <- ContractDownloadable

\* The job service implements JobContract: download_export succeeds for every
\* job that ever completed until it is purged, and no job skips a state.
ImplementsContract == C!Contract
=============================================================================
