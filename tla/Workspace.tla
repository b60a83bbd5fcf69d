----------------------------- MODULE Workspace ------------------------------
(***************************************************************************)
(* The review workspace of the browser: the hook useJobPipeline, which     *)
(* follows one job from its upload to its review, the page that shows it,  *)
(* and the query client both use, beside the server the requests go to.    *)
(*                                                                         *)
(* JavaScript runs one callback at a time: a click handler, an effect and  *)
(* the callback of an answer are one action each.  Requests and answers    *)
(* travel independently and may overtake each other.  The data of a job    *)
(* are abstracted to a version, the number of changes the server stored.   *)
(***************************************************************************)
EXTENDS Integers, FiniteSets

CONSTANTS
    Jobs,            \* job identifiers
    KnownJobs,       \* jobs completed before the browser is opened
    NoJob,           \* null
    NoResult,        \* null
    Purgeable,       \* bound: jobs somebody may delete for good
    BackWhileBusy,   \* whether the user navigates while a request is out
    MaxEdits,        \* bound: changes the server stores for one job
    MaxRequests,     \* bound: uploads, retries, edits and exclusions sent
    MaxFailures      \* bound: mutations and results the network or the server fails

WorkspaceAssumption ==
    /\ NoJob \notin Jobs
    /\ NoResult \notin [job : Jobs, version : Nat]
    /\ KnownJobs \subseteq Jobs /\ Purgeable \subseteq Jobs
    /\ BackWhileBusy \in BOOLEAN
    /\ MaxEdits \in Nat /\ MaxRequests \in Nat /\ MaxFailures \in Nat

ASSUME Configured == WorkspaceAssumption

VARIABLES
    \* the server
    stored,          \* status of a job; "absent" before its upload, "purged" after
    version,         \* changes stored for a job
    \* the workspace component
    mounted,         \* whether the page is the workspace
    link,            \* initialJobId, from ?jobId=
    jobId,           \* useState
    shown,           \* useState result: NoResult or a version of a job
    \* the query client, which outlives the component
    status,          \* data of ["job-status", j]; "unknown" without data
    results,         \* data of ["job-result", j]; -1 without data
    resultError,     \* jobs whose ["job-result", j] is in state error
    aged,            \* <<kind, j>> cached for more than staleTime
    statusFetch,     \* "idle", "asked", or the status on its way back
    resultFetch,     \* NoFetch, Awaited, or the version on its way back
    \* mutations
    requests,        \* on their way to the server
    answers,         \* on their way back
    pending,         \* the request each useMutation reports on, 0 for none
    deaf,            \* requests up to this one were sent by an unmounted component
    sent, failures   \* counters for the bounds

server == <<stored, version>>
component == <<mounted, link, jobId, shown>>
cache == <<status, results, resultError, aged>>
fetches == <<statusFetch, resultFetch>>
mutations == <<requests, answers, pending, deaf>>
counters == <<sent, failures>>
vars == <<server, component, cache, fetches, mutations, counters>>

-----------------------------------------------------------------------------
InFlight == {"pending", "processing"}
Final == {"completed", "failed"}
JobStatus == InFlight \cup Final
Stored == JobStatus \cup {"absent", "purged"}
Kinds == {"upload", "retry", "edit", "exclude"}

NoFetch == -3
Awaited == -2
Unknown == -1
Versions == 0..MaxEdits

JobResult == [job : Jobs, version : Versions]

\* A request for a job, made from the view of a job, and its answer: the job and
\* the version the server speaks of, or a refusal.
Ids == 1..MaxRequests
Request == [id : Ids, kind : Kinds, job : Jobs \cup {NoJob}, from : Jobs \cup {NoJob}]
Refused == -1
Reply == [to : Request, job : Jobs \cup {NoJob}, version : Versions \cup {Refused}]

IsPending(kind) == pending[kind] # 0
Alive(id) == id > deaf
Quiet == \A id \in {r.id : r \in requests} \cup {a.to.id : a \in answers} : ~Alive(id)

-----------------------------------------------------------------------------
(* What the page shows.                                                    *)

JobFailed == jobId # NoJob /\ status[jobId] = "failed"
JobCompleted == jobId # NoJob /\ status[jobId] = "completed"
ResultFailed == jobId # NoJob /\ jobId \in resultError /\ shown = NoResult

\* The branches of the page: the review table, the upload form, the failed job
\* with its retry button, the button for a new file.
ShowsResult == mounted /\ shown # NoResult
ShowsUpload == mounted /\ shown = NoResult /\ jobId = NoJob
ShowsRetry == mounted /\ shown = NoResult /\ JobFailed
ShowsNewFile == mounted /\ shown = NoResult /\ (JobFailed \/ ResultFailed)

\* options of the two queries
StatusEnabled(j) == mounted /\ jobId = j /\ shown = NoResult

\* VARIANT of ResultEnabled: the result is asked for as soon as a job is open.
ResultOfAnyJob(j) == StatusEnabled(j)

ResultEnabled(j) == StatusEnabled(j) /\ JobCompleted

\* VARIANT of Polls: a queued job is not polled.
PollsRunning(j) == StatusEnabled(j) /\ status[j] \in {"unknown", "processing"}

\* refetchInterval: no data yet, or data that is not final
Polls(j) == StatusEnabled(j) /\ status[j] \notin Final

Init ==
    /\ stored = [j \in Jobs |-> IF j \in KnownJobs THEN "completed" ELSE "absent"]
    /\ version = [j \in Jobs |-> 0]
    /\ mounted = FALSE
    /\ link = NoJob
    /\ jobId = NoJob
    /\ shown = NoResult
    /\ status = [j \in Jobs |-> "unknown"]
    /\ results = [j \in Jobs |-> Unknown]
    /\ resultError = {}
    /\ aged = {}
    /\ statusFetch = [j \in Jobs |-> "idle"]
    /\ resultFetch = [j \in Jobs |-> NoFetch]
    /\ requests = {}
    /\ answers = {}
    /\ pending = [kind \in Kinds |-> 0]
    /\ deaf = 0
    /\ sent = 0
    /\ failures = 0

-----------------------------------------------------------------------------
(* Navigation.                                                             *)

\* A query whose key changes to j fetches again when its data are stale, and an
\* error without data is forgotten.
Subscribe(j) ==
    /\ statusFetch' = IF j # NoJob /\ <<"status", j>> \in aged /\ statusFetch[j] = "idle"
                      THEN [statusFetch EXCEPT ![j] = "asked"] ELSE statusFetch
    /\ resultError' = {i \in resultError : i # j \/ results[i] # Unknown}
    /\ UNCHANGED <<status, results, aged, resultFetch>>

\* The workspace is opened, from a link to a job or without one.
Open(j) ==
    /\ ~mounted
    /\ j # NoJob => stored[j] # "absent"
    /\ mounted' = TRUE
    /\ link' = j
    /\ jobId' = j
    /\ shown' = NoResult
    /\ Subscribe(j)
    /\ UNCHANGED <<server, mutations, counters>>

\* The effect on initialJobId, in a workspace that stays mounted.
FollowLink(j) ==
    /\ mounted
    /\ BackWhileBusy \/ Quiet
    /\ stored[j] # "absent"
    /\ j # link
    /\ link' = j
    /\ IF j # jobId
       THEN jobId' = j /\ shown' = NoResult /\ Subscribe(j)
       ELSE UNCHANGED <<jobId, shown, cache, fetches>>
    /\ UNCHANGED <<server, mounted, mutations, counters>>

\* upload.reset(), editCells.reset(), excludeRows.reset(): what they report on is
\* forgotten, the requests and their callbacks are not
ResetAll == [kind \in Kinds |-> IF kind = "retry" THEN pending[kind] ELSE 0]

\* VARIANT of NewUpload: the result is left on the page.
NewUploadKeepsResult ==
    /\ ShowsResult \/ ShowsNewFile
    /\ BackWhileBusy \/ Quiet
    /\ jobId' = NoJob
    /\ link' = NoJob
    /\ pending' = ResetAll
    /\ UNCHANGED <<server, mounted, shown, cache, fetches, requests, answers, deaf, counters>>

\* handleNewUpload: the back button of the table and the button for a new file
NewUpload ==
    /\ ShowsResult \/ ShowsNewFile
    /\ BackWhileBusy \/ Quiet
    /\ jobId' = NoJob
    /\ shown' = NoResult
    /\ link' = NoJob
    /\ pending' = ResetAll
    /\ UNCHANGED <<server, mounted, cache, fetches, requests, answers, deaf, counters>>

\* Another page is opened; the callbacks of the component fall on deaf ears.
Leave ==
    /\ mounted
    /\ mounted' = FALSE
    /\ link' = NoJob
    /\ jobId' = NoJob
    /\ shown' = NoResult
    /\ deaf' = sent
    /\ pending' = [kind \in Kinds |-> 0]
    /\ UNCHANGED <<server, cache, fetches, requests, answers, counters>>

-----------------------------------------------------------------------------
(* The four mutations: what the user sends.                                *)

Send(kind, j, from) ==
    /\ sent < MaxRequests
    /\ sent' = sent + 1
    /\ requests' = requests \cup {[id |-> sent + 1, kind |-> kind, job |-> j, from |-> from]}
    /\ pending' = [pending EXCEPT ![kind] = sent + 1]
    /\ UNCHANGED <<server, component, cache, fetches, answers, deaf, failures>>

uploadFile == Send("upload", NoJob, NoJob)
retryJob(j) == Send("retry", j, j)
saveEditedCells(j, from) == Send("edit", j, from)
setRowExclusion(j, from) == Send("exclude", j, from)

\* handleUpload, from the upload form
Upload == ShowsUpload /\ ~IsPending("upload") /\ uploadFile

\* handleRetry, from the failed job
Retry == ShowsRetry /\ ~IsPending("retry") /\ retryJob(jobId)

\* handleSaveEdits, from the table of the result shown
SaveEdits == ShowsResult /\ ~IsPending("edit") /\ saveEditedCells(jobId, shown.job)

\* handleExcludeRows, from the table of the result shown.  Its buttons wait for the
\* exclusion before; the Delete key does not.
ExcludeRows == ShowsResult /\ setRowExclusion(jobId, shown.job)

-----------------------------------------------------------------------------
(* The server.                                                             *)

Answer(r, j, v) ==
    /\ requests' = requests \ {r}
    /\ answers' = answers \cup {[to |-> r, job |-> j, version |-> v]}

Refuse(r) == Answer(r, NoJob, Refused) /\ UNCHANGED server

\* POST /api/upload stores a new job
HandleUpload(r, j) ==
    /\ stored[j] = "absent"
    /\ stored' = [stored EXCEPT ![j] = "pending"]
    /\ Answer(r, j, 0)
    /\ UNCHANGED version

\* POST /api/jobs/{id}/retry: only a failed job is run again
HandleRetry(r) ==
    IF stored[r.job] = "failed"
    THEN /\ stored' = [stored EXCEPT ![r.job] = "pending"]
         /\ Answer(r, r.job, 0)
         /\ UNCHANGED version
    ELSE Refuse(r)

\* VARIANT of HandleChange: the answer is computed before the change is stored.
HandleChangeUnstored(r) ==
    IF r.job # NoJob /\ stored[r.job] = "completed"
    THEN /\ version[r.job] < MaxEdits
         /\ Answer(r, r.job, version[r.job] + 1)
         /\ UNCHANGED server
    ELSE Refuse(r)

\* Changes of cells and rows are answered with the result as it now is.
HandleChange(r) ==
    IF r.job # NoJob /\ stored[r.job] = "completed"
    THEN /\ version[r.job] < MaxEdits
         /\ version' = [version EXCEPT ![r.job] = @ + 1]
         /\ Answer(r, r.job, version[r.job] + 1)
         /\ UNCHANGED stored
    ELSE Refuse(r)

Handle(r) ==
    /\ \/ r.kind = "upload" /\ \E j \in Jobs : HandleUpload(r, j)
       \/ r.kind = "retry" /\ HandleRetry(r)
       \/ r.kind \in {"edit", "exclude"} /\ HandleChange(r)
    /\ UNCHANGED <<component, cache, fetches, pending, deaf, counters>>

\* Any request may fail on its way or at the server.
RequestFails(r) ==
    /\ failures < MaxFailures
    /\ failures' = failures + 1
    /\ Refuse(r)
    /\ UNCHANGED <<component, cache, fetches, pending, deaf, sent>>

\* The pipeline takes up a job and settles it.
RunJob(j) ==
    /\ \/ stored[j] = "pending" /\ stored' = [stored EXCEPT ![j] = "processing"]
       \/ stored[j] = "processing" /\ \E s \in Final : stored' = [stored EXCEPT ![j] = s]
    /\ UNCHANGED <<version, component, cache, fetches, mutations, counters>>

\* Somebody deletes the job for good.
PurgeJob(j) ==
    /\ j \in Purgeable
    /\ stored[j] \in JobStatus
    /\ stored' = [stored EXCEPT ![j] = "purged"]
    /\ UNCHANGED <<version, component, cache, fetches, mutations, counters>>

-----------------------------------------------------------------------------
(* The answers of the mutations.                                           *)

\* onSuccess of the upload: the new job is opened
UploadDone(a) ==
    /\ shown' = NoResult
    /\ jobId' = a.job
    /\ Subscribe(a.job)

\* onSuccess of the retry: the result is cleared, the status query is not touched
RetryDone ==
    /\ shown' = NoResult
    /\ UNCHANGED <<jobId, cache, fetches>>

\* onSuccess of edits and exclusions: the answer becomes the result
ChangeDone(a) ==
    /\ shown' = [job |-> a.job, version |-> a.version]
    /\ UNCHANGED <<jobId, cache, fetches>>

\* An answer arrives; callbacks run whether or not the mutation was reset.
Deliver(a) ==
    /\ answers' = answers \ {a}
    /\ pending' = [kind \in Kinds |-> IF pending[kind] = a.to.id THEN 0 ELSE pending[kind]]
    /\ IF Alive(a.to.id) /\ a.version # Refused
       THEN \/ a.to.kind = "upload" /\ UploadDone(a)
            \/ a.to.kind = "retry" /\ RetryDone
            \/ a.to.kind \in {"edit", "exclude"} /\ ChangeDone(a)
       ELSE UNCHANGED <<jobId, shown, cache, fetches>>
    /\ UNCHANGED <<server, mounted, link, requests, deaf, counters>>

-----------------------------------------------------------------------------
(* The two queries.                                                        *)

\* The polling timer, and the first fetch of a status.
AskStatus(j) ==
    /\ Polls(j)
    /\ statusFetch[j] = "idle"
    /\ statusFetch' = [statusFetch EXCEPT ![j] = "asked"]
    /\ UNCHANGED <<server, component, cache, resultFetch, mutations, counters>>

\* GET /api/jobs/{id}/status; without the row it answers 404
AnswerStatus(j) ==
    /\ statusFetch[j] = "asked"
    /\ statusFetch' = [statusFetch EXCEPT ![j] =
                         IF stored[j] = "purged" THEN "idle" ELSE stored[j]]
    /\ UNCHANGED <<server, component, cache, resultFetch, mutations, counters>>

ReceiveStatus(j) ==
    /\ statusFetch[j] \in JobStatus
    /\ status' = [status EXCEPT ![j] = statusFetch[j]]
    /\ aged' = aged \ {<<"status", j>>}
    /\ statusFetch' = [statusFetch EXCEPT ![j] = "idle"]
    /\ UNCHANGED <<server, component, results, resultError, resultFetch, mutations, counters>>

\* The first fetch of a result, once the status says the job is completed.
AskResult(j) ==
    /\ ResultEnabled(j)
    /\ results[j] = Unknown
    /\ j \notin resultError
    /\ resultFetch[j] = NoFetch
    /\ resultFetch' = [resultFetch EXCEPT ![j] = Awaited]
    /\ UNCHANGED <<server, component, cache, statusFetch, mutations, counters>>

\* GET /api/jobs/{id}/result
AnswerResult(j) ==
    /\ resultFetch[j] = Awaited
    /\ stored[j] = "completed"
    /\ resultFetch' = [resultFetch EXCEPT ![j] = version[j]]
    /\ UNCHANGED <<server, component, cache, statusFetch, mutations, counters>>

ReceiveResult(j) ==
    /\ resultFetch[j] \in Versions
    /\ results' = [results EXCEPT ![j] = resultFetch[j]]
    /\ aged' = aged \ {<<"result", j>>}
    /\ resultError' = resultError \ {j}
    /\ resultFetch' = [resultFetch EXCEPT ![j] = NoFetch]
    /\ UNCHANGED <<server, component, status, statusFetch, mutations, counters>>

\* The last of the retries of a fetch fails: 404, 409, or no answer at all.  The
\* status is asked for again at the next interval.
StatusFails(j) ==
    /\ statusFetch[j] = "asked"
    /\ statusFetch' = [statusFetch EXCEPT ![j] = "idle"]
    /\ UNCHANGED <<server, component, cache, resultFetch, mutations, counters>>

ResultFails(j) ==
    /\ resultFetch[j] = Awaited
    /\ \/ stored[j] # "completed" /\ UNCHANGED failures
       \/ failures < MaxFailures /\ failures' = failures + 1
    /\ resultError' = resultError \cup {j}
    /\ resultFetch' = [resultFetch EXCEPT ![j] = NoFetch]
    /\ UNCHANGED <<server, component, status, results, aged, statusFetch, mutations, sent>>

\* VARIANT of ShowResult: the effect does not wait for the data.
ShowResultEager(j) ==
    /\ ResultEnabled(j)
    /\ shown' = [job |-> j, version |-> results[j]]
    /\ UNCHANGED <<server, mounted, link, jobId, cache, fetches, mutations, counters>>

\* The effect that copies the data of the result query into the state, once; the
\* query fetches again in the background when its data were stale.
ShowResult(j) ==
    /\ ResultEnabled(j)
    /\ results[j] # Unknown
    /\ shown' = [job |-> j, version |-> results[j]]
    /\ resultFetch' = IF <<"result", j>> \in aged /\ resultFetch[j] = NoFetch
                      THEN [resultFetch EXCEPT ![j] = Awaited] ELSE resultFetch
    /\ UNCHANGED <<server, mounted, link, jobId, cache, statusFetch, mutations, counters>>

\* staleTime passes
Age(kind, j) ==
    /\ \/ kind = "status" /\ status[j] # "unknown"
       \/ kind = "result" /\ results[j] # Unknown
    /\ <<kind, j>> \notin aged
    /\ aged' = aged \cup {<<kind, j>>}
    /\ UNCHANGED <<server, component, status, results, resultError, fetches, mutations, counters>>

\* gcTime passes with nobody looking at the job
Collect(j) ==
    /\ jobId # j
    /\ {<<"status", j>>, <<"result", j>>} \cap aged # {}
    /\ statusFetch[j] = "idle" /\ resultFetch[j] = NoFetch
    /\ status' = [status EXCEPT ![j] = "unknown"]
    /\ results' = [results EXCEPT ![j] = Unknown]
    /\ resultError' = resultError \ {j}
    /\ aged' = aged \ {<<"status", j>>, <<"result", j>>}
    /\ UNCHANGED <<server, component, fetches, mutations, counters>>

-----------------------------------------------------------------------------
User ==
    \/ \E j \in Jobs \cup {NoJob} : Open(j)
    \/ \E j \in Jobs : FollowLink(j)
    \/ NewUpload \/ Leave
    \/ Upload \/ Retry \/ SaveEdits \/ ExcludeRows

Server ==
    \/ \E r \in requests : Handle(r) \/ RequestFails(r)
    \/ \E j \in Jobs : RunJob(j) \/ PurgeJob(j)

Client ==
    \/ \E a \in answers : Deliver(a)
    \/ \E j \in Jobs :
          \/ AskStatus(j) \/ AnswerStatus(j) \/ ReceiveStatus(j) \/ StatusFails(j)
          \/ AskResult(j) \/ AnswerResult(j) \/ ReceiveResult(j) \/ ResultFails(j)
          \/ ShowResult(j)
          \/ \E kind \in {"status", "result"} : Age(kind, j)
          \/ Collect(j)

Next == User \/ Server \/ Client

Spec == Init /\ [][Next]_vars

\* The workers settle their jobs (EveryJobSettles of JobLifecycle), timers fire,
\* effects run, results are answered or fail, and a status that is asked for again
\* and again is answered some time; the user owes nothing.
Fairness ==
    \A j \in Jobs :
        /\ WF_vars(RunJob(j))
        /\ WF_vars(AskStatus(j)) /\ WF_vars(ReceiveStatus(j))
        /\ SF_vars(AnswerStatus(j))
        /\ WF_vars(AskResult(j) \/ AnswerResult(j) \/ ResultFails(j) \/ ReceiveResult(j))
        /\ WF_vars(ShowResult(j))

FairSpec == Spec /\ Fairness

-----------------------------------------------------------------------------
\* Types of the variables.
TypeOK ==
    /\ stored \in [Jobs -> Stored]
    /\ version \in [Jobs -> Versions]
    /\ mounted \in BOOLEAN
    /\ link \in Jobs \cup {NoJob}
    /\ jobId \in Jobs \cup {NoJob}
    /\ shown \in JobResult \cup {NoResult}
    /\ status \in [Jobs -> JobStatus \cup {"unknown"}]
    /\ results \in [Jobs -> Versions \cup {Unknown}]
    /\ resultError \subseteq Jobs
    /\ aged \subseteq {"status", "result"} \X Jobs
    /\ statusFetch \in [Jobs -> JobStatus \cup {"idle", "asked"}]
    /\ resultFetch \in [Jobs -> Versions \cup {NoFetch, Awaited}]
    /\ requests \subseteq Request
    /\ answers \subseteq Reply
    /\ pending \in [Kinds -> 0..MaxRequests]
    /\ deaf \in 0..MaxRequests
    /\ sent \in 0..MaxRequests
    /\ failures \in 0..MaxFailures

\* The table on the page is that of the open job, whatever answers are late
\* (setJobId and setResult are two states and every callback sets its own).
ViewIsOfOpenJob == shown # NoResult => shown.job = jobId

\* Corrections and exclusions go to the job whose table the user made them in
\* (the mutations take jobId, the table shows result).
ChangesReachTheirJob ==
    \A r \in requests : r.kind \in {"edit", "exclude"} => r.job = r.from

\* A status at which polling stops for good is true for good: a browser that has
\* read "completed" is never wrong about a job that still exists, and therefore
\* never asks for a result too early.
CompletedIsFinal ==
    \A j \in Jobs :
        (status[j] = "completed" \/ statusFetch[j] = "completed" \/ resultFetch[j] # NoFetch)
            => stored[j] \in {"completed", "purged"}

\* What the browser shows or caches of a job is a version the server has stored,
\* never one of a change that was refused.
ShownIsStored ==
    /\ \A j \in Jobs : results[j] <= version[j] /\ resultFetch[j] <= version[j]
    /\ shown # NoResult => shown.version <= version[shown.job]

\* A job that is open and exists is followed to its result, or to a failure the
\* page shows (1.5 s polling, result query, effect).
Settled(j) ==
    \/ jobId # j
    \/ stored[j] = "purged"
    \/ shown # NoResult
    \/ JobFailed
    \/ ResultFailed
OpenJobSettles == \A j \in Jobs : jobId = j ~> Settled(j)
=============================================================================
