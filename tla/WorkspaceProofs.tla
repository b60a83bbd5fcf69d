-------------------------- MODULE WorkspaceProofs ---------------------------
(***************************************************************************)
(* Proofs about Workspace for any jobs and any bounds: types, that a       *)
(* completed job is never asked for too early, that what is shown is       *)
(* stored, and, for a user who does not navigate while a request is out,   *)
(* that the table is the one of the open job and changes reach its job.    *)
(***************************************************************************)
EXTENDS Workspace, TLAPS

\* A retry names its job; an answer that is no refusal speaks of a job, and a change
\* of the job it was sent for, in a version the server has stored.
RequestsNamed ==
    /\ \A r \in requests : r.kind = "retry" => r.job \in Jobs
    /\ \A a \in answers : a.version # Refused =>
          /\ a.job \in Jobs /\ stored[a.job] # "absent"
          /\ a.version <= version[a.job]
          /\ a.to.kind # "upload" => a.job = a.to.job

\* Only jobs that exist are opened and asked for.
JobsExist ==
    /\ jobId # NoJob => stored[jobId] # "absent"
    /\ \A j \in Jobs : statusFetch[j] # "idle" => stored[j] # "absent"

Types == TypeOK /\ RequestsNamed /\ JobsExist
StoredInv == Types /\ ShownIsStored

-----------------------------------------------------------------------------
(* What is assumed of the constants.                                       *)

LEMMA WorkspaceBounds ==
    /\ BackWhileBusy \in BOOLEAN
    /\ MaxEdits \in Nat /\ MaxRequests \in Nat /\ MaxFailures \in Nat
BY Configured DEF WorkspaceAssumption

LEMMA NoJobIsNoJob == NoJob \notin Jobs
BY Configured DEF WorkspaceAssumption

-----------------------------------------------------------------------------
(* Types.                                                                  *)

LEMMA SpecialValues ==
    /\ 0 \in Versions
    /\ NoFetch \notin Versions /\ Awaited \notin Versions /\ Unknown \notin Versions
    /\ Refused \notin Versions /\ Versions \subseteq Int
    /\ {NoFetch, Awaited, Unknown, Refused} \subseteq Int
BY WorkspaceBounds DEF Versions, NoFetch, Awaited, Unknown, Refused

LEMMA InitTypes == Init => StoredInv
<1> SUFFICES ASSUME Init PROVE StoredInv
  OBVIOUS
<1>1. TypeOK
  <2>1. mounted \in BOOLEAN
    BY Zenon DEF Init
  <2>2. /\ stored \in [Jobs -> Stored] /\ version \in [Jobs -> Versions]
        /\ results \in [Jobs -> Versions \cup {Unknown}]
        /\ resultFetch \in [Jobs -> Versions \cup {NoFetch, Awaited}]
    BY SpecialValues DEF Init, Stored, JobStatus, InFlight, Final
  <2>3. /\ status \in [Jobs -> JobStatus \cup {"unknown"}]
        /\ statusFetch \in [Jobs -> JobStatus \cup {"idle", "asked"}]
        /\ pending \in [Kinds -> 0..MaxRequests]
    BY WorkspaceBounds DEF Init
  <2> QED
    BY <2>1, <2>2, <2>3, WorkspaceBounds DEF Init, TypeOK
<1>2. RequestsNamed
  BY DEF Init, RequestsNamed
<1>3. ShownIsStored
  BY WorkspaceBounds DEF Init, ShownIsStored, Unknown, NoFetch
<1>4. JobsExist
  BY DEF Init, JobsExist
<1> QED
  BY <1>1, <1>2, <1>3, <1>4 DEF Types, StoredInv

LEMMA SubscribeTypes ==
    ASSUME TypeOK, NEW j \in Jobs \cup {NoJob}, Subscribe(j)
    PROVE  /\ statusFetch' \in [Jobs -> JobStatus \cup {"idle", "asked"}]
           /\ \A i \in Jobs : statusFetch'[i] # "idle" => statusFetch[i] # "idle" \/ i = j
           /\ resultError' \subseteq Jobs
           /\ UNCHANGED <<status, results, aged, resultFetch>>
BY NoJobIsNoJob DEF TypeOK, Subscribe

LEMMA NavigationTypes ==
    ASSUME Types,
           \/ \E j \in Jobs \cup {NoJob} : Open(j)
           \/ \E j \in Jobs : FollowLink(j)
           \/ NewUpload \/ Leave
    PROVE  Types'
<1>1. ASSUME NEW j \in Jobs \cup {NoJob}, Open(j) PROVE Types'
  <2>1. TypeOK'
    BY <1>1, SubscribeTypes DEF Open, Types, TypeOK, server, mutations, counters
  <2>2. RequestsNamed'
    BY <1>1 DEF Open, Types, RequestsNamed, server, mutations
  <2>3. JobsExist'
    BY <1>1, SubscribeTypes, NoJobIsNoJob DEF Open, Types, JobsExist, server
  <2> QED
    BY <2>1, <2>2, <2>3 DEF Types
<1>2. ASSUME NEW j \in Jobs, FollowLink(j) PROVE Types'
  <2>1. TypeOK'
    <3>1. CASE j # jobId
      BY <1>2, <3>1, SubscribeTypes DEF FollowLink, Types, TypeOK, server, mutations, counters
    <3>2. CASE j = jobId
      BY <1>2, <3>2 DEF FollowLink, Types, TypeOK, server, mutations, counters, cache, fetches
    <3> QED
      BY <3>1, <3>2
  <2>2. RequestsNamed'
    BY <1>2 DEF FollowLink, Types, RequestsNamed, server, mutations
  <2>3. JobsExist'
    <3>1. CASE j # jobId
      BY <1>2, <3>1, SubscribeTypes DEF FollowLink, Types, JobsExist, server
    <3>2. CASE j = jobId
      BY <1>2, <3>2 DEF FollowLink, Types, JobsExist, server, fetches
    <3> QED
      BY <3>1, <3>2
  <2> QED
    BY <2>1, <2>2, <2>3 DEF Types
<1>3. CASE NewUpload
  <2>1. ResetAll \in [Kinds -> 0..MaxRequests]
    BY WorkspaceBounds DEF Types, TypeOK, ResetAll
  <2>2. TypeOK'
    BY <1>3, <2>1 DEF NewUpload, Types, TypeOK, server, cache, fetches, counters
  <2>3. RequestsNamed'
    BY <1>3 DEF NewUpload, Types, RequestsNamed, server
  <2>4. JobsExist'
    BY <1>3 DEF NewUpload, Types, JobsExist, server, fetches
  <2> QED
    BY <2>2, <2>3, <2>4 DEF Types
<1>4. CASE Leave
  <2>1. [kind \in Kinds |-> 0] \in [Kinds -> 0..MaxRequests]
    BY WorkspaceBounds
  <2>2. TypeOK'
    BY <1>4, <2>1 DEF Leave, Types, TypeOK, server, cache, fetches, counters
  <2>3. RequestsNamed'
    BY <1>4 DEF Leave, Types, RequestsNamed, server
  <2>4. JobsExist'
    BY <1>4 DEF Leave, Types, JobsExist, server, fetches
  <2> QED
    BY <2>2, <2>3, <2>4 DEF Types
<1> QED
  BY <1>1, <1>2, <1>3, <1>4

LEMMA SendTypes ==
    ASSUME Types, NEW kind \in Kinds, NEW j \in Jobs \cup {NoJob}, NEW from \in Jobs \cup {NoJob},
           kind = "retry" => j \in Jobs, Send(kind, j, from)
    PROVE  Types'
<1> DEFINE r == [id |-> sent + 1, kind |-> kind, job |-> j, from |-> from]
<1>1. sent + 1 \in Ids /\ sent + 1 \in 0..MaxRequests
  BY WorkspaceBounds DEF Send, Types, TypeOK, Ids
<1>2. r \in Request /\ r.kind = kind /\ r.job = j
  BY <1>1 DEF Request
<1>3. /\ requests' = requests \cup {r} /\ sent' = sent + 1
      /\ pending' = [pending EXCEPT ![kind] = sent + 1]
      /\ UNCHANGED <<server, component, cache, fetches, answers, deaf, failures>>
  BY DEF Send
<1> HIDE DEF r
<1>4. TypeOK'
  BY <1>1, <1>2, <1>3 DEF Types, TypeOK, server, component, cache, fetches
<1>5. RequestsNamed'
  BY <1>2, <1>3 DEF Types, RequestsNamed, server
<1>6. JobsExist'
  BY <1>3 DEF Types, JobsExist, server, component, fetches
<1> QED
  BY <1>4, <1>5, <1>6 DEF Types

LEMMA UserSends ==
    ASSUME TypeOK, Upload \/ Retry \/ SaveEdits \/ ExcludeRows
    PROVE  \E kind \in Kinds, j, from \in Jobs \cup {NoJob} :
              /\ kind = "retry" => j \in Jobs
              /\ Send(kind, j, from)
<1>1. CASE Upload
  BY <1>1 DEF Upload, uploadFile, Kinds
<1>2. CASE Retry
  BY <1>2 DEF Retry, ShowsRetry, JobFailed, retryJob, Kinds, TypeOK
<1>3. ASSUME SaveEdits \/ ExcludeRows PROVE jobId \in Jobs \cup {NoJob} /\ shown.job \in Jobs
  BY <1>3 DEF SaveEdits, ExcludeRows, ShowsResult, TypeOK, JobResult
<1>4. CASE SaveEdits
  BY <1>3, <1>4 DEF SaveEdits, saveEditedCells, Kinds
<1>5. CASE ExcludeRows
  BY <1>3, <1>5 DEF ExcludeRows, setRowExclusion, Kinds
<1> QED
  BY <1>1, <1>2, <1>4, <1>5

\* An answer of the right type leaves the rest as it is.
LEMMA AnswerTypes ==
    ASSUME Types, NEW r \in requests, NEW j \in Jobs \cup {NoJob},
           NEW v \in Versions \cup {Refused}, Answer(r, j, v),
           version' \in [Jobs -> Versions],
           \A i \in Jobs : /\ version[i] <= version'[i]
                           /\ stored[i] # "absent" => stored'[i] # "absent",
           v # Refused => /\ j \in Jobs /\ v <= version'[j] /\ stored'[j] # "absent"
                          /\ r.kind # "upload" => j = r.job
    PROVE  requests' \subseteq Request /\ answers' \subseteq Reply /\ RequestsNamed'
<1> DEFINE a == [to |-> r, job |-> j, version |-> v]
<1>1. a \in Reply /\ a.to = r /\ a.job = j /\ a.version = v
  BY DEF Reply, Types, TypeOK
<1>2. requests' = requests \ {r} /\ answers' = answers \cup {a}
  BY DEF Answer
<1> HIDE DEF a
<1>3. ASSUME NEW b \in answers, b.version # Refused
      PROVE  b.job \in Jobs /\ b.version <= version'[b.job] /\ stored'[b.job] # "absent"
  <2>1. /\ b.job \in Jobs /\ b.version <= version[b.job] /\ b.version \in Versions
        /\ stored[b.job] # "absent"
    BY <1>3 DEF Types, TypeOK, RequestsNamed, Reply
  <2>2. version[b.job] \in Int /\ version'[b.job] \in Int /\ b.version \in Int
    BY <2>1, SpecialValues DEF Types, TypeOK
  <2> QED
    BY <2>1, <2>2
<1> QED
  BY <1>1, <1>2, <1>3 DEF Types, TypeOK, RequestsNamed

LEMMA HandleTypes ==
    ASSUME Types, NEW r \in requests, Handle(r) \/ RequestFails(r)
    PROVE  Types' /\ \A i \in Jobs : version[i] <= version'[i]
<1>1. /\ Refused \in Versions \cup {Refused} /\ 0 \in Versions
      /\ \A i \in Jobs : version[i] \in Versions /\ version[i] \in Int
  BY SpecialValues DEF Types, TypeOK
<1>2. ASSUME Refuse(r)
      PROVE  /\ requests' \subseteq Request /\ answers' \subseteq Reply /\ RequestsNamed'
             /\ stored' = stored /\ version' = version
  BY <1>1, <1>2, AnswerTypes DEF Refuse, server, Types, TypeOK
<1>3. CASE RequestFails(r)
  <2>1. failures' \in 0..MaxFailures
    BY <1>3, WorkspaceBounds DEF RequestFails, Types, TypeOK
  <2>2. JobsExist'
    BY <1>2, <1>3 DEF RequestFails, Types, JobsExist, component, fetches
  <2> QED
    BY <1>1, <1>2, <1>3, <2>1, <2>2 DEF RequestFails, Types, TypeOK, component, cache, fetches
<1>4. ASSUME Handle(r)
      PROVE  /\ requests' \subseteq Request /\ answers' \subseteq Reply /\ RequestsNamed'
             /\ stored' \in [Jobs -> Stored] /\ version' \in [Jobs -> Versions]
             /\ \A i \in Jobs : /\ version[i] <= version'[i]
                                /\ stored[i] # "absent" => stored'[i] # "absent"
  <2>1. ASSUME NEW j \in Jobs, HandleUpload(r, j), r.kind = "upload"
        PROVE  /\ requests' \subseteq Request /\ answers' \subseteq Reply /\ RequestsNamed'
               /\ stored' \in [Jobs -> Stored] /\ version' = version
               /\ \A i \in Jobs : stored[i] # "absent" => stored'[i] # "absent"
    <3>1. /\ version' = version /\ Answer(r, j, 0) /\ stored' \in [Jobs -> Stored]
          /\ stored'[j] # "absent"
          /\ \A i \in Jobs : stored[i] # "absent" => stored'[i] # "absent"
      BY <2>1 DEF HandleUpload, Types, TypeOK, Stored, JobStatus, InFlight
    <3>2. 0 <= version'[j]
      BY <1>1, <3>1, WorkspaceBounds DEF Versions
    <3> QED
      BY <1>1, <2>1, <3>1, <3>2, AnswerTypes DEF Types, TypeOK
  <2>2. CASE r.kind = "retry" /\ HandleRetry(r)
    <3>1. CASE stored[r.job] = "failed"
      <4>1. r.job \in Jobs
        BY <2>2 DEF Types, RequestsNamed
      <4>2. /\ version' = version /\ Answer(r, r.job, 0) /\ stored' \in [Jobs -> Stored]
            /\ stored'[r.job] # "absent"
            /\ \A i \in Jobs : stored[i] # "absent" => stored'[i] # "absent"
        BY <4>1, <2>2, <3>1 DEF HandleRetry, Types, TypeOK, Stored, JobStatus, InFlight
      <4>3. 0 <= version'[r.job]
        BY <1>1, <4>1, <4>2, WorkspaceBounds DEF Versions
      <4> QED
        BY <1>1, <4>1, <4>2, <4>3, AnswerTypes DEF Types, TypeOK
    <3>2. CASE stored[r.job] # "failed"
      BY <1>1, <1>2, <2>2, <3>2 DEF HandleRetry, Types, TypeOK
    <3> QED
      BY <3>1, <3>2
  <2>3. CASE r.kind \in {"edit", "exclude"} /\ HandleChange(r)
    <3>1. CASE r.job # NoJob /\ stored[r.job] = "completed"
      <4>1. r.job \in Jobs
        BY <3>1 DEF Types, TypeOK, Request
      <4>2. /\ version' = [version EXCEPT ![r.job] = version[r.job] + 1]
            /\ Answer(r, r.job, version[r.job] + 1) /\ stored' = stored
            /\ version[r.job] < MaxEdits
        BY <2>3, <3>1 DEF HandleChange
      <4>3. version[r.job] + 1 \in Versions
        BY <1>1, <4>1, <4>2, WorkspaceBounds DEF Versions
      <4>4. version' \in [Jobs -> Versions]
        BY <4>2, <4>3 DEF Types, TypeOK
      <4>5. \A i \in Jobs : version[i] <= version'[i]
        BY <1>1, <4>2 DEF Types, TypeOK
      <4>6. version'[r.job] = version[r.job] + 1 /\ version[r.job] + 1 \in Int
        BY <1>1, <4>1, <4>2 DEF Types, TypeOK
      <4>7. Answer(r, r.job, version[r.job] + 1) /\ stored' = stored
        BY <4>2
      <4>8. version[r.job] + 1 <= version'[r.job]
        BY <4>6
      <4>9. requests' \subseteq Request /\ answers' \subseteq Reply /\ RequestsNamed'
        BY <3>1, <4>1, <4>3, <4>4, <4>5, <4>7, <4>8, AnswerTypes
      <4>10. stored' \in [Jobs -> Stored]
        BY <4>7 DEF Types, TypeOK
      <4> QED
        BY <4>4, <4>5, <4>7, <4>9, <4>10
    <3>2. CASE ~(r.job # NoJob /\ stored[r.job] = "completed")
      BY <1>1, <1>2, <2>3, <3>2 DEF HandleChange, Types, TypeOK
    <3> QED
      BY <3>1, <3>2
  <2> QED
    BY <1>1, <1>4, <2>1, <2>2, <2>3 DEF Handle, Types, TypeOK
<1>5. CASE Handle(r)
  <2>1. UNCHANGED <<component, cache, fetches, pending, deaf, counters>>
    BY <1>5 DEF Handle
  <2>2. /\ requests' \subseteq Request /\ answers' \subseteq Reply /\ RequestsNamed'
        /\ stored' \in [Jobs -> Stored] /\ version' \in [Jobs -> Versions]
        /\ \A i \in Jobs : /\ version[i] <= version'[i]
                           /\ stored[i] # "absent" => stored'[i] # "absent"
    BY <1>4, <1>5
  <2>3. JobsExist'
    BY <2>1, <2>2 DEF Types, TypeOK, JobsExist, component, fetches
  <2>4. TypeOK'
    BY <2>1, <2>2 DEF Types, TypeOK, component, cache, fetches, counters
  <2> QED
    BY <2>2, <2>3, <2>4 DEF Types
<1> QED
  BY <1>3, <1>5

LEMMA PipelineTypes ==
    ASSUME Types, NEW j \in Jobs, RunJob(j) \/ PurgeJob(j)
    PROVE  Types' /\ version' = version
<1>1. /\ stored' \in [Jobs -> Stored]
      /\ \A i \in Jobs : stored[i] # "absent" => stored'[i] # "absent"
  BY DEF RunJob, PurgeJob, Types, TypeOK, Stored, JobStatus, InFlight, Final
<1>2. UNCHANGED <<version, component, cache, fetches, mutations, counters>>
  BY DEF RunJob, PurgeJob
<1>3. TypeOK'
  BY <1>1, <1>2 DEF Types, TypeOK, component, cache, fetches, mutations, counters
<1>4. RequestsNamed'
  BY <1>1, <1>2 DEF Types, RequestsNamed, mutations
<1>5. JobsExist'
  BY <1>1, <1>2 DEF Types, TypeOK, JobsExist, component, fetches
<1> QED
  BY <1>2, <1>3, <1>4, <1>5 DEF Types

LEMMA DeliverTypes ==
    ASSUME Types, NEW a \in answers, Deliver(a)
    PROVE  Types' /\ version' = version
<1>1. answers' \subseteq answers
  BY DEF Deliver
<1>2. pending' \in [Kinds -> 0..MaxRequests]
  BY WorkspaceBounds DEF Deliver, Types, TypeOK
<1>3. UNCHANGED <<server, mounted, link, requests, deaf, counters>>
  BY DEF Deliver
<1>4. ASSUME a.version # Refused
      PROVE  a.job \in Jobs /\ [job |-> a.job, version |-> a.version] \in JobResult
  <2>1. a.job \in Jobs
    BY <1>4 DEF Types, RequestsNamed
  <2>2. a.version \in Versions
    BY <1>4 DEF Types, TypeOK, Reply
  <2> QED
    BY <2>1, <2>2 DEF JobResult
<1>5. /\ jobId' \in Jobs \cup {NoJob} /\ shown' \in JobResult \cup {NoResult}
      /\ statusFetch' \in [Jobs -> JobStatus \cup {"idle", "asked"}] /\ resultError' \subseteq Jobs
      /\ UNCHANGED <<status, results, aged, resultFetch>>
  <2>1. CASE a.version # Refused /\ UploadDone(a)
    BY <1>4, <2>1, SubscribeTypes DEF UploadDone, Types, TypeOK
  <2>2. CASE RetryDone
    BY <2>2 DEF RetryDone, cache, fetches, Types, TypeOK
  <2>3. CASE a.version # Refused /\ ChangeDone(a)
    BY <1>4, <2>3 DEF ChangeDone, cache, fetches, Types, TypeOK
  <2>4. CASE UNCHANGED <<jobId, shown, cache, fetches>>
    BY <2>4 DEF cache, fetches, Types, TypeOK
  <2> QED
    BY <2>1, <2>2, <2>3, <2>4 DEF Deliver
<1>6. TypeOK'
  BY <1>1, <1>2, <1>3, <1>5 DEF Types, TypeOK, server, counters
<1>7. RequestsNamed'
  BY <1>1, <1>3 DEF Types, RequestsNamed, server
<1>8. JobsExist'
  <2>1. stored' = stored
    BY <1>3 DEF server
  <2>2. CASE a.version # Refused /\ UploadDone(a)
    <3>1. stored[a.job] # "absent" /\ a.job \in Jobs
      BY <2>2 DEF Types, RequestsNamed
    <3>2. jobId' = a.job /\ Subscribe(a.job)
      BY <2>2 DEF UploadDone
    <3> QED
      BY <2>1, <3>1, <3>2, SubscribeTypes DEF Types, JobsExist
  <2>3. CASE UNCHANGED <<jobId, statusFetch>>
    BY <2>1, <2>3 DEF Types, JobsExist
  <2> QED
    BY <2>2, <2>3 DEF Deliver, RetryDone, ChangeDone, fetches
<1> QED
  BY <1>3, <1>6, <1>7, <1>8 DEF Types, server

Fetching(j) ==
    \/ AskStatus(j) \/ AnswerStatus(j) \/ ReceiveStatus(j) \/ StatusFails(j)
    \/ AskResult(j) \/ AnswerResult(j) \/ ReceiveResult(j) \/ ResultFails(j)
    \/ ShowResult(j)
    \/ \E kind \in {"status", "result"} : Age(kind, j)
    \/ Collect(j)

LEMMA FetchTypes ==
    ASSUME Types, NEW j \in Jobs, Fetching(j)
    PROVE  Types' /\ version' = version
<1>1. UNCHANGED <<server, mounted, link, jobId, mutations, sent>>
  BY DEF Fetching, AskStatus, AnswerStatus, ReceiveStatus, StatusFails, AskResult, AnswerResult,
         ReceiveResult, ResultFails, ShowResult, Age, Collect, component, counters
<1>2. failures' \in 0..MaxFailures
  BY WorkspaceBounds DEF Fetching, AskStatus, AnswerStatus, ReceiveStatus, StatusFails, AskResult,
         AnswerResult, ReceiveResult, ResultFails, ShowResult, Age, Collect, counters, Types, TypeOK
<1>3. shown' \in JobResult \cup {NoResult}
  <2>1. CASE ShowResult(j)
    <3>1. results[j] \in Versions
      BY <2>1 DEF ShowResult, Types, TypeOK
    <3>2. [job |-> j, version |-> results[j]] \in JobResult
      BY <3>1 DEF JobResult
    <3> QED
      BY <2>1, <3>2 DEF ShowResult
  <2>2. CASE ~ShowResult(j)
    BY <2>2 DEF Fetching, AskStatus, AnswerStatus, ReceiveStatus, StatusFails, AskResult,
         AnswerResult, ReceiveResult, ResultFails, Age, Collect, component, Types, TypeOK
  <2> QED
    BY <2>1, <2>2
<1>4. /\ statusFetch' \in [Jobs -> JobStatus \cup {"idle", "asked"}]
      /\ \A i \in Jobs : statusFetch'[i] # "idle" => stored[i] # "absent"
  <2>1. CASE AskStatus(j)
    <3>1. jobId = j /\ j # NoJob
      BY <2>1, NoJobIsNoJob DEF AskStatus, Polls, StatusEnabled
    <3> QED
      BY <2>1, <3>1 DEF AskStatus, Types, TypeOK, JobsExist
  <2>2. CASE AnswerStatus(j)
    <3>1. stored[j] \in JobStatus \cup {"purged"}
      BY <2>2 DEF AnswerStatus, Types, TypeOK, JobsExist, Stored
    <3> QED
      BY <2>2, <3>1 DEF AnswerStatus, Types, TypeOK, JobsExist
  <2>3. CASE ReceiveStatus(j) \/ StatusFails(j)
    BY <2>3 DEF ReceiveStatus, StatusFails, Types, TypeOK, JobsExist
  <2>4. CASE statusFetch' = statusFetch
    BY <2>4 DEF Types, TypeOK, JobsExist
  <2> QED
    BY <2>1, <2>2, <2>3, <2>4 DEF Fetching, AskResult, AnswerResult, ReceiveResult, ResultFails,
         ShowResult, Age, Collect, fetches
<1>5. status' \in [Jobs -> JobStatus \cup {"unknown"}]
  BY DEF Fetching, AskStatus, AnswerStatus, ReceiveStatus, StatusFails, AskResult,
         AnswerResult, ReceiveResult, ResultFails, ShowResult, Age, Collect, cache, Types, TypeOK
<1>6. results' \in [Jobs -> Versions \cup {Unknown}]
  BY DEF Fetching, AskStatus, AnswerStatus, ReceiveStatus, StatusFails, AskResult,
         AnswerResult, ReceiveResult, ResultFails, ShowResult, Age, Collect, cache, Types, TypeOK
<1>7. resultFetch' \in [Jobs -> Versions \cup {NoFetch, Awaited}]
  BY DEF Fetching, AskStatus, AnswerStatus, ReceiveStatus, StatusFails, AskResult,
         AnswerResult, ReceiveResult, ResultFails, ShowResult, Age, Collect, fetches, Types, TypeOK
<1>8. resultError' \subseteq Jobs
  BY DEF Fetching, AskStatus, AnswerStatus, ReceiveStatus, StatusFails, AskResult,
         AnswerResult, ReceiveResult, ResultFails, ShowResult, Age, Collect, cache, Types, TypeOK
<1>9. aged' \subseteq {"status", "result"} \X Jobs
  BY DEF Fetching, AskStatus, AnswerStatus, ReceiveStatus, StatusFails, AskResult,
         AnswerResult, ReceiveResult, ResultFails, ShowResult, Age, Collect, cache, Types, TypeOK
<1>10. TypeOK'
  BY <1>1, <1>2, <1>3, <1>4, <1>5, <1>6, <1>7, <1>8, <1>9 DEF Types, TypeOK, server, mutations
<1>11. RequestsNamed'
  BY <1>1 DEF Types, RequestsNamed, server, mutations
<1>12. JobsExist'
  BY <1>1, <1>4 DEF Types, JobsExist, server
<1> QED
  BY <1>1, <1>10, <1>11, <1>12 DEF Types, server

\* The steps of the browser and the server, one lemma's worth each.
LEMMA StepCases ==
    ASSUME [Next]_vars
    PROVE  \/ \/ \E j \in Jobs \cup {NoJob} : Open(j)
              \/ \E j \in Jobs : FollowLink(j)
              \/ NewUpload \/ Leave
           \/ Upload \/ Retry \/ SaveEdits \/ ExcludeRows
           \/ \E r \in requests : Handle(r) \/ RequestFails(r)
           \/ \E j \in Jobs : RunJob(j) \/ PurgeJob(j)
           \/ \E a \in answers : Deliver(a)
           \/ \E j \in Jobs : Fetching(j)
           \/ UNCHANGED vars
BY Zenon DEF Next, User, Server, Client, Fetching

LEMMA TypeStep == ASSUME Types, [Next]_vars PROVE Types'
<1>1. CASE \/ \E j \in Jobs \cup {NoJob} : Open(j)
           \/ \E j \in Jobs : FollowLink(j)
           \/ NewUpload \/ Leave
  BY <1>1, NavigationTypes
<1>2. CASE Upload \/ Retry \/ SaveEdits \/ ExcludeRows
  <2>1. TypeOK
    BY DEF Types
  <2> QED
    BY <1>2, <2>1, UserSends, SendTypes
<1>3. CASE \E r \in requests : Handle(r) \/ RequestFails(r)
  BY <1>3, HandleTypes
<1>4. CASE \E j \in Jobs : RunJob(j) \/ PurgeJob(j)
  BY <1>4, PipelineTypes
<1>5. CASE \E a \in answers : Deliver(a)
  BY <1>5, DeliverTypes
<1>6. CASE \E j \in Jobs : Fetching(j)
  BY <1>6, FetchTypes
<1>7. CASE UNCHANGED vars
  BY <1>7 DEF vars, server, component, cache, fetches, mutations, counters,
              Types, TypeOK, RequestsNamed, JobsExist
<1> QED
  BY <1>1, <1>2, <1>3, <1>4, <1>5, <1>6, <1>7, StepCases

LEMMA TypesHold == Spec => []Types
<1>1. Init => Types
  BY InitTypes DEF StoredInv
<1>2. Types /\ [Next]_vars => Types'
  BY TypeStep
<1> QED
  BY <1>1, <1>2, PTL DEF Spec

\* Every variable of the workspace keeps its type: in particular no answer opens a
\* job that does not exist and no view has a version the server cannot hold.
THEOREM WorkspaceTypes == Spec => []TypeOK
<1>1. Types => TypeOK
  BY DEF Types
<1> QED
  BY <1>1, TypesHold, PTL

-----------------------------------------------------------------------------
(* What is shown is stored.                                                *)

\* What is shown or cached stays within the version as long as the version grows.
LEMMA GrowthKeepsShown ==
    ASSUME TypeOK, TypeOK', ShownIsStored,
           \A i \in Jobs : version[i] <= version'[i],
           UNCHANGED <<results, resultFetch>>, shown' = shown \/ shown' = NoResult
    PROVE  ShownIsStored'
<1>1. \A i \in Jobs : /\ version[i] \in Int /\ version'[i] \in Int
                      /\ results[i] \in Int /\ resultFetch[i] \in Int
  BY SpecialValues DEF TypeOK
<1>2. ASSUME NEW i \in Jobs PROVE results'[i] <= version'[i] /\ resultFetch'[i] <= version'[i]
  <2>1. results[i] <= version[i] /\ resultFetch[i] <= version[i]
    BY DEF ShownIsStored
  <2> QED
    BY <1>1, <2>1
<1>3. ASSUME shown' # NoResult PROVE shown'.version <= version'[shown'.job]
  <2>1. shown' = shown /\ shown \in JobResult
    BY <1>3 DEF TypeOK
  <2>2. shown.job \in Jobs /\ shown.version \in Int
    BY <2>1, SpecialValues DEF JobResult
  <2>3. shown.version <= version[shown.job]
    BY <1>3, <2>1 DEF ShownIsStored
  <2> QED
    BY <1>1, <2>1, <2>2, <2>3
<1> QED
  BY <1>2, <1>3 DEF ShownIsStored

LEMMA FetchShown ==
    ASSUME Types, TypeOK', ShownIsStored, NEW j \in Jobs, Fetching(j)
    PROVE  ShownIsStored'
<1>1. version' = version
  BY FetchTypes
<1>2. \A i \in Jobs : /\ version[i] \in Int /\ 0 <= version[i]
                      /\ results[i] \in Int /\ resultFetch[i] \in Int
                      /\ results[i] <= version[i] /\ resultFetch[i] <= version[i]
  BY SpecialValues, WorkspaceBounds DEF Types, TypeOK, ShownIsStored, Versions
<1>3. ASSUME shown' = shown, NEW i \in Jobs
      PROVE  shown' # NoResult => shown'.version <= version'[shown'.job]
  BY <1>1, <1>3 DEF ShownIsStored
<1>4. CASE AskStatus(j) \/ AnswerStatus(j) \/ ReceiveStatus(j) \/ StatusFails(j)
           \/ \E kind \in {"status", "result"} : Age(kind, j)
  <2>1. UNCHANGED <<results, resultFetch, shown>>
    BY <1>4 DEF AskStatus, AnswerStatus, ReceiveStatus, StatusFails, Age, cache, fetches, component
  <2> QED
    BY <1>1, <2>1 DEF ShownIsStored
<1>5. CASE AskResult(j) \/ AnswerResult(j) \/ ResultFails(j)
  <2>1. UNCHANGED <<results, shown>>
    BY <1>5 DEF AskResult, AnswerResult, ResultFails, cache, component
  <2>2. \/ resultFetch' = [resultFetch EXCEPT ![j] = version[j]]
        \/ resultFetch' = [resultFetch EXCEPT ![j] = Awaited]
        \/ resultFetch' = [resultFetch EXCEPT ![j] = NoFetch]
    BY <1>5 DEF AskResult, AnswerResult, ResultFails
  <2>3. \A i \in Jobs : resultFetch'[i] <= version[i]
    BY <1>2, <2>2 DEF Types, TypeOK, Awaited, NoFetch
  <2> QED
    BY <1>1, <2>1, <2>3 DEF ShownIsStored
<1>6. CASE ReceiveResult(j) \/ Collect(j)
  <2>1. shown' = shown
    BY <1>6 DEF ReceiveResult, Collect, component
  <2>2. \A i \in Jobs : results'[i] <= version[i]
    BY <1>2, <1>6 DEF ReceiveResult, Collect, Types, TypeOK, Unknown
  <2>3. \A i \in Jobs : resultFetch'[i] <= version[i]
    BY <1>2, <1>6 DEF ReceiveResult, Collect, Types, TypeOK, fetches, NoFetch
  <2> QED
    BY <1>1, <2>1, <2>2, <2>3 DEF ShownIsStored
<1>7. CASE ShowResult(j)
  <2> DEFINE r == [job |-> j, version |-> results[j]]
  <2>1. r.job = j /\ r.version = results[j]
    OBVIOUS
  <2>2. shown' = r /\ UNCHANGED results
    BY <1>7 DEF ShowResult, cache
  <2>3. \A i \in Jobs : resultFetch'[i] <= version[i]
    BY <1>2, <1>7 DEF ShowResult, Types, TypeOK, Awaited
  <2> HIDE DEF r
  <2> QED
    BY <1>1, <1>2, <2>1, <2>2, <2>3 DEF ShownIsStored
<1> QED
  BY <1>4, <1>5, <1>6, <1>7 DEF Fetching

LEMMA DeliverShown ==
    ASSUME Types, TypeOK', ShownIsStored, NEW a \in answers, Deliver(a)
    PROVE  ShownIsStored'
<1>1. version' = version
  BY DeliverTypes
<1>2. \A i \in Jobs : version[i] \in Int
  BY SpecialValues DEF Types, TypeOK
<1>3. UNCHANGED <<results, resultFetch>>
  <2>1. CASE a.version # Refused /\ UploadDone(a)
    BY <2>1 DEF UploadDone, Subscribe
  <2>2. CASE UNCHANGED <<cache, fetches>>
    BY <2>2 DEF cache, fetches
  <2> QED
    BY <2>1, <2>2 DEF Deliver, RetryDone, ChangeDone
<1>4. CASE a.version # Refused /\ ChangeDone(a)
  <2> DEFINE r == [job |-> a.job, version |-> a.version]
  <2>1. r.job = a.job /\ r.version = a.version
    OBVIOUS
  <2>2. shown' = r /\ a.version <= version[a.job]
    BY <1>4 DEF ChangeDone, Types, RequestsNamed
  <2> HIDE DEF r
  <2> QED
    BY <1>1, <1>3, <2>1, <2>2 DEF ShownIsStored
<1>5. CASE shown' = shown \/ shown' = NoResult
  <2>1. \A i \in Jobs : version[i] <= version'[i]
    BY <1>1, <1>2
  <2>2. TypeOK
    BY DEF Types
  <2> QED
    BY <1>3, <1>5, <2>1, <2>2, GrowthKeepsShown
<1> QED
  BY <1>4, <1>5 DEF Deliver, UploadDone, RetryDone

LEMMA ShownStep == ASSUME StoredInv, [Next]_vars PROVE StoredInv'
<1>1. Types /\ ShownIsStored /\ TypeOK
  BY DEF StoredInv, Types
<1>2. Types' /\ TypeOK'
  BY <1>1, TypeStep DEF Types
<1> SUFFICES ShownIsStored'
  BY <1>2 DEF StoredInv
<1>3. \A i \in Jobs : version[i] \in Int
  BY <1>1, SpecialValues DEF TypeOK
<1>4. ASSUME version' = version, UNCHANGED <<results, resultFetch>>,
             shown' = shown \/ shown' = NoResult
      PROVE  ShownIsStored'
  <2>1. \A i \in Jobs : version[i] <= version'[i]
    BY <1>3, <1>4
  <2> QED
    BY <1>1, <1>2, <1>4, <2>1, GrowthKeepsShown
<1>5. CASE \/ \E j \in Jobs \cup {NoJob} : Open(j)
           \/ \E j \in Jobs : FollowLink(j)
           \/ NewUpload \/ Leave
  <2>1. /\ version' = version /\ UNCHANGED <<results, resultFetch>>
        /\ shown' = shown \/ shown' = NoResult
    BY <1>5 DEF Open, FollowLink, NewUpload, Leave, Subscribe, server, cache, fetches
  <2> QED
    BY <1>4, <2>1
<1>6. CASE Upload \/ Retry \/ SaveEdits \/ ExcludeRows
  <2>1. PICK kind \in Kinds, j, from \in Jobs \cup {NoJob} : Send(kind, j, from)
    BY <1>1, <1>6, UserSends
  <2>2. UNCHANGED <<version, results, resultFetch, shown>>
    BY <2>1 DEF Send, server, cache, fetches, component
  <2> QED
    BY <1>4, <2>2
<1>7. CASE \E r \in requests : Handle(r) \/ RequestFails(r)
  <2>1. \A i \in Jobs : version[i] <= version'[i]
    BY <1>1, <1>7, HandleTypes
  <2>2. UNCHANGED <<results, resultFetch, shown>>
    BY <1>7 DEF Handle, RequestFails, cache, fetches, component
  <2> QED
    BY <1>1, <1>2, <2>1, <2>2, GrowthKeepsShown
<1>8. CASE \E j \in Jobs : RunJob(j) \/ PurgeJob(j)
  <2>1. UNCHANGED <<version, results, resultFetch, shown>>
    BY <1>8 DEF RunJob, PurgeJob, cache, fetches, component
  <2> QED
    BY <1>4, <2>1
<1>9. CASE \E a \in answers : Deliver(a)
  BY <1>1, <1>2, <1>9, DeliverShown
<1>10. CASE \E j \in Jobs : Fetching(j)
  BY <1>1, <1>2, <1>10, FetchShown
<1>11. CASE UNCHANGED vars
  BY <1>4, <1>11 DEF vars, server, component, cache, fetches
<1> QED
  BY <1>5, <1>6, <1>7, <1>8, <1>9, <1>10, <1>11, StepCases

\* Whatever answers are late, lost or refused, the browser never shows or caches a
\* version of a job that the server does not have.
THEOREM ShownResultsAreStored == Spec => []ShownIsStored
<1>1. StoredInv => ShownIsStored
  BY DEF StoredInv
<1> QED
  BY <1>1, InitTypes, ShownStep, PTL DEF Spec

-----------------------------------------------------------------------------
(* A completed job stays completed.                                        *)

Done == {"completed", "purged"}

\* The server never takes a job back from "completed" or from its purge.
LEMMA DoneStays ==
    ASSUME Types, [Next]_vars, NEW j \in Jobs, stored[j] \in Done
    PROVE  stored'[j] \in Done
<1>1. CASE stored' = stored
  BY <1>1
<1>2. ASSUME NEW r \in requests, Handle(r) PROVE stored'[j] \in Done
  <2>1. CASE \E i \in Jobs : HandleUpload(r, i)
    BY <2>1 DEF HandleUpload, Types, TypeOK, Done
  <2>2. CASE r.kind = "retry" /\ HandleRetry(r)
    BY <2>2 DEF HandleRetry, Refuse, server, Types, TypeOK, RequestsNamed, Done
  <2>3. CASE HandleChange(r)
    BY <2>3 DEF HandleChange, Refuse, server
  <2> QED
    BY <1>2, <2>1, <2>2, <2>3 DEF Handle
<1>3. ASSUME NEW i \in Jobs, RunJob(i) \/ PurgeJob(i) PROVE stored'[j] \in Done
  BY <1>3 DEF RunJob, PurgeJob, Types, TypeOK, Done
<1>4. ASSUME NEW r \in requests, RequestFails(r) PROVE stored' = stored
  BY <1>4 DEF RequestFails, Refuse, server
<1>5. ASSUME \/ \E i \in Jobs \cup {NoJob} : Open(i)
             \/ \E i \in Jobs : FollowLink(i)
             \/ NewUpload \/ Leave
      PROVE  stored' = stored
  BY <1>5 DEF Open, FollowLink, NewUpload, Leave, server
<1>6. ASSUME Upload \/ Retry \/ SaveEdits \/ ExcludeRows PROVE stored' = stored
  BY <1>6, UserSends DEF Types, Send, server
<1>7. ASSUME NEW a \in answers, Deliver(a) PROVE stored' = stored
  BY <1>7 DEF Deliver, server
<1>8. ASSUME NEW i \in Jobs, Fetching(i) PROVE stored' = stored
  BY <1>8 DEF Fetching, AskStatus, AnswerStatus, ReceiveStatus, StatusFails, AskResult,
      AnswerResult, ReceiveResult, ResultFails, ShowResult, Age, Collect, server
<1>9. CASE UNCHANGED vars
  BY <1>9 DEF vars, server
<1> QED
  BY <1>1, <1>2, <1>3, <1>4, <1>5, <1>6, <1>7, <1>8, <1>9, StepCases

\* What the browser learns of a job, it learns from its status or knows already.
LEMMA LearnsCompleted ==
    ASSUME Types, [Next]_vars, NEW j \in Jobs,
           status'[j] = "completed" \/ statusFetch'[j] = "completed" \/ resultFetch'[j] # NoFetch
    PROVE  \/ stored[j] \in Done \/ status[j] = "completed"
           \/ statusFetch[j] = "completed" \/ resultFetch[j] # NoFetch
<1> DEFINE Learnt == \/ stored[j] \in Done \/ status[j] = "completed"
                     \/ statusFetch[j] = "completed" \/ resultFetch[j] # NoFetch
<1> SUFFICES Learnt
  OBVIOUS
<1>1. CASE UNCHANGED <<status, statusFetch, resultFetch>>
  BY <1>1
<1>2. ASSUME NEW i \in Jobs \cup {NoJob}, Subscribe(i) PROVE Learnt
  BY <1>2 DEF Subscribe, Types, TypeOK
<1>3. CASE \E i \in Jobs : Fetching(i)
  <2>1. PICK i \in Jobs : Fetching(i)
    BY <1>3
  <2>2. CASE i # j
    BY <2>1, <2>2 DEF Fetching, AskStatus, AnswerStatus, ReceiveStatus, StatusFails, AskResult,
        AnswerResult, ReceiveResult, ResultFails, ShowResult, Age, Collect, cache, fetches,
        Types, TypeOK
  <2>3. CASE AskStatus(j) \/ ReceiveStatus(j) \/ StatusFails(j)
    BY <2>3 DEF AskStatus, ReceiveStatus, StatusFails, cache, fetches, Types, TypeOK
  <2>4. CASE AnswerStatus(j)
    BY <2>4 DEF AnswerStatus, cache, fetches, Types, TypeOK, Done
  <2>5. CASE AskResult(j) \/ ShowResult(j)
    <3>1. status[j] = "completed"
      BY <2>5 DEF AskResult, ShowResult, ResultEnabled, StatusEnabled, JobCompleted
    <3> QED
      BY <3>1
  <2>6. CASE AnswerResult(j)
    BY <2>6 DEF AnswerResult, Done
  <2>7. CASE ReceiveResult(j) \/ ResultFails(j)
    BY <2>7 DEF ReceiveResult, ResultFails, cache, fetches, Types, TypeOK
  <2>8. CASE \E kind \in {"status", "result"} : Age(kind, j)
    BY <1>1, <2>8 DEF Age, fetches
  <2>9. CASE Collect(j)
    BY <2>9 DEF Collect, fetches, Types, TypeOK
  <2> QED
    BY <2>1, <2>2, <2>3, <2>4, <2>5, <2>6, <2>7, <2>8, <2>9 DEF Fetching
<1>4. CASE \/ \E i \in Jobs \cup {NoJob} : Open(i)
           \/ \E i \in Jobs : FollowLink(i)
           \/ NewUpload \/ Leave
  BY <1>1, <1>2, <1>4 DEF Open, FollowLink, NewUpload, Leave, cache, fetches
<1>5. CASE Upload \/ Retry \/ SaveEdits \/ ExcludeRows
  <2>1. PICK kind \in Kinds, i, from \in Jobs \cup {NoJob} : Send(kind, i, from)
    BY <1>5, UserSends DEF Types
  <2> QED
    BY <1>1, <2>1 DEF Send, cache, fetches
<1>6. CASE \/ \E r \in requests : Handle(r) \/ RequestFails(r)
           \/ \E i \in Jobs : RunJob(i) \/ PurgeJob(i)
  BY <1>1, <1>6 DEF Handle, RequestFails, RunJob, PurgeJob, cache, fetches
<1>7. CASE \E a \in answers : Deliver(a)
  <2>1. PICK a \in answers : Deliver(a)
    BY <1>7
  <2>2. CASE a.version # Refused /\ UploadDone(a)
    BY <1>2, <2>2 DEF UploadDone, Types, RequestsNamed
  <2> QED
    BY <1>1, <2>1, <2>2 DEF Deliver, RetryDone, ChangeDone, cache, fetches
<1>8. CASE UNCHANGED vars
  BY <1>1, <1>8 DEF vars, cache, fetches
<1> QED
  BY <1>3, <1>4, <1>5, <1>6, <1>7, <1>8, StepCases

\* A browser that has read "completed" is never wrong about a job that still exists,
\* whatever is polled, retried or purged meanwhile: it may stop polling for good.
THEOREM CompletedStaysTrue == Spec => []CompletedIsFinal
<1>1. Init => CompletedIsFinal
  BY DEF Init, CompletedIsFinal
<1>2. Types /\ CompletedIsFinal /\ [Next]_vars => CompletedIsFinal'
  <2> SUFFICES ASSUME Types, CompletedIsFinal, [Next]_vars, NEW j \in Jobs,
                      \/ status'[j] = "completed" \/ statusFetch'[j] = "completed"
                      \/ resultFetch'[j] # NoFetch
               PROVE  stored'[j] \in Done
    BY DEF CompletedIsFinal, Done
  <2>1. stored[j] \in Done
    BY LearnsCompleted DEF CompletedIsFinal, Done
  <2> QED
    BY <2>1, DoneStays
<1> QED
  BY <1>1, <1>2, TypesHold, PTL DEF Spec

-----------------------------------------------------------------------------
(* The table is the one of the open job, if nobody navigates meanwhile.    *)

Out == requests \cup {a.to : a \in answers}

\* Every request is out once, as itself or as its answer; a page that is left
\* listens to none.
NumberedOnce ==
    /\ \A x \in Out : x.id <= sent
    /\ \A x, y \in Out : x.id = y.id => x = y
    /\ \A a \in answers : a.to \notin requests
    /\ \A a, b \in answers : a.to = b.to => a = b
    /\ mounted \/ deaf = sent
    /\ deaf <= sent

\* While an upload is out no job is open; a change that is out is one of the open job.
OwnJob ==
    \A x \in Out : Alive(x.id) =>
        /\ x.kind = "upload" => jobId = NoJob /\ shown = NoResult /\ pending["upload"] = x.id
        /\ x.kind \in {"edit", "exclude"} => jobId # NoJob /\ x.job = jobId

FocusInv == Types /\ NumberedOnce /\ OwnJob /\ ViewIsOfOpenJob

LEMMA OutTypes ==
    ASSUME Types
    PROVE  /\ Out \subseteq Request
           /\ \A x \in Out : x.id \in Int /\ x.id > 0 /\ x.kind \in Kinds
           /\ sent \in Int /\ deaf \in Int /\ sent >= 0
<1>1. \A a \in answers : a.to \in Request
  BY DEF Types, TypeOK, Reply
<1>2. Out \subseteq Request
  BY <1>1 DEF Out, Types, TypeOK
<1>3. \A x \in Request : x.id \in Int /\ x.id > 0 /\ x.kind \in Kinds
  BY WorkspaceBounds DEF Request, Ids
<1> QED
  BY <1>2, <1>3, WorkspaceBounds DEF Types, TypeOK

\* An answer takes the place of its request.
LEMMA AnswerKeepsOut ==
    ASSUME NumberedOnce, NEW r \in requests, NEW j, NEW v, Answer(r, j, v)
    PROVE  /\ Out' = Out
           /\ \A a \in answers' : a.to \notin requests'
           /\ \A a, b \in answers' : a.to = b.to => a = b
<1> DEFINE new == [to |-> r, job |-> j, version |-> v]
<1>1. new.to = r
  OBVIOUS
<1>2. requests' = requests \ {r} /\ answers' = answers \cup {new}
  BY DEF Answer
<1> HIDE DEF new
<1>3. Out' = Out
  BY <1>1, <1>2 DEF Out
<1> QED
  BY <1>1, <1>2, <1>3 DEF NumberedOnce

LEMMA HandleAnswers ==
    ASSUME NEW r \in requests, Handle(r) \/ RequestFails(r)
    PROVE  /\ \E j, v : Answer(r, j, v)
           /\ UNCHANGED <<mounted, jobId, shown, pending, deaf, sent>>
<1>1. UNCHANGED <<mounted, jobId, shown, pending, deaf, sent>>
  BY DEF Handle, RequestFails, component, counters
<1>2. \E j, v : Answer(r, j, v)
  BY DEF Handle, HandleUpload, HandleRetry, HandleChange, RequestFails, Refuse
<1> QED
  BY <1>1, <1>2

\* Sending adds one request, with the next number, from a mounted page.
LEMMA SendNumbers ==
    ASSUME Types, NumberedOnce, mounted, NEW kind \in Kinds, NEW j, NEW from, Send(kind, j, from)
    PROVE  /\ NumberedOnce'
           /\ \E x \in Out' : /\ Out' = Out \cup {x} /\ x.id = sent + 1
                              /\ x.kind = kind /\ x.job = j
<1> DEFINE x == [id |-> sent + 1, kind |-> kind, job |-> j, from |-> from]
<1>1. x.id = sent + 1 /\ x.kind = kind /\ x.job = j
  OBVIOUS
<1>2. /\ requests' = requests \cup {x} /\ answers' = answers
      /\ sent' = sent + 1 /\ deaf' = deaf /\ mounted' = mounted
  BY DEF Send, component
<1> HIDE DEF x
<1>3. Out' = Out \cup {x}
  BY <1>2 DEF Out
<1>4. \A y \in Out : y.id \in Int /\ y.id <= sent
  BY OutTypes DEF NumberedOnce
<1>5. \A y \in Out : y.id # x.id /\ y # x
  BY <1>1, <1>4, OutTypes
<1>6. sent \in Int /\ deaf \in Int /\ deaf <= sent
  BY OutTypes DEF NumberedOnce
<1>7. \A a \in answers : a.to \in Out
  BY DEF Out
<1>8. /\ \A y \in Out' : y.id <= sent'
      /\ \A y, z \in Out' : y.id = z.id => y = z
  BY <1>1, <1>2, <1>3, <1>4, <1>5, <1>6 DEF NumberedOnce
<1>9. /\ \A a \in answers' : a.to \notin requests'
      /\ \A a, b \in answers' : a.to = b.to => a = b
  BY <1>2, <1>5, <1>7 DEF NumberedOnce
<1>10. deaf' <= sent'
  BY <1>2, <1>6
<1>11. mounted' \/ deaf' = sent'
  BY <1>2
<1> QED
  BY <1>1, <1>3, <1>8, <1>9, <1>10, <1>11 DEF NumberedOnce

\* A delivered answer is out no more.
LEMMA DeliverNumbers ==
    ASSUME NumberedOnce, NEW a \in answers, Deliver(a)
    PROVE  NumberedOnce' /\ Out' = Out \ {a.to} /\ a.to \in Out
<1>1. answers' = answers \ {a} /\ UNCHANGED <<requests, mounted, deaf, sent>>
  BY DEF Deliver, counters
<1>2. a.to \in Out
  BY DEF Out
<1>3. Out' = Out \ {a.to}
  BY <1>1 DEF Out, NumberedOnce
<1> QED
  BY <1>1, <1>2, <1>3 DEF NumberedOnce

\* Nothing that travels is listened to: the numbers of what is out are all deaf.
LEMMA NothingListened ==
    ASSUME Types, NumberedOnce, Quiet \/ deaf = sent
    PROVE  \A x \in Out : ~Alive(x.id)
<1>1. CASE Quiet
  BY <1>1 DEF Quiet, Out
<1>2. CASE deaf = sent
  BY <1>2, OutTypes DEF NumberedOnce, Alive
<1> QED
  BY <1>1, <1>2

LEMMA FocusNavigation ==
    ASSUME FocusInv, BackWhileBusy = FALSE,
           \/ \E j \in Jobs \cup {NoJob} : Open(j)
           \/ \E j \in Jobs : FollowLink(j)
           \/ NewUpload \/ Leave
    PROVE  NumberedOnce' /\ OwnJob' /\ ViewIsOfOpenJob'
<1>1. /\ UNCHANGED <<requests, answers, sent>> /\ Out' = Out
      /\ deaf' = deaf \/ deaf' = sent
  BY DEF Open, FollowLink, NewUpload, Leave, mutations, counters, Out
<1>2. deaf' = sent \/ (deaf' = deaf /\ (mounted' \/ mounted' = mounted))
  BY Zenon DEF Open, FollowLink, NewUpload, Leave, mutations
<1>3. NumberedOnce'
  <2>1. deaf' <= sent' /\ (mounted' \/ deaf' = sent')
    BY <1>1, <1>2, OutTypes DEF FocusInv, NumberedOnce
  <2> QED
    BY <1>1, <2>1 DEF FocusInv, NumberedOnce
<1>4. Quiet \/ deaf = sent \/ deaf' = sent
  BY Zenon DEF Open, FollowLink, NewUpload, Leave, FocusInv, NumberedOnce
<1>5. \A x \in Out : ~(x.id > deaf')
  <2>1. CASE Quiet \/ deaf = sent
    <3>1. \A x \in Out : ~(x.id > deaf)
      BY <2>1, NothingListened DEF FocusInv, Alive
    <3> QED
      BY <1>1, <3>1, OutTypes DEF FocusInv, NumberedOnce
  <2>2. CASE deaf' = sent
    BY <2>2, OutTypes DEF FocusInv, NumberedOnce
  <2> QED
    BY <1>4, <2>1, <2>2
<1>6. OwnJob'
  BY <1>1, <1>5 DEF OwnJob, Alive
<1>7. ViewIsOfOpenJob'
  BY DEF Open, FollowLink, NewUpload, Leave, FocusInv, ViewIsOfOpenJob
<1> QED
  BY <1>3, <1>6, <1>7

LEMMA FocusSends ==
    ASSUME FocusInv, Upload \/ Retry \/ SaveEdits \/ ExcludeRows
    PROVE  NumberedOnce' /\ OwnJob' /\ ViewIsOfOpenJob'
<1>1. mounted /\ Types /\ NumberedOnce
  BY DEF FocusInv, Upload, Retry, SaveEdits, ExcludeRows, ShowsUpload, ShowsRetry, ShowsResult
<1>2. ASSUME NEW kind \in Kinds, NEW j, NEW from, Send(kind, j, from),
             kind = "upload" => jobId = NoJob /\ shown = NoResult /\ pending["upload"] = 0,
             kind \in {"edit", "exclude"} => jobId # NoJob /\ j = jobId
      PROVE  NumberedOnce' /\ OwnJob' /\ ViewIsOfOpenJob'
  <2>1. PICK x \in Out' : /\ Out' = Out \cup {x} /\ x.id = sent + 1
                          /\ x.kind = kind /\ x.job = j
    BY <1>1, <1>2, SendNumbers
  <2>2. /\ UNCHANGED <<jobId, shown, deaf>>
        /\ pending' = [pending EXCEPT ![kind] = sent + 1]
    BY <1>2 DEF Send, component
  <2>3. ASSUME NEW y \in Out, y.id > deaf
        PROVE  /\ y.kind = "upload" => /\ jobId = NoJob /\ shown = NoResult
                                       /\ pending'["upload"] = y.id
               /\ y.kind \in {"edit", "exclude"} => jobId # NoJob /\ y.job = jobId
    <3>1. /\ y.kind = "upload" => /\ jobId = NoJob /\ shown = NoResult
                                  /\ pending["upload"] = y.id
          /\ y.kind \in {"edit", "exclude"} => jobId # NoJob /\ y.job = jobId
      BY <2>3 DEF FocusInv, OwnJob, Alive
    <3>2. y.id > 0
      BY <1>1, OutTypes
    <3>3. y.kind = "upload" => kind # "upload"
      BY <1>2, <3>1, <3>2
    <3>4. kind # "upload" => pending'["upload"] = pending["upload"]
      BY <1>1, <2>2 DEF Types, TypeOK, Kinds
    <3> QED
      BY <3>1, <3>3, <3>4
  <2>4. kind = "upload" => pending'["upload"] = x.id
    BY <1>1, <2>1, <2>2 DEF Types, TypeOK
  <2>5. OwnJob'
    BY <1>2, <2>1, <2>2, <2>3, <2>4 DEF OwnJob, Alive
  <2>6. NumberedOnce'
    BY <1>1, <1>2, SendNumbers
  <2>7. ViewIsOfOpenJob'
    BY <2>2 DEF FocusInv, ViewIsOfOpenJob
  <2> QED
    BY <2>5, <2>6, <2>7
<1>3. CASE Upload
  BY <1>2, <1>3 DEF Upload, ShowsUpload, IsPending, uploadFile, Kinds
<1>4. CASE Retry
  BY <1>2, <1>4 DEF Retry, retryJob, Kinds
<1>5. ASSUME ShowsResult PROVE jobId # NoJob
  BY <1>1, <1>5, NoJobIsNoJob
     DEF ShowsResult, FocusInv, ViewIsOfOpenJob, Types, TypeOK, JobResult
<1>6. CASE SaveEdits
  BY <1>2, <1>5, <1>6 DEF SaveEdits, saveEditedCells, Kinds
<1>7. CASE ExcludeRows
  BY <1>2, <1>5, <1>7 DEF ExcludeRows, setRowExclusion, Kinds
<1> QED
  BY <1>3, <1>4, <1>6, <1>7

LEMMA FocusAnswers ==
    ASSUME FocusInv, NEW r \in requests, Handle(r) \/ RequestFails(r)
    PROVE  NumberedOnce' /\ OwnJob' /\ ViewIsOfOpenJob'
<1>1. PICK j, v : Answer(r, j, v)
  BY HandleAnswers
<1>2. UNCHANGED <<mounted, jobId, shown, pending, deaf, sent>>
  BY HandleAnswers
<1>3. /\ Out' = Out
      /\ \A a \in answers' : a.to \notin requests'
      /\ \A a, b \in answers' : a.to = b.to => a = b
  BY <1>1, AnswerKeepsOut DEF FocusInv
<1>4. NumberedOnce'
  BY <1>2, <1>3 DEF FocusInv, NumberedOnce
<1>5. OwnJob'
  BY <1>2, <1>3 DEF FocusInv, OwnJob, Alive
<1>6. ViewIsOfOpenJob'
  BY <1>2 DEF FocusInv, ViewIsOfOpenJob
<1> QED
  BY <1>4, <1>5, <1>6

LEMMA FocusDeliver ==
    ASSUME FocusInv, NEW a \in answers, Deliver(a)
    PROVE  NumberedOnce' /\ OwnJob' /\ ViewIsOfOpenJob'
<1>1. NumberedOnce' /\ Out' = Out \ {a.to} /\ a.to \in Out
  BY DeliverNumbers DEF FocusInv
<1>2. /\ deaf' = deaf
      /\ pending' = [kind \in Kinds |-> IF pending[kind] = a.to.id THEN 0 ELSE pending[kind]]
  BY DEF Deliver
<1>3. ASSUME NEW x \in Out', x.id > deaf
      PROVE  /\ x \in Out /\ x # a.to /\ x.id # a.to.id
             /\ x.kind = "upload" => /\ jobId = NoJob /\ shown = NoResult
                                     /\ pending["upload"] = x.id /\ pending'["upload"] = x.id
             /\ x.kind \in {"edit", "exclude"} => jobId # NoJob /\ x.job = jobId
  <2>1. x \in Out /\ x # a.to
    BY <1>1
  <2>2. x.id # a.to.id
    BY <1>1, <2>1 DEF FocusInv, NumberedOnce
  <2>3. /\ x.kind = "upload" => /\ jobId = NoJob /\ shown = NoResult
                                /\ pending["upload"] = x.id
        /\ x.kind \in {"edit", "exclude"} => jobId # NoJob /\ x.job = jobId
    BY <1>3, <2>1 DEF FocusInv, OwnJob, Alive
  <2>4. x.kind = "upload" => pending'["upload"] = x.id
    BY <1>2, <2>2, <2>3 DEF Kinds
  <2> QED
    BY <2>1, <2>2, <2>3, <2>4
<1>4. CASE Alive(a.to.id) /\ a.version # Refused /\ a.to.kind = "upload" /\ UploadDone(a)
  <2>1. /\ jobId = NoJob /\ pending["upload"] = a.to.id
    BY <1>1, <1>4 DEF FocusInv, OwnJob
  <2>2. ASSUME NEW x \in Out', x.id > deaf PROVE x.kind \notin {"upload", "edit", "exclude"}
    BY <1>3, <2>1, <2>2
  <2>3. OwnJob'
    BY <1>2, <2>2 DEF OwnJob, Alive
  <2>4. ViewIsOfOpenJob'
    BY <1>4 DEF UploadDone, ViewIsOfOpenJob
  <2> QED
    BY <1>1, <2>3, <2>4
<1>5. CASE RetryDone
  <2>1. jobId' = jobId /\ shown' = NoResult
    BY <1>5 DEF RetryDone
  <2>2. OwnJob'
    BY <1>2, <1>3, <2>1 DEF OwnJob, Alive
  <2> QED
    BY <1>1, <2>1, <2>2 DEF ViewIsOfOpenJob
<1>6. CASE /\ Alive(a.to.id) /\ a.version # Refused
           /\ a.to.kind \in {"edit", "exclude"} /\ ChangeDone(a)
  <2>1. jobId # NoJob /\ a.to.job = jobId
    BY <1>1, <1>6 DEF FocusInv, OwnJob
  <2>2. a.job = a.to.job
    BY <1>6 DEF FocusInv, Types, RequestsNamed
  <2> DEFINE r == [job |-> a.job, version |-> a.version]
  <2>3. r.job = a.job
    OBVIOUS
  <2>4. jobId' = jobId /\ shown' = r
    BY <1>6 DEF ChangeDone
  <2> HIDE DEF r
  <2>5. OwnJob'
    BY <1>2, <1>3, <2>1, <2>4 DEF OwnJob, Alive
  <2>6. ViewIsOfOpenJob'
    BY <2>1, <2>2, <2>3, <2>4 DEF ViewIsOfOpenJob
  <2> QED
    BY <1>1, <2>5, <2>6
<1>7. CASE UNCHANGED <<jobId, shown>>
  <2>1. OwnJob'
    BY <1>2, <1>3, <1>7 DEF OwnJob, Alive
  <2>2. ViewIsOfOpenJob'
    BY <1>7 DEF FocusInv, ViewIsOfOpenJob
  <2> QED
    BY <1>1, <2>1, <2>2
<1> QED
  BY <1>4, <1>5, <1>6, <1>7 DEF Deliver

LEMMA FocusFetch ==
    ASSUME FocusInv, NEW j \in Jobs, Fetching(j)
    PROVE  NumberedOnce' /\ OwnJob' /\ ViewIsOfOpenJob'
<1>1. UNCHANGED <<mounted, jobId, requests, answers, pending, deaf, sent>> /\ Out' = Out
  BY DEF Fetching, AskStatus, AnswerStatus, ReceiveStatus, StatusFails, AskResult, AnswerResult,
         ReceiveResult, ResultFails, ShowResult, Age, Collect, component, mutations, counters, Out
<1>2. NumberedOnce'
  BY <1>1 DEF FocusInv, NumberedOnce
<1>3. CASE shown' = shown
  BY <1>1, <1>2, <1>3 DEF FocusInv, OwnJob, Alive, ViewIsOfOpenJob
<1>4. CASE ShowResult(j)
  <2>1. jobId = j /\ jobId # NoJob
    BY <1>4, NoJobIsNoJob DEF ShowResult, ResultEnabled, StatusEnabled
  <2>2. OwnJob'
    BY <1>1, <2>1 DEF FocusInv, OwnJob, Alive
  <2> DEFINE r == [job |-> j, version |-> results[j]]
  <2>3. r.job = j
    OBVIOUS
  <2>4. shown' = r
    BY <1>4 DEF ShowResult
  <2> HIDE DEF r
  <2>5. ViewIsOfOpenJob'
    BY <1>1, <2>1, <2>3, <2>4 DEF ViewIsOfOpenJob
  <2> QED
    BY <1>2, <2>2, <2>5
<1> QED
  BY <1>3, <1>4 DEF Fetching, AskStatus, AnswerStatus, ReceiveStatus, StatusFails, AskResult,
      AnswerResult, ReceiveResult, ResultFails, Age, Collect, component

LEMMA FocusStep ==
    ASSUME FocusInv, BackWhileBusy = FALSE, [Next]_vars PROVE FocusInv'
<1>1. Types'
  BY TypeStep DEF FocusInv
<1> SUFFICES NumberedOnce' /\ OwnJob' /\ ViewIsOfOpenJob'
  BY <1>1 DEF FocusInv
<1>2. CASE \/ \E j \in Jobs \cup {NoJob} : Open(j)
           \/ \E j \in Jobs : FollowLink(j)
           \/ NewUpload \/ Leave
  BY <1>2, FocusNavigation
<1>3. CASE Upload \/ Retry \/ SaveEdits \/ ExcludeRows
  BY <1>3, FocusSends
<1>4. CASE \E r \in requests : Handle(r) \/ RequestFails(r)
  BY <1>4, FocusAnswers
<1>5. CASE \E a \in answers : Deliver(a)
  BY <1>5, FocusDeliver
<1>6. CASE \E j \in Jobs : Fetching(j)
  BY <1>6, FocusFetch
<1>7. ASSUME UNCHANGED <<component, mutations, sent>>
      PROVE  NumberedOnce' /\ OwnJob' /\ ViewIsOfOpenJob'
  BY <1>7 DEF component, mutations, FocusInv, NumberedOnce, OwnJob, ViewIsOfOpenJob, Out, Alive
<1>8. CASE \/ \E j \in Jobs : RunJob(j) \/ PurgeJob(j)
           \/ UNCHANGED vars
  BY <1>7, <1>8 DEF RunJob, PurgeJob, vars, counters
<1> QED
  BY <1>2, <1>3, <1>4, <1>5, <1>6, <1>8, StepCases

LEMMA FocusHolds == ASSUME BackWhileBusy = FALSE PROVE Spec => []FocusInv
<1>1. Init => FocusInv
  BY InitTypes, WorkspaceBounds
     DEF Init, FocusInv, StoredInv, NumberedOnce, OwnJob, ViewIsOfOpenJob, Out
<1>2. FocusInv /\ [Next]_vars => FocusInv'
  BY FocusStep
<1> QED
  BY <1>1, <1>2, PTL DEF Spec

\* For a user who waits for the answers before he opens something else, the table is
\* always that of the open job, however late or in whatever order they arrive.
THEOREM PatientViewIsOfOpenJob ==
    ASSUME BackWhileBusy = FALSE
    PROVE  Spec => []ViewIsOfOpenJob
<1>1. FocusInv => ViewIsOfOpenJob
  BY DEF FocusInv
<1> QED
  BY <1>1, FocusHolds, PTL

\* Only sending adds to the requests.
LEMMA OthersSendNothing ==
    ASSUME [Next]_vars, ~(Upload \/ Retry \/ SaveEdits \/ ExcludeRows)
    PROVE  requests' \subseteq requests
<1>1. CASE \/ \E j \in Jobs \cup {NoJob} : Open(j)
           \/ \E j \in Jobs : FollowLink(j)
           \/ NewUpload \/ Leave
  BY <1>1 DEF Open, FollowLink, NewUpload, Leave, mutations
<1>2. CASE \E r \in requests : Handle(r) \/ RequestFails(r)
  BY <1>2, HandleAnswers DEF Answer
<1>3. CASE \E j \in Jobs : RunJob(j) \/ PurgeJob(j)
  BY <1>3 DEF RunJob, PurgeJob, mutations
<1>4. CASE \E a \in answers : Deliver(a)
  BY <1>4 DEF Deliver
<1>5. CASE \E j \in Jobs : Fetching(j)
  BY <1>5 DEF Fetching, AskStatus, AnswerStatus, ReceiveStatus, StatusFails, AskResult,
      AnswerResult, ReceiveResult, ResultFails, ShowResult, Age, Collect, mutations
<1>6. CASE UNCHANGED vars
  BY <1>6 DEF vars, mutations
<1> QED
  BY <1>1, <1>2, <1>3, <1>4, <1>5, <1>6, StepCases

LEMMA ChangesStep ==
    ASSUME ViewIsOfOpenJob, ChangesReachTheirJob, [Next]_vars
    PROVE  ChangesReachTheirJob'
<1>1. ASSUME NEW kind \in Kinds, NEW j, NEW from, Send(kind, j, from),
             kind \in {"edit", "exclude"} => j = from
      PROVE  ChangesReachTheirJob'
  <2> DEFINE x == [id |-> sent + 1, kind |-> kind, job |-> j, from |-> from]
  <2>1. requests' = requests \cup {x} /\ x.kind = kind /\ x.job = j /\ x.from = from
    BY <1>1 DEF Send
  <2> HIDE DEF x
  <2> QED
    BY <1>1, <2>1 DEF ChangesReachTheirJob
<1>2. CASE Upload
  BY <1>1, <1>2 DEF Upload, uploadFile, Kinds
<1>3. CASE Retry
  BY <1>1, <1>3 DEF Retry, retryJob, Kinds
<1>4. CASE SaveEdits
  BY <1>1, <1>4 DEF SaveEdits, saveEditedCells, ShowsResult, ViewIsOfOpenJob, Kinds
<1>5. CASE ExcludeRows
  BY <1>1, <1>5 DEF ExcludeRows, setRowExclusion, ShowsResult, ViewIsOfOpenJob, Kinds
<1>6. CASE ~(Upload \/ Retry \/ SaveEdits \/ ExcludeRows)
  BY <1>6, OthersSendNothing DEF ChangesReachTheirJob
<1> QED
  BY <1>2, <1>3, <1>4, <1>5, <1>6

\* What such a user corrects or excludes reaches the job in whose table he did it; one
\* who goes back while a request is out may miss it.
THEOREM PatientChangesReachTheirJob ==
    ASSUME BackWhileBusy = FALSE
    PROVE  Spec => []ChangesReachTheirJob
<1>1. Init => ChangesReachTheirJob
  BY DEF Init, ChangesReachTheirJob
<1>2. ViewIsOfOpenJob /\ ChangesReachTheirJob /\ [Next]_vars => ChangesReachTheirJob'
  BY ChangesStep
<1> QED
  BY <1>1, <1>2, PatientViewIsOfOpenJob, PTL DEF Spec
=============================================================================
