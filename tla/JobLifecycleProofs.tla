------------------------- MODULE JobLifecycleProofs -------------------------
(***************************************************************************)
(* Proofs about JobLifecycle for any number of jobs and workers and any    *)
(* bounds: type correctness, the inductive invariant LifecycleInv with the *)
(* safety properties it contains, the action properties (customer,         *)
(* progress, and what the purge of a completed job removes for good), and  *)
(* that JobLifecycle implements JobContract.                               *)
(***************************************************************************)
EXTENDS JobLifecycle, TLAPS

\* Removing the first occurrence of the head of a list leaves its tail: a worker
\* that removes the identifier it got from the queue keeps the two lists equal.
LEMMA RemoveFirstOfHead ==
    ASSUME NEW S, NEW s \in Seq(S), s # <<>>
    PROVE  RemoveFirst(s, Head(s)) = Tail(s)
<1> DEFINE I == {i \in 1 .. Len(s) : s[i] = Head(s)}
<1>1. 1 \in I
  OBVIOUS
<1>2. Min(I) = 1
  <2>1. \A y \in I : 1 =< y
    OBVIOUS
  <2>2. \A x \in I : (\A y \in I : x =< y) => x = 1
    BY <1>1
  <2> QED
    BY <1>1, <2>1, <2>2, Zenon DEF Min
<1>3. SelectInSeq(s, LAMBDA v : v = Head(s)) = 1
  BY <1>1, <1>2, Zenon DEF SelectInSeq
<1>4. RemoveAt(s, 1) = Tail(s)
  <2>1. SubSeq(s, 1, 0) = <<>>
    OBVIOUS
  <2>2. SubSeq(s, 2, Len(s)) = Tail(s)
    OBVIOUS
  <2> QED
    BY <2>1, <2>2 DEF RemoveAt
<1> QED
  BY <1>1, <1>3, <1>4, Zenon DEF RemoveFirst

USE DEF Statuses, Customers, Stages, table, otherColumns, files, waiting, workers,
        counters

-----------------------------------------------------------------------------
(* The queue and the list of waiting jobs.                                 *)

\* A worker takes the same job off both lists.
LEMMA TakeNextKeepsPosition ==
    ASSUME TypeOK, PositionMatchesQueue, NEW w \in Workers, NEW j \in Jobs,
           TakeNext(w, j)
    PROVE  PositionMatchesQueue' /\ queue' \in Seq(Jobs) /\ pending' \in Seq(Jobs)
<1>1. queue \in Seq(Jobs) /\ queue # <<>>
  BY DEF TypeOK, TakeNext
<1>2. RemoveFirst(queue, Head(queue)) = Tail(queue)
  BY <1>1, RemoveFirstOfHead
<1>3. Tail(queue) \in Seq(Jobs)
  BY <1>1
<1> QED
  BY <1>2, <1>3 DEF PositionMatchesQueue, TakeNext

LEMMA PositionStep ==
    ASSUME TypeOK, PositionMatchesQueue, [Next]_vars
    PROVE  PositionMatchesQueue'
<1>1. CASE \E w \in Workers, j \in Jobs : TakeNext(w, j)
  BY <1>1, TakeNextKeepsPosition
<1>2. CASE \E j \in Jobs : Submit(j)
  BY <1>2 DEF Submit, PositionMatchesQueue
<1>3. CASE Exit
  BY <1>3 DEF Exit, PositionMatchesQueue
<1>4. CASE UNCHANGED waiting
  BY <1>4 DEF PositionMatchesQueue
<1>5. \/ \E w \in Workers, j \in Jobs : TakeNext(w, j)
      \/ \E j \in Jobs : Submit(j)
      \/ Exit
      \/ UNCHANGED waiting
  <2>1. ASSUME NEW j \in Jobs, Request(j)
        PROVE  Submit(j) \/ UNCHANGED waiting
    BY <2>1 DEF Request, Upload, Retry, Retryable, Requeue, Archive, Restore, Purge
  <2>2. ASSUME NEW w \in Workers, WorkerStep(w)
        PROVE  (\E j \in Jobs : TakeNext(w, j)) \/ UNCHANGED waiting
    BY <2>2 DEF WorkerStep, PicksUp, SkipPurged, Begin, BeginFails, ParseProgress, Parsed, CustomerOf,
                Mapped, Scored, StageFails, TimesOut
  <2>3. CASE Disturbance
    BY <2>3 DEF Disturbance, UploadUnrecorded, UploadInterrupted,
                PurgeInterrupted, BeginUnrecorded, ScoredInterrupted,
                ScoredUnrecorded, FailureUnrecorded, ServerStops
  <2>4. CASE ServerStarts \/ UNCHANGED vars
    BY <2>4 DEF ServerStarts, vars
  <2> QED
    BY <2>1, <2>2, <2>3, <2>4 DEF Next
<1> QED
  BY <1>1, <1>2, <1>3, <1>4, <1>5

-----------------------------------------------------------------------------
(* Type correctness.                                                       *)

LEMMA InitType == Init => TypeOK
  BY BoundsAssumption DEF Init, TypeOK, Busy

\* A request handler stores and queues values of the right type.
LEMMA RequestType ==
    ASSUME TypeOK, NEW j \in Jobs, Request(j)
    PROVE  TypeOK'
<1> USE BoundsAssumption DEF TypeOK, Set, Busy
<1>1. CASE \E c \in {"unset", "user"} : Upload(j, c)
  BY <1>1 DEF Upload, Create, Submit
<1>2. CASE Retry(j)
  BY <1>2 DEF Retry, Retryable, Requeue, Submit
<1>3. CASE Archive(j)
  BY <1>3 DEF Archive
<1>4. CASE Restore(j)
  BY <1>4 DEF Restore
<1>5. CASE Purge(j)
  BY <1>5 DEF Purge, Delete
<1> QED
  BY <1>1, <1>2, <1>3, <1>4, <1>5 DEF Request

\* So does a worker task, whatever stage it is in.
LEMMA WorkerStepType ==
    ASSUME TypeOK, PositionMatchesQueue, NEW w \in Workers, WorkerStep(w)
    PROVE  TypeOK'
<1>1. ASSUME NEW j \in Jobs, TakeNext(w, j)
      PROVE  queue' \in Seq(Jobs) /\ pending' \in Seq(Jobs)
  BY <1>1, TakeNextKeepsPosition
<1> USE BoundsAssumption DEF TypeOK, Set, Mark, Busy
<1>2. CASE \E j \in Jobs : SkipPurged(w, j)
  BY <1>1, <1>2 DEF SkipPurged
<1>3. CASE \E j \in Jobs : Begin(w, j)
  BY <1>1, <1>3 DEF Begin
<1>4. ASSUME NEW j \in Jobs, BeginFails(w, j)
      PROVE  TypeOK'
  <2>1. {progress[j], 1} \subseteq 0..10
    OBVIOUS
  <2>2. PICK p \in 0..10 : MarkFailed(j, p)
    BY <1>4, <2>1, Zenon DEF BeginFails
  <2> QED
    BY <1>1, <1>4, <2>2 DEF BeginFails, MarkFailed
<1>5. CASE ParseProgress(w)
  BY <1>5 DEF ParseProgress
<1>6. CASE \E inferred \in {"unset", "inferred"} : Parsed(w, inferred)
  BY <1>6 DEF Parsed, CustomerOf
<1>7. CASE Mapped(w)
  BY <1>7 DEF Mapped
<1>8. CASE Scored(w)
  BY <1>8 DEF Scored, Release
<1>9. CASE StageFails(w)
  <2>1. ProgressReached(w) \subseteq 0..10
    BY DEF ProgressReached
  <2> QED
    BY <1>9, <2>1 DEF StageFails, MarkFailed, Release
<1>10. CASE TimesOut(w)
  BY <1>10 DEF TimesOut, MarkFailed, Release
<1> QED
  BY <1>2, <1>3, <1>4, <1>5, <1>6, <1>7, <1>8, <1>9, <1>10 DEF WorkerStep, PicksUp

\* So does a handler or a stage that is disturbed, and a restart.
LEMMA DisturbanceType ==
    ASSUME TypeOK, PositionMatchesQueue, Disturbance \/ ServerStarts
    PROVE  TypeOK'
<1> USE BoundsAssumption DEF TypeOK, Set, Mark, Busy, Exit, StoreRaises, Release,
                             Strand
<1>1. CASE \E j \in Jobs : UploadUnrecorded(j)
  BY <1>1 DEF UploadUnrecorded
<1>2. CASE \E j \in Jobs : UploadInterrupted(j)
  BY <1>2 DEF UploadInterrupted
<1>3. CASE \E j \in Jobs : PurgeInterrupted(j)
  BY <1>3 DEF PurgeInterrupted, Delete
<1>4. ASSUME NEW w \in Workers, NEW j \in Jobs, BeginUnrecorded(w, j)
      PROVE  TypeOK'
  <2>1. queue' \in Seq(Jobs) /\ pending' \in Seq(Jobs)
    BY <1>4, TakeNextKeepsPosition DEF BeginUnrecorded, TakeNext, PositionMatchesQueue
  <2> QED
    BY <1>4, <2>1 DEF BeginUnrecorded
<1>5. CASE \E w \in Workers : ScoredInterrupted(w)
  BY <1>5 DEF ScoredInterrupted
<1>6. CASE \E w \in Workers : ScoredUnrecorded(w)
  BY <1>6 DEF ScoredUnrecorded, MarkFailed
<1>7. CASE \E w \in Workers : FailureUnrecorded(w)
  BY <1>7 DEF FailureUnrecorded
<1>8. CASE ServerStops
  BY <1>8 DEF ServerStops
<1>9. CASE ServerStarts
  BY <1>9 DEF ServerStarts, RecoverOrphanedJobs, InFlight
<1> QED
  BY <1>1, <1>2, <1>3, <1>4, <1>5, <1>6, <1>7, <1>8, <1>9 DEF Disturbance

LEMMA TypeStep ==
    TypeOK /\ PositionMatchesQueue /\ [Next]_vars => (TypeOK /\ PositionMatchesQueue)'
<1> SUFFICES ASSUME TypeOK, PositionMatchesQueue, [Next]_vars
             PROVE  TypeOK' /\ PositionMatchesQueue'
  OBVIOUS
<1>1. CASE Next
  BY <1>1, RequestType, WorkerStepType, DisturbanceType, PositionStep DEF Next
<1>2. CASE UNCHANGED vars
  BY <1>2, PositionStep DEF vars, workers, TypeOK, Busy
<1> QED
  BY <1>1, <1>2

\* Every reachable state of the job service is well typed; in particular a
\* worker that is in a stage runs a real job.
THEOREM TypeCorrect == Spec => []TypeOK
<1>1. Init => TypeOK /\ PositionMatchesQueue
  BY InitType DEF Init, PositionMatchesQueue
<1> QED
  BY <1>1, TypeStep, PTL DEF Spec

-----------------------------------------------------------------------------
(* The inductive invariant.  Every action is one step of one of the three  *)
(* lemmas below; TypeOK and PositionMatchesQueue are preserved by TypeStep.*)

USE DEF Set, Mark, Busy, RunBy, Exists, InFlight

LEMMA InitInv == Init => LifecycleInv
  BY InitType DEF Init, LifecycleInv, PositionMatchesQueue, NeverRunTwice,
                  InFlightIsOwned, OwnedIsInFlight, ResultIsComplete,
                  SourceOutlivesRow, VolatileIsLost, KnownIsIssued, RunMatchesRow,
                  PendingIsFresh, Queued

\* What a worker takes off the queue is no longer queued, and nothing else is
\* lost: the identifiers in the queue are distinct.
LEMMA TakeNextRemovesOne ==
    ASSUME TypeOK, NeverRunTwice, NEW w \in Workers, NEW j \in Jobs, TakeNext(w, j)
    PROVE  /\ Queued(j)
           /\ \A k \in Jobs : Queued(k)' <=> Queued(k) /\ k # j
<1>1. /\ queue \in Seq(Jobs) /\ queue # <<>>
      /\ queue[1] = j
      /\ Len(queue') = Len(queue) - 1
      /\ \A i \in 1 .. Len(queue') : queue'[i] = queue[i + 1]
  BY DEF TypeOK, TakeNext
<1> USE DEF Queued
<1>2. Queued(j)
  BY <1>1
<1>3. ASSUME NEW k \in Jobs, Queued(k)'
      PROVE  Queued(k) /\ k # j
  BY <1>1, <1>3 DEF NeverRunTwice
<1>4. ASSUME NEW k \in Jobs, Queued(k), k # j
      PROVE  Queued(k)'
  <2>1. PICK i \in 1 .. Len(queue) : queue[i] = k
    BY <1>4
  <2>2. i # 1 /\ i - 1 \in 1 .. Len(queue') /\ queue'[i - 1] = k
    BY <1>1, <1>4, <2>1
  <2> QED
    BY <2>2
<1> QED
  BY <1>2, <1>3, <1>4

\* Taking a job off the queue leaves every job with at most one owner, whether the
\* worker then runs it or drops it.
LEMMA TakeNextKeepsOnce ==
    ASSUME TypeOK, NeverRunTwice, NEW w \in Workers, NEW j \in Jobs, TakeNext(w, j),
           \/ stage' = stage /\ running' = running
           \/ /\ stage' = [stage EXCEPT ![w] = "parsing"]
              /\ running' = [running EXCEPT ![w] = j]
    PROVE  NeverRunTwice'
<1>1. /\ queue \in Seq(Jobs) /\ queue # <<>>
      /\ Len(queue') = Len(queue) - 1
      /\ \A i \in 1 .. Len(queue') : queue'[i] = queue[i + 1]
      /\ ~Busy(w)
      /\ stage \in [Workers -> Stages] /\ running \in [Workers -> Jobs \cup {NoJob}]
      /\ \A v \in Workers : Busy(v) => running[v] \in Jobs
  BY DEF TypeOK, TakeNext
<1>2. \A i, k \in 1 .. Len(queue') : queue'[i] = queue'[k] => i = k
  BY <1>1 DEF NeverRunTwice
<1>3. /\ Queued(j)
      /\ \A k \in Jobs : Queued(k)' <=> Queued(k) /\ k # j
  BY TakeNextRemovesOne
<1>4. \A v \in Workers : Busy(v) => running[v] # j /\ ~Queued(running[v])
  BY <1>3 DEF NeverRunTwice
<1>5. CASE stage' = stage /\ running' = running
  BY <1>1, <1>2, <1>3, <1>5 DEF NeverRunTwice
<1>6. CASE /\ stage' = [stage EXCEPT ![w] = "parsing"]
           /\ running' = [running EXCEPT ![w] = j]
  <2>1. /\ stage'[w] = "parsing" /\ running'[w] = j
        /\ \A v \in Workers \ {w} : stage'[v] = stage[v] /\ running'[v] = running[v]
    BY <1>1, <1>6
  <2>2. \A v \in Workers : Busy(v)' => v = w \/ (Busy(v) /\ running'[v] = running[v])
    BY <2>1
  <2>3. \A v, x \in Workers : Busy(v)' /\ RunBy(x, running[v])' => v = x
    BY <1>4, <2>1, <2>2 DEF NeverRunTwice
  <2>4. \A v \in Workers : Busy(v)' => ~Queued(running[v])'
    <3>1. \A v \in Workers : Busy(v)' => running'[v] \in Jobs
      BY <1>1, <2>1, <2>2
    <3>2. \A k \in Jobs : (\E i \in 1 .. Len(queue') : queue'[i] = k) => Queued(k) /\ k # j
      BY <1>3 DEF Queued
    <3> QED
      BY <1>4, <2>1, <2>2, <3>1, <3>2 DEF Queued
  <2> QED
    BY <1>2, <2>3, <2>4 DEF NeverRunTwice
<1> QED
  BY <1>5, <1>6

\* What stays in the queue is pending still if only the job taken off changed.
LEMMA TakeNextKeepsWaiting ==
    ASSUME TypeOK, NeverRunTwice, OwnedIsInFlight,
           NEW w \in Workers, NEW j \in Jobs, TakeNext(w, j),
           \A k \in Jobs \ {j} : status'[k] = status[k],
           \A k \in Jobs \ {j} : k \in stranded' => k \in stranded
    PROVE  \A i \in 1 .. Len(queue') :
              status'[queue'[i]] \in {"pending", "none"} /\ queue'[i] \notin stranded'
<1>1. /\ queue \in Seq(Jobs) /\ queue # <<>> /\ queue[1] = j
      /\ Len(queue') = Len(queue) - 1
      /\ \A i \in 1 .. Len(queue') : queue'[i] = queue[i + 1]
  BY DEF TypeOK, TakeNext
<1> SUFFICES ASSUME NEW i \in 1 .. Len(queue')
             PROVE  status'[queue'[i]] \in {"pending", "none"} /\ queue'[i] \notin stranded'
  OBVIOUS
<1>2. /\ i + 1 \in 1 .. Len(queue) /\ 1 \in 1 .. Len(queue) /\ i + 1 # 1
      /\ queue'[i] = queue[i + 1]
  BY <1>1
<1>3. queue[i + 1] \in Jobs \ {j}
  BY <1>1, <1>2 DEF NeverRunTwice
<1> QED
  BY <1>2, <1>3 DEF OwnedIsInFlight

\* What a handler submits is queued behind everything else.
LEMMA SubmitAddsOne ==
    ASSUME TypeOK, NEW j \in Jobs, Submit(j)
    PROVE  /\ Len(queue') = Len(queue) + 1
           /\ queue'[Len(queue) + 1] = j
           /\ \A i \in 1 .. Len(queue) : queue'[i] = queue[i]
           /\ \A k \in Jobs : Queued(k)' <=> Queued(k) \/ k = j
<1>1. /\ Len(queue) \in Nat
      /\ Len(queue') = Len(queue) + 1
      /\ queue'[Len(queue) + 1] = j
      /\ \A i \in 1 .. Len(queue) : queue'[i] = queue[i]
  BY DEF TypeOK, Submit
<1>2. \A k \in Jobs : Queued(k)' <=> Queued(k) \/ k = j
  BY <1>1 DEF Queued
<1> QED
  BY <1>1, <1>2

\* A request handler keeps the invariant.
LEMMA RequestKeepsInv ==
    ASSUME LifecycleInv, TypeOK', PositionMatchesQueue',
           NEW j \in Jobs, Request(j)
    PROVE  LifecycleInv'
<1>1. ASSUME Submit(j)
      PROVE  /\ Len(queue') = Len(queue) + 1
             /\ queue'[Len(queue) + 1] = j
             /\ \A i \in 1 .. Len(queue) : queue'[i] = queue[i]
             /\ \A k \in Jobs : Queued(k)' <=> Queued(k) \/ k = j
  BY <1>1, SubmitAddsOne DEF LifecycleInv
<1>2. ASSUME (\E c \in {"unset", "user"} : Upload(j, c)) \/ Retry(j)
      PROVE  InFlightIsOwned'
  <2>1. Submit(j)
    BY <1>2 DEF Upload, Retry, Retryable, Requeue
  <2>2. \A k \in Jobs : Queued(k)' <=> Queued(k) \/ k = j
    BY <1>1, <2>1
  <2>3. stage' = stage /\ running' = running /\ server' = server /\ stranded' = stranded
    BY <1>2 DEF Upload, Retry, Retryable, Requeue
  <2>4. /\ \A k \in Jobs \ {j} : status'[k] = status[k]
        /\ status'[j] = "pending"
    BY <1>2 DEF Upload, Create, Retry, Retryable, Requeue, LifecycleInv, TypeOK
  <2> QED
    BY <2>2, <2>3, <2>4 DEF LifecycleInv, InFlightIsOwned
<1>3. ASSUME Retry(j)
      PROVE  OwnedIsInFlight'
  <2>1. Submit(j)
    BY <1>3 DEF Retry, Retryable, Requeue
  <2>2. j \notin stranded /\ status' = [status EXCEPT ![j] = "pending"]
    BY <1>3 DEF Retry, Retryable, Requeue, LifecycleInv, KnownIsIssued
  <2>3. status \in [Jobs -> Statuses] /\ queue \in Seq(Jobs)
    BY DEF LifecycleInv, TypeOK
  <2> QED
    BY <1>1, <1>3, <2>1, <2>2, <2>3 DEF LifecycleInv, OwnedIsInFlight, Retry, Retryable, Requeue
<1>a. ASSUME ~Queued(j), \A w \in Workers : ~RunBy(w, j), Submit(j),
             stage' = stage, running' = running
      PROVE  NeverRunTwice'
  <2>1. queue \in Seq(Jobs) /\ \A w \in Workers : Busy(w) => running[w] \in Jobs
    BY DEF LifecycleInv, TypeOK
  <2>2. \A i, k \in 1 .. Len(queue') : queue'[i] = queue'[k] => i = k
    BY <1>1, <1>a, <2>1 DEF LifecycleInv, NeverRunTwice, Queued
  <2>3. \A w \in Workers : Busy(w) => ~Queued(running[w])'
    BY <1>1, <1>a, <2>1 DEF LifecycleInv, NeverRunTwice
  <2> QED
    BY <1>a, <2>2, <2>3 DEF LifecycleInv, NeverRunTwice, Queued
<1> USE DEF LifecycleInv, TypeOK, NeverRunTwice, OwnedIsInFlight, ResultIsComplete,
        SourceOutlivesRow, VolatileIsLost, KnownIsIssued, RunMatchesRow,
        PendingIsFresh, Queued
<1>4. CASE \E c \in {"unset", "user"} : Upload(j, c)
  <2>1. NeverRunTwice' /\ KnownIsIssued'
    BY <1>4 DEF Upload, Create, Submit
  <2>2. OwnedIsInFlight' /\ RunMatchesRow'
    BY <1>4 DEF Upload, Create, Submit
  <2>3. ResultIsComplete' /\ SourceOutlivesRow' /\ VolatileIsLost' /\ PendingIsFresh'
    BY <1>4 DEF Upload, Create, Submit
  <2> HIDE DEF TypeOK, NeverRunTwice, InFlightIsOwned, OwnedIsInFlight, ResultIsComplete,
           SourceOutlivesRow, VolatileIsLost, KnownIsIssued, RunMatchesRow, PendingIsFresh
  <2> QED
    BY <1>2, <1>4, <2>1, <2>2, <2>3
<1>5. CASE Retry(j)
  <2>1. NeverRunTwice' /\ KnownIsIssued'
    <3>1. ~Queued(j) /\ \A w \in Workers : ~RunBy(w, j)
      BY <1>5 DEF Retry, Retryable, Requeue
    <3>2. queue \in Seq(Jobs) /\ queue' = Append(queue, j)
      BY <1>5 DEF Retry, Retryable, Requeue, Submit
    <3>3. stage' = stage /\ running' = running
      BY <1>5 DEF Retry, Retryable, Requeue
    <3>4. NeverRunTwice'
      BY <3>1, <3>2, <3>3, <1>a
    <3>5. KnownIsIssued'
      BY <1>5 DEF Retry, Retryable, Requeue, Submit
    <3> QED
      BY <3>4, <3>5
  <2>2. RunMatchesRow'
    BY <1>5 DEF Retry, Retryable, Requeue, Submit
  <2>3. ResultIsComplete' /\ SourceOutlivesRow' /\ VolatileIsLost' /\ PendingIsFresh'
    BY <1>5 DEF Retry, Retryable, Requeue, Submit
  <2> HIDE DEF TypeOK, NeverRunTwice, InFlightIsOwned, OwnedIsInFlight, ResultIsComplete,
           SourceOutlivesRow, VolatileIsLost, KnownIsIssued, RunMatchesRow, PendingIsFresh
  <2> QED
    BY <1>2, <1>3, <1>5, <2>1, <2>2, <2>3
<1> USE DEF InFlightIsOwned
<1>6. CASE Archive(j)
  BY <1>6 DEF Archive
<1>7. CASE Restore(j)
  BY <1>7 DEF Restore
<1>8. CASE Purge(j)
  BY <1>8 DEF Purge, Delete
<1> QED
  BY <1>4, <1>5, <1>6, <1>7, <1>8 DEF Request

\* A worker task keeps the invariant.
LEMMA WorkerStepKeepsInv ==
    ASSUME LifecycleInv, TypeOK', PositionMatchesQueue',
           NEW w \in Workers, WorkerStep(w)
    PROVE  LifecycleInv'
<1>1. ASSUME NEW j \in Jobs, SkipPurged(w, j) \/ Begin(w, j) \/ BeginFails(w, j)
      PROVE  InFlightIsOwned'
  <2>1. \A k \in Jobs : Queued(k)' <=> Queued(k) /\ k # j
    BY <1>1, TakeNextRemovesOne DEF LifecycleInv, SkipPurged, Begin, BeginFails
  <2>2. server = "up" /\ stage[w] = "idle" /\ server' = "up" /\ stranded' = stranded
    BY <1>1 DEF SkipPurged, Begin, BeginFails, TakeNext
  <2> USE DEF LifecycleInv, TypeOK, InFlightIsOwned
  <2>3. CASE SkipPurged(w, j)
    BY <2>1, <2>2, <2>3 DEF SkipPurged
  <2>4. CASE Begin(w, j)
    BY <2>1, <2>2, <2>4 DEF Begin
  <2>5. CASE BeginFails(w, j)
    BY <2>1, <2>2, <2>5 DEF BeginFails, MarkFailed
  <2> QED
    BY <1>1, <2>3, <2>4, <2>5
<1>a. ASSUME NEW j \in Jobs, SkipPurged(w, j) \/ Begin(w, j) \/ BeginFails(w, j)
      PROVE  NeverRunTwice'
  <2>1. /\ TakeNext(w, j)
        /\ \/ stage' = stage /\ running' = running
           \/ /\ stage' = [stage EXCEPT ![w] = "parsing"]
              /\ running' = [running EXCEPT ![w] = j]
    BY <1>a DEF SkipPurged, Begin, BeginFails
  <2> QED
    BY <2>1, TakeNextKeepsOnce DEF LifecycleInv
<1>b. ASSUME NEW j \in Jobs, SkipPurged(w, j) \/ Begin(w, j) \/ BeginFails(w, j)
      PROVE  KnownIsIssued'
  <2>1. \A k \in Jobs : Queued(k)' <=> Queued(k) /\ k # j
    BY <1>b, TakeNextRemovesOne DEF LifecycleInv, SkipPurged, Begin, BeginFails
  <2>2. j \in issued /\ j \notin stranded /\ issued' = issued /\ stranded' = stranded
    <3>1. TakeNext(w, j) /\ issued' = issued /\ stranded' = stranded
      BY <1>b DEF SkipPurged, Begin, BeginFails
    <3>2. j = queue[1] /\ 1 \in 1 .. Len(queue)
      BY <3>1 DEF TakeNext, LifecycleInv, TypeOK
    <3> QED
      BY <3>1, <3>2 DEF LifecycleInv, KnownIsIssued, OwnedIsInFlight, Queued
  <2> USE <2>1, <2>2 DEF LifecycleInv, KnownIsIssued
  <2>3. CASE SkipPurged(w, j)
    BY <2>3 DEF SkipPurged
  <2>4. CASE Begin(w, j)
    BY <2>4 DEF Begin, TypeOK
  <2>5. CASE BeginFails(w, j)
    <3>1. Exists(j) /\ UNCHANGED <<stage, running, customer>>
      BY <2>5 DEF BeginFails, MarkFailed
    <3>2. PICK p \in {progress[j], 1} : progress' = [progress EXCEPT ![j] = p]
      BY <2>5 DEF BeginFails, MarkFailed
    <3>3. status' = [status EXCEPT ![j] = "failed"]
      BY <2>5 DEF BeginFails, MarkFailed
    <3>4. \A k \in Jobs \ {j} : status'[k] = status[k] /\ progress'[k] = progress[k]
      BY <3>2, <3>3 DEF TypeOK
    <3>5. status'[j] = "failed"
      BY <3>3 DEF TypeOK
    <3> QED
      BY <3>1, <3>4, <3>5
  <2> QED
    BY <1>b, <2>3, <2>4, <2>5
<1>c. ASSUME NEW j \in Jobs, BeginFails(w, j)
      PROVE  OwnedIsInFlight'
  <2>1. /\ TakeNext(w, j) /\ stage' = stage /\ running' = running /\ stranded' = stranded
        /\ \A k \in Jobs \ {j} : status'[k] = status[k]
    BY <1>c DEF BeginFails, MarkFailed, LifecycleInv, TypeOK
  <2>2. \A i \in 1 .. Len(queue') :
          status'[queue'[i]] \in {"pending", "none"} /\ queue'[i] \notin stranded'
    BY <2>1, TakeNextKeepsWaiting DEF LifecycleInv
  <2>3. Queued(j)
    BY <2>1, TakeNextRemovesOne DEF LifecycleInv
  <2>4. \A v \in Workers : Busy(v) => running[v] \in Jobs \ {j}
    BY <2>3 DEF LifecycleInv, NeverRunTwice, TypeOK
  <2> QED
    BY <2>1, <2>2, <2>4 DEF LifecycleInv, OwnedIsInFlight
<1> USE NoJobAssumption DEF LifecycleInv, TypeOK, NeverRunTwice,
        OwnedIsInFlight, ResultIsComplete, SourceOutlivesRow, VolatileIsLost,
        KnownIsIssued, RunMatchesRow, PendingIsFresh, Queued
<1>2. ASSUME NEW j \in Jobs, SkipPurged(w, j)
      PROVE  LifecycleInv'
  <2>1. OwnedIsInFlight' /\ RunMatchesRow'
    BY <1>2 DEF SkipPurged, TakeNext
  <2>2. ResultIsComplete' /\ SourceOutlivesRow' /\ VolatileIsLost' /\ PendingIsFresh'
    BY <1>2 DEF SkipPurged, TakeNext
  <2> HIDE DEF TypeOK, NeverRunTwice, InFlightIsOwned, OwnedIsInFlight, ResultIsComplete,
           SourceOutlivesRow, VolatileIsLost, KnownIsIssued, RunMatchesRow, PendingIsFresh
  <2> QED
    BY <1>1, <1>2, <1>a, <1>b, <2>1, <2>2
<1>3. ASSUME NEW j \in Jobs, Begin(w, j)
      PROVE  LifecycleInv'
  <2>2. OwnedIsInFlight' /\ RunMatchesRow'
    BY <1>3 DEF Begin, TakeNext
  <2>3. ResultIsComplete'
    <3>1. status[j] = "pending"
      BY <1>3 DEF Begin, TakeNext
    <3>2. /\ status' = [status EXCEPT ![j] = "processing"]
          /\ progress' = [progress EXCEPT ![j] = 1]
          /\ UNCHANGED <<withError, withAudit, withExportPath, exportFile>>
      BY <1>3, <3>1 DEF Begin
    <3> QED
      BY <3>1, <3>2
  <2>4. SourceOutlivesRow' /\ VolatileIsLost' /\ PendingIsFresh'
    BY <1>3 DEF Begin, TakeNext
  <2> HIDE DEF TypeOK, NeverRunTwice, InFlightIsOwned, OwnedIsInFlight, ResultIsComplete,
           SourceOutlivesRow, VolatileIsLost, KnownIsIssued, RunMatchesRow, PendingIsFresh
  <2> QED
    BY <1>1, <1>3, <1>a, <1>b, <2>2, <2>3, <2>4
<1>4. ASSUME NEW j \in Jobs, BeginFails(w, j)
      PROVE  LifecycleInv'
  <2>2. RunMatchesRow'
    BY <1>4 DEF BeginFails, TakeNext, MarkFailed
  <2>3. ResultIsComplete'
    BY <1>4 DEF BeginFails, TakeNext, MarkFailed
  <2>4. SourceOutlivesRow' /\ VolatileIsLost' /\ PendingIsFresh'
    BY <1>4 DEF BeginFails, TakeNext, MarkFailed
  <2> HIDE DEF TypeOK, NeverRunTwice, InFlightIsOwned, OwnedIsInFlight, ResultIsComplete,
           SourceOutlivesRow, VolatileIsLost, KnownIsIssued, RunMatchesRow, PendingIsFresh
  <2> QED
    BY <1>1, <1>4, <1>a, <1>b, <1>c, <2>2, <2>3, <2>4
<1> USE DEF InFlightIsOwned
<1>5. CASE ParseProgress(w)
  BY <1>5 DEF ParseProgress
<1>6. CASE \E inferred \in {"unset", "inferred"} : Parsed(w, inferred)
  BY <1>6 DEF Parsed, CustomerOf
<1>7. CASE Mapped(w)
  BY <1>7 DEF Mapped
<1>8. CASE Scored(w)
  BY <1>8 DEF Scored, Release
<1>9. CASE StageFails(w)
  BY <1>9 DEF StageFails, ProgressReached, MarkFailed, Release
<1>10. CASE TimesOut(w)
  BY <1>10 DEF TimesOut, MarkFailed, Release
<1> QED
  BY <1>2, <1>3, <1>4, <1>5, <1>6, <1>7, <1>8, <1>9, <1>10 DEF WorkerStep, PicksUp

\* So do a disturbed handler or stage, an exit of the process, and a restart.
LEMMA DisturbanceKeepsInv ==
    ASSUME LifecycleInv, TypeOK', PositionMatchesQueue', Disturbance \/ ServerStarts
    PROVE  LifecycleInv'
<1>1. ASSUME NEW w \in Workers, NEW j \in Jobs, BeginUnrecorded(w, j)
      PROVE  InFlightIsOwned'
  <2>1. \A k \in Jobs : Queued(k)' <=> Queued(k) /\ k # j
    BY <1>1, TakeNextRemovesOne DEF LifecycleInv, BeginUnrecorded
  <2> QED
    BY <1>1, <2>1 DEF LifecycleInv, TypeOK, InFlightIsOwned, BeginUnrecorded,
                      TakeNext, Strand
<1>a. ASSUME NEW w \in Workers, NEW j \in Jobs, BeginUnrecorded(w, j)
      PROVE  NeverRunTwice' /\ OwnedIsInFlight'
  <2>1. /\ TakeNext(w, j) /\ stage' = stage /\ running' = running
        /\ \A k \in Jobs \ {j} : status'[k] = status[k]
        /\ \A k \in Jobs \ {j} : k \in stranded' => k \in stranded
    BY <1>a DEF BeginUnrecorded, Strand, LifecycleInv, TypeOK
  <2>2. NeverRunTwice'
    BY <2>1, TakeNextKeepsOnce DEF LifecycleInv
  <2>3. \A i \in 1 .. Len(queue') :
          status'[queue'[i]] \in {"pending", "none"} /\ queue'[i] \notin stranded'
    BY <2>1, TakeNextKeepsWaiting DEF LifecycleInv
  <2>4. Queued(j)
    BY <2>1, TakeNextRemovesOne DEF LifecycleInv
  <2>5. \A v \in Workers : Busy(v) => running[v] \in Jobs \ {j}
    BY <2>4 DEF LifecycleInv, NeverRunTwice, TypeOK
  <2>6. \A v \in Workers : Busy(v) =>
          status'[running[v]] \in {"processing", "none"} /\ running[v] \notin stranded'
    BY <2>1, <2>5 DEF LifecycleInv, OwnedIsInFlight
  <2> QED
    BY <2>1, <2>2, <2>3, <2>6 DEF OwnedIsInFlight
<1> USE NoJobAssumption DEF LifecycleInv, TypeOK, NeverRunTwice,
        OwnedIsInFlight, ResultIsComplete, SourceOutlivesRow, VolatileIsLost,
        KnownIsIssued, RunMatchesRow, PendingIsFresh, Queued
<1>2. ASSUME NEW w \in Workers, NEW j \in Jobs, BeginUnrecorded(w, j)
      PROVE  LifecycleInv'
  <2>0. /\ UNCHANGED <<stage, running, snapshot, customer, issued>>
        /\ queue # <<>> /\ queue' = Tail(queue) /\ j = Head(queue)
        /\ stranded' = IF Exists(j) THEN stranded \cup {j} ELSE stranded
    BY <1>2 DEF BeginUnrecorded, TakeNext, Strand
  <2>1. KnownIsIssued'
    BY <1>2, <2>0 DEF BeginUnrecorded
  <2>2. RunMatchesRow'
    BY <1>2, <2>0 DEF BeginUnrecorded
  <2>3. SourceOutlivesRow' /\ VolatileIsLost'
    BY <1>2 DEF BeginUnrecorded, TakeNext
  <2>4. ResultIsComplete' /\ PendingIsFresh'
    <3>1. status[j] \in {"pending", "none"}
      BY <1>2 DEF BeginUnrecorded, TakeNext
    <3>2. CASE UNCHANGED <<status, progress>>
      BY <1>2, <3>2 DEF BeginUnrecorded
    <3>3. CASE status' = Set(status, j, "processing") /\ progress' = Set(progress, j, 1)
      BY <1>2, <3>1, <3>3 DEF BeginUnrecorded
    <3> QED
      BY <1>2, <3>2, <3>3 DEF BeginUnrecorded
  <2> HIDE DEF TypeOK, NeverRunTwice, InFlightIsOwned, OwnedIsInFlight, ResultIsComplete,
           SourceOutlivesRow, VolatileIsLost, KnownIsIssued, RunMatchesRow, PendingIsFresh
  <2> QED
    BY <1>1, <1>a, <1>2, <2>1, <2>2, <2>3, <2>4
<1> USE DEF InFlightIsOwned
<1>3. ASSUME NEW j \in Jobs, UploadUnrecorded(j)
      PROVE  LifecycleInv'
  BY <1>3 DEF UploadUnrecorded
<1>4. ASSUME NEW j \in Jobs, UploadInterrupted(j)
      PROVE  LifecycleInv'
  BY <1>4 DEF UploadInterrupted, Exit
<1>5. ASSUME NEW j \in Jobs, PurgeInterrupted(j)
      PROVE  LifecycleInv'
  BY <1>5 DEF PurgeInterrupted, Exit, Delete
<1>6. ASSUME NEW w \in Workers, ScoredInterrupted(w)
      PROVE  LifecycleInv'
  BY <1>6 DEF ScoredInterrupted, Exit
<1>7. ASSUME NEW w \in Workers, ScoredUnrecorded(w)
      PROVE  LifecycleInv'
  <2>1. NeverRunTwice' /\ OwnedIsInFlight' /\ InFlightIsOwned'
    BY <1>7 DEF ScoredUnrecorded, MarkFailed, Release
  <2>2. ResultIsComplete' /\ SourceOutlivesRow' /\ PendingIsFresh'
    BY <1>7 DEF ScoredUnrecorded, MarkFailed, Release
  <2>3. KnownIsIssued' /\ RunMatchesRow' /\ VolatileIsLost'
    BY <1>7 DEF ScoredUnrecorded, MarkFailed, Release
  <2> HIDE DEF TypeOK, NeverRunTwice, InFlightIsOwned, OwnedIsInFlight, ResultIsComplete,
           SourceOutlivesRow, VolatileIsLost, KnownIsIssued, RunMatchesRow, PendingIsFresh
  <2> QED
    BY <2>1, <2>2, <2>3
<1>8. ASSUME NEW w \in Workers, FailureUnrecorded(w)
      PROVE  LifecycleInv'
  BY <1>8 DEF FailureUnrecorded, Strand, Release
<1>9. CASE ServerStops
  BY <1>9 DEF ServerStops, Exit
<1>10. CASE ServerStarts
  BY <1>10 DEF ServerStarts, RecoverOrphanedJobs
<1> QED
  BY <1>2, <1>3, <1>4, <1>5, <1>6, <1>7, <1>8, <1>9, <1>10 DEF Disturbance

LEMMA InvStep == LifecycleInv /\ [Next]_vars => LifecycleInv'
<1> SUFFICES ASSUME LifecycleInv, [Next]_vars PROVE LifecycleInv'
  OBVIOUS
<1>1. TypeOK' /\ PositionMatchesQueue'
  BY TypeStep DEF LifecycleInv
<1>2. CASE Next
  BY <1>1, <1>2, RequestKeepsInv, WorkerStepKeepsInv, DisturbanceKeepsInv DEF Next
<1>3. CASE UNCHANGED vars
  BY <1>1, <1>3 DEF vars, LifecycleInv, TypeOK, NeverRunTwice, InFlightIsOwned,
        OwnedIsInFlight, ResultIsComplete, SourceOutlivesRow, VolatileIsLost,
        KnownIsIssued, RunMatchesRow, PendingIsFresh, Queued
<1> QED
  BY <1>2, <1>3

\* The inductive invariant holds in every reachable state, whatever the number of
\* jobs and workers, and however often the process exits or the store raises.
THEOREM InvariantHolds == Spec => []LifecycleInv
  BY InitInv, InvStep, PTL DEF Spec

\* The position shown to the user is the place in the queue.
THEOREM PositionCorrect == Spec => []PositionMatchesQueue
<1>1. LifecycleInv => PositionMatchesQueue
  BY DEF LifecycleInv
<1> QED
  BY <1>1, InvariantHolds, PTL

\* No job is ever waiting or running twice.
THEOREM RunOnce == Spec => []NeverRunTwice
<1>1. LifecycleInv => NeverRunTwice
  BY DEF LifecycleInv
<1> QED
  BY <1>1, InvariantHolds, PTL

\* No job in flight is forgotten: it waits, runs, or its failure could not be stored.
THEOREM Ownership == Spec => []InFlightIsOwned
<1>1. LifecycleInv => InFlightIsOwned
  BY DEF LifecycleInv
<1> QED
  BY <1>1, InvariantHolds, PTL

\* What waits is pending and what runs is processing, unless it was purged: no worker
\* writes to a row that is settled.
THEOREM OwnedJobs == Spec => []OwnedIsInFlight
<1>1. LifecycleInv => OwnedIsInFlight
  BY DEF LifecycleInv
<1> QED
  BY <1>1, InvariantHolds, PTL

\* A completed job always has its audit, its export path and its workbook.
THEOREM ResultsComplete == Spec => []ResultIsComplete
<1>1. LifecycleInv => ResultIsComplete
  BY DEF LifecycleInv
<1> QED
  BY <1>1, InvariantHolds, PTL

\* A listed job always has its source file.
THEOREM SourceKept == Spec => []SourceOutlivesRow
<1>1. LifecycleInv => SourceOutlivesRow
  BY DEF LifecycleInv
<1> QED
  BY <1>1, InvariantHolds, PTL
-----------------------------------------------------------------------------
(* What a step may never do.                                               *)

\* No step of a handler, a worker or a restart replaces a customer typed in at
\* upload: a worker writes its snapshot, which agrees with the row.
LEMMA CustomerStep ==
    ASSUME LifecycleInv, [Next]_vars, NEW j \in Jobs, customer[j] = "user"
    PROVE  customer'[j] = "user" \/ status'[j] = "none"
<1> USE DEF LifecycleInv, TypeOK
<1>1. CASE UNCHANGED customer
  BY <1>1
<1>2. ASSUME NEW k \in Jobs, Delete(k)
      PROVE  customer'[j] = "user" \/ status'[j] = "none"
  BY <1>2 DEF Delete
<1>3. ASSUME NEW k \in Jobs, NEW c \in Customers, Upload(k, c)
      PROVE  customer'[j] = "user" \/ status'[j] = "none"
  BY <1>3 DEF Upload, Create, KnownIsIssued
<1>4. ASSUME NEW w \in Workers, NEW inferred \in Customers, Parsed(w, inferred)
      PROVE  customer'[j] = "user" \/ status'[j] = "none"
  BY <1>4 DEF Parsed, CustomerOf, Set, RunMatchesRow, Busy
<1>5. ASSUME NEW w \in Workers, Scored(w)
      PROVE  customer'[j] = "user" \/ status'[j] = "none"
  BY <1>5 DEF Scored, Set, RunMatchesRow, Busy
<1>6. CASE \E k \in Jobs : Request(k)
  BY <1>1, <1>2, <1>3, <1>6 DEF Request, Retry, Retryable, Requeue, Archive, Restore, Purge
<1>7. CASE \E w \in Workers : WorkerStep(w)
  BY <1>1, <1>4, <1>5, <1>7 DEF WorkerStep, PicksUp, SkipPurged, Begin, BeginFails,
        ParseProgress, Mapped, StageFails, TimesOut, MarkFailed
<1>8. CASE Disturbance \/ ServerStarts
  BY <1>1, <1>2, <1>8 DEF Disturbance, UploadUnrecorded, UploadInterrupted,
        PurgeInterrupted, BeginUnrecorded, ScoredInterrupted, ScoredUnrecorded,
        FailureUnrecorded, ServerStops, ServerStarts, MarkFailed, RecoverOrphanedJobs
<1>9. CASE UNCHANGED vars
  BY <1>1, <1>9 DEF vars
<1> QED
  BY <1>6, <1>7, <1>8, <1>9 DEF Next

\* A customer typed in at upload is kept.
THEOREM CustomerKept == Spec => UserCustomerKept
<1>1. LifecycleInv /\ [Next]_vars =>
        [\A j \in Jobs : customer[j] = "user" =>
                              customer'[j] = "user" \/ status'[j] = "none"]_vars
  BY CustomerStep
<1> QED
  BY <1>1, InvariantHolds, PTL DEF Spec, UserCustomerKept

\* A stage only raises the progress of the row it runs; a retry and a purge
\* start over.
LEMMA ProgressStep ==
    ASSUME LifecycleInv, [Next]_vars, NEW j \in Jobs
    PROVE  \/ progress'[j] >= progress[j]
           \/ status[j] = "failed" /\ status'[j] = "pending"
           \/ status'[j] = "none"
<1> DEFINE Goal == \/ progress'[j] >= progress[j]
                   \/ status[j] = "failed" /\ status'[j] = "pending"
                   \/ status'[j] = "none"
<1>0. progress \in [Jobs -> 0..10] /\ status \in [Jobs -> Statuses] /\ progress[j] \in 0..10
  BY DEF LifecycleInv, TypeOK
<1>1. CASE UNCHANGED progress
  BY <1>0, <1>1
<1>2. ASSUME NEW k \in Jobs, Delete(k)
      PROVE  Goal
  <2>1. CASE k = j
    BY <1>0, <1>2, <2>1 DEF Delete
  <2>2. CASE k # j
    BY <1>0, <1>2, <2>2 DEF Delete
  <2> QED
    BY <2>1, <2>2
<1>3. ASSUME NEW k \in Jobs, NEW p \in 0..10, progress' = Set(progress, k, p),
             p >= progress[k]
      PROVE  Goal
  BY <1>0, <1>3 DEF Set
<1>4. ASSUME NEW k \in Jobs, Retry(k)
      PROVE  Goal
  <2>1. CASE k = j
    BY <1>0, <1>4, <2>1 DEF Retry, Retryable, Requeue, Set, Exists
  <2>2. CASE k # j
    BY <1>0, <1>4, <2>2 DEF Retry, Retryable, Requeue, Set
  <2> QED
    BY <2>1, <2>2
<1> USE DEF LifecycleInv, TypeOK
<1>5. CASE \E k \in Jobs : Request(k)
  BY <1>1, <1>2, <1>4, <1>5 DEF Request, Upload, Create, Archive, Restore, Purge
<1>6. ASSUME NEW w \in Workers, NEW k \in Jobs, TakeNext(w, k), Exists(k)
      PROVE  progress[k] = 0
  <2>1. k = queue[1] /\ 1 \in 1 .. Len(queue)
    BY <1>6 DEF TakeNext
  <2> QED
    BY <1>6, <2>1 DEF OwnedIsInFlight, PendingIsFresh, Exists
<1>7. ASSUME NEW w \in Workers, WorkerStep(w)
      PROVE  Goal
  <2>1. ASSUME NEW k \in Jobs, SkipPurged(w, k) \/ Begin(w, k) \/ BeginFails(w, k)
        PROVE  Goal
    BY <1>1, <1>3, <1>6, <2>1 DEF SkipPurged, Begin, BeginFails, MarkFailed
  <2>2. CASE \/ ParseProgress(w)
             \/ \E inferred \in {"unset", "inferred"} : Parsed(w, inferred)
             \/ Mapped(w)
             \/ Scored(w)
    <3>1. Busy(w) /\ running[w] \in Jobs
      BY <2>2 DEF ParseProgress, Parsed, CustomerOf, Mapped, Scored, Busy
    <3>2. progress[running[w]] \in 0..10
          /\ progress[running[w]] =< (IF stage[w] = "scoring" THEN 7 ELSE 3)
      BY <3>1 DEF RunMatchesRow
    <3>3. ASSUME NEW p \in {2, 3, 7, 10}, progress' = Set(progress, running[w], p),
                 p >= progress[running[w]]
          PROVE  Goal
      <4>1. p \in 0..10
        OBVIOUS
      <4> QED
        BY <1>3, <3>1, <3>3, <4>1
    <3>4. CASE ParseProgress(w)
      <4>1. PICK p \in 2..3 : /\ p > progress[running[w]]
                              /\ progress' = Set(progress, running[w], p)
        BY <3>4 DEF ParseProgress
      <4>2. p \in {2, 3} /\ p >= progress[running[w]]
        BY <3>2, <4>1
      <4> QED
        BY <3>3, <4>1, <4>2
    <3>5. ASSUME NEW inferred \in {"unset", "inferred"}, Parsed(w, inferred)
          PROVE  Goal
      <4>1. progress' = Set(progress, running[w], 3) /\ stage[w] = "parsing"
        BY <3>5 DEF Parsed, CustomerOf
      <4> QED
        BY <3>2, <3>3, <4>1
    <3>6. CASE Mapped(w)
      <4>1. progress' = Set(progress, running[w], 7) /\ stage[w] = "mapping"
        BY <3>6 DEF Mapped
      <4> QED
        BY <3>2, <3>3, <4>1
    <3>7. CASE Scored(w)
      <4>1. progress' = Set(progress, running[w], 10)
        BY <3>7 DEF Scored
      <4> QED
        BY <3>2, <3>3, <4>1
    <3> QED
      BY <2>2, <3>4, <3>5, <3>6, <3>7
  <2>3. CASE StageFails(w) \/ TimesOut(w)
    <3>1. running[w] \in Jobs
      BY <2>3 DEF StageFails, TimesOut
    <3>2. progress[running[w]] \in 0..10
          /\ progress[running[w]] =< (IF stage[w] = "scoring" THEN 7 ELSE 3)
      BY <2>3, <3>1 DEF RunMatchesRow, StageFails, TimesOut
    <3>3. CASE StageFails(w)
      <4>1. PICK p \in ProgressReached(w) : progress' = Set(progress, running[w], p)
        BY <3>3 DEF StageFails, MarkFailed
      <4>2. p \in 0..10
        BY DEF ProgressReached
      <4>3. \/ p = progress[running[w]]
            \/ stage[w] = "mapping" /\ p >= 5
            \/ p = 9
        BY DEF ProgressReached
      <4>4. p >= progress[running[w]]
        BY <3>2, <4>2, <4>3
      <4> QED
        BY <1>3, <3>1, <4>1, <4>2, <4>4
    <3>4. CASE TimesOut(w)
      <4>1. progress' = Set(progress, running[w], progress[running[w]])
        BY <3>4 DEF TimesOut, MarkFailed
      <4>2. progress[running[w]] \in 0..10 /\ progress[running[w]] >= progress[running[w]]
        BY <3>1
      <4> QED
        BY <1>3, <3>1, <4>1, <4>2
    <3> QED
      BY <2>3, <3>3, <3>4
  <2> QED
    BY <1>7, <2>1, <2>2, <2>3 DEF WorkerStep, PicksUp
<1>8. ASSUME NEW w \in Workers, NEW k \in Jobs, BeginUnrecorded(w, k)
      PROVE  Goal
  <2>1. CASE Exists(k)
    <3>1. progress[k] = 0
      BY <1>6, <1>8, <2>1 DEF BeginUnrecorded
    <3>2. \/ progress' = progress
          \/ progress' = Set(progress, k, 1)
      BY <1>8 DEF BeginUnrecorded
    <3> QED
      BY <1>1, <1>3, <3>1, <3>2
  <2>2. CASE ~Exists(k)
    <3>1. \/ progress' = progress
          \/ progress' = Set(progress, k, 1)
      BY <1>8 DEF BeginUnrecorded
    <3>2. Set(progress, k, 1) = progress
      BY <2>2 DEF Set
    <3> QED
      BY <1>1, <3>1, <3>2
  <2> QED
    BY <2>1, <2>2
<1>9. ASSUME NEW w \in Workers, ScoredInterrupted(w) \/ ScoredUnrecorded(w)
      PROVE  Goal
  <2>1. /\ Busy(w) /\ running[w] \in Jobs
        /\ progress[running[w]] \in 0..10 /\ progress[running[w]] =< 7
    BY <1>9 DEF ScoredInterrupted, ScoredUnrecorded, RunMatchesRow, Busy
  <2>2. progress' = Set(progress, running[w], 9)
    BY <1>9 DEF ScoredInterrupted, ScoredUnrecorded, MarkFailed
  <2> HIDE DEF LifecycleInv, TypeOK
  <2>3. 9 \in 0..10 /\ 9 >= progress[running[w]]
    BY <2>1
  <2> QED
    BY <1>3, <2>1, <2>2, <2>3
<1>10. CASE Disturbance \/ ServerStarts
  BY <1>1, <1>2, <1>8, <1>9, <1>10 DEF Disturbance, UploadUnrecorded,
        UploadInterrupted, PurgeInterrupted, FailureUnrecorded, ServerStops,
        ServerStarts, RecoverOrphanedJobs
<1>11. CASE UNCHANGED vars
  BY <1>1, <1>11 DEF vars
<1> QED
  BY <1>5, <1>7, <1>10, <1>11 DEF Next

\* Progress never falls while a job runs.
THEOREM ProgressMonotone == Spec => ProgressNeverFalls
<1>1. LifecycleInv /\ [Next]_vars =>
        [\A j \in Jobs : \/ progress'[j] >= progress[j]
                         \/ status[j] = "failed" /\ status'[j] = "pending"
                         \/ status'[j] = "none"]_vars
  BY ProgressStep
<1> QED
  BY <1>1, InvariantHolds, PTL DEF Spec, ProgressNeverFalls
-----------------------------------------------------------------------------
(* What holds of the promise that PurgeRemovesExport quotes.               *)

\* Nothing is left of a job, and nobody is about to write something.
Removed(j) ==
    /\ ~Exists(j)
    /\ j \notin uploadFile /\ j \notin exportFile
    /\ \A w \in Workers : ~RunBy(w, j)

\* The purge of a completed job removes its row and both files, and no worker, retry,
\* upload or restart brings any of them back.
CompletedPurgeIsFinal ==
    [][\A j \in issued : /\ status[j] = "completed" /\ Purge(j) => Removed(j)'
                         /\ Removed(j) => Removed(j)']_vars

LEMMA CompletedPurgeRemoves ==
    ASSUME LifecycleInv, NEW j \in Jobs, status[j] = "completed", Purge(j)
    PROVE  Removed(j)'
<1>1. j \in withExportPath
  BY DEF LifecycleInv, ResultIsComplete
<1>2. ~Exists(j)' /\ j \notin uploadFile' /\ j \notin exportFile'
  BY <1>1 DEF Purge, Delete, LifecycleInv, TypeOK, Exists
<1>3. \A w \in Workers : ~RunBy(w, j)
  BY DEF LifecycleInv, OwnedIsInFlight, RunBy
<1>4. \A w \in Workers : ~RunBy(w, j)'
  BY <1>3 DEF Purge, workers, RunBy, Busy
<1> QED
  BY <1>2, <1>4 DEF Removed

\* A removed job has no row again: only an upload creates one, for a new identifier.
LEMMA NoRowReturns ==
    ASSUME LifecycleInv, [Next]_vars, NEW j \in issued, ~Exists(j)
    PROVE  ~Exists(j)'
<1>1. status \in [Jobs -> Statuses] /\ status[j] = "none" /\ j \in Jobs
  BY DEF LifecycleInv, TypeOK, Exists
<1> SUFFICES status'[j] = "none"
  BY DEF Exists
<1>2. CASE UNCHANGED status
  BY <1>1, <1>2
<1>3. ASSUME NEW k, NEW v, status' = Set(status, k, v) PROVE status'[j] = "none"
  BY <1>1, <1>3 DEF Set, Exists
<1>4. ASSUME NEW k, Delete(k) PROVE status'[j] = "none"
  BY <1>1, <1>4 DEF Delete
<1>5. ASSUME NEW k \in Jobs, Request(k) PROVE status'[j] = "none"
  <2>1. ASSUME NEW c \in {"unset", "user"}, Upload(k, c) PROVE status'[j] = "none"
    BY <1>1, <2>1 DEF Upload, Create
  <2> QED
    BY <1>2, <1>3, <1>4, <1>5, <2>1 DEF Request, Retry, Requeue, Archive, Restore, Purge
<1>6. ASSUME NEW w \in Workers, WorkerStep(w) PROVE status'[j] = "none"
  BY <1>2, <1>3, <1>6 DEF WorkerStep, PicksUp, SkipPurged, Begin, BeginFails, ParseProgress,
        Parsed, Mapped, Scored, StageFails, TimesOut, MarkFailed, table
<1>7. CASE Disturbance
  BY <1>2, <1>3, <1>4, <1>7 DEF Disturbance, UploadUnrecorded, UploadInterrupted,
        PurgeInterrupted, BeginUnrecorded, ScoredInterrupted, ScoredUnrecorded,
        FailureUnrecorded, ServerStops, MarkFailed, table
<1>8. CASE ServerStarts
  BY <1>1, <1>8 DEF ServerStarts, RecoverOrphanedJobs, InFlight
<1>9. CASE UNCHANGED vars
  BY <1>2, <1>9 DEF vars, table
<1> QED
  BY <1>5, <1>6, <1>7, <1>8, <1>9 DEF Next

\* Its files are not written again: an upload has a new identifier, and a workbook is
\* written for the job a worker runs.
LEMMA NoFileReturns ==
    ASSUME LifecycleInv, [Next]_vars, NEW j \in issued, Removed(j)
    PROVE  j \notin uploadFile' /\ j \notin exportFile'
<1>1. j \notin uploadFile /\ j \notin exportFile /\ \A w \in Workers : ~RunBy(w, j)
  BY DEF Removed
<1>2. ASSUME NEW k \in Jobs, Request(k) PROVE j \notin uploadFile' /\ j \notin exportFile'
  BY <1>1, <1>2 DEF Request, Upload, Retry, Archive, Restore, Purge, files
<1>3. ASSUME NEW w \in Workers, WorkerStep(w) PROVE j \notin uploadFile' /\ j \notin exportFile'
  BY <1>1, <1>3 DEF WorkerStep, PicksUp, SkipPurged, Begin, BeginFails, ParseProgress, Parsed,
        Mapped, Scored, StageFails, TimesOut, files, RunBy, Busy
<1>4. CASE Disturbance
  BY <1>1, <1>4 DEF Disturbance, UploadUnrecorded, UploadInterrupted, PurgeInterrupted,
        BeginUnrecorded, ScoredInterrupted, ScoredUnrecorded, FailureUnrecorded, ServerStops,
        files, RunBy, Busy
<1>5. CASE ServerStarts \/ UNCHANGED vars
  BY <1>1, <1>5 DEF ServerStarts, vars, files
<1> QED
  BY <1>2, <1>3, <1>4, <1>5 DEF Next

\* No worker begins a job without a row.
LEMMA NoWorkerReturns ==
    ASSUME LifecycleInv, [Next]_vars, NEW j \in issued, Removed(j), NEW v \in Workers
    PROVE  ~RunBy(v, j)'
<1>1. ~RunBy(v, j) /\ ~Exists(j)
  BY DEF Removed
<1>2. stage \in [Workers -> Stages] /\ running \in [Workers -> Jobs \cup {NoJob}]
  BY DEF LifecycleInv, TypeOK
<1>3. CASE UNCHANGED <<stage, running>>
  BY <1>1, <1>3 DEF RunBy, Busy
<1>4. ASSUME NEW w \in Workers, Release(w) PROVE ~RunBy(v, j)'
  BY <1>1, <1>2, <1>4 DEF Release, RunBy, Busy
<1>5. CASE Exit
  BY <1>5 DEF Exit, RunBy, Busy
<1>6. ASSUME NEW w \in Workers, NEW k \in Jobs, Begin(w, k) PROVE ~RunBy(v, j)'
  BY <1>1, <1>2, <1>6 DEF Begin, RunBy, Busy
<1>7. ASSUME NEW w \in Workers, NEW next, Busy(w), stage' = [stage EXCEPT ![w] = next],
             running' = running
      PROVE  ~RunBy(v, j)'
  BY <1>1, <1>2, <1>7 DEF RunBy, Busy
<1>8. ASSUME NEW k \in Jobs, Request(k) PROVE ~RunBy(v, j)'
  BY <1>3, <1>8 DEF Request, Upload, Retry, Archive, Restore, Purge, workers
<1>9. ASSUME NEW w \in Workers, WorkerStep(w) PROVE ~RunBy(v, j)'
  <2>1. CASE \E inferred \in {"unset", "inferred"} : Parsed(w, inferred)
    BY <1>7, <2>1 DEF Parsed, Busy
  <2>2. CASE Mapped(w)
    BY <1>7, <2>2 DEF Mapped, Busy
  <2> QED
    BY <1>3, <1>4, <1>6, <1>9, <2>1, <2>2 DEF WorkerStep, PicksUp, SkipPurged, BeginFails,
          ParseProgress, Scored, StageFails, TimesOut, workers
<1>10. CASE Disturbance
  BY <1>3, <1>4, <1>5, <1>10 DEF Disturbance, UploadUnrecorded, UploadInterrupted,
        PurgeInterrupted, BeginUnrecorded, ScoredInterrupted, ScoredUnrecorded,
        FailureUnrecorded, ServerStops, workers
<1>11. CASE ServerStarts \/ UNCHANGED vars
  BY <1>3, <1>11 DEF ServerStarts, vars, workers
<1> QED
  BY <1>8, <1>9, <1>10, <1>11 DEF Next

\* Purging a completed job is irreversible and complete, as delete_job says; what
\* PurgeRemovesExport finds is a job purged before it completed.
THEOREM CompletedPurgeFinal == Spec => CompletedPurgeIsFinal
<1>1. LifecycleInv /\ [Next]_vars =>
        [\A j \in issued : /\ status[j] = "completed" /\ Purge(j) => Removed(j)'
                           /\ Removed(j) => Removed(j)']_vars
  <2> SUFFICES ASSUME LifecycleInv, [Next]_vars, NEW j \in issued
               PROVE  /\ status[j] = "completed" /\ Purge(j) => Removed(j)'
                      /\ Removed(j) => Removed(j)'
    OBVIOUS
  <2>1. j \in Jobs
    BY DEF LifecycleInv, TypeOK
  <2>2. Removed(j) => Removed(j)'
    BY NoRowReturns, NoFileReturns, NoWorkerReturns DEF Removed
  <2> QED
    BY <2>1, <2>2, CompletedPurgeRemoves
<1> QED
  BY <1>1, InvariantHolds, PTL DEF Spec, CompletedPurgeIsFinal

-----------------------------------------------------------------------------
(* The refinement.  Under the inductive invariant the contract's state is  *)
(* a function of the status column and of the issued identifiers, so each  *)
(* concrete step is matched by what it does to those.                      *)

\* The job service seen as the contract: a completed job is downloadable.
LEMMA DownloadableIsCompleted ==
    ASSUME LifecycleInv
    PROVE  ContractDownloadable = {j \in Jobs : status[j] = "completed"}
BY DEF LifecycleInv, ResultIsComplete, ContractDownloadable

\* A step that changes neither the statuses nor the issued identifiers is a
\* stuttering step of the contract.
LEMMA SameStatusStutters ==
    ASSUME LifecycleInv, LifecycleInv', UNCHANGED <<status, issued>>
    PROVE  UNCHANGED C!contractVars
<1>1. ContractState' = ContractState
  BY DEF ContractState, Exists
<1>2. ContractDownloadable' = ContractDownloadable
  BY DEF LifecycleInv, ResultIsComplete, ContractDownloadable
<1> QED
  BY <1>1, <1>2 DEF C!contractVars

\* A step that changes the status of one job, which has a row before and after,
\* moves that job in the contract.
LEMMA StatusMoves ==
    ASSUME LifecycleInv, LifecycleInv', NEW k \in Jobs, NEW v \in Statuses \ {"none"},
           Exists(k), status' = [status EXCEPT ![k] = v], issued' = issued
    PROVE  /\ ContractState' = [ContractState EXCEPT ![k] = v]
           /\ ContractState[k] = status[k]
           /\ ContractDownloadable' = IF v = "completed"
                                      THEN ContractDownloadable \cup {k}
                                      ELSE ContractDownloadable \ {k}
<1>1. status \in [Jobs -> Statuses] /\ status[k] # "none"
  BY DEF LifecycleInv, TypeOK, Exists
<1>2. ContractState' = [ContractState EXCEPT ![k] = v]
  BY <1>1 DEF ContractState, Exists
<1>3. ContractState[k] = status[k]
  BY DEF ContractState
<1>4. ContractDownloadable' = {j \in Jobs : status'[j] = "completed"}
  BY DEF LifecycleInv, ResultIsComplete, ContractDownloadable
<1>5. ContractDownloadable = {j \in Jobs : status[j] = "completed"}
  BY DownloadableIsCompleted
<1>6. CASE v = "completed"
  BY <1>1, <1>2, <1>3, <1>4, <1>5, <1>6
<1>7. CASE v # "completed"
  BY <1>1, <1>2, <1>3, <1>4, <1>5, <1>7
<1> QED
  BY <1>6, <1>7

\* Set on the status column, whether or not the row still exists.
LEMMA SetMoves ==
    ASSUME LifecycleInv, LifecycleInv', NEW k \in Jobs, NEW v \in Statuses \ {"none"},
           status' = Set(status, k, v), issued' = issued
    PROVE  \/ UNCHANGED C!contractVars
           \/ /\ Exists(k)
              /\ ContractState' = [ContractState EXCEPT ![k] = v]
              /\ ContractState[k] = status[k]
              /\ ContractDownloadable' = IF v = "completed"
                                         THEN ContractDownloadable \cup {k}
                                         ELSE ContractDownloadable \ {k}
<1>1. CASE Exists(k)
  <2>1. status' = [status EXCEPT ![k] = v]
    BY <1>1 DEF Set
  <2> QED
    BY <1>1, <2>1, StatusMoves
<1>2. CASE ~Exists(k)
  <2>1. status' = status
    BY <1>2 DEF Set, LifecycleInv, TypeOK
  <2> QED
    BY <2>1, SameStatusStutters
<1> QED
  BY <1>1, <1>2

\* Failing a job that is in flight, or was purged meanwhile, is GiveUp.
LEMMA FailureGivesUp ==
    ASSUME LifecycleInv, LifecycleInv', NEW k \in Jobs,
           status[k] \in {"pending", "processing", "none"},
           status' = Set(status, k, "failed"), issued' = issued
    PROVE  C!GiveUp(k) \/ UNCHANGED C!contractVars
<1> "failed" \in Statuses \ {"none"}
  OBVIOUS
<1>1. CASE UNCHANGED C!contractVars
  BY <1>1
<1>2. CASE /\ Exists(k)
           /\ ContractState' = [ContractState EXCEPT ![k] = "failed"]
           /\ ContractState[k] = status[k]
           /\ ContractDownloadable' = ContractDownloadable \ {k}
  <2>1. k \notin ContractDownloadable
    BY DEF ContractDownloadable
  <2> QED
    BY <1>2, <2>1 DEF C!GiveUp, C!Move, Exists
<1> QED
  BY <1>1, <1>2, SetMoves

\* Deleting the row is Remove.
LEMMA DeleteRemoves ==
    ASSUME LifecycleInv, LifecycleInv', NEW k \in Jobs, Exists(k), Delete(k),
           issued' = issued
    PROVE  C!Remove(k)
<1>1. /\ status \in [Jobs -> Statuses]
      /\ status' = [status EXCEPT ![k] = "none"]
      /\ k \in issued
  BY DEF LifecycleInv, TypeOK, KnownIsIssued, Delete
<1>2. ContractState' = [ContractState EXCEPT ![k] = "gone"]
  BY <1>1 DEF ContractState, Exists
<1>3. ContractState[k] \in {"pending", "processing", "completed", "failed"}
  BY DEF LifecycleInv, TypeOK, ContractState, Exists
<1>4. ContractDownloadable' = ContractDownloadable \ {k}
  <2>1. ContractDownloadable' = {j \in Jobs : status'[j] = "completed"}
    BY DEF LifecycleInv, ResultIsComplete, ContractDownloadable
  <2> QED
    BY <1>1, <2>1, DownloadableIsCompleted
<1> QED
  BY <1>2, <1>3, <1>4 DEF C!Remove, C!Move

\* Starting the next job of the queue is Start.
LEMMA BeginStarts ==
    ASSUME LifecycleInv, LifecycleInv', NEW w \in Workers, NEW k \in Jobs,
           TakeNext(w, k), status' = Set(status, k, "processing"), issued' = issued
    PROVE  C!Start(k) \/ UNCHANGED C!contractVars
<1> "processing" \in Statuses \ {"none"}
  OBVIOUS
<1>1. status[k] \in {"pending", "none"}
  <2>1. k = queue[1] /\ 1 \in 1 .. Len(queue)
    BY DEF TakeNext, LifecycleInv, TypeOK
  <2> QED
    BY <2>1 DEF LifecycleInv, OwnedIsInFlight
<1>2. CASE UNCHANGED C!contractVars
  BY <1>2
<1>3. CASE /\ Exists(k)
           /\ ContractState' = [ContractState EXCEPT ![k] = "processing"]
           /\ ContractState[k] = status[k]
           /\ ContractDownloadable' = ContractDownloadable \ {k}
  <2>1. k \notin ContractDownloadable
    BY <1>1 DEF ContractDownloadable
  <2> QED
    BY <1>1, <1>3, <2>1 DEF C!Start, C!Move, Exists
<1> QED
  BY <1>2, <1>3, SetMoves

-----------------------------------------------------------------------------
(* The steps.                                                              *)

\* A new identifier: with a row it is accepted, without one it is dropped.
LEMMA UploadRefines ==
    ASSUME LifecycleInv, LifecycleInv', NEW k \in Jobs, k \notin issued,
           issued' = issued \cup {k},
           status' \in {status, [status EXCEPT ![k] = "pending"]}
    PROVE  C!Accept(k) \/ C!Drop(k)
<1>1. status \in [Jobs -> Statuses] /\ status[k] = "none"
  BY DEF LifecycleInv, TypeOK, KnownIsIssued, Exists
<1>2. ContractState[k] = "absent"
  BY <1>1 DEF ContractState, Exists
<1>3. UNCHANGED ContractDownloadable
  <2>1. ContractDownloadable' = {j \in Jobs : status'[j] = "completed"}
    BY DEF LifecycleInv, ResultIsComplete, ContractDownloadable
  <2> QED
    BY <1>1, <2>1, DownloadableIsCompleted
<1>4. CASE status' = status
  <2>1. ContractState' = [ContractState EXCEPT ![k] = "gone"]
    BY <1>1, <1>4 DEF ContractState, Exists
  <2> QED
    BY <1>2, <1>3, <2>1 DEF C!Drop, C!Move
<1>5. CASE status' = [status EXCEPT ![k] = "pending"]
  <2>1. ContractState' = [ContractState EXCEPT ![k] = "pending"]
    BY <1>1, <1>5 DEF ContractState, Exists
  <2> QED
    BY <1>2, <1>3, <2>1 DEF C!Accept, C!Move
<1> QED
  BY <1>4, <1>5

\* Each request is one action of the contract, or none.
LEMMA RequestRefines ==
    ASSUME LifecycleInv, LifecycleInv', NEW k \in Jobs, Request(k)
    PROVE  C!ContractNext \/ UNCHANGED C!contractVars
<1>1. ASSUME NEW c \in {"unset", "user"}, Upload(k, c)
      PROVE  C!ContractNext
  <2>1. C!Accept(k) \/ C!Drop(k)
    BY <1>1, UploadRefines DEF Upload, Create
  <2> QED
    BY <2>1 DEF C!ContractNext
<1>2. CASE Retry(k)
  <2>1. /\ status[k] = "failed"
        /\ status' = Set(status, k, "pending")
        /\ issued' = issued
    BY <1>2 DEF Retry, Retryable, Requeue
  <2>2. CASE /\ Exists(k)
             /\ ContractState' = [ContractState EXCEPT ![k] = "pending"]
             /\ ContractState[k] = status[k]
             /\ ContractDownloadable' = ContractDownloadable \ {k}
    <3>1. k \notin ContractDownloadable
      BY <2>1 DEF ContractDownloadable
    <3>2. C!TryAgain(k)
      BY <2>1, <2>2, <3>1 DEF C!TryAgain, C!Move
    <3> QED
      BY <3>2 DEF C!ContractNext
  <2>3. "pending" \in Statuses \ {"none"} /\ "pending" # "completed"
    OBVIOUS
  <2> QED
    BY <2>1, <2>2, <2>3, SetMoves
<1>3. CASE Archive(k) \/ Restore(k)
  BY <1>3, SameStatusStutters DEF Archive, Restore
<1>4. CASE Purge(k)
  <2>1. C!Remove(k)
    BY <1>4, DeleteRemoves DEF Purge
  <2> QED
    BY <2>1 DEF C!ContractNext
<1> QED
  BY <1>1, <1>2, <1>3, <1>4 DEF Request

\* The job a worker runs is processing, or was purged meanwhile.
LEMMA RunningStatus ==
    ASSUME LifecycleInv, NEW w \in Workers, Busy(w)
    PROVE  running[w] \in Jobs /\ status[running[w]] \in {"processing", "none"}
BY DEF LifecycleInv, TypeOK, OwnedIsInFlight

\* Storing the result of a job that still has its row is Complete.
LEMMA ScoredRefines ==
    ASSUME LifecycleInv, LifecycleInv', NEW w \in Workers, Scored(w)
    PROVE  C!ContractNext \/ UNCHANGED C!contractVars
<1> DEFINE k == running[w]
<1>1. k \in Jobs /\ status[k] \in {"processing", "none"}
  BY RunningStatus DEF Scored, Busy
<1>2. status' = Set(status, k, "completed") /\ issued' = issued
  BY DEF Scored
<1>3. "completed" \in Statuses \ {"none"}
  OBVIOUS
<1>4. CASE /\ Exists(k)
           /\ ContractState' = [ContractState EXCEPT ![k] = "completed"]
           /\ ContractState[k] = status[k]
           /\ ContractDownloadable' = ContractDownloadable \cup {k}
  <2>1. C!Complete(k)
    BY <1>1, <1>4 DEF C!Complete, C!Move, Exists
  <2> QED
    BY <1>1, <2>1 DEF C!ContractNext
<1> HIDE DEF k
<1> QED
  BY <1>1, <1>2, <1>3, <1>4, SetMoves

\* Each step of a worker is one action of the contract, or none.
LEMMA WorkerStepRefines ==
    ASSUME LifecycleInv, LifecycleInv', NEW w \in Workers, WorkerStep(w)
    PROVE  C!ContractNext \/ UNCHANGED C!contractVars
<1>1. ASSUME NEW k \in Jobs, TakeNext(w, k), issued' = issued,
             \/ status' = status
             \/ status' = Set(status, k, "processing")
             \/ status' = Set(status, k, "failed")
      PROVE  C!ContractNext \/ UNCHANGED C!contractVars
  <2>1. CASE status' = status
    BY <1>1, <2>1, SameStatusStutters
  <2>2. CASE status' = Set(status, k, "processing")
    BY <1>1, <2>2, BeginStarts DEF C!ContractNext
  <2>3. CASE status' = Set(status, k, "failed")
    <3>1. k = queue[1] /\ 1 \in 1 .. Len(queue)
      BY <1>1 DEF TakeNext, LifecycleInv, TypeOK
    <3>2. status[k] \in {"pending", "processing", "none"}
      BY <3>1 DEF LifecycleInv, OwnedIsInFlight
    <3> QED
      BY <1>1, <2>3, <3>2, FailureGivesUp DEF C!ContractNext
  <2> QED
    BY <1>1, <2>1, <2>2, <2>3
<1>2. ASSUME NEW k \in Jobs, SkipPurged(w, k) \/ Begin(w, k) \/ BeginFails(w, k)
      PROVE  C!ContractNext \/ UNCHANGED C!contractVars
  BY <1>1, <1>2 DEF SkipPurged, Begin, BeginFails, MarkFailed, table
<1>3. CASE ParseProgress(w) \/ Mapped(w)
  BY <1>3, SameStatusStutters DEF ParseProgress, Mapped
<1>4. CASE \E inferred \in {"unset", "inferred"} : Parsed(w, inferred)
  BY <1>4, SameStatusStutters DEF Parsed, CustomerOf
<1>5. CASE Scored(w)
  BY <1>5, ScoredRefines
<1>6. CASE StageFails(w) \/ TimesOut(w)
  <2>1. /\ running[w] \in Jobs
        /\ status[running[w]] \in {"pending", "processing", "none"}
    BY <1>6, RunningStatus DEF StageFails, TimesOut
  <2>2. status' = Set(status, running[w], "failed") /\ issued' = issued
    BY <1>6 DEF StageFails, TimesOut, MarkFailed
  <2> QED
    BY <2>1, <2>2, FailureGivesUp DEF C!ContractNext
<1> QED
  BY <1>2, <1>3, <1>4, <1>5, <1>6 DEF WorkerStep, PicksUp

\* So is each disturbed handler or stage, an exit of the process, and a restart.
LEMMA DisturbanceRefines ==
    ASSUME LifecycleInv, LifecycleInv', Disturbance \/ ServerStarts
    PROVE  C!ContractNext \/ UNCHANGED C!contractVars
<1>1. ASSUME NEW k \in Jobs, UploadUnrecorded(k) \/ UploadInterrupted(k)
      PROVE  C!ContractNext
  <2>1. C!Accept(k) \/ C!Drop(k)
    BY <1>1, UploadRefines DEF UploadUnrecorded, UploadInterrupted, table
  <2> QED
    BY <2>1 DEF C!ContractNext
<1>2. ASSUME NEW k \in Jobs, PurgeInterrupted(k)
      PROVE  C!ContractNext
  <2>1. C!Remove(k)
    BY <1>2, DeleteRemoves DEF PurgeInterrupted
  <2> QED
    BY <2>1 DEF C!ContractNext
<1>3. ASSUME NEW w \in Workers, NEW k \in Jobs, BeginUnrecorded(w, k)
      PROVE  C!ContractNext \/ UNCHANGED C!contractVars
  <2>1. CASE status' = status
    BY <1>3, <2>1, SameStatusStutters DEF BeginUnrecorded
  <2>2. CASE status' = Set(status, k, "processing")
    BY <1>3, <2>2, BeginStarts DEF BeginUnrecorded, C!ContractNext
  <2> QED
    BY <1>3, <2>1, <2>2 DEF BeginUnrecorded
<1>4. ASSUME NEW w \in Workers, ScoredInterrupted(w) \/ FailureUnrecorded(w)
      PROVE  UNCHANGED C!contractVars
  BY <1>4, SameStatusStutters DEF ScoredInterrupted, FailureUnrecorded, table
<1>5. ASSUME NEW w \in Workers, ScoredUnrecorded(w)
      PROVE  C!ContractNext \/ UNCHANGED C!contractVars
  <2>1. /\ running[w] \in Jobs
        /\ status[running[w]] \in {"pending", "processing", "none"}
    BY <1>5, RunningStatus DEF ScoredUnrecorded, Busy
  <2> QED
    BY <1>5, <2>1, FailureGivesUp DEF ScoredUnrecorded, MarkFailed, C!ContractNext
<1>6. CASE ServerStops
  BY <1>6, SameStatusStutters DEF ServerStops, table
<1>7. CASE ServerStarts
  <2>1. /\ status \in [Jobs -> Statuses]
        /\ status' = [j \in Jobs |-> IF InFlight(j) THEN "failed" ELSE status[j]]
        /\ issued' = issued
    BY <1>7 DEF ServerStarts, RecoverOrphanedJobs, LifecycleInv, TypeOK
  <2>2. ContractState' =
          [j \in Jobs |-> IF ContractState[j] \in {"pending", "processing"}
                          THEN "failed" ELSE ContractState[j]]
    BY <2>1 DEF ContractState, Exists, InFlight
  <2>3. ContractDownloadable' = ContractDownloadable
    <3>1. ContractDownloadable' = {j \in Jobs : status'[j] = "completed"}
      BY DEF LifecycleInv, ResultIsComplete, ContractDownloadable
    <3> QED
      BY <2>1, <3>1, DownloadableIsCompleted DEF InFlight
  <2> QED
    BY <2>2, <2>3 DEF C!FailInFlight, C!ContractNext
<1> QED
  BY <1>1, <1>2, <1>3, <1>4, <1>5, <1>6, <1>7 DEF Disturbance

\* JobLifecycle implements JobContract for every number of jobs and workers: a
\* completed job can be downloaded until it is purged, only a failed job runs
\* again, and a purged job never comes back.
THEOREM Refinement == Spec => ImplementsContract
<1>1. Init => C!ContractInit
  BY DEF Init, C!ContractInit, ContractState, ContractDownloadable, Exists
<1>2. LifecycleInv /\ LifecycleInv' /\ [Next]_vars => [C!ContractNext]_(C!contractVars)
  <2> SUFFICES ASSUME LifecycleInv, LifecycleInv', [Next]_vars
               PROVE  C!ContractNext \/ UNCHANGED C!contractVars
    OBVIOUS
  <2>1. CASE Next
    BY <2>1, RequestRefines, WorkerStepRefines, DisturbanceRefines DEF Next
  <2>2. CASE UNCHANGED vars
    BY <2>2, SameStatusStutters DEF vars, table
  <2> QED
    BY <2>1, <2>2
<1> QED
  BY <1>1, <1>2, InvariantHolds, PTL DEF Spec, ImplementsContract, C!Contract
=============================================================================
