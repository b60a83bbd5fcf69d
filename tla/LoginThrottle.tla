---------------------------- MODULE LoginThrottle ----------------------------
(***************************************************************************)
(* The two brakes of POST /auth/login (core/rate_limit.py): a sliding      *)
(* window over all attempts of one address, and a lockout per address and  *)
(* user after failures.  One address is modelled: buckets of different     *)
(* keys share nothing.  The handler has no await, so a login is one step.  *)
(* Times are numbers of a clock that never goes back (time.monotonic).     *)
(***************************************************************************)
EXTENDS Integers, FiniteSets

CONSTANTS
    Users,
    MAX_ATTEMPTS, WINDOW,    \* 10 in 60 s
    MAX_FAILURES, LOCKOUT,   \* 8, 900 s
    NoLock,          \* None
    MaxRequests,     \* bound: requests
    MaxTime          \* bound: the clock

ASSUME ThrottleAssumption ==
    /\ MAX_ATTEMPTS \in Nat \ {0} /\ WINDOW \in Nat \ {0}
    /\ MAX_FAILURES \in Nat \ {0} /\ LOCKOUT \in Nat \ {0}
    /\ NoLock \notin Int
    /\ MaxRequests \in Nat /\ MaxTime \in Nat

VARIABLES
    now,
    bucket,          \* the deque of the address: requests that are remembered
    count, lockedUntil,      \* the lockout of every user
    requests,        \* counter, the number of a request
    \* bookkeeping of the model
    allowed,         \* every request the limiter let through
    failed           \* of every user, the failures since the last success

lockout == <<count, lockedUntil>>
vars == <<now, bucket, lockout, requests, allowed, failed>>

\* A request has a number and a time.
Request == [id : Nat, at : Nat]
ThisRequest == [id |-> requests + 1, at |-> now]

Init ==
    /\ now = 0
    /\ bucket = {}
    /\ count = [u \in Users |-> 0]
    /\ lockedUntil = [u \in Users |-> NoLock]
    /\ requests = 0
    /\ allowed = {}
    /\ failed = [u \in Users |-> {}]

-----------------------------------------------------------------------------
(* RateLimiter.                                                            *)

\* VARIANT of Remembered: entries are dropped one tick early.
RememberedShortly == {r \in bucket : r.at > now - WINDOW + 1}

\* what allow keeps of the deque
Remembered == {r \in bucket : r.at > now - WINDOW}

\* allow: the attempt is recorded only when it is within the limit
Allowed ==
    /\ Cardinality(Remembered) < MAX_ATTEMPTS
    /\ bucket' = Remembered \cup {ThisRequest}
    /\ allowed' = allowed \cup {ThisRequest}

Denied ==
    /\ Cardinality(Remembered) >= MAX_ATTEMPTS
    /\ bucket' = Remembered
    /\ UNCHANGED allowed

-----------------------------------------------------------------------------
(* LoginLockout.                                                           *)

IsLocked(u) == lockedUntil[u] # NoLock /\ now < lockedUntil[u]

\* is_locked removes an entry whose lock has run out
FailuresSoFar(u) == IF lockedUntil[u] # NoLock THEN 0 ELSE count[u]

\* VARIANT of RegisterFailure: the lock is set one failure late.
RegisterFailureLate(u) ==
    LET n == FailuresSoFar(u) + 1 IN
    /\ count' = [count EXCEPT ![u] = n]
    /\ lockedUntil' = [lockedUntil EXCEPT ![u] = IF n > MAX_FAILURES THEN now + LOCKOUT ELSE NoLock]
    /\ failed' = [failed EXCEPT ![u] = @ \cup {ThisRequest}]

\* register_failure, after is_locked
RegisterFailure(u) ==
    LET n == FailuresSoFar(u) + 1 IN
    /\ count' = [count EXCEPT ![u] = n]
    /\ lockedUntil' = [lockedUntil EXCEPT ![u] = IF n >= MAX_FAILURES THEN now + LOCKOUT ELSE NoLock]
    /\ failed' = [failed EXCEPT ![u] = @ \cup {ThisRequest}]

Reset(u) ==
    /\ count' = [count EXCEPT ![u] = 0]
    /\ lockedUntil' = [lockedUntil EXCEPT ![u] = NoLock]
    /\ failed' = [failed EXCEPT ![u] = {}]

-----------------------------------------------------------------------------
(* The handler.                                                            *)

NewRequest == requests < MaxRequests /\ requests' = requests + 1

\* 429: too many attempts
TooMany ==
    /\ NewRequest
    /\ Denied
    /\ UNCHANGED <<now, lockout, failed>>

\* 429: locked
Locked(u) ==
    /\ NewRequest
    /\ Allowed
    /\ IsLocked(u)
    /\ UNCHANGED <<now, lockout, failed>>

\* 401: invalid user name or password
WrongPassword(u) ==
    /\ NewRequest
    /\ Allowed
    /\ ~IsLocked(u)
    /\ RegisterFailure(u)
    /\ UNCHANGED now

\* 200: a session
LoggedIn(u) ==
    /\ NewRequest
    /\ Allowed
    /\ ~IsLocked(u)
    /\ Reset(u)
    /\ UNCHANGED now

Tick ==
    /\ now < MaxTime
    /\ now' = now + 1
    /\ UNCHANGED <<bucket, lockout, requests, allowed, failed>>

Next ==
    \/ TooMany
    \/ \E u \in Users : Locked(u) \/ WrongPassword(u) \/ LoggedIn(u)
    \/ Tick

Spec == Init /\ [][Next]_vars

-----------------------------------------------------------------------------
\* Types of the variables; a lock belongs to a full count, and to no other.
TypeOK ==
    /\ now \in Nat
    /\ bucket \subseteq allowed
    /\ requests \in Nat
    /\ allowed \in SUBSET Request /\ IsFiniteSet(allowed)
    /\ count \in [Users -> 0..MAX_FAILURES]
    /\ lockedUntil \in [Users -> Nat \cup {NoLock}]
    /\ \A u \in Users : lockedUntil[u] # NoLock <=> count[u] = MAX_FAILURES
    /\ failed \in [Users -> SUBSET Request]

\* In no window of time, wherever it ends, more attempts than the limit are let
\* through: what allow forgets has left every window that is still to come.
InWindow(t) == {r \in allowed : r.at > t - WINDOW /\ r.at <= t}
WindowBound == \A t \in 0..now : Cardinality(InWindow(t)) <= MAX_ATTEMPTS

\* Between two successes no more passwords of a user are tried in the time of a
\* lockout than the limit, although the lock is removed on the way.
RecentFailures(u) == {r \in failed[u] : r.at > now - LOCKOUT}
FailuresBounded == \A u \in Users : Cardinality(RecentFailures(u)) <= MAX_FAILURES
=============================================================================
