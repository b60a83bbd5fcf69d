----------------------------- MODULE PagesProofs -----------------------------
(***************************************************************************)
(* Proofs about the login and the pages of the browser, for any constants. *)
(* First the brakes of the login (LoginThrottle, which Pages extends):     *)
(* types, and that neither bound on attempts is passed.  Then the parts    *)
(* that have no proof module of their own (SourcePane, UploadForm,         *)
(* LoginSession, Statistics, with the sums of its aggregates), and last    *)
(* the properties of Pages: a part that runs takes only steps of its       *)
(* component, so that what is proved of the component holds of it.         *)
(***************************************************************************)
EXTENDS Pages, FiniteSetTheorems, WellFoundedInduction, TLAPS

\* Nothing let through lies in the future or has a number still to be given.
PastOnly == \A r \in allowed : r.at <= now /\ r.id <= requests

\* What allow has forgotten has left the window.
RecentIsRemembered == \A r \in allowed : r.at > now - WINDOW => r \in bucket

\* Of the failures of a user only as many are recent as are counted, and those that
\* led to a lock are as old as the lock.
FailuresCounted ==
    \A u \in Users :
        /\ \A r \in failed[u] : r.at <= now
        /\ IsFiniteSet(failed[u])
        /\ Cardinality(RecentFailures(u)) <= count[u]
        /\ lockedUntil[u] # NoLock =>
              \A r \in failed[u] : r.at + LOCKOUT <= lockedUntil[u]

WindowInv == TypeOK /\ PastOnly /\ RecentIsRemembered /\ WindowBound
ThrottleInv == WindowInv /\ FailuresCounted

-----------------------------------------------------------------------------
LEMMA InitThrottle == Init => ThrottleInv
<1> SUFFICES ASSUME Init PROVE ThrottleInv
  OBVIOUS
<1>1. IsFiniteSet({}) /\ Cardinality({}) = 0
  BY FS_EmptySet
<1>2. TypeOK
  BY <1>1, ThrottleAssumption DEF Init, TypeOK
<1>3. PastOnly /\ RecentIsRemembered
  BY DEF Init, PastOnly, RecentIsRemembered
<1>4. WindowBound
  <2> SUFFICES ASSUME NEW t \in 0..now PROVE Cardinality(InWindow(t)) <= MAX_ATTEMPTS
    BY DEF WindowBound
  <2>1. InWindow(t) = {}
    BY DEF Init, InWindow
  <2> QED
    BY <1>1, <2>1, ThrottleAssumption
<1>5. FailuresCounted
  <2> SUFFICES ASSUME NEW u \in Users
               PROVE  /\ failed[u] = {} /\ lockedUntil[u] = NoLock /\ count[u] = 0
                      /\ Cardinality(RecentFailures(u)) <= count[u]
    BY <1>1 DEF FailuresCounted
  <2>1. failed[u] = {} /\ lockedUntil[u] = NoLock /\ count[u] = 0
    BY DEF Init
  <2>2. RecentFailures(u) = {}
    BY <2>1 DEF RecentFailures
  <2> QED
    BY <1>1, <2>1, <2>2
<1> QED
  BY <1>2, <1>3, <1>4, <1>5 DEF ThrottleInv, WindowInv

-----------------------------------------------------------------------------
(* The window.                                                             *)

\* Every window that is not over yet lies in the deque.
LEMMA WindowIsRemembered ==
    ASSUME WindowInv, NEW t \in Nat, t >= now
    PROVE  InWindow(t) \subseteq Remembered
BY ThrottleAssumption
   DEF WindowInv, TypeOK, Request, RecentIsRemembered, InWindow, Remembered

LEMMA RememberedIsFinite ==
    ASSUME WindowInv
    PROVE  IsFiniteSet(Remembered) /\ Cardinality(Remembered) \in Nat
<1>1. Remembered \in SUBSET allowed
  BY DEF WindowInv, TypeOK, Remembered
<1> QED
  BY <1>1, FS_Subset, FS_CardinalityType DEF WindowInv, TypeOK

LEMMA AllowedKeepsWindow ==
    ASSUME WindowInv, Allowed, now' = now, requests' = requests + 1
    PROVE  WindowBound' /\ IsFiniteSet(allowed') /\ allowed' \in SUBSET Request
<1> USE ThrottleAssumption
<1>1. ThisRequest \in Request /\ ThisRequest.at = now
  BY DEF WindowInv, TypeOK, Request, ThisRequest
<1>2. allowed' \in SUBSET Request
  BY <1>1 DEF WindowInv, TypeOK, Allowed
<1>3. IsFiniteSet(allowed')
  BY FS_AddElement DEF WindowInv, TypeOK, Allowed
<1>4. ASSUME NEW t \in 0..now PROVE Cardinality(InWindow(t)') <= MAX_ATTEMPTS
  <2>1. CASE t < now
    <3>1. InWindow(t)' = InWindow(t)
      BY <1>1, <2>1 DEF WindowInv, TypeOK, Allowed, InWindow
    <3> QED
      BY <3>1 DEF WindowInv, WindowBound
  <2>2. CASE t = now
    <3>1. InWindow(t)' \in SUBSET (Remembered \cup {ThisRequest})
      <4>1. InWindow(t) \subseteq Remembered
        BY <2>2, WindowIsRemembered DEF WindowInv, TypeOK
      <4> QED
        BY <4>1 DEF Allowed, InWindow
    <3>2. /\ IsFiniteSet(Remembered \cup {ThisRequest})
          /\ Cardinality(Remembered \cup {ThisRequest}) <= Cardinality(Remembered) + 1
      BY RememberedIsFinite, FS_AddElement
    <3>3. Cardinality(Remembered) < MAX_ATTEMPTS /\ Cardinality(Remembered) \in Nat
      BY RememberedIsFinite DEF Allowed
    <3>4. /\ Cardinality(InWindow(t)') <= Cardinality(Remembered \cup {ThisRequest})
          /\ IsFiniteSet(InWindow(t)')
      BY <3>1, <3>2, FS_Subset
    <3>5. /\ Cardinality(InWindow(t)') \in Nat
          /\ Cardinality(Remembered \cup {ThisRequest}) \in Nat
      BY <3>2, <3>4, FS_CardinalityType
    <3> QED
      BY <3>2, <3>3, <3>4, <3>5
  <2> QED
    BY <1>4, <2>1, <2>2 DEF WindowInv, TypeOK
<1> QED
  BY <1>2, <1>3, <1>4 DEF WindowBound

-----------------------------------------------------------------------------
(* The lockout.                                                            *)

\* RegisterFailure and Reset keep the types: a lock belongs to a full count.
LEMMA FailureTypes ==
    ASSUME TypeOK, NEW u \in Users, ~IsLocked(u), RegisterFailure(u)
    PROVE  /\ count' \in [Users -> 0..MAX_FAILURES]
           /\ lockedUntil' \in [Users -> Nat \cup {NoLock}]
           /\ \A v \in Users : lockedUntil'[v] # NoLock <=> count'[v] = MAX_FAILURES
           /\ failed' \in [Users -> SUBSET Request]
<1> DEFINE n == FailuresSoFar(u) + 1
<1> USE ThrottleAssumption DEF TypeOK
<1>1. FailuresSoFar(u) \in 0..(MAX_FAILURES - 1)
  BY DEF FailuresSoFar
<1>2. n \in 1..MAX_FAILURES
  BY <1>1
<1>3. ThisRequest \in Request
  BY DEF Request, ThisRequest
<1>4. now + LOCKOUT \in Nat /\ now + LOCKOUT # NoLock
  OBVIOUS
<1>5. /\ count' = [count EXCEPT ![u] = n]
      /\ lockedUntil' = [lockedUntil EXCEPT ![u] = IF n >= MAX_FAILURES THEN now + LOCKOUT ELSE NoLock]
      /\ failed' = [failed EXCEPT ![u] = failed[u] \cup {ThisRequest}]
  BY DEF RegisterFailure
<1>6. failed' \in [Users -> SUBSET Request]
  BY <1>3, <1>5
<1> HIDE DEF n
<1> QED
  BY <1>2, <1>4, <1>5, <1>6

LEMMA ResetTypes ==
    ASSUME TypeOK, NEW u \in Users, Reset(u)
    PROVE  /\ count' \in [Users -> 0..MAX_FAILURES]
           /\ lockedUntil' \in [Users -> Nat \cup {NoLock}]
           /\ \A v \in Users : lockedUntil'[v] # NoLock <=> count'[v] = MAX_FAILURES
           /\ failed' \in [Users -> SUBSET Request]
BY ThrottleAssumption DEF TypeOK, Reset

\* Of the user who failed: after a lock that has run out no failure is recent, and
\* without a lock one more is counted.
LEMMA FailureCounted ==
    ASSUME TypeOK, FailuresCounted, NEW u \in Users, ~IsLocked(u), RegisterFailure(u),
           now' = now
    PROVE  FailuresCounted'
<1> DEFINE n == FailuresSoFar(u) + 1
<1> USE ThrottleAssumption
<1>1. ThisRequest \in Request /\ ThisRequest.at = now
  BY DEF TypeOK, Request, ThisRequest
<1>2. /\ count' = [count EXCEPT ![u] = n]
      /\ lockedUntil' = [lockedUntil EXCEPT ![u] = IF n >= MAX_FAILURES THEN now + LOCKOUT ELSE NoLock]
      /\ failed' = [failed EXCEPT ![u] = failed[u] \cup {ThisRequest}]
  BY DEF RegisterFailure
<1>3. SUFFICES ASSUME NEW v \in Users
      PROVE  /\ \A r \in failed'[v] : r.at <= now'
             /\ IsFiniteSet(failed'[v])
             /\ Cardinality(RecentFailures(v)') <= count'[v]
             /\ lockedUntil'[v] # NoLock =>
                   \A r \in failed'[v] : r.at + LOCKOUT <= lockedUntil'[v]
  BY DEF FailuresCounted
<1>4. CASE v # u
  <2>1. count'[v] = count[v] /\ lockedUntil'[v] = lockedUntil[v] /\ failed'[v] = failed[v]
    BY <1>2, <1>4 DEF TypeOK
  <2>2. RecentFailures(v)' = RecentFailures(v)
    BY <2>1 DEF RecentFailures
  <2> QED
    BY <2>1, <2>2 DEF FailuresCounted
<1>5. CASE v = u
  <2>1. /\ count'[u] = n /\ failed'[u] = failed[u] \cup {ThisRequest}
        /\ lockedUntil'[u] = IF n >= MAX_FAILURES THEN now + LOCKOUT ELSE NoLock
    BY <1>2 DEF TypeOK
  <2>2. \A r \in failed'[u] : r.at <= now
    BY <1>1, <2>1 DEF FailuresCounted, TypeOK, Request
  <2>3. IsFiniteSet(failed'[u])
    <3>1. IsFiniteSet(failed[u])
      BY DEF FailuresCounted
    <3>2. IsFiniteSet(failed[u] \cup {ThisRequest})
      BY <3>1, FS_AddElement
    <3> QED
      BY <2>1, <3>2
  <2>4. RecentFailures(u) \in SUBSET failed[u]
    BY DEF RecentFailures
  <2>5. IsFiniteSet(RecentFailures(u)) /\ Cardinality(RecentFailures(u)) \in Nat
    BY <2>4, FS_Subset, FS_CardinalityType DEF FailuresCounted
  <2>6. Cardinality(RecentFailures(u)) <= FailuresSoFar(u)
    <3>1. CASE lockedUntil[u] = NoLock
      BY <3>1 DEF FailuresSoFar, FailuresCounted
    <3>2. CASE lockedUntil[u] # NoLock
      <4>1. lockedUntil[u] \in Nat /\ lockedUntil[u] <= now
        BY <3>2 DEF IsLocked, TypeOK
      <4>2. ASSUME NEW r \in failed[u] PROVE ~(r.at > now - LOCKOUT)
        <5>1. r.at + LOCKOUT <= lockedUntil[u]
          BY <3>2 DEF FailuresCounted
        <5>2. r \in Request
          BY DEF TypeOK
        <5> QED
          BY <4>1, <5>1, <5>2 DEF TypeOK, Request
      <4>3. RecentFailures(u) = {}
        BY <4>2 DEF RecentFailures
      <4> QED
        BY <3>2, <4>3, FS_EmptySet DEF FailuresSoFar
    <3> QED
      BY <3>1, <3>2
  <2>7. RecentFailures(u)' = RecentFailures(u) \cup {ThisRequest}
    BY <1>1, <2>1 DEF RecentFailures, TypeOK
  <2>8. FailuresSoFar(u) \in Nat
    BY DEF FailuresSoFar, TypeOK
  <2>9. Cardinality(RecentFailures(u)') <= Cardinality(RecentFailures(u)) + 1
    BY <2>5, <2>7, FS_AddElement
  <2>10. Cardinality(RecentFailures(u)') \in Nat
    BY <2>5, <2>7, FS_AddElement, FS_CardinalityType
  <2>11. Cardinality(RecentFailures(u)') <= count'[u]
    BY <2>1, <2>5, <2>6, <2>8, <2>9, <2>10
  <2>12. lockedUntil'[u] # NoLock => lockedUntil'[u] = now + LOCKOUT
    BY <2>1
  <2>13. lockedUntil'[u] # NoLock => \A r \in failed'[u] : r.at + LOCKOUT <= lockedUntil'[u]
    <3> SUFFICES ASSUME lockedUntil'[u] # NoLock, NEW r \in failed'[u]
                 PROVE  r.at + LOCKOUT <= now + LOCKOUT
      BY <2>12
    <3>1. r \in Request
      BY <1>1, <2>1 DEF TypeOK
    <3> QED
      BY <2>2, <3>1 DEF TypeOK, Request
  <2> QED
    BY <1>5, <2>2, <2>3, <2>11, <2>13
<1> QED
  BY <1>4, <1>5

LEMMA ResetCounted ==
    ASSUME TypeOK, FailuresCounted, NEW u \in Users, Reset(u), now' = now
    PROVE  FailuresCounted'
<1>1. SUFFICES ASSUME NEW v \in Users
      PROVE  /\ \A r \in failed'[v] : r.at <= now'
             /\ IsFiniteSet(failed'[v])
             /\ Cardinality(RecentFailures(v)') <= count'[v]
             /\ lockedUntil'[v] # NoLock =>
                   \A r \in failed'[v] : r.at + LOCKOUT <= lockedUntil'[v]
  BY DEF FailuresCounted
<1>2. CASE v # u
  <2>1. count'[v] = count[v] /\ lockedUntil'[v] = lockedUntil[v] /\ failed'[v] = failed[v]
    BY <1>2 DEF TypeOK, Reset
  <2>2. RecentFailures(v)' = RecentFailures(v)
    BY <2>1 DEF RecentFailures
  <2> QED
    BY <2>1, <2>2 DEF FailuresCounted
<1>3. CASE v = u
  <2>1. count'[u] = 0 /\ lockedUntil'[u] = NoLock /\ failed'[u] = {}
    BY DEF TypeOK, Reset
  <2>2. RecentFailures(u)' = {}
    BY <2>1 DEF RecentFailures
  <2> QED
    BY <1>3, <2>1, <2>2, FS_EmptySet
<1> QED
  BY <1>2, <1>3

\* Time passes over the failures, which become fewer.
LEMMA TickCounted ==
    ASSUME TypeOK, FailuresCounted, Tick
    PROVE  FailuresCounted'
<1>1. SUFFICES ASSUME NEW u \in Users
      PROVE  /\ \A r \in failed[u] : r.at <= now'
             /\ Cardinality(RecentFailures(u)') <= count[u]
  BY DEF FailuresCounted, Tick, lockout
<1>2. \A r \in failed[u] : r.at <= now'
  BY DEF FailuresCounted, Tick, TypeOK, Request
<1>3. RecentFailures(u)' \in SUBSET RecentFailures(u)
  BY ThrottleAssumption DEF RecentFailures, Tick, TypeOK, Request
<1>4. RecentFailures(u) \in SUBSET failed[u]
  BY DEF RecentFailures
<1>5. IsFiniteSet(RecentFailures(u)) /\ Cardinality(RecentFailures(u)) \in Nat
  BY <1>4, FS_Subset, FS_CardinalityType DEF FailuresCounted
<1>6. /\ Cardinality(RecentFailures(u)') <= Cardinality(RecentFailures(u))
      /\ Cardinality(RecentFailures(u)') \in Nat
  BY <1>3, <1>5, FS_Subset, FS_CardinalityType
<1>7. Cardinality(RecentFailures(u)) <= count[u] /\ count[u] \in Nat
  BY DEF FailuresCounted, TypeOK
<1> QED
  BY <1>2, <1>5, <1>6, <1>7

-----------------------------------------------------------------------------
(* Every step.                                                             *)

\* A request that is let through, whatever then becomes of it.
LEMMA AllowedStep ==
    ASSUME ThrottleInv, NewRequest, Allowed, UNCHANGED now, NEW u \in Users,
           \/ UNCHANGED <<lockout, failed>>
           \/ ~IsLocked(u) /\ RegisterFailure(u)
           \/ Reset(u)
    PROVE  ThrottleInv'
<1> USE DEF ThrottleInv, WindowInv
<1>1. requests' = requests + 1 /\ now' = now
  BY DEF NewRequest
<1>2. WindowBound' /\ IsFiniteSet(allowed') /\ allowed' \in SUBSET Request
  BY <1>1, AllowedKeepsWindow
<1>3. ThisRequest.at = now /\ ThisRequest.id = requests + 1
  BY DEF ThisRequest
<1>4. PastOnly'
  <2> SUFFICES ASSUME NEW r \in allowed' PROVE r.at <= now /\ r.id <= requests + 1
    BY <1>1 DEF PastOnly
  <2>1. CASE r \in allowed
    BY <2>1 DEF PastOnly, TypeOK, Request
  <2>2. CASE r = ThisRequest
    BY <1>3, <2>2 DEF TypeOK
  <2> QED
    BY <2>1, <2>2 DEF Allowed
<1>5. RecentIsRemembered'
  BY <1>1 DEF RecentIsRemembered, Allowed, Remembered
<1>6. bucket' \subseteq allowed'
  BY DEF Allowed, Remembered, TypeOK
<1>7. /\ count' \in [Users -> 0..MAX_FAILURES]
      /\ lockedUntil' \in [Users -> Nat \cup {NoLock}]
      /\ \A v \in Users : lockedUntil'[v] # NoLock <=> count'[v] = MAX_FAILURES
      /\ failed' \in [Users -> SUBSET Request]
  <2>1. CASE UNCHANGED <<lockout, failed>>
    BY <2>1 DEF TypeOK, lockout
  <2>2. CASE ~IsLocked(u) /\ RegisterFailure(u)
    BY <2>2, FailureTypes
  <2>3. CASE Reset(u)
    BY <2>3, ResetTypes
  <2> QED
    BY <2>1, <2>2, <2>3
<1>8. TypeOK'
  BY <1>1, <1>2, <1>6, <1>7 DEF TypeOK
<1>9. FailuresCounted'
  <2>1. CASE UNCHANGED <<lockout, failed>>
    BY <1>1, <2>1 DEF FailuresCounted, RecentFailures, lockout
  <2>2. CASE ~IsLocked(u) /\ RegisterFailure(u)
    BY <1>1, <2>2, FailureCounted
  <2>3. CASE Reset(u)
    BY <1>1, <2>3, ResetCounted
  <2> QED
    BY <2>1, <2>2, <2>3
<1> QED
  BY <1>2, <1>4, <1>5, <1>8, <1>9

\* A refused request forgets what is old and changes nothing else.
LEMMA TooManyStep ==
    ASSUME ThrottleInv, TooMany
    PROVE  ThrottleInv'
<1> USE DEF ThrottleInv, WindowInv
<1>1. /\ requests' = requests + 1 /\ now' = now /\ bucket' = Remembered
      /\ allowed' = allowed /\ failed' = failed
      /\ count' = count /\ lockedUntil' = lockedUntil
  BY DEF TooMany, NewRequest, Denied, lockout
<1>2. TypeOK'
  BY <1>1 DEF TypeOK, Remembered
<1>3. PastOnly'
  BY <1>1 DEF PastOnly, TypeOK, Request
<1>4. RecentIsRemembered'
  BY <1>1 DEF RecentIsRemembered, Remembered
<1>5. WindowBound'
  BY <1>1 DEF WindowBound, InWindow
<1>6. FailuresCounted'
  BY <1>1 DEF FailuresCounted, RecentFailures
<1> QED
  BY <1>2, <1>3, <1>4, <1>5, <1>6

\* Time passes: the window that ends now is part of one that ended before.
LEMMA TickStep ==
    ASSUME ThrottleInv, Tick
    PROVE  ThrottleInv'
<1> USE ThrottleAssumption DEF ThrottleInv, WindowInv
<1>1. /\ now' = now + 1 /\ now \in Nat /\ requests' = requests /\ bucket' = bucket
      /\ allowed' = allowed /\ failed' = failed
      /\ count' = count /\ lockedUntil' = lockedUntil
  BY DEF Tick, TypeOK, lockout
<1>2. TypeOK'
  BY <1>1 DEF TypeOK
<1>3. PastOnly'
  BY <1>1 DEF PastOnly, TypeOK, Request
<1>4. RecentIsRemembered'
  <2> SUFFICES ASSUME NEW r \in allowed, r.at > now + 1 - WINDOW PROVE r \in bucket
    BY <1>1 DEF RecentIsRemembered
  <2>1. r \in Request
    BY DEF TypeOK
  <2> QED
    BY <1>1, <2>1 DEF RecentIsRemembered, Request
<1>5. WindowBound'
  <2> SUFFICES ASSUME NEW t \in 0..(now + 1) PROVE Cardinality(InWindow(t)') <= MAX_ATTEMPTS
    BY <1>1 DEF WindowBound
  <2>1. InWindow(t)' = InWindow(t)
    BY <1>1 DEF InWindow
  <2>2. CASE t <= now
    BY <1>1, <2>1, <2>2 DEF WindowBound
  <2>3. CASE t = now + 1
    <3>1. InWindow(t) \in SUBSET InWindow(now)
      BY <1>1, <2>3 DEF InWindow, PastOnly, TypeOK, Request
    <3>2. InWindow(now) \in SUBSET allowed
      BY DEF InWindow
    <3>3. IsFiniteSet(InWindow(now)) /\ Cardinality(InWindow(now)) \in Nat
      BY <3>2, FS_Subset, FS_CardinalityType DEF TypeOK
    <3>4. /\ Cardinality(InWindow(t)) <= Cardinality(InWindow(now))
          /\ Cardinality(InWindow(t)) \in Nat
      BY <3>1, <3>3, FS_Subset, FS_CardinalityType
    <3>5. Cardinality(InWindow(now)) <= MAX_ATTEMPTS
      BY <1>1 DEF WindowBound
    <3> QED
      BY <2>1, <3>3, <3>4, <3>5
  <2> QED
    BY <1>1, <2>2, <2>3
<1>6. FailuresCounted'
  BY TickCounted
<1> QED
  BY <1>2, <1>3, <1>4, <1>5, <1>6

LEMMA ThrottleStep == ThrottleInv /\ [Next]_vars => ThrottleInv'
<1> SUFFICES ASSUME ThrottleInv, [Next]_vars PROVE ThrottleInv'
  OBVIOUS
<1>1. CASE TooMany
  BY <1>1, TooManyStep
<1>2. CASE Tick
  BY <1>2, TickStep
<1>3. ASSUME NEW u \in Users, Locked(u) \/ WrongPassword(u) \/ LoggedIn(u)
      PROVE  ThrottleInv'
  <2>1. CASE Locked(u)
    BY <2>1, AllowedStep DEF Locked
  <2>2. CASE WrongPassword(u)
    BY <2>2, AllowedStep DEF WrongPassword
  <2>3. CASE LoggedIn(u)
    BY <2>3, AllowedStep DEF LoggedIn
  <2> QED
    BY <1>3, <2>1, <2>2, <2>3
<1>4. CASE UNCHANGED vars
  BY <1>4 DEF vars, lockout, ThrottleInv, WindowInv, TypeOK, PastOnly, RecentIsRemembered,
              WindowBound, InWindow, FailuresCounted, RecentFailures
<1> QED
  BY <1>1, <1>2, <1>3, <1>4 DEF Next

LEMMA ThrottleInvariant == Spec => []ThrottleInv
  BY InitThrottle, ThrottleStep, PTL DEF Spec

-----------------------------------------------------------------------------
\* In every window of time at most MAX_ATTEMPTS requests reach the password check,
\* whatever the window, the limit and the order of requests.
THEOREM AttemptsBounded == Spec => []WindowBound
<1>1. ThrottleInv => WindowBound
  BY DEF ThrottleInv, WindowInv
<1> QED
  BY <1>1, ThrottleInvariant, PTL

\* In the time of a lockout at most MAX_FAILURES wrong passwords of a user are tried
\* without a success between them.
THEOREM GuessesBounded == Spec => []FailuresBounded
<1>1. ThrottleInv => FailuresBounded
  <2> SUFFICES ASSUME ThrottleInv, NEW u \in Users
               PROVE  Cardinality(RecentFailures(u)) <= MAX_FAILURES
    BY DEF FailuresBounded
  <2>1. RecentFailures(u) \in SUBSET failed[u]
    BY DEF RecentFailures
  <2>2. Cardinality(RecentFailures(u)) \in Nat
    BY <2>1, FS_Subset, FS_CardinalityType DEF ThrottleInv, FailuresCounted
  <2>3. Cardinality(RecentFailures(u)) <= count[u] /\ count[u] \in 0..MAX_FAILURES
    BY DEF ThrottleInv, WindowInv, FailuresCounted, TypeOK
  <2> QED
    BY <2>2, <2>3, ThrottleAssumption
<1> QED
  BY <1>1, ThrottleInvariant, PTL

\* Every variable keeps its type, and a lock belongs to a full count.
THEOREM ThrottleTypes == Spec => []TypeOK
<1>1. ThrottleInv => TypeOK
  BY DEF ThrottleInv, WindowInv
<1> QED
  BY <1>1, ThrottleInvariant, PTL
-----------------------------------------------------------------------------
(* Statistics.                                                             *)

LEMMA StatsNumbers ==
    ASSUME Stats!StatisticsAssumption
    PROVE  MaxCorrections \in Nat /\ MaxChanges \in Nat /\ MaxFailures \in Nat
BY DEF Stats!StatisticsAssumption

LEMMA StatsInit == ASSUME Stats!StatisticsAssumption, Stats!Init PROVE Stats!TypeOK
<1>1. done \subseteq StatJobs /\ archived \subseteq StatJobs /\ log \in [StatJobs -> 0..MaxCorrections]
  BY StatsNumbers DEF Stats!Init
<1>2. changes \in 0..MaxChanges /\ statFailures \in 0..MaxFailures
  BY StatsNumbers DEF Stats!Init
<1>3. always \subseteq Stats!Completed
  BY DEF Stats!Init
<1> QED
  BY <1>1, <1>2, <1>3 DEF Stats!Init, Stats!TypeOK

LEMMA StatsTypeStep ==
    ASSUME Stats!StatisticsAssumption, Stats!TypeOK, [Stats!Next]_(Stats!vars)
    PROVE  Stats!TypeOK'
<1> USE DEF Stats!TypeOK, Stats!server, Stats!queries, Stats!isLoading, Stats!Completed, Stats!Listed
<1>1. ASSUME NEW job \in StatJobs, Stats!JobChanges(job) PROVE Stats!TypeOK'
  <2>1. changes' \in 0..MaxChanges
    BY <1>1, StatsNumbers DEF Stats!JobChanges
  <2>2. /\ done' \subseteq StatJobs /\ archived' \subseteq StatJobs
        /\ always' \subseteq Stats!Completed'
    BY <1>1 DEF Stats!JobChanges
  <2>3. log' \in [StatJobs -> 0..MaxCorrections]
    BY <1>1, StatsNumbers DEF Stats!JobChanges
  <2> QED
    BY <1>1, <2>1, <2>2, <2>3 DEF Stats!JobChanges
<1>2. ASSUME NEW query \in Stats!Queries, Stats!AnswerQuery(query) PROVE Stats!TypeOK'
  BY <1>2 DEF Stats!AnswerQuery
<1>3. ASSUME NEW query \in Stats!Queries, Stats!ReceiveQuery(query) PROVE Stats!TypeOK'
  BY <1>3 DEF Stats!ReceiveQuery
<1>4. ASSUME NEW query \in Stats!Queries, Stats!QueryFails(query) PROVE Stats!TypeOK'
  <2>1. statFailures' \in 0..MaxFailures
    BY <1>4, StatsNumbers DEF Stats!QueryFails
  <2> QED
    BY <1>4, <2>1 DEF Stats!QueryFails
<1>5. CASE Stats!InvalidateStats
  BY <1>5 DEF Stats!InvalidateStats
<1>6. CASE UNCHANGED Stats!vars
  BY <1>6 DEF Stats!vars
<1> QED
  BY <1>1, <1>2, <1>3, <1>4, <1>5, <1>6 DEF Stats!Next

\* A query of the statistics page that shows the page as loading is on its way.
LEMMA StatsTypes == ASSUME Stats!StatisticsAssumption PROVE Stats!Spec => []Stats!TypeOK
BY StatsInit, StatsTypeStep, PTL DEF Stats!Spec

HoldsMonths(chart) == \A job \in always : Month[job] \in DOMAIN chart
HoldsCustomers(chart) == \A job \in always : Stats!NameOf(StatCustomer[job]) \in DOMAIN chart

\* The inductive invariant: what has arrived and what is on its way name the jobs that
\* have been completed all the time.
ChartsHold ==
    /\ "timeseries" \in loaded => HoldsMonths(data["timeseries"])
    /\ statFetch["timeseries"] = "answered" => HoldsMonths(answer["timeseries"])
    /\ "customers" \in loaded => HoldsCustomers(data["customers"])
    /\ statFetch["customers"] = "answered" => HoldsCustomers(answer["customers"])

LEMMA ChartsInit == ASSUME Stats!Init PROVE ChartsHold
BY DEF Stats!Init, Stats!Queries, ChartsHold

\* A step that brings no answer loses no job from a chart.
LEMMA ChartsKept ==
    ASSUME ChartsHold, always' \subseteq always, loaded' \subseteq loaded, UNCHANGED <<data, answer>>,
           \A query \in {"timeseries", "customers"} :
               statFetch'[query] = "answered" => statFetch[query] = "answered"
    PROVE  ChartsHold'
BY DEF ChartsHold, HoldsMonths, HoldsCustomers

LEMMA ChartsStep ==
    ASSUME Stats!TypeOK, ChartsHold, [Stats!Next]_(Stats!vars)
    PROVE  ChartsHold'
<1> USE DEF Stats!server, Stats!queries
<1>1. ASSUME NEW job \in StatJobs, Stats!JobChanges(job) PROVE ChartsHold'
  BY <1>1, ChartsKept DEF Stats!JobChanges
<1>2. ASSUME NEW query \in Stats!Queries, Stats!AnswerQuery(query) PROVE ChartsHold'
  <2>1. /\ UNCHANGED <<always, loaded, data>> /\ Stats!Queries = DOMAIN answer
        /\ answer' = [answer EXCEPT ![query] = Stats!Aggregate(query)]
        /\ statFetch' = [statFetch EXCEPT ![query] = "answered"]
    BY <1>2 DEF Stats!AnswerQuery, Stats!TypeOK
  <2>2. statFetch \in [Stats!Queries -> {"idle", "asked", "answered"}] /\ always \subseteq Stats!Completed
    BY DEF Stats!TypeOK
  <2>3. HoldsMonths(Stats!timeseries)
    BY <2>2 DEF HoldsMonths, Stats!timeseries
  <2>4. HoldsCustomers(Stats!by_customer)
    BY <2>2 DEF HoldsCustomers, Stats!by_customer, Stats!CustomerRows
  <2>5. /\ Stats!Aggregate("timeseries") = Stats!timeseries
        /\ Stats!Aggregate("customers") = Stats!by_customer
    BY DEF Stats!Aggregate
  <2>6. statFetch'["timeseries"] = "answered" => HoldsMonths(answer'["timeseries"])
    <3>1. CASE query = "timeseries"
      BY <2>1, <2>3, <2>5, <3>1
    <3>2. CASE query # "timeseries"
      BY <2>1, <2>2, <3>2 DEF ChartsHold, Stats!Queries
    <3> QED
      BY <3>1, <3>2
  <2>7. statFetch'["customers"] = "answered" => HoldsCustomers(answer'["customers"])
    <3>1. CASE query = "customers"
      BY <2>1, <2>4, <2>5, <3>1
    <3>2. CASE query # "customers"
      BY <2>1, <2>2, <3>2 DEF ChartsHold, Stats!Queries
    <3> QED
      BY <3>1, <3>2
  <2> QED
    BY <2>1, <2>6, <2>7 DEF ChartsHold, HoldsMonths, HoldsCustomers
<1>3. ASSUME NEW query \in Stats!Queries, Stats!ReceiveQuery(query) PROVE ChartsHold'
  <2>1. /\ UNCHANGED always /\ Stats!Queries = DOMAIN data
        /\ statFetch \in [Stats!Queries -> {"idle", "asked", "answered"}]
        /\ Stats!Queries = DOMAIN answer
        /\ statFetch[query] = "answered" /\ loaded' = loaded \cup {query}
        /\ data' = [data EXCEPT ![query] = answer[query]]
        /\ statFetch' = [statFetch EXCEPT ![query] = "idle"]
        /\ answer' = [answer EXCEPT ![query] = NoData]
    BY <1>3 DEF Stats!ReceiveQuery, Stats!TypeOK
  <2>2. /\ "timeseries" \in loaded' => HoldsMonths(data'["timeseries"])
        /\ statFetch'["timeseries"] = "answered" => HoldsMonths(answer'["timeseries"])
    BY <2>1 DEF ChartsHold, Stats!Queries
  <2>3. /\ "customers" \in loaded' => HoldsCustomers(data'["customers"])
        /\ statFetch'["customers"] = "answered" => HoldsCustomers(answer'["customers"])
    BY <2>1 DEF ChartsHold, Stats!Queries
  <2> QED
    BY <2>1, <2>2, <2>3 DEF ChartsHold, HoldsMonths, HoldsCustomers
<1>4. ASSUME NEW query \in Stats!Queries, Stats!QueryFails(query) PROVE ChartsHold'
  BY <1>4, ChartsKept DEF Stats!QueryFails, Stats!TypeOK, Stats!Queries
<1>5. CASE Stats!InvalidateStats
  BY <1>5, ChartsKept DEF Stats!InvalidateStats, Stats!Queries
<1>6. CASE UNCHANGED Stats!vars
  BY <1>6, ChartsKept DEF Stats!vars
<1> QED
  BY <1>1, <1>2, <1>3, <1>4, <1>5, <1>6 DEF Stats!Next

\* Shown charts are those of queries that have brought data.
LEMMA ChartsComplete ==
    ASSUME Stats!StatisticsAssumption PROVE Stats!Spec => []Stats!ChartsMissNothing
<1>1. ChartsHold => Stats!ChartsMissNothing
  <2> SUFFICES ASSUME ChartsHold, Stats!ShowsCharts, NEW job \in always
               PROVE  /\ "timeseries" \in loaded /\ Month[job] \in DOMAIN data["timeseries"]
                      /\ "customers" \in loaded
                      /\ Stats!NameOf(StatCustomer[job]) \in DOMAIN data["customers"]
    BY DEF Stats!ChartsMissNothing
  <2>1. "timeseries" \in loaded /\ "customers" \in loaded
    BY DEF Stats!ShowsCharts, Stats!loading, Stats!isLoading
  <2> QED
    BY <2>1 DEF ChartsHold, HoldsMonths, HoldsCustomers
<1> QED
  BY <1>1, StatsTypes, ChartsInit, ChartsStep, PTL DEF Stats!Spec

-----------------------------------------------------------------------------
(* The sums of Statistics.  The induction theorems of the library take an  *)
(* operator; here induction is over a set (Counting, GrowingSets).         *)

\* Induction over a set of numbers.
LEMMA Counting ==
    ASSUME NEW G, G \subseteq Nat, 0 \in G, \A n \in G : n + 1 \in G
    PROVE  G = Nat
<1> SUFFICES ASSUME Nat \ G # {} PROVE FALSE
  OBVIOUS
<1>1. PICK m \in Nat \ G : \A k \in Nat \ G : <<k, m>> \notin OpToRel(<, Nat)
  BY WFMin, NatLessThanWellFounded
<1>2. m - 1 \in Nat /\ m - 1 < m
  OBVIOUS
<1>3. m - 1 \in G
  BY <1>1, <1>2 DEF OpToRel
<1> QED
  BY <1>2, <1>3

\* The element the sums take first.
First(s) == CHOOSE x \in s : TRUE

\* The equation of the sums of f over the subsets of S, as MapThenFoldSet states it.
SumStep(S, f, g) == [s \in SUBSET S |-> IF s = {} THEN 0 ELSE f[First(s)] + g[s \ {First(s)}]]
Sums(S, f) == CHOOSE g : g = SumStep(S, f, g)

LEMMA FirstTaken ==
    ASSUME NEW S, IsFiniteSet(S), NEW s \in SUBSET S
    PROVE  /\ Cardinality(s) \in Nat
           /\ Cardinality(s) = 0 <=> s = {}
           /\ s # {} => Cardinality(s \ {First(s)}) = Cardinality(s) - 1
<1>1. IsFiniteSet(s)
  BY FS_Subset
<1>2. s # {} => First(s) \in s
  BY DEF First
<1> QED
  BY <1>1, <1>2, FS_CardinalityType, FS_EmptySet, FS_RemoveElement

\* The definition of a sum by recursion defines a function.
LEMMA SumsExist == ASSUME NEW S, IsFiniteSet(S), NEW f PROVE \E g : g = SumStep(S, f, g)
<1> DEFINE Small(n) == {s \in SUBSET S : Cardinality(s) <= n}
           Up(D, g) == [s \in D |-> IF s = {} THEN 0 ELSE f[First(s)] + g[s \ {First(s)}]]
           G == {n \in Nat : \E g : g = Up(Small(n), g)}
<1>1. \A s \in SUBSET S : /\ Cardinality(s) \in Nat
                          /\ Cardinality(s) = 0 <=> s = {}
                          /\ s # {} => Cardinality(s \ {First(s)}) = Cardinality(s) - 1
  BY FirstTaken
<1>2. 0 \in G
  <2>1. ASSUME NEW s \in Small(0) PROVE s = {}
    <3>1. s \in SUBSET S /\ Cardinality(s) <= 0
      OBVIOUS
    <3>2. Cardinality(s) \in Nat
      BY <1>1
    <3>3. Cardinality(s) = 0
      BY <3>1, <3>2
    <3> QED
      BY <1>1, <3>1, <3>3
  <2> DEFINE z == [s \in Small(0) |-> 0]
  <2>2. z = Up(Small(0), z)
    BY <2>1
  <2> QED
    BY <2>2
<1>3. ASSUME NEW n \in G PROVE n + 1 \in G
  <2>1. PICK g : g = Up(Small(n), g)
    OBVIOUS
  <2> DEFINE h == Up(Small(n + 1), g)
  <2>2. ASSUME NEW s \in Small(n + 1), s # {} PROVE h[s \ {First(s)}] = g[s \ {First(s)}]
    <3> DEFINE t == s \ {First(s)}
    <3>1. t \in SUBSET S /\ Cardinality(t) <= n
      BY <1>1, <2>2
    <3>2. t \in Small(n) /\ t \in Small(n + 1)
      BY <1>1, <3>1
    <3>3. h[t] = IF t = {} THEN 0 ELSE f[First(t)] + g[t \ {First(t)}]
      BY <3>2
    <3>4. g[t] = IF t = {} THEN 0 ELSE f[First(t)] + g[t \ {First(t)}]
      BY <2>1, <3>2
    <3> QED
      BY <3>3, <3>4
  <2>3. h = Up(Small(n + 1), h)
    BY <2>2
  <2>4. n + 1 \in Nat
    OBVIOUS
  <2> HIDE DEF h, Up, Small
  <2> QED
    BY <2>3, <2>4
<1>4. Cardinality(S) \in G
  <2>1. G = Nat
    <3> HIDE DEF G
    <3>1. G \subseteq Nat
      BY DEF G
    <3> QED
      BY <1>2, <1>3, <3>1, Counting
  <2> QED
    BY <1>1, <2>1
<1>5. Small(Cardinality(S)) = SUBSET S
  BY FS_Subset
<1>6. PICK g : g = Up(Small(Cardinality(S)), g)
  BY <1>4
<1> QED
  BY <1>5, <1>6 DEF SumStep

LEMMA SumsAdd ==
    ASSUME NEW S, IsFiniteSet(S), NEW f
    PROVE  /\ Sums(S, f)[{}] = 0
           /\ \A s \in SUBSET S : s # {} =>
                 Sums(S, f)[s] = f[First(s)] + Sums(S, f)[s \ {First(s)}]
<1>1. Sums(S, f) = SumStep(S, f, Sums(S, f))
  BY SumsExist DEF Sums
<1> HIDE DEF Sums
<1> QED
  BY <1>1 DEF SumStep

\* Induction over the subsets of a finite set.
LEMMA GrowingSets ==
    ASSUME NEW S, IsFiniteSet(S), NEW G, {} \in G,
           \A s \in SUBSET S : s # {} /\ s \ {First(s)} \in G => s \in G
    PROVE  S \in G
<1> DEFINE N == {n \in Nat : \A s \in SUBSET S : Cardinality(s) = n => s \in G}
<1>1. \A s \in SUBSET S : /\ Cardinality(s) \in Nat
                          /\ Cardinality(s) = 0 <=> s = {}
                          /\ s # {} => Cardinality(s \ {First(s)}) = Cardinality(s) - 1
  BY FirstTaken
<1>2. 0 \in N
  BY <1>1
<1>3. ASSUME NEW n \in N PROVE n + 1 \in N
  <2>1. ASSUME NEW s \in SUBSET S, Cardinality(s) = n + 1 PROVE s \in G
    <3>1. n \in Nat /\ \A t \in SUBSET S : Cardinality(t) = n => t \in G
      OBVIOUS
    <3>2. Cardinality(s) # 0
      BY <2>1, <3>1
    <3>3. s # {} /\ Cardinality(s \ {First(s)}) = Cardinality(s) - 1
      BY <1>1, <3>2
    <3>4. Cardinality(s \ {First(s)}) = n
      BY <2>1, <3>1, <3>3
    <3> QED
      BY <3>1, <3>3, <3>4
  <2> QED
    BY <2>1
<1>4. N = Nat
  <2>1. N \subseteq Nat
    OBVIOUS
  <2> HIDE DEF N
  <2> QED
    BY <1>2, <1>3, <2>1, Counting
<1> QED
  BY <1>1, <1>4

\* Counted by a key, every element of C is counted once.
Having(C, key, m) == {j \in C : key[j] = m}

LEMMA CountedByKey ==
    ASSUME NEW C, IsFiniteSet(C), NEW key, NEW S, IsFiniteSet(S), NEW f,
           \A m \in S : f[m] = Cardinality(Having(C, key, m)),
           \A j \in C : key[j] \in S
    PROVE  Sums(S, f)[S] = Cardinality(C)
<1> DEFINE Of(s) == {j \in C : key[j] \in s}
           G == {s \in SUBSET S : Sums(S, f)[s] = Cardinality(Of(s))}
<1>1. {} \in G
  <2>1. Of({}) = {}
    OBVIOUS
  <2> QED
    BY <2>1, SumsAdd, FS_EmptySet
<1>2. ASSUME NEW s \in SUBSET S, s # {}, s \ {First(s)} \in G PROVE s \in G
  <2> DEFINE m == First(s)
             r == s \ {m}
             M == Having(C, key, m)
  <2>1. m \in s
    BY <1>2 DEF First
  <2>2. Of(s) = Of(r) \cup M /\ Of(r) \cap M = {}
    BY <2>1 DEF Having
  <2>3. IsFiniteSet(Of(r)) /\ IsFiniteSet(M)
    BY FS_Subset DEF Having
  <2>4. Cardinality(Of(s)) = Cardinality(Of(r)) + Cardinality(M)
    <3>1. Cardinality({}) = 0
      BY FS_EmptySet
    <3>2. Cardinality(Of(r)) \in Nat /\ Cardinality(M) \in Nat
      BY <2>3, FS_CardinalityType
    <3>3. ASSUME NEW A, NEW B, IsFiniteSet(A), IsFiniteSet(B), A \cap B = {}
          PROVE  Cardinality(A \cup B) = Cardinality(A) + Cardinality(B)
      <4>1. Cardinality(A \cup B) = Cardinality(A) + Cardinality(B) - Cardinality({})
        BY <3>3, FS_Union
      <4>2. Cardinality(A) \in Nat /\ Cardinality(B) \in Nat
        BY <3>3, FS_CardinalityType
      <4> QED
        BY <3>1, <4>1, <4>2
    <3> HIDE DEF Of, M, r, m
    <3> QED
      BY <2>2, <2>3, <3>3
  <2>5. Sums(S, f)[s] = f[m] + Sums(S, f)[r]
    <3>1. \A t \in SUBSET S : t # {} => Sums(S, f)[t] = f[First(t)] + Sums(S, f)[t \ {First(t)}]
      BY SumsAdd
    <3> QED
      BY <1>2, <3>1
  <2>6. f[m] = Cardinality(M) /\ Sums(S, f)[r] = Cardinality(Of(r))
    BY <1>2, <2>1
  <2>7. Cardinality(Of(r)) \in Nat /\ Cardinality(M) \in Nat
    BY <2>3, FS_CardinalityType
  <2> HIDE DEF Of, M, r, m
  <2>8. Sums(S, f)[s] = Cardinality(Of(s))
    BY <2>4, <2>5, <2>6, <2>7
  <2> QED
    BY <2>8
<1>3. S \in G
  <2> HIDE DEF G
  <2> QED
    BY <1>1, <1>2, GrowingSets
<1>4. Of(S) = C
  OBVIOUS
<1> QED
  BY <1>3, <1>4

LEMMA ImageIsFinite ==
    ASSUME NEW C, IsFiniteSet(C), NEW key, NEW S, S = {key[j] : j \in C} PROVE IsFiniteSet(S)
<1> DEFINE f == [j \in C |-> key[j]]
<1>1. f \in Surjection(C, S)
  BY DEF Surjection
<1> QED
  BY <1>1, FS_Surjection

\* The folds that AggregatesAgree uses are such sums.
LEMMA FoldsAreSums ==
    /\ \A f : Stats!FoldFunction(+, 0, f) = Sums(DOMAIN f, f)[DOMAIN f]
    /\ \A f, S : Stats!MapThenSumSet(LAMBDA name : f[name].jobs, S)
                    = Sums(S, [name \in S |-> f[name].jobs])[S]
<1>1. ASSUME NEW f PROVE Stats!FoldFunction(+, 0, f) = Sums(DOMAIN f, f)[DOMAIN f]
  BY Zenon DEF Stats!FoldFunction, Stats!FoldFunctionOnSet, Stats!MapThenFoldSet, Sums, SumStep,
               First
<1>2. ASSUME NEW f, NEW S
      PROVE  Stats!MapThenSumSet(LAMBDA name : f[name].jobs, S)
                = Sums(S, [name \in S |-> f[name].jobs])[S]
  BY Zenon DEF Stats!MapThenSumSet, Stats!MapThenFoldSet, Sums, SumStep, First
<1> QED
  BY <1>1, <1>2

\* The months, and the customers, count the completed jobs, each once.
LEMMA StatsAgree ==
    ASSUME Stats!StatisticsAssumption, Stats!TypeOK PROVE Stats!AggregatesAgree
<1> DEFINE C == Stats!Completed
           name == [j \in C |-> Stats!NameOf(StatCustomer[j])]
           jobsOf == [n \in Stats!CustomerRows |-> Stats!by_customer[n].jobs]
           months == DOMAIN Stats!timeseries
<1>1. IsFiniteSet(C)
  <2>1. IsFiniteSet(StatJobs)
    BY DEF Stats!StatisticsAssumption, Stats!IsFiniteSet, IsFiniteSet
  <2>2. C \subseteq StatJobs
    BY DEF Stats!Completed, Stats!Listed
  <2> QED
    BY <2>1, <2>2, FS_Subset
<1>2. Stats!overview.completed = Cardinality(C)
  BY DEF Stats!overview, Stats!Cardinality, Cardinality
<1>3. Sums(months, Stats!timeseries)[months] = Cardinality(C)
  <2>1. months = {Month[j] : j \in C}
    BY DEF Stats!timeseries
  <2>2. \A m \in months : Stats!timeseries[m] = Cardinality(Having(C, Month, m))
    BY DEF Stats!timeseries, Stats!Cardinality, Cardinality, Having
  <2>3. \A j \in C : Month[j] \in months
    BY <2>1
  <2> HIDE DEF C, months
  <2>4. IsFiniteSet(months)
    BY <1>1, <2>1, ImageIsFinite
  <2> QED
    BY <1>1, <2>2, <2>3, <2>4, CountedByKey
<1>4. Sums(Stats!CustomerRows, jobsOf)[Stats!CustomerRows] = Cardinality(C)
  <2>1. Stats!CustomerRows = {name[j] : j \in C}
    BY DEF Stats!CustomerRows
  <2>2. \A n \in Stats!CustomerRows : jobsOf[n] = Cardinality(Having(C, name, n))
    <3>1. ASSUME NEW n \in Stats!CustomerRows
          PROVE  jobsOf[n] = Cardinality({j \in C : Stats!NameOf(StatCustomer[j]) = n})
      BY DEF Stats!by_customer, Stats!Cardinality, Cardinality
    <3>2. \A n : Having(C, name, n) = {j \in C : Stats!NameOf(StatCustomer[j]) = n}
      BY DEF Having
    <3> QED
      BY <3>1, <3>2
  <2>3. \A j \in C : name[j] \in Stats!CustomerRows
    BY <2>1
  <2> HIDE DEF C, name, jobsOf
  <2>4. IsFiniteSet(Stats!CustomerRows)
    BY <1>1, <2>1, ImageIsFinite
  <2> QED
    BY <1>1, <2>2, <2>3, <2>4, CountedByKey
<1>5. DOMAIN Stats!by_customer = Stats!CustomerRows
  BY DEF Stats!by_customer
<1>6. Stats!FoldFunction(+, 0, Stats!timeseries) = Stats!overview.completed
  BY <1>2, <1>3, FoldsAreSums
<1>7. Stats!MapThenSumSet(LAMBDA n : Stats!by_customer[n].jobs, DOMAIN Stats!by_customer)
        = Stats!overview.completed
  BY <1>2, <1>4, <1>5, FoldsAreSums
<1> QED
  BY <1>6, <1>7 DEF Stats!AggregatesAgree

-----------------------------------------------------------------------------
(* LoginSession.                                                           *)

LEMMA LoginInit == ASSUME Login!LoginBounds, Login!Init PROVE Login!TypeOK
<1>1. /\ logins \in 0..MaxLogins /\ logouts \in 0..MaxLogouts
      /\ expiries \in 0..MaxExpiries /\ loginFailures \in 0..MaxFailures
  <2>1. logins = 0 /\ logouts = 0 /\ expiries = 0 /\ loginFailures = 0
    BY DEF Login!Init
  <2> QED
    BY <2>1 DEF Login!LoginBounds
<1> QED
  BY <1>1 DEF Login!Init, Login!TypeOK, Login!Phases

\* Every step counts at most one event, below its bound.
LEMMA LoginCounts ==
    ASSUME Login!LoginBounds, Login!TypeOK, [Login!Next]_(Login!vars)
    PROVE  /\ logins' \in 0..MaxLogins /\ logouts' \in 0..MaxLogouts
           /\ expiries' \in 0..MaxExpiries /\ loginFailures' \in 0..MaxFailures
<1>1. /\ MaxLogins \in Nat /\ MaxLogouts \in Nat /\ MaxExpiries \in Nat /\ MaxFailures \in Nat
      /\ logins \in 0..MaxLogins /\ logouts \in 0..MaxLogouts
      /\ expiries \in 0..MaxExpiries /\ loginFailures \in 0..MaxFailures
  BY DEF Login!LoginBounds, Login!TypeOK
<1>2. /\ logins' = logins \/ (logins < MaxLogins /\ logins' = logins + 1)
      /\ logouts' = logouts \/ (logouts < MaxLogouts /\ logouts' = logouts + 1)
      /\ expiries' = expiries \/ (expiries < MaxExpiries /\ expiries' = expiries + 1)
      /\ \/ loginFailures' = loginFailures
         \/ loginFailures < MaxFailures /\ loginFailures' = loginFailures + 1
  BY Zenon DEF Login!Next, Login!vars, Login!counters, Login!Navigate, Login!Redirect,
     Login!AnswerMe, Login!ReceiveMe, Login!AnswerCheck, Login!ReceiveCheck, Login!Submit,
     Login!AnswerLogin, Login!ReceiveLogin, Login!Logout, Login!AnswerLogout,
     Login!ReceiveLogout, Login!Expire, Login!Age, Login!Collect, Login!Fails
<1> QED
  BY <1>1, <1>2

\* What TypeOK says but for the counters.
LoginValues ==
    /\ session \in BOOLEAN /\ user \in BOOLEAN /\ isError \in BOOLEAN /\ stale \in BOOLEAN
    /\ screen \in {"login", "app"}
    /\ meFetch \in Login!Phases /\ check \in Login!Phases
    /\ form \in Login!Phases /\ bye \in Login!Phases
    /\ check # "idle" => screen = "login"

LEMMA LoginValuesStep ==
    ASSUME LoginValues, [Login!Next]_(Login!vars)
    PROVE  LoginValues'
<1> USE DEF Login!query, Login!counters, LoginValues, Login!Phases
<1>1. CASE Login!Navigate
  BY <1>1 DEF Login!Navigate, Login!MountGuard
<1>2. CASE Login!Redirect
  BY <1>2 DEF Login!Redirect, Login!EnterLogin
<1>3. CASE Login!AnswerMe
  BY <1>3 DEF Login!AnswerMe
<1>4. CASE Login!ReceiveMe
  BY <1>4 DEF Login!ReceiveMe
<1>5. CASE Login!AnswerCheck
  BY <1>5 DEF Login!AnswerCheck
<1>6. CASE Login!ReceiveCheck
  BY <1>6 DEF Login!ReceiveCheck, Login!EnterApp, Login!MountGuard
<1>7. CASE Login!Submit
  BY <1>7 DEF Login!Submit
<1>8. CASE Login!AnswerLogin
  BY <1>8 DEF Login!AnswerLogin
<1>9. CASE Login!ReceiveLogin
  BY <1>9 DEF Login!ReceiveLogin, Login!EnterApp, Login!MountGuard
<1>10. CASE Login!Logout
  BY <1>10 DEF Login!Logout
<1>11. CASE Login!AnswerLogout
  BY <1>11 DEF Login!AnswerLogout
<1>12. CASE Login!ReceiveLogout
  BY <1>12 DEF Login!ReceiveLogout, Login!EnterLogin
<1>13. CASE Login!Expire
  BY <1>13 DEF Login!Expire
<1>14. CASE Login!Age
  BY <1>14 DEF Login!Age
<1>15. CASE Login!Collect
  BY <1>15 DEF Login!Collect
<1>16. CASE UNCHANGED Login!vars
  BY <1>16 DEF Login!vars
<1> QED
  BY <1>1, <1>2, <1>3, <1>4, <1>5, <1>6, <1>7, <1>8, <1>9, <1>10, <1>11, <1>12, <1>13, <1>14,
     <1>15, <1>16 DEF Login!Next

\* The request of the login page never outlives that page.
LEMMA LoginTypes == ASSUME Login!LoginBounds PROVE Login!Spec => []Login!TypeOK
<1>1. ASSUME Login!TypeOK, [Login!Next]_(Login!vars) PROVE Login!TypeOK'
  <2>1. LoginValues
    BY <1>1 DEF Login!TypeOK, LoginValues
  <2>2. LoginValues'
    BY <1>1, <2>1, LoginValuesStep
  <2> QED
    BY <1>1, <2>2, LoginCounts DEF Login!TypeOK, LoginValues
<1> QED
  BY <1>1, LoginInit, PTL DEF Login!Spec
-----------------------------------------------------------------------------
(* UploadForm, of a user who drops no file while one is being uploaded.    *)

\* What the form shows is what is being sent, and passed the checks of the form.
FormInv ==
    /\ Form!TypeOK
    /\ Form!ShownIsSent
    /\ Form!isUploading => open /\ uploads \in 1..MaxUploads /\ upload.file.size <= MaxSize
    /\ Form!OrdinaryFileTaken

LEMMA FormNumbers ==
    ASSUME Form!UploadAssumption
    PROVE  MaxSize \in Nat /\ MaxUploads \in Nat /\ MaxTrouble \in Nat
BY DEF Form!UploadAssumption

LEMMA FormFiles ==
    ASSUME Form!UploadAssumption
    PROVE  /\ \A f \in Files : f.size \in Nat
           /\ "" \in Customers /\ NoFile \notin Files /\ NoUpload \notin Form!Upload
BY DEF Form!UploadAssumption

LEMMA FormInit == ASSUME Form!UploadAssumption, Form!Init PROVE FormInv
<1>1. ~Form!isUploading
  BY DEF Form!Init, Form!isUploading
<1>2. Form!TypeOK
  <2>1. uploads = 0 /\ trouble = 0
    BY DEF Form!Init
  <2>2. uploads \in 0..MaxUploads /\ trouble \in 0..MaxTrouble
    BY <2>1, FormNumbers
  <2> QED
    BY <2>2, FormFiles DEF Form!Init, Form!TypeOK
<1> QED
  BY <1>1, <1>2 DEF FormInv, Form!ShownIsSent, Form!OrdinaryFileTaken

\* Choosing a file: the form holds one it has accepted, or none.
LEMMA FormChooses ==
    ASSUME Form!UploadAssumption, Form!TypeOK, NEW f \in Files, Form!handleFile(f)
    PROVE  /\ selectedFile' \in {g \in Files : Form!isAcceptedFile(g) /\ g.size <= MaxSize} \cup {NoFile}
           /\ error' \in BOOLEAN
BY DEF Form!handleFile, Form!FitsForm, Form!TypeOK

\* The steps of the user, but for the button.
LEMMA FormUser ==
    ASSUME Form!UploadAssumption, FormInv,
           \/ Form!handleDragOver \/ Form!handleDragLeave
           \/ \E f \in Files \cup {NoFile} : Form!handleDrop(f)
           \/ \E f \in Files : Form!handleInputChange(f)
           \/ \E name \in Customers : Form!SetCustomer(name)
           \/ Form!clearFile
    PROVE  FormInv'
<1>1. UNCHANGED <<open, upload, uploadError, created, uploads, trouble>>
  BY DEF Form!handleDragOver, Form!handleDragLeave, Form!handleDrop, Form!handleInputChange,
         Form!SetCustomer, Form!clearFile
<1>2. Form!isUploading => UNCHANGED <<selectedFile, customer>>
  BY DEF Form!handleDragOver, Form!handleDragLeave, Form!handleDrop, Form!handleInputChange,
         Form!SetCustomer, Form!clearFile
<1>3. /\ selectedFile' \in {g \in Files : Form!isAcceptedFile(g) /\ g.size <= MaxSize} \cup {NoFile}
      /\ error' \in BOOLEAN
  <2>1. \/ UNCHANGED <<selectedFile, error>>
        \/ selectedFile' = NoFile /\ error' = FALSE
        \/ \E f \in Files : Form!handleFile(f)
    BY DEF Form!handleDragOver, Form!handleDragLeave, Form!handleDrop, Form!handleInputChange,
           Form!SetCustomer, Form!clearFile
  <2> QED
    BY <2>1, FormChooses DEF FormInv, Form!TypeOK
<1>4. isDragging' \in BOOLEAN /\ customer' \in Customers
  BY DEF Form!handleDragOver, Form!handleDragLeave, Form!handleDrop, Form!handleInputChange,
         Form!SetCustomer, Form!clearFile, FormInv, Form!TypeOK
<1>5. Form!TypeOK'
  BY <1>1, <1>3, <1>4 DEF FormInv, Form!TypeOK
<1>6. Form!ShownIsSent' /\ Form!OrdinaryFileTaken'
  BY <1>1, <1>2 DEF FormInv, Form!ShownIsSent, Form!OrdinaryFileTaken, Form!isUploading
<1> QED
  BY <1>1, <1>5, <1>6 DEF FormInv, Form!isUploading

LEMMA FormSends ==
    ASSUME Form!UploadAssumption, FormInv, Form!handleUploadClick
    PROVE  FormInv'
<1> USE DEF Form!form
<1>1. selectedFile \in Files /\ selectedFile.size <= MaxSize /\ customer \in Customers
  BY DEF Form!handleUploadClick, FormInv, Form!TypeOK
<1>2. upload' = [file |-> selectedFile, customer |-> customer, answer |-> "none"]
  BY DEF Form!handleUploadClick
<1>3. upload' \in Form!Upload
  BY <1>1, <1>2 DEF Form!Upload, Form!Answers
<1>4. uploads' \in 1..MaxUploads
  <2>1. uploads < MaxUploads /\ uploads' = uploads + 1 /\ uploads \in 0..MaxUploads
    BY DEF Form!handleUploadClick, FormInv, Form!TypeOK
  <2> QED
    BY <2>1, FormNumbers
<1>5. uploads' \in 0..MaxUploads
  BY <1>4
<1>6. UNCHANGED <<open, selectedFile, customer, error, isDragging, created, trouble>> /\ uploadError' = FALSE
  BY DEF Form!handleUploadClick
<1>7. Form!TypeOK'
  BY <1>3, <1>5, <1>6 DEF FormInv, Form!TypeOK
<1>8. Form!ShownIsSent' /\ Form!OrdinaryFileTaken'
  BY <1>2, <1>6 DEF Form!ShownIsSent, Form!OrdinaryFileTaken
<1>9. open' /\ upload'.file.size <= MaxSize
  BY <1>1, <1>2, <1>6 DEF Form!handleUploadClick
<1> QED
  BY <1>4, <1>7, <1>8, <1>9 DEF FormInv

\* The server refuses no ordinary file that passed the form.
LEMMA FormAnswered ==
    ASSUME Form!UploadAssumption, FormInv, Form!upload_file \/ Form!Trouble
    PROVE  FormInv'
<1> USE DEF Form!form
<1>1. /\ Form!isUploading /\ upload \in Form!Upload
      /\ open /\ uploads \in 1..MaxUploads /\ upload.file.size <= MaxSize
  BY DEF Form!upload_file, Form!Trouble, FormInv, Form!TypeOK, Form!isUploading
<1>2. PICK reply \in {"created", "refused", "again"} :
          /\ upload' = [upload EXCEPT !.answer = reply]
          /\ reply = "refused" => ~Form!ServerTakes(upload.file)
  BY DEF Form!upload_file, Form!Trouble, Form!Reply
<1>3. /\ upload' \in Form!Upload /\ upload'.answer = reply
      /\ upload'.file = upload.file /\ upload'.customer = upload.customer
  BY <1>1, <1>2 DEF Form!Upload, Form!Answers
<1>4. UNCHANGED <<open, selectedFile, customer, error, isDragging, uploadError, uploads>>
  BY DEF Form!upload_file, Form!Trouble
<1>5. created' \subseteq [file : Files, customer : Customers, press : 1..MaxUploads]
  <2>1. created \subseteq [file : Files, customer : Customers, press : 1..MaxUploads]
    BY DEF FormInv, Form!TypeOK
  <2>2. [file |-> upload.file, customer |-> upload.customer, press |-> uploads]
           \in [file : Files, customer : Customers, press : 1..MaxUploads]
    BY <1>1 DEF Form!Upload
  <2>3. created' \in {created, created \cup {[file |-> upload.file, customer |-> upload.customer,
                                               press |-> uploads]}}
    BY DEF Form!upload_file, Form!Trouble
  <2> QED
    BY <2>1, <2>2, <2>3
<1>6. trouble' \in 0..MaxTrouble
  <2>1. trouble' = trouble \/ (trouble < MaxTrouble /\ trouble' = trouble + 1)
    BY DEF Form!upload_file, Form!Trouble
  <2>2. trouble \in 0..MaxTrouble
    BY DEF FormInv, Form!TypeOK
  <2> QED
    BY <2>1, <2>2, FormNumbers
<1>7. Form!TypeOK'
  BY <1>3, <1>4, <1>5, <1>6 DEF FormInv, Form!TypeOK
<1>8. Form!ShownIsSent'
  BY <1>1, <1>3, <1>4 DEF FormInv, Form!ShownIsSent
<1>9. Form!OrdinaryFileTaken'
  <2>1. upload.file.size \in Nat /\ upload.file.size <= MaxSize /\ MaxSize \in Nat
    BY <1>1, FormFiles, FormNumbers DEF Form!Upload
  <2>2. upload.file.size > 0 => upload.file.size \in 1..MaxSize
    BY <2>1
  <2>3. Form!Ordinary(upload.file) => Form!ServerTakes(upload.file)
    BY <2>2, Zenon DEF Form!Ordinary, Form!ServerTakes, Form!ALLOWED_EXTENSIONS
  <2> QED
    BY <1>2, <1>3, <2>3 DEF Form!OrdinaryFileTaken
<1>10. open' /\ uploads' \in 1..MaxUploads /\ upload'.file.size <= MaxSize
  BY <1>1, <1>3, <1>4
<1> QED
  BY <1>7, <1>8, <1>9, <1>10 DEF FormInv

LEMMA FormEnds ==
    ASSUME Form!UploadAssumption, FormInv, Form!UploadDone \/ Form!NewForm
    PROVE  FormInv'
<1> USE DEF Form!form
<1>1. ~Form!isUploading'
  BY DEF Form!UploadDone, Form!NewForm, FormInv, Form!isUploading
<1>2. Form!TypeOK'
  BY FormFiles DEF Form!UploadDone, Form!NewForm, FormInv, Form!TypeOK
<1> QED
  BY <1>1, <1>2 DEF FormInv, Form!ShownIsSent, Form!OrdinaryFileTaken

\* While a file is uploaded the form shows it, and an ordinary file that fits the
\* form is taken.
LEMMA FormHolds == ASSUME Form!UploadAssumption PROVE Form!Spec => []FormInv
<1>1. ASSUME FormInv, UNCHANGED Form!vars PROVE FormInv'
  BY <1>1 DEF Form!vars, Form!form, FormInv, Form!TypeOK, Form!ShownIsSent, Form!isUploading,
     Form!OrdinaryFileTaken
<1>2. ASSUME FormInv, [Form!Next]_(Form!vars) PROVE FormInv'
  BY <1>1, <1>2, FormUser, FormSends, FormAnswered, FormEnds DEF Form!Next
<1> QED
  BY <1>2, FormInit, PTL DEF Form!Spec
-----------------------------------------------------------------------------
(* SourcePane.                                                             *)

\* The width that is kept is that of the page loaded last; the key of the document
\* counts no more reloads than there were.
PaneInv ==
    /\ Pane!TypeOK
    /\ loadedPage # 0 => originalWidth = Width[loadedPage]
    /\ pdfReloadKey <= reloads

\* The pages of a document are 1..n.
\* (An instance has its own copy of the operators of FiniteSets; expanded, they are the same.)
LEMMA PaneNumbers ==
    ASSUME Pane!PaneAssumption
    PROVE  /\ MaxReloads \in Nat
           /\ Pane!LastPage \in Nat \ {0}
           /\ PdfPages = 1..Pane!LastPage
<1> DEFINE n == Cardinality(PdfPages)
<1>1. IsFiniteSet(PdfPages) /\ PdfPages = 1..n /\ 1 \in PdfPages /\ MaxReloads \in Nat
  BY DEF Pane!PaneAssumption, Pane!IsFiniteSet, IsFiniteSet, Pane!Cardinality, Cardinality
<1>2. n \in Nat
  BY <1>1, FS_CardinalityType
<1> HIDE DEF n
<1>3. n \in PdfPages /\ \A q \in PdfPages : q <= n
  BY <1>1, <1>2
<1>4. Pane!LastPage \in PdfPages /\ \A q \in PdfPages : q <= Pane!LastPage
  BY <1>3 DEF Pane!LastPage
<1>5. Pane!LastPage = n
  BY <1>1, <1>2, <1>3, <1>4
<1> QED
  BY <1>1, <1>2, <1>5

LEMMA PaneInit ==
    ASSUME Pane!PaneAssumption, Pane!Init
    PROVE  PaneInv
<1>1. pdfPage \in Pane!PageNumbers
  BY PaneNumbers DEF Pane!Init, Pane!PageNumbers
<1>2. pdfReloadKey \in 0..MaxReloads /\ reloads \in 0..MaxReloads /\ pdfReloadKey <= reloads
  BY PaneNumbers DEF Pane!Init
<1> QED
  BY <1>1, <1>2 DEF PaneInv, Pane!TypeOK, Pane!Init

\* The controls turn to a page of the document, or to the one behind its last.
LEMMA PaneTurns ==
    ASSUME Pane!PaneAssumption, PaneInv, NEW p \in Pane!PageNumbers, Pane!TurnTo(p)
    PROVE  PaneInv'
BY DEF Pane!TurnTo, Pane!viewer, PaneInv, Pane!TypeOK

LEMMA PageNumber ==
    ASSUME Pane!PaneAssumption, PaneInv
    PROVE  /\ PdfPages \subseteq Pane!PageNumbers
           /\ Pane!Larger(1, pdfPage - 1) \in Pane!PageNumbers
           /\ \A p \in Pane!PageNumbers : Pane!Larger(p, 1) \in Pane!PageNumbers
           /\ pdfPage \in PdfPages =>
                 (IF pdfNumPages > 0 THEN Pane!Smaller(pdfNumPages, pdfPage + 1) ELSE pdfPage + 1)
                    \in Pane!PageNumbers
           /\ Pane!displayPdfPage \in Nat \ {0}
<1>1. pdfPage \in 1..(Pane!LastPage + 1) /\ pdfNumPages \in {0, Pane!LastPage}
  BY DEF PaneInv, Pane!TypeOK, Pane!PageNumbers
<1> QED
  BY <1>1, PaneNumbers DEF Pane!PageNumbers, Pane!Larger, Pane!Smaller, Pane!displayPdfPage

\* "Neu laden" and the reset after a save load the document anew.
LEMMA PaneReloads ==
    ASSUME Pane!PaneAssumption, PaneInv, Pane!ReloadPdf \/ Pane!ResetPane
    PROVE  PaneInv'
<1>1. /\ reloads < MaxReloads /\ reloads' = reloads + 1
      /\ pdfReloadKey' = pdfReloadKey + 1 \/ pdfReloadKey' = 0
  BY DEF Pane!ReloadPdf, Pane!ResetPane
<1>2. pdfReloadKey' \in 0..MaxReloads /\ reloads' \in 0..MaxReloads /\ pdfReloadKey' <= reloads'
  BY <1>1, PaneNumbers DEF PaneInv, Pane!TypeOK
<1>3. pdfPage' \in Pane!PageNumbers /\ pdfNumPages' \in {0, Pane!LastPage}
  BY PaneNumbers DEF Pane!ReloadPdf, Pane!ResetPane, PaneInv, Pane!TypeOK, Pane!PageNumbers
<1>4. /\ pdfError' = FALSE
      /\ crashed' \in BOOLEAN
      /\ selectedSource' \in Sources \cup {NoSource} /\ effectPage' \in PdfPages \cup {0}
      /\ containerWidth' \in PaneWidths
  BY DEF Pane!ReloadPdf, Pane!ResetPane, PaneInv, Pane!TypeOK
<1>5. /\ renderer' \in {"loading", "loaded"} /\ document' \in {"loading", "loaded"}
      /\ loadedPage' \in PdfPages \cup {0}
      /\ originalWidth' \in {Width[p] : p \in PdfPages} \cup {0}
      /\ loadedPage' # 0 => originalWidth' = Width[loadedPage']
  <2>1. \/ loadedPage' = 0 /\ originalWidth' \in {0, originalWidth}
        \/ loadedPage' = loadedPage /\ originalWidth' = originalWidth
    BY DEF Pane!ReloadPdf, Pane!ResetPane
  <2>2. renderer' \in {"loading", renderer} /\ document' \in {"loading", document}
    BY DEF Pane!ReloadPdf, Pane!ResetPane
  <2> QED
    BY <2>1, <2>2 DEF PaneInv, Pane!TypeOK
<1> QED
  BY <1>2, <1>3, <1>4, <1>5 DEF PaneInv, Pane!TypeOK

\* The page that has loaded brings its own width.
LEMMA PaneLoads ==
    ASSUME Pane!PaneAssumption, PaneInv, Pane!Loading \/ Pane!Crash
    PROVE  PaneInv'
<1> USE DEF Pane!table, Pane!viewer, PaneInv, Pane!TypeOK
<1>1. CASE Pane!LoadRenderer
  BY <1>1 DEF Pane!LoadRenderer
<1>2. CASE Pane!ReportError
  BY <1>2 DEF Pane!ReportError
<1>3. CASE Pane!LoadDocument
  BY <1>3 DEF Pane!LoadDocument
<1>4. CASE Pane!handlePageLoad
  BY <1>4 DEF Pane!handlePageLoad
<1>5. CASE Pane!Crash
  BY <1>5 DEF Pane!Crash
<1> QED
  BY <1>1, <1>2, <1>3, <1>4, <1>5 DEF Pane!Loading, Pane!RendererFails, Pane!DocumentFails

LEMMA PaneTypeStep ==
    ASSUME Pane!PaneAssumption, PaneInv, [Pane!Next]_(Pane!vars)
    PROVE  PaneInv'
<1> USE DEF Pane!table, Pane!viewer
<1>1. ASSUME NEW s \in Sources, Pane!Select(s) PROVE PaneInv'
  BY <1>1 DEF Pane!Select, PaneInv, Pane!TypeOK
<1>2. CASE Pane!PreviousPdfPage \/ Pane!NextPdfPage \/ Pane!GoToSource
  <2>1. selectedSource \in Sources => selectedSource.page \in PdfPages
    BY DEF Pane!PaneAssumption
  <2>2. \E p \in Pane!PageNumbers : Pane!TurnTo(p)
    BY <1>2, <2>1, PageNumber DEF Pane!PreviousPdfPage, Pane!NextPdfPage, Pane!GoToSource, PaneInv,
       Pane!TypeOK
  <2> QED
    BY <2>2, PaneTurns
<1>3. ASSUME NEW p \in Pane!PageNumbers, Pane!TypePage(p) PROVE PaneInv'
  BY <1>3, PageNumber, PaneTurns DEF Pane!TypePage
<1>4. ASSUME NEW w \in PaneWidths, Pane!ResizePane(w) PROVE PaneInv'
  BY <1>4 DEF Pane!ResizePane, PaneInv, Pane!TypeOK
<1>5. CASE Pane!FollowSource
  <2>1. Pane!sourcePage \in PdfPages \cup {0}
    BY DEF Pane!sourcePage, Pane!PaneAssumption, PaneInv, Pane!TypeOK
  <2>2. effectPage' \in PdfPages \cup {0} /\ pdfPage' \in Pane!PageNumbers
    BY <1>5, <2>1, PageNumber DEF Pane!FollowSource, PaneInv, Pane!TypeOK
  <2> QED
    BY <1>5, <2>2 DEF Pane!FollowSource, PaneInv, Pane!TypeOK
<1>6. CASE UNCHANGED Pane!vars
  BY <1>6 DEF Pane!vars, PaneInv, Pane!TypeOK
<1> QED
  BY <1>1, <1>2, <1>3, <1>4, <1>5, <1>6, PaneReloads, PaneLoads DEF Pane!Next, Pane!Reader

\* The highlight is drawn from the width of the page under it.
LEMMA PaneAligned == ASSUME Pane!PaneAssumption, PaneInv PROVE Pane!HighlightAligned
<1> SUFFICES ASSUME loadedPage = Pane!displayPdfPage, Pane!highlightStyle # NoSource
             PROVE  /\ Pane!highlightStyle.box = selectedSource.box
                    /\ selectedSource.page = loadedPage
                    /\ Pane!highlightStyle.scale = <<containerWidth, Width[loadedPage]>>
  BY DEF Pane!HighlightAligned
<1>1. loadedPage # 0 /\ originalWidth = Width[loadedPage]
  BY PageNumber DEF PaneInv
<1>2. /\ Pane!sourcePage = loadedPage
      /\ Pane!highlightStyle = [box |-> selectedSource.box, scale |-> <<containerWidth, originalWidth>>]
  BY DEF Pane!highlightStyle, Pane!highlightOnThisPage, Pane!scaleOf
<1>3. selectedSource.page = loadedPage
  BY <1>1, <1>2 DEF Pane!sourcePage
<1> QED
  BY <1>1, <1>2, <1>3

LEMMA PaneHolds == ASSUME Pane!PaneAssumption PROVE Pane!Spec => []PaneInv
BY PaneInit, PaneTypeStep, PTL DEF Pane!Spec
-----------------------------------------------------------------------------
(* Pages.                                                                  *)

\* One part runs, and it takes the steps of its component.
LEMMA OnePart ==
    ASSUME [PagesNext]_pagesVars
    PROVE  /\ part' = part
           /\ part = "throttle" => [Next]_vars
           /\ part = "settings" => [Settings!Next]_settingsVars
           /\ part = "list" => [List!Next]_listVars
           /\ part = "paged" => [Paged!Next]_listVars
           /\ part = "login" => [Login!Next]_loginVars
           /\ part = "form" => [Form!Next]_uploadVars
           /\ part = "stats" => [Stats!Next]_statVars
           /\ part = "pane" => [Pane!Next]_paneVars
           /\ part = "work" => [Work!Next]_workVars
<1>1. CASE UNCHANGED pagesVars
  BY <1>1, Zenon DEF pagesVars
<1>2. CASE Throttled
  BY <1>2 DEF Throttled
<1>3. CASE SettingsStep
  BY <1>3 DEF SettingsStep
<1>4. CASE ListStep
  BY <1>4 DEF ListStep
<1>5. CASE PagedStep
  BY <1>5 DEF PagedStep
<1>6. CASE LoginStep
  BY <1>6 DEF LoginStep
<1>7. CASE FormStep
  BY <1>7 DEF FormStep
<1>8. CASE StatsStep
  BY <1>8 DEF StatsStep
<1>9. CASE PaneStep
  BY <1>9 DEF PaneStep
<1>10. CASE WorkStep
  BY <1>10 DEF WorkStep
<1> QED
  BY <1>1, <1>2, <1>3, <1>4, <1>5, <1>6, <1>7, <1>8, <1>9, <1>10 DEF PagesNext

LEMMA ThrottleRuns ==
    PagesSafety => /\ part = "throttle" => Spec
                   /\ ~(part = "throttle") => []~(part = "throttle")
<1>1. PagesInit /\ part = "throttle" => Init
  BY DEF PagesInit
<1>2. [PagesNext]_pagesVars => (part = "throttle" => (part = "throttle")') /\ (~(part = "throttle") => (~(part = "throttle"))')
  BY OnePart
<1>3. part = "throttle" /\ [PagesNext]_pagesVars => [Next]_(vars)
  BY OnePart
<1> QED
  BY <1>1, <1>2, <1>3, PTL DEF PagesSafety, Spec

LEMMA SettingsRuns ==
    PagesSafety => /\ part = "settings" => Settings!Spec
                   /\ ~(part = "settings") => []~(part = "settings")
<1>1. PagesInit /\ part = "settings" => Settings!Init
  BY DEF PagesInit
<1>2. [PagesNext]_pagesVars => (part = "settings" => (part = "settings")') /\ (~(part = "settings") => (~(part = "settings"))')
  BY OnePart
<1>3. part = "settings" /\ [PagesNext]_pagesVars => [Settings!Next]_(Settings!vars)
  BY OnePart, Zenon DEF settingsVars, Settings!vars, Settings!queries, Settings!editors, Settings!form,
                          Settings!saves
<1> QED
  BY <1>1, <1>2, <1>3, PTL DEF PagesSafety, Settings!Spec

LEMMA ListRuns ==
    PagesSafety => /\ part = "list" => List!Spec
                   /\ ~(part = "list") => []~(part = "list")
<1>1. PagesInit /\ part = "list" => List!Init
  BY DEF PagesInit
<1>2. [PagesNext]_pagesVars => (part = "list" => (part = "list")') /\ (~(part = "list") => (~(part = "list"))')
  BY OnePart
<1>3. part = "list" /\ [PagesNext]_pagesVars => [List!Next]_(List!vars)
  BY OnePart, Zenon DEF listVars, List!vars, List!controls, List!queries
<1> QED
  BY <1>1, <1>2, <1>3, PTL DEF PagesSafety, List!Spec

LEMMA PagedRuns ==
    PagesSafety => /\ part = "paged" => Paged!Spec
                   /\ ~(part = "paged") => []~(part = "paged")
<1>1. PagesInit /\ part = "paged" => Paged!Init
  BY DEF PagesInit
<1>2. [PagesNext]_pagesVars => (part = "paged" => (part = "paged")') /\ (~(part = "paged") => (~(part = "paged"))')
  BY OnePart
<1>3. part = "paged" /\ [PagesNext]_pagesVars => [Paged!Next]_(Paged!vars)
  BY OnePart, Zenon DEF listVars, Paged!vars, Paged!controls, Paged!queries
<1> QED
  BY <1>1, <1>2, <1>3, PTL DEF PagesSafety, Paged!Spec

LEMMA LoginRuns ==
    PagesSafety => /\ part = "login" => Login!Spec
                   /\ ~(part = "login") => []~(part = "login")
<1>1. PagesInit /\ part = "login" => Login!Init
  BY DEF PagesInit
<1>2. [PagesNext]_pagesVars => (part = "login" => (part = "login")') /\ (~(part = "login") => (~(part = "login"))')
  BY OnePart
<1>3. part = "login" /\ [PagesNext]_pagesVars => [Login!Next]_(Login!vars)
  BY OnePart, Zenon DEF loginVars, Login!vars, Login!query, Login!counters
<1> QED
  BY <1>1, <1>2, <1>3, PTL DEF PagesSafety, Login!Spec

LEMMA FormRuns ==
    PagesSafety => /\ part = "form" => Form!Spec
                   /\ ~(part = "form") => []~(part = "form")
<1>1. PagesInit /\ part = "form" => Form!Init
  BY DEF PagesInit
<1>2. [PagesNext]_pagesVars => (part = "form" => (part = "form")') /\ (~(part = "form") => (~(part = "form"))')
  BY OnePart
<1>3. part = "form" /\ [PagesNext]_pagesVars => [Form!Next]_(Form!vars)
  BY OnePart, Zenon DEF uploadVars, Form!vars, Form!form
<1> QED
  BY <1>1, <1>2, <1>3, PTL DEF PagesSafety, Form!Spec

LEMMA StatsRuns ==
    PagesSafety => /\ part = "stats" => Stats!Spec
                   /\ ~(part = "stats") => []~(part = "stats")
<1>1. PagesInit /\ part = "stats" => Stats!Init
  BY DEF PagesInit
<1>2. [PagesNext]_pagesVars => (part = "stats" => (part = "stats")') /\ (~(part = "stats") => (~(part = "stats"))')
  BY OnePart
<1>3. part = "stats" /\ [PagesNext]_pagesVars => [Stats!Next]_(Stats!vars)
  BY OnePart, Zenon DEF statVars, Stats!vars, Stats!server, Stats!queries
<1> QED
  BY <1>1, <1>2, <1>3, PTL DEF PagesSafety, Stats!Spec

LEMMA PaneRuns ==
    PagesSafety => /\ part = "pane" => Pane!Spec
                   /\ ~(part = "pane") => []~(part = "pane")
<1>1. PagesInit /\ part = "pane" => Pane!Init
  BY DEF PagesInit
<1>2. [PagesNext]_pagesVars => (part = "pane" => (part = "pane")') /\ (~(part = "pane") => (~(part = "pane"))')
  BY OnePart
<1>3. part = "pane" /\ [PagesNext]_pagesVars => [Pane!Next]_(Pane!vars)
  BY OnePart, Zenon DEF paneVars, Pane!vars, Pane!table, Pane!viewer
<1> QED
  BY <1>1, <1>2, <1>3, PTL DEF PagesSafety, Pane!Spec

LEMMA WorkRuns ==
    PagesSafety => /\ part = "work" => Work!Spec
                   /\ ~(part = "work") => []~(part = "work")
<1>1. PagesInit /\ part = "work" => Work!Init
  BY DEF PagesInit
<1>2. [PagesNext]_pagesVars => (part = "work" => (part = "work")') /\ (~(part = "work") => (~(part = "work"))')
  BY OnePart
<1>3. part = "work" /\ [PagesNext]_pagesVars => [Work!Next]_(Work!vars)
  BY OnePart, Zenon DEF workVars, Work!vars, Work!server, Work!component, Work!cache, Work!fetches, Work!mutations, Work!counters
<1> QED
  BY <1>1, <1>2, <1>3, PTL DEF PagesSafety, Work!Spec

LEMMA SafetyOfSpec == PagesSpec => PagesSafety
BY DEF PagesSpec

\* PartsTypeOK: the variables of the part that runs keep their types, and with them
\* what the type invariants say of request and page, of key and document, of a query
\* that loads.
THEOREM PagesTypes == PagesSpec => []PartsTypeOK
<1>1. Settings!Spec => []Settings!TypeOK
  BY PagesAssumption, Settings!SettingsTypes
<1>2. List!Spec => []List!TypeOK
  BY PagesAssumption, List!ListTypes
<1>3. Paged!Spec => []Paged!TypeOK
  BY PagesAssumption, Paged!ListTypes
<1>4. Login!Spec => []Login!TypeOK
  BY PagesAssumption, LoginTypes
<1>5. Form!Spec => []Form!TypeOK
  <2>1. FormInv => Form!TypeOK
    BY DEF FormInv
  <2>2. Form!Spec => []FormInv
    BY PagesAssumption, FormHolds
  <2> QED
    BY <2>1, <2>2, PTL
<1>6. Stats!Spec => []Stats!TypeOK
  BY PagesAssumption, StatsTypes
<1>7. Pane!Spec => []Pane!TypeOK
  <2>1. PaneInv => Pane!TypeOK
    BY DEF PaneInv
  <2>2. Pane!Spec => []PaneInv
    BY PagesAssumption, PaneHolds
  <2> QED
    BY <2>1, <2>2, PTL
<1>8. Work!Spec => []Work!TypeOK
  BY PagesAssumption, Work!WorkspaceTypes
<1> QED
  BY <1>1, <1>2, <1>3, <1>4, <1>5, <1>6, <1>7, <1>8, SafetyOfSpec, ThrottleTypes, ThrottleRuns,
     SettingsRuns, ListRuns, PagedRuns, LoginRuns, FormRuns, StatsRuns, PaneRuns, WorkRuns, PTL
     DEF PartsTypeOK

\* OwnContent: no document of the master data is written over another one, except by a
\* save before the text of the selected one is shown (saveJson of einstellungen/page.tsx).
THEOREM PagesOwnContent == PagesSpec => []OwnContent
<1>1. Settings!Spec => []Settings!OwnContent
  BY PagesAssumption, Settings!CatalogsKeepTheirContent
<1> QED
  BY <1>1, SafetyOfSpec, SettingsRuns, PTL DEF OwnContent

\* TypedTextKept: a text that an admin has typed who waits for the page is given up only
\* for a newer state of the file.
THEOREM PagesKeepTypedText == PagesSpec => TypedTextKept
<1>1. Settings!Spec => [][Settings!KeepsTypedText]_(Settings!vars)
  BY PagesAssumption, Settings!TypedTextIsKept DEF Settings!TypedTextKept
<1>2. [Settings!KeepsTypedText]_(Settings!vars) => [part = "settings" => Settings!KeepsTypedText]_settingsVars
  BY Zenon DEF settingsVars, Settings!vars, Settings!queries, Settings!editors, Settings!form,
                          Settings!saves
<1>3. ~(part = "settings") => [part = "settings" => Settings!KeepsTypedText]_settingsVars
  OBVIOUS
<1> QED
  BY <1>1, <1>2, <1>3, SafetyOfSpec, SettingsRuns, PTL DEF TypedTextKept

\* PagesAreTrue: settled settings show an admin who waits what is stored, settled lists
\* and dashboard a patient user who is alone, but for a change whose answer was lost; the
\* charts name every job completed all the time; the form shows the file it sends, and
\* the server takes what the form calls ordinary.
THEOREM PagesTellTheTruth == PagesSpec => []PagesAreTrue
<1>1. Settings!Spec => []Settings!ShowsStored
  BY PagesAssumption, Settings!SettledPageIsCurrent
<1>2. List!Spec => []List!ListIsCurrent
  BY PagesAssumption, List!ListCurrent
<1>3. List!Spec => []List!DashboardIsCurrent
  BY PagesAssumption, List!DashboardCurrent
<1>4. Form!Spec => [](Form!ShownIsSent /\ Form!OrdinaryFileTaken)
  <2>1. FormInv => Form!ShownIsSent /\ Form!OrdinaryFileTaken
    BY DEF FormInv
  <2>2. Form!Spec => []FormInv
    BY PagesAssumption, FormHolds
  <2> QED
    BY <2>1, <2>2, PTL
<1>5. Stats!Spec => []Stats!ChartsMissNothing
  BY PagesAssumption, ChartsComplete
<1> QED
  BY <1>1, <1>2, <1>3, <1>4, <1>5, SafetyOfSpec, SettingsRuns, ListRuns, FormRuns, StatsRuns, PTL
     DEF PagesAreTrue

\* PagesHoldTheList: whatever other users do meanwhile, no page of the list is empty
\* and every job of the filter is on one page.
THEOREM PagesArePaged == PagesSpec => []PagesHoldTheList
<1>1. Paged!Spec => []Paged!PagesHoldTheList
  BY PagesAssumption, Paged!ListIsPaged
<1> QED
  BY <1>1, SafetyOfSpec, PagedRuns, PTL DEF PagesHoldTheList

\* PurgedWasArchived: the purge of a patient user who is alone meets an archived job,
\* unless the answer to a change was lost and his list never fetched again.
THEOREM PagesPurgeArchived == PagesSpec => []PurgedWasArchived
<1>1. List!Spec => []List!PurgedWasArchived
  BY PagesAssumption, List!PurgeOfArchived
<1> QED
  BY <1>1, SafetyOfSpec, ListRuns, PTL DEF PurgedWasArchived

\* HighlightAligned: on a loaded page the highlight has the box of the selected cell
\* and the scale of that page, however pages, widths and documents changed before.
THEOREM PagesHighlight == PagesSpec => []HighlightAligned
<1>1. PaneInv => Pane!HighlightAligned
  BY PagesAssumption, PaneAligned
<1>2. Pane!Spec => []PaneInv
  BY PagesAssumption, PaneHolds
<1> QED
  BY <1>1, <1>2, SafetyOfSpec, PaneRuns, PTL DEF HighlightAligned

\* AggregatesAgree: at every moment the months and the customers of the statistics
\* count the completed jobs of the overview, each once.
THEOREM PagesAggregatesAgree == PagesSpec => []AggregatesAgree
<1>1. Stats!Spec => []Stats!TypeOK
  BY PagesAssumption, StatsTypes
<1>2. Stats!TypeOK => Stats!AggregatesAgree
  BY PagesAssumption, StatsAgree
<1> QED
  BY <1>1, <1>2, SafetyOfSpec, StatsRuns, PTL DEF AggregatesAgree
=============================================================================
