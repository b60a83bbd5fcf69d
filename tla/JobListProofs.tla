---------------------------- MODULE JobListProofs ----------------------------
(***************************************************************************)
(* Proofs about JobList for any jobs, tables and bounds: types, that the   *)
(* pages hold the list, and, for a patient user who is alone, that settled *)
(* list and dashboard are current and that only archived jobs are purged.  *)
(***************************************************************************)
EXTENDS JobList, FiniteSetTheorems, TLAPS

\* What is assumed, in the parts the proofs need.
LEMMA Numbers ==
    ASSUME JobListAssumption
    PROVE  /\ MaxMutations \in Nat /\ MaxOthers \in Nat /\ MaxFailures \in Nat
           /\ PAGE_SIZE \in Nat \ {0} /\ RECENT \in Nat \ {0}
BY DEF JobListAssumption

LEMMA JobsAreNumbers == ASSUME JobListAssumption PROVE IsFiniteSet(Jobs) /\ Jobs \subseteq Nat
<1>1. IsFiniteSet(Jobs) /\ Jobs = 1..Cardinality(Jobs)
  BY DEF JobListAssumption
<1> QED
  BY <1>1, FS_CardinalityType

LEMMA NotTables ==
    ASSUME JobListAssumption
    PROVE  /\ Idle \notin Tables /\ Asked \notin Tables /\ NoData \notin Tables
           /\ Idle # Asked /\ NoMutation \notin Mutation
BY DEF JobListAssumption

-----------------------------------------------------------------------------
(* Types.                                                                  *)

LEMMA RowsTyped ==
    ASSUME NEW t \in Tables
    PROVE  /\ DOMAIN t \subseteq Jobs
           /\ t \in [DOMAIN t -> JobSummary]
           /\ \A j \in DOMAIN t : t[j] \in JobSummary
BY DEF Tables

LEMMA IsTable == ASSUME NEW S \in SUBSET Jobs, NEW t \in [S -> JobSummary] PROVE t \in Tables
BY DEF Tables

LEMMA ListTyped ==
    ASSUME TypeOK, NEW key
    PROVE  /\ listJobs(key) \in Tables
           /\ DOMAIN listJobs(key) = {j \in DOMAIN table : key = "all" \/ ~table[j].archived}
           /\ \A j \in DOMAIN listJobs(key) : listJobs(key)[j] = table[j]
<1> DEFINE rows == {j \in DOMAIN table : key = "all" \/ ~table[j].archived}
<1>1. DOMAIN table \subseteq Jobs /\ \A j \in DOMAIN table : table[j] \in JobSummary
  BY RowsTyped DEF TypeOK
<1>2. listJobs(key) = [j \in rows |-> table[j]]
  BY DEF listJobs
<1>3. [j \in rows |-> table[j]] \in [rows -> JobSummary]
  BY <1>1
<1>4. listJobs(key) \in Tables
  BY <1>1, <1>2, <1>3, IsTable
<1> QED
  BY <1>2, <1>4

\* A row whose status or mark changes leaves a table of the same jobs.
LEMMA RowChanged ==
    ASSUME NEW t \in Tables, NEW j \in DOMAIN t, NEW s \in Statuses, NEW a \in BOOLEAN
    PROVE  /\ [t EXCEPT ![j].status = s] \in Tables
           /\ [t EXCEPT ![j].archived = a] \in Tables
<1>1. t[j] \in JobSummary /\ t \in [DOMAIN t -> JobSummary] /\ DOMAIN t \in SUBSET Jobs
  BY RowsTyped
<1>2. [t[j] EXCEPT !.status = s] \in JobSummary /\ [t[j] EXCEPT !.archived = a] \in JobSummary
  BY <1>1 DEF JobSummary
<1>3. /\ [t EXCEPT ![j].status = s] \in [DOMAIN t -> JobSummary]
      /\ [t EXCEPT ![j].archived = a] \in [DOMAIN t -> JobSummary]
  BY <1>1, <1>2
<1> QED
  BY <1>1, <1>3, IsTable

LEMMA ChangeTyped ==
    ASSUME TypeOK, NEW kind, NEW j \in DOMAIN table, Change(kind, j) PROVE table' \in Tables
<1>1. ASSUME NEW a \in BOOLEAN, SetArchived(j, a) PROVE table' \in Tables
  BY <1>1, RowChanged DEF SetArchived, TypeOK, Statuses
<1>2. CASE Purge(j)
  <2>1. table' \in [DOMAIN table \ {j} -> JobSummary]
    BY <1>2, RowsTyped DEF Purge, TypeOK
  <2> QED
    BY <2>1, RowsTyped, IsTable DEF TypeOK
<1> QED
  BY <1>1, <1>2 DEF Change

LEMMA FilteredFinite ==
    ASSUME JobListAssumption, TypeOK
    PROVE  /\ filtered \subseteq Jobs
           /\ IsFiniteSet(filtered) /\ Cardinality(filtered) \in Nat
<1>1. Mounted \in Keys
  BY DEF Mounted, Keys
<1>2. filtered \subseteq Jobs
  BY <1>1, RowsTyped DEF filtered, TypeOK
<1> QED
  BY <1>2, JobsAreNumbers, FS_Subset, FS_CardinalityType

LEMMA PagesTyped ==
    ASSUME JobListAssumption, TypeOK
    PROVE  pageCount \in Nat \ {0} /\ safePage \in 0..(pageCount - 1)
<1>1. (Cardinality(filtered) + PAGE_SIZE - 1) \div PAGE_SIZE \in Nat
  BY FilteredFinite, Numbers
<1>2. pageCount \in Nat \ {0}
  BY <1>1 DEF pageCount, Larger
<1>3. page \in Nat
  BY DEF TypeOK
<1> QED
  BY <1>2, <1>3 DEF safePage, Smaller

LEMMA Counters ==
    ASSUME TypeOK
    PROVE  /\ mutations \in 0..MaxMutations /\ others \in 0..MaxOthers
           /\ failures \in 0..MaxFailures /\ page \in Nat
BY DEF TypeOK

LEMMA InitTypes == ASSUME JobListAssumption, Init PROVE TypeOK
<1>1. table \in Tables /\ page \in Nat
  BY DEF Init, JobListAssumption
<1>2. mutations \in 0..MaxMutations /\ others \in 0..MaxOthers /\ failures \in 0..MaxFailures
  <2>1. mutations = 0 /\ others = 0 /\ failures = 0
    BY DEF Init
  <2> QED
    BY <2>1, Numbers
<1>3. /\ data \in [Keys -> Tables \cup {NoData}]
      /\ fetch \in [Keys -> Tables \cup {Idle, Asked}]
      /\ isError \in [Keys -> BOOLEAN]
  BY DEF Init
<1> QED
  BY <1>1, <1>2, <1>3 DEF Init, TypeOK

LEMMA MountTyped == ASSUME TypeOK, NEW key \in Keys, Mount(key)
                    PROVE  fetch' \in [Keys -> Tables \cup {Idle, Asked}] /\ stale' \subseteq Keys
BY DEF Mount, TypeOK

LEMMA TypeStep == ASSUME JobListAssumption, TypeOK, [Next]_vars PROVE TypeOK'
<1> USE DEF controls, queries
<1>1. ASSUME NEW key \in Keys, AnswerList(key) \/ ReceiveList(key) \/ ListFails(key) PROVE TypeOK'
  <2>1. CASE AnswerList(key)
    BY <1>1, <2>1, ListTyped DEF AnswerList, TypeOK
  <2>2. CASE ReceiveList(key)
    BY <1>1, <2>2 DEF ReceiveList, TypeOK
  <2>3. CASE ListFails(key)
    <3>1. failures < MaxFailures /\ failures' = failures + 1
      BY <2>3 DEF ListFails
    <3>2. isError' \in [Keys -> BOOLEAN] /\ fetch' \in [Keys -> Tables \cup {Idle, Asked}]
      BY <2>3 DEF ListFails, TypeOK
    <3>3. failures' \in 0..MaxFailures
      BY <3>1, Numbers, Counters
    <3> QED
      BY <2>3, <3>2, <3>3 DEF ListFails, TypeOK
  <2> QED
    BY <1>1, <2>1, <2>2, <2>3
<1>2. CASE SetSearch \/ PreviousPage \/ NextPage
  <2>1. page' \in {0, Larger(0, page - 1), Smaller(pageCount - 1, page + 1)}
    BY <1>2 DEF SetSearch, PreviousPage, NextPage
  <2>2. page' \in Nat
    BY <2>1, PagesTyped, Counters DEF Larger, Smaller
  <2> QED
    BY <1>2, <2>2 DEF SetSearch, PreviousPage, NextPage, TypeOK
<1>3. CASE SetIncludeArchived \/ GoDashboard \/ GoList
  <2>1. \E key \in Keys : Mount(key)
    BY <1>3 DEF SetIncludeArchived, GoDashboard, GoList, Keys
  <2>2. page' = 0 \/ page' = page
    BY <1>3 DEF SetIncludeArchived, GoDashboard, GoList
  <2>3. fetch' \in [Keys -> Tables \cup {Idle, Asked}] /\ stale' \subseteq Keys
    BY <2>1, MountTyped
  <2>4. page' \in Nat
    BY <2>2, Counters
  <2>5. CASE SetIncludeArchived
    BY <2>3, <2>4, <2>5 DEF SetIncludeArchived, TypeOK
  <2>6. CASE GoDashboard
    BY <2>3, <2>4, <2>6 DEF GoDashboard, TypeOK
  <2>7. CASE GoList
    BY <2>3, <2>4, <2>7 DEF GoList, TypeOK
  <2> QED
    BY <1>3, <2>5, <2>6, <2>7
<1>4. ASSUME NEW s \in {"", "completed", "failed"}, SetStatusFilter(s) PROVE TypeOK'
  BY <1>4 DEF SetStatusFilter, TypeOK, Statuses
<1>5. ASSUME NEW key \in {"date", "customer", "automation"}, SetSortKey(key) PROVE TypeOK'
  BY <1>5 DEF SetSortKey, TypeOK
<1>6. ASSUME NEW j \in Jobs, NEW kind \in Kinds, Click(kind, j) PROVE TypeOK'
  <2>1. mutation' \in Mutation
    BY <1>6 DEF Click, Mutation
  <2>2. mutations' \in 0..MaxMutations
    <3>1. mutations < MaxMutations /\ mutations' = mutations + 1
      BY <1>6 DEF Click
    <3> QED
      BY <3>1, Numbers, Counters
  <2> QED
    BY <1>6, <2>1, <2>2 DEF Click, TypeOK
<1>7. CASE HandleMutation
  <2>1. mutation \in Mutation /\ table' \in Tables
    BY <1>7, ChangeTyped DEF HandleMutation, busy, TypeOK
  <2>2. table[mutation.job].archived \in BOOLEAN
    BY <1>7, RowsTyped DEF HandleMutation, TypeOK, JobSummary
  <2>4. mutation' \in Mutation
    BY <1>7, <2>1, <2>2 DEF HandleMutation, Mutation
  <2> QED
    BY <1>7, <2>1, <2>4 DEF HandleMutation, TypeOK
<1>8. CASE MutationDone
  BY <1>8 DEF MutationDone, invalidate, TypeOK
<1>9. CASE MutationFails
  <2>1. failures' \in 0..MaxFailures
    <3>1. failures < MaxFailures /\ failures' = failures + 1
      BY <1>9 DEF MutationFails
    <3> QED
      BY <3>1, Numbers, Counters
  <2>2. unheard' \subseteq Keys
    BY <1>9 DEF MutationFails, TypeOK
  <2> QED
    BY <1>9, <2>1, <2>2 DEF MutationFails, TypeOK
<1>13. CASE MutationRefused
  BY <1>13 DEF MutationRefused, TypeOK
<1>10. ASSUME NEW j \in DOMAIN table, RunJob(j) PROVE TypeOK'
  <2>1. table' \in Tables
    <3>1. PICK s \in Statuses : table' = [table EXCEPT ![j].status = s]
      BY <1>10 DEF RunJob, Statuses
    <3>2. table \in Tables
      BY DEF TypeOK
    <3> QED
      BY <3>1, <3>2, RowChanged
  <2> QED
    BY <1>10, <2>1 DEF RunJob, TypeOK
<1>11. ASSUME NEW kind \in Kinds, NEW j \in DOMAIN table, OtherUser(kind, j) PROVE TypeOK'
  <2>1. table' \in Tables
    BY <1>11, ChangeTyped DEF OtherUser
  <2>2. others' \in 0..MaxOthers
    <3>1. others < MaxOthers /\ others' = others + 1
      BY <1>11 DEF OtherUser
    <3> QED
      BY <3>1, Numbers, Counters
  <2> QED
    BY <1>11, <2>1, <2>2 DEF OtherUser, TypeOK
<1>12. CASE UNCHANGED vars
  BY <1>12 DEF vars, TypeOK
<1> QED
  BY <1>1, <1>2, <1>3, <1>4, <1>5, <1>6, <1>7, <1>8, <1>9, <1>10, <1>11, <1>12,
     <1>13 DEF Next, handleArchive, handleRestore, handlePurge, Kinds

\* TypeOK: the variables of the lists keep their types, whatever the user does.
THEOREM ListTypes == ASSUME JobListAssumption PROVE Spec => []TypeOK
BY InitTypes, TypeStep, PTL DEF Spec
-----------------------------------------------------------------------------
(* The pages.                                                              *)

\* An injection of a finite set into as many numbers hits every one of them.
LEMMA EveryIndexTaken ==
    ASSUME NEW S, IsFiniteSet(S), NEW f \in [S -> 0..(Cardinality(S) - 1)],
           \A x, y \in S : f[x] = f[y] => x = y,
           NEW k \in 0..(Cardinality(S) - 1)
    PROVE  \E x \in S : f[x] = k
<1> DEFINE n == Cardinality(S)
<1>1. n \in Nat
  BY FS_CardinalityType
<1>2. IsFiniteSet(0..(n - 1)) /\ Cardinality(0..(n - 1)) = n
  BY <1>1, FS_Interval
<1>3. f \in Injection(S, 0..(n - 1))
  BY DEF Injection, IsInjective
<1>4. f \in Surjection(S, 0..(n - 1))
  BY <1>2, <1>3, FS_Injection
<1> QED
  BY <1>4 DEF Surjection

\* The comparison of rows.sort orders the jobs, and no two of them equally.
LEMMA BeforeOrders ==
    ASSUME JobListAssumption, TypeOK
    PROVE  /\ \A i \in Jobs : ~Before(i, i)
           /\ \A i, j \in Jobs : i # j => Before(i, j) \/ Before(j, i)
           /\ \A i, j, k \in Jobs : Before(i, j) /\ Before(j, k) => Before(i, k)
<1> USE JobsAreNumbers
<1>1. Customer \in [Jobs -> Nat] /\ Rate \in [Jobs -> Nat]
  BY DEF JobListAssumption
<1>2. CASE sortKey = "date"
  BY <1>2 DEF Before, NewerFirst
<1>3. CASE sortKey = "customer"
  BY <1>1, <1>3 DEF Before, NewerFirst
<1>4. CASE sortKey = "automation"
  BY <1>1, <1>4 DEF Before, NewerFirst
<1> QED
  BY <1>2, <1>3, <1>4 DEF TypeOK

LEMMA IndexRises ==
    ASSUME JobListAssumption, TypeOK, NEW i \in filtered, NEW j \in filtered, Before(i, j)
    PROVE  Index(i) < Index(j)
<1> DEFINE Ahead(x) == {y \in filtered : Before(y, x)}
<1>1. filtered \subseteq Jobs /\ IsFiniteSet(filtered)
  BY FilteredFinite
<1>2. IsFiniteSet(Ahead(i)) /\ IsFiniteSet(Ahead(j))
  BY <1>1, FS_Subset
<1>3. i \notin Ahead(i) /\ Ahead(i) \cup {i} \subseteq Ahead(j)
  BY <1>1, BeforeOrders
<1>4. Cardinality(Ahead(i) \cup {i}) = Cardinality(Ahead(i)) + 1
  BY <1>2, <1>3, FS_AddElement
<1>5. Cardinality(Ahead(i) \cup {i}) <= Cardinality(Ahead(j))
  BY <1>2, <1>3, FS_Subset
<1>6. Cardinality(Ahead(i)) \in Nat /\ Cardinality(Ahead(j)) \in Nat
  BY <1>2, FS_CardinalityType
<1> QED
  BY <1>4, <1>5, <1>6 DEF Index

LEMMA IndexBounded ==
    ASSUME JobListAssumption, TypeOK, NEW j \in filtered
    PROVE  Index(j) \in 0..(Cardinality(filtered) - 1)
<1> DEFINE Ahead == {y \in filtered : Before(y, j)}
<1>1. filtered \subseteq Jobs /\ IsFiniteSet(filtered) /\ Cardinality(filtered) \in Nat
  BY FilteredFinite
<1>2. Ahead \subseteq filtered \ {j}
  BY <1>1, BeforeOrders
<1>3. IsFiniteSet(filtered \ {j}) /\ Cardinality(filtered \ {j}) = Cardinality(filtered) - 1
  BY <1>1, FS_RemoveElement
<1>4. IsFiniteSet(Ahead) /\ Cardinality(Ahead) <= Cardinality(filtered) - 1
  BY <1>2, <1>3, FS_Subset
<1>5. Cardinality(Ahead) \in Nat
  BY <1>4, FS_CardinalityType
<1> QED
  BY <1>1, <1>4, <1>5 DEF Index

\* The rows have the indices from 0 on, one each.
LEMMA IndicesAreRows ==
    ASSUME JobListAssumption, TypeOK, NEW k \in 0..(Cardinality(filtered) - 1)
    PROVE  \E j \in filtered : Index(j) = k
<1> DEFINE f == [j \in filtered |-> Index(j)]
<1>1. IsFiniteSet(filtered) /\ filtered \subseteq Jobs
  BY FilteredFinite
<1>2. f \in [filtered -> 0..(Cardinality(filtered) - 1)]
  BY IndexBounded
<1>3. ASSUME NEW x \in filtered, NEW y \in filtered, f[x] = f[y], x # y PROVE FALSE
  <2>1. Before(x, y) \/ Before(y, x)
    BY <1>1, <1>3, BeforeOrders
  <2>2. Index(x) < Index(y) \/ Index(y) < Index(x)
    BY <2>1, IndexRises
  <2>3. Index(x) \in Int /\ Index(y) \in Int /\ Index(x) = Index(y)
    BY <1>3, IndexBounded
  <2> QED
    BY <2>2, <2>3
<1>4. \A x, y \in filtered : f[x] = f[y] => x = y
  BY <1>3
<1> HIDE DEF f
<1>5. \E x \in filtered : f[x] = k
  BY <1>1, <1>2, <1>4, EveryIndexTaken
<1> QED
  BY <1>5 DEF f

\* Division by the size of a page.
LEMMA Division ==
    ASSUME NEW a \in Nat, NEW b \in Nat \ {0}
    PROVE  /\ a \div b \in Nat
           /\ (a \div b) * b <= a /\ a <= (a \div b) * b + b - 1
OBVIOUS

LEMMA Multiples ==
    ASSUME NEW a \in Int, NEW b \in Int, NEW c \in Nat \ {0}, a < b
    PROVE  a * c + c <= b * c
<1>1. a * c \in Int /\ b * c \in Int
  OBVIOUS
<1>2. \E d \in Nat : b = a + 1 + d
  <2>1. b - a - 1 \in Nat /\ b = a + 1 + (b - a - 1)
    OBVIOUS
  <2> QED
    BY <2>1
<1>3. PICK d \in Nat : b = a + 1 + d
  BY <1>2
<1>4. b * c = a * c + c + d * c /\ d * c >= 0
  BY <1>3
<1> QED
  BY <1>1, <1>4

\* The pages are as many as the rows need.
LEMMA PagesNeeded ==
    ASSUME JobListAssumption, TypeOK, filtered # {}
    PROVE  /\ Cardinality(filtered) \in Nat \ {0}
           /\ Cardinality(filtered) <= pageCount * PAGE_SIZE
           /\ (pageCount - 1) * PAGE_SIZE < Cardinality(filtered)
<1> DEFINE n == Cardinality(filtered)
           m == (n + PAGE_SIZE - 1) \div PAGE_SIZE
<1>1. n \in Nat \ {0}
  BY FilteredFinite, FS_EmptySet
<1>2. PAGE_SIZE \in Nat \ {0} /\ n + PAGE_SIZE - 1 \in Nat
  BY <1>1, Numbers
<1>3. m \in Nat /\ m * PAGE_SIZE <= n + PAGE_SIZE - 1 /\ n <= m * PAGE_SIZE
  <2>1. /\ m \in Nat
        /\ m * PAGE_SIZE <= n + PAGE_SIZE - 1
        /\ n + PAGE_SIZE - 1 <= m * PAGE_SIZE + PAGE_SIZE - 1
    BY <1>2, Division
  <2> QED
    BY <1>1, <1>2, <2>1
<1>4. m # 0
  BY <1>1, <1>2, <1>3
<1>5. pageCount = m
  BY <1>3, <1>4 DEF pageCount, Larger
<1> HIDE DEF m, n
<1>6. (m - 1) * PAGE_SIZE = m * PAGE_SIZE - PAGE_SIZE
  BY <1>2, <1>3
<1> QED
  BY <1>1, <1>2, <1>3, <1>5, <1>6 DEF n

\* A row is on the page its index divides to, and on no other.
LEMMA OnePageOfRow ==
    ASSUME JobListAssumption, TypeOK, filtered # {}, NEW j \in filtered
    PROVE  \E p \in 0..(pageCount - 1) :
              j \in Rows(p) /\ \A q \in 0..(pageCount - 1) : j \in Rows(q) => q = p
<1> DEFINE k == Index(j)
           p == k \div PAGE_SIZE
<1>1. /\ k \in Nat /\ k < Cardinality(filtered) /\ PAGE_SIZE \in Nat \ {0}
      /\ pageCount \in Nat \ {0} /\ Cardinality(filtered) <= pageCount * PAGE_SIZE
      /\ Cardinality(filtered) \in Nat
  BY IndexBounded, Numbers, PagesTyped, PagesNeeded
<1> HIDE DEF k
<1>2. p \in Nat /\ p * PAGE_SIZE <= k /\ k <= p * PAGE_SIZE + PAGE_SIZE - 1
  BY <1>1, Division
<1> HIDE DEF p
<1>3. p < pageCount
  <2> SUFFICES ASSUME ~(p < pageCount) PROVE FALSE
    OBVIOUS
  <2>1. p = pageCount \/ pageCount < p
    BY <1>1, <1>2
  <2>2. pageCount * PAGE_SIZE <= p * PAGE_SIZE
    BY <1>1, <1>2, <2>1, Multiples
  <2> QED
    BY <1>1, <1>2, <2>2
<1>4. ASSUME NEW q \in 0..(pageCount - 1), j \in Rows(q) PROVE q = p
  <2>1. q * PAGE_SIZE <= k /\ k <= q * PAGE_SIZE + PAGE_SIZE - 1
    BY <1>1, <1>4 DEF Rows, k
  <2>2. ~(q < p)
    BY <1>1, <1>2, <2>1, Multiples
  <2>3. ~(p < q)
    BY <1>1, <1>2, <2>1, Multiples
  <2> QED
    BY <1>1, <1>2, <2>2, <2>3
<1>5. k \in p * PAGE_SIZE .. p * PAGE_SIZE + PAGE_SIZE - 1
  BY <1>1, <1>2
<1>6. j \in Rows(p)
  BY <1>5 DEF Rows, k
<1> QED
  BY <1>1, <1>2, <1>3, <1>4, <1>6

\* The page that is shown has its first row.
LEMMA PageIsNotEmpty == ASSUME JobListAssumption, TypeOK, filtered # {} PROVE pageRows # {}
<1> DEFINE k == safePage * PAGE_SIZE
<1>1. /\ safePage \in 0..(pageCount - 1) /\ pageCount \in Nat \ {0} /\ PAGE_SIZE \in Nat \ {0}
      /\ Cardinality(filtered) \in Nat /\ (pageCount - 1) * PAGE_SIZE < Cardinality(filtered)
  BY PagesTyped, Numbers, PagesNeeded
<1>2. safePage * PAGE_SIZE <= (pageCount - 1) * PAGE_SIZE
  <2>1. safePage = pageCount - 1 \/ safePage < pageCount - 1
    BY <1>1
  <2> QED
    BY <1>1, <2>1, Multiples
<1>3. k \in Nat
  BY <1>1
<1>4. k \in 0..(Cardinality(filtered) - 1)
  BY <1>1, <1>2, <1>3
<1>5. PICK j \in filtered : Index(j) = k
  BY <1>4, IndicesAreRows
<1>6. Index(j) \in safePage * PAGE_SIZE .. safePage * PAGE_SIZE + PAGE_SIZE - 1
  BY <1>1, <1>3, <1>5
<1> QED
  BY <1>6 DEF pageRows, Rows

LEMMA PagesHold == ASSUME JobListAssumption, TypeOK PROVE PagesHoldTheList
BY OnePageOfRow, PageIsNotEmpty DEF PagesHoldTheList, ShowsRows

\* PagesHoldTheList: no page that is shown is empty, and every row is on one page,
\* whatever the size of the pages, the filters, the order and the number of jobs.
THEOREM ListIsPaged == ASSUME JobListAssumption PROVE Spec => []PagesHoldTheList
<1>1. TypeOK => PagesHoldTheList
  BY PagesHold
<1> QED
  BY <1>1, ListTypes, PTL

-----------------------------------------------------------------------------
(* The dashboard.                                                          *)

LEMMA DashboardFinite ==
    ASSUME JobListAssumption, TypeOK
    PROVE  /\ dashboardJobs \subseteq Jobs /\ IsFiniteSet(dashboardJobs)
           /\ \A j \in dashboardJobs : data["jobs"][j].status \in Statuses
<1>1. data["jobs"] # NoData => data["jobs"] \in Tables
  BY DEF TypeOK, Keys
<1>2. /\ dashboardJobs \subseteq Jobs
      /\ \A j \in dashboardJobs : data["jobs"][j] \in JobSummary
  BY <1>1, RowsTyped DEF dashboardJobs
<1> QED
  BY <1>2, JobsAreNumbers, FS_Subset DEF JobSummary

LEMMA DisjointUnion ==
    ASSUME NEW S, NEW T, IsFiniteSet(S), IsFiniteSet(T), S \cap T = {}
    PROVE  IsFiniteSet(S \cup T) /\ Cardinality(S \cup T) = Cardinality(S) + Cardinality(T)
<1>1. /\ IsFiniteSet(S \cup T)
      /\ Cardinality(S \cup T) = Cardinality(S) + Cardinality(T) - Cardinality(S \cap T)
  BY FS_Union
<1>2. Cardinality(S \cap T) = 0
  BY FS_EmptySet
<1>3. Cardinality(S) \in Nat /\ Cardinality(T) \in Nat
  BY FS_CardinalityType
<1> QED
  BY <1>1, <1>2, <1>3

LEMMA CountersAddUp ==
    ASSUME JobListAssumption, TypeOK
    PROVE  buildKpis.open + buildKpis.finished + buildKpis.failed = Cardinality(dashboardJobs)
<1> DEFINE statusOf(j) == data["jobs"][j].status
           open == {j \in dashboardJobs : statusOf(j) \in {"pending", "processing"}}
           finished == {j \in dashboardJobs : statusOf(j) \in {"completed"}}
           rest == {j \in dashboardJobs : statusOf(j) \in {"failed"}}
<1>1. /\ buildKpis.open = Cardinality(open)
      /\ buildKpis.finished = Cardinality(finished) /\ buildKpis.failed = Cardinality(rest)
  BY DEF buildKpis, Count
<1>2. \A j \in dashboardJobs : statusOf(j) \in Statuses
  BY DashboardFinite
<1> HIDE DEF statusOf
<1>3. /\ open \cap finished = {} /\ (open \cup finished) \cap rest = {}
      /\ (open \cup finished) \cup rest = dashboardJobs
  BY <1>2 DEF Statuses
<1>4. open \subseteq dashboardJobs /\ finished \subseteq dashboardJobs /\ rest \subseteq dashboardJobs
  OBVIOUS
<1> HIDE DEF open, finished, rest
<1>5. /\ IsFiniteSet(open) /\ IsFiniteSet(finished) /\ IsFiniteSet(rest)
      /\ Cardinality(open) \in Nat /\ Cardinality(finished) \in Nat /\ Cardinality(rest) \in Nat
  BY <1>4, DashboardFinite, FS_Subset, FS_CardinalityType
<1>6. /\ IsFiniteSet(open \cup finished)
      /\ Cardinality(open \cup finished) = Cardinality(open) + Cardinality(finished)
  BY <1>3, <1>5, DisjointUnion
<1>7. Cardinality(dashboardJobs) = Cardinality(open \cup finished) + Cardinality(rest)
  BY <1>3, <1>5, <1>6, DisjointUnion
<1> QED
  BY <1>1, <1>5, <1>6, <1>7

-----------------------------------------------------------------------------
(* The patient user who is alone.                                          *)

\* A copy of a list has the jobs and the marks the server would answer now.
Agrees(rows, key) ==
    /\ DOMAIN rows = DOMAIN listJobs(key)
    /\ \A j \in DOMAIN rows : rows[j].archived = table[j].archived

OneFetch == \A key \in Keys : fetch[key] # Idle => key = Mounted /\ ~busy
AnswersAgree == \A key \in Keys : fetch[key] \notin {Idle, Asked} => Agrees(fetch[key], key)
DataAgree ==
    \A key \in Keys :
        data[key] # NoData /\ key \notin stale \cup unheard /\ ~(busy /\ mutation.handled) =>
            Agrees(data[key], key)
StaleIsFetched == Mounted \in stale /\ fetch[Mounted] = Idle => isError[Mounted]
PurgeIsSafe ==
    busy /\ ~mutation.handled /\ mutation.kind = "purge" /\ Mounted \notin unheard =>
        mutation.job \in DOMAIN table /\ table[mutation.job].archived

\* The inductive invariant: at most the query of the screen is being fetched, and not
\* while a mutation is out; copies that are neither stale nor about to be, nor older
\* than a change whose answer was lost, agree with the server.
PatientInv ==
    /\ OneFetch /\ AnswersAgree /\ DataAgree /\ StaleIsFetched
    /\ PurgeIsSafe /\ PurgedWasArchived

LEMMA MountedIsKey == Mounted \in Keys
BY DEF Mounted, Keys

LEMMA PatientInvShows == ASSUME PatientInv PROVE ListIsCurrent
BY MountedIsKey DEF PatientInv, ListIsCurrent, DataAgree, StaleIsFetched, Settled, Agrees

LEMMA PatientInit == ASSUME JobListAssumption, Init PROVE PatientInv
<1>1. Mounted = "active" /\ ~busy
  BY DEF Init, Mounted, busy
<1>2. \A key \in Keys : data[key] = NoData /\ fetch[key] = IF key = "active" THEN Asked ELSE Idle
  BY DEF Init
<1> QED
  BY <1>1, <1>2 DEF Init, PatientInv, OneFetch, AnswersAgree, DataAgree, StaleIsFetched, PurgeIsSafe,
     PurgedWasArchived

\* A step that leaves table, queries, mutation and screen alone.
LEMMA NothingSeen ==
    ASSUME PatientInv, UNCHANGED <<table, queries, mutation>>, Mounted' = Mounted
    PROVE  PatientInv'
<1> USE DEF queries, busy
<1>1. OneFetch' /\ StaleIsFetched'
  BY DEF PatientInv, OneFetch, StaleIsFetched
<1>2. AnswersAgree' /\ DataAgree'
  BY DEF PatientInv, AnswersAgree, DataAgree, Agrees, listJobs
<1>3. PurgeIsSafe' /\ PurgedWasArchived'
  BY DEF PatientInv, PurgeIsSafe, PurgedWasArchived
<1> QED
  BY <1>1, <1>2, <1>3 DEF PatientInv

\* The screen changes when its list is settled; the query of the new screen is mounted.
LEMMA NewScreen ==
    ASSUME TypeOK, JobListAssumption, PatientInv, Settled, Mount(Mounted'), Mounted' \in Keys,
           UNCHANGED <<table, data, isError, unheard, mutation>>
    PROVE  PatientInv'
<1> DEFINE new == Mounted'
<1>1. ~busy /\ ~busy' /\ \A key \in Keys : fetch[key] = Idle
  BY MountedIsKey DEF PatientInv, OneFetch, Settled, busy
<1>2. /\ stale' = stale
      /\ \A key \in Keys : fetch'[key] = Idle \/ (key = new /\ fetch'[key] = Asked)
      /\ new \in stale => fetch'[new] = Asked
  <2>1. new \in Keys /\ fetch \in [Keys -> Tables \cup {Idle, Asked}]
    BY DEF TypeOK
  <2> HIDE DEF new
  <2>2. Mount(new) /\ fetch[new] = Idle
    BY <1>1, <2>1 DEF new
  <2>3. CASE UNCHANGED <<fetch, stale>> /\ new \notin stale
    BY <1>1, <2>1, <2>3
  <2>4. CASE fetch' = [fetch EXCEPT ![new] = Asked] /\ UNCHANGED stale
    BY <1>1, <2>1, <2>4
  <2> QED
    BY <2>2, <2>3, <2>4, Zenon DEF Mount
<1>3. Idle # Asked
  BY NotTables
<1>4. OneFetch' /\ StaleIsFetched'
  <2>1. OneFetch'
    BY <1>1, <1>2 DEF OneFetch
  <2>2. StaleIsFetched'
    BY <1>2, <1>3 DEF StaleIsFetched
  <2> QED
    BY <2>1, <2>2
<1>5. AnswersAgree'
  BY <1>2 DEF AnswersAgree
<1>6. DataAgree'
  BY <1>2 DEF PatientInv, DataAgree, Agrees, listJobs, busy
<1>7. PurgeIsSafe' /\ PurgedWasArchived'
  BY <1>1 DEF PurgeIsSafe, PurgedWasArchived
<1> QED
  BY <1>4, <1>5, <1>6, <1>7 DEF PatientInv

\* The three steps of a fetch.
LEMMA FetchKeeps ==
    ASSUME JobListAssumption, TypeOK, PatientInv, NEW key \in Keys,
           AnswerList(key) \/ ReceiveList(key) \/ ListFails(key)
    PROVE  PatientInv'
<1> USE DEF controls
<1>1. key = Mounted /\ ~busy /\ Mounted' = Mounted /\ ~busy' /\ mutation' = mutation /\ table' = table
  <2>1. fetch[key] # Idle
    BY NotTables DEF AnswerList, ReceiveList, ListFails
  <2> QED
    BY <2>1 DEF AnswerList, ReceiveList, ListFails, PatientInv, OneFetch, Mounted, busy
<1>2. \A k \in Keys : k # key => fetch[k] = Idle /\ fetch'[k] = Idle
  <2>1. \A k \in Keys : k # key => fetch[k] = Idle
    BY <1>1 DEF PatientInv, OneFetch
  <2> QED
    BY <2>1 DEF AnswerList, ReceiveList, ListFails, TypeOK
<1>3. OneFetch' /\ PurgeIsSafe' /\ PurgedWasArchived'
  BY <1>1, <1>2 DEF OneFetch, PurgeIsSafe, PurgedWasArchived
<1>4. \A rows, k : Agrees(rows, k) <=> Agrees(rows, k)'
  BY <1>1 DEF Agrees, listJobs
<1>5. CASE AnswerList(key)
  <2>1. data' = data /\ stale' = stale /\ unheard' = unheard /\ fetch'[key] = listJobs(key)
    BY <1>5 DEF AnswerList, TypeOK
  <2>2. DataAgree'
    BY <1>1, <2>1 DEF PatientInv, DataAgree, Agrees, listJobs
  <2>3. Agrees(fetch'[key], key)
    BY <2>1 DEF Agrees, listJobs
  <2>4. AnswersAgree'
    <3> SUFFICES ASSUME NEW k \in Keys, fetch'[k] \notin {Idle, Asked} PROVE Agrees(fetch[k], k)'
      BY DEF AnswersAgree
    <3>1. k = key
      BY <1>2
    <3> QED
      BY <1>1, <2>3, <3>1 DEF Agrees, listJobs
  <2>5. StaleIsFetched'
    BY <1>1, <2>1, ListTyped, NotTables DEF StaleIsFetched
  <2> QED
    BY <1>3, <2>2, <2>4, <2>5 DEF PatientInv
<1>6. CASE ReceiveList(key)
  <2>1. /\ data'[key] = fetch[key] /\ stale' = stale \ {key} /\ fetch'[key] = Idle
        /\ unheard' = unheard \ {key}
    BY <1>6 DEF ReceiveList, TypeOK
  <2>2. \A k \in Keys : k # key => data'[k] = data[k]
    BY <1>6 DEF ReceiveList, TypeOK
  <2>3. Agrees(fetch[key], key)
    BY <1>6 DEF ReceiveList, PatientInv, AnswersAgree
  <2>4. DataAgree'
    <3> SUFFICES ASSUME NEW k \in Keys, data'[k] # NoData, k \notin (stale \cup unheard)'
                    PROVE  Agrees(data[k], k)'
      BY DEF DataAgree
    <3>1. CASE k = key
      BY <1>1, <2>1, <2>3, <3>1 DEF Agrees, listJobs
    <3>2. CASE k # key
      <4>1. data'[k] = data[k] /\ k \notin stale \cup unheard
        BY <2>1, <2>2, <3>2
      <4>2. Agrees(data[k], k)
        BY <1>1, <4>1 DEF PatientInv, DataAgree
      <4> QED
        BY <1>1, <4>1, <4>2 DEF Agrees, listJobs
    <3> QED
      BY <3>1, <3>2
  <2>5. AnswersAgree' /\ StaleIsFetched'
    BY <1>1, <1>2, <2>1 DEF AnswersAgree, StaleIsFetched
  <2> QED
    BY <1>3, <2>4, <2>5 DEF PatientInv
<1>7. CASE ListFails(key)
  <2>1. data' = data /\ stale' = stale /\ unheard' = unheard /\ fetch'[key] = Idle
    BY <1>7 DEF ListFails, TypeOK
  <2>2. isError'[key]
    BY <1>7 DEF ListFails, TypeOK
  <2>3. DataAgree'
    BY <1>1, <2>1 DEF PatientInv, DataAgree, Agrees, listJobs
  <2>4. AnswersAgree'
    BY <1>2, <2>1 DEF AnswersAgree
  <2>5. StaleIsFetched'
    BY <1>1, <2>2 DEF StaleIsFetched
  <2> QED
    BY <1>3, <2>3, <2>4, <2>5 DEF PatientInv
<1> QED
  BY <1>5, <1>6, <1>7

\* The user clicks a button that the row offers: what it shows is what is stored.
LEMMA ClickKeeps ==
    ASSUME JobListAssumption, TypeOK, Patient = TRUE, PatientInv, NEW j \in Jobs, NEW kind \in Kinds,
           Click(kind, j)
    PROVE  PatientInv'
<1> USE DEF controls, queries
<1>1. ~busy /\ Settled /\ ShowsRows /\ j \in pageRows
  BY Zenon DEF Click, MayAct
<1>2. kind = "purge" => data[Mounted][j].archived
  BY Zenon DEF Click
<1>3. \A key \in Keys : fetch[key] = Idle
  BY <1>1 DEF PatientInv, OneFetch, Settled
<1>4. UNCHANGED <<table, data, fetch, stale, isError, unheard>> /\ Mounted' = Mounted
  BY DEF Click, Mounted
<1>5. mutation' = [kind |-> kind, job |-> j, handled |-> FALSE, archived |-> FALSE]
  BY DEF Click
<1>6. ~mutation'.handled /\ mutation'.job = j /\ mutation'.kind = kind
  BY <1>5
<1>7. j \in DOMAIN data[Mounted]
  BY <1>1 DEF pageRows, Rows, filtered, ShowsRows
<1>8. OneFetch' /\ StaleIsFetched' /\ AnswersAgree'
  BY <1>3, <1>4 DEF PatientInv, OneFetch, StaleIsFetched, AnswersAgree
<1>9. DataAgree'
  <2>1. \A key \in Keys : data[key] # NoData /\ key \notin stale \cup unheard =>
            Agrees(data[key], key)
    BY <1>1 DEF PatientInv, DataAgree
  <2> QED
    BY <1>4, <2>1 DEF DataAgree, Agrees, listJobs
<1>10. kind = "purge" /\ Mounted \notin unheard => j \in DOMAIN table /\ table[j].archived
  <2> SUFFICES ASSUME kind = "purge", Mounted \notin unheard PROVE j \in DOMAIN table /\ table[j].archived
    OBVIOUS
  <2>5. Mounted \notin unheard
    OBVIOUS
  <2>1. ListIsCurrent
    BY PatientInvShows
  <2>2. ShowsRows /\ Patient /\ Settled
    BY <1>1
  <2>3. data[Mounted] # NoData /\ ~isError[Mounted]
    BY <2>2, Zenon DEF ShowsRows
  <2>4. /\ DOMAIN data[Mounted] = DOMAIN listJobs(Mounted)
        /\ data[Mounted][j].archived = table[j].archived
    BY <1>7, <2>1, <2>2, <2>3, <2>5 DEF ListIsCurrent
  <2> QED
    BY <1>2, <1>7, <2>4 DEF listJobs
<1>11. PurgeIsSafe' /\ PurgedWasArchived'
  BY <1>4, <1>6, <1>10 DEF PurgeIsSafe, PurgedWasArchived
<1> QED
  BY <1>8, <1>9, <1>11 DEF PatientInv

\* The steps of a mutation.
LEMMA MutationKeeps ==
    ASSUME JobListAssumption, TypeOK, PatientInv,
           HandleMutation \/ MutationDone \/ MutationRefused \/ MutationFails
    PROVE  PatientInv'
<1> USE DEF controls, queries
<1>1. busy /\ Mounted' = Mounted /\ \A key \in Keys : fetch[key] = Idle
  BY DEF HandleMutation, MutationDone, MutationRefused, MutationFails, Mounted, PatientInv, OneFetch
<1>2. CASE HandleMutation
  <2>1. UNCHANGED <<data, fetch, stale, isError, unheard>> /\ ~mutation.handled
    BY <1>2 DEF HandleMutation
  <2>2. mutation \in Mutation
    BY <1>1 DEF TypeOK, busy
  <2>3. /\ mutation'.handled = TRUE
        /\ mutation'.kind = mutation.kind
        /\ mutation'.archived = table[mutation.job].archived
    BY <1>2, <2>2 DEF HandleMutation, Mutation
  <2>4. busy'
    <3>1. table[mutation.job].archived \in BOOLEAN
      BY <1>2, RowsTyped DEF HandleMutation, TypeOK, JobSummary
    <3>2. mutation' \in Mutation
      BY <1>2, <2>2, <3>1 DEF HandleMutation, Mutation
    <3> QED
      BY <3>2, NotTables DEF busy
  <2>5. OneFetch' /\ AnswersAgree' /\ StaleIsFetched'
    BY <1>1, <2>1 DEF PatientInv, OneFetch, AnswersAgree, StaleIsFetched
  <2>6. DataAgree' /\ PurgeIsSafe'
    BY <2>3, <2>4 DEF DataAgree, PurgeIsSafe
  <2>7. PurgedWasArchived'
    BY <1>1, <2>1, <2>3 DEF PatientInv, PurgeIsSafe, PurgedWasArchived
  <2> QED
    BY <2>5, <2>6, <2>7 DEF PatientInv
<1>3. CASE MutationDone
  <2>1. ~busy' /\ UNCHANGED <<table, data, isError, unheard>>
    BY <1>3 DEF MutationDone, busy
  <2>2. /\ stale' = stale \cup {key \in Keys : data[key] # NoData}
        /\ \A key \in Keys : fetch'[key] = IF key = Mounted THEN Asked ELSE Idle
    BY <1>1, <1>3, MountedIsKey DEF MutationDone, invalidate, TypeOK
  <2>3. OneFetch' /\ AnswersAgree' /\ DataAgree'
    BY <1>1, <2>1, <2>2 DEF OneFetch, AnswersAgree, DataAgree
  <2>4. StaleIsFetched'
    BY <1>1, <2>1, <2>2, NotTables, MountedIsKey DEF PatientInv, StaleIsFetched
  <2>5. PurgeIsSafe' /\ PurgedWasArchived'
    BY <2>1 DEF PurgeIsSafe, PurgedWasArchived
  <2> QED
    BY <2>3, <2>4, <2>5 DEF PatientInv
<1>4. CASE MutationRefused \/ MutationFails
  <2>1. /\ ~busy' /\ UNCHANGED <<table, data, fetch, stale, isError>>
        /\ unheard' = Keys \/ (~mutation.handled /\ unheard' = unheard)
    BY <1>4 DEF MutationRefused, MutationFails, busy
  <2>2. OneFetch' /\ AnswersAgree' /\ StaleIsFetched'
    BY <1>1, <2>1 DEF PatientInv, OneFetch, AnswersAgree, StaleIsFetched
  <2>3. DataAgree'
    BY <2>1 DEF PatientInv, DataAgree, Agrees, listJobs
  <2>4. PurgeIsSafe' /\ PurgedWasArchived'
    BY <2>1 DEF PurgeIsSafe, PurgedWasArchived
  <2> QED
    BY <2>2, <2>3, <2>4 DEF PatientInv
<1> QED
  BY <1>2, <1>3, <1>4

\* The pipeline changes the status of a job.
LEMMA PipelineKeeps ==
    ASSUME TypeOK, PatientInv, NEW j \in DOMAIN table, RunJob(j)
    PROVE  PatientInv'
<1> USE DEF controls, queries
<1>1. UNCHANGED <<data, fetch, stale, isError, unheard, mutation>> /\ Mounted' = Mounted
  BY DEF RunJob, Mounted
<1>2. PICK s \in Statuses : table' = [table EXCEPT ![j].status = s]
  BY DEF RunJob, Statuses
<1>3. /\ DOMAIN table' = DOMAIN table
      /\ \A i \in DOMAIN table : table'[i].archived = table[i].archived
  <2>1. \A i \in DOMAIN table : table[i] \in JobSummary
    BY RowsTyped DEF TypeOK
  <2> QED
    BY <1>2, <2>1 DEF JobSummary
<1>4. OneFetch' /\ StaleIsFetched'
  BY <1>1 DEF PatientInv, OneFetch, StaleIsFetched, busy
<1>5. AnswersAgree' /\ DataAgree'
  BY <1>1, <1>3 DEF PatientInv, AnswersAgree, DataAgree, Agrees, listJobs, busy
<1>6. PurgeIsSafe' /\ PurgedWasArchived'
  BY <1>1, <1>3 DEF PatientInv, PurgeIsSafe, PurgedWasArchived, busy
<1> QED
  BY <1>4, <1>5, <1>6 DEF PatientInv

LEMMA PatientStep ==
    ASSUME JobListAssumption, Patient = TRUE, TypeOK, PatientInv, [Next]_vars
    PROVE  PatientInv'
<1> USE DEF controls, queries
<1>1. CASE SetSearch \/ PreviousPage \/ NextPage
  BY <1>1, NothingSeen DEF SetSearch, PreviousPage, NextPage, Mounted
<1>2. CASE SetIncludeArchived \/ GoDashboard \/ GoList
  <2>1. Settled /\ UNCHANGED <<table, data, isError, unheard, mutation>>
    BY <1>2, Zenon DEF SetIncludeArchived, GoDashboard, GoList, MayAct
  <2>2. Mount(Mounted') /\ Mounted' \in Keys
    <3>1. CASE SetIncludeArchived
      BY <3>1 DEF SetIncludeArchived, Mounted, Keys, TypeOK
    <3>2. CASE GoDashboard
      BY <3>2 DEF GoDashboard, Mounted, Keys
    <3>3. CASE GoList
      BY <3>3 DEF GoList, Mounted, Keys
    <3> QED
      BY <1>2, <3>1, <3>2, <3>3
  <2> QED
    BY <2>1, <2>2, NewScreen
<1>3. ASSUME NEW s \in {"", "completed", "failed"}, SetStatusFilter(s) PROVE PatientInv'
  BY <1>3, NothingSeen DEF SetStatusFilter, Mounted
<1>4. ASSUME NEW key \in {"date", "customer", "automation"}, SetSortKey(key) PROVE PatientInv'
  BY <1>4, NothingSeen DEF SetSortKey, Mounted
<1>5. ASSUME NEW kind \in Kinds, NEW j \in DOMAIN table, OtherUser(kind, j) PROVE FALSE
  BY <1>5 DEF OtherUser
<1>6. CASE UNCHANGED vars
  BY <1>6, NothingSeen DEF vars, Mounted
<1> QED
  BY <1>1, <1>2, <1>3, <1>4, <1>5, <1>6, FetchKeeps, ClickKeeps, MutationKeeps, PipelineKeeps
     DEF Next, handleArchive, handleRestore, handlePurge, Kinds

LEMMA PatientUser == ASSUME JobListAssumption, Patient = TRUE PROVE Spec => [](TypeOK /\ PatientInv)
BY InitTypes, TypeStep, PatientInit, PatientStep, PTL DEF Spec

\* ListIsCurrent: once the own change of a user who is alone and the refetch after it are
\* over, the list shows the jobs that exist and which of them are archived, however stale
\* the caches of the other lists were meanwhile; a change whose answer was lost excepted.
THEOREM ListCurrent == ASSUME JobListAssumption, Patient = TRUE PROVE Spec => []ListIsCurrent
BY PatientUser, PatientInvShows, PTL

\* DashboardIsCurrent: to such a user the settled dashboard counts each job of the server
\* that is not archived once, and lists the newest of them.
THEOREM DashboardCurrent ==
    ASSUME JobListAssumption, Patient = TRUE PROVE Spec => []DashboardIsCurrent
<1>1. ASSUME TypeOK, PatientInv PROVE DashboardIsCurrent
  <2> DEFINE jobs == DOMAIN listJobs("jobs")
  <2> SUFFICES ASSUME Patient, Settled, screen = "dashboard", data["jobs"] # NoData,
                      ~isError["jobs"], "jobs" \notin unheard
               PROVE  /\ buildKpis.open + buildKpis.finished + buildKpis.failed = Cardinality(jobs)
                      /\ ~search =>
                            filteredFiles =
                                {j \in jobs : Cardinality({i \in jobs : NewerFirst(i, j)}) < RECENT}
    BY DEF DashboardIsCurrent
  <2>1. Mounted = "jobs"
    BY DEF Mounted
  <2>2. ListIsCurrent
    BY <1>1, PatientInvShows
  <2>3. DOMAIN data["jobs"] = jobs
    BY <2>1, <2>2 DEF ListIsCurrent
  <2>4. dashboardJobs = jobs
    BY <2>3 DEF dashboardJobs
  <2> HIDE DEF jobs
  <2>5. buildKpis.open + buildKpis.finished + buildKpis.failed = Cardinality(jobs)
    BY <1>1, <2>4, CountersAddUp
  <2> QED
    BY <2>4, <2>5 DEF filteredFiles, Newer
<1> QED
  BY <1>1, PatientUser, PTL

\* PurgedWasArchived: for a patient user who is alone the server purges a job only when it
\* is archived at that moment, although the route does not ask for it; unless the answer
\* to a change was lost, and the list he clicked on was never fetched again.
THEOREM PurgeOfArchived == ASSUME JobListAssumption, Patient = TRUE PROVE Spec => []PurgedWasArchived
<1>1. PatientInv => PurgedWasArchived
  BY DEF PatientInv
<1> QED
  BY <1>1, PatientUser, PTL
=============================================================================
