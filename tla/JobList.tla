------------------------------ MODULE JobList -------------------------------
(***************************************************************************)
(* The lists of jobs: the page "Stuecklisten" with filters, sorting, pages *)
(* and the buttons that archive, restore and purge, and the dashboard with *)
(* its counters and the most recent jobs.  Three cached queries show one   *)
(* table of the server that pipeline and other users change meanwhile; a   *)
(* mutation invalidates all three.                                         *)
(***************************************************************************)
EXTENDS Integers, FiniteSets

CONSTANTS
    Jobs,            \* 1..n, in order of their creation
    Customer, Rate,  \* of every job: rank of its customer, green share
    Found,           \* jobs a search finds
    PAGE_SIZE, RECENT,   \* 15 and 8 in the code
    NoData, Idle, Asked, NoMutation,
    Patient,         \* whether the user acts only on settled lists, and alone
    Start,           \* bound: the tables to start with
    Controls,        \* bound: the controls the user touches
    MaxMutations,    \* bound: mutations of this browser
    MaxOthers,       \* bound: changes by other users
    MaxFailures      \* bound: requests that fail for good

Statuses == {"pending", "processing", "completed", "failed"}
JobSummary == [status : Statuses, archived : BOOLEAN]
Tables == UNION {[S -> JobSummary] : S \in SUBSET Jobs}

Kinds == {"archive", "restore", "purge"}
Mutation == [kind : Kinds, job : Jobs, handled : BOOLEAN, archived : BOOLEAN]

JobListAssumption ==
    /\ IsFiniteSet(Jobs) /\ Jobs = 1..Cardinality(Jobs)
    /\ Customer \in [Jobs -> Nat] /\ Rate \in [Jobs -> Nat]
    /\ Found \subseteq Jobs
    /\ Start \subseteq Tables
    /\ {Idle, Asked, NoData} \cap Tables = {} /\ Idle # Asked /\ NoMutation \notin Mutation
    /\ PAGE_SIZE \in Nat \ {0} /\ RECENT \in Nat \ {0}
    /\ Patient \in BOOLEAN
    /\ Controls \subseteq {"search", "status", "sort", "archived", "pages", "dashboard"}
    /\ MaxMutations \in Nat /\ MaxOthers \in Nat /\ MaxFailures \in Nat

VARIABLES
    table,           \* the rows of the server: a function on the jobs that exist
    screen,          \* "list" or "dashboard"
    search, statusFilter, includeArchived, sortKey, page,
    data,            \* of every query, NoData without
    fetch,           \* Idle, Asked, or the data on their way back
    stale,           \* queries to fetch again when they are mounted
    isError,         \* queries whose last fetch failed
    mutation,        \* NoMutation or the one that is pending
    \* bookkeeping of the model
    unheard,         \* queries not answered again since the answer to a change was lost
    mutations, others, failures

controls == <<search, statusFilter, includeArchived, sortKey>>
queries == <<data, fetch, stale, isError, unheard>>
vars == <<table, screen, controls, page, queries, mutation, mutations, others, failures>>

\* query keys: the list without and with archived jobs, and the dashboard
Keys == {"active", "all", "jobs"}
Mounted == IF screen = "dashboard" THEN "jobs" ELSE IF includeArchived THEN "all" ELSE "active"

-----------------------------------------------------------------------------
(* The server.                                                             *)

\* list_summaries, for one of the queries
listJobs(key) ==
    LET rows == {j \in DOMAIN table : key = "all" \/ ~table[j].archived}
    IN [j \in rows |-> table[j]]

SetArchived(j, archived) ==
    table' = [table EXCEPT ![j].archived = archived]

\* purge of the store
Purge(j) == table' = [i \in DOMAIN table \ {j} |-> table[i]]

\* archive, restore and purge of the routes, of a job there is
Change(kind, j) ==
    \/ kind = "archive" /\ SetArchived(j, TRUE)
    \/ kind = "restore" /\ SetArchived(j, FALSE)
    \/ kind = "purge" /\ Purge(j)

-----------------------------------------------------------------------------
(* What the list shows.                                                    *)

NewerFirst(i, j) == i > j

\* the comparison of rows.sort; equal rows keep the order of the server
Before(i, j) ==
    CASE sortKey = "customer" /\ Customer[i] # Customer[j] -> Customer[i] < Customer[j]
      [] sortKey = "automation" /\ Rate[i] # Rate[j] -> Rate[i] > Rate[j]
      [] OTHER -> NewerFirst(i, j)

filtered ==
    IF data[Mounted] = NoData THEN {}
    ELSE {j \in DOMAIN data[Mounted] :
            /\ search => j \in Found
            /\ statusFilter \in {"", data[Mounted][j].status}}

\* the index of a row after rows.sort
Index(j) == Cardinality({i \in filtered : Before(i, j)})

Larger(a, b) == IF a > b THEN a ELSE b
Smaller(a, b) == IF a < b THEN a ELSE b

pageCount == Larger(1, (Cardinality(filtered) + PAGE_SIZE - 1) \div PAGE_SIZE)

\* VARIANT of safePage: the page is taken as it was set.
pageAsSet == page

safePage == Smaller(page, pageCount - 1)

\* filtered.slice
Rows(p) == {j \in filtered : Index(j) \in p * PAGE_SIZE .. p * PAGE_SIZE + PAGE_SIZE - 1}
pageRows == Rows(safePage)

\* the branches of the page: loading, error, empty, rows
ShowsRows == screen = "list" /\ data[Mounted] # NoData /\ ~isError[Mounted] /\ filtered # {}
ShowsPages == Cardinality(filtered) > PAGE_SIZE

-----------------------------------------------------------------------------
(* What the dashboard shows.                                               *)

dashboardJobs == IF data["jobs"] = NoData THEN {} ELSE DOMAIN data["jobs"]

\* the jobs before one in the order of the server
Newer(j) == {i \in dashboardJobs : NewerFirst(i, j)}

\* filteredFiles: the most recent jobs; with a search every match
filteredFiles ==
    IF search THEN dashboardJobs \cap Found
    ELSE {j \in dashboardJobs : Cardinality(Newer(j)) < RECENT}

Count(S) == Cardinality({j \in dashboardJobs : data["jobs"][j].status \in S})

\* VARIANT of buildKpis: running jobs are in no counter.
kpisWithoutRunning ==
    [open |-> Count({"pending"}), finished |-> Count({"completed"}), failed |-> Count({"failed"})]

buildKpis ==
    [open |-> Count({"pending", "processing"}), finished |-> Count({"completed"}),
     failed |-> Count({"failed"})]

-----------------------------------------------------------------------------
Init ==
    /\ table \in Start
    /\ screen = "list"
    /\ search = FALSE /\ statusFilter = "" /\ includeArchived = FALSE /\ sortKey = "date"
    /\ page = 0
    /\ data = [key \in Keys |-> NoData]
    /\ fetch = [key \in Keys |-> IF key = "active" THEN Asked ELSE Idle]
    /\ stale = {}
    /\ isError = [key \in Keys |-> FALSE]
    /\ mutation = NoMutation
    /\ unheard = {}
    /\ mutations = 0 /\ others = 0 /\ failures = 0

busy == mutation # NoMutation
Settled == ~busy /\ fetch[Mounted] = Idle
MayAct == Patient => Settled

\* A query that is mounted fetches when it has no data or stale data.
Mount(key) ==
    \/ fetch[key] # Idle /\ UNCHANGED <<fetch, stale>>
    \/ fetch[key] = Idle /\ fetch' = [fetch EXCEPT ![key] = Asked] /\ UNCHANGED stale
    \/ /\ fetch[key] = Idle /\ data[key] # NoData /\ key \notin stale /\ ~isError[key]
       /\ UNCHANGED <<fetch, stale>>

AnswerList(key) ==
    /\ fetch[key] = Asked
    /\ fetch' = [fetch EXCEPT ![key] = listJobs(key)]
    /\ UNCHANGED <<table, screen, controls, page, data, stale, isError, unheard, mutation,
                   mutations, others, failures>>

ReceiveList(key) ==
    /\ fetch[key] \notin {Idle, Asked}
    /\ data' = [data EXCEPT ![key] = fetch[key]]
    /\ fetch' = [fetch EXCEPT ![key] = Idle]
    /\ stale' = stale \ {key}
    /\ isError' = [isError EXCEPT ![key] = FALSE]
    /\ unheard' = unheard \ {key}
    /\ UNCHANGED <<table, screen, controls, page, mutation, mutations, others, failures>>

ListFails(key) ==
    /\ fetch[key] = Asked
    /\ failures < MaxFailures
    /\ failures' = failures + 1
    /\ fetch' = [fetch EXCEPT ![key] = Idle]
    /\ isError' = [isError EXCEPT ![key] = TRUE]
    /\ UNCHANGED <<table, screen, controls, page, data, stale, unheard, mutation, mutations,
                   others>>

-----------------------------------------------------------------------------
(* The controls of the list and the navigation.                            *)

\* the search field of either screen, the status filter: back to the first page
SetSearch ==
    /\ "search" \in Controls
    /\ search' = ~search /\ page' = 0
    /\ UNCHANGED <<table, screen, statusFilter, includeArchived, sortKey, queries, mutation,
                   mutations, others, failures>>

SetStatusFilter(s) ==
    /\ "status" \in Controls
    /\ screen = "list"
    /\ statusFilter' = s /\ page' = 0
    /\ UNCHANGED <<table, screen, search, includeArchived, sortKey, queries, mutation,
                   mutations, others, failures>>

\* the order changes, the page does not
SetSortKey(key) ==
    /\ "sort" \in Controls
    /\ screen = "list"
    /\ sortKey' = key
    /\ UNCHANGED <<table, screen, search, statusFilter, includeArchived, page, queries,
                   mutation, mutations, others, failures>>

SetIncludeArchived ==
    /\ "archived" \in Controls
    /\ screen = "list" /\ MayAct
    /\ includeArchived' = ~includeArchived /\ page' = 0
    /\ Mount(IF includeArchived THEN "active" ELSE "all")
    /\ UNCHANGED <<table, screen, search, statusFilter, sortKey, data, isError, unheard,
                   mutation, mutations, others, failures>>

PreviousPage ==
    /\ "pages" \in Controls
    /\ ShowsRows /\ ShowsPages /\ safePage # 0
    /\ page' = Larger(0, page - 1)
    /\ UNCHANGED <<table, screen, controls, queries, mutation, mutations, others, failures>>

NextPage ==
    /\ "pages" \in Controls
    /\ ShowsRows /\ ShowsPages /\ safePage < pageCount - 1
    /\ page' = Smaller(pageCount - 1, page + 1)
    /\ UNCHANGED <<table, screen, controls, queries, mutation, mutations, others, failures>>

\* The dashboard is opened, and the list again, with its controls reset.
GoDashboard ==
    /\ "dashboard" \in Controls
    /\ screen = "list" /\ MayAct
    /\ screen' = "dashboard"
    /\ search' = FALSE
    /\ Mount("jobs")
    /\ UNCHANGED <<table, statusFilter, includeArchived, sortKey, page, data, isError,
                   unheard, mutation, mutations, others, failures>>

GoList ==
    /\ screen = "dashboard" /\ MayAct
    /\ screen' = "list"
    /\ search' = FALSE /\ statusFilter' = "" /\ includeArchived' = FALSE /\ sortKey' = "date"
    /\ page' = 0
    /\ Mount("active")
    /\ UNCHANGED <<table, data, isError, unheard, mutation, mutations, others, failures>>

-----------------------------------------------------------------------------
(* The buttons of a row.                                                   *)

\* VARIANT of Click: every row has all three buttons.
ClickAnyRow(kind, j) ==
    /\ ~busy /\ MayAct
    /\ ShowsRows /\ j \in pageRows
    /\ mutations < MaxMutations
    /\ mutations' = mutations + 1
    /\ mutation' = [kind |-> kind, job |-> j, handled |-> FALSE, archived |-> FALSE]
    /\ UNCHANGED <<table, screen, controls, page, queries, others, failures>>

\* The button is enabled when no mutation is pending.
Click(kind, j) ==
    /\ ~busy /\ MayAct
    /\ ShowsRows /\ j \in pageRows
    /\ data[Mounted][j].archived <=> kind # "archive"
    /\ mutations < MaxMutations
    /\ mutations' = mutations + 1
    /\ mutation' = [kind |-> kind, job |-> j, handled |-> FALSE, archived |-> FALSE]
    /\ UNCHANGED <<table, screen, controls, page, queries, others, failures>>

handleArchive(j) == Click("archive", j)
handleRestore(j) == Click("restore", j)
handlePurge(j) == Click("purge", j)

HandleMutation ==
    /\ busy /\ ~mutation.handled
    /\ mutation.job \in DOMAIN table
    /\ Change(mutation.kind, mutation.job)
    /\ mutation' = [mutation EXCEPT !.handled = TRUE,
                                   !.archived = table[mutation.job].archived]
    /\ UNCHANGED <<screen, controls, page, queries, mutations, others, failures>>

\* VARIANT of invalidate: only what has been fetched for the screen is refreshed.
invalidateNothing == UNCHANGED <<fetch, stale>>

\* invalidate: the prefix ["jobs"] matches the three keys; what is observed is fetched
\* again, but for a first fetch under way, the rest is marked
invalidate ==
    /\ stale' = stale \cup {key \in Keys : data[key] # NoData}
    /\ fetch' = IF data[Mounted] # NoData \/ fetch[Mounted] = Idle
                THEN [fetch EXCEPT ![Mounted] = Asked] ELSE fetch

MutationDone ==
    /\ busy /\ mutation.handled
    /\ mutation' = NoMutation
    /\ invalidate
    /\ UNCHANGED <<table, screen, controls, page, data, isError, unheard, mutations, others,
                   failures>>

\* A job that is gone answers 404.  No mutation handles an error: the list stays as it is.
MutationRefused ==
    /\ busy /\ ~mutation.handled
    /\ mutation.job \notin DOMAIN table
    /\ mutation' = NoMutation
    /\ UNCHANGED <<table, screen, controls, page, queries, mutations, others, failures>>

\* The request or, after the change, its answer is lost: to the page the same error.
MutationFails ==
    /\ busy
    /\ failures < MaxFailures
    /\ failures' = failures + 1
    /\ mutation' = NoMutation
    /\ unheard' = IF mutation.handled THEN Keys ELSE unheard
    /\ UNCHANGED <<table, screen, controls, page, data, fetch, stale, isError, mutations,
                   others>>

\* The pipeline and, unless the user is alone, other users.
RunJob(j) ==
    /\ \/ table[j].status = "pending" /\ table' = [table EXCEPT ![j].status = "processing"]
       \/ /\ table[j].status = "processing"
          /\ \E s \in {"completed", "failed"} : table' = [table EXCEPT ![j].status = s]
    /\ UNCHANGED <<screen, controls, page, queries, mutation, mutations, others, failures>>

OtherUser(kind, j) ==
    /\ ~Patient
    /\ others < MaxOthers
    /\ others' = others + 1
    /\ Change(kind, j)
    /\ UNCHANGED <<screen, controls, page, queries, mutation, mutations, failures>>

Next ==
    \/ \E key \in Keys : AnswerList(key) \/ ReceiveList(key) \/ ListFails(key)
    \/ SetSearch \/ SetIncludeArchived
    \/ \E s \in {"", "completed", "failed"} : SetStatusFilter(s)
    \/ \E key \in {"date", "customer", "automation"} : SetSortKey(key)
    \/ PreviousPage \/ NextPage \/ GoDashboard \/ GoList
    \/ \E j \in Jobs : handleArchive(j) \/ handleRestore(j) \/ handlePurge(j)
    \/ HandleMutation \/ MutationDone \/ MutationRefused \/ MutationFails
    \/ \E j \in DOMAIN table : RunJob(j) \/ \E kind \in Kinds : OtherUser(kind, j)

Spec == Init /\ [][Next]_vars

-----------------------------------------------------------------------------
\* Types of the variables.
TypeOK ==
    /\ table \in Tables
    /\ screen \in {"list", "dashboard"}
    /\ search \in BOOLEAN /\ includeArchived \in BOOLEAN
    /\ statusFilter \in Statuses \cup {""}
    /\ sortKey \in {"date", "customer", "automation"}
    /\ page \in Nat
    /\ data \in [Keys -> Tables \cup {NoData}]
    /\ fetch \in [Keys -> Tables \cup {Idle, Asked}]
    /\ stale \subseteq Keys
    /\ isError \in [Keys -> BOOLEAN]
    /\ mutation \in Mutation \cup {NoMutation}
    /\ unheard \subseteq Keys
    /\ mutations \in 0..MaxMutations /\ others \in 0..MaxOthers /\ failures \in 0..MaxFailures

\* A list that is not empty never shows an empty page, even when jobs disappear
\* from under the last page, and its pages hold every job of the filter once.
PagesHoldTheList ==
    ShowsRows =>
        /\ pageRows # {}
        /\ \A j \in filtered :
              \E p \in 0..(pageCount - 1) :
                  j \in Rows(p) /\ \A q \in 0..(pageCount - 1) : j \in Rows(q) => q = p

\* After his own change and the answer to the refetch, the list of a patient user who
\* is alone shows the jobs that exist, and which of them are archived, whatever was
\* cached under another key meanwhile.  Only a change whose answer was lost leaves a
\* list as it was, without an error, until that list is fetched again.
ListIsCurrent ==
    Patient /\ Settled /\ data[Mounted] # NoData /\ ~isError[Mounted] /\ Mounted \notin unheard =>
        /\ DOMAIN data[Mounted] = DOMAIN listJobs(Mounted)
        /\ \A j \in DOMAIN data[Mounted] : data[Mounted][j].archived = table[j].archived

\* Of two irreversible clicks one is a safeguard: the purge of a patient user who is
\* alone meets a job that is archived at that moment, unless the answer to a change
\* before was lost and the list he clicks on still shows the job as it was.
PurgedWasArchived ==
    busy /\ mutation.handled /\ mutation.kind = "purge" /\ Mounted \notin unheard =>
        mutation.archived

\* The settled dashboard of such a user counts every job of the server that is not
\* archived once, and lists the newest of them.
DashboardIsCurrent ==
    LET jobs == DOMAIN listJobs("jobs") IN
    /\ Patient /\ Settled /\ screen = "dashboard"
    /\ data["jobs"] # NoData /\ ~isError["jobs"] /\ "jobs" \notin unheard
    =>
    /\ buildKpis.open + buildKpis.finished + buildKpis.failed = Cardinality(jobs)
    /\ ~search =>
          filteredFiles =
              {j \in jobs : Cardinality({i \in jobs : NewerFirst(i, j)}) < RECENT}
=============================================================================
