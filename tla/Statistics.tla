----------------------------- MODULE Statistics ------------------------------
(***************************************************************************)
(* The statistics page (statistik/page.tsx) over the aggregates of         *)
(* stats.py: four queries, each answered from the job table and the        *)
(* corrections log of its own moment, and each loading or failing on its   *)
(* own.  Shares and percentages are functions of the counts and left out.  *)
(***************************************************************************)
EXTENDS FiniteSetsExt, Functions

CONSTANTS
    Jobs,
    Customer,        \* of every job, NoCustomer without
    Month,           \* in which a job was created
    NoCustomer, Unbekannt,   \* "" and the name the tables give it
    NoData,
    MaxCorrections,  \* bound: entries of the log for a job
    MaxChanges,      \* bound: changes of jobs while the page is open
    MaxFailures      \* bound: queries that fail for good

StatisticsAssumption ==
    /\ IsFiniteSet(Jobs)
    /\ DOMAIN Customer = Jobs /\ DOMAIN Month = Jobs
    /\ NoCustomer # Unbekannt
    /\ MaxCorrections \in Nat /\ MaxChanges \in Nat /\ MaxFailures \in Nat

VARIABLES
    done,            \* the jobs with status "completed"
    archived,        \* the jobs that are archived
    log,             \* corrections of every job in the log
    loaded, data,    \* the queries that have data, and their data
    fetch,           \* of every query: "idle", "asked" or "answered"
    answer,          \* the aggregate that is on its way
    failed,          \* queries in state error
    \* bookkeeping of the model
    always,          \* jobs completed and not archived all the time
    changes, failures

server == <<done, archived, log, always>>
queries == <<loaded, data, fetch, answer, failed>>
vars == <<server, queries, changes, failures>>

Queries == {"overview", "timeseries", "customers", "corrections"}

-----------------------------------------------------------------------------
(* The aggregates.                                                         *)

\* what list_summaries lists
Listed == Jobs \ archived

\* _completed
Completed == done \cap Listed

Corrections(jobs) == FoldFunctionOnSet(+, 0, log, jobs)

\* customer or "Unbekannt"
NameOf(customer) == IF customer = NoCustomer THEN Unbekannt ELSE customer

overview ==
    [total |-> Cardinality(Listed), completed |-> Cardinality(Completed),
     corrections |-> Corrections(Jobs)]

\* the jobs of every period there is one of
timeseries ==
    [month \in {Month[j] : j \in Completed} |->
        Cardinality({j \in Completed : Month[j] = month})]

\* _feedback.stats, by the customer the log names
stats(customer) == Corrections({j \in Jobs : Customer[j] = customer})

\* VARIANT of CustomerRows: jobs without a customer are left out.
NamedCustomerRows == {Customer[j] : j \in Completed} \ {NoCustomer}

CustomerRows == {NameOf(Customer[j]) : j \in Completed}

by_customer ==
    [name \in CustomerRows |->
        [jobs |-> Cardinality({j \in Completed : NameOf(Customer[j]) = name}),
         corrections |-> stats(name)]]

corrections == Corrections(Jobs)

Aggregate(query) ==
    CASE query = "overview" -> overview
      [] query = "timeseries" -> timeseries
      [] query = "customers" -> by_customer
      [] query = "corrections" -> corrections

-----------------------------------------------------------------------------
(* What the page shows.                                                    *)

isLoading(query) == query \notin loaded /\ query \notin failed

\* VARIANT of loading: the page waits for its headline only.
loadingHeadline == isLoading("overview")

\* the corrections are not waited for
loading == isLoading("overview") \/ isLoading("timeseries") \/ isLoading("customers")

ShowsError == ~loading /\ failed # {}
ShowsCharts == ~loading /\ failed = {}

-----------------------------------------------------------------------------
Init ==
    /\ done \in SUBSET Jobs
    /\ archived \in SUBSET done
    /\ log = [j \in Jobs |-> 0]
    /\ loaded = {} /\ data = [query \in Queries |-> NoData]
    /\ fetch = [query \in Queries |-> "asked"] /\ answer = [query \in Queries |-> NoData]
    /\ failed = {}
    /\ always = Completed
    /\ changes = 0 /\ failures = 0

\* A job is completed by its worker, archived or restored, or corrected.
JobChanges(j) ==
    /\ changes < MaxChanges /\ changes' = changes + 1
    /\ \/ j \notin done /\ done' = done \cup {j} /\ UNCHANGED <<archived, log>>
       \/ archived' = (archived \cup {j}) \ (archived \cap {j}) /\ UNCHANGED <<done, log>>
       \/ /\ j \in done /\ log[j] < MaxCorrections
          /\ log' = [log EXCEPT ![j] = @ + 1]
          /\ UNCHANGED <<done, archived>>
    /\ always' = always \cap Completed'
    /\ UNCHANGED <<queries, failures>>

AnswerQuery(query) ==
    /\ fetch[query] = "asked"
    /\ fetch' = [fetch EXCEPT ![query] = "answered"]
    /\ answer' = [answer EXCEPT ![query] = Aggregate(query)]
    /\ UNCHANGED <<server, loaded, data, failed, changes, failures>>

ReceiveQuery(query) ==
    /\ fetch[query] = "answered"
    /\ loaded' = loaded \cup {query}
    /\ data' = [data EXCEPT ![query] = answer[query]]
    /\ fetch' = [fetch EXCEPT ![query] = "idle"]
    /\ answer' = [answer EXCEPT ![query] = NoData]
    /\ failed' = failed \ {query}
    /\ UNCHANGED <<server, changes, failures>>

\* The last of the retries fails; data from before are kept.
QueryFails(query) ==
    /\ fetch[query] = "asked"
    /\ failures < MaxFailures
    /\ failures' = failures + 1
    /\ fetch' = [fetch EXCEPT ![query] = "idle"]
    /\ failed' = failed \cup {query}
    /\ UNCHANGED <<server, loaded, data, answer, changes>>

\* VARIANT of InvalidateStats: what was shown is thrown away.
ResetStats ==
    /\ \A query \in Queries : fetch[query] = "idle"
    /\ loaded' = {} /\ failed' = {}
    /\ UNCHANGED <<server, data, fetch, answer, changes, failures>>

\* The queries are stale or invalidated and the page is opened again.
InvalidateStats ==
    /\ \A query \in Queries : fetch[query] = "idle"
    /\ fetch' = [query \in Queries |-> "asked"]
    /\ failed' = failed \cap loaded
    /\ UNCHANGED <<server, loaded, data, answer, changes, failures>>

Next ==
    \/ \E j \in Jobs : JobChanges(j)
    \/ \E query \in Queries : AnswerQuery(query) \/ ReceiveQuery(query) \/ QueryFails(query)
    \/ InvalidateStats

Spec == Init /\ [][Next]_vars

\* Requests are answered or fail; nobody has to do anything else.
Fairness ==
    \A query \in Queries : WF_vars(AnswerQuery(query) \/ QueryFails(query) \/ ReceiveQuery(query))

FairSpec == Spec /\ Fairness

-----------------------------------------------------------------------------
\* Types of the variables; every query that is still loading is on its way.
TypeOK ==
    /\ done \subseteq Jobs /\ archived \subseteq Jobs /\ always \subseteq Completed
    /\ log \in [Jobs -> 0..MaxCorrections]
    /\ DOMAIN data = Queries /\ DOMAIN answer = Queries
    /\ fetch \in [Queries -> {"idle", "asked", "answered"}]
    /\ loaded \subseteq Queries /\ failed \subseteq Queries
    /\ \A query \in Queries : isLoading(query) => fetch[query] # "idle"
    /\ changes \in 0..MaxChanges /\ failures \in 0..MaxFailures

\* The three views of the same jobs add up: no completed job that is not archived
\* is missing from the months or from the customers, or counted twice.
AggregatesAgree ==
    /\ FoldFunction(+, 0, timeseries) = overview.completed
    /\ MapThenSumSet(LAMBDA name : by_customer[name].jobs, DOMAIN by_customer)
         = overview.completed

\* The four answers are of four moments, and some may be of an earlier visit; but when
\* the charts are shown, the months and the customers of all jobs that have been
\* completed all the time are in them: a chart is not empty over an answer that is
\* still missing.
ChartsMissNothing ==
    ShowsCharts =>
        \A j \in always :
            /\ "timeseries" \in loaded /\ Month[j] \in DOMAIN data["timeseries"]
            /\ "customers" \in loaded /\ NameOf(Customer[j]) \in DOMAIN data["customers"]

\* The page does not load for ever, whatever fails.
PageComesUp == []<>~loading
=============================================================================
