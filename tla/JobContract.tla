---------------------------- MODULE JobContract ----------------------------
(***************************************************************************)
(* What the job service promises a reviewer, with no queue, no worker and  *)
(* no server process: an uploaded job waits, runs, and settles as          *)
(* completed or failed; only a failed job runs again; a completed job      *)
(* stays downloadable until somebody purges it; a purged job never comes   *)
(* back.  JobLifecycle implements this specification.                      *)
(***************************************************************************)
EXTENDS Naturals

CONSTANT Jobs          \* job identifiers

VARIABLES
    state,             \* [Jobs -> States]
    downloadable       \* the jobs whose result can be downloaded

contractVars == <<state, downloadable>>

States == {"absent", "pending", "processing", "completed", "failed", "gone"}

ContractTypeOK ==
    /\ state \in [Jobs -> States]
    /\ downloadable \subseteq Jobs

ContractInit ==
    /\ state = [j \in Jobs |-> "absent"]
    /\ downloadable = {}

Move(j, from, to) ==
    /\ state[j] \in from
    /\ state' = [state EXCEPT ![j] = to]

Accept(j) ==
    /\ Move(j, {"absent"}, "pending")
    /\ UNCHANGED downloadable

\* The upload was saved but never recorded as a job.
Drop(j) ==
    /\ Move(j, {"absent"}, "gone")
    /\ UNCHANGED downloadable

Start(j) ==
    /\ Move(j, {"pending"}, "processing")
    /\ UNCHANGED downloadable

Complete(j) ==
    /\ Move(j, {"processing"}, "completed")
    /\ downloadable' = downloadable \cup {j}

GiveUp(j) ==
    /\ Move(j, {"pending", "processing"}, "failed")
    /\ UNCHANGED downloadable

TryAgain(j) ==
    /\ Move(j, {"failed"}, "pending")
    /\ UNCHANGED downloadable

Remove(j) ==
    /\ Move(j, {"pending", "processing", "completed", "failed"}, "gone")
    /\ downloadable' = downloadable \ {j}

\* A restart of the server fails everything that was in flight, and nothing else.
FailInFlight ==
    /\ state' = [j \in Jobs |-> IF state[j] \in {"pending", "processing"}
                                THEN "failed" ELSE state[j]]
    /\ UNCHANGED downloadable

ContractNext ==
    \/ \E j \in Jobs : \/ Accept(j) \/ Drop(j) \/ Start(j) \/ Complete(j)
                       \/ GiveUp(j) \/ TryAgain(j) \/ Remove(j)
    \/ FailInFlight

Contract == ContractInit /\ [][ContractNext]_contractVars
=============================================================================
