------------------------------ MODULE JobChain ------------------------------
(***************************************************************************)
(* What an orchestration run of a linear dependency chain promises, after  *)
(* the spec (Data Model; Submission Coordinator, Status Poller and         *)
(* Ordering guarantees): jobs are submitted in chain order; a job runs     *)
(* only after its predecessor Succeeded; a job's status only moves         *)
(* forward and a terminal status is final; once the run has ended nothing  *)
(* more is submitted (fail-fast abort); the run passes only when every job *)
(* Succeeded.  Queued is folded into Submitted, and Cancelled and TimedOut *)
(* into Failed.                                                            *)
(***************************************************************************)
EXTENDS Naturals

CONSTANT Jobs        \* 1..K, job k+1 depends on job k

VARIABLES status,    \* status of each JobNode
          verdict    \* "none" while the run goes on, then "pass" or "fail"

Statuses == {"Pending", "Submitted", "Running", "Succeeded", "Failed"}

ChainInit ==
    /\ status = [j \in Jobs |-> "Pending"]
    /\ verdict = "none"

\* The scheduler accepts job j; the run submits in chain order.  The run
\* may end in the same step, when the submitter never learns the id.
SubmitJob(j) ==
    /\ verdict = "none"
    /\ status[j] = "Pending"
    /\ \A i \in Jobs : i < j => status[i] # "Pending"
    /\ status' = [status EXCEPT ![j] = "Submitted"]
    /\ verdict' \in {"none", "fail"}

\* Job j starts only once its predecessor Succeeded.
RunJob(j) ==
    /\ status[j] = "Submitted"
    /\ \A i \in Jobs : i = j - 1 => status[i] = "Succeeded"
    /\ status' = [status EXCEPT ![j] = "Running"]
    /\ UNCHANGED verdict

SucceedJob(j) ==
    /\ status[j] = "Running"
    /\ status' = [status EXCEPT ![j] = "Succeeded"]
    /\ UNCHANGED verdict

\* A running job fails, or a queued or running one is cancelled.
FailJob(j) ==
    /\ status[j] \in {"Submitted", "Running"}
    /\ status' = [status EXCEPT ![j] = "Failed"]
    /\ UNCHANGED verdict

\* The run ends failed: a rejected submission, a failed job, the deadline.
Abort ==
    /\ verdict = "none"
    /\ verdict' = "fail"
    /\ UNCHANGED status

\* The run ends passed only when every job Succeeded.
Pass ==
    /\ verdict = "none"
    /\ \A j \in Jobs : status[j] = "Succeeded"
    /\ verdict' = "pass"
    /\ UNCHANGED status

ChainNext ==
    \/ \E j \in Jobs : SubmitJob(j) \/ RunJob(j) \/ SucceedJob(j) \/ FailJob(j)
    \/ Abort
    \/ Pass

ChainSpec == ChainInit /\ [][ChainNext]_<<status, verdict>>

=============================================================================
