--------------------------- MODULE SlurmScheduler ---------------------------
(***************************************************************************)
(* The external batch scheduler (SLURM) as the ClusterOS SLURM tests see   *)
(* it through sbatch, squeue and sacct.  This is the environment of the    *)
(* dependency-chain test: it is not code of the repository, and only the   *)
(* behaviour the test relies on is kept:                                   *)
(*   - a job submitted with --dependency=afterok:<id> stays PENDING until  *)
(*     job <id> is COMPLETED (and forever if <id> ends in any other way);  *)
(*   - a job may be ended from outside (node failure, scancel, time limit) *)
(*     at any moment;                                                      *)
(*   - squeue keeps listing an ended job until the controller purges it;   *)
(*   - the accounting database (sacct) lags behind the controller.         *)
(* The job script itself (what a RUNNING job does and its exit code) is    *)
(* supplied by the module that uses this one.                              *)
(***************************************************************************)
EXTENDS Naturals

CONSTANTS Jobs,         \* the jobs a run may submit
          Nodes,        \* compute nodes a job may be placed on
          NoJob,        \* "no dependency"
          NoNode,       \* "not placed yet"
          Interrupts    \* end states the environment may impose on a job

\* Terminal SLURM job states.  TIMEOUT stands for every terminal state
\* other than COMPLETED, FAILED and CANCELLED (TIMEOUT, NODE_FAIL,
\* OUT_OF_MEMORY, PREEMPTED, BOOT_FAIL, DEADLINE).
EndStates == {"COMPLETED", "FAILED", "CANCELLED", "TIMEOUT"}
JobStates == {"none", "PENDING", "RUNNING"} \cup EndStates

ASSUME /\ NoJob \notin Jobs
       /\ NoNode \notin Nodes
       /\ Nodes # {}
       /\ Interrupts \subseteq {"FAILED", "CANCELLED", "TIMEOUT"}

VARIABLES jstate,   \* controller's state of each job ("none": not submitted)
          dep,      \* the afterok dependency the job was submitted with
          jnode,    \* node the job was started on
          inQueue,  \* job still listed by "squeue -h -j <id>"
          acct      \* state recorded by accounting ("none": no record yet)

schedVars == <<jstate, dep, jnode, inQueue, acct>>

SchedTypeOK ==
    /\ jstate \in [Jobs -> JobStates]
    /\ dep \in [Jobs -> Jobs \cup {NoJob}]
    /\ jnode \in [Jobs -> Nodes \cup {NoNode}]
    /\ inQueue \in [Jobs -> BOOLEAN]
    /\ acct \in [Jobs -> JobStates]

SchedInit ==
    /\ jstate = [j \in Jobs |-> "none"]
    /\ dep = [j \in Jobs |-> NoJob]
    /\ jnode = [j \in Jobs |-> NoNode]
    /\ inQueue = [j \in Jobs |-> FALSE]
    /\ acct = [j \in Jobs |-> "none"]

\* sbatch accepted job j whose script declares dependency d.
Enqueue(j, d) ==
    /\ jstate' = [jstate EXCEPT ![j] = "PENDING"]
    /\ dep' = [dep EXCEPT ![j] = d]
    /\ inQueue' = [inQueue EXCEPT ![j] = TRUE]
    /\ UNCHANGED <<jnode, acct>>

\* afterok: the dependency is satisfied only by a COMPLETED job.
DepSatisfied(j) == \A d \in {dep[j]} \ {NoJob} : jstate[d] = "COMPLETED"

\* The controller allocates node n to a pending job whose dependency holds.
Start(j, n) ==
    /\ jstate[j] = "PENDING"
    /\ DepSatisfied(j)
    /\ jstate' = [jstate EXCEPT ![j] = "RUNNING"]
    /\ jnode' = [jnode EXCEPT ![j] = n]
    /\ UNCHANGED <<dep, inQueue, acct>>

\* The batch script returned: exit 0 is COMPLETED, anything else FAILED.
Finish(j, code) ==
    /\ jstate[j] = "RUNNING"
    /\ jstate' = [jstate EXCEPT ![j] = IF code = 0 THEN "COMPLETED" ELSE "FAILED"]
    /\ UNCHANGED <<dep, jnode, inQueue, acct>>

\* The job is ended from outside: a running job by node failure, time
\* limit or scancel; a pending job only by scancel.
Interrupt(j, s) ==
    /\ s \in Interrupts
    /\ \/ jstate[j] = "RUNNING"
       \/ jstate[j] = "PENDING" /\ s = "CANCELLED"
    /\ jstate' = [jstate EXCEPT ![j] = s]
    /\ UNCHANGED <<dep, jnode, inQueue, acct>>

\* After MinJobAge the controller forgets an ended job: squeue stops
\* listing it and only sacct still knows it.
Purge(j) ==
    /\ jstate[j] \in EndStates
    /\ inQueue[j]
    /\ inQueue' = [inQueue EXCEPT ![j] = FALSE]
    /\ UNCHANGED <<jstate, dep, jnode, acct>>

\* The accounting database catches up with the controller.
SyncAcct(j) ==
    /\ jstate[j] # "none"
    /\ acct[j] # jstate[j]
    /\ acct' = [acct EXCEPT ![j] = jstate[j]]
    /\ UNCHANGED <<jstate, dep, jnode, inQueue>>

=============================================================================
