--------------------------- MODULE JobDependencies ---------------------------
(***************************************************************************)
(* src/test/slurm/test_job_dependencies.py: main() submits a chain of      *)
(* three batch jobs, job k+1 carrying --dependency=afterok:<id of job k>,  *)
(* polls squeue/sacct until every job has left the queue or 300 s have     *)
(* passed, and then checks the three files the jobs write under /tmp.      *)
(*                                                                         *)
(* The program is one sequential process (pc); it runs interleaved with    *)
(* the scheduler of SlurmScheduler and with the job scripts, which execute *)
(* on the compute node the scheduler picked and touch that node's /tmp.    *)
(***************************************************************************)
EXTENDS Integers, Sequences

CONSTANTS Nodes,         \* compute nodes; /tmp is local to each of them
          SubmitHost,    \* node main() runs on and reads /tmp of
          NoJob, NoNode,
          Interrupts,    \* end states the environment may impose on a job
          Deadline,      \* poll passes that fit in max_wait_time = 300 s
          WriteMayFail,  \* whether "echo ... > /tmp/..." may fail
          ConcurrentRun  \* another run of the test shares the submit host

Jobs == 1..3

ASSUME /\ SubmitHost \in Nodes
       /\ Deadline \in Nat \ {0}
       /\ WriteMayFail \in BOOLEAN
       /\ ConcurrentRun \in BOOLEAN

VARIABLES jstate, dep, jnode, inQueue, acct

S == INSTANCE SlurmScheduler

\* The files the chain passes along, each read from one node's /tmp.
Files == {"data", "processed", "final"}     \* /tmp/dep_test_{data,processed,final}.txt

\* Content of a file abstracted to what the checks tell apart: whether it
\* exists, whether this run wrote it, and whether every file it was derived
\* from was written by this run ("lineage").  The text is always the one
\* verify_results() looks for: leftovers of an earlier run carry it too.
Content == [present : BOOLEAN, thisRun : BOOLEAN, lineage : BOOLEAN]
Absent == [present |-> FALSE, thisRun |-> FALSE, lineage |-> FALSE]
Leftover == [present |-> TRUE, thisRun |-> FALSE, lineage |-> FALSE]

\* Fault-injected variant of Output: job 1's redirection names the
\* processed file instead of the data file.
OutputTypo == <<"processed", "processed", "final">>

\* What job j's script reads and writes.
Output == <<"data", "processed", "final">>
Input == <<"none", "data", "processed">>

PCs == {"submit", "loop", "query", "endpass", "report", "verify", "done"}

VARIABLES fs,          \* fs[n][f]: file f in /tmp of node n
          exitCode,    \* exit status of job j's script, -1 while not returned
          pc,          \* control point of main()
          sub,         \* next job submit_dependent_jobs() submits
          clock,       \* sleeps taken by wait_for_jobs()
          pollIdx,     \* job the current poll pass queries next
          allCompleted,\* all_completed of the current pass
          completed,   \* completed_jobs of the current pass
          failed,      \* failed_jobs of the current pass
          result,      \* main()'s verdict
          seenEnded    \* history: jobs the current pass saw gone from squeue
                       \* with an ended accounting record

progVars == <<pc, sub, clock, pollIdx, allCompleted, completed, failed, result, seenEnded>>
vars == <<jstate, dep, jnode, inQueue, acct, fs, exitCode, progVars>>

TypeOK ==
    /\ S!SchedTypeOK
    /\ fs \in [Nodes -> [Files -> Content]]
    /\ exitCode \in [Jobs -> {-1, 0, 1}]
    /\ pc \in PCs
    /\ sub \in 1..4
    /\ clock \in 0..Deadline
    /\ pollIdx \in 1..4
    /\ allCompleted \in BOOLEAN
    /\ completed \in Seq(Jobs)
    /\ failed \in Seq(Jobs)
    /\ result \in {"none", "pass", "fail"}
    /\ seenEnded \subseteq Jobs

\* /tmp may hold the files of an earlier run of the test on any node.
Init ==
    /\ S!SchedInit
    /\ fs \in [Nodes -> [Files -> {Absent, Leftover}]]
    /\ exitCode = [j \in Jobs |-> -1]
    /\ pc = "submit"
    /\ sub = 1
    /\ clock = 0
    /\ pollIdx = 1
    /\ allCompleted = TRUE
    /\ completed = <<>>
    /\ failed = <<>>
    /\ result = "none"
    /\ seenEnded = {}

-----------------------------------------------------------------------------
(* The job scripts (the three f-strings of submit_dependent_jobs).         *)

WriteOutcomes == IF WriteMayFail THEN BOOLEAN ELSE {TRUE}

\* Job j runs on node n: it reads its input (job 1 has none), exits 1 if
\* the input file is missing, and otherwise writes its output.  A failed
\* redirection leaves the file as it was and does not change the exit
\* status, which is that of the last echo.
ExecScript(j) ==
    LET n == jnode[j]
        in == IF Input[j] = "none" THEN Absent ELSE fs[n][Input[j]]
        ok == Input[j] = "none" \/ in.present
        new == [present |-> TRUE, thisRun |-> TRUE,
                lineage |-> Input[j] = "none" \/ in.lineage]
    IN /\ jstate[j] = "RUNNING"
       /\ exitCode[j] = -1
       /\ exitCode' = [exitCode EXCEPT ![j] = IF ok THEN 0 ELSE 1]
       /\ \E written \in WriteOutcomes :
            fs' = IF ok /\ written
                  THEN [fs EXCEPT ![n][Output[j]] = new]
                  ELSE fs
       /\ UNCHANGED <<jstate, dep, jnode, inQueue, acct, progVars>>

\* The batch script has returned; the controller records its exit status.
JobExit(j) ==
    /\ exitCode[j] # -1
    /\ S!Finish(j, exitCode[j])
    /\ UNCHANGED <<fs, exitCode, progVars>>

Scheduler ==
    /\ \/ \E j \in Jobs, n \in Nodes : S!Start(j, n)
       \/ \E j \in Jobs, s \in Interrupts : S!Interrupt(j, s)
       \/ \E j \in Jobs : S!Purge(j)
       \/ \E j \in Jobs : S!SyncAcct(j)
    /\ UNCHANGED <<fs, exitCode, progVars>>

-----------------------------------------------------------------------------
(* main() and the functions it calls.                                       *)

\* The dependency job i's script declares once its template is rendered:
\* job2_script.replace('$JOB1_ID', job1_id), job3_script.replace('$JOB2_ID',
\* job2_id); job 1 has none.
(* Fault-injected variants of the definitions that follow, each a        *)
(* plausible slip in the code; every property checked by a passing run is  *)
(* violated by one of them.                                                *)
RenderDepFirstId(i) == IF i = 1 THEN NoJob ELSE 1   \* job3 bound to job1_id
TimeLeftOrEqual == clock <= Deadline               \* "<=" for "<"
NewPassKeepLists ==                                \* lists not reset per pass
    allCompleted' = TRUE /\ UNCHANGED <<completed, failed>>
SleepNoTime == UNCHANGED clock                     \* start_time reset per pass

RenderDep(i) == IF i = 1 THEN NoJob ELSE i - 1

\* The afterok dependency in the script sbatch reads from /tmp/jobi.sh:
\* what this run wrote there, or, when another run of the test on the same
\* host has rewritten the file since, that run's script, whose afterok line
\* names a job outside this chain that may already have completed.
ScriptDeps(i) == IF ConcurrentRun THEN {RenderDep(i), NoJob} ELSE {RenderDep(i)}

\* submit_dependent_jobs() writes job i's script to /tmp/jobi.sh and runs
\* run_command("sbatch /tmp/jobi.sh"): the controller accepts the job and
\* the id is parsed from the reply; or it rejects it; or it accepts it but
\* no usable id comes back (the reply misses the 60 s timeout of
\* run_command, or output.split()[-1] finds no id).  Without an id main()
\* ends with 1 at once.
Submit ==
    LET i == sub IN
    /\ pc = "submit"
    /\ \E d \in ScriptDeps(i) :
          \/ /\ S!Enqueue(i, d)
             /\ sub' = i + 1
             /\ pc' = IF i = 3 THEN "loop" ELSE "submit"
             /\ UNCHANGED result
          \/ /\ UNCHANGED <<jstate, dep, jnode, inQueue, acct, sub>>
             /\ pc' = "done"
             /\ result' = "fail"
          \/ /\ S!Enqueue(i, d)
             /\ UNCHANGED sub
             /\ pc' = "done"
             /\ result' = "fail"
    /\ UNCHANGED <<fs, exitCode, clock, pollIdx, allCompleted, completed, failed, seenEnded>>

\* Head of the while loop of wait_for_jobs(): a new pass starts with fresh
\* all_completed, completed_jobs and failed_jobs while time remains.
TimeLeft == clock < Deadline

NewPass == allCompleted' = TRUE /\ completed' = <<>> /\ failed' = <<>>

LoopHead ==
    /\ pc = "loop"
    /\ IF TimeLeft
       THEN /\ pc' = "query"
            /\ pollIdx' = 1
            /\ NewPass
            /\ seenEnded' = {}
       ELSE /\ pc' = "report"
            /\ UNCHANGED <<pollIdx, allCompleted, completed, failed, seenEnded>>
    /\ UNCHANGED <<jstate, dep, jnode, inQueue, acct, fs, exitCode, sub, clock, result>>

\* How the loop reads the first line of sacct's State column.
SacctVerdict(state) ==
    CASE state = "COMPLETED" -> "completed"
      [] state \in {"FAILED", "CANCELLED"} -> "failed"
      [] OTHER -> "other"

\* One job of a pass: squeue first; only a job squeue no longer lists is
\* looked up in sacct.  No accounting record, or a state other than
\* COMPLETED, FAILED or CANCELLED, counts as not done.
Query ==
    LET j == pollIdx
        v == SacctVerdict(acct[j])
    IN
    /\ pc = "query"
    /\ IF inQueue[j] \/ acct[j] = "none" \/ v = "other"
       THEN /\ allCompleted' = FALSE
            /\ UNCHANGED <<completed, failed>>
       ELSE /\ completed' = IF v = "completed" THEN Append(completed, j) ELSE completed
            /\ failed' = IF v = "failed" THEN Append(failed, j) ELSE failed
            /\ UNCHANGED allCompleted
    /\ seenEnded' = IF ~inQueue[j] /\ acct[j] \in S!EndStates
                     THEN seenEnded \cup {j} ELSE seenEnded
    /\ pollIdx' = j + 1
    /\ pc' = IF j = 3 THEN "endpass" ELSE "query"
    /\ UNCHANGED <<jstate, dep, jnode, inQueue, acct, fs, exitCode, sub, clock, result>>

\* time.sleep(5): the clock of the deadline advances.
Sleep == clock' = clock + 1

\* End of a pass: break when every job was done, else sleep.
EndPass ==
    /\ pc = "endpass"
    /\ IF allCompleted
       THEN pc' = "report" /\ UNCHANGED clock
       ELSE pc' = "loop" /\ Sleep
    /\ UNCHANGED <<jstate, dep, jnode, inQueue, acct, fs, exitCode, sub,
                   pollIdx, allCompleted, completed, failed, result, seenEnded>>

\* Fault-injected variant of Report: "and" for "or" in main()'s check.
ReportOr ==
    /\ pc = "report"
    /\ IF Len(completed) = 3 \/ failed = <<>>
       THEN pc' = "verify" /\ UNCHANGED result
       ELSE pc' = "done" /\ result' = "fail"
    /\ UNCHANGED <<jstate, dep, jnode, inQueue, acct, fs, exitCode, sub, clock,
                   pollIdx, allCompleted, completed, failed, seenEnded>>

\* main(): "if len(completed) != 3 or failed: return 1".
Report ==
    /\ pc = "report"
    /\ IF Len(completed) = 3 /\ failed = <<>>
       THEN pc' = "verify" /\ UNCHANGED result
       ELSE pc' = "done" /\ result' = "fail"
    /\ UNCHANGED <<jstate, dep, jnode, inQueue, acct, fs, exitCode, sub, clock,
                   pollIdx, allCompleted, completed, failed, seenEnded>>

\* verify_results() on the submit host: every file must exist and hold
\* its expected text; the text of a present file always matches.
Verify ==
    /\ pc = "verify"
    /\ pc' = "done"
    /\ result' = IF \A f \in Files : fs[SubmitHost][f].present THEN "pass" ELSE "fail"
    /\ UNCHANGED <<jstate, dep, jnode, inQueue, acct, fs, exitCode, sub, clock,
                   pollIdx, allCompleted, completed, failed, seenEnded>>

\* sys.exit(main()): the program has ended; the cluster keeps going.
Exited ==
    /\ pc = "done"
    /\ UNCHANGED vars

Program == Submit \/ LoopHead \/ Query \/ EndPass \/ Report \/ Verify

Next ==
    \/ Program
    \/ \E j \in Jobs : ExecScript(j)
    \/ \E j \in Jobs : JobExit(j)
    \/ Scheduler
    \/ Exited

\* main() is a single process that is never blocked: it keeps taking
\* steps.  The scheduler and the jobs get no fairness: a job may stay
\* pending or running for ever, which is what the deadline is for.
Spec == Init /\ [][Next]_vars /\ WF_vars(Program)

-----------------------------------------------------------------------------
(* Properties.                                                              *)

\* The test's closing claim "All dependent jobs executed in correct
\* order": the scheduler starts job k+1 only after job k COMPLETED, which
\* rests on submit_dependent_jobs() rendering job k's id into job k+1's
\* afterok directive.
ChainOrder ==
    \A j \in 2..3 : jnode[j] # NoNode => jstate[j - 1] = "COMPLETED"

\* wait_for_jobs() and main()'s check together let the run reach
\* verify_results() only if every job of the chain really COMPLETED, even
\* though squeue and sacct are read job by job while jobs keep changing.
PollSound ==
    pc = "verify" => \A j \in Jobs : jstate[j] = "COMPLETED"

\* When main() reports success, every file verify_results() accepted was
\* written by this run's job from its predecessor's output of this run:
\* data really flowed down the chain (spec, Lineage Verifier).
VerifiedLineage ==
    result = "pass" => \A f \in Files : fs[SubmitHost][f].lineage

\* main() always returns: the 300 s deadline bounds the poll loop even
\* when a job stays pending for ever behind a failed dependency.
Termination == <>(pc = "done")

AbsStatus ==
    [j \in Jobs |->
        CASE jstate[j] = "none"      -> "Pending"
          [] jstate[j] = "PENDING"   -> "Submitted"
          [] jstate[j] = "RUNNING"   -> "Running"
          [] jstate[j] = "COMPLETED" -> "Succeeded"
          [] OTHER                   -> "Failed"]

Chain == INSTANCE JobChain WITH status <- AbsStatus, verdict <- result

\* test_job_dependencies.py implements the chain's abstract specification:
\* it submits in order and never after it has ended, its jobs run only
\* after their predecessor succeeded, and it passes only when every job
\* succeeded.
ImplementsChain == Chain!ChainSpec

\* When main() returns, no job it submitted is still pending or running:
\* the spec has the run cancel what it leaves behind (Scheduler Adapter:
\* cancel on fatal error or timeout cleanup).
NoOrphanJobs ==
    pc = "done" => \A j \in Jobs : jstate[j] \in {"none"} \cup S!EndStates

=============================================================================
