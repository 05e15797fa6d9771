---------------------------- MODULE SharedFsCheck ----------------------------
(***************************************************************************)
(* test_shared_filesystem() of test_multi_node.py, run by several tasks of *)
(* the suite on one node (the suite checks SLURM_PROCID and SLURM_NTASKS,  *)
(* so it is started by srun, one copy per task).  Each task names its file *)
(* /tmp/slurm_test_{hostname}_{int(time.time())}.txt: on one node the name *)
(* differs only by the second it was taken in, so a file is identified by  *)
(* that second.  A task's content names its task (it embeds datetime.now() *)
(* to the microsecond).  /tmp works: no write, ls or cat fails by itself.  *)
(***************************************************************************)
EXTENDS Naturals

CONSTANTS Tasks,    \* the suite's tasks on the node
          Seconds,  \* the values int(time.time()) can take while they run
          NoFile    \* no file of that name in /tmp

ASSUME NoFile \notin Tasks

VARIABLES fpc,       \* where each task is in the check
          name,      \* the second in the task's file name (0: not taken)
          tmp,       \* /tmp: the content of the file of each second
          fsResult   \* what the check returned to main() ("none" before)

fsVars == <<fpc, name, tmp, fsResult>>

TypeOK ==
    /\ fpc \in [Tasks -> {"name", "write", "ls", "cat", "remove", "done"}]
    /\ name \in [Tasks -> {0} \cup Seconds]
    /\ tmp \in [Seconds -> Tasks \cup {NoFile}]
    /\ fsResult \in [Tasks -> {"none", "pass", "fail"}]

Init ==
    /\ fpc = [t \in Tasks |-> "name"]
    /\ name = [t \in Tasks |-> 0]
    /\ tmp = [s \in Seconds |-> NoFile]
    /\ fsResult = [t \in Tasks |-> "none"]

\* The check returns ok to main(); a raised exception counts as failed.
Return(t, ok) ==
    /\ fpc' = [fpc EXCEPT ![t] = "done"]
    /\ fsResult' = [fsResult EXCEPT ![t] = IF ok THEN "pass" ELSE "fail"]

\* test_file is built from the hostname and the current second.
TakeName(t) ==
    /\ fpc[t] = "name"
    /\ \E s \in Seconds : name' = [name EXCEPT ![t] = s]
    /\ fpc' = [fpc EXCEPT ![t] = "write"]
    /\ UNCHANGED <<tmp, fsResult>>

\* open(test_file, 'w') and write(test_content): the file is replaced.
Write(t) ==
    /\ fpc[t] = "write"
    /\ tmp' = [tmp EXCEPT ![name[t]] = t]
    /\ fpc' = [fpc EXCEPT ![t] = "ls"]
    /\ UNCHANGED <<name, fsResult>>

\* ls -la test_file fails when there is no such file.
Ls(t) ==
    /\ fpc[t] = "ls"
    /\ IF tmp[name[t]] # NoFile
          THEN fpc' = [fpc EXCEPT ![t] = "cat"] /\ UNCHANGED fsResult
          ELSE Return(t, FALSE)
    /\ UNCHANGED <<name, tmp>>

\* cat test_file must print exactly this task's test_content.
Cat(t) ==
    /\ fpc[t] = "cat"
    /\ IF tmp[name[t]] = t
          THEN fpc' = [fpc EXCEPT ![t] = "remove"] /\ UNCHANGED fsResult
          ELSE Return(t, FALSE)
    /\ UNCHANGED <<name, tmp>>

\* os.remove(test_file) raises FileNotFoundError when the file is gone,
\* which main() reports as an ERROR of the check; otherwise it passes.
Remove(t) ==
    /\ fpc[t] = "remove"
    /\ Return(t, tmp[name[t]] # NoFile)
    /\ tmp' = [tmp EXCEPT ![name[t]] = NoFile]
    /\ UNCHANGED name

FsNext == \E t \in Tasks : TakeName(t) \/ Write(t) \/ Ls(t) \/ Cat(t) \/ Remove(t)

\* Each task is a process of its own that keeps running.
FsSpec == Init /\ [][FsNext]_fsVars /\ WF_fsVars(FsNext)

-----------------------------------------------------------------------------
(* Properties.                                                             *)

\* With a working /tmp the shared-filesystem check of every task passes:
\* no task of the suite fails it because another task on the same node
\* used the same file name ("Test file permissions and access").
FsCheckSound == \A t \in Tasks : fsResult[t] # "fail"

=============================================================================
