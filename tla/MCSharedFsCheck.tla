--------------------------- MODULE MCSharedFsCheck ---------------------------
(* Two tasks of the suite on one node, started within two seconds. *)
EXTENDS SharedFsCheck

CONSTANTS t1, t2

TwoTasks == {t1, t2}
TwoSeconds == {1, 2}
=============================================================================
