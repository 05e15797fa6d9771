\* Two srun tasks run the shared-filesystem check on one node; each may take
\* its file name in either of two seconds.  All tasks end, so a state with
\* no successor is not a deadlock.
CONSTANTS
    t1 = t1
    t2 = t2
    NoFile = NoFile
    Tasks <- TwoTasks
    Seconds <- TwoSeconds

SPECIFICATION FsSpec

CHECK_DEADLOCK FALSE

INVARIANT FsCheckSound
