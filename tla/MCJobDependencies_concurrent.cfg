\* One shared /tmp and a second run of the test on the submit host, which
\* may rewrite /tmp/jobN.sh between this run's write and its sbatch.
CONSTANTS
    n1 = n1
    n2 = n2
    Nodes <- OneNode
    SubmitHost = n1
    NoJob = NoJob
    NoNode = NoNode
    Interrupts <- NoInterrupts
    Deadline = 3
    WriteMayFail = FALSE
    ConcurrentRun = TRUE

SPECIFICATION Spec

INVARIANT ChainOrder
