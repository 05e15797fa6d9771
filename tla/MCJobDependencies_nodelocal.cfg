\* Two nodes with their own /tmp (the code writes and reads /tmp/dep_test_*.txt): does a passing test still mean data flowed down the chain?
CONSTANTS
    n1 = n1
    n2 = n2
    Nodes <- TwoNodes
    SubmitHost = n1
    NoJob = NoJob
    NoNode = NoNode
    Interrupts <- NoInterrupts
    Deadline = 3
    WriteMayFail = FALSE
    ConcurrentRun = FALSE

SPECIFICATION Spec

INVARIANT VerifiedLineage
