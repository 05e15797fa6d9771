\* Does main() ever return leaving a job it submitted pending or running in the scheduler?
CONSTANTS
    n1 = n1
    n2 = n2
    Nodes <- OneNode
    SubmitHost = n1
    NoJob = NoJob
    NoNode = NoNode
    Interrupts <- AllInterrupts
    Deadline = 3
    WriteMayFail = FALSE
    ConcurrentRun = FALSE

SPECIFICATION Spec

INVARIANT NoOrphanJobs
