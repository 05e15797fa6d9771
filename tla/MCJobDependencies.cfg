\* One node, i.e. /tmp shared by every job and by main(), as the spec
\* assumes; leftovers of an earlier run present or not; every way the
\* environment can end a job; three poll passes before the deadline.
CONSTANTS
    n1 = n1
    n2 = n2
    Nodes <- OneNode
    SubmitHost = n1
    NoJob = NoJob
    NoNode = NoNode
    Interrupts <- AllInterrupts
    Deadline = 3
    WriteMayFail = FALSE
    ConcurrentRun = FALSE

SPECIFICATION Spec

INVARIANT TypeOK
INVARIANT ChainOrder
INVARIANT PollSound
INVARIANT VerifiedLineage

PROPERTY Termination
PROPERTY ImplementsChain
