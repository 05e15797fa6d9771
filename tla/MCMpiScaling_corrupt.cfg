\* Two ranks, a damaged echo in an early round: rank 0 returns at l. 78
\* while rank 1 still waits for the next round's message.
CONSTANTS
    N = 2
    Corrupt = TRUE
    AllreduceMayErr = FALSE
SPECIFICATION Spec
CHECK_DEADLOCK FALSE
PROPERTY Termination
