\* Four ranks run both MPI tests; the Allreduce of the scaling test may
\* give any ranks a wrong sum, messages arrive intact.  Both programs end, so a
\* state with no successor is only checked through the Termination
\* properties.
CONSTANTS
    N = 4
    Corrupt = FALSE
    AllreduceMayErr = TRUE
SPECIFICATION MpiSpec
CHECK_DEADLOCK FALSE
INVARIANT TypeOK
INVARIANT ReportSound
PROPERTY Termination
PROPERTY BasicTermination
