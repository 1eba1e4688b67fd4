SPECIFICATION Spec
CONSTANTS
    BITS = 2
    Requests <- MCRequests
    Areas <- MCAreas
    BlobEnd = 8
    Faults <- MCFaults
    CHKMEM_MAXERR = 8
    Pattern <- MCPattern
    Q <- MCQ
INVARIANT VerdictTrue
PROPERTY CommandsAsHelped
