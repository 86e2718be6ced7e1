\* Callers with the standard files and any of four more descriptors open, so
\* that the new descriptors fall into gaps, and the table may be full; and
\* callers with standard files closed.
CONSTANTS
    MaxFd = 6
    CallerFds <- AnyCaller

SPECIFICATION Spec

CHECK_DEADLOCK FALSE

INVARIANTS
    ParentLeaksNothing
    HandshakeAgrees
    ChildFilesClean

PROPERTY
    ParentReturns
