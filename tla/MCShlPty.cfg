\* Two ptys in one bridge.  Two reads exhaust a dispatch, and one byte fills
\* a terminal, so that both limits are reached; the callback of one pty may
\* close, free, remove and add both.
CONSTANTS
    Pty = {p, q}
    Busy = p
    ReadLimit = 2
    InBufSize = 1
    TtyRoom = 1
    MaxIn <- BusyIn
    MaxOut <- BusyOut
    MaxRef <- BusyRef

SPECIFICATION FairSpec
CHECK_DEADLOCK FALSE

INVARIANTS
    EventsAlive
    NoEdgeIsLost
    OutputInOrder

PROPERTIES
    OutputFlushed
    BridgeSleeps
