\* A child that writes more than one dispatch reads.
CONSTANTS
    Pty = {p}
    Busy = p
    ReadLimit = 2
    InBufSize = 1
    TtyRoom = 1
    MaxIn <- BusyIn
    MaxOut <- BusyOut
    MaxRef <- BusyRef

SPECIFICATION FairSpec
CHECK_DEADLOCK FALSE

PROPERTY
    InputDelivered
