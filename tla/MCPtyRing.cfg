\* Sizes 1 to 8: the buffer is grown several times, and pushes of up to
\* three bytes wrap around the end of the larger ones.
CONSTANTS
    Byte = {a, b}
    Undef = undef
    SizeMax = 31
    DefaultSize = 4
    MaxAlloc = 8
    MaxPush = 3

SPECIFICATION Spec

INVARIANTS
    TypeOK
    BufferValid
    PeekExact

PROPERTIES
    RefinesQueue
    OperationsExact
