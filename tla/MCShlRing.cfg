\* Sizes 2, 4 and 8: the buffer is grown twice, and pushes of up to three
\* bytes wrap around the end of each size.
CONSTANTS
    Byte = {a, b}
    Undef = undef
    SizeMax = 31
    DefaultSize = 2
    MaxAlloc = 8
    MaxPush = 3
    AlignOverflow = 1

SPECIFICATION Spec

INVARIANTS
    TypeOK
    BufferValid
    ReadsExact

PROPERTIES
    RefinesQueue
    OperationsExact
