\* The number parser alone.
CONSTANTS
    Helper = {"numbers"}
    ListHead = {h1, h2}
    Elem = {e1, e2, e3}
    NULL = null
    Numeral <- NumeralDef
    Base = {0, 2, 10, 16, 36, 37}
    U32Max = 63
    ULLMax = 4095
    MaxChars = 4
    Char <- CharDef
    MinSlots = 2
    MinLine = 4
    MaxText = 5
    Byte = {0, 1}
    Undef = undef
    SizeMax = 31
    DefaultSize = 2
    MaxAlloc = 4
    MaxPush = 3
    MaxNeed = 3
    AlignOverflow = 1
    Interval = 3
    Burst = 2
    MaxTime = 10
    one = one
    two = two
    three = three
    home = home
    user = user
    docs = docs
    music = music
    Process = {one, two, three}
    Path <- PathDef
    Prefix <- PrefixDef
    Existing <- ExistingDef

SPECIFICATION Spec
CHECK_DEADLOCK FALSE

INVARIANT
    OverflowReported
