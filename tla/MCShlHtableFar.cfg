\* The second pointer has none of the bits that the first one shows.
CONSTANTS
    Width = 4
    Ptr <- FarPtr
    KeyOf <- FarKey
    Hash <- FarHash
    KeptKey = {}
    MaxStored = 2

SPECIFICATION Spec

INVARIANT
    LookupExact
