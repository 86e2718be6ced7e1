\* Four objects and up to four elements: tables of two, four and eight slots.
CONSTANTS
    Width = 4
    Ptr <- NearPtr
    KeyOf <- NearKey
    Hash <- NearHash
    KeptKey <- NearKept
    MaxStored = 4

SPECIFICATION Spec

INVARIANTS
    ProbesEnd
    ContentsExact
    LookupExact
