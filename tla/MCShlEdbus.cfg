\* Two watches on the socket and a timeout; a batch of two is smaller than
\* the number of objects, and a third source allows for an object that is
\* removed and added again during one batch.
CONSTANTS
    Watch = {w1, w2}
    Timeout = {t}
    Source = {s1, s2, s3}
    None = none
    MaxFd = 2
    MaxEvents = 2
    MaxMsg = 2

SPECIFICATION FairSpec
CHECK_DEADLOCK FALSE

INVARIANTS
    DeferredFreeExact
    SourcesMatchObjects
    EnabledIsWatched
    FreeLeaksNothing

PROPERTY
    EventsHandled
