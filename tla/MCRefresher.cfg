\* Two concurrent callers, three flush and run goroutines alive at once. No
\* symmetry: the run checks liveness.
CONSTANTS
    Caller = {c1, c2}
    Goroutine = {g1, g2, g3}

SPECIFICATION FairSpec

INVARIANTS
    TypeOK
    RunningHasOneOwner
    NoLostTrigger
PROPERTIES
    NoRunAfterCancel
    ImplementsContract
    ImmediateRefresh
    DebouncedRefresh
