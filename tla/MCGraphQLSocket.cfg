\* Two operations, with one id or with two; two requests that publish.
CONSTANTS
    Op = {o1, o2}
    Id = {i1, i2}
    NoOp = NoOp
    Mutator = {m1, m2}
    MaxVersion = 2

SPECIFICATION WSpec
SYMMETRY Symmetry
CHECK_DEADLOCK FALSE

INVARIANTS
    WTypeOK
    PanicsOnlyAfterClose
    EventsWereStored
    OrphansShareTheirId
    MutationsNeverWait
    NothingLeftBehind
