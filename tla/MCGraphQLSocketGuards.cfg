\* As MCGraphQLSocket.cfg: the guards that the proofs use instead of ENABLED,
\* and the invariants they rest on.
CONSTANTS
    Op = {o1, o2}
    Id = {i1, i2}
    NoOp = NoOp
    Mutator = {m1, m2}
    MaxVersion = 2

SPECIFICATION WSpec
SYMMETRY Symmetry
CHECK_DEADLOCK FALSE

INVARIANTS
    WIInv
    WGInv
    GuardsAreExact
    PublisherMayGoOn
    RestLeavesNothing

PROPERTIES
    LocksComeBack
