\* The guards that the proofs use instead of ENABLED and the invariants they
\* rest on, with a reentrant listener and a document json.Marshal refuses.
CONSTANTS
    Client = {p1, p2}
    Resource = {user}
    Document = {d1, d2}
    Unencodable = {d2}
    Listener = {l1, l2}
    Reentrant = {l2}
    NoEntry = NoEntry
    NilDocument = NilDocument
    NoClient = NoClient

SPECIFICATION RSpec
SYMMETRY Symmetry
CHECK_DEADLOCK FALSE

INVARIANTS
    RIInv
    Once
    MayMoveIsExact
    WaitsForTheHolder
PROPERTY LostToUnencodable
