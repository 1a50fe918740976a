\* Two clients, one resource and two documents, a plain and a reentrant
\* listener. The reentrant one really stops the registry.
CONSTANTS
    Client = {p1, p2}
    Resource = {user}
    Document = {d1, d2}
    Unencodable = {}
    Listener = {l1, l2}
    Reentrant = {l2}
    NoEntry = NoEntry
    NilDocument = NilDocument
    NoClient = NoClient

SPECIFICATION FairRSpec
CHECK_DEADLOCK FALSE

INVARIANTS
    RTypeOK
    ListenersCurrent
PROPERTIES
    VisibleAfterAnnounced
    KeepsContract
    CallsReturn
