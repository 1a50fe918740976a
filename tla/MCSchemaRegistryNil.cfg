\* A document json.Marshal refuses is registered as an entry without one.
CONSTANTS
    Client = {p1, p2}
    Resource = {user}
    Document = {d1, d2}
    Unencodable = {d2}
    Listener = {l1}
    Reentrant = {}
    NoEntry = NoEntry
    NilDocument = NilDocument
    NoClient = NoClient

SPECIFICATION RSpec
SYMMETRY Symmetry

INVARIANT EntriesCarryDocument
