\* As MCSchemaRefresh.cfg: the guards that the proofs use instead of ENABLED,
\* and the invariants they rest on.
CONSTANTS
    Publisher = {p1, p2}
    Goroutine = {g1, g2}
    author = author
    Resource = {author, book}
    Document = {d1}
    Refresh = refresh
    NoEntry = NoEntry
    NilDocument = NilDocument
    NoClient = NoClient
    NotGenerated = NotGenerated
    Describes <- WithAuthor
    Steps <- Schemas
    Custom <- Stubs
    Overwrite = FALSE

SPECIFICATION SSpec
SYMMETRY Symmetry

INVARIANTS
    Announced
    Reading
    MayGoOnIsExact
    WaitsForAPublisher
