\* Safety: two publishers, two goroutines, two resources one of which is
\* described by the documents of both.
CONSTANTS
    Publisher = {p1, p2}
    Goroutine = {g1, g2}
    author = author
    Resource = {author, book}
    Document = {d1}
    Refresh = refresh
    NoEntry = NoEntry
    NilDocument = NilDocument
    NoClient = NoClient
    NotGenerated = NotGenerated
    Describes <- WithAuthor
    Steps <- Schemas
    Custom <- Stubs
    Overwrite = FALSE

SPECIFICATION SSpec
SYMMETRY Symmetry

INVARIANTS
    STypeOK
    RestIsCurrent
    FilesOfOneGeneration
