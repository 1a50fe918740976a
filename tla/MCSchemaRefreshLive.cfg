\* Liveness: the registry and the refresher wait for each other only in order.
CONSTANTS
    Publisher = {p1}
    Goroutine = {g1, g2}
    author = author
    Resource = {author}
    Document = {d1, d2}
    Refresh = refresh
    NoEntry = NoEntry
    NilDocument = NilDocument
    NoClient = NoClient
    NotGenerated = NotGenerated
    Describes <- Alone
    Steps <- SchemaOnly
    Custom = {}
    Overwrite = FALSE

SPECIFICATION FairSSpec

PROPERTIES
    PublishersReturn
    ArtifactsCatchUp
