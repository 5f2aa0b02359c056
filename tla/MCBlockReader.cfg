\* Files whole, cut anywhere, and with records missing.
SPECIFICATION Spec
CONSTANTS
    GroupBits = 3
    WordBits = 7
    SyncLength = 2
    PageSize = 8
    AVRO_MAGICK <- Magic
    SchemaKey <- KeyOfSchema
    Files <- AllFiles
INVARIANTS
    TypeOK
    NothingInvented
    CutReported
    OneTooMany
