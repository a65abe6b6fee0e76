\* All requests may meet unexpected errors, the process dies once, the plan
\* never changes.
SPECIFICATION Spec
CONSTANTS
    u1 = u1
    u2 = u2
    c1 = c1
    c2 = c2
    NoRequest = NoRequest
    Uploads <- BothUploads
    Connectors <- BothConnectors
    AsyncMedia <- MediaUpload
    Faulty <- EveryRequest
    Size <- UnitSizes
    MaxUploadSize = 2
    Plans <- FreeOnly
    DocumentsLimit <- FreeDocuments
    StorageLimit <- FreeStorage
    LargestLimit = 1
    Threads = 2
    MaxCrashes = 1
SYMMETRY ConnectorSymmetry
INVARIANTS
    TypeOK
    DocumentOvershootBounded
    ResponseMatchesRecord
    RecordsAgree
    MeteringMatchesDocuments
PROPERTIES
    JobsFollowStateTable
