\* The plan changes at will while two uploads of different sizes and a connector
\* compete; nothing fails unexpectedly, so every accepted document must end.
SPECIFICATION FairSpec
CONSTANTS
    u1 = u1
    u2 = u2
    c1 = c1
    c2 = c2
    NoRequest = NoRequest
    Uploads <- BothUploads
    Connectors <- OneConnector
    AsyncMedia <- MediaUpload
    Faulty = {}
    Size <- SizeOf
    MaxUploadSize = 2
    Plans <- FreeAndPro
    DocumentsLimit <- DocumentsOf
    StorageLimit <- StorageOf
    LargestLimit = 2
    Threads = 1
    MaxCrashes = 0
PROPERTIES
    StorageWithinPlan
    IngestionEnds
