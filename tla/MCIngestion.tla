---------------------------- MODULE MCIngestion ----------------------------
(* A small server for TLC: two uploads, one of them asynchronous media,    *)
(* two interchangeable connectors and a pool of two threads. Quotas are    *)
(* tight enough for every pair of requests to compete.                     *)
EXTENDS Ingestion, TLC

CONSTANTS u1, u2, c1, c2

BothUploads   == {u1, u2}
BothConnectors == {c1, c2}
MediaUpload   == {u2}
EveryRequest  == {u1, u2, c1, c2}

UnitSizes     == u1 :> 1 @@ u2 :> 1
SizeOf        == u1 :> 1 @@ u2 :> 2
OneConnector  == {c1}
FreeAndPro    == {"free", "pro"}
FreeOnly      == {"free"}
DocumentsOf   == "free" :> 1 @@ "pro" :> 2
StorageOf     == "free" :> 2 @@ "pro" :> 3
FreeDocuments == "free" :> 1
FreeStorage   == "free" :> 2

ConnectorSymmetry == Permutations({c1, c2})
=============================================================================
