-------------------------- MODULE Ingestion_proofs --------------------------
(***************************************************************************)
(* Proofs about module Ingestion, for any sets of requests (finite or not), *)
(* any plans and any capacity of the thread pool.                          *)
(***************************************************************************)
EXTENDS Ingestion, FiniteSetTheorems, WellFoundedInduction, TLAPS

-----------------------------------------------------------------------------
(* The inductive invariant.                                                *)

BeforeCommit == {"idle", "gated", "dispatched", "policy", "storage_ok",
                 "admitted", "saved"}
AfterCommit  == {"recording", "bg_queued", "extracting", "flushed"}

(* An upload between the read of its body and its response.                *)
OnLoop(u) ==
    \/ pc[u] \in {"policy", "storage_ok", "admitted", "saved", "recording"}
    \/ u \notin AsyncMedia /\ pc[u] \in {"extracting", "flushed"}

(* One coroutine at a time is past its last await; only asynchronous media *)
(* goes to the background.                                                 *)
LoopExclusive ==
    \A u \in Uploads :
        /\ OnLoop(u) => loop = u
        /\ pc[u] \in {"recording", "bg_queued"} => u \in AsyncMedia

(* The thread pool holds no more than its capacity.                        *)
PoolBounded == IsFiniteSet(InPool) /\ Cardinality(InPool) <= Threads

(* The rows of a document, by where its request is.                        *)
RowsByLocation ==
    \A r \in Requests :
        /\ pc[r] \in BeforeCommit => doc[r] = "absent" /\ job[r] = "absent"
        /\ pc[r] \in AfterCommit => doc[r] = "processing" /\ job[r] = "processing"
        /\ pc[r] = "saved" => r \in stored
        /\ doc[r] = "absent" <=> job[r] = "absent"
        /\ doc[r] = "processing" <=> job[r] = "processing"

OvershootInv == IsFiniteSet(Counted \cup Admitted) /\ DocumentOvershootBounded

IInv == TypeOK /\ LoopExclusive /\ PoolBounded /\ RowsByLocation
        /\ RecordsAgree /\ OvershootInv

USE DEF Requests

-----------------------------------------------------------------------------
(* Type correctness.                                                       *)

LEMMA InitTypeOK == Init => TypeOK
BY RequestsAssumption, ServerAssumption DEF Init, TypeOK, Codes, Locations, Metrics, WorkspaceStatuses

LEMMA StepTypeOK == TypeOK /\ [Next]_vars => TypeOK'
<1> SUFFICES ASSUME TypeOK, [Next]_vars
             PROVE  TypeOK'
    OBVIOUS
<1> USE RequestsAssumption, ServerAssumption
        DEF TypeOK, Codes, Locations, Metrics, WorkspaceStatuses, tenant, files, rows,
            Goto, Respond, Release, Finish
<1>1. CASE UNCHANGED vars
    BY <1>1 DEF vars
<1>2. ASSUME NEW u \in Uploads, UploadStep(u)
      PROVE  TypeOK'
  <2>1. CASE RejectUpload(u)  BY <2>1 DEF RejectUpload
  <2>2. CASE BeginUpload(u)  BY <2>2 DEF BeginUpload
  <2>3. CASE SaveBytes(u)  BY <2>3 DEF SaveBytes
  <2>4. CASE AcceptMedia(u)  BY <2>4 DEF AcceptMedia
  <2>5. CASE StartBackground(u)  BY <2>5 DEF StartBackground
  <2>6. CASE FailUpload(u)  BY <2>6 DEF FailUpload, MarkFailed
  <2>7. CASE FailBackground(u)  BY <2>7 DEF FailBackground, InBackground, MarkFailed
  <2> QED  BY <1>2, <2>1, <2>2, <2>3, <2>4, <2>5, <2>6, <2>7 DEF UploadStep
<1>3. ASSUME NEW c \in Connectors, ConnectorStep(c)
      PROVE  TypeOK'
  <2>1. CASE DispatchConnector(c)  BY <2>1 DEF DispatchConnector
  <2>2. CASE BeginConnector(c)  BY <2>2 DEF BeginConnector
  <2>3. CASE FailConnector(c)  BY <2>3 DEF FailConnector, MarkFailed
  <2> QED  BY <1>3, <2>1, <2>2, <2>3 DEF ConnectorStep
<1>4. ASSUME NEW r \in Requests, CommonStep(r)
      PROVE  TypeOK'
  <2>1. CASE Gate(r)  BY <2>1 DEF Gate
  <2>2. CASE CheckStorage(r)  BY <2>2 DEF CheckStorage
  <2>3. CASE CheckDocuments(r)  BY <2>3 DEF CheckDocuments
  <2>4. CASE CommitRows(r)  BY <2>4 DEF CommitRows
  <2>5. CASE FlushChunks(r)  BY <2>5 DEF FlushChunks
  <2>6. CASE CommitSuccess(r)  BY <2>6 DEF CommitSuccess, SuccessMetrics
  <2>7. CASE Uncaught(r)  BY <2>7 DEF Uncaught, InBackground
  <2> QED  BY <1>4, <2>1, <2>2, <2>3, <2>4, <2>5, <2>6, <2>7 DEF CommonStep
<1>5. CASE SetPlan  BY <1>5 DEF SetPlan
<1>6. CASE ChangeStatus  BY <1>6 DEF ChangeStatus, Lifecycle!Leave, Lifecycle!Statuses
<1>7. CASE Crash  BY <1>7 DEF Crash
<1> QED  BY <1>1, <1>2, <1>3, <1>4, <1>5, <1>6, <1>7 DEF Next

(* Every variable keeps its type in every behaviour.                       *)
THEOREM TypeCorrect == Spec => []TypeOK
BY InitTypeOK, StepTypeOK, PTL DEF Spec

-----------------------------------------------------------------------------
(* The rows by location, and their agreement.                              *)

LEMMA InitRows == Init => RowsByLocation /\ RecordsAgree /\ LoopExclusive
BY DEF Init, RowsByLocation, RecordsAgree, LoopExclusive, OnLoop, BeforeCommit, AfterCommit

LEMMA StepRows ==
    TypeOK /\ RowsByLocation /\ RecordsAgree /\ [Next]_vars
        => RowsByLocation' /\ RecordsAgree'
<1> SUFFICES ASSUME TypeOK, RowsByLocation, RecordsAgree, [Next]_vars
             PROVE  RowsByLocation' /\ RecordsAgree'
    OBVIOUS
<1> USE RequestsAssumption
        DEF TypeOK, Locations, RowsByLocation, RecordsAgree, BeforeCommit, AfterCommit,
            tenant, files, rows, Goto, Respond, Release, Finish
<1>1. CASE UNCHANGED vars
    BY <1>1 DEF vars
<1>2. ASSUME NEW u \in Uploads, UploadStep(u)
      PROVE  RowsByLocation' /\ RecordsAgree'
  <2>1. CASE RejectUpload(u)  BY <2>1 DEF RejectUpload
  <2>2. CASE BeginUpload(u)  BY <2>2 DEF BeginUpload
  <2>3. CASE SaveBytes(u)  BY <2>3 DEF SaveBytes
  <2>4. CASE AcceptMedia(u)  BY <2>4 DEF AcceptMedia
  <2>5. CASE StartBackground(u)  BY <2>5 DEF StartBackground
  <2>6. CASE FailUpload(u)  BY <2>6 DEF FailUpload, MarkFailed
  <2>7. CASE FailBackground(u)  BY <2>7 DEF FailBackground, InBackground, MarkFailed
  <2> QED  BY <1>2, <2>1, <2>2, <2>3, <2>4, <2>5, <2>6, <2>7 DEF UploadStep
<1>3. ASSUME NEW c \in Connectors, ConnectorStep(c)
      PROVE  RowsByLocation' /\ RecordsAgree'
  <2>1. CASE DispatchConnector(c)  BY <2>1 DEF DispatchConnector
  <2>2. CASE BeginConnector(c)  BY <2>2 DEF BeginConnector
  <2>3. CASE FailConnector(c)  BY <2>3 DEF FailConnector, MarkFailed
  <2> QED  BY <1>3, <2>1, <2>2, <2>3 DEF ConnectorStep
<1>4. ASSUME NEW r \in Requests, CommonStep(r)
      PROVE  RowsByLocation' /\ RecordsAgree'
  <2>1. CASE Gate(r)  BY <2>1 DEF Gate
  <2>2. CASE CheckStorage(r)  BY <2>2 DEF CheckStorage
  <2>3. CASE CheckDocuments(r)  BY <2>3 DEF CheckDocuments
  <2>4. CASE CommitRows(r)  BY <2>4 DEF CommitRows
  <2>5. CASE FlushChunks(r)  BY <2>5 DEF FlushChunks
  <2>6. CASE CommitSuccess(r)  BY <2>6 DEF CommitSuccess
  <2>7. CASE Uncaught(r)  BY <2>7 DEF Uncaught, InBackground
  <2> QED  BY <1>4, <2>1, <2>2, <2>3, <2>4, <2>5, <2>6, <2>7 DEF CommonStep
<1>5. CASE SetPlan  BY <1>5 DEF SetPlan
<1>6. CASE ChangeStatus  BY <1>6 DEF ChangeStatus, Lifecycle!Leave, Lifecycle!Statuses
<1>7. CASE Crash  BY <1>7 DEF Crash, Live
<1> QED  BY <1>1, <1>2, <1>3, <1>4, <1>5, <1>6, <1>7 DEF Next

-----------------------------------------------------------------------------
(* The event loop and the thread pool.                                     *)

LEMMA StepLoop == TypeOK /\ LoopExclusive /\ [Next]_vars => LoopExclusive'
<1> SUFFICES ASSUME TypeOK, LoopExclusive, [Next]_vars
             PROVE  LoopExclusive'
    OBVIOUS
<1> USE RequestsAssumption
        DEF TypeOK, Locations, LoopExclusive, OnLoop, Goto, Respond, Release, Finish
<1>1. CASE UNCHANGED vars
    BY <1>1 DEF vars
<1>2. ASSUME NEW u \in Uploads, UploadStep(u)
      PROVE  LoopExclusive'
  <2>1. CASE RejectUpload(u)  BY <2>1 DEF RejectUpload
  <2>2. CASE BeginUpload(u)  BY <2>2 DEF BeginUpload
  <2>3. CASE SaveBytes(u)  BY <2>3 DEF SaveBytes
  <2>4. CASE AcceptMedia(u)  BY <2>4 DEF AcceptMedia
  <2>5. CASE StartBackground(u)  BY <2>5 DEF StartBackground
  <2>6. CASE FailUpload(u)  BY <2>6 DEF FailUpload
  <2>7. CASE FailBackground(u)  BY <2>7 DEF FailBackground, InBackground
  <2> QED  BY <1>2, <2>1, <2>2, <2>3, <2>4, <2>5, <2>6, <2>7 DEF UploadStep
<1>3. ASSUME NEW c \in Connectors, ConnectorStep(c)
      PROVE  LoopExclusive'
    BY <1>3 DEF ConnectorStep, DispatchConnector, BeginConnector, FailConnector
<1>4. ASSUME NEW r \in Requests, CommonStep(r)
      PROVE  LoopExclusive'
  <2>1. CASE Gate(r)  BY <2>1 DEF Gate
  <2>2. CASE CheckStorage(r)  BY <2>2 DEF CheckStorage
  <2>3. CASE CheckDocuments(r)  BY <2>3 DEF CheckDocuments
  <2>4. CASE CommitRows(r)  BY <2>4 DEF CommitRows
  <2>5. CASE FlushChunks(r)  BY <2>5 DEF FlushChunks
  <2>6. CASE CommitSuccess(r)  BY <2>6 DEF CommitSuccess
  <2>7. CASE Uncaught(r)  BY <2>7 DEF Uncaught, InBackground
  <2> QED  BY <1>4, <2>1, <2>2, <2>3, <2>4, <2>5, <2>6, <2>7 DEF CommonStep
<1>5. CASE SetPlan  BY <1>5 DEF SetPlan
<1>6. CASE ChangeStatus  BY <1>6 DEF ChangeStatus, Lifecycle!Leave, Lifecycle!Statuses
<1>7. CASE Crash  BY <1>7 DEF Crash, Live
<1> QED  BY <1>1, <1>2, <1>3, <1>4, <1>5, <1>6, <1>7 DEF Next

(* A step that adds nobody to the pool keeps it within its capacity.       *)
LEMMA PoolShrinks ==
    ASSUME PoolBounded, InPool' \subseteq InPool
    PROVE  PoolBounded'
<1>1. IsFiniteSet(InPool') /\ Cardinality(InPool') <= Cardinality(InPool)
    BY FS_Subset DEF PoolBounded
<1>2. Cardinality(InPool) \in Nat /\ Cardinality(InPool') \in Nat
    BY <1>1, FS_CardinalityType DEF PoolBounded
<1> QED  BY <1>1, <1>2, ServerAssumption DEF PoolBounded

(* A step that gives a free thread to one request does, too.               *)
LEMMA PoolGrows ==
    ASSUME PoolBounded, Cardinality(InPool) < Threads,
           NEW r, InPool' \subseteq InPool \cup {r}
    PROVE  PoolBounded'
<1>1. /\ IsFiniteSet(InPool \cup {r})
      /\ Cardinality(InPool \cup {r}) <= Cardinality(InPool) + 1
    BY FS_AddElement, FS_CardinalityType DEF PoolBounded
<1>2. /\ IsFiniteSet(InPool')
      /\ Cardinality(InPool') <= Cardinality(InPool \cup {r})
    BY <1>1, FS_Subset
<1>3. /\ Cardinality(InPool) \in Nat
      /\ Cardinality(InPool \cup {r}) \in Nat
      /\ Cardinality(InPool') \in Nat
    BY <1>1, <1>2, FS_CardinalityType DEF PoolBounded
<1> QED  BY <1>1, <1>2, <1>3, ServerAssumption DEF PoolBounded

LEMMA InitPool == Init => PoolBounded
BY RequestsAssumption, ServerAssumption, FS_EmptySet DEF Init, PoolBounded, InPool, InBackground, Live

LEMMA StepPool == TypeOK /\ PoolBounded /\ [Next]_vars => PoolBounded'
<1> SUFFICES ASSUME TypeOK, PoolBounded, [Next]_vars
             PROVE  PoolBounded'
    OBVIOUS
<1> USE RequestsAssumption DEF TypeOK, Goto, Respond, Release, Finish
<1>1. CASE UNCHANGED vars
    BY <1>1 DEF vars, PoolBounded, InPool, InBackground, Live
<1>2. ASSUME NEW u \in Uploads, UploadStep(u)
      PROVE  PoolBounded'
  <2>1. CASE StartBackground(u)
    <3>1. InPool' \subseteq InPool \cup {u}
        BY <2>1 DEF StartBackground, InPool, InBackground, Live
    <3> QED  BY <2>1, <3>1, PoolGrows DEF StartBackground
  <2>2. CASE RejectUpload(u) \/ BeginUpload(u) \/ SaveBytes(u) \/ AcceptMedia(u)
             \/ FailUpload(u) \/ FailBackground(u)
    <3>1. InPool' \subseteq InPool
        BY <2>2 DEF RejectUpload, BeginUpload, SaveBytes, AcceptMedia, FailUpload,
                    FailBackground, InBackground, InPool, Live
    <3> QED  BY <3>1, PoolShrinks
  <2> QED  BY <1>2, <2>1, <2>2 DEF UploadStep
<1>3. ASSUME NEW c \in Connectors, ConnectorStep(c)
      PROVE  PoolBounded'
  <2>1. CASE DispatchConnector(c)
    <3>1. InPool' \subseteq InPool \cup {c}
        BY <2>1 DEF DispatchConnector, InPool, InBackground, Live
    <3> QED  BY <2>1, <3>1, PoolGrows DEF DispatchConnector
  <2>2. CASE BeginConnector(c) \/ FailConnector(c)
    <3>1. InPool' \subseteq InPool
        BY <2>2 DEF BeginConnector, FailConnector, InPool, InBackground, Live
    <3> QED  BY <3>1, PoolShrinks
  <2> QED  BY <1>3, <2>1, <2>2 DEF ConnectorStep
<1>4. ASSUME NEW r \in Requests, CommonStep(r)
      PROVE  PoolBounded'
  <2>1. InPool' \subseteq InPool
    <3>1. CASE Gate(r)  BY <3>1 DEF Gate, InPool, InBackground, Live
    <3>2. CASE CheckStorage(r)  BY <3>2 DEF CheckStorage, InPool, InBackground, Live
    <3>3. CASE CheckDocuments(r)  BY <3>3 DEF CheckDocuments, InPool, InBackground, Live
    <3>4. CASE CommitRows(r)  BY <3>4 DEF CommitRows, InPool, InBackground, Live
    <3>5. CASE FlushChunks(r)  BY <3>5 DEF FlushChunks, InPool, InBackground, Live
    <3>6. CASE CommitSuccess(r)  BY <3>6 DEF CommitSuccess, InPool, InBackground, Live
    <3>7. CASE Uncaught(r)  BY <3>7 DEF Uncaught, InBackground, InPool, Live
    <3> QED  BY <1>4, <3>1, <3>2, <3>3, <3>4, <3>5, <3>6, <3>7 DEF CommonStep
  <2> QED  BY <2>1, PoolShrinks
<1>5. CASE SetPlan \/ ChangeStatus
    BY <1>5 DEF SetPlan, ChangeStatus, PoolBounded, InPool, InBackground, Live
<1>6. CASE Crash
  <2>1. InPool' \subseteq InPool
      BY <1>6 DEF Crash, InPool, InBackground, Live
  <2> QED  BY <2>1, PoolShrinks
<1> QED  BY <1>1, <1>2, <1>3, <1>4, <1>5, <1>6 DEF Next

-----------------------------------------------------------------------------
(* The document quota.                                                     *)

Occupied == Counted \cup Admitted

LEMMA OccupiedShrinks ==
    ASSUME OvershootInv, Occupied' \subseteq Occupied
    PROVE  OvershootInv'
<1>1. IsFiniteSet(Occupied') /\ Cardinality(Occupied') <= Cardinality(Occupied)
    BY FS_Subset DEF OvershootInv, Occupied
<1>2. Cardinality(Occupied) \in Nat /\ Cardinality(Occupied') \in Nat
    BY <1>1, FS_CardinalityType DEF OvershootInv, Occupied
<1> QED
    BY <1>1, <1>2, PlanAssumption, ServerAssumption
    DEF OvershootInv, DocumentOvershootBounded, Occupied

(* Whoever is past the checks is in the pool, or is the upload on the      *)
(* event loop: the check that admits one more leaves the bound intact.     *)
LEMMA CheckDocumentsOvershoot ==
    ASSUME TypeOK, LoopExclusive, PoolBounded, OvershootInv,
           NEW r \in Requests, CheckDocuments(r)
    PROVE  OvershootInv'
<1> USE RequestsAssumption
<1>1. CASE Cardinality(Counted) + 1 > DocumentsLimit[seen[r]]
  <2>1. Occupied' \subseteq Occupied
      BY <1>1 DEF TypeOK, CheckDocuments, Finish, Goto, Occupied, Counted, Admitted, rows
  <2> QED  BY <2>1, OccupiedShrinks
<1>2. CASE ~(Cardinality(Counted) + 1 > DocumentsLimit[seen[r]])
  <2> DEFINE Others == InPool \cup {loop}
  <2>1. Occupied' \subseteq Counted \cup Others
    <3>1. Counted' = Counted /\ Admitted' = Admitted \cup {r}
        BY <1>2 DEF TypeOK, CheckDocuments, Goto, Counted, Admitted, rows
    <3>2. r \in Others
        BY DEF CheckDocuments, LoopExclusive, OnLoop, InPool, InBackground, Live
    <3>3. Admitted \subseteq Others
        BY DEF Admitted, LoopExclusive, OnLoop, InPool, InBackground, Live
    <3> QED  BY <3>1, <3>2, <3>3 DEF Occupied
  <2>2. /\ IsFiniteSet(Others)
        /\ Cardinality(Others) \in Nat
        /\ Cardinality(Others) <= Threads + 1
    <3>1. /\ IsFiniteSet(Others)
          /\ \/ Cardinality(Others) = Cardinality(InPool)
             \/ Cardinality(Others) = Cardinality(InPool) + 1
        BY FS_AddElement DEF PoolBounded
    <3>2. Cardinality(InPool) \in Nat /\ Cardinality(Others) \in Nat
        BY <3>1, FS_CardinalityType DEF PoolBounded
    <3> QED  BY <3>1, <3>2, ServerAssumption DEF PoolBounded
  <2>3. IsFiniteSet(Counted) /\ Cardinality(Counted) \in Nat
    <3>1. Counted \in SUBSET (Counted \cup Admitted)
        OBVIOUS
    <3>2. IsFiniteSet(Counted)
        BY <3>1, FS_Subset DEF OvershootInv
    <3> QED  BY <3>2, FS_CardinalityType
  <2>4. Cardinality(Counted) + 1 <= LargestLimit
    <3>1. seen[r] \in Plans
        BY DEF TypeOK
    <3> QED  BY <1>2, <2>3, <3>1, PlanAssumption
  <2>5. /\ IsFiniteSet(Counted \cup Others)
        /\ Cardinality(Counted \cup Others) \in Nat
        /\ Cardinality(Counted \cup Others) <= Cardinality(Counted) + Cardinality(Others)
    <3>1. IsFiniteSet(Counted \cap Others)
        BY <2>3, FS_Intersection
    <3>2. Cardinality(Counted \cap Others) \in Nat
        BY <3>1, FS_CardinalityType
    <3>3. /\ IsFiniteSet(Counted \cup Others)
          /\ Cardinality(Counted \cup Others) =
                Cardinality(Counted) + Cardinality(Others) - Cardinality(Counted \cap Others)
        BY <2>2, <2>3, FS_Union
    <3>4. Cardinality(Counted \cup Others) \in Nat
        BY <3>3, FS_CardinalityType
    <3> QED  BY <2>2, <2>3, <3>2, <3>3, <3>4
  <2>6. IsFiniteSet(Occupied') /\ Cardinality(Occupied') <= Cardinality(Counted \cup Others)
      BY <2>1, <2>5, FS_Subset
  <2>7. Cardinality(Occupied') \in Nat
      BY <2>6, FS_CardinalityType
  <2> QED
      BY <2>2, <2>3, <2>4, <2>5, <2>6, <2>7, PlanAssumption, ServerAssumption
      DEF OvershootInv, DocumentOvershootBounded, Occupied
<1> QED  BY <1>1, <1>2

LEMMA InitOvershoot == Init => OvershootInv
BY FS_EmptySet, PlanAssumption, ServerAssumption
DEF Init, OvershootInv, DocumentOvershootBounded, Counted, Admitted

LEMMA StepOvershoot == IInv /\ [Next]_vars => OvershootInv'
<1> SUFFICES ASSUME IInv, [Next]_vars
             PROVE  OvershootInv'
    OBVIOUS
<1>1. CASE \E r \in Requests : CheckDocuments(r)
    BY <1>1, CheckDocumentsOvershoot DEF IInv
<1>2. CASE ~ \E r \in Requests : CheckDocuments(r)
  <2> USE RequestsAssumption
          DEF IInv, TypeOK, RowsByLocation, BeforeCommit, AfterCommit, Locations,
              Occupied, Counted, Admitted, rows, Goto, Finish
  <2> SUFFICES Occupied' \subseteq Occupied
      BY OccupiedShrinks
  <2>1. CASE UNCHANGED vars
      BY <2>1 DEF vars
  <2>2. ASSUME NEW u \in Uploads, UploadStep(u)
        PROVE  Occupied' \subseteq Occupied
    <3>1. CASE RejectUpload(u)  BY <3>1 DEF RejectUpload
    <3>2. CASE BeginUpload(u)  BY <3>2 DEF BeginUpload
    <3>3. CASE SaveBytes(u)  BY <3>3 DEF SaveBytes
    <3>4. CASE AcceptMedia(u)  BY <3>4 DEF AcceptMedia
    <3>5. CASE StartBackground(u)  BY <3>5 DEF StartBackground
    <3>6. CASE FailUpload(u)  BY <3>6 DEF FailUpload, MarkFailed
    <3>7. CASE FailBackground(u)  BY <3>7 DEF FailBackground, InBackground, MarkFailed
    <3> QED  BY <2>2, <3>1, <3>2, <3>3, <3>4, <3>5, <3>6, <3>7 DEF UploadStep
  <2>3. ASSUME NEW c \in Connectors, ConnectorStep(c)
        PROVE  Occupied' \subseteq Occupied
      BY <2>3 DEF ConnectorStep, DispatchConnector, BeginConnector, FailConnector, MarkFailed
  <2>4. ASSUME NEW r \in Requests, CommonStep(r)
        PROVE  Occupied' \subseteq Occupied
    <3>1. CASE Gate(r)  BY <3>1 DEF Gate
    <3>2. CASE CheckStorage(r)  BY <3>2 DEF CheckStorage
    <3>3. CASE CommitRows(r)  BY <3>3 DEF CommitRows
    <3>4. CASE FlushChunks(r)  BY <3>4 DEF FlushChunks
    <3>5. CASE CommitSuccess(r)  BY <3>5 DEF CommitSuccess
    <3>6. CASE Uncaught(r)  BY <3>6 DEF Uncaught, InBackground
    <3> QED  BY <1>2, <2>4, <3>1, <3>2, <3>3, <3>4, <3>5, <3>6 DEF CommonStep
  <2>5. CASE SetPlan  BY <2>5 DEF SetPlan
  <2>6. CASE ChangeStatus  BY <2>6 DEF ChangeStatus, Lifecycle!Leave, Lifecycle!Statuses
  <2>7. CASE Crash  BY <2>7 DEF Crash, Live
  <2> QED  BY <2>1, <2>2, <2>3, <2>4, <2>5, <2>6, <2>7 DEF Next
<1> QED  BY <1>1, <1>2

-----------------------------------------------------------------------------
(* Metering and responses.                                                 *)

Charged(r) == IF r \in AsyncMedia THEN {"upload.bytes", "document.count"} ELSE {}

(* What is charged, by where the request is: nothing before the usage      *)
(* events of an accepted media upload, nothing more until the end.         *)
UsageByLocation ==
    \A r \in Requests :
        /\ pc[r] \in BeforeCommit \cup {"recording"} => usage[r] = {}
        /\ pc[r] \in {"bg_queued", "extracting", "flushed"} => usage[r] = Charged(r)

(* Nobody is answered before the end but the client of a media upload.     *)
AnsweredEarly(r) == r \in AsyncMedia /\ pc[r] \in {"bg_queued", "extracting", "flushed"}
ResponseByLocation ==
    \A r \in Requests : pc[r] # "done" => http[r] = IF AnsweredEarly(r) THEN "201" ELSE "none"

LEMMA InitMetering == Init => MeteringMatchesDocuments /\ UsageByLocation
BY RequestsAssumption DEF Init, MeteringMatchesDocuments, UsageByLocation, BeforeCommit

LEMMA StepMetering ==
    IInv /\ MeteringMatchesDocuments /\ UsageByLocation /\ [Next]_vars
        => MeteringMatchesDocuments' /\ UsageByLocation'
<1> SUFFICES ASSUME IInv, MeteringMatchesDocuments, UsageByLocation, [Next]_vars
             PROVE  MeteringMatchesDocuments' /\ UsageByLocation'
    OBVIOUS
<1> USE RequestsAssumption
        DEF IInv, TypeOK, Locations, RowsByLocation, LoopExclusive, BeforeCommit, AfterCommit,
            MeteringMatchesDocuments, UsageByLocation, Charged, Metrics,
            tenant, files, rows, Goto, Respond, Release, Finish
<1>1. CASE UNCHANGED vars
    BY <1>1 DEF vars
<1>2. ASSUME NEW u \in Uploads, UploadStep(u)
      PROVE  MeteringMatchesDocuments' /\ UsageByLocation'
  <2>1. CASE RejectUpload(u)  BY <2>1 DEF RejectUpload
  <2>2. CASE BeginUpload(u)  BY <2>2 DEF BeginUpload
  <2>3. CASE SaveBytes(u)  BY <2>3 DEF SaveBytes
  <2>4. CASE AcceptMedia(u)
    <3>1. pc[u] = "recording" /\ u \in AsyncMedia /\ usage[u] = {}
        BY <2>4 DEF AcceptMedia
    <3>2. usage' = [usage EXCEPT ![u] = {"upload.bytes", "document.count"}]
        BY <2>4, <3>1 DEF AcceptMedia
    <3>3. pc' = [pc EXCEPT ![u] = "bg_queued"] /\ doc' = doc /\ audited' = audited
        BY <2>4 DEF AcceptMedia
    <3>4. doc[u] = "processing"
        BY <3>1
    <3>5. MeteringMatchesDocuments'
        BY <3>1, <3>2, <3>3, <3>4
    <3>6. UsageByLocation'
        BY <3>1, <3>2, <3>3
    <3> QED  BY <3>5, <3>6
  <2>5. CASE StartBackground(u)  BY <2>5 DEF StartBackground
  <2>6. CASE FailUpload(u)  BY <2>6 DEF FailUpload, MarkFailed
  <2>7. CASE FailBackground(u)  BY <2>7 DEF FailBackground, InBackground, MarkFailed
  <2> QED  BY <1>2, <2>1, <2>2, <2>3, <2>4, <2>5, <2>6, <2>7 DEF UploadStep
<1>3. ASSUME NEW c \in Connectors, ConnectorStep(c)
      PROVE  MeteringMatchesDocuments' /\ UsageByLocation'
  <2>1. CASE DispatchConnector(c)  BY <2>1 DEF DispatchConnector
  <2>2. CASE BeginConnector(c)  BY <2>2 DEF BeginConnector
  <2>3. CASE FailConnector(c)  BY <2>3 DEF FailConnector, MarkFailed
  <2> QED  BY <1>3, <2>1, <2>2, <2>3 DEF ConnectorStep
<1>4. ASSUME NEW r \in Requests, CommonStep(r)
      PROVE  MeteringMatchesDocuments' /\ UsageByLocation'
  <2>1. CASE Gate(r)  BY <2>1 DEF Gate
  <2>2. CASE CheckStorage(r)  BY <2>2 DEF CheckStorage
  <2>3. CASE CheckDocuments(r)  BY <2>3 DEF CheckDocuments
  <2>4. CASE CommitRows(r)
    <3>1. usage[r] = {} /\ doc[r] = "absent"
        BY <2>4 DEF CommitRows
    <3>2. /\ usage' = usage /\ audited' = audited
          /\ doc' = [doc EXCEPT ![r] = "processing"]
          /\ pc' = [pc EXCEPT ![r] = IF r \in AsyncMedia THEN "recording" ELSE "extracting"]
        BY <2>4 DEF CommitRows
    <3>3. MeteringMatchesDocuments'
        BY <3>1, <3>2
    <3>4. UsageByLocation'
        BY <3>1, <3>2
    <3> QED  BY <3>3, <3>4
  <2>5. CASE FlushChunks(r)  BY <2>5 DEF FlushChunks
  <2>6. CASE CommitSuccess(r)
    <3>1. usage[r] = Charged(r) /\ doc[r] = "processing" /\ r \notin audited
        BY <2>6 DEF CommitSuccess
    <3>2. usage[r] \cup SuccessMetrics(r) = IF r \in Uploads THEN Metrics ELSE Metrics \ {"upload.bytes"}
      <4>1. CASE r \in AsyncMedia  BY <3>1, <4>1 DEF SuccessMetrics
      <4>2. CASE r \in Uploads \ AsyncMedia  BY <3>1, <4>2 DEF SuccessMetrics
      <4>3. CASE r \notin Uploads  BY <3>1, <4>3 DEF SuccessMetrics
      <4> QED  BY <4>1, <4>2, <4>3
    <3>3. /\ usage' = [usage EXCEPT ![r] = IF r \in Uploads THEN Metrics ELSE Metrics \ {"upload.bytes"}]
          /\ doc' = [doc EXCEPT ![r] = "indexed"]
          /\ pc' = [pc EXCEPT ![r] = "done"]
          /\ audited' = IF r \in Connectors THEN audited \cup {r} ELSE audited
        BY <2>6, <3>2 DEF CommitSuccess
    <3>4. MeteringMatchesDocuments'
        BY <3>3
    <3>5. UsageByLocation'
        BY <3>3
    <3> QED  BY <3>4, <3>5
  <2>7. CASE Uncaught(r)  BY <2>7 DEF Uncaught, InBackground
  <2> QED  BY <1>4, <2>1, <2>2, <2>3, <2>4, <2>5, <2>6, <2>7 DEF CommonStep
<1>5. CASE SetPlan  BY <1>5 DEF SetPlan
<1>6. CASE ChangeStatus  BY <1>6 DEF ChangeStatus, Lifecycle!Leave, Lifecycle!Statuses
<1>7. CASE Crash  BY <1>7 DEF Crash, Live
<1> QED  BY <1>1, <1>2, <1>3, <1>4, <1>5, <1>6, <1>7 DEF Next

LEMMA InitResponses == Init => ResponseMatchesRecord /\ ResponseByLocation
BY DEF Init, ResponseMatchesRecord, ResponseByLocation, AnsweredEarly

LEMMA StepResponses ==
    IInv /\ ResponseMatchesRecord /\ ResponseByLocation /\ [Next]_vars
        => ResponseMatchesRecord' /\ ResponseByLocation'
<1> SUFFICES ASSUME IInv, ResponseMatchesRecord, ResponseByLocation, [Next]_vars
             PROVE  ResponseMatchesRecord' /\ ResponseByLocation'
    OBVIOUS
<1> USE RequestsAssumption
        DEF IInv, TypeOK, Locations, RowsByLocation, LoopExclusive, BeforeCommit, AfterCommit,
            ResponseMatchesRecord, ResponseByLocation, AnsweredEarly,
            tenant, files, rows, Goto, Respond, Release, Finish
<1>1. CASE UNCHANGED vars
    BY <1>1 DEF vars
<1>2. ASSUME NEW u \in Uploads, UploadStep(u)
      PROVE  ResponseMatchesRecord' /\ ResponseByLocation'
  <2>1. CASE RejectUpload(u)  BY <2>1 DEF RejectUpload
  <2>2. CASE BeginUpload(u)  BY <2>2 DEF BeginUpload
  <2>3. CASE SaveBytes(u)  BY <2>3 DEF SaveBytes
  <2>4. CASE AcceptMedia(u)  BY <2>4 DEF AcceptMedia
  <2>5. CASE StartBackground(u)  BY <2>5 DEF StartBackground
  <2>6. CASE FailUpload(u)  BY <2>6 DEF FailUpload, MarkFailed
  <2>7. CASE FailBackground(u)  BY <2>7 DEF FailBackground, InBackground, MarkFailed
  <2> QED  BY <1>2, <2>1, <2>2, <2>3, <2>4, <2>5, <2>6, <2>7 DEF UploadStep
<1>3. ASSUME NEW c \in Connectors, ConnectorStep(c)
      PROVE  ResponseMatchesRecord' /\ ResponseByLocation'
  <2>1. CASE DispatchConnector(c)  BY <2>1 DEF DispatchConnector
  <2>2. CASE BeginConnector(c)  BY <2>2 DEF BeginConnector
  <2>3. CASE FailConnector(c)  BY <2>3 DEF FailConnector, MarkFailed
  <2> QED  BY <1>3, <2>1, <2>2, <2>3 DEF ConnectorStep
<1>4. ASSUME NEW r \in Requests, CommonStep(r)
      PROVE  ResponseMatchesRecord' /\ ResponseByLocation'
  <2>1. CASE Gate(r)  BY <2>1 DEF Gate
  <2>2. CASE CheckStorage(r)  BY <2>2 DEF CheckStorage
  <2>3. CASE CheckDocuments(r)  BY <2>3 DEF CheckDocuments
  <2>4. CASE CommitRows(r)  BY <2>4 DEF CommitRows
  <2>5. CASE FlushChunks(r)  BY <2>5 DEF FlushChunks
  <2>6. CASE CommitSuccess(r)  BY <2>6 DEF CommitSuccess
  <2>7. CASE Uncaught(r)  BY <2>7 DEF Uncaught, InBackground
  <2> QED  BY <1>4, <2>1, <2>2, <2>3, <2>4, <2>5, <2>6, <2>7 DEF CommonStep
<1>5. CASE SetPlan  BY <1>5 DEF SetPlan
<1>6. CASE ChangeStatus  BY <1>6 DEF ChangeStatus, Lifecycle!Leave, Lifecycle!Statuses
<1>7. CASE Crash  BY <1>7 DEF Crash, Live
<1> QED  BY <1>1, <1>2, <1>3, <1>4, <1>5, <1>6, <1>7 DEF Next

-----------------------------------------------------------------------------
(* The theorems.                                                           *)

LEMMA Invariance == Spec => []IInv
<1>1. Init => IInv
    BY InitTypeOK, InitRows, InitPool, InitOvershoot DEF IInv
<1>2. IInv /\ [Next]_vars => IInv'
    BY StepTypeOK, StepRows, StepLoop, StepPool, StepOvershoot DEF IInv
<1> QED  BY <1>1, <1>2, PTL DEF Spec

(* However many handlers race through the quota check, the documents of a  *)
(* workspace exceed its largest plan by at most the threads of the server. *)
THEOREM OvershootBounded == Spec => []DocumentOvershootBounded
<1>1. IInv => DocumentOvershootBounded
    BY DEF IInv, OvershootInv
<1> QED  BY <1>1, Invariance, PTL

(* Documents, jobs, chunks and stored files agree in every state, process  *)
(* deaths and unexpected errors included.                                  *)
THEOREM RecordsAlwaysAgree == Spec => []RecordsAgree
<1>1. IInv => RecordsAgree
    BY DEF IInv
<1> QED  BY <1>1, Invariance, PTL

(* Every job follows the transition table of job_state.py, although no     *)
(* handler consults it.                                                    *)
THEOREM JobsImplementTable == Spec => JobsFollowStateTable
<1>1. Init => Jobs!Init
    BY DEF Init, Jobs!Init
<1>2. IInv /\ [Next]_vars => [Jobs!Next]_job
  <2> SUFFICES ASSUME IInv, [Next]_vars
               PROVE  [Jobs!Next]_job
      OBVIOUS
  <2> USE DEF IInv, TypeOK, RowsByLocation, BeforeCommit, AfterCommit, rows
  <2>1. ASSUME NEW r \in Requests, CommitRows(r)
        PROVE  Jobs!Next
    <3>1. job[r] = "absent"
        BY <2>1 DEF CommitRows
    <3>2. Jobs!Create(r)
        BY <2>1, <3>1 DEF CommitRows, Jobs!Create
    <3> QED  BY <3>2 DEF Jobs!Next
  <2>2. ASSUME NEW r \in Requests, job[r] = "processing",
               NEW s \in {"succeeded", "failed"}, job' = [job EXCEPT ![r] = s]
        PROVE  Jobs!Next
    <3>1. Jobs!CanTransitionJob(job[r], s)
        BY <2>2 DEF Jobs!CanTransitionJob, Jobs!AllowedTransitions, Jobs!JobStatus
    <3>2. Jobs!Transition(r)
        BY <2>2, <3>1 DEF Jobs!Transition, Jobs!JobStatus
    <3> QED  BY <3>2 DEF Jobs!Next
  <2>3. ASSUME NEW r \in Requests, CommitSuccess(r)
        PROVE  Jobs!Next
    <3>1. job[r] = "processing" /\ job' = [job EXCEPT ![r] = "succeeded"]
        BY <2>3 DEF CommitSuccess
    <3> QED  BY <2>2, <3>1
  <2>4. ASSUME NEW r \in Requests, FailUpload(r) \/ FailBackground(r) \/ FailConnector(r)
        PROVE  Jobs!Next
    <3>1. job[r] = "processing" /\ job' = [job EXCEPT ![r] = "failed"]
        BY <2>4 DEF FailUpload, FailBackground, InBackground, FailConnector, MarkFailed
    <3> QED  BY <2>2, <3>1
  <2>5. CASE \/ \E u \in Uploads : RejectUpload(u) \/ BeginUpload(u) \/ SaveBytes(u)
                                   \/ AcceptMedia(u) \/ StartBackground(u)
             \/ \E c \in Connectors : DispatchConnector(c) \/ BeginConnector(c)
             \/ \E r \in Requests : Gate(r) \/ CheckStorage(r) \/ CheckDocuments(r)
                                    \/ FlushChunks(r) \/ Uncaught(r)
             \/ SetPlan \/ ChangeStatus \/ Crash \/ UNCHANGED vars
    <3>1. job' = job
        BY <2>5
        DEF RejectUpload, BeginUpload, SaveBytes, AcceptMedia, StartBackground,
            DispatchConnector, BeginConnector, Gate, CheckStorage, CheckDocuments,
            FlushChunks, Uncaught, SetPlan, ChangeStatus, Crash, vars
    <3> QED  BY <3>1
  <2> QED
      BY <2>1, <2>3, <2>4, <2>5
      DEF Next, UploadStep, ConnectorStep, CommonStep
<1>3. Jobs!Spec <=> JobsFollowStateTable
    BY DEF JobsFollowStateTable
<1> QED  BY <1>1, <1>2, <1>3, Invariance, PTL DEF Spec, Jobs!Spec
(* The usage events of a document are those its status calls for, however  *)
(* its ingestion was cut short.                                            *)
THEOREM MeteringAlwaysMatches == Spec => []MeteringMatchesDocuments
BY Invariance, InitMetering, StepMetering, PTL DEF Spec

(* What a client was told is what the rows say, from the response on.      *)
THEOREM ResponsesAlwaysMatch == Spec => []ResponseMatchesRecord
BY Invariance, InitResponses, StepResponses, PTL DEF Spec

-----------------------------------------------------------------------------
(* Sums of sizes.                                                          *)

LEMMA Induction ==
    ASSUME NEW T, 0 \in T, \A n \in Nat : n \in T => n + 1 \in T
    PROVE  \A n \in Nat : n \in T
<1> SUFFICES ASSUME NEW n \in Nat, n \notin T
             PROVE  FALSE
  OBVIOUS
<1> DEFINE Outside == {k \in Nat : k \notin T}
<1>1. PICK m \in Outside : \A k \in Outside : ~(<< k, m >> \in OpToRel(<, Nat))
  BY WFMin, NatLessThanWellFounded
<1>2. \A k \in Outside : ~(k < m)
  BY <1>1 DEF OpToRel
<1>3. m # 0 /\ m \in Nat /\ m \notin T
  BY <1>1
<1>4. m - 1 \in Nat /\ m - 1 \notin Outside
  BY <1>2, <1>3
<1> QED
  BY <1>3, <1>4

(* How much the nth upload adds to the bytes of S.                         *)
Share(n, S) == LET u == SetToSeq(Uploads)[n] IN IF u \in S THEN Size[u] ELSE 0

(* The sums up to each upload; the last one is that of the whole set.      *)
AddsUp(f, S) ==
    /\ f \in [0..Cardinality(Uploads) -> Nat]
    /\ f[0] = 0
    /\ \A n \in 1..Cardinality(Uploads) : f[n] = f[n - 1] + Share(n, S)

LEMMA UploadsInOrder ==
    ASSUME IsFiniteSet(Uploads)
    PROVE  /\ Cardinality(Uploads) \in Nat
           /\ SetToSeq(Uploads) \in [1..Cardinality(Uploads) -> Uploads]
           /\ IsInjective(SetToSeq(Uploads))
<1>1. Cardinality(Uploads) \in Nat /\ ExistsBijection(1..Cardinality(Uploads), Uploads)
  BY FS_CardinalityType
<1>2. \E f \in [1..Cardinality(Uploads) -> Uploads] : IsInjective(f)
  BY <1>1 DEF ExistsBijection, Bijection, Injection
<1> QED
  BY <1>1, <1>2 DEF SetToSeq

LEMMA ShareIsNatural ==
    ASSUME IsFiniteSet(Uploads), NEW n \in 1..Cardinality(Uploads), NEW S
    PROVE  Share(n, S) \in Nat
BY UploadsInOrder, SizeAssumption DEF Share

LEMMA SumsExist ==
    ASSUME IsFiniteSet(Uploads), NEW S
    PROVE  \E f : AddsUp(f, S)
<1> DEFINE N == Cardinality(Uploads)
           solved(m) == \E f \in [0..m -> Nat] :
                          f[0] = 0 /\ \A n \in 1..m : f[n] = f[n - 1] + Share(n, S)
           T == {m \in Nat : m <= N => solved(m)}
<1>1. N \in Nat /\ \A n \in 1..N : Share(n, S) \in Nat
  BY UploadsInOrder, ShareIsNatural
<1> HIDE DEF N
<1>2. 0 \in T
  <2> DEFINE f == [i \in 0..0 |-> 0]
  <2>1. f \in [0..0 -> Nat] /\ f[0] = 0
    OBVIOUS
  <2>2. \A n \in 1..0 : f[n] = f[n - 1] + Share(n, S)
    OBVIOUS
  <2> HIDE DEF f
  <2>3. solved(0)
    BY <2>1, <2>2
  <2> QED
    BY <2>3
<1>3. ASSUME NEW m \in Nat, m \in T
      PROVE  m + 1 \in T
  <2> SUFFICES ASSUME m + 1 <= N
               PROVE  solved(m + 1)
    OBVIOUS
  <2>1. PICK f \in [0..m -> Nat] :
          f[0] = 0 /\ \A n \in 1..m : f[n] = f[n - 1] + Share(n, S)
    BY <1>1, <1>3
  <2>2. f[m] + Share(m + 1, S) \in Nat
    BY <1>1, <2>1
  <2> DEFINE g == [i \in 0..(m + 1) |-> IF i = m + 1 THEN f[m] + Share(m + 1, S) ELSE f[i]]
  <2>3. g \in [0..(m + 1) -> Nat] /\ g[0] = 0
    BY <2>1, <2>2
  <2>4. (\A i \in 0..m : g[i] = f[i]) /\ g[m + 1] = f[m] + Share(m + 1, S)
    OBVIOUS
  <2> HIDE DEF g
  <2>5. ASSUME NEW n \in 1..(m + 1)
        PROVE  g[n] = g[n - 1] + Share(n, S)
    <3>1. CASE n = m + 1
      <4>1. n - 1 = m /\ m \in 0..m
        BY <3>1
      <4> QED
        BY <3>1, <4>1, <2>4
    <3>2. CASE n \in 1..m
      <4>1. n \in 0..m /\ n - 1 \in 0..m
        BY <3>2
      <4> QED
        BY <2>1, <2>4, <3>2, <4>1
    <3> QED
      BY <3>1, <3>2
  <2> QED
    BY <2>3, <2>5
<1> HIDE DEF T
<1>4. N \in T
  BY <1>1, <1>2, <1>3, Induction
<1> QED
  BY <1>1, <1>4 DEF T, AddsUp, N

LEMMA SumIsBytes ==
    ASSUME IsFiniteSet(Uploads), NEW S, NEW f, AddsUp(f, S)
    PROVE  BytesOf(S) = f[Cardinality(Uploads)]
<1> DEFINE N == Cardinality(Uploads)
           step(g) == [n \in 0..N |-> IF n = 0 THEN 0 ELSE g[n - 1] + Share(n, S)]
           upTo == CHOOSE g : g = step(g)
<1>1. N \in Nat
  BY UploadsInOrder
<1>2. BytesOf(S) = upTo[N]
  BY DEF BytesOf, Share
<1>3. f = step(f)
  <2>1. ASSUME NEW n \in 0..N
        PROVE  f[n] = step(f)[n]
    <3>1. CASE n = 0
      BY <3>1 DEF AddsUp
    <3>2. CASE n \in 1..N
      BY <3>2 DEF AddsUp
    <3> QED
      BY <3>1, <3>2, <1>1
  <2> QED
    BY <2>1 DEF AddsUp
<1>4. upTo = step(upTo)
  <2> HIDE DEF step
  <2> QED
    BY <1>3
<1> HIDE DEF upTo
<1> DEFINE T == {n \in Nat : n <= N => upTo[n] = f[n]}
<1>5. 0 \in T
  BY <1>1, <1>3, <1>4
<1>6. ASSUME NEW n \in Nat, n \in T
      PROVE  n + 1 \in T
  <2> SUFFICES ASSUME n + 1 <= N
               PROVE  upTo[n + 1] = f[n + 1]
    OBVIOUS
  <2>1. n + 1 \in 0..N /\ n + 1 # 0 /\ (n + 1) - 1 = n /\ upTo[n] = f[n]
    BY <1>1, <1>6
  <2>2. upTo[n + 1] = upTo[n] + Share(n + 1, S)
    BY <1>4, <2>1
  <2>3. f[n + 1] = f[n] + Share(n + 1, S)
    BY <1>3, <2>1
  <2> QED
    BY <2>1, <2>2, <2>3
<1> HIDE DEF T
<1>7. N \in T
  BY <1>1, <1>5, <1>6, Induction
<1> QED
  BY <1>1, <1>2, <1>7 DEF T

LEMMA BytesAreNatural ==
    ASSUME IsFiniteSet(Uploads), NEW S
    PROVE  BytesOf(S) \in Nat
<1>1. PICK f : AddsUp(f, S)
  BY SumsExist
<1>2. Cardinality(Uploads) \in 0..Cardinality(Uploads)
  BY UploadsInOrder
<1> QED
  BY <1>1, <1>2, SumIsBytes DEF AddsUp

(* No more uploads, no more bytes.                                         *)
LEMMA BytesShrink ==
    ASSUME IsFiniteSet(Uploads), NEW S, NEW R, R \cap Uploads \subseteq S
    PROVE  BytesOf(R) <= BytesOf(S)
<1> DEFINE N == Cardinality(Uploads)
<1>1. PICK f : AddsUp(f, S)
  BY SumsExist
<1>2. PICK g : AddsUp(g, R)
  BY SumsExist
<1>3. N \in Nat /\ \A n \in 1..N : Share(n, S) \in Nat /\ Share(n, R) \in Nat
  BY UploadsInOrder, ShareIsNatural
<1>4. \A n \in 1..N : Share(n, R) <= Share(n, S)
  BY UploadsInOrder, SizeAssumption DEF Share
<1> DEFINE T == {n \in Nat : n <= N => g[n] <= f[n]}
<1>5. 0 \in T
  BY <1>1, <1>2 DEF AddsUp
<1>6. ASSUME NEW n \in Nat, n \in T
      PROVE  n + 1 \in T
  <2> SUFFICES ASSUME n + 1 <= N
               PROVE  g[n + 1] <= f[n + 1]
    OBVIOUS
  <2>1. n + 1 \in 1..N /\ n \in 0..N /\ (n + 1) - 1 = n /\ g[n] <= f[n]
    BY <1>3, <1>6
  <2>2. g[n] \in Nat /\ f[n] \in Nat
    BY <1>1, <1>2, <2>1 DEF AddsUp
  <2>3. f[n + 1] = f[n] + Share(n + 1, S) /\ g[n + 1] = g[n] + Share(n + 1, R)
    BY <1>1, <1>2, <2>1 DEF AddsUp
  <2> QED
    BY <1>3, <1>4, <2>1, <2>2, <2>3
<1> HIDE DEF T
<1>7. N \in T
  BY <1>3, <1>5, <1>6, Induction
<1> QED
  BY <1>1, <1>2, <1>3, <1>7, SumIsBytes DEF T

(* One more upload, no more than its bytes.                                *)
LEMMA BytesGrow ==
    ASSUME IsFiniteSet(Uploads), NEW S, NEW R, NEW u \in Uploads,
           R \cap Uploads \subseteq S \cup {u}
    PROVE  BytesOf(R) <= BytesOf(S) + Size[u]
<1> DEFINE N == Cardinality(Uploads)
           order == SetToSeq(Uploads)
           met(n) == \E i \in 1..n : order[i] = u
<1>1. PICK f : AddsUp(f, S)
  BY SumsExist
<1>2. PICK g : AddsUp(g, R)
  BY SumsExist
<1>3. N \in Nat /\ \A n \in 1..N : Share(n, S) \in Nat /\ Share(n, R) \in Nat
  BY UploadsInOrder, ShareIsNatural
<1>4. Size[u] \in Nat
  BY SizeAssumption
<1>5. ASSUME NEW n \in 1..N
      PROVE  /\ order[n] # u => Share(n, R) <= Share(n, S)
             /\ order[n] = u => Share(n, R) <= Share(n, S) + Size[u]
  BY UploadsInOrder, SizeAssumption DEF Share
<1>6. \A i, j \in 1..N : order[i] = order[j] => i = j
  BY UploadsInOrder DEF IsInjective
<1> DEFINE T == {n \in Nat : n <= N => /\ ~met(n) => g[n] <= f[n]
                                       /\ met(n) => g[n] <= f[n] + Size[u]}
<1>7. 0 \in T
  BY <1>1, <1>2, <1>4 DEF AddsUp
<1>8. ASSUME NEW n \in Nat, n \in T
      PROVE  n + 1 \in T
  <2> SUFFICES ASSUME n + 1 <= N
               PROVE  /\ ~met(n + 1) => g[n + 1] <= f[n + 1]
                      /\ met(n + 1) => g[n + 1] <= f[n + 1] + Size[u]
    OBVIOUS
  <2>1. n + 1 \in 1..N /\ n \in 0..N /\ (n + 1) - 1 = n
    BY <1>3
  <2>2. (~met(n) => g[n] <= f[n]) /\ (met(n) => g[n] <= f[n] + Size[u])
    BY <1>3, <1>8
  <2>3. g[n] \in Nat /\ f[n] \in Nat
    BY <1>1, <1>2, <2>1 DEF AddsUp
  <2>4. f[n + 1] = f[n] + Share(n + 1, S) /\ g[n + 1] = g[n] + Share(n + 1, R)
    BY <1>1, <1>2, <2>1 DEF AddsUp
  <2>5. Share(n + 1, S) \in Nat /\ Share(n + 1, R) \in Nat
    BY <1>3, <2>1
  <2>6. met(n) => met(n + 1)
    OBVIOUS
  <2>7. CASE order[n + 1] = u
    <3>1. ~met(n)
      <4>1. ASSUME NEW i \in 1..n
            PROVE  order[i] # u
        <5>1. i \in 1..N /\ i # n + 1
          BY <1>3, <2>1
        <5> HIDE DEF order
        <5> QED
          BY <1>6, <2>1, <2>7, <5>1
      <4> QED
        BY <4>1
    <3>2. met(n + 1)
      BY <2>7
    <3> QED
      BY <1>4, <1>5, <2>1, <2>2, <2>3, <2>4, <2>5, <2>7, <3>1, <3>2
  <2>8. CASE order[n + 1] # u
    <3>1. met(n + 1) => met(n)
      BY <2>8
    <3>2. Share(n + 1, R) <= Share(n + 1, S)
      BY <1>5, <2>1, <2>8
    <3> QED
      BY <1>4, <2>2, <2>3, <2>4, <2>5, <2>6, <3>1, <3>2
  <2> QED
    BY <2>7, <2>8
<1> HIDE DEF T
<1>9. N \in T
  BY <1>3, <1>7, <1>8, Induction
<1>10. g[N] \in Nat /\ f[N] \in Nat
  BY <1>1, <1>2, <1>3 DEF AddsUp
<1> QED
  BY <1>1, <1>2, <1>3, <1>4, <1>9, <1>10, SumIsBytes DEF T

-----------------------------------------------------------------------------
(* The storage quota.                                                      *)

(* What an upload was let in with still fits beside what is stored.        *)
RoomLeft ==
    \A u \in Uploads :
        pc[u] \in {"storage_ok", "admitted", "saved"}
            => BytesOf(Counted) + Size[u] <= StorageLimit[seen[u]]

LEMMA InitRoom == Init => RoomLeft
BY DEF Init, RoomLeft

(* Nobody new is let in and nothing is added: there is still room.         *)
LEMMA RoomKept ==
    ASSUME IsFiniteSet(Uploads), TypeOK, RoomLeft,
           Counted' \cap Uploads \subseteq Counted,
           \A v \in Uploads : pc'[v] \in {"storage_ok", "admitted", "saved"}
               => pc[v] \in {"storage_ok", "admitted", "saved"} /\ seen'[v] = seen[v]
    PROVE  RoomLeft'
<1> SUFFICES ASSUME NEW v \in Uploads, pc'[v] \in {"storage_ok", "admitted", "saved"}
             PROVE  BytesOf(Counted)' + Size[v] <= StorageLimit[seen'[v]]
  BY DEF RoomLeft
<1>1. BytesOf(Counted') <= BytesOf(Counted)
  BY BytesShrink
<1>2. BytesOf(Counted') \in Nat /\ BytesOf(Counted) \in Nat
  BY BytesAreNatural
<1>3. BytesOf(Counted)' = BytesOf(Counted')
  BY DEF BytesOf
<1>4. BytesOf(Counted) + Size[v] <= StorageLimit[seen'[v]]
  BY DEF RoomLeft
<1>5. Size[v] \in Nat /\ StorageLimit[seen'[v]] \in Nat
  <2>1. seen'[v] \in Plans
    BY DEF TypeOK, Requests
  <2> QED
    BY <2>1, SizeAssumption, PlanAssumption
<1> QED
  BY <1>1, <1>2, <1>3, <1>4, <1>5

LEMMA StepRoom ==
    ASSUME IsFiniteSet(Uploads), TypeOK, LoopExclusive, RowsByLocation, RoomLeft, [Next]_vars
    PROVE  RoomLeft'
<1> USE RequestsAssumption DEF Goto, Respond, Release, Finish
<1> DEFINE Let == {"storage_ok", "admitted", "saved"}
           Same == /\ Counted' \cap Uploads \subseteq Counted
                   /\ \A v \in Uploads : pc'[v] \in Let => pc[v] \in Let /\ seen'[v] = seen[v]
<1>1. CASE UNCHANGED vars \/ SetPlan \/ ChangeStatus \/ Crash
  <2>1. Same
    BY <1>1 DEF vars, SetPlan, ChangeStatus, Crash, Live, tenant, rows, files, Counted, TypeOK
  <2> QED
    BY <2>1, RoomKept
<1>2. ASSUME NEW u \in Uploads, UploadStep(u)
      PROVE  RoomLeft'
  <2>1. Same
    <3> USE DEF TypeOK, tenant, rows, files, Counted
    <3>1. CASE RejectUpload(u)  BY <3>1 DEF RejectUpload
    <3>2. CASE BeginUpload(u)  BY <3>2 DEF BeginUpload
    <3>3. CASE SaveBytes(u)  BY <3>3 DEF SaveBytes
    <3>4. CASE AcceptMedia(u)  BY <3>4 DEF AcceptMedia
    <3>5. CASE StartBackground(u)  BY <3>5 DEF StartBackground
    <3>6. CASE FailUpload(u)  BY <3>6 DEF FailUpload, MarkFailed
    <3>7. CASE FailBackground(u)  BY <3>7 DEF FailBackground, InBackground, MarkFailed
    <3> QED  BY <1>2, <3>1, <3>2, <3>3, <3>4, <3>5, <3>6, <3>7 DEF UploadStep
  <2> QED
    BY <2>1, RoomKept
<1>3. ASSUME NEW c \in Connectors, ConnectorStep(c)
      PROVE  RoomLeft'
  <2>1. Same
    <3> USE DEF TypeOK, tenant, rows, files, Counted
    <3>1. CASE DispatchConnector(c)  BY <3>1 DEF DispatchConnector
    <3>2. CASE BeginConnector(c)  BY <3>2 DEF BeginConnector
    <3>3. CASE FailConnector(c)  BY <3>3 DEF FailConnector, MarkFailed
    <3> QED  BY <1>3, <3>1, <3>2, <3>3 DEF ConnectorStep
  <2> QED
    BY <2>1, RoomKept
<1>4. ASSUME NEW r \in Requests, CommonStep(r)
      PROVE  RoomLeft'
  <2>1. CASE Gate(r) \/ CheckDocuments(r) \/ FlushChunks(r) \/ CommitSuccess(r) \/ Uncaught(r)
    <3>1. Same
      <4> USE DEF TypeOK, tenant, rows, files, Counted
      <4>1. CASE Gate(r)  BY <4>1 DEF Gate
      <4>2. CASE CheckDocuments(r)  BY <4>2 DEF CheckDocuments
      <4>3. CASE FlushChunks(r)  BY <4>3 DEF FlushChunks
      <4>4. CASE CommitSuccess(r)
        <5>1. doc[r] = "processing"
          BY <4>4 DEF CommitSuccess, RowsByLocation, AfterCommit
        <5> QED
          BY <4>4, <5>1 DEF CommitSuccess
      <4>5. CASE Uncaught(r)  BY <4>5 DEF Uncaught, InBackground
      <4> QED  BY <2>1, <4>1, <4>2, <4>3, <4>4, <4>5
    <3> QED
      BY <3>1, RoomKept
  <2>2. CASE CheckStorage(r)
    <3> SUFFICES ASSUME NEW v \in Uploads, pc'[v] \in Let
                 PROVE  BytesOf(Counted)' + Size[v] <= StorageLimit[seen'[v]]
      BY DEF RoomLeft
    <3>1. BytesOf(Counted)' = BytesOf(Counted) /\ seen' = seen
      BY <2>2 DEF CheckStorage, BytesOf, Counted, rows
    <3>2. CASE v # r
      BY <2>2, <3>1, <3>2 DEF CheckStorage, RoomLeft, TypeOK
    <3>3. CASE v = r
      <4>1. ~(BytesOf(Counted) + Size[v] > StorageLimit[seen[v]])
        BY <2>2, <3>3 DEF CheckStorage, StoredBytes, AttemptedBytes, TypeOK
      <4>2. BytesOf(Counted) \in Nat /\ Size[v] \in Nat
        BY BytesAreNatural, SizeAssumption
      <4>3. StorageLimit[seen[v]] \in Nat
        BY PlanAssumption DEF TypeOK
      <4> QED
        BY <3>1, <4>1, <4>2, <4>3
    <3> QED
      BY <3>2, <3>3
  <2>3. CASE CommitRows(r)
    <3>1. CASE r \in Uploads
      <4>1. pc[r] = "saved" /\ loop = r
        BY <2>3, <3>1 DEF CommitRows, LoopExclusive, OnLoop
      <4> SUFFICES ASSUME NEW v \in Uploads, pc'[v] \in Let
                   PROVE  FALSE
        BY DEF RoomLeft
      <4>2. v # r
        BY <2>3 DEF CommitRows, TypeOK
      <4>3. pc[v] \in Let
        BY <2>3, <4>2 DEF CommitRows, TypeOK
      <4> QED
        BY <4>1, <4>2, <4>3 DEF LoopExclusive, OnLoop
    <3>2. CASE r \notin Uploads
      <4>1. Same
        BY <2>3, <3>2 DEF CommitRows, TypeOK, tenant, rows, files, Counted
      <4> QED
        BY <4>1, RoomKept
    <3> QED
      BY <3>1, <3>2
  <2> QED
    BY <1>4, <2>1, <2>2, <2>3 DEF CommonStep
<1> QED
  BY <1>1, <1>2, <1>3, <1>4 DEF Next

(* The step that makes an upload's document appear is its first commit,    *)
(* and there was room for it.                                              *)
LEMMA CommitFits ==
    ASSUME IsFiniteSet(Uploads), TypeOK, RowsByLocation, RoomLeft, [Next]_vars,
           NEW u \in Uploads, doc[u] = "absent", doc'[u] # "absent"
    PROVE  StoredBytes' <= StorageLimit[seen[u]]
<1> USE RequestsAssumption DEF Goto, Respond, Release, Finish
<1>1. CommitRows(u)
  <2> USE DEF TypeOK, tenant, rows, files, RowsByLocation, BeforeCommit, AfterCommit
  <2>1. CASE UNCHANGED vars \/ SetPlan \/ ChangeStatus \/ Crash
    BY <2>1 DEF vars, SetPlan, ChangeStatus, Crash
  <2>2. ASSUME NEW v \in Uploads, UploadStep(v)
        PROVE  FALSE
    <3>1. CASE FailUpload(v)  BY <3>1 DEF FailUpload, MarkFailed
    <3>2. CASE FailBackground(v)  BY <3>2 DEF FailBackground, InBackground, MarkFailed
    <3> QED  BY <2>2, <3>1, <3>2 DEF UploadStep, RejectUpload, BeginUpload, SaveBytes,
                                     AcceptMedia, StartBackground
  <2>3. ASSUME NEW c \in Connectors, ConnectorStep(c)
        PROVE  FALSE
    BY <2>3 DEF ConnectorStep, DispatchConnector, BeginConnector, FailConnector, MarkFailed
  <2>4. ASSUME NEW r \in Requests, CommonStep(r)
        PROVE  CommitRows(u)
    <3>1. CASE CommitRows(r)  BY <3>1 DEF CommitRows
    <3>2. CASE CommitSuccess(r)  BY <3>2 DEF CommitSuccess
    <3> QED  BY <2>4, <3>1, <3>2 DEF CommonStep, Gate, CheckStorage, CheckDocuments,
                                     FlushChunks, Uncaught
  <2> QED
    BY <2>1, <2>2, <2>3, <2>4 DEF Next
<1>2. Counted' \cap Uploads \subseteq Counted \cup {u}
  BY <1>1 DEF CommitRows, Counted, TypeOK
<1>3. BytesOf(Counted') <= BytesOf(Counted) + Size[u]
  BY <1>2, BytesGrow
<1>4. BytesOf(Counted) + Size[u] <= StorageLimit[seen[u]]
  BY <1>1 DEF CommitRows, RoomLeft
<1>5. BytesOf(Counted') \in Nat /\ BytesOf(Counted) \in Nat /\ Size[u] \in Nat
  BY BytesAreNatural, SizeAssumption
<1>6. StorageLimit[seen[u]] \in Nat
  BY PlanAssumption DEF TypeOK
<1>7. StoredBytes' = BytesOf(Counted')
  BY DEF StoredBytes, BytesOf
<1> QED
  BY <1>3, <1>4, <1>5, <1>6, <1>7

(* The storage quota is exact: for any finite set of uploads, a commit     *)
(* that adds bytes leaves the total within the plan the handler read when  *)
(* it checked, whatever other uploads, connectors, plan changes and        *)
(* crashes come between check and commit (app/limits/service.py).          *)
THEOREM StorageAlwaysWithinPlan == IsFiniteSet(Uploads) /\ Spec => StorageWithinPlan
<1> SUFFICES ASSUME IsFiniteSet(Uploads)
             PROVE  Spec => StorageWithinPlan
  OBVIOUS
<1> DEFINE Room == TypeOK /\ LoopExclusive /\ RowsByLocation /\ RecordsAgree /\ RoomLeft
           Within == \A u \in Uploads : doc[u] = "absent" /\ doc'[u] # "absent"
                                           => StoredBytes' <= StorageLimit[seen[u]]
<1>1. Init => Room
  BY InitTypeOK, InitRows, InitRoom
<1>2. Room /\ [Next]_vars => Room'
  BY StepTypeOK, StepLoop, StepRows, StepRoom
<1>3. Room /\ [Next]_vars => [Within]_vars
  BY CommitFits
<1>4. StorageWithinPlan <=> [][Within]_vars
  BY DEF StorageWithinPlan
<1> QED
  BY <1>1, <1>2, <1>3, <1>4, PTL DEF Spec

=============================================================================
