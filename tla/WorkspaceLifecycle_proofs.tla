---------------------- MODULE WorkspaceLifecycle_proofs ----------------------
(***************************************************************************)
(* Proofs about module WorkspaceLifecycle, for any sets of requests.       *)
(***************************************************************************)
EXTENDS WorkspaceLifecycle, TLAPS

-----------------------------------------------------------------------------
(* The inductive invariant.                                                *)

(* A stale copy is one the workspace once was: a stamp it has was set and  *)
(* is never taken back.                                                    *)
CopyFits(copy) ==
    /\ copy.status = "active" <=> copy.deletion_requested_at = Null
    /\ copy.deletion_requested_at # Null => workspace.deletion_requested_at # Null
    /\ copy.deleted_at # Null => workspace.deleted_at # Null

(* What a handler has assigned, compared with the copy it decided on.      *)
AssignmentFits(r) ==
    LET old == loaded[r]
        new == assigned[r]
    IN  \/ /\ r \in DeletionRequests
           /\ old.status = "active" /\ new.status = "pending_deletion"
           /\ new.deletion_requested_at \in Nat /\ new.deleted_at = old.deleted_at
        \/ /\ r \in MarkRequests
           /\ old.status # "deleted" /\ new.status = "deleted"
           /\ new.deleted_at \in Nat
           /\ IF old.deletion_requested_at = Null THEN new.deletion_requested_at \in Nat
              ELSE new.deletion_requested_at = old.deletion_requested_at

IInv ==
    /\ TypeOK
    /\ RecordsTellHistory
    /\ \A r \in Requests : CopyFits(loaded[r])
    /\ \A r \in Requests : pc[r] = "assigned" => AssignmentFits(r)

-----------------------------------------------------------------------------
(* The columns of a flushed row, one by one.                               *)
LEMMA FlushedColumns ==
    ASSUME NEW current \in Rows, NEW old \in Rows, NEW new \in Rows
    PROVE  /\ Flushed(current, old, new) \in Rows
           /\ Flushed(current, old, new).status = IF new.status = old.status THEN current.status ELSE new.status
           /\ Flushed(current, old, new).deletion_requested_at =
                  IF new.deletion_requested_at = old.deletion_requested_at
                  THEN current.deletion_requested_at ELSE new.deletion_requested_at
           /\ Flushed(current, old, new).deleted_at =
                  IF new.deleted_at = old.deleted_at THEN current.deleted_at ELSE new.deleted_at
BY DEF Flushed, Rows

LEMMA InitInv == Init => IInv
<1> SUFFICES ASSUME Init PROVE IInv
  OBVIOUS
<1>1. Active \in Rows
  BY DEF Active, Rows
<1>2. TypeOK
  BY <1>1 DEF Init, TypeOK
<1>3. CopyFits(Active) /\ RecordsTellHistory
  BY DEF Init, Active, CopyFits, RecordsTellHistory
<1> QED BY <1>2, <1>3 DEF Init, IInv

(* Steps that leave the workspace and its audit trail alone.               *)
LEMMA QuietStep ==
    ASSUME IInv, TypeOK', workspace' = workspace, audit' = audit,
           NEW r \in Requests,
           loaded' = loaded \/ loaded' = [loaded EXCEPT ![r] = workspace],
           \A s \in Requests \ {r} : (pc'[s] = pc[s] /\ assigned'[s] = assigned[s]),
           pc'[r] = "assigned" => AssignmentFits(r)'
    PROVE  IInv'
<1>1. RecordsTellHistory'
  BY DEF IInv, RecordsTellHistory
<1>2. CopyFits(workspace)
  BY DEF IInv, CopyFits, RecordsTellHistory
<1>3. ASSUME NEW s \in Requests PROVE CopyFits(loaded[s])'
  <2>1. CopyFits(loaded'[s])
    BY <1>2 DEF IInv, TypeOK
  <2> QED BY <2>1 DEF CopyFits
<1>4. ASSUME NEW s \in Requests, pc'[s] = "assigned" PROVE AssignmentFits(s)'
  <2>1. CASE s = r
    BY <1>4, <2>1
  <2>2. CASE s # r
    <3>1. loaded'[s] = loaded[s]
      BY <2>2 DEF IInv, TypeOK
    <3> QED BY <1>4, <2>2, <3>1 DEF IInv, AssignmentFits
  <2> QED BY <2>1, <2>2
<1> QED BY <1>1, <1>3, <1>4 DEF IInv

LEMMA GateInv == ASSUME IInv, NEW r \in Requests, Gate(r) PROVE IInv'
<1>1. TypeOK'
  BY DEF IInv, TypeOK, Gate
<1>2. pc'[r] # "assigned"
  BY DEF IInv, TypeOK, Gate
<1> QED BY <1>1, <1>2, QuietStep DEF Gate, IInv, TypeOK

LEMMA AbortInv == ASSUME IInv, NEW r \in Requests, Abort(r) PROVE IInv'
<1>1. TypeOK'
  BY DEF IInv, TypeOK, Abort, Finish
<1>2. pc'[r] # "assigned"
  BY DEF IInv, TypeOK, Abort, Finish
<1> QED BY <1>1, <1>2, QuietStep DEF Abort, Finish, IInv, TypeOK

LEMMA RefusedInv ==
    ASSUME IInv, NEW r \in Requests, NEW code \in {"200", "400"}, Finish(r, code),
           UNCHANGED <<workspace, loaded, assigned, audit, now>>
    PROVE  IInv'
<1>1. TypeOK'
  BY DEF IInv, TypeOK, Finish
<1>2. pc'[r] # "assigned"
  BY DEF IInv, TypeOK, Finish
<1> QED BY <1>1, <1>2, QuietStep DEF Finish, IInv, TypeOK

LEMMA AssignInv ==
    ASSUME IInv, NEW r \in Requests, NEW columns \in Rows, Assign(r, columns), AssignmentFits(r)'
    PROVE  IInv'
<1>1. TypeOK'
  BY DEF IInv, TypeOK, Assign
<1> QED BY <1>1, QuietStep DEF Assign, IInv, TypeOK

LEMMA RequestDeletionInv == ASSUME IInv, NEW r \in DeletionRequests, RequestDeletion(r) PROVE IInv'
<1> DEFINE new == [loaded[r] EXCEPT !.status = "pending_deletion", !.deletion_requested_at = now]
<1>1. r \in Requests
  BY DEF Requests
<1>2. CASE loaded[r].status # "active"
  BY <1>1, <1>2, RefusedInv DEF RequestDeletion
<1>3. CASE loaded[r].status = "active"
  <2>1. Assign(r, new)
    BY <1>3 DEF RequestDeletion
  <2>2. /\ new \in Rows /\ new.status = "pending_deletion" /\ new.deletion_requested_at \in Nat
        /\ new.deleted_at = loaded[r].deleted_at
    BY <1>1 DEF IInv, TypeOK, Rows
  <2> HIDE DEF new
  <2>3. loaded'[r] = loaded[r] /\ assigned'[r] = new
    BY <1>1, <2>1 DEF Assign, IInv, TypeOK
  <2>4. AssignmentFits(r)'
    BY <1>3, <2>2, <2>3 DEF AssignmentFits
  <2> QED BY <1>1, <2>1, <2>2, <2>4, AssignInv
<1> QED BY <1>2, <1>3

LEMMA MarkDeletedInv == ASSUME IInv, NEW r \in MarkRequests, MarkDeleted(r) PROVE IInv'
<1> DEFINE new == [status |-> "deleted", deleted_at |-> now,
                   deletion_requested_at |-> IF loaded[r].deletion_requested_at = Null THEN now
                                             ELSE loaded[r].deletion_requested_at]
<1>1. r \in Requests
  BY DEF Requests
<1>2. CASE loaded[r].status = "deleted"
  BY <1>1, <1>2, RefusedInv DEF MarkDeleted
<1>3. CASE loaded[r].status # "deleted"
  <2>1. Assign(r, new)
    BY <1>3 DEF MarkDeleted
  <2>2. now \in Nat /\ loaded[r].deletion_requested_at \in Nat \cup {Null}
    BY <1>1 DEF IInv, TypeOK, Rows
  <2>3. /\ new \in Rows /\ new.status = "deleted" /\ new.deleted_at \in Nat
        /\ new.deletion_requested_at = IF loaded[r].deletion_requested_at = Null THEN now
                                       ELSE loaded[r].deletion_requested_at
    BY <2>2 DEF Rows
  <2> HIDE DEF new
  <2>4. loaded'[r] = loaded[r] /\ assigned'[r] = new
    BY <1>1, <2>1 DEF Assign, IInv, TypeOK
  <2>5. AssignmentFits(r)'
    BY <1>3, <2>2, <2>3, <2>4 DEF AssignmentFits
  <2> QED BY <1>1, <2>1, <2>3, <2>5, AssignInv
<1> QED BY <1>2, <1>3

-----------------------------------------------------------------------------
(* A commit writes a status other than active, and takes no stamp back.    *)
LEMMA CommitStamps ==
    ASSUME IInv, NEW r \in Requests, Commit(r)
    PROVE  /\ workspace' \in Rows
           /\ workspace'.deletion_requested_at # Null
           /\ workspace.deleted_at # Null => workspace'.deleted_at # Null
           /\ r \in DeletionRequests => /\ workspace'.status = "pending_deletion"
                                        /\ workspace'.deleted_at = workspace.deleted_at
           /\ r \in MarkRequests => workspace'.status = "deleted" /\ workspace'.deleted_at # Null
<1> DEFINE old == loaded[r]
           new == assigned[r]
<1>1. old \in Rows /\ new \in Rows /\ workspace \in Rows /\ AssignmentFits(r) /\ CopyFits(old)
  BY DEF IInv, TypeOK, Commit
<1>2. workspace' = Flushed(workspace, old, new)
  BY DEF Commit
<1>3. Null \notin Nat /\ DeletionRequests \cap MarkRequests = {}
  BY LifecycleAssumption
<1>4. CASE r \in DeletionRequests
  <2>1. /\ old.status = "active" /\ new.status = "pending_deletion"
        /\ new.deletion_requested_at \in Nat /\ new.deleted_at = old.deleted_at
    BY <1>1, <1>3, <1>4 DEF AssignmentFits
  <2>2. old.deletion_requested_at = Null
    BY <1>1, <2>1 DEF CopyFits
  <2> HIDE DEF old, new
  <2>3. /\ workspace' \in Rows /\ workspace'.status = "pending_deletion"
        /\ workspace'.deletion_requested_at = new.deletion_requested_at
        /\ workspace'.deleted_at = workspace.deleted_at
    BY <1>1, <1>2, <1>3, <2>1, <2>2, FlushedColumns
  <2> QED BY <1>3, <1>4, <2>1, <2>3
<1>5. CASE r \in MarkRequests
  <2>1. /\ old.status # "deleted" /\ new.status = "deleted" /\ new.deleted_at \in Nat
        /\ IF old.deletion_requested_at = Null THEN new.deletion_requested_at \in Nat
           ELSE new.deletion_requested_at = old.deletion_requested_at
    BY <1>1, <1>3, <1>5 DEF AssignmentFits
  <2>2. /\ old.deletion_requested_at # Null => workspace.deletion_requested_at # Null
        /\ old.deleted_at # Null => workspace.deleted_at # Null
    BY <1>1 DEF CopyFits
  <2> HIDE DEF old, new
  <2>3. workspace' \in Rows /\ workspace'.status = "deleted"
    BY <1>1, <1>2, <2>1, FlushedColumns
  <2>4. workspace'.deletion_requested_at # Null
    BY <1>1, <1>2, <1>3, <2>1, <2>2, FlushedColumns
  <2>5. workspace'.deleted_at # Null
    BY <1>1, <1>2, <1>3, <2>1, <2>2, FlushedColumns
  <2> QED BY <1>3, <1>5, <2>3, <2>4, <2>5
<1> QED BY <1>4, <1>5 DEF Requests

LEMMA CommitInv == ASSUME IInv, NEW r \in Requests, Commit(r) PROVE IInv'
<1>1. TypeOK'
  BY CommitStamps DEF IInv, TypeOK, Commit, Finish
<1>2. RecordsTellHistory'
  <2>1. audit' = audit \cup {r}
    BY DEF Commit
  <2>2. CASE r \in DeletionRequests
    <3>1. audit' \cap MarkRequests = audit \cap MarkRequests
      BY <2>1, <2>2, LifecycleAssumption
    <3> QED BY <2>1, <2>2, <3>1, CommitStamps DEF RecordsTellHistory, IInv
  <2>3. CASE r \in MarkRequests
    BY <2>1, <2>3, CommitStamps DEF RecordsTellHistory, IInv
  <2> QED BY <2>2, <2>3 DEF Requests
<1>3. ASSUME NEW s \in Requests PROVE CopyFits(loaded[s])'
  <2>1. loaded' = loaded /\ CopyFits(loaded[s])
    BY DEF Commit, IInv
  <2> QED BY <2>1, CommitStamps DEF CopyFits
<1>4. ASSUME NEW s \in Requests, pc'[s] = "assigned" PROVE AssignmentFits(s)'
  <2>1. s # r /\ pc[s] = "assigned" /\ loaded' = loaded /\ assigned' = assigned
    BY <1>4 DEF Commit, Finish, IInv, TypeOK
  <2> QED BY <2>1 DEF IInv, AssignmentFits
<1> QED BY <1>1, <1>2, <1>3, <1>4 DEF IInv

-----------------------------------------------------------------------------
LEMMA NextInv == IInv /\ [Next]_vars => IInv'
<1> SUFFICES ASSUME IInv, [Next]_vars PROVE IInv'
  OBVIOUS
<1>1. CASE UNCHANGED vars
  BY <1>1 DEF vars, IInv, TypeOK, RecordsTellHistory, CopyFits, AssignmentFits
<1>2. ASSUME NEW r \in Requests, Gate(r) PROVE IInv'
  BY <1>2, GateInv
<1>3. ASSUME NEW r \in Requests, Commit(r) PROVE IInv'
  BY <1>3, CommitInv
<1>4. ASSUME NEW r \in Requests, Abort(r) PROVE IInv'
  BY <1>4, AbortInv
<1>5. ASSUME NEW r \in DeletionRequests, RequestDeletion(r) PROVE IInv'
  BY <1>5, RequestDeletionInv
<1>6. ASSUME NEW r \in MarkRequests, MarkDeleted(r) PROVE IInv'
  BY <1>6, MarkDeletedInv
<1> QED BY <1>1, <1>2, <1>3, <1>4, <1>5, <1>6 DEF Next

LEMMA AlwaysFits == Spec => []IInv
BY InitInv, NextInv, PTL DEF Spec

(* Every variable stays in its range.                                      *)
THEOREM LifecycleTypeCorrect == Spec => []TypeOK
<1>1. IInv => TypeOK
  BY DEF IInv
<1> QED BY <1>1, AlwaysFits, PTL

(* Status, stamps and audit trail tell the same story whatever requests    *)
(* race on stale copies (app/compliance/workspace_deletion.py).            *)
THEOREM HistoryAlwaysTold == Spec => []RecordsTellHistory
<1>1. IInv => RecordsTellHistory
  BY DEF IInv
<1> QED BY <1>1, AlwaysFits, PTL

(* The status never returns to active: the lifecycle implements the        *)
(* abstract status that the gate of every other route relies on.           *)
THEOREM StatusNeverReactivated == Spec => NeverReactivated
<1>1. Init => Status!Init
  BY DEF Init, Active, Status!Init
<1>2. IInv /\ [Next]_vars => [Status!Leave]_(workspace.status)
  <2> SUFFICES ASSUME IInv, [Next]_vars, workspace'.status # workspace.status
               PROVE  Status!Leave
    OBVIOUS
  <2>1. PICK r \in Requests : Commit(r)
    BY DEF Next, vars, Gate, Abort, RequestDeletion, MarkDeleted, Assign
  <2>2. workspace'.status \in {"pending_deletion", "deleted"}
    BY <2>1, CommitStamps DEF Requests
  <2> QED BY <2>2 DEF Status!Leave, Status!Statuses
<1> QED BY <1>1, <1>2, AlwaysFits, PTL DEF Spec, NeverReactivated, Status!Spec
=============================================================================
