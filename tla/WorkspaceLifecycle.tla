------------------------- MODULE WorkspaceLifecycle -------------------------
(***************************************************************************)
(* Soft deletion of a workspace (app/compliance/workspace_deletion.py,     *)
(* app/routes/compliance.py). The tenant dependency loads the workspace    *)
(* into the request's session before the handler runs; the handler's       *)
(* db.get returns that copy, so the status it checks is the one loaded at  *)
(* the gate. Two owners' requests therefore decide independently.          *)
(***************************************************************************)
EXTENDS Naturals, FiniteSets, OrmSession

CONSTANTS
    DeletionRequests,   \* requests to .../compliance/delete-request
    MarkRequests,       \* requests to .../compliance/mark-deleted
    Null

Requests == DeletionRequests \cup MarkRequests

ASSUME LifecycleAssumption ==
    DeletionRequests \cap MarkRequests = {} /\ Null \notin Nat

VARIABLES
    workspace,  \* the committed columns of the workspace
    pc, loaded, assigned, http,
    audit,      \* the requests whose audit event is committed
    now         \* a clock that every utc_now() advances

vars == <<workspace, pc, loaded, assigned, http, audit, now>>

Rows == [status : {"active", "pending_deletion", "deleted"},
         deletion_requested_at : Nat \cup {Null}, deleted_at : Nat \cup {Null}]

Active == [status |-> "active", deletion_requested_at |-> Null, deleted_at |-> Null]

Init ==
    /\ workspace = Active
    /\ pc = [r \in Requests |-> "idle"]
    /\ loaded = [r \in Requests |-> Active]
    /\ assigned = [r \in Requests |-> Active]
    /\ http = [r \in Requests |-> "none"]
    /\ audit = {}
    /\ now = 1

Finish(r, code) ==
    /\ pc' = [pc EXCEPT ![r] = "done"]
    /\ http' = [http EXCEPT ![r] = code]

(* require_workspace_permission with block_inactive_workspace=False.       *)
Gate(r) ==
    /\ pc[r] = "idle"
    /\ pc' = [pc EXCEPT ![r] = "handler"]
    /\ loaded' = [loaded EXCEPT ![r] = workspace]
    /\ UNCHANGED <<workspace, assigned, http, audit, now>>

Assign(r, columns) ==
    /\ assigned' = [assigned EXCEPT ![r] = columns]
    /\ pc' = [pc EXCEPT ![r] = "assigned"]
    /\ now' = now + 1
    /\ UNCHANGED <<workspace, loaded, http, audit>>

(* Mutant: a second request withdraws the first.                           *)
RequestDeletionToggles(r) ==
    /\ pc[r] = "handler"
    /\ Assign(r, [loaded[r] EXCEPT
                    !.status = IF @ = "active" THEN "pending_deletion" ELSE "active",
                    !.deletion_requested_at = now])

(* Only a workspace that was active at the gate.                           *)
RequestDeletion(r) ==
    /\ pc[r] = "handler"
    /\ IF loaded[r].status # "active"
       THEN /\ Finish(r, "400")
            /\ UNCHANGED <<workspace, loaded, assigned, audit, now>>
       ELSE Assign(r, [loaded[r] EXCEPT !.status = "pending_deletion",
                                        !.deletion_requested_at = now])

(* Marking a deleted workspace again answers 200 and commits nothing.      *)
MarkDeleted(r) ==
    /\ pc[r] = "handler"
    /\ IF loaded[r].status = "deleted"
       THEN /\ Finish(r, "200")
            /\ UNCHANGED <<workspace, loaded, assigned, audit, now>>
       ELSE Assign(r, [status |-> "deleted", deleted_at |-> now,
                       deletion_requested_at |->
                           IF loaded[r].deletion_requested_at = Null THEN now
                           ELSE loaded[r].deletion_requested_at])

(* Mutant: the whole row is written back.                                  *)
CommitWholeRow(r) ==
    /\ pc[r] = "assigned"
    /\ workspace' = assigned[r]
    /\ audit' = audit \cup {r}
    /\ Finish(r, "200")
    /\ UNCHANGED <<loaded, assigned, now>>

(* The flush, the audit event and the route's commit.                      *)
Commit(r) ==
    /\ pc[r] = "assigned"
    /\ workspace' = Flushed(workspace, loaded[r], assigned[r])
    /\ audit' = audit \cup {r}
    /\ Finish(r, "200")
    /\ UNCHANGED <<loaded, assigned, now>>

(* The process dies, or the database fails, before the commit.             *)
Abort(r) ==
    /\ pc[r] \in {"handler", "assigned"}
    /\ Finish(r, "500")
    /\ UNCHANGED <<workspace, loaded, assigned, audit, now>>

Next ==
    \/ \E r \in Requests : Gate(r) \/ Commit(r) \/ Abort(r)
    \/ \E r \in DeletionRequests : RequestDeletion(r)
    \/ \E r \in MarkRequests : MarkDeleted(r)

Spec == Init /\ [][Next]_vars
-----------------------------------------------------------------------------
(* Properties.                                                             *)

(* Every variable stays in its range.                                      *)
TypeOK ==
    /\ workspace \in Rows
    /\ pc \in [Requests -> {"idle", "handler", "assigned", "done"}]
    /\ loaded \in [Requests -> Rows]
    /\ assigned \in [Requests -> Rows]
    /\ http \in [Requests -> {"none", "200", "400", "500"}]
    /\ audit \subseteq Requests
    /\ now \in Nat

(* Whatever requests race, the status never returns to active: the gate of *)
(* every other route may rely on it (module Ingestion does).               *)
Status == INSTANCE WorkspaceStatus WITH status <- workspace.status
NeverReactivated == Status!Spec

(* Status, time stamps and audit trail tell the same story even when       *)
(* requests race and the status is overwritten: it left "active" with a    *)
(* request time and an audit event of the kind the status calls for, and   *)
(* a workspace that was ever marked deleted keeps its deletion time.       *)
RecordsTellHistory ==
    /\ workspace.status = "active" <=> workspace.deletion_requested_at = Null
    /\ workspace.status = "active" <=> audit = {}
    /\ workspace.status = "pending_deletion" => audit \cap DeletionRequests # {}
    /\ workspace.status = "deleted" => workspace.deleted_at # Null
    /\ workspace.deleted_at # Null <=> audit \cap MarkRequests # {}
=============================================================================
