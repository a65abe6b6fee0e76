-------------------------- MODULE WorkspaceStatus --------------------------
(***************************************************************************)
(* What the rest of the system may rely on of a workspace's lifecycle: it  *)
(* starts active, and once it has left that status it never returns to it. *)
(* Nothing more is promised: see WorkspaceLifecycle for the handlers.      *)
(***************************************************************************)
VARIABLE status

Statuses == {"active", "pending_deletion", "deleted"}

Init == status = "active"

Leave == \E s \in Statuses \ {"active", status} : status' = s

Spec == Init /\ [][Leave]_status
=============================================================================
