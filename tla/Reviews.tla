------------------------------ MODULE Reviews ------------------------------
(***************************************************************************)
(* The review workflow (app/reviews/repository.py, app/routes/reviews.py): *)
(* items are created pending and decided by concurrent handlers. A handler *)
(* loads the item into its own session, checks that it is pending, and     *)
(* commits the decision with its audit event in one transaction. Nothing   *)
(* locks the row between the load and the commit, and the UPDATE names     *)
(* only the columns whose value differs from the one that was loaded.      *)
(***************************************************************************)
EXTENDS Naturals, FiniteSets, OrmSession

CONSTANTS
    Items,      \* review items
    Requests,   \* decision requests, each decides one item
    Users,
    Values,     \* non-empty values a field can have
    Comments,
    Original,   \* Original[i]: the value the item was created with
    Null        \* a column that is null, a field the client left out

ASSUME ReviewAssumption ==
    /\ Null \notin Users \cup Values \cup Comments
    /\ Original \in [Items -> Values \cup {Null}]
    /\ Users # {} /\ Items # {}

VARIABLES
    row,        \* row[i]: the committed columns of the item
    pc,         \* pc[d]: where the request's handler is
    ask,        \* ask[d]: the path, the body and the user of the request
    loaded,     \* loaded[d]: the row the handler's session loaded
    http,       \* http[d]: the response
    audit       \* audit events, told apart by the request that wrote them

vars == <<row, pc, ask, loaded, http, audit>>

Decisions == {"approved", "rejected"}
Rows      == [status : {"absent", "pending"} \cup Decisions,
              value : Values \cup {Null}, reviewer : Users \cup {Null},
              comments : Comments \cup {Null}]
Asks      == [item : Items, decision : Decisions, value : Values \cup {Null},
              reviewer : Users \cup {Null}, comments : Comments \cup {Null},
              user : Users]
Events    == [by : Requests, item : Items, type : Decisions,
              actor : Users \cup {Null}, value : Values \cup {Null}]

Blank(s) == [status |-> s, value |-> Null, reviewer |-> Null, comments |-> Null]

Init ==
    /\ row = [i \in Items |-> Blank("absent")]
    /\ pc = [d \in Requests |-> "idle"]
    /\ ask = [d \in Requests |-> CHOOSE a \in Asks : TRUE]
    /\ loaded = [d \in Requests |-> Blank("absent")]
    /\ http = [d \in Requests |-> "none"]
    /\ audit = {}

CreateReviewItem(i) ==
    /\ row[i].status = "absent"
    /\ row' = [row EXCEPT ![i] = Blank("pending")]
    /\ UNCHANGED <<pc, ask, loaded, http, audit>>

Refuse(d, code) ==
    /\ pc' = [pc EXCEPT ![d] = "done"]
    /\ http' = [http EXCEPT ![d] = code]
    /\ UNCHANGED <<row, loaded, audit>>

(* Mutant: the status of the item is not looked at.                        *)
LoadUnchecked(d) ==
    /\ pc[d] = "idle"
    /\ \E a \in Asks :
         /\ ask' = [ask EXCEPT ![d] = a]
         /\ \/ row[a.item].status = "absent" /\ Refuse(d, "404")
            \/ /\ row[a.item].status # "absent"
               /\ loaded' = [loaded EXCEPT ![d] = row[a.item]]
               /\ pc' = [pc EXCEPT ![d] = "deciding"]
               /\ UNCHANGED <<row, http, audit>>

(* get_review_item and the check of its status.                            *)
Load(d) ==
    /\ pc[d] = "idle"
    /\ \E a \in Asks :
         /\ ask' = [ask EXCEPT ![d] = a]
         /\ \/ row[a.item].status = "absent" /\ Refuse(d, "404")
            \/ row[a.item].status \in Decisions /\ Refuse(d, "409")
            \/ /\ row[a.item].status = "pending"
               /\ loaded' = [loaded EXCEPT ![d] = row[a.item]]
               /\ pc' = [pc EXCEPT ![d] = "deciding"]
               /\ UNCHANGED <<row, http, audit>>

(* Mutant: a rejection stores the edited value.                            *)
AssignedKeepsEdit(d) ==
    LET a == ask[d] IN
    [status |-> a.decision,
     value |-> IF a.value # Null THEN a.value ELSE Original[a.item],
     reviewer |-> IF a.reviewer # Null THEN a.reviewer ELSE a.user,
     comments |-> a.comments]

(* What the handler assigns to the item. An approval falls back on the     *)
(* original value and on the authenticated user; a rejection assigns no    *)
(* value and takes the reviewer from the body only.                        *)
Assigned(d) ==
    LET a == ask[d] IN
    IF a.decision = "approved"
    THEN [status |-> "approved",
          value |-> IF a.value # Null THEN a.value ELSE Original[a.item],
          reviewer |-> IF a.reviewer # Null THEN a.reviewer ELSE a.user,
          comments |-> a.comments]
    ELSE [status |-> "rejected", value |-> loaded[d].value,
          reviewer |-> a.reviewer, comments |-> a.comments]

(* Mutant: the event names the authenticated user, not the row's reviewer. *)
CommitAuditsCaller(d) ==
    /\ pc[d] = "deciding"
    /\ LET i == ask[d].item
           new == Assigned(d) IN
       /\ row' = [row EXCEPT ![i] = Flushed(row[i], loaded[d], new)]
       /\ audit' = audit \cup {[by |-> d, item |-> i, type |-> new.status,
                                actor |-> ask[d].user,
                                value |-> IF new.status = "approved"
                                          THEN new.value ELSE Null]}
    /\ pc' = [pc EXCEPT ![d] = "done"]
    /\ http' = [http EXCEPT ![d] = "200"]
    /\ UNCHANGED <<ask, loaded>>

(* The flush and the audit event, in one transaction.                      *)
CommitDecision(d) ==
    /\ pc[d] = "deciding"
    /\ LET i == ask[d].item
           new == Assigned(d) IN
       /\ row' = [row EXCEPT ![i] = Flushed(row[i], loaded[d], new)]
       /\ audit' = audit \cup {[by |-> d, item |-> i, type |-> new.status,
                                actor |-> new.reviewer,
                                value |-> IF new.status = "approved"
                                          THEN new.value ELSE Null]}
    /\ pc' = [pc EXCEPT ![d] = "done"]
    /\ http' = [http EXCEPT ![d] = "200"]
    /\ UNCHANGED <<ask, loaded>>

(* The handler fails or the process dies: nothing is committed.            *)
Abort(d) ==
    /\ pc[d] = "deciding"
    /\ pc' = [pc EXCEPT ![d] = "done"]
    /\ http' = [http EXCEPT ![d] = "500"]
    /\ UNCHANGED <<row, ask, loaded, audit>>

Next ==
    \/ \E i \in Items : CreateReviewItem(i)
    \/ \E d \in Requests : Load(d) \/ CommitDecision(d) \/ Abort(d)

Spec == Init /\ [][Next]_vars
-----------------------------------------------------------------------------
(* Properties.                                                             *)

(* Every variable stays in its range.                                      *)
TypeOK ==
    /\ row \in [Items -> Rows]
    /\ pc \in [Requests -> {"idle", "deciding", "done"}]
    /\ ask \in [Requests -> Asks]
    /\ loaded \in [Requests -> Rows]
    /\ http \in [Requests -> {"none", "200", "404", "409", "500"}]
    /\ audit \subseteq Events

EventsOf(i) == {e \in audit : e.item = i}

Deciding(i) == {d \in Requests : pc[d] = "deciding" /\ ask[d].item = i}

(* A decided item stays decided, and no request that comes later gets past *)
(* the check: only requests that overlapped the first decision can still   *)
(* overwrite it.                                                           *)
DecisionClosesItem ==
    [][\A i \in Items :
          row[i].status \in Decisions =>
              /\ row'[i].status \in Decisions
              /\ Deciding(i)' \subseteq Deciding(i)]_vars

(* Whatever decisions raced, each column of a decided item was committed   *)
(* by an audited decision: an approved item carries a value some approval  *)
(* recorded and a reviewer who approved; a rejected one had a rejection.   *)
ColumnsComeFromEvents ==
    \A i \in Items :
        /\ row[i].status \in Decisions =>
               \E e \in EventsOf(i) : e.type = row[i].status
        /\ row[i].value # Null =>
               \E e \in EventsOf(i) : e.type = "approved" /\ e.value = row[i].value
        /\ row[i].reviewer # Null =>
               \E e \in EventsOf(i) : e.actor = row[i].reviewer
        /\ row[i].status = "approved" =>
               \E e \in EventsOf(i) : e.type = "approved" /\ e.actor = row[i].reviewer

(* With one event the row is that decision, column by column.              *)
LoneDecisionIsTheRow ==
    \A i \in Items : \A e \in EventsOf(i) :
        EventsOf(i) = {e} =>
            /\ row[i].status = e.type
            /\ row[i].reviewer = e.actor
            /\ row[i].value = e.value

(* tests/test_reviews_api.py: an item cannot be approved twice; a second       *)
(* decision is answered 409.                                               *)
DecidedOnce == \A i \in Items : Cardinality(EventsOf(i)) <= 1
=============================================================================
