--------------------------- MODULE Reviews_proofs ---------------------------
(***************************************************************************)
(* Proofs about module Reviews, for any sets of items, requests, users,    *)
(* values and comments.                                                    *)
(***************************************************************************)
EXTENDS Reviews, TLAPS

-----------------------------------------------------------------------------
(* The inductive invariant.                                                *)

(* Until it is decided an item is blank and has no event.                  *)
Undecided ==
    \A i \in Items :
        row[i].status \notin Decisions => row[i] = Blank(row[i].status) /\ EventsOf(i) = {}

(* Every decision in progress was made on the item as it was created, and  *)
(* no request has an event before it is done.                              *)
DecisionsFit ==
    \A d \in Requests :
        /\ pc[d] = "deciding" => loaded[d] = Blank("pending") /\ row[ask[d].item].status # "absent"
        /\ \A e \in audit : e.by = d => pc[d] = "done"

IInv ==
    /\ TypeOK
    /\ Undecided
    /\ DecisionsFit
    /\ ColumnsComeFromEvents
    /\ LoneDecisionIsTheRow

-----------------------------------------------------------------------------
LEMMA BlankRow == \A s \in {"absent", "pending"} : Blank(s) \in Rows /\ Blank(s).status = s
BY DEF Blank, Rows, Decisions

LEMMA BlankColumns == \A s : Blank(s).status = s /\ Blank(s).value = Null /\ Blank(s).reviewer = Null /\ Blank(s).comments = Null
BY DEF Blank

LEMMA InitInv == Init => IInv
<1> SUFFICES ASSUME Init PROVE IInv
  OBVIOUS
<1>1. (CHOOSE a \in Asks : TRUE) \in Asks
  <2>1. PICK u \in Users, i \in Items : TRUE
    BY ReviewAssumption
  <2>2. [item |-> i, decision |-> "approved", value |-> Null, reviewer |-> Null, comments |-> Null, user |-> u] \in Asks
    BY <2>1 DEF Asks, Decisions
  <2> QED BY <2>2
<1>2. TypeOK
  BY <1>1, BlankRow DEF Init, TypeOK
<1>3. \A i \in Items : /\ row[i] = Blank("absent") /\ row[i].status = "absent"
                      /\ row[i].value = Null /\ row[i].reviewer = Null /\ EventsOf(i) = {}
  BY BlankColumns DEF Init, EventsOf
<1>4. Undecided
  BY <1>3 DEF Undecided
<1>5. DecisionsFit
  BY DEF Init, DecisionsFit
<1>6. ColumnsComeFromEvents /\ LoneDecisionIsTheRow
  BY <1>3 DEF ColumnsComeFromEvents, LoneDecisionIsTheRow, Decisions
<1> QED BY <1>2, <1>4, <1>5, <1>6 DEF IInv

-----------------------------------------------------------------------------
LEMMA CreateInv == ASSUME IInv, NEW i \in Items, CreateReviewItem(i) PROVE IInv'
<1>1. /\ row[i].status = "absent" /\ row' = [row EXCEPT ![i] = Blank("pending")]
      /\ pc' = pc /\ ask' = ask /\ loaded' = loaded /\ http' = http /\ audit' = audit
  BY DEF CreateReviewItem
<1>2. row'[i] = Blank("pending") /\ \A j \in Items \ {i} : row'[j] = row[j]
  BY <1>1 DEF IInv, TypeOK
<1>3. row'[i].status = "pending" /\ row'[i].value = Null /\ row'[i].reviewer = Null
  BY <1>2, BlankColumns
<1>4. \A j \in Items : EventsOf(j)' = EventsOf(j)
  BY <1>1 DEF EventsOf
<1>5. EventsOf(i) = {}
  BY <1>1 DEF IInv, Undecided, Decisions
<1>6. TypeOK'
  BY <1>1, BlankRow DEF IInv, TypeOK
<1>7. Undecided'
  BY <1>2, <1>3, <1>4, <1>5 DEF IInv, Undecided
<1>8. DecisionsFit'
  <2> SUFFICES ASSUME NEW d \in Requests
               PROVE  /\ pc[d] = "deciding" => loaded[d] = Blank("pending") /\ row'[ask[d].item].status # "absent"
                      /\ \A e \in audit : e.by = d => pc[d] = "done"
    BY <1>1 DEF DecisionsFit
  <2>1. ask[d].item \in Items
    BY DEF IInv, TypeOK, Asks
  <2> QED BY <1>2, <1>3, <2>1 DEF IInv, DecisionsFit
<1>9. ColumnsComeFromEvents'
  <2> SUFFICES ASSUME NEW j \in Items
               PROVE  /\ row'[j].status \in Decisions => \E e \in EventsOf(j) : e.type = row'[j].status
                      /\ row'[j].value # Null => \E e \in EventsOf(j) : e.type = "approved" /\ e.value = row'[j].value
                      /\ row'[j].reviewer # Null => \E e \in EventsOf(j) : e.actor = row'[j].reviewer
                      /\ row'[j].status = "approved" =>
                             \E e \in EventsOf(j) : e.type = "approved" /\ e.actor = row'[j].reviewer
    BY <1>4 DEF ColumnsComeFromEvents
  <2>1. CASE j = i
    BY <1>3, <2>1 DEF Decisions
  <2>2. CASE j # i
    BY <1>2, <2>2 DEF IInv, ColumnsComeFromEvents
  <2> QED BY <2>1, <2>2
<1>10. LoneDecisionIsTheRow'
  <2> SUFFICES ASSUME NEW j \in Items, NEW e \in EventsOf(j), EventsOf(j) = {e}
               PROVE  row'[j].status = e.type /\ row'[j].reviewer = e.actor /\ row'[j].value = e.value
    BY <1>4 DEF LoneDecisionIsTheRow
  <2>1. j # i
    BY <1>5
  <2> QED BY <1>2, <2>1 DEF IInv, LoneDecisionIsTheRow
<1> QED BY <1>6, <1>7, <1>8, <1>9, <1>10 DEF IInv

(* Steps that leave the rows and the audit trail alone.                    *)
LEMMA QuietStep ==
    ASSUME IInv, TypeOK', row' = row, audit' = audit, DecisionsFit'
    PROVE  IInv'
BY DEF IInv, Undecided, EventsOf, ColumnsComeFromEvents, LoneDecisionIsTheRow

LEMMA LoadInv == ASSUME IInv, NEW d \in Requests, Load(d) PROVE IInv'
<1>1. PICK a \in Asks :
        /\ ask' = [ask EXCEPT ![d] = a]
        /\ \/ row[a.item].status = "absent" /\ Refuse(d, "404")
           \/ row[a.item].status \in Decisions /\ Refuse(d, "409")
           \/ /\ row[a.item].status = "pending"
              /\ loaded' = [loaded EXCEPT ![d] = row[a.item]]
              /\ pc' = [pc EXCEPT ![d] = "deciding"]
              /\ UNCHANGED <<row, http, audit>>
  BY DEF Load
<1>2. pc[d] = "idle" /\ a.item \in Items /\ row' = row /\ audit' = audit
  BY <1>1 DEF Load, Asks, Refuse
<1>3. /\ ask'[d] = a
      /\ \A c \in Requests \ {d} : pc'[c] = pc[c] /\ ask'[c] = ask[c] /\ loaded'[c] = loaded[c]
  BY <1>1 DEF Refuse, IInv, TypeOK
<1>4. TypeOK'
  <2>1. row[a.item] \in Rows
    BY <1>2 DEF IInv, TypeOK
  <2>2. ask' \in [Requests -> Asks]
    BY <1>1 DEF IInv, TypeOK
  <2>3. /\ pc' \in [Requests -> {"idle", "deciding", "done"}]
        /\ loaded' \in [Requests -> Rows]
        /\ http' \in [Requests -> {"none", "200", "404", "409", "500"}]
    BY <1>1, <2>1 DEF Refuse, IInv, TypeOK
  <2> QED BY <1>2, <2>2, <2>3 DEF IInv, TypeOK
<1>5. pc'[d] = "deciding" => loaded'[d] = Blank("pending") /\ row[a.item].status # "absent"
  <2> SUFFICES ASSUME pc'[d] = "deciding"
               PROVE  loaded'[d] = Blank("pending") /\ row[a.item].status # "absent"
    OBVIOUS
  <2>1. row[a.item].status = "pending" /\ loaded' = [loaded EXCEPT ![d] = row[a.item]]
    BY <1>1 DEF Refuse, IInv, TypeOK
  <2>2. row[a.item] = Blank("pending")
    BY <1>2, <2>1 DEF IInv, Undecided, Decisions
  <2> QED BY <2>1, <2>2 DEF IInv, TypeOK
<1>6. \A e \in audit : e.by # d
  BY <1>2 DEF IInv, DecisionsFit
<1>7. DecisionsFit'
  <2> SUFFICES ASSUME NEW c \in Requests
               PROVE  /\ pc'[c] = "deciding" => loaded'[c] = Blank("pending") /\ row[ask'[c].item].status # "absent"
                      /\ \A e \in audit : e.by = c => pc'[c] = "done"
    BY <1>2 DEF DecisionsFit
  <2>1. CASE c = d
    BY <1>3, <1>5, <1>6, <2>1
  <2>2. CASE c # d
    BY <1>3, <2>2 DEF IInv, DecisionsFit
  <2> QED BY <2>1, <2>2
<1> QED BY <1>2, <1>4, <1>7, QuietStep

LEMMA AbortInv == ASSUME IInv, NEW d \in Requests, Abort(d) PROVE IInv'
<1>1. /\ pc' = [pc EXCEPT ![d] = "done"] /\ http' = [http EXCEPT ![d] = "500"]
      /\ row' = row /\ ask' = ask /\ loaded' = loaded /\ audit' = audit
  BY DEF Abort
<1>2. TypeOK'
  BY <1>1 DEF IInv, TypeOK
<1>3. DecisionsFit'
  BY <1>1 DEF IInv, TypeOK, DecisionsFit
<1> QED BY <1>1, <1>2, <1>3, QuietStep

-----------------------------------------------------------------------------
(* What a decision writes, and the row it leaves.                          *)
LEMMA AssignedColumns ==
    ASSUME IInv, NEW d \in Requests, pc[d] = "deciding"
    PROVE  /\ Assigned(d) \in Rows
           /\ Assigned(d).status \in Decisions
           /\ Assigned(d).status = "approved" => Assigned(d).reviewer # Null
           /\ Assigned(d).status = "rejected" => Assigned(d).value = Null
<1> DEFINE a == ask[d]
<1>1. /\ a \in Asks /\ a.item \in Items /\ a.decision \in Decisions /\ a.value \in Values \cup {Null}
      /\ a.reviewer \in Users \cup {Null} /\ a.comments \in Comments \cup {Null} /\ a.user \in Users
  BY DEF IInv, TypeOK, Asks
<1>2. Null \notin Users /\ Original[a.item] \in Values \cup {Null}
  BY <1>1, ReviewAssumption
<1>3. loaded[d].value = Null
  BY BlankColumns DEF IInv, DecisionsFit
<1> HIDE DEF a
<1>4. CASE a.decision = "approved"
  <2>1. Assigned(d) = [status |-> "approved",
                       value |-> IF a.value # Null THEN a.value ELSE Original[a.item],
                       reviewer |-> IF a.reviewer # Null THEN a.reviewer ELSE a.user,
                       comments |-> a.comments]
    BY <1>4 DEF Assigned, a
  <2> QED BY <1>1, <1>2, <2>1 DEF Rows, Decisions
<1>5. CASE a.decision # "approved"
  <2>1. Assigned(d) = [status |-> "rejected", value |-> loaded[d].value,
                       reviewer |-> a.reviewer, comments |-> a.comments]
    BY <1>5 DEF Assigned, a
  <2> QED BY <1>1, <1>2, <1>3, <2>1 DEF Rows, Decisions
<1> QED BY <1>4, <1>5

LEMMA FlushedColumns ==
    ASSUME NEW current \in Rows, NEW new \in Rows, new.status \in Decisions
    PROVE  /\ Flushed(current, Blank("pending"), new) \in Rows
           /\ Flushed(current, Blank("pending"), new).status = new.status
           /\ Flushed(current, Blank("pending"), new).value = IF new.value = Null THEN current.value ELSE new.value
           /\ Flushed(current, Blank("pending"), new).reviewer =
                  IF new.reviewer = Null THEN current.reviewer ELSE new.reviewer
BY DEF Flushed, Rows, Blank, Decisions

(* The event a decision commits.                                           *)
EventBy(d) == [by |-> d, item |-> ask[d].item, type |-> Assigned(d).status, actor |-> Assigned(d).reviewer,
               value |-> IF Assigned(d).status = "approved" THEN Assigned(d).value ELSE Null]

LEMMA CommitColumns ==
    ASSUME IInv, NEW d \in Requests, CommitDecision(d), NEW i \in Items, i = ask[d].item
    PROVE  LET new == Assigned(d)
           IN  /\ row' \in [Items -> Rows] /\ \A j \in Items \ {i} : row'[j] = row[j]
               /\ row'[i].status = new.status
               /\ row'[i].value = IF new.value = Null THEN row[i].value ELSE new.value
               /\ row'[i].reviewer = IF new.reviewer = Null THEN row[i].reviewer ELSE new.reviewer
               /\ EventBy(d) \in Events /\ audit' = audit \cup {EventBy(d)}
               /\ EventsOf(i)' = EventsOf(i) \cup {EventBy(d)}
               /\ \A j \in Items \ {i} : EventsOf(j)' = EventsOf(j)
<1> DEFINE new == Assigned(d)
<1>1. pc[d] = "deciding" /\ row[i] \in Rows /\ loaded[d] = Blank("pending")
  BY DEF CommitDecision, IInv, TypeOK, Asks, DecisionsFit
<1>2. new \in Rows /\ new.status \in Decisions
  BY <1>1, AssignedColumns
<1>3. row' = [row EXCEPT ![i] = Flushed(row[i], loaded[d], new)] /\ audit' = audit \cup {EventBy(d)}
  BY DEF CommitDecision, EventBy
<1>4. EventBy(d) \in Events /\ EventBy(d).item = i
  BY <1>1, <1>2 DEF EventBy, Events, Rows
<1>5. EventsOf(i)' = EventsOf(i) \cup {EventBy(d)} /\ \A j \in Items \ {i} : EventsOf(j)' = EventsOf(j)
  <2> QED BY <1>3, <1>4 DEF EventsOf
<1> HIDE DEF new
<1>6. Flushed(row[i], loaded[d], new) \in Rows
  BY <1>1, <1>2, FlushedColumns
<1>7. row' \in [Items -> Rows] /\ row'[i] = Flushed(row[i], loaded[d], new) /\ \A j \in Items \ {i} : row'[j] = row[j]
  BY <1>1, <1>3, <1>6 DEF IInv, TypeOK
<1>8. /\ row'[i].status = new.status
      /\ row'[i].value = IF new.value = Null THEN row[i].value ELSE new.value
      /\ row'[i].reviewer = IF new.reviewer = Null THEN row[i].reviewer ELSE new.reviewer
  BY <1>1, <1>2, <1>7, FlushedColumns
<1> QED BY <1>1, <1>3, <1>4, <1>5, <1>7, <1>8 DEF new

LEMMA CommitInv == ASSUME IInv, NEW d \in Requests, CommitDecision(d) PROVE IInv'
<1> PICK i \in Items : i = ask[d].item
  BY DEF IInv, TypeOK, Asks
<1> DEFINE new == Assigned(d)
           event == EventBy(d)
<1>1. /\ row' \in [Items -> Rows] /\ \A j \in Items \ {i} : row'[j] = row[j]
      /\ row'[i].status = new.status
      /\ row'[i].value = IF new.value = Null THEN row[i].value ELSE new.value
      /\ row'[i].reviewer = IF new.reviewer = Null THEN row[i].reviewer ELSE new.reviewer
      /\ event \in Events /\ audit' = audit \cup {event}
      /\ EventsOf(i)' = EventsOf(i) \cup {event}
      /\ \A j \in Items \ {i} : EventsOf(j)' = EventsOf(j)
  BY CommitColumns
<1>2. /\ pc[d] = "deciding" /\ pc' = [pc EXCEPT ![d] = "done"] /\ http' = [http EXCEPT ![d] = "200"]
      /\ ask' = ask /\ loaded' = loaded
  BY DEF CommitDecision
<1>3. /\ new.status \in Decisions
      /\ new.status = "approved" => new.reviewer # Null
      /\ new.status = "rejected" => new.value = Null
  BY <1>2, AssignedColumns
<1>4. /\ event.type = new.status /\ event.actor = new.reviewer /\ event.by = d
      /\ event.value = IF new.status = "approved" THEN new.value ELSE Null
  BY DEF EventBy
<1> HIDE DEF new, event
<1>5. TypeOK'
  BY <1>1, <1>2 DEF IInv, TypeOK
<1>6. Undecided'
  <2> SUFFICES ASSUME NEW j \in Items, row'[j].status \notin Decisions
               PROVE  row'[j] = Blank(row'[j].status) /\ EventsOf(j)' = {}
    BY DEF Undecided
  <2>1. j # i
    BY <1>1, <1>3
  <2> QED BY <1>1, <2>1 DEF IInv, Undecided
<1>7. DecisionsFit'
  <2> SUFFICES ASSUME NEW c \in Requests
               PROVE  /\ pc'[c] = "deciding" => loaded[c] = Blank("pending") /\ row'[ask[c].item].status # "absent"
                      /\ \A e \in audit' : e.by = c => pc'[c] = "done"
    BY <1>2 DEF DecisionsFit
  <2>1. ask[c].item \in Items /\ new.status # "absent"
    BY <1>3 DEF IInv, TypeOK, Asks, Decisions
  <2>2. pc'[c] = "deciding" => pc[c] = "deciding"
    BY <1>2 DEF IInv, TypeOK
  <2>3. pc'[c] = "deciding" => loaded[c] = Blank("pending") /\ row'[ask[c].item].status # "absent"
    BY <1>1, <2>1, <2>2 DEF IInv, DecisionsFit
  <2>4. ASSUME NEW e \in audit', e.by = c PROVE pc'[c] = "done"
    BY <1>1, <1>2, <1>4, <2>4 DEF IInv, DecisionsFit, TypeOK
  <2> QED BY <2>3, <2>4
<1>8. ColumnsComeFromEvents'
  <2> SUFFICES ASSUME NEW j \in Items
               PROVE  /\ row'[j].status \in Decisions => \E e \in EventsOf(j)' : e.type = row'[j].status
                      /\ row'[j].value # Null => \E e \in EventsOf(j)' : e.type = "approved" /\ e.value = row'[j].value
                      /\ row'[j].reviewer # Null => \E e \in EventsOf(j)' : e.actor = row'[j].reviewer
                      /\ row'[j].status = "approved" =>
                             \E e \in EventsOf(j)' : e.type = "approved" /\ e.actor = row'[j].reviewer
    BY DEF ColumnsComeFromEvents
  <2>1. CASE j # i
    BY <1>1, <2>1 DEF IInv, ColumnsComeFromEvents
  <2>2. CASE j = i
    <3>1. event \in EventsOf(j)' /\ \A e \in EventsOf(i) : e \in EventsOf(j)'
      BY <1>1, <2>2
    <3>2. row'[j].value # Null => \E e \in EventsOf(j)' : e.type = "approved" /\ e.value = row'[j].value
      <4>1. CASE new.value = Null
        BY <1>1, <2>2, <3>1, <4>1 DEF IInv, ColumnsComeFromEvents
      <4>2. CASE new.value # Null
        BY <1>1, <1>3, <1>4, <2>2, <3>1, <4>2 DEF Decisions
      <4> QED BY <4>1, <4>2
    <3>3. row'[j].reviewer # Null => \E e \in EventsOf(j)' : e.actor = row'[j].reviewer
      <4>1. CASE new.reviewer = Null
        BY <1>1, <2>2, <3>1, <4>1 DEF IInv, ColumnsComeFromEvents
      <4>2. CASE new.reviewer # Null
        BY <1>1, <1>4, <2>2, <3>1, <4>2
      <4> QED BY <4>1, <4>2
    <3> QED BY <1>1, <1>3, <1>4, <2>2, <3>1, <3>2, <3>3
  <2> QED BY <2>1, <2>2
<1>9. LoneDecisionIsTheRow'
  <2> SUFFICES ASSUME NEW j \in Items, NEW e \in EventsOf(j)', EventsOf(j)' = {e}
               PROVE  row'[j].status = e.type /\ row'[j].reviewer = e.actor /\ row'[j].value = e.value
    BY DEF LoneDecisionIsTheRow
  <2>1. CASE j # i
    BY <1>1, <2>1 DEF IInv, LoneDecisionIsTheRow
  <2>2. CASE j = i
    <3>1. e = event /\ EventsOf(i) \subseteq {event}
      BY <1>1, <2>2
    <3>2. event \notin audit
      BY <1>2, <1>4 DEF IInv, DecisionsFit
    <3>3. EventsOf(i) = {}
      BY <3>1, <3>2 DEF EventsOf
    <3>4. row[i].status \notin Decisions
      BY <1>1, <3>3 DEF IInv, ColumnsComeFromEvents
    <3>5. row[i].value = Null /\ row[i].reviewer = Null
      BY <1>1, <3>4, BlankColumns DEF IInv, Undecided
    <3> QED BY <1>1, <1>3, <1>4, <2>2, <3>1, <3>5 DEF Decisions
  <2> QED BY <2>1, <2>2
<1> QED BY <1>5, <1>6, <1>7, <1>8, <1>9 DEF IInv

-----------------------------------------------------------------------------
LEMMA NextInv == IInv /\ [Next]_vars => IInv'
<1> SUFFICES ASSUME IInv, [Next]_vars PROVE IInv'
  OBVIOUS
<1>1. CASE UNCHANGED vars
  <2>1. row' = row /\ audit' = audit /\ TypeOK' /\ DecisionsFit'
    BY <1>1 DEF vars, IInv, TypeOK, DecisionsFit
  <2> QED BY <2>1, QuietStep
<1>2. ASSUME NEW i \in Items, CreateReviewItem(i) PROVE IInv'
  BY <1>2, CreateInv
<1>3. ASSUME NEW d \in Requests, Load(d) PROVE IInv'
  BY <1>3, LoadInv
<1>4. ASSUME NEW d \in Requests, CommitDecision(d) PROVE IInv'
  BY <1>4, CommitInv
<1>5. ASSUME NEW d \in Requests, Abort(d) PROVE IInv'
  BY <1>5, AbortInv
<1> QED BY <1>1, <1>2, <1>3, <1>4, <1>5 DEF Next

LEMMA AlwaysFits == Spec => []IInv
BY InitInv, NextInv, PTL DEF Spec

(* Every variable stays in its range.                                      *)
THEOREM ReviewsTypeCorrect == Spec => []TypeOK
<1>1. IInv => TypeOK
  BY DEF IInv
<1> QED BY <1>1, AlwaysFits, PTL

(* Whatever decisions race, every column of a decided item comes from an   *)
(* audited decision (app/reviews/repository.py, approve and reject).       *)
THEOREM ColumnsAlwaysComeFromEvents == Spec => []ColumnsComeFromEvents
<1>1. IInv => ColumnsComeFromEvents
  BY DEF IInv
<1> QED BY <1>1, AlwaysFits, PTL

(* An item with one event is that decision, column by column.              *)
THEOREM LoneDecisionAlwaysTheRow == Spec => []LoneDecisionIsTheRow
<1>1. IInv => LoneDecisionIsTheRow
  BY DEF IInv
<1> QED BY <1>1, AlwaysFits, PTL

(* A decided item stays decided and lets no later request past the check.  *)
THEOREM DecisionAlwaysClosesItem == Spec => DecisionClosesItem
<1> DEFINE Closes == \A i \in Items :
                         row[i].status \in Decisions =>
                             /\ row'[i].status \in Decisions
                             /\ Deciding(i)' \subseteq Deciding(i)
<1>1. ASSUME IInv, [Next]_vars PROVE [Closes]_vars
  <2> SUFFICES ASSUME Next, NEW i \in Items, row[i].status \in Decisions
               PROVE  row'[i].status \in Decisions /\ Deciding(i)' \subseteq Deciding(i)
    BY <1>1
  <2>1. ASSUME NEW j \in Items, CreateReviewItem(j)
        PROVE  row'[i].status \in Decisions /\ Deciding(i)' \subseteq Deciding(i)
    <3>1. j # i
      BY <2>1 DEF CreateReviewItem, Decisions
    <3> QED BY <1>1, <2>1, <3>1 DEF CreateReviewItem, Deciding, IInv, TypeOK
  <2>2. ASSUME NEW d \in Requests, Load(d)
        PROVE  row'[i].status \in Decisions /\ Deciding(i)' \subseteq Deciding(i)
    <3>1. PICK a \in Asks :
            /\ ask' = [ask EXCEPT ![d] = a]
            /\ \/ Refuse(d, "404") \/ Refuse(d, "409")
               \/ /\ row[a.item].status = "pending"
                  /\ pc' = [pc EXCEPT ![d] = "deciding"]
                  /\ UNCHANGED <<row, http, audit>>
      BY <2>2 DEF Load
    <3>2. row' = row
      BY <3>1 DEF Refuse
    <3>3. ASSUME NEW c \in Deciding(i)' PROVE c \in Deciding(i)
      <4>1. c \in Requests /\ pc'[c] = "deciding" /\ ask'[c].item = i
        BY <3>3 DEF Deciding
      <4>2. c # d
        BY <1>1, <3>1, <4>1 DEF Refuse, Decisions, IInv, TypeOK
      <4>3. pc'[c] = pc[c] /\ ask'[c] = ask[c]
        BY <1>1, <3>1, <4>1, <4>2 DEF Refuse, IInv, TypeOK
      <4> QED BY <4>1, <4>3 DEF Deciding
    <3> QED BY <3>2, <3>3
  <2>3. ASSUME NEW d \in Requests, CommitDecision(d)
        PROVE  row'[i].status \in Decisions /\ Deciding(i)' \subseteq Deciding(i)
    <3>1. pc[d] = "deciding" /\ pc' = [pc EXCEPT ![d] = "done"] /\ ask' = ask
      BY <2>3 DEF CommitDecision
    <3>2. Deciding(i)' \subseteq Deciding(i)
      BY <1>1, <3>1 DEF Deciding, IInv, TypeOK
    <3>3. Assigned(d).status \in Decisions
      BY <1>1, <3>1, AssignedColumns
    <3>4. row'[i] = row[i] \/ row'[i].status = Assigned(d).status
      <4>1. PICK j \in Items : j = ask[d].item
        BY <1>1 DEF IInv, TypeOK, Asks
      <4>2. row'[j].status = Assigned(d).status /\ \A k \in Items \ {j} : row'[k] = row[k]
        BY <1>1, <2>3, <4>1, CommitColumns
      <4> QED BY <4>2
    <3> QED BY <3>2, <3>3, <3>4
  <2>4. ASSUME NEW d \in Requests, Abort(d)
        PROVE  row'[i].status \in Decisions /\ Deciding(i)' \subseteq Deciding(i)
    BY <1>1, <2>4 DEF Abort, Deciding, IInv, TypeOK
  <2> QED BY <2>1, <2>2, <2>3, <2>4 DEF Next
<1> QED BY <1>1, AlwaysFits, PTL DEF Spec, DecisionClosesItem
=============================================================================
