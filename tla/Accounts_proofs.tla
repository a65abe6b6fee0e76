--------------------------- MODULE Accounts_proofs ---------------------------
(***************************************************************************)
(* For any requests and addresses: a registration leaves everything or     *)
(* nothing, no demand meets a workspace without a subscription, the plan   *)
(* is the last audited one, admins come from the script.                   *)
(***************************************************************************)
EXTENDS Accounts, TLAPS

-----------------------------------------------------------------------------
(* The inductive invariant *)

Places == at \in [Requests -> Underway \cup Answers \cup {"idle"}] /\ tx = [r \in Requests |-> tx[r]]

Types ==
    /\ Places
    /\ users \in [Emails -> Users \cup {Nobody}]
    /\ spaces \subseteq [id : SpaceIds, owner : Ids, dev : BOOLEAN]
    /\ members \subseteq [space : SpaceIds, user : Ids, role : {"owner", "member"}]
    /\ plan \in [SpaceIds -> PlanNames \cup {"none"}]
    /\ clock \in Nat
    /\ key \in [Emails -> SUBSET Requests]
    /\ lock \in [SpaceIds -> SUBSET Requests]

\* Only one request has flushed a user of an address nobody has, or a change
\* of a workspace's plan.
Locks ==
    /\ \A e \in Emails : (\A p, q \in key[e] : p = q) /\ (key[e] # {} => users[e] = Nobody)
    /\ \A s \in SpaceIds : \A p, q \in lock[s] : p = q

Exists(s) == \E w \in spaces : w.id = s

\* Every workspace has a plan.
Planned == \A w \in spaces : plan[w.id] # "none"

\* Events of plan changes have passed and are about a workspace.
Past == \A e \in audit : e.type = "plan_changed" => e.stamp \in Nat /\ e.stamp < clock /\ Exists(e.space)

\* Where nothing is left to commit.
Settled == Answers \cup {"saved"}

Account(r) == at[r] \in {"new user", "find workspace", "save"}
Managing(r) == at[r] \in {"admitted", "change", "changed"}

\* What a request on its way to an account knows: its address is its own, by
\* the key or because its user is already there.
KnowsAccount(r) ==
    Account(r) =>
        /\ tx[r] \in [kind : {"register", "dev_script", "admin_script"}, email : Emails, space : SpaceIds, user : Users]
        /\ tx[r].kind = "admin_script" => tx[r].email = AdminEmail
        /\ tx[r].kind = "dev_script" => tx[r].email = DevEmail
        /\ tx[r].space = r \/ Exists(tx[r].space)
        /\ at[r] = "new user" => tx[r].user.id = r
        /\ at[r] # "new user" =>
              \/ r \in key[tx[r].email] /\ tx[r].user.id = r
              \/ /\ tx[r].kind # "register" /\ users[tx[r].email] # Nobody
                 /\ users[tx[r].email].id = tx[r].user.id

Owner(space, user) == [space |-> space, user |-> user, role |-> "owner"]

\* What a request past the gate knows: its workspace exists; who changes a
\* plan owns it, and is the next to be audited once it has the row.
KnowsPlan(r) ==
    Managing(r) =>
        /\ tx[r] \in [kind : {"plan", "demand"}, user : Users, space : SpaceIds, want : PlanNames \cup {"unknown", "none"},
                      copy : PlanNames \cup {"none"}, stamp : Nat]
        /\ Exists(tx[r].space)
        /\ tx[r].kind = "plan" => Owner(tx[r].space, tx[r].user.id) \in members
        /\ at[r] # "admitted" => tx[r].kind = "plan" /\ tx[r].want \in PlanNames
        /\ at[r] = "changed" =>
              /\ r \in lock[tx[r].space] /\ tx[r].stamp < clock
              /\ \A e \in Changes(tx[r].space) : e.stamp < tx[r].stamp

KnowsLogin(r) == at[r] = "greet" => "kind" \in DOMAIN tx[r] /\ tx[r].kind = "login"
\* What is left of it after the commit.
KnowsAnswer(r) ==
    at[r] = "saved" =>
        /\ "kind" \in DOMAIN tx[r] /\ tx[r].kind # "oversee"
        /\ tx[r].kind = "register" => "email" \in DOMAIN tx[r]
Knows(r) == KnowsAccount(r) /\ KnowsPlan(r) /\ KnowsLogin(r) /\ KnowsAnswer(r)

Registered(r) == Event("registered", r, r, "none", "none")

\* Nothing r makes is there.
Traceless(r) ==
    /\ \A e \in Emails : users[e] # Nobody => users[e].id # r
    /\ ~Exists(r)
    /\ \A m \in members : m.space # r
    /\ plan[r] = "none"
    /\ Registered(r) \notin audit

\* All of it is.
Made(r, e) ==
    /\ users[e] # Nobody /\ users[e].id = r
    /\ [id |-> r, owner |-> r, dev |-> FALSE] \in spaces
    /\ Owner(r, r) \in members
    /\ plan[r] # "none"
    /\ Registered(r) \in audit

Truth(r) ==
    /\ at[r] \notin Settled => Traceless(r)
    /\ at[r] \in Settled /\ tx[r].kind = "register" =>
          /\ tx[r].email \in Emails
          /\ Traceless(r) \/ Made(r, tx[r].email)
          /\ at[r] \in {"201", "saved"} => Made(r, tx[r].email)
          /\ at[r] = "409" => Traceless(r)

Runs(where) == \E r \in Requests : at[r] \in where /\ tx[r].kind = "admin_script"
Ready == Runs({"saved", "ready"})
Begun == Runs({"saved", "ready", "500"})

\* The admins, one address at a time.
Rights ==
    /\ \A e \in Emails : users[e] # Nobody /\ users[e].admin => e = AdminEmail /\ Begun
    /\ Ready => users[AdminEmail] # Nobody /\ users[AdminEmail].admin
    /\ \A r \in Requests : at[r] = "200" /\ tx[r].kind = "oversee" =>
          tx[r].email \in Emails /\ users[tx[r].email] # Nobody /\ users[tx[r].email].admin

IInv ==
    /\ Types /\ Locks /\ Planned /\ Past /\ Rights
    /\ SubscriptionsPrecedeDemand /\ PlanIsLastAudited
    /\ \A r \in Requests : Knows(r) /\ Truth(r)

-----------------------------------------------------------------------------
(* What any step of a request does to the others *)

\* Users stay who they are, rows stay, workspaces keep having a plan.
Grows ==
    /\ \A e \in Emails : users[e] # Nobody => users'[e] # Nobody /\ users'[e].id = users[e].id
    /\ spaces \subseteq spaces' /\ members \subseteq members' /\ audit \subseteq audit'
    /\ \A s \in SpaceIds : plan[s] # "none" => plan'[s] # "none"
    /\ clock <= clock'

\* What is new belongs to r.
AddsOwn(r) ==
    /\ \A e \in Emails : users'[e] # Nobody => users'[e].id = r \/ (users[e] # Nobody /\ users'[e].id = users[e].id)
    /\ \A w \in spaces' \ spaces : w.id = r
    /\ \A m \in members' \ members : m.space = r
    /\ \A s \in SpaceIds \ {r} : plan[s] = "none" => plan'[s] = "none"
    /\ \A e \in audit' \ audit : e.type = "registered" => e.space = r

\* Nobody else moves, loses a lock or is overtaken.
Acts(r) ==
    /\ \A q \in Requests \ {r} : at'[q] = at[q] /\ tx'[q] = tx[q]
    /\ \A e \in Emails : key[e] \ {r} \subseteq key'[e]
    /\ \A s \in SpaceIds : lock[s] \ {r} \subseteq lock'[s]
    /\ \A e \in audit' \ audit : e.type = "plan_changed" => r \in lock[e.space]

LEMMA OthersKeep ==
    ASSUME IInv, NEW r \in Requests, NEW q \in Requests \ {r}, Grows, AddsOwn(r), Acts(r), Types'
    PROVE  Knows(q)' /\ Truth(q)'
<1> USE DEF Acts
<1>1. at'[q] = at[q] /\ tx'[q] = tx[q] /\ Knows(q) /\ Truth(q)
  BY DEF IInv
<1>2. KnowsAccount(q)'
  BY <1>1 DEF Knows, KnowsAccount, Account, Grows, Exists
<1>3. KnowsPlan(q)'
  <2>1. SUFFICES ASSUME Managing(q) PROVE KnowsPlan(q)'
    BY <1>1 DEF KnowsPlan, Managing
  <2>2. Exists(tx[q].space)'
    BY <1>1, <2>1 DEF Knows, KnowsPlan, Exists, Grows
  <2>3. tx[q].kind = "plan" => Owner(tx[q].space, tx[q].user.id) \in members'
    BY <1>1, <2>1 DEF Knows, KnowsPlan, Grows
  <2>4. ASSUME at[q] = "changed"
        PROVE  /\ q \in lock'[tx[q].space] /\ tx[q].stamp < clock'
               /\ \A e \in Changes(tx[q].space)' : e.stamp < tx[q].stamp
    <3>1. q \in lock[tx[q].space] /\ tx[q].space \in SpaceIds /\ tx[q].stamp < clock /\ tx[q].stamp \in Nat
      BY <1>1, <2>1, <2>4 DEF Knows, KnowsPlan
    <3>2. r \notin lock[tx[q].space]
      BY <3>1 DEF IInv, Locks
    <3>3. Changes(tx[q].space)' \subseteq Changes(tx[q].space)
      BY <3>2 DEF Changes
    <3>4. clock \in Nat /\ clock' \in Nat /\ clock <= clock'
      BY DEF IInv, Types, Grows
    <3> QED
      BY <1>1, <2>1, <2>4, <3>1, <3>3, <3>4 DEF Knows, KnowsPlan
  <2> QED
    BY <1>1, <2>1, <2>2, <2>3, <2>4 DEF Knows, KnowsPlan, Managing
<1>4. KnowsLogin(q)'
  BY <1>1 DEF Knows, KnowsLogin
<1>5. ASSUME Traceless(q) PROVE Traceless(q)'
  <2>1. Traceless(q)
    BY <1>5
  <2>2. Registered(q) \notin audit'
    BY <2>1 DEF AddsOwn, Traceless, Registered, Event
  <2>3. plan'[q] = "none" /\ ~Exists(q)' /\ \A m \in members' : m.space # q
    BY <2>1 DEF AddsOwn, Traceless, SpaceIds, Exists
  <2>4. \A e \in Emails : users'[e] # Nobody => users'[e].id # q
    BY <2>1 DEF AddsOwn, Traceless
  <2> QED BY <2>2, <2>3, <2>4 DEF Traceless
<1>6. ASSUME NEW e \in Emails, Made(q, e) PROVE Made(q, e)'
  BY <1>6 DEF Made, Grows, SpaceIds
<1>7. Truth(q)'
  BY <1>1, <1>5, <1>6 DEF Truth
<1>8. KnowsAnswer(q)'
  BY <1>1 DEF Knows, KnowsAnswer
<1> QED
  BY <1>2, <1>3, <1>4, <1>7, <1>8 DEF Knows

-----------------------------------------------------------------------------
(* Steps that commit nothing *)

\* How r ends, if it does.
Ends(r) ==
    /\ at'[r] \notin {"201", "ready", "saved"}
    /\ at'[r] \in Answers /\ tx'[r].kind = "register" => tx'[r].email \in Emails
    /\ at'[r] = "200" /\ tx'[r].kind = "oversee" =>
          tx'[r].email \in Emails /\ users[tx'[r].email] # Nobody /\ users[tx'[r].email].admin

\* Who has run the script or is about to be told, when r is not among them.
LEMMA RunsStay ==
    ASSUME NEW r \in Requests, Acts(r), at[r] \notin Settled,
           at'[r] # "saved" \/ tx'[r].kind # "admin_script", at'[r] # "ready"
    PROVE  (Ready' <=> Ready) /\ (Begun => Begun')
<1>1. at[r] \notin {"saved", "ready", "500"}
  BY DEF Settled, Answers
<1>2. Ready' <=> Ready
  BY <1>1 DEF Ready, Runs, Acts
<1>3. Begun => Begun'
  BY <1>1 DEF Begun, Runs, Acts
<1> QED BY <1>2, <1>3

\* Nothing committed changes hands, so the rights do not either.
LEMMA RightsStay ==
    ASSUME IInv, NEW r \in Requests, users' = users, Acts(r), Ready' => Ready, Begun => Begun',
           at'[r] = "200" /\ tx'[r].kind = "oversee" =>
              tx'[r].email \in Emails /\ users[tx'[r].email] # Nobody /\ users[tx'[r].email].admin
    PROVE  Rights'
<1>1. \A e \in Emails : users'[e] # Nobody /\ users'[e].admin => e = AdminEmail /\ Begun'
  BY DEF IInv, Rights
<1>2. Ready' => users'[AdminEmail] # Nobody /\ users'[AdminEmail].admin
  BY DEF IInv, Rights
<1>3. ASSUME NEW q \in Requests, at'[q] = "200", tx'[q].kind = "oversee"
      PROVE  tx'[q].email \in Emails /\ users'[tx'[q].email] # Nobody /\ users'[tx'[q].email].admin
  <2>1. CASE q = r  BY <1>3, <2>1
  <2>2. CASE q # r  BY <1>3, <2>2 DEF Acts, IInv, Rights
  <2> QED BY <2>1, <2>2
<1> QED BY <1>1, <1>2, <1>3 DEF Rights

LEMMA QuietStep ==
    ASSUME IInv, NEW r \in Requests, at[r] \notin Settled, UNCHANGED rows, clock <= clock', Acts(r), Ends(r),
           Types', Locks', Knows(r)'
    PROVE  IInv'
<1>1. Grows /\ AddsOwn(r)
  BY DEF Grows, AddsOwn, rows, IInv, Types
<1>2. \A q \in Requests \ {r} : Knows(q)' /\ Truth(q)'
  BY <1>1, OthersKeep
<1>3. Truth(r)'
  <2>1. Traceless(r)
    BY DEF IInv, Truth
  <2>2. Traceless(r)'
    BY <2>1 DEF Traceless, rows, Exists
  <2> QED BY <2>2 DEF Truth, Ends, Settled
<1>4. Planned' /\ Past' /\ SubscriptionsPrecedeDemand' /\ PlanIsLastAudited'
  BY DEF IInv, Types, rows, Planned, Past, Exists, SubscriptionsPrecedeDemand, PlanIsLastAudited, Changes
<1>5. Rights'
  <2>1. (Ready' <=> Ready) /\ (Begun => Begun')
    BY RunsStay DEF Ends
  <2>2. users' = users
    BY DEF rows
  <2> QED BY <2>1, <2>2, RightsStay DEF Ends
<1> QED
  BY <1>2, <1>3, <1>4, <1>5 DEF IInv

\* What Go makes of a request and of its knowledge.
LEMMA GoTells ==
    ASSUME IInv, NEW r \in Requests, NEW where \in Underway \cup Answers, NEW k, Go(r, where, k)
    PROVE  /\ Places'
           /\ at'[r] = where
           /\ \A q \in Requests \ {r} : at'[q] = at[q] /\ tx'[q] = tx[q]
           /\ where \notin Answers => tx'[r] = k
           /\ where \in Answers => /\ "kind" \in DOMAIN k => tx'[r].kind = k.kind
                                   /\ "email" \in DOMAIN k => tx'[r].email = k.email
<1>1. Places
  BY DEF IInv, Types
<1> QED
  BY <1>1 DEF Go, Restrict, Places

LEMMA ClockStays ==
    ASSUME IInv, clock' = clock
    PROVE  clock <= clock'
BY DEF IInv, Types

\* A step that only moves the request.
LEMMA OnlyMoves ==
    ASSUME IInv, NEW r \in Requests, at[r] \notin Settled,
           NEW where \in Underway \cup Answers, NEW k, Go(r, where, k),
           UNCHANGED << rows, clock, key, lock >>, Ends(r), Knows(r)'
    PROVE  IInv'
<1>1. Acts(r) /\ Types'
  BY GoTells DEF Acts, IInv, Types, rows
<1>2. Locks' /\ clock <= clock'
  BY DEF IInv, Locks, Types, rows
<1> QED
  BY <1>1, <1>2, QuietStep

-----------------------------------------------------------------------------
(* The steps, one by one *)

LEMMA LookupStep ==
    ASSUME IInv, NEW r \in Requests, NEW kind \in {"register", "dev_script", "admin_script"},
           NEW e \in Emails, Lookup(r, kind, e)
    PROVE  IInv'
<1> DEFINE where == IF users[e] = Nobody THEN "new user" ELSE Existing(kind)
           k == [kind |-> kind, email |-> e, space |-> r,
                 user |-> IF users[e] = Nobody THEN User(r, "none", FALSE) ELSE users[e]]
<1>1. Go(r, where, k) /\ at[r] = "idle" /\ UNCHANGED << rows, clock, key, lock >>
  BY DEF Lookup
<1>2. /\ where = "new user" <=> users[e] = Nobody
      /\ where \in {"new user", "409", "find workspace", "save"}
      /\ where \in {"find workspace", "save"} => kind # "register"
  BY DEF Existing, Inserted
<1>3. where \in Underway \cup Answers /\ (where \in Answers <=> where = "409") /\ at[r] \notin Settled
  BY <1>1, <1>2 DEF Underway, Answers, Settled
<1>4. k \in [kind : {"register", "dev_script", "admin_script"}, email : Emails, space : SpaceIds, user : Users]
  BY DEF IInv, Types, User, Users, Ids, SpaceIds
<1>5. /\ at'[r] = where
      /\ where \notin Answers => tx'[r] = k
      /\ where \in Answers => tx'[r].kind = kind /\ tx'[r].email = e
  <2>1. "kind" \in DOMAIN k /\ "email" \in DOMAIN k /\ k.kind = kind /\ k.email = e
    OBVIOUS
  <2> HIDE DEF k, where
  <2> QED BY <1>1, <1>3, <2>1, GoTells
<1>6. (kind = "admin_script" => e = AdminEmail) /\ (kind = "dev_script" => e = DevEmail)
  BY DEF Lookup
<1>7. KnowsAccount(r)'
  <2>1. k.kind = kind /\ k.email = e /\ k.space = r
        /\ (users[e] = Nobody => k.user.id = r) /\ (users[e] # Nobody => k.user = users[e])
    BY DEF User
  <2>2. users' = users
    BY <1>1 DEF rows
  <2> HIDE DEF k
  <2>3. CASE where = "409"
    BY <1>5, <2>3 DEF KnowsAccount, Account
  <2>4. CASE where # "409"
    BY <1>2, <1>3, <1>4, <1>5, <1>6, <2>1, <2>2, <2>4 DEF KnowsAccount, Account
  <2> QED BY <2>3, <2>4
<1>8. Knows(r)'
  BY <1>2, <1>5, <1>7 DEF Knows, KnowsPlan, KnowsLogin, KnowsAnswer, Managing
<1>9. Ends(r)
  BY <1>2, <1>5 DEF Ends, Answers, Settled
<1> HIDE DEF k, where
<1> QED
  BY <1>1, <1>3, <1>8, <1>9, OnlyMoves

LEMMA InsertUserStep ==
    ASSUME IInv, NEW r \in Requests, InsertUser(r)
    PROVE  IInv'
<1> DEFINE e == tx[r].email
           k == tx[r]
<1>1. /\ at[r] = "new user" /\ key[e] = {} /\ KnowsAccount(r) /\ e \in Emails /\ Account(r)
      /\ UNCHANGED << rows, clock, lock >>
  BY DEF InsertUser, IInv, Knows, KnowsAccount, Account
<1>2. at[r] \notin Settled
  BY <1>1 DEF Answers, Settled
<1>3. CASE users[e] = Nobody
  <2>1. PICK where \in {"find workspace", "save"} : Go(r, where, k) /\ key' = [key EXCEPT ![e] = {r}]
    BY <1>3 DEF InsertUser, Inserted
  <2>2. where \in Underway /\ where \notin Answers
    BY DEF Underway, Answers, Settled
  <2> HIDE DEF k
  <2>3. /\ Places' /\ at'[r] = where /\ tx'[r] = k
        /\ \A q \in Requests \ {r} : at'[q] = at[q] /\ tx'[q] = tx[q]
    <3>1. where \in Underway \cup Answers /\ where \notin Answers /\ Go(r, where, k)
      BY <2>1, <2>2
    <3>2. Places'
      BY <3>1, GoTells
    <3>3. at'[r] = where
      BY <3>1, GoTells
    <3>4. tx'[r] = k
      <4>1. where \notin Answers => tx'[r] = k
        BY <3>1, GoTells
      <4> QED BY <3>1, <4>1
    <3>5. \A q \in Requests \ {r} : at'[q] = at[q] /\ tx'[q] = tx[q]
      BY <3>1, GoTells
    <3> QED BY <3>2, <3>3, <3>4, <3>5
  <2>4. Types'
    BY <1>1, <2>1, <2>3 DEF IInv, Types, rows
  <2>5. Locks'
    BY <1>1, <1>3, <2>1 DEF IInv, Types, Locks, rows
  <2>6. Acts(r)
    BY <1>1, <1>2, <2>1, <2>3 DEF IInv, Types, Acts, rows
  <2>7. KnowsAccount(r)'
    <3>1. k = tx[r] /\ r \in key'[e]
      BY <1>1, <2>1 DEF k, IInv, Types
    <3>2. spaces' = spaces
      BY <1>1 DEF rows
    <3> QED BY <1>1, <2>3, <3>1, <3>2 DEF KnowsAccount, Account, Exists
  <2>8. Knows(r)' /\ Ends(r)
    BY <2>3, <2>7 DEF Knows, KnowsPlan, KnowsLogin, KnowsAnswer, Managing, Ends, Answers, Settled
  <2> QED
    <3>1. clock <= clock'
      <4>1. clock' = clock
        BY <1>1
      <4> QED BY <4>1, ClockStays
    <3>2. UNCHANGED rows
      BY <1>1
    <3>3. Acts(r) /\ Ends(r) /\ Types' /\ Locks' /\ Knows(r)'
      BY <2>4, <2>5, <2>6, <2>8
    <3> QED BY <1>2, <3>1, <3>2, <3>3, QuietStep
<1>4. CASE users[e] # Nobody
  <2>1. Go(r, "500", k) /\ key' = key
    BY <1>4 DEF InsertUser
  <2>2. "500" \in Answers
    BY DEF Answers, Settled
  <2>3. "kind" \in DOMAIN k /\ "email" \in DOMAIN k
    BY <1>1 DEF KnowsAccount
  <2> HIDE DEF k
  <2>4. at'[r] = "500" /\ tx'[r].email = k.email
    BY <2>1, <2>2, <2>3, GoTells
  <2>5. Knows(r)' /\ Ends(r)
    BY <1>1, <2>4 DEF k, Knows, KnowsAccount, Account, KnowsPlan, KnowsLogin, KnowsAnswer, Managing, Ends
  <2> QED
    BY <1>1, <1>2, <2>1, <2>2, <2>5, OnlyMoves
<1> QED
  BY <1>3, <1>4

\* Names the script gives back are names of workspaces.
LEMMA FindWorkspaceStep ==
    ASSUME IInv, NEW r \in Requests, FindWorkspace(r)
    PROVE  IInv'
<1>1. at[r] = "find workspace" /\ KnowsAccount(r) /\ Account(r) /\ at[r] \notin Settled
      /\ UNCHANGED << rows, clock, key, lock >>
  BY DEF FindWorkspace, IInv, Knows, Account, Answers, Settled
<1>2. PICK id \in SpaceIds : Go(r, "save", [tx[r] EXCEPT !.space = id]) /\ (id = r \/ Exists(id))
  <2>1. \A s \in spaces : s.id \in SpaceIds /\ Exists(s.id)
    BY DEF IInv, Types, Exists
  <2> QED BY <2>1 DEF FindWorkspace, SpaceIds
<1> DEFINE k == [tx[r] EXCEPT !.space = id]
<1>3. /\ k \in [kind : {"register", "dev_script", "admin_script"}, email : Emails, space : SpaceIds, user : Users]
      /\ k.kind = tx[r].kind /\ k.email = tx[r].email /\ k.user = tx[r].user /\ k.space = id
  BY <1>1 DEF KnowsAccount
<1>4. "save" \in Underway \cup Answers /\ "save" \notin Answers /\ Go(r, "save", k)
  BY <1>2 DEF Underway, Answers, Settled
<1> HIDE DEF k
<1>5. at'[r] = "save" /\ tx'[r] = k
  <2>1. at'[r] = "save"
    BY <1>4, GoTells
  <2>2. "save" \notin Answers => tx'[r] = k
    BY <1>4, GoTells
  <2> QED BY <1>4, <2>1, <2>2
<1>6. KnowsAccount(r)'
  BY <1>1, <1>2, <1>3, <1>5 DEF KnowsAccount, Account, Exists, rows
<1>7. Knows(r)' /\ Ends(r)
  BY <1>5, <1>6 DEF Knows, KnowsPlan, KnowsLogin, KnowsAnswer, Managing, Ends, Answers, Settled
<1> QED
  BY <1>1, <1>4, <1>7, OnlyMoves

\* Who is admitted to manage a workspace owns it.
LEMMA AdmittedOwners ==
    ASSUME IInv, NEW e \in Emails, NEW s \in SpaceIds, NEW need, AnswerTo(e, s, need) = "admitted"
    PROVE  /\ users[e] \in Users /\ users[e] # Nobody /\ Exists(s)
           /\ need = "manage_workspace" => Owner(s, users[e].id) \in members
<1>1. users[e] # Nobody /\ (\E w \in spaces : w.id = s) /\ \E role \in Role(e, s) : need \in Permissions[role]
  BY DEF AnswerTo
<1>2. users[e] \in Users
  BY <1>1 DEF IInv, Types
<1>3. PICK m \in members : m.space = s /\ m.user = users[e].id /\ need \in Permissions[m.role]
  BY <1>1 DEF Role
<1>4. m \in [space : SpaceIds, user : Ids, role : {"owner", "member"}]
  BY DEF IInv, Types
<1>5. ASSUME need = "manage_workspace" PROVE Owner(s, users[e].id) \in members
  <2>1. m.role # "member"
    BY <1>3, <1>5 DEF Permissions
  <2>2. m = Owner(s, users[e].id)
    BY <1>3, <1>4, <2>1 DEF Owner
  <2> QED BY <2>2
<1> QED
  BY <1>1, <1>2, <1>5 DEF Exists

LEMMA GateStep ==
    ASSUME IInv, NEW r \in Requests, NEW e \in Emails, NEW s \in SpaceIds, NEW need,
           NEW kind \in {"plan", "demand"}, NEW want \in PlanNames \cup {"unknown", "none"},
           kind = "plan" => need = "manage_workspace", Gate(r, kind, e, s, need, want)
    PROVE  IInv'
<1> DEFINE where == AnswerTo(e, s, need)
           k == [kind |-> kind, user |-> users[e], space |-> s, want |-> want, copy |-> "none", stamp |-> 0]
<1>1. Go(r, where, k) /\ at[r] = "idle" /\ at[r] \notin Settled /\ UNCHANGED << rows, clock, key, lock >>
  BY DEF Gate, Answers, Settled
<1>2. where \in {"401", "403", "404", "admitted"}
  BY DEF AnswerTo
<1>3. where \in Underway \cup Answers /\ (where \in Answers <=> where # "admitted")
  BY <1>2 DEF Underway, Answers, Settled
<1>4. where = "admitted" =>
        /\ users[e] \in Users /\ Exists(s)
        /\ kind = "plan" => Owner(s, users[e].id) \in members
  BY AdmittedOwners
<1>5. "kind" \in DOMAIN k /\ k.kind = kind /\ k.user = users[e] /\ k.space = s
  OBVIOUS
<1>6. where = "admitted" =>
        k \in [kind : {"plan", "demand"}, user : Users, space : SpaceIds, want : PlanNames \cup {"unknown", "none"},
               copy : PlanNames \cup {"none"}, stamp : Nat]
  BY <1>4
<1> HIDE DEF k, where
<1>7. /\ at'[r] = where
      /\ where \notin Answers => tx'[r] = k
      /\ where \in Answers => tx'[r].kind = kind
  <2>1. at'[r] = where
    BY <1>1, <1>3, GoTells
  <2>2. where \notin Answers => tx'[r] = k
    BY <1>1, <1>3, GoTells
  <2>3. where \in Answers => ("kind" \in DOMAIN k => tx'[r].kind = k.kind)
    BY <1>1, <1>3, GoTells
  <2> QED BY <1>5, <2>1, <2>2, <2>3
<1>8. KnowsPlan(r)'
  BY <1>1, <1>2, <1>3, <1>4, <1>5, <1>6, <1>7 DEF KnowsPlan, Managing, Exists, rows
<1>9. Knows(r)' /\ Ends(r)
  BY <1>2, <1>3, <1>7, <1>8 DEF Knows, KnowsAccount, Account, KnowsLogin, KnowsAnswer, Ends
<1> QED
  BY <1>1, <1>3, <1>9, OnlyMoves

LEMMA WorkspaceRequestSteps ==
    ASSUME IInv, NEW r \in Requests, NEW e \in Emails, NEW s \in SpaceIds,
           \/ ChangeWorkspacePlan(r, e, s) \/ GetWorkspaceBilling(r, e, s) \/ GetWorkspaceUsage(r, e, s)
           \/ GetWorkspaceSettings(r, e, s) \/ PolicyForWorkspace(r, e, s)
    PROVE  IInv'
<1>1. CASE ChangeWorkspacePlan(r, e, s)
  <2>1. PICK want \in PlanNames \cup {"unknown"} : Gate(r, "plan", e, s, "manage_workspace", want)
    BY <1>1 DEF ChangeWorkspacePlan
  <2> QED BY <2>1, GateStep
<1>2. CASE GetWorkspaceBilling(r, e, s)
  BY <1>2, GateStep DEF GetWorkspaceBilling
<1>3. CASE GetWorkspaceUsage(r, e, s)
  BY <1>3, GateStep DEF GetWorkspaceUsage
<1>4. CASE GetWorkspaceSettings(r, e, s)
  BY <1>4, GateStep DEF GetWorkspaceSettings
<1>5. CASE PolicyForWorkspace(r, e, s)
  <2>1. PICK need \in {"upload_documents", "query_documents"} : Gate(r, "demand", e, s, need, "none")
    BY <1>5 DEF PolicyForWorkspace
  <2> QED BY <2>1, GateStep
<1> QED
  BY <1>1, <1>2, <1>3, <1>4, <1>5

LEMMA MeStep ==
    ASSUME IInv, NEW r \in Requests, NEW e \in Emails, Me(r, e)
    PROVE  IInv'
<1> DEFINE where == IF users[e] = Nobody THEN "401" ELSE "200"
           k == [kind |-> "me"]
<1>1. Go(r, where, k) /\ at[r] = "idle" /\ at[r] \notin Settled /\ UNCHANGED << rows, clock, key, lock >>
  BY DEF Me, Answers, Settled
<1>2. where \in {"401", "200"} /\ where \in Answers /\ "kind" \in DOMAIN k /\ k.kind = "me"
  BY DEF Answers, Settled
<1> HIDE DEF k, where
<1>3. at'[r] = where /\ tx'[r].kind = "me"
  <2>1. at'[r] = where
    BY <1>1, <1>2, GoTells
  <2>2. where \in Answers => ("kind" \in DOMAIN k => tx'[r].kind = k.kind)
    BY <1>1, <1>2, GoTells
  <2> QED BY <1>2, <2>1, <2>2
<1>4. Knows(r)' /\ Ends(r)
  BY <1>2, <1>3 DEF Knows, KnowsAccount, Account, KnowsPlan, Managing, KnowsLogin, KnowsAnswer, Ends
<1> QED
  BY <1>1, <1>2, <1>4, OnlyMoves

LEMMA OverseeStep ==
    ASSUME IInv, NEW r \in Requests, NEW e \in Emails, Oversee(r, e)
    PROVE  IInv'
<1> DEFINE where == CASE users[e] = Nobody -> "401" [] users[e] # Nobody /\ users[e].admin -> "200" [] OTHER -> "403"
           k == [kind |-> "oversee", email |-> e]
<1>1. Go(r, where, k) /\ at[r] = "idle" /\ at[r] \notin Settled /\ UNCHANGED << rows, clock, key, lock >>
  BY DEF Oversee, Answers, Settled
<1>2. /\ where \in {"401", "200", "403"} /\ where \in Answers
      /\ where = "200" => users[e] # Nobody /\ users[e].admin
  BY DEF Answers, Settled
<1>3. "kind" \in DOMAIN k /\ k.kind = "oversee" /\ "email" \in DOMAIN k /\ k.email = e
  OBVIOUS
<1> HIDE DEF k, where
<1>4. at'[r] = where /\ tx'[r].kind = "oversee" /\ tx'[r].email = e
  <2>1. at'[r] = where
    BY <1>1, <1>2, GoTells
  <2>2. where \in Answers => /\ "kind" \in DOMAIN k => tx'[r].kind = k.kind
                             /\ "email" \in DOMAIN k => tx'[r].email = k.email
    BY <1>1, <1>2, GoTells
  <2> QED BY <1>2, <1>3, <2>1, <2>2
<1>5. Knows(r)' /\ Ends(r)
  BY <1>2, <1>4 DEF Knows, KnowsAccount, Account, KnowsPlan, Managing, KnowsLogin, KnowsAnswer, Ends
<1> QED
  BY <1>1, <1>2, <1>5, OnlyMoves

LEMMA LoginStep ==
    ASSUME IInv, NEW r \in Requests, NEW e \in Emails, NEW right \in BOOLEAN, Login(r, e, right)
    PROVE  IInv'
<1>1. /\ at[r] = "idle" /\ at[r] \notin Settled
      /\ UNCHANGED << rows, clock, key, lock >>
  BY DEF Login, Answers, Settled
<1>2. PICK where \in {"401", "200", "greet"} :
         \/ Go(r, where, [kind |-> "login"])
         \/ \E s \in SpaceIds : Go(r, where, [kind |-> "login", user |-> users[e], space |-> s])
  BY DEF Login, IInv, Types
<1>3. PICK k : Go(r, where, k) /\ "kind" \in DOMAIN k /\ k.kind = "login"
  <2>1. CASE Go(r, where, [kind |-> "login"])
    BY <2>1
  <2>2. CASE \E s \in SpaceIds : Go(r, where, [kind |-> "login", user |-> users[e], space |-> s])
    <3>1. PICK s \in SpaceIds : Go(r, where, [kind |-> "login", user |-> users[e], space |-> s])
      BY <2>2
    <3> QED BY <3>1
  <2> QED BY <1>2, <2>1, <2>2
<1>4. where \in Underway \cup Answers
  BY DEF Underway, Answers, Settled
<1>5. at'[r] = where /\ "kind" \in DOMAIN tx'[r] /\ tx'[r].kind = "login"
  <2>1. CASE where = "greet"
    BY <1>3, <1>4, <2>1, GoTells DEF Answers, Settled
  <2>2. CASE where # "greet"
    BY <1>3, <2>2 DEF Go, Restrict, IInv, Types, Places, Answers, Settled
  <2> QED BY <2>1, <2>2
<1>6. Knows(r)' /\ Ends(r)
  BY <1>5 DEF Knows, KnowsAccount, Account, KnowsPlan, Managing, KnowsLogin, KnowsAnswer, Ends
<1> QED
  BY <1>1, <1>3, <1>4, <1>6, OnlyMoves

\* Workspaces and their history as they were.
LEMMA KeepsWorkspaces ==
    ASSUME IInv, UNCHANGED << spaces, members, plan, audit, clock >>
    PROVE  Planned' /\ Past' /\ SubscriptionsPrecedeDemand' /\ PlanIsLastAudited'
BY DEF IInv, Planned, Past, Exists, SubscriptionsPrecedeDemand, PlanIsLastAudited, Changes

\* What Release leaves.
LEMMA Releases ==
    ASSUME IInv, NEW r \in Requests, Release(r)
    PROVE  /\ key' \in [Emails -> SUBSET Requests] /\ lock' \in [SpaceIds -> SUBSET Requests]
           /\ \A e \in Emails : key'[e] = key[e] \ {r}
           /\ \A s \in SpaceIds : lock'[s] = lock[s] \ {r}
BY DEF Release, IInv, Types

\* What is said of rows committed, or that nothing is said, changes none of them.
LEMMA AfterSave ==
    ASSUME IInv, NEW r \in Requests, at[r] = "saved", UNCHANGED rows, clock' = clock,
           Release(r) \/ UNCHANGED << key, lock >>,
           NEW where \in {"200", "201", "ready", "500"}, Go(r, where, tx[r]),
           tx[r].kind = "admin_script" => where \in {"ready", "500"}
    PROVE  IInv'
<1>1. where \in Underway \cup Answers /\ where \in Answers /\ where # "409" /\ where # "saved"
  BY DEF Answers
<1>2. KnowsAnswer(r) /\ Truth(r) /\ "saved" \in Settled
  BY DEF IInv, Knows, Settled
<1>3. at'[r] = where
  BY <1>1, GoTells
<1>4. tx'[r].kind = tx[r].kind /\ (tx[r].kind = "register" => tx'[r].email = tx[r].email)
  <2>1. where \in Answers => /\ "kind" \in DOMAIN tx[r] => tx'[r].kind = tx[r].kind
                             /\ "email" \in DOMAIN tx[r] => tx'[r].email = tx[r].email
    BY <1>1, GoTells
  <2> QED BY <1>1, <1>2, <2>1 DEF KnowsAnswer
<1>5. Places'
  BY <1>1, GoTells
<1>6. \A q \in Requests \ {r} : at'[q] = at[q] /\ tx'[q] = tx[q]
  BY <1>1, GoTells
<1>7. /\ key' \in [Emails -> SUBSET Requests] /\ lock' \in [SpaceIds -> SUBSET Requests]
      /\ \A e \in Emails : key[e] \ {r} \subseteq key'[e] /\ key'[e] \subseteq key[e]
      /\ \A s \in SpaceIds : lock[s] \ {r} \subseteq lock'[s] /\ lock'[s] \subseteq lock[s]
  <2>1. CASE Release(r)  BY <2>1, Releases
  <2>2. CASE UNCHANGED << key, lock >>  BY <2>2 DEF IInv, Types
  <2> QED BY <2>1, <2>2
<1>8. /\ users' = users /\ spaces' = spaces /\ members' = members /\ plan' = plan /\ audit' = audit
  BY DEF rows
<1>9. Types'
  BY <1>5, <1>7, <1>8 DEF IInv, Types
<1>10. Locks'
  BY <1>7, <1>8 DEF IInv, Locks
<1>11. Acts(r)
  BY <1>6, <1>7, <1>8 DEF Acts
<1>12. Grows /\ AddsOwn(r)
  BY <1>8, ClockStays DEF Grows, AddsOwn, IInv, Types
<1>13. \A q \in Requests \ {r} : Knows(q)' /\ Truth(q)'
  BY <1>9, <1>11, <1>12, OthersKeep
<1>14. Knows(r)'
  BY <1>3 DEF Knows, KnowsAccount, Account, KnowsPlan, Managing, KnowsLogin, KnowsAnswer
<1>15. Truth(r)'
  <2>1. ASSUME tx[r].kind = "register"
        PROVE  tx[r].email \in Emails /\ Made(r, tx[r].email)'
    BY <1>2, <1>4, <1>8, <2>1 DEF Truth, Made
  <2>2. at'[r] \in Settled /\ at'[r] # "409"
    BY <1>1, <1>3 DEF Settled
  <2> QED BY <1>4, <2>1, <2>2 DEF Truth
<1>16. Planned' /\ Past' /\ SubscriptionsPrecedeDemand' /\ PlanIsLastAudited'
  BY <1>8, KeepsWorkspaces
<1>17. Rights'
  <2>1. Ready' => Ready
    BY <1>3, <1>4, <1>6 DEF Ready, Runs
  <2>2. Begun => Begun'
    <3>1. SUFFICES ASSUME NEW q \in Requests, at[q] \in {"saved", "ready", "500"}, tx[q].kind = "admin_script"
                   PROVE  Begun'
      BY DEF Begun, Runs
    <3>2. CASE q # r  BY <1>6, <3>1, <3>2 DEF Begun, Runs
    <3>3. CASE q = r
      <4>1. where \in {"ready", "500"} => Begun'
        BY <1>3, <1>4, <3>1, <3>3 DEF Begun, Runs
      <4> QED BY <3>1, <3>3, <4>1
    <3> QED BY <3>2, <3>3
  <2>3. tx'[r].kind # "oversee"
    BY <1>2, <1>4 DEF KnowsAnswer
  <2> QED BY <1>8, <1>11, <2>1, <2>2, <2>3, RightsStay
<1> QED
  BY <1>9, <1>10, <1>13, <1>14, <1>15, <1>16, <1>17 DEF IInv

LEMMA BreakStep ==
    ASSUME IInv, NEW r \in Requests, Break(r)
    PROVE  IInv'
<1>0. CASE at[r] = "saved"
  <2>1. UNCHANGED rows /\ clock' = clock /\ Release(r) /\ Go(r, "500", tx[r])
    BY DEF Break
  <2> QED BY <1>0, <2>1, AfterSave
<1> SUFFICES ASSUME at[r] # "saved" PROVE IInv'
  BY <1>0
<1>1. at[r] \in Underway /\ at[r] \notin Settled /\ UNCHANGED << rows, clock >> /\ Release(r) /\ Go(r, "500", tx[r])
  BY DEF Break, Underway, Answers, Settled
<1>2. "500" \in Underway \cup Answers /\ "500" \in Answers
  BY DEF Answers, Settled
<1>3. /\ at'[r] = "500" /\ Places' /\ \A q \in Requests \ {r} : at'[q] = at[q] /\ tx'[q] = tx[q]
  <2>1. at'[r] = "500"
    BY <1>1, <1>2, GoTells
  <2>2. Places'
    BY <1>1, <1>2, GoTells
  <2>3. \A q \in Requests \ {r} : at'[q] = at[q] /\ tx'[q] = tx[q]
    BY <1>1, <1>2, GoTells
  <2> QED BY <2>1, <2>2, <2>3
<1>4. tx'[r].kind = "register" => tx'[r].email \in Emails
  <2>1. "500" \in Answers => /\ "kind" \in DOMAIN tx[r] => tx'[r].kind = tx[r].kind
                             /\ "email" \in DOMAIN tx[r] => tx'[r].email = tx[r].email
    BY <1>1, <1>2, GoTells
  <2>2. Account(r) \/ Managing(r) \/ at[r] = "greet"
    BY <1>1 DEF Account, Managing, Underway, Settled
  <2>3. KnowsAccount(r) /\ KnowsPlan(r) /\ KnowsLogin(r)
    BY DEF IInv, Knows
  <2>4. CASE Account(r)
    BY <1>2, <2>1, <2>3, <2>4 DEF KnowsAccount
  <2>5. CASE Managing(r)
    BY <1>2, <2>1, <2>3, <2>5 DEF KnowsPlan
  <2>6. CASE at[r] = "greet"
    BY <1>2, <2>1, <2>3, <2>6 DEF KnowsLogin
  <2> QED BY <2>2, <2>4, <2>5, <2>6
<1>5. Types'
  BY <1>1, <1>3, Releases DEF IInv, Types, rows
<1>6. Locks'
  <2>1. users' = users
    BY <1>1 DEF rows
  <2> QED BY <1>1, <2>1, Releases DEF IInv, Locks
<1>7. Acts(r)
  <2>1. audit' = audit
    BY <1>1 DEF rows
  <2> QED BY <1>1, <1>3, <2>1, Releases DEF Acts
<1>8. Knows(r)' /\ Ends(r)
  BY <1>3, <1>4 DEF Knows, KnowsAccount, Account, KnowsPlan, Managing, KnowsLogin, KnowsAnswer, Ends
<1>9. clock <= clock'
  <2>1. clock' = clock
    BY <1>1
  <2> QED BY <2>1, ClockStays
<1>10. UNCHANGED rows
  BY <1>1
<1> QED
  BY <1>1, <1>5, <1>6, <1>7, <1>8, <1>9, <1>10, QuietStep

LEMMA AnswerStep ==
    ASSUME IInv, NEW r \in Requests, Answer(r)
    PROVE  IInv'
<1>1. PICK where \in {"200", "201", "ready"} :
         Go(r, where, tx[r]) /\ (tx[r].kind = "admin_script" => where = "ready")
  BY DEF Answer
<1>2. at[r] = "saved" /\ UNCHANGED rows /\ clock' = clock /\ UNCHANGED << key, lock >>
  BY DEF Answer
<1> QED
  BY <1>1, <1>2, AfterSave

\* Every workspace already has a plan: to see to the subscription adds nothing.
LEMMA EnsureAddsNothing ==
    ASSUME IInv, NEW r \in Requests, tx[r].space \in SpaceIds, Exists(tx[r].space), EnsureSubscription(r)
    PROVE  UNCHANGED << plan, audit >>
<1>1. plan[tx[r].space] # "none"
  BY DEF IInv, Planned, Exists
<1> QED
  BY <1>1 DEF EnsureSubscription, Missing, InForce, IInv, Types

LEMMA SubscribeAddsNothing ==
    ASSUME IInv, NEW r \in Requests, Managing(r), Subscribe(r)
    PROVE  UNCHANGED rows
<1>1. tx[r].space \in SpaceIds /\ Exists(tx[r].space)
  BY DEF IInv, Knows, KnowsPlan
<1>2. UNCHANGED << plan, audit >>
  BY <1>1, EnsureAddsNothing DEF Subscribe
<1> QED
  BY <1>2 DEF Subscribe, rows

LEMMA DemandStep ==
    ASSUME IInv, NEW r \in Requests, Demand(r)
    PROVE  IInv'
<1>1. /\ Managing(r) /\ tx[r].kind = "demand" /\ at[r] \notin Settled
      /\ Subscribe(r) /\ Go(r, "200", tx[r]) /\ UNCHANGED << clock, key, lock >>
  BY DEF Demand, Managing, Answers, Settled
<1>2. UNCHANGED rows
  BY <1>1, SubscribeAddsNothing
<1>3. "kind" \in DOMAIN tx[r]
  BY <1>1 DEF IInv, Knows, KnowsPlan
<1>4. "200" \in Underway \cup Answers /\ "200" \in Answers
  BY DEF Answers, Settled
<1>5. at'[r] = "200" /\ tx'[r].kind = "demand"
  <2>1. at'[r] = "200"
    BY <1>1, <1>4, GoTells
  <2>2. "200" \in Answers => ("kind" \in DOMAIN tx[r] => tx'[r].kind = tx[r].kind)
    BY <1>1, <1>4, GoTells
  <2> QED BY <1>1, <1>3, <1>4, <2>1, <2>2
<1>6. Knows(r)' /\ Ends(r)
  BY <1>5 DEF Knows, KnowsAccount, Account, KnowsPlan, Managing, KnowsLogin, KnowsAnswer, Ends
<1>7. UNCHANGED << rows, clock, key, lock >>
  BY <1>1, <1>2
<1> QED
  BY <1>1, <1>4, <1>6, <1>7, OnlyMoves

LEMMA LoadPlanStep ==
    ASSUME IInv, NEW r \in Requests, LoadPlan(r)
    PROVE  IInv'
<1> DEFINE old == InForce(tx[r].space)
           k == [tx[r] EXCEPT !.copy = old]
           where == CASE tx[r].want \notin PlanNames -> "400" [] tx[r].want = old -> "200" [] OTHER -> "change"
<1>1. /\ Managing(r) /\ at[r] = "admitted" /\ tx[r].kind = "plan" /\ at[r] \notin Settled
      /\ Go(r, where, k) /\ UNCHANGED << clock, key, lock >>
  BY DEF LoadPlan, Managing, Answers, Settled
<1>2. UNCHANGED rows
  BY <1>1, SubscribeAddsNothing DEF LoadPlan
<1>3. KnowsPlan(r)
  BY DEF IInv, Knows
<1>4. old \in PlanNames
  BY <1>1, <1>3 DEF KnowsPlan, InForce, IInv, Types, PlanNames
<1>5. /\ k \in [kind : {"plan", "demand"}, user : Users, space : SpaceIds, want : PlanNames \cup {"unknown", "none"},
                copy : PlanNames \cup {"none"}, stamp : Nat]
      /\ "kind" \in DOMAIN k /\ k.kind = "plan" /\ k.space = tx[r].space /\ k.user = tx[r].user /\ k.want = tx[r].want
  BY <1>1, <1>3, <1>4 DEF KnowsPlan
<1>6. where \in {"400", "200", "change"} /\ (where = "change" => tx[r].want \in PlanNames)
  OBVIOUS
<1>7. where \in Underway \cup Answers /\ (where \notin Answers <=> where = "change")
  BY <1>6 DEF Underway, Answers, Settled
<1> HIDE DEF k, where, old
<1>8. /\ at'[r] = where
      /\ where = "change" => tx'[r] = k
      /\ where # "change" => tx'[r].kind = "plan"
  <2>1. at'[r] = where
    BY <1>1, <1>7, GoTells
  <2>2. where \notin Answers => tx'[r] = k
    BY <1>1, <1>7, GoTells
  <2>3. where \in Answers => ("kind" \in DOMAIN k => tx'[r].kind = k.kind)
    BY <1>1, <1>7, GoTells
  <2> QED BY <1>5, <1>7, <2>1, <2>2, <2>3
<1>9. KnowsPlan(r)'
  <2>1. spaces' = spaces /\ members' = members
    BY <1>2 DEF rows
  <2>2. CASE where = "change"
    BY <1>1, <1>3, <1>5, <1>6, <1>8, <2>1, <2>2 DEF KnowsPlan, Managing, Exists
  <2>3. CASE where # "change"
    BY <1>6, <1>8, <2>3 DEF KnowsPlan, Managing
  <2> QED BY <2>2, <2>3
<1>10. Knows(r)' /\ Ends(r)
  <2>1. at'[r] \in {"400", "200", "change"}
    BY <1>6, <1>8
  <2>2. Knows(r)'
    BY <1>9, <2>1 DEF Knows, KnowsAccount, Account, KnowsLogin, KnowsAnswer
  <2>3. Ends(r)
    BY <1>6, <1>8, <2>1 DEF Ends, Answers, Settled
  <2> QED BY <2>2, <2>3
<1>11. UNCHANGED << rows, clock, key, lock >>
  BY <1>1, <1>2
<1> QED
  BY <1>1, <1>7, <1>10, <1>11, OnlyMoves

LEMMA ChangePlanStep ==
    ASSUME IInv, NEW r \in Requests, ChangePlan(r)
    PROVE  IInv'
<1> DEFINE s == tx[r].space
           k == [tx[r] EXCEPT !.stamp = clock]
<1>1. /\ Managing(r) /\ at[r] = "change" /\ at[r] \notin Settled /\ KnowsPlan(r) /\ lock[s] = {}
      /\ lock' = [lock EXCEPT ![s] = {r}] /\ clock' = clock + 1
      /\ Go(r, "changed", k) /\ UNCHANGED key
  BY DEF ChangePlan, Managing, Answers, Settled, IInv, Knows
<1>2. UNCHANGED rows
  BY DEF ChangePlan
<1>3. s \in SpaceIds /\ clock \in Nat /\ Exists(s)
  BY <1>1 DEF KnowsPlan, IInv, Types
<1>4. /\ k \in [kind : {"plan", "demand"}, user : Users, space : SpaceIds, want : PlanNames \cup {"unknown", "none"},
                copy : PlanNames \cup {"none"}, stamp : Nat]
      /\ k.kind = "plan" /\ k.space = s /\ k.user = tx[r].user /\ k.want = tx[r].want /\ k.stamp = clock
  BY <1>1, <1>3 DEF KnowsPlan
<1>5. "changed" \in Underway \cup Answers /\ "changed" \notin Answers
  BY DEF Underway, Answers, Settled
<1> HIDE DEF k
<1>6. at'[r] = "changed" /\ tx'[r] = k /\ Places' /\ \A q \in Requests \ {r} : at'[q] = at[q] /\ tx'[q] = tx[q]
  <2>1. at'[r] = "changed"
    BY <1>1, <1>5, GoTells
  <2>2. "changed" \notin Answers => tx'[r] = k
    BY <1>1, <1>5, GoTells
  <2>3. Places'
    BY <1>1, <1>5, GoTells
  <2>4. \A q \in Requests \ {r} : at'[q] = at[q] /\ tx'[q] = tx[q]
    BY <1>1, <1>5, GoTells
  <2> QED BY <1>5, <2>1, <2>2, <2>3, <2>4
<1>7. Types'
  BY <1>1, <1>2, <1>3, <1>6 DEF IInv, Types, rows
<1>8. Locks'
  <2>1. users' = users /\ lock \in [SpaceIds -> SUBSET Requests]
    BY <1>2 DEF rows, IInv, Types
  <2> QED BY <1>1, <1>3, <2>1 DEF IInv, Locks
<1>9. Acts(r)
  <2>1. audit' = audit /\ lock \in [SpaceIds -> SUBSET Requests]
    BY <1>2 DEF rows, IInv, Types
  <2> QED BY <1>1, <1>3, <1>6, <2>1 DEF Acts
<1>10. KnowsPlan(r)'
  <2>1. spaces' = spaces /\ members' = members /\ audit' = audit
    BY <1>2 DEF rows
  <2>2. r \in lock'[s] /\ clock < clock'
    BY <1>1, <1>3 DEF IInv, Types
  <2>3. \A e \in Changes(s)' : e.stamp < clock
    BY <2>1 DEF Changes, IInv, Past
  <2>4. Exists(s)' /\ (Owner(s, tx[r].user.id) \in members)'
    BY <1>1, <1>3, <1>6, <1>4, <2>1 DEF Exists, KnowsPlan
  <2>5. tx[r].want \in PlanNames
    BY <1>1 DEF KnowsPlan
  <2> QED BY <1>4, <1>6, <2>2, <2>3, <2>4, <2>5 DEF KnowsPlan
<1>11. Knows(r)' /\ Ends(r)
  BY <1>6, <1>10 DEF Knows, KnowsAccount, Account, KnowsLogin, KnowsAnswer, Ends, Answers, Settled
<1>12. clock <= clock'
  BY <1>1, <1>3
<1> QED
  BY <1>1, <1>2, <1>7, <1>8, <1>9, <1>11, <1>12, QuietStep

-----------------------------------------------------------------------------
(* Steps that commit *)

LEMMA CommitStep ==
    ASSUME IInv, NEW r \in Requests, Grows, AddsOwn(r), Acts(r), Types', Locks', Planned', Past', Rights',
           SubscriptionsPrecedeDemand', PlanIsLastAudited', at'[r] = "saved", KnowsAnswer(r)', Truth(r)'
    PROVE  IInv'
<1>1. \A q \in Requests \ {r} : Knows(q)' /\ Truth(q)'
  BY OthersKeep
<1>2. Knows(r)'
  BY DEF Knows, KnowsAccount, Account, KnowsPlan, Managing, KnowsLogin
<1> QED
  BY <1>1, <1>2 DEF IInv

LEMMA GreetStep ==
    ASSUME IInv, NEW r \in Requests, Greet(r)
    PROVE  IInv'
<1> DEFINE new == Event("login", tx[r].space, tx[r].user.id, "none", "none")
<1>1. /\ at[r] = "greet" /\ at[r] \notin Settled /\ audit' = audit \cup {new} /\ Go(r, "saved", tx[r])
      /\ UNCHANGED << users, spaces, members, plan, clock, key, lock >>
  BY DEF Greet, Answers, Settled
<1>2. "kind" \in DOMAIN tx[r] /\ tx[r].kind = "login"
  BY <1>1 DEF IInv, Knows, KnowsLogin
<1>3. "saved" \in Underway \cup Answers /\ "saved" \notin Answers
  BY DEF Underway, Answers
<1>4. at'[r] = "saved" /\ tx'[r] = tx[r] /\ Places' /\ \A q \in Requests \ {r} : at'[q] = at[q] /\ tx'[q] = tx[q]
  <2>1. at'[r] = "saved"
    BY <1>1, <1>3, GoTells
  <2>2. "saved" \notin Answers => tx'[r] = tx[r]
    BY <1>1, <1>3, GoTells
  <2>3. Places'
    BY <1>1, <1>3, GoTells
  <2>4. \A q \in Requests \ {r} : at'[q] = at[q] /\ tx'[q] = tx[q]
    BY <1>1, <1>3, GoTells
  <2> QED BY <1>3, <2>1, <2>2, <2>3, <2>4
<1>5. new.type = "login"
  BY DEF Event
<1> HIDE DEF new
<1>6. Grows
  <2>1. clock' = clock
    BY <1>1
  <2>2. clock <= clock'
    BY <2>1, ClockStays
  <2> QED BY <1>1, <2>2 DEF Grows
<1>7. AddsOwn(r)
  BY <1>1, <1>5 DEF AddsOwn
<1>8. Acts(r)
  BY <1>1, <1>4, <1>5 DEF Acts
<1>9. Types'
  BY <1>1, <1>4 DEF IInv, Types
<1>10. Locks' /\ Planned'
  BY <1>1 DEF IInv, Locks, Planned
<1>11. Past' /\ SubscriptionsPrecedeDemand'
  BY <1>1, <1>5 DEF IInv, Past, Exists, SubscriptionsPrecedeDemand
<1>12. PlanIsLastAudited'
  <2>1. \A s : Changes(s)' = Changes(s)
    BY <1>1, <1>5 DEF Changes
  <2> QED BY <1>1, <2>1 DEF IInv, PlanIsLastAudited
<1>13. Rights'
  <2>1. (Ready' <=> Ready) /\ (Begun => Begun')
    BY <1>1, <1>2, <1>4, <1>8, RunsStay
  <2> QED BY <1>1, <1>4, <1>8, <2>1, RightsStay
<1>14. Truth(r)'
  <2>1. Traceless(r)
    BY <1>1 DEF IInv, Truth
  <2>2. Registered(r) # new
    BY <1>5 DEF Registered, Event
  <2>3. Traceless(r)'
    BY <1>1, <2>1, <2>2 DEF Traceless, Exists, Registered, Event
  <2> QED BY <1>2, <1>4, <2>3 DEF Truth, Settled
<1>15. at'[r] = "saved" /\ KnowsAnswer(r)'
  BY <1>2, <1>4 DEF KnowsAnswer
<1> QED
  BY <1>6, <1>7, <1>8, <1>9, <1>10, <1>11, <1>12, <1>13, <1>14, <1>15, CommitStep

\* What every step that saves an account does to the locks and to the others.
LEMMA SavesRelease ==
    ASSUME IInv, NEW r \in Requests, at[r] = "save", Release(r), Go(r, "saved", tx[r])
    PROVE  /\ KnowsAccount(r) /\ Account(r) /\ Traceless(r) /\ at[r] \notin Settled
           /\ at'[r] = "saved" /\ tx'[r] = tx[r] /\ KnowsAnswer(r)'
           /\ Places' /\ \A q \in Requests \ {r} : at'[q] = at[q] /\ tx'[q] = tx[q]
<1>1. at[r] \notin Settled
  BY DEF Answers, Settled
<1>2. KnowsAccount(r) /\ Account(r) /\ Traceless(r)
  BY <1>1 DEF IInv, Knows, Account, Truth
<1>3. "saved" \in Underway \cup Answers /\ "saved" \notin Answers
  BY DEF Underway, Answers
<1>4. at'[r] = "saved"
  BY <1>3, GoTells
<1>5. "saved" \notin Answers => tx'[r] = tx[r]
  BY <1>3, GoTells
<1>6. Places'
  BY <1>3, GoTells
<1>7. \A q \in Requests \ {r} : at'[q] = at[q] /\ tx'[q] = tx[q]
  BY <1>3, GoTells
<1>8. KnowsAnswer(r)'
  BY <1>2, <1>3, <1>5 DEF KnowsAccount, KnowsAnswer
<1> QED
  BY <1>1, <1>2, <1>3, <1>4, <1>5, <1>6, <1>7, <1>8

\* Nothing has been audited about a workspace that does not exist yet.
LEMMA NoChangesYet ==
    ASSUME IInv, NEW r \in Requests, Traceless(r)
    PROVE  Changes(r) = {}
BY DEF IInv, Past, Traceless, Changes, Exists

\* A workspace made by r has a plan, and no change of it has been audited.
LEMMA CreatesWorkspace ==
    ASSUME IInv, NEW r \in Requests, NEW owner \in Ids, NEW dev \in BOOLEAN, Traceless(r),
           CreateWorkspace(r, owner, dev), audit' = audit \/ audit' = audit \cup {Registered(r)}, clock' = clock
    PROVE  /\ spaces' \subseteq [id : SpaceIds, owner : Ids, dev : BOOLEAN]
           /\ members' \subseteq [space : SpaceIds, user : Ids, role : {"owner", "member"}]
           /\ plan' \in [SpaceIds -> PlanNames \cup {"none"}]
           /\ plan'[r] = "free" /\ \A s \in SpaceIds \ {r} : plan'[s] = plan[s]
           /\ Planned' /\ Past' /\ SubscriptionsPrecedeDemand' /\ PlanIsLastAudited'
<1>1. /\ spaces' = spaces \cup {[id |-> r, owner |-> owner, dev |-> dev]}
      /\ members' = members \cup {[space |-> r, user |-> owner, role |-> "owner"]}
      /\ plan' = [plan EXCEPT ![r] = "free"]
  BY DEF CreateWorkspace
<1>2. r \in SpaceIds /\ "free" \in PlanNames /\ "free" # "none"
  BY DEF SpaceIds, PlanNames
<1>3. /\ spaces' \subseteq [id : SpaceIds, owner : Ids, dev : BOOLEAN]
      /\ members' \subseteq [space : SpaceIds, user : Ids, role : {"owner", "member"}]
  BY <1>1, <1>2 DEF IInv, Types
<1>4. /\ plan' \in [SpaceIds -> PlanNames \cup {"none"}]
      /\ plan'[r] = "free" /\ \A s \in SpaceIds \ {r} : plan'[s] = plan[s]
  BY <1>1, <1>2 DEF IInv, Types
<1>5. Planned'
  BY <1>1, <1>2, <1>4 DEF IInv, Types, Planned
<1>6. Registered(r).type = "registered"
  BY DEF Registered, Event
<1>7. Past' /\ SubscriptionsPrecedeDemand'
  BY <1>1, <1>6 DEF IInv, Past, Exists, SubscriptionsPrecedeDemand
<1>8. PlanIsLastAudited'
  <2>1. \A s \in SpaceIds : Changes(s)' = Changes(s)
    BY <1>6 DEF Changes
  <2>2. Changes(r) = {}
    BY NoChangesYet
  <2>3. SUFFICES ASSUME NEW s \in SpaceIds, NEW e \in Changes(s)
                 PROVE  /\ (\A f \in Changes(s) : f.stamp <= e.stamp) => plan'[s] = e.plan
                        /\ [space |-> s, user |-> e.actor, role |-> "owner"] \in members'
    BY <2>1 DEF PlanIsLastAudited
  <2>4. s # r
    BY <2>2, <2>3
  <2> QED BY <1>1, <1>4, <2>4 DEF IInv, PlanIsLastAudited
<1> QED
  BY <1>3, <1>4, <1>5, <1>7, <1>8

\* The address of a saved account: new and r's by the key, or its user's.
LEMMA OwnAddress ==
    ASSUME IInv, NEW r \in Requests, at[r] = "save"
    PROVE  LET e == tx[r].email IN
           /\ e \in Emails /\ tx[r].user \in Users
           /\ users[e] = Nobody => tx[r].user.id = r /\ \A q \in key[e] : q = r
           /\ users[e] # Nobody => tx[r].kind # "register" /\ users[e].id = tx[r].user.id /\ key[e] = {}
<1>1. KnowsAccount(r) /\ Account(r)
  BY DEF IInv, Knows, Account
<1>2. Locks
  BY DEF IInv
<1> QED
  BY <1>1, <1>2 DEF KnowsAccount, Locks

LEMMA SaveRegistrationStep ==
    ASSUME IInv, NEW r \in Requests, SaveRegistration(r)
    PROVE  IInv'
<1> DEFINE e == tx[r].email
<1>1. /\ at[r] = "save" /\ tx[r].kind = "register" /\ users' = [users EXCEPT ![e] = User(r, r, FALSE)]
      /\ CreateWorkspace(r, r, FALSE) /\ audit' = audit \cup {Registered(r)}
      /\ Release(r) /\ Go(r, "saved", tx[r]) /\ clock' = clock
  BY DEF SaveRegistration, Registered
<1>2. /\ Traceless(r) /\ at[r] \notin Settled
      /\ at'[r] = "saved" /\ tx'[r] = tx[r] /\ KnowsAnswer(r)'
      /\ Places' /\ \A q \in Requests \ {r} : at'[q] = at[q] /\ tx'[q] = tx[q]
  BY <1>1, SavesRelease
<1>3. e \in Emails /\ users[e] = Nobody /\ \A q \in key[e] : q = r
  BY <1>1, OwnAddress
<1>4. r \in Ids /\ FALSE \in BOOLEAN /\ r \in SpaceIds
  BY DEF Ids, SpaceIds
<1>5. /\ spaces' \subseteq [id : SpaceIds, owner : Ids, dev : BOOLEAN]
      /\ members' \subseteq [space : SpaceIds, user : Ids, role : {"owner", "member"}]
      /\ plan' \in [SpaceIds -> PlanNames \cup {"none"}]
      /\ plan'[r] = "free" /\ \A s \in SpaceIds \ {r} : plan'[s] = plan[s]
      /\ Planned' /\ Past' /\ SubscriptionsPrecedeDemand' /\ PlanIsLastAudited'
  BY <1>1, <1>2, <1>4, CreatesWorkspace
<1>6. User(r, r, FALSE) \in Users /\ User(r, r, FALSE).id = r /\ ~User(r, r, FALSE).admin
  BY <1>4 DEF User, Users
<1>7. User(r, r, FALSE) # Nobody
  BY DEF User, Nobody
<1>8. users'[e] = User(r, r, FALSE) /\ \A x \in Emails \ {e} : users'[x] = users[x]
  BY <1>1, <1>3 DEF IInv, Types
<1>9. Grows
  <2>1. clock <= clock'
    BY <1>1, ClockStays
  <2>2. spaces \subseteq spaces' /\ members \subseteq members' /\ audit \subseteq audit'
    BY <1>1 DEF CreateWorkspace
  <2> QED BY <1>3, <1>5, <1>8, <2>1, <2>2 DEF Grows
<1>10. AddsOwn(r)
  <2>1. Registered(r).space = r
    BY DEF Registered, Event
  <2>2. (\A w \in spaces' \ spaces : w.id = r) /\ \A m \in members' \ members : m.space = r
    BY <1>1 DEF CreateWorkspace
  <2> QED BY <1>1, <1>5, <1>6, <1>8, <2>1, <2>2 DEF AddsOwn
<1>11. Acts(r)
  <2>1. Registered(r).type = "registered"
    BY DEF Registered, Event
  <2> QED BY <1>1, <1>2, <2>1, Releases DEF Acts
<1>12. Types'
  <2>1. users' \in [Emails -> Users \cup {Nobody}]
    BY <1>1, <1>3, <1>6 DEF IInv, Types
  <2>2. clock' \in Nat
    BY <1>1 DEF IInv, Types
  <2> QED BY <1>1, <1>2, <1>5, <2>1, <2>2, Releases DEF Types
<1>13. Locks'
  <2>1. \A x \in Emails : key'[x] = key[x] \ {r}
    BY <1>1, Releases
  <2>2. \A s \in SpaceIds : lock'[s] = lock[s] \ {r}
    BY <1>1, Releases
  <2>3. \A x \in Emails : key'[x] # {} => users'[x] = Nobody
    BY <1>3, <1>8, <2>1 DEF IInv, Locks
  <2> QED BY <2>1, <2>2, <2>3 DEF IInv, Locks
<1>14. (Ready' <=> Ready) /\ (Begun => Begun')
  BY <1>1, <1>2, <1>11, RunsStay
<1>15. Rights'
  <2>1. ~Ready \/ e # AdminEmail
    BY <1>3 DEF IInv, Rights
  <2>2. \A x \in Emails : users'[x] # Nobody /\ users'[x].admin => x = AdminEmail /\ Begun'
    BY <1>6, <1>8, <1>14 DEF IInv, Rights
  <2>3. Ready' => users'[AdminEmail] # Nobody /\ users'[AdminEmail].admin
    BY <1>8, <1>14, <2>1, EmailsAssumption DEF IInv, Rights
  <2>4. \A q \in Requests : at'[q] = "200" /\ tx'[q].kind = "oversee" =>
            tx'[q].email \in Emails /\ users'[tx'[q].email] # Nobody /\ users'[tx'[q].email].admin
    BY <1>2, <1>3, <1>8 DEF IInv, Rights
  <2> QED BY <2>2, <2>3, <2>4 DEF Rights
<1>16. Truth(r)'
  <2>1. (Made(r, e))'
    BY <1>1, <1>2, <1>5, <1>6, <1>7, <1>8 DEF Made, CreateWorkspace, Owner
  <2> QED BY <1>2, <1>3, <2>1 DEF Truth, Settled
<1> QED
  BY <1>2, <1>5, <1>9, <1>10, <1>11, <1>12, <1>13, <1>15, <1>16, CommitStep

\* A script saves the user it found or made, under the id it knows.
LEMMA SavesUser ==
    ASSUME IInv, NEW r \in Requests, at[r] = "save", Release(r), NEW e \in Emails, e = tx[r].email,
           NEW saved \in Users, saved.id = tx[r].user.id, users' = [users EXCEPT ![e] = saved]
    PROVE  /\ users' \in [Emails -> Users \cup {Nobody}]
           /\ users'[e] = saved /\ saved # Nobody /\ \A x \in Emails \ {e} : users'[x] = users[x]
           /\ \A x \in Emails : users[x] # Nobody => users'[x] # Nobody /\ users'[x].id = users[x].id
           /\ \A x \in Emails : users'[x] # Nobody =>
                 users'[x].id = r \/ (users[x] # Nobody /\ users'[x].id = users[x].id)
           /\ Locks'
<1>1. /\ users[e] = Nobody => saved.id = r /\ \A q \in key[e] : q = r
      /\ users[e] # Nobody => saved.id = users[e].id /\ key[e] = {}
  BY OwnAddress
<1>2. users' \in [Emails -> Users \cup {Nobody}] /\ users'[e] = saved /\ \A x \in Emails \ {e} : users'[x] = users[x]
  BY <1>1 DEF IInv, Types
<1>3. saved # Nobody
  BY DEF Users, Nobody
<1>4. Locks'
  <2>1. \A x \in Emails : key'[x] = key[x] \ {r}
    BY Releases
  <2>2. \A s \in SpaceIds : lock'[s] = lock[s] \ {r}
    BY Releases
  <2>3. \A x \in Emails : key'[x] # {} => users'[x] = Nobody
    BY <1>1, <1>2, <2>1 DEF IInv, Locks
  <2> QED BY <2>1, <2>2, <2>3 DEF IInv, Locks
<1> QED
  BY <1>1, <1>2, <1>3, <1>4

LEMMA SaveDevStep ==
    ASSUME IInv, NEW r \in Requests, SaveDev(r)
    PROVE  IInv'
<1> DEFINE e == tx[r].email
           u == tx[r].user
<1>1. /\ at[r] = "save" /\ tx[r].kind = "dev_script"
      /\ tx[r].space = r => CreateWorkspace(r, u.id, TRUE) /\ audit' = audit
      /\ tx[r].space # r => EnsureSubscription(r) /\ UNCHANGED << spaces, members >>
      /\ Release(r) /\ Go(r, "saved", tx[r]) /\ clock' = clock
  BY DEF SaveDev
<1>2. /\ KnowsAccount(r) /\ Account(r) /\ Traceless(r) /\ at[r] \notin Settled
      /\ at'[r] = "saved" /\ tx'[r] = tx[r] /\ KnowsAnswer(r)'
      /\ Places' /\ \A q \in Requests \ {r} : at'[q] = at[q] /\ tx'[q] = tx[q]
  BY <1>1, SavesRelease
<1>3. /\ e = DevEmail /\ e \in Emails /\ u \in Users
      /\ users[e] = Nobody => u.id = r
      /\ users[e] # Nobody => users[e].id = u.id
  BY <1>1, <1>2, OwnAddress DEF KnowsAccount
<1>4. PICK saved \in Users :
         /\ users' = [users EXCEPT ![e] = saved] /\ saved.id = u.id
         /\ saved.admin => users[e] # Nobody /\ users[e].admin
         /\ users[e] # Nobody => saved.admin = users[e].admin
  <2>1. users \in [Emails -> Users \cup {Nobody}]
    BY DEF IInv, Types
  <2>2. CASE users[e] = Nobody
    <3>1. users' = [users EXCEPT ![e] = User(r, r, FALSE)]
      BY <1>3, <2>1, <2>2 DEF SaveDev
    <3>2. User(r, r, FALSE) \in Users /\ User(r, r, FALSE).id = r /\ ~User(r, r, FALSE).admin
      BY DEF User, Users, Ids
    <3> QED BY <1>3, <2>2, <3>1, <3>2
  <2>3. CASE users[e] # Nobody /\ u.hash = "none"
    <3>1. users' = [users EXCEPT ![e] = [users[e] EXCEPT !.hash = r]]
      BY <1>3, <2>1, <2>3 DEF SaveDev
    <3>2. users[e] \in Users
      BY <1>3, <2>1, <2>3
    <3>3. [users[e] EXCEPT !.hash = r] \in Users /\ [users[e] EXCEPT !.hash = r].id = users[e].id
          /\ [users[e] EXCEPT !.hash = r].admin = users[e].admin
      BY <3>2 DEF Users
    <3> QED BY <1>3, <2>3, <3>1, <3>3
  <2>4. CASE users[e] # Nobody /\ u.hash # "none"
    <3>1. users' = [users EXCEPT ![e] = users[e]]
      BY <1>3, <2>1, <2>4 DEF SaveDev
    <3>2. users[e] \in Users
      BY <1>3, <2>1, <2>4
    <3> QED BY <1>3, <2>4, <3>1, <3>2
  <2> QED BY <2>2, <2>3, <2>4
<1>5. /\ users' \in [Emails -> Users \cup {Nobody}]
      /\ users'[e] = saved /\ saved # Nobody /\ \A x \in Emails \ {e} : users'[x] = users[x]
      /\ \A x \in Emails : users[x] # Nobody => users'[x] # Nobody /\ users'[x].id = users[x].id
      /\ \A x \in Emails : users'[x] # Nobody =>
            users'[x].id = r \/ (users[x] # Nobody /\ users'[x].id = users[x].id)
      /\ Locks'
  <2>1. at[r] = "save" /\ Release(r) /\ saved.id = tx[r].user.id /\ users' = [users EXCEPT ![e] = saved]
    BY <1>1, <1>4
  <2> QED BY <1>3, <2>1, SavesUser
<1>6. /\ spaces' \subseteq [id : SpaceIds, owner : Ids, dev : BOOLEAN]
      /\ members' \subseteq [space : SpaceIds, user : Ids, role : {"owner", "member"}]
      /\ plan' \in [SpaceIds -> PlanNames \cup {"none"}]
      /\ \A s \in SpaceIds : plan[s] # "none" => plan'[s] # "none"
      /\ \A s \in SpaceIds \ {r} : plan'[s] = plan[s]
      /\ audit' = audit
      /\ Planned' /\ Past' /\ SubscriptionsPrecedeDemand' /\ PlanIsLastAudited'
  <2>1. CASE tx[r].space = r
    <3>1. u.id \in Ids /\ TRUE \in BOOLEAN /\ CreateWorkspace(r, u.id, TRUE) /\ audit' = audit /\ clock' = clock
      BY <1>1, <1>3, <2>1 DEF Users
    <3>2. /\ spaces' \subseteq [id : SpaceIds, owner : Ids, dev : BOOLEAN]
          /\ members' \subseteq [space : SpaceIds, user : Ids, role : {"owner", "member"}]
          /\ plan' \in [SpaceIds -> PlanNames \cup {"none"}]
          /\ plan'[r] = "free" /\ \A s \in SpaceIds \ {r} : plan'[s] = plan[s]
          /\ Planned' /\ Past' /\ SubscriptionsPrecedeDemand' /\ PlanIsLastAudited'
      BY <1>2, <3>1, CreatesWorkspace
    <3> QED BY <3>1, <3>2
  <2>2. CASE tx[r].space # r
    <3>1. Exists(tx[r].space) /\ tx[r].space \in SpaceIds
      BY <1>2, <2>2 DEF KnowsAccount
    <3>2. UNCHANGED << plan, audit >>
      BY <1>1, <2>2, <3>1, EnsureAddsNothing
    <3>3. UNCHANGED << spaces, members, plan, audit, clock >>
      BY <1>1, <2>2, <3>2
    <3> QED BY <3>3, KeepsWorkspaces DEF IInv, Types
  <2> QED BY <2>1, <2>2
<1>7. /\ spaces \subseteq spaces' /\ members \subseteq members'
      /\ (\A w \in spaces' \ spaces : w.id = r) /\ \A m \in members' \ members : m.space = r
  <2>1. CASE tx[r].space = r  BY <1>1, <2>1 DEF CreateWorkspace
  <2>2. CASE tx[r].space # r  BY <1>1, <2>2
  <2> QED BY <2>1, <2>2
<1>8. Grows /\ AddsOwn(r)
  <2>1. clock <= clock'
    BY <1>1, ClockStays
  <2> QED BY <1>1, <1>5, <1>6, <1>7, <2>1 DEF Grows, AddsOwn
<1>9. Acts(r)
  BY <1>1, <1>2, <1>6, Releases DEF Acts
<1>10. Types'
  <2>1. clock' \in Nat
    BY <1>1 DEF IInv, Types
  <2> QED BY <1>1, <1>2, <1>5, <1>6, <2>1, Releases DEF Types
<1>11. (Ready' <=> Ready) /\ (Begun => Begun')
  BY <1>1, <1>2, <1>9, RunsStay
<1>12. Rights'
  <2>1. \A x \in Emails : users'[x] # Nobody /\ users'[x].admin => x = AdminEmail /\ Begun'
    BY <1>4, <1>5, <1>11 DEF IInv, Rights
  <2>2. \A x \in Emails : users[x] # Nobody /\ users[x].admin => users'[x] # Nobody /\ users'[x].admin
    BY <1>4, <1>5
  <2>3. Ready' => users'[AdminEmail] # Nobody /\ users'[AdminEmail].admin
    BY <1>11, <2>2, EmailsAssumption DEF IInv, Rights
  <2>4. \A q \in Requests : at'[q] = "200" /\ tx'[q].kind = "oversee" =>
            tx'[q].email \in Emails /\ users'[tx'[q].email] # Nobody /\ users'[tx'[q].email].admin
    BY <1>2, <2>2 DEF IInv, Rights
  <2> QED BY <2>1, <2>3, <2>4 DEF Rights
<1>13. Truth(r)'
  BY <1>1, <1>2 DEF Truth, Settled
<1> QED
  BY <1>2, <1>5, <1>6, <1>8, <1>9, <1>10, <1>12, <1>13, CommitStep

LEMMA SaveAdminStep ==
    ASSUME IInv, NEW r \in Requests, SaveAdmin(r)
    PROVE  IInv'
<1> DEFINE e == tx[r].email
           u == tx[r].user
<1>1. /\ at[r] = "save" /\ tx[r].kind = "admin_script" /\ users' = [users EXCEPT ![AdminEmail] = User(u.id, r, TRUE)]
      /\ Release(r) /\ Go(r, "saved", tx[r]) /\ UNCHANGED << spaces, members, plan, audit, clock >>
  BY DEF SaveAdmin
<1>2. /\ KnowsAccount(r) /\ Account(r) /\ Traceless(r) /\ at[r] \notin Settled
      /\ at'[r] = "saved" /\ tx'[r] = tx[r] /\ KnowsAnswer(r)'
      /\ Places' /\ \A q \in Requests \ {r} : at'[q] = at[q] /\ tx'[q] = tx[q]
  BY <1>1, SavesRelease
<1>3. e = AdminEmail /\ e \in Emails /\ u \in Users
  BY <1>1, <1>2, OwnAddress DEF KnowsAccount
<1>4. PICK saved \in Users : users' = [users EXCEPT ![e] = saved] /\ saved.id = u.id /\ saved.admin
  <2>1. User(u.id, r, TRUE) \in Users /\ User(u.id, r, TRUE).id = u.id /\ User(u.id, r, TRUE).admin
    BY <1>3 DEF User, Users
  <2> QED BY <1>1, <1>3, <2>1
<1>5. /\ users' \in [Emails -> Users \cup {Nobody}]
      /\ users'[e] = saved /\ saved # Nobody /\ \A x \in Emails \ {e} : users'[x] = users[x]
      /\ \A x \in Emails : users[x] # Nobody => users'[x] # Nobody /\ users'[x].id = users[x].id
      /\ \A x \in Emails : users'[x] # Nobody =>
            users'[x].id = r \/ (users[x] # Nobody /\ users'[x].id = users[x].id)
      /\ Locks'
  <2>1. at[r] = "save" /\ Release(r) /\ saved.id = tx[r].user.id /\ users' = [users EXCEPT ![e] = saved]
    BY <1>1, <1>4
  <2> QED BY <1>3, <2>1, SavesUser
<1>6. Planned' /\ Past' /\ SubscriptionsPrecedeDemand' /\ PlanIsLastAudited'
  BY <1>1, KeepsWorkspaces
<1>7. Grows /\ AddsOwn(r)
  <2>1. clock <= clock'
    BY <1>1, ClockStays
  <2> QED BY <1>1, <1>5, <2>1 DEF Grows, AddsOwn
<1>8. Acts(r)
  BY <1>1, <1>2, Releases DEF Acts
<1>9. Types'
  <2>1. /\ clock' \in Nat /\ spaces' \subseteq [id : SpaceIds, owner : Ids, dev : BOOLEAN]
        /\ members' \subseteq [space : SpaceIds, user : Ids, role : {"owner", "member"}]
        /\ plan' \in [SpaceIds -> PlanNames \cup {"none"}]
    BY <1>1 DEF IInv, Types
  <2> QED BY <1>1, <1>2, <1>5, <2>1, Releases DEF Types
<1>10. Begun'
  BY <1>1, <1>2 DEF Begun, Runs
<1>11. Rights'
  <2>1. \A x \in Emails : users'[x] # Nobody /\ users'[x].admin => x = AdminEmail
    BY <1>3, <1>5 DEF IInv, Rights
  <2>2. users'[AdminEmail] # Nobody /\ users'[AdminEmail].admin
    BY <1>3, <1>4, <1>5
  <2>3. \A q \in Requests : at'[q] = "200" /\ tx'[q].kind = "oversee" =>
            tx'[q].email \in Emails /\ users'[tx'[q].email] # Nobody /\ users'[tx'[q].email].admin
    BY <1>2, <1>4, <1>5 DEF IInv, Rights
  <2> QED BY <1>10, <2>1, <2>2, <2>3 DEF Rights
<1>12. Truth(r)'
  BY <1>1, <1>2 DEF Truth, Settled
<1> QED
  BY <1>2, <1>5, <1>6, <1>7, <1>8, <1>9, <1>11, <1>12, CommitStep

\* The change that has the row is audited after every other of its workspace.
LEMMA SavePlanStep ==
    ASSUME IInv, NEW r \in Requests, SavePlan(r)
    PROVE  IInv'
<1>1. PICK k : k = tx[r]
  OBVIOUS
<1>2. PICK s : s = k.space
  OBVIOUS
<1> DEFINE new == [type |-> "plan_changed", space |-> s, actor |-> k.user.id, plan |-> k.want,
                  previous |-> k.copy, stamp |-> k.stamp]
<1>3. /\ at[r] = "changed" /\ at[r] \notin Settled /\ Managing(r) /\ KnowsPlan(r)
      /\ plan' = [plan EXCEPT ![s] = k.want] /\ audit' = audit \cup Missing(r) \cup {new}
      /\ Release(r) /\ Go(r, "saved", tx[r]) /\ UNCHANGED << users, spaces, members, clock >>
  BY <1>1, <1>2 DEF SavePlan, Managing, Answers, Settled, IInv, Knows
<1>4. /\ s \in SpaceIds /\ Exists(s) /\ k.want \in PlanNames /\ k.kind = "plan" /\ "kind" \in DOMAIN tx[r]
      /\ Owner(s, k.user.id) \in members /\ r \in lock[s]
      /\ k.stamp \in Nat /\ k.stamp < clock /\ \A e \in Changes(s) : e.stamp < k.stamp
  BY <1>3, <1>1, <1>2 DEF KnowsPlan
<1>5. audit' = audit \cup {new}
  <2>1. plan[s] # "none"
    BY <1>4 DEF IInv, Planned, Exists
  <2>2. Missing(r) = {}
    BY <2>1, <1>1, <1>2 DEF Missing
  <2> QED BY <1>3, <2>2
<1>6. /\ new.type = "plan_changed" /\ new.space = s /\ new.actor = k.user.id
      /\ new.plan = k.want /\ new.stamp = k.stamp
  OBVIOUS
<1> HIDE DEF new
<1>7. "saved" \in Underway \cup Answers /\ "saved" \notin Answers
  BY DEF Underway, Answers
<1>8. at'[r] = "saved" /\ tx'[r] = tx[r] /\ Places' /\ \A q \in Requests \ {r} : at'[q] = at[q] /\ tx'[q] = tx[q]
  <2>1. at'[r] = "saved"
    BY <1>3, <1>7, GoTells
  <2>2. "saved" \notin Answers => tx'[r] = tx[r]
    BY <1>3, <1>7, GoTells
  <2>3. Places'
    BY <1>3, <1>7, GoTells
  <2>4. \A q \in Requests \ {r} : at'[q] = at[q] /\ tx'[q] = tx[q]
    BY <1>3, <1>7, GoTells
  <2> QED BY <1>7, <2>1, <2>2, <2>3, <2>4
<1>9. /\ plan' \in [SpaceIds -> PlanNames \cup {"none"}] /\ plan'[s] = k.want /\ k.want # "none"
      /\ \A x \in SpaceIds \ {s} : plan'[x] = plan[x]
  BY <1>3, <1>4 DEF IInv, Types, PlanNames
<1>10. plan[s] # "none"
  BY <1>4 DEF IInv, Planned, Exists
<1>11. Grows
  <2>1. clock' = clock
    BY <1>3
  <2>2. clock <= clock'
    BY <2>1, ClockStays
  <2> QED BY <1>3, <1>5, <1>9, <2>2 DEF Grows
<1>12. AddsOwn(r)
  BY <1>3, <1>5, <1>6, <1>9, <1>10 DEF AddsOwn
<1>13. Acts(r)
  BY <1>3, <1>4, <1>5, <1>6, <1>8, Releases DEF Acts
<1>14. Types'
  BY <1>3, <1>8, <1>9, Releases DEF IInv, Types
<1>15. Locks'
  BY <1>3, Releases DEF IInv, Locks
<1>16. Planned'
  <2>1. \A w \in spaces : w.id \in SpaceIds
    BY DEF IInv, Types
  <2> QED BY <1>3, <1>9, <2>1 DEF IInv, Planned
<1>17. Past' /\ SubscriptionsPrecedeDemand'
  BY <1>3, <1>4, <1>5, <1>6 DEF IInv, Past, Exists, SubscriptionsPrecedeDemand
<1>18. PlanIsLastAudited'
  <2>1. Changes(s)' = Changes(s) \cup {new} /\ \A x \in SpaceIds \ {s} : Changes(x)' = Changes(x)
    BY <1>5, <1>6 DEF Changes
  <2>2. ASSUME NEW x \in SpaceIds \ {s}, NEW e \in Changes(x)
        PROVE  /\ (\A f \in Changes(x) : f.stamp <= e.stamp) => plan'[x] = e.plan
               /\ [space |-> x, user |-> e.actor, role |-> "owner"] \in members'
    BY <1>3, <1>9 DEF IInv, PlanIsLastAudited
  <2>3. ASSUME NEW e \in Changes(s)
        PROVE  /\ ~(new.stamp <= e.stamp)
               /\ [space |-> s, user |-> e.actor, role |-> "owner"] \in members'
    <3>1. e.stamp \in Nat /\ e.stamp < k.stamp
      BY <1>4 DEF IInv, Past, Changes
    <3>2. ~(new.stamp <= e.stamp)
      BY <1>4, <1>6, <3>1
    <3>3. [space |-> s, user |-> e.actor, role |-> "owner"] \in members'
      BY <1>3, <1>4 DEF IInv, PlanIsLastAudited
    <3> QED BY <3>2, <3>3
  <2>4. plan'[s] = new.plan /\ [space |-> s, user |-> new.actor, role |-> "owner"] \in members'
    BY <1>3, <1>4, <1>6, <1>9 DEF Owner
  <2>5. ASSUME NEW x \in SpaceIds, NEW e \in Changes(x)'
        PROVE  /\ (\A f \in Changes(x)' : f.stamp <= e.stamp) => plan'[x] = e.plan
               /\ [space |-> x, user |-> e.actor, role |-> "owner"] \in members'
    <3>1. CASE x # s
      BY <2>1, <2>2, <3>1
    <3>2. CASE x = s /\ e = new
      BY <2>4, <3>2
    <3>3. CASE x = s /\ e # new
      <4>1. e \in Changes(s) /\ new \in Changes(s)'
        BY <2>1, <3>3
      <4> QED BY <2>3, <3>3, <4>1
    <3> QED BY <3>1, <3>2, <3>3
  <2> QED BY <2>5 DEF PlanIsLastAudited
<1>19. Rights'
  <2>1. (Ready' <=> Ready) /\ (Begun => Begun')
    BY <1>1, <1>3, <1>4, <1>8, <1>13, RunsStay
  <2> QED BY <1>3, <1>8, <1>13, <2>1, RightsStay
<1>20. Truth(r)'
  <2>1. Traceless(r)
    BY <1>3 DEF IInv, Truth
  <2>2. r # s /\ r \in SpaceIds /\ Registered(r) # new
    BY <1>4, <1>6, <2>1 DEF Traceless, SpaceIds, Registered, Event
  <2>3. Registered(r) \notin audit'
    BY <1>5, <2>1, <2>2 DEF Traceless
  <2>4. Traceless(r)'
    BY <1>3, <1>9, <2>1, <2>2, <2>3 DEF Traceless, Exists
  <2> QED BY <1>1, <1>4, <1>8, <2>4 DEF Truth, Settled
<1>21. at'[r] = "saved" /\ KnowsAnswer(r)'
  BY <1>1, <1>4, <1>8 DEF KnowsAnswer
<1> QED
  BY <1>11, <1>12, <1>13, <1>14, <1>15, <1>16, <1>17, <1>18, <1>19, <1>20, <1>21, CommitStep

-----------------------------------------------------------------------------
(* The invariant holds *)

LEMMA InitEstablishes == Init => IInv
<1> SUFFICES ASSUME Init PROVE IInv
  OBVIOUS
<1>1. /\ spaces = {[id |-> "acme", owner |-> "owner", dev |-> FALSE]}
      /\ plan = [s \in SpaceIds |-> IF s = "acme" THEN "free" ELSE "none"]
      /\ audit = {} /\ clock = 0
      /\ key = [e \in Emails |-> {}] /\ lock = [s \in SpaceIds |-> {}]
      /\ at = [r \in Requests |-> "idle"]
      /\ tx = [r \in Requests |-> [kind |-> "none"]]
  BY DEF Init
<1>2. /\ users \in [Emails -> {User("owner", "found", FALSE), User("dev", "none", FALSE), Nobody}]
      /\ members \subseteq {[space |-> "acme", user |-> "owner", role |-> "owner"],
                            [space |-> "acme", user |-> "dev", role |-> "member"]}
  BY DEF Init
<1>3. /\ User("owner", "found", FALSE) \in Users /\ User("dev", "none", FALSE) \in Users
      /\ \A e \in Emails : users[e] # Nobody => users[e].id \in {"owner", "dev"} /\ ~users[e].admin
  <2>1. User("owner", "found", FALSE) \in Users /\ User("dev", "none", FALSE) \in Users
    BY DEF User, Users, Ids
  <2>2. \A e \in Emails : users[e] # Nobody => users[e].id \in {"owner", "dev"} /\ ~users[e].admin
    BY <1>2 DEF User
  <2> QED BY <2>1, <2>2
<1>4. Places
  BY <1>1 DEF Places
<1>5. Types
  <2>1. users \in [Emails -> Users \cup {Nobody}]
    BY <1>2, <1>3
  <2>2. /\ spaces \subseteq [id : SpaceIds, owner : Ids, dev : BOOLEAN]
        /\ members \subseteq [space : SpaceIds, user : Ids, role : {"owner", "member"}]
    BY <1>1, <1>2 DEF SpaceIds, Ids
  <2>3. plan \in [SpaceIds -> PlanNames \cup {"none"}] /\ clock \in Nat
    BY <1>1 DEF PlanNames
  <2>4. key \in [Emails -> SUBSET Requests] /\ lock \in [SpaceIds -> SUBSET Requests]
    BY <1>1
  <2> QED BY <1>4, <2>1, <2>2, <2>3, <2>4 DEF Types
<1>6. Locks /\ Past /\ SubscriptionsPrecedeDemand /\ PlanIsLastAudited
  BY <1>1 DEF Locks, Past, SubscriptionsPrecedeDemand, PlanIsLastAudited, Changes
<1>7. Planned
  BY <1>1 DEF Planned, SpaceIds
<1>8. Rights
  BY <1>1, <1>3 DEF Rights, Ready, Begun, Runs
<1>9. ASSUME NEW r \in Requests PROVE Knows(r) /\ Truth(r)
  <2>1. at[r] = "idle"
    BY <1>1
  <2>2. r # "acme" /\ r # "owner" /\ r # "dev" /\ r \in SpaceIds
    BY NamesAssumption DEF SpaceIds
  <2>3. Traceless(r)
    BY <1>1, <1>2, <1>3, <2>2 DEF Traceless, Exists
  <2> QED BY <2>1, <2>3 DEF Knows, KnowsAccount, Account, KnowsPlan, Managing, KnowsLogin, KnowsAnswer, Truth, Answers, Settled
<1> QED
  BY <1>5, <1>6, <1>7, <1>8, <1>9 DEF IInv

LEMMA ArriveStep ==
    ASSUME IInv, NEW r \in Requests, Arrive(r)
    PROVE  IInv'
<1>1. PICK e \in Emails :
        \/ \E kind \in {"register", "dev_script", "admin_script"} : Lookup(r, kind, e)
        \/ \E right \in BOOLEAN : Login(r, e, right)
        \/ Me(r, e) \/ Oversee(r, e)
        \/ \E s \in SpaceIds :
              \/ ChangeWorkspacePlan(r, e, s) \/ GetWorkspaceBilling(r, e, s) \/ GetWorkspaceUsage(r, e, s)
              \/ GetWorkspaceSettings(r, e, s) \/ PolicyForWorkspace(r, e, s)
  BY DEF Arrive
<1>2. CASE \E kind \in {"register", "dev_script", "admin_script"} : Lookup(r, kind, e)
  BY <1>2, LookupStep
<1>3. CASE \E right \in BOOLEAN : Login(r, e, right)
  BY <1>3, LoginStep
<1>4. CASE Me(r, e)
  BY <1>4, MeStep
<1>5. CASE Oversee(r, e)
  BY <1>5, OverseeStep
<1>6. CASE \E s \in SpaceIds :
              \/ ChangeWorkspacePlan(r, e, s) \/ GetWorkspaceBilling(r, e, s) \/ GetWorkspaceUsage(r, e, s)
              \/ GetWorkspaceSettings(r, e, s) \/ PolicyForWorkspace(r, e, s)
  BY <1>6, WorkspaceRequestSteps
<1> QED
  BY <1>1, <1>2, <1>3, <1>4, <1>5, <1>6

LEMMA WorkStep ==
    ASSUME IInv, NEW r \in Requests, Work(r)
    PROVE  IInv'
<1>1. CASE InsertUser(r)  BY <1>1, InsertUserStep
<1>2. CASE FindWorkspace(r)  BY <1>2, FindWorkspaceStep
<1>3. CASE SaveRegistration(r)  BY <1>3, SaveRegistrationStep
<1>4. CASE SaveDev(r)  BY <1>4, SaveDevStep
<1>5. CASE SaveAdmin(r)  BY <1>5, SaveAdminStep
<1>6. CASE Greet(r)  BY <1>6, GreetStep
<1>7. CASE Demand(r)  BY <1>7, DemandStep
<1>8. CASE LoadPlan(r)  BY <1>8, LoadPlanStep
<1>9. CASE ChangePlan(r)  BY <1>9, ChangePlanStep
<1>10. CASE SavePlan(r)  BY <1>10, SavePlanStep
<1>11. CASE Answer(r)  BY <1>11, AnswerStep
<1> QED
  BY <1>1, <1>2, <1>3, <1>4, <1>5, <1>6, <1>7, <1>8, <1>9, <1>10, <1>11 DEF Work

LEMMA NextKeeps == IInv /\ [Next]_vars => IInv'
<1> SUFFICES ASSUME IInv, [Next]_vars PROVE IInv'
  OBVIOUS
<1>1. CASE UNCHANGED vars
  <2>1. Types' /\ Locks' /\ Planned' /\ Past' /\ Rights' /\ SubscriptionsPrecedeDemand' /\ PlanIsLastAudited'
    BY <1>1 DEF vars, IInv, Types, Places, Locks, Planned, Past, Exists, Rights, Ready, Begun, Runs,
                SubscriptionsPrecedeDemand, PlanIsLastAudited, Changes
  <2>2. ASSUME NEW r \in Requests PROVE Knows(r)' /\ Truth(r)'
    <3>1. Knows(r) /\ Truth(r)
      BY DEF IInv
    <3>2. Knows(r)'
      BY <1>1, <3>1 DEF vars, Knows, KnowsAccount, Account, KnowsPlan, Managing, KnowsLogin, KnowsAnswer, Exists, Changes
    <3>3. Truth(r)'
      BY <1>1, <3>1 DEF vars, Truth, Traceless, Made, Exists
    <3> QED BY <3>2, <3>3
  <2> QED BY <2>1, <2>2 DEF IInv
<1>2. CASE Next
  <2>1. PICK r \in Requests : Arrive(r) \/ Work(r) \/ Break(r)
    BY <1>2 DEF Next
  <2>2. CASE Arrive(r)  BY <2>2, ArriveStep
  <2>3. CASE Work(r)  BY <2>3, WorkStep
  <2>4. CASE Break(r)  BY <2>4, BreakStep
  <2> QED BY <2>1, <2>2, <2>3, <2>4
<1> QED
  BY <1>1, <1>2

LEMMA AlwaysIInv == Spec => []IInv
<1> QED
  BY InitEstablishes, NextKeeps, PTL DEF Spec

-----------------------------------------------------------------------------
(* What it gives *)

\* A registration leaves all of its rows or none: one commit, and the flush that
\* waits for a rival's key. If it was answered 201 all are there.
THEOREM RegistrationsAlwaysTellTruth == Spec => []RegistrationTellsTruth
<1>1. IInv => RegistrationTellsTruth
  <2> DEFINE made(r) == users[tx[r].email] # Nobody /\ users[tx[r].email].id = r
  <2>1. SUFFICES ASSUME IInv, NEW r \in Requests, tx[r].kind = "register", at[r] \in Answers
                 PROVE  /\ made(r) <=> [id |-> r, owner |-> r, dev |-> FALSE] \in spaces
                        /\ made(r) <=> [space |-> r, user |-> r, role |-> "owner"] \in members
                        /\ made(r) <=> plan[r] # "none"
                        /\ made(r) <=> Event("registered", r, r, "none", "none") \in audit
                        /\ at[r] = "201" => made(r)
                        /\ at[r] = "409" => ~made(r)
    BY DEF RegistrationTellsTruth
  <2>2. Truth(r) /\ tx[r].email \in Emails /\ at[r] \in Settled
    BY <2>1 DEF IInv, Truth, Settled
  <2>3. CASE Made(r, tx[r].email)
    <3>1. at[r] # "409"
      BY <2>1, <2>2, <2>3 DEF Truth, Made, Traceless
    <3> QED BY <2>3, <3>1 DEF Made, Owner, Registered
  <2>4. CASE Traceless(r)
    <3>1. ~made(r)
      BY <2>2, <2>4 DEF Traceless
    <3>2. [id |-> r, owner |-> r, dev |-> FALSE] \notin spaces
      BY <2>4 DEF Traceless, Exists
    <3>3. [space |-> r, user |-> r, role |-> "owner"] \notin members
      BY <2>4 DEF Traceless
    <3>4. plan[r] = "none" /\ Event("registered", r, r, "none", "none") \notin audit
      BY <2>4 DEF Traceless, Registered
    <3>5. at[r] # "201"
      BY <2>1, <2>2, <3>1 DEF Truth, Made
    <3> QED BY <3>1, <3>2, <3>3, <3>4, <3>5
  <2> QED BY <2>1, <2>2, <2>3, <2>4 DEF Truth
<1> QED
  BY <1>1, AlwaysIInv, PTL

\* The subscription is always there before anyone demands it: the unlocked
\* insert of get_or_create_subscription never runs.
THEOREM SubscriptionsAlwaysPrecedeDemand == Spec => []SubscriptionsPrecedeDemand
<1>1. IInv => SubscriptionsPrecedeDemand
  BY DEF IInv
<1> QED
  BY <1>1, AlwaysIInv, PTL

\* The plan in force is the last audited one, and an owner asked for it.
THEOREM PlanIsAlwaysLastAudited == Spec => []PlanIsLastAudited
<1>1. IInv => PlanIsLastAudited
  BY DEF IInv
<1> QED
  BY <1>1, AlwaysIInv, PTL

\* Only the script makes an admin, its address stays one, and nobody else is
\* shown the admin views.
THEOREM AdminsAlwaysComeFromTheScript == Spec => []AdminsComeFromTheScript
<1>1. IInv => AdminsComeFromTheScript
  <2> SUFFICES ASSUME IInv PROVE AdminsComeFromTheScript
    OBVIOUS
  <2> DEFINE admins == {e \in Emails : users[e] # Nobody /\ users[e].admin}
  <2>1. Rights /\ AdminEmail \in Emails
    BY EmailsAssumption DEF IInv
  <2>2. Runs({"ready"}) => admins = {AdminEmail}
    BY <2>1 DEF Rights, Ready, Runs
  <2>3. admins # {} => admins = {AdminEmail} /\ Begun
    BY <2>1 DEF Rights
  <2>4. \A r \in Requests : tx[r].kind = "oversee" /\ at[r] = "200" => tx[r].email \in admins
    BY <2>1 DEF Rights
  <2> HIDE DEF admins
  <2> QED BY <2>2, <2>3, <2>4 DEF AdminsComeFromTheScript, Begun, Runs, admins
<1> QED
  BY <1>1, AlwaysIInv, PTL

=============================================================================
