------------------------------ MODULE Accounts ------------------------------
(***************************************************************************)
(* Accounts, roles and plans: registration, login, the checks before a     *)
(* workspace or an admin request, plan changes and the two scripts that    *)
(* create accounts.  Every request has a session of its own; what it       *)
(* flushes is seen by nobody until its commit, but the unique key of       *)
(* users.email and the row lock of a subscription are held meanwhile.      *)
(***************************************************************************)
EXTENDS Naturals, Functions

CONSTANTS Requests,                           \* requests and runs of the scripts
          Emails,                             \* addresses
          OwnerEmail, DevEmail, AdminEmail    \* those with a meaning of their own

ASSUME EmailsAssumption == {OwnerEmail, DevEmail, AdminEmail} \subseteq Emails
\* What was there before has names no request makes.
ASSUME NamesAssumption == Requests \cap {"owner", "dev", "acme", "nobody"} = {}

VARIABLES users,    \* the committed user of an address
          spaces,   \* the committed workspaces
          members,  \* the committed memberships
          plan,     \* the committed plan of a workspace, or "none"
          audit,    \* the committed audit events
          clock,    \* stamps of audit events
          key,      \* the requests that have flushed a user of the address and not committed
          lock,     \* the requests that have flushed a change of a workspace's plan
          at,       \* where a request is; its answer once it has ended
          tx        \* what a request knows

vars == << users, spaces, members, plan, audit, clock, key, lock, at, tx >>
rows == << users, spaces, members, plan, audit >>

Ids == Requests \cup {"owner", "dev"}         \* a user or workspace is named after the request that made it
SpaceIds == Requests \cup {"acme"}
Nobody == [id |-> "nobody"]
PlanNames == {"free", "pro"}
Answers == {"200", "201", "400", "401", "403", "404", "409", "500", "ready"}
Underway == {"new user", "find workspace", "save", "greet", "admitted", "change", "changed", "saved"}

Permissions == [owner |-> {"read_documents", "upload_documents", "query_documents", "read_reviews",
                           "create_reviews", "decide_reviews", "export_reviews", "manage_workspace"},
                member |-> {"read_documents", "upload_documents", "query_documents", "read_reviews",
                            "create_reviews"}]

User(id, hash, admin) == [id |-> id, hash |-> hash, admin |-> admin]
Users == [id : Ids, hash : Requests \cup {"none", "found"}, admin : BOOLEAN]
Event(type, space, actor, new, old) ==
    [type |-> type, space |-> space, actor |-> actor, plan |-> new, previous |-> old]

\* A workspace with an owner, and maybe a member whose row is older than passwords.
Init ==
    /\ \E invited \in BOOLEAN :
          /\ users = [e \in Emails |-> CASE e = OwnerEmail -> User("owner", "found", FALSE)
                                         [] e = DevEmail /\ invited -> User("dev", "none", FALSE)
                                         [] OTHER -> Nobody]
          /\ members = {[space |-> "acme", user |-> "owner", role |-> "owner"]}
                         \cup IF invited THEN {[space |-> "acme", user |-> "dev", role |-> "member"]} ELSE {}
    /\ spaces = {[id |-> "acme", owner |-> "owner", dev |-> FALSE]}
    /\ plan = [s \in SpaceIds |-> IF s = "acme" THEN "free" ELSE "none"]
    /\ audit = {} /\ clock = 0
    /\ key = [e \in Emails |-> {}] /\ lock = [s \in SpaceIds |-> {}]
    /\ at = [r \in Requests |-> "idle"]
    /\ tx = [r \in Requests |-> [kind |-> "none"]]

\* r goes on with what it knows; an ended request is remembered by what it asked.
Go(r, where, k) ==
    /\ at' = [at EXCEPT ![r] = where]
    /\ tx' = [tx EXCEPT ![r] = IF where \in Answers THEN Restrict(k, DOMAIN k \cap {"kind", "email"}) ELSE k]
\* The end of the request's transaction, by commit or rollback.
Release(r) == key' = [e \in Emails |-> key[e] \ {r}] /\ lock' = [s \in SpaceIds |-> lock[s] \ {r}]

-----------------------------------------------------------------------------
(* Subscriptions *)

\* get_or_create_subscription: the plan in force, and what is added for a
\* workspace that has none.
InForce(s) == IF plan[s] = "none" THEN "free" ELSE plan[s]
Missing(r) ==
    LET s == tx[r].space
    IN  IF plan[s] = "none" THEN {Event("subscription.created", s, tx[r].user.id, "free", "none")} ELSE {}
EnsureSubscription(r) ==
    /\ plan' = [plan EXCEPT ![tx[r].space] = InForce(tx[r].space)]
    /\ audit' = audit \cup Missing(r)

-----------------------------------------------------------------------------
(* Accounts: register, create_dev_workspace and create_admin_user *)

Inserted(kind) == IF kind = "dev_script" THEN "find workspace" ELSE "save"
Existing(kind) == IF kind = "register" THEN "409" ELSE Inserted(kind)

\* get_user_by_email; a script that finds its user goes on with that row.
Lookup(r, kind, e) ==
    /\ at[r] = "idle"
    /\ e \in CASE kind = "register" -> Emails [] kind = "dev_script" -> {DevEmail} [] kind = "admin_script" -> {AdminEmail}
    /\ Go(r, IF users[e] = Nobody THEN "new user" ELSE Existing(kind),
          [kind |-> kind, email |-> e, space |-> r,
           user |-> IF users[e] = Nobody THEN User(r, "none", FALSE) ELSE users[e]])
    /\ UNCHANGED << rows, clock, key, lock >>

\* Mutant: create_user commits.
InsertUserCommits(r) ==
    LET e == tx[r].email IN
    /\ at[r] = "new user" /\ key[e] = {}
    /\ IF users[e] = Nobody
       THEN Go(r, Inserted(tx[r].kind), tx[r]) /\ users' = [users EXCEPT ![e] = User(r, r, FALSE)]
       ELSE Go(r, "500", tx[r]) /\ UNCHANGED users
    /\ UNCHANGED << spaces, members, plan, audit, clock, key, lock >>

\* create_user: the flush waits for a rival that has flushed the same address,
\* then meets the unique key if that rival has committed.
InsertUser(r) ==
    LET e == tx[r].email IN
    /\ at[r] = "new user" /\ key[e] = {}
    /\ IF users[e] = Nobody
       THEN Go(r, Inserted(tx[r].kind), tx[r]) /\ key' = [key EXCEPT ![e] = {r}]
       ELSE Go(r, "500", tx[r]) /\ UNCHANGED key
    /\ UNCHANGED << rows, clock, lock >>

\* The script looks for its user's workspace "Dev Workspace".
FindWorkspace(r) ==
    LET mine == {s \in spaces : s.dev /\ s.owner = tx[r].user.id} IN
    /\ at[r] = "find workspace"
    /\ \E id \in IF mine = {} THEN {r} ELSE {s.id : s \in mine} : Go(r, "save", [tx[r] EXCEPT !.space = id])
    /\ UNCHANGED << rows, clock, key, lock >>

\* Mutant: create_workspace leaves the subscription to whoever asks first.
CreateWorkspaceBare(r, owner, dev) ==
    /\ spaces' = spaces \cup {[id |-> r, owner |-> owner, dev |-> dev]}
    /\ members' = members \cup {[space |-> r, user |-> owner, role |-> "owner"]}
    /\ UNCHANGED plan

\* create_workspace: the row, its owner's membership and a free subscription.
CreateWorkspace(r, owner, dev) ==
    /\ spaces' = spaces \cup {[id |-> r, owner |-> owner, dev |-> dev]}
    /\ members' = members \cup {[space |-> r, user |-> owner, role |-> "owner"]}
    /\ plan' = [plan EXCEPT ![r] = "free"]

\* The single commit of a registration.
SaveRegistration(r) ==
    /\ at[r] = "save" /\ tx[r].kind = "register"
    /\ users' = [users EXCEPT ![tx[r].email] = User(r, r, FALSE)]
    /\ CreateWorkspace(r, r, FALSE)
    /\ audit' = audit \cup {Event("registered", r, r, "none", "none")}
    /\ Release(r) /\ Go(r, "saved", tx[r])
    /\ UNCHANGED clock

\* create_dev_workspace sets a password only where it loaded none, and sees to
\* the subscription of a workspace it found; a new one has just got its own.
SaveDev(r) ==
    LET u == tx[r].user IN
    /\ at[r] = "save" /\ tx[r].kind = "dev_script"
    /\ users' = [users EXCEPT ![DevEmail] = CASE @ = Nobody -> User(r, r, FALSE)
                                              [] @ # Nobody /\ u.hash = "none" -> [@ EXCEPT !.hash = r]
                                              [] OTHER -> @]
    /\ IF tx[r].space = r THEN CreateWorkspace(r, u.id, TRUE) /\ UNCHANGED audit
       ELSE EnsureSubscription(r) /\ UNCHANGED << spaces, members >>
    /\ Release(r) /\ Go(r, "saved", tx[r])
    /\ UNCHANGED clock

\* Mutant: an existing account gets the password and not the right.
SaveAdminNewOnly(r) ==
    /\ at[r] = "save" /\ tx[r].kind = "admin_script"
    /\ users' = [users EXCEPT ![AdminEmail] = User(tx[r].user.id, r, users[AdminEmail] = Nobody)]
    /\ Release(r) /\ Go(r, "saved", tx[r])
    /\ UNCHANGED << spaces, members, plan, audit, clock >>

\* create_admin_user: password and right, whoever made the account.
SaveAdmin(r) ==
    /\ at[r] = "save" /\ tx[r].kind = "admin_script"
    /\ users' = [users EXCEPT ![AdminEmail] = User(tx[r].user.id, r, TRUE)]
    /\ Release(r) /\ Go(r, "saved", tx[r])
    /\ UNCHANGED << spaces, members, plan, audit, clock >>

\* What is said of the rows committed. It is read from the database again.
Answer(r) ==
    /\ at[r] = "saved"
    /\ Go(r, CASE tx[r].kind = "register" -> "201"
               [] tx[r].kind \in {"dev_script", "admin_script"} -> "ready"
               [] OTHER -> "200", tx[r])
    /\ UNCHANGED << rows, clock, key, lock >>

-----------------------------------------------------------------------------
(* Login *)

\* The password cannot be right where there is none.
Login(r, e, right) ==
    LET u == users[e]
        mine == {m.space : m \in {n \in members : n.user = u.id}} IN
    /\ at[r] = "idle"
    /\ IF u = Nobody \/ ~right \/ u.hash = "none"
       THEN Go(r, "401", [kind |-> "login"])
       ELSE IF mine = {} THEN Go(r, "200", [kind |-> "login"])
       ELSE \E s \in mine : Go(r, "greet", [kind |-> "login", user |-> u, space |-> s])
    /\ UNCHANGED << rows, clock, key, lock >>

\* The login is audited in the default workspace.
Greet(r) ==
    /\ at[r] = "greet"
    /\ audit' = audit \cup {Event("login", tx[r].space, tx[r].user.id, "none", "none")}
    /\ Go(r, "saved", tx[r])
    /\ UNCHANGED << users, spaces, members, plan, clock, key, lock >>

-----------------------------------------------------------------------------
(* Workspace and admin requests *)

Role(e, s) == {m.role : m \in {n \in members : n.space = s /\ n.user = users[e].id}}

\* Mutant: any member may do anything.
AnswerToAnyMember(e, s, need) ==
    IF users[e] = Nobody THEN "401"
    ELSE IF \A w \in spaces : w.id # s THEN "404"
    ELSE IF Role(e, s) = {} THEN "403" ELSE "admitted"

\* get_current_user and require_workspace_permission, in their order. The
\* status of the workspace is module WorkspaceLifecycle's.
AnswerTo(e, s, need) ==
    IF users[e] = Nobody THEN "401"
    ELSE IF \A w \in spaces : w.id # s THEN "404"
    ELSE IF \A role \in Role(e, s) : need \notin Permissions[role] THEN "403"
    ELSE "admitted"

Gate(r, kind, e, s, need, want) ==
    /\ at[r] = "idle"
    /\ Go(r, AnswerTo(e, s, need),
          [kind |-> kind, user |-> users[e], space |-> s, want |-> want, copy |-> "none", stamp |-> 0])
    /\ UNCHANGED << rows, clock, key, lock >>

ChangeWorkspacePlan(r, e, s) ==
    \E want \in PlanNames \cup {"unknown"} : Gate(r, "plan", e, s, "manage_workspace", want)

\* The views of billing, usage and settings, and the quota checks, demand the
\* subscription.
GetWorkspaceBilling(r, e, s)  == Gate(r, "demand", e, s, "manage_workspace", "none")
GetWorkspaceUsage(r, e, s)    == Gate(r, "demand", e, s, "manage_workspace", "none")
GetWorkspaceSettings(r, e, s) == Gate(r, "demand", e, s, "manage_workspace", "none")
PolicyForWorkspace(r, e, s) ==
    \E need \in {"upload_documents", "query_documents"} : Gate(r, "demand", e, s, need, "none")

\* The answer names the caller's own account and workspaces.
Me(r, e) ==
    /\ at[r] = "idle"
    /\ Go(r, IF users[e] = Nobody THEN "401" ELSE "200", [kind |-> "me"])
    /\ UNCHANGED << rows, clock, key, lock >>

\* require_platform_admin before the admin views.
Oversee(r, e) ==
    /\ at[r] = "idle"
    /\ Go(r, CASE users[e] = Nobody -> "401" [] users[e] # Nobody /\ users[e].admin -> "200" [] OTHER -> "403",
          [kind |-> "oversee", email |-> e])
    /\ UNCHANGED << rows, clock, key, lock >>

\* What a demand or a change commits of the subscription is one step with its
\* answer: it finds one, so there is nothing to write.
Subscribe(r) == EnsureSubscription(r) /\ UNCHANGED << users, spaces, members >>

Demand(r) ==
    /\ at[r] = "admitted" /\ tx[r].kind = "demand"
    /\ Subscribe(r)
    /\ Go(r, "200", tx[r])
    /\ UNCHANGED << clock, key, lock >>

\* set_plan up to the assignment: the name must be known, and a plan that is
\* already there is neither written nor audited.
LoadPlan(r) ==
    LET old == InForce(tx[r].space) IN
    /\ at[r] = "admitted" /\ tx[r].kind = "plan"
    /\ IF tx[r].want = old THEN Subscribe(r) ELSE UNCHANGED rows
    /\ Go(r, CASE tx[r].want \notin PlanNames -> "400" [] tx[r].want = old -> "200" [] OTHER -> "change",
          [tx[r] EXCEPT !.copy = old])
    /\ UNCHANGED << clock, key, lock >>

\* Mutant: the event is recorded before the UPDATE has the row.
ChangePlanAuditFirst(r) ==
    /\ at[r] = "change"
    /\ lock' = [lock EXCEPT ![tx[r].space] = @ \cup {r}]
    /\ clock' = clock + 1
    /\ Go(r, "changed", [tx[r] EXCEPT !.stamp = clock])
    /\ UNCHANGED << rows, key >>

\* The flush waits for the row; then the event is stamped.
ChangePlan(r) ==
    /\ at[r] = "change" /\ lock[tx[r].space] = {}
    /\ lock' = [lock EXCEPT ![tx[r].space] = {r}]
    /\ clock' = clock + 1
    /\ Go(r, "changed", [tx[r] EXCEPT !.stamp = clock])
    /\ UNCHANGED << rows, key >>

SavePlan(r) ==
    LET k == tx[r] IN
    /\ at[r] = "changed"
    /\ plan' = [plan EXCEPT ![k.space] = k.want]
    /\ audit' = audit \cup Missing(r) \cup
                {[type |-> "plan_changed", space |-> k.space, actor |-> k.user.id, plan |-> k.want,
                  previous |-> k.copy, stamp |-> k.stamp]}
    /\ Release(r) /\ Go(r, "saved", tx[r])
    /\ UNCHANGED << users, spaces, members, clock >>

-----------------------------------------------------------------------------

\* Mutant: the session is not closed when the handler raises.
BreakUnclosed(r) ==
    /\ at[r] \in Underway
    /\ Go(r, "500", tx[r])
    /\ UNCHANGED << rows, clock, key, lock >>

\* An error no handler expects, or the death of the process: get_db closes
\* the session, the scripts close theirs. Nothing more of it is committed, but
\* what was saved stays.
Break(r) ==
    /\ at[r] \in Underway
    /\ Release(r) /\ Go(r, "500", tx[r])
    /\ UNCHANGED << rows, clock >>

Work(r) ==
    \/ InsertUser(r) \/ FindWorkspace(r) \/ SaveRegistration(r) \/ SaveDev(r) \/ SaveAdmin(r)
    \/ Greet(r) \/ Demand(r) \/ LoadPlan(r) \/ ChangePlan(r) \/ SavePlan(r) \/ Answer(r)

Arrive(r) == \E e \in Emails :
    \/ \E kind \in {"register", "dev_script", "admin_script"} : Lookup(r, kind, e)
    \/ \E right \in BOOLEAN : Login(r, e, right)
    \/ Me(r, e) \/ Oversee(r, e)
    \/ \E s \in SpaceIds :
          \/ ChangeWorkspacePlan(r, e, s) \/ GetWorkspaceBilling(r, e, s) \/ GetWorkspaceUsage(r, e, s)
          \/ GetWorkspaceSettings(r, e, s) \/ PolicyForWorkspace(r, e, s)

Next == \E r \in Requests : Arrive(r) \/ Work(r) \/ Break(r)

Spec == Init /\ [][Next]_vars
\* A request that has been taken on runs; the database grants the locks.
FairSpec == Spec /\ \A r \in Requests : WF_vars(Work(r))

-----------------------------------------------------------------------------
(* Properties *)

\* However far a registration came, its account, its workspace, the owner's
\* membership, the plan and the audit event are all there or none is, two
\* racing for one address included. All are if it was answered 201, none if it
\* was refused; an error may have come before the commit or after it.
RegistrationTellsTruth ==
    \A r \in Requests : tx[r].kind = "register" /\ at[r] \in Answers =>
        LET made == users[tx[r].email] # Nobody /\ users[tx[r].email].id = r IN
        /\ made <=> [id |-> r, owner |-> r, dev |-> FALSE] \in spaces
        /\ made <=> [space |-> r, user |-> r, role |-> "owner"] \in members
        /\ made <=> plan[r] # "none"
        /\ made <=> Event("registered", r, r, "none", "none") \in audit
        /\ at[r] = "201" => made
        /\ at[r] = "409" => ~made

\* No demand ever finds a workspace without a subscription, so two first
\* demands never race to insert one (get_or_create_subscription has no lock).
SubscriptionsPrecedeDemand == \A e \in audit : e.type # "subscription.created"

Changes(s) == {e \in audit : e.type = "plan_changed" /\ e.space = s}

\* The plan in force is the one of the latest audited change, although racing
\* changes read the plan before they wait for the row, and every change is
\* audited as made by an owner of the workspace.
PlanIsLastAudited ==
    \A s \in SpaceIds : \A e \in Changes(s) :
        /\ (\A f \in Changes(s) : f.stamp <= e.stamp) => plan[s] = e.plan
        /\ [space |-> s, user |-> e.actor, role |-> "owner"] \in members

\* Once the script has said "ready" the admin address is an admin's, also when
\* a registration of that address ran into it; nobody else ever is, nor was
\* before a run of the script came to its commit, or is shown the admin views.
AdminsComeFromTheScript ==
    LET run(where) == \E r \in Requests : at[r] \in where /\ tx[r].kind = "admin_script"
        admins == {e \in Emails : users[e] # Nobody /\ users[e].admin}
    IN  /\ run({"ready"}) => admins = {AdminEmail}
        /\ admins # {} => admins = {AdminEmail} /\ run({"saved", "ready", "500"})
        /\ \A r \in Requests : tx[r].kind = "oversee" /\ at[r] = "200" => tx[r].email \in admins

\* No request waits for ever for a key or a row.
RequestsEnd == \A r \in Requests : at[r] \in Underway ~> at[r] \in Answers

=============================================================================
