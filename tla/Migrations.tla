----------------------------- MODULE Migrations -----------------------------
(***************************************************************************)
(* Runs of Alembic against one PostgreSQL database.  Every replica of the  *)
(* API starts with "alembic upgrade head && uvicorn ..."; an operator may  *)
(* upgrade or downgrade by hand.  db/migrations/env.py puts all revisions  *)
(* of a run into one transaction.                                          *)
(*                                                                         *)
(* A revision is one step, taken when its last statement, the update of    *)
(* alembic_version, goes through.  That row stays locked until the run     *)
(* ends, so one run at a time is past its first revision: it is writer,    *)
(* and work is what its transaction sees.  Up to there the locks are taken *)
(* table by table (a downgrade begins with the index of one table), while  *)
(* requests and other runs go on; whoever they commit before is found by   *)
(* the step, and a circle of waits is ended by the database (Abort).       *)
(* The table alembic_version itself is taken to exist: left out is that    *)
(* two runs on an empty database may both try to create it.                *)
(***************************************************************************)
EXTENDS Schema

CONSTANTS Replicas,       \* containers of the API service
          Operators,      \* runs of Alembic by hand
          Workspaces,     \* workspaces that may exist
          Targets,        \* revisions operators go to
          Found,          \* revisions the database may be found at
          MaxRestarts     \* bound: how often a stopped container is started again

ASSUME RunsDisjoint == Replicas \cap Operators = {}
ASSUME FoundAssumption == Found \subseteq 0..Latest /\ Targets \subseteq 0..Latest
ASSUME RestartsAssumption == MaxRestarts \in Nat

VARIABLES db,      \* the committed tables, revision and plan of each workspace
          work,    \* the same, as the transaction of writer sees it
          writer,  \* the run holding the locks, or {}
          pc,      \* where a run or a replica is
          from,    \* the revision a run found when it began
          goal,    \* the revision it was told to reach
          restarts \* how often a container was started again

vars == << db, work, writer, pc, from, goal, restarts >>

Runs == Replicas \cup Operators
Versions == 0..Latest
Plans == {"unregistered", "none", "free", "paid"}
Subscriptions == 5    \* the revision that adds workspace_subscriptions

\* The rows of revision v a database may hold.
PlansAt(v) == IF v = 0 THEN {"unregistered"}
              ELSE IF v < Subscriptions THEN {"unregistered", "none"} ELSE {"unregistered", "free", "paid"}

Populated(plan) == \E w \in Workspaces : plan[w] # "unregistered"

Init ==
    /\ \E v \in Found : \E plan \in [Workspaces -> PlansAt(v)] :
          db = [tables |-> SchemaAt[v], version |-> v, plan |-> plan]
    /\ work = db
    /\ writer = {}
    /\ pc = [p \in Runs |-> "idle"]
    /\ from = [p \in Runs |-> 0] /\ goal = [p \in Runs |-> 0]
    /\ restarts = 0

-----------------------------------------------------------------------------
(* One revision *)

\* Mutant: the existing workspaces are forgotten.
BackfillNothing(plan) == plan

\* Every workspace row gets a free subscription.
Backfill(plan) == [w \in Workspaces |-> IF plan[w] = "unregistered" THEN plan[w] ELSE "free"]

\* Dropping a table drops its rows.
Dropped(plan, v) ==
    [w \in Workspaces |-> IF v = 1 \/ plan[w] = "unregistered" THEN "unregistered"
                          ELSE IF v <= Subscriptions THEN "none" ELSE plan[w]]

Upgraded(d, v) ==
    LET r == RunScript(d.tables, Revisions[v].up, Populated(d.plan))
    IN  [ok |-> r.ok,
         db |-> [tables |-> r.tables, version |-> v,
                 plan |-> IF v = Subscriptions THEN Backfill(d.plan) ELSE d.plan]]

Downgraded(d, v) ==
    LET r == RunScript(d.tables, Revisions[v].down, Populated(d.plan))
    IN  [ok |-> r.ok,
         db |-> [tables |-> r.tables, version |-> v - 1, plan |-> Dropped(d.plan, v)]]

\* Alembic updates the version row "where version_num = <the old revision>"
\* and gives up unless one row matched.
VersionRowMatches(d, v) == d.version = v

\* On the tables the chain has built up so far, rows or no rows, no statement of
\* the next script is refused and it builds the next ones; the same downwards. A
\* fact about the closed definitions of Schema, which TLC computes. The proofs use it.
ASSUME ScriptsFollowChain ==
    \A v \in 1..Latest, populated \in BOOLEAN :
        LET up == RunScript(SchemaAt[v - 1], Revisions[v].up, populated)
            down == RunScript(SchemaAt[v], Revisions[v].down, populated)
        IN  /\ up.ok /\ up.tables = SchemaAt[v]
            /\ down.ok /\ down.tables = SchemaAt[v - 1]

\* The chain ends at the tables the classes declare: the same kind of fact.
ASSUME ChainEndsAtMetadata == SchemaAt[Latest] = Metadata

-----------------------------------------------------------------------------
(* A run *)

\* The run reads the committed revision and plans its steps from it.
Begin(p) ==
    /\ pc[p] = "idle"
    /\ \E g \in IF p \in Replicas THEN {Latest} ELSE Targets : goal' = [goal EXCEPT ![p] = g]
    /\ from' = [from EXCEPT ![p] = db.version]
    /\ pc' = [pc EXCEPT ![p] = "planned"]
    /\ UNCHANGED << db, work, writer, restarts >>

\* Mutant: the revision is looked up outside the transaction.
PositionCommitted(p) == db.version

\* Where p believes the database to be.
Position(p) == IF p \in writer THEN work.version ELSE from[p]

\* What happens to the transaction of a run that fails or dies.
RollBack(p) ==
    IF p \in writer THEN writer' = {} /\ work' = db ELSE UNCHANGED << writer, work >>

Serving == {p \in Replicas : pc[p] = "serving"}

\* A statement does not fit the tables, or the version row is not the one the run
\* expects: the exception rolls the whole run back.
Refuse(p) ==
    /\ pc' = [pc EXCEPT ![p] = "refused"]
    /\ writer' = {}
    /\ work' = db
    /\ UNCHANGED << db, from, goal, restarts >>

\* Mutant: statements commit one by one (no transactional DDL), the version at the end.
MigrateAutocommit(p) ==
    LET d == IF p \in writer THEN work ELSE db
        v == Position(p)
        r == IF v < goal[p] THEN Upgraded(d, v + 1) ELSE Downgraded(d, v)
    IN  /\ pc[p] = "planned" /\ v # goal[p]
        /\ writer \subseteq {p}
        /\ IF r.ok /\ VersionRowMatches(d, v)
           THEN /\ work' = r.db
                /\ db' = [db EXCEPT !.tables = r.db.tables]
                /\ writer' = {p}
                /\ UNCHANGED << pc, from, goal, restarts >>
           ELSE Refuse(p)

\* The next revision, inside the transaction. A run that finds the version
\* row taken waits here.
Migrate(p) ==
    LET d == IF p \in writer THEN work ELSE db
        v == Position(p)
        r == IF v < goal[p] THEN Upgraded(d, v + 1) ELSE Downgraded(d, v)
    IN  /\ pc[p] = "planned" /\ v # goal[p]
        /\ writer \subseteq {p}
        /\ IF r.ok /\ VersionRowMatches(d, v)
           THEN /\ work' = r.db
                /\ writer' = {p}
                /\ UNCHANGED << db, pc, from, goal, restarts >>
           ELSE Refuse(p)

\* Whoever may hold a lock p waits for and wait for one p holds: another run,
\* or a request of a server, which takes its locks in an order of its own.
Rivals(p) == Serving \cup {q \in Runs \ {p} : pc[q] = "planned"}

\* In the middle of a revision the database ends a circle of waits by failing
\* the statement of p. Nothing is wrong with the run, but it is rolled back.
Abort(p) ==
    /\ pc[p] = "planned" /\ Position(p) # goal[p]
    /\ Rivals(p) # {}
    /\ pc' = [pc EXCEPT ![p] = "aborted"]
    /\ RollBack(p)
    /\ UNCHANGED << db, from, goal, restarts >>

\* The end of "with context.begin_transaction()".
Commit(p) ==
    /\ pc[p] = "planned" /\ Position(p) = goal[p]
    /\ pc' = [pc EXCEPT ![p] = "migrated"]
    /\ IF p \in writer THEN db' = work /\ writer' = {} ELSE UNCHANGED << db, writer >>
    /\ UNCHANGED << work, from, goal, restarts >>

\* Mutant: "alembic upgrade head & uvicorn ..."
ServeMeanwhile(p) ==
    /\ p \in Replicas /\ pc[p] \in {"planned", "migrated"}
    /\ pc' = [pc EXCEPT ![p] = "serving"]
    /\ UNCHANGED << db, work, writer, from, goal, restarts >>

\* "alembic upgrade head && uvicorn ..."
Serve(p) ==
    /\ p \in Replicas /\ pc[p] = "migrated"
    /\ pc' = [pc EXCEPT ![p] = "serving"]
    /\ UNCHANGED << db, work, writer, from, goal, restarts >>

\* A container dies; the database rolls its transaction back.
Crash(p) ==
    /\ p \in Replicas /\ pc[p] \in {"planned", "migrated", "serving"}
    /\ pc' = [pc EXCEPT ![p] = "down"]
    /\ RollBack(p)
    /\ UNCHANGED << db, from, goal, restarts >>

\* Somebody starts a stopped container again.
Restart(p) ==
    /\ p \in Replicas /\ pc[p] \in {"refused", "aborted", "down"}
    /\ restarts < MaxRestarts
    /\ pc' = [pc EXCEPT ![p] = "idle"]
    /\ restarts' = restarts + 1
    /\ UNCHANGED << db, work, writer, from, goal >>

-----------------------------------------------------------------------------
(* The served API *)

\* A statement on the mapped classes names every column they declare. The only
\* run that can be past a revision while the committed tables are the latest is
\* a downgrade; its first one drops conversation_sessions, and with it two
\* references, for which it locks workspaces and users against every request.
Usable == Serving # {} /\ writer = {} /\ db.tables = Metadata

\* A registration inserts the workspace with a free subscription. It writes
\* columns of later revisions, so the backfill is long done when there is one.
Register(w) ==
    /\ Usable /\ db.plan[w] = "unregistered"
    /\ db' = [db EXCEPT !.plan[w] = "free"]
    /\ work' = db'
    /\ UNCHANGED << writer, pc, from, goal, restarts >>

BuyPlan(w) ==
    /\ Usable /\ db.plan[w] = "free"
    /\ db' = [db EXCEPT !.plan[w] = "paid"]
    /\ work' = db'
    /\ UNCHANGED << writer, pc, from, goal, restarts >>

Next ==
    \/ \E p \in Runs : Begin(p) \/ Migrate(p) \/ Abort(p) \/ Commit(p) \/ Serve(p)
                        \/ Crash(p) \/ Restart(p)
    \/ \E w \in Workspaces : Register(w) \/ BuyPlan(w)

Spec == Init /\ [][Next]_vars

-----------------------------------------------------------------------------
(* Properties *)

\* Whatever runs, races, is refused or dies, the committed tables are the
\* ones the chain of revisions builds up to the committed version number.
SchemaIsItsRevision == db.tables = SchemaAt[db.version]

\* As long as no operator has migrated, a replica that answers requests
\* finds exactly the tables its classes declare.
ServersFindTheirSchema ==
    (Serving # {} /\ \A o \in Operators : pc[o] # "migrated") => db.tables = Metadata

\* From the revision that adds subscriptions on, every workspace has one,
\* whether it was there at the backfill or was registered by the served API
\* later, through downgrades that drop the table and upgrades that fill it
\* again: get_or_create_subscription has no row left to create.
EveryWorkspaceSubscribed ==
    db.version >= Subscriptions => \A w \in Workspaces : db.plan[w] # "none"

\* However runs overtake each other, fail and die, a statement or the version row
\* of one is refused only when another run committed since it read the version:
\* every revision fits the tables its predecessor leaves in the same transaction,
\* with and without rows in them. (A run can also be aborted by a deadlock or die;
\* that says nothing of its revisions.)
RefusedOnlyIfOvertaken ==
    [][\A p \in Runs : pc[p] = "planned" /\ pc'[p] = "refused" => db.version # from[p]]_vars

=============================================================================
