-------------------------- MODULE Migrations_proofs --------------------------
(***************************************************************************)
(* For any number of replicas, operators and workspaces, whatever runs,    *)
(* races, is refused or dies: the committed tables are those of the        *)
(* committed revision, those a server finds are the ones its classes       *)
(* declare, no workspace is without a subscription, and no run is refused  *)
(* that was not overtaken.                                                 *)
(***************************************************************************)
EXTENDS Migrations, TLAPS

\* A database whose tables are the ones of its revision.
Sound(d) ==
    /\ d.version \in Versions
    /\ d.tables = SchemaAt[d.version]

\* What the transaction in progress sees is as sound as what is committed.
Inv == Sound(db) /\ Sound(work) /\ goal \in [Runs -> Versions] /\ from \in [Runs -> Versions]

LEMMA LatestIsNat == Latest = 8 /\ Versions = 0..8
BY DEF Latest, Versions, Revisions

\* One accepted revision takes a sound database to a sound one, up or down.
LEMMA UpgradeIsSound ==
    ASSUME NEW d, Sound(d), d.version # Latest, Upgraded(d, d.version + 1).ok
    PROVE  Sound(Upgraded(d, d.version + 1).db)
<1> DEFINE v == d.version + 1
           r == RunScript(SchemaAt[v - 1], Revisions[v].up, Populated(d.plan))
<1>1. v \in 1..Latest /\ v \in Versions /\ v - 1 = d.version
  BY LatestIsNat DEF Sound
<1>2. Populated(d.plan) \in BOOLEAN
  BY DEF Populated
<1>3. r.ok => r.tables = SchemaAt[v]
  BY <1>1, <1>2, ScriptsFollowChain
<1>4. RunScript(d.tables, Revisions[v].up, Populated(d.plan)) = r
  BY <1>1 DEF Sound
<1>5. r.ok /\ Upgraded(d, v).db.tables = r.tables /\ Upgraded(d, v).db.version = v
  BY <1>4 DEF Upgraded
<1> QED
  BY <1>1, <1>3, <1>5 DEF Sound

LEMMA DowngradeIsSound ==
    ASSUME NEW d, Sound(d), d.version # 0, Downgraded(d, d.version).ok
    PROVE  Sound(Downgraded(d, d.version).db)
<1> DEFINE v == d.version
           r == RunScript(SchemaAt[v], Revisions[v].down, Populated(d.plan))
<1>1. v \in 1..Latest /\ v - 1 \in Versions
  BY LatestIsNat DEF Sound
<1>2. Populated(d.plan) \in BOOLEAN
  BY DEF Populated
<1>3. r.ok => r.tables = SchemaAt[v - 1]
  BY <1>1, <1>2, ScriptsFollowChain
<1>4. RunScript(d.tables, Revisions[v].down, Populated(d.plan)) = r
  BY DEF Sound
<1>5. r.ok /\ Downgraded(d, v).db.tables = r.tables /\ Downgraded(d, v).db.version = v - 1
  BY <1>4 DEF Downgraded
<1> QED
  BY <1>1, <1>3, <1>5 DEF Sound

\* A refused or dying run leaves what is committed.
LEMMA MigrateIsSound ==
    ASSUME Inv, NEW p \in Runs, Migrate(p)
    PROVE  Inv'
<1> DEFINE d == IF p \in writer THEN work ELSE db
           v == Position(p)
           r == IF v < goal[p] THEN Upgraded(d, v + 1) ELSE Downgraded(d, v)
<1>1. Sound(d)
  BY DEF Inv
<1>2. CASE r.ok /\ VersionRowMatches(d, v)
  <2>1. d.version = v /\ v # goal[p] /\ goal[p] \in 0..8 /\ v \in 0..8
    BY <1>1, <1>2, LatestIsNat DEF VersionRowMatches, Migrate, Inv, Sound
  <2>2. work' = r.db /\ UNCHANGED << db, from, goal >>
    BY <1>2 DEF Migrate
  <2>3. Sound(r.db)
    <3>1. CASE v < goal[p]
      <4>1. r = Upgraded(d, d.version + 1) /\ d.version # Latest
        BY <2>1, <3>1, LatestIsNat
      <4> QED BY <4>1, <1>1, <1>2, UpgradeIsSound
    <3>2. CASE ~(v < goal[p])
      <4>1. r = Downgraded(d, d.version) /\ d.version # 0
        BY <2>1, <3>2
      <4> QED BY <4>1, <1>1, <1>2, DowngradeIsSound
    <3> QED BY <3>1, <3>2
  <2> QED
    BY <2>2, <2>3 DEF Inv, Sound
<1>3. CASE ~(r.ok /\ VersionRowMatches(d, v))
  <2>1. Refuse(p)
    BY <1>3 DEF Migrate
  <2> QED
    BY <2>1 DEF Refuse, Inv, Sound
<1> QED
  BY <1>2, <1>3

LEMMA InitEstablishesInv == Init => Inv
BY FoundAssumption, LatestIsNat DEF Init, Inv, Sound, Versions

LEMMA NextKeepsInv == Inv /\ [Next]_vars => Inv'
<1> SUFFICES ASSUME Inv, [Next]_vars PROVE Inv'
  OBVIOUS
<1>1. ASSUME NEW p \in Runs, Begin(p) PROVE Inv'
  BY <1>1, FoundAssumption, LatestIsNat DEF Begin, Inv, Sound, Versions
<1>2. ASSUME NEW p \in Runs, Migrate(p) PROVE Inv'
  BY <1>2, MigrateIsSound
<1>3. ASSUME NEW p \in Runs, Commit(p) PROVE Inv'
  BY <1>3 DEF Commit, Inv, Sound
<1>4. ASSUME NEW p \in Runs, Serve(p) \/ Restart(p) PROVE Inv'
  BY <1>4 DEF Serve, Restart, Inv, Sound
<1>5. ASSUME NEW p \in Runs, Crash(p) \/ Abort(p) PROVE Inv'
  <2>1. db' = db /\ work' \in {db, work} /\ UNCHANGED << from, goal >>
    BY <1>5 DEF Crash, Abort, RollBack
  <2> QED BY <2>1 DEF Inv, Sound
<1>6. ASSUME NEW w \in Workspaces, Register(w) \/ BuyPlan(w) PROVE Inv'
  <2>1. CASE Register(w)
    <3>1. PICK f : db' = [db EXCEPT !.plan = f] /\ work' = db' /\ UNCHANGED << from, goal >>
      BY <2>1 DEF Register
    <3> QED BY <3>1 DEF Inv, Sound
  <2>2. CASE BuyPlan(w)
    <3>1. PICK f : db' = [db EXCEPT !.plan = f] /\ work' = db' /\ UNCHANGED << from, goal >>
      BY <2>2 DEF BuyPlan
    <3> QED BY <3>1 DEF Inv, Sound
  <2> QED BY <1>6, <2>1, <2>2
<1>7. CASE UNCHANGED vars
  BY <1>7 DEF vars, Inv, Sound
<1> QED
  BY <1>1, <1>2, <1>3, <1>4, <1>5, <1>6, <1>7 DEF Next

\* The committed tables are the ones of the committed revision, whatever the
\* runs of Alembic do to each other.
THEOREM SchemaFollowsChain == Spec => []SchemaIsItsRevision
<1>1. Inv => SchemaIsItsRevision
  BY DEF Inv, Sound, SchemaIsItsRevision
<1> QED
  BY <1>1, InitEstablishesInv, NextKeepsInv, PTL DEF Spec

-----------------------------------------------------------------------------
(* Subscriptions *)

\* From the subscriptions revision on, no workspace of d is without a plan.
Subscribed(d) ==
    /\ d.plan \in [Workspaces -> Plans]
    /\ d.version >= Subscriptions => \A w \in Workspaces : d.plan[w] # "none"

SubscribedInv == Inv /\ Subscribed(db) /\ Subscribed(work)

LEMMA UpgradeSubscribes ==
    ASSUME NEW d, d.version \in Versions, Subscribed(d), d.version # Latest
    PROVE  Subscribed(Upgraded(d, d.version + 1).db)
<1> DEFINE v == d.version + 1
           e == Upgraded(d, v).db
<1>1. e.version = v /\ e.plan = IF v = Subscriptions THEN Backfill(d.plan) ELSE d.plan
  BY DEF Upgraded
<1>2. d.version \in 0..8
  BY LatestIsNat
<1>3. CASE v = Subscriptions
  BY <1>1, <1>3 DEF Backfill, Subscribed, Plans
<1>4. CASE v # Subscriptions
  <2>1. v >= Subscriptions => d.version >= Subscriptions
    BY <1>2, <1>4 DEF Subscriptions
  <2> QED BY <1>1, <1>4, <2>1 DEF Subscribed
<1> QED
  BY <1>3, <1>4

LEMMA DowngradeKeepsSubscriptions ==
    ASSUME NEW d, d.version \in Versions, Subscribed(d), d.version # 0
    PROVE  Subscribed(Downgraded(d, d.version).db)
<1> DEFINE v == d.version
           e == Downgraded(d, v).db
<1>1. e.version = v - 1 /\ e.plan = Dropped(d.plan, v)
  BY DEF Downgraded
<1>2. v \in 1..8
  BY LatestIsNat
<1>3. e.plan \in [Workspaces -> Plans]
  BY <1>1 DEF Dropped, Subscribed, Plans
<1>4. ASSUME v - 1 >= Subscriptions, NEW w \in Workspaces
      PROVE  e.plan[w] # "none"
  <2>1. v >= Subscriptions /\ ~(v <= Subscriptions)
    BY <1>2, <1>4 DEF Subscriptions
  <2>2. d.plan[w] # "none"
    BY <1>4, <2>1 DEF Subscribed
  <2> QED BY <1>1, <2>1, <2>2 DEF Dropped
<1> QED
  BY <1>1, <1>3, <1>4 DEF Subscribed

LEMMA InitEstablishesSubscribed == Init => SubscribedInv
<1> SUFFICES ASSUME Init PROVE Subscribed(db) /\ Subscribed(work)
  BY InitEstablishesInv DEF SubscribedInv
<1>0. PICK v \in Found : \E plan \in [Workspaces -> PlansAt(v)] :
         db = [tables |-> SchemaAt[v], version |-> v, plan |-> plan]
  BY DEF Init
<1>1. PICK plan \in [Workspaces -> PlansAt(v)] :
         db = [tables |-> SchemaAt[v], version |-> v, plan |-> plan]
  BY <1>0
<1>2. db.version = v /\ db.plan = plan /\ v \in 0..8
  BY <1>1, FoundAssumption, LatestIsNat
<1>3. PlansAt(v) \subseteq Plans
  BY DEF PlansAt, Plans
<1>4. v >= Subscriptions => "none" \notin PlansAt(v)
  BY <1>2 DEF PlansAt, Subscriptions
<1>5. Subscribed(db)
  BY <1>2, <1>3, <1>4 DEF Subscribed
<1> QED
  BY <1>5 DEF Init

LEMMA MigrateKeepsSubscribed ==
    ASSUME SubscribedInv, NEW p \in Runs, Migrate(p)
    PROVE  Subscribed(db)' /\ Subscribed(work)'
<1> DEFINE d == IF p \in writer THEN work ELSE db
           v == Position(p)
           r == IF v < goal[p] THEN Upgraded(d, v + 1) ELSE Downgraded(d, v)
<1>1. Sound(d) /\ Subscribed(d)
  BY DEF SubscribedInv, Inv
<1>2. CASE r.ok /\ VersionRowMatches(d, v)
  <2>1. d.version = v /\ v # goal[p] /\ goal[p] \in 0..8 /\ v \in 0..8
    BY <1>1, <1>2, LatestIsNat DEF VersionRowMatches, Migrate, SubscribedInv, Inv, Sound
  <2>2. work' = r.db /\ db' = db
    BY <1>2 DEF Migrate
  <2>3. Subscribed(r.db)
    <3>1. CASE v < goal[p]
      <4>1. r = Upgraded(d, d.version + 1) /\ d.version # Latest
        BY <2>1, <3>1, LatestIsNat
      <4> QED BY <4>1, <1>1, UpgradeSubscribes DEF Sound
    <3>2. CASE ~(v < goal[p])
      <4>1. r = Downgraded(d, d.version) /\ d.version # 0
        BY <2>1, <3>2
      <4> QED BY <4>1, <1>1, DowngradeKeepsSubscriptions DEF Sound
    <3> QED BY <3>1, <3>2
  <2> QED
    BY <2>2, <2>3 DEF SubscribedInv, Subscribed
<1>3. CASE ~(r.ok /\ VersionRowMatches(d, v))
  <2>1. Refuse(p)
    BY <1>3 DEF Migrate
  <2> QED
    BY <2>1 DEF Refuse, SubscribedInv, Subscribed
<1> QED
  BY <1>2, <1>3

LEMMA NextKeepsSubscribed == SubscribedInv /\ [Next]_vars => SubscribedInv'
<1> SUFFICES ASSUME SubscribedInv, [Next]_vars PROVE Subscribed(db)' /\ Subscribed(work)'
  BY NextKeepsInv DEF SubscribedInv
<1> USE DEF SubscribedInv
<1>1. ASSUME NEW p \in Runs, Migrate(p) PROVE Subscribed(db)' /\ Subscribed(work)'
  BY <1>1, MigrateKeepsSubscribed
<1>2. ASSUME NEW p \in Runs, Begin(p) \/ Commit(p) \/ Serve(p) \/ Crash(p) \/ Abort(p) \/ Restart(p)
      PROVE  Subscribed(db)' /\ Subscribed(work)'
  <2>1. db' \in {db, work} /\ work' \in {db, work}
    BY <1>2 DEF Begin, Commit, Serve, Crash, Abort, RollBack, Restart
  <2> QED BY <2>1 DEF Subscribed
<1>3. ASSUME NEW w \in Workspaces, Register(w) \/ BuyPlan(w)
      PROVE  Subscribed(db)' /\ Subscribed(work)'
  <2>1. PICK new \in {"free", "paid"} : db' = [db EXCEPT !.plan = [db.plan EXCEPT ![w] = new]] /\ work' = db'
    BY <1>3 DEF Register, BuyPlan
  <2>2. db'.version = db.version /\ db'.plan = [db.plan EXCEPT ![w] = new]
    BY <2>1 DEF Inv, Sound
  <2> QED BY <2>1, <2>2 DEF Subscribed, Plans
<1>4. CASE UNCHANGED vars
  BY <1>4 DEF vars, Subscribed
<1> QED
  BY <1>1, <1>2, <1>3, <1>4 DEF Next

\* No workspace is ever without a subscription once the revision that adds
\* them is committed, so get_or_create_subscription never has a row to insert.
THEOREM SubscriptionsEverywhere == Spec => []EveryWorkspaceSubscribed
<1>1. SubscribedInv => EveryWorkspaceSubscribed
  BY DEF SubscribedInv, Subscribed, EveryWorkspaceSubscribed
<1> QED
  BY <1>1, InitEstablishesSubscribed, NextKeepsSubscribed, PTL DEF Spec

-----------------------------------------------------------------------------
(* Servers *)

Untouched == \A o \in Operators : pc[o] # "migrated"

\* While no operator has migrated, the committed revision only grows, so a
\* replica that found nothing to do was right and stays right.
ServersInv ==
    /\ Inv
    /\ pc \in [Runs -> {"idle", "planned", "migrated", "serving", "refused", "aborted", "down"}]
    /\ \A p \in Replicas : pc[p] = "planned" => goal[p] = Latest
    /\ Untouched => \A p \in Replicas :
           /\ pc[p] \in {"migrated", "serving"} => db.version = Latest
           /\ pc[p] = "planned" => from[p] <= db.version

LEMMA InitEstablishesServers == Init => ServersInv
BY InitEstablishesInv DEF Init, ServersInv, Runs

LEMMA CommitKeepsServers ==
    ASSUME ServersInv, NEW p \in Runs, Commit(p), Inv'
    PROVE  ServersInv'
<1>1. /\ pc' = [pc EXCEPT ![p] = "migrated"] /\ pc[p] = "planned"
      /\ UNCHANGED << goal, from >>
  BY DEF Commit
<1>2. CASE p \in Operators
  <2>1. ~Untouched'
    BY <1>1, <1>2 DEF ServersInv, Untouched, Runs
  <2> QED BY <1>1, <1>2, <2>1, RunsDisjoint DEF ServersInv, Runs
<1>3. CASE p \in Replicas
  <2>1. goal[p] = Latest /\ Untouched' = Untouched
    BY <1>1, <1>3, RunsDisjoint DEF ServersInv, Untouched, Runs
  <2>2. Untouched => db'.version = Latest
    <3>1. CASE p \in writer
      BY <2>1, <3>1 DEF Commit, Position
    <3>2. CASE p \notin writer
      <4>1. from[p] = Latest /\ db' = db
        BY <2>1, <3>2 DEF Commit, Position
      <4>2. Untouched => from[p] <= db.version
        BY <1>1, <1>3 DEF ServersInv
      <4>3. db.version \in 0..8
        BY LatestIsNat DEF ServersInv, Inv, Sound
      <4> QED BY <4>1, <4>2, <4>3, LatestIsNat
    <3> QED BY <3>1, <3>2
  <2>3. \A q \in Replicas : from[q] \in 0..8
    BY LatestIsNat DEF ServersInv, Inv, Runs
  <2> QED
    BY <1>1, <1>3, <2>1, <2>2, <2>3, LatestIsNat DEF ServersInv, Runs
<1> QED
  BY <1>2, <1>3 DEF Runs

LEMMA NextKeepsServers == ServersInv /\ [Next]_vars => ServersInv'
<1> SUFFICES ASSUME ServersInv, [Next]_vars PROVE ServersInv'
  OBVIOUS
<1>0. Inv'
  BY NextKeepsInv DEF ServersInv
<1> USE RunsDisjoint, <1>0 DEF ServersInv, Untouched, Runs
<1>1. ASSUME NEW p \in Runs, Begin(p) PROVE ServersInv'
  <2>1. db' = db /\ pc' = [pc EXCEPT ![p] = "planned"] /\ from' = [from EXCEPT ![p] = db.version]
    BY <1>1 DEF Begin
  <2>2. PICK g : goal' = [goal EXCEPT ![p] = g] /\ (p \in Replicas => g = Latest)
    BY <1>1 DEF Begin
  <2>3. db.version <= db.version
    BY LatestIsNat DEF Inv, Sound
  <2>4. goal \in [Runs -> Versions] /\ from \in [Runs -> Versions]
    BY DEF Inv
  <2>5. pc[p] = "idle" /\ (Untouched' => Untouched)
    BY <1>1, <2>1 DEF Begin
  <2> QED BY <2>1, <2>2, <2>3, <2>4, <2>5
<1>2. ASSUME NEW p \in Runs, Migrate(p) PROVE ServersInv'
  <2>1. db' = db /\ UNCHANGED << from, goal >> /\ pc[p] = "planned"
        /\ (pc' = pc \/ pc' = [pc EXCEPT ![p] = "refused"])
    BY <1>2 DEF Migrate, Refuse
  <2> QED BY <2>1
<1>3. ASSUME NEW p \in Runs, Commit(p) PROVE ServersInv'
  BY <1>0, <1>3, CommitKeepsServers
<1>4. ASSUME NEW p \in Runs, Serve(p) PROVE ServersInv'
  BY <1>4 DEF Serve
<1>5. ASSUME NEW p \in Runs, Crash(p) \/ Abort(p) PROVE ServersInv'
  <2>1. /\ \E end \in {"down", "aborted"} : pc' = [pc EXCEPT ![p] = end]
        /\ pc[p] # "migrated" \/ p \in Replicas
        /\ UNCHANGED << db, from, goal >>
    BY <1>5 DEF Crash, Abort
  <2> QED BY <2>1
<1>6. ASSUME NEW p \in Runs, Restart(p) PROVE ServersInv'
  BY <1>6 DEF Restart
<1>7. ASSUME NEW w \in Workspaces, Register(w) \/ BuyPlan(w) PROVE ServersInv'
  <2>1. PICK f : db' = [db EXCEPT !.plan = f] /\ UNCHANGED << pc, from, goal >>
    BY <1>7 DEF Register, BuyPlan
  <2>2. db'.version = db.version
    BY <2>1
  <2> QED BY <2>1, <2>2
<1>8. CASE UNCHANGED vars
  BY <1>8 DEF vars
<1> QED
  BY <1>1, <1>2, <1>3, <1>4, <1>5, <1>6, <1>7, <1>8 DEF Next

\* Whoever answers requests finds the tables its classes declare, through
\* restarts and rival migrations, until an operator migrates by hand.
THEOREM ServersAlwaysFindTheirSchema == Spec => []ServersFindTheirSchema
<1>1. ServersInv => ServersFindTheirSchema
  BY ChainEndsAtMetadata DEF ServersInv, Inv, Sound, Untouched, ServersFindTheirSchema, Serving
<1> QED
  BY <1>1, InitEstablishesServers, NextKeepsServers, PTL DEF Spec

-----------------------------------------------------------------------------
(* Refusals *)

\* A run that stands where the database it works on stands is not refused.
LEMMA StepIsAccepted ==
    ASSUME NEW d, Sound(d)
    PROVE  /\ d.version # Latest => Upgraded(d, d.version + 1).ok
           /\ d.version # 0 => Downgraded(d, d.version).ok
<1> DEFINE v == d.version
<1>1. v \in 0..8 /\ Populated(d.plan) \in BOOLEAN
  BY LatestIsNat DEF Sound, Populated
<1>2. d.tables = SchemaAt[v]
  BY DEF Sound
<1>3. ASSUME v # Latest
      PROVE  Upgraded(d, v + 1).ok
  <2>1. v + 1 \in 1..Latest /\ (v + 1) - 1 = v
    BY <1>1, <1>3, LatestIsNat
  <2>2. RunScript(SchemaAt[v], Revisions[v + 1].up, Populated(d.plan)).ok
    BY <1>1, <2>1, ScriptsFollowChain
  <2> QED
    BY <1>2, <2>2 DEF Upgraded
<1>4. ASSUME v # 0
      PROVE  Downgraded(d, v).ok
  <2>1. v \in 1..Latest
    BY <1>1, <1>4, LatestIsNat
  <2>2. RunScript(SchemaAt[v], Revisions[v].down, Populated(d.plan)).ok
    BY <1>1, <2>1, ScriptsFollowChain
  <2> QED
    BY <1>2, <2>2 DEF Downgraded
<1> QED
  BY <1>3, <1>4

LEMMA RefusedIfOvertaken ==
    ASSUME Inv, NEW p \in Runs, Migrate(p), db.version = from[p]
    PROVE  pc' = pc
<1> DEFINE d == IF p \in writer THEN work ELSE db
           v == Position(p)
           r == IF v < goal[p] THEN Upgraded(d, v + 1) ELSE Downgraded(d, v)
<1>1. Sound(d)
  BY DEF Inv
<1>2. d.version = v
  BY DEF Position
<1>3. v # goal[p] /\ goal[p] \in 0..8 /\ v \in 0..8
  BY <1>1, <1>2, LatestIsNat DEF Migrate, Inv, Sound
<1>4. r.ok
  <2>1. CASE v < goal[p]
    <3>1. v # Latest /\ r = Upgraded(d, d.version + 1)
      BY <1>2, <1>3, <2>1, LatestIsNat
    <3> QED
      BY <1>1, <1>2, <3>1, StepIsAccepted
  <2>2. CASE ~(v < goal[p])
    <3>1. v # 0 /\ r = Downgraded(d, d.version)
      BY <1>2, <1>3, <2>2
    <3> QED
      BY <1>1, <1>2, <3>1, StepIsAccepted
  <2> QED
    BY <2>1, <2>2
<1> QED
  BY <1>2, <1>4 DEF Migrate, VersionRowMatches

\* No statement and no version row of a run of "alembic upgrade" or "downgrade"
\* is refused unless another run committed since it read the version: each revision
\* fits the tables and rows it finds, in any number of runs. Deadlocks (Abort) and
\* deaths are the only other ways for a run to fail.
THEOREM OnlyOvertakenAreRefused == Spec => RefusedOnlyIfOvertaken
<1> DEFINE Overtaken == \A p \in Runs : pc[p] = "planned" /\ pc'[p] = "refused" => db.version # from[p]
<1>1. ServersInv /\ [Next]_vars => [Overtaken]_vars
  <2> SUFFICES ASSUME ServersInv, [Next]_vars, NEW p \in Runs,
                      pc[p] = "planned", pc'[p] = "refused", db.version = from[p]
               PROVE  FALSE
    OBVIOUS
  <2> USE DEF ServersInv, Runs
  <2>1. ASSUME NEW q \in Runs, Begin(q) \/ Abort(q) \/ Commit(q) \/ Serve(q) \/ Crash(q) \/ Restart(q)
        PROVE  FALSE
    BY <2>1 DEF Begin, Abort, Commit, Serve, Crash, Restart
  <2>2. ASSUME NEW q \in Runs, Migrate(q)
        PROVE  FALSE
    <3>1. CASE q = p
      BY <2>2, <3>1, RefusedIfOvertaken
    <3>2. CASE q # p
      BY <2>2, <3>2 DEF Migrate, Refuse
    <3> QED
      BY <3>1, <3>2
  <2>3. ASSUME NEW w \in Workspaces, Register(w) \/ BuyPlan(w)
        PROVE  FALSE
    BY <2>3 DEF Register, BuyPlan
  <2>4. CASE UNCHANGED vars
    BY <2>4 DEF vars
  <2> QED
    BY <2>1, <2>2, <2>3, <2>4 DEF Next
<1>2. RefusedOnlyIfOvertaken <=> [][Overtaken]_vars
  BY DEF RefusedOnlyIfOvertaken
<1> QED
  BY <1>1, <1>2, InitEstablishesServers, NextKeepsServers, PTL DEF Spec

=============================================================================
