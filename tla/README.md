# A verification project for the RAG platform's backend

TLA+ models of the parts of `src/app` where requests, background work, scripts
and process death meet shared state, and of the algorithms whose results the
rest relies on; TLC configurations that check them on small instances; TLAPS
proofs of what matters most, for every instance. Paths are relative to the
repository, unless they begin with `app/` or `db/` (then `src/app/`, `src/db/`).

## 1. The system

A FastAPI process serves a web client. `async def` handlers run on the event
loop, plain `def` handlers, dependencies and background tasks run in a thread
pool. Every request has a database session (`app/db/session.py`), a tenant
dependency checks membership, role and workspace status before the handler
(`app/middleware/tenant.py`), and a handler commits one or more transactions.
Nothing takes explicit locks: what excludes interference is the event loop, the
database's row locks and unique keys, and nothing else. Each container runs
`alembic upgrade head` before it serves.

| component | state it keeps | operations | what is hard | what makes it correct |
|---|---|---|---|---|
| Upload (`app/routes/upload.py`) | documents, files, jobs, chunks, usage events | upload, media background task | two transactions per document, work after the response, expected and unexpected errors, process death | rows agree with each other, with the response and with metering; every document ends |
| Connectors (`app/routes/connectors.py`) | the same tables, audit events | ingest a web page or a transcript | runs concurrently with everything in the pool | the same, within the plan's quota |
| Job states (`app/services/job_state.py`) | the transition table | none calls it | the table is advice only | jobs move as it allows |
| Quotas (`app/limits`, `app/billing/usage.py`) | sums over rows | can upload, can query | check in one transaction, use in another | overshoot is bounded |
| Accounts (`app/routes/auth.py`, `app/auth`, two scripts) | users, workspaces, members | register, login, account scripts | check, then insert against a unique key; a failure at any step | all of an account or nothing, whatever was answered; admins only from the script |
| Plans (`app/billing/subscriptions.py`) | one subscription per workspace, audit | set plan, get or create | the old plan is read before the row is locked; two creations could race | the plan is the last audited one; the creation never has work |
| Tenant gate (`app/middleware/tenant.py`) | none; leaves a copy of the workspace in the session | check | the copy goes stale | nothing without the role's permission; what passed the gate goes on whatever the status becomes |
| Workspace lifecycle (`app/compliance`) | status, two time stamps, audit | request deletion, mark deleted | decisions on stale copies | time stamps, audit and status agree, never active again |
| Reviews (`app/reviews`, `app/routes/reviews.py`) | review items, audit | create, approve, reject | stale status check, UPDATE of changed columns only | every column comes from an audited decision |
| Query (`app/routes/query.py`, `app/indexing`, `app/retrieval`) | vector store of the process, usage, messages | ask, stream | every query deletes and rebuilds what all queries read; quota; session row locks | grounded citations, whole exchanges or none, everyone ends |
| Chat sessions (`app/repositories/conversations.py`) | sessions, messages, citations | create, rename, append, list | two queries in one session | one name, no lost exchange |
| Views (`app/compliance`, `app/admin`, `app/repositories`, review export) | none, audit of exports | export, lists, admin pages | several SELECTs under read committed while others commit | parts come with the whole; no foreign rows; nothing is exported off the record |
| Migrations (`db/migrations`) | schema, version row, backfilled rows | upgrade, downgrade | two containers migrate at once, while requests hold locks; rows exist; scripts in two directions | tables are those of the revision; servers find what their classes declare |
| Chunker (`app/processing/chunker.py`) | none | chunk a document | overlap, boundaries | ranges cover the text once, sizes are bounded |
| Retrieval and answers (`app/retrieval`, `app/answers`, `app/llm`) | none | search, answer, cite, validate | ties, duplicates, markers before or after a full stop, headings | best results once each; every claim cited |
| Structured extraction (`app/extraction`) | none | extract, validate | fields missing, doubled, unknown; quotes of another source | accepted values are quoted by their source |
| Comparison and reports (`app/agent/tools/compare.py`, `report.py`) | none | compare, report | repeated and unreadable values, keys that differ in case | no flag means no difference; sections add up |
| Agent (`app/agent`) | plan log in memory | plan, run tools | failures, reviews and scopes on the way | no unapproved tool; the log tells the result |
| Connection pool (`app/db/session.py`) | 15 connections, 30 s timeout | check out, give back | everyone may wait for everyone | requests end |

What is left (extractors and media workers, observability, web client,
evaluations) is listed in `PROJECT.json` and in section 5 with the reason.

How they meet: ingestion writes the rows that queries index, exports read and
quotas count; the lifecycle changes the status the gate reads for all of them;
billing changes the limits under running requests; queries share one vector
store and the rows of chat sessions; migrations decide what tables all of them
find. The agent calls retrieval, extraction, comparison and reports.

## 2. The modules

| module | what it is |
|---|---|
| `IngestionJobs` | abstract: a job and the transition table of `app/services/job_state.py` |
| `Ingestion`, `MCIngestion`, `Ingestion_proofs` | uploads, connectors, background media, quotas, gate, crash |
| `WorkspaceStatus` | abstract: what everybody else may rely on of the lifecycle |
| `WorkspaceLifecycle`, `MCWorkspaceLifecycle`, `WorkspaceLifecycle_proofs` | the two compliance handlers |
| `OrmSession` | what a flush writes: columns that differ from the loaded copy |
| `Reviews`, `MCReviews`, `Reviews_proofs` | the review workflow |
| `Query`, `MCQuery`, `Query_proofs` | the query pipeline with the shared vector store and session locks |
| `Schema` | statements on a schema, every revision in both directions, the mapped classes |
| `Migrations`, `MCMigrations`, `Migrations_proofs` | racing runs of Alembic, containers, the served API |
| `Accounts`, `MCAccounts`, `Accounts_proofs` | registration, login, rights, plans, the two account scripts |
| `Records`, `MCRecords`, `Records_proofs` | the views of a workspace, read while others commit |
| `Chunker`, `Answers`, `Extraction`, `Comparison` | the algorithms, as operators, each with what it promises |
| `Agent` | planner, orchestrator and memory |
| `Analysis`, `MCAnalysis`, `Analysis_proofs` | the algorithms applied to tasks, and the agent, under one next-state relation |

`Ingestion` uses `WorkspaceStatus` for the environment that changes the
workspace's status, and `WorkspaceLifecycle` is shown to implement that
module (`NeverReactivated`): the two meet at the abstract specification.
`Ingestion` implements `IngestionJobs` (`JobsFollowStateTable`). Both
refinements are checked and proved. `WorkspaceLifecycle` and `Reviews` share
`OrmSession`. The writers of `Records` are the commits of `Ingestion`, `Query`
and `Reviews` as other sessions see them: one step each, because other sessions
see nothing of a transaction before its commit.

### Ingestion

A request creates at most one document, so requests name the rows. `pc[r]` is
where its handler, or later its background task, stands:

| location | the code is |
|---|---|
| `gated` | past the tenant dependency |
| `dispatched` | a connector with a thread of the pool, before its first statement |
| `policy`, `storage_ok` | inside `assert_can_upload`: after the plan was read, after the storage check |
| `admitted`, `saved` | past both checks; after `storage.save_bytes` |
| `recording` | an asynchronous upload after its first commit, before the usage events |
| `bg_queued` | task added, response sent |
| `extracting`, `flushed` | in the second transaction, before and after its chunk rows are flushed |

`loop` is the upload that has read its body: there is no `await` after `file.read()`
(`app/routes/upload.py:90`), so until its response nothing else runs on the event loop,
neither another upload nor the dispatch of a connector or a background task. `InPool` counts
the handlers and tasks in threads. A transaction takes effect in the step that commits it;
flushed rows are local, and `MarkFailed` is the rollback followed by the commit of the
failure. `Uncaught` is any error no `except` clause names, at any point of a handler, and
one of the failure handler of a background task itself (its commit can fail as well): the
session is closed without a commit and the rows stay as the last commit left them. The gate
looks at the workspace's status once; no property is stated about that, because nothing
limits what requests past it may still do. `Crash` ends whatever runs or is queued in the
process.

### WorkspaceLifecycle and Reviews

Sessions keep the object they loaded (`expire_on_commit=False`, no refresh), and
`db.get` returns it again, so a handler decides on the copy loaded before it
(lifecycle) or at its first read (reviews). An UPDATE has no condition but the
key and names only the columns that changed. Both facts are in `OrmSession!Flushed`
and in the split of each handler into load, assign and commit. `reviewed_at`
is left out of `Reviews`: every decision overwrites it.

### Query

One action per call of `_run_query`: session, rename, documents, quota, then for
each document read of its chunk rows, delete from the store, upsert; then
search, answer, commit, response. Errors and process death fall between any two
of them, between commit and response too. A query that names no session inserts
one; nobody sees it before the commit, so the query itself names the row, and
others ask in it once it is committed (`Named`). `TitleFromQuery` is the query's
words; `Plain` holds the queries that have none of their own (blank, or "New
chat"), which leave a session's name as it was. The store is a set of documents, since a query reads,
deletes and upserts all chunks of a document. `holder[s]` is the row lock that
the flushed rename of a chat session takes until the transaction ends; a second
rename, and the `touch_session` of any other query in that session, wait for
it. `put` and `met` are history variables for `OnlyRivalsHideEvidence`.
Embedding, ranking and the wording of answers are abstracted to which documents
a search can see and which of them the answer cites; what the answer itself must
satisfy is module `Answers`.

### Schema and Migrations

A schema maps a table to its required and optional columns, references, keys and
indexes; types and lengths are left out. `Accepts` says what PostgreSQL requires
of a statement (a table that exists, no NOT NULL column without a default on
rows, no drop of a table that is referred to) and `Execute` what it does; both
are modelled from how the scripts use them. `Revisions[v]` holds the statements
of every script, up and down, in order, and `Metadata` the tables of
`app/db/models.py`. A run reads the version, plans its steps from it, and
executes them in one transaction (`db/migrations/env.py`). A revision
is one step, taken when its last statement, the update of `alembic_version`, goes
through; that row stays locked until the run ends, so there is one `writer`, and
`work` is what its transaction sees. Within a revision locks are taken table by table: a
downgrade begins with the index of one table and comes to others later, while
requests and other runs go on. What they commit before is found by the step; a
circle of waits is ended by the database, which may fail the statement of the
run (`Abort`, whenever there are `Rivals`: serving containers or other runs). The
other outcome, the request fails, leaves no trace here. `Register`
and `BuyPlan` are the served API as far as it touches the rows a migration
fills; they need exactly the columns the classes declare, and are not interleaved with
a committed revision of a running transaction: that can only be a downgrade from the
latest, and its first revision drops `conversation_sessions` with its references, for
which it locks `workspaces` and `users`. So no registration falls around the
backfill: there are other columns missing then.

### Accounts

One action per statement after which another request can interfere. `key[e]`
holds the request that has flushed a user with the address and not committed
(the unique key makes a second insert wait and then fail, or succeed after a
rollback); `lock[s]` the one that has flushed a change of a workspace's plan.
What a request has read before (`tx[r].copy`, `tx[r].user`) stays as read.
A commit and the answer are two steps (`saved`, `Answer`): `_auth_response`
reads the database again after the commit of a registration. `Break` is any unexpected
error, and the death of the process, at any point: `get_db` closes
the session and nothing more of it is committed, what was saved stays.
`EnsureSubscription` is `get_or_create_subscription`, which the dev script calls for
a workspace it finds. Hashes and tokens are abstracted to
equality with what was stored. An account that is a member but no owner exists
only as `Init` finds it: `add_member` has no caller in `app/routes`.

### Records

A reader has a plan of SELECTs (`todo`), in the order of the code, and what each
returned (`seen`, a set); some results call for more SELECTs (`Follow`: the files, job
and chunk count of each listed document, the lazily loaded citations of each
message). The review, chat and admin views are one or a few SELECTs; the
compliance export is ten. Only `Uploads` have a file row (`FileRows`); a connector's
document has none. The two exports commit their audit event (`SaveEvent`) when all is
read and build what they send after it (`Finish`), where they may still fail. Sums,
filters and pagination are left out.

### Chunker, Answers, Extraction, Comparison, Analysis

Operators named after the functions, with folds for their loops. Text is abstracted to what
the properties tell apart: for the chunker a token is its offset; for answers a sentence is
its important terms, its number of words, whether it ends with a full stop, what it says (a
claim, "I don't have enough evidence", or what claims nothing otherwise) and the citation
markers in it, since the validator takes markers in the quoted text of a source for the
answer's own. A heading keeps its own full stops when it is joined with a line ("1.
Introduction: ..." is two sentences; `Headed`). A message is no answer if it *begins* with
the words of `NoAnswer`. For extraction a source is the values a pattern finds in it, and a
raw field is `sound` if its confidence and flags have the types and ranges of
`ExtractedField`, which is found out outside the `try`, so that it is an error and no
rejection (`Verdict`); for the comparison a line is a key and a value with their normal
forms. Each module ends with what its result promises, stated without using the algorithm.
`Analysis` picks a task of one kind and computes it, or lets the agent run; its properties
apply the promises to the result. What a task is made of is stated as assumptions
(`TasksHaveTheirKind`, `TasksHaveTheirData`): the store returns results of a finite query,
the best first, a chunk has one text, and a chunking configuration is one that
`ChunkingConfig` accepts (`ChunkOK`: the overlap is below the maximum); `top_k` is at least
one, anything less is an error (`SearchOK`). Retrieval asks the store for four times `top_k`
results (`Candidates`) before it merges and ranks them.

### Agent

`plans` is the memory (plan, log and status of each run), `runs` what the caller
knows. What a tool does is a choice of any status, data of any workspace, or an
exception; the orchestrator's checks decide what becomes of it. `needs_review` has two
meanings there: a step held for its review stops the plan with that status, a tool that
answers `needs_review` stops nothing. `LogTellsResult` says that the log is enough to
tell the two apart, given the approvals.

## 3. What is checked

| run | result | what it shows |
|---|---|---|
| `ingestion` | passes | two uploads (one media) and two connectors on a plan of one document, errors everywhere, one crash: records agree, responses and metering match, overshoot bounded by the pool, jobs follow the table |
| `ingestion_live` | passes | plan switched at will, uploads of different sizes: storage quota exact; every accepted document ends |
| `lifecycle` | passes | four racing owners' requests: stamps, audit and status agree, never active again |
| `reviews` | passes | three racing decisions: columns come from audited decisions, no late decision |
| `query` | passes | three queries, two threads: quota overshoot smaller than the pool, grounded citations, evidence hidden only by a rival |
| `query_live` | passes | failures and a crash, also between commit and response, one query without words for a title: locks belong to running queries, exchange, charge, session and title are left together or not at all, asked sessions are named, everyone ends |
| `migrations` | passes | two containers and two operators race on a database found empty, before or after the subscriptions: tables are those of the version row, servers find their schema, every workspace is subscribed, no revision is refused in a run that was not overtaken, also if runs are aborted or die |
| `accounts` | passes | three requests of nine kinds with an error anywhere, also between commit and answer: all of an account or nothing, and what was answered fits it, the plan is the last audited one, admins come from the script, every request ends |
| `records` | passes | a reader of any of eight views while up to three commits fall between its SELECTs: nothing old is missed, nothing foreign shown, parts come with the whole, an export that was answered is on record |
| `analysis` | passes | every algorithm on every small input against what it promises; two agent runs of any request, approval and tool behaviour |
| `reviews_twice` | violated | two overlapping decisions both succeed |
| `answer_refused` | violated | a heading before a line of two sentences makes the validator refuse the local model's own answer |

Every property of a passing run has a mutant, and a property of several parts one
for each: a version of one definition with a plausible bug (a dropped rollback, an
off-by-one, a lost commit, a missing check), kept next to the definition and
marked as such, under which TLC finds the property violated.

### Disagreements between code and documents

The two violated runs state a sentence of a document or an assertion of a test;
`PROJECT.json` quotes them. These were met while modelling and have no run, most of
them because the models contain the behaviour as it is and prove or check
what does hold of it:

- The document quota is checked in one transaction and used in another, so
  connectors exceed it (`app/limits/service.py:38`, against `infra/BILLING.md:26`);
  `DocumentOvershootBounded` says by how much.
- No code reads `concurrent_job_limit` (`app/billing/plans.py:30`, against
  `infra/BILLING.md:26-27`).
- A restart loses a media task that was answered 201 (`app/routes/upload.py:175`,
  against `docs/INGESTION.md:185-186`); the rows stay `processing` and agree.
- A deletion request with a stale copy takes a deleted workspace back to
  `pending_deletion` (`app/compliance/workspace_deletion.py:21`, against
  `docs/ARCHITECTURE.md:112`); `NeverReactivated` is what remains true.
- A query that indexes hides the evidence of another one meanwhile
  (`app/indexing/indexer.py:46`, against `docs/ARCHITECTURE.md:53-55`);
  `OnlyRivalsHideEvidence` is what remains true.
- An active workspace can be marked deleted directly
  (`app/compliance/workspace_deletion.py:46`, against `docs/ARCHITECTURE.md:112`).
- A rejection without a reviewer in its body names nobody
  (`app/routes/reviews.py:160`; an approval falls back on the caller).
- Requests past the gate still commit documents after the workspace became
  inactive (`app/middleware/tenant.py:57`; `README.md:96` only says that the routes are
  blocked).
- A registration or a query whose commit went through may still be answered 500
  (`app/routes/auth.py:84`, `app/routes/query.py:232`): a second registration is then
  refused with 409, a second query is charged again. `RegistrationTellsTruth` and
  `ExchangesAreWhole` say what is left.
- Citation markers in the text of a source count as the answer's own
  (`app/answers/citations.py:30`): an answer is refused for a reference to a source nobody
  gave, or cites one that has nothing to do with the query. `AnswersAreGrounded` names the cases.
- A review export leaves its audit event when the file cannot be built
  (`app/routes/exports.py:50`).
- A reopened chat numbers its sources by citation rank
  (`app/routes/conversations.py:176`), not by the numbers in the text: an answer that
  names [S2] before [S1] is shown with exchanged sources.
- The compliance export leaves out chat sessions, ingestion jobs, and a message's session and
  attached documents (`app/compliance/workspace_export.py:28`; `infra/COMPLIANCE.md:27-31`
  lists workspace-owned records).
- A list or dict value breaks the validation of extracted fields with a `TypeError`
  (`app/extraction/validators.py:117`), though schemas allow lists; so does a confidence
  that is no number from 0 to 1 (`app/extraction/validators.py:89`), which no `except` there names.
- A tool that returns `needs_review` does not stop a plan, which then ends
  `succeeded` (`app/agent/orchestrator.py:124`); what a failed or waiting tool returned is
  kept without a look at its workspace; a run repeated with an approval executes
  the steps before it again.
- A chunk may exceed `max_tokens` by what it repeats of its predecessor, up to a
  whole paragraph, and its offsets leave the repeated text out
  (`app/processing/chunker.py:63`).
- A field that was asked for and occurs in neither document counts as a change in
  the comparison.
- Two concurrent plan changes both audit the same previous plan
  (`app/billing/subscriptions.py:72`); the last audited plan is the one in force.
- The insert in `get_or_create_subscription` is unreachable with rows that migrations
  and registrations leave (`SubscriptionsPrecedeDemand`, `EveryWorkspaceSubscribed`). A
  downgrade below the subscriptions and an upgrade turn paid plans into free ones.

### Bounds, and why they are enough

- Four ingestion requests, two of each kind, one of each pair asynchronous
  media: every pair of handlers can overlap, and a pool of two threads can be full
  while a third waits. The overshoot bound is reached exactly: a plan of one
  document, two connectors and an upload. `OvershootBounded` is proved for all sizes.
- Plans of one or two documents and two or three bytes, so each check can fail
  and pass in the same behaviour.
- One crash (`MaxCrashes`): a second one meets the same states, since a crash
  leaves only committed rows.
- Three decisions on one review item: items do not interact, and two losers and a
  winner can mix columns three ways. Three queries on two threads: the pool is full
  and one query comes later. One document and one session make every query a rival. In
  `query_live` there are two queries, one that may fail anywhere and one in `Plain`.
- Two requests of each lifecycle kind: more only repeat a refusal.
- Two containers, two operators and one restart (`MaxRestarts`): a run overtaken by
  another that goes up or down, dies in between and starts again. `Found` and
  `Targets` are the empty database, the revision before the backfill and the latest;
  one workspace, since a script treats all rows alike.
- Three requests on three addresses: two racing for one address while a script or
  a login meets the result. The addresses are the three that mean something to the
  code: the owner's of the workspace that is there, the dev script's, the admin script's.
- Two workspaces with a document and a chat exchange each, and three late commits
  (`MaxLate`): the insert and the outcome of a document, and one more of another table.
- The inputs of the algorithms are in `MCAnalysis`, each set chosen so that every branch is
  taken on both sides of its limit: texts of up to four paragraphs of up to five tokens with
  limits of two or three; up to five results of three chunks with `top_k` of one or two, so
  that the store may have more than the four it is asked for; up to three lines; messages of
  up to three sentences, or none; source lines of one or two sentences, with markers of a
  source that is there or not; two fields and two sources; two lines a side, whose keys and
  values differ only in form, or wholly.
- `CHECK_DEADLOCK FALSE` where clients have a finite number of requests, so the
  system really stops.

### Fairness

`Progress(r)` of `Ingestion`, `Step(q)` of `Query` and `Work(r)` of `Accounts` are
weakly fair per request: the event loop runs the coroutine that holds it and hands
on what waits, a pool thread runs its handler, the database answers and gives a
lock to whoever waits once it is free. Clients, owners, billing, errors and crashes
have no fairness. Weak fairness is enough although threads and locks are shared,
because holders end without needing the waiters, and clients are finitely many, so
whatever a request waits for stays free in the end. Nothing is claimed to end of
migrations: a container that was refused waits for somebody to start it again.

## 4. What is proved

For every value of the constants, from the assumptions each module names, which TLC
evaluates in the runs. Every proof about behaviours is that of an inductive invariant:
its initial step, one step per action, and a last temporal step. Proofs about sums,
sequences and recursive functions of any length use induction on a natural number, which
is derived from the least element of a set of numbers (`WFMin`).

`Ingestion_proofs` (any sets of requests, finite or not, any sizes, plans, pool
capacity and number of crashes):

- `TypeCorrect`, `OvershootBounded`, `RecordsAlwaysAgree`, and `JobsImplementTable`, the
  refinement of `IngestionJobs`.
- `IInv` adds to the properties what they need: `LoopExclusive` (who is past its last await
  holds the loop), `PoolBounded` (no more handlers in threads than threads),
  `RowsByLocation` (the status of both rows follows from where the handler is) and
  finiteness of what is counted. The bound is inductive because a request is admitted
  when fewer documents than the limit are counted and, with it, at most one
  coroutine and the pool's threads are between check and commit: a set of uploads on
  the loop is a singleton, the rest of the admitted requests is inside the pool.
- `MeteringAlwaysMatches`, `ResponsesAlwaysMatch`: with `UsageByLocation` and
  `ResponseByLocation`, what a request has charged and what it will answer follow from
  where it is, too.
- `StorageAlwaysWithinPlan` (for finitely many uploads, so that their bytes have a sum):
  with `RoomLeft`, what an upload was let in with still fits beside what is stored. A
  second upload cannot commit meanwhile, because both would hold the loop; a connector
  adds no bytes; a failure frees some (`BytesShrink`, `BytesGrow`).

`Query_proofs` (any sets of queries, documents and chat sessions, any daily limit and
pool capacity): `TypeOK` and every safety property of the two query runs.

- `QueryTypeCorrect`: with `IndexOnce` (a query takes a document off its list before
  it deletes the vectors, so it never deletes what it has put in itself).
- `QueryOvershootAlwaysBounded`: with `PoolBounded`; whoever is between the check and
  the commit runs in the pool, and fewer than the limit are counted when one more
  passes. The bound is one less than for documents: no coroutine comes on top.
- `CitationsAlwaysGrounded`: with `Grounded`, which follows a document from the chunk
  rows read over the store and the search to the answer; statuses only move forward.
- `OnlyRivalsEverHideEvidence`: with `EvidenceOrRival` (what a query has put in is
  still there or a query it met asked for it) and `Acquainted` (running queries have met).
- `LocksAlwaysHeld`, `ExchangesAlwaysWhole`, `AskedSessionsAlwaysNamed`: inductive only
  together and with `SessionsByLocation`. Steps after the commit only answer, so a failure
  there leaves the whole exchange, one before it nothing. A commit names the session whose row the
  query has locked; that this is the session it asked in is `LocksAreHeld`.

They assume `QueryAssumption` (the absent value is no query, document or session;
natural limits; at least one thread) and `TitleAssumption` (the name that stands for a
query's words is none of the three other names; queries whose words make no title are in `Plain`).

`WorkspaceLifecycle_proofs` (any sets of requests): `HistoryAlwaysTold`,
`StatusNeverReactivated` (the refinement of `WorkspaceStatus`) and `LifecycleTypeCorrect`.
A commit writes only columns that differ from a copy that may be stale, so `IInv` says
what a stale copy can still say (`CopyFits`) and what its handler may have assigned to it
(`AssignmentFits`): a handler that got past its check never assigns `active`.

`Reviews_proofs` (any items, requests, users, values): `ColumnsAlwaysComeFromEvents`,
`LoneDecisionAlwaysTheRow`, `DecisionAlwaysClosesItem`, `ReviewsTypeCorrect`. With `Undecided`
(an item without events is as it was created) and `DecisionsFit` (what a request has loaded
and is about to write): a loser's UPDATE changes the columns that differ from the pending copy,
so every column it leaves alone was committed by an earlier event.

`Migrations_proofs` (any containers, operators, workspaces, restarts): `SchemaFollowsChain`,
`SubscriptionsEverywhere`, `ServersAlwaysFindTheirSchema`, `OnlyOvertakenAreRefused`. What a
script makes of the tables of its revision is a fact about closed definitions,
`ScriptsFollowChain`; it is stated as an assumption, which TLC computes for all scripts,
both directions, with and without rows, none of them refused. From it the proof carries the
invariant through transactions: the tables `work` sees are those of its revision, too. A
plan for every workspace is inductive on `db` and `work` together; `ServersInv` says that
without operators the committed revision only grows, up to the last, whose tables are those
of the classes (`ChainEndsAtMetadata`, an assumption of the same kind). A run whose version
row still matches applies a script to the tables it was written for, so it is not refused.
Deadlocks (`Abort`) and deaths are steps like others: they end a run, and take its work
back.

`Accounts_proofs` (any requests and addresses, from `EmailsAssumption` and `NamesAssumption`, that
no request makes rows under the names of the initial ones): `RegistrationsAlwaysTellTruth`,
`SubscriptionsAlwaysPrecedeDemand`, `PlanIsAlwaysLastAudited`, `AdminsAlwaysComeFromTheScript`,
inductive only together. `KnowsAccount` says why a request may write its address (it holds the
key, or the user was there); `KnowsPlan` that who has the row will be stamped last;
`Truth` that a request leaves no trace before its commit and all of its rows after it. What a step
does to the others is shown once (`OthersKeep`, from `Grows`, `AddsOwn` and `Acts`), so each
action is left with its own request.

`Records_proofs` (any workspaces, documents, exchanges, items and readers, any number of
late commits): `NothingOldIsMissedAlways`, `OnlyOwnRowsAlways`,
`PartsComeWithTheWholeAlways`, `ExportsAlwaysOnRecord`, and `CommitsMoveForward`. Commits
only move the database forward (`Older`: rows stay, messages and citations never change, a
document whose ingestion has ended stays as it is), so what a SELECT has returned is looked
at once, against the rows committed when it ran (`DbInv`), and survives every later commit.
What is still due to be read is in the invariant, too: a document seen has its parts, or the
SELECT for them is still on the reader's plan.

`Analysis_proofs` has two parts. The agent (any runs, workspaces, requests, registered
tools): `NoUnapprovedTool`, `LogIsTheStory`, `AgentTypeCorrect`, for its own specification
`AgentSpec`, with `Fits`, which says entry by entry what a log can hold of a plan and which log
a status goes with; `AnalysisRunsAgent` shows that `Analysis` implements `AgentSpec`. The
algorithms (any sets of tasks as assumed, of any size):

- `SearchFindsBestAlways`: results are ranked by counting who comes before whom; that
  the ranks of the merged results are 1..n, each once, is the pigeonhole principle
  (`FS_Injection`), and what is cut off was ranked behind.
- `AnswersAreGroundedAlways`: an accepted message names, for each claim, a source that
  exists and cites each named source once. What the local model says is refused only if a
  heading stands above a line and one of them has several sentences, or a marker in a source's text
  names no source; a source it cites that no marker names shares a query term.
- `AcceptedFieldsAreEvidencedAlways`: accepted fields are those of the schema, sound, and
  quoted by the source they name; what the local client extracts is accepted unless it
  found a list.
- `ReportsAreReliableAlways`: a report without flags hides no difference; its numbers add up
  to its rows and what a row cites stands in the appendix and in the document.
- `ChunksTellTextAlways`: the loop over the paragraphs keeps `Merged`: the chunks closed so
  far and the one that would be closed if no paragraph followed hold exactly the paragraphs
  read so far, end before the others begin, and each is `Fine`. Two facts carry a step: the
  parts a large paragraph is cut into lie where `PartBounds` says, and what is carried over
  is a suffix of the text of the last chunk, before the offset the next one claims.

The invariant of these five is that the result is `Pending` or the `Outcome` of a task.
Each rests on lemmas about one algorithm: a loop is followed through the
function that solves its recursion, which exists for every length (`IterationExists`).

Only model-checked: liveness under fairness (`IngestionEnds`, the ends of queries and of
accounts' requests), since the provers treat neither `ENABLED` nor weak fairness.

## 5. Plan, and what is not modelled

Next, in this order:

1. `ServerPool`: connections, threads and the event loop; requests that hold one
   while they wait for another, and the pool's timeout.
2. Message order in a chat session; a clock per message.

Not modelled:

- Extractors (office, PDF, OCR, web, repositories), workers and media tools: calls of third-party
  libraries, subprocesses and the network inside one step; their outcome (text,
  expected error, unexpected error) is a choice in `Ingestion`.
- Observability: logging and counters nothing reads.
- Web client: a browser program; how its chat panel shows citations is mentioned above.
- Evaluations and development scripts, except the two account scripts.

Partly modelled: the token checks of the quotas (nothing in `app` calls them); the list of
chat sessions; the vector store (code outside the repository, as a set per process); the
connection pool of the database session; JSON parsing and repair, the flags of a whole
extraction and the patterns of the field types; the wording and file formats of reports;
sums, filters and pagination of views.

## 6. How to run

In this directory: `tlc -config MCIngestion.cfg MCIngestion.tla` (likewise for the other cfg
files; `PROJECT.json` names module and cfg of each run) and `tlapm M.tla` for each of
`Ingestion_proofs`, `Query_proofs`, `WorkspaceLifecycle_proofs`, `Reviews_proofs`,
`Migrations_proofs`, `Accounts_proofs`, `Records_proofs` and `Analysis_proofs`. Each run
takes less than five minutes.
