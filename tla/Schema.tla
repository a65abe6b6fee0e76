------------------------------- MODULE Schema -------------------------------
(***************************************************************************)
(* The database schema as data: the statements Alembic sends, what the     *)
(* database makes of them, the chain of revisions of db/migrations and     *)
(* the tables that the classes of app/db/models.py expect.                 *)
(* Lengths and types of columns are left out; presence, NOT NULL,          *)
(* references, keys and indexes are kept.                                  *)
(***************************************************************************)
EXTENDS Integers, Sequences, FiniteSets, TLC, Functions, SequencesExt

Stamped == {"id", "created_at", "updated_at"}
None == << >>

Columns(t) == t.req \cup t.opt

\* A table as the classes of app/db/models.py declare it. refs maps a column
\* to the table it references; idx holds the indexes.
TableOf(req, opt, refs, keys, idx) ==
    [req |-> req \cup Stamped, opt |-> opt, refs |-> refs, keys |-> keys, idx |-> idx]

-----------------------------------------------------------------------------
(* Statements *)

CreateTable(t, req, opt, refs, keys) ==
    [op |-> "create_table", on |-> t, as |-> TableOf(req, opt, refs, keys, {})]
DropTable(t)              == [op |-> "drop_table", on |-> t]
AddColumn(t, c, req, dflt)== [op |-> "add_column", on |-> t, col |-> c, req |-> req, dflt |-> dflt]
DropColumn(t, c)          == [op |-> "drop_column", on |-> t, col |-> c]
Index(t, i, cols, unique) == [op |-> "index", on |-> t, as |-> [name |-> i, cols |-> cols, unique |-> unique]]
DropIndex(t, i)           == [op |-> "drop_index", on |-> t, name |-> i]
Refer(t, c, to)           == [op |-> "refer", on |-> t, col |-> c, to |-> to]
DropRefer(t, c)           == [op |-> "drop_refer", on |-> t, col |-> c]

Names(idx) == {i.name : i \in idx}
IndexNames(s) == UNION {Names(s[t].idx) : t \in DOMAIN s}

\* What the database requires of a statement in schema s; populated says
\* whether its tables hold rows.
Accepts(s, x, populated) ==
    IF x.op = "create_table"
    THEN /\ x.on \notin DOMAIN s
         /\ Range(x.as.refs) \subseteq DOMAIN s
         /\ DOMAIN x.as.refs \subseteq Columns(x.as)
    ELSE /\ x.on \in DOMAIN s
         /\ CASE x.op = "drop_table" -> \A t \in DOMAIN s \ {x.on} : x.on \notin Range(s[t].refs)
              [] x.op = "add_column" -> /\ x.col \notin Columns(s[x.on])
                                        /\ x.req /\ populated => x.dflt
              [] x.op = "drop_column" -> x.col \in Columns(s[x.on])
              [] x.op = "index" -> /\ x.as.name \notin IndexNames(s)
                                   /\ x.as.cols \subseteq Columns(s[x.on])
              [] x.op = "drop_index" -> x.name \in Names(s[x.on].idx)
              [] x.op = "refer" -> /\ x.to \in DOMAIN s
                                   /\ x.col \in Columns(s[x.on]) \ DOMAIN s[x.on].refs
              [] x.op = "drop_refer" -> x.col \in DOMAIN s[x.on].refs

Without(f, k) == Restrict(f, DOMAIN f \ {k})

\* The schema after an accepted statement.
Execute(s, x) ==
    CASE x.op = "create_table" -> (x.on :> x.as) @@ s
      [] x.op = "drop_table" -> Without(s, x.on)
      [] x.op = "add_column" /\ x.req -> [s EXCEPT ![x.on].req = @ \cup {x.col}]
      [] x.op = "add_column" /\ ~x.req -> [s EXCEPT ![x.on].opt = @ \cup {x.col}]
      [] x.op = "drop_column" -> [s EXCEPT ![x.on].req = @ \ {x.col}, ![x.on].opt = @ \ {x.col},
                                           ![x.on].refs = Without(@, x.col),
                                           ![x.on].keys = {k \in @ : x.col \notin k},
                                           ![x.on].idx = {i \in @ : x.col \notin i.cols}]
      [] x.op = "index" -> [s EXCEPT ![x.on].idx = @ \cup {x.as}]
      [] x.op = "drop_index" -> [s EXCEPT ![x.on].idx = {i \in @ : i.name # x.name}]
      [] x.op = "refer" -> [s EXCEPT ![x.on].refs = (x.col :> x.to) @@ @]
      [] x.op = "drop_refer" -> [s EXCEPT ![x.on].refs = Without(@, x.col)]

\* A script runs until a statement is refused; then its transaction is lost.
RunScript(s, script, populated) ==
    FoldLeft(LAMBDA a, x : IF a.ok /\ Accepts(a.tables, x, populated)
                           THEN [ok |-> TRUE, tables |-> Execute(a.tables, x)]
                           ELSE [ok |-> FALSE, tables |-> a.tables],
             [ok |-> TRUE, tables |-> s], script)

-----------------------------------------------------------------------------
(* The revisions, oldest first: the upgrade and the downgrade of each *)

InWorkspace == [workspace_id |-> "workspaces"]
OfDocument == InWorkspace @@ [document_id |-> "documents"]
OfUser == InWorkspace @@ [user_id |-> "users"]

InitialRoots == <<
    CreateTable("users", {"email"}, {"display_name"}, None, {}),
    Index("users", "ix_users_email", {"email"}, TRUE),
    CreateTable("workspaces", {"name", "owner_user_id"}, {}, [owner_user_id |-> "users"], {}),
    CreateTable("conversation_messages", {"workspace_id", "role", "content"}, {"user_id"}, OfUser, {}),
    Index("conversation_messages", "ix_conversation_messages_workspace", {"workspace_id"}, FALSE),
    CreateTable("documents", {"workspace_id", "title", "source_type", "status"}, {}, InWorkspace, {}),
    Index("documents", "ix_documents_workspace_status", {"workspace_id", "status"}, FALSE),
    CreateTable("workspace_members", {"workspace_id", "user_id", "role"}, {}, OfUser,
                {{"workspace_id", "user_id"}}),
    Index("workspace_members", "ix_workspace_members_workspace_user", {"workspace_id", "user_id"}, FALSE) >>

InitialDetails == <<
    CreateTable("document_chunks",
                {"workspace_id", "document_id", "chunk_index", "text", "source_metadata"},
                {"source_page", "source_start_offset", "source_end_offset", "token_count"},
                OfDocument, {{"document_id", "chunk_index"}}),
    Index("document_chunks", "ix_document_chunks_workspace_document", {"workspace_id", "document_id"}, FALSE),
    CreateTable("document_files",
                {"workspace_id", "document_id", "filename", "content_type", "size_bytes", "storage_key"},
                {"checksum_sha256"}, OfDocument, {}),
    Index("document_files", "ix_document_files_workspace_document", {"workspace_id", "document_id"}, FALSE),
    CreateTable("ingestion_jobs", {"workspace_id", "document_id", "status"}, {"error_message"}, OfDocument, {}),
    Index("ingestion_jobs", "ix_ingestion_jobs_workspace_status", {"workspace_id", "status"}, FALSE),
    CreateTable("citations", {"message_id", "chunk_id", "rank"}, {"relevance_score", "quote"},
                [chunk_id |-> "document_chunks", message_id |-> "conversation_messages"], {}),
    Index("citations", "ix_citations_chunk", {"chunk_id"}, FALSE),
    Index("citations", "ix_citations_message", {"message_id"}, FALSE) >>

InitialUpgrade == InitialRoots \o InitialDetails

InitialDowngrade == <<
    DropIndex("citations", "ix_citations_message"),
    DropIndex("citations", "ix_citations_chunk"), DropTable("citations"),
    DropIndex("ingestion_jobs", "ix_ingestion_jobs_workspace_status"),
    DropTable("ingestion_jobs"),
    DropIndex("document_files", "ix_document_files_workspace_document"),
    DropTable("document_files"),
    DropIndex("document_chunks", "ix_document_chunks_workspace_document"),
    DropTable("document_chunks"),
    DropIndex("workspace_members", "ix_workspace_members_workspace_user"),
    DropTable("workspace_members"),
    DropIndex("documents", "ix_documents_workspace_status"),
    DropTable("documents"),
    DropIndex("conversation_messages", "ix_conversation_messages_workspace"),
    DropTable("conversation_messages"), DropTable("workspaces"),
    DropIndex("users", "ix_users_email"), DropTable("users") >>

ReviewsUpgrade == <<
    CreateTable("audit_events", {"workspace_id", "event_type", "entity_type", "payload"},
                {"actor_user_id", "entity_id"}, InWorkspace @@ [actor_user_id |-> "users"], {}),
    Index("audit_events", "ix_audit_events_entity", {"entity_type", "entity_id"}, FALSE),
    Index("audit_events", "ix_audit_events_workspace", {"workspace_id"}, FALSE),
    CreateTable("review_items", {"workspace_id", "target_type", "target_id", "evidence", "status"},
                {"field_name", "original_value", "reviewed_value", "reviewer_user_id", "reviewed_at", "comments"},
                InWorkspace @@ [reviewer_user_id |-> "users"], {}),
    Index("review_items", "ix_review_items_target", {"target_type", "target_id"}, FALSE),
    Index("review_items", "ix_review_items_workspace_status", {"workspace_id", "status"}, FALSE) >>

ReviewsDowngrade == <<
    DropIndex("review_items", "ix_review_items_workspace_status"),
    DropIndex("review_items", "ix_review_items_target"), DropTable("review_items"),
    DropIndex("audit_events", "ix_audit_events_workspace"),
    DropIndex("audit_events", "ix_audit_events_entity"), DropTable("audit_events") >>

PasswordUpgrade == << AddColumn("users", "password_hash", FALSE, FALSE) >>
PasswordDowngrade == << DropColumn("users", "password_hash") >>

UsageUpgrade == <<
    CreateTable("usage_events",
                {"workspace_id", "metric_name", "quantity", "unit", "source_type", "usage_metadata"},
                {"actor_user_id", "source_id"}, InWorkspace @@ [actor_user_id |-> "users"], {}),
    Index("usage_events", "ix_usage_events_workspace_created", {"workspace_id", "created_at"}, FALSE),
    Index("usage_events", "ix_usage_events_workspace_metric", {"workspace_id", "metric_name"}, FALSE) >>

UsageDowngrade == <<
    DropIndex("usage_events", "ix_usage_events_workspace_metric"),
    DropIndex("usage_events", "ix_usage_events_workspace_created"), DropTable("usage_events") >>

\* The rows this revision inserts are Migrations!Backfill.
SubscriptionsUpgrade == <<
    CreateTable("workspace_subscriptions", {"workspace_id", "plan_name", "status"},
                {"current_period_start", "current_period_end"}, InWorkspace, {{"workspace_id"}}),
    Index("workspace_subscriptions", "ix_workspace_subscriptions_workspace", {"workspace_id"}, FALSE) >>

SubscriptionsDowngrade == <<
    DropIndex("workspace_subscriptions", "ix_workspace_subscriptions_workspace"),
    DropTable("workspace_subscriptions") >>

AdminUpgrade == << AddColumn("users", "is_platform_admin", TRUE, TRUE) >>
AdminDowngrade == << DropColumn("users", "is_platform_admin") >>

LifecycleUpgrade == <<
    AddColumn("workspaces", "status", TRUE, TRUE),
    AddColumn("workspaces", "deletion_requested_at", FALSE, FALSE),
    AddColumn("workspaces", "deleted_at", FALSE, FALSE) >>

LifecycleDowngrade == <<
    DropColumn("workspaces", "deleted_at"), DropColumn("workspaces", "deletion_requested_at"),
    DropColumn("workspaces", "status") >>

SessionsUpgrade == <<
    CreateTable("conversation_sessions", {"workspace_id", "title"}, {"user_id"}, OfUser, {}),
    Index("conversation_sessions", "ix_conversation_sessions_workspace_updated",
          {"workspace_id", "updated_at"}, FALSE),
    AddColumn("conversation_messages", "session_id", FALSE, FALSE),
    AddColumn("conversation_messages", "attached_document_ids", TRUE, TRUE),
    Refer("conversation_messages", "session_id", "conversation_sessions"),
    Index("conversation_messages", "ix_conversation_messages_session", {"session_id"}, FALSE) >>

SessionsDowngrade == <<
    DropIndex("conversation_messages", "ix_conversation_messages_session"),
    DropRefer("conversation_messages", "session_id"),
    DropColumn("conversation_messages", "attached_document_ids"),
    DropColumn("conversation_messages", "session_id"),
    DropIndex("conversation_sessions", "ix_conversation_sessions_workspace_updated"),
    DropTable("conversation_sessions") >>

\* One record per revision, in the order of their down_revision links.
Revisions == <<
    [up |-> InitialUpgrade, down |-> InitialDowngrade],
    [up |-> ReviewsUpgrade, down |-> ReviewsDowngrade],
    [up |-> PasswordUpgrade, down |-> PasswordDowngrade],
    [up |-> UsageUpgrade, down |-> UsageDowngrade],
    [up |-> SubscriptionsUpgrade, down |-> SubscriptionsDowngrade],
    [up |-> AdminUpgrade, down |-> AdminDowngrade],
    [up |-> LifecycleUpgrade, down |-> LifecycleDowngrade],
    [up |-> SessionsUpgrade, down |-> SessionsDowngrade] >>

Latest == Len(Revisions)

\* What the chain makes of an empty database, up to revision v.
SchemaAt ==
    LET at[v \in 0..Latest] ==
            IF v = 0 THEN None ELSE RunScript(at[v - 1], Revisions[v].up, FALSE).tables
    IN  [v \in 0..Latest |-> at[v]]

-----------------------------------------------------------------------------
(* The tables the classes of app/db/models.py map *)

Plain(i, cols) == [name |-> i, cols |-> cols, unique |-> FALSE]

AccountModels == [
    users |-> TableOf({"email", "is_platform_admin"}, {"display_name", "password_hash"}, None, {},
                      {[name |-> "ix_users_email", cols |-> {"email"}, unique |-> TRUE]}),
    workspaces |-> TableOf({"name", "owner_user_id", "status"}, {"deletion_requested_at", "deleted_at"},
                           [owner_user_id |-> "users"], {}, {}),
    workspace_members |-> TableOf({"workspace_id", "user_id", "role"}, {}, OfUser,
                                  {{"workspace_id", "user_id"}},
                                  {Plain("ix_workspace_members_workspace_user", {"workspace_id", "user_id"})}),
    workspace_subscriptions |->
        TableOf({"workspace_id", "plan_name", "status"}, {"current_period_start", "current_period_end"},
                InWorkspace, {{"workspace_id"}},
                {Plain("ix_workspace_subscriptions_workspace", {"workspace_id"})})]

DocumentModels == [
    documents |-> TableOf({"workspace_id", "title", "source_type", "status"}, {}, InWorkspace, {},
                          {Plain("ix_documents_workspace_status", {"workspace_id", "status"})}),
    document_files |->
        TableOf({"workspace_id", "document_id", "filename", "content_type", "size_bytes", "storage_key"},
                {"checksum_sha256"}, OfDocument, {},
                {Plain("ix_document_files_workspace_document", {"workspace_id", "document_id"})}),
    ingestion_jobs |-> TableOf({"workspace_id", "document_id", "status"}, {"error_message"}, OfDocument, {},
                               {Plain("ix_ingestion_jobs_workspace_status", {"workspace_id", "status"})}),
    document_chunks |->
        TableOf({"workspace_id", "document_id", "chunk_index", "text", "source_metadata"},
                {"source_page", "source_start_offset", "source_end_offset", "token_count"},
                OfDocument, {{"document_id", "chunk_index"}},
                {Plain("ix_document_chunks_workspace_document", {"workspace_id", "document_id"})})]

ConversationModels == [
    conversation_sessions |->
        TableOf({"workspace_id", "title"}, {"user_id"}, OfUser, {},
                {Plain("ix_conversation_sessions_workspace_updated", {"workspace_id", "updated_at"})}),
    conversation_messages |->
        TableOf({"workspace_id", "role", "content", "attached_document_ids"}, {"session_id", "user_id"},
                OfUser @@ [session_id |-> "conversation_sessions"], {},
                {Plain("ix_conversation_messages_workspace", {"workspace_id"}),
                 Plain("ix_conversation_messages_session", {"session_id"})}),
    citations |->
        TableOf({"message_id", "chunk_id", "rank"}, {"relevance_score", "quote"},
                [message_id |-> "conversation_messages", chunk_id |-> "document_chunks"], {},
                {Plain("ix_citations_message", {"message_id"}), Plain("ix_citations_chunk", {"chunk_id"})})]

RecordModels == [
    review_items |->
        TableOf({"workspace_id", "target_type", "target_id", "evidence", "status"},
                {"field_name", "original_value", "reviewed_value", "reviewer_user_id", "reviewed_at", "comments"},
                InWorkspace @@ [reviewer_user_id |-> "users"], {},
                {Plain("ix_review_items_workspace_status", {"workspace_id", "status"}),
                 Plain("ix_review_items_target", {"target_type", "target_id"})}),
    audit_events |->
        TableOf({"workspace_id", "event_type", "entity_type", "payload"}, {"actor_user_id", "entity_id"},
                InWorkspace @@ [actor_user_id |-> "users"], {},
                {Plain("ix_audit_events_workspace", {"workspace_id"}),
                 Plain("ix_audit_events_entity", {"entity_type", "entity_id"})}),
    usage_events |->
        TableOf({"workspace_id", "metric_name", "quantity", "unit", "source_type", "usage_metadata"},
                {"actor_user_id", "source_id"}, InWorkspace @@ [actor_user_id |-> "users"], {},
                {Plain("ix_usage_events_workspace_created", {"workspace_id", "created_at"}),
                 Plain("ix_usage_events_workspace_metric", {"workspace_id", "metric_name"})})]

\* Base.metadata: every table the program reads or writes.
Metadata == AccountModels @@ DocumentModels @@ ConversationModels @@ RecordModels

=============================================================================
