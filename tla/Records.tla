------------------------------ MODULE Records ------------------------------
(***************************************************************************)
(* Reading while others write.  The views of a workspace - the compliance  *)
(* export, the document list, a chat's messages, the review export, the    *)
(* admin pages - are read with several SELECTs under read committed: each  *)
(* sees what is committed when it runs.  The writers are the commits of    *)
(* modules Ingestion, Query and Reviews, seen from outside.                *)
(***************************************************************************)
EXTENDS Naturals, FiniteSets, Sequences, SequencesExt

CONSTANTS Workspaces, Documents, Exchanges, Items, Readers,
          Uploads,  \* the documents that were uploaded; a connector fetched the others
          Home,     \* the workspace of each document, exchange and review item
          Texts,    \* the numbers of its sources an answer's text names, in order
          MaxLate   \* bound: commits after a reader began

ASSUME HomeAssumption == Home \in [Documents \cup Exchanges \cup Items -> Workspaces]
ASSUME UploadsAssumption == Uploads \subseteq Documents
\* The event of an export is named by its reader, that of a review by its item and status.
ASSUME NamesAssumption == Readers \cap (Items \X {"pending", "approved"}) = {}

VARIABLES db,      \* the committed rows, table by table
          late,    \* how many commits came after a reader began
          read     \* what a reader asked for, has read and has still to read

vars == << db, late, read >>

Tables == {"members", "documents", "files", "jobs", "chunks", "messages", "citations",
           "review_items", "audit_events", "usage_events", "subscriptions"}
Outcomes == {"indexed", "failed"}
ChunkIds(d) == << << d, 1 >>, << d, 2 >> >>
ChunksOf(d) == {[id |-> c, space |-> Home[d], document |-> d] : c \in Range(ChunkIds(d))}
Own(rows, w) == {row \in rows : row.space = w}

Idle == [kind |-> "idle"]

Init ==
    /\ db = [t \in Tables |->
               CASE t = "members" -> {[id |-> w, space |-> w] : w \in Workspaces}
                 [] t = "subscriptions" -> {[id |-> w, space |-> w, plan |-> "free"] : w \in Workspaces}
                 [] OTHER -> {}]
    /\ late = 0
    /\ read = [r \in Readers |-> Idle]

-----------------------------------------------------------------------------
(* Commits *)

Commit ==
    /\ late' = IF \A r \in Readers : read[r] = Idle THEN late ELSE late + 1
    /\ late' <= MaxLate
    /\ UNCHANGED read

Added(new) == [t \in Tables |-> IF t \in DOMAIN new THEN db[t] \cup new[t] ELSE db[t]]
Job(d, status) == [id |-> d, space |-> Home[d], document |-> d, status |-> status]
Doc(d, status) == [id |-> d, space |-> Home[d], status |-> status]
Row(id) == [id |-> id, space |-> Home[id]]

\* An upload has a file, what a connector fetches has none.
FileRows(d) == IF d \in Uploads THEN {[id |-> d, space |-> Home[d], document |-> d]} ELSE {}

CommitDocument(d) ==
    /\ \A row \in db.documents : row.id # d
    /\ db' = Added([documents |-> {Doc(d, "processing")}, jobs |-> {Job(d, "processing")},
                    files |-> FileRows(d)])
    /\ Commit

\* Status, job and chunks change in one commit.
CommitOutcome(d, status) ==
    /\ Doc(d, "processing") \in db.documents
    /\ db' = [Added([chunks |-> IF status = "indexed" THEN ChunksOf(d) ELSE {},
                     usage_events |-> IF status = "indexed" THEN {Row(d)} ELSE {}])
              EXCEPT !.documents = (@ \ {Doc(d, "processing")}) \cup {Doc(d, status)},
                     !.jobs = (@ \ {Job(d, "processing")})
                                \cup {Job(d, IF status = "indexed" THEN "succeeded" ELSE "failed")}]
    /\ Commit

Message(x, role) == [id |-> << x, role >>, space |-> Home[x], role |-> role]
\* The retrieved chunks, in the order that numbers them.
Sources(w) == FlattenSeq([n \in 1..Cardinality(Own(db.documents, w)) |->
                  LET d == SetToSeq(Own(db.documents, w))[n]
                  IN  IF d.status = "indexed" THEN ChunkIds(d.id) ELSE << >>])

\* _persist_conversation and the commit of the query: both messages and the
\* citations. A citation is ranked by where its number first occurs in the text.
Answer(x) ==
    LET sources == Sources(Home[x]) IN
    /\ \A m \in db.messages : m.id # << x, "user" >>
    /\ \E text \in {t \in Texts : Range(t) \subseteq DOMAIN sources} :
          db' = Added([messages |-> {Message(x, "user"),
                                     [id |-> << x, "assistant" >>, space |-> Home[x], role |-> "assistant",
                                      text |-> text, sources |-> sources]},
                       citations |-> {[id |-> << x, rank >>, message |-> << x, "assistant" >>, rank |-> rank,
                                       chunk |-> sources[text[rank]]] : rank \in DOMAIN text},
                       usage_events |-> {Row(x)}])
    /\ Commit

\* An item is created, then decided, each with its audit event.
CommitReview(i) ==
    LET old == {row \in db.review_items : row.id = i}
        status == IF old = {} THEN "pending" ELSE "approved" IN
    /\ \A row \in old : row.status = "pending"
    /\ db' = [db EXCEPT !.review_items = (@ \ old) \cup {[id |-> i, space |-> Home[i], status |-> status]},
                        !.audit_events = @ \cup {[id |-> << i, status >>, space |-> Home[i]]}]
    /\ Commit

-----------------------------------------------------------------------------
(* The SELECTs: what each returns for workspace w *)

MembersPayload(w)      == Own(db.members, w)
\* Mutant: only indexed documents are exported.
DocumentsPayloadIndexed(w) == {d \in Own(db.documents, w) : d.status = "indexed"}
DocumentsPayload(w)    == Own(db.documents, w)
FilesPayload(w)        == Own(db.files, w)
ChunksPayload(w)       == Own(db.chunks, w)
ConversationsPayload(w) == Own(db.messages, w)
\* Mutant: no join with the messages of the workspace.
CitationsPayloadAll(w)  == db.citations
CitationsPayload(w)     == {c \in db.citations : \E m \in db.messages : m.id = c.message /\ m.space = w}
ReviewItemsPayload(w)  == Own(db.review_items, w)
AuditEventsPayload(w)  == Own(db.audit_events, w)
UsageEventsPayload(w)  == Own(db.usage_events, w)
SubscriptionPayload(w) == Own(db.subscriptions, w)

\* One document of the list: its files, its job, the number of its chunks.
FilesOf(d)   == {f \in db.files : f.document = d}
LatestJob(d) == {j \in db.jobs : j.document = d}
ChunkCount(d) == Cardinality({c \in db.chunks : c.document = d})

\* Mutant: files and chunks are joined directly, not counted in subqueries.
MetadataPageJoined(w) == {[id |-> d.id, space |-> w, status |-> d.status,
                           files |-> Cardinality(FilesOf(d.id)) * (IF ChunkCount(d.id) = 0 THEN 1 ELSE ChunkCount(d.id)),
                           chunks |-> ChunkCount(d.id)] : d \in Own(db.documents, w)}

\* The pages of the admin service: every count of a page is part of one SELECT.
WorkspacePage == {[id |-> w, space |-> w, documents |-> Cardinality(Own(db.documents, w)),
                   failed |-> Cardinality({j \in Own(db.jobs, w) : j.status = "failed"}),
                   files |-> Cardinality(Own(db.files, w)),
                   plan |-> {s.plan : s \in Own(db.subscriptions, w)}] : w \in Workspaces}
MetadataPage(w) == {[id |-> d.id, space |-> w, status |-> d.status, files |-> Cardinality(FilesOf(d.id)),
                     chunks |-> ChunkCount(d.id)] : d \in Own(db.documents, w)}
JobPage(w)   == Own(db.jobs, w)
AuditPage(w) == Own(db.audit_events, w)

\* A SELECT of a plan: what, for which document or message.
Select(w, s) ==
    CASE s.what = "members" -> MembersPayload(w)
      [] s.what = "documents" -> DocumentsPayload(w)
      [] s.what = "files" -> FilesPayload(w)
      [] s.what = "chunks" -> ChunksPayload(w)
      [] s.what = "messages" -> ConversationsPayload(w)
      [] s.what = "citations" -> CitationsPayload(w)
      [] s.what = "review_items" -> ReviewItemsPayload(w)
      [] s.what = "audit_events" -> AuditEventsPayload(w)
      [] s.what = "usage_events" -> UsageEventsPayload(w)
      [] s.what = "subscriptions" -> SubscriptionPayload(w)
      [] s.what = "files of" -> FilesOf(s.of)
      [] s.what = "job of" -> LatestJob(s.of)
      [] s.what = "chunk count of" -> {[id |-> s.of, space |-> w, count |-> ChunkCount(s.of)]}
      [] s.what = "citations of" -> {c \in db.citations : c.message = s.of}
      [] s.what = "workspace page" -> WorkspacePage
      [] s.what = "metadata page" -> MetadataPage(w)
      [] s.what = "job page" -> JobPage(w)
      [] s.what = "audit page" -> AuditPage(w)

-----------------------------------------------------------------------------
(* Readers *)

Whole(what) == [what |-> what, of |-> "all"]

\* Mutant: the chunks are read before the documents they belong to.
ExportPlanChunksFirst ==
    << Whole("members"), Whole("chunks"), Whole("documents"), Whole("files"), Whole("messages"),
       Whole("citations"), Whole("review_items"), Whole("audit_events"), Whole("usage_events"),
       Whole("subscriptions") >>

\* The order in which export_workspace_data fills its dictionary.
ExportPlan ==
    << Whole("members"), Whole("documents"), Whole("files"), Whole("chunks"), Whole("messages"),
       Whole("citations"), Whole("review_items"), Whole("audit_events"), Whole("usage_events"),
       Whole("subscriptions") >>

Plan == [export |-> ExportPlan, documents |-> << Whole("documents") >>, chat |-> << Whole("messages") >>,
         reviews |-> << Whole("review_items") >>, admin_workspaces |-> << Whole("workspace page") >>,
         admin_documents |-> << Whole("metadata page") >>, admin_jobs |-> << Whole("job page") >>,
         admin_audit |-> << Whole("audit page") >>]

\* Mutant: the event is recorded once the data is there.
ExportEventLate(r, kind, w) == {}

\* record_event flushes the export's own event before the tables are read; only
\* this transaction sees it.
ExportEvent(r, kind, w) == IF kind = "export" THEN {[id |-> r, space |-> w]} ELSE {}

Begin(r, kind, w) ==
    /\ read[r] = Idle
    /\ read' = [read EXCEPT ![r] = [kind |-> kind, space |-> w, todo |-> Plan[kind], before |-> db, event |-> "open",
                                    own |-> ExportEvent(r, kind, w), seen |-> {}]]
    /\ UNCHANGED << db, late >>

Busy(r) == read[r].kind \in DOMAIN Plan

\* The SELECTs that the rows of one call for: those of _document_to_response
\* for each document in turn, and the lazy loads of _message_response.
Each(what, rows) == [n \in 1..Cardinality(rows) |-> [what |-> what, of |-> SetToSeq(rows)[n].id]]
Follow(kind, s, rows) ==
    CASE kind = "documents" /\ s.what = "documents" -> Each("files of", rows)
      [] s.what = "files of" -> << [what |-> "job of", of |-> s.of] >>
      [] s.what = "job of" -> << [what |-> "chunk count of", of |-> s.of] >>
      [] kind = "chat" /\ s.what = "messages" -> Each("citations of", rows)
      [] OTHER -> << >>

ReadNext(r) ==
    /\ Busy(r)
    /\ read[r].todo # << >>
    /\ LET k == read[r]
           s == Head(k.todo)
           rows == Select(k.space, s) \cup IF s.what = "audit_events" THEN k.own ELSE {}
       IN  read' = [read EXCEPT ![r].todo = Follow(k.kind, s, rows) \o Tail(k.todo),
                                ![r].seen = @ \cup {[what |-> s.what, of |-> s.of, rows |-> rows]}]
    /\ UNCHANGED << db, late >>

Exports == {"export", "reviews"}

\* Mutant: the file is sent without a commit of its event.
SaveEventNot(r) ==
    /\ Busy(r)
    /\ read[r].kind \in Exports
    /\ read[r].todo = << >>
    /\ read[r].event = "open"
    /\ read' = [read EXCEPT ![r].event = "committed"]
    /\ UNCHANGED << db, late >>

\* The exports commit their event once everything is read ...
SaveEvent(r) ==
    /\ Busy(r)
    /\ read[r].kind \in Exports
    /\ read[r].todo = << >>
    /\ read[r].event = "open"
    /\ db' = [db EXCEPT !.audit_events = @ \cup {[id |-> r, space |-> read[r].space]}]
    /\ read' = [read EXCEPT ![r].event = "committed"]
    /\ UNCHANGED late

\* ... and build what they send after it, from the rows they hold.
Finish(r) ==
    /\ Busy(r)
    /\ read[r].todo = << >>
    /\ read[r].kind \in Exports => read[r].event = "committed"
    /\ read' = [read EXCEPT ![r] = [kind |-> "answered", to |-> @.kind, space |-> @.space,
                                    before |-> @.before, seen |-> @.seen]]
    /\ UNCHANGED << db, late >>

\* An error no handler expects: an event that is not committed is rolled back.
Break(r) ==
    /\ Busy(r)
    /\ read' = [read EXCEPT ![r] = [kind |-> "error"]]
    /\ UNCHANGED << db, late >>

Next ==
    \/ \E d \in Documents : CommitDocument(d) \/ \E status \in Outcomes : CommitOutcome(d, status)
    \/ \E x \in Exchanges : Answer(x)
    \/ \E i \in Items : CommitReview(i)
    \/ \E r \in Readers : ReadNext(r) \/ SaveEvent(r) \/ Finish(r) \/ Break(r)
                          \/ \E kind \in DOMAIN Plan, w \in Workspaces : Begin(r, kind, w)

Spec == Init /\ [][Next]_vars

-----------------------------------------------------------------------------
(* Properties *)

Answered(kinds) == {r \in Readers : read[r].kind = "answered" /\ read[r].to \in kinds}
Seen(r, what) == UNION {s.rows : s \in {t \in read[r].seen : t.what = what}}
SeenOf(r, what, id) == UNION {s.rows : s \in {t \in read[r].seen : t.what = what /\ t.of = id}}

\* Nothing of the workspace that was committed before a view was asked for is
\* missing from it, in any of the tables, however many commits ran in between.
NothingOldIsMissed ==
    \A r \in Answered({"export", "documents", "chat", "reviews"}) :
        \A s \in read[r].seen : s.what \in Tables =>
            LET before == IF s.what = "citations"
                          THEN {c \in read[r].before.citations :
                                  \E m \in Own(read[r].before.messages, read[r].space) : m.id = c.message}
                          ELSE Own(read[r].before[s.what], read[r].space)
            IN  {row.id : row \in before} \subseteq {row.id : row \in s.rows}

\* No view of a workspace holds a row of another one.
OnlyOwnRows ==
    \A r \in Answered(DOMAIN Plan \ {"admin_workspaces"}) : \A s \in read[r].seen :
        \A row \in s.rows :
            IF s.what \in {"citations", "citations of"} THEN Home[row.message[1]] = read[r].space
            ELSE row.space = read[r].space

\* What a view shows is never ahead of its parts: the tables are read parents
\* first, so a document it calls indexed comes with all its chunks, an uploaded
\* one with its file, a finished one with the job that finished it, an answer
\* with its question and every citation; the counts on an admin page fit each
\* other and the status next to them.
PartsComeWithTheWhole ==
    /\ \A r \in Answered({"export"}) : \A d \in Seen(r, "documents") :
          /\ d.status = "indexed" => ChunksOf(d.id) \subseteq Seen(r, "chunks")
          /\ d.id \in Uploads => \E f \in Seen(r, "files") : f.document = d.id
    /\ \A r \in Answered({"documents"}) : \A d \in Seen(r, "documents") :
          /\ d.id \in Uploads => SeenOf(r, "files of", d.id) # {}
          /\ d.status # "processing" =>
                /\ \A j \in SeenOf(r, "job of", d.id) : j.status = "failed" <=> d.status = "failed"
                /\ \A c \in SeenOf(r, "chunk count of", d.id) : c.count > 0 <=> d.status = "indexed"
    /\ \A r \in Answered({"export", "chat"}) : \A m \in Seen(r, "messages") :
          /\ \E n \in Seen(r, "messages") : n.id[1] = m.id[1] /\ n.role # m.role
          /\ m.role = "assistant" =>
                \A rank \in DOMAIN m.text :
                    \E c \in Seen(r, "citations") \cup Seen(r, "citations of") :
                        c.message = m.id /\ c.rank = rank
    /\ \A r \in Answered({"admin_documents"}) : \A d \in Seen(r, "metadata page") :
          /\ d.files = IF d.id \in Uploads THEN 1 ELSE 0
          /\ d.chunks > 0 <=> d.status = "indexed"
    /\ \A r \in Answered({"admin_workspaces"}) : \A w \in Seen(r, "workspace page") :
          w.failed <= w.documents /\ w.files <= w.documents /\ w.plan # {}

\* Nothing leaves unrecorded: an export that was answered has its event in the
\* audit trail - and in the data, if it is an export of everything - and one
\* that is still reading has not. One that fails while the file is built
\* leaves an event without an export.
ExportsAreOnRecord ==
    \A r \in Readers :
        LET event == \E e \in db.audit_events : e.id = r IN
        /\ r \in Answered(Exports) =>
              /\ event
              /\ read[r].to = "export" => \E e \in Seen(r, "audit_events") : e.id = r
        /\ Busy(r) => (event <=> read[r].event = "committed")

=============================================================================
