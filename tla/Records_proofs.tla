--------------------------- MODULE Records_proofs ---------------------------
(***************************************************************************)
(* What a view of a workspace shows, for any number of workspaces,         *)
(* documents, exchanges, items and readers, and however many commits fall  *)
(* between its SELECTs.                                                    *)
(*                                                                         *)
(* The argument has two halves.  Commits only move the database forward    *)
(* (Older): rows stay, messages and citations never change, and a document *)
(* whose ingestion has ended stays as it is.  So a statement about what a  *)
(* reader has seen that only asks the database for such facts survives     *)
(* every commit, and a SELECT has to be looked at once, against the rows   *)
(* that are committed when it runs (DbInv).  What is still to be read is   *)
(* in the invariant as well: a document seen has its chunks, or the SELECT *)
(* of the chunks is still to come.                                         *)
(***************************************************************************)
EXTENDS Records, FiniteSetTheorems, TLAPS

-----------------------------------------------------------------------------
(* The committed rows *)

Roles == {"user", "assistant"}
JobStatus(status) == CASE status = "indexed" -> "succeeded" [] OTHER -> status
File(d) == [id |-> d, space |-> Home[d], document |-> d]

\* The documents that have a file.
Uploaded(rows) == {d \in rows : d.id \in Uploads}

\* One row for a document, with its file if it was uploaded, its job and, once indexed, its chunks.
DocumentsInv(D) ==
    /\ IsFiniteSet(D.documents)
    /\ \A d \in D.documents : /\ d.id \in Documents
                              /\ d.status \in {"processing"} \cup Outcomes
                              /\ d = Doc(d.id, d.status)
    /\ \A d, e \in D.documents : d.id = e.id => d = e
    /\ D.files = {File(d.id) : d \in Uploaded(D.documents)}
    /\ D.jobs = {Job(d.id, JobStatus(d.status)) : d \in D.documents}
    /\ D.chunks = UNION {ChunksOf(d.id) : d \in {e \in D.documents : e.status = "indexed"}}

\* A message has its other half and, if it is an answer, its citations.
MessagesInv(D) ==
    /\ IsFiniteSet(D.messages)
    /\ \A m \in D.messages :
          /\ m.id \in Exchanges \X Roles
          /\ m.space = Home[m.id[1]]
          /\ \E n \in D.messages : n.id[1] = m.id[1] /\ n.role # m.role
          /\ m.role = "assistant" =>
                \A rank \in DOMAIN m.text : \E c \in D.citations : c.message = m.id /\ c.rank = rank

DbInv(D) ==
    /\ D = [t \in Tables |-> D[t]]
    /\ DocumentsInv(D)
    /\ MessagesInv(D)
    /\ \A row \in D.review_items : row.space = Home[row.id]
    /\ \A w \in Workspaces : Own(D.subscriptions, w) # {}

\* What no commit takes back.
Older(B, D) ==
    /\ \A t \in Tables \ {"citations"} : \A b \in B[t] : \E row \in D[t] : row.id = b.id /\ row.space = b.space
    /\ B.messages \subseteq D.messages
    /\ B.citations \subseteq D.citations
    /\ \A d \in B.documents : d.status # "processing" => d \in D.documents

-----------------------------------------------------------------------------
(* What a reader has seen and has still to read *)

Rows(seen, what) == UNION {e.rows : e \in {t \in seen : t.what = what}}
RowsOf(seen, what, id) == UNION {e.rows : e \in {t \in seen : t.what = what /\ t.of = id}}
Due(todo, what) == \E s \in Range(todo) : s.what = what
DueOf(todo, what, id) == \E s \in Range(todo) : s.what = what /\ s.of = id
After(todo, a, b) == \A i \in DOMAIN todo : todo[i].what = a =>
                         \E j \in DOMAIN todo : j > i /\ todo[j].what = b

Asks == [export |-> Tables \ {"jobs"},
         documents |-> {"documents", "files of", "job of", "chunk count of"},
         chat |-> {"messages", "citations of"}, reviews |-> {"review_items"},
         admin_workspaces |-> {"workspace page"}, admin_documents |-> {"metadata page"},
         admin_jobs |-> {"job page"}, admin_audit |-> {"audit page"}]
Names == {"all"} \cup Documents \cup (Exchanges \X Roles)
Requests(kind) == [what : Asks[kind], of : Names]

\* What is still to be read, and in which order.
TodoInv(kind, todo, seen) ==
    /\ todo \in Seq(Requests(kind))
    /\ seen = {} => todo = Plan[kind]
    /\ kind = "export" => /\ After(todo, "documents", "files")
                          /\ After(todo, "documents", "chunks")
                          /\ After(todo, "messages", "citations")
    /\ kind = "documents" /\ seen # {} => ~Due(todo, "documents")
    /\ \A s \in Range(todo) :
          /\ s.what \in {"files of", "job of", "chunk count of"} =>
                \E d \in Rows(seen, "documents") : d.id = s.of
          /\ s.what = "citations of" => \E m \in Rows(seen, "messages") : m.id = s.of

\* An entry misses nothing that was there before the view was asked for ...
Complete(before, w, e) ==
    e.what \in Tables =>
        LET old == IF e.what = "citations"
                   THEN {c \in before.citations : \E m \in Own(before.messages, w) : m.id = c.message}
                   ELSE Own(before[e.what], w)
        IN  {row.id : row \in old} \subseteq {row.id : row \in e.rows}

\* ... and shows rows of its workspace only.
Mine(w, e) ==
    \A row \in e.rows : IF e.what \in {"citations", "citations of"} THEN Home[row.message[1]] = w
                        ELSE row.space = w

\* What was seen is still there, as far as it cannot change.
Still(w, seen, D) ==
    /\ \A d \in Rows(seen, "documents") :
          /\ d.space = w
          /\ d.id \in Documents
          /\ \E e \in D.documents : e.id = d.id /\ e.space = w
          /\ d.status # "processing" => d \in D.documents
    /\ Rows(seen, "messages") \subseteq Own(D.messages, w)

\* The parts of what was seen: seen as well, or still to be read.
ExportParts(r, todo, seen) ==
    /\ \A d \in Rows(seen, "documents") :
          /\ d.status = "indexed" => Due(todo, "chunks") \/ ChunksOf(d.id) \subseteq Rows(seen, "chunks")
          /\ d.id \in Uploads => Due(todo, "files") \/ \E f \in Rows(seen, "files") : f.document = d.id
    /\ Due(todo, "audit_events") \/ \E e \in Rows(seen, "audit_events") : e.id = r

ListParts(todo, seen) ==
    \A d \in Rows(seen, "documents") :
        /\ d.id \in Uploads => DueOf(todo, "files of", d.id) \/ RowsOf(seen, "files of", d.id) # {}
        /\ d.status # "processing" =>
              /\ \A j \in RowsOf(seen, "job of", d.id) : j.status = "failed" <=> d.status = "failed"
              /\ \A c \in RowsOf(seen, "chunk count of", d.id) : c.count > 0 <=> d.status = "indexed"

ChatParts(todo, seen) ==
    \A m \in Rows(seen, "messages") :
        /\ \E n \in Rows(seen, "messages") : n.id[1] = m.id[1] /\ n.role # m.role
        /\ m.role = "assistant" =>
              \A rank \in DOMAIN m.text :
                  \/ Due(todo, "citations")
                  \/ DueOf(todo, "citations of", m.id)
                  \/ \E c \in Rows(seen, "citations") \cup Rows(seen, "citations of") :
                        c.message = m.id /\ c.rank = rank

MetadataFit(d) ==
    /\ d.files = IF d.id \in Uploads THEN 1 ELSE 0
    /\ d.chunks > 0 <=> d.status = "indexed"
CountsFit(p) == p.failed <= p.documents /\ p.files <= p.documents /\ p.plan # {}

PageParts(seen) ==
    /\ \A d \in Rows(seen, "metadata page") : MetadataFit(d)
    /\ \A p \in Rows(seen, "workspace page") : CountsFit(p)

ViewInv(r, kind, w, todo, before, seen, D) ==
    /\ kind \in DOMAIN Plan
    /\ w \in Workspaces
    /\ TodoInv(kind, todo, seen)
    /\ Older(before, D)
    /\ \A e \in seen : Complete(before, w, e)
    /\ kind # "admin_workspaces" => \A e \in seen : Mine(w, e)
    /\ Still(w, seen, D)
    /\ kind = "export" => ExportParts(r, todo, seen)
    /\ kind = "documents" => ListParts(todo, seen)
    /\ kind \in {"export", "chat"} => ChatParts(todo, seen)
    /\ PageParts(seen)

BusyInv(r, k, D) ==
    /\ k = [kind |-> k.kind, space |-> k.space, todo |-> k.todo, before |-> k.before, event |-> k.event,
            own |-> k.own, seen |-> k.seen]
    /\ k.own = ExportEvent(r, k.kind, k.space)
    /\ ViewInv(r, k.kind, k.space, k.todo, k.before, k.seen, D)

ReaderInv(r, k, D) ==
    /\ k.kind \in DOMAIN Plan => BusyInv(r, k, D)
    /\ k.kind = "answered" => ViewInv(r, k.to, k.space, << >>, k.before, k.seen, D)

\* When the event of a reader is in the audit trail.
OnRecord(r, D) == \E e \in D.audit_events : e.id = r
RecordInv(r, k, D) ==
    /\ k.kind = "idle" => ~OnRecord(r, D)
    /\ k.kind \in DOMAIN Plan => (OnRecord(r, D) <=> k.event = "committed")
    /\ k.kind = "answered" /\ k.to \in Exports => OnRecord(r, D)

EventsInv == \A r \in Readers : RecordInv(r, read[r], db)

IInv ==
    /\ DbInv(db)
    /\ read = [r \in Readers |-> read[r]]
    /\ \A r \in Readers : ReaderInv(r, read[r], db)
    /\ EventsInv

-----------------------------------------------------------------------------
(* Sequences of SELECTs *)

\* What is to be read first, and what after it.
LEMMA RangeOfTail ==
    ASSUME NEW S, NEW todo \in Seq(S), todo # << >>
    PROVE  /\ Tail(todo) \in Seq(S)
           /\ Head(todo) \in S
           /\ Range(todo) = {Head(todo)} \cup Range(Tail(todo))
<1>1. Tail(todo) \in Seq(S) /\ Head(todo) \in S
  OBVIOUS
<1>2. todo[1] = Head(todo) /\ 1 \in DOMAIN todo
  OBVIOUS
<1>3. \A i \in DOMAIN Tail(todo) : i + 1 \in DOMAIN todo /\ Tail(todo)[i] = todo[i + 1]
  OBVIOUS
<1>4. \A i \in DOMAIN todo : i = 1 \/ (i - 1 \in DOMAIN Tail(todo) /\ Tail(todo)[i - 1] = todo[i])
  OBVIOUS
<1>5. Range(todo) \subseteq {Head(todo)} \cup Range(Tail(todo))
  BY <1>2, <1>4 DEF Range
<1>6. {Head(todo)} \cup Range(Tail(todo)) \subseteq Range(todo)
  BY <1>2, <1>3 DEF Range
<1> QED
  BY <1>1, <1>5, <1>6

\* What a SELECT calls for is read before the rest.
LEMMA RangeOfConcat ==
    ASSUME NEW S, NEW more \in Seq(S), NEW rest \in Seq(S)
    PROVE  /\ more \o rest \in Seq(S)
           /\ Range(more \o rest) = Range(more) \cup Range(rest)
<1>1. more \o rest \in Seq(S)
  OBVIOUS
<1>2. \A i \in DOMAIN more : i \in DOMAIN (more \o rest) /\ (more \o rest)[i] = more[i]
  OBVIOUS
<1>3. \A i \in DOMAIN rest : i + Len(more) \in DOMAIN (more \o rest) /\ (more \o rest)[i + Len(more)] = rest[i]
  OBVIOUS
<1>4. \A i \in DOMAIN (more \o rest) :
        \/ i \in DOMAIN more /\ (more \o rest)[i] = more[i]
        \/ i - Len(more) \in DOMAIN rest /\ (more \o rest)[i] = rest[i - Len(more)]
  OBVIOUS
<1> DEFINE all == more \o rest
<1> HIDE DEF all
<1>5. Range(all) \subseteq Range(more) \cup Range(rest)
  BY <1>4 DEF Range, all
<1>6. Range(more) \cup Range(rest) \subseteq Range(all)
  BY <1>2, <1>3 DEF Range, all
<1> QED
  BY <1>1, <1>5, <1>6 DEF all

\* Nothing more to read leaves the rest as it is.
LEMMA EmptyConcat ==
    ASSUME NEW S, NEW rest \in Seq(S)
    PROVE  << >> \o rest = rest
OBVIOUS

\* An order among the SELECTs to come is one among those after the next, and
\* what must follow the next one is still due.
LEMMA AfterTail ==
    ASSUME NEW S, NEW todo \in Seq(S), todo # << >>, NEW a, NEW b, After(todo, a, b)
    PROVE  /\ After(Tail(todo), a, b)
           /\ Head(todo).what = a => Due(Tail(todo), b)
<1>1. \A i \in DOMAIN Tail(todo) : i \in Nat /\ i + 1 \in DOMAIN todo /\ Tail(todo)[i] = todo[i + 1]
  OBVIOUS
<1>2. \A j \in DOMAIN todo : j > 1 => j - 1 \in DOMAIN Tail(todo) /\ Tail(todo)[j - 1] = todo[j]
  OBVIOUS
<1>3. todo[1] = Head(todo) /\ 1 \in DOMAIN todo
  OBVIOUS
<1>4. After(Tail(todo), a, b)
  <2> SUFFICES ASSUME NEW i \in DOMAIN Tail(todo), Tail(todo)[i].what = a
               PROVE  \E j \in DOMAIN Tail(todo) : j > i /\ Tail(todo)[j].what = b
    BY DEF After
  <2>1. PICK j \in DOMAIN todo : j > i + 1 /\ todo[j].what = b
    BY <1>1 DEF After
  <2>2. j \in Int /\ i \in Int
    BY <1>1
  <2>3. j - 1 > i /\ j > 1
    BY <2>1, <2>2, <1>1
  <2> QED
    BY <2>1, <2>3, <1>2
<1>5. ASSUME Head(todo).what = a PROVE Due(Tail(todo), b)
  <2>1. PICK j \in DOMAIN todo : j > 1 /\ todo[j].what = b
    BY <1>3, <1>5 DEF After
  <2> QED
    BY <2>1, <1>2 DEF Due, Range
<1> QED
  BY <1>4, <1>5

\* A set is enumerated in full.
LEMMA Enumerated ==
    ASSUME NEW rows, IsFiniteSet(rows)
    PROVE  /\ Cardinality(rows) \in Nat
           /\ SetToSeq(rows) \in [1..Cardinality(rows) -> rows]
           /\ \A row \in rows : \E n \in 1..Cardinality(rows) : SetToSeq(rows)[n] = row
<1> DEFINE n == Cardinality(rows)
<1>1. n \in Nat /\ ExistsBijection(1..n, rows)
  BY FS_CardinalityType
<1>2. \E f \in [1..n -> rows] : IsInjective(f)
  BY <1>1 DEF ExistsBijection, Bijection, Injection
<1>3. SetToSeq(rows) \in [1..n -> rows] /\ IsInjective(SetToSeq(rows))
  BY <1>2 DEF SetToSeq
<1>4. SetToSeq(rows) \in Injection(1..n, rows)
  BY <1>3 DEF Injection
<1>5. Cardinality(1..n) = n
  BY <1>1, FS_Interval
<1>6. SetToSeq(rows) \in Surjection(1..n, rows)
  BY <1>4, <1>5, FS_Injection
<1> QED
  BY <1>1, <1>3, <1>6 DEF Surjection

\* Each row calls for a SELECT of its own.
OneEach(kind, what, rows, more) ==
    /\ more \in Seq(Requests(kind))
    /\ \A s \in Range(more) : s.what = what /\ \E row \in rows : row.id = s.of
    /\ \A row \in rows : \E s \in Range(more) : s.what = what /\ s.of = row.id

LEMMA EachRow ==
    ASSUME NEW rows, IsFiniteSet(rows), NEW kind, NEW what \in Asks[kind],
           \A row \in rows : row.id \in Names
    PROVE  OneEach(kind, what, rows, Each(what, rows))
<1>1. /\ Cardinality(rows) \in Nat
      /\ \A n \in 1..Cardinality(rows) : SetToSeq(rows)[n] \in rows
      /\ \A row \in rows : \E n \in 1..Cardinality(rows) : SetToSeq(rows)[n] = row
  BY Enumerated
<1>2. Each(what, rows) \in [1..Cardinality(rows) -> Requests(kind)]
  BY <1>1 DEF Each, Requests
<1>3. Each(what, rows) \in Seq(Requests(kind))
  BY <1>1, <1>2
<1>4. DOMAIN Each(what, rows) = 1..Cardinality(rows)
  BY DEF Each
<1>5. \A n \in 1..Cardinality(rows) :
        /\ Each(what, rows)[n].what = what
        /\ Each(what, rows)[n].of = SetToSeq(rows)[n].id
  BY DEF Each
<1>6. \A s \in Range(Each(what, rows)) : s.what = what /\ \E row \in rows : row.id = s.of
  BY <1>1, <1>4, <1>5 DEF Range
<1>7. ASSUME NEW row \in rows
      PROVE  \E s \in Range(Each(what, rows)) : s.what = what /\ s.of = row.id
  <2>1. PICK n \in 1..Cardinality(rows) : SetToSeq(rows)[n] = row
    BY <1>1
  <2>2. Each(what, rows)[n] \in Range(Each(what, rows))
    BY <1>4 DEF Range
  <2> QED
    BY <1>5, <2>1, <2>2
<1> QED
  BY <1>3, <1>6, <1>7 DEF OneEach

-----------------------------------------------------------------------------
(* Commits move the database forward *)

LEMMA OlderReflexive ==
    ASSUME NEW D
    PROVE  Older(D, D)
BY DEF Older

LEMMA OlderTransitive ==
    ASSUME NEW B, NEW C, NEW D, Older(B, C), Older(C, D)
    PROVE  Older(B, D)
<1>1. ASSUME NEW t \in Tables \ {"citations"}, NEW b \in B[t]
      PROVE  \E row \in D[t] : row.id = b.id /\ row.space = b.space
  <2>1. PICK c \in C[t] : c.id = b.id /\ c.space = b.space
    BY DEF Older
  <2>2. PICK row \in D[t] : row.id = c.id /\ row.space = c.space
    BY DEF Older
  <2> QED
    BY <2>1, <2>2
<1>2. B.messages \subseteq D.messages /\ B.citations \subseteq D.citations
  BY DEF Older
<1>3. \A d \in B.documents : d.status # "processing" => d \in D.documents
  BY DEF Older
<1> QED
  BY <1>1, <1>2, <1>3 DEF Older

\* Only documents, their jobs and review items are ever replaced.
LEMMA OlderByRows ==
    ASSUME NEW B, NEW D,
           \A t \in Tables \ {"documents", "jobs", "review_items"} : B[t] \subseteq D[t],
           \A t \in {"documents", "jobs", "review_items"} :
               \A b \in B[t] : \E row \in D[t] : row.id = b.id /\ row.space = b.space,
           \A d \in B.documents : d.status # "processing" => d \in D.documents
    PROVE  Older(B, D)
<1>1. B["messages"] \subseteq D["messages"] /\ B["citations"] \subseteq D["citations"]
  BY DEF Tables
<1>2. ASSUME NEW t \in Tables \ {"citations"}, NEW b \in B[t]
      PROVE  \E row \in D[t] : row.id = b.id /\ row.space = b.space
  <2>1. CASE t \in {"documents", "jobs", "review_items"}
    BY <2>1
  <2>2. CASE t \notin {"documents", "jobs", "review_items"}
    <3>1. B[t] \subseteq D[t]
      BY <2>2
    <3> QED
      BY <3>1
  <2> QED
    BY <2>1, <2>2
<1> QED
  BY <1>1, <1>2 DEF Older

\* What a reader has seen survives every commit.
LEMMA ViewStays ==
    ASSUME NEW r, NEW kind, NEW w, NEW todo, NEW before, NEW seen, NEW D, NEW E, Older(D, E),
           ViewInv(r, kind, w, todo, before, seen, D)
    PROVE  ViewInv(r, kind, w, todo, before, seen, E)
<1>1. Older(before, E)
  BY OlderTransitive DEF ViewInv
<1>2. Still(w, seen, E)
  <2>1. Still(w, seen, D)
    BY DEF ViewInv
  <2>2. ASSUME NEW d \in Rows(seen, "documents")
        PROVE  /\ d.space = w
               /\ d.id \in Documents
               /\ \E e \in E.documents : e.id = d.id /\ e.space = w
               /\ d.status # "processing" => d \in E.documents
    <3>1. PICK e \in D.documents : e.id = d.id /\ e.space = w
      BY <2>1 DEF Still
    <3>2. \A b \in D["documents"] : \E row \in E["documents"] : row.id = b.id /\ row.space = b.space
      BY DEF Older, Tables
    <3>3. \E f \in E.documents : f.id = d.id /\ f.space = w
      BY <3>1, <3>2
    <3> QED
      BY <2>1, <3>3 DEF Still, Older
  <2>3. Rows(seen, "messages") \subseteq Own(E.messages, w)
    BY <2>1 DEF Still, Older, Own
  <2> QED
    BY <2>2, <2>3 DEF Still
<1> QED
  BY <1>1, <1>2 DEF ViewInv

LEMMA ReaderStays ==
    ASSUME NEW r, NEW k, NEW D, NEW E, Older(D, E), ReaderInv(r, k, D)
    PROVE  ReaderInv(r, k, E)
<1>1. k.kind \in DOMAIN Plan => BusyInv(r, k, E)
  BY ViewStays DEF ReaderInv, BusyInv
<1>2. k.kind = "answered" => ViewInv(r, k.to, k.space, << >>, k.before, k.seen, E)
  BY ViewStays DEF ReaderInv
<1> QED
  BY <1>1, <1>2 DEF ReaderInv

-----------------------------------------------------------------------------
(* The commits of ingestion, chat and reviews *)

\* A commit that leaves their tables alone keeps the invariants of the rows.
LEMMA MessagesSame ==
    ASSUME NEW D, NEW E, MessagesInv(D), E.messages = D.messages, E.citations = D.citations
    PROVE  MessagesInv(E)
BY DEF MessagesInv

LEMMA DocumentsSame ==
    ASSUME NEW D, NEW E, DocumentsInv(D), E.documents = D.documents, E.files = D.files,
           E.jobs = D.jobs, E.chunks = D.chunks
    PROVE  DocumentsInv(E)
BY DEF DocumentsInv

LEMMA DocumentStep ==
    ASSUME DbInv(db), NEW d \in Documents, CommitDocument(d)
    PROVE  DbInv(db') /\ Older(db, db')
<1> DEFINE new == Doc(d, "processing")
<1>1. /\ db' = [t \in Tables |-> db'[t]]
      /\ \A t \in Tables \ {"documents", "jobs", "files"} : db'[t] = db[t]
      /\ db'["documents"] = db["documents"] \cup {new}
      /\ db'["jobs"] = db["jobs"] \cup {Job(d, "processing")}
      /\ db'["files"] = db["files"] \cup FileRows(d)
  BY DEF CommitDocument, Added, Tables
<1>2. DocumentsInv(db)
  BY DEF DbInv
<1>3. /\ new.id = d /\ new.status = "processing"
      /\ \A e \in db.documents : e.id # d
  BY DEF CommitDocument, Doc
<1>4. DocumentsInv(db')
  <2>1. IsFiniteSet(db'.documents)
    BY <1>1, <1>2, FS_AddElement DEF DocumentsInv
  <2>2. ASSUME NEW e \in db'.documents
        PROVE  e.id \in Documents /\ e.status \in {"processing"} \cup Outcomes /\ e = Doc(e.id, e.status)
    BY <1>1, <1>2, <1>3 DEF DocumentsInv
  <2>3. \A e, f \in db'.documents : e.id = f.id => e = f
    BY <1>1, <1>2, <1>3 DEF DocumentsInv
  <2>4. db'.files = {File(e.id) : e \in Uploaded(db'.documents)}
    <3>1. db.files = {File(e.id) : e \in Uploaded(db.documents)}
      BY <1>2 DEF DocumentsInv
    <3>2. db'.files = db.files \cup FileRows(d) /\ db'.documents = db.documents \cup {new}
      BY <1>1
    <3>3. FileRows(d) = IF d \in Uploads THEN {File(d)} ELSE {}
      BY DEF FileRows, File
    <3> HIDE DEF new
    <3>4. CASE d \in Uploads
      <4>1. Uploaded(db'.documents) = Uploaded(db.documents) \cup {new}
        BY <3>2, <3>4, <1>3 DEF Uploaded
      <4> QED
        BY <4>1, <3>1, <3>2, <3>3, <3>4, <1>3
    <3>5. CASE d \notin Uploads
      <4>1. Uploaded(db'.documents) = Uploaded(db.documents)
        BY <3>2, <3>5, <1>3 DEF Uploaded
      <4> QED
        BY <4>1, <3>1, <3>2, <3>3, <3>5
    <3> QED
      BY <3>4, <3>5
  <2>5. db'.jobs = {Job(e.id, JobStatus(e.status)) : e \in db'.documents}
    BY <1>1, <1>2, <1>3 DEF DocumentsInv, JobStatus
  <2>6. {e \in db'.documents : e.status = "indexed"} = {e \in db.documents : e.status = "indexed"}
    BY <1>1, <1>3
  <2>7. db'.chunks = UNION {ChunksOf(e.id) : e \in {f \in db'.documents : f.status = "indexed"}}
    BY <1>1, <1>2, <2>6 DEF DocumentsInv, Tables
  <2> QED
    BY <2>1, <2>2, <2>3, <2>4, <2>5, <2>7 DEF DocumentsInv
<1>5. db'.messages = db.messages /\ db'.citations = db.citations /\ db'.subscriptions = db.subscriptions
  BY <1>1 DEF Tables
<1>6. MessagesInv(db')
  <2>1. MessagesInv(db)
    BY DEF DbInv
  <2> QED
    BY <1>5, <2>1, MessagesSame
<1>7. Older(db, db')
  <2>1. \A t \in Tables : db[t] \subseteq db'[t]
    BY <1>1 DEF Tables
  <2> QED
    BY <2>1 DEF Older, Tables
<1>8. db'.review_items = db.review_items
  BY <1>1 DEF Tables
<1> QED
  BY <1>1, <1>4, <1>5, <1>6, <1>7, <1>8 DEF DbInv

LEMMA OutcomeStep ==
    ASSUME DbInv(db), NEW d \in Documents, NEW status \in Outcomes, CommitOutcome(d, status)
    PROVE  DbInv(db') /\ Older(db, db')
<1> DEFINE old == Doc(d, "processing")
           new == Doc(d, status)
           oldJob == Job(d, "processing")
           newJob == Job(d, JobStatus(status))
<1>1. /\ db' = [t \in Tables |-> db'[t]]
      /\ \A t \in Tables \ {"documents", "jobs", "chunks", "usage_events"} : db'[t] = db[t]
      /\ db["usage_events"] \subseteq db'["usage_events"]
      /\ db'["documents"] = (db["documents"] \ {old}) \cup {new}
      /\ db'["jobs"] = (db["jobs"] \ {oldJob}) \cup {newJob}
      /\ db'["chunks"] = db["chunks"] \cup IF status = "indexed" THEN ChunksOf(d) ELSE {}
  <2>1. newJob = Job(d, IF status = "indexed" THEN "succeeded" ELSE "failed")
    BY DEF JobStatus, Outcomes
  <2> DEFINE chunks == IF status = "indexed" THEN ChunksOf(d) ELSE {}
             events == IF status = "indexed" THEN {Row(d)} ELSE {}
             base == Added([chunks |-> chunks, usage_events |-> events])
  <2>2. db' = [base EXCEPT !.documents = (@ \ {old}) \cup {new}, !.jobs = (@ \ {oldJob}) \cup {newJob}]
    BY <2>1 DEF CommitOutcome
  <2> HIDE DEF chunks, events
  <2>3. /\ base = [t \in Tables |-> base[t]]
        /\ \A t \in Tables \ {"chunks", "usage_events"} : base[t] = db[t]
        /\ base["chunks"] = db["chunks"] \cup chunks
        /\ base["usage_events"] = db["usage_events"] \cup events
    BY DEF Added, Tables
  <2> HIDE DEF base, old, new, oldJob, newJob
  <2>4. /\ db' = [t \in Tables |-> db'[t]]
        /\ \A t \in Tables \ {"documents", "jobs"} : db'[t] = base[t]
        /\ db'["documents"] = (base["documents"] \ {old}) \cup {new}
        /\ db'["jobs"] = (base["jobs"] \ {oldJob}) \cup {newJob}
    BY <2>2, <2>3 DEF Tables
  <2> QED
    BY <2>3, <2>4 DEF Tables, chunks
<1>2. DocumentsInv(db) /\ old \in db.documents
  BY DEF DbInv, CommitOutcome
<1>3. /\ old.id = d /\ old.status = "processing" /\ old.space = Home[d]
      /\ new.id = d /\ new.status = status /\ new.space = Home[d] /\ status \in {"indexed", "failed"}
      /\ \A e \in db.documents \ {old} : e.id # d
  BY <1>2 DEF Doc, DocumentsInv, Outcomes
<1>4. db'.documents = (db.documents \ {old}) \cup {new}
  BY <1>1
<1>5. DocumentsInv(db')
  <2>1. IsFiniteSet(db'.documents)
    <3>1. IsFiniteSet(db.documents)
      BY <1>2 DEF DocumentsInv
    <3>2. IsFiniteSet(db.documents \ {old})
      BY <3>1, FS_RemoveElement
    <3> HIDE DEF old, new
    <3>3. IsFiniteSet((db.documents \ {old}) \cup {new})
      BY <3>2, FS_AddElement
    <3> QED
      BY <3>3, <1>4
  <2>2. ASSUME NEW e \in db'.documents
        PROVE  e.id \in Documents /\ e.status \in {"processing"} \cup Outcomes /\ e = Doc(e.id, e.status)
    BY <1>4, <1>2, <1>3 DEF DocumentsInv
  <2>3. \A e, f \in db'.documents : e.id = f.id => e = f
    BY <1>4, <1>2, <1>3 DEF DocumentsInv
  <2>4. db'.files = {File(e.id) : e \in Uploaded(db'.documents)}
    <3>1. db'.files = db.files
      BY <1>1 DEF Tables
    <3>2. db.files = {File(e.id) : e \in Uploaded(db.documents)}
      BY <1>2 DEF DocumentsInv
    <3> HIDE DEF old, new
    <3>3. {File(e.id) : e \in Uploaded(db'.documents)} = {File(e.id) : e \in Uploaded(db.documents)}
      <4>1. ASSUME NEW e \in Uploaded(db'.documents) PROVE \E g \in Uploaded(db.documents) : g.id = e.id
        BY <1>2, <1>3, <1>4 DEF Uploaded
      <4>2. ASSUME NEW e \in Uploaded(db.documents) PROVE \E g \in Uploaded(db'.documents) : g.id = e.id
        BY <1>2, <1>3, <1>4 DEF Uploaded
      <4> QED
        BY <4>1, <4>2
    <3> QED
      BY <3>1, <3>2, <3>3
  <2>5. db'.jobs = {Job(e.id, JobStatus(e.status)) : e \in db'.documents}
    <3>1. db.jobs = {Job(e.id, JobStatus(e.status)) : e \in db.documents}
      BY <1>2 DEF DocumentsInv
    <3>2. Job(old.id, JobStatus(old.status)) = oldJob /\ Job(new.id, JobStatus(new.status)) = newJob
      BY <1>3 DEF JobStatus
    <3>3. \A e \in db.documents \ {old} : Job(e.id, JobStatus(e.status)) # oldJob
      BY <1>3 DEF Job
    <3>4. db'.jobs = (db.jobs \ {oldJob}) \cup {newJob}
      BY <1>1
    <3> HIDE DEF old, new, oldJob, newJob
    <3> QED
      BY <3>1, <3>2, <3>3, <3>4, <1>2, <1>4
  <2>6. db'.chunks = UNION {ChunksOf(e.id) : e \in {f \in db'.documents : f.status = "indexed"}}
    <3>1. db.chunks = UNION {ChunksOf(e.id) : e \in {f \in db.documents : f.status = "indexed"}}
      BY <1>2 DEF DocumentsInv
    <3>2. db'.chunks = db.chunks \cup IF status = "indexed" THEN ChunksOf(d) ELSE {}
      BY <1>1
    <3> HIDE DEF old, new
    <3>3. CASE status = "indexed"
      <4>1. {f \in db'.documents : f.status = "indexed"} = {f \in db.documents : f.status = "indexed"} \cup {new}
        BY <1>3, <1>4, <3>3
      <4> QED
        BY <4>1, <3>1, <3>2, <3>3, <1>3
    <3>4. CASE status # "indexed"
      <4>1. {f \in db'.documents : f.status = "indexed"} = {f \in db.documents : f.status = "indexed"}
        BY <1>3, <1>4, <3>4
      <4> QED
        BY <4>1, <3>1, <3>2, <3>4
    <3> QED
      BY <3>3, <3>4
  <2> QED
    BY <2>1, <2>2, <2>3, <2>4, <2>5, <2>6 DEF DocumentsInv
<1>6. db'.messages = db.messages /\ db'.citations = db.citations /\ db'.subscriptions = db.subscriptions
  BY <1>1 DEF Tables
<1>7. MessagesInv(db')
  <2>1. MessagesInv(db)
    BY DEF DbInv
  <2> QED
    BY <1>6, <2>1, MessagesSame
<1>8. Older(db, db')
  <2>1. ASSUME NEW t \in Tables \ {"documents", "jobs", "review_items"} PROVE db[t] \subseteq db'[t]
    BY <1>1 DEF Tables
  <2>2. ASSUME NEW t \in {"documents", "jobs", "review_items"}, NEW b \in db[t]
        PROVE  \E row \in db'[t] : row.id = b.id /\ row.space = b.space
    <3>1. CASE t = "documents"
      BY <3>1, <1>1, <1>3
    <3>2. CASE t = "jobs"
      <4>1. oldJob.id = newJob.id /\ oldJob.space = newJob.space
        BY DEF Job
      <4> HIDE DEF oldJob, newJob
      <4> QED
        BY <3>2, <4>1, <1>1
    <3>3. CASE t = "review_items"
      BY <3>3, <1>1 DEF Tables
    <3> QED
      BY <3>1, <3>2, <3>3
  <2>3. \A e \in db.documents : e.status # "processing" => e \in db'.documents
    BY <1>3, <1>4
  <2> QED
    BY <2>1, <2>2, <2>3, OlderByRows
<1>9. db'.review_items = db.review_items
  BY <1>1 DEF Tables
<1> QED
  BY <1>1, <1>5, <1>6, <1>7, <1>8, <1>9 DEF DbInv

LEMMA ReviewStep ==
    ASSUME DbInv(db), NEW i \in Items, CommitReview(i)
    PROVE  /\ DbInv(db') /\ Older(db, db')
           /\ \A e \in db'.audit_events : e \in db.audit_events \/ e.id \in Items \X {"pending", "approved"}
<1>1. PICK status \in {"pending", "approved"} :
        db' = [db EXCEPT !.review_items = (@ \ {row \in db.review_items : row.id = i})
                                            \cup {[id |-> i, space |-> Home[i], status |-> status]},
                         !.audit_events = @ \cup {[id |-> << i, status >>, space |-> Home[i]]}]
  BY DEF CommitReview
<1> DEFINE event == [id |-> << i, status >>, space |-> Home[i]]
           item == [id |-> i, space |-> Home[i], status |-> status]
           old == {row \in db.review_items : row.id = i}
<1>2. db = [t \in Tables |-> db[t]]
  BY DEF DbInv
<1>3. /\ db' = [t \in Tables |-> db'[t]]
      /\ \A t \in Tables \ {"review_items", "audit_events"} : db'[t] = db[t]
      /\ db'["audit_events"] = db["audit_events"] \cup {event}
      /\ db'["review_items"] = (db["review_items"] \ old) \cup {item}
  BY <1>1, <1>2 DEF Tables
<1>4. DocumentsInv(db')
  <2>1. db'.documents = db.documents /\ db'.files = db.files /\ db'.jobs = db.jobs /\ db'.chunks = db.chunks
    BY <1>3 DEF Tables
  <2>2. DocumentsInv(db)
    BY DEF DbInv
  <2> QED
    BY <2>1, <2>2, DocumentsSame
<1>5. db'.messages = db.messages /\ db'.citations = db.citations /\ db'.subscriptions = db.subscriptions
  BY <1>3 DEF Tables
<1>6. MessagesInv(db')
  <2>1. MessagesInv(db)
    BY DEF DbInv
  <2> QED
    BY <1>5, <2>1, MessagesSame
<1>7. Older(db, db')
  <2>1. ASSUME NEW t \in Tables \ {"documents", "jobs", "review_items"} PROVE db[t] \subseteq db'[t]
    BY <1>3 DEF Tables
  <2>2. ASSUME NEW t \in {"documents", "jobs", "review_items"}, NEW b \in db[t]
        PROVE  \E row \in db'[t] : row.id = b.id /\ row.space = b.space
    <3>1. CASE t = "review_items" /\ b \in old
      <4>1. item \in db'[t] /\ item.id = b.id /\ item.space = b.space
        BY <3>1, <1>3 DEF DbInv
      <4> QED
        BY <4>1
    <3>2. CASE t = "review_items" /\ b \notin old
      BY <3>2, <1>3
    <3>3. CASE t # "review_items"
      <4>1. db'[t] = db[t]
        BY <3>3, <1>3 DEF Tables
      <4> QED
        BY <4>1
    <3> QED
      BY <3>1, <3>2, <3>3
  <2>3. \A e \in db.documents : e.status # "processing" => e \in db'.documents
    BY <1>3 DEF Tables
  <2> QED
    BY <2>1, <2>2, <2>3, OlderByRows
<1>8. \A e \in db'.audit_events : e \in db.audit_events \/ e.id \in Items \X {"pending", "approved"}
  BY <1>3
<1>9. \A row \in db'.review_items : row.space = Home[row.id]
  BY <1>3 DEF DbInv
<1> QED
  BY <1>3, <1>4, <1>5, <1>6, <1>7, <1>8, <1>9 DEF DbInv

LEMMA AnswerStep ==
    ASSUME DbInv(db), NEW x \in Exchanges, Answer(x)
    PROVE  DbInv(db') /\ Older(db, db')
<1>1. PICK text \in Texts :
        db' = Added([messages |-> {Message(x, "user"),
                                   [id |-> << x, "assistant" >>, space |-> Home[x], role |-> "assistant",
                                    text |-> text, sources |-> Sources(Home[x])]},
                     citations |-> {[id |-> << x, rank >>, message |-> << x, "assistant" >>, rank |-> rank,
                                     chunk |-> Sources(Home[x])[text[rank]]] : rank \in DOMAIN text},
                     usage_events |-> {Row(x)}])
  BY DEF Answer
<1> DEFINE question == Message(x, "user")
           answer == [id |-> << x, "assistant" >>, space |-> Home[x], role |-> "assistant",
                      text |-> text, sources |-> Sources(Home[x])]
           cited == {[id |-> << x, rank >>, message |-> << x, "assistant" >>, rank |-> rank,
                      chunk |-> Sources(Home[x])[text[rank]]] : rank \in DOMAIN text}
<1>2. /\ question.id = << x, "user" >> /\ question.space = Home[x] /\ question.role = "user"
      /\ answer.id = << x, "assistant" >> /\ answer.space = Home[x] /\ answer.role = "assistant"
      /\ answer.text = text
  BY DEF Message
<1>3. ASSUME NEW rank \in DOMAIN text
      PROVE  \E c \in cited : c.message = << x, "assistant" >> /\ c.rank = rank
  <2> DEFINE c == [id |-> << x, rank >>, message |-> << x, "assistant" >>, rank |-> rank,
                   chunk |-> Sources(Home[x])[text[rank]]]
  <2>1. c \in cited
    OBVIOUS
  <2>2. c.message = << x, "assistant" >> /\ c.rank = rank
    OBVIOUS
  <2> QED
    BY <2>1, <2>2
<1>4. db' = Added([messages |-> {question, answer}, citations |-> cited, usage_events |-> {Row(x)}])
  BY <1>1
<1> HIDE DEF question, answer, cited
<1>5. /\ db' = [t \in Tables |-> db'[t]]
      /\ \A t \in Tables \ {"messages", "citations", "usage_events"} : db'[t] = db[t]
      /\ db'["messages"] = db["messages"] \cup {question, answer}
      /\ db'["citations"] = db["citations"] \cup cited
      /\ db["usage_events"] \subseteq db'["usage_events"]
  BY <1>4 DEF Added, Tables
<1>6. MessagesInv(db)
  BY DEF DbInv
<1>7. MessagesInv(db')
  <2>1. IsFiniteSet(db'.messages)
    <3>1. IsFiniteSet(db.messages)
      BY <1>6 DEF MessagesInv
    <3>2. IsFiniteSet(db.messages \cup {question})
      BY <3>1, FS_AddElement
    <3>3. IsFiniteSet((db.messages \cup {question}) \cup {answer})
      BY <3>2, FS_AddElement
    <3>4. db'.messages = (db.messages \cup {question}) \cup {answer}
      BY <1>5
    <3> QED
      BY <3>3, <3>4
  <2>2. ASSUME NEW m \in db'.messages
        PROVE  /\ m.id \in Exchanges \X Roles
               /\ m.space = Home[m.id[1]]
               /\ \E n \in db'.messages : n.id[1] = m.id[1] /\ n.role # m.role
               /\ m.role = "assistant" =>
                     \A rank \in DOMAIN m.text : \E c \in db'.citations : c.message = m.id /\ c.rank = rank
    <3>1. CASE m \in db.messages
      BY <3>1, <1>5, <1>6 DEF MessagesInv
    <3>2. CASE m = question
      <4>1. answer \in db'.messages /\ answer.id[1] = m.id[1] /\ answer.role # m.role
        BY <3>2, <1>2, <1>5
      <4> QED
        BY <4>1, <3>2, <1>2 DEF Roles
    <3>3. CASE m = answer
      <4>1. question \in db'.messages /\ question.id[1] = m.id[1] /\ question.role # m.role
        BY <3>3, <1>2, <1>5
      <4>2. \A rank \in DOMAIN m.text : \E c \in db'.citations : c.message = m.id /\ c.rank = rank
        BY <3>3, <1>2, <1>3, <1>5
      <4> QED
        BY <4>1, <4>2, <3>3, <1>2 DEF Roles
    <3> QED
      BY <3>1, <3>2, <3>3, <1>5
  <2> QED
    BY <2>1, <2>2 DEF MessagesInv
<1>8. DocumentsInv(db')
  <2>1. db'.documents = db.documents /\ db'.files = db.files /\ db'.jobs = db.jobs /\ db'.chunks = db.chunks
    BY <1>5 DEF Tables
  <2>2. DocumentsInv(db)
    BY DEF DbInv
  <2> QED
    BY <2>1, <2>2, DocumentsSame
<1>9. Older(db, db')
  <2>1. \A t \in Tables : db[t] \subseteq db'[t]
    BY <1>5 DEF Tables
  <2> QED
    BY <2>1 DEF Older, Tables
<1>10. db'.review_items = db.review_items /\ db'.subscriptions = db.subscriptions
  BY <1>5 DEF Tables
<1> QED
  BY <1>5, <1>7, <1>8, <1>9, <1>10 DEF DbInv

\* An export that answers adds its event and nothing else.
LEMMA EventStep ==
    ASSUME DbInv(db), NEW event, db' = [db EXCEPT !.audit_events = @ \cup event]
    PROVE  DbInv(db') /\ Older(db, db') /\ db'.audit_events = db.audit_events \cup event
<1>1. db = [t \in Tables |-> db[t]]
  BY DEF DbInv
<1>2. /\ db' = [t \in Tables |-> db'[t]]
      /\ \A t \in Tables \ {"audit_events"} : db'[t] = db[t]
      /\ db'["audit_events"] = db["audit_events"] \cup event
  BY <1>1 DEF Tables
<1>3. /\ db'.documents = db.documents /\ db'.files = db.files /\ db'.jobs = db.jobs /\ db'.chunks = db.chunks
      /\ db'.messages = db.messages /\ db'.citations = db.citations
      /\ db'.review_items = db.review_items /\ db'.subscriptions = db.subscriptions
  BY <1>2 DEF Tables
<1>4. DocumentsInv(db) /\ MessagesInv(db)
  BY DEF DbInv
<1>5. DocumentsInv(db') /\ MessagesInv(db')
  BY <1>3, <1>4, DocumentsSame, MessagesSame
<1>6. Older(db, db')
  <2>1. \A t \in Tables : db[t] \subseteq db'[t]
    BY <1>2 DEF Tables
  <2> QED
    BY <2>1 DEF Older, Tables
<1> QED
  BY <1>2, <1>3, <1>5, <1>6 DEF DbInv

-----------------------------------------------------------------------------
(* The SELECTs *)

Kinds == {"export", "documents", "chat", "reviews", "admin_workspaces", "admin_documents",
          "admin_jobs", "admin_audit"}
Fetched(r, kind, w, s) == Select(w, s) \cup IF s.what = "audit_events" THEN ExportEvent(r, kind, w) ELSE {}
Entry(r, kind, w, s) == [what |-> s.what, of |-> s.of, rows |-> Fetched(r, kind, w, s)]

LEMMA KindsOfViews == DOMAIN Plan = Kinds
BY DEF Plan, Kinds

\* Which SELECTs a view makes.
LEMMA AsksOfKinds ==
    /\ Asks["export"] = Tables \ {"jobs"}
    /\ Asks["documents"] = {"documents", "files of", "job of", "chunk count of"}
    /\ Asks["chat"] = {"messages", "citations of"}
    /\ Asks["reviews"] = {"review_items"}
    /\ Asks["admin_workspaces"] = {"workspace page"}
    /\ Asks["admin_documents"] = {"metadata page"}
    /\ Asks["admin_jobs"] = {"job page"}
    /\ Asks["admin_audit"] = {"audit page"}
BY DEF Asks

LEMMA SelectTable ==
    ASSUME NEW w, NEW s, s.what \in Tables \ {"citations", "jobs"}
    PROVE  Select(w, s) = Own(db[s.what], w)
<1>1. CASE s.what = "members"
  BY <1>1 DEF Select, MembersPayload
<1>2. CASE s.what = "documents"
  BY <1>2 DEF Select, DocumentsPayload
<1>3. CASE s.what = "files"
  BY <1>3 DEF Select, FilesPayload
<1>4. CASE s.what = "chunks"
  BY <1>4 DEF Select, ChunksPayload
<1>5. CASE s.what = "messages"
  BY <1>5 DEF Select, ConversationsPayload
<1>6. CASE s.what = "review_items"
  BY <1>6 DEF Select, ReviewItemsPayload
<1>7. CASE s.what = "audit_events"
  BY <1>7 DEF Select, AuditEventsPayload
<1>8. CASE s.what = "usage_events"
  BY <1>8 DEF Select, UsageEventsPayload
<1>9. CASE s.what = "subscriptions"
  BY <1>9 DEF Select, SubscriptionPayload
<1> QED
  BY <1>1, <1>2, <1>3, <1>4, <1>5, <1>6, <1>7, <1>8, <1>9 DEF Tables

\* What a SELECT calls for: each document of the list its files, then its job,
\* then its chunks, each message its citations; nothing else.
CallsFor(kind, s, rows, more) ==
    /\ more \in Seq(Requests(kind))
    /\ kind \notin {"documents", "chat"} => more = << >>
    /\ \A t \in Range(more) :
          /\ t.what # "documents"
          /\ t.what \in {"files of", "job of", "chunk count of"} =>
                \/ s.what = "documents" /\ \E row \in rows : row.id = t.of
                \/ s.what \in {"files of", "job of"} /\ t.of = s.of
          /\ t.what = "citations of" => s.what = "messages" /\ \E row \in rows : row.id = t.of
    /\ kind = "documents" /\ s.what = "documents" =>
          \A row \in rows : DueOf(more, "files of", row.id)
    /\ kind = "chat" /\ s.what = "messages" =>
          \A row \in rows : DueOf(more, "citations of", row.id)

\* Only the list reads documents one by one, and only it calls for more than
\* the rows of a chat's messages do.
LEMMA NoFollowUpElsewhere ==
    ASSUME NEW kind \in DOMAIN Plan, kind # "documents"
    PROVE  "files of" \notin Asks[kind] /\ "job of" \notin Asks[kind] /\ "chunk count of" \notin Asks[kind]
<1>1. CASE kind = "export"
  BY <1>1, AsksOfKinds DEF Tables
<1>2. CASE kind = "chat"
  BY <1>2, AsksOfKinds
<1>3. CASE kind \in {"reviews", "admin_workspaces", "admin_documents", "admin_jobs", "admin_audit"}
  BY <1>3, AsksOfKinds
<1> QED
  BY <1>1, <1>2, <1>3, KindsOfViews DEF Kinds

LEMMA FollowUps ==
    ASSUME DbInv(db), NEW kind \in DOMAIN Plan, NEW w, NEW s \in Requests(kind), NEW rows,
           s.what \in {"documents", "messages"} => rows = Own(db[s.what], w)
    PROVE  CallsFor(kind, s, rows, Follow(kind, s, rows))
<1>1. s.what \in Asks[kind] /\ s.of \in Names
  BY DEF Requests
<1>2. /\ IsFiniteSet(db["documents"])
      /\ \A d \in db["documents"] : d.id \in Names
  BY DEF DbInv, DocumentsInv, Names
<1>3. /\ IsFiniteSet(db["messages"])
      /\ \A m \in db["messages"] : m.id \in Names
  BY DEF DbInv, MessagesInv, Names
<1>4. CASE kind = "documents" /\ s.what = "documents"
  <2>1. Follow(kind, s, rows) = Each("files of", rows)
    BY <1>4 DEF Follow
  <2>2. rows \in SUBSET db["documents"]
    BY <1>4 DEF Own
  <2>3. IsFiniteSet(rows) /\ \A row \in rows : row.id \in Names
    BY <2>2, <1>2, FS_Subset
  <2>4. "files of" \in Asks[kind]
    BY <1>4, AsksOfKinds
  <2>5. OneEach(kind, "files of", rows, Each("files of", rows))
    BY <2>3, <2>4, EachRow
  <2>6. CallsFor(kind, s, rows, Each("files of", rows))
    BY <2>5, <1>4 DEF DueOf, CallsFor, OneEach
  <2> QED
    BY <2>1, <2>6
<1>5. CASE kind = "chat" /\ s.what = "messages"
  <2>1. Follow(kind, s, rows) = Each("citations of", rows)
    BY <1>5 DEF Follow
  <2>2. rows \in SUBSET db["messages"]
    BY <1>5 DEF Own
  <2>3. IsFiniteSet(rows) /\ \A row \in rows : row.id \in Names
    BY <2>2, <1>3, FS_Subset
  <2>4. "citations of" \in Asks[kind]
    BY <1>5, AsksOfKinds
  <2>5. OneEach(kind, "citations of", rows, Each("citations of", rows))
    BY <2>3, <2>4, EachRow
  <2>6. CallsFor(kind, s, rows, Each("citations of", rows))
    BY <2>5, <1>5 DEF DueOf, CallsFor, OneEach
  <2> QED
    BY <2>1, <2>6
<1>6. CASE kind = "documents" /\ s.what \in {"files of", "job of"}
  <2> DEFINE next == [what |-> IF s.what = "files of" THEN "job of" ELSE "chunk count of", of |-> s.of]
  <2>1. Follow(kind, s, rows) = << next >>
    BY <1>6 DEF Follow
  <2>2. next.what \in Asks[kind] /\ next.what \in {"job of", "chunk count of"} /\ next.of = s.of
    BY <1>6, AsksOfKinds
  <2>3. next \in Requests(kind)
    BY <2>2, <1>1 DEF Requests
  <2> HIDE DEF next
  <2>4. Range(<< next >>) = {next} /\ << next >> \in Seq(Requests(kind))
    BY <2>3 DEF Range
  <2>5. CallsFor(kind, s, rows, << next >>)
    BY <2>2, <2>4, <1>6 DEF CallsFor
  <2> QED
    BY <2>1, <2>5
<1>7. CASE /\ ~(kind = "documents" /\ s.what \in {"documents", "files of", "job of"})
           /\ ~(kind = "chat" /\ s.what = "messages")
  <2>1. s.what \notin {"files of", "job of"}
    BY <1>7, <1>1, NoFollowUpElsewhere
  <2>2. Follow(kind, s, rows) = << >>
    BY <1>7, <2>1 DEF Follow
  <2>3. << >> \in Seq(Requests(kind)) /\ Range(<< >>) = {}
    BY DEF Range
  <2>4. CallsFor(kind, s, rows, << >>)
    BY <2>3, <1>7 DEF CallsFor
  <2> QED
    BY <2>2, <2>4
<1> QED
  BY <1>4, <1>5, <1>6, <1>7

-----------------------------------------------------------------------------
(* The entry of a SELECT *)

\* Every SELECT of a view is one of these.
LEMMA WhatIsAsked ==
    ASSUME NEW kind \in DOMAIN Plan, NEW what \in Asks[kind]
    PROVE  \/ what \in Tables \ {"citations", "jobs"}
           \/ what = "citations"
           \/ what \in {"files of", "job of", "chunk count of"}
           \/ what = "citations of"
           \/ what = "workspace page" /\ kind = "admin_workspaces"
           \/ what \in {"metadata page", "job page", "audit page"}
<1>1. CASE kind = "export"
  BY <1>1, AsksOfKinds
<1>2. CASE kind = "documents"
  BY <1>2, AsksOfKinds DEF Tables
<1>3. CASE kind = "chat"
  BY <1>3, AsksOfKinds DEF Tables
<1>4. CASE kind = "reviews"
  BY <1>4, AsksOfKinds DEF Tables
<1>5. CASE kind \in {"admin_workspaces", "admin_documents", "admin_jobs", "admin_audit"}
  BY <1>5, AsksOfKinds
<1> QED
  BY <1>1, <1>2, <1>3, <1>4, <1>5, KindsOfViews DEF Kinds

\* What was committed before the view was asked for is among the rows.
LEMMA CompleteStep ==
    ASSUME NEW before, Older(before, db), NEW w, NEW s, s.what # "jobs",
           NEW e, e.what = s.what, Select(w, s) \subseteq e.rows
    PROVE  Complete(before, w, e)
<1>1. CASE s.what = "citations"
  <2>1. \A c \in before.citations : (\E m \in Own(before.messages, w) : m.id = c.message) => c \in CitationsPayload(w)
    BY DEF Older, Own, CitationsPayload
  <2>2. CitationsPayload(w) \subseteq e.rows
    BY <1>1 DEF Select
  <2> QED
    BY <1>1, <2>1, <2>2 DEF Complete
<1>2. CASE s.what \in Tables \ {"citations", "jobs"}
  <2>1. Own(db[s.what], w) \subseteq e.rows
    BY <1>2, SelectTable
  <2>2. ASSUME NEW b \in Own(before[s.what], w)
        PROVE  \E row \in e.rows : row.id = b.id
    <3>1. b \in before[s.what] /\ b.space = w
      BY DEF Own
    <3>2. PICK row \in db[s.what] : row.id = b.id /\ row.space = b.space
      BY <1>2, <3>1 DEF Older
    <3> QED
      BY <2>1, <3>1, <3>2 DEF Own
  <2> QED
    BY <1>2, <2>2 DEF Complete
<1>3. CASE s.what \notin Tables
  BY <1>3 DEF Complete
<1> QED
  BY <1>1, <1>2, <1>3

\* Its rows are of the workspace, if what it is about is.
Within(w, s) ==
    /\ s.what \in {"files of", "job of"} => Home[s.of] = w
    /\ s.what = "citations of" => Home[s.of[1]] = w

LEMMA MineStep ==
    ASSUME DbInv(db), NEW r, NEW kind \in DOMAIN Plan, kind # "admin_workspaces", NEW w,
           NEW s \in Requests(kind), Within(w, s)
    PROVE  Mine(w, Entry(r, kind, w, s))
<1> DEFINE rows == Fetched(r, kind, w, s)
<1>1. s.what \in Asks[kind]
  BY DEF Requests
<1>2. DocumentsInv(db) /\ MessagesInv(db)
  BY DEF DbInv
<1>d. /\ \A f \in db.files : f.space = Home[f.document]
      /\ \A j \in db.jobs : j.space = Home[j.document]
  <2>1. /\ db.files = {File(d.id) : d \in Uploaded(db.documents)}
        /\ db.jobs = {Job(d.id, JobStatus(d.status)) : d \in db.documents}
    BY <1>2 DEF DocumentsInv
  <2>2. ASSUME NEW f \in db.files PROVE f.space = Home[f.document]
    <3>1. PICK d \in Uploaded(db.documents) : f = File(d.id)
      BY <2>1
    <3> QED
      BY <3>1 DEF File
  <2>3. ASSUME NEW j \in db.jobs PROVE j.space = Home[j.document]
    <3>1. PICK d \in db.documents : j = Job(d.id, JobStatus(d.status))
      BY <2>1
    <3> QED
      BY <3>1 DEF Job
  <2> QED
    BY <2>2, <2>3
<1>a. /\ Entry(r, kind, w, s).what = s.what
      /\ Entry(r, kind, w, s).rows = rows
  BY DEF Entry
<1> HIDE DEF rows
<1>b. ASSUME s.what # "citations", s.what # "citations of", \A row \in rows : row.space = w
      PROVE  Mine(w, Entry(r, kind, w, s))
  BY <1>a, <1>b DEF Mine
<1>c. ASSUME s.what \in {"citations", "citations of"}, \A row \in rows : Home[row.message[1]] = w
      PROVE  Mine(w, Entry(r, kind, w, s))
  BY <1>a, <1>c DEF Mine
<1>3. CASE s.what \in Tables \ {"citations", "jobs"}
  <2>1. Select(w, s) = Own(db[s.what], w)
    BY <1>3, SelectTable
  <2>2. \A row \in ExportEvent(r, kind, w) : row.space = w
    BY DEF ExportEvent
  <2>3. \A row \in rows : row.space = w
    BY <2>1, <2>2 DEF Fetched, Own, rows
  <2>4. s.what # "citations of" /\ s.what # "citations"
    BY <1>3 DEF Tables
  <2> QED
    BY <2>3, <2>4, <1>b
<1>4. CASE s.what \notin Tables \ {"citations", "jobs"}
  <2>1. rows = Select(w, s)
    BY <1>4 DEF Fetched, Tables, rows
  <2>2. CASE s.what = "citations"
    <3>0. Select(w, s) = CitationsPayload(w)
      BY <2>2 DEF Select
    <3>1. \A row \in rows : \E m \in db.messages : m.id = row.message /\ m.space = w
      BY <2>1, <3>0 DEF CitationsPayload
    <3>2. \A row \in rows : Home[row.message[1]] = w
      BY <3>1, <1>2 DEF MessagesInv
    <3> QED
      BY <3>2, <2>2, <1>c
  <2>3. CASE s.what = "files of"
    <3>0. Select(w, s) = FilesOf(s.of)
      BY <2>3 DEF Select
    <3>1. \A row \in rows : row \in db.files /\ row.document = s.of
      BY <2>1, <3>0 DEF FilesOf
    <3>2. \A row \in rows : row.space = w
      BY <3>1, <1>d, <2>3 DEF Within
    <3> QED
      BY <3>2, <2>3, <1>b
  <2>4. CASE s.what = "job of"
    <3>0. Select(w, s) = LatestJob(s.of)
      BY <2>4 DEF Select
    <3>1. \A row \in rows : row \in db.jobs /\ row.document = s.of
      BY <2>1, <3>0 DEF LatestJob
    <3>2. \A row \in rows : row.space = w
      BY <3>1, <1>d, <2>4 DEF Within
    <3> QED
      BY <3>2, <2>4, <1>b
  <2>5. CASE s.what = "chunk count of"
    <3>0. Select(w, s) = {[id |-> s.of, space |-> w, count |-> ChunkCount(s.of)]}
      BY <2>5 DEF Select
    <3>1. ASSUME NEW row \in rows PROVE row.space = w
      <4>1. PICK o : row = [id |-> o, space |-> w, count |-> ChunkCount(o)]
        BY <2>1, <3>0
      <4> QED
        BY <4>1
    <3> QED
      BY <3>1, <2>5, <1>b
  <2>6. CASE s.what = "citations of"
    <3>0. Select(w, s) = {c \in db.citations : c.message = s.of}
      BY <2>6 DEF Select
    <3>1. ASSUME NEW row \in rows PROVE Home[row.message[1]] = w
      <4>1. row.message = s.of
        BY <2>1, <3>0
      <4> QED
        BY <4>1, <2>6 DEF Within
    <3> QED
      BY <3>1, <2>6, <1>c
  <2>7. CASE s.what = "metadata page"
    <3>0. Select(w, s) = MetadataPage(w)
      BY <2>7 DEF Select
    <3>1. ASSUME NEW row \in rows PROVE row.space = w
      <4>1. PICK d \in Own(db.documents, w) :
              row = [id |-> d.id, space |-> w, status |-> d.status, files |-> Cardinality(FilesOf(d.id)),
                     chunks |-> ChunkCount(d.id)]
        BY <2>1, <3>0 DEF MetadataPage
      <4> QED
        BY <4>1
    <3> QED
      BY <3>1, <2>7, <1>b
  <2>8. CASE s.what = "job page"
    <3>0. Select(w, s) = JobPage(w)
      BY <2>8 DEF Select
    <3>1. \A row \in rows : row.space = w
      BY <2>1, <3>0 DEF JobPage, Own
    <3> QED
      BY <3>1, <2>8, <1>b
  <2>9. CASE s.what = "audit page"
    <3>0. Select(w, s) = AuditPage(w)
      BY <2>9 DEF Select
    <3>1. \A row \in rows : row.space = w
      BY <2>1, <3>0 DEF AuditPage, Own
    <3> QED
      BY <3>1, <2>9, <1>b
  <2> QED
    BY <1>1, <1>4, <2>2, <2>3, <2>4, <2>5, <2>6, <2>7, <2>8, <2>9, WhatIsAsked
<1> QED
  BY <1>3, <1>4

\* What was just read is there.
LEMMA StillStep ==
    ASSUME DbInv(db), NEW w, NEW seen, Still(w, seen, db), NEW e,
           e.what \in {"documents", "messages"} => e.rows = Own(db[e.what], w)
    PROVE  Still(w, seen \cup {e}, db)
<1>1. ASSUME NEW d \in Rows(seen \cup {e}, "documents")
      PROVE  /\ d.space = w
             /\ d.id \in Documents
             /\ \E f \in db.documents : f.id = d.id /\ f.space = w
             /\ d.status # "processing" => d \in db.documents
  <2>1. CASE d \in Rows(seen, "documents")
    BY <2>1 DEF Still
  <2>2. CASE d \notin Rows(seen, "documents")
    <3>1. e.what = "documents" /\ d \in e.rows
      BY <2>2 DEF Rows
    <3>2. d \in db.documents /\ d.space = w
      BY <3>1 DEF Own
    <3>3. d.id \in Documents
      BY <3>2 DEF DbInv, DocumentsInv
    <3> QED
      BY <3>2, <3>3
  <2> QED
    BY <2>1, <2>2
<1>2. ASSUME NEW m \in Rows(seen \cup {e}, "messages")
      PROVE  m \in Own(db.messages, w)
  <2>1. CASE m \in Rows(seen, "messages")
    BY <2>1 DEF Still
  <2>2. CASE m \notin Rows(seen, "messages")
    <3>1. e.what = "messages" /\ m \in e.rows
      BY <2>2 DEF Rows
    <3> QED
      BY <3>1
  <2> QED
    BY <2>1, <2>2
<1> QED
  BY <1>1, <1>2 DEF Still

\* What a SELECT calls for comes before the rest, and keeps the order of the plan.
LEMMA TodoStep ==
    ASSUME NEW kind \in DOMAIN Plan, NEW todo, NEW seen, TodoInv(kind, todo, seen), todo # << >>,
           NEW e, e.what = Head(todo).what, NEW more, CallsFor(kind, Head(todo), e.rows, more)
    PROVE  TodoInv(kind, more \o Tail(todo), seen \cup {e})
<1> DEFINE s == Head(todo)
           new == more \o Tail(todo)
<1>1. todo \in Seq(Requests(kind))
  BY DEF TodoInv
<1>2. Tail(todo) \in Seq(Requests(kind)) /\ s \in Requests(kind) /\ Range(todo) = {s} \cup Range(Tail(todo))
  BY <1>1, RangeOfTail
<1>3. more \in Seq(Requests(kind))
  BY DEF CallsFor
<1>4. new \in Seq(Requests(kind)) /\ Range(new) = Range(more) \cup Range(Tail(todo))
  BY <1>2, <1>3, RangeOfConcat
<1>5. ASSUME kind = "export"
      PROVE  /\ After(new, "documents", "files")
             /\ After(new, "documents", "chunks")
             /\ After(new, "messages", "citations")
  <2>1. more = << >>
    BY <1>5 DEF CallsFor
  <2>2. new = Tail(todo)
    BY <2>1, <1>2, EmptyConcat
  <2>3. After(todo, "documents", "files") /\ After(todo, "documents", "chunks") /\ After(todo, "messages", "citations")
    BY <1>5 DEF TodoInv
  <2>4. /\ After(Tail(todo), "documents", "files") /\ After(Tail(todo), "documents", "chunks")
        /\ After(Tail(todo), "messages", "citations")
    BY <2>3, <1>1, AfterTail
  <2> QED
    BY <2>2, <2>4
<1>6. ASSUME kind = "documents"
      PROVE  ~Due(new, "documents")
  <2>1. ~Due(more, "documents")
    BY DEF CallsFor, Due
  <2>2. ~Due(Tail(todo), "documents")
    <3>1. CASE seen = {}
      <4>1. todo = << Whole("documents") >>
        BY <3>1, <1>6 DEF TodoInv, Plan
      <4>2. Tail(todo) = << >>
        BY <4>1
      <4>3. Range(<< >>) = {}
        BY DEF Range
      <4> QED
        BY <4>2, <4>3 DEF Due
    <3>2. CASE seen # {}
      BY <3>2, <1>2, <1>6 DEF TodoInv, Due
    <3> QED
      BY <3>1, <3>2
  <2> HIDE DEF new
  <2> QED
    BY <2>1, <2>2, <1>4 DEF Due
<1>7. Rows(seen, "documents") \subseteq Rows(seen \cup {e}, "documents")
  BY DEF Rows
<1>8. Rows(seen, "messages") \subseteq Rows(seen \cup {e}, "messages")
  BY DEF Rows
<1>9. ASSUME NEW t \in Range(new), t.what \in {"files of", "job of", "chunk count of"}
      PROVE  \E d \in Rows(seen \cup {e}, "documents") : d.id = t.of
  <2> HIDE DEF new
  <2>1. CASE t \in Range(Tail(todo))
    BY <2>1, <1>2, <1>7, <1>9 DEF TodoInv
  <2>2. CASE t \in Range(more) /\ s.what = "documents" /\ \E row \in e.rows : row.id = t.of
    <3>1. e.rows \subseteq Rows(seen \cup {e}, "documents")
      BY <2>2 DEF Rows
    <3> QED
      BY <2>2, <3>1
  <2>3. CASE t \in Range(more) /\ s.what \in {"files of", "job of"} /\ t.of = s.of
    <3>1. s \in Range(todo)
      BY <1>2
    <3>2. \E d \in Rows(seen, "documents") : d.id = s.of
      BY <2>3, <3>1 DEF TodoInv
    <3> QED
      BY <2>3, <3>2, <1>7
  <2> QED
    BY <2>1, <2>2, <2>3, <1>4, <1>9 DEF CallsFor
<1>10. ASSUME NEW t \in Range(new), t.what = "citations of"
       PROVE  \E m \in Rows(seen \cup {e}, "messages") : m.id = t.of
  <2> HIDE DEF new
  <2>1. CASE t \in Range(Tail(todo))
    BY <2>1, <1>2, <1>8, <1>10 DEF TodoInv
  <2>2. CASE t \in Range(more)
    <3>1. s.what = "messages" /\ \E row \in e.rows : row.id = t.of
      BY <2>2, <1>10 DEF CallsFor
    <3>2. e.rows \subseteq Rows(seen \cup {e}, "messages")
      BY <3>1 DEF Rows
    <3> QED
      BY <3>1, <3>2
  <2> QED
    BY <2>1, <2>2, <1>4
<1> HIDE DEF new
<1> QED
  <2>1. seen \cup {e} # {}
    OBVIOUS
  <2>2. TodoInv(kind, new, seen \cup {e})
    BY <2>1, <1>4, <1>5, <1>6, <1>9, <1>10 DEF TodoInv
  <2> QED
    BY <2>2 DEF new

-----------------------------------------------------------------------------
(* The parts of an export *)

LEMMA ExportPartsStep ==
    ASSUME DbInv(db), NEW r, NEW w, NEW todo, NEW seen, TodoInv("export", todo, seen), todo # << >>,
           Still(w, seen, db), ExportParts(r, todo, seen),
           NEW e, e.what = Head(todo).what,
           e.what \in Tables \ {"citations", "jobs"} => Own(db[e.what], w) \subseteq e.rows,
           e.what = "audit_events" => ExportEvent(r, "export", w) \subseteq e.rows
    PROVE  ExportParts(r, Tail(todo), seen \cup {e})
<1> DEFINE s == Head(todo)
<1>1. todo \in Seq(Requests("export"))
  BY DEF TodoInv
<1>2. Range(todo) = {s} \cup Range(Tail(todo))
  BY <1>1, RangeOfTail
<1>3. \A what : Due(todo, what) => s.what = what \/ Due(Tail(todo), what)
  BY <1>2 DEF Due
<1>4. s.what = "documents" => Due(Tail(todo), "files") /\ Due(Tail(todo), "chunks")
  <2>1. After(todo, "documents", "files") /\ After(todo, "documents", "chunks")
    BY DEF TodoInv
  <2> QED
    BY <2>1, <1>1, AfterTail
<1>5. DocumentsInv(db)
  BY DEF DbInv
<1>6. ASSUME NEW d \in Rows(seen \cup {e}, "documents")
      PROVE  /\ d.status = "indexed" =>
                   Due(Tail(todo), "chunks") \/ ChunksOf(d.id) \subseteq Rows(seen \cup {e}, "chunks")
             /\ d.id \in Uploads =>
                   Due(Tail(todo), "files") \/ \E f \in Rows(seen \cup {e}, "files") : f.document = d.id
  <2>1. CASE s.what = "documents"
    BY <2>1, <1>4
  <2>2. CASE s.what # "documents"
    <3>1. d \in Rows(seen, "documents")
      BY <2>2 DEF Rows
    <3>2. ASSUME d.status = "indexed", ~Due(Tail(todo), "chunks")
          PROVE  ChunksOf(d.id) \subseteq Rows(seen \cup {e}, "chunks")
      <4>1. CASE Due(todo, "chunks")
        <5>1. s.what = "chunks"
          BY <4>1, <3>2, <1>3
        <5>2. Own(db["chunks"], w) \subseteq e.rows
          BY <5>1 DEF Tables
        <5>3. e.rows \subseteq Rows(seen \cup {e}, "chunks")
          BY <5>1 DEF Rows
        <5>4. d \in db.documents /\ d.space = w
          BY <3>1, <3>2 DEF Still
        <5>5. ChunksOf(d.id) \subseteq db.chunks
          BY <5>4, <3>2, <1>5 DEF DocumentsInv
        <5>6. Home[d.id] = w
          BY <5>4, <1>5 DEF DocumentsInv, Doc
        <5>7. \A c \in ChunksOf(d.id) : c.space = w
          BY <5>6 DEF ChunksOf
        <5> QED
          BY <5>2, <5>3, <5>5, <5>7 DEF Own
      <4>2. CASE ~Due(todo, "chunks")
        <5>1. ChunksOf(d.id) \subseteq Rows(seen, "chunks")
          BY <4>2, <3>1, <3>2 DEF ExportParts
        <5>2. Rows(seen, "chunks") \subseteq Rows(seen \cup {e}, "chunks")
          BY DEF Rows
        <5> QED
          BY <5>1, <5>2
      <4> QED
        BY <4>1, <4>2
    <3>3. ASSUME d.id \in Uploads, ~Due(Tail(todo), "files")
          PROVE  \E f \in Rows(seen \cup {e}, "files") : f.document = d.id
      <4>1. CASE Due(todo, "files")
        <5>1. s.what = "files"
          BY <4>1, <3>3, <1>3
        <5>2. Own(db["files"], w) \subseteq e.rows
          BY <5>1 DEF Tables
        <5>3. e.rows \subseteq Rows(seen \cup {e}, "files")
          BY <5>1 DEF Rows
        <5>4. PICK f \in db.documents : f.id = d.id /\ f.space = w
          BY <3>1 DEF Still
        <5>5. File(d.id) \in db.files
          BY <5>4, <3>3, <1>5 DEF DocumentsInv, Uploaded
        <5>6. File(d.id).space = w /\ File(d.id).document = d.id
          BY <5>4, <1>5 DEF DocumentsInv, Doc, File
        <5> QED
          BY <5>2, <5>3, <5>5, <5>6 DEF Own
      <4>2. CASE ~Due(todo, "files")
        <5>1. \E f \in Rows(seen, "files") : f.document = d.id
          BY <4>2, <3>1, <3>3 DEF ExportParts
        <5>2. Rows(seen, "files") \subseteq Rows(seen \cup {e}, "files")
          BY DEF Rows
        <5> QED
          BY <5>1, <5>2
      <4> QED
        BY <4>1, <4>2
    <3> QED
      BY <3>2, <3>3
  <2> QED
    BY <2>1, <2>2
<1>7. Due(Tail(todo), "audit_events") \/ \E f \in Rows(seen \cup {e}, "audit_events") : f.id = r
  <2>1. CASE s.what = "audit_events"
    <3>1. [id |-> r, space |-> w] \in e.rows
      BY <2>1 DEF ExportEvent
    <3>2. e.rows \subseteq Rows(seen \cup {e}, "audit_events")
      BY <2>1 DEF Rows
    <3> QED
      BY <3>1, <3>2
  <2>2. CASE s.what # "audit_events"
    <3>1. Rows(seen, "audit_events") \subseteq Rows(seen \cup {e}, "audit_events")
      BY DEF Rows
    <3> QED
      BY <2>2, <3>1, <1>3 DEF ExportParts
  <2> QED
    BY <2>1, <2>2
<1> QED
  BY <1>6, <1>7 DEF ExportParts

-----------------------------------------------------------------------------
(* The parts of a document of the list *)

\* A document that was not indexed has no chunk, one that was has some.
LEMMA ChunksTellStatus ==
    ASSUME DocumentsInv(db), NEW d \in db.documents
    PROVE  ChunkCount(d.id) > 0 <=> d.status = "indexed"
<1> DEFINE own == {c \in db.chunks : c.document = d.id}
<1>1. db.chunks = UNION {ChunksOf(f.id) : f \in {f \in db.documents : f.status = "indexed"}}
  BY DEF DocumentsInv
<1>2. \A id : \A c \in ChunksOf(id) : c.document = id
  BY DEF ChunksOf
<1>3. CASE d.status = "indexed"
  <2>1. own = ChunksOf(d.id)
    BY <1>1, <1>2, <1>3
  <2>2. ChunksOf(d.id) = {[id |-> << d.id, 1 >>, space |-> Home[d.id], document |-> d.id]}
                           \cup {[id |-> << d.id, 2 >>, space |-> Home[d.id], document |-> d.id]}
    <3>1. Range(ChunkIds(d.id)) = {<< d.id, 1 >>, << d.id, 2 >>}
      BY DEF Range, ChunkIds
    <3> QED
      BY <3>1 DEF ChunksOf
  <2>3. IsFiniteSet(ChunksOf(d.id)) /\ ChunksOf(d.id) # {}
    <3>1. PICK a, b : ChunksOf(d.id) = {a} \cup {b}
      BY <2>2
    <3>2. IsFiniteSet({a})
      BY FS_Singleton
    <3>3. IsFiniteSet({a} \cup {b})
      BY <3>2, FS_AddElement
    <3> QED
      BY <3>1, <3>3
  <2>4. Cardinality(ChunksOf(d.id)) # 0 /\ Cardinality(ChunksOf(d.id)) \in Nat
    BY <2>3, FS_EmptySet, FS_CardinalityType
  <2> QED
    BY <2>1, <2>4, <1>3 DEF ChunkCount
<1>4. CASE d.status # "indexed"
  <2>1. \A f \in db.documents : f.id = d.id => f = d
    BY DEF DocumentsInv
  <2>2. own = {}
    BY <1>1, <1>2, <1>4, <2>1
  <2>3. ChunkCount(d.id) = 0
    BY <2>2, FS_EmptySet DEF ChunkCount
  <2> QED
    BY <2>3, <1>4
<1> QED
  BY <1>3, <1>4

LEMMA JobTellsStatus ==
    ASSUME DocumentsInv(db), NEW d \in db.documents, d.status # "processing", NEW j \in LatestJob(d.id)
    PROVE  j.status = "failed" <=> d.status = "failed"
<1>1. j \in db.jobs /\ j.document = d.id
  BY DEF LatestJob
<1>2. PICK f \in db.documents : j = Job(f.id, JobStatus(f.status))
  BY <1>1 DEF DocumentsInv
<1>3. j.document = f.id /\ j.status = JobStatus(f.status)
  BY <1>2 DEF Job
<1>4. f = d
  BY <1>1, <1>3 DEF DocumentsInv
<1>5. d.status \in {"indexed", "failed"}
  BY DEF DocumentsInv, Outcomes
<1> QED
  BY <1>3, <1>4, <1>5 DEF JobStatus

LEMMA ListPartsStep ==
    ASSUME DbInv(db), NEW kind, kind = "documents", NEW w, NEW todo, NEW seen, TodoInv(kind, todo, seen), todo # << >>,
           Still(w, seen, db), ListParts(todo, seen),
           NEW e, e.what = Head(todo).what, e.of = Head(todo).of,
           e.what \in {"files of", "job of", "chunk count of"} => e.rows = Select(w, Head(todo)),
           NEW more, CallsFor(kind, Head(todo), e.rows, more),
           NEW new, Range(new) = Range(more) \cup Range(Tail(todo))
    PROVE  ListParts(new, seen \cup {e})
<1> DEFINE s == Head(todo)
<1>1. todo \in Seq(Requests(kind))
  BY DEF TodoInv
<1>2. Tail(todo) \in Seq(Requests(kind)) /\ Range(todo) = {s} \cup Range(Tail(todo))
  BY <1>1, RangeOfTail
<1>3. Range(new) = Range(more) \cup Range(Tail(todo))
  OBVIOUS
<1>4. DocumentsInv(db)
  BY DEF DbInv
<1>5. ASSUME NEW d \in Rows(seen \cup {e}, "documents"), s.what = "documents"
      PROVE  /\ DueOf(new, "files of", d.id) \/ RowsOf(seen \cup {e}, "files of", d.id) # {}
             /\ RowsOf(seen \cup {e}, "job of", d.id) = {}
             /\ RowsOf(seen \cup {e}, "chunk count of", d.id) = {}
  <2>1. Due(todo, "documents")
    BY <1>2, <1>5 DEF Due
  <2>2. seen = {}
    BY <2>1 DEF TodoInv
  <2>3. d \in e.rows
    BY <2>2 DEF Rows
  <2>4. DueOf(more, "files of", d.id)
    BY <2>3, <1>5 DEF CallsFor
  <2>5. DueOf(new, "files of", d.id)
    BY <2>4, <1>3 DEF DueOf
  <2>6. RowsOf(seen \cup {e}, "job of", d.id) = {} /\ RowsOf(seen \cup {e}, "chunk count of", d.id) = {}
    BY <2>2, <1>5 DEF RowsOf
  <2> QED
    BY <2>5, <2>6
<1>6. ASSUME NEW d \in Rows(seen \cup {e}, "documents"), s.what # "documents"
      PROVE  /\ d \in Rows(seen, "documents")
             /\ d.id \in Uploads => DueOf(new, "files of", d.id) \/ RowsOf(seen \cup {e}, "files of", d.id) # {}
  <2>1. d \in Rows(seen, "documents")
    BY <1>6 DEF Rows
  <2>2. CASE RowsOf(seen, "files of", d.id) # {}
    BY <2>1, <2>2 DEF RowsOf
  <2>3. CASE d.id \in Uploads /\ RowsOf(seen, "files of", d.id) = {}
    <3>1. DueOf(todo, "files of", d.id)
      BY <2>1, <2>3 DEF ListParts
    <3>2. CASE DueOf(Tail(todo), "files of", d.id)
      BY <3>2, <2>1, <1>3 DEF DueOf
    <3>3. CASE s.what = "files of" /\ s.of = d.id
      <4>1. e.rows = FilesOf(d.id)
        BY <3>3 DEF Select
      <4>2. PICK f \in db.documents : f.id = d.id
        BY <2>1 DEF Still
      <4>3. File(d.id) \in db.files /\ File(d.id).document = d.id
        BY <4>2, <2>3, <1>4 DEF DocumentsInv, Uploaded, File
      <4>4. File(d.id) \in e.rows
        BY <4>1, <4>3 DEF FilesOf
      <4>5. File(d.id) \in RowsOf(seen \cup {e}, "files of", d.id)
        BY <4>4, <3>3 DEF RowsOf
      <4> QED
        BY <4>5, <2>1
    <3> QED
      BY <3>1, <3>2, <3>3, <1>2, <2>1 DEF DueOf
  <2>4. CASE d.id \notin Uploads
    BY <2>1, <2>4
  <2> QED
    BY <2>2, <2>3, <2>4
<1>7. ASSUME NEW d \in Rows(seen, "documents"), d.status # "processing",
             NEW j \in RowsOf(seen \cup {e}, "job of", d.id)
      PROVE  j.status = "failed" <=> d.status = "failed"
  <2>1. CASE j \in RowsOf(seen, "job of", d.id)
    BY <2>1, <1>7 DEF ListParts
  <2>2. CASE j \notin RowsOf(seen, "job of", d.id)
    <3>1. s.what = "job of" /\ s.of = d.id /\ j \in e.rows
      BY <2>2 DEF RowsOf
    <3>2. e.rows = LatestJob(d.id)
      BY <3>1 DEF Select
    <3>3. d \in db.documents
      BY <1>7 DEF Still
    <3> QED
      BY <3>1, <3>2, <3>3, <1>4, <1>7, JobTellsStatus
  <2> QED
    BY <2>1, <2>2
<1>8. ASSUME NEW d \in Rows(seen, "documents"), d.status # "processing",
             NEW c \in RowsOf(seen \cup {e}, "chunk count of", d.id)
      PROVE  c.count > 0 <=> d.status = "indexed"
  <2>1. CASE c \in RowsOf(seen, "chunk count of", d.id)
    BY <2>1, <1>8 DEF ListParts
  <2>2. CASE c \notin RowsOf(seen, "chunk count of", d.id)
    <3>1. s.what = "chunk count of" /\ s.of = d.id /\ c \in e.rows
      BY <2>2 DEF RowsOf
    <3>2. c = [id |-> d.id, space |-> w, count |-> ChunkCount(d.id)]
      BY <3>1 DEF Select
    <3>3. d \in db.documents
      BY <1>8 DEF Still
    <3> QED
      BY <3>2, <3>3, <1>4, ChunksTellStatus
  <2> QED
    BY <2>1, <2>2
<1>9. ASSUME NEW d \in Rows(seen \cup {e}, "documents")
      PROVE  /\ d.id \in Uploads => DueOf(new, "files of", d.id) \/ RowsOf(seen \cup {e}, "files of", d.id) # {}
             /\ d.status # "processing" =>
                   /\ \A j \in RowsOf(seen \cup {e}, "job of", d.id) : j.status = "failed" <=> d.status = "failed"
                   /\ \A c \in RowsOf(seen \cup {e}, "chunk count of", d.id) : c.count > 0 <=> d.status = "indexed"
  <2>1. CASE s.what = "documents"
    BY <2>1, <1>5
  <2>2. CASE s.what # "documents"
    BY <2>2, <1>6, <1>7, <1>8
  <2> QED
    BY <2>1, <2>2
<1> QED
  BY <1>9 DEF ListParts

-----------------------------------------------------------------------------
(* The parts of a chat *)

LEMMA ChatPartsStep ==
    ASSUME DbInv(db), NEW kind, kind \in {"export", "chat"}, NEW w, NEW todo, NEW seen,
           TodoInv(kind, todo, seen), todo # << >>, Still(w, seen, db), ChatParts(todo, seen),
           NEW e, e.what = Head(todo).what,
           e.what = "messages" => e.rows = Own(db.messages, w),
           e.what \in {"citations", "citations of"} => e.rows = Select(w, Head(todo)),
           NEW more, CallsFor(kind, Head(todo), e.rows, more),
           NEW new, Range(new) = Range(more) \cup Range(Tail(todo))
    PROVE  ChatParts(new, seen \cup {e})
<1> DEFINE s == Head(todo)
<1>1. todo \in Seq(Requests(kind))
  BY DEF TodoInv
<1>2. Tail(todo) \in Seq(Requests(kind)) /\ Range(todo) = {s} \cup Range(Tail(todo))
  BY <1>1, RangeOfTail
<1>3. Range(new) = Range(more) \cup Range(Tail(todo))
  OBVIOUS
<1>4. MessagesInv(db)
  BY DEF DbInv
<1>5. Rows(seen, "messages") \subseteq Rows(seen \cup {e}, "messages")
  BY DEF Rows
<1>6. ASSUME NEW m \in Rows(seen \cup {e}, "messages"), m \notin Rows(seen, "messages")
      PROVE  /\ \E n \in Rows(seen \cup {e}, "messages") : n.id[1] = m.id[1] /\ n.role # m.role
             /\ Due(new, "citations") \/ DueOf(new, "citations of", m.id)
  <2>1. s.what = "messages" /\ m \in e.rows
    BY <1>6 DEF Rows
  <2>2. m \in db.messages /\ m.space = w
    BY <2>1 DEF Own
  <2>3. PICK n \in db.messages : n.id[1] = m.id[1] /\ n.role # m.role
    BY <2>2, <1>4 DEF MessagesInv
  <2>4. n.space = w
    <3>1. n.space = Home[n.id[1]] /\ m.space = Home[m.id[1]]
      BY <2>2, <1>4 DEF MessagesInv
    <3> QED
      BY <3>1, <2>2, <2>3
  <2>5. n \in Rows(seen \cup {e}, "messages")
    BY <2>1, <2>3, <2>4 DEF Own, Rows
  <2>6. CASE kind = "export"
    <3>1. After(todo, "messages", "citations")
      BY <2>6 DEF TodoInv
    <3>2. Due(Tail(todo), "citations")
      BY <3>1, <2>1, <1>1, AfterTail
    <3>3. Due(new, "citations")
      BY <3>2, <1>3 DEF Due
    <3> QED
      BY <2>3, <2>5, <3>3
  <2>7. CASE kind = "chat"
    <3>1. DueOf(more, "citations of", m.id)
      BY <2>1, <2>7 DEF CallsFor
    <3>2. DueOf(new, "citations of", m.id)
      BY <3>1, <1>3 DEF DueOf
    <3> QED
      BY <2>3, <2>5, <3>2
  <2> QED
    BY <2>6, <2>7
<1>7. ASSUME NEW m \in Rows(seen, "messages"), m.role = "assistant", NEW rank \in DOMAIN m.text
      PROVE  \/ Due(new, "citations")
             \/ DueOf(new, "citations of", m.id)
             \/ \E c \in Rows(seen \cup {e}, "citations") \cup Rows(seen \cup {e}, "citations of") :
                   c.message = m.id /\ c.rank = rank
  <2> DEFINE cited == \E c \in Rows(seen \cup {e}, "citations") \cup Rows(seen \cup {e}, "citations of") :
                        c.message = m.id /\ c.rank = rank
  <2>1. m \in db.messages /\ m.space = w
    BY <1>7 DEF Still, Own
  <2>2. PICK c \in db.citations : c.message = m.id /\ c.rank = rank
    BY <2>1, <1>7, <1>4 DEF MessagesInv
  <2>3. CASE Due(todo, "citations")
    <3>1. CASE s.what = "citations"
      <4>1. c \in CitationsPayload(w)
        BY <2>1, <2>2 DEF CitationsPayload
      <4>2. e.rows = CitationsPayload(w)
        BY <3>1 DEF Select
      <4>3. c \in Rows(seen \cup {e}, "citations")
        BY <4>1, <4>2, <3>1 DEF Rows
      <4> QED
        BY <4>3, <2>2
    <3>2. CASE s.what # "citations"
      <4>1. Due(Tail(todo), "citations")
        BY <2>3, <3>2, <1>2 DEF Due
      <4> QED
        BY <4>1, <1>3 DEF Due
    <3> QED
      BY <3>1, <3>2
  <2>4. CASE DueOf(todo, "citations of", m.id)
    <3>1. CASE s.what = "citations of" /\ s.of = m.id
      <4>1. e.rows = {f \in db.citations : f.message = m.id}
        BY <3>1 DEF Select
      <4>2. c \in Rows(seen \cup {e}, "citations of")
        BY <4>1, <3>1, <2>2 DEF Rows
      <4> QED
        BY <4>2, <2>2
    <3>2. CASE ~(s.what = "citations of" /\ s.of = m.id)
      <4>1. DueOf(Tail(todo), "citations of", m.id)
        BY <2>4, <3>2, <1>2 DEF DueOf
      <4> QED
        BY <4>1, <1>3 DEF DueOf
    <3> QED
      BY <3>1, <3>2
  <2>5. CASE \E f \in Rows(seen, "citations") \cup Rows(seen, "citations of") : f.message = m.id /\ f.rank = rank
    <3>1. /\ Rows(seen, "citations") \subseteq Rows(seen \cup {e}, "citations")
          /\ Rows(seen, "citations of") \subseteq Rows(seen \cup {e}, "citations of")
      BY DEF Rows
    <3> QED
      BY <2>5, <3>1
  <2> QED
    BY <2>3, <2>4, <2>5, <1>7 DEF ChatParts
<1>8. ASSUME NEW m \in Rows(seen, "messages")
      PROVE  \E n \in Rows(seen \cup {e}, "messages") : n.id[1] = m.id[1] /\ n.role # m.role
  BY <1>5 DEF ChatParts
<1> QED
  BY <1>6, <1>7, <1>8 DEF ChatParts

-----------------------------------------------------------------------------
(* The admin pages *)

LEMMA MetadataFits ==
    ASSUME DocumentsInv(db), NEW w, NEW p \in MetadataPage(w)
    PROVE  MetadataFit(p)
<1>1. PICK d \in Own(db.documents, w) :
        p = [id |-> d.id, space |-> w, status |-> d.status, files |-> Cardinality(FilesOf(d.id)),
             chunks |-> ChunkCount(d.id)]
  BY DEF MetadataPage
<1>2. d \in db.documents
  BY DEF Own
<1>3. db.files = {File(f.id) : f \in Uploaded(db.documents)}
  BY DEF DocumentsInv
<1>4. \A id : File(id).document = id
  BY DEF File
<1>5. FilesOf(d.id) = IF d.id \in Uploads THEN {File(d.id)} ELSE {}
  BY <1>2, <1>3, <1>4 DEF FilesOf, Uploaded
<1>6. Cardinality(FilesOf(d.id)) = IF d.id \in Uploads THEN 1 ELSE 0
  <2>1. Cardinality({File(d.id)}) = 1
    BY FS_Singleton
  <2>2. Cardinality({}) = 0
    BY FS_EmptySet
  <2> QED
    BY <1>5, <2>1, <2>2
<1>7. ChunkCount(d.id) > 0 <=> d.status = "indexed"
  BY <1>2, ChunksTellStatus
<1> QED
  BY <1>1, <1>6, <1>7 DEF MetadataFit

\* No more files and no more jobs than documents.
LEMMA CountsOfWorkspace ==
    ASSUME DocumentsInv(db), NEW w
    PROVE  /\ IsFiniteSet(Own(db.documents, w)) /\ IsFiniteSet(Own(db.jobs, w))
           /\ IsFiniteSet(Own(db.files, w))
           /\ Cardinality(Own(db.files, w)) <= Cardinality(Own(db.documents, w))
           /\ Cardinality(Own(db.jobs, w)) <= Cardinality(Own(db.documents, w))
<1> DEFINE S == Own(db.documents, w)
           U == Uploaded(S)
           T == Own(db.files, w)
           J == Own(db.jobs, w)
           f == [d \in U |-> File(d.id)]
           g == [d \in S |-> Job(d.id, JobStatus(d.status))]
<1>1. IsFiniteSet(db.documents) /\ S \in SUBSET db.documents
  BY DEF DocumentsInv, Own
<1>2. IsFiniteSet(S)
  BY <1>1, FS_Subset
<1>3. \A d \in S : d \in db.documents /\ d.space = w
  BY DEF Own
<1>4. \A d \in db.documents : d.space = Home[d.id]
  BY DEF DocumentsInv, Doc
<1>5. /\ \A id : File(id).id = id /\ File(id).space = Home[id]
      /\ \A id, status : Job(id, status).space = Home[id]
  BY DEF File, Job
<1>6. /\ db.files = {File(d.id) : d \in Uploaded(db.documents)}
      /\ db.jobs = {Job(d.id, JobStatus(d.status)) : d \in db.documents}
      /\ \A d, e \in db.documents : d.id = e.id => d = e
  BY DEF DocumentsInv
<1>7. f \in [U -> T]
  BY <1>3, <1>4, <1>5, <1>6 DEF Own, Uploaded
<1>8. \A t \in T : \E d \in U : f[d] = t
  <2> SUFFICES ASSUME NEW t \in T
               PROVE  \E d \in U : f[d] = t
    OBVIOUS
  <2>1. t \in db.files /\ t.space = w
    BY DEF Own
  <2>2. PICK d \in Uploaded(db.documents) : t = File(d.id)
    BY <2>1, <1>6
  <2>3. d \in U
    BY <2>1, <2>2, <1>4, <1>5 DEF Own, Uploaded
  <2> QED
    BY <2>2, <2>3
<1>9. f \in Surjection(U, T)
  <2> HIDE DEF f, U
  <2> QED
    BY <1>7, <1>8 DEF Surjection
<1>10. IsFiniteSet(U) /\ Cardinality(U) <= Cardinality(S)
  <2>1. U \in SUBSET S
    BY DEF Uploaded
  <2> HIDE DEF U, S
  <2> QED
    BY <2>1, <1>2, FS_Subset
<1>11. IsFiniteSet(T) /\ Cardinality(T) <= Cardinality(S)
  <2>1. IsFiniteSet(T) /\ Cardinality(T) <= Cardinality(U)
    BY <1>9, <1>10, FS_Surjection
  <2>2. Cardinality(T) \in Nat /\ Cardinality(U) \in Nat /\ Cardinality(S) \in Nat
    BY <2>1, <1>2, <1>10, FS_CardinalityType
  <2> QED
    BY <2>1, <2>2, <1>10
<1>12. g \in [S -> J]
  BY <1>3, <1>4, <1>5, <1>6 DEF Own
<1>13. \A t \in J : \E d \in S : g[d] = t
  <2> SUFFICES ASSUME NEW t \in J
               PROVE  \E d \in S : g[d] = t
    OBVIOUS
  <2>1. t \in db.jobs /\ t.space = w
    BY DEF Own
  <2>2. PICK d \in db.documents : t = Job(d.id, JobStatus(d.status))
    BY <2>1, <1>6
  <2>3. d \in S
    BY <2>1, <2>2, <1>4, <1>5 DEF Own
  <2> QED
    BY <2>2, <2>3
<1>14. g \in Surjection(S, J)
  <2> HIDE DEF g
  <2> QED
    BY <1>12, <1>13 DEF Surjection
<1>15. IsFiniteSet(J) /\ Cardinality(J) <= Cardinality(S)
  BY <1>2, <1>14, FS_Surjection
<1> QED
  BY <1>2, <1>11, <1>15

LEMMA WorkspacesFit ==
    ASSUME DbInv(db), NEW p \in WorkspacePage
    PROVE  CountsFit(p)
<1>1. PICK w \in Workspaces :
        p = [id |-> w, space |-> w, documents |-> Cardinality(Own(db.documents, w)),
             failed |-> Cardinality({j \in Own(db.jobs, w) : j.status = "failed"}),
             files |-> Cardinality(Own(db.files, w)),
             plan |-> {s.plan : s \in Own(db.subscriptions, w)}]
  BY DEF WorkspacePage
<1> DEFINE failed == {j \in Own(db.jobs, w) : j.status = "failed"}
<1>2. /\ IsFiniteSet(Own(db.documents, w)) /\ IsFiniteSet(Own(db.jobs, w))
      /\ Cardinality(Own(db.files, w)) <= Cardinality(Own(db.documents, w))
      /\ Cardinality(Own(db.jobs, w)) <= Cardinality(Own(db.documents, w))
  BY CountsOfWorkspace DEF DbInv
<1>3. failed \in SUBSET Own(db.jobs, w)
  OBVIOUS
<1>4. IsFiniteSet(failed) /\ Cardinality(failed) <= Cardinality(Own(db.jobs, w))
  BY <1>2, <1>3, FS_Subset
<1>5. /\ Cardinality(failed) \in Nat
      /\ Cardinality(Own(db.jobs, w)) \in Nat
      /\ Cardinality(Own(db.documents, w)) \in Nat
  BY <1>2, <1>4, FS_CardinalityType
<1>6. {s.plan : s \in Own(db.subscriptions, w)} # {}
  BY DEF DbInv
<1>7. Cardinality(failed) <= Cardinality(Own(db.documents, w))
  BY <1>2, <1>4, <1>5
<1> QED
  BY <1>1, <1>2, <1>6, <1>7 DEF CountsFit

LEMMA PagePartsStep ==
    ASSUME DbInv(db), NEW w, NEW seen, PageParts(seen), NEW s, NEW e, e.what = s.what,
           e.what \in {"metadata page", "workspace page"} => e.rows = Select(w, s)
    PROVE  PageParts(seen \cup {e})
<1>1. ASSUME NEW d \in Rows(seen \cup {e}, "metadata page")
      PROVE  MetadataFit(d)
  <2>1. CASE d \in Rows(seen, "metadata page")
    BY <2>1 DEF PageParts
  <2>2. CASE d \notin Rows(seen, "metadata page")
    <3>1. s.what = "metadata page" /\ d \in e.rows
      BY <2>2 DEF Rows
    <3>2. d \in MetadataPage(w)
      BY <3>1 DEF Select
    <3>3. DocumentsInv(db)
      BY DEF DbInv
    <3> QED
      BY <3>2, <3>3, MetadataFits
  <2> QED
    BY <2>1, <2>2
<1>2. ASSUME NEW p \in Rows(seen \cup {e}, "workspace page")
      PROVE  CountsFit(p)
  <2>1. CASE p \in Rows(seen, "workspace page")
    BY <2>1 DEF PageParts
  <2>2. CASE p \notin Rows(seen, "workspace page")
    <3>1. s.what = "workspace page" /\ p \in e.rows
      BY <2>2 DEF Rows
    <3>2. p \in WorkspacePage
      BY <3>1 DEF Select
    <3> QED
      BY <3>2, WorkspacesFit
  <2> QED
    BY <2>1, <2>2
<1> QED
  BY <1>1, <1>2 DEF PageParts

-----------------------------------------------------------------------------
(* The steps of a reader *)

LEMMA ReadStep ==
    ASSUME DbInv(db), NEW r, NEW kind, NEW w, NEW todo, NEW before, NEW seen, todo # << >>,
           ViewInv(r, kind, w, todo, before, seen, db),
           NEW e, e = Entry(r, kind, w, Head(todo))
    PROVE  ViewInv(r, kind, w, Follow(kind, Head(todo), e.rows) \o Tail(todo), before, seen \cup {e}, db)
<1> DEFINE s == Head(todo)
           more == Follow(kind, s, e.rows)
           new == more \o Tail(todo)
<1>1. /\ kind \in DOMAIN Plan
      /\ w \in Workspaces
      /\ TodoInv(kind, todo, seen)
      /\ Older(before, db)
      /\ \A f \in seen : Complete(before, w, f)
      /\ kind # "admin_workspaces" => \A f \in seen : Mine(w, f)
      /\ Still(w, seen, db)
      /\ kind = "export" => ExportParts(r, todo, seen)
      /\ kind = "documents" => ListParts(todo, seen)
      /\ kind \in {"export", "chat"} => ChatParts(todo, seen)
      /\ PageParts(seen)
  BY DEF ViewInv
<1>2. todo \in Seq(Requests(kind))
  BY <1>1 DEF TodoInv
<1>3. s \in Requests(kind) /\ Tail(todo) \in Seq(Requests(kind)) /\ Range(todo) = {s} \cup Range(Tail(todo))
  BY <1>2, RangeOfTail
<1>4. e.what = s.what /\ e.of = s.of /\ e.rows = Fetched(r, kind, w, s)
  BY DEF Entry
<1> HIDE DEF s
<1>5. s.what \in Asks[kind]
  BY <1>3 DEF Requests
<1>6. s.what # "jobs"
  BY <1>1, <1>5, WhatIsAsked DEF Tables
<1>7. Select(w, s) \subseteq e.rows /\ (s.what # "audit_events" => e.rows = Select(w, s))
  BY <1>4 DEF Fetched
<1>8. s.what \in Tables \ {"citations", "jobs"} => Select(w, s) = Own(db[s.what], w)
  BY SelectTable
<1>9. s.what \in {"documents", "messages"} => e.rows = Own(db[s.what], w)
  BY <1>7, <1>8 DEF Tables
<1>10. Within(w, s)
  <2>1. s \in Range(todo)
    BY <1>3
  <2>2. ASSUME s.what \in {"files of", "job of"} PROVE Home[s.of] = w
    <3>1. PICK d \in Rows(seen, "documents") : d.id = s.of
      BY <1>1, <2>1, <2>2 DEF TodoInv
    <3>2. PICK f \in db.documents : f.id = d.id /\ f.space = w
      BY <1>1 DEF Still
    <3>3. f = Doc(f.id, f.status)
      BY DEF DbInv, DocumentsInv
    <3>4. f.space = Home[f.id]
      BY <3>3 DEF Doc
    <3> QED
      BY <3>1, <3>2, <3>4
  <2>3. ASSUME s.what = "citations of" PROVE Home[s.of[1]] = w
    <3>1. PICK m \in Rows(seen, "messages") : m.id = s.of
      BY <1>1, <2>1, <2>3 DEF TodoInv
    <3>2. m \in db.messages /\ m.space = w
      BY <1>1 DEF Still, Own
    <3>3. m.space = Home[m.id[1]]
      BY <3>2 DEF DbInv, MessagesInv
    <3> QED
      BY <3>1, <3>2, <3>3
  <2> QED
    BY <2>2, <2>3 DEF Within
<1>11. CallsFor(kind, s, e.rows, more)
  BY <1>1, <1>3, <1>9, FollowUps
<1> HIDE DEF more
<1>12. more \in Seq(Requests(kind))
  BY <1>11 DEF CallsFor
<1>13. new \in Seq(Requests(kind)) /\ Range(new) = Range(more) \cup Range(Tail(todo))
  BY <1>3, <1>12, RangeOfConcat
<1>14. TodoInv(kind, new, seen \cup {e})
  BY <1>1, <1>4, <1>11, TodoStep DEF s
<1>15. Complete(before, w, e)
  BY <1>1, <1>4, <1>6, <1>7, CompleteStep
<1>16. kind # "admin_workspaces" => Mine(w, e)
  BY <1>1, <1>3, <1>10, MineStep DEF s
<1>17. Still(w, seen \cup {e}, db)
  BY <1>1, <1>4, <1>9, StillStep
<1>18. kind = "export" => ExportParts(r, new, seen \cup {e})
  <2> SUFFICES ASSUME kind = "export"
               PROVE  ExportParts(r, new, seen \cup {e})
    OBVIOUS
  <2>1. new = Tail(todo)
    <3>1. more = << >>
      BY <1>11 DEF CallsFor
    <3> QED
      BY <3>1, <1>3, EmptyConcat
  <2>2. e.what \in Tables \ {"citations", "jobs"} => Own(db[e.what], w) \subseteq e.rows
    BY <1>4, <1>7, <1>8
  <2>3. e.what = "audit_events" => ExportEvent(r, "export", w) \subseteq e.rows
    BY <1>4 DEF Fetched
  <2>4. ExportParts(r, Tail(todo), seen \cup {e})
    <3>1. TodoInv("export", todo, seen) /\ ExportParts(r, todo, seen) /\ Still(w, seen, db)
      BY <1>1
    <3>2. e.what = Head(todo).what
      BY <1>4 DEF s
    <3> QED
      BY <2>2, <2>3, <3>1, <3>2, ExportPartsStep
  <2> HIDE DEF new
  <2> QED
    BY <2>1, <2>4
<1> HIDE DEF new
<1>19. kind = "documents" => ListParts(new, seen \cup {e})
  <2> SUFFICES ASSUME kind = "documents"
               PROVE  ListParts(new, seen \cup {e})
    OBVIOUS
  <2>1. e.what \in {"files of", "job of", "chunk count of"} => e.rows = Select(w, s)
    BY <1>4, <1>7
  <2> QED
    BY <2>1, <1>1, <1>4, <1>11, <1>13, ListPartsStep DEF s
<1>20. kind \in {"export", "chat"} => ChatParts(new, seen \cup {e})
  <2> SUFFICES ASSUME kind \in {"export", "chat"}
               PROVE  ChatParts(new, seen \cup {e})
    OBVIOUS
  <2>1. e.what \in {"citations", "citations of"} => e.rows = Select(w, s)
    BY <1>4, <1>7
  <2>2. e.what = "messages" => e.rows = Own(db.messages, w)
    BY <1>4, <1>9
  <2> QED
    BY <2>1, <2>2, <1>1, <1>4, <1>11, <1>13, ChatPartsStep DEF s
<1>21. PageParts(seen \cup {e})
  <2>1. e.what \in {"metadata page", "workspace page"} => e.rows = Select(w, s)
    BY <1>4, <1>7
  <2> QED
    BY <2>1, <1>1, <1>4, PagePartsStep
<1>22. ViewInv(r, kind, w, new, before, seen \cup {e}, db)
  BY <1>1, <1>14, <1>15, <1>16, <1>17, <1>18, <1>19, <1>20, <1>21 DEF ViewInv
<1> QED
  BY <1>22 DEF new, more, s

LEMMA FunctionIsSequence ==
    ASSUME NEW S, NEW n \in Nat, NEW f \in [1..n -> S]
    PROVE  f \in Seq(S)
OBVIOUS

\* The plan of an export reads the files and chunks after the documents, the
\* citations after the messages, and the audit.
LEMMA PlanOfExport ==
    LET plan == Plan["export"] IN
    /\ plan \in Seq(Requests("export"))
    /\ Range(plan) = {Whole(t) : t \in Tables \ {"jobs"}}
    /\ After(plan, "documents", "files")
    /\ After(plan, "documents", "chunks")
    /\ After(plan, "messages", "citations")
<1> DEFINE S == {Whole(t) : t \in Tables \ {"jobs"}}
<1>1. Plan["export"] = ExportPlan
  BY DEF Plan
<1>2. DOMAIN ExportPlan = 1..10
  BY DEF ExportPlan
<1>3. /\ ExportPlan[1] = Whole("members") /\ ExportPlan[2] = Whole("documents")
      /\ ExportPlan[3] = Whole("files") /\ ExportPlan[4] = Whole("chunks")
      /\ ExportPlan[5] = Whole("messages") /\ ExportPlan[6] = Whole("citations")
      /\ ExportPlan[7] = Whole("review_items") /\ ExportPlan[8] = Whole("audit_events")
      /\ ExportPlan[9] = Whole("usage_events") /\ ExportPlan[10] = Whole("subscriptions")
  BY DEF ExportPlan
<1>4. \A t : Whole(t).what = t /\ Whole(t).of = "all"
  BY DEF Whole
<1>5. ASSUME NEW t \in Tables \ {"jobs"} PROVE Whole(t) \in Requests("export")
  <2>1. t \in Asks["export"]
    BY AsksOfKinds
  <2>2. "all" \in Names
    BY DEF Names
  <2> QED
    BY <2>1, <2>2 DEF Whole, Requests
<1>6. Range(ExportPlan) = S
  <2> HIDE DEF S
  <2>1. Range(ExportPlan) = {ExportPlan[1], ExportPlan[2], ExportPlan[3], ExportPlan[4], ExportPlan[5],
                             ExportPlan[6], ExportPlan[7], ExportPlan[8], ExportPlan[9], ExportPlan[10]}
    BY <1>2 DEF Range
  <2> QED
    BY <2>1, <1>3 DEF S, Tables
<1>8. ExportPlan \in Seq(Requests("export"))
  <2>1. \A i \in 1..10 : ExportPlan[i] \in Requests("export")
    BY <1>2, <1>5, <1>6 DEF Range
  <2>2. ExportPlan = [i \in 1..10 |-> ExportPlan[i]]
    BY <1>2 DEF ExportPlan
  <2> DEFINE R == Requests("export")
  <2> HIDE DEF R
  <2>3. ExportPlan \in [1..10 -> R]
    BY <2>1, <2>2 DEF R
  <2>4. ExportPlan \in Seq(R)
    BY <2>3, FunctionIsSequence
  <2> QED
    BY <2>4 DEF R
<1>9. After(ExportPlan, "documents", "files") /\ After(ExportPlan, "documents", "chunks")
  <2>1. ASSUME NEW i \in 1..10, ExportPlan[i].what = "documents" PROVE i = 2
    BY <2>1, <1>3, <1>4
  <2> QED
    BY <2>1, <1>2, <1>3, <1>4 DEF After
<1>10. After(ExportPlan, "messages", "citations")
  <2>1. ASSUME NEW i \in 1..10, ExportPlan[i].what = "messages" PROVE i = 5
    BY <2>1, <1>3, <1>4
  <2> QED
    BY <2>1, <1>2, <1>3, <1>4 DEF After
<1> QED
  BY <1>1, <1>6, <1>8, <1>9, <1>10

LEMMA PlanOfOthers ==
    ASSUME NEW kind \in DOMAIN Plan, kind # "export"
    PROVE  \E what \in Asks[kind] : /\ Plan[kind] = << Whole(what) >>
                                    /\ what \notin {"files of", "job of", "chunk count of", "citations of"}
<1>1. CASE kind = "documents"
  BY <1>1, AsksOfKinds DEF Plan
<1>2. CASE kind = "chat"
  <2>1. "messages" \in Asks[kind]
    BY <1>2, AsksOfKinds
  <2>2. Plan[kind] = << Whole("messages") >>
    BY <1>2 DEF Plan
  <2> QED
    BY <2>1, <2>2
<1>3. CASE kind = "reviews"
  BY <1>3, AsksOfKinds DEF Plan
<1>4. CASE kind = "admin_workspaces"
  BY <1>4, AsksOfKinds DEF Plan
<1>5. CASE kind = "admin_documents"
  BY <1>5, AsksOfKinds DEF Plan
<1>6. CASE kind = "admin_jobs"
  BY <1>6, AsksOfKinds DEF Plan
<1>7. CASE kind = "admin_audit"
  BY <1>7, AsksOfKinds DEF Plan
<1> QED
  BY <1>1, <1>2, <1>3, <1>4, <1>5, <1>6, <1>7, KindsOfViews DEF Kinds

LEMMA PlanIsTodo ==
    ASSUME NEW kind \in DOMAIN Plan
    PROVE  /\ TodoInv(kind, Plan[kind], {})
           /\ kind = "export" => Due(Plan[kind], "audit_events")
<1>1. CASE kind = "export"
  <2>1. /\ Plan[kind] \in Seq(Requests(kind))
        /\ Range(Plan[kind]) = {Whole(t) : t \in Tables \ {"jobs"}}
        /\ After(Plan[kind], "documents", "files")
        /\ After(Plan[kind], "documents", "chunks")
        /\ After(Plan[kind], "messages", "citations")
    BY <1>1, PlanOfExport
  <2>2. ASSUME NEW s \in Range(Plan[kind])
        PROVE  s.what \notin {"files of", "job of", "chunk count of"} /\ s.what # "citations of"
    <3>1. PICK t \in Tables : s = Whole(t)
      BY <2>1
    <3>2. s.what = t
      BY <3>1 DEF Whole
    <3> QED
      BY <3>2 DEF Tables
  <2>3. Whole("audit_events") \in Range(Plan[kind]) /\ Whole("audit_events").what = "audit_events"
    BY <2>1 DEF Tables, Whole
  <2> QED
    BY <1>1, <2>1, <2>2, <2>3 DEF TodoInv, Due
<1>2. CASE kind # "export"
  <2>1. PICK what \in Asks[kind] : /\ Plan[kind] = << Whole(what) >>
                                   /\ what \notin {"files of", "job of", "chunk count of", "citations of"}
    BY <1>2, PlanOfOthers
  <2>2. Whole(what).what = what /\ Whole(what) \in Requests(kind)
    BY DEF Whole, Requests, Names
  <2> DEFINE s == Whole(what)
  <2> HIDE DEF s
  <2>3. << s >> \in Seq(Requests(kind)) /\ Range(<< s >>) = {s}
    BY <2>2 DEF Range, s
  <2>4. Plan[kind] \in Seq(Requests(kind)) /\ Range(Plan[kind]) = {s}
    BY <2>1, <2>3 DEF s
  <2>5. s.what \notin {"files of", "job of", "chunk count of"} /\ s.what # "citations of"
    BY <2>1, <2>2 DEF s
  <2> QED
    BY <1>2, <2>4, <2>5 DEF TodoInv
<1> QED
  BY <1>1, <1>2

\* A view that was just asked for.
LEMMA BeginView ==
    ASSUME DbInv(db), NEW r, NEW kind \in DOMAIN Plan, NEW w \in Workspaces
    PROVE  ViewInv(r, kind, w, Plan[kind], db, {}, db)
<1>1. Older(db, db)
  BY OlderReflexive
<1>2. \A what : Rows({}, what) = {}
  BY DEF Rows
<1>3. Still(w, {}, db)
  BY <1>2 DEF Still
<1>4. TodoInv(kind, Plan[kind], {}) /\ (kind = "export" => Due(Plan[kind], "audit_events"))
  BY PlanIsTodo
<1>5. kind = "export" => ExportParts(r, Plan[kind], {})
  BY <1>2, <1>4 DEF ExportParts
<1>6. ListParts(Plan[kind], {}) /\ ChatParts(Plan[kind], {}) /\ PageParts({})
  BY <1>2 DEF ListParts, ChatParts, PageParts
<1> QED
  BY <1>1, <1>3, <1>4, <1>5, <1>6 DEF ViewInv

-----------------------------------------------------------------------------
(* The invariant is inductive *)

LEMMA InitEstablishes == Init => IInv
<1> SUFFICES ASSUME Init PROVE IInv
  OBVIOUS
<1>1. /\ db = [t \in Tables |-> db[t]]
      /\ \A t \in Tables \ {"members", "subscriptions"} : db[t] = {}
      /\ db["subscriptions"] = {[id |-> w, space |-> w, plan |-> "free"] : w \in Workspaces}
  BY DEF Init, Tables
<1>2. /\ db.documents = {} /\ db.files = {} /\ db.jobs = {} /\ db.chunks = {}
      /\ db.messages = {} /\ db.review_items = {} /\ db.audit_events = {}
  BY <1>1 DEF Tables
<1>3. DocumentsInv(db) /\ MessagesInv(db)
  <2>1. Uploaded(db.documents) = {}
    BY <1>2 DEF Uploaded
  <2>2. db.files = {File(d.id) : d \in Uploaded(db.documents)}
    BY <2>1, <1>2
  <2> QED
    BY <1>2, <2>2, FS_EmptySet DEF DocumentsInv, MessagesInv
<1>4. ASSUME NEW w \in Workspaces PROVE Own(db.subscriptions, w) # {}
  <2> DEFINE row == [id |-> w, space |-> w, plan |-> "free"]
  <2>1. row \in db.subscriptions
    BY <1>1
  <2>2. row.space = w
    OBVIOUS
  <2> QED
    BY <2>1, <2>2 DEF Own
<1>5. DbInv(db)
  BY <1>1, <1>2, <1>3, <1>4 DEF DbInv
<1>6. read = [r \in Readers |-> read[r]]
  BY DEF Init
<1>7. ASSUME NEW r \in Readers PROVE ReaderInv(r, read[r], db) /\ RecordInv(r, read[r], db)
  <2>1. read[r].kind = "idle"
    BY DEF Init, Idle
  <2>2. ~OnRecord(r, db)
    BY <1>2 DEF OnRecord
  <2> QED
    BY <2>1, <2>2, KindsOfViews DEF ReaderInv, RecordInv, Kinds
<1> QED
  BY <1>5, <1>6, <1>7 DEF IInv, EventsInv

\* A commit of a writer leaves the readers alone.
LEMMA WriterKeeps ==
    ASSUME IInv, DbInv(db'), Older(db, db'), read' = read,
           \A e \in db'.audit_events : e \in db.audit_events \/ e.id \in Items \X {"pending", "approved"}
    PROVE  IInv'
<1>1. ASSUME NEW r \in Readers PROVE ReaderInv(r, read[r], db')
  <2>1. ReaderInv(r, read[r], db)
    BY DEF IInv
  <2> QED
    BY <2>1, ReaderStays
<1>2. ASSUME NEW r \in Readers PROVE RecordInv(r, read[r], db')
  <2>1. \A b \in db["audit_events"] : \E row \in db'["audit_events"] : row.id = b.id
    BY DEF Older, Tables
  <2>2. OnRecord(r, db') <=> OnRecord(r, db)
    BY <2>1, NamesAssumption DEF OnRecord
  <2>3. RecordInv(r, read[r], db)
    BY DEF IInv, EventsInv
  <2> QED
    BY <2>2, <2>3 DEF RecordInv
<1>4. EventsInv'
  BY <1>2 DEF EventsInv
<1>5. \A r \in Readers : ReaderInv(r, read[r], db)'
  BY <1>1
<1>6. (read = [r \in Readers |-> read[r]])'
  BY DEF IInv
<1> QED
  BY <1>4, <1>5, <1>6 DEF IInv

\* A step of a reader leaves the other readers alone.
LEMMA ReaderKeeps ==
    ASSUME IInv, NEW r \in Readers, NEW k, read' = [read EXCEPT ![r] = k], UNCHANGED db,
           ReaderInv(r, k, db), RecordInv(r, k, db)
    PROVE  IInv'
<1>1. read' = [q \in Readers |-> IF q = r THEN k ELSE read[q]]
  BY DEF IInv
<1>2. ASSUME NEW q \in Readers PROVE ReaderInv(q, read'[q], db')
  <2>1. CASE q = r
    BY <2>1, <1>1
  <2>2. CASE q # r
    BY <2>2, <1>1 DEF IInv
  <2> QED
    BY <2>1, <2>2
<1>3. DbInv(db')
  BY DEF IInv
<1>4. ASSUME NEW q \in Readers PROVE RecordInv(q, read'[q], db')
  <2>1. CASE q = r
    BY <2>1, <1>1
  <2>2. CASE q # r
    BY <2>2, <1>1 DEF IInv, EventsInv
  <2> QED
    BY <2>1, <2>2
<1>5. EventsInv'
  BY <1>4 DEF EventsInv
<1>6. \A q \in Readers : ReaderInv(q, read[q], db)'
  BY <1>2
<1>7. (read = [q \in Readers |-> read[q]])'
  BY <1>1
<1> QED
  BY <1>3, <1>5, <1>6, <1>7 DEF IInv

LEMMA BeginKeeps ==
    ASSUME IInv, NEW r \in Readers, NEW kind \in DOMAIN Plan, NEW w \in Workspaces, Begin(r, kind, w)
    PROVE  IInv'
<1> DEFINE k == [kind |-> kind, space |-> w, todo |-> Plan[kind], before |-> db, event |-> "open",
                 own |-> ExportEvent(r, kind, w), seen |-> {}]
<1>1. read' = [read EXCEPT ![r] = k] /\ UNCHANGED db
  BY DEF Begin
<1>2. RecordInv(r, k, db)
  <2>1. read[r].kind = "idle"
    BY DEF Begin, Idle
  <2>2. ~OnRecord(r, db)
    BY <2>1 DEF IInv, EventsInv, RecordInv
  <2>3. k.kind \in DOMAIN Plan /\ k.event = "open"
    OBVIOUS
  <2>4. k.kind # "idle" /\ k.kind # "answered"
    BY KindsOfViews DEF Kinds
  <2> HIDE DEF k
  <2> QED
    BY <2>2, <2>3, <2>4 DEF RecordInv
<1>3. DbInv(db)
  BY DEF IInv
<1>4. ViewInv(r, kind, w, Plan[kind], db, {}, db)
  BY <1>3, BeginView
<1>5. BusyInv(r, k, db)
  BY <1>4 DEF BusyInv
<1>6. k.kind # "answered"
  BY KindsOfViews DEF Kinds
<1>7. ReaderInv(r, k, db)
  BY <1>5, <1>6 DEF ReaderInv
<1> HIDE DEF k
<1> QED
  BY <1>1, <1>2, <1>7, ReaderKeeps

LEMMA ReadRecord ==
    ASSUME NEW k, NEW new, NEW e,
           k = [kind |-> k.kind, space |-> k.space, todo |-> k.todo, before |-> k.before, event |-> k.event,
                own |-> k.own, seen |-> k.seen]
    PROVE  [[k EXCEPT !.todo = new] EXCEPT !.seen = @ \cup {e}]
             = [kind |-> k.kind, space |-> k.space, todo |-> new, before |-> k.before, event |-> k.event,
                own |-> k.own, seen |-> k.seen \cup {e}]
<1>1. PICK a, b, c, d, f, g, h :
        k = [kind |-> a, space |-> b, todo |-> c, before |-> d, event |-> h, own |-> f, seen |-> g]
  OBVIOUS
<1>2. k.kind = a /\ k.space = b /\ k.before = d /\ k.event = h /\ k.own = f /\ k.seen = g
  BY <1>1
<1> DEFINE m == [k EXCEPT !.todo = new]
<1>3. m = [kind |-> a, space |-> b, todo |-> new, before |-> d, event |-> h, own |-> f, seen |-> g]
  BY <1>1
<1> HIDE DEF m
<1>4. [m EXCEPT !.seen = m.seen \cup {e}]
        = [kind |-> a, space |-> b, todo |-> new, before |-> d, event |-> h, own |-> f, seen |-> g \cup {e}]
  BY <1>3
<1> QED
  BY <1>2, <1>4 DEF m

LEMMA ReadNextKeeps ==
    ASSUME IInv, NEW r \in Readers, ReadNext(r)
    PROVE  IInv'
<1> DEFINE k == read[r]
           e == Entry(r, k.kind, k.space, Head(k.todo))
           new == Follow(k.kind, Head(k.todo), e.rows) \o Tail(k.todo)
<1>1. k.kind \in DOMAIN Plan /\ k.todo # << >>
  BY DEF ReadNext, Busy
<1>2. BusyInv(r, k, db) /\ DbInv(db)
  BY <1>1 DEF IInv, ReaderInv
<1>3. k = [kind |-> k.kind, space |-> k.space, todo |-> k.todo, before |-> k.before, event |-> k.event,
           own |-> k.own, seen |-> k.seen]
  BY <1>2 DEF BusyInv
<1>4. k.own = ExportEvent(r, k.kind, k.space)
  BY <1>2 DEF BusyInv
<1>5. ViewInv(r, k.kind, k.space, new, k.before, k.seen \cup {e}, db)
  <2>1. ViewInv(r, k.kind, k.space, k.todo, k.before, k.seen, db)
    BY <1>2 DEF BusyInv
  <2> HIDE DEF k, e
  <2> QED
    BY <2>1, <1>1, <1>2, ReadStep DEF e
<1> DEFINE l == [kind |-> k.kind, space |-> k.space, todo |-> new, before |-> k.before, event |-> k.event,
                 own |-> k.own, seen |-> k.seen \cup {e}]
<1>6. read' = [read EXCEPT ![r] = l] /\ UNCHANGED db
  <2>1. /\ e.rows = Select(k.space, Head(k.todo)) \cup IF Head(k.todo).what = "audit_events" THEN k.own ELSE {}
        /\ e = [what |-> Head(k.todo).what, of |-> Head(k.todo).of, rows |-> e.rows]
    BY <1>4 DEF Entry, Fetched
  <2>2. read' = [read EXCEPT ![r].todo = new, ![r].seen = @ \cup {e}]
    BY <2>1 DEF ReadNext
  <2>3. read = [q \in Readers |-> read[q]]
    BY DEF IInv
  <2> HIDE DEF e, new
  <2>4. [[k EXCEPT !.todo = new] EXCEPT !.seen = @ \cup {e}] = l
    <3> HIDE DEF k
    <3> QED
      BY <1>3, ReadRecord
  <2>5. read' = [read EXCEPT ![r] = [[k EXCEPT !.todo = new] EXCEPT !.seen = @ \cup {e}]]
    BY <2>2, <2>3
  <2> QED
    BY <2>4, <2>5 DEF ReadNext
<1>7. BusyInv(r, l, db)
  <2> HIDE DEF e, new, k
  <2> QED
    BY <1>4, <1>5 DEF BusyInv
<1>8. l.kind # "answered"
  BY <1>1, KindsOfViews DEF Kinds
<1>9. ReaderInv(r, l, db)
  BY <1>7, <1>8 DEF ReaderInv
<1>10. RecordInv(r, l, db)
  <2>1. RecordInv(r, k, db)
    BY DEF IInv, EventsInv
  <2>2. l.kind = k.kind /\ l.event = k.event
    OBVIOUS
  <2>3. k.kind # "idle"
    BY <1>1, KindsOfViews DEF Kinds
  <2> HIDE DEF l, k
  <2> QED
    BY <2>1, <2>2, <2>3, <1>1, <1>8 DEF RecordInv
<1> HIDE DEF l
<1> QED
  BY <1>6, <1>9, <1>10, ReaderKeeps

LEMMA BreakKeeps ==
    ASSUME IInv, NEW r \in Readers, Break(r)
    PROVE  IInv'
<1> DEFINE k == [kind |-> "error"]
<1>1. read' = [read EXCEPT ![r] = k] /\ UNCHANGED db /\ read[r].kind \in DOMAIN Plan
  BY DEF Break, Busy
<1>2. ReaderInv(r, k, db)
  BY KindsOfViews DEF ReaderInv, Kinds
<1>3. RecordInv(r, k, db)
  BY KindsOfViews DEF RecordInv, Kinds
<1> HIDE DEF k
<1> QED
  BY <1>1, <1>2, <1>3, ReaderKeeps

LEMMA SaveEventKeeps ==
    ASSUME IInv, NEW r \in Readers, SaveEvent(r)
    PROVE  IInv'
<1> DEFINE k == read[r]
           event == {[id |-> r, space |-> k.space]}
           l == [kind |-> k.kind, space |-> k.space, todo |-> k.todo, before |-> k.before, event |-> "committed",
                 own |-> k.own, seen |-> k.seen]
<1>1. /\ k.kind \in DOMAIN Plan
      /\ db' = [db EXCEPT !.audit_events = @ \cup event]
      /\ read' = [read EXCEPT ![r].event = "committed"]
  BY DEF SaveEvent, Busy
<1>2. DbInv(db) /\ BusyInv(r, k, db)
  BY <1>1 DEF IInv, ReaderInv
<1>3. DbInv(db') /\ Older(db, db') /\ db'.audit_events = db.audit_events \cup event
  <2> HIDE DEF event
  <2> QED
    BY <1>1, <1>2, EventStep
<1>4. read' = [q \in Readers |-> IF q = r THEN l ELSE read[q]]
  <2>1. [k EXCEPT !.event = "committed"] = l
    BY <1>2 DEF BusyInv
  <2>2. read = [q \in Readers |-> read[q]]
    BY DEF IInv
  <2> HIDE DEF l
  <2> QED
    BY <2>1, <2>2, <1>1
<1>5. ReaderInv(r, l, db)
  <2>1. l.kind \in DOMAIN Plan /\ l.kind # "answered"
    BY <1>1, KindsOfViews DEF Kinds
  <2>2. BusyInv(r, l, db)
    BY <1>2 DEF BusyInv
  <2> HIDE DEF l
  <2> QED
    BY <2>1, <2>2 DEF ReaderInv
<1>6. ASSUME NEW q \in Readers PROVE ReaderInv(q, read'[q], db')
  <2>1. ReaderInv(q, read'[q], db)
    <3>1. CASE q = r
      BY <3>1, <1>4, <1>5
    <3>2. CASE q # r
      BY <3>2, <1>4 DEF IInv
    <3> QED
      BY <3>1, <3>2
  <2> QED
    BY <2>1, <1>3, ReaderStays
<1>7. ASSUME NEW q \in Readers PROVE RecordInv(q, read'[q], db')
  <2>1. CASE q = r
    <3>1. OnRecord(r, db')
      <4> DEFINE own == [id |-> r, space |-> k.space]
      <4>1. own \in db'.audit_events /\ own.id = r
        BY <1>3
      <4> HIDE DEF own
      <4> QED
        BY <4>1 DEF OnRecord
    <3>2. read'[r].kind = k.kind /\ read'[r].event = "committed"
      BY <1>4
    <3>3. k.kind # "idle"
      BY <1>1, KindsOfViews DEF Kinds
    <3> QED
      BY <2>1, <3>1, <3>2, <3>3 DEF RecordInv
  <2>2. CASE q # r
    <3>1. OnRecord(q, db') <=> OnRecord(q, db)
      BY <2>2, <1>3 DEF OnRecord
    <3>2. read'[q] = read[q] /\ RecordInv(q, read[q], db)
      BY <2>2, <1>4 DEF IInv, EventsInv
    <3> QED
      BY <3>1, <3>2 DEF RecordInv
  <2> QED
    BY <2>1, <2>2
<1>8. EventsInv'
  BY <1>7 DEF EventsInv
<1>9. \A q \in Readers : ReaderInv(q, read[q], db)'
  BY <1>6
<1>10. (read = [q \in Readers |-> read[q]])'
  BY <1>4
<1> QED
  BY <1>3, <1>8, <1>9, <1>10 DEF IInv

LEMMA FinishKeeps ==
    ASSUME IInv, NEW r \in Readers, Finish(r)
    PROVE  IInv'
<1> DEFINE k == read[r]
           l == [kind |-> "answered", to |-> k.kind, space |-> k.space, before |-> k.before, seen |-> k.seen]
<1>1. /\ k.kind \in DOMAIN Plan /\ k.todo = << >>
      /\ k.kind \in Exports => k.event = "committed"
      /\ UNCHANGED db
  BY DEF Finish, Busy
<1>2. read' = [read EXCEPT ![r] = l]
  <2>1. read = [q \in Readers |-> read[q]]
    BY DEF IInv
  <2> QED
    BY <2>1 DEF Finish
<1>3. l.kind = "answered" /\ l.to = k.kind /\ l.space = k.space /\ l.before = k.before /\ l.seen = k.seen
  OBVIOUS
<1>4. l.kind \notin DOMAIN Plan /\ l.kind # "idle"
  BY KindsOfViews DEF Kinds
<1>5. ReaderInv(r, l, db)
  <2>1. ViewInv(r, k.kind, k.space, << >>, k.before, k.seen, db)
    BY <1>1 DEF IInv, ReaderInv, BusyInv
  <2> HIDE DEF k, l
  <2> QED
    BY <2>1, <1>3, <1>4 DEF ReaderInv
<1>6. RecordInv(r, l, db)
  <2>1. RecordInv(r, k, db)
    BY DEF IInv, EventsInv
  <2> HIDE DEF k, l
  <2> QED
    BY <2>1, <1>1, <1>3, <1>4 DEF RecordInv
<1> HIDE DEF k, l
<1> QED
  BY <1>1, <1>2, <1>5, <1>6, ReaderKeeps

LEMMA NextKeeps == IInv /\ [Next]_vars => IInv'
<1> SUFFICES ASSUME IInv, [Next]_vars PROVE IInv'
  OBVIOUS
<1>1. DbInv(db) /\ EventsInv
  BY DEF IInv
<1>2. ASSUME NEW d \in Documents, CommitDocument(d) PROVE IInv'
  <2>1. DbInv(db') /\ Older(db, db')
    BY <1>1, <1>2, DocumentStep
  <2>2. read' = read /\ db'.audit_events = db.audit_events
    BY <1>2 DEF CommitDocument, Commit, Added, Tables
  <2> QED
    BY <2>1, <2>2, WriterKeeps
<1>3. ASSUME NEW d \in Documents, NEW status \in Outcomes, CommitOutcome(d, status) PROVE IInv'
  <2>1. DbInv(db') /\ Older(db, db')
    BY <1>1, <1>3, OutcomeStep
  <2>2. read' = read /\ db'.audit_events = db.audit_events
    BY <1>3 DEF CommitOutcome, Commit, Added, Tables
  <2> QED
    BY <2>1, <2>2, WriterKeeps
<1>4. ASSUME NEW x \in Exchanges, Answer(x) PROVE IInv'
  <2>1. DbInv(db') /\ Older(db, db')
    BY <1>1, <1>4, AnswerStep
  <2>2. read' = read /\ db'.audit_events = db.audit_events
    BY <1>4 DEF Answer, Commit, Added, Tables
  <2> QED
    BY <2>1, <2>2, WriterKeeps
<1>5. ASSUME NEW i \in Items, CommitReview(i) PROVE IInv'
  <2>1. read' = read
    BY <1>5 DEF CommitReview, Commit
  <2> QED
    BY <2>1, <1>1, <1>5, ReviewStep, WriterKeeps
<1>6. ASSUME NEW r \in Readers, NEW kind \in DOMAIN Plan, NEW w \in Workspaces, Begin(r, kind, w) PROVE IInv'
  BY <1>6, BeginKeeps
<1>7. ASSUME NEW r \in Readers, ReadNext(r) PROVE IInv'
  BY <1>7, ReadNextKeeps
<1>8. ASSUME NEW r \in Readers, Finish(r) PROVE IInv'
  BY <1>8, FinishKeeps
<1>9. ASSUME NEW r \in Readers, Break(r) PROVE IInv'
  BY <1>9, BreakKeeps
<1>11. ASSUME NEW r \in Readers, SaveEvent(r) PROVE IInv'
  BY <1>11, SaveEventKeeps
<1>10. ASSUME UNCHANGED vars PROVE IInv'
  <2>1. db' = db /\ read' = read
    BY <1>10 DEF vars
  <2>2. DbInv(db') /\ Older(db, db')
    BY <2>1, <1>1, OlderReflexive
  <2> QED
    BY <2>1, <2>2, WriterKeeps
<1> QED
  BY <1>2, <1>3, <1>4, <1>5, <1>6, <1>7, <1>8, <1>9, <1>10, <1>11 DEF Next

-----------------------------------------------------------------------------
(* Theorems *)

\* The inductive invariant holds in every reachable state.
THEOREM Invariance == Spec => []IInv
<1>1. Init => IInv
  BY InitEstablishes
<1>2. IInv /\ [Next]_vars => IInv'
  BY NextKeeps
<1> QED
  BY <1>1, <1>2, PTL DEF Spec

\* What an answered reader got is a view with nothing left to read.
LEMMA AnsweredView ==
    ASSUME IInv, NEW kinds, NEW r \in Answered(kinds)
    PROVE  /\ r \in Readers /\ read[r].to \in kinds
           /\ ViewInv(r, read[r].to, read[r].space, << >>, read[r].before, read[r].seen, db)
BY DEF IInv, Answered, ReaderInv

\* Whatever was committed in a workspace before one of its views was asked for
\* is in the view: the compliance export, the document list, a chat's messages
\* and the review export, in any of their tables.
THEOREM NothingOldIsMissedAlways == Spec => []NothingOldIsMissed
<1>1. IInv => NothingOldIsMissed
  <2> SUFFICES ASSUME IInv, NEW r \in Answered({"export", "documents", "chat", "reviews"}),
                      NEW s \in read[r].seen
               PROVE  Complete(read[r].before, read[r].space, s)
    BY DEF NothingOldIsMissed, Complete
  <2> QED
    BY AnsweredView DEF ViewInv
<1> QED
  BY <1>1, Invariance, PTL

\* No view of a workspace, however it is assembled, shows a row of another one.
THEOREM OnlyOwnRowsAlways == Spec => []OnlyOwnRows
<1>1. IInv => OnlyOwnRows
  <2> SUFFICES ASSUME IInv, NEW r \in Answered(DOMAIN Plan \ {"admin_workspaces"}),
                      NEW s \in read[r].seen
               PROVE  Mine(read[r].space, s)
    BY DEF OnlyOwnRows, Mine
  <2>1. read[r].to # "admin_workspaces"
    BY AnsweredView
  <2> QED
    BY <2>1, AnsweredView DEF ViewInv
<1> QED
  BY <1>1, Invariance, PTL

\* What a view shows is never ahead of its parts: a document an export or the
\* list calls indexed comes with its chunks, an uploaded one with its file, a
\* finished one with the job that finished it, an answer with its question and
\* every citation; and the counts of an admin page fit each other.
THEOREM PartsComeWithTheWholeAlways == Spec => []PartsComeWithTheWhole
<1>1. IInv => PartsComeWithTheWhole
  <2> SUFFICES ASSUME IInv PROVE PartsComeWithTheWhole
    OBVIOUS
  <2>1. /\ \A r, what : Seen(r, what) = Rows(read[r].seen, what)
        /\ \A r, what, id : SeenOf(r, what, id) = RowsOf(read[r].seen, what, id)
    BY DEF Seen, SeenOf, Rows, RowsOf
  <2>2. \A what : ~Due(<< >>, what)
    BY DEF Due, Range
  <2>3. \A what, id : ~DueOf(<< >>, what, id)
    BY DEF DueOf, Range
  <2>4. ASSUME NEW r \in Answered({"export"})
        PROVE  /\ \A d \in Seen(r, "documents") :
                     /\ d.status = "indexed" => ChunksOf(d.id) \subseteq Seen(r, "chunks")
                     /\ d.id \in Uploads => \E f \in Seen(r, "files") : f.document = d.id
    <3>1. read[r].to = "export" /\ ViewInv(r, read[r].to, read[r].space, << >>, read[r].before, read[r].seen, db)
      BY AnsweredView
    <3>2. ExportParts(r, << >>, read[r].seen)
      BY <3>1 DEF ViewInv
    <3> QED
      BY <3>2, <2>1, <2>2 DEF ExportParts
  <2>5. ASSUME NEW r \in Answered({"documents"}), NEW d \in Seen(r, "documents")
        PROVE  /\ d.id \in Uploads => SeenOf(r, "files of", d.id) # {}
               /\ d.status # "processing" =>
                     /\ \A j \in SeenOf(r, "job of", d.id) : j.status = "failed" <=> d.status = "failed"
                     /\ \A c \in SeenOf(r, "chunk count of", d.id) : c.count > 0 <=> d.status = "indexed"
    <3>1. read[r].to = "documents" /\ ViewInv(r, read[r].to, read[r].space, << >>, read[r].before, read[r].seen, db)
      BY AnsweredView
    <3>2. ListParts(<< >>, read[r].seen)
      BY <3>1 DEF ViewInv
    <3> QED
      BY <3>2, <2>1, <2>3 DEF ListParts
  <2>6. ASSUME NEW r \in Answered({"export", "chat"}), NEW m \in Seen(r, "messages")
        PROVE  /\ \E n \in Seen(r, "messages") : n.id[1] = m.id[1] /\ n.role # m.role
               /\ m.role = "assistant" =>
                     \A rank \in DOMAIN m.text :
                         \E c \in Seen(r, "citations") \cup Seen(r, "citations of") :
                             c.message = m.id /\ c.rank = rank
    <3>1. /\ read[r].to \in {"export", "chat"}
          /\ ViewInv(r, read[r].to, read[r].space, << >>, read[r].before, read[r].seen, db)
      BY AnsweredView
    <3>2. ChatParts(<< >>, read[r].seen)
      BY <3>1 DEF ViewInv
    <3> QED
      BY <3>2, <2>1, <2>2, <2>3 DEF ChatParts
  <2>7. ASSUME NEW kinds, NEW r \in Answered(kinds)
        PROVE  PageParts(read[r].seen)
    BY AnsweredView DEF ViewInv
  <2>8. \A r \in Answered({"admin_documents"}) : \A d \in Seen(r, "metadata page") :
           /\ d.files = IF d.id \in Uploads THEN 1 ELSE 0
           /\ d.chunks > 0 <=> d.status = "indexed"
    BY <2>1, <2>7 DEF PageParts, MetadataFit
  <2>9. \A r \in Answered({"admin_workspaces"}) : \A w \in Seen(r, "workspace page") :
           w.failed <= w.documents /\ w.files <= w.documents /\ w.plan # {}
    BY <2>1, <2>7 DEF PageParts, CountsFit
  <2> QED
    BY <2>4, <2>5, <2>6, <2>8, <2>9 DEF PartsComeWithTheWhole
<1> QED
  BY <1>1, Invariance, PTL

\* No export leaves unrecorded: one that was answered has its event in the
\* audit trail, the compliance export in its own data as well, and one that
\* still reads, or has nothing committed yet, has none.
THEOREM ExportsAlwaysOnRecord == Spec => []ExportsAreOnRecord
<1>1. IInv => ExportsAreOnRecord
  <2> SUFFICES ASSUME IInv, NEW r \in Readers
               PROVE  /\ r \in Answered(Exports) =>
                            /\ \E e \in db.audit_events : e.id = r
                            /\ read[r].to = "export" => \E e \in Seen(r, "audit_events") : e.id = r
                      /\ Busy(r) => ((\E e \in db.audit_events : e.id = r) <=> read[r].event = "committed")
    BY DEF ExportsAreOnRecord
  <2>1. RecordInv(r, read[r], db)
    BY DEF IInv, EventsInv
  <2>2. ASSUME r \in Answered(Exports) PROVE \E e \in db.audit_events : e.id = r
    BY <2>1, <2>2 DEF RecordInv, Answered, OnRecord
  <2>3. ASSUME r \in Answered(Exports), read[r].to = "export"
        PROVE  \E e \in Seen(r, "audit_events") : e.id = r
    <3>1. ViewInv(r, read[r].to, read[r].space, << >>, read[r].before, read[r].seen, db)
      BY <2>3, AnsweredView
    <3>2. ExportParts(r, << >>, read[r].seen)
      BY <3>1, <2>3 DEF ViewInv
    <3>3. ~Due(<< >>, "audit_events")
      BY DEF Due, Range
    <3>4. Seen(r, "audit_events") = Rows(read[r].seen, "audit_events")
      BY DEF Seen, Rows
    <3> QED
      BY <3>2, <3>3, <3>4 DEF ExportParts
  <2>4. ASSUME Busy(r) PROVE (\E e \in db.audit_events : e.id = r) <=> read[r].event = "committed"
    BY <2>1, <2>4 DEF RecordInv, Busy, OnRecord
  <2> QED
    BY <2>2, <2>3, <2>4
<1> QED
  BY <1>1, Invariance, PTL

\* The commits of ingestion, chat and reviews, and the events of the exports,
\* only ever move the database forward.
THEOREM CommitsMoveForward == Spec => [][Older(db, db')]_db
<1>1. IInv /\ [Next]_vars => [Older(db, db')]_db
  <2> SUFFICES ASSUME IInv, Next PROVE Older(db, db') \/ UNCHANGED db
    BY DEF vars
  <2>1. DbInv(db)
    BY DEF IInv
  <2>2. ASSUME NEW r \in Readers, SaveEvent(r) PROVE Older(db, db')
    BY <2>1, <2>2, EventStep DEF SaveEvent
  <2> QED
    BY <2>1, <2>2, DocumentStep, OutcomeStep, AnswerStep, ReviewStep DEF Next, Begin, ReadNext, Finish, Break
<1> QED
  BY <1>1, Invariance, PTL DEF Spec

=============================================================================
