------------------------------- MODULE Query -------------------------------
(***************************************************************************)
(* Questions about the documents of one workspace (app/routes/query.py):   *)
(* each handler runs in a thread of the server's pool, re-indexes the      *)
(* documents it may cite into the vector store all handlers share          *)
(* (app/indexing/indexer.py), searches it, and commits the exchange in one *)
(* transaction. The store lives in the process; its rows are taken per     *)
(* document. An UPDATE of a chat session holds that row's lock until the   *)
(* transaction ends. A query that names no session creates one, so such a  *)
(* query also names the row.                                               *)
(***************************************************************************)
EXTENDS Naturals, FiniteSets

CONSTANTS
    Queries,     \* requests to POST .../query and .../query/stream
    Plain,       \* queries that are blank or read "New chat"
    Docs,
    Sessions,    \* sessions created by POST .../chat-sessions
    Faulty,      \* queries that may meet an error no handler expects
    DailyLimit,  \* daily_query_limit of the workspace's plan
    Threads,     \* capacity of the server's thread pool
    MaxCrashes,  \* bound on process deaths
    None         \* no session, no document, nobody

ASSUME QueryAssumption ==
    /\ Faulty \subseteq Queries /\ Plain \subseteq Queries
    /\ Sessions \cap Queries = {}
    /\ None \notin Queries \cup Docs \cup Sessions
    /\ DailyLimit \in Nat /\ MaxCrashes \in Nat /\ Threads \in Nat \ {0}

(* A query stands for the title made of its words; Plain has those whose   *)
(* words make none of their own.                                           *)
ASSUME TitleAssumption == Queries \cap {"absent", "New chat", "titled"} = {}

VARIABLES
    status,    \* documents.status
    store,     \* documents whose chunks are in the vector store
    title,     \* title[c]: "absent", "New chat", "titled" by the client, or
               \* the query it is named after
    holder,    \* holder[c]: the query whose transaction locks the session's row
    messages,  \* queries whose question and answer are committed
    counted,   \* queries with a query.count event of the last 24 hours
    pc,
    ask,       \* ask[q]: chat_session_id and document_ids of the body
    todo,      \* todo[q]: documents still to be indexed for q
    current,   \* current[q]: the document q is indexing, or None
    chunks,    \* chunks[q]: q has read chunk rows of that document
    found,     \* found[q]: documents q's search could see
    cited,     \* cited[q]: documents the answer cites
    http,
    crashes,
    put, met   \* history: documents q has put in the store, queries q overlapped

database == <<status, title, messages, counted>>
local    == <<ask, todo, current, chunks, found, cited>>
history  == <<put, met>>
vars     == <<database, store, holder, pc, local, http, crashes, history>>

Chats == Sessions \cup Queries

Live(q) == pc[q] \notin {"idle", "done"}
Running == {q \in Queries : Live(q)}
Known   == {d \in Docs : status[d] # "absent"}

(* An empty or missing document_ids asks about the whole workspace.        *)
Scope(q) == IF ask[q].docs = {} THEN Docs ELSE ask[q].docs

Init ==
    /\ status = [d \in Docs |-> "absent"]
    /\ store = {}
    /\ title = [c \in Chats |-> "absent"]
    /\ holder = [c \in Chats |-> None]
    /\ messages = {}
    /\ counted = {}
    /\ pc = [q \in Queries |-> "idle"]
    /\ ask = [q \in Queries |-> [session |-> None, docs |-> {}]]
    /\ todo = [q \in Queries |-> {}]
    /\ current = [q \in Queries |-> None]
    /\ chunks = [q \in Queries |-> FALSE]
    /\ found = [q \in Queries |-> {}]
    /\ cited = [q \in Queries |-> {}]
    /\ http = [q \in Queries |-> "none"]
    /\ crashes = 0
    /\ put = [q \in Queries |-> {}]
    /\ met = [q \in Queries |-> {}]

Goto(q, l) == pc' = [pc EXCEPT ![q] = l]

(* The transaction ends, either way: its row lock is released.             *)
Unlock(q) == holder' = [c \in Chats |-> IF holder[c] = q THEN None ELSE holder[c]]

(* The handler raises: get_db closes the session, which rolls back.        *)
Refuse(q, code) ==
    /\ Goto(q, "done")
    /\ http' = [http EXCEPT ![q] = code]
    /\ Unlock(q)
    /\ UNCHANGED <<database, store, local, crashes, history>>

-----------------------------------------------------------------------------
(* The session another query has created is known once it is committed.    *)
Named == {c \in Chats : c \in Sessions \/ title[c] # "absent"}

(* A thread of the pool takes the request; the tenant dependency has let it *)
(* pass, as in module Ingestion.                                           *)
Begin(q) ==
    /\ pc[q] = "idle"
    /\ Cardinality(Running) < Threads
    /\ \E c \in Named \cup {None}, D \in SUBSET Docs :
         ask' = [ask EXCEPT ![q] = [session |-> c, docs |-> D]]
    /\ Goto(q, "session")
    /\ met' = [p \in Queries |-> IF p = q THEN Running
                                 ELSE IF Live(p) THEN met[p] \cup {q} ELSE met[p]]
    /\ UNCHANGED <<database, store, holder, todo, current, chunks, found, cited,
                   http, crashes, put>>

(* The title a query gives; an UPDATE to the same value is not sent.       *)
TitleFromQuery(q) == IF q \in Plain THEN "New chat" ELSE q

(* Mutant: the title is written whether it changes or not.                 *)
ResolveChatSessionAlways(q) ==
    /\ pc[q] = "session"
    /\ LET c == ask[q].session IN
       IF c # None /\ title[c] = "absent" THEN Refuse(q, "404")
       ELSE /\ Goto(q, IF c # None /\ title[c] = "New chat" THEN "rename"
                       ELSE "documents")
            /\ UNCHANGED <<database, store, holder, local, http, crashes, history>>

(* A session the body names is read; one that is still called "New chat"   *)
(* is renamed. Otherwise a session is inserted, which nobody sees before   *)
(* the commit.                                                             *)
ResolveChatSession(q) ==
    /\ pc[q] = "session"
    /\ LET c == ask[q].session IN
       IF c # None /\ title[c] = "absent" THEN Refuse(q, "404")
       ELSE /\ Goto(q, IF c # None /\ title[c] = "New chat" /\ TitleFromQuery(q) # title[c]
                       THEN "rename" ELSE "documents")
            /\ UNCHANGED <<database, store, holder, local, http, crashes, history>>

(* Mutant: the new title is committed at once.                             *)
RenameSessionCommits(q) ==
    /\ pc[q] = "rename"
    /\ holder[ask[q].session] = None
    /\ title' = [title EXCEPT ![ask[q].session] = q]
    /\ Goto(q, "documents")
    /\ UNCHANGED <<status, messages, counted, holder, store, local, http,
                   crashes, history>>

(* The UPDATE waits for whoever renamed the session first.                 *)
RenameSession(q) ==
    /\ pc[q] = "rename"
    /\ holder[ask[q].session] = None
    /\ holder' = [holder EXCEPT ![ask[q].session] = q]
    /\ Goto(q, "documents")
    /\ UNCHANGED <<database, store, local, http, crashes, history>>

(* Documents of another workspace are not among those the rows name.       *)
ResolveDocumentIds(q) ==
    /\ pc[q] = "documents"
    /\ IF ask[q].docs \subseteq Known
       THEN /\ todo' = [todo EXCEPT ![q] = Scope(q) \cap Known]
            /\ Goto(q, "quota")
            /\ UNCHANGED <<database, store, holder, ask, current, chunks, found,
                           cited, http, crashes, history>>
       ELSE Refuse(q, "404")

(* Mutant: the limit is compared with what is there, not what will be.     *)
AssertCanQueryOffByOne(q) ==
    /\ pc[q] = "quota"
    /\ IF Cardinality(counted) > DailyLimit THEN Refuse(q, "429")
       ELSE /\ Goto(q, "index")
            /\ UNCHANGED <<database, store, holder, local, http, crashes, history>>

(* The limit of the plan; the count of the last 24 hours.                  *)
AssertCanQuery(q) ==
    /\ pc[q] = "quota"
    /\ IF Cardinality(counted) + 1 > DailyLimit THEN Refuse(q, "429")
       ELSE /\ Goto(q, "index")
            /\ UNCHANGED <<database, store, holder, local, http, crashes, history>>

-----------------------------------------------------------------------------
(* index_document for one document after the other, in any order: its      *)
(* chunk rows are read, its vectors deleted, the new ones put in.          *)

(* Mutant: the chunks of a document that is still processing are assumed.  *)
ReadChunksUnseen(q) ==
    /\ pc[q] = "index"
    /\ \E d \in todo[q] :
         /\ todo' = [todo EXCEPT ![q] = @ \ {d}]
         /\ current' = [current EXCEPT ![q] = d]
         /\ chunks' = [chunks EXCEPT ![q] = TRUE]
    /\ Goto(q, "delete")
    /\ UNCHANGED <<database, store, holder, ask, found, cited, http, crashes, history>>

ReadChunks(q) ==
    /\ pc[q] = "index"
    /\ \E d \in todo[q] :
         /\ todo' = [todo EXCEPT ![q] = @ \ {d}]
         /\ current' = [current EXCEPT ![q] = d]
         /\ chunks' = [chunks EXCEPT ![q] = (status[d] = "indexed")]
    /\ Goto(q, "delete")
    /\ UNCHANGED <<database, store, holder, ask, found, cited, http, crashes, history>>

DeleteVectors(q) ==
    /\ pc[q] = "delete"
    /\ store' = store \ {current[q]}
    /\ Goto(q, "upsert")
    /\ UNCHANGED <<database, holder, local, http, crashes, history>>

(* Mutant: the new vectors are put in before the old ones are deleted.     *)
UpsertVectorsFirst(q) ==
    /\ pc[q] = "upsert"
    /\ store' = store \ {current[q]}
    /\ put' = [put EXCEPT ![q] = @ \cup (IF chunks[q] THEN {current[q]} ELSE {})]
    /\ current' = [current EXCEPT ![q] = None]
    /\ Goto(q, "index")
    /\ UNCHANGED <<database, holder, ask, todo, chunks, found, cited, http,
                   crashes, met>>

UpsertVectors(q) ==
    /\ pc[q] = "upsert"
    /\ LET new == IF chunks[q] THEN {current[q]} ELSE {} IN
       /\ store' = store \cup new
       /\ put' = [put EXCEPT ![q] = @ \cup new]
    /\ current' = [current EXCEPT ![q] = None]
    /\ Goto(q, "index")
    /\ UNCHANGED <<database, holder, ask, todo, chunks, found, cited, http,
                   crashes, met>>

-----------------------------------------------------------------------------
(* The search sees what the store holds now, of the documents asked for.   *)
Retrieve(q) ==
    /\ pc[q] = "index" /\ todo[q] = {}
    /\ found' = [found EXCEPT ![q] = store \cap Scope(q)]
    /\ Goto(q, "generate")
    /\ UNCHANGED <<database, store, holder, ask, todo, current, chunks, cited,
                   http, crashes, history>>

(* The answer cites some of what was retrieved, or nothing when there is   *)
(* no evidence; a claim without a citation is refused.                     *)
Generate(q) ==
    /\ pc[q] = "generate"
    /\ \/ /\ \E C \in SUBSET found[q] : cited' = [cited EXCEPT ![q] = C]
          /\ Goto(q, "persist")
          /\ UNCHANGED <<database, store, holder, ask, todo, current, chunks,
                         found, http, crashes, history>>
       \/ found[q] # {} /\ Refuse(q, "422")

(* touch_session updates the session's row, so it waits for its lock too.  *)
TouchSession(q) ==
    LET c == ask[q].session IN c # None => holder[c] \in {q, None}

(* The exchange: the question, the answer and its citations.               *)
PersistConversation(q) == messages' = messages \cup {q}

(* The new name of the session this query has locked, or the session it    *)
(* has inserted.                                                           *)
NameSession(q) ==
    title' = [c \in Chats |-> IF holder[c] = q \/ (c = q /\ ask[q].session = None)
                              THEN TitleFromQuery(q) ELSE title[c]]

(* Mutant: the row lock outlives the commit.                               *)
CommitKeepsLock(q) ==
    /\ pc[q] = "persist"
    /\ TouchSession(q)
    /\ PersistConversation(q)
    /\ NameSession(q)
    /\ counted' = counted \cup {q}
    /\ Goto(q, "respond")
    /\ UNCHANGED <<status, holder, store, local, http, crashes, history>>

(* Usage, exchange and session in one transaction.                         *)
Commit(q) ==
    /\ pc[q] = "persist"
    /\ TouchSession(q)
    /\ PersistConversation(q)
    /\ NameSession(q)
    /\ counted' = counted \cup {q}
    /\ Goto(q, "respond")
    /\ Unlock(q)
    /\ UNCHANGED <<status, store, local, http, crashes, history>>

(* The response is made of what was committed.                             *)
Respond(q) ==
    /\ pc[q] = "respond"
    /\ Goto(q, "done")
    /\ http' = [http EXCEPT ![q] = "200"]
    /\ UNCHANGED <<database, store, holder, local, crashes, history>>

(* An error no handler expects (a database timeout): 500 and a rollback of *)
(* what is not committed.                                                  *)
Uncaught(q) == q \in Faulty /\ Live(q) /\ Refuse(q, "500")

-----------------------------------------------------------------------------
(* The environment.                                                        *)

CreateChatSession(s) ==
    /\ title[s] = "absent"
    /\ \E t \in {"New chat", "titled"} : title' = [title EXCEPT ![s] = t]
    /\ UNCHANGED <<status, messages, counted, store, holder, pc, local, http,
                   crashes, history>>

(* Ingestion: a document's row is committed, later its chunks. A document  *)
(* whose ingestion fails stays without chunks.                             *)
Ingest(d) ==
    /\ \/ status[d] = "absent" /\ status' = [status EXCEPT ![d] = "processing"]
       \/ status[d] = "processing" /\ status' = [status EXCEPT ![d] = "indexed"]
    /\ UNCHANGED <<title, messages, counted, store, holder, pc, local, http,
                   crashes, history>>

(* A query.count event leaves the window daily_query_count sums over.      *)
ADayPasses ==
    /\ \E q \in counted : counted' = counted \ {q}
    /\ UNCHANGED <<status, title, messages, store, holder, pc, local, http,
                   crashes, history>>

(* The process dies and restarts with an empty store; the database rolls   *)
(* back every open transaction.                                            *)
Crash ==
    /\ crashes < MaxCrashes
    /\ crashes' = crashes + 1
    /\ pc' = [q \in Queries |-> IF Live(q) THEN "done" ELSE pc[q]]
    /\ store' = {}
    /\ holder' = [c \in Chats |-> None]
    /\ UNCHANGED <<database, local, http, history>>

Step(q) ==
    \/ ResolveChatSession(q) \/ RenameSession(q) \/ ResolveDocumentIds(q)
    \/ AssertCanQuery(q) \/ ReadChunks(q) \/ DeleteVectors(q)
    \/ UpsertVectors(q) \/ Retrieve(q) \/ Generate(q) \/ Commit(q)
    \/ Respond(q)

Next ==
    \/ \E q \in Queries : Begin(q) \/ Step(q) \/ Uncaught(q)
    \/ \E s \in Sessions : CreateChatSession(s)
    \/ \E d \in Docs : Ingest(d)
    \/ ADayPasses \/ Crash

Spec == Init /\ [][Next]_vars

(* A thread runs the handler it was given, and the database grants a lock  *)
(* that stays free; nobody need ask, ingest or crash.                      *)
FairSpec == Spec /\ \A q \in Queries : WF_vars(Step(q))
-----------------------------------------------------------------------------
(* Properties.                                                             *)

(* Every variable stays in its range; only a session that exists is locked. *)
TypeOK ==
    /\ status \in [Docs -> {"absent", "processing", "indexed"}]
    /\ store \subseteq Docs
    /\ title \in [Chats -> {"absent", "New chat", "titled"} \cup Queries]
    /\ holder \in [Chats -> Queries \cup {None}]
    /\ messages \subseteq Queries /\ counted \subseteq Queries
    /\ pc \in [Queries -> {"idle", "session", "rename", "documents", "quota",
                           "index", "delete", "upsert", "generate", "persist",
                           "respond", "done"}]
    /\ ask \in [Queries -> [session : Chats \cup {None}, docs : SUBSET Docs]]
    /\ todo \in [Queries -> SUBSET Docs]
    /\ current \in [Queries -> Docs \cup {None}]
    /\ chunks \in [Queries -> BOOLEAN]
    /\ found \in [Queries -> SUBSET Docs]
    /\ cited \in [Queries -> SUBSET Docs]
    /\ http \in [Queries -> {"none", "200", "404", "422", "429", "500"}]
    /\ crashes \in 0..MaxCrashes
    /\ put \in [Queries -> SUBSET Docs]
    /\ met \in [Queries -> SUBSET Queries]

(* Queries past the quota check whose query.count event is not committed.  *)
Admitted == {q \in Queries : pc[q] \in {"index", "delete", "upsert", "generate", "persist"}}

(* The daily quota is checked at the start and consumed at the end of a    *)
(* query, with the indexing in between: concurrent queries can exceed it,  *)
(* by fewer than the pool has threads.                                     *)
QueryOvershootBounded ==
    Cardinality(counted \cup Admitted) < DailyLimit + Threads

(* A row lock belongs to a running query that renamed that very session,   *)
(* so a session is never left locked, and two queries never rename it at   *)
(* the same time.                                                          *)
LocksAreHeld ==
    \A c \in Chats : holder[c] # None =>
        /\ ask[holder[c]].session = c
        /\ pc[holder[c]] \in {"documents", "quota"} \/ holder[c] \in Admitted
        /\ title[c] # "absent"

ChatOf(q) == IF ask[q].session = None THEN q ELSE ask[q].session

(* A query leaves its exchange, its charge, its new session and its words  *)
(* as a session's name together, or nothing at all, wherever it is refused *)
(* or breaks off and although it may have renamed a session long before:   *)
(* an answered one all of it, a refused one nothing. One that got a 500 or *)
(* no answer may have left either, so asking again may charge twice.       *)
ExchangesAreWhole ==
    /\ \A q \in Queries :
          /\ http[q] = "200" => q \in messages
          /\ http[q] \in {"404", "422", "429"} => q \notin messages
          /\ title[q] # "absent" <=> q \in messages /\ ask[q].session = None
    /\ counted \subseteq messages
    /\ \A c \in Chats : title[c] \in Queries =>
           title[c] \in messages /\ ChatOf(title[c]) = c

(* A chat session somebody has asked in with words that make a title has a *)
(* name, also if others asked in it at the same time with a copy that was  *)
(* still called "New chat" and no words for a better one.                  *)
AskedSessionsAreNamed ==
    \A q \in messages \ Plain : title[ChatOf(q)] \in Queries \cup {"titled"}

(* An answer cites only fully ingested documents, whoever put them in the  *)
(* store and however stale the chunk rows were that a query had read.      *)
CitationsAreGrounded ==
    \A q \in Queries : \A d \in cited[q] : status[d] = "indexed"

(* A query may miss a document it has just put in the store itself, but    *)
(* only if another query it overlapped was indexing that same document.    *)
OnlyRivalsHideEvidence ==
    \A q \in Queries : pc[q] \in {"generate", "persist"} =>
        \A d \in put[q] \ found[q] : \E p \in met[q] : d \in Scope(p)

(* Whoever waits for a session's row gets it: every query that began ends. *)
QueryEnds == \A q \in Queries : Live(q) ~> pc[q] = "done"
=============================================================================
