--------------------------- MODULE Query_proofs ---------------------------
(***************************************************************************)
(* Proofs about module Query, for any sets of queries, documents and chat  *)
(* sessions (finite or not), any limit and any capacity of the pool.       *)
(***************************************************************************)
EXTENDS Query, FiniteSetTheorems, TLAPS

-----------------------------------------------------------------------------
(* The inductive invariant.                                                *)

Indexing == {"index", "delete", "upsert"}
Past     == {"documents", "quota", "generate", "persist"} \cup Indexing

(* A document is taken from the ones still to be indexed before its        *)
(* vectors are deleted, so a query indexes it once; it asked for it.       *)
IndexOnce ==
    \A q \in Queries :
        /\ pc[q] \in {"delete", "upsert"} =>
              /\ current[q] \in Docs \cap Scope(q)
              /\ current[q] \notin todo[q] \cup put[q]
        /\ pc[q] \in Indexing \cup {"quota"} => todo[q] \subseteq Scope(q) \ put[q]
        /\ pc[q] \in {"idle", "session", "rename", "documents", "quota"} => put[q] = {}
        /\ put[q] \subseteq Scope(q)

(* What the store holds, what is about to be put there and what a search   *)
(* found are documents completely ingested.                                *)
Grounded ==
    /\ \A d \in store : status[d] = "indexed"
    /\ \A q \in Queries :
          /\ pc[q] \in {"delete", "upsert"} /\ chunks[q] => status[current[q]] = "indexed"
          /\ \A d \in found[q] \cup cited[q] : status[d] = "indexed"

(* A query in progress has no response yet, and no message before its      *)
(* commit. The session it renames exists; past the session's lookup a      *)
(* query with words for a title finds its session named or holds its row.  *)
SessionsByLocation ==
    \A q \in Queries :
        /\ pc[q] # "done" => http[q] = "none"
        /\ pc[q] \notin {"respond", "done"} => q \notin messages
        /\ pc[q] = "respond" => q \in messages
        /\ pc[q] = "rename" => /\ ask[q].session \in Chats
                               /\ title[ask[q].session] # "absent"
                               /\ q \notin Plain
        /\ pc[q] \in Past /\ ask[q].session # None /\ q \notin Plain =>
              \/ title[ask[q].session] \in Queries \cup {"titled"}
              \/ holder[ask[q].session] = q

(* Only a query with words for a title holds a session's row.              *)
HoldersHaveWords == \A c \in Chats : holder[c] # None => holder[c] \notin Plain

(* Two running queries have met; who was met has begun.                    *)
Acquainted ==
    \A p, q \in Queries :
        /\ Live(p) /\ Live(q) /\ p # q => p \in met[q]
        /\ p \in met[q] => pc[p] # "idle"

(* What a query has put in the store is there, or a rival took it out.     *)
EvidenceOrRival ==
    \A q \in Queries : pc[q] \in Indexing =>
        \A d \in put[q] \ store : \E p \in met[q] : d \in Scope(p)

PoolBounded == IsFiniteSet(Running) /\ Cardinality(Running) <= Threads

OvershootInv == IsFiniteSet(counted \cup Admitted) /\ QueryOvershootBounded

TypeInv    == TypeOK /\ IndexOnce
SessionInv == LocksAreHeld /\ HoldersHaveWords /\ SessionsByLocation /\ ExchangesAreWhole
              /\ AskedSessionsAreNamed

-----------------------------------------------------------------------------
(* Types.                                                                  *)

LEMMA InitTypes == Init => TypeInv
<1>1. Init => TypeOK
    BY QueryAssumption DEF Init, TypeOK
<1>2. Init => IndexOnce
    BY DEF Init, IndexOnce, Indexing
<1> QED  BY <1>1, <1>2 DEF TypeInv

LEMMA RefuseTypes ==
    ASSUME TypeInv, NEW q \in Queries,
           NEW code \in {"404", "422", "429", "500"}, Refuse(q, code)
    PROVE  TypeInv'
<1>1. TypeOK'
    BY DEF TypeInv, TypeOK, Refuse, Goto, Unlock, database, local, history
<1>2. IndexOnce'
    BY DEF TypeInv, TypeOK, IndexOnce, Indexing, Scope, Refuse, Goto, local, history
<1> QED  BY <1>1, <1>2 DEF TypeInv

LEMMA CrashCounts == TypeOK /\ Crash => crashes' \in 0..MaxCrashes
<1> SUFFICES ASSUME crashes \in 0..MaxCrashes, crashes < MaxCrashes, crashes' = crashes + 1
             PROVE  crashes' \in 0..MaxCrashes
    BY DEF TypeOK, Crash
<1> QED  BY QueryAssumption

LEMMA StepTypeOK == TypeInv /\ [Next]_vars => TypeOK'
<1> SUFFICES ASSUME TypeInv, [Next]_vars
             PROVE  TypeOK'
    OBVIOUS
<1> TypeOK /\ \A q \in Queries : pc[q] \in {"delete", "upsert"} => current[q] \in Docs
    BY DEF TypeInv, IndexOnce
<1>a. ASSUME NEW q \in Queries, NEW code \in {"404", "422", "429", "500"}, Refuse(q, code)
      PROVE  TypeOK'
    BY <1>a, RefuseTypes DEF TypeInv
<1> USE DEF TypeOK, database, local, history, Goto
<1>1. CASE UNCHANGED vars
    BY <1>1 DEF vars
<1>2. ASSUME NEW q \in Queries, Begin(q)
      PROVE  TypeOK'
  <2>1. PICK c \in Named \cup {None}, D \in SUBSET Docs :
            ask' = [ask EXCEPT ![q] = [session |-> c, docs |-> D]]
      BY <1>2 DEF Begin
  <2>2. /\ pc[q] = "idle"
        /\ pc' = [pc EXCEPT ![q] = "session"]
        /\ met' = [p \in Queries |-> IF p = q THEN Running
                                     ELSE IF Live(p) THEN met[p] \cup {q} ELSE met[p]]
        /\ UNCHANGED <<database, store, holder, todo, current, chunks, found, cited,
                       http, crashes, put>>
      BY <1>2 DEF Begin
  <2>3. ask' \in [Queries -> [session : Chats \cup {None}, docs : SUBSET Docs]]
      BY <2>1 DEF Named
  <2>4. met' \in [Queries -> SUBSET Queries]
      BY <2>2 DEF Running
  <2> QED  BY <2>2, <2>3, <2>4
<1>3. ASSUME NEW q \in Queries, Step(q)
      PROVE  TypeOK'
  <2>1. CASE ResolveChatSession(q)
    <3>1. CASE Refuse(q, "404")  BY <3>1, <1>a
    <3>2. CASE ~ Refuse(q, "404")  BY <2>1, <3>2 DEF ResolveChatSession
    <3> QED  BY <3>1, <3>2
  <2>2. CASE RenameSession(q)  BY <2>2 DEF RenameSession
  <2>3. CASE ResolveDocumentIds(q)
    <3>1. CASE Refuse(q, "404")  BY <3>1, <1>a
    <3>2. CASE ~ Refuse(q, "404")
      <4>1. Scope(q) \cap Known \in SUBSET Docs
          BY DEF Known
      <4> QED  BY <2>3, <3>2, <4>1 DEF ResolveDocumentIds
    <3> QED  BY <3>1, <3>2
  <2>4. CASE AssertCanQuery(q)
    <3>1. CASE Refuse(q, "429")  BY <3>1, <1>a
    <3>2. CASE ~ Refuse(q, "429")  BY <2>4, <3>2 DEF AssertCanQuery
    <3> QED  BY <3>1, <3>2
  <2>5. CASE ReadChunks(q)
    <3>1. PICK d \in todo[q] :
              /\ todo' = [todo EXCEPT ![q] = @ \ {d}]
              /\ current' = [current EXCEPT ![q] = d]
              /\ chunks' = [chunks EXCEPT ![q] = (status[d] = "indexed")]
        BY <2>5 DEF ReadChunks
    <3>2. d \in Docs
        BY DEF TypeOK
    <3>3. /\ pc[q] = "index"
          /\ pc' = [pc EXCEPT ![q] = "delete"]
          /\ UNCHANGED <<database, store, holder, ask, found, cited, http, crashes, history>>
        BY <2>5 DEF ReadChunks
    <3> QED  BY <3>1, <3>2, <3>3
  <2>6. CASE DeleteVectors(q)  BY <2>6 DEF DeleteVectors
  <2>7. CASE UpsertVectors(q)  BY <2>7 DEF UpsertVectors
  <2>8. CASE Retrieve(q)  BY <2>8 DEF Retrieve
  <2>9. CASE Generate(q)
    <3>1. CASE Refuse(q, "422")  BY <3>1, <1>a
    <3>2. CASE ~ Refuse(q, "422")
      <4>1. PICK C \in SUBSET found[q] : cited' = [cited EXCEPT ![q] = C]
          BY <2>9, <3>2 DEF Generate
      <4>2. C \in SUBSET Docs
          BY DEF TypeOK
      <4>3. /\ pc[q] = "generate"
            /\ pc' = [pc EXCEPT ![q] = "persist"]
            /\ UNCHANGED <<database, store, holder, ask, todo, current, chunks,
                           found, http, crashes, history>>
          BY <2>9, <3>2 DEF Generate
      <4> QED  BY <4>1, <4>2, <4>3
    <3> QED  BY <3>1, <3>2
  <2>10. CASE Commit(q)
    <3>1. title' \in [Chats -> {"absent", "New chat", "titled"} \cup Queries]
        BY <2>10 DEF Commit, NameSession, TitleFromQuery
    <3>2. holder' \in [Chats -> Queries \cup {None}]
        BY <2>10 DEF Commit, Unlock
    <3> QED  BY <2>10, <3>1, <3>2 DEF Commit, PersistConversation
  <2>11. CASE Respond(q)  BY <2>11 DEF Respond
  <2> QED
      BY <1>3, <2>1, <2>2, <2>3, <2>4, <2>5, <2>6, <2>7, <2>8, <2>9, <2>10, <2>11 DEF Step
<1>4. ASSUME NEW q \in Queries, Uncaught(q)
      PROVE  TypeOK'
    BY <1>4, <1>a DEF Uncaught
<1>5. ASSUME NEW s \in Sessions, CreateChatSession(s)
      PROVE  TypeOK'
    BY <1>5 DEF CreateChatSession
<1>6. ASSUME NEW d \in Docs, Ingest(d)
      PROVE  TypeOK'
    BY <1>6 DEF Ingest
<1>7. CASE ADayPasses  BY <1>7 DEF ADayPasses
<1>8. CASE Crash
  <2>1. crashes' \in 0..MaxCrashes
      BY <1>8, CrashCounts
  <2> QED  BY <1>8, <2>1 DEF Crash, Live
<1> QED  BY <1>1, <1>2, <1>3, <1>4, <1>5, <1>6, <1>7, <1>8 DEF Next

(* The document put in the store is no longer among those to be indexed.   *)
LEMMA UpsertVectorsIndexOnce ==
    ASSUME TypeInv, NEW q \in Queries, UpsertVectors(q)
    PROVE  IndexOnce'
<1>1. /\ pc[q] = "upsert"
      /\ pc' = [pc EXCEPT ![q] = "index"]
      /\ UNCHANGED <<ask, todo>>
    BY DEF UpsertVectors, Goto
<1>2. \A p \in Queries : Scope(p)' = Scope(p)
    BY <1>1 DEF Scope
<1>3. \A p \in Queries :
          /\ pc'[p] = IF p = q THEN "index" ELSE pc[p]
          /\ p # q => put'[p] = put[p] /\ current'[p] = current[p]
    BY <1>1 DEF UpsertVectors, TypeInv, TypeOK
<1>4. put'[q] \subseteq put[q] \cup {current[q]}
    BY DEF UpsertVectors, TypeInv, TypeOK
<1>5. /\ current[q] \in Scope(q) \ (todo[q] \cup put[q])
      /\ todo[q] \subseteq Scope(q) \ put[q] /\ put[q] \subseteq Scope(q)
    BY <1>1 DEF TypeInv, IndexOnce, Indexing
<1>6. ASSUME NEW p \in Queries
      PROVE  /\ pc'[p] \in {"delete", "upsert"} =>
                   /\ current'[p] \in Docs \cap Scope(p)
                   /\ current'[p] \notin todo[p] \cup put'[p]
             /\ pc'[p] \in Indexing \cup {"quota"} => todo[p] \subseteq Scope(p) \ put'[p]
             /\ pc'[p] \in {"idle", "session", "rename", "documents", "quota"} => put'[p] = {}
             /\ put'[p] \subseteq Scope(p)
  <2>1. CASE p = q
      BY <1>3, <1>4, <1>5, <2>1
  <2>2. CASE p # q
      BY <1>3, <2>2 DEF TypeInv, IndexOnce
  <2> QED  BY <2>1, <2>2
<1> QED  BY <1>1, <1>2, <1>6 DEF IndexOnce, Indexing

LEMMA StepIndexOnce == TypeInv /\ [Next]_vars => IndexOnce'
<1> SUFFICES ASSUME TypeInv, [Next]_vars
             PROVE  IndexOnce'
    OBVIOUS
<1> TypeOK /\ IndexOnce
    BY DEF TypeInv
<1>a. ASSUME NEW q \in Queries, NEW code \in {"404", "422", "429", "500"}, Refuse(q, code)
      PROVE  IndexOnce'
    BY <1>a, RefuseTypes DEF TypeInv
<1> USE DEF TypeOK, IndexOnce, Scope, Indexing, local, history, Goto
<1>1. CASE UNCHANGED vars
    BY <1>1 DEF vars
<1>2. ASSUME NEW q \in Queries, Begin(q)
      PROVE  IndexOnce'
  <2>1. PICK c \in Named \cup {None}, D \in SUBSET Docs :
            ask' = [ask EXCEPT ![q] = [session |-> c, docs |-> D]]
      BY <1>2 DEF Begin
  <2>2. /\ pc[q] = "idle"
        /\ pc' = [pc EXCEPT ![q] = "session"]
        /\ met' = [p \in Queries |-> IF p = q THEN Running
                                     ELSE IF Live(p) THEN met[p] \cup {q} ELSE met[p]]
        /\ UNCHANGED <<database, store, holder, todo, current, chunks, found, cited,
                       http, crashes, put>>
      BY <1>2 DEF Begin
  <2> QED  BY <2>1, <2>2
<1>3. ASSUME NEW q \in Queries, Step(q)
      PROVE  IndexOnce'
  <2>1. CASE ResolveChatSession(q)
    <3>1. CASE Refuse(q, "404")  BY <3>1, <1>a
    <3>2. CASE ~ Refuse(q, "404")  BY <2>1, <3>2 DEF ResolveChatSession
    <3> QED  BY <3>1, <3>2
  <2>2. CASE RenameSession(q)  BY <2>2 DEF RenameSession
  <2>3. CASE ResolveDocumentIds(q)
    <3>1. CASE Refuse(q, "404")  BY <3>1, <1>a
    <3>2. CASE ~ Refuse(q, "404")
      <4>1. PICK D \in SUBSET Scope(q) : todo' = [todo EXCEPT ![q] = D]
          BY <2>3, <3>2 DEF ResolveDocumentIds
      <4>2. /\ pc[q] = "documents"
            /\ pc' = [pc EXCEPT ![q] = "quota"]
            /\ UNCHANGED <<ask, current, put>>
          BY <2>3, <3>2 DEF ResolveDocumentIds
      <4> QED  BY <4>1, <4>2
    <3> QED  BY <3>1, <3>2
  <2>4. CASE AssertCanQuery(q)
    <3>1. CASE Refuse(q, "429")  BY <3>1, <1>a
    <3>2. CASE ~ Refuse(q, "429")  BY <2>4, <3>2 DEF AssertCanQuery
    <3> QED  BY <3>1, <3>2
  <2>5. CASE ReadChunks(q)
    <3>1. PICK d \in todo[q] :
              /\ todo' = [todo EXCEPT ![q] = @ \ {d}]
              /\ current' = [current EXCEPT ![q] = d]
              /\ chunks' = [chunks EXCEPT ![q] = (status[d] = "indexed")]
        BY <2>5 DEF ReadChunks
    <3>2. d \in Docs
        BY DEF TypeOK
    <3>3. /\ pc[q] = "index"
          /\ pc' = [pc EXCEPT ![q] = "delete"]
          /\ UNCHANGED <<database, store, holder, ask, found, cited, http, crashes, history>>
        BY <2>5 DEF ReadChunks
    <3> QED  BY <3>1, <3>2, <3>3
  <2>6. CASE DeleteVectors(q)  BY <2>6 DEF DeleteVectors
  <2>7. CASE UpsertVectors(q)
    BY <2>7, UpsertVectorsIndexOnce
  <2>8. CASE Retrieve(q)  BY <2>8 DEF Retrieve
  <2>9. CASE Generate(q)
    <3>1. CASE Refuse(q, "422")  BY <3>1, <1>a
    <3>2. CASE ~ Refuse(q, "422")
      <4>1. PICK C \in SUBSET found[q] : cited' = [cited EXCEPT ![q] = C]
          BY <2>9, <3>2 DEF Generate
      <4>2. C \in SUBSET Docs
          BY DEF TypeOK
      <4>3. /\ pc[q] = "generate"
            /\ pc' = [pc EXCEPT ![q] = "persist"]
            /\ UNCHANGED <<database, store, holder, ask, todo, current, chunks,
                           found, http, crashes, history>>
          BY <2>9, <3>2 DEF Generate
      <4> QED  BY <4>1, <4>2, <4>3
    <3> QED  BY <3>1, <3>2
  <2>10. CASE Commit(q)  BY <2>10 DEF Commit, TouchSession, PersistConversation, NameSession
  <2>11. CASE Respond(q)  BY <2>11 DEF Respond
  <2> QED
      BY <1>3, <2>1, <2>2, <2>3, <2>4, <2>5, <2>6, <2>7, <2>8, <2>9, <2>10, <2>11 DEF Step
<1>4. ASSUME NEW q \in Queries, Uncaught(q)
      PROVE  IndexOnce'
    BY <1>4, <1>a DEF Uncaught
<1>5. ASSUME NEW s \in Sessions, CreateChatSession(s)
      PROVE  IndexOnce'
    BY <1>5 DEF CreateChatSession
<1>6. ASSUME NEW d \in Docs, Ingest(d)
      PROVE  IndexOnce'
    BY <1>6 DEF Ingest
<1>7. CASE ADayPasses  BY <1>7 DEF ADayPasses
<1>8. CASE Crash
    BY <1>8 DEF Crash, Live
<1> QED  BY <1>1, <1>2, <1>3, <1>4, <1>5, <1>6, <1>7, <1>8 DEF Next

LEMMA StepTypes == TypeInv /\ [Next]_vars => TypeInv'
BY StepTypeOK, StepIndexOnce DEF TypeInv

(* Every variable of the query pipeline keeps its type.                    *)
THEOREM QueryTypeCorrect == Spec => []TypeOK
<1>1. TypeInv => TypeOK
    BY DEF TypeInv
<1> QED  BY <1>1, InitTypes, StepTypes, PTL DEF Spec

-----------------------------------------------------------------------------
(* Evidence.                                                               *)

LEMMA InitGrounded == Init => Grounded /\ CitationsAreGrounded
BY DEF Init, Grounded, CitationsAreGrounded

LEMMA StepGrounded ==
    TypeInv /\ Grounded /\ CitationsAreGrounded /\ [Next]_vars
        => Grounded' /\ CitationsAreGrounded'
<1> SUFFICES ASSUME TypeInv, Grounded, CitationsAreGrounded, [Next]_vars
             PROVE  Grounded' /\ CitationsAreGrounded'
    OBVIOUS
<1> TypeOK /\ \A q \in Queries : pc[q] \in {"delete", "upsert"} => current[q] \in Docs
    BY DEF TypeInv, IndexOnce
<1>a. ASSUME NEW q \in Queries, NEW l, l \notin {"delete", "upsert"},
             pc' = [pc EXCEPT ![q] = l],
             UNCHANGED <<status, store, current, chunks, found, cited>>
      PROVE  Grounded' /\ CitationsAreGrounded'
    BY <1>a DEF TypeOK, Grounded, CitationsAreGrounded
<1>b. ASSUME NEW q \in Queries, NEW code, Refuse(q, code)
      PROVE  Grounded' /\ CitationsAreGrounded'
    BY <1>a, <1>b DEF Refuse, Goto, database, local
<1> USE DEF TypeOK, Grounded, CitationsAreGrounded, database, local, history, Goto
<1>1. CASE UNCHANGED vars
    BY <1>1 DEF vars
<1>2. ASSUME NEW q \in Queries, Begin(q)
      PROVE  Grounded' /\ CitationsAreGrounded'
    BY <1>2 DEF Begin
<1>3. ASSUME NEW q \in Queries, Step(q)
      PROVE  Grounded' /\ CitationsAreGrounded'
  <2>1. CASE ResolveChatSession(q)
    <3>1. PICK l \in {"rename", "documents", "done"} : pc' = [pc EXCEPT ![q] = l]
        BY <2>1 DEF ResolveChatSession, Refuse
    <3> QED  BY <2>1, <3>1, <1>a DEF ResolveChatSession, Refuse
  <2>2. CASE RenameSession(q)  BY <2>2 DEF RenameSession
  <2>3. CASE ResolveDocumentIds(q)
    BY <2>3, <1>a DEF ResolveDocumentIds, Refuse
  <2>4. CASE AssertCanQuery(q)
    BY <2>4, <1>a DEF AssertCanQuery, Refuse
  <2>5. CASE ReadChunks(q)
    <3>1. PICK d \in todo[q] :
              /\ todo' = [todo EXCEPT ![q] = @ \ {d}]
              /\ current' = [current EXCEPT ![q] = d]
              /\ chunks' = [chunks EXCEPT ![q] = (status[d] = "indexed")]
        BY <2>5 DEF ReadChunks
    <3>2. d \in Docs
        BY DEF TypeOK
    <3>3. /\ pc[q] = "index"
          /\ pc' = [pc EXCEPT ![q] = "delete"]
          /\ UNCHANGED <<database, store, holder, ask, found, cited, http, crashes, history>>
        BY <2>5 DEF ReadChunks
    <3> QED  BY <3>1, <3>2, <3>3
  <2>6. CASE DeleteVectors(q)  BY <2>6 DEF DeleteVectors
  <2>7. CASE UpsertVectors(q)  BY <2>7 DEF UpsertVectors
  <2>8. CASE Retrieve(q)  BY <2>8 DEF Retrieve
  <2>9. CASE Generate(q)
    <3>1. CASE Refuse(q, "422")  BY <3>1, <1>b
    <3>2. CASE ~ Refuse(q, "422")
      <4>1. PICK C \in SUBSET found[q] : cited' = [cited EXCEPT ![q] = C]
          BY <2>9, <3>2 DEF Generate
      <4>2. C \in SUBSET Docs
          BY DEF TypeOK
      <4>3. /\ pc[q] = "generate"
            /\ pc' = [pc EXCEPT ![q] = "persist"]
            /\ UNCHANGED <<database, store, holder, ask, todo, current, chunks,
                           found, http, crashes, history>>
          BY <2>9, <3>2 DEF Generate
      <4> QED  BY <4>1, <4>2, <4>3
    <3> QED  BY <3>1, <3>2
  <2>10. CASE Commit(q)  BY <2>10 DEF Commit, TouchSession, PersistConversation, NameSession
  <2>11. CASE Respond(q)  BY <2>11 DEF Respond
  <2> QED
      BY <1>3, <2>1, <2>2, <2>3, <2>4, <2>5, <2>6, <2>7, <2>8, <2>9, <2>10, <2>11 DEF Step
<1>4. ASSUME NEW q \in Queries, Uncaught(q)
      PROVE  Grounded' /\ CitationsAreGrounded'
    BY <1>4, <1>b DEF Uncaught
<1>5. ASSUME NEW s \in Sessions, CreateChatSession(s)
      PROVE  Grounded' /\ CitationsAreGrounded'
    BY <1>5 DEF CreateChatSession
<1>6. ASSUME NEW d \in Docs, Ingest(d)
      PROVE  Grounded' /\ CitationsAreGrounded'
  <2>1. ASSUME NEW e \in Docs, status[e] = "indexed"
        PROVE  status'[e] = "indexed"
      BY <1>6, <2>1 DEF Ingest
  <2>2. UNCHANGED <<store, pc, current, chunks, found, cited>>
      BY <1>6 DEF Ingest
  <2> QED  BY <2>1, <2>2
<1>7. CASE ADayPasses  BY <1>7 DEF ADayPasses
<1>8. CASE Crash
    BY <1>8 DEF Crash, Live
<1> QED  BY <1>1, <1>2, <1>3, <1>4, <1>5, <1>6, <1>7, <1>8 DEF Next

(* Documents an answer cites are completely ingested.                      *)
THEOREM CitationsAlwaysGrounded == Spec => []CitationsAreGrounded
<1> DEFINE Inv == TypeInv /\ Grounded /\ CitationsAreGrounded
<1>1. Init => Inv
    BY InitTypes, InitGrounded
<1>2. Inv /\ [Next]_vars => Inv'
    BY StepTypes, StepGrounded
<1>3. Inv => CitationsAreGrounded
    OBVIOUS
<1> QED  BY <1>1, <1>2, <1>3, PTL DEF Spec

LEMMA InitEvidence == Init => Acquainted /\ EvidenceOrRival /\ OnlyRivalsHideEvidence
BY DEF Init, Acquainted, Live, EvidenceOrRival, OnlyRivalsHideEvidence, Indexing

LEMMA StepAcquainted == TypeOK /\ Acquainted /\ [Next]_vars => Acquainted'
<1> SUFFICES ASSUME TypeOK, Acquainted, [Next]_vars
             PROVE  Acquainted'
    OBVIOUS
<1>a. ASSUME NEW q \in Queries, NEW l, l # "idle", pc' = [pc EXCEPT ![q] = l], met' = met,
             Live(q) \/ l = "done"
      PROVE  Acquainted'
    BY <1>a DEF TypeOK, Acquainted, Live
<1>b. ASSUME NEW q \in Queries, NEW code, Refuse(q, code)
      PROVE  Acquainted'
    BY <1>a, <1>b DEF Refuse, Goto, history
<1> USE DEF TypeOK, Acquainted, Live, history, Goto
<1>1. CASE UNCHANGED vars
    BY <1>1 DEF vars
<1>2. ASSUME NEW q \in Queries, Begin(q)
      PROVE  Acquainted'
  <2>1. PICK c \in Named \cup {None}, D \in SUBSET Docs :
            ask' = [ask EXCEPT ![q] = [session |-> c, docs |-> D]]
      BY <1>2 DEF Begin
  <2>2. /\ pc[q] = "idle"
        /\ pc' = [pc EXCEPT ![q] = "session"]
        /\ met' = [p \in Queries |-> IF p = q THEN Running
                                     ELSE IF Live(p) THEN met[p] \cup {q} ELSE met[p]]
        /\ UNCHANGED <<database, store, holder, todo, current, chunks, found, cited,
                       http, crashes, put>>
      BY <1>2 DEF Begin
  <2> QED  BY <2>2 DEF Running
<1>3. ASSUME NEW q \in Queries, Step(q)
      PROVE  Acquainted'
  <2>1. CASE ResolveChatSession(q)
    BY <2>1, <1>a DEF ResolveChatSession, Refuse
  <2>2. CASE RenameSession(q)  BY <2>2 DEF RenameSession
  <2>3. CASE ResolveDocumentIds(q)
    BY <2>3, <1>a DEF ResolveDocumentIds, Refuse
  <2>4. CASE AssertCanQuery(q)
    BY <2>4, <1>a DEF AssertCanQuery, Refuse
  <2>5. CASE ReadChunks(q)  BY <2>5 DEF ReadChunks
  <2>6. CASE DeleteVectors(q)  BY <2>6 DEF DeleteVectors
  <2>7. CASE UpsertVectors(q)  BY <2>7 DEF UpsertVectors
  <2>8. CASE Retrieve(q)  BY <2>8 DEF Retrieve
  <2>9. CASE Generate(q)
    BY <2>9, <1>a DEF Generate, Refuse
  <2>10. CASE Commit(q)  BY <2>10 DEF Commit, TouchSession, PersistConversation, NameSession
  <2>11. CASE Respond(q)  BY <2>11 DEF Respond
  <2> QED
      BY <1>3, <2>1, <2>2, <2>3, <2>4, <2>5, <2>6, <2>7, <2>8, <2>9, <2>10, <2>11 DEF Step
<1>4. ASSUME NEW q \in Queries, Uncaught(q)
      PROVE  Acquainted'
    BY <1>4, <1>b DEF Uncaught
<1>5. ASSUME NEW s \in Sessions, CreateChatSession(s)
      PROVE  Acquainted'
    BY <1>5 DEF CreateChatSession
<1>6. ASSUME NEW d \in Docs, Ingest(d)
      PROVE  Acquainted'
    BY <1>6 DEF Ingest
<1>7. CASE ADayPasses  BY <1>7 DEF ADayPasses
<1>8. CASE Crash  BY <1>8 DEF Crash
<1> QED  BY <1>1, <1>2, <1>3, <1>4, <1>5, <1>6, <1>7, <1>8 DEF Next

(* A query that deletes what another one has put in the store is a rival.  *)
LEMMA DeleteVectorsEvidence ==
    ASSUME TypeInv, Acquainted, EvidenceOrRival, OnlyRivalsHideEvidence,
           NEW q \in Queries, DeleteVectors(q)
    PROVE  EvidenceOrRival' /\ OnlyRivalsHideEvidence'
<1>1. /\ pc[q] = "delete"
      /\ pc' = [pc EXCEPT ![q] = "upsert"]
      /\ store' = store \ {current[q]}
      /\ UNCHANGED <<ask, found, put, met>>
    BY DEF DeleteVectors, Goto, local, history
<1>2. ASSUME NEW p \in Queries, pc'[p] \in Indexing, NEW d \in put[p] \ store'
      PROVE  \E r \in met[p] : d \in Scope(r)
  <2>1. pc[p] \in Indexing
      BY <1>1, <1>2 DEF Indexing, TypeInv, TypeOK
  <2>2. CASE d \notin store
      BY <2>1, <2>2 DEF EvidenceOrRival
  <2>3. CASE d \in store
    <3>1. d = current[q]
        BY <1>1, <2>3
    <3>2. d \in Scope(q) /\ p # q
        BY <1>1, <3>1 DEF TypeInv, IndexOnce
    <3>3. q \in met[p]
        BY <1>1, <2>1, <3>2 DEF Acquainted, Live, Indexing
    <3> QED  BY <3>2, <3>3
  <2> QED  BY <2>2, <2>3
<1>3. \A p \in Queries : Scope(p)' = Scope(p)
    BY <1>1 DEF Scope
<1>4. \A p \in Queries : met[p] \subseteq Queries
    BY DEF TypeInv, TypeOK
<1>5. EvidenceOrRival'
    BY <1>1, <1>2, <1>3, <1>4 DEF EvidenceOrRival
<1>6. \A p \in Queries : pc'[p] = IF p = q THEN "upsert" ELSE pc[p]
    BY <1>1 DEF TypeInv, TypeOK
<1>7. OnlyRivalsHideEvidence'
    BY <1>1, <1>3, <1>4, <1>6 DEF OnlyRivalsHideEvidence
<1> QED  BY <1>5, <1>7

(* The search finds what is in the store: a rival took what it misses.     *)
LEMMA RetrieveEvidence ==
    ASSUME TypeInv, EvidenceOrRival, OnlyRivalsHideEvidence,
           NEW q \in Queries, Retrieve(q)
    PROVE  EvidenceOrRival' /\ OnlyRivalsHideEvidence'
<1>1. /\ pc[q] = "index"
      /\ pc' = [pc EXCEPT ![q] = "generate"]
      /\ found' = [found EXCEPT ![q] = store \cap Scope(q)]
      /\ UNCHANGED <<ask, store, put, met>>
    BY DEF Retrieve, Goto, history
<1>2. \A d \in put[q] \ (store \cap Scope(q)) : \E p \in met[q] : d \in Scope(p)
    BY <1>1 DEF EvidenceOrRival, Indexing, TypeInv, IndexOnce
<1>3. \A p \in Queries : Scope(p)' = Scope(p)
    BY <1>1 DEF Scope
<1>4. \A p \in Queries :
          /\ pc'[p] = IF p = q THEN "generate" ELSE pc[p]
          /\ found'[p] = IF p = q THEN store \cap Scope(q) ELSE found[p]
          /\ met[p] \subseteq Queries
    BY <1>1 DEF TypeInv, TypeOK
<1>5. EvidenceOrRival'
    BY <1>1, <1>3, <1>4 DEF EvidenceOrRival, Indexing
<1>6. OnlyRivalsHideEvidence'
    BY <1>1, <1>2, <1>3, <1>4 DEF OnlyRivalsHideEvidence
<1> QED  BY <1>5, <1>6

LEMMA BeginEvidence ==
    ASSUME TypeInv, Acquainted, EvidenceOrRival, OnlyRivalsHideEvidence,
           NEW q \in Queries, Begin(q)
    PROVE  EvidenceOrRival' /\ OnlyRivalsHideEvidence'
<1>1. /\ pc[q] = "idle"
      /\ pc' = [pc EXCEPT ![q] = "session"]
      /\ UNCHANGED <<store, found, put>>
    BY DEF Begin, Goto
<1>2. ASSUME NEW p \in Queries, p # q
      PROVE  met[p] \subseteq met'[p] /\ ask'[p] = ask[p]
    BY <1>2 DEF Begin, TypeInv, TypeOK
<1>3. ASSUME NEW p \in Queries, p # q, NEW d, \E r \in met[p] : d \in Scope(r)
      PROVE  \E r \in met'[p] : d \in Scope(r)'
  <2>1. PICK r \in met[p] : d \in Scope(r)
      BY <1>3
  <2>2. r \in Queries /\ r # q
      BY <1>1 DEF Acquainted, TypeInv, TypeOK
  <2> QED  BY <1>2, <1>3, <2>1, <2>2 DEF Scope
<1>4. \A p \in Queries : pc'[p] = IF p = q THEN "session" ELSE pc[p]
    BY <1>1 DEF TypeInv, TypeOK
<1>5. EvidenceOrRival'
    BY <1>1, <1>3, <1>4 DEF EvidenceOrRival, Indexing
<1>6. OnlyRivalsHideEvidence'
    BY <1>1, <1>3, <1>4 DEF OnlyRivalsHideEvidence
<1> QED  BY <1>5, <1>6

LEMMA StepEvidence ==
    TypeInv /\ Acquainted /\ EvidenceOrRival /\ OnlyRivalsHideEvidence /\ [Next]_vars
        => EvidenceOrRival' /\ OnlyRivalsHideEvidence'
<1> SUFFICES ASSUME TypeInv, Acquainted, EvidenceOrRival, OnlyRivalsHideEvidence,
                    [Next]_vars
             PROVE  EvidenceOrRival' /\ OnlyRivalsHideEvidence'
    OBVIOUS
<1> TypeOK /\ IndexOnce
    BY DEF TypeInv
<1>a. ASSUME NEW q \in Queries, NEW l, pc' = [pc EXCEPT ![q] = l],
             l \in Indexing => pc[q] \in Indexing \/ put[q] = {},
             l \in {"generate", "persist"} => pc[q] \in {"generate", "persist"},
             UNCHANGED <<store, ask, found, put, met>>
      PROVE  EvidenceOrRival' /\ OnlyRivalsHideEvidence'
    BY <1>a DEF TypeOK, EvidenceOrRival, OnlyRivalsHideEvidence, Scope
<1>b. ASSUME NEW q \in Queries, NEW code, Refuse(q, code)
      PROVE  EvidenceOrRival' /\ OnlyRivalsHideEvidence'
    BY <1>a, <1>b DEF Refuse, Goto, database, local, history, Indexing
<1> USE DEF TypeOK, EvidenceOrRival, OnlyRivalsHideEvidence, Indexing, Scope, local,
            history, Goto
<1>1. CASE UNCHANGED vars
    BY <1>1 DEF vars
<1>2. ASSUME NEW q \in Queries, Begin(q)
      PROVE  EvidenceOrRival' /\ OnlyRivalsHideEvidence'
    BY <1>2, BeginEvidence
<1>3. ASSUME NEW q \in Queries, Step(q)
      PROVE  EvidenceOrRival' /\ OnlyRivalsHideEvidence'
  <2>1. CASE ResolveChatSession(q)
    BY <2>1, <1>a DEF ResolveChatSession, Refuse
  <2>2. CASE RenameSession(q)  BY <2>2 DEF RenameSession
  <2>3. CASE ResolveDocumentIds(q)
    BY <2>3, <1>a DEF ResolveDocumentIds, Refuse
  <2>4. CASE AssertCanQuery(q)
    <3>1. pc[q] = "quota" /\ put[q] = {}
        BY <2>4 DEF AssertCanQuery, IndexOnce
    <3>2. PICK l \in {"index", "done"} : pc' = [pc EXCEPT ![q] = l]
        BY <2>4 DEF AssertCanQuery, Refuse
    <3>3. UNCHANGED <<store, ask, found, put, met>>
        BY <2>4 DEF AssertCanQuery, Refuse
    <3> QED  BY <3>1, <3>2, <3>3, <1>a
  <2>5. CASE ReadChunks(q)
    <3>1. PICK d \in todo[q] :
              /\ todo' = [todo EXCEPT ![q] = @ \ {d}]
              /\ current' = [current EXCEPT ![q] = d]
              /\ chunks' = [chunks EXCEPT ![q] = (status[d] = "indexed")]
        BY <2>5 DEF ReadChunks
    <3>2. d \in Docs
        BY DEF TypeOK
    <3>3. /\ pc[q] = "index"
          /\ pc' = [pc EXCEPT ![q] = "delete"]
          /\ UNCHANGED <<database, store, holder, ask, found, cited, http, crashes, history>>
        BY <2>5 DEF ReadChunks
    <3> QED  BY <3>1, <3>2, <3>3
  <2>6. CASE DeleteVectors(q)
    BY <2>6, DeleteVectorsEvidence
  <2>7. CASE UpsertVectors(q)
    <3>1. PICK new \in SUBSET {current[q]} :
              put' = [put EXCEPT ![q] = @ \cup new] /\ store' = store \cup new
        BY <2>7 DEF UpsertVectors
    <3>2. /\ pc[q] = "upsert"
          /\ pc' = [pc EXCEPT ![q] = "index"]
          /\ UNCHANGED <<ask, found, met>>
        BY <2>7 DEF UpsertVectors
    <3> QED  BY <3>1, <3>2
  <2>8. CASE Retrieve(q)
    BY <2>8, RetrieveEvidence
  <2>9. CASE Generate(q)
    <3>1. CASE Refuse(q, "422")  BY <3>1, <1>b
    <3>2. CASE ~ Refuse(q, "422")
      <4>1. PICK C \in SUBSET found[q] : cited' = [cited EXCEPT ![q] = C]
          BY <2>9, <3>2 DEF Generate
      <4>2. C \in SUBSET Docs
          BY DEF TypeOK
      <4>3. /\ pc[q] = "generate"
            /\ pc' = [pc EXCEPT ![q] = "persist"]
            /\ UNCHANGED <<database, store, holder, ask, todo, current, chunks,
                           found, http, crashes, history>>
          BY <2>9, <3>2 DEF Generate
      <4> QED  BY <4>1, <4>2, <4>3
    <3> QED  BY <3>1, <3>2
  <2>10. CASE Commit(q)  BY <2>10 DEF Commit, TouchSession, PersistConversation, NameSession
  <2>11. CASE Respond(q)  BY <2>11 DEF Respond
  <2> QED
      BY <1>3, <2>1, <2>2, <2>3, <2>4, <2>5, <2>6, <2>7, <2>8, <2>9, <2>10, <2>11 DEF Step
<1>4. ASSUME NEW q \in Queries, Uncaught(q)
      PROVE  EvidenceOrRival' /\ OnlyRivalsHideEvidence'
    BY <1>4, <1>b DEF Uncaught
<1>5. ASSUME NEW s \in Sessions, CreateChatSession(s)
      PROVE  EvidenceOrRival' /\ OnlyRivalsHideEvidence'
    BY <1>5 DEF CreateChatSession
<1>6. ASSUME NEW d \in Docs, Ingest(d)
      PROVE  EvidenceOrRival' /\ OnlyRivalsHideEvidence'
    BY <1>6 DEF Ingest
<1>7. CASE ADayPasses  BY <1>7 DEF ADayPasses
<1>8. CASE Crash
    BY <1>8 DEF Crash, Live
<1> QED  BY <1>1, <1>2, <1>3, <1>4, <1>5, <1>6, <1>7, <1>8 DEF Next

(* A query that misses a document it has indexed overlapped one that asked *)
(* for the same document.                                                  *)
THEOREM OnlyRivalsEverHideEvidence == Spec => []OnlyRivalsHideEvidence
<1> DEFINE Inv == TypeInv /\ Acquainted /\ EvidenceOrRival /\ OnlyRivalsHideEvidence
<1>1. Init => Inv
    BY InitTypes, InitEvidence
<1>2. Inv /\ [Next]_vars => Inv'
    BY StepTypes, StepAcquainted, StepEvidence DEF TypeInv
<1>3. Inv => OnlyRivalsHideEvidence
    OBVIOUS
<1> QED  BY <1>1, <1>2, <1>3, PTL DEF Spec

-----------------------------------------------------------------------------
(* Chat sessions.                                                          *)

LEMMA Titles == "absent" \notin Queries /\ "New chat" \notin Queries /\ "titled" \notin Queries
BY TitleAssumption

LEMMA ChatTypes ==
    ASSUME TypeOK
    PROVE  /\ \A c \in Chats : holder[c] \in Queries \cup {None}
           /\ \A q \in Queries : ask[q].session \in Chats \cup {None}
           /\ \A q \in Queries : q \in Chats /\ q # None /\ ChatOf(q) \in Chats
           /\ None \notin Chats /\ messages \subseteq Queries /\ counted \subseteq Queries
BY QueryAssumption DEF TypeOK, Chats, ChatOf

LEMMA InitSessions == Init => SessionInv
<1> SUFFICES ASSUME Init
             PROVE  SessionInv
    OBVIOUS
<1>1. LocksAreHeld /\ HoldersHaveWords
    BY DEF Init, LocksAreHeld, HoldersHaveWords
<1>2. SessionsByLocation
    BY DEF Init, SessionsByLocation, Past, Indexing
<1>3. ExchangesAreWhole
    BY Titles DEF Init, ExchangesAreWhole, Chats
<1>4. AskedSessionsAreNamed
    BY DEF Init, AskedSessionsAreNamed
<1> QED  BY <1>1, <1>2, <1>3, <1>4 DEF SessionInv

(* What is whole and named depends on these variables only.                *)
LEMMA ChatsUntouched ==
    ASSUME UNCHANGED <<title, messages, counted, ask, http>>, SessionInv
    PROVE  ExchangesAreWhole' /\ AskedSessionsAreNamed'
<1>1. \A q : ChatOf(q)' = ChatOf(q)
    BY DEF ChatOf
<1> QED  BY <1>1 DEF SessionInv, ExchangesAreWhole, AskedSessionsAreNamed

(* The update of the session's row: nobody else holds it.                  *)
LEMMA RenameSessionSessions ==
    ASSUME TypeOK, SessionInv, NEW q \in Queries, RenameSession(q)
    PROVE  SessionInv'
<1>1. /\ pc[q] = "rename" /\ holder[ask[q].session] = None
      /\ holder' = [holder EXCEPT ![ask[q].session] = q]
      /\ pc' = [pc EXCEPT ![q] = "documents"]
      /\ UNCHANGED <<title, messages, counted, ask, http>>
    BY DEF RenameSession, Goto, database, local
<1>2. ask[q].session \in Chats /\ title[ask[q].session] # "absent" /\ q \notin Plain
    BY <1>1 DEF SessionInv, SessionsByLocation
<1>3. \A p \in Queries : pc'[p] = IF p = q THEN "documents" ELSE pc[p]
    BY <1>1 DEF TypeOK
<1>4. \A c \in Chats : holder'[c] = IF c = ask[q].session THEN q ELSE holder[c]
    BY <1>1 DEF TypeOK
<1>5. LocksAreHeld'
    BY <1>1, <1>2, <1>3, <1>4, ChatTypes DEF SessionInv, LocksAreHeld, Admitted
<1>6. HoldersHaveWords'
    BY <1>2, <1>4 DEF SessionInv, HoldersHaveWords
<1>7. SessionsByLocation'
    BY <1>1, <1>2, <1>3, <1>4, ChatTypes DEF SessionInv, SessionsByLocation, Past, Indexing
<1>8. ExchangesAreWhole' /\ AskedSessionsAreNamed'
    BY <1>1, ChatsUntouched
<1> QED  BY <1>5, <1>6, <1>7, <1>8 DEF SessionInv

(* The commit names the session this query had locked or inserted, and no  *)
(* other one.                                                              *)
LEMMA CommitSessions ==
    ASSUME TypeOK, SessionInv, NEW q \in Queries, Commit(q)
    PROVE  SessionInv'
<1> DEFINE Mine(c) == holder[c] = q \/ (c = q /\ ask[q].session = None)
<1>1. /\ pc[q] = "persist"
      /\ messages' = messages \cup {q} /\ counted' = counted \cup {q}
      /\ title' = [c \in Chats |-> IF Mine(c) THEN TitleFromQuery(q) ELSE title[c]]
      /\ holder' = [c \in Chats |-> IF holder[c] = q THEN None ELSE holder[c]]
      /\ ask' = ask /\ http' = http
    BY DEF Commit, PersistConversation, NameSession, Unlock, local
<1>2. \A p \in Queries : pc'[p] = IF p = q THEN "respond" ELSE pc[p]
    BY DEF Commit, Goto, TypeOK
<1>3. \A c \in Chats : /\ title'[c] = IF Mine(c) THEN TitleFromQuery(q) ELSE title[c]
                       /\ holder'[c] = IF holder[c] = q THEN None ELSE holder[c]
    BY <1>1
<1>4. \A p \in Queries : ChatOf(p)' = ChatOf(p)
    BY <1>1 DEF ChatOf
<1> HIDE DEF Mine
<1>5. /\ TitleFromQuery(q) # "absent"
      /\ TitleFromQuery(q) \in Queries => TitleFromQuery(q) = q
      /\ q \notin Plain => TitleFromQuery(q) = q
    BY Titles DEF TitleFromQuery
<1>6. q \notin messages /\ q \in Chats
    BY <1>1, ChatTypes DEF SessionInv, SessionsByLocation
<1>7. title[q] = "absent" /\ holder[q] = None
    BY <1>6 DEF SessionInv, ExchangesAreWhole, LocksAreHeld
<1>8. \A c \in Chats : Mine(c) => /\ ChatOf(q) = c
                                  /\ q \in Plain => c = q
    BY ChatTypes, <1>6 DEF Mine, ChatOf, SessionInv, LocksAreHeld, HoldersHaveWords
<1>9. Mine(q) <=> ask[q].session = None
    BY <1>7, ChatTypes DEF Mine
<1>10. LocksAreHeld' /\ HoldersHaveWords'
  <2>1. ASSUME NEW c \in Chats, holder'[c] # None
        PROVE  /\ ask'[holder'[c]].session = c
               /\ pc'[holder'[c]] \in {"documents", "quota"} \/ holder'[c] \in Admitted'
               /\ title'[c] # "absent" /\ holder'[c] \notin Plain
    <3>1. holder'[c] = holder[c] /\ holder[c] \in Queries /\ holder[c] # q
        BY <1>3, <2>1, ChatTypes
    <3>2. /\ ask[holder[c]].session = c
          /\ pc[holder[c]] \in {"documents", "quota"} \/ holder[c] \in Admitted
          /\ title[c] # "absent" /\ holder[c] \notin Plain
        BY <2>1, <3>1, ChatTypes DEF SessionInv, LocksAreHeld, HoldersHaveWords
    <3>3. title'[c] # "absent"
        BY <1>3, <1>5, <3>2
    <3> QED  BY <1>1, <1>2, <3>1, <3>2, <3>3 DEF Admitted
  <2> QED  BY <2>1 DEF LocksAreHeld, HoldersHaveWords
(* A session named before keeps a name: this query gives none but words.   *)
<1>11. ASSUME NEW c \in Chats, title[c] \in Queries \cup {"titled"}
       PROVE  title'[c] \in Queries \cup {"titled"}
  <2>1. CASE Mine(c)
    <3>1. c # q
        BY <1>7, <1>11, Titles
    <3> QED  BY <1>3, <1>5, <1>8, <2>1, <3>1
  <2>2. CASE ~ Mine(c)
      BY <1>3, <1>11, <2>2
  <2> QED  BY <2>1, <2>2
<1>12. SessionsByLocation'
  <2>1. ASSUME NEW p \in Queries, p # q
        PROVE  /\ pc[p] # "done" => http[p] = "none"
               /\ pc[p] \notin {"respond", "done"} => p \notin messages'
               /\ pc[p] = "respond" => p \in messages'
               /\ pc[p] = "rename" => /\ ask[p].session \in Chats
                                      /\ title'[ask[p].session] # "absent"
                                      /\ p \notin Plain
               /\ pc[p] \in Past /\ ask[p].session # None /\ p \notin Plain =>
                     \/ title'[ask[p].session] \in Queries \cup {"titled"}
                     \/ holder'[ask[p].session] = p
    <3>1. /\ pc[p] # "done" => http[p] = "none"
          /\ pc[p] \notin {"respond", "done"} => p \notin messages'
          /\ pc[p] = "respond" => p \in messages'
        BY <1>1, <2>1 DEF SessionInv, SessionsByLocation
    <3>2. pc[p] = "rename" => /\ ask[p].session \in Chats
                              /\ title'[ask[p].session] # "absent"
                              /\ p \notin Plain
        BY <1>3, <1>5 DEF SessionInv, SessionsByLocation
    <3>3. ASSUME pc[p] \in Past, ask[p].session # None, p \notin Plain
          PROVE  \/ title'[ask[p].session] \in Queries \cup {"titled"}
                 \/ holder'[ask[p].session] = p
      <4>1. ask[p].session \in Chats
          BY <3>3, ChatTypes
      <4>2. CASE title[ask[p].session] \in Queries \cup {"titled"}
          BY <1>11, <4>1, <4>2
      <4>3. CASE holder[ask[p].session] = p
          BY <1>3, <2>1, <4>1, <4>3
      <4> QED  BY <3>3, <4>2, <4>3 DEF SessionInv, SessionsByLocation
    <3> QED  BY <3>1, <3>2, <3>3
  <2>2. http[q] = "none" /\ q \in messages'
      BY <1>1 DEF SessionInv, SessionsByLocation
  <2>3. "respond" \notin Past /\ "respond" \notin {"done", "rename"}
      BY DEF Past, Indexing
  <2> QED  BY <1>1, <1>2, <2>1, <2>2, <2>3 DEF SessionsByLocation
<1>13. ExchangesAreWhole'
  <2>1. \A p \in Queries : /\ http[p] = "200" => p \in messages'
                           /\ http[p] \in {"404", "422", "429"} => p \notin messages'
    <3>1. http[q] = "none"
        BY <1>1 DEF SessionInv, SessionsByLocation
    <3> QED  BY <1>1, <3>1 DEF SessionInv, ExchangesAreWhole
  <2>2. ASSUME NEW p \in Queries
        PROVE  title'[p] # "absent" <=> p \in messages' /\ ask[p].session = None
    <3>1. p \in Chats
        BY ChatTypes
    <3>2. CASE p = q
        BY <1>1, <1>3, <1>5, <1>7, <1>9, <3>1, <3>2
    <3>3. CASE p # q
      <4>1. Mine(p) => title[p] # "absent"
          BY <3>1, <3>3, ChatTypes DEF Mine, SessionInv, LocksAreHeld
      <4>2. title'[p] # "absent" <=> title[p] # "absent"
          BY <1>3, <1>5, <3>1, <4>1
      <4> QED  BY <1>1, <3>3, <4>2 DEF SessionInv, ExchangesAreWhole
    <3> QED  BY <3>2, <3>3
  <2>3. ASSUME NEW c \in Chats, title'[c] \in Queries
        PROVE  title'[c] \in messages' /\ ChatOf(title'[c]) = c
    <3>1. CASE Mine(c)
      <4>1. title'[c] = q
          BY <1>3, <1>5, <2>3, <3>1
      <4> QED  BY <1>1, <1>8, <3>1, <4>1
    <3>2. CASE ~ Mine(c)
      <4>1. title'[c] = title[c]
          BY <1>3, <3>2
      <4> QED  BY <1>1, <2>3, <4>1 DEF SessionInv, ExchangesAreWhole
    <3> QED  BY <3>1, <3>2
  <2>4. counted' \subseteq messages'
      BY <1>1 DEF SessionInv, ExchangesAreWhole
  <2> QED  BY <1>1, <1>4, <2>1, <2>2, <2>3, <2>4 DEF ExchangesAreWhole
<1>14. AskedSessionsAreNamed'
  <2>1. ASSUME NEW p \in messages \ Plain
        PROVE  title'[ChatOf(p)] \in Queries \cup {"titled"}
      BY <1>11, ChatTypes DEF SessionInv, AskedSessionsAreNamed
  <2>2. ASSUME q \notin Plain
        PROVE  title'[ChatOf(q)] \in Queries \cup {"titled"}
    <3>1. CASE ask[q].session = None
        BY <1>3, <1>5, <1>6, <1>9, <2>2, <3>1 DEF ChatOf
    <3>2. CASE ask[q].session # None
      <4>1. ChatOf(q) = ask[q].session /\ ChatOf(q) \in Chats
          BY <3>2, ChatTypes DEF ChatOf
      <4>2. title[ChatOf(q)] \in Queries \cup {"titled"} \/ holder[ChatOf(q)] = q
          BY <1>1, <2>2, <3>2, <4>1 DEF SessionInv, SessionsByLocation, Past
      <4> QED  BY <1>3, <1>5, <1>11, <2>2, <4>1, <4>2 DEF Mine
    <3> QED  BY <3>1, <3>2
  <2> QED  BY <1>1, <1>4, <2>1, <2>2, ChatTypes DEF AskedSessionsAreNamed
<1> QED  BY <1>10, <1>12, <1>13, <1>14 DEF SessionInv

(* Who begins has asked nothing before: no message, no title, no lock.     *)
LEMMA BeginSessions ==
    ASSUME TypeOK, SessionInv, NEW q \in Queries, Begin(q)
    PROVE  SessionInv'
<1>1. pc[q] = "idle" /\ UNCHANGED <<title, messages, counted, holder, http>>
    BY DEF Begin, database
<1>2. \A p \in Queries : /\ pc'[p] = IF p = q THEN "session" ELSE pc[p]
                         /\ p # q => ask'[p] = ask[p]
    BY DEF Begin, Goto, TypeOK
<1>3. http[q] = "none" /\ q \notin messages
    BY <1>1 DEF SessionInv, SessionsByLocation
<1>4. title[q] = "absent"
    BY <1>3 DEF SessionInv, ExchangesAreWhole
<1>5. \A c \in Chats : holder[c] # q
    BY <1>1, QueryAssumption DEF SessionInv, LocksAreHeld, Admitted
<1>6. \A p \in Queries : p # q => ChatOf(p)' = ChatOf(p)
    BY <1>2 DEF ChatOf
<1>7. LocksAreHeld' /\ HoldersHaveWords'
    BY <1>1, <1>2, <1>5, ChatTypes DEF SessionInv, LocksAreHeld, HoldersHaveWords, Admitted
<1>8. SessionsByLocation'
    BY <1>1, <1>2, <1>3 DEF SessionInv, SessionsByLocation, Past, Indexing
<1>9. ExchangesAreWhole'
  <2>1. \A p \in Queries : title[p] # "absent" <=> p \in messages /\ ask'[p].session = None
      BY <1>2, <1>3, <1>4 DEF SessionInv, ExchangesAreWhole
  <2>2. ASSUME NEW c \in Chats, title'[c] \in Queries
        PROVE  title'[c] \in messages' /\ ChatOf(title[c])' = c
    <3>1. title[c] \in messages /\ ChatOf(title[c]) = c /\ title[c] # q
        BY <1>1, <1>3, <2>2 DEF SessionInv, ExchangesAreWhole
    <3> DEFINE p == title[c]
    <3>2. p \in Queries /\ p # q /\ ChatOf(p) = c /\ title' = title
        BY <1>1, <2>2, <3>1
    <3>3. ask'[p] = ask[p]
        BY <1>2, <3>2
    <3> QED  BY <1>1, <3>1, <3>2, <3>3 DEF ChatOf
  <2>3. /\ \A p \in Queries : /\ http[p] = "200" => p \in messages
                              /\ http[p] \in {"404", "422", "429"} => p \notin messages
        /\ counted \subseteq messages
      BY DEF SessionInv, ExchangesAreWhole
  <2> QED  BY <1>1, <2>1, <2>2, <2>3 DEF ExchangesAreWhole, ChatOf
<1>10. AskedSessionsAreNamed'
    BY <1>1, <1>3, <1>6, ChatTypes DEF SessionInv, AskedSessionsAreNamed
<1> QED  BY <1>7, <1>8, <1>9, <1>10 DEF SessionInv

(* A refusal comes before the commit; an error may come after it.          *)
LEMMA RefuseSessions ==
    ASSUME TypeOK, SessionInv, NEW q \in Queries, Live(q),
           NEW code \in {"404", "422", "429", "500"}, Refuse(q, code),
           code = "500" \/ pc[q] # "respond"
    PROVE  SessionInv'
<1>1. /\ holder' = [c \in Chats |-> IF holder[c] = q THEN None ELSE holder[c]]
      /\ UNCHANGED <<title, messages, counted, ask>>
    BY DEF Refuse, Unlock, database, local
<1>2. \A p \in Queries : /\ pc'[p] = IF p = q THEN "done" ELSE pc[p]
                         /\ http'[p] = IF p = q THEN code ELSE http[p]
    BY DEF Refuse, Goto, TypeOK
<1>3. code # "500" => q \notin messages
    BY DEF SessionInv, SessionsByLocation, Live
<1>4. LocksAreHeld' /\ HoldersHaveWords'
    BY <1>1, <1>2, ChatTypes DEF SessionInv, LocksAreHeld, HoldersHaveWords, Admitted
<1>5. SessionsByLocation'
    BY <1>1, <1>2, ChatTypes DEF SessionInv, SessionsByLocation, Past, Indexing
<1>6. \A p : ChatOf(p)' = ChatOf(p)
    BY <1>1 DEF ChatOf
<1>7. ExchangesAreWhole'
    BY <1>1, <1>2, <1>3, <1>6 DEF SessionInv, ExchangesAreWhole
<1>8. AskedSessionsAreNamed'
    BY <1>1, <1>6 DEF SessionInv, AskedSessionsAreNamed
<1> QED  BY <1>4, <1>5, <1>7, <1>8 DEF SessionInv

(* The response to a committed exchange.                                   *)
LEMMA RespondSessions ==
    ASSUME TypeOK, SessionInv, NEW q \in Queries, Respond(q)
    PROVE  SessionInv'
<1>1. pc[q] = "respond" /\ UNCHANGED <<title, messages, counted, holder, ask>>
    BY DEF Respond, database, local
<1>2. \A p \in Queries : /\ pc'[p] = IF p = q THEN "done" ELSE pc[p]
                         /\ http'[p] = IF p = q THEN "200" ELSE http[p]
    BY DEF Respond, Goto, TypeOK
<1>3. q \in messages
    BY <1>1 DEF SessionInv, SessionsByLocation
<1>4. LocksAreHeld' /\ HoldersHaveWords'
    BY <1>1, <1>2, ChatTypes DEF SessionInv, LocksAreHeld, HoldersHaveWords, Admitted
<1>5. SessionsByLocation'
    BY <1>1, <1>2 DEF SessionInv, SessionsByLocation, Past, Indexing
<1>6. \A p : ChatOf(p)' = ChatOf(p)
    BY <1>1 DEF ChatOf
<1>7. ExchangesAreWhole'
    BY <1>1, <1>2, <1>3, <1>6 DEF SessionInv, ExchangesAreWhole
<1>8. AskedSessionsAreNamed'
    BY <1>1, <1>6 DEF SessionInv, AskedSessionsAreNamed
<1> QED  BY <1>4, <1>5, <1>7, <1>8 DEF SessionInv

LEMMA StepSessions == TypeOK /\ SessionInv /\ [Next]_vars => SessionInv'
<1> SUFFICES ASSUME TypeOK, SessionInv, [Next]_vars
             PROVE  SessionInv'
    OBVIOUS
<1>a. ASSUME NEW q \in Queries, NEW l \in Past \cup {"rename"}, Live(q),
             pc[q] # "respond", pc' = [pc EXCEPT ![q] = l],
             UNCHANGED <<title, holder, messages, counted, ask, http>>,
             \/ pc[q] \in Past /\ l \in Past
             \/ ask[q].session = None /\ l = "documents" /\ pc[q] = "session"
             \/ /\ ask[q].session \in Chats /\ pc[q] = "session"
                /\ title[ask[q].session] # "absent"
                /\ l = "rename" => q \notin Plain
                /\ l # "rename" /\ q \notin Plain =>
                       title[ask[q].session] \in Queries \cup {"titled"}
      PROVE  SessionInv'
  <2>1. \A p \in Queries : pc'[p] = IF p = q THEN l ELSE pc[p]
      BY <1>a DEF TypeOK
  <2>2. l \notin {"respond", "done"} /\ pc[q] \notin {"done", "idle"}
      BY <1>a DEF Past, Indexing, Live
  <2>3. LocksAreHeld' /\ HoldersHaveWords'
      BY <1>a, <2>1, ChatTypes DEF SessionInv, LocksAreHeld, HoldersHaveWords, Admitted,
                                   Past, Indexing
  <2>4. SessionsByLocation'
    <3>1. "rename" \notin Past /\ "documents" \in Past
        BY DEF Past, Indexing
    <3>2. http[q] = "none" /\ q \notin messages
        BY <1>a, <2>2 DEF SessionInv, SessionsByLocation
    <3>3. l = "rename" => /\ ask[q].session \in Chats
                          /\ title[ask[q].session] # "absent"
                          /\ q \notin Plain
        BY <1>a, <3>1
    <3>4. l \in Past /\ ask[q].session # None /\ q \notin Plain =>
              \/ title[ask[q].session] \in Queries \cup {"titled"}
              \/ holder[ask[q].session] = q
      <4>1. CASE pc[q] \in Past
          BY <4>1 DEF SessionInv, SessionsByLocation
      <4>2. CASE pc[q] \notin Past
          BY <1>a, <3>1, <4>2
      <4> QED  BY <4>1, <4>2
    <3> QED  BY <1>a, <2>1, <2>2, <3>2, <3>3, <3>4 DEF SessionInv, SessionsByLocation
  <2>5. ExchangesAreWhole' /\ AskedSessionsAreNamed'
      BY <1>a, ChatsUntouched
  <2> QED  BY <2>3, <2>4, <2>5 DEF SessionInv
<1>b. ASSUME NEW q \in Queries, Live(q),
             NEW code \in {"404", "422", "429", "500"}, Refuse(q, code),
             code = "500" \/ pc[q] # "respond"
      PROVE  SessionInv'
    BY <1>b, RefuseSessions
<1>c. ASSUME UNCHANGED <<title, messages, ask, http, holder, pc>>,
             counted' \subseteq counted
      PROVE  SessionInv'
  <2>1. LocksAreHeld' /\ HoldersHaveWords' /\ SessionsByLocation'
      BY <1>c DEF SessionInv, LocksAreHeld, HoldersHaveWords, SessionsByLocation, Admitted
  <2>2. \A q : ChatOf(q)' = ChatOf(q)
      BY <1>c DEF ChatOf
  <2>3. ExchangesAreWhole' /\ AskedSessionsAreNamed'
      BY <1>c, <2>2 DEF SessionInv, ExchangesAreWhole, AskedSessionsAreNamed
  <2> QED  BY <2>1, <2>3 DEF SessionInv
<1>1. CASE UNCHANGED vars
    BY <1>1, <1>c DEF vars, database, local
<1>2. ASSUME NEW q \in Queries, Begin(q)
      PROVE  SessionInv'
    BY <1>2, BeginSessions
<1>3. ASSUME NEW q \in Queries, Step(q)
      PROVE  SessionInv'
  <2>1. CASE ResolveChatSession(q)
    <3>1. CASE Refuse(q, "404")
      <4>1. Live(q) /\ pc[q] # "respond"
          BY <2>1 DEF ResolveChatSession, Live
      <4> QED  BY <3>1, <4>1, <1>b
    <3>2. CASE ~ Refuse(q, "404")
      <4> DEFINE c == ask[q].session
                 Renames == c # None /\ title[c] = "New chat" /\ TitleFromQuery(q) # title[c]
      <4>1. /\ pc[q] = "session" /\ Live(q)
            /\ c # None => title[c] # "absent"
            /\ pc' = [pc EXCEPT ![q] = IF Renames THEN "rename" ELSE "documents"]
            /\ UNCHANGED <<title, holder, messages, counted, ask, http>>
          BY <2>1, <3>2 DEF ResolveChatSession, Goto, Live, database, local
      <4>2. c \in Chats \cup {None}
          BY ChatTypes
      <4>3. c # None => title[c] \in {"absent", "New chat", "titled"} \cup Queries
          BY <4>2 DEF TypeOK
      <4>4. CASE Renames
        <5>1. q \notin Plain /\ c \in Chats
            BY <4>2, <4>4 DEF TitleFromQuery
        <5> QED  BY <4>1, <4>4, <5>1, <1>a
      <4>5. CASE ~ Renames
        <5>1. c # None /\ q \notin Plain => title[c] \in Queries \cup {"titled"}
            BY <4>1, <4>3, <4>5, Titles DEF TitleFromQuery
        <5> QED  BY <4>1, <4>2, <4>5, <5>1, <1>a DEF Past
      <4> QED  BY <4>4, <4>5
    <3> QED  BY <3>1, <3>2
  <2>2. CASE RenameSession(q)
    BY <2>2, RenameSessionSessions
  <2>3. CASE ResolveDocumentIds(q)
    <3>1. CASE Refuse(q, "404")
      <4>1. Live(q) /\ pc[q] # "respond"
          BY <2>3 DEF ResolveDocumentIds, Live
      <4> QED  BY <3>1, <4>1, <1>b
    <3>2. CASE ~ Refuse(q, "404")
      <4>1. pc[q] \in Past /\ pc' = [pc EXCEPT ![q] = "quota"]
          BY <2>3, <3>2 DEF ResolveDocumentIds, Goto, Past, Indexing
      <4>2. UNCHANGED <<title, holder, messages, counted, ask, http>>
          BY <2>3, <3>2 DEF ResolveDocumentIds, database, local
      <4> QED  BY <4>1, <4>2, <1>a DEF Past, Indexing, Live
    <3> QED  BY <3>1, <3>2
  <2>4. CASE AssertCanQuery(q)
    <3>1. CASE Refuse(q, "429")
      <4>1. Live(q) /\ pc[q] # "respond"
          BY <2>4 DEF AssertCanQuery, Live
      <4> QED  BY <3>1, <4>1, <1>b
    <3>2. CASE ~ Refuse(q, "429")
      <4>1. pc[q] \in Past /\ pc' = [pc EXCEPT ![q] = "index"]
          BY <2>4, <3>2 DEF AssertCanQuery, Goto, Past, Indexing
      <4>2. UNCHANGED <<title, holder, messages, counted, ask, http>>
          BY <2>4, <3>2 DEF AssertCanQuery, database, local
      <4> QED  BY <4>1, <4>2, <1>a DEF Past, Indexing, Live
    <3> QED  BY <3>1, <3>2
  <2>5. CASE ReadChunks(q)
    <3>1. pc[q] \in Past /\ pc' = [pc EXCEPT ![q] = "delete"]
        BY <2>5 DEF ReadChunks, Goto, Past, Indexing
    <3>2. UNCHANGED <<title, holder, messages, counted, ask, http>>
        BY <2>5 DEF ReadChunks, database, local
    <3> QED  BY <3>1, <3>2, <1>a DEF Past, Indexing, Live
  <2>6. CASE DeleteVectors(q)
    <3>1. pc[q] \in Past /\ pc' = [pc EXCEPT ![q] = "upsert"]
        BY <2>6 DEF DeleteVectors, Goto, Past, Indexing
    <3>2. UNCHANGED <<title, holder, messages, counted, ask, http>>
        BY <2>6 DEF DeleteVectors, database, local
    <3> QED  BY <3>1, <3>2, <1>a DEF Past, Indexing, Live
  <2>7. CASE UpsertVectors(q)
    <3>1. pc[q] \in Past /\ pc' = [pc EXCEPT ![q] = "index"]
        BY <2>7 DEF UpsertVectors, Goto, Past, Indexing
    <3>2. UNCHANGED <<title, holder, messages, counted, ask, http>>
        BY <2>7 DEF UpsertVectors, database, local
    <3> QED  BY <3>1, <3>2, <1>a DEF Past, Indexing, Live
  <2>8. CASE Retrieve(q)
    <3>1. pc[q] \in Past /\ pc' = [pc EXCEPT ![q] = "generate"]
        BY <2>8 DEF Retrieve, Goto, Past, Indexing
    <3>2. UNCHANGED <<title, holder, messages, counted, ask, http>>
        BY <2>8 DEF Retrieve, database, local
    <3> QED  BY <3>1, <3>2, <1>a DEF Past, Indexing, Live
  <2>9. CASE Generate(q)
    <3>1. CASE Refuse(q, "422")
      <4>1. Live(q) /\ pc[q] # "respond"
          BY <2>9 DEF Generate, Live
      <4> QED  BY <3>1, <4>1, <1>b
    <3>2. CASE ~ Refuse(q, "422")
      <4>1. pc[q] \in Past /\ pc' = [pc EXCEPT ![q] = "persist"]
          BY <2>9, <3>2 DEF Generate, Goto, Past, Indexing
      <4>2. UNCHANGED <<title, holder, messages, counted, ask, http>>
          BY <2>9, <3>2 DEF Generate, database, local
      <4> QED  BY <4>1, <4>2, <1>a DEF Past, Indexing, Live
    <3> QED  BY <3>1, <3>2
  <2>10. CASE Commit(q)
    BY <2>10, CommitSessions
  <2>11. CASE Respond(q)
    BY <2>11, RespondSessions
  <2> QED
      BY <1>3, <2>1, <2>2, <2>3, <2>4, <2>5, <2>6, <2>7, <2>8, <2>9, <2>10, <2>11 DEF Step
<1>4. ASSUME NEW q \in Queries, Uncaught(q)
      PROVE  SessionInv'
    BY <1>4, <1>b DEF Uncaught
<1>5. ASSUME NEW s \in Sessions, CreateChatSession(s)
      PROVE  SessionInv'
  <2>1. PICK t \in {"New chat", "titled"} : title' = [title EXCEPT ![s] = t]
      BY <1>5 DEF CreateChatSession
  <2>2. /\ title[s] = "absent"
        /\ UNCHANGED <<pc, holder, messages, counted, ask, http>>
      BY <1>5 DEF CreateChatSession, local
  <2>3. \A c \in Chats : title'[c] = IF c = s THEN t ELSE title[c]
      BY <2>1 DEF TypeOK
  <2>4. s \in Chats /\ s \notin Queries /\ t # "absent" /\ t \notin Queries
      BY QueryAssumption, Titles DEF Chats
  <2>5. LocksAreHeld' /\ HoldersHaveWords'
      BY <2>2, <2>3, <2>4 DEF SessionInv, LocksAreHeld, HoldersHaveWords, Admitted
  <2>6. SessionsByLocation'
      BY <2>2, <2>3, <2>4, ChatTypes, Titles DEF SessionInv, SessionsByLocation
  <2>7. \A p : ChatOf(p)' = ChatOf(p)
      BY <2>2 DEF ChatOf
  <2>8. ExchangesAreWhole'
      BY <2>2, <2>3, <2>4, <2>7, ChatTypes DEF SessionInv, ExchangesAreWhole
  <2>9. AskedSessionsAreNamed'
      BY <2>2, <2>3, <2>7, ChatTypes, Titles DEF SessionInv, AskedSessionsAreNamed
  <2> QED  BY <2>5, <2>6, <2>8, <2>9 DEF SessionInv
<1>6. ASSUME NEW d \in Docs, Ingest(d)
      PROVE  SessionInv'
    BY <1>6, <1>c DEF Ingest, local
<1>7. CASE ADayPasses
    BY <1>7, <1>c DEF ADayPasses, local
<1>8. CASE Crash
  <2>1. /\ \A p \in Queries : pc'[p] = IF Live(p) THEN "done" ELSE pc[p]
        /\ \A c \in Chats : holder'[c] = None
        /\ UNCHANGED <<title, messages, counted, ask, http>>
      BY <1>8 DEF Crash, database, local
  <2>2. LocksAreHeld' /\ HoldersHaveWords'
      BY <2>1 DEF LocksAreHeld, HoldersHaveWords
  <2>3. SessionsByLocation'
      BY <2>1 DEF SessionInv, SessionsByLocation, Past, Indexing, Live
  <2>4. ExchangesAreWhole' /\ AskedSessionsAreNamed'
      BY <2>1, ChatsUntouched
  <2> QED  BY <2>2, <2>3, <2>4 DEF SessionInv
<1> QED  BY <1>1, <1>2, <1>3, <1>4, <1>5, <1>6, <1>7, <1>8 DEF Next

LEMMA SessionInvariance == Spec => []SessionInv
<1> DEFINE Inv == TypeInv /\ SessionInv
<1>1. Init => Inv
    BY InitTypes, InitSessions
<1>2. Inv /\ [Next]_vars => Inv'
    BY StepTypes, StepSessions DEF TypeInv
<1>3. Inv => SessionInv
    OBVIOUS
<1> QED  BY <1>1, <1>2, <1>3, PTL DEF Spec

(* A chat session is locked only by a running query that renamed it.       *)
THEOREM LocksAlwaysHeld == Spec => []LocksAreHeld
<1>1. SessionInv => LocksAreHeld
    BY DEF SessionInv
<1> QED  BY <1>1, SessionInvariance, PTL

(* A query leaves its exchange, charge, session and title together or not  *)
(* at all, whether it is answered, refused or breaks off anywhere.         *)
THEOREM ExchangesAlwaysWhole == Spec => []ExchangesAreWhole
<1>1. SessionInv => ExchangesAreWhole
    BY DEF SessionInv
<1> QED  BY <1>1, SessionInvariance, PTL

(* A session with an exchange whose question makes a title has a name.     *)
THEOREM AskedSessionsAlwaysNamed == Spec => []AskedSessionsAreNamed
<1>1. SessionInv => AskedSessionsAreNamed
    BY DEF SessionInv
<1> QED  BY <1>1, SessionInvariance, PTL

-----------------------------------------------------------------------------
(* The thread pool.                                                        *)

(* A step of a handler moves that handler only.                            *)
LEMMA StepMoves ==
    ASSUME NEW q \in Queries, Step(q) \/ Uncaught(q)
    PROVE  Live(q) /\ \E l : pc' = [pc EXCEPT ![q] = l]
<1>1. CASE ResolveChatSession(q)  BY <1>1 DEF ResolveChatSession, Refuse, Goto, Live
<1>2. CASE RenameSession(q)  BY <1>2 DEF RenameSession, Goto, Live
<1>3. CASE ResolveDocumentIds(q)  BY <1>3 DEF ResolveDocumentIds, Refuse, Goto, Live
<1>4. CASE AssertCanQuery(q)  BY <1>4 DEF AssertCanQuery, Refuse, Goto, Live
<1>5. CASE ReadChunks(q)  BY <1>5 DEF ReadChunks, Goto, Live
<1>6. CASE DeleteVectors(q)  BY <1>6 DEF DeleteVectors, Goto, Live
<1>7. CASE UpsertVectors(q)  BY <1>7 DEF UpsertVectors, Goto, Live
<1>8. CASE Retrieve(q)  BY <1>8 DEF Retrieve, Goto, Live
<1>9. CASE Generate(q)  BY <1>9 DEF Generate, Refuse, Goto, Live
<1>10. CASE Commit(q)  BY <1>10 DEF Commit, Goto, Live
<1>11. CASE Respond(q)  BY <1>11 DEF Respond, Goto, Live
<1>12. CASE Uncaught(q)  BY <1>12 DEF Uncaught, Refuse, Goto
<1> QED
    BY <1>1, <1>2, <1>3, <1>4, <1>5, <1>6, <1>7, <1>8, <1>9, <1>10, <1>11, <1>12 DEF Step

LEMMA InitPool == Init => PoolBounded
<1> SUFFICES ASSUME Init
             PROVE  PoolBounded
    OBVIOUS
<1>1. Running = {}
    BY DEF Init, Running, Live
<1> QED  BY <1>1, FS_EmptySet, QueryAssumption DEF PoolBounded

LEMMA StepPool == TypeOK /\ PoolBounded /\ [Next]_vars => PoolBounded'
<1> SUFFICES ASSUME TypeOK, PoolBounded, [Next]_vars
             PROVE  PoolBounded'
    OBVIOUS
<1>1. CASE \E q \in Queries : Begin(q)
  <2>1. PICK q \in Queries : Begin(q)
      BY <1>1
  <2>2. Running' \subseteq Running \cup {q} /\ Cardinality(Running) < Threads
      BY <2>1 DEF Begin, Goto, Running, Live, TypeOK
  <2>3. /\ IsFiniteSet(Running \cup {q})
        /\ Cardinality(Running \cup {q}) <= Cardinality(Running) + 1
    <3>1. /\ IsFiniteSet(Running \cup {q})
          /\ \/ Cardinality(Running \cup {q}) = Cardinality(Running)
             \/ Cardinality(Running \cup {q}) = Cardinality(Running) + 1
        BY FS_AddElement DEF PoolBounded
    <3>2. Cardinality(Running) \in Nat
        BY FS_CardinalityType DEF PoolBounded
    <3> QED  BY <3>1, <3>2
  <2>4. IsFiniteSet(Running') /\ Cardinality(Running') <= Cardinality(Running \cup {q})
      BY <2>2, <2>3, FS_Subset
  <2>5. /\ Cardinality(Running) \in Nat /\ Cardinality(Running') \in Nat
        /\ Cardinality(Running \cup {q}) \in Nat
      BY <2>3, <2>4, FS_CardinalityType DEF PoolBounded
  <2> QED  BY <2>2, <2>3, <2>4, <2>5, QueryAssumption DEF PoolBounded
<1>2. CASE ~ \E q \in Queries : Begin(q)
  <2>1. Running' \subseteq Running
    <3>1. ASSUME NEW q \in Queries, Step(q) \/ Uncaught(q)
          PROVE  Running' \subseteq Running
      <4>1. PICK l : pc' = [pc EXCEPT ![q] = l]
          BY <3>1, StepMoves
      <4> QED  BY <3>1, <4>1, StepMoves DEF Running, Live, TypeOK
    <3>2. CASE Crash
        BY <3>2 DEF Crash, Running, Live
    <3>3. CASE \/ UNCHANGED vars \/ ADayPasses
               \/ \E s \in Sessions : CreateChatSession(s)
               \/ \E d \in Docs : Ingest(d)
        BY <3>3 DEF vars, ADayPasses, CreateChatSession, Ingest, Running, Live
    <3> QED  BY <1>2, <3>1, <3>2, <3>3 DEF Next
  <2>2. IsFiniteSet(Running') /\ Cardinality(Running') <= Cardinality(Running)
      BY <2>1, FS_Subset DEF PoolBounded
  <2>3. Cardinality(Running) \in Nat /\ Cardinality(Running') \in Nat
      BY <2>2, FS_CardinalityType DEF PoolBounded
  <2> QED  BY <2>2, <2>3, QueryAssumption DEF PoolBounded
<1> QED  BY <1>1, <1>2

-----------------------------------------------------------------------------
(* The daily quota.                                                        *)

Charged == counted \cup Admitted

LEMMA ChargedShrinks ==
    ASSUME OvershootInv, Charged' \subseteq Charged
    PROVE  OvershootInv'
<1>1. IsFiniteSet(Charged') /\ Cardinality(Charged') <= Cardinality(Charged)
    BY FS_Subset DEF OvershootInv, Charged
<1>2. Cardinality(Charged) \in Nat /\ Cardinality(Charged') \in Nat
    BY <1>1, FS_CardinalityType DEF OvershootInv, Charged
<1> QED
    BY <1>1, <1>2, QueryAssumption
    DEF OvershootInv, QueryOvershootBounded, Charged

(* Who is past the check is in the pool, and fewer than the limit are      *)
(* counted when one more passes.                                           *)
LEMMA AssertCanQueryOvershoot ==
    ASSUME TypeOK, PoolBounded, OvershootInv, NEW q \in Queries, AssertCanQuery(q)
    PROVE  OvershootInv'
<1>1. CASE Cardinality(counted) + 1 > DailyLimit
  <2>1. pc' = [pc EXCEPT ![q] = "done"] /\ counted' = counted
      BY <1>1 DEF AssertCanQuery, Refuse, Goto, database
  <2>2. Charged' \subseteq Charged
      BY <2>1 DEF Charged, Admitted, TypeOK
  <2> QED  BY <2>2, ChargedShrinks
<1>2. CASE ~ (Cardinality(counted) + 1 > DailyLimit)
  <2>1. pc[q] = "quota" /\ pc' = [pc EXCEPT ![q] = "index"] /\ counted' = counted
      BY <1>2 DEF AssertCanQuery, Goto, database
  <2>2. Charged' \subseteq counted \cup Running
      BY <2>1 DEF Charged, Admitted, Running, Live, TypeOK
  <2>3. IsFiniteSet(counted) /\ Cardinality(counted) \in Nat
    <3>1. IsFiniteSet(counted)
        BY FS_Subset DEF OvershootInv
    <3> QED  BY <3>1, FS_CardinalityType
  <2>4. /\ IsFiniteSet(Running) /\ Cardinality(Running) \in Nat
        /\ Cardinality(Running) <= Threads
      BY FS_CardinalityType DEF PoolBounded
  <2>5. /\ IsFiniteSet(counted \cup Running)
        /\ Cardinality(counted \cup Running) <= Cardinality(counted) + Cardinality(Running)
    <3>1. IsFiniteSet(counted \cap Running) /\ Cardinality(counted \cap Running) \in Nat
        BY <2>3, FS_Intersection, FS_CardinalityType
    <3>2. /\ IsFiniteSet(counted \cup Running)
          /\ Cardinality(counted \cup Running) = Cardinality(counted)
                + Cardinality(Running) - Cardinality(counted \cap Running)
        BY <2>3, <2>4, FS_Union
    <3> QED  BY <2>3, <2>4, <3>1, <3>2
  <2>6. /\ IsFiniteSet(Charged')
        /\ Cardinality(Charged') <= Cardinality(counted \cup Running)
      BY <2>2, <2>5, FS_Subset
  <2>7. Cardinality(Charged') \in Nat /\ Cardinality(counted \cup Running) \in Nat
      BY <2>5, <2>6, FS_CardinalityType
  <2>8. Cardinality(counted) + 1 <= DailyLimit
      BY <1>2, <2>3, QueryAssumption
  <2> QED
      BY <2>3, <2>4, <2>5, <2>6, <2>7, <2>8, QueryAssumption
      DEF OvershootInv, QueryOvershootBounded, Charged
<1> QED  BY <1>1, <1>2

LEMMA InitOvershoot == Init => OvershootInv
<1> SUFFICES ASSUME Init
             PROVE  OvershootInv
    OBVIOUS
<1>1. counted \cup Admitted = {}
    BY DEF Init, Admitted
<1> QED
    BY <1>1, FS_EmptySet, QueryAssumption DEF OvershootInv, QueryOvershootBounded

LEMMA StepOvershoot == TypeOK /\ PoolBounded /\ OvershootInv /\ [Next]_vars => OvershootInv'
<1> SUFFICES ASSUME TypeOK, PoolBounded, OvershootInv, [Next]_vars
             PROVE  OvershootInv'
    OBVIOUS
<1>1. CASE \E q \in Queries : AssertCanQuery(q)
    BY <1>1, AssertCanQueryOvershoot
<1>2. CASE ~ \E q \in Queries : AssertCanQuery(q)
  <2> SUFFICES Charged' \subseteq Charged
      BY ChargedShrinks
  <2>a. ASSUME NEW q \in Queries, NEW l, pc' = [pc EXCEPT ![q] = l],
               l \in {"index", "delete", "upsert", "generate", "persist"} => q \in Admitted,
               \A p \in counted' : p \in counted \/ p \in Admitted
        PROVE  Charged' \subseteq Charged
      BY <2>a DEF Charged, Admitted, TypeOK
  <2>b. ASSUME NEW q \in Queries, NEW code, Refuse(q, code)
        PROVE  Charged' \subseteq Charged
      BY <2>a, <2>b DEF Refuse, Goto, database
  <2>1. CASE UNCHANGED vars
      BY <2>1 DEF vars, database, Charged, Admitted
  <2>2. ASSUME NEW q \in Queries, Begin(q)
        PROVE  Charged' \subseteq Charged
      BY <2>2, <2>a DEF Begin, Goto, database
  <2>3. ASSUME NEW q \in Queries, Step(q)
        PROVE  Charged' \subseteq Charged
    <3>1. CASE ResolveChatSession(q)
      <4>1. PICK l \in {"rename", "documents", "done"} : pc' = [pc EXCEPT ![q] = l]
          BY <3>1 DEF ResolveChatSession, Refuse, Goto
      <4>2. counted' = counted
          BY <3>1 DEF ResolveChatSession, Refuse, database
      <4> QED  BY <4>1, <4>2, <2>a
    <3>2. CASE RenameSession(q)
        BY <3>2, <2>a DEF RenameSession, Goto, database
    <3>3. CASE ResolveDocumentIds(q)
        BY <3>3, <2>a, <2>b DEF ResolveDocumentIds, Goto, database
    <3>4. CASE ReadChunks(q) \/ DeleteVectors(q) \/ UpsertVectors(q) \/ Retrieve(q)
               \/ Generate(q) \/ Commit(q)
      <4>1. q \in Admitted
          BY <3>4 DEF ReadChunks, DeleteVectors, UpsertVectors, Retrieve, Generate,
                      Commit, Admitted
      <4>2. PICK l : pc' = [pc EXCEPT ![q] = l]
          BY <2>3, StepMoves
      <4>3. counted' = counted \/ counted' = counted \cup {q}
          BY <3>4 DEF ReadChunks, DeleteVectors, UpsertVectors, Retrieve, Generate,
                      Commit, Refuse, database
      <4> QED  BY <4>1, <4>2, <4>3, <2>a
    <3>5. CASE Respond(q)
        BY <3>5, <2>a DEF Respond, Goto, database
    <3> QED  BY <1>2, <2>3, <3>1, <3>2, <3>3, <3>4, <3>5 DEF Step
  <2>4. ASSUME NEW q \in Queries, Uncaught(q)
        PROVE  Charged' \subseteq Charged
      BY <2>4, <2>b DEF Uncaught
  <2>5. CASE ADayPasses \/ (\E s \in Sessions : CreateChatSession(s))
             \/ (\E d \in Docs : Ingest(d))
      BY <2>5 DEF ADayPasses, CreateChatSession, Ingest, Charged, Admitted
  <2>6. CASE Crash
      BY <2>6 DEF Crash, Charged, Admitted, Live, database
  <2> QED  BY <2>1, <2>2, <2>3, <2>4, <2>5, <2>6 DEF Next
<1> QED  BY <1>1, <1>2

(* However many queries race between the check of the daily quota and the  *)
(* commit that consumes it, they exceed it by less than the pool's threads. *)
THEOREM QueryOvershootAlwaysBounded == Spec => []QueryOvershootBounded
<1> DEFINE Inv == TypeInv /\ PoolBounded /\ OvershootInv
<1>1. Init => Inv
    BY InitTypes, InitPool, InitOvershoot
<1>2. Inv /\ [Next]_vars => Inv'
    BY StepTypes, StepPool, StepOvershoot DEF TypeInv
<1>3. Inv => QueryOvershootBounded
    BY DEF OvershootInv
<1> QED  BY <1>1, <1>2, <1>3, PTL DEF Spec
=============================================================================
