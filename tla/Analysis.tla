------------------------------ MODULE Analysis ------------------------------
(***************************************************************************)
(* The parts of the system that only compute, each applied to a task, and  *)
(* the agent that plans their use: the chunker, retrieval, the local       *)
(* language model, the validation of answers and of extracted fields, the  *)
(* comparison of documents and its report.                                 *)
(***************************************************************************)
EXTENDS Agent, Chunker, Answers, Extraction, Comparison

CONSTANTS ChunkTasks,    \* blocks and a chunking configuration
          SearchTasks,   \* query terms, documents asked for, results, top k
          LocalTasks,    \* query terms and the texts of the sources
          MessageTasks,  \* a message and the number of sources
          PayloadTasks,  \* extracted fields from any client, a schema, sources
          ExtractTasks,  \* a schema and sources, for the local client
          CompareTasks,  \* two sides and the fields asked for
          AgentTasks     \* what makes the agent run

\* What the tasks are: each of its kind, and made of the data its functions take.
ASSUME TasksHaveTheirKind ==
    /\ \A t \in ChunkTasks : t.kind = "chunk"
    /\ \A t \in SearchTasks : t.kind = "search"
    /\ \A t \in LocalTasks : t.kind = "local"
    /\ \A t \in MessageTasks : t.kind = "message"
    /\ \A t \in PayloadTasks : t.kind = "payload"
    /\ \A t \in ExtractTasks : t.kind = "extract"
    /\ \A t \in CompareTasks : t.kind = "compare"
    /\ \A t \in AgentTasks : t.kind = "agent"

ASSUME TasksHaveTheirData ==
    /\ \A t \in ChunkTasks : ChunkOK(t.blocks, t.config)
    /\ \A t \in SearchTasks : SearchOK(t.query, t.results, t.topK)
    /\ \A t \in LocalTasks : t.sources \in Seq(Texts)
    /\ \A t \in MessageTasks : t.message \in Messages /\ t.count \in Nat
    /\ \A t \in ExtractTasks : IsFiniteSet(DOMAIN t.schema) /\ t.sources \in Seq(Range(t.sources))
    /\ \A t \in CompareTasks : SideOK(t.left) /\ SideOK(t.right) /\ t.fields \in Seq(DOMAIN NormalKey)

VARIABLES task, result

vars == << runs, plans, task, result >>

Pending == [done |-> FALSE]

Init ==
    /\ AgentInit
    /\ result = Pending
    /\ \/ task \in ChunkTasks
       \/ task \in SearchTasks
       \/ task \in LocalTasks
       \/ task \in MessageTasks
       \/ task \in PayloadTasks
       \/ task \in ExtractTasks
       \/ task \in CompareTasks
       \/ task \in AgentTasks

Outcome(t) ==
    CASE t.kind = "chunk" -> ChunkDocument(t.blocks, t.config)
      [] t.kind = "search" -> Retrieve(t.query, t.documents, t.results, t.topK)
      [] t.kind = "local" -> GenerateAnswer(t.query, t.sources)
      [] t.kind = "message" -> Generate(t.message, t.count)
      [] t.kind = "payload" -> Validate(t.fields, t.schema, t.sources)
      [] t.kind = "extract" -> ExtractJson(t.schema, t.sources)
      [] t.kind = "compare" -> Report(Compare(t.left, t.right, t.fields))

Compute ==
    /\ task.kind # "agent"
    /\ result = Pending
    /\ result' = [done |-> TRUE, value |-> Outcome(task)]
    /\ UNCHANGED << runs, plans, task >>

Plan == task.kind = "agent" /\ AgentNext /\ UNCHANGED << task, result >>

Next == Compute \/ Plan

Spec == Init /\ [][Next]_vars

-----------------------------------------------------------------------------
(* Properties *)

Done(kind) == task.kind = kind /\ result.done

\* The ranges of a document's chunks tell where its text is: in order they hold
\* every token exactly once, each in a chunk whose text has it, and what a
\* chunk repeats is the end of the chunk before it. No chunk has more than
\* max_tokens tokens of its own, and what it repeats is within the overlap or
\* a single paragraph; their numbers and token counts are right.
ChunksTellText ==
    Done("chunk") => /\ RangesTellText(task.blocks, result.value)
                     /\ SizesBounded(task.blocks, task.config, result.value)

\* Retrieval shows the best result of each of the best chunks, once each, and
\* nothing from outside the documents asked for.
SearchFindsBest ==
    Done("search") => BestOfEach(task.query, task.documents, task.results, task.topK, result.value)

\* An accepted answer is grounded, claim by claim, whoever wrote the message.
\* What the local model says is refused only when a source has a heading above
\* a line and one of them is of several sentences, or a marker in the text of a
\* source names one that is not there. It cites no source but those that share
\* a term with the query and those that markers in the texts name.
AnswersAreGrounded ==
    /\ Done("message") => Grounded(task.message, task.count, result.value)
    /\ Done("local") =>
        LET got == Generate(result.value, Len(task.sources))
            texts == [n \in DOMAIN task.sources |-> FlattenSeq(task.sources[n])]
            split(lines) == \E i, j \in DOMAIN lines : /\ LooksLikeHeading(lines[i]) /\ i < j /\ j <= i + 4
                                                      /\ Len(lines[i]) + Len(lines[j]) > 2
            marked == UNION {UNION {Range(s.lead) \cup Range(s.refs) : s \in Range(texts[n])} : n \in DOMAIN texts}
        IN  /\ got.outcome = "refused" =>
                   \/ \E n \in DOMAIN task.sources : split(task.sources[n])
                   \/ \E m \in marked : m \notin 1..Len(task.sources)
            /\ got.outcome = "answer" => \A n \in Range(got.citations) \ marked : task.query \cap TermsOf(texts[n]) # {}

\* "The local answer generator must cite claims with source IDs such as [S1].
\* Citation validation rejects unknown source references and answers without
\* evidence" (docs/ARCHITECTURE.md:68): what the local model says of sources
\* whose texts have no markers of their own is never rejected.
LocalAnswersAccepted ==
    Done("local") =>
        \/ Generate(result.value, Len(task.sources)).outcome # "refused"
        \/ \E lines \in Range(task.sources) : \E s \in Range(FlattenSeq(lines)) : s.lead \o s.refs # << >>

\* Extracted fields are accepted from no client unless every field of the
\* schema is there and every value is quoted by the source it names. Those of
\* the local client come from the first source that has them and are accepted,
\* except that any list it finds breaks the validation.
AcceptedFieldsAreEvidenced ==
    /\ Done("payload") => AcceptedIsEvidenced(task.fields, task.schema, task.sources, result.value)
    /\ Done("extract") =>
          LocalIsAccepted(task.schema, task.sources, result.value, Validate(result.value, task.schema, task.sources))

\* A comparison report that raises no flag hides no difference, and the
\* sections of any report agree with each other and with the documents.
ReportsAreReliable ==
    Done("compare") => /\ NoFlagsNoDifference(task.left, task.right, task.fields, result.value)
                       /\ ReportAddsUp(task.left, task.right, result.value)

=============================================================================
