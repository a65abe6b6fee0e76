------------------------------ MODULE Answers ------------------------------
(***************************************************************************)
(* From search results to a cited answer: retrieval, the local language    *)
(* model, validation of the citations.  A text is a sequence of lines, a   *)
(* line a sequence of sentences; every sentence of a line but the last     *)
(* ends with a full stop, and a full stop ends a word.  A sentence is its  *)
(* important terms, its number of words, what it says, and the citation    *)
(* markers in it: those it begins with after a space, and the others.      *)
(* Equal records stand for equal texts.  A message is a sequence of        *)
(* sentences, each with the source numbers inside it and those that follow *)
(* its full stop and a space.  A sentence says a claim, or begins with "I  *)
(* don't have enough evidence", or is another that claims nothing ("Not    *)
(* enough evidence ...", "Sources:", markers alone).                       *)
(***************************************************************************)
EXTENDS Naturals, Integers, Sequences, SequencesExt, FiniteSetsExt, Functions

\* The elements of s at the places in K, and the first of equal elements.
Picked(s, K) == FlattenSeq([k \in DOMAIN s |-> IF k \in K THEN << s[k] >> ELSE << >>])
Distinct(s) == Picked(s, {k \in DOMAIN s : \A j \in 1..(k - 1) : s[j] # s[k]})

Speech == {"claim", "no evidence", "other"}
Texts == Seq(Seq([terms : SUBSET STRING, words : Nat, stop : BOOLEAN, says : Speech, lead : Seq(Nat), refs : Seq(Nat)]))
Messages == Seq([says : Speech, refs : Seq(Nat), after : Seq(Nat)])

-----------------------------------------------------------------------------
(* Retrieval.  A result: a chunk, its document, a vector score, its terms. *)

\* What a search is given: the terms of the query and the store's results, in
\* which a chunk has one text; a top k below one is an error before any search.
Results(results) ==
    [chunk : {r.chunk : r \in Range(results)}, document : {r.document : r \in Range(results)},
     score : Nat, terms : {r.terms : r \in Range(results)}]
SearchOK(query, results, topK) ==
    /\ IsFiniteSet(query) /\ topK \in Nat \ {0} /\ results \in Seq(Results(results))
    /\ \A r, o \in Range(results) : r.chunk = o.chunk => r.terms = o.terms

Overlap(query, terms) ==
    IF query = {} THEN 0 ELSE (10 * Cardinality(query \cap terms)) \div Cardinality(query)

\* 0.7 of the vector score and 0.3 of the overlap, both in tenths.
Reranked(query, r) == [r EXCEPT !.score = 7 * r.score + 3 * Overlap(query, r.terms)]

Firsts(results) == Picked(results, {k \in DOMAIN results : \A j \in 1..(k - 1) : results[j].chunk # results[k].chunk})

\* Mutant: the last result of a chunk wins.
DedupeResultsLast(results) ==
    LET last(c) == results[Max({k \in DOMAIN results : results[k].chunk = c})]
    IN  [n \in DOMAIN Firsts(results) |-> last(Firsts(results)[n].chunk)]

\* The best result of each chunk, at the place of its first.
DedupeResults(results) ==
    LET best(c) == CHOOSE r \in Range(results) :
                      r.chunk = c /\ \A o \in Range(results) : o.chunk = c => o.score <= r.score
    IN  [n \in DOMAIN Firsts(results) |-> best(Firsts(results)[n].chunk)]

\* A stable sort by falling score, cut at topK.
Top(results, topK) ==
    LET before(i, j) == results[i].score > results[j].score \/ (results[i].score = results[j].score /\ i < j)
        place(i) == Cardinality({j \in DOMAIN results : before(j, i)}) + 1
    IN  [n \in 1..Min({topK, Len(results)}) |-> results[CHOOSE i \in DOMAIN results : place(i) = n]]

\* What the vector store finds in the documents asked for: the best by vector,
\* four times as many as will be shown.
Candidates(documents, results, topK) ==
    LET found == Picked(results, {k \in DOMAIN results : documents = {} \/ results[k].document \in documents})
    IN  SubSeq(found, 1, Min({4 * topK, Len(found)}))

Retrieve(query, documents, results, topK) ==
    LET distinct == DedupeResults(Candidates(documents, results, topK))
    IN  Top([k \in DOMAIN distinct |-> Reranked(query, distinct[k])], topK)

-----------------------------------------------------------------------------
(* The local language model *)

TermsOf(sentences) == UNION {s.terms : s \in Range(sentences)}
WordsOf(sentences) == FoldLeft(LAMBDA n, s : n + s.words, 0, sentences)
Useful(unit) == Cardinality(TermsOf(unit)) >= 2 /\ WordsOf(unit) >= 4
LooksLikeHeading(line) == TermsOf(line) # {} /\ WordsOf(line) <= 5 /\ ~line[Len(line)].stop

NextUsefulLines(lines, i) ==
    {j \in (i + 1)..Min({i + 4, Len(lines)}) : ~LooksLikeHeading(lines[j]) /\ Useful(lines[j])}

\* "Heading: line": the heading's last sentence runs into the line's first.
Headed(heading, line) ==
    LET last == heading[Len(heading)]
        joined == [last EXCEPT !.terms = @ \cup line[1].terms, !.words = @ + line[1].words, !.stop = line[1].stop,
                               !.refs = @ \o line[1].lead \o line[1].refs]
    IN  Front(heading) \o << joined >> \o Tail(line)

\* A heading with the next useful line after it, then every sentence.
EvidenceUnits(lines) ==
    LET heads == [i \in DOMAIN lines |->
                     IF LooksLikeHeading(lines[i]) /\ NextUsefulLines(lines, i) # {}
                     THEN << Headed(lines[i], lines[Min(NextUsefulLines(lines, i))]) >> ELSE << >>]
        sentences == FlattenSeq(lines)
    IN  Distinct(FlattenSeq(heads) \o [k \in DOMAIN sentences |-> << sentences[k] >>])

NoAnswer == << [says |-> "no evidence", refs |-> << >>, after |-> << >>] >>

\* A unit with its source cited at its end.
Cited(source, unit) ==
    [k \in DOMAIN unit |-> IF k = Len(unit) THEN [unit[k] EXCEPT !.refs = Append(@, source)] ELSE unit[k]]

\* Sentences as a message is read: the markers a sentence begins with follow
\* the full stop of the one before it; the first keeps them, and is a claim.
AsMessage(sentences) ==
    [k \in DOMAIN sentences |->
        [says |-> IF k = 1 /\ sentences[k].lead # << >> THEN "claim" ELSE sentences[k].says,
         refs |-> IF k = 1 THEN sentences[k].lead \o sentences[k].refs ELSE sentences[k].refs,
         after |-> IF k = Len(sentences) THEN << >> ELSE sentences[k + 1].lead]]

\* Mutant: units need not share a term with the query.
GenerateAnswerAnyUnit(query, sources) ==
    LET mine(n) == LET units == EvidenceUnits(sources[n])
                   IN  Picked([k \in DOMAIN units |-> [source |-> n, unit |-> units[k]]],
                              {k \in DOMAIN units : Useful(units[k])})
        all == FlattenSeq([n \in DOMAIN sources |-> mine(n)])
        cited == SubSeq(all, 1, Min({3, Len(all)}))
    IN  IF cited = << >> THEN NoAnswer
        ELSE AsMessage(FlattenSeq([k \in DOMAIN cited |-> Cited(cited[k].source, cited[k].unit)]))

\* Three units at most, each cited once, at its end.
GenerateAnswer(query, sources) ==
    LET mine(n) == LET units == EvidenceUnits(sources[n])
                   IN  Picked([k \in DOMAIN units |-> [source |-> n, unit |-> units[k]]],
                              {k \in DOMAIN units : Useful(units[k]) /\ query \cap TermsOf(units[k]) # {}})
        all == FlattenSeq([n \in DOMAIN sources |-> mine(n)])
        cited == SubSeq(all, 1, Min({3, Len(all)}))
    IN  IF cited = << >> THEN NoAnswer
        ELSE AsMessage(FlattenSeq([k \in DOMAIN cited |-> Cited(cited[k].source, cited[k].unit)]))

-----------------------------------------------------------------------------
(* Citations *)

\* A marker after the full stop belongs to the sentence it follows.
NormalizeCitationPlacement(message) ==
    [k \in DOMAIN message |-> [message[k] EXCEPT !.refs = @ \o message[k].after, !.after = << >>]]

\* The numbers in the order of their first mention.
ExtractSourceRefs(message) == Distinct(FlattenSeq([k \in DOMAIN message |-> message[k].refs \o message[k].after]))

Uncited(message) ==
    {k \in DOMAIN message : message[k].says = "claim" /\ NormalizeCitationPlacement(message)[k].refs = << >>}

\* Mutant: unknown references are skipped.
BuildCitationsKnown(message, count) ==
    LET refs == ExtractSourceRefs(message)
    IN  [accepted |-> TRUE, refs |-> Picked(refs, {k \in DOMAIN refs : refs[k] \in 1..count})]

BuildCitations(message, count) ==
    LET refs == ExtractSourceRefs(message)
    IN  [accepted |-> Range(refs) \subseteq 1..count, refs |-> refs]

Refused == [outcome |-> "refused"]
Unanswered == [outcome |-> "no answer", citations |-> << >>]

\* generate, given what the language model said about `count` sources.
Generate(message, count) ==
    LET built == BuildCitations(message, count) IN
    IF count = 0 \/ (message # << >> /\ message[1].says = "no evidence") THEN Unanswered
    ELSE IF Uncited(message) # {} \/ ~built.accepted \/ built.refs = << >> THEN Refused
    ELSE [outcome |-> "answer", citations |-> built.refs]

-----------------------------------------------------------------------------
(* What the pipeline promises *)

\* Of what is retrieved nothing is shown twice, nothing lies outside the
\* documents asked for, and no candidate left out was better.
BestOfEach(query, documents, results, topK, got) ==
    LET found == Range(Candidates(documents, results, topK))
        score(r) == Reranked(query, r).score
        best(c) == Max({score(r) : r \in {s \in found : s.chunk = c}})
        chunks == {r.chunk : r \in found}
    IN  /\ documents # {} => \A i \in DOMAIN got : got[i].document \in documents
        /\ Len(got) = Min({topK, Cardinality(chunks)})
        /\ \A i, j \in DOMAIN got : i < j => got[i].chunk # got[j].chunk /\ got[i].score >= got[j].score
        /\ \A i \in DOMAIN got : got[i].chunk \in chunks /\ got[i].score = best(got[i].chunk)
        /\ \A c \in chunks : (\A i \in DOMAIN got : got[i].chunk # c) =>
                                 \A i \in DOMAIN got : got[i].score >= best(c)

\* Every claim of an answer names a source that exists, inside the sentence or
\* right after it; a citation for each source named and for no other.
Grounded(message, count, got) ==
    LET named(s) == Range(s.refs) \cup Range(s.after) IN
    got.outcome = "answer" =>
        /\ \A k \in DOMAIN message : message[k].says = "claim" => named(message[k]) # {}
        /\ Range(got.citations) = UNION {named(s) : s \in Range(message)}
        /\ Range(got.citations) \subseteq 1..count /\ got.citations # << >>
        /\ Cardinality(Range(got.citations)) = Len(got.citations)

=============================================================================
