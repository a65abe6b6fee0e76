----------------------------- MODULE MCAnalysis -----------------------------
(* Small inputs of every kind, all of them within the bounds named here.   *)
EXTENDS Analysis

CONSTANTS w, v, r1, r2

Up(S, n) == UNION {[1..k -> S] : k \in 0..n}   \* the sequences of at most n elements
NonEmpty(S, n) == Up(S, n) \ {<< >>}

\* Texts of up to four pieces of up to five tokens, or of two short blocks.
Config(max, overlap) == [max |-> max, overlap |-> overlap]
Configs == {Config(2, 0), Config(2, 1), Config(3, 0), Config(3, 1), Config(3, 2)}
Blocks(base, pieces) == [base : {base}, pieces : pieces]
SomeChunkTasks ==
    [kind : {"chunk"}, config : Configs, blocks : [1..1 -> Blocks(4, Up(0..4, 4))]]
      \cup [kind : {"chunk"}, config : Configs, blocks : {<< a, b >> : a \in Blocks(0, Up(1..4, 2)), b \in Blocks(9, Up(1..2, 3))}]

\* Up to five results, best first, of three chunks of two documents: one more
\* than are asked of the store for a single answer.
Hit(c, score) == [chunk |-> c, document |-> IF c = 3 THEN "d2" ELSE "d1", score |-> score,
                  terms |-> IF c = 1 THEN {} ELSE IF c = 2 THEN {"a"} ELSE {"a", "b"}]
Hits == {Hit(c, score) : c \in 1..3, score \in {2, 4, 5}}
SomeSearchTasks ==
    [kind : {"search"}, query : {{"a"}, {"a", "b"}}, documents : {{}, {"d1"}}, topK : {1, 2},
     results : {rs \in Up(Hits, 5) : \A i \in 1..(Len(rs) - 1) : rs[i].score >= rs[i + 1].score}]

\* Sources of up to three lines of up to two sentences; the markers in them
\* name the second source, or one that never exists.
Sentence(terms, words, stop) ==
    [terms |-> terms, words |-> words, stop |-> stop, says |-> "claim", lead |-> << >>, refs |-> << >>]
Heading == << Sentence({"a"}, 1, FALSE) >>
Numbered == << Sentence({}, 1, TRUE), Sentence({"a"}, 1, FALSE) >>
OneSentence == << [Sentence({"a", "b"}, 5, TRUE) EXCEPT !.refs = << 2 >>] >>
TwoSentences == << Sentence({"b", "c"}, 6, TRUE), Sentence({"a", "c"}, 4, TRUE) >>
Quoting == << Sentence({"b", "c"}, 6, TRUE), [Sentence({"a", "c"}, 4, TRUE) EXCEPT !.lead = << 9 >>] >>
NoEvidence == << [Sentence({"a", "d"}, 6, TRUE) EXCEPT !.says = "no evidence"] >>
Remark == << Sentence({"c"}, 3, TRUE) >>
Lines == {Heading, Numbered, OneSentence, TwoSentences, Quoting, NoEvidence, Remark}
SomeLocalTasks ==
    [kind : {"local"}, query : {{"a"}, {"b"}, {"d"}}, sources : [1..1 -> Up(Lines, 3)] \cup [1..2 -> Up(Lines, 2)]]

\* Messages of up to three sentences about at most two sources.
Spoken == [says : Speech, refs : {<< >>, << 1 >>, << 3 >>, << 2, 1 >>}, after : {<< >>, << 2 >>}]
SomeMessageTasks == [kind : {"message"}, message : Up(Spoken, 3), count : 0..2]

\* Two fields, two sources, values that are told apart by type and source.
Value(type, n) == << type, n >>
Found(n) == {[t \in types |-> Value(t, n)] : types \in SUBSET {"text", "amount", "list"}}
SomeSources == {<< >>} \cup {<< a >> : a \in Found(1)} \cup {<< a, b >> : a \in Found(1), b \in Found(2)}
Schemas == UNION {[names -> {"text", "amount", "list"}] : names \in {{"f"}, {"f", "g"}}}
Raw == {NoField(name) : name \in {"f", "g", "h"}}
         \cup [name : {"f", "g", "h"}, value : {Value("text", 1)}, list : {FALSE}, sound : {TRUE}, source : 0..2,
               quote : {None, Value("text", 1), Value("amount", 2)}]
         \cup [name : {"f"}, value : {Value("text", 1)}, list : {FALSE}, sound : {FALSE}, source : {0, 1}, quote : {Value("text", 1)}]
         \cup [name : {"f"}, value : {Value("list", 1)}, list : {TRUE}, sound : {TRUE}, source : {1}, quote : {Value("text", 1)}]
SomePayloadTasks ==
    [kind : {"payload"}, fields : Up(Raw, 2), schema : [{"f"} -> {"text"}] \cup [{"f", "g"} -> {"text"}],
     sources : {<< [text |-> Value("text", 1)], [amount |-> Value("amount", 2)] >>}]
SomeExtractTasks == [kind : {"extract"}, schema : Schemas, sources : SomeSources]

\* K and k are one key, x and X one value, of "." nothing is left.
Keys == [K |-> "k", k |-> "k", m |-> "m"]
Values == [x |-> "x", X |-> "x", y |-> "y", dot |-> "nothing"]
Line(key, value) == [key |-> key, value |-> value]
SomeLines == {Line("K", "x"), Line("k", "X"), Line("k", "y"), Line("K", "dot"), Line("m", "x"), Line("m", "y")}
Source(d) == [document : {d}, lines : Up(SomeLines, 1)]
Side(d) == [document : {d}, sources : {<< >>} \cup {<< [document |-> d, lines |-> ls] >> : ls \in Up(SomeLines, 2)}
                                       \cup {<< a, b >> : a \in Source(d), b \in Source(d)}]
SomeCompareTasks ==
    [kind : {"compare"}, left : Side("d1"), right : Side("d2"), fields : {<< >>, << "K" >>, << "m", "k" >>}]

SomeAgentTasks == {[kind |-> "agent"]}
Keywords == {{"compare"}, {"compare", "report"}, {"extract"}, {"report"}, {"summarize"}, {}}

=============================================================================
