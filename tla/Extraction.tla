----------------------------- MODULE Extraction -----------------------------
(***************************************************************************)
(* Structured extraction.  A schema is a set of fields, each with a type.  *)
(* A source is the values found in it, by type; texts are abstracted to    *)
(* which quotes occur in which source.  A client returns a list of raw     *)
(* fields and the validator accepts it, rejects it or breaks on it.  An    *)
(* output that is not a JSON object with a list of objects is rejected     *)
(* before any of this, and the flags of the whole output are left out.     *)
(***************************************************************************)
EXTENDS Naturals, Sequences, SequencesExt, FiniteSetsExt, Functions

\* The value of a field for which nothing was found.
None == << >>

\* A value of a list field is a list; its quote joins its first three items,
\* which stand on separate lines of the source unless there is one only. A
\* sound field's confidence is a number from 0 to 1 and its flags are strings.
NoField(name) == [name |-> name, value |-> None, list |-> FALSE, sound |-> TRUE, source |-> 0, quote |-> None]
FieldFrom(name, type, sources, n) ==
    [name |-> name, value |-> sources[n][type], list |-> type = "list", sound |-> TRUE, source |-> n,
     quote |-> sources[n][type]]

\* Mutant: the sources are searched from the last one.
ExtractFieldLatest(name, type, sources) ==
    LET holders == {n \in DOMAIN sources : type \in DOMAIN sources[n]} IN
    IF holders = {} THEN NoField(name) ELSE FieldFrom(name, type, sources, Max(holders))

\* The first source that has a value of the field's type.
ExtractField(name, type, sources) ==
    LET holders == {n \in DOMAIN sources : type \in DOMAIN sources[n]} IN
    IF holders = {} THEN NoField(name) ELSE FieldFrom(name, type, sources, Min(holders))

ExtractJson(schema, sources) ==
    LET names == SetToSeq(DOMAIN schema)
    IN  [k \in DOMAIN names |-> ExtractField(names[k], schema[names[k]], sources)]

\* Quotes found in a source: its values, but not several list items at once.
QuotesOf(source) == {source[t] : t \in DOMAIN source \ {"list"}}

\* Looking a list or a dict up in the set of empty values is a TypeError.
Breaks(raw) == raw.list

\* Mutant: the quote is looked for in any source.
HasEvidenceSomewhere(raw, sources) ==
    raw.source \in DOMAIN sources /\ \E n \in DOMAIN sources : raw.quote \in QuotesOf(sources[n])

HasEvidence(raw, sources) == raw.source \in DOMAIN sources /\ raw.quote \in QuotesOf(sources[raw.source])

AllPresent(fields, schema) == DOMAIN schema \subseteq {raw.name : raw \in Range(fields)}

\* What one field comes to; that it is not sound is found out last, when the
\* field is built, and is no rejection.
Verdict(raw, schema, sources) ==
    IF raw.name \notin DOMAIN schema THEN "rejected"
    ELSE IF Breaks(raw) THEN "error"
    ELSE IF raw.value # None /\ ~HasEvidence(raw, sources) THEN "rejected"
    ELSE IF ~raw.sound THEN "error"
    ELSE "fine"

\* The first field that is not fine ends the validation; then the schema is
\* checked for missing ones.
Validate(fields, schema, sources) ==
    LET bad == {k \in DOMAIN fields : Verdict(fields[k], schema, sources) # "fine"}
    IN  IF bad # {} THEN Verdict(fields[Min(bad)], schema, sources)
        ELSE IF AllPresent(fields, schema) THEN "accepted" ELSE "rejected"

-----------------------------------------------------------------------------
(* What it promises *)

\* What is accepted, from whatever client, answers every field of the schema
\* and no other, each value is quoted by the very source it names, and no
\* field is without a sound confidence.
AcceptedIsEvidenced(fields, schema, sources, outcome) ==
    outcome = "accepted" =>
        /\ {raw.name : raw \in Range(fields)} = DOMAIN schema
        /\ \A raw \in Range(fields) : raw.value # None =>
              raw.source \in DOMAIN sources /\ \E t \in DOMAIN sources[raw.source] : sources[raw.source][t] = raw.quote
        /\ \A raw \in Range(fields) : raw.sound

\* What the local client extracts from the first source that has it is
\* accepted, unless it found a list.
LocalIsAccepted(schema, sources, fields, outcome) ==
    /\ outcome = "accepted" <=> \A name \in DOMAIN schema :
          schema[name] = "list" => \A n \in DOMAIN sources : "list" \notin DOMAIN sources[n]
    /\ \A raw \in Range(fields) : \A n \in DOMAIN sources :
          schema[raw.name] \in DOMAIN sources[n] => raw.source \in 1..n

=============================================================================
