----------------------------- MODULE Comparison -----------------------------
(***************************************************************************)
(* The comparison of two documents and the report on it.  A side is a      *)
(* document with its sources; a source is the key: value lines found in    *)
(* its text.  What differs in spelling only is the same after              *)
(* normalisation, which NormalKey and NormalValue stand for.               *)
(***************************************************************************)
EXTENDS Naturals, Sequences, SequencesExt, FiniteSetsExt, Functions

CONSTANTS NormalKey,   \* from the keys as written to the keys compared
          NormalValue, \* from the values as written to the values compared
          NoValue      \* the value of which normalisation leaves nothing

\* A side is a sequence of sources, a source a sequence of lines.
SideLines == [key : DOMAIN NormalKey, value : DOMAIN NormalValue]
SideOK(side) ==
    /\ side.sources \in Seq(Range(side.sources))
    /\ \A n \in DOMAIN side.sources : side.sources[n].lines \in Seq(SideLines)

ValidSide(side) == side.sources # << >> /\ \A s \in Range(side.sources) : s.document = side.document

\* The lines of a side, in order, each with its source.
LinesOf(side) ==
    FlattenSeq([n \in DOMAIN side.sources |->
        [k \in DOMAIN side.sources[n].lines |-> [source |-> n, line |-> side.sources[n].lines[k]]]])

\* The places of the lines that have a value, and those of one key.
Told(lines) == {k \in DOMAIN lines : NormalValue[lines[k].line.value] # NoValue}
KeyAt(lines, k) == NormalKey[lines[k].line.key]
PlacesOf(lines, key) == {k \in Told(lines) : KeyAt(lines, k) = key}

\* Mutant: a later line replaces an earlier one, but not its evidence.
ExtractFactsLast(side) ==
    LET lines == LinesOf(side)
    IN  [key \in {KeyAt(lines, k) : k \in Told(lines)} |->
            [value |-> lines[Max(PlacesOf(lines, key))].line.value, source |-> lines[Min(PlacesOf(lines, key))].source]]

\* The first line of each key that has a value.
ExtractFacts(side) ==
    LET lines == LinesOf(side)
        first(key) == lines[Min(PlacesOf(lines, key))]
    IN  [key \in {KeyAt(lines, k) : k \in Told(lines)} |->
            [value |-> first(key).line.value, source |-> first(key).source]]

ComparisonKeys(left, right, fields) ==
    IF fields # << >> THEN [k \in DOMAIN fields |-> NormalKey[fields[k]]]
    ELSE SetToSeq(DOMAIN left \cup DOMAIN right)

\* Mutant: a field found on neither side is the same on both.
StatusNeitherSame(key, left, right) ==
    IF (key \in DOMAIN left) = (key \in DOMAIN right)
    THEN IF key \notin DOMAIN left \/ NormalValue[left[key].value] = NormalValue[right[key].value]
         THEN "same" ELSE "changed"
    ELSE IF key \in DOMAIN left THEN "only_left" ELSE "only_right"

Status(key, left, right) ==
    IF key \in DOMAIN left /\ key \in DOMAIN right
    THEN IF NormalValue[left[key].value] = NormalValue[right[key].value] THEN "same" ELSE "changed"
    ELSE IF key \in DOMAIN left THEN "only_left"
    ELSE IF key \in DOMAIN right THEN "only_right"
    ELSE "changed" \* asked for and found on neither side

Evidence(facts, key) == IF key \in DOMAIN facts THEN << facts[key].source >> ELSE << >>

CompareKey(key, left, right) ==
    [key |-> key, status |-> Status(key, left, right),
     left |-> Evidence(left, key), right |-> Evidence(right, key)]

ReviewFlags(items) ==
    LET statuses == {item.status : item \in Range(items)} IN
    (IF items = << >> THEN {"no_comparable_fields"} ELSE {})
      \cup (IF "changed" \in statuses THEN {"differences_found"} ELSE {})
      \cup (IF statuses \cap {"only_left", "only_right"} # {} THEN {"missing_fields_found"} ELSE {})

Appendix(left, right) ==
    [n \in DOMAIN left.sources |-> << "left", n >>] \o [n \in DOMAIN right.sources |-> << "right", n >>]

Rejected == [items |-> << >>, flags |-> {"rejected"}, appendix |-> << >>]

Compare(left, right, fields) ==
    LET leftFacts == ExtractFacts(left)
        rightFacts == ExtractFacts(right)
        keys == ComparisonKeys(leftFacts, rightFacts, fields)
        items == [k \in DOMAIN keys |-> CompareKey(keys[k], leftFacts, rightFacts)]
    IN  IF ~ValidSide(left) \/ ~ValidSide(right) THEN Rejected
        ELSE [items |-> items, flags |-> ReviewFlags(items), appendix |-> Appendix(left, right)]

-----------------------------------------------------------------------------
(* The report: four sections *)

CountItems(items, status) == Cardinality({k \in DOMAIN items : items[k].status = status})

ExecutiveSummary(comparison) ==
    [total |-> Len(comparison.items), same |-> CountItems(comparison.items, "same"),
     changed |-> CountItems(comparison.items, "changed"), onlyLeft |-> CountItems(comparison.items, "only_left"),
     onlyRight |-> CountItems(comparison.items, "only_right"), flags |-> comparison.flags]

\* The evidence column names a source of the left side, the right side or both.
SideBySide(comparison) ==
    [k \in DOMAIN comparison.items |->
        LET item == comparison.items[k]
        IN  [key |-> item.key, status |-> item.status,
             evidence |-> [n \in DOMAIN item.left |-> << "left", item.left[n] >>]
                            \o [n \in DOMAIN item.right |-> << "right", item.right[n] >>]]]

Report(comparison) ==
    [summary |-> ExecutiveSummary(comparison), rows |-> SideBySide(comparison),
     appendix |-> comparison.appendix, flags |-> comparison.flags]

-----------------------------------------------------------------------------
(* What they promise *)

\* The value a reader finds first: in the earliest source with a line of that key.
Says(side, key, value) ==
    \E n \in DOMAIN side.sources : \E k \in DOMAIN side.sources[n].lines :
        LET line(m, j) == side.sources[m].lines[j]
            tells(m, j) == NormalKey[line(m, j).key] = key /\ NormalValue[line(m, j).value] # NoValue
        IN  /\ tells(n, k) /\ NormalValue[line(n, k).value] = value
            /\ \A m \in 1..n : \A j \in DOMAIN side.sources[m].lines : tells(m, j) => m = n /\ k <= j

\* A report without flags may be relied on: whatever was compared - the fields
\* asked for, or else all - both documents say it first with the same value.
NoFlagsNoDifference(left, right, fields, report) ==
    LET keys == IF fields # << >> THEN {NormalKey[f] : f \in Range(fields)} ELSE Range(NormalKey)
        said(side, key) == {value \in Range(NormalValue) : Says(side, key, value)}
    IN  report.flags = {} =>
            /\ \A key \in keys : said(left, key) = said(right, key)
            /\ fields # << >> => \A key \in keys : said(left, key) # {}

\* The numbers of the summary add up to the rows, and what a row cites stands
\* in the appendix, in a source where the key and its value are found.
ReportAddsUp(left, right, report) ==
    LET side(name) == IF name = "left" THEN left ELSE right
        s == report.summary
    IN  /\ s.total = Len(report.rows) /\ s.total = s.same + s.changed + s.onlyLeft + s.onlyRight
        /\ \A row \in Range(report.rows) :
              /\ \A e \in Range(row.evidence) :
                    /\ e \in Range(report.appendix)
                    /\ \E line \in Range(side(e[1]).sources[e[2]].lines) :
                          NormalKey[line.key] = row.key /\ Says(side(e[1]), row.key, NormalValue[line.value])
              /\ row.status \in {"only_left", "only_right"} <=> Len(row.evidence) = 1

=============================================================================
