------------------------------ MODULE Chunker ------------------------------
(***************************************************************************)
(* How a block of extracted text becomes chunks.  A text is a sequence of  *)
(* pieces, each a number of tokens (0: nothing but white space); a token   *)
(* is one character, with one space to the next token and a blank line,    *)
(* two characters, to the next piece.  A token is known by its offset.     *)
(***************************************************************************)
EXTENDS Naturals, Sequences, SequencesExt, FiniteSetsExt, Functions

\* What the chunker is given; a ChunkingConfig checks its limits.
ChunkOK(blocks, config) ==
    /\ blocks \in Seq([base : Nat, pieces : Seq(Nat)])
    /\ config \in [max : Nat, overlap : Nat] /\ config.overlap < config.max

\* estimate_token_count: the parts are joined by blank lines, so tokens add up.
EstimateTokenCount(parts) == Len(FlattenSeq(parts))

Width(tokens) == IF tokens = 0 THEN 0 ELSE 2 * tokens - 1
StartOf(pieces, i) ==
    LET start[k \in DOMAIN pieces] == IF k = 1 THEN 0 ELSE start[k - 1] + Width(pieces[k - 1]) + 2
    IN  start[i]

Segment(pieces, i) ==
    LET start == StartOf(pieces, i) IN
    [text |-> [k \in 1..pieces[i] |-> start + 2 * (k - 1)], start |-> start, end |-> start + Width(pieces[i])]

SplitParagraphs(pieces) ==
    FlattenSeq([i \in DOMAIN pieces |-> IF pieces[i] = 0 THEN << >> ELSE << Segment(pieces, i) >>])

Chunk(text, start, end) == [text |-> text, start |-> start, end |-> end, count |-> Len(text)]

\* A paragraph of too many tokens, cut every maxTokens tokens.
SplitLarge(segment, maxTokens) ==
    LET n == Len(segment.text) IN
    [k \in 1..((n + maxTokens - 1) \div maxTokens) |->
        LET part == SubSeq(segment.text, (k - 1) * maxTokens + 1, IF k * maxTokens < n THEN k * maxTokens ELSE n)
        IN  Chunk(part, part[1], part[Len(part)] + 1)]

\* Mutant: every part is carried over.
SelectOverlapAll(parts, overlap) == IF overlap = 0 THEN << >> ELSE parts

\* The last parts, taken from the end: always one, and no other that would
\* exceed the overlap.
SelectOverlapParts(parts, overlap) ==
    LET taken(k) == SubSeq(parts, k, Len(parts))
        fits == {k \in DOMAIN parts : k = Len(parts) \/ EstimateTokenCount(taken(k)) <= overlap}
    IN  IF overlap = 0 \/ parts = << >> THEN << >> ELSE taken(Min(fits))

Empty == [parts |-> << >>, start |-> 0, end |-> 0]
Flushed(open) == IF open.parts = << >> THEN << >>
                 ELSE << Chunk(FlattenSeq(open.parts), open.start, open.end) >>

\* Mutant: a chunk that carries an overlap starts where its predecessor did.
OpenAfterFlushBack(open, overlap) ==
    LET kept == SelectOverlapParts(open.parts, overlap)
    IN  IF kept = << >> THEN Empty ELSE [open EXCEPT !.parts = kept]

\* What stays open after a chunk was closed: the overlap, whose text lies
\* before the offset the next chunk will claim.
OpenAfterFlush(open, overlap) ==
    LET kept == SelectOverlapParts(open.parts, overlap)
    IN  IF kept = << >> THEN Empty ELSE [parts |-> kept, start |-> open.end, end |-> open.end]

\* One turn of the loop over the segments.
MergeSegment(config, state, segment) ==
    LET n == Len(segment.text)
        exceeds == EstimateTokenCount(state.open.parts) + n > config.max /\ state.open.parts # << >>
        before == IF exceeds THEN OpenAfterFlush(state.open, config.overlap) ELSE state.open
    IN  IF n > config.max
        THEN [chunks |-> state.chunks \o Flushed(state.open) \o SplitLarge(segment, config.max), open |-> Empty]
        ELSE [chunks |-> state.chunks \o (IF exceeds THEN Flushed(state.open) ELSE << >>),
              open |-> [parts |-> Append(before.parts, segment.text),
                        start |-> IF before.parts = << >> THEN segment.start ELSE before.start,
                        end |-> segment.end]]

MergeSegments(segments, config) ==
    LET state[n \in 0..Len(segments)] ==
            IF n = 0 THEN [chunks |-> << >>, open |-> Empty] ELSE MergeSegment(config, state[n - 1], segments[n])
        last == state[Len(segments)]
    IN  last.chunks \o Flushed(last.open)

\* A block is its offset in the source and its pieces.
ChunkTextBlock(block, index, config) ==
    LET raw == MergeSegments(SplitParagraphs(block.pieces), config) IN
    [k \in DOMAIN raw |->
        [text |-> raw[k].text, start |-> block.base + raw[k].start, end |-> block.base + raw[k].end,
         count |-> raw[k].count, block |-> index, local |-> k]]

\* The place of a chunk is its global_chunk_index.
ChunkDocument(blocks, config) ==
    FlattenSeq([index \in DOMAIN blocks |-> ChunkTextBlock(blocks[index], index, config)])

-----------------------------------------------------------------------------
(* What chunking promises, of the chunks of a document *)

TokensOf(pieces) == UNION {Range(Segment(pieces, i).text) : i \in DOMAIN pieces}

\* A chunk first repeats tokens from before its range, then come its own.
OwnFrom(chunk, base) == Min({k \in DOMAIN chunk.text : base + chunk.text[k] >= chunk.start})
Repeated(chunk, base) == SubSeq(chunk.text, 1, OwnFrom(chunk, base) - 1)

\* The own tokens of a chunk are those of the text in its range, in their order.
TellsItsRange(chunk, block) ==
    LET at(k) == block.base + chunk.text[k]
        own == OwnFrom(chunk, block.base)..Len(chunk.text)
    IN  /\ \E k \in DOMAIN chunk.text : at(k) >= chunk.start
        /\ \A j, k \in own : j < k => at(j) < at(k)
        /\ {at(k) : k \in own} = {block.base + t : t \in TokensOf(block.pieces)} \cap chunk.start..(chunk.end - 1)

RangesTellText(blocks, chunks) ==
    /\ \A k \in DOMAIN chunks :
          LET c == chunks[k]
              b == blocks[c.block]
          IN  /\ TellsItsRange(c, b)
              /\ IF k = 1 \/ chunks[k - 1].block # c.block
                 THEN /\ c.local = 1 /\ Repeated(c, b.base) = << >>
                      /\ k > 1 => chunks[k - 1].block < c.block
                 ELSE /\ c.local = chunks[k - 1].local + 1
                      /\ chunks[k - 1].end <= c.start
                      /\ Repeated(c, b.base) \in Suffixes(chunks[k - 1].text)
    /\ \A index \in DOMAIN blocks : \A t \in TokensOf(blocks[index].pieces) :
          \E k \in DOMAIN chunks : /\ chunks[k].block = index
                                  /\ blocks[index].base + t \in chunks[k].start..(chunks[k].end - 1)

SizesBounded(blocks, config, chunks) ==
    \A k \in DOMAIN chunks :
        LET b == blocks[chunks[k].block]
            repeated == Repeated(chunks[k], b.base)
        IN  /\ chunks[k].count = Len(chunks[k].text)
            /\ Len(chunks[k].text) - Len(repeated) <= config.max
            /\ Len(repeated) <= config.overlap \/ \E i \in DOMAIN b.pieces : repeated = Segment(b.pieces, i).text

=============================================================================
