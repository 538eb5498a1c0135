------------------------------ MODULE Chunking ------------------------------
(***************************************************************************)
(* chunk_markdown of app/vector_store.py: a Markdown document becomes the  *)
(* chunks that are embedded and indexed, and a chunk that breaks its token *)
(* budget stops the whole ingest.  Blocks of one section and kind are      *)
(* grouped, blocks above the budget split, the parts packed into cores     *)
(* near a target size, and neighbouring cores of prose lent each other     *)
(* sentences.                                                              *)
(*                                                                         *)
(* The tokens of a document are numbered; a text is an interval of them    *)
(* and its sentences, clauses and words are known by their last tokens.    *)
(* Headings and the fence of a code block or the head of a table are no    *)
(* tokens of it: a wrapper is repeated around each part.  The tokenizer is *)
(* taken to count a joined text as its parts and the separators.           *)
(***************************************************************************)
EXTENDS Integers, FiniteSets, SequencesExt

CONSTANTS BodyTarget, BodyMax, OverlapTarget, OverlapMax,  \* settings
          Separator,  \* tokens of the blank line between joined parts
          Blocks,     \* blocks a document may have
          Headings,   \* and headings: level and name
          MaxItems    \* bound: blocks and headings of a document

ASSUME ChunkingAssumption ==
    /\ {BodyTarget, BodyMax} \subseteq Nat \ {0} /\ BodyTarget <= BodyMax
    /\ {OverlapTarget, OverlapMax, Separator, MaxItems} \subseteq Nat
    /\ OverlapTarget <= OverlapMax
    /\ \A b \in Blocks : /\ b.kind \in {"text", "code", "table"} /\ b.size \in Nat \ {0}
                         /\ b.wrapper \in Nat
                         /\ b.kind = "text" => b.wrapper = 0
    /\ \A h \in Headings : h.level \in Nat \ {0}

VARIABLES
    pc,        \* "read", "overlap", "done", or "refused"
    read,      \* levels and names of the items read; level 0 for a block
    length,    \* tokens read
    ends,      \* last tokens of the sentences, clauses and words read
    stack,     \* open headings
    key,       \* headings and kind of the group
    group,     \* parts read of one section and kind
    cores,
    chunks
chunkVars == <<pc, read, length, ends, stack, key, group, cores, chunks>>

NoEnds == [sentences |-> {}, clauses |-> {}, words |-> {}]

ChunkInit ==
    /\ pc = "read" /\ length = 0 /\ ends = NoEnds /\ key = <<>>
    /\ group = <<>> /\ cores = <<>> /\ chunks = <<>>
    /\ \E title \in {<<>>, <<[level |-> 1, name |-> "title"]>>} : read = title /\ stack = title

-----------------------------------------------------------------------------
\* Texts and their token counts.
Part(from, to, wrapper) == [from |-> from, to |-> to, wrapper |-> wrapper]
Tokens(part) == part.to - part.from + 1 + part.wrapper

\* _join_chunk_parts and its count.
Joined(count, parts, n) == count + (IF n = 1 THEN 0 ELSE Separator) + Tokens(parts[n])
JoinedTokens(parts) ==
    LET upTo[n \in 0..Len(parts)] == IF n = 0 THEN 0 ELSE Joined(upTo[n-1], parts, n)
    IN upTo[Len(parts)]

\* _sentence_units, _clause_units, the words of a text or the lines of a block: a unit
\* ends at each of the tokens in lasts, and with the text.
EndUnit(units, part, e, lasts) ==
    IF e \in lasts \/ e = part.to
    THEN Append(units, Part(IF units = <<>> THEN part.from ELSE Last(units).to + 1,
                            e, part.wrapper))
    ELSE units
Units(part, lasts) ==
    LET size == part.to - part.from + 1
        upTo[n \in 0..size] ==
          IF n = 0 THEN <<>> ELSE EndUnit(upTo[n-1], part, part.from + n - 1, lasts)
    IN upTo[size]

\* _token_boundary_chunks and _split_text_to_fit_wrapper: as much as fits, again and again.
TokenParts(part, max) ==
    LET room == max - part.wrapper
        count == (part.to - part.from + room) \div room IN
    [i \in 1..count |-> LET from == part.from + (i-1) * room IN
       Part(from, IF i = count THEN part.to ELSE from + room - 1, part.wrapper)]

\* _word_boundary_token_chunks and _pack_wrapped_lines: greedily, a unit above the budget
\* by tokens.
Nothing == [done |-> <<>>, open |-> <<>>]
Extend(open, unit) == IF open = <<>> THEN <<unit>>
                      ELSE <<Part(open[1].from, unit.to, unit.wrapper)>>
AddUnit(packed, unit, max) ==
    LET wider == Extend(packed.open, unit)
        done == packed.done \o packed.open
    IN IF Tokens(wider[1]) <= max THEN [done |-> packed.done, open |-> wider]
       ELSE IF Tokens(unit) <= max THEN [done |-> done, open |-> <<unit>>]
            ELSE [done |-> done \o TokenParts(unit, max), open |-> <<>>]
Packed(units, max) ==
    LET upTo[n \in 0..Len(units)] ==
          IF n = 0 THEN Nothing ELSE AddUnit(upTo[n-1], units[n], max)
    IN upTo[Len(units)]
NoLastFlush(units, max) == Packed(units, max).done
PackUnits(units, max) == Packed(units, max).done \o Packed(units, max).open

\* _long_paragraph_units: sentences, of a long one clauses, of a long one words.
OfClause(clause, max, e) ==
    IF Tokens(clause) <= max THEN <<clause>> ELSE PackUnits(Units(clause, e.words), max)
OfSentence(sentence, max, e) ==
    LET clauses == Units(sentence, e.clauses)
    IN IF Tokens(sentence) <= max THEN <<sentence>>
       ELSE FlattenSeq([i \in DOMAIN clauses |-> OfClause(clauses[i], max, e)])
LongParagraph(part, max, e) ==
    LET sentences == Units(part, e.sentences)
    IN FlattenSeq([i \in DOMAIN sentences |-> OfSentence(sentences[i], max, e)])

-----------------------------------------------------------------------------
\* The ends of a block's units, as numbers of the document's tokens.
Shifted(b) == [level \in DOMAIN ends |-> {length + e : e \in b[level]}]

\* _expand_block, _split_code_block, _split_table_block.
NoRoom(b) == b.size + b.wrapper > BodyMax /\ b.wrapper >= BodyMax
ExpandBlock(b) ==
    LET whole == Part(length + 1, length + b.size, b.wrapper) IN
    IF Tokens(whole) <= BodyMax THEN <<whole>>
    ELSE IF b.kind = "text" THEN LongParagraph(whole, BodyMax, Shifted(b))
         ELSE PackUnits(Units(whole, Shifted(b).words), BodyMax)

\* _pack_block_group: a part opens a new core if it would exceed the budget, or take the
\* core further from the target than it is.
Distance(n) == IF n < BodyTarget THEN BodyTarget - n ELSE n - BodyTarget
PastTarget(now, next) == next > BodyTarget /\ Distance(now) <= Distance(next)
Flushes(now, next) == next > BodyMax \/ PastTarget(now, next)

AddPart(packed, part) ==
    LET wider == Append(packed.open, part)
    IN IF packed.open # <<>> /\ Flushes(JoinedTokens(packed.open), JoinedTokens(wider))
       THEN [done |-> Append(packed.done, packed.open), open |-> <<part>>]
       ELSE [done |-> packed.done, open |-> wider]
Grouped(parts) ==
    LET upTo[n \in 0..Len(parts)] ==
          IF n = 0 THEN Nothing ELSE AddPart(upTo[n-1], parts[n])
    IN upTo[Len(parts)]
PackGroup(parts) ==
    IF parts = <<>> THEN <<>> ELSE Append(Grouped(parts).done, Grouped(parts).open)

\* _block_group_to_core.
Cores(parts, k) ==
    [i \in DOMAIN PackGroup(parts) |->
       [parts |-> PackGroup(parts)[i], headings |-> k[1], kind |-> k[2]]]

-----------------------------------------------------------------------------
\* _markdown_blocks: a heading closes, from the last opened on, those of its level and below.
StaysOpen(level, new) == level <= new
StillOpen(level, new) == level < new

AddHeading(h) ==
    /\ pc = "read" /\ Len(read) < MaxItems
    /\ read' = Append(read, h)
    /\ \E n \in 0..Len(stack) :
         /\ \A i \in (n+1)..Len(stack) : ~StillOpen(stack[i].level, h.level)
         /\ n > 0 => StillOpen(stack[n].level, h.level)
         /\ stack' = Append(SubSeq(stack, 1, n), h)
    /\ UNCHANGED <<pc, length, ends, key, group, cores, chunks>>

Names == [i \in DOMAIN stack |-> stack[i].name]

\* _pack_markdown_blocks.
AddBlock(b) ==
    /\ pc = "read" /\ Len(read) < MaxItems
    /\ IF NoRoom(b)
       THEN pc' = "refused"
            /\ UNCHANGED <<read, length, ends, stack, key, group, cores, chunks>>
       ELSE LET k == <<Names, b.kind>>  new == key # <<>> /\ k # key IN
            /\ read' = Append(read, [level |-> 0, name |-> b.kind])
            /\ key' = k
            /\ cores' = IF new THEN cores \o Cores(group, key) ELSE cores
            /\ group' = (IF new THEN <<>> ELSE group) \o ExpandBlock(b)
            /\ length' = length + b.size
            /\ ends' = [level \in DOMAIN ends |-> ends[level] \cup Shifted(b)[level]]
            /\ UNCHANGED <<pc, stack, chunks>>

EndDocument ==
    /\ pc = "read"
    /\ cores' = IF group = <<>> THEN cores ELSE cores \o Cores(group, key)
    /\ group' = <<>> /\ pc' = "overlap"
    /\ UNCHANGED <<read, length, ends, stack, key, chunks>>

-----------------------------------------------------------------------------
\* _sentence_overlap: the sentences at one end of a neighbour, up to the first that does
\* not fit or after which the target is reached.  A part of a core is a paragraph of its
\* text and ends a sentence.
Lessened(tokens) == IF tokens > Separator THEN tokens - Separator ELSE 0
Lendable(core) ==
    FlattenSeq([i \in DOMAIN core.parts |->
                  LongParagraph(core.parts[i], Lessened(OverlapMax), ends)])

Nearest(units, n, fromTail) ==
    IF fromTail THEN SubSeq(units, Len(units) - n + 1, Len(units)) ELSE SubSeq(units, 1, n)
Taken(units, fromTail) ==
    {n \in 0..Len(units) :
       /\ JoinedTokens(Nearest(units, n, fromTail)) <= Lessened(OverlapMax)
       /\ n > 0 => JoinedTokens(Nearest(units, n - 1, fromTail)) < Lessened(OverlapTarget)}
SentenceOverlap(units, fromTail) ==
    IF Lessened(OverlapTarget) = 0 THEN <<>>
    ELSE Nearest(units, Max(Taken(units, fromTail)), fromTail)

\* _can_overlap.
AdjoiningKinds(left, right) == left.kind = "text" /\ right.kind = "text"
CanOverlap(left, right) == AdjoiningKinds(left, right) /\ left.headings = right.headings

\* _chunks_with_sentence_overlap, one chunk.
AddChunk ==
    /\ pc = "overlap" /\ Len(chunks) < Len(cores)
    /\ LET i == Len(chunks) + 1
           before == IF i > 1 /\ CanOverlap(cores[i-1], cores[i])
                     THEN SentenceOverlap(Lendable(cores[i-1]), TRUE) ELSE <<>>
           after == IF i < Len(cores) /\ CanOverlap(cores[i], cores[i+1])
                    THEN SentenceOverlap(Lendable(cores[i+1]), FALSE) ELSE <<>>
       IN chunks' = Append(chunks, [before |-> before, after |-> after])
    /\ UNCHANGED <<pc, read, length, ends, stack, key, group, cores>>

EndChunks ==
    /\ pc = "overlap" /\ Len(chunks) = Len(cores) /\ pc' = "done"
    /\ UNCHANGED <<read, length, ends, stack, key, group, cores, chunks>>

ChunkNext ==
    \/ \E h \in Headings : AddHeading(h)
    \/ \E b \in Blocks : AddBlock(b)
    \/ EndDocument \/ AddChunk \/ EndChunks

ChunkSpec == ChunkInit /\ [][ChunkNext]_chunkVars

-----------------------------------------------------------------------------
Text(i) == chunks[i].before \o cores[i].parts \o chunks[i].after
Contiguous(parts) == \A i \in 2..Len(parts) : parts[i].from = parts[i-1].to + 1

\* Every token of the document is in one core, and the cores keep their order, whichever
\* way blocks were split and packed.
NothingLost ==
    pc = "done" =>
      LET all == FlattenSeq([i \in DOMAIN cores |-> cores[i].parts]) IN
      /\ Contiguous(all)
      /\ IF all = <<>> THEN length = 0 ELSE all[1].from = 1 /\ Last(all).to = length

\* The two checks that stop an ingest never do: no core exceeds its budget, and none with
\* the sentences it was lent exceeds that budget and two overlaps.
WithinBudget ==
    /\ \A i \in DOMAIN cores : JoinedTokens(cores[i].parts) <= BodyMax
    /\ \A i \in DOMAIN chunks : JoinedTokens(Text(i)) <= BodyMax + 2 * OverlapMax

\* A chunk is a passage: what it was lent adjoins it in the document, without a gap, and
\* comes from the same section.
ChunkIsPassage ==
    \A i \in DOMAIN chunks :
      /\ Contiguous(Text(i))
      /\ chunks[i].before # <<>> => cores[i-1].headings = cores[i].headings
      /\ chunks[i].after # <<>> => cores[i+1].headings = cores[i].headings

\* The headings a block gets are the sections it lies in: those with no later heading of
\* their level or above.
OpenItems == {i \in DOMAIN read : read[i].level > 0 /\ \A j \in DOMAIN read :
                i < j /\ read[j].level > 0 => read[i].level < read[j].level}
HeadingsAreOpen ==
    \E at \in [DOMAIN stack -> OpenItems] :
      /\ \A m, n \in DOMAIN stack : m < n => at[m] < at[n]
      /\ {at[n] : n \in DOMAIN stack} = OpenItems
      /\ stack = [n \in DOMAIN stack |-> read[at[n]]]
=============================================================================
