------------------------------ MODULE Chunker ------------------------------
(***************************************************************************)
(* rag/chunker.py: the blocks of a document's pages become the chunks that *)
(* are embedded and retrieved.  Blocks are grouped in units under their    *)
(* headings, dangling headings are attached, short units are merged and    *)
(* long ones split.  A text is a sequence of words, numbered in each block *)
(* from 1, and of the marks that end a sentence or a row of a table.       *)
(***************************************************************************)
EXTENDS Naturals, Sequences, SequencesExt

CONSTANTS
  Menu,       \* the blocks a page may hold: [type, level, name, text]
  MaxTokens,  \* chunk_max_tokens
  Overlap,    \* chunk_overlap_tokens
  MaxBlocks,  \* bound: blocks of the first page
  MaxMore     \* bound: blocks of the second page

Mark == 0

\* The words of a text are told apart by their numbers.
ASSUME ChunkerAssumption ==
  /\ MaxTokens \in Nat /\ Overlap \in Nat /\ MaxBlocks \in Nat /\ MaxMore \in Nat
  /\ \A b \in Menu :
       /\ b.text \in Seq(Nat) /\ b.rows \in BOOLEAN
       /\ \A i, j \in DOMAIN b.text : i # j /\ b.text[i] = b.text[j] => b.text[i] = Mark

VARIABLES
  page,     \* the blocks of the page chunked last
  stack,    \* the HeadingStack its parser shares between the pages of a file
  carried,  \* the section open at the end of the page before
  chunks,   \* the chunks of this page: blocks and heading path
  number    \* of pages chunked

chVars == <<page, stack, carried, chunks, number>>

\* The elements of a sequence at some positions.
Where(s, kept) == FlattenSeq([i \in 1..Len(s) |-> IF i \in kept THEN <<s[i]>> ELSE <<>>])

-----------------------------------------------------------------------------
(* Parsing: the path of a block (block_parser.py).                         *)

\* push: a heading closes those of its level and below.
Push(open, b) ==
  Append(Where(open, {i \in 1..Len(open) : open[i].level < b.level}),
         [level |-> b.level, name |-> b.name])
Names(open) == [i \in 1..Len(open) |-> open[i].name]
Opened(open, kinds) ==
  LET after[n \in 0..Len(kinds)] ==
        IF n = 0 THEN open
        ELSE IF kinds[n].type = "heading" THEN Push(after[n - 1], kinds[n]) ELSE after[n - 1]
  IN after[Len(kinds)]
Parsed(kinds, open) ==
  [i \in 1..Len(kinds) |->
     [id |-> i, type |-> kinds[i].type, text |-> kinds[i].text, rows |-> kinds[i].rows,
      name |-> kinds[i].name, path |-> Names(Opened(open, SubSeq(kinds, 1, i)))]]

-----------------------------------------------------------------------------
(* Blocks, texts and units.                                                *)

Words(text) == Where(text, {i \in 1..Len(text) : text[i] # Mark})
Tokens(blocks) ==
  LET sum[n \in 0..Len(blocks)] ==
        IF n = 0 THEN 0 ELSE sum[n - 1] + Len(Words(blocks[n].text))
  IN sum[Len(blocks)]
IsHeading(b) == b.type = "heading"
HasContent(blocks) == \E i \in 1..Len(blocks) : ~IsHeading(blocks[i])
Contents(blocks) == Where(blocks, {i \in 1..Len(blocks) : ~IsHeading(blocks[i])})
Headings(blocks) == Where(blocks, {i \in 1..Len(blocks) : IsHeading(blocks[i])})
IsAtomic(b) == b.type \in {"table", "code"}

Unit(blocks, atomic) == [blocks |-> blocks, atomic |-> atomic]
Closed(units, current) == IF current = <<>> THEN units ELSE Append(units, Unit(current, FALSE))

\* _build_units, up to the merging: s.current is the unit being built.
TakeBlock(s, b) ==
  IF IsAtomic(b)
    THEN [units |-> Append(Closed(s.units, s.current), Unit(<<b>>, TRUE)), current |-> <<>>]
  ELSE IF IsHeading(b) /\ HasContent(s.current)
    THEN [units |-> Closed(s.units, s.current), current |-> <<b>>]
  ELSE [s EXCEPT !.current = Append(@, b)]
RawUnits(blocks) ==
  LET after[n \in 0..Len(blocks)] ==
        IF n = 0 THEN [units |-> <<>>, current |-> <<>>] ELSE TakeBlock(after[n - 1], blocks[n])
      end == after[Len(blocks)]
  IN Closed(end.units, end.current)

Extended(u, blocks) == [u EXCEPT !.blocks = @ \o blocks]

\* A chain of headings without content goes to the unit before it, a leading
\* one to the unit after it; a page of headings alone is dropped.
AttachUnit(done, u) ==
  IF done # <<>> /\ ~HasContent(u.blocks)
    THEN Front(done) \o <<Extended(Last(done), u.blocks)>> ELSE Append(done, u)
AttachHeadings(units) ==
  LET after[n \in 0..Len(units)] ==
        IF n = 0 THEN <<>> ELSE AttachUnit(after[n - 1], units[n])
      done == after[Len(units)]
  IN IF done = <<>> \/ HasContent(Head(done).blocks) THEN done
     ELSE IF Len(done) = 1 THEN <<>>
     ELSE <<[done[2] EXCEPT !.blocks = done[1].blocks \o @]>> \o SubSeq(done, 3, Len(done))

\* The path of the first block that has one.
FirstPath(blocks) ==
  LET content == Contents(blocks)
      placed == Where(content, {i \in 1..Len(content) : content[i].path # <<>>})
  IN IF placed = <<>> THEN <<>> ELSE Head(placed).path

\* parent_heading: the first element of that path.
Parent(u) == LET path == FirstPath(u.blocks) IN IF path = <<>> THEN <<>> ELSE <<Head(path)>>

Fits(u, v) ==
  /\ ~u.atomic /\ ~v.atomic /\ Parent(u) = Parent(v)
  /\ Tokens(u.blocks) + Tokens(v.blocks) <= MaxTokens

\* One pass of _merge_short_units fuses the first pair that fits; there are
\* fewer passes than units.
MergeFirst(units) ==
  LET pairs == {i \in 1..(Len(units) - 1) : Fits(units[i], units[i + 1])}
      i == CHOOSE n \in pairs : \A k \in pairs : n <= k
  IN IF pairs = {} THEN units
     ELSE SubSeq(units, 1, i - 1) \o <<Extended(units[i], units[i + 1].blocks)>>
            \o SubSeq(units, i + 2, Len(units))
MergeUnits(units) ==
  LET after[n \in 0..Len(units)] == IF n = 0 THEN units ELSE MergeFirst(after[n - 1])
  IN after[Len(units)]

BuildUnits(blocks) == MergeUnits(AttachHeadings(RawUnits(blocks)))

-----------------------------------------------------------------------------
(* Splitting a unit.                                                       *)

\* The block boundaries: what was taken is flushed once it has content.
TakePart(s, b) ==
  IF HasContent(s.current) /\ Tokens(s.current) + Tokens(<<b>>) > MaxTokens
    THEN [parts |-> Append(s.parts, s.current), current |-> <<b>>]
    ELSE [s EXCEPT !.current = Append(@, b)]
BlockParts(blocks) ==
  LET after[n \in 0..Len(blocks)] ==
        IF n = 0 THEN [parts |-> <<>>, current |-> <<>>] ELSE TakePart(after[n - 1], blocks[n])
      end == after[Len(blocks)]
  IN IF end.current = <<>> THEN end.parts ELSE Append(end.parts, end.current)

\* The sentences of a text, or the rows of a table, each with its mark.
TakeWord(s, w) ==
  IF w = Mark THEN [done |-> Append(s.done, Append(s.open, w)), open |-> <<>>]
  ELSE [s EXCEPT !.open = Append(@, w)]
Sentences(text) ==
  LET after[n \in 0..Len(text)] ==
        IF n = 0 THEN [done |-> <<>>, open |-> <<>>] ELSE TakeWord(after[n - 1], text[n])
      end == after[Len(text)]
  IN IF end.open = <<>> THEN end.done ELSE Append(end.done, end.open)

\* _tail_overlap: the window is cut back to its last mark.
TailOverlap(text) ==
  LET window == SubSeq(text, IF Len(text) > 2 * Overlap THEN Len(text) - 2 * Overlap + 1 ELSE 1,
                       Len(text))
      marks == {i \in 1..Len(window) : window[i] = Mark}
  IN IF marks = {} THEN window
     ELSE SubSeq(window, CHOOSE i \in marks : \A k \in marks : k <= i, Len(window))

\* Pieces of at most MaxTokens, but for a sentence or a row longer than that;
\* what follows a piece starts with the overlap, of which a table has none.
TakeSentence(s, sentence, overlaps) ==
  IF s.current # <<>> /\ Len(Words(s.current)) + Len(Words(sentence)) > MaxTokens
    THEN [pieces |-> Append(s.pieces, s.current),
          current |-> (IF overlaps THEN TailOverlap(s.current) ELSE <<>>) \o sentence]
    ELSE [s EXCEPT !.current = @ \o sentence]
Pieces(text, overlaps) ==
  LET sentences == Sentences(text)
      after[n \in 0..Len(sentences)] ==
        IF n = 0 THEN [pieces |-> <<>>, current |-> <<>>]
        ELSE TakeSentence(after[n - 1], sentences[n], overlaps)
      end == after[Len(sentences)]
  IN Append(end.pieces, end.current)

\* _split_part: only one long block under its headings is cut, into the rows
\* of a table that has them or the sentences of a paragraph.
SplitPart(part) ==
  LET content == Contents(part) IN
  IF Len(content) # 1 \/ Tokens(content) <= MaxTokens
       \/ (IsAtomic(content[1]) /\ ~content[1].rows)
    THEN <<part>>
    ELSE LET pieces == Pieces(content[1].text, ~IsAtomic(content[1]))
         IN [i \in 1..Len(pieces) |->
               (IF i = 1 THEN Headings(part) ELSE <<>>) \o <<[content[1] EXCEPT !.text = pieces[i]]>>]

SplitUnit(u) ==
  IF Tokens(u.blocks) <= MaxTokens THEN <<u.blocks>>
  ELSE FlattenSeq([i \in 1..Len(BlockParts(u.blocks)) |-> SplitPart(BlockParts(u.blocks)[i])])

-----------------------------------------------------------------------------
(* The chunks of a page.                                                   *)

\* _heading_path: what the paths of the content have in common.
PathOf(blocks) ==
  LET paths == {b.path : b \in ToSet(Contents(blocks))} \ {<<>>}
  IN IF paths = {} THEN <<>> ELSE LongestCommonPrefix(paths)
EffectivePath(blocks, before) ==
  IF \E b \in ToSet(Contents(blocks)) : b.path # <<>> THEN PathOf(blocks) ELSE before

\* _page_open_stack; the path of a heading names the heading itself.
OpenStack(blocks, before) ==
  IF blocks = <<>> \/ Last(blocks).path = <<>> THEN before
  ELSE IF IsHeading(Last(blocks)) THEN Append(Last(blocks).path, Last(blocks).name)
  ELSE Last(blocks).path

Chunked(blocks, before) ==
  LET units == BuildUnits(blocks)
      parts == FlattenSeq([i \in 1..Len(units) |-> SplitUnit(units[i])])
  IN [i \in 1..Len(parts) |->
        [blocks |-> parts[i], path |-> EffectivePath(parts[i], before)]]

Pages(n) == UNION {[1..k -> Menu] : k \in 0..n}

CHInit == page = <<>> /\ stack = <<>> /\ carried = <<>> /\ chunks = <<>> /\ number = 0

\* A page whose text comes from OCR is parsed with a stack of its own.
ChunkPage(kinds, ocr) ==
  LET open == IF ocr THEN <<>> ELSE stack
      blocks == Parsed(kinds, open)
  IN /\ page' = blocks
     /\ stack' = IF ocr THEN stack ELSE Opened(open, kinds)
     /\ carried' = OpenStack(blocks, carried)
     /\ chunks' = Chunked(blocks, carried)
     /\ number' = number + 1

CHNext ==
  \/ number = 0 /\ \E kinds \in Pages(MaxBlocks) : ChunkPage(kinds, FALSE)
  \/ number = 1 /\ \E kinds \in Pages(MaxMore), ocr \in BOOLEAN : ChunkPage(kinds, ocr)

CHSpec == CHInit /\ [][CHNext]_chVars

-----------------------------------------------------------------------------
\* The words of blocks, each with its block, in reading order.
WordsOf(blocks) ==
  FlattenSeq([i \in 1..Len(blocks) |->
    [k \in 1..Len(Words(blocks[i].text)) |-> <<blocks[i].id, Words(blocks[i].text)[k]>>]])
FirstReadings(pairs) ==
  Where(pairs, {i \in 1..Len(pairs) : \A k \in 1..(i - 1) : pairs[k] # pairs[i]})

\* Chunking loses, repeats and reorders nothing: reading the chunks of a page
\* one after the other, without what they overlap, is reading the page, however
\* its units were attached, merged, split and banded (chunker.py:136-390).
NothingIsLost ==
  HasContent(page) =>
    FirstReadings(FlattenSeq([i \in 1..Len(chunks) |-> WordsOf(chunks[i].blocks)])) = WordsOf(page)

\* A chunk is attributed to a section only if all its content is in that
\* section ("Using the first clause's full path falsely attributes all later
\* clauses to it", chunker.py:444), or to one carried over if it has none.
PathsHold ==
  \A i \in 1..Len(chunks) : \A b \in ToSet(Contents(chunks[i].blocks)) :
    b.path # <<>> => IsPrefix(chunks[i].path, b.path)

\* The chunks of a page are the page, in order and in their sections
\* (chunker.py:91-462).
ChunksAreThePage == NothingIsLost /\ PathsHold
=============================================================================
