------------------------------- MODULE Chunker -------------------------------
(***************************************************************************)
(* From a Markdown document to chunks: rag.Service.ParseSections and       *)
(* ChunkSections.                                                          *)
(*                                                                         *)
(* A document is the sequence of its headings and blocks in the order of   *)
(* goldmark's walk, with the trimmed text extractText made of each.  A     *)
(* block or heading is named by its place in that sequence.  One action is *)
(* one node of the walk, one merge, or one turn of the loops that split.   *)
(***************************************************************************)
EXTENDS Tokens

CONSTANTS
  Nodes,       \* the headings and blocks a document may consist of
  MaxNodes,    \* bound: nodes of a document
  TargetMin, TargetMax, Overlap   \* 128, 512 and 32 tokens in the code

ASSUME ChunkerAssumption ==
  /\ {TargetMin, TargetMax, Overlap, MaxNodes} \subseteq Nat \ {0}
  /\ \A n \in Nodes :
       /\ n.kind \in {"heading", "paragraph", "code", "table"}
       /\ n.level \in Nat /\ (n.kind = "heading" => n.level > 0)
       /\ n.text \in Seq(Chars)
       /\ n.text # <<>> => n.text[1] # "s" /\ Last(n.text) # "s"

VARIABLES
  doc,        \* the nodes walked so far
  stack,      \* headingStack: for each level a node, or 0 for a placeholder
  sections,   \* the sections that are left to work on
  phase,      \* "walk", "merge", "split"
  pos,        \* splitSection: the block of the first section that is next
  start,      \* sentenceWindows: the sentence of that block that is next, or 0
  budget,     \* the tokens a chunk of that section may have without its context
  group,      \* splitSection: current, the blocks not flushed yet
  currentTokens,   \* splitSection: theirs together
  chunks      \* the final chunks

vars == <<doc, stack, sections, phase, pos, start, budget, group, currentTokens, chunks>>

\* The last element of sections is open while the document is walked: it is
\* currentBlocks, with the stack as its headings.
Section == [headings : Seq(0 .. Len(doc)), blocks : Seq(1 .. Len(doc)), tokens : Nat]

\* The sentences first .. last of a block, or all of the block.
Whole == 0

Piece == [block : 1 .. Len(doc), first : Nat, last : Nat]

Chunk == [headings : Seq(0 .. Len(doc)), pieces : Seq(Piece)]

Text(b) == doc[b].text

\* Block.TokenCount, the sentences of a text, and their counts summed up.
NodeTokens == [n \in Nodes |-> CountTokens(n.text)]
NodeSentences == [n \in Nodes |-> SplitSentences(n.text)]
NodeSums ==
  [n \in Nodes |->
    LET upTo[k \in 0 .. Len(NodeSentences[n])] ==
          IF k = 0 THEN 0 ELSE upTo[k - 1] + CountTokens(NodeSentences[n][k])
    IN  upTo]

BlockTokens(b) == NodeTokens[doc[b]]

Sentences(b) == NodeSentences[doc[b]]

TypeOK ==
  /\ doc \in Seq(Nodes) /\ Len(doc) <= MaxNodes
  /\ stack \in Seq(0 .. Len(doc))
  /\ sections \in Seq(Section)
  /\ \A i \in 1 .. Len(sections) : sections[i].blocks # <<>>
  /\ phase \in {"walk", "merge", "split"}
  /\ pos \in Nat \ {0} /\ start \in Nat /\ budget \in 0 .. TargetMax
  /\ phase = "split" /\ sections # <<>> => pos <= Len(sections[1].blocks) + 1
  /\ start > 0 => /\ phase = "split" /\ sections # <<>> /\ pos <= Len(sections[1].blocks)
                  /\ start <= Len(Sentences(sections[1].blocks[pos]))
  /\ group \in Seq(Piece) /\ currentTokens \in Nat
  /\ chunks \in Seq(Chunk)

Init ==
  /\ doc = <<>> /\ stack = <<>> /\ sections = <<>>
  /\ phase = "walk"
  /\ pos = 1 /\ start = 0 /\ budget = 0 /\ group = <<>> /\ currentTokens = 0
  /\ chunks = <<>>

-----------------------------------------------------------------------------
(* Headings *)

\* Two headings of one level are compared by their text.
Title(h) == IF h = 0 THEN <<>> ELSE Text(h)

Titles(headings) == [i \in 1 .. Len(headings) |-> Title(headings[i])]

ParentPath(headings) == IF Len(headings) <= 1 THEN <<>> ELSE Front(headings)

\* renderHeadingPath: placeholders are left out; the level is the place.
HeadingPath(headings) ==
  LET kept == Ascending(Len(headings), {i \in 1 .. Len(headings) : headings[i] # 0})
  IN  [k \in 1 .. Len(kept) |-> headings[kept[k]]]

Rendered(h) == [i \in 1 .. doc[h].level |-> "p"] \o <<"s">> \o Text(h)

JoinTexts(texts, separator) ==
  FlattenSeq([i \in 1 .. Len(texts) |-> IF i = 1 THEN texts[i] ELSE separator \o texts[i]])

\* strings.Join(headingPath, " > ")
ContextText(headings) ==
  LET path == HeadingPath(headings) IN
  JoinTexts([i \in 1 .. Len(path) |-> Rendered(path[i])], <<"s", "p", "s">>)

ContextTokens(headings) == CountTokens(ContextText(headings))

-----------------------------------------------------------------------------
(* ParseSections *)

\* Faulty variant: deeper headings stay on the stack.
PushHeading_NoPop(h, level) ==
  (IF level <= Len(stack) THEN [stack EXCEPT ![level] = h]
   ELSE stack \o [i \in 1 .. level - Len(stack) - 1 |-> 0] \o <<h>>)

\* Headings of this level and below end; skipped levels get placeholders.
PushHeading(h, level) ==
  LET upper == SubSeq(stack, 1, Min({level - 1, Len(stack)})) IN
  upper \o [i \in 1 .. level - 1 - Len(upper) |-> 0] \o <<h>>

\* Whether the open section already exists: flushSection drops empty ones.
Open == sections # <<>> /\ Last(sections).headings = stack

WalkHeading(n) ==
  /\ n.kind = "heading"
  /\ stack' = IF n.text = <<>> THEN stack ELSE PushHeading(Len(doc) + 1, n.level)
  /\ UNCHANGED sections

WalkBlock(n) ==
  /\ n.kind # "heading"
  /\ LET b == Len(doc) + 1
         section == [headings |-> stack, blocks |-> <<b>>, tokens |-> NodeTokens[n]]
     IN  sections' =
           CASE n.text = <<>> -> sections
             [] n.text # <<>> /\ Open ->
                  Front(sections) \o <<[Last(sections) EXCEPT !.blocks = Append(@, b),
                                                     !.tokens = @ + NodeTokens[n]]>>
             [] OTHER -> Append(sections, section)
  /\ UNCHANGED stack

Walk(n) ==
  /\ phase = "walk" /\ Len(doc) < MaxNodes
  /\ doc' = Append(doc, n)
  /\ WalkHeading(n) \/ WalkBlock(n)
  /\ UNCHANGED <<phase, pos, start, budget, group, currentTokens, chunks>>

EndOfDocument ==
  /\ phase = "walk"
  /\ phase' = "merge"
  /\ UNCHANGED <<doc, stack, sections, pos, start, budget, group, currentTokens, chunks>>

-----------------------------------------------------------------------------
(* mergeSmallSections *)

IsSibling(a, b) ==
  /\ Len(a.headings) = Len(b.headings)
  /\ Titles(ParentPath(a.headings)) = Titles(ParentPath(b.headings))

\* Faulty variant: no room is kept for the heading context.
CombinedFits_NoContext(a, b) == a.tokens + b.tokens <= TargetMax

CombinedFits(a, b) ==
  a.tokens + b.tokens + ContextTokens(ParentPath(a.headings)) <= TargetMax

MergeInto(a, b) ==
  [headings |-> ParentPath(a.headings), blocks |-> a.blocks \o b.blocks,
   tokens |-> a.tokens + b.tokens]

Mergeable(i) ==
  /\ i \in 1 .. Len(sections) - 1
  /\ IsSibling(sections[i], sections[i + 1])
  /\ CombinedFits(sections[i], sections[i + 1])

Small(i) == sections[i].tokens < TargetMin

CanMerge(i) == Small(i) /\ (Mergeable(i) \/ Mergeable(i - 1))

\* The first small section that can be merged, with the next one if possible.
Merge ==
  /\ phase = "merge"
  /\ \E i \in {j \in 1 .. Len(sections) : CanMerge(j) /\ \A k \in 1 .. j - 1 : ~CanMerge(k)} :
       \E a \in {IF Mergeable(i) THEN i ELSE i - 1} :
         sections' = SubSeq(sections, 1, a - 1)
                     \o <<MergeInto(sections[a], sections[a + 1])>>
                     \o SubSeq(sections, a + 2, Len(sections))
  /\ UNCHANGED <<doc, stack, phase, pos, start, budget, group, currentTokens, chunks>>

\* What the heading context leaves for the body of the first section of rest.
BudgetFor(rest) ==
  IF rest = <<>> THEN 0 ELSE Max({1, TargetMax - ContextTokens(rest[1].headings)})

AllMerged ==
  /\ phase = "merge" /\ \A i \in 1 .. Len(sections) : ~CanMerge(i)
  /\ phase' = "split"
  /\ budget' = BudgetFor(sections)
  /\ UNCHANGED <<doc, stack, sections, pos, start, group, currentTokens, chunks>>

-----------------------------------------------------------------------------
(* splitSection and sentenceWindows, for the first section that is left *)

Headings == sections[1].headings

Splitting == phase = "split" /\ sections # <<>>

NextBlock == sections[1].blocks[pos]

AtBlock == Splitting /\ pos <= Len(sections[1].blocks)

Fits(b) == BlockTokens(b) <= budget

WholeBlock(b) == [block |-> b, first |-> Whole, last |-> Whole]

Flushed(pieces) ==
  IF pieces = <<>> THEN chunks
  ELSE Append(chunks, [headings |-> Headings, pieces |-> pieces])

\* Faulty variant: a block that does not fit is added all the same.
TakeBlock_Late ==
  /\ AtBlock /\ start = 0 /\ Fits(NextBlock)
  /\ IF currentTokens > budget
     THEN /\ chunks' = Flushed(group)
          /\ group' = <<WholeBlock(NextBlock)>> /\ currentTokens' = BlockTokens(NextBlock)
     ELSE /\ group' = Append(group, WholeBlock(NextBlock))
          /\ currentTokens' = currentTokens + BlockTokens(NextBlock)
          /\ UNCHANGED chunks
  /\ pos' = pos + 1
  /\ UNCHANGED <<doc, stack, sections, phase, start, budget>>

TakeBlock ==
  /\ AtBlock /\ start = 0 /\ Fits(NextBlock)
  /\ IF currentTokens > 0 /\ currentTokens + BlockTokens(NextBlock) > budget
     THEN /\ chunks' = Flushed(group)
          /\ group' = <<WholeBlock(NextBlock)>> /\ currentTokens' = BlockTokens(NextBlock)
     ELSE /\ group' = Append(group, WholeBlock(NextBlock))
          /\ currentTokens' = currentTokens + BlockTokens(NextBlock)
          /\ UNCHANGED chunks
  /\ pos' = pos + 1
  /\ UNCHANGED <<doc, stack, sections, phase, start, budget>>

Divisible(b) == doc[b].kind # "table" /\ Len(Sentences(b)) > 1

\* An oversized table, or an oversized text of one sentence, is a chunk.
TakeOversized ==
  /\ AtBlock /\ start = 0 /\ ~Fits(NextBlock) /\ ~Divisible(NextBlock)
  /\ chunks' = Append(Flushed(group),
                      [headings |-> Headings, pieces |-> <<WholeBlock(NextBlock)>>])
  /\ group' = <<>> /\ currentTokens' = 0 /\ pos' = pos + 1
  /\ UNCHANGED <<doc, stack, sections, phase, start, budget>>

BeginWindows ==
  /\ AtBlock /\ start = 0 /\ ~Fits(NextBlock) /\ Divisible(NextBlock)
  /\ chunks' = Flushed(group)
  /\ group' = <<>> /\ currentTokens' = 0 /\ start' = 1
  /\ UNCHANGED <<doc, stack, sections, phase, pos, budget>>

SentenceTokens(b, i, j) == NodeSums[doc[b]][j] - NodeSums[doc[b]][i - 1]

\* The window takes sentences while they fit, at least one.
IsLastIdx(b, last) ==
  /\ last > start => SentenceTokens(b, start, last) <= budget
  /\ last < Len(Sentences(b)) => SentenceTokens(b, start, last + 1) > budget

\* Faulty variant: the overlap may lead back to where the window began.
NextStart_NoProgress(b, last) ==
  Min({k \in start .. last : SentenceTokens(b, k + 1, last) < Overlap})

\* Walk back until the overlap is covered; if that leads back to where the
\* window began, go on behind it.
NextStart(b, last) ==
  LET next == Min({k \in start .. last : SentenceTokens(b, k + 1, last) < Overlap})
  IN  IF next <= start THEN last + 1 ELSE next

\* Faulty variant: the last window does not end the loop.
Window_NoBreak ==
  /\ AtBlock /\ start > 0
  /\ \E last \in {l \in start .. Len(Sentences(NextBlock)) : IsLastIdx(NextBlock, l)} :
       /\ chunks' = Append(chunks, [headings |-> Headings,
              pieces |-> <<[block |-> NextBlock, first |-> start, last |-> last]>>])
       /\ start' = NextStart(NextBlock, last)
  /\ UNCHANGED <<doc, stack, sections, phase, pos, budget, group, currentTokens>>

Window ==
  /\ AtBlock /\ start > 0
  /\ \E last \in {l \in start .. Len(Sentences(NextBlock)) : IsLastIdx(NextBlock, l)} :
       /\ chunks' = Append(chunks, [headings |-> Headings,
              pieces |-> <<[block |-> NextBlock, first |-> start, last |-> last]>>])
       /\ IF last = Len(Sentences(NextBlock))
          THEN start' = 0 /\ pos' = pos + 1
          ELSE start' = NextStart(NextBlock, last) /\ UNCHANGED pos
  /\ UNCHANGED <<doc, stack, sections, phase, budget, group, currentTokens>>

\* Faulty variant: the blocks that are left are not flushed.
EndSection_NoFlush ==
  /\ Splitting /\ pos > Len(sections[1].blocks)
  /\ group' = <<>> /\ currentTokens' = 0 /\ pos' = 1
  /\ sections' = Tail(sections)
  /\ budget' = BudgetFor(Tail(sections))
  /\ UNCHANGED <<doc, stack, phase, start, chunks>>

EndSection ==
  /\ Splitting /\ pos > Len(sections[1].blocks)
  /\ chunks' = Flushed(group)
  /\ group' = <<>> /\ currentTokens' = 0 /\ pos' = 1
  /\ sections' = Tail(sections)
  /\ budget' = BudgetFor(Tail(sections))
  /\ UNCHANGED <<doc, stack, phase, start>>

Done == phase = "split" /\ sections = <<>>

Terminated == Done /\ UNCHANGED vars

Next ==
  \/ \E n \in Nodes : Walk(n)
  \/ EndOfDocument \/ Merge \/ AllMerged
  \/ TakeBlock \/ TakeOversized \/ BeginWindows \/ Window \/ EndSection
  \/ Terminated

Spec == Init /\ [][Next]_vars

-----------------------------------------------------------------------------
(* What a chunk says *)

\* A piece's text: a block, or sentences joined by one space.
PieceText(p) ==
  IF p.first = Whole THEN Text(p.block)
  ELSE JoinTexts(SubSeq(Sentences(p.block), p.first, p.last), <<"s">>)

JoinBlocks(pieces) ==
  JoinTexts([i \in 1 .. Len(pieces) |-> PieceText(pieces[i])], <<"s", "s">>)

PrependContext(headings, body) ==
  IF HeadingPath(headings) = <<>> THEN body
  ELSE ContextText(headings) \o <<"s", "s">> \o body

Content(c) == PrependContext(c.headings, JoinBlocks(c.pieces))

-----------------------------------------------------------------------------
(* Properties *)

BlocksOf(d) == {i \in 1 .. Len(d) : d[i].kind # "heading" /\ d[i].text # <<>>}

\* The headings a block is under: those before it that no heading of the same
\* or a higher level has ended.
Scope(b) ==
  LET heading(i) == doc[i].kind = "heading" /\ doc[i].text # <<>>
  IN  Ascending(b - 1, {i \in 1 .. b - 1 :
        /\ heading(i)
        /\ \A k \in i + 1 .. b - 1 : heading(k) => doc[k].level > doc[i].level})

\* The heading stack with its placeholders, and the merging of siblings, never
\* put a block under a heading it is not under: the path of a section and of a
\* chunk is, title by title, the upper part of the scope of each of its blocks.
HeadingsInScope ==
  LET Upper(headings, b) == IsPrefix(Titles(HeadingPath(headings)), Titles(Scope(b)))
  IN  /\ phase = "merge" =>
           \A i \in 1 .. Len(sections) : \A b \in ToSet(sections[i].blocks) :
             Upper(sections[i].headings, b)
      /\ Done => \A i \in 1 .. Len(chunks) : \A p \in ToSet(chunks[i].pieces) :
           Upper(chunks[i].headings, p.block)

EndsBlock(p) == p.first # Whole => p.last = Len(Sentences(p.block))

\* Whether piece q may follow piece p: the next block from its beginning, or
\* more of the same block, further on and without a gap.
Follows(p, q) ==
  \/ /\ q.block > p.block
     /\ q.first \in {Whole, 1}
     /\ EndsBlock(p)
     /\ BlocksOf(doc) \cap (p.block + 1 .. q.block - 1) = {}
  \/ /\ q.block = p.block
     /\ q.first > p.first /\ q.first <= p.last + 1

\* Merging, splitting and overlapping windows lose nothing and change no order:
\* the chunks hold every block of the document once and whole, or as windows
\* that move forward and leave no sentence out.
NothingLost ==
  Done /\ BlocksOf(doc) # {} =>
    LET First(c) == c.pieces[1]
        Final(c) == Last(c.pieces)
    IN  /\ chunks # <<>> /\ \A i \in 1 .. Len(chunks) : chunks[i].pieces # <<>>
        /\ \A i \in 1 .. Len(chunks) : \A k \in 1 .. Len(chunks[i].pieces) - 1 :
             Follows(chunks[i].pieces[k], chunks[i].pieces[k + 1])
        /\ \A i \in 1 .. Len(chunks) - 1 : Follows(Final(chunks[i]), First(chunks[i + 1]))
        /\ First(chunks[1]).block = Min(BlocksOf(doc))
        /\ First(chunks[1]).first \in {Whole, 1}
        /\ Final(Last(chunks)).block = Max(BlocksOf(doc)) /\ EndsBlock(Final(Last(chunks)))

BeginsWithPunctuation(t) == t[1] \in {".", "p"}

\* A piece that puts a blank of a join into a token of its own.
CostsMore(p) ==
  IF p.first = Whole THEN BeginsWithPunctuation(Text(p.block))
  ELSE \E k \in p.first .. p.last : BeginsWithPunctuation(Sentences(p.block)[k])

\* A heading context without any word, which is one token by itself.
WordlessContext(headings) ==
  HeadingPath(headings) # <<>> /\ Indices(ContextText(headings), "w") = {}

\* One block or sentence that is too large for what its context leaves.
IsTooLarge(c) ==
  /\ Len(c.pieces) = 1 /\ c.pieces[1].first = c.pieces[1].last
  /\ CountTokens(PieceText(c.pieces[1])) > TargetMax - ContextTokens(c.headings)

\* A chunk's content, heading context included, fits TargetMax, with four
\* exceptions: a single table or sentence that does not fit, headings that
\* leave no room, and, because they cost more once they are joined than
\* ChunkSections counted, text that begins with punctuation and headings
\* without any word.
ChunksFit ==
  Done => \A i \in 1 .. Len(chunks) :
    LET c == chunks[i] IN
    \/ CountTokens(Content(c)) <= TargetMax
    \/ IsTooLarge(c)
    \/ ContextTokens(c.headings) >= TargetMax
    \/ \E k \in 1 .. Len(c.pieces) : CostsMore(c.pieces[k])
    \/ WordlessContext(c.headings)

\* CombinedFits and splitSection's budget agree: a section that was merged
\* because its parts fit together is not torn apart again, so none of its
\* blocks is flushed before the section ends.
MergedStaysWhole ==
  Splitting /\ (\E a, b \in ToSet(sections[1].blocks) : Scope(a) # Scope(b)) =>
    start = 0 /\ Len(group) = pos - 1

\* The texts whose tokens are counted: the blocks and their sentences, the
\* heading contexts that combinedFits and the budget leave room for, and the
\* pieces and contents of the chunks.
CountedTexts ==
  LET blockTexts(b) == {Text(b)} \cup ToSet(Sentences(b))
      contextTexts(s) == {ContextText(s.headings), ContextText(ParentPath(s.headings))}
      chunkTexts(c) == {Content(c)} \cup {PieceText(c.pieces[k]) : k \in 1 .. Len(c.pieces)}
      ofBlocks == UNION {blockTexts(b) : b \in BlocksOf(doc)}
      ofSections == UNION {contextTexts(sections[i]) : i \in 1 .. Len(sections)}
      ofChunks == UNION {chunkTexts(chunks[i]) : i \in 1 .. Len(chunks)}
  IN  ofBlocks \cup ofSections \cup ofChunks

\* Split, which works from word to word, loses no character of the texts the
\* engine counts, and finds in every one that has a word the tokens its comment
\* describes.  A text without any word does not follow the comment: it is one
\* token, whatever its length.  That blanks at the end would go to the word
\* before them makes no difference: no text that is counted ends in one.
WordsAreDescribed ==
  phase = "merge" \/ Done => \A t \in CountedTexts :
    /\ FlattenSeq(Split(t)) = t
    /\ Indices(t, "w") # {} => Split(t) = TokensAsDescribed(t)

\* Every document ends in chunks: each step merges two sections, leaves a
\* section or a block behind, or begins the next window further on, although
\* the overlap leads back, also when one sentence exceeds the limit.  (None of
\* these goes on for ever, and no state before the end is a deadlock.)
AlwaysForward ==
  [][\/ phase = "walk" /\ (Len(doc') > Len(doc) \/ phase' = "merge")
     \/ phase = "merge" /\ (Len(sections') < Len(sections) \/ phase' = "split")
     \/ /\ phase = "split" /\ phase' = "split"
        /\ \/ Len(sections') < Len(sections)
           \/ sections' = sections /\ pos' > pos
           \/ sections' = sections /\ pos' = pos /\ start' > start]_vars
=============================================================================
