------------------------------ MODULE MCChunker ------------------------------
\* Documents of a few headings and blocks around a limit of eight tokens.
EXTENDS Chunker

Heading(level, text) == [kind |-> "heading", level |-> level, text |-> text]
Block(kind, text) == [kind |-> kind, level |-> 0, text |-> text]

W == <<"w">>

\* The second heading is without a word.  Two paragraphs fit, but one begins
\* with punctuation and is larger where it is joined; the third paragraph, the
\* code and the table exceed the limit.
MCNodes ==
  { Heading(1, W), Heading(2, <<"p">>), Heading(3, <<>>),
    Block("paragraph", W),
    Block("paragraph", <<"w", "s", "w", ".", "s", "w", "s", "w", ".">>),
    Block("paragraph", <<"p", "w", ".", "s", "s", "w", ".">>),
    Block("paragraph", <<"w", "p", "p", "p", "p", "p", "p", "p", "p", ".">>),
    Block("code", <<"w", ".", "s", "w", "s", "w", ".", "s", "p", "s", "w", ".", "s", "w", "p", "w">>),
    Block("table", <<"w", "p", "w", ".", "s", "w", "p", "w", "p", "w">>) }
=============================================================================
