------------------------------- MODULE Tokens --------------------------------
(***************************************************************************)
(* How infra/tokenization cuts a text into tokens and rag/chunker.go cuts  *)
(* it into sentences.                                                      *)
(*                                                                         *)
(* A text is a sequence of characters, and a character is its class:       *)
(*   "w"  a word character (letter, digit, underscore)                     *)
(*   "s"  a blank (space, tab, newline)                                    *)
(*   "."  punctuation that may end a sentence (. ! ?)                      *)
(*   "p"  any other punctuation                                            *)
(***************************************************************************)
EXTENDS SequencesExt

Chars == {"w", "s", ".", "p"}

Indices(t, c) == {i \in 1 .. Len(t) : t[i] = c}

\* A set of indices up to n, in order.
Ascending(n, S) ==
  LET upTo[i \in 0 .. n] ==
        IF i = 0 THEN <<>>
        ELSE IF i \in S THEN Append(upTo[i - 1], i) ELSE upTo[i - 1]
  IN  upTo[n]

\* The pieces of t between consecutive starts; starts contains 1.
CutAt(t, starts) ==
  LET s == Ascending(Len(t), starts) IN
  [k \in 1 .. Len(s) |-> SubSeq(t, s[k], IF k = Len(s) THEN Len(t) ELSE s[k + 1] - 1)]

\* wordPattern.FindAllStringIndex: where the maximal runs of word characters
\* begin and end.
WordSpans(t) ==
  LET first == Ascending(Len(t), {i \in Indices(t, "w") : i = 1 \/ t[i - 1] # "w"})
      last == {i \in Indices(t, "w") : i = Len(t) \/ t[i + 1] # "w"}
  IN  [k \in 1 .. Len(first) |-> <<first[k], Min({i \in last : i >= first[k]})>>]

\* Maximal whitespace runs and single punctuation characters.
SplitNonWord(run) ==
  CutAt(run, {i \in 1 .. Len(run) : i = 1 \/ run[i] # "s" \/ run[i - 1] # "s"})

IsAllWhitespace(t) == Indices(t, "s") = 1 .. Len(t)

\* Faulty variant: whitespace before a word is a token of its own.
WithWord_Apart(run, word) == (IF run = <<>> THEN <<>> ELSE SplitNonWord(run)) \o <<word>>

\* The tokens of a non-word run and the word behind it: whitespace directly
\* before the word belongs to the word's token.
WithWord(run, word) ==
  IF run = <<>> THEN <<word>>
  ELSE LET pieces == SplitNonWord(run) IN
       IF Last(pieces)[1] = "s" THEN Front(pieces) \o <<Last(pieces) \o word>>
                                ELSE pieces \o <<word>>

\* The tokens of the text behind the last word.
WithRest(tokens, run) ==
  CASE run = <<>> -> tokens
    [] run # <<>> /\ IsAllWhitespace(run) -> Front(tokens) \o <<Last(tokens) \o run>>
    [] OTHER -> tokens \o SplitNonWord(run)

\* A text without any word is one token, whatever its length.
Split(t) ==
  LET spans == WordSpans(t)
      end(k) == IF k = 0 THEN 0 ELSE spans[k][2]
      tokens == FlattenSeq([k \in 1 .. Len(spans) |->
                  WithWord(SubSeq(t, end(k - 1) + 1, spans[k][1] - 1),
                           SubSeq(t, spans[k][1], spans[k][2]))])
  IN  CASE t = <<>> -> <<>>
        [] t # <<>> /\ spans = <<>> -> <<t>>
        [] OTHER -> WithRest(tokens, SubSeq(t, end(Len(spans)) + 1, Len(t)))

CountTokens(t) == Len(Split(t))

\* Punctuation followed by whitespace ends a sentence; the whitespace is dropped.
SplitSentences(t) ==
  LET ends == {i \in Indices(t, ".") : i < Len(t) /\ t[i + 1] = "s"}
      starts == {j \in 1 .. Len(t) :
        \/ j = 1
        \/ /\ t[j] # "s"
           /\ \E i \in ends : i + 1 < j /\ IsAllWhitespace(SubSeq(t, i + 1, j - 1))}
      first == Ascending(Len(t), starts)
      last(j) == Min({i \in ends \cup {Len(t)} : i >= j})
  IN  [k \in 1 .. Len(first) |-> SubSeq(t, first[k], last(first[k]))]

-----------------------------------------------------------------------------
(* The tokenizer's own description of a token *)

\* Where a token begins, by the comment of SimpleTokenizer: every punctuation
\* character is a token, and so is a maximal run of word characters or of
\* whitespace, but whitespace directly before a word belongs to the word.
\* Split departs from it in two places: a text without any word is one token,
\* and blanks at the end of a text belong to the word before them.
TokenStarts(t) ==
  {i \in 1 .. Len(t) :
    \/ i = 1
    \/ t[i] = "w" /\ t[i - 1] \in {".", "p"}
    \/ t[i] = "s" /\ t[i - 1] # "s"
    \/ t[i] \in {".", "p"}}

TokensAsDescribed(t) == IF t = <<>> THEN <<>> ELSE CutAt(t, TokenStarts(t))
=============================================================================
