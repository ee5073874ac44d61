---------------------------- MODULE LineAlignment ----------------------------
(***************************************************************************)
(* How the words of one block translation are cut into the block's lines   *)
(* and put into their Strings: utils._finalize_alto_block for a block that *)
(* did not fail, with _align_block (line anchors), its proportional        *)
(* variant _align_tokens_proportional (--fast-align), the line-by-line     *)
(* fallback of a starved block, and _distribute_tokens.                    *)
(*                                                                         *)
(* Words are numbered.  The source lines are given by how many source      *)
(* words end with each of them, so a share "of the remaining source words" *)
(* is a difference of two numbers.  Which split matches an anchor best is  *)
(* up to the texts: any split of the searched window.                      *)
(***************************************************************************)
EXTENDS Integers, FiniteSets

CONSTANTS
  MaxLines,    \* bound on the lines of the block
  MaxSource,   \* bound on its source words
  MaxWords,    \* bound on the words of its translation
  MaxAnchor,   \* bound on the words of a line anchor
  MaxStrings   \* bound on the Strings of a line

ASSUME AlignmentAssumption ==
  /\ MaxLines \in Nat \ {0} /\ MaxSource \in Nat /\ MaxWords \in Nat
  /\ MaxAnchor \in Nat \ {0} /\ MaxStrings \in Nat \ {0}

VARIABLES
  n,        \* the lines of the block are 1 .. n
  ends,     \* ends[l]: source words on the lines up to l
  words,    \* the block translation is the words 1 .. words
  anchors,  \* line_anchors: FALSE is --fast-align
  usable,   \* lines whose anchor is a plausible translation of them
  phase,    \* "align", "place" or "done"
  todo,     \* lines the alignment has still to give words to
  cut,      \* words already given
  bucket,   \* bucket[l]: the first and last of the words line l was given
  own,      \* lines that took their own translation, numbered from 1, instead
  kept,     \* lines that keep their source
  approx,   \* lines flagged as approximated
  strings   \* strings[l]: the words in each String of line l

block == <<n, ends, words, anchors, usable>>
vars  == <<block, phase, todo, cut, bucket, own, kept, approx, strings>>

-----------------------------------------------------------------------------
Count(l) == ends[l] - ends[l - 1]

TextLines == {l \in 1 .. n : Count(l) > 0}

\* _block_is_starved: fewer words than lines of text.
Starved == Cardinality(TextLines) > 1 /\ words < Cardinality(TextLines)

Nothing == [from |-> 1, to |-> 0]

\* Python's round: halves go to the even neighbour.
Round(p, q) ==
  LET d == p \div q
      r == p % q
  IN IF 2 * r < q \/ (2 * r = q /\ d % 2 = 0) THEN d ELSE d + 1

Least(a, b)    == IF a <= b THEN a ELSE b
Greatest(a, b) == IF a >= b THEN a ELSE b

\* l is the next line the loop comes to.
IsNext(l)  == l \in todo /\ \A m \in todo : l <= m
IsLast(l)  == todo = {l}

-----------------------------------------------------------------------------
Cumulative(k) ==
  {f \in [0 .. k -> 0 .. MaxSource] :
     f[0] = 0 /\ f[k] > 0 /\ \A l, m \in 0 .. k : l <= m => f[l] <= f[m]}

\* Any block with text, any translation of it.  Anchors are requested only for
\* blocks with at least two lines of text.
Init ==
  /\ n \in 1 .. MaxLines
  /\ ends \in Cumulative(n)
  /\ words \in 0 .. MaxWords
  /\ anchors \in BOOLEAN
  /\ usable \in SUBSET TextLines
  /\ ~anchors \/ Cardinality(TextLines) < 2 => usable = {}
  /\ phase = "align"
  /\ todo = IF anchors THEN TextLines ELSE 1 .. n
  /\ cut = 0
  /\ bucket = [l \in 1 .. n |-> Nothing]
  /\ own = {} /\ kept = {} /\ approx = {}
  /\ strings = [l \in 1 .. n |-> <<>>]

\* remaining[:take] goes to line l.
Give(l, take) ==
  /\ bucket' = [bucket EXCEPT ![l] = [from |-> cut + 1, to |-> cut + take]]
  /\ cut' = cut + take
  /\ todo' = todo \ {l}

-----------------------------------------------------------------------------
\* Fault: no word is left for the later lines of text.
HighestForgetsLater(l) == Greatest(1, words - cut)

(***************************************************************************)
(* _align_block: a usable anchor drives the search, any other line takes   *)
(* its share of the remaining words by the remaining source words.  None   *)
(* takes the word a later line of text needs.                              *)
(***************************************************************************)
Highest(l) == Greatest(1, (words - cut) - Cardinality(todo \ {l}))

SplitsAtAnchor(l, len) ==
  LET hi == Least(Highest(l), (len * 3) \div 2 + 2)
      lo == Greatest(1, len \div 2 - 1)
  IN Least(lo, hi) .. hi

CutAtAnchor(l) ==
  /\ phase = "align" /\ anchors /\ ~Starved
  /\ IsNext(l) /\ ~IsLast(l) /\ cut < words
  /\ l \in usable
  /\ \E len \in 1 .. MaxAnchor : \E take \in SplitsAtAnchor(l, len) : Give(l, take)
  /\ UNCHANGED <<block, phase, own, kept, approx, strings>>

\* Fault: the share is taken of all the source words, not of the remaining ones.
ShareOfTheBlock(l) ==
  Least(Highest(l), Greatest(1, Round((words - cut) * Count(l), ends[n])))

Share(l) ==
  Least(Highest(l), Greatest(1, Round((words - cut) * Count(l), ends[n] - ends[l - 1])))

CutByShare(l) ==
  /\ phase = "align" /\ anchors /\ ~Starved
  /\ IsNext(l) /\ ~IsLast(l) /\ cut < words
  /\ l \notin usable
  /\ Give(l, Share(l))
  /\ UNCHANGED <<block, phase, own, kept, approx, strings>>

\* The last line with text receives the remainder.
GiveRest(l) ==
  /\ phase = "align" /\ anchors /\ ~Starved /\ IsLast(l)
  /\ Give(l, words - cut)
  /\ approx' = IF Cardinality(TextLines) > 1 THEN TextLines \ usable ELSE {}
  /\ phase' = "place"
  /\ UNCHANGED <<block, own, kept, strings>>

(***************************************************************************)
(* _line_by_line_buckets: each line of a starved block takes its own       *)
(* translation or keeps its source.                                        *)
(***************************************************************************)
TakeOwnTranslations ==
  /\ phase = "align" /\ anchors /\ Starved
  /\ \E len \in [usable -> 1 .. MaxAnchor] :
       bucket' = [l \in 1 .. n |-> IF l \in usable THEN [from |-> 1, to |-> len[l]] ELSE Nothing]
  /\ own' = usable
  /\ kept' = TextLines \ usable
  /\ phase' = "place" /\ todo' = {}
  /\ UNCHANGED <<block, cut, approx, strings>>

\* _align_tokens_proportional: a share of all the words by all the source words;
\* the last line of the block takes the remainder.
ProportionalShare(l) ==
  IF Count(l) = 0 \/ cut = words THEN 0
  ELSE Greatest(0, Least(Round(words * Count(l), ends[n]), words - cut))

CutProportionally(l) ==
  /\ phase = "align" /\ ~anchors
  /\ IsNext(l) /\ l < n
  /\ Give(l, ProportionalShare(l))
  /\ UNCHANGED <<block, phase, own, kept, approx, strings>>

RestToLastLine ==
  /\ phase = "align" /\ ~anchors /\ IsLast(n)
  /\ Give(n, words - cut)
  /\ approx' = IF Starved THEN TextLines ELSE {}
  /\ phase' = "place"
  /\ UNCHANGED <<block, own, kept, strings>>

-----------------------------------------------------------------------------
\* Fault: the last String takes one word, too.
SpreadOneEach(l, k) == [i \in 1 .. k |->
  IF bucket[l].from + i - 1 <= bucket[l].to THEN {bucket[l].from + i - 1} ELSE {}]

\* _distribute_tokens: one word to each String but the last, the rest to the last.
Spread(l, k) == [i \in 1 .. k |->
  IF i < k THEN (bucket[l].from + i - 1) .. Least(bucket[l].from + i - 1, bucket[l].to)
           ELSE (bucket[l].from + i - 1) .. bucket[l].to]

Bare == {l \in TextLines \ kept : bucket[l].to < bucket[l].from}

\* The backstop: a line with source text never ends up empty and "ok".
FlaggedLines == approx \cup Bare

\* A line with text has at least one String; one that keeps its source is left alone.
PlaceWords ==
  /\ phase = "place"
  /\ \E k \in [1 .. n -> 0 .. MaxStrings] :
       /\ \A l \in TextLines : k[l] > 0
       /\ strings' = [l \in 1 .. n |-> IF l \in kept THEN <<>> ELSE Spread(l, k[l])]
  /\ approx' = FlaggedLines
  /\ phase' = "done"
  /\ UNCHANGED <<block, todo, cut, bucket, own, kept>>

Next ==
  \/ \E l \in 1 .. n : CutAtAnchor(l)
  \/ \E l \in 1 .. n : CutByShare(l)
  \/ \E l \in 1 .. n : GiveRest(l)
  \/ TakeOwnTranslations
  \/ \E l \in 1 .. n : CutProportionally(l)
  \/ RestToLastLine
  \/ PlaceWords

Spec == Init /\ [][Next]_vars
-----------------------------------------------------------------------------
\* Every variable keeps its type.
TypeOK ==
  /\ n \in 1 .. MaxLines /\ ends \in Cumulative(n)
  /\ words \in 0 .. MaxWords /\ anchors \in BOOLEAN
  /\ usable \subseteq TextLines /\ todo \subseteq 1 .. n
  /\ phase \in {"align", "place", "done"}
  /\ cut \in 0 .. words
  /\ bucket \in [1 .. n -> [from : Nat, to : Nat]]
  /\ own \subseteq TextLines /\ kept \subseteq TextLines /\ approx \subseteq TextLines

\* _align_block's docstring, and what AltoDocument's Bare relies on: unless the
\* translation is shorter than the block has lines, every line of text is given at
\* least one of its words, whatever the anchors say.
NoTextLineEmpty ==
  phase # "align" /\ anchors /\ ~Starved /\ words > 0 =>
    \A l \in TextLines : bucket[l].from <= bucket[l].to

\* With --fast-align a line may be left without a word, but never all of the lines
\* of text of a block that has words enough; a single line of text gets them all.
SomeLineHolds ==
  phase # "align" /\ ~anchors /\ ~Starved /\ words > 0 =>
    /\ Bare # TextLines
    /\ Cardinality(TextLines) = 1 => Bare = {}

\* Places of the Strings in reading order.
Places == {<<l, i>> : l \in 1 .. n, i \in 1 .. MaxStrings}
Holds(p, w) == p[2] \in DOMAIN strings[p[1]] /\ w \in strings[p[1]][p[2]]
Before(p, q) == p[1] < q[1] \/ (p[1] = q[1] /\ p[2] < q[2])

\* The block's words are all in the document, each once and in reading order.
\* (With --fast-align only if the last line has text: else the remainder is given to a
\* line that cannot hold it.)
WordsKeptInOrder ==
  phase = "done" /\ ~(anchors /\ Starved) /\ (anchors \/ n \in TextLines) =>
    /\ \A w \in 1 .. words :
         \E p \in Places : Holds(p, w) /\ \A q \in Places \ {p} : ~Holds(q, w)
    /\ \A v, w \in 1 .. words : \A p, q \in Places :
         Holds(p, v) /\ Holds(q, w) /\ Before(p, q) => v < w

\* A line of text whose Strings were left without a word is flagged.
EmptyIsFlagged ==
  phase = "done" => \A l \in TextLines :
    (\A i \in DOMAIN strings[l] : strings[l][i] = {}) => l \in approx \cup kept

\* No word is lost, doubled or moved between the lines, and what the lines went without
\* is told.
LinesAccounted == WordsKeptInOrder /\ SomeLineHolds /\ EmptyIsFlagged

\* Without a usable anchor a word-for-word translation falls back on its own lines:
\* the shares of the remaining words do not drift down the block.
SharesDoNotDrift ==
  phase # "align" /\ usable = {} /\ words = ends[n] =>
    \A l \in 1 .. n : bucket[l].to - bucket[l].from + 1 = Count(l)

\* With anchors a line without text is given nothing.
AnchorsLeaveBlanksEmpty ==
  phase # "align" /\ anchors =>
    \A l \in (1 .. n) \ TextLines : bucket[l].to < bucket[l].from

=============================================================================
