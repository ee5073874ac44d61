----------------------------- MODULE TextLoops -----------------------------
(***************************************************************************)
(* Two loops that walk over a text, a step of this module per turn of the  *)
(* loop: chunking.chunk_text, which cuts what is too long for one request, *)
(* and quality._longest_repeat_run, which finds how often a reply repeats  *)
(* itself.  A text is a sequence of characters, of which the alphabet has  *)
(* the kinds the code tells apart; the words of a reply are characters     *)
(* too.                                                                    *)
(***************************************************************************)
EXTENDS Integers, SequencesExt

CONSTANTS
  Letters,    \* what the words of a text to cut are made of
  Tokens,     \* the words of a reply
  Sizes,      \* the chunk sizes
  MaxText,    \* bound on the length of a text
  MaxReply,   \* bound on the number of tokens of a reply
  MaxUnit     \* MAX_REPEAT_UNIT

VARIABLES
  loop,       \* "chunk" or "repeat"
  text,       \* the text, or the tokens of the reply
  size,       \* chunk_size
  remaining, chunks,
  spans,      \* history: the first and the last place of each chunk in the text
  unit, place, \* the unit length and the position of the scan
  best,       \* the longest run found
  done

chunkVars  == <<remaining, chunks, spans>>
repeatVars == <<unit, place, best>>
loopVars   == <<loop, text, size, chunkVars, repeatVars, done>>

-----------------------------------------------------------------------------
(* Characters. *)

Space   == " "
NewLine == "\n"
Stop    == "."     \* stands for . ! and ? where a space follows
Comma   == ","     \* stands for ; and ,

White == {Space, NewLine}
Chars == Letters \cup White \cup {Stop, Comma}

Texts == UNION {[1 .. n -> Chars] : n \in 1 .. MaxText}
Replies == UNION {[1 .. n -> Tokens] : n \in 1 .. MaxReply}

ASSUME TextAssumption ==
  /\ Letters \cap (White \cup {Stop, Comma}) = {}
  /\ Sizes \subseteq Nat \ {0} /\ MaxText \in Nat /\ MaxReply \in Nat /\ MaxUnit \in Nat \ {0}

\* str.lstrip and str.strip: from the first character that is not white.
Inked(s) == {k \in DOMAIN s : s[k] \notin White}
LStrip(s) == IF Inked(s) = {} THEN <<>> ELSE SubSeq(s, Min(Inked(s)), Len(s))
Strip(s)  == IF Inked(s) = {} THEN <<>> ELSE SubSeq(s, Min(Inked(s)), Max(Inked(s)))

-----------------------------------------------------------------------------
(* chunk_text. *)

\* How many characters of the window stay in the left chunk for each separator
\* of a tier found at the last place it occurs in the window.
LastAt(window, S) == LET P == {p \in 1 .. Len(window) : S[p]} IN IF P = {} THEN 0 ELSE Max(P)

\* The separators of _SEP_TIERS; "". " is a stop before a space, kept itself.
Breaks(window) == [p \in 1 .. Len(window) |-> window[p] = NewLine]
Ends(window, mark) ==
  [p \in 1 .. Len(window) |-> p < Len(window) /\ window[p] = mark /\ window[p + 1] = Space]

\* pos > _MIN_SPLIT, pos counted from 0.
Usable(p, n) == p - 1 > n \div 4

\* pos > 0: any space but a leading one, also within the first quarter.
WordBreak(p, n) == p > 1

\* The length of the left chunk: the first tier with a usable separator, else the
\* last space but the first character, else the whole window.
CutAt(window, n) ==
  LET line     == LastAt(window, Breaks(window))
      sentence == LastAt(window, Ends(window, Stop))
      clause   == LastAt(window, Ends(window, Comma))
      space    == LastAt(window, [p \in 1 .. Len(window) |-> window[p] = Space])
  IN  IF Usable(line, n)          THEN line - 1
      ELSE IF Usable(sentence, n) THEN sentence
      ELSE IF Usable(clause, n)   THEN clause
      ELSE IF WordBreak(space, n) THEN space - 1
      ELSE n

Appended(s) == IF Strip(s) = <<>> THEN chunks ELSE Append(chunks, Strip(s))

\* Where the remaining text begins, and where the chunk made of s stands.
From      == Len(text) - Len(remaining) + 1
Placed(s) == IF Strip(s) = <<>> THEN spans
             ELSE Append(spans, <<From + Min(Inked(s)) - 1, From + Max(Inked(s)) - 1>>)

\* Fault: the character at the cut is taken for the separator.
SkipPast(s, at) == LStrip(SubSeq(s, at + 2, Len(s)))

Rest(s, at) == LStrip(SubSeq(s, at + 1, Len(s)))

Cut ==
  /\ loop = "chunk" /\ ~done /\ Len(remaining) > size
  /\ LET at   == CutAt(SubSeq(remaining, 1, size), size)
         left == SubSeq(remaining, 1, at)
     IN  /\ chunks' = Appended(left) /\ spans' = Placed(left)
         /\ remaining' = Rest(remaining, at)
  /\ UNCHANGED <<loop, text, size, repeatVars, done>>

LastChunk ==
  /\ loop = "chunk" /\ ~done /\ Len(remaining) <= size
  /\ chunks' = Appended(remaining) /\ spans' = Placed(remaining)
  /\ remaining' = <<>> /\ done' = TRUE
  /\ UNCHANGED <<loop, text, size, repeatVars>>

-----------------------------------------------------------------------------
(* _longest_repeat_run. *)

\* The repetitions of the u tokens at p that follow one another.
RunAt(s, p, u) ==
  Max({r \in 1 .. Len(s) : /\ p + r * u - 1 <= Len(s)
                           /\ \A k \in p .. p + (r - 1) * u - 1 : s[k] = s[k + u]})

\* Fault: the scan goes on behind the run.
SkipRun(p, u, run) == p + u * run

\* Fault: the scan stays where it is after a unit that is not repeated.
StayPut(p, u, run) == p + u * (run - 1)

\* Where the scan goes on: inside the last repetition, for another run may
\* begin there.
NextStart(p, u, run) == IF run > 1 THEN p + u * (run - 1) + 1 ELSE p + 1

Scan ==
  /\ loop = "repeat" /\ ~done /\ unit <= MaxUnit
  /\ place + 2 * unit - 1 <= Len(text)
  /\ LET run == RunAt(text, place, unit)
     IN  /\ best' = Max({best, run})
         /\ place' = NextStart(place, unit, run)
  /\ UNCHANGED <<loop, text, size, chunkVars, unit, done>>

NextUnit ==
  /\ loop = "repeat" /\ ~done /\ unit <= MaxUnit
  /\ place + 2 * unit - 1 > Len(text)
  /\ unit' = unit + 1 /\ place' = 1
  /\ done' = (unit' > MaxUnit)
  /\ UNCHANGED <<loop, text, size, chunkVars, best>>

-----------------------------------------------------------------------------
InitChunk ==
  /\ loop = "chunk" /\ size \in Sizes
  /\ text \in Texts /\ text = Strip(text) /\ Len(text) > size
  /\ remaining = text /\ chunks = <<>> /\ spans = <<>>
  /\ unit = 1 /\ place = 1 /\ best = 1 /\ done = FALSE

InitRepeat ==
  /\ loop = "repeat" /\ size = 0
  /\ text \in Replies
  /\ remaining = <<>> /\ chunks = <<>> /\ spans = <<>>
  /\ unit = 1 /\ place = 1 /\ best = 1 /\ done = FALSE

LoopInit == InitChunk \/ InitRepeat

LoopNext == Cut \/ LastChunk \/ Scan \/ NextUnit

LoopSpec     == LoopInit /\ [][LoopNext]_loopVars
FairLoopSpec == LoopSpec /\ WF_loopVars(LoopNext)

-----------------------------------------------------------------------------
(* Properties. *)

\* The variables keep their shape.
LoopTypeOK ==
  /\ loop \in {"chunk", "repeat"} /\ done \in BOOLEAN
  /\ text \in Seq(Chars \cup Tokens) /\ remaining \in Seq(Chars)
  /\ chunks \in Seq(Seq(Chars)) /\ spans \in Seq(Nat \X Nat)
  /\ unit \in 1 .. MaxUnit + 1 /\ place \in Nat \ {0} /\ best \in 1 .. MaxReply + 1

\* What is sent piece by piece is the text: each piece is a part of it that fits into a
\* request, they follow one another, and no character but white space is between them or
\* before what remains (chunk_text).
PiecesAreTheText ==
  loop = "chunk" =>
    /\ DOMAIN chunks = DOMAIN spans
    /\ \A k \in DOMAIN chunks : /\ chunks[k] = SubSeq(text, spans[k][1], spans[k][2])
                               /\ Len(chunks[k]) \in 1 .. size
    /\ \A j, k \in DOMAIN spans : j < k => spans[j][2] < spans[k][1]
    /\ \A p \in DOMAIN text : text[p] \notin White =>
         p >= From \/ \E k \in DOMAIN spans : p \in spans[k][1] .. spans[k][2]

\* The words of a text, each with the places of its characters.
WordsOf(s) ==
  {p \in (1 .. Len(s)) \X (1 .. Len(s)) :
     /\ p[1] <= p[2]
     /\ \A k \in p[1] .. p[2] : s[k] \notin White
     /\ p[1] = 1 \/ s[p[1] - 1] \in White
     /\ p[2] = Len(s) \/ s[p[2] + 1] \in White}

\* A word is torn apart only if it fits into no request, or if a line break in the
\* first quarter of the window is all there is before it: the promise that words
\* stay together (chunk_text, rules 4 and 5), as far as the code keeps it.
ShortWordsWhole ==
  loop = "chunk" =>
    \A w \in WordsOf(text) :
      LET len == w[2] - w[1] + 1
      IN  (\E k \in DOMAIN spans : spans[k][2] \in w[1] .. w[2] - 1)
            => \/ len > size
               \/ w[1] > 1 /\ text[w[1] - 1] = NewLine /\ len >= size - size \div 4

\* The pieces of a text are the text, with its words whole.
CutsAreClean == PiecesAreTheText /\ ShortWordsWhole

\* The scan that leaps over what it has measured finds the longest run there is:
\* a decoder loop in a reply is not missed (_longest_repeat_run).
LongestRunFound ==
  loop = "repeat" /\ done =>
    best = Max({1} \cup {RunAt(text, pu[1], pu[2]) :
                 pu \in {x \in (DOMAIN text) \X (1 .. MaxUnit) : x[1] + x[2] - 1 <= Len(text)}})

\* Both loops end, whatever the text.
LoopsEnd == <>done
=============================================================================
