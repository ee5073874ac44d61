--------------------------- MODULE GuardedRequest ---------------------------
(***************************************************************************)
(* One call of utils._translate_items over the LINDAT backend: the texts   *)
(* go out as one request, a line each; vocabulary terms travel as tags;    *)
(* what is too long goes in pieces; each reply is judged and asked for     *)
(* again while it is degenerate; the tags are put back and their remains   *)
(* scrubbed; and a reply that cannot be mapped back onto the texts is      *)
(* thrown away for one request per text.  A request is a sequence of words *)
(* and line breaks; a word stands for its own translation, so that the     *)
(* result of a text shows whose words it got.  The loops that build and    *)
(* scrub it are walked turn by turn.                                       *)
(***************************************************************************)
EXTENDS Integers, SequencesExt

CONSTANTS
  Surfaces,      \* the words
  Texts,         \* sequences of [s |-> a surface, v |-> "no", or what the vocabulary has
                 \* of it: a "lemma" in the singular, or a "phrase"]
  PieceSizes,    \* TRANSLATION_CHUNK_CHARS, in tokens
  GuardRetries   \* LINDAT_GUARD_RETRIES

VARIABLES
  size,          \* the piece size in force
  phase,         \* "batch", "single", "done", "failed"
  todo,          \* the texts of the request and those asked for after it
  step,          \* of the request: "join", "phrases", "lemmas", "ask", "scrub"
  unjoined,      \* the texts of the request that are not in it yet
  terms,         \* the words that the vocabulary pass at hand has not come to
  rest,          \* what is not answered yet
  map,           \* protected_map: the term behind each tag of the request
  answers,       \* translated_chunks, joined
  clean,         \* the answers as far as they are scrubbed
  asked,         \* requests of the piece already rejected
  slips,         \* line breaks lost, added or moved by a whole line in the answers so far
  unseen,        \* what happened to them that the code has no means to see
  results, failed,
  route          \* which counter of the batch went up: "", "batched", "fallback"

building == <<step, unjoined, terms>>
request  == <<building, rest, map, answers, clean, asked, slips, unseen>>
requestVars == <<size, phase, todo, request, results, failed, route>>

Items == DOMAIN Texts

ASSUME RequestAssumption ==
  /\ Texts \in Seq(Seq([s : Surfaces, v : {"no", "lemma", "phrase"}]))
  /\ GuardRetries \in Nat /\ PieceSizes \subseteq Nat \ {0, 1}

-----------------------------------------------------------------------------
(* Texts. *)

Break     == [t |-> "break"]
Loop      == [t |-> "loop"]                       \* a phrase that repeats itself
Word(w,i) == [t |-> "word", s |-> w.s, v |-> w.v, of |-> i]  \* a word of text i
Tag(n,i)  == [t |-> "tag", n |-> n, of |-> i]     \* Xtermzzz<n>z in place of one
Term(s,i) == [t |-> "term", s |-> s, of |-> i]    \* the vocabulary's translation of s
Debris(d,i) == [t |-> d, of |-> i]               \* what is left of a tag, of one of three kinds
Bracket   == "("

\* What is left of a tag has its stem, only letters z, or neither.
DebrisKinds == {"stem", "guard", "junk"}

Source(i) == [k \in DOMAIN Texts[i] |-> Word(Texts[i][k], i)]
Valid     == {i \in Items : Texts[i] # <<>>}

LineEnds(x) == {k \in DOMAIN x : x[k] = Break}
Lead(x, k)  == Cardinality({j \in LineEnds(x) : j < k})   \* the line breaks before place k

\* str.split("\n").
Line(x, m) == LET K == {k \in DOMAIN x : x[k] # Break /\ Lead(x, k) = m - 1}
              IN  IF K = {} THEN <<>> ELSE SubSeq(x, Min(K), Max(K))
Lines(x)   == [m \in 1 .. Cardinality(LineEnds(x)) + 1 |-> Line(x, m)]

\* "\n".join, by one more.
Join(x, y) == IF x = <<>> THEN y ELSE x \o <<Break>> \o y

\* str.strip: the line breaks at both ends go.
Trim(x) ==
  LET ink == {k \in DOMAIN x : x[k] # Break}
  IN  IF ink = {} THEN <<>> ELSE SubSeq(x, Min(ink), Max(ink))

Blank(x) == \A k \in DOMAIN x : x[k] = Break

-----------------------------------------------------------------------------
(* A request begins: what leaves (_translate_items, _translate_with_vocabulary). *)

Afresh(S) ==
  /\ step' = "join" /\ unjoined' = S /\ terms' = <<>> /\ rest' = <<>> /\ map' = <<>>
  /\ answers' = <<>> /\ clean' = <<>> /\ asked' = 0 /\ slips' = 0 /\ unseen' = {}

RequestInit ==
  /\ size \in PieceSizes /\ todo = Valid
  /\ phase = IF Valid = {} THEN "done" ELSE "batch"
  /\ step = "join" /\ unjoined = Valid /\ terms = <<>> /\ rest = <<>> /\ map = <<>>
  /\ answers = <<>> /\ clean = <<>> /\ asked = 0 /\ slips = 0 /\ unseen = {}
  /\ results = [i \in Items |-> <<>>] /\ failed = {} /\ route = ""

Busy == phase \in {"batch", "single"}

\* The next text, and behind the last of them the phrases that occur.
JoinText ==
  /\ Busy /\ step = "join" /\ unjoined # {}
  /\ LET i == Min(unjoined)
     IN  /\ rest' = Join(rest, Source(i)) /\ unjoined' = unjoined \ {i}
         /\ IF unjoined' # {} THEN UNCHANGED <<step, terms>>
            ELSE step' = "phrases" /\ terms' = rest'
  /\ UNCHANGED <<size, phase, todo, map, answers, clean, asked, slips, unseen, results, failed, route>>

\* Fault: one tag for all.
SharedTag(i) == Tag(0, i)

\* The number of a tag is its place in the map.
NextTag(i) == Tag(Len(map), i)

\* The words of this pass: phrases in the first, lemmas in the second.
Wanted(e) == e.t = "word" /\ e.v = (IF step = "phrases" THEN "phrase" ELSE "lemma")

\* The first place where the surface word of a term still stands is tagged.
Protect ==
  /\ Busy /\ step \in {"phrases", "lemmas"} /\ terms # <<>> /\ terms' = Tail(terms)
  /\ LET P == {k \in DOMAIN rest : rest[k].t = "word" /\ rest[k].s = Head(terms).s}
     IN  IF ~Wanted(Head(terms)) \/ P = {} THEN UNCHANGED <<rest, map>>
         ELSE /\ rest' = [rest EXCEPT ![Min(P)] = NextTag(@.of)]
              /\ map' = Append(map, Head(terms).s)
  /\ UNCHANGED <<size, phase, todo, step, unjoined, answers, clean, asked, slips, unseen,
                 results, failed, route>>

\* The words of the second pass, of which there are none if the lemmatizer does not answer.
Lemmatize ==
  /\ Busy /\ step = "phrases" /\ terms = <<>> /\ step' = "lemmas" /\ terms' \in {rest, <<>>}
  /\ UNCHANGED <<size, phase, todo, unjoined, rest, map, answers, clean, asked, slips, unseen,
                 results, failed, route>>

SendOff ==
  /\ Busy /\ step = "lemmas" /\ terms = <<>> /\ step' = "ask"
  /\ UNCHANGED <<size, phase, todo, unjoined, terms, rest, map, answers, clean, asked, slips, unseen,
                 results, failed, route>>

\* One turn of chunk_text: the piece ends at the last line break of the window that is
\* not in its first quarter, else between two words of a line.
PieceEnd ==
  LET ends == {k \in 1 .. size : rest[k] = Break /\ k - 1 > size \div 4}
      gaps == {k \in 1 .. size : rest[k] # Break /\ rest[k + 1] # Break}
  IN  IF Len(rest) <= size THEN Len(rest)
      ELSE IF ends # {} THEN Max(ends) - 1 ELSE IF gaps # {} THEN Max(gaps) ELSE size

Piece == SubSeq(rest, 1, PieceEnd)
After == Trim(SubSeq(rest, PieceEnd + 1, Len(rest)))

\* A line torn by the cut comes back as two.
Torn == IF After # <<>> /\ rest[PieceEnd + 1] # Break THEN 1 ELSE 0

-----------------------------------------------------------------------------
(* What comes back.  The backend answers a piece line by line, with at most  *)
(* one slip: a line break lost, added or moved, a line that loops, or nothing *)
(* at all; and it may change any tag.                                        *)

Merges(x) == {RemoveAt(x, k) : k \in LineEnds(x)}
Added(x)  == {InsertAt(x, k, Break) : k \in {j \in 2 .. Len(x) : x[j - 1] # Break /\ x[j] # Break}}

\* A line break goes to another place of the line behind it or before it, ...
Relocated(x, m) == InsertAt(RemoveAt(x, m[1]), m[2], Break)
Moves(x) == {m \in LineEnds(x) \X DOMAIN x :
               m[1] # m[2] /\ \A j \in (m[1] + 1 .. m[2]) \cup (m[2] .. m[1] - 1) : x[j] # Break}

\* ... and if it goes past all of the line it leaves an empty one.
Whole(x, m) == IF m[1] < m[2] THEN m[2] = Len(x) \/ x[m[2] + 1] = Break
                              ELSE m[2] = 1 \/ x[m[2] - 1] = Break

Loops(x) == {[k \in DOMAIN x |-> IF x[k] # Break /\ Lead(x, k) = m THEN Loop ELSE x[k]] :
               m \in 0 .. Cardinality(LineEnds(x))}

Tags(x) == {k \in DOMAIN x : x[k].t = "tag"}

\* What becomes of a tag: a number, its own or that of another tag, or what is left of it.
Fates == {<<"tag", n - 1>> : n \in DOMAIN map} \cup {<<d, 0>> : d \in DebrisKinds}
Fated(e, f)   == IF f[1] = "tag" THEN Tag(f[2], e.of) ELSE Debris(f[1], e.of)
Garbled(x, g) == [k \in DOMAIN x |-> IF k \in Tags(x) THEN Fated(x[k], g[k]) ELSE x[k]]
Renumbered(x, g) == \E k \in Tags(x) : g[k][1] = "tag" /\ g[k][2] # x[k].n

Straight(x) == {x, <<>>} \cup Loops(x)
Slipped(x)  == Merges(x) \cup Added(x) \cup {Relocated(x, m) : m \in {n \in Moves(x) : Whole(x, n)}}
Shifted(x)  == {Relocated(x, m) : m \in {n \in Moves(x) : ~Whole(x, n)}}

\* degeneration_reason: nothing for something, or a loop.
Degenerate(src, out) == ~Blank(src) /\ (Blank(out) \/ Loop \in Range(out))

\* _reply_degeneration: line by line if the lines agree, else as a whole.
ReplyDegenerate(piece, reply) ==
  LET ls == Lines(piece) rs == Lines(reply)
  IN  IF Len(ls) = Len(rs) THEN \E k \in DOMAIN ls : Degenerate(ls[k], rs[k])
      ELSE Degenerate(piece, reply)

\* _restore_tags.
Restored(x, m) == [k \in DOMAIN x |-> IF x[k].t = "tag" /\ x[k].n < Len(m)
                                      THEN Term(m[x[k].n + 1], x[k].of) ELSE x[k]]

\* _scrub_placeholder_fragments: where a stem is left, with it the loose letters z and
\* the line breaks that follow an opening bracket, which go with the white space there.
Fragments(x) == {k \in DOMAIN x : x[k].t \in {"tag", "stem"}}
Remains(x)   == {k \in DOMAIN x : x[k].t \in {"tag", "stem", "guard"}}
Eaten(x) == {k \in 2 .. Len(x) : x[k] = Break /\ x[k - 1].t = "word" /\ x[k - 1].s = Bracket}

-----------------------------------------------------------------------------
(* What a reply leads to. *)

\* Texts asked for alone, one after the other.
Singly(later) ==
  /\ todo' = later
  /\ IF later = {} THEN phase' = "done" /\ UNCHANGED request
     ELSE phase' = "single" /\ Afresh({Min(later)})

\* Fault: the text just asked for stays.
NotOnward(S) == S

Onward(S) == S \ {Min(S)}

Flag(i) == failed \cup {i}

FallBack == route' = "fallback" /\ Singly(todo) /\ UNCHANGED <<size, results, failed>>

GiveUp == \/ phase = "batch" /\ FallBack
          \/ /\ phase = "single" /\ failed' = Flag(Min(todo))
             /\ Singly(Onward(todo)) /\ UNCHANGED <<size, results, route>>

\* A usable reply: the next piece, or the end of the request and its tags put back.
Take(reply, slip, hidden) ==
  LET joined == Join(answers, reply)
  IN  /\ rest' = After /\ asked' = 0 /\ slips' = slips + slip + Torn
      /\ unseen' = unseen \cup hidden
      /\ IF After # <<>> THEN answers' = joined /\ UNCHANGED <<step, clean>>
         ELSE answers' = Restored(joined, map) /\ clean' = answers' /\ step' = "scrub"
      /\ UNCHANGED <<size, phase, todo, unjoined, terms, map, results, failed, route>>

\* A reply that is no translation: the piece once more, or the request is given up.
AskAgain ==
  /\ asked < GuardRetries /\ asked' = asked + 1
  /\ UNCHANGED <<size, phase, todo, building, rest, map, answers, clean, slips, unseen, results, failed, route>>

\* A reply with what became of its tags.
Heard(base, slip, hidden) ==
  \E g \in [Tags(base) -> Fates] :
    LET reply == Trim(Garbled(base, g))
    IN  IF ReplyDegenerate(Piece, reply) THEN AskAgain \/ (asked = GuardRetries /\ GiveUp)
        ELSE Take(reply, slip, hidden \cup (IF Renumbered(base, g) THEN {"renumber"} ELSE {}))

Reply ==
  /\ Busy /\ step = "ask"
  /\ \/ \E base \in Straight(Piece) : Heard(base, 0, {})
     \/ \E base \in Slipped(Piece)  : Heard(base, 1, {})
     \/ \E base \in Shifted(Piece)  : Heard(base, 0, {"shift"})

\* The transport gives up: a batch falls back, a single request ends the file.
NoReply ==
  /\ Busy /\ step = "ask"
  /\ \/ phase = "batch" /\ FallBack
     \/ /\ phase = "single" /\ phase' = "failed"
        /\ UNCHANGED <<size, todo, request, results, failed, route>>

ScrubAt(k) ==
  /\ clean' = RemoveAt(clean, k)
  /\ UNCHANGED <<size, phase, todo, building, rest, map, answers, asked, slips, unseen, results, failed, route>>

Scrubbing == Busy /\ step = "scrub" /\ Fragments(answers) # {}

ScrubFragment == Scrubbing /\ Remains(clean) # {} /\ ScrubAt(Min(Remains(clean)))

ScrubBreak == Scrubbing /\ Remains(clean) = {} /\ Eaten(clean) # {} /\ ScrubAt(Min(Eaten(clean)))

Tidied == Fragments(answers) = {} \/ (Remains(clean) = {} /\ Eaten(clean) = {})

\* What translate returns; a text that would be nothing is returned as it was.
Translated == IF Blank(clean) THEN answers ELSE clean

\* With the line breaks that the scrubbing took.
Moved == slips + Cardinality(LineEnds(answers)) - Cardinality(LineEnds(Translated))

\* The line of a text among those of the batch.
Place(S, i) == Cardinality({j \in S : j <= i})

\* Fault: the lines are not counted.
MappedAnyway(ls) == \A i \in {j \in todo : Place(todo, j) \in DOMAIN ls} : ~Degenerate(Source(i), ls[Place(todo, i)])

\* The reply keeps the lines, and each is a plausible translation of its own.
Mapped(ls) == /\ Len(ls) = Cardinality(todo)
              /\ \A i \in todo : ~Degenerate(Source(i), ls[Place(todo, i)])

AcceptBatch ==
  /\ phase = "batch" /\ step = "scrub" /\ Tidied
  /\ LET ls == Lines(Translated)
     IN  /\ Mapped(ls)
         /\ results' = [i \in Items |-> IF i \in todo /\ Place(todo, i) \in DOMAIN ls THEN ls[Place(todo, i)] ELSE <<>>]
  /\ phase' = "done" /\ route' = "batched" /\ slips' = Moved
  /\ UNCHANGED <<size, todo, building, rest, map, answers, clean, asked, unseen, failed>>

RefuseBatch == phase = "batch" /\ step = "scrub" /\ Tidied /\ ~Mapped(Lines(Translated)) /\ FallBack

\* _translate_one, and the next text.
JudgeSingle ==
  /\ phase = "single" /\ step = "scrub" /\ Tidied
  /\ IF Degenerate(Source(Min(todo)), Translated) THEN GiveUp
     ELSE /\ results' = [results EXCEPT ![Min(todo)] = Trim(Translated)]
          /\ Singly(Onward(todo)) /\ UNCHANGED <<size, failed, route>>

RequestNext ==
  \/ JoinText \/ Protect \/ Lemmatize \/ SendOff \/ Reply \/ NoReply
  \/ ScrubFragment \/ ScrubBreak \/ AcceptBatch \/ RefuseBatch \/ JudgeSingle

RequestSpec     == RequestInit /\ [][RequestNext]_requestVars
FairRequestSpec == RequestSpec /\ WF_requestVars(RequestNext)

-----------------------------------------------------------------------------
(* Properties. *)

Owned(e)  == e \notin {Break, Loop}
Owners(x) == {x[k].of : k \in {j \in DOMAIN x : Owned(x[j])}}

Tokens ==
  {Break, Loop} \cup [t : {"word"}, s : Surfaces, v : {"no", "lemma", "phrase"}, of : Items]
    \cup [t : {"tag"}, n : Nat, of : Items] \cup [t : {"term"}, s : Surfaces, of : Items]
    \cup [t : DebrisKinds, of : Items]

\* The variables keep their types.
RequestTypeOK ==
  /\ size \in PieceSizes /\ phase \in {"batch", "single", "done", "failed"}
  /\ todo \subseteq Valid /\ step \in {"join", "phrases", "lemmas", "ask", "scrub"}
  /\ unjoined \subseteq Valid /\ terms \in Seq(Tokens)
  /\ rest \in Seq(Tokens) /\ map \in Seq(Surfaces) /\ answers \in Seq(Tokens) /\ clean \in Seq(Tokens)
  /\ asked \in 0 .. GuardRetries /\ slips \in Nat /\ unseen \subseteq {"shift", "renumber"}
  /\ results \in [Items -> Seq(Tokens)] /\ failed \subseteq Valid
  /\ route \in {"", "batched", "fallback"}

\* The texts whose words a result may have: the reply of a batch in which a line break
\* was moved by part of a line is taken, and that may hand words to the next line.
Givers(i) == IF route = "batched" /\ "shift" \in unseen
             THEN {j \in Valid : Place(Valid, j) - Place(Valid, i) \in -1 .. 1} ELSE {i}

\* A reply that lost or gained one line break, or had one moved by a line, wherever that
\* happened (at a cut, in the backend, in the scrubbing), never puts one text's words into
\* the result of another: it is noticed and asked for again (_translate_items, "accepted
\* only if it keeps the line count AND every line is a plausible translation").  A line
\* break moved by part of a line is not noticed, and hands words to a neighbour only.
OneSlipCaught == slips <= 1 \/ route # "batched" =>
                   \A i \in DOMAIN results : Owners(results[i]) \subseteq Givers(i)

\* A vocabulary term in a result stands for a word of the text it came with, however the
\* tags were numbered, cut into pieces, garbled or asked for again (_restore_tags); one
\* whose number the backend changed to that of another tag stands for a word of some text
\* of the same request, so for one of its own where a text was asked for alone.
TermsOwn ==
  \A i \in DOMAIN results : \A k \in {j \in DOMAIN results[i] : results[i][j].t = "term"} :
    LET known == IF route = "batched" /\ "renumber" \in unseen THEN Valid ELSE {results[i][k].of}
    IN  \E j \in known : \E w \in Range(Texts[j]) : w.s = results[i][k].s

\* What is left of a tag with its stem reaches a result only if the whole of it is what
\* the scrubbing takes (the last line of _scrub_placeholder_fragments).
DebrisOnlyAlone ==
  \A i \in DOMAIN results : \A k \in Fragments(results[i]) :
    \A j \in DOMAIN results[i] : results[i][j].t \in {"tag", "stem", "guard", "break"}

\* When the call returns, each text has a usable result of its own or is flagged,
\* never both and never neither, and a blank one has neither (_translate_items).
EveryTextSettled ==
  phase = "done" =>
    \A i \in Items :
      IF Texts[i] = <<>> THEN results[i] = <<>> /\ i \notin failed
      ELSE i \in failed <=> Degenerate(Source(i), results[i])

\* What a text is given is its own, or it is flagged: no term of another text but by a
\* tag that became another, and no stem of a tag among words.
ResultsAreTheirOwn == TermsOwn /\ DebrisOnlyAlone /\ EveryTextSettled

\* The call returns or fails, whatever the backend answers.
RequestEnds == <>(phase \in {"done", "failed"})

=============================================================================
