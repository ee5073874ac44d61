------------------------ MODULE SourceLanguageProofs ------------------------
(***************************************************************************)
(* Theorems about SourceLanguage, for every backend, every choice of       *)
(* languages and everything the identifier may hear: a run that was let in *)
(* is not refused in the middle of a document, no segment is left as it is *)
(* for want of a language, and one in a language that cannot be used is    *)
(* counted and told.                                                       *)
(*                                                                         *)
(* And about the other resource of a run, the vocabulary (VocabularyBuild),*)
(* for all thesauri and releases: what the exit code says of the file, and *)
(* that no row mixes two concepts.                                         *)
(***************************************************************************)
EXTENDS SourceLanguage, VocabularyBuild, FiniteSetTheorems, SequenceTheorems, TLAPS

\* A set of numbers that is not empty has a least one.
LEMMA LeastExists ==
  ASSUME NEW S, S \subseteq Nat, S # {}
  PROVE  \E m \in S : \A y \in S : m <= y
<1> DEFINE Less == {p \in Nat \X Nat : p[1] < p[2]}
<1>1. IsWellFoundedOn(Less, Nat)
  BY NatLessThanWellFounded DEF OpToRel
<1>2. PICK m \in S : \A y \in S : ~(<<y, m>> \in Less)
  <2> HIDE DEF Less
  <2> QED
    BY <1>1, WFMin
<1>3. \A y \in S : m \in Nat /\ y \in Nat /\ ~(y < m)
  BY <1>2
<1>4. QED
  BY <1>3

(* The language the identifier is heard to say is one it is sure of and    *)
(* the policy accepts: the least of the usable candidates exists.          *)
LEMMA DetectedUsable ==
  ASSUME NEW g \in Guesses, Usable(g) # {}
  PROVE  Accepts(Detected(g)) /\ SureOf(g, Detected(g))
<1>1. PICK n \in 0 .. MaxGuesses : g \in [1 .. n -> [lang : Langs, sure : BOOLEAN]]
  BY DEF Guesses
<1>2. n \in Nat
  BY <1>1, LanguageAssumption
<1>3. Usable(g) \subseteq Nat
  BY <1>1, <1>2 DEF Usable
<1>4. \E i \in Usable(g) : \A j \in Usable(g) : i <= j
  BY <1>3, LeastExists
<1>5. PICK i \in Usable(g) : Detected(g) = g[i].lang
  BY <1>4 DEF Detected
<1>6. QED BY <1>5 DEF Usable, SureOf

(* Where a resolved language comes from: resolve_source_language.          *)
LEMMA ResolveOrigin ==
  ASSUME NEW g \in Guesses, NEW label, NEW context, NEW l, l = Resolve(g, label, context)
  PROVE  \/ Accepts(l) /\ SureOf(g, l)
         \/ Accepts(l) /\ l = label
         \/ l = context /\ l # NoLang
         \/ l = default
BY DetectedUsable DEF Resolve

-----------------------------------------------------------------------------
(* A segment may be asked for in this language, but for the run that falls *)
(* back to its own target while no pair leads there.                       *)
Excused == source = "auto" /\ default = target /\ SourcesIntoTarget = {}

Askable(l) == NoModel(l) => Excused

(* The policy accepts only what may be asked for, once the pair is let in. *)
LEMMA AcceptsAskable ==
  ASSUME backend \in Backends, source = "auto", ~PairProblem(Checked), NEW l, Accepts(l)
  PROVE  Askable(l)
<1>1. default = target \/ backend.pairs = {} \/ <<default, target>> \in backend.pairs
  BY DEF PairProblem, Checked
<1>2. SUFFICES ASSUME l # target, backend.pairs # {}, <<l, target>> \notin backend.pairs
               PROVE  default = target /\ SourcesIntoTarget = {}
  BY DEF Askable, NoModel, Excused
<1>3. ASSUME <<default, target>> \in backend.pairs PROVE default \in SourcesIntoTarget
  BY <1>3 DEF SourcesIntoTarget
<1>4. CASE l = default
  BY <1>1, <1>2, <1>4
<1>5. CASE SourcesIntoTarget # {}
  <2>1. Translatable = SourcesIntoTarget \cup {target}
    BY <1>5 DEF Translatable
  <2>2. l = default \/ l \in SourcesIntoTarget
    BY <1>2, <2>1 DEF Accepts
  <2>3. l \notin SourcesIntoTarget
    <3> SUFFICES ASSUME NEW p \in backend.pairs, p[2] = target, p[1] = l PROVE FALSE
      BY DEF SourcesIntoTarget
    <3>1. p \in Langs \X Langs
      BY LanguageAssumption
    <3>2. p = <<l, target>>
      BY <3>1
    <3>3. QED BY <1>2, <3>2
  <2>4. QED BY <1>4, <2>2, <2>3
<1>6. CASE SourcesIntoTarget = {} /\ l # default
  BY <1>1, <1>2, <1>3, <1>6
<1>7. QED BY <1>4, <1>5, <1>6

Reason(s) == \/ target \in {source, default} \/ s.label = target
             \/ SureOf(s.heard, target) \/ document.sure

LanguageInv ==
  /\ source = "auto" \/ source \in Nameable
  /\ backend \in Backends
  /\ phase \notin {"start", "refused"} => ~PairProblem(Checked)
  /\ phase \in {"start", "document"} => document.lang = NoLang /\ segment = NoSegment
  /\ document.lang # NoLang =>
       Askable(document.lang) /\ (document.lang = target => default = target \/ document.sure)
  /\ segment # NoSegment => Askable(segment.lang) /\ (segment.lang = target => Reason(segment))
  /\ phase = "failed" => Excused

LEMMA LanguageInit == Init => LanguageInv
BY LanguageAssumption DEF Init, LanguageInv

LEMMA LanguageStep == ASSUME LanguageInv, [Next]_vars PROVE LanguageInv'
<1> USE DEF LanguageInv
<1>1. CASE UNCHANGED vars
  BY <1>1 DEF vars, run, Askable, NoModel, Excused, SourcesIntoTarget, Reason, PairProblem, Checked
<1>2. ASSUME UNCHANGED run
      PROVE  /\ Excused' <=> Excused
             /\ PairProblem(Checked)' <=> PairProblem(Checked)
             /\ \A l : Askable(l)' <=> Askable(l)
  BY <1>2 DEF run, Askable, NoModel, Excused, SourcesIntoTarget, PairProblem, Checked
<1>3. CASE Start
  <2>1. UNCHANGED <<run, document, segment>> /\ phase = "start"
        /\ phase' = IF PairProblem(Checked) THEN "refused" ELSE "document"
    BY <1>3 DEF Start
  <2>2. QED BY <1>2, <2>1 DEF run, Reason
<1>4. CASE ResolveDocument
  <2>1. phase = "document" /\ phase' = "segments" /\ UNCHANGED <<run, segment>>
    BY <1>4 DEF ResolveDocument
  <2>2. CASE source = "auto"
    <3>1. PICK g \in Guesses :
            document' = [lang |-> Resolve(g, NoLang, NoLang), sure |-> SureOf(g, target)]
      BY <1>4, <2>2 DEF ResolveDocument
    <3> DEFINE l == Resolve(g, NoLang, NoLang)
    <3>2. (Accepts(l) /\ SureOf(g, l)) \/ l = default \/ l = NoLang
      BY ResolveOrigin
    <3>3. Accepts(default)
      BY DEF Accepts
    <3>4. l # NoLang => Askable(l)
      BY <2>1, <2>2, <3>2, <3>3, AcceptsAskable
    <3>5. l = target /\ l # NoLang => default = target \/ SureOf(g, target)
      BY <3>2
    <3>6. QED BY <1>2, <2>1, <3>1, <3>4, <3>5 DEF run
  <2>3. CASE source # "auto"
    <3>1. UNCHANGED document
      BY <1>4, <2>3 DEF ResolveDocument
    <3>2. QED BY <1>2, <2>1, <3>1 DEF run, Reason
  <2>4. QED BY <2>2, <2>3
<1>5. CASE ResolveSegment
  <2>1. phase = "segments" /\ UNCHANGED <<run, phase, document>>
    BY <1>5 DEF ResolveSegment
  <2>2. CASE source = "auto"
    <3>1. PICK g \in Guesses, label \in Langs \cup {NoLang} :
            segment' = [heard |-> g, label |-> label, lang |-> Resolve(g, label, document.lang),
                        unsupported |-> Unsupported(g)]
      BY <1>5, <2>2 DEF ResolveSegment
    <3> DEFINE l == Resolve(g, label, document.lang)
    <3>2. \/ Accepts(l) /\ SureOf(g, l)
          \/ Accepts(l) /\ l = label
          \/ l = document.lang /\ l # NoLang
          \/ l = default
      BY ResolveOrigin
    <3>3. Accepts(default)
      BY DEF Accepts
    <3>4. Askable(l)
      BY <2>1, <2>2, <3>2, <3>3, AcceptsAskable
    <3>5. l = target => \/ SureOf(g, target) \/ label = target \/ default = target \/ document.sure
      BY <3>2
    <3>6. segment'.lang = l /\ segment'.heard = g /\ segment'.label = label
      BY <3>1
    <3>7. (segment.lang = target => Reason(segment))'
      BY <2>1, <3>5, <3>6 DEF run, Reason, SureOf
    <3>8. QED BY <1>2, <2>1, <3>4, <3>6, <3>7 DEF run
  <2>3. CASE source # "auto"
    <3>1. segment' = [NoSegment EXCEPT !.lang = source]
      BY <1>5, <2>3 DEF ResolveSegment
    <3>2. segment'.lang = source
      BY <3>1 DEF NoSegment
    <3>3. Askable(source)
      BY <2>1, <2>3 DEF Askable, NoModel, PairProblem, Checked
    <3>4. (segment.lang = target => Reason(segment))'
      BY <2>1, <3>2 DEF run, Reason
    <3>5. QED BY <1>2, <2>1, <3>2, <3>3, <3>4 DEF run
  <2>4. QED BY <2>2, <2>3
<1>6. CASE Translate
  <2>1. phase = "segments" /\ segment # NoSegment /\ segment' = NoSegment /\ UNCHANGED <<run, document>>
    BY <1>6 DEF Translate
  <2>2. CASE NoModel(segment.lang)
    <3>1. phase' = "failed" /\ Excused
      BY <1>6, <2>2 DEF Translate, Askable
    <3>2. QED BY <1>2, <2>1, <3>1 DEF run
  <2>3. CASE ~NoModel(segment.lang)
    <3>1. UNCHANGED phase
      BY <1>6, <2>3 DEF Translate
    <3>2. QED BY <1>2, <2>1, <3>1 DEF run
  <2>4. QED BY <2>2, <2>3
<1>7. CASE Finish
  <2>1. phase = "segments" /\ phase' = "done" /\ UNCHANGED <<run, document, segment>>
    BY <1>7 DEF Finish
  <2>2. QED BY <1>2, <2>1 DEF run, Reason
<1>8. QED BY <1>1, <1>3, <1>4, <1>5, <1>6, <1>7 DEF Next

(* Every segment of a run that was let in has a language it may be asked   *)
(* in or is left for a reason: language_pair_problem,                      *)
(* allowed_source_languages and resolve_source_language agree.             *)
THEOREM LanguageIsDecidedHolds == Spec => []LanguageIsDecided
<1>1. LanguageInv /\ [Next]_vars => LanguageInv'
  BY LanguageStep
<1>2. LanguageInv => LanguageIsDecided
  BY DEF LanguageInv, LanguageIsDecided, NeverRefusedMidway, LeftForAReason, Excused, Reason
<1>3. QED BY LanguageInit, <1>1, <1>2, PTL DEF Spec
-----------------------------------------------------------------------------
(***************************************************************************)
(* What is told of a language that cannot be used.                         *)
(***************************************************************************)

\* What an identifier says is a sequence of languages, each marked sure or not.
LEMMA GuessShape ==
  ASSUME NEW g \in Guesses
  PROVE  /\ DOMAIN g \subseteq Nat
         /\ \A i \in DOMAIN g : g[i].lang \in Langs
<1>1. PICK n \in 0 .. MaxGuesses : g \in [1 .. n -> [lang : Langs, sure : BOOLEAN]]
  BY DEF Guesses
<1>2. n \in Nat
  BY <1>1, LanguageAssumption
<1>3. QED BY <1>1, <1>2

\* The candidates resolve_source_language marks: sure ones with a code.
Seen(g) == {i \in DOMAIN g : g[i].sure /\ g[i].lang \in Nameable}

\* resolve_source_language names a language exactly if the segment is owed the word:
\* it is surely in one, and in none the policy accepts.
LEMMA UnsupportedOwed ==
  ASSUME NEW g \in Guesses
  PROVE  /\ ~Owing(g) => Unsupported(g) = NoLang
         /\ Owing(g) => Usable(g) = {} /\ Seen(g) # {} /\ Unsupported(g) = g[Marked(g, Seen(g))].lang
<1>1. Seen(g) # {} <=> \E l \in Nameable : SureOf(g, l)
  BY DEF Seen, SureOf
<1>2. Usable(g) = {} <=> \A l \in Langs : SureOf(g, l) => ~Accepts(l)
  BY GuessShape DEF Usable, SureOf
<1>3. Unsupported(g) = IF Usable(g) # {} \/ Seen(g) = {} THEN NoLang ELSE g[Marked(g, Seen(g))].lang
  BY DEF Unsupported, Seen
<1>4. QED BY <1>1, <1>2, <1>3 DEF Owing

\* The language named is the one the identifier was surest of.
LEMMA UnsupportedFirst ==
  ASSUME NEW g \in Guesses, Owing(g)
  PROVE  /\ Unsupported(g) \in Nameable /\ SureOf(g, Unsupported(g))
         /\ \A m \in Nameable \ {Unsupported(g)} : SureOf(g, m) => Before(g, Unsupported(g), m)
<1> DEFINE i == Marked(g, Seen(g))
<1>1. Unsupported(g) = g[i].lang /\ Seen(g) # {}
  BY UnsupportedOwed
<1>2. Seen(g) \subseteq Nat
  BY GuessShape DEF Seen
<1>3. \E k \in Seen(g) : \A j \in Seen(g) : k <= j
  BY <1>1, <1>2, LeastExists
<1>4. i \in Seen(g) /\ \A j \in Seen(g) : i <= j
  BY <1>3 DEF Marked
<1>5. g[i].lang \in Nameable /\ SureOf(g, g[i].lang)
  BY <1>4 DEF Seen, SureOf
<1>6. ASSUME NEW m \in Nameable, m # g[i].lang, SureOf(g, m)
      PROVE  Before(g, g[i].lang, m)
  <2>1. PICK j \in Seen(g) : g[j].lang = m
    BY <1>6 DEF SureOf, Seen
  <2>2. i < j
    BY <1>2, <1>4, <1>6, <2>1
  <2>3. i \in DOMAIN g /\ j \in DOMAIN g
    BY <1>4, <2>1 DEF Seen
  <2>4. QED BY <2>1, <2>2, <2>3 DEF Before
<1>7. QED BY <1>1, <1>5, <1>6

\* Counting a language adds one to its count; counting none changes nothing.
LEMMA TalliedOne ==
  ASSUME tally \in [Langs -> Int], NEW l
  PROVE  /\ l \in Langs => Tallied(l) = [tally EXCEPT ![l] = @ + 1]
         /\ l = NoLang => Tallied(l) = tally
<1>1. ASSUME l \in Langs PROVE Tallied(l) = [tally EXCEPT ![l] = @ + 1]
  <2>1. \A k \in Langs : tally[k] + (IF k = l THEN 1 ELSE 0) = [tally EXCEPT ![l] = @ + 1][k]
    OBVIOUS
  <2>2. QED BY <2>1 DEF Tallied
<1>2. ASSUME l = NoLang PROVE Tallied(l) = tally
  <2>1. \A k \in Langs : tally[k] + (IF k = l THEN 1 ELSE 0) = tally[k]
    BY <1>2, LanguageAssumption
  <2>2. QED BY <2>1 DEF Tallied
<1>3. QED BY <1>1, <1>2

\* What is known of the segment at hand: what was heard, and what that owes.
HeardInv ==
  /\ tally \in [Langs -> Int]
  /\ segment # NoSegment => segment.heard \in Guesses /\ segment.unsupported = Unsupported(segment.heard)

\* An identifier that says nothing leaves nothing to tell.
LEMMA NothingHeard == <<>> \in Guesses /\ ~Owing(<<>>)
<1>1. <<>> \in [1 .. 0 -> [lang : Langs, sure : BOOLEAN]]
  OBVIOUS
<1>2. 0 \in 0 .. MaxGuesses
  BY LanguageAssumption
<1>3. <<>> \in UNION {[1 .. n -> [lang : Langs, sure : BOOLEAN]] : n \in 0 .. MaxGuesses}
  BY <1>1, <1>2
<1>4. QED BY <1>3 DEF Guesses, Owing, SureOf

\* The segment ResolveSegment leaves, whatever the mode.
LEMMA ResolvedSegment ==
  ASSUME HeardInv, ResolveSegment
  PROVE  /\ segment'.heard \in Guesses /\ segment'.unsupported = Unsupported(segment'.heard)
         /\ tally' = Tallied(Unsupported(segment'.heard))
<1>1. CASE source = "auto"
  BY <1>1 DEF ResolveSegment
<1>2. CASE source # "auto"
  <2>1. segment' = [NoSegment EXCEPT !.lang = source] /\ tally' = tally
    BY <1>2 DEF ResolveSegment
  <2>2. segment'.heard = <<>> /\ segment'.unsupported = NoLang
    BY <2>1 DEF NoSegment
  <2>3. Unsupported(<<>>) = NoLang
    BY NothingHeard, UnsupportedOwed
  <2>4. QED BY <2>1, <2>2, <2>3, NothingHeard, TalliedOne DEF HeardInv
<1>3. QED BY <1>1, <1>2

LEMMA HeardStep == ASSUME HeardInv, [Next]_vars PROVE HeardInv'
<1>1. ASSUME UNCHANGED run, NEW g PROVE Unsupported(g)' = Unsupported(g)
  BY <1>1 DEF run, Unsupported, Usable, Accepts, Translatable, SourcesIntoTarget, Listed, Marked
<1>2. CASE UNCHANGED vars
  BY <1>2, <1>1 DEF vars, HeardInv
<1>3. CASE Start \/ ResolveDocument \/ Finish
  <2>1. UNCHANGED <<run, segment, tally>>
    BY <1>3 DEF Start, ResolveDocument, Finish
  <2>2. QED BY <1>1, <2>1 DEF HeardInv
<1>4. CASE ResolveSegment
  <2>1. UNCHANGED run
    BY <1>4 DEF ResolveSegment
  <2>2. tally' \in [Langs -> Int]
    BY <1>4, ResolvedSegment DEF Tallied, HeardInv
  <2>3. QED BY <1>1, <1>4, <2>1, <2>2, ResolvedSegment DEF HeardInv
<1>5. CASE Translate
  BY <1>5 DEF Translate, HeardInv, NoSegment
<1>6. QED BY <1>2, <1>3, <1>4, <1>5 DEF Next

\* One step tells what it has to.
Told ==
  LET g == segment'.heard IN
  /\ segment = NoSegment /\ segment' # NoSegment =>
       IF Owing(g)
       THEN \E l \in Nameable :
              /\ SureOf(g, l) /\ \A m \in Nameable \ {l} : SureOf(g, m) => Before(g, l, m)
              /\ tally' = [tally EXCEPT ![l] = @ + 1]
       ELSE tally' = tally
  /\ segment # NoSegment /\ phase' = phase =>
       (row' = "unsupported_lang" <=> Owing(segment.heard) /\ row' # "untranslated")

LEMMA ToldStep == ASSUME HeardInv, Next PROVE Told
<1>1. CASE ResolveSegment
  <2> DEFINE g == segment'.heard
  <2>1. segment = NoSegment /\ g \in Guesses /\ tally' = Tallied(Unsupported(g))
    BY <1>1, ResolvedSegment DEF ResolveSegment
  <2>2. CASE Owing(g)
    <3>1. Unsupported(g) \in Langs
      BY <2>1, <2>2, UnsupportedFirst DEF Langs
    <3>2. tally' = [tally EXCEPT ![Unsupported(g)] = @ + 1]
      BY <2>1, <3>1, TalliedOne DEF HeardInv
    <3>3. QED BY <2>1, <2>2, <3>2, UnsupportedFirst DEF Told
  <2>3. CASE ~Owing(g)
    <3>1. tally' = tally
      BY <2>1, <2>3, UnsupportedOwed, TalliedOne DEF HeardInv
    <3>2. QED BY <2>1, <2>3, <3>1 DEF Told
  <2>4. QED BY <2>2, <2>3
<1>2. CASE Translate
  <2>1. segment # NoSegment /\ phase = "segments"
    BY <1>2 DEF Translate
  <2>2. CASE NoModel(segment.lang)
    BY <1>2, <2>1, <2>2 DEF Translate, Told
  <2>3. CASE ~NoModel(segment.lang)
    <3>1. PICK kept \in {FALSE} \cup {segment.lang # target} :
             row' = IF kept THEN "untranslated"
                    ELSE IF segment.unsupported # NoLang THEN "unsupported_lang" ELSE "ok"
      BY <1>2, <2>3 DEF Translate
    <3>2. segment.unsupported # NoLang <=> Owing(segment.heard)
      <4>1. segment.heard \in Guesses /\ segment.unsupported = Unsupported(segment.heard)
        BY <2>1 DEF HeardInv
      <4>2. NoLang \notin Nameable
        BY LanguageAssumption DEF Langs
      <4>3. QED BY <4>1, <4>2, UnsupportedOwed, UnsupportedFirst
    <3>3. row' = "unsupported_lang" <=> Owing(segment.heard) /\ row' # "untranslated"
      BY <3>1, <3>2
    <3>4. QED BY <2>1, <3>3 DEF Told
  <2>4. QED BY <2>2, <2>3
<1>3. CASE Start \/ ResolveDocument \/ Finish
  BY <1>3 DEF Start, ResolveDocument, Finish, Told
<1>4. QED BY <1>1, <1>2, <1>3 DEF Next

(* A segment in a language that cannot be used is counted once, under the  *)
(* language the identifier was surest of, and its row says so, whatever    *)
(* candidates the identifier lists; of no other segment is this said.      *)
THEOREM UnsupportedToldHolds == Spec => UnsupportedTold
<1>1. Init => HeardInv
  BY DEF Init, HeardInv
<1>2. HeardInv /\ [Next]_vars => HeardInv'
  BY HeardStep
<1>3. HeardInv /\ [Next]_vars => [Told]_vars
  BY ToldStep
<1>4. QED BY <1>1, <1>2, <1>3, PTL DEF Spec, UnsupportedTold, Told

-----------------------------------------------------------------------------
(* The vocabulary file (VocabularyBuild). *)

\* A set of places of a sequence that is not empty has a first and a last one.
LEMMA FirstAndLast ==
  ASSUME NEW S, NEW n \in Nat, S \subseteq 1 .. n, S # {}
  PROVE  /\ Min(S) \in S /\ \A y \in S : Min(S) <= y
         /\ Max(S) \in S /\ \A y \in S : Max(S) >= y
<1>1. \E m \in S : \A y \in S : m <= y
  <2>1. S \subseteq Nat
    OBVIOUS
  <2>2. QED
    BY <2>1, LeastExists
<1>2. \E m \in S : \A y \in S : m >= y
  <2> DEFINE T == {n - x : x \in S}
  <2>1. \A x \in S : n - x \in Nat /\ n - x \in T
    <3>1. \A x \in S : x \in Nat /\ x <= n
      OBVIOUS
    <3>2. QED
      BY <3>1
  <2>2. T \subseteq Nat /\ T # {}
    BY <2>1
  <2>3. PICK t \in T : \A y \in T : t <= y
    <3> HIDE DEF T
    <3>1. QED
      BY <2>2, LeastExists
  <2>4. PICK m \in S : t = n - m
    BY <2>3
  <2>5. \A y \in S : n - m <= n - y
    BY <2>1, <2>3, <2>4
  <2>6. QED
    BY <2>5
<1>3. QED
  BY <1>1, <1>2 DEF Min, Max

-----------------------------------------------------------------------------
\* An entry has a translation, a source and an identifier, and nothing else.
Entry(e) == e = [target |-> e.target, source |-> e.source, id |-> e.id]
\* A function to such entries.
Dictionary(d) == d = [l \in DOMAIN d |-> d[l]] /\ \A l \in DOMAIN d : Entry(d[l])

\* What Collect builds is a dictionary of entries.
LEMMA CollectedDictionary ==
  ASSUME NEW concepts, NEW origin
  PROVE  Dictionary(Collect(concepts, origin))
<1> DEFINE both == {k \in DOMAIN concepts : concepts[k].lemma # Absent /\ concepts[k].target # Absent}
           last(l) == Max({k \in both : concepts[k].lemma = l})
           D == {concepts[k].lemma : k \in both}
           e(l) == [target |-> concepts[last(l)].target, source |-> origin, id |-> concepts[last(l)].id]
<1>1. Collect(concepts, origin) = [l \in D |-> e(l)]
  BY DEF Collect
<1>2. \A l \in D : Entry(e(l))
  BY DEF Entry
<1> HIDE DEF D, e
<1>3. QED
  BY <1>1, <1>2 DEF Dictionary

\* So is what Merged builds of two of them,
LEMMA MergedDictionary ==
  ASSUME NEW a, NEW t, Dictionary(a), Dictionary(t)
  PROVE  Dictionary(Merged(a, t))
<1> DEFINE D == DOMAIN a \cup DOMAIN t
           e(l) == IF l \in DOMAIN a THEN a[l] ELSE t[l]
<1>1. Merged(a, t) = [l \in D |-> e(l)]
  BY DEF Merged
<1>2. \A l \in D : Entry(e(l))
  BY DEF Dictionary
<1> HIDE DEF D, e
<1>3. QED
  BY <1>1, <1>2 DEF Dictionary

\* and what FromRelease reads.
LEMMA ReleaseDictionary ==
  ASSUME NEW r
  PROVE  Dictionary(FromRelease(r))
<1> DEFINE last(l) == Max({k \in DOMAIN r.curated : r.curated[k][1] = l})
           D == {r.curated[k][1] : k \in DOMAIN r.curated}
           e(l) == [target |-> r.curated[last(l)][2], source |-> Provenance(r, r.curated[last(l)]).source,
                    id |-> Provenance(r, r.curated[last(l)]).id]
<1>1. FromRelease(r) = [l \in D |-> e(l)]
  BY DEF FromRelease
<1>2. \A l \in D : Entry(e(l))
  BY DEF Entry
<1> HIDE DEF D, e
<1>3. QED
  BY <1>1, <1>2 DEF Dictionary

-----------------------------------------------------------------------------
\* The rows a run may write.
RowSet == {Row(records, l) : l \in DOMAIN records}

\* The rows written so far are records of this run, no lemma twice.
RowsInv ==
  /\ file.rows \in Seq(RowSet) /\ records # Empty
  /\ \A j, k \in 1 .. Len(file.rows) : file.rows[j].lemma = file.rows[k].lemma => j = k
  /\ options.mode = "release" => payload = expected

\* The inductive invariant of the exit code: while rows are being written the file holds
\* records of this run, once each; exit 0 is given when none is left.
ExitInv ==
  /\ Dictionary(amcr) /\ Dictionary(teater) /\ Dictionary(records)
  /\ pc # "idle" => exit = "none"
  /\ pc \in {"asset", "digest", "verify"} => options.mode = "release"
  /\ pc \in {"amcr", "introspect", "export", "searchCs", "searchEn", "merge"} =>
         options.mode = "harvest"
  /\ pc \notin {"idle", "rows"} => file = before
  /\ pc = "open" => records # Empty /\ (options.mode = "release" => payload = expected)
  /\ pc = "rows" => RowsInv
  /\ exit = "done" => RowsInv /\ Unwritten = {} /\ file.whole
  /\ exit \in {"nothing", "refused"} => file = before

\* Each row written is the record of its lemma.
LEMMA RowsAre ==
  ASSUME RowsInv, NEW k \in 1 .. Len(file.rows)
  PROVE  /\ DOMAIN file.rows = 1 .. Len(file.rows) /\ Len(file.rows) \in Nat
         /\ file.rows[k].lemma \in DOMAIN records
         /\ file.rows[k] = Row(records, file.rows[k].lemma)
<1>1. PICK l \in DOMAIN records : file.rows[k] = Row(records, l)
  BY DEF RowsInv, RowSet
<1>2. QED
  BY <1>1, LenProperties DEF Row, RowsInv

\* What has been written to the end reads back as the records.
LEMMA ReadsBack ==
  ASSUME Dictionary(records), RowsInv, Unwritten = {}
  PROVE  file.rows # <<>> /\ Loaded(file.rows) = records
<1> DEFINE rows == file.rows
<1>1. DOMAIN rows = 1 .. Len(rows) /\ Len(rows) \in Nat
  BY LenProperties DEF RowsInv
<1>2. \A l \in DOMAIN records : \E k \in DOMAIN rows : rows[k].lemma = l
  BY DEF Unwritten
<1>3. \A k \in DOMAIN rows : rows[k].lemma \in DOMAIN records /\ rows[k] = Row(records, rows[k].lemma)
  BY <1>1, RowsAre
<1>4. rows # <<>>
  <2>1. SUFFICES ASSUME rows = <<>> PROVE FALSE
    OBVIOUS
  <2>2. DOMAIN records = {}
    <3>1. Len(<<>>) = 0
      OBVIOUS
    <3>2. DOMAIN rows = {}
      BY <1>1, <2>1, <3>1
    <3>3. QED
      BY <1>2, <3>2
  <2>3. records = <<>>
    BY <2>2 DEF Dictionary
  <2>4. QED
    BY <2>3 DEF RowsInv, Empty
<1>5. ASSUME NEW l \in DOMAIN records
      PROVE  LET k == Max({k \in DOMAIN rows : rows[k].lemma = l})
             IN [target |-> rows[k].target, source |-> rows[k].source, id |-> rows[k].id] = records[l]
  <2>1. PICK k \in DOMAIN rows : rows[k].lemma = l
    BY <1>2
  <2>2. {j \in DOMAIN rows : rows[j].lemma = l} = {k}
    BY <1>1, <2>1 DEF RowsInv
  <2>3. Max({k}) = k
    BY <1>1 DEF Max
  <2>4. rows[k] = Row(records, l)
    BY <1>3, <2>1
  <2>5. [target |-> rows[k].target, source |-> rows[k].source, id |-> rows[k].id] = records[l]
    BY <2>4 DEF Row, Dictionary, Entry
  <2>6. QED
    BY <2>2, <2>3, <2>5
<1>6. {rows[k].lemma : k \in DOMAIN rows} = DOMAIN records
  BY <1>2, <1>3
<1>7. Loaded(rows) = [l \in DOMAIN records |-> records[l]]
  BY <1>5, <1>6 DEF Loaded
<1>8. QED
  BY <1>4, <1>7 DEF Dictionary

\* Precedes the first run no exit code says anything.
LEMMA ExitInit == VocabularyInit => ExitInv
BY DEF VocabularyInit, ExitInv, Dictionary, Empty

\* Every step keeps what the exit code says of the file.
LEMMA ExitNext ==
  ASSUME ExitInv, [VocabularyNext]_vocabularyVars
  PROVE  ExitInv'
<1> USE DEF ExitInv, Empty
<1>1. CASE UNCHANGED vocabularyVars
  BY <1>1 DEF vocabularyVars, published, RowsInv, RowSet, Row, Unwritten, Dictionary
<1>2. ASSUME NEW args, NEW first, Begin(args, first),
             \/ first = "asset" /\ args.mode = "release"
             \/ first \in {"amcr", "introspect"} /\ args.mode = "harvest"
      PROVE  ExitInv'
  BY <1>2 DEF Begin, Dictionary
<1>3. CASE StartHarvest \/ StartRelease
  <2>1. CASE StartHarvest
    <3>1. PICK a, t \in BOOLEAN :
             Begin([mode |-> "harvest", amcr |-> a, teater |-> t, pin |-> 0],
                   IF a THEN "amcr" ELSE "introspect")
      BY <2>1 DEF StartHarvest
    <3> DEFINE args == [mode |-> "harvest", amcr |-> a, teater |-> t, pin |-> 0]
    <3>2. args.mode = "harvest"
      OBVIOUS
    <3>3. Begin(args, "amcr") \/ Begin(args, "introspect")
      BY <3>1
    <3> HIDE DEF args
    <3>4. QED
      BY <3>2, <3>3, <1>2
  <2>2. CASE StartRelease
    <3>1. PICK pin \in 0..Len(Releases) :
             Begin([mode |-> "release", amcr |-> FALSE, teater |-> FALSE, pin |-> pin], "asset")
      BY <2>2 DEF StartRelease
    <3> DEFINE args == [mode |-> "release", amcr |-> FALSE, teater |-> FALSE, pin |-> pin]
    <3>2. args.mode = "release" /\ Begin(args, "asset")
      BY <3>1
    <3> HIDE DEF args
    <3>3. QED
      BY <3>2, <1>2
  <2>3. QED
    BY <1>3, <2>1, <2>2
<1>4. ASSUME Dictionary(amcr'), Dictionary(teater'), UNCHANGED <<options, before, records, file, exit>>,
             \/ /\ pc \in {"amcr", "introspect", "export", "searchCs", "searchEn", "merge"}
                /\ pc' \in {"amcr", "introspect", "export", "searchCs", "searchEn", "merge"}
                /\ UNCHANGED <<payload, expected>>
             \/ pc \in {"asset", "digest", "verify"} /\ pc' \in {"asset", "digest", "verify"}
      PROVE  ExitInv'
  BY <1>4 DEF Dictionary
<1>5. CASE AmcrPage
  BY <1>4, <1>5, CollectedDictionary, MergedDictionary DEF AmcrPage, AfterAmcr, thisRun, asset, published
<1>6. CASE AmcrBreaks
  BY <1>4, <1>6 DEF AmcrBreaks, AfterAmcr, thisRun, asset, harvest, Dictionary
<1>7. CASE Introspect
  BY <1>4, <1>7 DEF Introspect, AfterExport, thisRun, asset, Dictionary
<1>8. CASE Export
  BY <1>4, <1>8, CollectedDictionary DEF Export, AfterExport, thisRun, asset, Dictionary
<1>9. CASE ExportFails
  BY <1>4, <1>9 DEF ExportFails, AfterExport, thisRun, asset, harvest, Dictionary
<1>10. CASE SearchCzech
  BY <1>4, <1>10 DEF SearchCzech, thisRun, asset, Dictionary
<1>11. CASE SearchEnglish
  BY <1>4, <1>11, CollectedDictionary DEF SearchEnglish, thisRun, asset, Dictionary
<1>12. CASE SearchFails
  BY <1>4, <1>12 DEF SearchFails, thisRun, asset, harvest, Dictionary
<1>13. ASSUME NEW dict, Dictionary(dict), Settle(dict), UNCHANGED <<options, before, amcr, teater, payload, expected, file>>,
              pc \notin {"idle", "open", "rows"}, options.mode = "release" => payload = expected
       PROVE  ExitInv'
  BY <1>13 DEF Settle, Leave, Dictionary
<1>14. CASE Merge
  <2>1. Dictionary(Merged(amcr, teater)) /\ options.mode # "release"
    BY <1>14, MergedDictionary DEF Merge
  <2>2. QED
    BY <1>13, <1>14, <2>1 DEF Merge, thisRun, harvest, asset
<1>15. CASE FetchAsset \/ FetchDigest
  BY <1>4, <1>15 DEF FetchAsset, FetchDigest, thisRun, harvest, Dictionary
<1>16. CASE FetchFails
  BY <1>16 DEF FetchFails, Leave, thisRun, harvest, asset, Dictionary
<1>17. CASE Verify
  <2>1. CASE payload = expected /\ Releases[payload].readable
    BY <1>13, <1>17, <2>1, ReleaseDictionary DEF Verify, thisRun, harvest, asset
  <2>2. CASE ~(payload = expected /\ Releases[payload].readable)
    BY <1>17, <2>2 DEF Verify, Leave, thisRun, harvest, asset, Dictionary
  <2>3. QED
    BY <2>1, <2>2
<1>18. CASE OpenFile
  <2>1. file'.rows = <<>> /\ UNCHANGED <<options, records, amcr, teater, payload, expected, exit>> /\ pc = "open" /\ pc' = "rows"
    BY <1>18 DEF OpenFile, thisRun, harvest, asset
  <2>2. RowsInv'
    BY <2>1 DEF RowsInv
  <2>3. QED
    BY <2>1, <2>2 DEF Dictionary
<1>19. CASE WriteRow
  <2>1. PICK l \in Unwritten : file' = [file EXCEPT !.rows = Append(@, Row(records, l))]
    BY <1>19 DEF WriteRow
  <2>2. /\ UNCHANGED <<options, records, amcr, teater, payload, expected, exit, pc, before>> /\ pc = "rows"
        /\ RowsInv /\ file.rows \in Seq(RowSet)
    BY <1>19 DEF WriteRow, thisRun, harvest, asset, RowsInv
  <2>3. Row(records, l) \in RowSet /\ l \in DOMAIN records
    BY <2>1 DEF Unwritten, RowSet
  <2>4. /\ file'.rows = Append(file.rows, Row(records, l))
        /\ file'.rows \in Seq(RowSet) /\ Len(file'.rows) = Len(file.rows) + 1
        /\ \A k \in 1..Len(file.rows) : file'.rows[k] = file.rows[k]
        /\ file'.rows[Len(file.rows) + 1] = Row(records, l)
    <3>1. file'.rows = Append(file.rows, Row(records, l))
      BY <2>1, <2>2
    <3>2. QED
      BY <2>2, <2>3, <3>1, AppendProperties
  <2>5. \A k \in 1..Len(file.rows) : file.rows[k].lemma # l
    <3>1. DOMAIN file.rows = 1..Len(file.rows)
      BY <2>2, LenProperties
    <3>2. QED
      BY <2>1, <3>1 DEF Unwritten
  <2>6. \A j, k \in 1 .. Len(file'.rows) : file'.rows[j].lemma = file'.rows[k].lemma => j = k
    <3>1. Row(records, l).lemma = l /\ Len(file.rows) \in Nat
      BY <2>2, LenProperties DEF Row
    <3>2. QED
      BY <2>2, <2>4, <2>5, <3>1 DEF RowsInv
  <2>7. RowsInv'
    <3>1. RowSet' = RowSet /\ UNCHANGED <<options, records, payload, expected>>
      BY <2>2 DEF RowSet, Row
    <3>2. QED
      BY <2>2, <2>4, <2>6, <3>1 DEF RowsInv
  <2>8. QED
    BY <2>2, <2>7 DEF Dictionary
<1>20. CASE CloseFile
  <2>1. /\ UNCHANGED <<options, records, amcr, teater, payload, expected, before>> /\ pc = "rows"
        /\ pc' = "idle" /\ exit' = "done" /\ Unwritten = {} /\ RowsInv
        /\ file' = [file EXCEPT !.whole = TRUE]
    BY <1>20 DEF CloseFile, Leave, thisRun, harvest, asset
  <2>3. file'.rows = file.rows /\ file'.whole
    BY <2>1
  <2>4. RowsInv' /\ Unwritten' = {}
    BY <2>1, <2>3 DEF RowsInv, RowSet, Row, Unwritten
  <2>5. QED
    BY <2>1, <2>3, <2>4 DEF Dictionary
<1>21. CASE Killed
  BY <1>21 DEF Killed, Leave, thisRun, harvest, asset, Dictionary
<1>22. CASE PublishZip \/ PublishSum
  <2>1. UNCHANGED <<options, before, records, amcr, teater, payload, expected, file, exit, pc>>
    BY <1>22 DEF PublishZip, PublishSum, thisRun, harvest, asset
  <2>2. RowsInv' = RowsInv /\ Unwritten' = Unwritten
    BY <2>1 DEF RowsInv, RowSet, Row, Unwritten
  <2>3. QED
    BY <2>1, <2>2 DEF Dictionary
<1>23. QED
  BY <1>1, <1>3, <1>5, <1>6, <1>7, <1>8, <1>9, <1>10, <1>11, <1>12,
     <1>14, <1>15, <1>16, <1>17, <1>18, <1>19, <1>20, <1>21, <1>22 DEF VocabularyNext

\* In every run: exit 0 means a whole file that reads back as this run's
\* records, taken from the very asset the checksum names, and exits 2 and 3 mean
\* the file of before - whatever fails, whoever republishes the release between
\* two downloads, and wherever an earlier run was killed.
THEOREM VocabularyExitCorrect == VocabularySpec => []ExitTellsTheFile
<1>1. ExitInv => ExitTellsTheFile
  BY ReadsBack DEF ExitInv, RowsInv, ExitTellsTheFile
<1>2. ExitInv /\ [VocabularyNext]_vocabularyVars => ExitInv'
  BY ExitNext
<1>3. QED
  BY ExitInit, <1>1, <1>2, PTL DEF VocabularySpec

-----------------------------------------------------------------------------
\* A concept that an entry of a lemma may be copied from.
Fits(c, l, e) == c.lemma = l /\ c.target = e.target /\ c.id = e.id

\* Two nodes of TEATER that it may have its labels of: one, if it has an identifier.
Joins(c, d, l, e) ==
  /\ c.lemma = l /\ c.id = e.id /\ d.target = e.target /\ d.id = e.id
  /\ e.id # Absent => c = d

\* So is an entry of TEATER's.
FromNodes(l, e) == e.source = "teater" /\ \E c, d \in Range(TeaterNodes) : Joins(c, d, l, e)

\* The concepts of AMCR, on all its pages.
AmcrConcepts == UNION {Range(AmcrPages[p]) : p \in DOMAIN AmcrPages}

\* Some later concept of the pages read so far has a pair for the same lemma.
Overridden(p, k) ==
  \E q \in p..page : \E j \in DOMAIN AmcrPages[q] :
     /\ q > p \/ j > k
     /\ AmcrPages[q][j].lemma = AmcrPages[p][k].lemma /\ AmcrPages[q][j].target # Absent

\* What the harvest has of AMCR: each entry is a concept's, and the last concept of a lemma
\* on the pages read so far has it.
AmcrInv ==
  /\ page \in 0..Len(AmcrPages)
  /\ \A l \in DOMAIN amcr : amcr[l].source = "amcr" /\ \E c \in AmcrConcepts : Fits(c, l, amcr[l])
  /\ \A p \in 1..page : \A k \in DOMAIN AmcrPages[p] :
        LET c == AmcrPages[p][k]
        IN  c.lemma # Absent /\ c.target # Absent /\ ~Overridden(p, k) =>
              /\ c.lemma \in DOMAIN amcr
              /\ amcr[c.lemma] = [target |-> c.target, source |-> "amcr", id |-> c.id]

\* What it has of TEATER: each entry is a node's.
TeaterInv ==
  /\ czech \subseteq DOMAIN TeaterNodes
  /\ \A l \in DOMAIN teater : FromNodes(l, teater[l])

\* Where the records that are about to be written, or are written, come from.
Origin ==
  \/ options.mode = "harvest" /\ records = Merged(amcr, teater)
  \/ /\ options.mode = "release" /\ payload \in DOMAIN Releases
     /\ records = FromRelease(Releases[payload])

\* A release's records come from an asset that was published, a harvest's from the two
\* dictionaries.
OriginInv ==
  /\ zip \in DOMAIN Releases
  /\ pc \in {"digest", "verify"} => payload \in DOMAIN Releases
  /\ pc \in {"open", "rows"} \/ exit = "done" => Origin

\* What a dictionary collects: the last concept of a lemma that has both labels.
LEMMA Collected ==
  ASSUME NEW concepts, NEW origin, NEW n \in Nat, DOMAIN concepts \subseteq 1..n
  PROVE  LET C == Collect(concepts, origin) IN
         /\ \A k \in DOMAIN concepts :
               concepts[k].lemma # Absent /\ concepts[k].target # Absent => concepts[k].lemma \in DOMAIN C
         /\ \A l \in DOMAIN C : \E k \in DOMAIN concepts :
               /\ concepts[k].lemma = l /\ l # Absent /\ concepts[k].target # Absent
               /\ C[l] = [target |-> concepts[k].target, source |-> origin, id |-> concepts[k].id]
               /\ \A j \in DOMAIN concepts :
                     concepts[j].lemma = l /\ concepts[j].target # Absent => j <= k
<1> DEFINE both == {k \in DOMAIN concepts : concepts[k].lemma # Absent /\ concepts[k].target # Absent}
           places(l) == {k \in both : concepts[k].lemma = l}
           D == {concepts[k].lemma : k \in both}
           e(l) == [target |-> concepts[Max(places(l))].target, source |-> origin,
                    id |-> concepts[Max(places(l))].id]
           C == Collect(concepts, origin)
<1>1. C = [l \in D |-> e(l)]
  BY DEF Collect
<1>2. DOMAIN C = D /\ \A l \in D : C[l] = e(l)
  <2> HIDE DEF D, e, C
  <2> QED
    BY <1>1
<1>3. ASSUME NEW l \in DOMAIN C
      PROVE  \E k \in DOMAIN concepts :
               /\ concepts[k].lemma = l /\ l # Absent /\ concepts[k].target # Absent
               /\ C[l] = [target |-> concepts[k].target, source |-> origin, id |-> concepts[k].id]
               /\ \A j \in DOMAIN concepts :
                     concepts[j].lemma = l /\ concepts[j].target # Absent => j <= k
  <2>1. places(l) \subseteq 1..n /\ places(l) # {}
    BY <1>2, <1>3
  <2>2. Max(places(l)) \in places(l) /\ \A y \in places(l) : Max(places(l)) >= y
    <3> HIDE DEF places
    <3> QED
      BY <2>1, FirstAndLast
  <2>3. C[l] = e(l)
    BY <1>2, <1>3
  <2>4. PICK k \in places(l) : k = Max(places(l))
    BY <2>2
  <2>5. C[l] = [target |-> concepts[k].target, source |-> origin, id |-> concepts[k].id]
    BY <2>3, <2>4
  <2>6. k \in DOMAIN concepts /\ concepts[k].lemma = l /\ l # Absent /\ concepts[k].target # Absent
    BY <2>4
  <2>7. \A j \in DOMAIN concepts : concepts[j].lemma = l /\ concepts[j].target # Absent => j <= k
    <3>1. \A j \in DOMAIN concepts : concepts[j].lemma = l /\ concepts[j].target # Absent => j \in places(l)
      BY <2>6
    <3>2. \A y \in places(l) : k >= y /\ y \in Nat /\ k \in Nat
      <4> HIDE DEF places
      <4>1. \A y \in places(l) : y \in Nat
        BY <2>1
      <4> QED
        BY <2>2, <2>4, <4>1
    <3> HIDE DEF places
    <3>3. QED
      BY <3>1, <3>2
  <2>8. QED
    BY <2>5, <2>6, <2>7
<1>4. \A k \in DOMAIN concepts :
         concepts[k].lemma # Absent /\ concepts[k].target # Absent => concepts[k].lemma \in DOMAIN C
  BY <1>2
<1> HIDE DEF C
<1>5. QED
  BY <1>3, <1>4 DEF C

\* The first dictionary's entries override those of the second.
LEMMA MergedEntries ==
  ASSUME NEW a, NEW t
  PROVE  /\ DOMAIN Merged(a, t) = DOMAIN a \cup DOMAIN t
         /\ \A l \in DOMAIN a : Merged(a, t)[l] = a[l]
         /\ \A l \in DOMAIN t \ DOMAIN a : Merged(a, t)[l] = t[l]
BY DEF Merged

\* A page's last pair of a lemma takes the lemma over from the pages before.
LEMMA PageRead ==
  ASSUME AmcrInv, AmcrPage
  PROVE  AmcrInv'
<1> DEFINE P == AmcrPages[page + 1]
           C == Collect(P, "amcr")
<1>1. /\ page \in Nat /\ page + 1 \in DOMAIN AmcrPages /\ page + 1 <= Len(AmcrPages)
      /\ P \in Seq(Concepts) /\ page' = page + 1 /\ amcr' = Merged(C, amcr)
  <2>1. AmcrPages \in Seq(Seq(Concepts)) /\ Len(AmcrPages) \in Nat /\ DOMAIN AmcrPages = 1..Len(AmcrPages)
    BY VocabularyAssumption, LenProperties
  <2>2. page \in Nat /\ page + 1 \in 1..Len(AmcrPages) /\ page' = page + 1 /\ amcr' = Merged(C, amcr)
    <3>1. page \in Nat /\ page < Len(AmcrPages)
      <4>1. page \in 0..Len(AmcrPages)
        BY DEF AmcrInv
      <4>2. page < Len(AmcrPages)
        BY DEF AmcrPage
      <4>3. QED
        BY <4>1, <4>2
    <3>2. page' = page + 1 /\ amcr' = Merged(Collect(AmcrPages[page + 1], "amcr"), amcr)
      BY DEF AmcrPage
    <3>3. page + 1 \in 1..Len(AmcrPages)
      BY <2>1, <3>1
    <3>4. QED
      BY <3>1, <3>2, <3>3
  <2>3. P \in Seq(Concepts)
    BY <2>1, <2>2, ElementOfSeq
  <2>4. QED
    BY <2>1, <2>2, <2>3
<1>2. DOMAIN P = 1..Len(P) /\ Len(P) \in Nat
  BY <1>1, LenProperties
<1>3. /\ \A k \in DOMAIN P : P[k].lemma # Absent /\ P[k].target # Absent => P[k].lemma \in DOMAIN C
      /\ \A l \in DOMAIN C : \E k \in DOMAIN P :
            /\ P[k].lemma = l /\ l # Absent /\ P[k].target # Absent
            /\ C[l] = [target |-> P[k].target, source |-> "amcr", id |-> P[k].id]
            /\ \A j \in DOMAIN P : P[j].lemma = l /\ P[j].target # Absent => j <= k
  <2> HIDE DEF P
  <2>1. PICK n \in Nat : DOMAIN P \subseteq 1..n
    BY <1>2
  <2>2. PICK D : D = C
    OBVIOUS
  <2>3. D = Collect(P, "amcr")
    BY <2>2
  <2> HIDE DEF C
  <2>4. /\ \A k \in DOMAIN P : P[k].lemma # Absent /\ P[k].target # Absent => P[k].lemma \in DOMAIN D
        /\ \A l \in DOMAIN D : \E k \in DOMAIN P :
              /\ P[k].lemma = l /\ l # Absent /\ P[k].target # Absent
              /\ D[l] = [target |-> P[k].target, source |-> "amcr", id |-> P[k].id]
              /\ \A j \in DOMAIN P : P[j].lemma = l /\ P[j].target # Absent => j <= k
    BY <2>1, <2>3, Collected
  <2>5. QED
    BY <2>2, <2>4
<1>4. /\ DOMAIN amcr' = DOMAIN C \cup DOMAIN amcr
      /\ \A l \in DOMAIN C : amcr'[l] = C[l]
      /\ \A l \in DOMAIN amcr \ DOMAIN C : amcr'[l] = amcr[l]
  <2>1. amcr' = Merged(C, amcr)
    BY <1>1
  <2> HIDE DEF C
  <2>2. /\ DOMAIN Merged(C, amcr) = DOMAIN C \cup DOMAIN amcr
        /\ \A l \in DOMAIN C : Merged(C, amcr)[l] = C[l]
        /\ \A l \in DOMAIN amcr \ DOMAIN C : Merged(C, amcr)[l] = amcr[l]
    BY MergedEntries
  <2>3. QED
    BY <2>1, <2>2
<1>5. ASSUME NEW l \in DOMAIN amcr'
      PROVE  amcr'[l].source = "amcr" /\ \E c \in AmcrConcepts : Fits(c, l, amcr'[l])
  <2>1. CASE l \in DOMAIN C
    <3>1. PICK k \in DOMAIN P :
             P[k].lemma = l /\ C[l] = [target |-> P[k].target, source |-> "amcr", id |-> P[k].id]
      BY <1>3, <2>1
    <3>2. P[k] \in AmcrConcepts
      BY <1>1 DEF AmcrConcepts, Range
    <3> HIDE DEF P, C
    <3>3. QED
      BY <1>4, <2>1, <3>1, <3>2 DEF Fits
  <2>2. CASE l \notin DOMAIN C
    <3> HIDE DEF P, C
    <3>1. QED
      BY <1>4, <1>5, <2>2 DEF AmcrInv
  <2>3. QED
    BY <2>1, <2>2
<1>6. ASSUME NEW p \in 1..page', NEW k \in DOMAIN AmcrPages[p],
             AmcrPages[p][k].lemma # Absent, AmcrPages[p][k].target # Absent, ~Overridden(p, k)'
      PROVE  /\ AmcrPages[p][k].lemma \in DOMAIN amcr'
             /\ amcr'[AmcrPages[p][k].lemma] =
                  [target |-> AmcrPages[p][k].target, source |-> "amcr", id |-> AmcrPages[p][k].id]
  <2> DEFINE c == AmcrPages[p][k]
  <2>1. \A q \in p..(page + 1) : \A j \in DOMAIN AmcrPages[q] :
           q > p \/ j > k => ~(AmcrPages[q][j].lemma = c.lemma /\ AmcrPages[q][j].target # Absent)
    BY <1>1, <1>6 DEF Overridden
  <2>2. CASE p = page + 1
    <3>1. c = P[k] /\ k \in DOMAIN P /\ c.lemma \in DOMAIN C
      BY <1>3, <1>6, <2>2
    <3>2. PICK m \in DOMAIN P :
             /\ P[m].lemma = c.lemma /\ P[m].target # Absent
             /\ C[c.lemma] = [target |-> P[m].target, source |-> "amcr", id |-> P[m].id]
             /\ \A j \in DOMAIN P : P[j].lemma = c.lemma /\ P[j].target # Absent => j <= m
      BY <1>3, <3>1
    <3>3. k <= m
      BY <1>6, <3>1, <3>2
    <3>4. ~(m > k)
      <4>1. page + 1 \in p..(page + 1) /\ m \in DOMAIN AmcrPages[page + 1]
        BY <1>1, <2>2
      <4>2. m > k => ~(AmcrPages[page + 1][m].lemma = c.lemma /\ AmcrPages[page + 1][m].target # Absent)
        BY <2>1, <4>1
      <4>3. QED
        BY <3>2, <4>2
    <3>5. m = k
      BY <1>2, <3>1, <3>3, <3>4
    <3> HIDE DEF C, P
    <3>6. QED
      BY <1>4, <3>1, <3>2, <3>5
  <2>3. CASE p # page + 1
    <3>1. p \in 1..page /\ page + 1 \in p..(page + 1) /\ page + 1 > p
      BY <1>1, <2>3
    <3>2. \A j \in DOMAIN P : ~(P[j].lemma = c.lemma /\ P[j].target # Absent)
      BY <2>1, <3>1
    <3>3. c.lemma \notin DOMAIN C
      <4> HIDE DEF C, P, c
      <4> QED
        BY <1>3, <3>2
    <3>4. ~Overridden(p, k)
      <4>1. \A q \in p..page : q \in p..(page + 1)
        BY <1>1, <3>1
      <4> HIDE DEF P, C
      <4>2. QED
        BY <2>1, <4>1 DEF Overridden
    <3>5. /\ c.lemma \in DOMAIN amcr
          /\ amcr[c.lemma] = [target |-> c.target, source |-> "amcr", id |-> c.id]
      BY <1>6, <3>1, <3>4 DEF AmcrInv
    <3> HIDE DEF C, P
    <3>6. QED
      BY <1>4, <3>3, <3>5
  <2>4. QED
    BY <2>2, <2>3
<1>7. page' \in 0..Len(AmcrPages)
  BY <1>1, VocabularyAssumption, LenProperties
<1>8. AmcrConcepts' = AmcrConcepts
  BY DEF AmcrConcepts
<1>9. \A l \in DOMAIN amcr' :
         amcr'[l].source = "amcr" /\ \E c \in AmcrConcepts : Fits(c, l, amcr'[l])
  BY <1>5
<1>10. \A p \in 1..page' : \A k \in DOMAIN AmcrPages[p] :
         LET c == AmcrPages[p][k]
         IN  c.lemma # Absent /\ c.target # Absent /\ ~Overridden(p, k)' =>
               /\ c.lemma \in DOMAIN amcr'
               /\ amcr'[c.lemma] = [target |-> c.target, source |-> "amcr", id |-> c.id]
  BY <1>6
<1>11. QED
  BY <1>7, <1>8, <1>9, <1>10 DEF AmcrInv, Fits

\* An export takes each pair from one node; so does the join of the two
\* searches, where one identifier has one English label.
LEMMA ExportFits ==
  \A l \in DOMAIN Collect(TeaterNodes, "teater") : FromNodes(l, Collect(TeaterNodes, "teater")[l])
<1>1. DOMAIN TeaterNodes = 1..Len(TeaterNodes) /\ Len(TeaterNodes) \in Nat
  BY VocabularyAssumption, LenProperties
<1>2. DOMAIN TeaterNodes \subseteq 1..Len(TeaterNodes)
  BY <1>1
<1> DEFINE C == Collect(TeaterNodes, "teater")
<1>3. \A l \in DOMAIN C : \E k \in DOMAIN TeaterNodes :
          /\ TeaterNodes[k].lemma = l /\ l # Absent /\ TeaterNodes[k].target # Absent
          /\ C[l] = [target |-> TeaterNodes[k].target, source |-> "teater", id |-> TeaterNodes[k].id]
          /\ \A j \in DOMAIN TeaterNodes :
                TeaterNodes[j].lemma = l /\ TeaterNodes[j].target # Absent => j <= k
  BY <1>1, <1>2, Collected
<1> HIDE DEF C
<1>4. \A l \in DOMAIN C : FromNodes(l, C[l])
  <2>1. SUFFICES ASSUME NEW l \in DOMAIN C
                 PROVE  FromNodes(l, C[l])
    OBVIOUS
  <2>2. PICK k \in DOMAIN TeaterNodes :
          /\ TeaterNodes[k].lemma = l
          /\ C[l] = [target |-> TeaterNodes[k].target, source |-> "teater", id |-> TeaterNodes[k].id]
    BY <1>3
  <2>3. TeaterNodes[k] \in Range(TeaterNodes)
    BY DEF Range
  <2>4. QED
    BY <2>2, <2>3 DEF FromNodes, Joins
<1>5. QED
  BY <1>4 DEF C

\* The entry of the join of the two searches is one node's, if it has an identifier: where
\* the English search answered another node under it, that node has the same label.
LEMMA SearchFits ==
  ASSUME czech \subseteq DOMAIN TeaterNodes, NEW english \in SUBSET DOMAIN TeaterNodes
  PROVE  \A l \in DOMAIN Collect(Joined(english), "teater") :
            FromNodes(l, Collect(Joined(english), "teater")[l])
<1> DEFINE J == Joined(english)
           C == Collect(J, "teater")
<1>1. DOMAIN TeaterNodes = 1..Len(TeaterNodes) /\ Len(TeaterNodes) \in Nat
  BY VocabularyAssumption, LenProperties
<1>2. DOMAIN J = czech /\ DOMAIN J \subseteq 1..Len(TeaterNodes)
  BY <1>1 DEF Joined
<1>3. \A l \in DOMAIN C : \E k \in czech :
          /\ J[k].lemma = l /\ J[k].target # Absent
          /\ C[l] = [target |-> J[k].target, source |-> "teater", id |-> J[k].id]
  <2>1. ASSUME NEW g, DOMAIN g \subseteq 1..Len(TeaterNodes)
        PROVE  \A l \in DOMAIN Collect(g, "teater") : \E k \in DOMAIN g :
                 /\ g[k].lemma = l /\ l # Absent /\ g[k].target # Absent
                 /\ Collect(g, "teater")[l] = [target |-> g[k].target, source |-> "teater", id |-> g[k].id]
                 /\ \A j \in DOMAIN g : g[j].lemma = l /\ g[j].target # Absent => j <= k
    <3> DEFINE n == Len(TeaterNodes)
               G == Collect(g, "teater")
    <3>1. n \in Nat /\ DOMAIN g \subseteq 1..n
      BY <1>1, <2>1
    <3> HIDE DEF n
    <3>2. /\ \A k \in DOMAIN g :
               g[k].lemma # Absent /\ g[k].target # Absent => g[k].lemma \in DOMAIN G
          /\ \A l \in DOMAIN G : \E k \in DOMAIN g :
               /\ g[k].lemma = l /\ l # Absent /\ g[k].target # Absent
               /\ G[l] = [target |-> g[k].target, source |-> "teater", id |-> g[k].id]
               /\ \A j \in DOMAIN g : g[j].lemma = l /\ g[j].target # Absent => j <= k
      <4> HIDE DEF G
      <4>1. QED
        BY <3>1, Collected DEF G
    <3>3. QED
      BY <3>2
  <2> HIDE DEF J
  <2>2. \A l \in DOMAIN C : \E k \in DOMAIN J :
                 /\ J[k].lemma = l /\ l # Absent /\ J[k].target # Absent
                 /\ C[l] = [target |-> J[k].target, source |-> "teater", id |-> J[k].id]
                 /\ \A j \in DOMAIN J : J[j].lemma = l /\ J[j].target # Absent => j <= k
    BY <1>2, <2>1
  <2> HIDE DEF C
  <2>3. QED
    BY <1>2, <2>2
<1>4. ASSUME NEW k \in czech, J[k].target # Absent
      PROVE  /\ J[k].lemma = TeaterNodes[k].lemma /\ J[k].id = TeaterNodes[k].id
             /\ \E j \in DOMAIN TeaterNodes :
                  /\ J[k].target = TeaterNodes[j].target /\ TeaterNodes[j].id = TeaterNodes[k].id
                  /\ TeaterNodes[k].id # Absent => j = k
  <2> DEFINE same == {j \in english : TeaterNodes[j].id = TeaterNodes[k].id}
  <2>1. TeaterNodes[k] \in Concepts
    BY <1>1, VocabularyAssumption, ElementOfSeq
  <2>2. J[k] = [TeaterNodes[k] EXCEPT !.target = EnglishFor(k, english)]
    BY DEF Joined
  <2>3. /\ J[k].lemma = TeaterNodes[k].lemma /\ J[k].id = TeaterNodes[k].id
        /\ J[k].target = EnglishFor(k, english)
    BY <2>1, <2>2 DEF Concepts
  <2>4. same # {}
    BY <1>4, <2>3 DEF EnglishFor
  <2>5. Max(same) \in same
    <3>1. same \subseteq 1..Len(TeaterNodes)
      BY <1>1
    <3> HIDE DEF same
    <3>2. QED
      BY <1>1, <2>4, <3>1, FirstAndLast
  <2>6. EnglishFor(k, english) = TeaterNodes[Max(same)].target
    BY <2>4 DEF EnglishFor
  <2>7. Max(same) \in DOMAIN TeaterNodes /\ TeaterNodes[Max(same)].id = TeaterNodes[k].id
    BY <2>5
  <2> HIDE DEF same
  <2>8. TeaterNodes[k].id # Absent => TeaterNodes[Max(same)].target = TeaterNodes[k].target
    BY <2>7, ThesaurusAssumption DEF IdentifiersName
  <2>9. QED
    BY <2>3, <2>6, <2>7, <2>8
<1> HIDE DEF C, J
<1>5. ASSUME NEW l \in DOMAIN C
      PROVE  FromNodes(l, C[l])
  <2>1. PICK k \in czech :
          /\ J[k].lemma = l /\ J[k].target # Absent
          /\ C[l] = [target |-> J[k].target, source |-> "teater", id |-> J[k].id]
    BY <1>3
  <2>7. PICK j \in DOMAIN TeaterNodes :
          /\ J[k].target = TeaterNodes[j].target /\ TeaterNodes[j].id = TeaterNodes[k].id
          /\ TeaterNodes[k].id # Absent => j = k
    BY <1>4, <2>1
  <2>2. TeaterNodes[k] \in Range(TeaterNodes) /\ TeaterNodes[j] \in Range(TeaterNodes)
    BY DEF Range
  <2> DEFINE e == [target |-> J[k].target, source |-> "teater", id |-> J[k].id]
  <2>6. e.source = "teater" /\ e.target = J[k].target /\ e.id = J[k].id
    OBVIOUS
  <2>3. C[l].source = "teater" /\ C[l].target = J[k].target /\ C[l].id = J[k].id
    <3> HIDE DEF e
    <3> QED
      BY <2>1, <2>6 DEF e
  <2>4. Joins(TeaterNodes[k], TeaterNodes[j], l, C[l])
    BY <1>4, <2>1, <2>3, <2>7 DEF Joins
  <2>5. QED
    BY <2>2, <2>3, <2>4 DEF FromNodes
<1>6. QED
  BY <1>5 DEF C, J

\* Every flat row of a release is a concept of one of its two lists.
FlatRow(r, h) ==
  \/ h[1] = "amcr" /\ h[2] \in Range(r.amcr)
  \/ h[1] = "teater" /\ h[2] \in Range(r.teater)

\* The flat rows are the concepts of the two lists, and nothing else.
LEMMA HarvestedRows ==
  ASSUME NEW r \in Assets
  PROVE  /\ \E n \in Nat : DOMAIN Harvested(r) = 1..n
         /\ \A k \in DOMAIN Harvested(r) : FlatRow(r, Harvested(r)[k])
<1> DEFINE a == [k \in DOMAIN r.amcr |-> <<"amcr", r.amcr[k]>>]
           t == [k \in DOMAIN r.teater |-> <<"teater", r.teater[k]>>]
           Flat == {"amcr", "teater"} \X Concepts
<1>1. /\ r.amcr \in Seq(Concepts) /\ r.teater \in Seq(Concepts)
  BY DEF Assets
<1>2. /\ DOMAIN r.amcr = 1..Len(r.amcr) /\ Len(r.amcr) \in Nat
      /\ DOMAIN r.teater = 1..Len(r.teater) /\ Len(r.teater) \in Nat
  BY <1>1, LenProperties
<1>3. \A k \in DOMAIN r.amcr : r.amcr[k] \in Concepts
  BY <1>1, <1>2, ElementOfSeq
<1>4. \A k \in DOMAIN r.teater : r.teater[k] \in Concepts
  BY <1>1, <1>2, ElementOfSeq
<1>5. a \in Seq(Flat) /\ Len(a) = Len(r.amcr)
  <2>1. a = [k \in 1..Len(r.amcr) |-> <<"amcr", r.amcr[k]>>]
    BY <1>2
  <2>2. \A k \in 1..Len(r.amcr) : <<"amcr", r.amcr[k]>> \in Flat
    BY <1>2, <1>3
  <2>3. a \in [1..Len(r.amcr) -> Flat]
    <3> HIDE DEF Flat
    <3> QED
      BY <2>1, <2>2
  <2> HIDE DEF Flat, a
  <2>4. a \in Seq(Flat)
    BY <1>2, <2>3, SeqDef
  <2>5. QED
    BY <1>2, <2>3, <2>4, LenProperties
<1>6. t \in Seq(Flat) /\ Len(t) = Len(r.teater)
  <2>1. t = [k \in 1..Len(r.teater) |-> <<"teater", r.teater[k]>>]
    BY <1>2
  <2>2. \A k \in 1..Len(r.teater) : <<"teater", r.teater[k]>> \in Flat
    BY <1>2, <1>4
  <2>3. t \in [1..Len(r.teater) -> Flat]
    <3> HIDE DEF Flat
    <3> QED
      BY <2>1, <2>2
  <2> HIDE DEF Flat, t
  <2>4. t \in Seq(Flat)
    BY <1>2, <2>3, SeqDef
  <2>5. QED
    BY <1>2, <2>3, <2>4, LenProperties
<1>7. Harvested(r) = a \o t
  BY DEF Harvested
<1>8. \A k \in DOMAIN r.amcr : a[k][1] = "amcr" /\ a[k][2] = r.amcr[k]
  OBVIOUS
<1>9. \A k \in DOMAIN r.teater : t[k][1] = "teater" /\ t[k][2] = r.teater[k]
  OBVIOUS
<1> HIDE DEF a, t, Flat
<1>10. /\ Harvested(r) \in Seq(Flat) /\ Len(Harvested(r)) = Len(a) + Len(t)
       /\ \A k \in 1..(Len(a) + Len(t)) :
             Harvested(r)[k] = IF k <= Len(a) THEN a[k] ELSE t[k - Len(a)]
  <2>1. /\ a \o t \in Seq(Flat) /\ Len(a \o t) = Len(a) + Len(t)
        /\ \A k \in 1..(Len(a) + Len(t)) :
              (a \o t)[k] = IF k <= Len(a) THEN a[k] ELSE t[k - Len(a)]
    BY <1>5, <1>6, ConcatProperties
  <2>2. QED
    BY <1>7, <2>1
<1>11. DOMAIN Harvested(r) = 1..Len(Harvested(r)) /\ Len(Harvested(r)) \in Nat
  BY <1>10, LenProperties
<1>12. ASSUME NEW k \in DOMAIN Harvested(r)
       PROVE  FlatRow(r, Harvested(r)[k])
  <2>1. PICK i \in Nat, j \in Nat : i = Len(r.amcr) /\ j = Len(r.teater)
    BY <1>2
  <2>2. i = Len(a) /\ j = Len(t) /\ DOMAIN r.amcr = 1..i /\ DOMAIN r.teater = 1..j
    BY <1>2, <1>5, <1>6, <2>1
  <2>3. k \in 1..(i + j)
    BY <1>10, <1>11, <2>2
  <2>4. Harvested(r)[k] = IF k <= i THEN a[k] ELSE t[k - i]
    BY <1>10, <2>2, <2>3
  <2>5. CASE k <= i
    <3>1. k \in DOMAIN r.amcr
      BY <2>2, <2>3, <2>5
    <3>2. Harvested(r)[k] = a[k]
      BY <2>4, <2>5
    <3>3. QED
      BY <1>8, <3>1, <3>2 DEF FlatRow, Range
  <2>6. CASE ~(k <= i)
    <3>1. k - i \in DOMAIN r.teater
      <4>1. k - i \in 1..j
        BY <2>3, <2>6
      <4>2. QED
        BY <2>2, <4>1
    <3>2. Harvested(r)[k] = t[k - i]
      BY <2>4, <2>6
    <3>3. QED
      BY <1>9, <3>1, <3>2 DEF FlatRow, Range
  <2>7. QED
    BY <2>5, <2>6
<1>13. QED
  BY <1>11, <1>12

\* The nested union of a release names a pair first by an identity of the flat rows.
Identified(r, pair) ==
  \E m \in DOMAIN r.nested : \E h \in DOMAIN Harvested(r) :
    /\ r.nested[m].pair = pair /\ \A j \in 1..m - 1 : r.nested[j].pair # r.nested[m].pair
    /\ HasIdentity(Harvested(r)[h], r.nested[m])

\* Then that identity is taken.
LEMMA IdentifiedWins ==
  ASSUME NEW r, NEW pair
  PROVE  Identified(r, pair) => Winner(r, pair) # {}
BY DEF Identified, Winner, FirstNamed

\* A record of a release is one flat row of it, and not an excluded one where
\* the nested union names its pair by an identity of the flat rows.
LEMMA ReleaseFits ==
  ASSUME NEW z \in DOMAIN Releases, NEW l \in DOMAIN FromRelease(Releases[z]),
         FromRelease(Releases[z])[l].source # Absent
  PROVE  LET e == FromRelease(Releases[z])[l] IN
         \E c : /\ FlatRow(Releases[z], <<e.source, c>>) /\ Fits(c, l, e)
                /\ (Identified(Releases[z], <<l, e.target>>) => ~c.excluded)
<1> DEFINE r == Releases[z]
           e == FromRelease(r)[l]
           pair == r.curated[Max({k \in DOMAIN r.curated : r.curated[k][1] = l})]
           from == Provenance(r, pair)
<1>1. r \in Assets /\ UnionNamesRows(r)
  BY VocabularyAssumption, ThesaurusAssumption, LenProperties, ElementOfSeq
<1> HIDE DEF r
<1>2. l \in {r.curated[k][1] : k \in DOMAIN r.curated}
  BY DEF FromRelease, r
<1>3. e = [target |-> pair[2], source |-> from.source, id |-> from.id]
  BY <1>2 DEF FromRelease
<1>4. pair = <<l, pair[2]>>
  <2> DEFINE places == {k \in DOMAIN r.curated : r.curated[k][1] = l}
  <2>1. r.curated \in Seq(STRING \X STRING)
    BY <1>1 DEF Assets
  <2>2. DOMAIN r.curated = 1..Len(r.curated) /\ Len(r.curated) \in Nat
    BY <2>1, LenProperties
  <2>3. Max(places) \in places
    <3>1. places \subseteq 1..Len(r.curated) /\ places # {}
      BY <1>2, <2>2
    <3> HIDE DEF places
    <3>2. QED
      BY <2>2, <3>1, FirstAndLast
  <2>4. pair \in STRING \X STRING /\ pair[1] = l
    BY <2>1, <2>2, <2>3, ElementOfSeq
  <2> HIDE DEF pair
  <2>5. QED
    BY <2>4
<1>5. from.source # Absent
  BY <1>3 DEF r
<1> HIDE DEF pair
<1>6. \E k \in DOMAIN Harvested(r) :
        LET h == Harvested(r)[k] IN
        /\ h[1] = from.source /\ h[2].id = from.id /\ <<h[2].lemma, h[2].target>> = pair
        /\ (Identified(r, pair) => ~h[2].excluded)
  <2>1. CASE Winner(r, pair) # {}
    <3>1. from \in Winner(r, pair)
      BY <2>1 DEF Provenance
    <3>2. PICK n \in DOMAIN r.nested, k \in DOMAIN Harvested(r) :
             n \in FirstNamed(r, pair) /\ from = r.nested[n] /\ HasIdentity(Harvested(r)[k], r.nested[n])
      <4> HIDE DEF from
      <4> QED
        BY <3>1 DEF Winner, FirstNamed
    <3>3. r.nested[n].pair = pair
      BY <3>2 DEF FirstNamed
    <3>4. PICK h \in DOMAIN Harvested(r) :
             /\ HasIdentity(Harvested(r)[h], r.nested[n])
             /\ <<Harvested(r)[h][2].lemma, Harvested(r)[h][2].target>> = pair /\ ~Harvested(r)[h][2].excluded
      BY <1>1, <3>2, <3>3 DEF UnionNamesRows
    <3>5. Harvested(r)[h][1] = from.source /\ Harvested(r)[h][2].id = from.id
      <4> HIDE DEF from
      <4> QED
        BY <3>2, <3>4 DEF HasIdentity
    <3>6. QED
      BY <3>4, <3>5
  <2>2. CASE Winner(r, pair) = {}
    <3> DEFINE hits == {k \in DOMAIN Harvested(r) :
                          <<Harvested(r)[k][2].lemma, Harvested(r)[k][2].target>> = pair}
    <3>1. from = FirstMatch(r, pair)
      BY <2>2 DEF Provenance
    <3>2. hits # {}
      <4>1. hits = {} => FirstMatch(r, pair) = [source |-> Absent, id |-> Absent]
        BY DEF FirstMatch
      <4> HIDE DEF hits, from
      <4>2. QED
        BY <1>5, <3>1, <4>1
    <3>3. Min(hits) \in hits
      <4>1. PICK m \in Nat : DOMAIN Harvested(r) = 1..m
        BY <1>1, HarvestedRows
      <4>2. hits \subseteq 1..m
        BY <4>1
      <4> HIDE DEF hits
      <4>3. QED
        BY <3>2, <4>2, FirstAndLast
    <3>4. from = [source |-> Harvested(r)[Min(hits)][1], id |-> Harvested(r)[Min(hits)][2].id]
      BY <3>1, <3>2 DEF FirstMatch
    <3>5. PICK k \in DOMAIN Harvested(r) :
             k = Min(hits) /\ <<Harvested(r)[k][2].lemma, Harvested(r)[k][2].target>> = pair
      BY <3>3
    <3>6. from.source = Harvested(r)[k][1] /\ from.id = Harvested(r)[k][2].id
      <4> HIDE DEF hits, from
      <4> QED
        BY <3>4, <3>5
    <3>7. ~Identified(r, pair)
      BY <2>2, IdentifiedWins
    <3> HIDE DEF hits, from
    <3>8. QED
      BY <3>5, <3>6, <3>7
  <2>3. QED
    BY <2>1, <2>2
<1>7. PICK k \in DOMAIN Harvested(r) :
        LET h == Harvested(r)[k] IN
        /\ h[1] = from.source /\ h[2].id = from.id /\ <<h[2].lemma, h[2].target>> = pair
        /\ (Identified(r, pair) => ~h[2].excluded)
  BY <1>6
<1> DEFINE c == Harvested(r)[k][2]
<1> HIDE DEF from
<1>8. e.source = from.source /\ e.target = pair[2] /\ e.id = from.id
  <2> HIDE DEF e
  <2> QED
    BY <1>3
<1>9. FlatRow(r, Harvested(r)[k])
  BY <1>1, HarvestedRows
<1> HIDE DEF e
<1>10. FlatRow(r, <<e.source, c>>)
  BY <1>7, <1>8, <1>9 DEF FlatRow
<1>11. c.lemma = l /\ c.target = e.target
  <2>1. <<c.lemma, c.target>> = <<l, e.target>>
    BY <1>4, <1>7, <1>8
  <2>2. QED
    BY <2>1
<1>12. Fits(c, l, e)
  BY <1>7, <1>8, <1>11 DEF Fits
<1>13. Identified(r, <<l, e.target>>) => ~c.excluded
  BY <1>4, <1>7, <1>8
<1>14. QED
  BY <1>10, <1>12, <1>13 DEF r, e

-----------------------------------------------------------------------------
\* The inductive invariant of the rows' provenance.
SourceInv == AmcrInv /\ TeaterInv /\ OriginInv

\* Nothing is harvested before the first run.
LEMMA SourceInit == VocabularyInit => SourceInv
<1>1. SUFFICES ASSUME VocabularyInit PROVE SourceInv
  OBVIOUS
<1>2. Len(AmcrPages) \in Nat
  BY VocabularyAssumption, LenProperties
<1>3. 1 \in DOMAIN Releases
  BY VocabularyAssumption, LenProperties, EmptySeq
<1>4. DOMAIN amcr = {} /\ DOMAIN teater = {} /\ czech = {} /\ page = 0 /\ zip = 1
      /\ pc = "idle" /\ exit = "none"
  BY <1>1 DEF VocabularyInit, Empty
<1>5. AmcrInv
  BY <1>2, <1>4 DEF AmcrInv
<1>6. TeaterInv
  BY <1>4 DEF TeaterInv
<1>7. OriginInv
  BY <1>3, <1>4 DEF OriginInv
<1>8. QED
  BY <1>5, <1>6, <1>7 DEF SourceInv

\* AMCR's part and TEATER's part stay what they are while the harvest does not
\* touch them, and are empty when a run begins.
LEMMA AmcrKept ==
  ASSUME AmcrInv, UNCHANGED <<page, amcr>>
  PROVE  AmcrInv'
<1>1. \A p, k : Overridden(p, k)' = Overridden(p, k)
  BY DEF Overridden
<1>2. AmcrConcepts' = AmcrConcepts
  BY DEF AmcrConcepts
<1>3. QED
  BY <1>1, <1>2 DEF AmcrInv, Fits

\* And TEATER's.
LEMMA TeaterKept ==
  ASSUME TeaterInv, UNCHANGED <<czech, teater>>
  PROVE  TeaterInv'
BY DEF TeaterInv

\* A run begins with empty dictionaries.
LEMMA Begun ==
  ASSUME VocabularyAssumption, page' = 0, czech' = {}, amcr' = Empty, teater' = Empty
  PROVE  AmcrInv' /\ TeaterInv'
<1>1. Len(AmcrPages) \in Nat
  BY LenProperties DEF VocabularyAssumption
<1>2. DOMAIN amcr' = {} /\ DOMAIN teater' = {}
  BY DEF Empty
<1>3. AmcrInv'
  BY <1>1, <1>2 DEF AmcrInv
<1>4. TeaterInv'
  BY <1>2 DEF TeaterInv
<1>5. QED
  BY <1>3, <1>4

\* Every step keeps where the records come from.
LEMMA SourceNext ==
  ASSUME ExitInv, SourceInv, [VocabularyNext]_vocabularyVars
  PROVE  SourceInv'
<1> USE DEF SourceInv
<1>1. ASSUME UNCHANGED <<options, records, amcr, teater, zip, payload, exit, pc>>
      PROVE  OriginInv'
  BY <1>1 DEF OriginInv, Origin
<1>2. CASE UNCHANGED vocabularyVars
  BY <1>1, <1>2, AmcrKept, TeaterKept DEF vocabularyVars, published
<1>3. CASE StartHarvest \/ StartRelease
  <2>1. ASSUME NEW args, NEW first, Begin(args, first), first \in {"asset", "amcr", "introspect"}
        PROVE  SourceInv'
    <3>1. AmcrInv' /\ TeaterInv'
      BY <2>1, Begun, VocabularyAssumption DEF Begin
    <3>2. zip' = zip /\ pc' \in {"asset", "amcr", "introspect"} /\ exit' = "none"
      BY <2>1 DEF Begin, published
    <3>3. QED
      BY <3>1, <3>2 DEF OriginInv
  <2>2. CASE StartHarvest
    <3>1. PICK a, t \in BOOLEAN :
             Begin([mode |-> "harvest", amcr |-> a, teater |-> t, pin |-> 0],
                   IF a THEN "amcr" ELSE "introspect")
      BY <2>2 DEF StartHarvest
    <3> DEFINE args == [mode |-> "harvest", amcr |-> a, teater |-> t, pin |-> 0]
    <3>2. Begin(args, "amcr") \/ Begin(args, "introspect")
      BY <3>1
    <3> HIDE DEF args
    <3>3. QED
      BY <2>1, <3>2
  <2>3. CASE StartRelease
    <3>1. PICK pin \in 0..Len(Releases) :
             Begin([mode |-> "release", amcr |-> FALSE, teater |-> FALSE, pin |-> pin], "asset")
      BY <2>3 DEF StartRelease
    <3> DEFINE args == [mode |-> "release", amcr |-> FALSE, teater |-> FALSE, pin |-> pin]
    <3>2. Begin(args, "asset")
      BY <3>1
    <3> HIDE DEF args
    <3>3. QED
      BY <2>1, <3>2
  <2>4. QED
    BY <1>3, <2>2, <2>3
<1>4. ASSUME UNCHANGED <<exit, zip>>, pc # "idle", pc' \notin {"digest", "verify", "open", "rows"}
      PROVE  OriginInv'
  BY <1>4 DEF OriginInv, ExitInv
<1>5. CASE AmcrPage
  BY <1>4, <1>5, PageRead, TeaterKept DEF AmcrPage, AfterAmcr, published
<1>6. CASE AmcrBreaks
  BY <1>4, <1>6, AmcrKept, TeaterKept DEF AmcrBreaks, AfterAmcr, harvest, published
<1>7. CASE Introspect
  BY <1>4, <1>7, AmcrKept, TeaterKept DEF Introspect, AfterExport, published
<1>8. CASE Export
  <2>1. /\ UNCHANGED <<exit, zip, page, amcr, czech>> /\ pc = "export" /\ pc' \in {"searchCs", "merge"}
        /\ teater' = teater \/ teater' = Collect(TeaterNodes, "teater")
    BY <1>8 DEF Export, AfterExport, published
  <2>2. TeaterInv'
    <3>1. CASE teater' = teater
      BY <2>1, <3>1, TeaterKept
    <3>2. CASE teater' = Collect(TeaterNodes, "teater")
      BY <2>1, <3>2, ExportFits DEF TeaterInv
    <3>3. QED
      BY <2>1, <3>1, <3>2
  <2>3. QED
    BY <1>4, <2>1, <2>2, AmcrKept
<1>9. CASE ExportFails
  BY <1>4, <1>9, AmcrKept, TeaterKept DEF ExportFails, AfterExport, harvest, published
<1>10. CASE SearchCzech
  <2>1. /\ UNCHANGED <<exit, zip, page, amcr, teater>> /\ pc = "searchCs" /\ pc' = "searchEn"
        /\ czech' \subseteq DOMAIN TeaterNodes
    BY <1>10 DEF SearchCzech, published
  <2>2. TeaterInv'
    BY <2>1 DEF TeaterInv
  <2>3. QED
    BY <1>4, <2>1, <2>2, AmcrKept
<1>11. CASE SearchEnglish
  <2>1. PICK english \in SUBSET DOMAIN TeaterNodes : teater' = Collect(Joined(english), "teater")
    BY <1>11 DEF SearchEnglish
  <2>2. UNCHANGED <<exit, zip, page, amcr, czech>> /\ pc = "searchEn" /\ pc' = "merge"
    BY <1>11 DEF SearchEnglish, published
  <2>3. TeaterInv'
    <3>1. czech \subseteq DOMAIN TeaterNodes
      BY DEF TeaterInv
    <3>2. \A l \in DOMAIN teater' :
             FromNodes(l, teater'[l])
      BY <2>1, <3>1, SearchFits
    <3>3. QED
      BY <2>2, <3>1, <3>2 DEF TeaterInv
  <2>4. QED
    BY <1>4, <2>2, <2>3, AmcrKept
<1>12. CASE SearchFails
  BY <1>4, <1>12, AmcrKept, TeaterKept DEF SearchFails, harvest, published
<1>13. CASE Merge
  <2>1. /\ UNCHANGED <<options, zip, payload, page, amcr, czech, teater>> /\ pc = "merge" /\ options.mode = "harvest"
        /\ records' = Merged(amcr, teater) /\ pc' \in {"idle", "open"} /\ exit' \in {exit, "nothing"}
        /\ exit = "none"
    BY <1>13 DEF Merge, Settle, Leave, thisRun, harvest, asset, published, ExitInv
  <2>2. OriginInv'
    BY <2>1 DEF OriginInv, Origin, Merged
  <2>3. QED
    BY <2>1, <2>2, AmcrKept, TeaterKept
<1>14. CASE FetchAsset
  <2>1. /\ UNCHANGED <<exit, zip, page, amcr, czech, teater>> /\ pc = "asset" /\ pc' = "digest"
        /\ payload' = zip
    BY <1>14 DEF FetchAsset, harvest, published
  <2>2. OriginInv'
    BY <2>1 DEF OriginInv, ExitInv
  <2>3. QED
    BY <2>1, <2>2, AmcrKept, TeaterKept
<1>15. CASE FetchDigest
  <2>1. /\ UNCHANGED <<exit, zip, payload, page, amcr, czech, teater>> /\ pc = "digest" /\ pc' = "verify"
    BY <1>15 DEF FetchDigest, harvest, published
  <2>2. OriginInv'
    BY <2>1 DEF OriginInv, ExitInv
  <2>3. QED
    BY <2>1, <2>2, AmcrKept, TeaterKept
<1>16. CASE FetchFails \/ Killed
  <2>1. UNCHANGED <<zip, page, amcr, czech, teater>> /\ pc' = "idle" /\ exit' \in {"refused", "killed"}
    BY <1>16 DEF FetchFails, Killed, Leave, harvest, published
  <2>2. OriginInv'
    BY <2>1 DEF OriginInv
  <2>3. QED
    BY <2>1, <2>2, AmcrKept, TeaterKept
<1>17. CASE Verify
  <2>1. /\ UNCHANGED <<options, zip, payload, page, amcr, czech, teater>> /\ pc = "verify"
        /\ options.mode = "release" /\ exit = "none" /\ payload \in DOMAIN Releases
    BY <1>17 DEF Verify, thisRun, harvest, asset, published, ExitInv, OriginInv
  <2>2. \/ pc' = "idle" /\ exit' \in {"refused", "nothing"}
        \/ pc' = "open" /\ exit' = exit /\ records' = FromRelease(Releases[payload])
    BY <1>17 DEF Verify, Settle, Leave
  <2>3. OriginInv'
    BY <2>1, <2>2 DEF OriginInv, Origin
  <2>4. QED
    BY <2>1, <2>3, AmcrKept, TeaterKept
<1>18. CASE OpenFile \/ WriteRow
  <2>1. /\ UNCHANGED <<options, records, zip, payload, page, amcr, czech, teater, exit>>
        /\ pc \in {"open", "rows"} /\ pc' = "rows"
    BY <1>18 DEF OpenFile, WriteRow, thisRun, harvest, asset, published
  <2>2. OriginInv'
    BY <2>1 DEF OriginInv, Origin
  <2>3. QED
    BY <2>1, <2>2, AmcrKept, TeaterKept
<1>19. CASE CloseFile
  <2>1. /\ UNCHANGED <<options, records, zip, payload, page, amcr, czech, teater>>
        /\ pc = "rows" /\ pc' = "idle"
    BY <1>19 DEF CloseFile, Leave, thisRun, harvest, asset, published
  <2>2. OriginInv'
    BY <2>1 DEF OriginInv, Origin
  <2>3. QED
    BY <2>1, <2>2, AmcrKept, TeaterKept
<1>20. CASE PublishZip \/ PublishSum
  <2>1. UNCHANGED <<options, records, payload, page, amcr, czech, teater, exit, pc>>
    BY <1>20 DEF PublishZip, PublishSum, thisRun, harvest, asset
  <2>2. zip' \in DOMAIN Releases
    <3>1. DOMAIN Releases = 1..Len(Releases) /\ Len(Releases) \in Nat /\ zip \in DOMAIN Releases
      BY VocabularyAssumption, LenProperties DEF OriginInv
    <3>2. QED
      BY <1>20, <3>1 DEF PublishZip, PublishSum
  <2>3. OriginInv'
    BY <2>1, <2>2 DEF OriginInv, Origin
  <2>4. QED
    BY <2>1, <2>3, AmcrKept, TeaterKept
<1>21. QED
  BY <1>2, <1>3, <1>5, <1>6, <1>7, <1>8, <1>9, <1>10, <1>11, <1>12, <1>13, <1>14, <1>15, <1>16,
     <1>17, <1>18, <1>19, <1>20 DEF VocabularyNext

-----------------------------------------------------------------------------
\* A row of a whole file is the record of its lemma.
LEMMA RowOfRecord ==
  ASSUME ExitInv, exit = "done", NEW k \in DOMAIN file.rows
  PROVE  LET line == file.rows[k] IN
         /\ line.lemma \in DOMAIN records /\ line = Row(records, line.lemma)
         /\ line.target = records[line.lemma].target /\ line.source = records[line.lemma].source
         /\ line.id = records[line.lemma].id
<1>1. RowsInv /\ DOMAIN file.rows = 1..Len(file.rows)
  BY LenProperties DEF ExitInv, RowsInv
<1>2. QED
  BY <1>1, RowsAre DEF Row

\* So each row is one concept of its source.
LEMMA RowsFit ==
  ASSUME ExitInv, SourceInv
  PROVE  RowsAreConcepts
<1>1. SUFFICES ASSUME exit = "done", NEW k \in DOMAIN file.rows, file.rows[k].source # Absent
      PROVE  LET line == file.rows[k]
             IN  \E c, d \in Thesaurus(line.source) :
                    /\ c.lemma = line.lemma /\ c.id = line.id
                    /\ d.target = line.target /\ d.id = line.id
                    /\ options.mode = "release" \/ line.source = "amcr" \/ line.id # Absent => c = d
                    /\ options.mode = "release" /\ Identified(Releases[payload], <<line.lemma, line.target>>)
                          => ~c.excluded
  BY DEF RowsAreConcepts, Identified
<1> DEFINE line == file.rows[k]
           l == line.lemma
           e == records[l]
<1>2. l \in DOMAIN records /\ line.target = e.target /\ line.source = e.source /\ line.id = e.id
  BY <1>1, RowOfRecord
<1> HIDE DEF line
<1>3. Origin /\ line.source # Absent
  BY <1>1 DEF SourceInv, OriginInv, line
<1>4. CASE options.mode = "harvest" /\ records = Merged(amcr, teater)
  <2>1. \/ e.source = "amcr" /\ \E c \in AmcrConcepts : Fits(c, l, e)
        \/ FromNodes(l, e)
    <3>1. CASE l \in DOMAIN amcr
      <4>1. e = amcr[l]
        BY <1>4, <3>1, MergedEntries
      <4>2. QED
        BY <3>1, <4>1 DEF SourceInv, AmcrInv
    <3>2. CASE l \notin DOMAIN amcr
      <4>1. l \in DOMAIN teater /\ e = teater[l]
        <5>1. /\ DOMAIN Merged(amcr, teater) = DOMAIN amcr \cup DOMAIN teater
              /\ \A m \in DOMAIN teater \ DOMAIN amcr : Merged(amcr, teater)[m] = teater[m]
          BY MergedEntries
        <5>2. QED
          BY <1>2, <1>4, <3>2, <5>1
      <4>2. QED
        BY <4>1 DEF SourceInv, TeaterInv
    <3>3. QED
      BY <3>1, <3>2
  <2>2. PICK c \in Thesaurus(line.source), d \in Thesaurus(line.source) :
          Joins(c, d, l, e) /\ (e.source = "amcr" => c = d)
    <3>1. CASE e.source = "amcr" /\ \E c \in AmcrConcepts : Fits(c, l, e)
      BY <1>2, <1>4, <3>1 DEF Thesaurus, AmcrConcepts, Fits, Joins
    <3>2. CASE FromNodes(l, e)
      BY <1>2, <1>4, <3>2 DEF Thesaurus, FromNodes
    <3>3. QED
      BY <2>1, <3>1, <3>2
  <2>3. QED
    BY <1>2, <1>4, <2>2 DEF Joins, line
<1>5. CASE options.mode = "release" /\ payload \in DOMAIN Releases /\ records = FromRelease(Releases[payload])
  <2>1. PICK c : /\ FlatRow(Releases[payload], <<e.source, c>>) /\ Fits(c, l, e)
                 /\ (Identified(Releases[payload], <<l, e.target>>) => ~c.excluded)
    BY <1>2, <1>3, <1>5, ReleaseFits
  <2>2. c \in Thesaurus(line.source)
    BY <1>2, <1>5, <2>1 DEF FlatRow, Thesaurus
  <2>3. QED
    BY <1>2, <2>1, <2>2 DEF Fits, line
<1>6. QED
  BY <1>3, <1>4, <1>5 DEF Origin

\* And AMCR's last concept of a lemma has its row.
LEMMA AmcrLeads ==
  ASSUME ExitInv, SourceInv
  PROVE  AmcrFirst
<1>1. SUFFICES ASSUME exit = "done", options.mode = "harvest", NEW p \in 1..page, NEW k \in DOMAIN AmcrPages[p],
                      AmcrPages[p][k].lemma # Absent, AmcrPages[p][k].target # Absent, ~Overridden(p, k)
      PROVE  LET c == AmcrPages[p][k]
             IN  \E r \in DOMAIN file.rows :
                    file.rows[r] = [lemma |-> c.lemma, target |-> c.target,
                                    source |-> "amcr", id |-> c.id]
  BY DEF AmcrFirst, Overridden
<1> DEFINE c == AmcrPages[p][k]
           l == c.lemma
<1>2. l \in DOMAIN amcr /\ amcr[l] = [target |-> c.target, source |-> "amcr", id |-> c.id]
  BY <1>1 DEF SourceInv, AmcrInv
<1>3. records = Merged(amcr, teater)
  BY <1>1 DEF SourceInv, OriginInv, Origin
<1>4. l \in DOMAIN records /\ records[l] = amcr[l]
  <2>1. /\ DOMAIN Merged(amcr, teater) = DOMAIN amcr \cup DOMAIN teater
        /\ \A m \in DOMAIN amcr : Merged(amcr, teater)[m] = amcr[m]
    BY MergedEntries
  <2>2. QED
    BY <1>2, <1>3, <2>1
<1>5. PICK r \in DOMAIN file.rows : file.rows[r].lemma = l
  BY <1>1, <1>4 DEF ExitInv, Unwritten
<1>6. file.rows[r] = Row(records, l)
  BY <1>1, <1>5, RowOfRecord
<1>7. Row(records, l) = [lemma |-> l, target |-> c.target, source |-> "amcr", id |-> c.id]
  BY <1>2, <1>4 DEF Row
<1>8. QED
  BY <1>5, <1>6, <1>7

\* Every row of a file a run completed is one concept of the source it names, but for
\* items of TEATER's searches that have no identifier; it is not an excluded one where
\* the release's union names it by an identity of the flat rows; and AMCR's last concept
\* of a lemma wins it - for all thesauri and releases, every answer
\* of the two searches and every failure on the way.
THEOREM RowsCorrect == VocabularySpec => []RowsAreSound
<1>1. ExitInv /\ SourceInv => RowsAreSound
  BY RowsFit, AmcrLeads DEF RowsAreSound
<1>2. ExitInv /\ SourceInv /\ [VocabularyNext]_vocabularyVars => (ExitInv /\ SourceInv)'
  BY ExitNext, SourceNext
<1>3. VocabularyInit => ExitInv /\ SourceInv
  BY ExitInit, SourceInit
<1>4. QED
  BY <1>1, <1>2, <1>3, PTL DEF VocabularySpec

=============================================================================
