--------------------------- MODULE SourceLanguage ---------------------------
(***************************************************************************)
(* From which language a document is translated: the check of the pair     *)
(* before anything is read, the policy of a run with --source_lang auto,   *)
(* the language of the document, then that of each block or field, and     *)
(* what is told of a language the backend cannot translate.                *)
(*                                                                         *)
(* The identifier is the environment: for a text it lists its guesses, best*)
(* first, each sure (LANG_ID_MIN_CONFIDENCE) or not, or nothing (no model, *)
(* a text too short).  A guess after one that is not sure is never read.   *)
(***************************************************************************)
EXTENDS Integers, Sequences

CONSTANTS
  Nameable,     \* ISO 639-1 codes: languages that are more than a guess
  Exotic,       \* the identifier's labels without such a code
  NoLang,
  Backends,     \* [pairs, lists]: the model pairs and the languages it lists
  Targets, Defaults, Sources,  \* of the run; a source may be "auto"
  Restrictions, \* LANG_ID_LANGUAGES, {} if it is not set
  MaxGuesses,   \* bound on how many candidates are listed
  MaxSegments   \* bound on the blocks or fields of the document

Langs == Nameable \cup Exotic

ASSUME LanguageAssumption ==
  /\ NoLang \notin Langs /\ "auto" \notin Langs
  /\ \A b \in Backends : b.pairs \subseteq Langs \X Langs /\ b.lists \subseteq Langs
  /\ Targets \cup Defaults \subseteq Nameable /\ Sources \subseteq Nameable \cup {"auto"}
  /\ \A r \in Restrictions : r \subseteq Langs
  /\ MaxGuesses \in Nat /\ MaxSegments \in Nat

VARIABLES
  backend, source, default, target, restrict,  \* of the run
  phase,      \* "start", "document", "segments", "done", "refused", "failed"
  document,   \* the document's language; history: was it surely in the target's
  segment,    \* the segment at hand, with what is known of it
  left,       \* segments still to come
  row,        \* the status in the log row last written
  tally       \* LanguageTally.unsupported

run  == <<backend, source, default, target, restrict>>
vars == <<run, phase, document, segment, left, row, tally>>

Guesses ==
  {g \in UNION {[1 .. n -> [lang : Langs, sure : BOOLEAN]] : n \in 0 .. MaxGuesses} :
     /\ \A i, j \in DOMAIN g : i # j => g[i].lang # g[j].lang
     /\ \A i \in DOMAIN g : i < Len(g) => g[i].sure}

-----------------------------------------------------------------------------
(* The pair and the languages a run may use. *)

\* supported_languages: both sides of every pair, or what the backend lists.
Listed == IF backend.pairs = {} THEN backend.lists
          ELSE {p[1] : p \in backend.pairs} \cup {p[2] : p \in backend.pairs}

\* language_pair_problem; a backend that says nothing refuses nothing.
PairProblem(src) ==
  /\ src # target
  /\ IF backend.pairs # {} THEN <<src, target>> \notin backend.pairs
     ELSE backend.lists # {} /\ ~({src, target} \subseteq backend.lists)

\* Fault: every language in any pair counts as a source.
SourcesOfAnyPair == Listed

\* The sources of the pairs into the target.
SourcesIntoTarget == {p[1] : p \in {q \in backend.pairs : q[2] = target}}

\* allowed_source_languages, {} if nothing is known and nothing restricted.
Translatable ==
  LET langs == IF SourcesIntoTarget # {} THEN SourcesIntoTarget ELSE Listed
  IN  IF langs = {} THEN {} ELSE langs \cup {target}

\* SourceLanguagePolicy.from_env and accepts.
Accepts(l) ==
  \/ l = default
  \/ /\ restrict # {} => l \in restrict
     /\ Translatable # {} => l \in Translatable

-----------------------------------------------------------------------------
(* resolve_source_language. *)

\* The candidates it may take: sure ones the policy accepts.
Usable(g) == {i \in DOMAIN g : g[i].sure /\ Accepts(g[i].lang)}

\* Fault: the least likely of the sure languages is named.
LastMarked(g, seen) == CHOOSE i \in seen : \A j \in seen : i >= j

\* The best of the sure, nameable languages that were passed over.
Marked(g, seen) == CHOOSE i \in seen : \A j \in seen : i <= j

Unsupported(g) ==
  LET seen == {i \in DOMAIN g : g[i].sure /\ g[i].lang \in Nameable}
  IN  IF Usable(g) # {} \/ seen = {} THEN NoLang ELSE g[Marked(g, seen)].lang

Detected(g) == g[CHOOSE i \in Usable(g) : \A j \in Usable(g) : i <= j].lang

Resolve(g, label, context) ==
  IF Usable(g) # {} THEN Detected(g)
  ELSE IF label # NoLang /\ Accepts(label) THEN label
  ELSE IF context # NoLang THEN context
  ELSE default

-----------------------------------------------------------------------------
SureOf(g, l) == \E i \in DOMAIN g : g[i].sure /\ g[i].lang = l

NoSegment == [heard |-> <<>>, label |-> NoLang, lang |-> NoLang, unsupported |-> NoLang]

Init ==
  /\ backend \in Backends /\ target \in Targets /\ default \in Defaults
  /\ source \in Sources /\ restrict \in Restrictions
  /\ phase = "start" /\ document = [lang |-> NoLang, sure |-> FALSE]
  /\ segment = NoSegment /\ left = MaxSegments /\ row = "none" /\ tally = [l \in Langs |-> 0]

\* The language of the check: in auto mode, the one a segment falls back to.
Checked == IF source = "auto" THEN default ELSE source

\* The command and the service refuse a pair before they touch the document.
Start ==
  /\ phase = "start"
  /\ phase' = IF PairProblem(Checked) THEN "refused" ELSE "document"
  /\ UNCHANGED <<run, document, segment, left, row, tally>>

ResolveDocument ==
  /\ phase = "document" /\ phase' = "segments"
  /\ IF source = "auto"
     THEN \E g \in Guesses :
            document' = [lang |-> Resolve(g, NoLang, NoLang), sure |-> SureOf(g, target)]
     ELSE UNCHANGED document
  /\ UNCHANGED <<run, segment, left, row, tally>>

\* LanguageTally.add of a segment's unsupported language, if there is one.
Tallied(lang) == [l \in Langs |-> tally[l] + IF l = lang THEN 1 ELSE 0]

\* resolve_segment: an explicit language is taken as given and nothing is detected.
ResolveSegment ==
  /\ phase = "segments" /\ left > 0 /\ segment = NoSegment
  /\ IF source = "auto"
     THEN \E g \in Guesses, label \in Langs \cup {NoLang} :
            /\ segment' = [heard |-> g, label |-> label, lang |-> Resolve(g, label, document.lang),
                           unsupported |-> Unsupported(g)]
            /\ tally' = Tallied(Unsupported(g))
     ELSE segment' = [NoSegment EXCEPT !.lang = source] /\ UNCHANGED tally
  /\ UNCHANGED <<run, phase, document, left, row>>

\* A LINDAT backend refuses a pair it has no model for: the whole document fails.
NoModel(lang) ==
  lang # target /\ backend.pairs # {} /\ <<lang, target>> \notin backend.pairs

\* What the row says: kept as source, translated from a language the segment is not in,
\* or ok, be it translated or left as it is in the target language.
Translate ==
  /\ phase = "segments" /\ segment # NoSegment
  /\ segment' = NoSegment /\ left' = left - 1
  /\ IF NoModel(segment.lang) THEN phase' = "failed" /\ UNCHANGED row
     ELSE /\ \E kept \in {FALSE} \cup {segment.lang # target} :
               row' = IF kept THEN "untranslated"
                      ELSE IF segment.unsupported # NoLang THEN "unsupported_lang" ELSE "ok"
          /\ UNCHANGED phase
  /\ UNCHANGED <<run, document, tally>>

Finish ==
  /\ phase = "segments" /\ left = 0 /\ phase' = "done"
  /\ UNCHANGED <<run, document, segment, left, row, tally>>

Next == Start \/ ResolveDocument \/ ResolveSegment \/ Translate \/ Finish

Spec == Init /\ [][Next]_vars

-----------------------------------------------------------------------------
(* Properties. *)

\* The variables keep their types.
TypeOK ==
  /\ backend \in Backends /\ source \in Sources /\ default \in Defaults
  /\ target \in Targets /\ restrict \in Restrictions
  /\ phase \in {"start", "document", "segments", "done", "refused", "failed"}
  /\ document \in [lang : Langs \cup {NoLang}, sure : BOOLEAN]
  /\ segment \in [heard : Guesses, label : Langs \cup {NoLang},
                  lang : Langs \cup {NoLang}, unsupported : Langs \cup {NoLang}]
  /\ row \in {"none", "ok", "untranslated", "unsupported_lang"}
  /\ left \in 0 .. MaxSegments /\ tally \in [Langs -> 0 .. MaxSegments]

\* A run that was let in is not refused in the middle of a document, whatever the
\* identifier hears in it and whatever its labels say.  (A run that falls back to its
\* own target language is let in by any backend; only such a run may fail.)
NeverRefusedMidway ==
  phase = "failed" => source = "auto" /\ default = target /\ SourcesIntoTarget = {}

\* A segment is left as it is for a reason: it, its label or its document is in the
\* target language.  That no language could be identified is none.
LeftForAReason ==
  segment # NoSegment /\ segment.lang = target =>
    \/ target \in {source, default} \/ segment.label = target
    \/ SureOf(segment.heard, target) \/ document.sure

\* Every segment of a run that was let in has a language it may be asked in, or is left
\* with a reason.
LanguageIsDecided == NeverRefusedMidway /\ LeftForAReason

\* The segment is surely in a language, and in none the run may translate from.
Owing(g) ==
  /\ \E l \in Nameable : SureOf(g, l)
  /\ \A l \in Langs : SureOf(g, l) => ~Accepts(l)

\* Of two languages the identifier puts l first.
Before(g, l, m) == \E i, j \in DOMAIN g : i < j /\ g[i].lang = l /\ g[j].lang = m

\* A segment in a language that cannot be used is counted, once, under the language
\* the identifier was surest of, and its row says so unless it kept its source; of no
\* other segment is this said.
UnsupportedTold ==
  [][LET g == segment'.heard IN
     /\ segment = NoSegment /\ segment' # NoSegment =>
          IF Owing(g)
          THEN \E l \in Nameable :
                 /\ SureOf(g, l) /\ \A m \in Nameable \ {l} : SureOf(g, m) => Before(g, l, m)
                 /\ tally' = [tally EXCEPT ![l] = @ + 1]
          ELSE tally' = tally
     /\ segment # NoSegment /\ phase' = phase =>
          (row' = "unsupported_lang" <=> Owing(segment.heard) /\ row' # "untranslated")]_vars
=============================================================================
