---------------------------- MODULE AltoDocument ----------------------------
(***************************************************************************)
(* One ALTO document through utils.process_alto_xml: the batched block and *)
(* line-anchor requests of every page, the flagging of unusable replies,   *)
(* the end-of-document re-run, the placement of the words on the lines and *)
(* the publication of the XML and of its CSV log.                          *)
(*                                                                         *)
(* The translation backend is the environment: every request may come back *)
(* usable, degenerate, with too few words, or not at all.  A behaviour may *)
(* process the document up to MaxPasses times: again after a failure, or   *)
(* with its own output as input (append mode).                             *)
(*                                                                         *)
(* Text is abstracted to what the control flow tells apart.  Lines are the *)
(* TextLines WITH source text (a line without text is never requested, is  *)
(* never flagged and has no row); a block translation is judged by its     *)
(* word count against the number of those lines; a line anchor is its own  *)
(* line's plausible translation or nothing.  How the words of one block    *)
(* are cut into lines is the subject of module LineAlignment.              *)
(***************************************************************************)
EXTENDS Integers, FiniteSets

CONSTANTS
  Blocks,        \* the TextBlocks that hold text
  Lines,         \* the TextLines with source text
  BlockOf,       \* BlockOf[l]: the block of line l
  PageOf,        \* PageOf[b]: the page of block b
  LangOf,        \* LangOf[b]: the language b was resolved to (its batch group)
  Unsupported,   \* blocks identified as a language the backend cannot translate
  Rules,         \* lines of rules or leaders: no letter or digit in them
  NumPages,      \* pages of the document
  MaxRounds,     \* bound of TRANSLATION_RERUN_ROUNDS
  MaxPasses      \* bound on how often the document is processed

ASSUME DocumentAssumption ==
  /\ IsFiniteSet(Blocks) /\ IsFiniteSet(Lines)
  /\ NumPages \in Nat /\ MaxRounds \in Nat /\ MaxPasses \in Nat \ {0}
  /\ BlockOf \in [Lines -> Blocks]
  /\ \A b \in Blocks : \E l \in Lines : BlockOf[l] = b
  /\ PageOf \in [Blocks -> 1 .. NumPages]
  /\ DOMAIN LangOf = Blocks
  /\ Unsupported \subseteq Blocks
  /\ Rules \subseteq Lines

VARIABLES
  opt,           \* the options of the call and the re-run rounds in force
  pass,          \* which processing of the document this is
  phase,         \* where process_alto_xml is
  page,          \* the page being processed
  groups,        \* language groups of the page not yet translated
  lang,          \* the language group whose anchors are next
  unplaced,      \* blocks of the page not yet placed or flagged
  gathered,      \* document_blocks
  pending,       \* blocks put aside for the end-of-document re-run
  tgt,           \* block_tgt, by its number of words
  blockFailed, blockRerun,
  anchor,        \* line_tgt: "own" if it is usable for its line
  anchorFailed, anchorRerun,
  round,         \* the re-run round
  todoBlocks, todoAnchors,  \* what the round still has to ask for
  status,        \* ld["status"], "none" until the block is placed
  tree,          \* what the line's Strings hold in memory
  file,          \* what they hold in the file last written
  log,           \* the rows of the last CSV log
  counter,       \* BatchFallbackCounter
  notes,         \* lines in the TRANSLATION_RERUN_ROUNDS "skipped" note
  everFlagged    \* history: lines that were flagged at some time in this pass

callVars   == <<opt, pass>>
pageVars   == <<page, groups, lang, unplaced, gathered>>
blockVars  == <<tgt, blockFailed, blockRerun>>
anchorVars == <<anchor, anchorFailed, anchorRerun>>
roundVars  == <<round, todoBlocks, todoAnchors>>
lineVars   == <<status, tree, notes>>
diskVars   == <<file, log>>
vars == <<callVars, phase, pageVars, pending, blockVars, anchorVars,
          roundVars, lineVars, diskVars, counter, everFlagged>>

-----------------------------------------------------------------------------
Langs == {LangOf[b] : b \in Blocks}

Phases == {"gather", "blocks", "anchors", "place", "rerun", "round",
           "settle", "close", "done", "failed"}

\* Word count of a block translation: none, fewer than its lines of text, enough.
Sizes == {"empty", "short", "full"}

Statuses == {"ok", "rerun", "approx_alignment", "untranslated"}

\* A line's Strings: the source, nothing, or the translation of pass 1, 2, ...
Source == 0
Blank  == -1
Held   == {Source, Blank} \cup (1 .. MaxPasses)

\* How a batched call ended: accepted as sent, or (for any of the three reasons
\* the code counts apart) fallen back to one request per item.
Hows == {"batched", "fallback"}

Counters == {"fallbacks",
             "segments_flagged", "segments_recovered", "segments_untranslated",
             "anchors_flagged", "anchors_recovered", "anchors_approximated",
             "blocks_short", "lines_by_own_translation", "lines_untranslated"}

LinesOf(b) == {l \in Lines : BlockOf[l] = b}

\* Anchors are requested for blocks with at least two lines of text.
ManyLines(b) == Cardinality(LinesOf(b)) >= 2

LinesOfAll(S) == {l \in Lines : BlockOf[l] \in S}

(***************************************************************************)
(* degeneration_reason: what the backend may return for a block or for a   *)
(* line and still be accepted.  An empty reply is accepted only for a      *)
(* source without any letter or digit.                                     *)
(***************************************************************************)
Plausible(b) ==
  {"full"} \cup (IF ManyLines(b) THEN {"short"} ELSE {})
           \cup (IF LinesOf(b) \subseteq Rules THEN {"empty"} ELSE {})

PlausibleAnchor(l) == {"own"} \cup (IF l \in Rules THEN {"none"} ELSE {})

(***************************************************************************)
(* _translate_items for the items of S: the outcomes of one batched call   *)
(* and, if its reply is not trusted, of one request per item.  bad is the  *)
(* set of items that are still unusable.                                   *)
(***************************************************************************)
Outcome(how, bad) == how = "batched" => bad = {}

CountItems(c, how, S) ==
  IF S = {} \/ how = "batched" THEN c ELSE [c EXCEPT !["fallbacks"] = @ + 1]

\* BatchFallbackCounter.needs_attention: anything but clean batching happened.
NeedsAttention ==
  \E k \in {"fallbacks", "segments_flagged", "anchors_flagged",
            "anchors_approximated", "blocks_short"} : counter[k] > 0

Flagged(b) == blockFailed[b] \/ \E l \in LinesOf(b) : anchorFailed[l]

\* _block_has_translation: an append pass already put an ALTERNATIVE in b.
HasTranslation(b) == \E l \in LinesOf(b) : tree[l] \in 1 .. MaxPasses

-----------------------------------------------------------------------------
FreshBlock  == [b \in Blocks |-> FALSE]
FreshLine   == [l \in Lines |-> FALSE]

Init ==
  /\ opt \in [line_anchors : BOOLEAN, append : BOOLEAN, rounds : 0 .. MaxRounds]
  /\ pass = 1 /\ phase = "gather"
  /\ page = 1 /\ groups = {} /\ lang = {} /\ unplaced = {} /\ gathered = {}
  /\ pending = {}
  /\ tgt = [b \in Blocks |-> "empty"]
  /\ blockFailed = FreshBlock /\ blockRerun = FreshBlock
  /\ anchor = [l \in Lines |-> "none"]
  /\ anchorFailed = FreshLine /\ anchorRerun = FreshLine
  /\ round = 0 /\ todoBlocks = {} /\ todoAnchors = {}
  /\ status = [l \in Lines |-> "none"]
  /\ tree = [l \in Lines |-> Source]
  /\ file = [l \in Lines |-> Source]
  /\ log = [l \in Lines |-> "none"]
  /\ counter = [k \in Counters |-> 0]
  /\ notes = 0
  /\ everFlagged = {}

-----------------------------------------------------------------------------
\* Fault: append mode does not look for an earlier translation.
SkippedNever(b) == FALSE

\* Phase 1 of the loop over the pages: gather the page's translatable blocks.
Skipped(b) == opt.append /\ HasTranslation(b)

GatherPage ==
  /\ phase = "gather" /\ page <= NumPages
  /\ LET found == {b \in Blocks : PageOf[b] = page /\ ~Skipped(b)}
     IN /\ gathered' = gathered \cup found
        /\ groups' = {LangOf[b] : b \in found}
        /\ unplaced' = found
        /\ IF found = {} THEN phase' = "gather" /\ page' = page + 1
                         ELSE phase' = "blocks" /\ UNCHANGED page
  /\ UNCHANGED <<callVars, lang, pending, blockVars, anchorVars, roundVars,
                 lineVars, diskVars, counter, everFlagged>>

\* Phase 2, pass 1: one batch of the blocks of one language of the page.
Group(g) == {b \in unplaced : LangOf[b] = g}

TranslateBlocks(g) ==
  /\ phase = "blocks" /\ g \in groups
  /\ \E how \in Hows, bad \in SUBSET Group(g), reply \in [Group(g) -> Sizes] :
       /\ Outcome(how, bad)
       /\ \A b \in Group(g) : reply[b] \in IF b \in bad THEN {"empty"} ELSE Plausible(b)
       /\ tgt' = [b \in Blocks |-> IF b \in Group(g) THEN reply[b] ELSE tgt[b]]
       /\ blockFailed' = [b \in Blocks |-> IF b \in Group(g) THEN b \in bad ELSE blockFailed[b]]
       /\ counter' = CountItems(counter, how, Group(g))
       /\ everFlagged' = everFlagged \cup LinesOfAll(bad)
  /\ lang' = {g}
  /\ groups' = groups \ {g}
  /\ phase' = IF opt.line_anchors THEN "anchors" ELSE "blocks"
  /\ UNCHANGED <<callVars, page, unplaced, gathered, pending, blockRerun, anchorVars,
                 roundVars, lineVars, diskVars>>

\* Phase 2, pass 2: one batch of the lines of the group's translated blocks.
Anchored(g) == {l \in Lines : /\ BlockOf[l] \in Group(g)
                              /\ ~blockFailed[BlockOf[l]]
                              /\ ManyLines(BlockOf[l])}

\* The lines of S take the batch's results: line_tgt and anchor_failed.
TakeAnchors(S, how, bad, reply) ==
  /\ Outcome(how, bad)
  /\ \A l \in S : reply[l] \in IF l \in bad THEN {"none"} ELSE PlausibleAnchor(l)
  /\ anchor' = [l \in Lines |-> IF l \in S THEN reply[l] ELSE anchor[l]]
  /\ anchorFailed' = [l \in Lines |-> IF l \in S THEN l \in bad ELSE anchorFailed[l]]
  /\ everFlagged' = everFlagged \cup bad

TranslateAnchors(g) ==
  /\ phase = "anchors" /\ lang = {g}
  /\ \E how \in Hows, bad \in SUBSET Anchored(g), reply \in [Anchored(g) -> {"own", "none"}] :
       /\ TakeAnchors(Anchored(g), how, bad, reply)
       /\ counter' = CountItems(counter, how, Anchored(g))
  /\ phase' = "blocks"
  /\ UNCHANGED <<callVars, pageVars, pending, blockVars, anchorRerun, roundVars,
                 lineVars, diskVars>>

StartPlacing ==
  /\ phase = "blocks" /\ groups = {}
  /\ phase' = "place"
  /\ UNCHANGED <<callVars, pageVars, pending, blockVars, anchorVars, roundVars,
                 lineVars, diskVars, counter, everFlagged>>

-----------------------------------------------------------------------------
(***************************************************************************)
(* _finalize_alto_block.  bare is the set of lines whose bucket is empty   *)
(* after the alignment; which sets are possible is what LineAlignment      *)
(* establishes.                                                            *)
(***************************************************************************)
Starved(b) == ManyLines(b) /\ tgt[b] \in {"empty", "short"}

Bare(b) ==
  IF tgt[b] = "empty" THEN {LinesOf(b)}
  ELSE IF opt.line_anchors \/ ~ManyLines(b) THEN {{}}
  ELSE IF tgt[b] = "short" THEN SUBSET LinesOf(b)
  ELSE (SUBSET LinesOf(b)) \ {LinesOf(b)}

\* A starved block's lines without a translation of their own keep their source.
KeptSource(b) ==
  IF Starved(b) /\ opt.line_anchors THEN {l \in LinesOf(b) : anchor[l] # "own"} ELSE {}

Approximated(b) ==
  IF Starved(b) THEN IF opt.line_anchors THEN {} ELSE LinesOf(b)
  ELSE IF opt.line_anchors /\ ManyLines(b) THEN {l \in LinesOf(b) : anchor[l] # "own"}
  ELSE {}

LineStatus(l, kept, approx) ==
  IF l \in kept THEN "untranslated"
  ELSE IF l \in approx THEN "approx_alignment"
  ELSE IF blockRerun[BlockOf[l]] \/ anchorRerun[l] THEN "rerun"
  ELSE "ok"

\* Fault: a line that keeps its source is written all the same (no `continue`).
PlacedOverKept(l, kept, bare) ==
  IF l \in kept \cup bare THEN IF opt.append THEN Source ELSE Blank ELSE pass

\* In append mode an empty value writes no ALTERNATIVE; in replace mode it
\* overwrites CONTENT.
Placed(l, kept, bare) ==
  IF l \in kept THEN tree[l]
  ELSE IF l \in bare THEN IF opt.append THEN Source ELSE Blank
  ELSE pass

KeepBlock(b) ==
  /\ status' = [l \in Lines |-> IF l \in LinesOf(b) THEN "untranslated" ELSE status[l]]
  /\ notes' = notes + Cardinality(LinesOf(b))
  /\ UNCHANGED <<tree, counter>>

PlaceWords(b) ==
  \E empty \in Bare(b) :
    LET kept   == KeptSource(b)
        bare   == IF Starved(b) /\ opt.line_anchors THEN {} ELSE empty
        approx == Approximated(b) \cup bare
    IN /\ status' = [l \in Lines |-> IF l \in LinesOf(b) THEN LineStatus(l, kept, approx) ELSE status[l]]
       /\ tree' = [l \in Lines |-> IF l \in LinesOf(b) THEN Placed(l, kept, bare) ELSE tree[l]]
       /\ notes' = notes + Cardinality(kept)
       /\ counter' = [counter EXCEPT
            !["anchors_approximated"] = @ + Cardinality(approx),
            !["blocks_short"] = @ + IF Starved(b) THEN 1 ELSE 0,
            !["lines_by_own_translation"] =
               @ + IF Starved(b) /\ opt.line_anchors THEN Cardinality(LinesOf(b) \ kept) ELSE 0,
            !["lines_untranslated"] = @ + Cardinality(kept)]

FinalizeBlock(b) == IF blockFailed[b] THEN KeepBlock(b) ELSE PlaceWords(b)

\* Phase 3: a flagged block waits for the re-run, any other is placed at once.
PlaceBlock(b) ==
  /\ phase = "place" /\ b \in unplaced
  /\ unplaced' = unplaced \ {b}
  /\ IF Flagged(b)
       THEN pending' = pending \cup {b} /\ UNCHANGED <<lineVars, counter>>
       ELSE FinalizeBlock(b) /\ UNCHANGED pending
  /\ UNCHANGED <<callVars, phase, page, groups, lang, gathered, blockVars, anchorVars,
                 roundVars, diskVars, everFlagged>>

NextPage ==
  /\ phase = "place" /\ unplaced = {}
  /\ page' = page + 1
  /\ phase' = "gather"
  /\ UNCHANGED <<callVars, groups, lang, unplaced, gathered, pending, blockVars,
                 anchorVars, roundVars, lineVars, diskVars, counter, everFlagged>>

-----------------------------------------------------------------------------
(***************************************************************************)
(* Phase 4, _rerun_flagged_alto.                                           *)
(***************************************************************************)
FailedBlocks  == {b \in pending : blockFailed[b]}
FailedAnchors == {l \in Lines : /\ BlockOf[l] \in pending
                                /\ ~blockFailed[BlockOf[l]]
                                /\ anchorFailed[l]}

\* Fault: what is pending is never settled when no block failed as a whole.
EndPagesForgetsAnchors ==
  /\ phase = "gather" /\ page > NumPages
  /\ IF FailedBlocks = {}
       THEN phase' = "close" /\ UNCHANGED <<counter, round>>
       ELSE /\ phase' = "rerun"
            /\ round' = 1
            /\ counter' = [counter EXCEPT
                 !["segments_flagged"] = @ + Cardinality(FailedBlocks)]
  /\ UNCHANGED <<callVars, pageVars, pending, blockVars, anchorVars, todoBlocks,
                 todoAnchors, lineVars, diskVars, everFlagged>>

\* The loop over the pages is over: count what was flagged, or go on.
EndPages ==
  /\ phase = "gather" /\ page > NumPages
  /\ IF pending = {}
       THEN phase' = "close" /\ UNCHANGED <<counter, round>>
       ELSE /\ phase' = "rerun"
            /\ round' = 1
            /\ counter' = [counter EXCEPT
                 !["segments_flagged"] = @ + Cardinality(FailedBlocks),
                 !["anchors_flagged"] = @ + Cardinality(FailedAnchors)]
  /\ UNCHANGED <<callVars, pageVars, pending, blockVars, anchorVars, todoBlocks,
                 todoAnchors, lineVars, diskVars, everFlagged>>

\* A round asks for what is flagged when it starts.
NoRoundLeft == round > opt.rounds \/ (FailedBlocks = {} /\ FailedAnchors = {})

StartRound ==
  /\ phase = "rerun" /\ ~NoRoundLeft
  /\ todoBlocks' = FailedBlocks
  /\ todoAnchors' = FailedAnchors
  /\ phase' = "round"
  /\ UNCHANGED <<callVars, pageVars, pending, blockVars, anchorVars, round,
                 lineVars, diskVars, counter, everFlagged>>

\* A block that is still degenerate waits for the next round; a recovered one is
\* given its line anchors (_request_block_anchors), which may fail in turn.
RetryBlock(b) ==
  /\ phase = "round" /\ b \in todoBlocks
  /\ todoBlocks' = todoBlocks \ {b}
  /\ \/ UNCHANGED <<blockVars, anchorVars, counter, everFlagged>>
     \/ \E size \in Plausible(b), how \in Hows, bad \in SUBSET LinesOf(b),
           reply \in [LinesOf(b) -> {"own", "none"}] :
          LET asked == IF opt.line_anchors /\ ManyLines(b) THEN LinesOf(b) ELSE {}
          IN /\ bad \subseteq asked
             /\ tgt' = [tgt EXCEPT ![b] = size]
             /\ blockFailed' = [blockFailed EXCEPT ![b] = FALSE]
             /\ blockRerun' = [blockRerun EXCEPT ![b] = TRUE]
             /\ TakeAnchors(asked, how, bad, reply)
             /\ UNCHANGED anchorRerun
             /\ counter' = CountItems([counter EXCEPT !["segments_recovered"] = @ + 1],
                                      how, asked)
  /\ UNCHANGED <<callVars, phase, pageVars, pending, round, todoAnchors, lineVars, diskVars>>

RetryAnchor(l) ==
  /\ phase = "round" /\ todoBlocks = {} /\ l \in todoAnchors
  /\ todoAnchors' = todoAnchors \ {l}
  /\ \/ UNCHANGED <<anchorVars, counter>>
     \/ \E reply \in PlausibleAnchor(l) :
          /\ anchor' = [anchor EXCEPT ![l] = reply]
          /\ anchorFailed' = [anchorFailed EXCEPT ![l] = FALSE]
          /\ anchorRerun' = [anchorRerun EXCEPT ![l] = TRUE]
          /\ counter' = [counter EXCEPT !["anchors_recovered"] = @ + 1]
  /\ UNCHANGED <<callVars, phase, pageVars, pending, blockVars, round, todoBlocks,
                 lineVars, diskVars, everFlagged>>

\* Fault: the round is not counted, so a segment that never recovers is asked for ever.
EndRoundUncounted ==
  /\ phase = "round" /\ todoBlocks = {} /\ todoAnchors = {}
  /\ phase' = "rerun"
  /\ UNCHANGED <<callVars, pageVars, pending, blockVars, anchorVars, roundVars,
                 lineVars, diskVars, counter, everFlagged>>

EndRound ==
  /\ phase = "round" /\ todoBlocks = {} /\ todoAnchors = {}
  /\ round' = round + 1
  /\ phase' = "rerun"
  /\ UNCHANGED <<callVars, pageVars, pending, blockVars, anchorVars, todoBlocks,
                 todoAnchors, lineVars, diskVars, counter, everFlagged>>

\* Fault: every pending block counts as untranslated.
EndRerunCountsPending ==
  /\ phase = "rerun" /\ NoRoundLeft
  /\ counter' = [counter EXCEPT !["segments_untranslated"] = @ + Cardinality(pending)]
  /\ phase' = "settle"
  /\ UNCHANGED <<callVars, pageVars, pending, blockVars, anchorVars, roundVars,
                 lineVars, diskVars, everFlagged>>

EndRerun ==
  /\ phase = "rerun" /\ NoRoundLeft
  /\ counter' = [counter EXCEPT !["segments_untranslated"] = @ + Cardinality(FailedBlocks)]
  /\ phase' = "settle"
  /\ UNCHANGED <<callVars, pageVars, pending, blockVars, anchorVars, roundVars,
                 lineVars, diskVars, everFlagged>>

\* What was put aside is placed now, whatever became of it.
SettleBlock(b) ==
  /\ phase = "settle" /\ b \in pending
  /\ pending' = pending \ {b}
  /\ FinalizeBlock(b)
  /\ UNCHANGED <<callVars, phase, pageVars, blockVars, anchorVars, roundVars,
                 diskVars, everFlagged>>

EndSettle ==
  /\ phase = "settle" /\ pending = {}
  /\ phase' = "close"
  /\ UNCHANGED <<callVars, pageVars, pending, blockVars, anchorVars, roundVars,
                 lineVars, diskVars, counter, everFlagged>>

-----------------------------------------------------------------------------
\* The CSV row of a line: unsupported_lang outranks all but untranslated.
Row(l) ==
  IF BlockOf[l] \notin gathered THEN "none"
  ELSE IF BlockOf[l] \in Unsupported /\ status[l] # "untranslated" THEN "unsupported_lang"
  ELSE status[l]

\* The log in document order, then the tree, both from the finished document.
WriteOutputs ==
  /\ phase = "close"
  /\ log' = [l \in Lines |-> Row(l)]
  /\ file' = tree
  /\ phase' = "done"
  /\ UNCHANGED <<callVars, pageVars, pending, blockVars, anchorVars, roundVars,
                 lineVars, counter, everFlagged>>

(***************************************************************************)
(* A transport error of a batched call is swallowed and its items asked    *)
(* for one by one; the same error there, in the re-run or in the write     *)
(* leaves process_alto_xml by an exception and nothing is written.         *)
(***************************************************************************)
Fails ==
  /\ phase \in {"blocks", "anchors", "round", "close"}
  /\ phase = "blocks" => groups # {}
  /\ phase = "anchors" => \E g \in lang : Anchored(g) # {}
  /\ phase = "round" => todoBlocks \cup todoAnchors # {}
  /\ phase' = "failed"
  /\ UNCHANGED <<callVars, pageVars, pending, blockVars, anchorVars, roundVars,
                 lineVars, diskVars, counter, everFlagged>>

\* The document is processed again: a fresh call on the file as it now is, with
\* its own flags, counter and limit notes.
ProcessAgain ==
  /\ phase = "failed" \/ (phase = "done" /\ opt.append)
  /\ pass < MaxPasses
  /\ pass' = pass + 1 /\ phase' = "gather"
  /\ page' = 1 /\ groups' = {} /\ lang' = {} /\ unplaced' = {} /\ gathered' = {}
  /\ pending' = {}
  /\ tgt' = [b \in Blocks |-> "empty"]
  /\ blockFailed' = FreshBlock /\ blockRerun' = FreshBlock
  /\ anchor' = [l \in Lines |-> "none"]
  /\ anchorFailed' = FreshLine /\ anchorRerun' = FreshLine
  /\ round' = 0 /\ todoBlocks' = {} /\ todoAnchors' = {}
  /\ status' = [l \in Lines |-> "none"]
  /\ tree' = file
  /\ counter' = [k \in Counters |-> 0]
  /\ notes' = 0
  /\ everFlagged' = {}
  /\ UNCHANGED <<opt, diskVars>>

-----------------------------------------------------------------------------
Step ==
  \/ GatherPage
  \/ \E g \in Langs : TranslateBlocks(g)
  \/ \E g \in Langs : TranslateAnchors(g)
  \/ StartPlacing
  \/ \E b \in Blocks : PlaceBlock(b)
  \/ NextPage
  \/ EndPages
  \/ StartRound
  \/ \E b \in Blocks : RetryBlock(b)
  \/ \E l \in Lines : RetryAnchor(l)
  \/ EndRound
  \/ EndRerun
  \/ \E b \in Blocks : SettleBlock(b)
  \/ EndSettle
  \/ WriteOutputs

Next == Step \/ Fails \/ ProcessAgain

Spec == Init /\ [][Next]_vars

\* Every backend request returns or raises (each has a timeout), so the
\* processing of a document is never left waiting; a failure or another pass
\* is never owed.
FairSpec == Spec /\ WF_vars(Step)
-----------------------------------------------------------------------------
\* Every variable keeps its type.
TypeOK ==
  /\ opt \in [line_anchors : BOOLEAN, append : BOOLEAN, rounds : 0 .. MaxRounds]
  /\ pass \in 1 .. MaxPasses /\ phase \in Phases
  /\ page \in 1 .. NumPages + 1 /\ groups \subseteq Langs /\ lang \subseteq Langs
  /\ unplaced \subseteq Blocks /\ gathered \subseteq Blocks /\ pending \subseteq Blocks
  /\ tgt \in [Blocks -> Sizes]
  /\ blockFailed \in [Blocks -> BOOLEAN] /\ blockRerun \in [Blocks -> BOOLEAN]
  /\ anchor \in [Lines -> {"own", "none"}]
  /\ anchorFailed \in [Lines -> BOOLEAN] /\ anchorRerun \in [Lines -> BOOLEAN]
  /\ round \in Nat /\ todoBlocks \subseteq Blocks /\ todoAnchors \subseteq Lines
  /\ status \in [Lines -> Statuses \cup {"none"}]
  /\ tree \in [Lines -> Held] /\ file \in [Lines -> Held]
  /\ log \in [Lines -> Statuses \cup {"none", "unsupported_lang"}]
  /\ counter \in [Counters -> Nat] /\ notes \in Nat
  /\ everFlagged \subseteq Lines

\* The CSV tells the truth about the XML written with it: a line logged "ok" or
\* "rerun" holds this pass's translation, a line logged "untranslated" holds its
\* source, a line left blank is logged as approximated or as an unsupported
\* language, and every line processed has a row (process_alto_xml's promise that
\* a block "is never blanked and never filled with garbage").
LogTellsTheFile ==
  phase = "done" => \A l \in LinesOfAll(gathered) :
    /\ log[l] \in {"ok", "rerun"} => file[l] = pass
    /\ log[l] = "untranslated" => file[l] = Source
    /\ file[l] = Blank => log[l] \in {"approx_alignment", "unsupported_lang"}
    /\ log[l] # "none"

\* A line whose block or whose anchor came back unusable at any time of the pass,
\* the re-run included, is never logged "ok".
FlaggedNeverOk == phase = "done" => \A l \in everFlagged : log[l] # "ok"

\* The service discards the CSV and reports the limits_applied note instead: its
\* count is the number of rows logged "untranslated"; and the counter's
\* anchors_approximated is the number of lines given the status approx_alignment.
NotesMatchLog ==
  phase = "done" =>
    /\ notes = Cardinality({l \in LinesOfAll(gathered) : log[l] = "untranslated"})
    /\ counter["anchors_approximated"] =
         Cardinality({l \in LinesOfAll(gathered) : status[l] = "approx_alignment"})

\* Every block flagged for the re-run is accounted for once: recovered by it or
\* left untranslated.
SegmentsAccounted ==
  phase = "done" =>
    counter["segments_flagged"] =
      counter["segments_recovered"] + counter["segments_untranslated"]

\* When the summary is logged as routine information and not as a warning, every
\* line really was translated as asked: no other status, nothing blank or kept.
QuietMeansClean ==
  phase = "done" /\ ~NeedsAttention =>
    \A l \in LinesOfAll(gathered) : log[l] \in {"ok", "unsupported_lang"} /\ file[l] = pass

\* What the run tells of a document beside its log - the counters, the summary's level
\* and the note in the record - agrees with the log and with the file.
CountersTellTheFile == SegmentsAccounted /\ NotesMatchLog /\ QuietMeansClean

\* A translation an append pass wrote is never replaced or removed by a later pass
\* over the output, whatever the backend answers then.
AppendKeepsTranslations ==
  [][opt.append => \A l \in Lines : file[l] > 0 => file'[l] = file[l]]_vars

\* Each processing ends, translated or failed: no reply keeps the rounds going.
PassEnds == phase = "gather" ~> phase \in {"done", "failed"}

-----------------------------------------------------------------------------
(***************************************************************************)
(* The processing implements DocumentLedger: the fate of a line is read    *)
(* off what its block has been given.                                      *)
(***************************************************************************)
Fate == [l \in Lines |->
           IF BlockOf[l] \notin gathered THEN "out"
           ELSE IF status[l] = "none" THEN "open"
           ELSE IF tree[l] = Blank THEN "blanked"
           ELSE IF tree[l] = pass THEN "translated"
           ELSE "kept"]

LedgerState == IF phase \in {"done", "failed"} THEN phase ELSE "working"

Ledger == INSTANCE DocumentLedger
            WITH fate <- Fate, published <- file, append <- opt.append, state <- LedgerState

\* The file only ever changes as the abstract specification allows: at once, from
\* a pass that left no line open and left out none without a translation.
ImplementsLedger == Ledger!Spec
=============================================================================
