------------------------- MODULE AltoDocumentProofs -------------------------
(***************************************************************************)
(* Theorems about AltoDocument, for every document, every number of rounds *)
(* and every number of passes.  The two safety properties are not          *)
(* inductive: what a line ends up with is decided when its block is        *)
(* placed, from flags set pages and rounds earlier.  FlowInv says where    *)
(* every block is while the document is processed, FlagInv what a flag     *)
(* leaves behind, TreeInv what the Strings and the file hold meanwhile.    *)
(***************************************************************************)
EXTENDS AltoDocument, FiniteSetTheorems, TLAPS

InPages == phase \in {"gather", "blocks", "anchors", "place"}

\* Every gathered block is waiting on its page, waiting for the re-run, or placed;
\* only the last have a status.  What is done was written as it is.
FlowInv ==
  /\ unplaced \subseteq gathered /\ pending \subseteq gathered
  /\ unplaced \cap pending = {}
  /\ phase \in {"gather", "rerun", "round", "settle", "close", "done"} => unplaced = {}
  /\ phase \in {"close", "done"} => pending = {}
  /\ phase = "round" => todoBlocks \subseteq pending
  /\ phase = "anchors" => opt.line_anchors /\ lang \cap groups = {}
  /\ InPages => \A b \in gathered : PageOf[b] <= page
  /\ phase = "gather" => \A b \in gathered : PageOf[b] < page
  /\ \A l \in Lines :
       IF BlockOf[l] \in gathered
         THEN status[l] = "none" <=> BlockOf[l] \in unplaced \cup pending
         ELSE status[l] = "none"
  /\ phase = "done" => file = tree /\ log = [l \in Lines |-> Row(l)]

\* What keeps a flagged line from being logged "ok": its block is failed or was
\* re-run, its anchor was re-run, or it still has no anchor though its block uses
\* anchors.  The middle conjuncts say that flags are set on untouched segments.
FlagInv ==
  /\ \A l \in everFlagged : BlockOf[l] \in gathered
  /\ phase \in {"blocks", "anchors"} =>
       \A l \in everFlagged : ~(BlockOf[l] \in unplaced /\ LangOf[BlockOf[l]] \in groups)
  /\ phase = "anchors" =>
       \A l \in everFlagged : BlockOf[l] \in unplaced /\ LangOf[BlockOf[l]] \in lang
                                => blockFailed[BlockOf[l]]
  /\ \A l \in everFlagged :
       \/ blockFailed[BlockOf[l]] \/ blockRerun[BlockOf[l]] \/ anchorRerun[l]
       \/ ManyLines(BlockOf[l]) /\ opt.line_anchors /\ anchor[l] = "none"
  /\ \A l \in everFlagged : status[l] # "ok"

\* While a document is processed the file is untouched, and the Strings of a line
\* differ from it only once the line has a status that says so.
TreeInv ==
  /\ \A l \in Lines : status[l] = "none" => tree[l] = file[l]
  /\ phase # "done" => \A l \in Lines : BlockOf[l] \in gathered => file[l] = Source
  /\ opt.append => \A l \in Lines : tree[l] # Blank /\ file[l] # Blank
  /\ ~opt.append /\ phase # "done" => \A l \in Lines : file[l] = Source
  /\ \A l \in Lines :
       /\ status[l] \in {"ok", "rerun"} => tree[l] = pass
       /\ status[l] = "untranslated" => tree[l] = Source
       /\ status[l] = "approx_alignment" =>
            tree[l] \in {pass, IF opt.append THEN Source ELSE Blank}

\* No page is left behind: a block of an earlier page was gathered, or already
\* carries a translation in the file.
Carried(b) == opt.append /\ \E l \in LinesOf(b) : file[l] > 0
PageInv ==
  /\ phase \notin {"failed", "done"} =>
       \A b \in Blocks : PageOf[b] < page => b \in gathered \/ Carried(b)
  /\ phase \in {"blocks", "anchors", "place"} =>
       page <= NumPages /\ \A b \in Blocks : PageOf[b] = page => b \in gathered \/ Carried(b)
  /\ phase \in {"rerun", "round", "settle", "close"} => page > NumPages

-----------------------------------------------------------------------------
(***************************************************************************)
(* Counts.                                                                 *)
(***************************************************************************)
\* Sets of lines and of blocks have a number of elements.
LEMMA LinesCount ==
  ASSUME NEW S, S \subseteq Lines
  PROVE  IsFiniteSet(S) /\ Cardinality(S) \in Nat
  BY DocumentAssumption, FS_Subset, FS_CardinalityType DEF DocumentAssumption

\* The same for blocks.
LEMMA BlocksCount ==
  ASSUME NEW S, S \subseteq Blocks
  PROVE  IsFiniteSet(S) /\ Cardinality(S) \in Nat
  BY DocumentAssumption, FS_Subset, FS_CardinalityType DEF DocumentAssumption

\* A larger sum of the counters is still a count.
LEMMA CountItemsType ==
  ASSUME NEW c \in [Counters -> Nat], NEW how, NEW S
  PROVE  CountItems(c, how, S) \in [Counters -> Nat]
  BY DEF CountItems, Counters

\* A reply the quality check accepts has one of the sizes.
LEMMA PlausibleSizes ==
  ASSUME NEW b \in Blocks
  PROVE  Plausible(b) \subseteq Sizes
  BY DEF Plausible, Sizes

\* An anchor the quality check accepts is usable or none.
LEMMA PlausibleAnchors ==
  ASSUME NEW l \in Lines
  PROVE  PlausibleAnchor(l) \subseteq {"own", "none"}
  BY DEF PlausibleAnchor

\* Placing a block touches only its lines, and keeps the types of what it writes.
LEMMA FinalizeType ==
  ASSUME TypeOK, NEW b \in Blocks, FinalizeBlock(b)
  PROVE  /\ status' \in [Lines -> Statuses \cup {"none"}]
         /\ tree' \in [Lines -> Held]
         /\ counter' \in [Counters -> Nat] /\ notes' \in Nat
<1>1. LinesOf(b) \subseteq Lines
  BY DEF LinesOf
<1>2. CASE blockFailed[b]
  <2>1. KeepBlock(b)
    BY <1>2 DEF FinalizeBlock
  <2>2. QED
    BY <2>1, <1>1, LinesCount DEF KeepBlock, TypeOK, Statuses
<1>3. CASE ~blockFailed[b]
  <2>1. PlaceWords(b)
    BY <1>3 DEF FinalizeBlock
  <2>2. PICK empty \in Bare(b) :
          LET kept   == KeptSource(b)
              bare   == IF Starved(b) /\ opt.line_anchors THEN {} ELSE empty
              approx == Approximated(b) \cup bare
          IN /\ status' = [l \in Lines |-> IF l \in LinesOf(b) THEN LineStatus(l, kept, approx) ELSE status[l]]
             /\ tree' = [l \in Lines |-> IF l \in LinesOf(b) THEN Placed(l, kept, bare) ELSE tree[l]]
             /\ notes' = notes + Cardinality(kept)
             /\ counter' = [counter EXCEPT
                  !["anchors_approximated"] = @ + Cardinality(approx),
                  !["blocks_short"] = @ + IF Starved(b) THEN 1 ELSE 0,
                  !["lines_by_own_translation"] =
                     @ + IF Starved(b) /\ opt.line_anchors THEN Cardinality(LinesOf(b) \ kept) ELSE 0,
                  !["lines_untranslated"] = @ + Cardinality(kept)]
    BY <2>1 DEF PlaceWords
  <2> DEFINE kept   == KeptSource(b)
             bare   == IF Starved(b) /\ opt.line_anchors THEN {} ELSE empty
             approx == Approximated(b) \cup bare
  <2>3. empty \subseteq Lines
    BY <1>1 DEF Bare
  <2>4. /\ Cardinality(kept) \in Nat
        /\ Cardinality(approx) \in Nat
        /\ Cardinality(LinesOf(b) \ kept) \in Nat
    <3>1. kept \subseteq Lines /\ approx \subseteq Lines /\ LinesOf(b) \ kept \subseteq Lines
      BY <1>1, <2>3 DEF KeptSource, Approximated
    <3>2. QED
      BY <3>1, LinesCount
  <2>5. counter' \in [Counters -> Nat] /\ notes' \in Nat
    <3>1. counter \in [Counters -> Nat] /\ notes \in Nat
      BY DEF TypeOK
    <3> HIDE DEF kept, approx, bare
    <3>2. /\ notes' = notes + Cardinality(kept)
          /\ counter' = [counter EXCEPT
                  !["anchors_approximated"] = @ + Cardinality(approx),
                  !["blocks_short"] = @ + IF Starved(b) THEN 1 ELSE 0,
                  !["lines_by_own_translation"] =
                     @ + IF Starved(b) /\ opt.line_anchors THEN Cardinality(LinesOf(b) \ kept) ELSE 0,
                  !["lines_untranslated"] = @ + Cardinality(kept)]
      BY <2>2 DEF kept, approx, bare
    <3> QED
      BY <2>4, <3>1, <3>2 DEF Counters
  <2>6. status' \in [Lines -> Statuses \cup {"none"}]
    BY <2>2 DEF LineStatus, Statuses, TypeOK
  <2>7. tree' \in [Lines -> Held]
    BY <2>2 DEF Placed, Held, TypeOK, Source, Blank
  <2>8. QED
    BY <2>5, <2>6, <2>7
<1>4. QED
  BY <1>2, <1>3

-----------------------------------------------------------------------------
\* The flags of the items of a batch are set and cleared by its outcome.
LEMMA FlagsType ==
  ASSUME NEW D, NEW S, NEW bad, NEW flag \in [D -> BOOLEAN]
  PROVE  [d \in D |-> IF d \in S THEN d \in bad ELSE flag[d]] \in [D -> BOOLEAN]
<1> DEFINE new(d) == IF d \in S THEN d \in bad ELSE flag[d]
<1>1. ASSUME NEW d \in D PROVE new(d) \in BOOLEAN
  <2>1. CASE d \in S
    <3>1. (d \in bad) \in BOOLEAN
      OBVIOUS
    <3>2. QED
      BY <2>1, <3>1, Zenon
  <2>2. CASE d \notin S
    <3>1. flag[d] \in BOOLEAN
      OBVIOUS
    <3>2. QED
      BY <2>2, <3>1, Zenon
  <2>3. QED
    BY <2>1, <2>2
<1> HIDE DEF new
<1>2. [d \in D |-> new(d)] \in [D -> BOOLEAN]
  BY <1>1
<1>3. QED
  BY <1>2, Zenon DEF new

\* What the results of a batch of anchors may change.
LEMMA TakeAnchorsType ==
  ASSUME TypeOK, NEW S \in SUBSET Lines, NEW how, NEW bad \in SUBSET S,
         NEW reply \in [S -> {"own", "none"}], TakeAnchors(S, how, bad, reply)
  PROVE  /\ anchor' \in [Lines -> {"own", "none"}]
         /\ anchorFailed' \in [Lines -> BOOLEAN]
         /\ everFlagged' \subseteq Lines
<1>1. anchorFailed' \in [Lines -> BOOLEAN]
  <2>1. anchorFailed \in [Lines -> BOOLEAN]
    BY DEF TypeOK
  <2>2. anchorFailed' = [l \in Lines |-> IF l \in S THEN l \in bad ELSE anchorFailed[l]]
    BY DEF TakeAnchors
  <2>3. QED
    BY <2>1, <2>2, FlagsType
<1>2. QED
  BY <1>1 DEF TakeAnchors, TypeOK

\* TypeOK is inductive only with the bound of the page loop: the page counter
\* passes the last page only after placing it.
PageBound == phase \in {"blocks", "anchors", "place"} => page <= NumPages
TypeInv == TypeOK /\ PageBound

\* A processing starts with well-typed variables.
LEMMA TypeInit == Init => TypeInv
<1> SUFFICES ASSUME Init PROVE TypeOK /\ PageBound
  BY DEF TypeInv
<1>1. counter \in [Counters -> Nat]
  BY DEF Init
<1>2. QED
  BY <1>1, DocumentAssumption DEF Init, TypeOK, PageBound, DocumentAssumption, Phases, Sizes, Held,
     Source, FreshBlock, FreshLine

\* Every step keeps the types.
LEMMA TypeStep == TypeInv /\ [Next]_vars => TypeInv'
<1> SUFFICES ASSUME TypeOK, PageBound, [Next]_vars PROVE TypeOK' /\ PageBound'
  BY DEF TypeInv
<1> USE DEF callVars, pageVars, blockVars, anchorVars, roundVars, lineVars, diskVars
<1>1. CASE GatherPage
  BY <1>1, DocumentAssumption DEF GatherPage, TypeOK, PageBound, Phases, Langs, DocumentAssumption
<1>2. ASSUME NEW g \in Langs, TranslateBlocks(g) PROVE TypeOK' /\ PageBound'
  <2>1. PICK how \in Hows, bad \in SUBSET Group(g), reply \in [Group(g) -> Sizes] :
          /\ tgt' = [b \in Blocks |-> IF b \in Group(g) THEN reply[b] ELSE tgt[b]]
          /\ blockFailed' = [b \in Blocks |-> IF b \in Group(g) THEN b \in bad ELSE blockFailed[b]]
          /\ counter' = CountItems(counter, how, Group(g))
          /\ everFlagged' = everFlagged \cup LinesOfAll(bad)
    BY <1>2 DEF TranslateBlocks
  <2>2. tgt' \in [Blocks -> Sizes] /\ blockFailed' \in [Blocks -> BOOLEAN]
    <3>1. tgt' \in [Blocks -> Sizes]
      BY <2>1 DEF TypeOK
    <3>2. blockFailed \in [Blocks -> BOOLEAN]
      BY DEF TypeOK
    <3>3. blockFailed' \in [Blocks -> BOOLEAN]
      BY <2>1, <3>2, FlagsType
    <3>4. QED
      BY <3>1, <3>3
  <2>3. counter' \in [Counters -> Nat]
    BY <2>1, CountItemsType DEF TypeOK
  <2>4. everFlagged' \subseteq Lines
    BY <2>1 DEF TypeOK, LinesOfAll
  <2>5. QED
    BY <1>2, <2>2, <2>3, <2>4 DEF TranslateBlocks, TypeOK, PageBound, Phases
<1>3. ASSUME NEW g \in Langs, TranslateAnchors(g) PROVE TypeOK' /\ PageBound'
  <2>1. PICK how \in Hows, bad \in SUBSET Anchored(g), reply \in [Anchored(g) -> {"own", "none"}] :
          /\ TakeAnchors(Anchored(g), how, bad, reply)
          /\ counter' = CountItems(counter, how, Anchored(g))
    BY <1>3 DEF TranslateAnchors
  <2>2. Anchored(g) \subseteq Lines
    BY DEF Anchored
  <2>3. /\ anchor' \in [Lines -> {"own", "none"}]
        /\ anchorFailed' \in [Lines -> BOOLEAN]
        /\ everFlagged' \subseteq Lines
    BY <2>1, <2>2, TakeAnchorsType
  <2>4. counter' \in [Counters -> Nat]
    BY <2>1, CountItemsType DEF TypeOK
  <2>5. QED
    BY <1>3, <2>3, <2>4 DEF TranslateAnchors, TypeOK, PageBound, Phases
<1>4. CASE StartPlacing
  BY <1>4 DEF StartPlacing, TypeOK, PageBound, Phases
<1>5. ASSUME NEW b \in Blocks, PlaceBlock(b) PROVE TypeOK' /\ PageBound'
  <2>1. CASE Flagged(b)
    BY <1>5, <2>1 DEF PlaceBlock, TypeOK, PageBound
  <2>2. CASE ~Flagged(b)
    <3>1. FinalizeBlock(b) /\ UNCHANGED pending
      BY <1>5, <2>2 DEF PlaceBlock
    <3>2. QED
      BY <1>5, <3>1, FinalizeType DEF PlaceBlock, TypeOK, PageBound
  <2>3. QED
    BY <2>1, <2>2
<1>6. CASE NextPage
  <2>1. page' \in 1 .. NumPages + 1
    BY <1>6, DocumentAssumption DEF NextPage, TypeOK, PageBound, DocumentAssumption
  <2>2. QED
    BY <1>6, <2>1 DEF NextPage, TypeOK, PageBound, Phases
<1>7. CASE EndPages
  <2>1. Cardinality(FailedBlocks) \in Nat /\ Cardinality(FailedAnchors) \in Nat
    <3>1. FailedBlocks \subseteq Blocks /\ FailedAnchors \subseteq Lines
      BY DEF FailedBlocks, FailedAnchors, TypeOK
    <3>2. QED
      BY <3>1, LinesCount, BlocksCount
  <2>2. counter' \in [Counters -> Nat]
    BY <1>7, <2>1 DEF EndPages, TypeOK, Counters
  <2>3. QED
    BY <1>7, <2>2 DEF EndPages, TypeOK, PageBound, Phases
<1>8. CASE StartRound
  BY <1>8 DEF StartRound, TypeOK, PageBound, Phases, FailedBlocks, FailedAnchors
<1>9. ASSUME NEW b \in Blocks, RetryBlock(b) PROVE TypeOK' /\ PageBound'
  <2>1. CASE UNCHANGED <<blockVars, anchorVars, counter, everFlagged>>
    BY <1>9, <2>1 DEF RetryBlock, TypeOK, PageBound
  <2>2. CASE ~ UNCHANGED <<blockVars, anchorVars, counter, everFlagged>>
    <3> DEFINE asked == IF opt.line_anchors /\ ManyLines(b) THEN LinesOf(b) ELSE {}
    <3>1. PICK size \in Plausible(b), how \in Hows, bad \in SUBSET LinesOf(b),
               reply \in [LinesOf(b) -> {"own", "none"}] :
            /\ bad \subseteq asked
            /\ tgt' = [tgt EXCEPT ![b] = size]
            /\ blockFailed' = [blockFailed EXCEPT ![b] = FALSE]
            /\ blockRerun' = [blockRerun EXCEPT ![b] = TRUE]
            /\ TakeAnchors(asked, how, bad, reply)
            /\ UNCHANGED anchorRerun
            /\ counter' = CountItems([counter EXCEPT !["segments_recovered"] = @ + 1],
                                     how, asked)
      BY <1>9, <2>2 DEF RetryBlock
    <3>2. asked \subseteq Lines
      BY DEF LinesOf
    <3>3. /\ anchor' \in [Lines -> {"own", "none"}]
          /\ anchorFailed' \in [Lines -> BOOLEAN]
          /\ everFlagged' \subseteq Lines
      <4>1. bad \in SUBSET asked
        BY <3>1
      <4>2. [l \in asked |-> reply[l]] \in [asked -> {"own", "none"}]
        BY <3>2 DEF LinesOf
      <4>3. TakeAnchors(asked, how, bad, [l \in asked |-> reply[l]])
        BY <3>1 DEF TakeAnchors
      <4>4. QED
        BY <3>2, <4>1, <4>2, <4>3, TakeAnchorsType
    <3>4. [counter EXCEPT !["segments_recovered"] = @ + 1] \in [Counters -> Nat]
      BY DEF TypeOK, Counters
    <3>5. counter' \in [Counters -> Nat]
      BY <3>1, <3>4, CountItemsType
    <3>6. tgt' \in [Blocks -> Sizes] /\ blockFailed' \in [Blocks -> BOOLEAN]
          /\ blockRerun' \in [Blocks -> BOOLEAN] /\ anchorRerun' \in [Lines -> BOOLEAN]
      BY <3>1, PlausibleSizes DEF TypeOK
    <3>7. QED
      BY <1>9, <3>3, <3>5, <3>6 DEF RetryBlock, TypeOK, PageBound
  <2>3. QED
    BY <2>1, <2>2
<1>10. ASSUME NEW l \in Lines, RetryAnchor(l) PROVE TypeOK' /\ PageBound'
  <2>1. CASE UNCHANGED <<anchorVars, counter>>
    BY <1>10, <2>1 DEF RetryAnchor, TypeOK, PageBound
  <2>2. CASE ~ UNCHANGED <<anchorVars, counter>>
    <3>1. PICK reply \in PlausibleAnchor(l) :
            /\ anchor' = [anchor EXCEPT ![l] = reply]
            /\ anchorFailed' = [anchorFailed EXCEPT ![l] = FALSE]
            /\ anchorRerun' = [anchorRerun EXCEPT ![l] = TRUE]
            /\ counter' = [counter EXCEPT !["anchors_recovered"] = @ + 1]
      BY <1>10, <2>2 DEF RetryAnchor
    <3>2. /\ anchor' \in [Lines -> {"own", "none"}]
          /\ anchorFailed' \in [Lines -> BOOLEAN] /\ anchorRerun' \in [Lines -> BOOLEAN]
      BY <3>1, PlausibleAnchors DEF TypeOK
    <3>3. counter' \in [Counters -> Nat]
      BY <3>1 DEF TypeOK, Counters
    <3>4. QED
      BY <1>10, <3>2, <3>3 DEF RetryAnchor, TypeOK, PageBound
  <2>3. QED
    BY <2>1, <2>2
<1>11. CASE EndRound
  BY <1>11 DEF EndRound, TypeOK, PageBound, Phases
<1>12. CASE EndRerun
  <2>1. Cardinality(FailedBlocks) \in Nat
    BY BlocksCount DEF FailedBlocks, TypeOK
  <2>2. counter' \in [Counters -> Nat]
    BY <1>12, <2>1 DEF EndRerun, TypeOK, Counters
  <2>3. QED
    BY <1>12, <2>2 DEF EndRerun, TypeOK, PageBound, Phases
<1>13. ASSUME NEW b \in Blocks, SettleBlock(b) PROVE TypeOK' /\ PageBound'
  <2>1. FinalizeBlock(b)
    BY <1>13 DEF SettleBlock
  <2>2. QED
    BY <1>13, <2>1, FinalizeType DEF SettleBlock, TypeOK, PageBound
<1>14. CASE EndSettle
  BY <1>14 DEF EndSettle, TypeOK, PageBound, Phases
<1>15. CASE WriteOutputs
  <2>1. log' \in [Lines -> Statuses \cup {"none", "unsupported_lang"}]
    BY <1>15 DEF WriteOutputs, Row, TypeOK
  <2>2. QED
    BY <1>15, <2>1 DEF WriteOutputs, TypeOK, PageBound, Phases
<1>16. CASE Fails
  BY <1>16 DEF Fails, TypeOK, PageBound, Phases
<1>17. CASE ProcessAgain
  <2>1. counter' \in [Counters -> Nat]
    BY <1>17 DEF ProcessAgain
  <2>2. pass' \in 1 .. MaxPasses /\ page' \in 1 .. NumPages + 1
    BY <1>17, DocumentAssumption DEF ProcessAgain, TypeOK, DocumentAssumption
  <2>3. QED
    BY <1>17, <2>1, <2>2 DEF ProcessAgain, TypeOK, PageBound, Phases, Sizes, FreshBlock, FreshLine
<1>18. CASE UNCHANGED vars
  BY <1>18 DEF vars, TypeOK, PageBound
<1>19. QED
  BY <1>1, <1>2, <1>3, <1>4, <1>5, <1>6, <1>7, <1>8, <1>9, <1>10, <1>11, <1>12, <1>13,
     <1>14, <1>15, <1>16, <1>17, <1>18 DEF Next, Step

\* Every variable keeps its type, for every document, number of rounds and of
\* passes; in particular the page loop never leaves the document.
THEOREM TypeCorrect == Spec => []TypeOK
<1>1. Spec => []TypeInv
  BY TypeInit, TypeStep, PTL DEF Spec
<1>2. TypeInv => TypeOK
  BY DEF TypeInv
<1>3. QED
  BY <1>1, <1>2, PTL

-----------------------------------------------------------------------------
(***************************************************************************)
(* Placing a block: what each status says of the line that is given it.    *)
(***************************************************************************)
Placement(b) ==
  /\ \A l \in Lines \ LinesOf(b) : status'[l] = status[l] /\ tree'[l] = tree[l]
  /\ \A l \in LinesOf(b) :
       /\ status'[l] \in Statuses
       /\ status'[l] \in {"ok", "rerun"} => tree'[l] = pass
       /\ status'[l] = "untranslated" => tree'[l] = tree[l]
       /\ status'[l] = "approx_alignment" =>
            tree'[l] \in {pass, IF opt.append THEN Source ELSE Blank}
       /\ status'[l] = "ok" =>
            /\ ~blockFailed[b] /\ ~blockRerun[b] /\ ~anchorRerun[l]
            /\ ~(ManyLines(b) /\ opt.line_anchors /\ anchor[l] = "none")

\* Finalizing a block places its lines and no others.
LEMMA FinalizePlaces ==
  ASSUME TypeOK, NEW b \in Blocks, FinalizeBlock(b)
  PROVE  Placement(b)
<1>1. LinesOf(b) \subseteq Lines /\ \A l \in LinesOf(b) : BlockOf[l] = b
  BY DEF LinesOf
<1>2. CASE blockFailed[b]
  BY <1>1, <1>2 DEF FinalizeBlock, KeepBlock, Placement, Statuses
<1>3. CASE ~blockFailed[b]
  <2>1. PlaceWords(b)
    BY <1>3 DEF FinalizeBlock
  <2> DEFINE kept      == KeptSource(b)
             bare(e)   == IF Starved(b) /\ opt.line_anchors THEN {} ELSE e
             approx(e) == Approximated(b) \cup bare(e)
  <2>2. PICK empty \in Bare(b) :
          /\ status' = [l \in Lines |-> IF l \in LinesOf(b)
                         THEN LineStatus(l, kept, approx(empty)) ELSE status[l]]
          /\ tree' = [l \in Lines |-> IF l \in LinesOf(b)
                         THEN Placed(l, kept, bare(empty)) ELSE tree[l]]
    BY <2>1 DEF PlaceWords
  <2>3. ASSUME NEW l \in LinesOf(b), anchor[l] = "none", ManyLines(b), opt.line_anchors
        PROVE  l \in kept \cup approx(empty)
    BY <2>3 DEF KeptSource, Approximated
  <2> HIDE DEF kept
  <2>4. ASSUME NEW l \in LinesOf(b)
        PROVE  /\ status'[l] = LineStatus(l, kept, approx(empty))
               /\ tree'[l] = Placed(l, kept, bare(empty))
    BY <1>1, <2>2
  <2>5. QED
    BY <1>1, <1>3, <2>2, <2>3, <2>4 DEF Placement, LineStatus, Placed, Statuses
<1>4. QED
  BY <1>2, <1>3

-----------------------------------------------------------------------------
(***************************************************************************)
(* FlowInv is inductive.                                                   *)
(***************************************************************************)
LEMMA FlowInit == Init => FlowInv
  BY DEF Init, FlowInv, InPages

\* Every step keeps every gathered block in one of its three places.
LEMMA FlowStep == TypeInv /\ FlowInv /\ [Next]_vars => FlowInv'
<1> SUFFICES ASSUME TypeInv, FlowInv, [Next]_vars PROVE FlowInv'
  OBVIOUS
<1> USE DEF callVars, pageVars, blockVars, anchorVars, roundVars, lineVars, diskVars
<1>1. CASE GatherPage
  <2> DEFINE found == {b \in Blocks : PageOf[b] = page /\ ~Skipped(b)}
  <2>1. /\ phase = "gather" /\ gathered' = gathered \cup found /\ unplaced' = found
        /\ IF found = {} THEN phase' = "gather" /\ page' = page + 1
                         ELSE phase' = "blocks" /\ UNCHANGED page
        /\ UNCHANGED <<status, pending>>
    BY <1>1 DEF GatherPage
  <2>2. found \cap gathered = {} /\ found \subseteq Blocks /\ \A b \in found : PageOf[b] = page
    BY <2>1, DocumentAssumption DEF FlowInv, TypeInv, TypeOK, DocumentAssumption
  <2> HIDE DEF found
  <2>3. page \in Int /\ gathered \subseteq Blocks /\ \A b \in Blocks : PageOf[b] \in Int
    BY DocumentAssumption DEF TypeInv, TypeOK, DocumentAssumption
  <2>4. \A l \in Lines :
          IF BlockOf[l] \in gathered'
            THEN status'[l] = "none" <=> BlockOf[l] \in unplaced' \cup pending'
            ELSE status'[l] = "none"
    BY <2>1, <2>2 DEF FlowInv
  <2>5. /\ InPages' => \A b \in gathered' : PageOf[b] <= page'
        /\ phase' = "gather" => (\A b \in gathered' : PageOf[b] < page') /\ unplaced' = {}
    BY <2>1, <2>2, <2>3 DEF FlowInv, InPages
  <2>6. QED
    BY <2>1, <2>2, <2>4, <2>5 DEF FlowInv
<1>2. ASSUME NEW g \in Langs, TranslateBlocks(g) PROVE FlowInv'
  BY <1>2 DEF TranslateBlocks, FlowInv, InPages
<1>3. ASSUME NEW g \in Langs, TranslateAnchors(g) PROVE FlowInv'
  BY <1>3 DEF TranslateAnchors, FlowInv, InPages
<1>4. CASE StartPlacing
  BY <1>4 DEF StartPlacing, FlowInv, InPages
<1>5. ASSUME NEW b \in Blocks, PlaceBlock(b) PROVE FlowInv'
  <2>1. CASE Flagged(b)
    BY <1>5, <2>1 DEF PlaceBlock, FlowInv, InPages
  <2>2. CASE ~Flagged(b)
    <3>1. FinalizeBlock(b) /\ UNCHANGED pending
      BY <1>5, <2>2 DEF PlaceBlock
    <3>2. Placement(b)
      BY <3>1, FinalizePlaces DEF TypeInv
    <3>3. QED
      BY <1>5, <3>1, <3>2 DEF PlaceBlock, FlowInv, InPages, Placement, LinesOf, Statuses
  <2>3. QED
    BY <2>1, <2>2
<1>6. CASE NextPage
  BY <1>6, DocumentAssumption DEF NextPage, FlowInv, InPages, TypeInv, TypeOK, DocumentAssumption
<1>7. CASE EndPages
  BY <1>7 DEF EndPages, FlowInv, InPages
<1>8. CASE StartRound
  BY <1>8 DEF StartRound, FlowInv, InPages, FailedBlocks
<1>9. ASSUME NEW b \in Blocks, RetryBlock(b) PROVE FlowInv'
  <2>1. UNCHANGED <<callVars, phase, pageVars, pending, lineVars, diskVars>>
        /\ todoBlocks' = todoBlocks \ {b} /\ phase = "round"
    BY <1>9 DEF RetryBlock
  <2>2. QED
    BY <2>1 DEF FlowInv, InPages
<1>10. ASSUME NEW l \in Lines, RetryAnchor(l) PROVE FlowInv'
  BY <1>10 DEF RetryAnchor, FlowInv, InPages
<1>11. CASE EndRound
  BY <1>11 DEF EndRound, FlowInv, InPages
<1>12. CASE EndRerun
  BY <1>12 DEF EndRerun, FlowInv, InPages
<1>13. ASSUME NEW b \in Blocks, SettleBlock(b) PROVE FlowInv'
  <2>1. Placement(b)
    BY <1>13, FinalizePlaces DEF SettleBlock, TypeInv
  <2>2. QED
    BY <1>13, <2>1 DEF SettleBlock, FlowInv, InPages, Placement, LinesOf, Statuses
<1>14. CASE EndSettle
  BY <1>14 DEF EndSettle, FlowInv, InPages
<1>15. CASE WriteOutputs
  <2>1. phase' = "done" /\ file' = tree' /\ log' = [l \in Lines |-> Row(l)']
    BY <1>15 DEF WriteOutputs, Row
  <2>2. QED
    BY <1>15, <2>1 DEF WriteOutputs, FlowInv, InPages
<1>16. CASE Fails
  BY <1>16 DEF Fails, FlowInv, InPages
<1>17. CASE ProcessAgain
  <2>1. /\ phase' = "gather" /\ gathered' = {} /\ unplaced' = {} /\ pending' = {}
        /\ \A l \in Lines : status'[l] = "none"
    BY <1>17 DEF ProcessAgain
  <2>2. QED
    BY <2>1 DEF FlowInv
<1>18. CASE UNCHANGED vars
  BY <1>18 DEF vars, FlowInv, InPages, Row
<1>19. QED
  BY <1>1, <1>2, <1>3, <1>4, <1>5, <1>6, <1>7, <1>8, <1>9,
     <1>10, <1>11, <1>12, <1>13, <1>14, <1>15, <1>16, <1>17, <1>18 DEF Next, Step

-----------------------------------------------------------------------------
(***************************************************************************)
(* FlagInv is inductive.                                                   *)
(***************************************************************************)
LEMMA FlagInit == Init => FlagInv
  BY DEF Init, FlagInv

\* Placing a block never gives a flagged line the status "ok".
LEMMA FlaggedNotPlacedOk ==
  ASSUME TypeInv, FlagInv, NEW b \in Blocks, Placement(b)
  PROVE  \A l \in everFlagged : status'[l] # "ok"
<1> SUFFICES ASSUME NEW l \in everFlagged PROVE status'[l] # "ok"
  OBVIOUS
<1>1. l \in Lines
  BY DEF TypeInv, TypeOK
<1>2. CASE l \in LinesOf(b)
  BY <1>2 DEF Placement, FlagInv, LinesOf
<1>3. CASE l \notin LinesOf(b)
  BY <1>1, <1>3 DEF Placement, FlagInv
<1>4. QED
  BY <1>2, <1>3

\* Every step keeps the trace of a flag that was ever set.
LEMMA FlagStep == TypeInv /\ FlowInv /\ FlagInv /\ [Next]_vars => FlagInv'
<1> SUFFICES ASSUME TypeInv, FlowInv, FlagInv, [Next]_vars PROVE FlagInv'
  OBVIOUS
<1> USE DEF callVars, pageVars, blockVars, anchorVars, roundVars, lineVars, diskVars
<1>1. CASE GatherPage
  <2> DEFINE found == {b \in Blocks : PageOf[b] = page /\ ~Skipped(b)}
  <2>1. /\ phase = "gather" /\ gathered' = gathered \cup found /\ unplaced' = found
        /\ phase' \in {"gather", "blocks"}
        /\ UNCHANGED <<status, everFlagged, blockFailed, blockRerun, anchorRerun, anchor, opt>>
    BY <1>1 DEF GatherPage
  <2>2. found \cap gathered = {}
    BY <2>1, DocumentAssumption DEF FlowInv, TypeInv, TypeOK, DocumentAssumption
  <2> HIDE DEF found
  <2>3. QED
    BY <2>1, <2>2 DEF FlagInv
<1>2. ASSUME NEW g \in Langs, TranslateBlocks(g) PROVE FlagInv'
  <2>1. PICK bad \in SUBSET Group(g) :
          /\ blockFailed' = [b \in Blocks |-> IF b \in Group(g) THEN b \in bad ELSE blockFailed[b]]
          /\ everFlagged' = everFlagged \cup LinesOfAll(bad)
    BY <1>2 DEF TranslateBlocks
  <2>2. /\ phase = "blocks" /\ g \in groups /\ lang' = {g} /\ groups' = groups \ {g}
        /\ UNCHANGED <<opt, unplaced, gathered, blockRerun, anchorVars, status>>
    BY <1>2 DEF TranslateBlocks
  <2>3. /\ \A b \in Group(g) : b \in unplaced /\ LangOf[b] = g
        /\ \A b \in unplaced : LangOf[b] = g => b \in Group(g)
        /\ \A l \in LinesOfAll(bad) : l \in Lines /\ BlockOf[l] \in bad /\ BlockOf[l] \in Blocks
        /\ \A l \in everFlagged : l \in Lines /\ BlockOf[l] \in Blocks
    BY DocumentAssumption DEF Group, LinesOfAll, TypeInv, TypeOK, DocumentAssumption
  <2>4. \A l \in everFlagged : BlockOf[l] \notin Group(g)
    BY <2>2, <2>3 DEF FlagInv
  <2>5. \A l \in everFlagged : blockFailed'[BlockOf[l]] = blockFailed[BlockOf[l]]
    BY <2>1, <2>3, <2>4
  <2>6. \A l \in LinesOfAll(bad) : blockFailed'[BlockOf[l]]
    BY <2>1, <2>3
  <2>7. unplaced \subseteq gathered /\ \A l \in LinesOfAll(bad) : status[l] = "none"
    BY <2>1, <2>3 DEF FlowInv
  <2>8. \A l \in everFlagged' :
          \/ blockFailed'[BlockOf[l]] \/ blockRerun'[BlockOf[l]] \/ anchorRerun'[l]
          \/ ManyLines(BlockOf[l]) /\ opt'.line_anchors /\ anchor'[l] = "none"
    BY <2>1, <2>2, <2>5, <2>6 DEF FlagInv
  <2>9. \A l \in everFlagged' : ~(BlockOf[l] \in unplaced' /\ LangOf[BlockOf[l]] \in groups')
    BY <2>1, <2>2, <2>3 DEF FlagInv
  <2>10. \A l \in everFlagged' : BlockOf[l] \in unplaced' /\ LangOf[BlockOf[l]] \in lang'
                                   => blockFailed'[BlockOf[l]]
    BY <2>1, <2>2, <2>3, <2>4, <2>6
  <2>11. \A l \in everFlagged' : BlockOf[l] \in gathered' /\ status'[l] # "ok"
    BY <2>1, <2>2, <2>3, <2>7 DEF FlagInv
  <2>12. QED
    BY <2>8, <2>9, <2>10, <2>11 DEF FlagInv
<1>3. ASSUME NEW g \in Langs, TranslateAnchors(g) PROVE FlagInv'
  <2>1. PICK bad \in SUBSET Anchored(g), reply \in [Anchored(g) -> {"own", "none"}] :
          /\ \A l \in Anchored(g) : reply[l] \in IF l \in bad THEN {"none"} ELSE PlausibleAnchor(l)
          /\ anchor' = [l \in Lines |-> IF l \in Anchored(g) THEN reply[l] ELSE anchor[l]]
          /\ everFlagged' = everFlagged \cup bad
    BY <1>3 DEF TranslateAnchors, TakeAnchors
  <2>2. /\ phase = "anchors" /\ lang = {g} /\ phase' = "blocks"
        /\ UNCHANGED <<opt, groups, unplaced, gathered, blockFailed, blockRerun, anchorRerun, status>>
    BY <1>3 DEF TranslateAnchors
  <2>3. /\ \A l \in Anchored(g) : /\ l \in Lines /\ BlockOf[l] \in unplaced
                                  /\ LangOf[BlockOf[l]] = g /\ ManyLines(BlockOf[l])
                                  /\ ~blockFailed[BlockOf[l]]
        /\ everFlagged \subseteq Lines
    BY DEF Anchored, Group, TypeInv, TypeOK
  <2>4. opt.line_anchors /\ g \notin groups /\ unplaced \subseteq gathered
    BY <2>2 DEF FlowInv
  <2>5. \A l \in everFlagged : l \notin Anchored(g) /\ anchor'[l] = anchor[l]
    BY <2>1, <2>2, <2>3 DEF FlagInv
  <2>6. \A l \in bad : anchor'[l] = "none"
    BY <2>1, <2>3
  <2>7. \A l \in bad : BlockOf[l] \in gathered /\ status[l] = "none"
    BY <2>1, <2>3, <2>4 DEF FlowInv
  <2>8. \A l \in everFlagged' :
          \/ blockFailed'[BlockOf[l]] \/ blockRerun'[BlockOf[l]] \/ anchorRerun'[l]
          \/ ManyLines(BlockOf[l]) /\ opt'.line_anchors /\ anchor'[l] = "none"
    BY <2>1, <2>2, <2>3, <2>4, <2>5, <2>6 DEF FlagInv
  <2>9. \A l \in everFlagged' : ~(BlockOf[l] \in unplaced' /\ LangOf[BlockOf[l]] \in groups')
    BY <2>1, <2>2, <2>3, <2>4 DEF FlagInv
  <2>10. QED
    BY <2>1, <2>2, <2>7, <2>8, <2>9 DEF FlagInv
<1>4. CASE StartPlacing
  BY <1>4 DEF StartPlacing, FlagInv
<1>5. ASSUME NEW b \in Blocks, PlaceBlock(b) PROVE FlagInv'
  <2>1. CASE Flagged(b)
    BY <1>5, <2>1 DEF PlaceBlock, FlagInv
  <2>2. CASE ~Flagged(b)
    <3>1. FinalizeBlock(b)
      BY <1>5, <2>2 DEF PlaceBlock
    <3>2. Placement(b)
      BY <3>1, FinalizePlaces DEF TypeInv
    <3>3. \A l \in everFlagged : status'[l] # "ok"
      BY <3>2, FlaggedNotPlacedOk
    <3>4. QED
      BY <1>5, <3>3 DEF PlaceBlock, FlagInv
  <2>3. QED
    BY <2>1, <2>2
<1>6. CASE NextPage
  BY <1>6 DEF NextPage, FlagInv
<1>7. CASE EndPages
  BY <1>7 DEF EndPages, FlagInv
<1>8. CASE StartRound
  BY <1>8 DEF StartRound, FlagInv
<1>9. ASSUME NEW b \in Blocks, RetryBlock(b) PROVE FlagInv'
  <2>1. CASE UNCHANGED <<blockVars, anchorVars, counter, everFlagged>>
    BY <1>9, <2>1 DEF RetryBlock, FlagInv
  <2>2. CASE ~ UNCHANGED <<blockVars, anchorVars, counter, everFlagged>>
    <3> DEFINE asked == IF opt.line_anchors /\ ManyLines(b) THEN LinesOf(b) ELSE {}
    <3>1. PICK bad \in SUBSET LinesOf(b), reply \in [LinesOf(b) -> {"own", "none"}] :
            /\ blockFailed' = [blockFailed EXCEPT ![b] = FALSE]
            /\ blockRerun' = [blockRerun EXCEPT ![b] = TRUE]
            /\ anchor' = [l \in Lines |-> IF l \in asked THEN reply[l] ELSE anchor[l]]
            /\ everFlagged' = everFlagged \cup bad
            /\ UNCHANGED anchorRerun
      BY <1>9, <2>2 DEF RetryBlock, TakeAnchors
    <3>2. /\ phase = "round" /\ b \in gathered
          /\ \A l \in LinesOf(b) : l \in Lines /\ BlockOf[l] = b /\ status[l] = "none"
          /\ UNCHANGED <<opt, phase, gathered, status>>
      BY <1>9 DEF RetryBlock, FlowInv, LinesOf
    <3>3. asked \subseteq LinesOf(b)
      OBVIOUS
    <3> HIDE DEF asked
    <3>4. everFlagged \subseteq Lines /\ blockRerun \in [Blocks -> BOOLEAN]
      BY DEF TypeInv, TypeOK
    <3>5. \A l \in everFlagged' : BlockOf[l] = b => blockRerun'[BlockOf[l]]
      BY <3>1, <3>2, <3>4
    <3>6. \A l \in everFlagged' : BlockOf[l] # b =>
            /\ l \in everFlagged /\ blockFailed'[BlockOf[l]] = blockFailed[BlockOf[l]]
            /\ blockRerun'[BlockOf[l]] = blockRerun[BlockOf[l]] /\ anchor'[l] = anchor[l]
      BY <3>1, <3>2, <3>4, <3>3
    <3>7. QED
      BY <3>1, <3>2, <3>5, <3>6 DEF FlagInv
  <2>3. QED
    BY <2>1, <2>2
<1>10. ASSUME NEW l \in Lines, RetryAnchor(l) PROVE FlagInv'
  <2>1. CASE UNCHANGED <<anchorVars, counter>>
    BY <1>10, <2>1 DEF RetryAnchor, FlagInv
  <2>2. CASE ~ UNCHANGED <<anchorVars, counter>>
    <3>1. PICK reply :
            /\ anchor' = [anchor EXCEPT ![l] = reply]
            /\ anchorRerun' = [anchorRerun EXCEPT ![l] = TRUE]
      BY <1>10, <2>2 DEF RetryAnchor
    <3>2. /\ phase = "round"
          /\ UNCHANGED <<opt, phase, gathered, status, everFlagged, blockFailed, blockRerun>>
      BY <1>10 DEF RetryAnchor
    <3>3. anchorRerun'[l] /\ \A m \in Lines \ {l} : anchor'[m] = anchor[m] /\ anchorRerun'[m] = anchorRerun[m]
      BY <3>1 DEF TypeInv, TypeOK
    <3>4. everFlagged \subseteq Lines
      BY DEF TypeInv, TypeOK
    <3>5. QED
      BY <3>2, <3>3, <3>4 DEF FlagInv
  <2>3. QED
    BY <2>1, <2>2
<1>11. CASE EndRound
  BY <1>11 DEF EndRound, FlagInv
<1>12. CASE EndRerun
  BY <1>12 DEF EndRerun, FlagInv
<1>13. ASSUME NEW b \in Blocks, SettleBlock(b) PROVE FlagInv'
  <2>1. Placement(b)
    BY <1>13, FinalizePlaces DEF SettleBlock, TypeInv
  <2>2. \A l \in everFlagged : status'[l] # "ok"
    BY <2>1, FlaggedNotPlacedOk
  <2>3. QED
    BY <1>13, <2>2 DEF SettleBlock, FlagInv
<1>14. CASE EndSettle
  BY <1>14 DEF EndSettle, FlagInv
<1>15. CASE WriteOutputs
  BY <1>15 DEF WriteOutputs, FlagInv
<1>16. CASE Fails
  BY <1>16 DEF Fails, FlagInv
<1>17. CASE ProcessAgain
  <2>1. everFlagged' = {}
    BY <1>17 DEF ProcessAgain
  <2>2. QED
    BY <2>1 DEF FlagInv
<1>18. CASE UNCHANGED vars
  BY <1>18 DEF vars, FlagInv
<1>19. QED
  BY <1>1, <1>2, <1>3, <1>4, <1>5, <1>6, <1>7, <1>8, <1>9,
     <1>10, <1>11, <1>12, <1>13, <1>14, <1>15, <1>16, <1>17, <1>18 DEF Next, Step

-----------------------------------------------------------------------------
(***************************************************************************)
(* TreeInv is inductive.                                                   *)
(***************************************************************************)
LEMMA TreeInit == Init => TreeInv
  BY DEF Init, TreeInv, Source, Blank

\* Placing a block that has no status yet writes what its statuses say.
LEMMA PlacementKeepsTree ==
  ASSUME TypeInv, FlowInv, TreeInv, NEW b \in Blocks, Placement(b),
         b \in gathered, b \in unplaced \cup pending, phase # "done",
         UNCHANGED <<opt, pass, phase, gathered, file>>
  PROVE  TreeInv'
<1>1. \A l \in LinesOf(b) : /\ l \in Lines /\ BlockOf[l] = b /\ status[l] = "none"
                            /\ tree[l] = file[l] /\ file[l] = Source
  BY DEF LinesOf, FlowInv, TreeInv
<1>2. pass # Blank /\ Source # Blank
  BY DocumentAssumption DEF TypeInv, TypeOK, Blank, Source, DocumentAssumption
<1>3. ASSUME NEW l \in LinesOf(b)
      PROVE  /\ status'[l] # "none"
             /\ opt.append => tree'[l] # Blank
             /\ status'[l] \in {"ok", "rerun"} => tree'[l] = pass
             /\ status'[l] = "untranslated" => tree'[l] = Source
             /\ status'[l] = "approx_alignment" =>
                  tree'[l] \in {pass, IF opt.append THEN Source ELSE Blank}
  BY <1>1, <1>2 DEF Placement, Statuses
<1>4. \A l \in Lines \ LinesOf(b) : status'[l] = status[l] /\ tree'[l] = tree[l]
  BY DEF Placement
<1>5. QED
  BY <1>3, <1>4 DEF TreeInv

\* Every step keeps the Strings what the statuses say they are.
LEMMA TreeStep == TypeInv /\ FlowInv /\ TreeInv /\ [Next]_vars => TreeInv'
<1> SUFFICES ASSUME TypeInv, FlowInv, TreeInv, [Next]_vars PROVE TreeInv'
  OBVIOUS
<1> USE DEF callVars, pageVars, blockVars, anchorVars, roundVars, lineVars, diskVars
<1>1. CASE GatherPage
  <2> DEFINE found == {b \in Blocks : PageOf[b] = page /\ ~Skipped(b)}
  <2>1. /\ phase = "gather" /\ gathered' = gathered \cup found /\ phase' \in {"gather", "blocks"}
        /\ UNCHANGED <<opt, pass, status, tree, file>>
    BY <1>1 DEF GatherPage
  <2>2. ASSUME NEW l \in Lines, BlockOf[l] \in found PROVE file[l] = Source
    <3>1. CASE BlockOf[l] \in gathered
      BY <2>1, <3>1 DEF TreeInv
    <3>2. CASE ~opt.append
      BY <2>1, <3>2 DEF TreeInv
    <3>3. CASE opt.append /\ BlockOf[l] \notin gathered
      <4>1. tree[l] = file[l]
        BY <3>3 DEF FlowInv, TreeInv
      <4>2. tree[l] \notin 1 .. MaxPasses
        BY <2>2, <3>3 DEF Skipped, HasTranslation, LinesOf
      <4>3. tree[l] \in Held /\ tree[l] # Blank
        BY <3>3 DEF TreeInv, TypeInv, TypeOK
      <4>4. QED
        BY <4>1, <4>2, <4>3 DEF Held
    <3>4. QED
      BY <3>1, <3>2, <3>3
  <2> HIDE DEF found
  <2>3. QED
    BY <2>1, <2>2 DEF TreeInv
<1>2. ASSUME NEW g \in Langs, TranslateBlocks(g) PROVE TreeInv'
  <2>1. phase' # "done" /\ UNCHANGED <<opt, pass, status, tree, file, gathered>> /\ phase # "done"
    BY <1>2 DEF TranslateBlocks
  <2>2. QED
    BY <2>1 DEF TreeInv
<1>3. ASSUME NEW g \in Langs, TranslateAnchors(g) PROVE TreeInv'
  <2>1. phase' # "done" /\ UNCHANGED <<opt, pass, status, tree, file, gathered>> /\ phase # "done"
    BY <1>3 DEF TranslateAnchors
  <2>2. QED
    BY <2>1 DEF TreeInv
<1>4. CASE StartPlacing
  BY <1>4 DEF StartPlacing, TreeInv
<1>5. ASSUME NEW b \in Blocks, PlaceBlock(b) PROVE TreeInv'
  <2>1. CASE Flagged(b)
    BY <1>5, <2>1 DEF PlaceBlock, TreeInv
  <2>2. CASE ~Flagged(b)
    <3>1. /\ FinalizeBlock(b) /\ b \in unplaced /\ phase = "place"
          /\ UNCHANGED <<opt, pass, phase, gathered, file>>
      BY <1>5, <2>2 DEF PlaceBlock
    <3>2. Placement(b)
      BY <3>1, FinalizePlaces DEF TypeInv
    <3>3. QED
      BY <3>1, <3>2, PlacementKeepsTree DEF FlowInv
  <2>3. QED
    BY <2>1, <2>2
<1>6. CASE NextPage
  BY <1>6 DEF NextPage, TreeInv
<1>7. CASE EndPages
  BY <1>7 DEF EndPages, TreeInv
<1>8. CASE StartRound
  BY <1>8 DEF StartRound, TreeInv
<1>9. ASSUME NEW b \in Blocks, RetryBlock(b) PROVE TreeInv'
  <2>1. phase = "round" /\ UNCHANGED <<opt, pass, phase, status, tree, file, gathered>>
    BY <1>9 DEF RetryBlock
  <2>2. QED
    BY <2>1 DEF TreeInv
<1>10. ASSUME NEW l \in Lines, RetryAnchor(l) PROVE TreeInv'
  <2>1. phase = "round" /\ UNCHANGED <<opt, pass, phase, status, tree, file, gathered>>
    BY <1>10 DEF RetryAnchor
  <2>2. QED
    BY <2>1 DEF TreeInv
<1>11. CASE EndRound
  BY <1>11 DEF EndRound, TreeInv
<1>12. CASE EndRerun
  BY <1>12 DEF EndRerun, TreeInv
<1>13. ASSUME NEW b \in Blocks, SettleBlock(b) PROVE TreeInv'
  <2>1. /\ FinalizeBlock(b) /\ b \in pending /\ phase = "settle"
        /\ UNCHANGED <<opt, pass, phase, gathered, file>>
    BY <1>13 DEF SettleBlock
  <2>2. Placement(b)
    BY <2>1, FinalizePlaces DEF TypeInv
  <2>3. QED
    BY <2>1, <2>2, PlacementKeepsTree DEF FlowInv
<1>14. CASE EndSettle
  BY <1>14 DEF EndSettle, TreeInv
<1>15. CASE WriteOutputs
  BY <1>15 DEF WriteOutputs, TreeInv
<1>16. CASE Fails
  BY <1>16 DEF Fails, TreeInv
<1>17. CASE ProcessAgain
  <2>1. /\ phase' = "gather" /\ gathered' = {} /\ tree' = file /\ file' = file /\ opt' = opt
        /\ \A l \in Lines : status'[l] = "none"
        /\ phase = "failed" \/ opt.append
    BY <1>17 DEF ProcessAgain
  <2>2. QED
    BY <2>1 DEF TreeInv
<1>18. CASE UNCHANGED vars
  BY <1>18 DEF vars, TreeInv
<1>19. QED
  BY <1>1, <1>2, <1>3, <1>4, <1>5, <1>6, <1>7, <1>8, <1>9,
     <1>10, <1>11, <1>12, <1>13, <1>14, <1>15, <1>16, <1>17, <1>18 DEF Next, Step

-----------------------------------------------------------------------------
(***************************************************************************)
(* PageInv is inductive.                                                   *)
(***************************************************************************)
LEMMA PageInit == Init => PageInv
  BY DocumentAssumption DEF Init, PageInv, DocumentAssumption

\* Every step leaves the pages behind it gathered or already translated.
LEMMA PageStep == TypeInv /\ FlowInv /\ TreeInv /\ PageInv /\ [Next]_vars => PageInv'
<1> SUFFICES ASSUME TypeInv, FlowInv, TreeInv, PageInv, [Next]_vars PROVE PageInv'
  OBVIOUS
<1> USE DEF callVars, pageVars, blockVars, anchorVars, roundVars, lineVars, diskVars
<1>1. CASE GatherPage
  <2> DEFINE found == {b \in Blocks : PageOf[b] = page /\ ~Skipped(b)}
  <2>1. /\ phase = "gather" /\ page <= NumPages /\ gathered' = gathered \cup found
        /\ IF found = {} THEN phase' = "gather" /\ page' = page + 1
                         ELSE phase' = "blocks" /\ UNCHANGED page
        /\ UNCHANGED <<opt, file>>
    BY <1>1 DEF GatherPage
  <2>2. ASSUME NEW b \in Blocks, PageOf[b] = page PROVE b \in gathered' \/ Carried(b)'
    <3>1. CASE ~Skipped(b)
      BY <2>1, <2>2, <3>1
    <3>2. CASE Skipped(b)
      <4>1. PICK l \in LinesOf(b) : tree[l] \in 1 .. MaxPasses
        BY <3>2 DEF Skipped, HasTranslation
      <4>2. CASE b \in gathered
        BY <2>1, <4>2
      <4>3. CASE b \notin gathered
        <5>1. file[l] = tree[l]
          BY <4>1, <4>3 DEF FlowInv, TreeInv, LinesOf
        <5>2. QED
          BY <2>1, <3>2, <4>1, <5>1 DEF Carried, Skipped
      <4>4. QED
        BY <4>2, <4>3
    <3>3. QED
      BY <3>1, <3>2
  <2>3. ASSUME NEW b \in Blocks, PageOf[b] < page PROVE b \in gathered' \/ Carried(b)'
    BY <2>1, <2>3 DEF PageInv, Carried
  <2>4. page \in Int /\ \A b \in Blocks : PageOf[b] \in Int
    BY DocumentAssumption DEF TypeInv, TypeOK, DocumentAssumption
  <2> HIDE DEF found
  <2>5. CASE found = {}
    <3>1. \A b \in Blocks : PageOf[b] < page' => b \in gathered' \/ Carried(b)'
      BY <2>1, <2>2, <2>3, <2>4, <2>5
    <3>2. QED
      BY <2>1, <2>5, <3>1 DEF PageInv
  <2>6. CASE found # {}
    BY <2>1, <2>2, <2>3, <2>6 DEF PageInv
  <2>7. QED
    BY <2>5, <2>6
<1>2. ASSUME NEW g \in Langs, TranslateBlocks(g) PROVE PageInv'
  <2>1. phase = "blocks" /\ phase' \in {"blocks", "anchors"} /\ UNCHANGED <<opt, page, file, gathered>>
    BY <1>2 DEF TranslateBlocks
  <2>2. QED
    BY <2>1 DEF PageInv, Carried
<1>3. ASSUME NEW g \in Langs, TranslateAnchors(g) PROVE PageInv'
  <2>1. phase = "anchors" /\ phase' = "blocks" /\ UNCHANGED <<opt, page, file, gathered>>
    BY <1>3 DEF TranslateAnchors
  <2>2. QED
    BY <2>1 DEF PageInv, Carried
<1>4. CASE StartPlacing
  BY <1>4 DEF StartPlacing, PageInv, Carried
<1>5. ASSUME NEW b \in Blocks, PlaceBlock(b) PROVE PageInv'
  <2>1. UNCHANGED <<opt, phase, page, file, gathered>>
    BY <1>5 DEF PlaceBlock
  <2>2. QED
    BY <2>1 DEF PageInv, Carried
<1>6. CASE NextPage
  <2>1. /\ phase = "place" /\ phase' = "gather" /\ page' = page + 1
        /\ UNCHANGED <<opt, file, gathered>>
    BY <1>6 DEF NextPage
  <2>2. page \in Int /\ \A b \in Blocks : PageOf[b] \in Int
    BY DocumentAssumption DEF TypeInv, TypeOK, DocumentAssumption
  <2>3. \A b \in Blocks : PageOf[b] < page' => b \in gathered' \/ Carried(b)'
    BY <2>1, <2>2 DEF PageInv, Carried
  <2>4. QED
    BY <2>1, <2>3 DEF PageInv
<1>7. CASE EndPages
  BY <1>7 DEF EndPages, PageInv, Carried
<1>8. CASE StartRound
  BY <1>8 DEF StartRound, PageInv, Carried
<1>9. ASSUME NEW b \in Blocks, RetryBlock(b) PROVE PageInv'
  <2>1. UNCHANGED <<opt, phase, page, file, gathered>>
    BY <1>9 DEF RetryBlock
  <2>2. QED
    BY <2>1 DEF PageInv, Carried
<1>10. ASSUME NEW l \in Lines, RetryAnchor(l) PROVE PageInv'
  <2>1. UNCHANGED <<opt, phase, page, file, gathered>>
    BY <1>10 DEF RetryAnchor
  <2>2. QED
    BY <2>1 DEF PageInv, Carried
<1>11. CASE EndRound
  BY <1>11 DEF EndRound, PageInv, Carried
<1>12. CASE EndRerun
  BY <1>12 DEF EndRerun, PageInv, Carried
<1>13. ASSUME NEW b \in Blocks, SettleBlock(b) PROVE PageInv'
  <2>1. UNCHANGED <<opt, phase, page, file, gathered>>
    BY <1>13 DEF SettleBlock
  <2>2. QED
    BY <2>1 DEF PageInv, Carried
<1>14. CASE EndSettle
  BY <1>14 DEF EndSettle, PageInv, Carried
<1>15. CASE WriteOutputs
  BY <1>15 DEF WriteOutputs, PageInv, Carried
<1>16. CASE Fails
  BY <1>16 DEF Fails, PageInv, Carried
<1>17. CASE ProcessAgain
  <2>1. phase' = "gather" /\ page' = 1
    BY <1>17 DEF ProcessAgain
  <2>2. QED
    BY <2>1, DocumentAssumption DEF PageInv, DocumentAssumption
<1>18. CASE UNCHANGED vars
  BY <1>18 DEF vars, PageInv, Carried
<1>19. QED
  BY <1>1, <1>2, <1>3, <1>4, <1>5, <1>6, <1>7, <1>8, <1>9,
     <1>10, <1>11, <1>12, <1>13, <1>14, <1>15, <1>16, <1>17, <1>18 DEF Next, Step

-----------------------------------------------------------------------------
(***************************************************************************)
(* The theorems.                                                           *)
(***************************************************************************)
IInv == TypeInv /\ FlowInv /\ FlagInv /\ TreeInv /\ PageInv

\* The inductive invariant holds in every reachable state.
THEOREM Invariant == Spec => []IInv
<1>1. Init => IInv
  BY TypeInit, FlowInit, FlagInit, TreeInit, PageInit DEF IInv
<1>2. IInv /\ [Next]_vars => IInv'
  BY TypeStep, FlowStep, FlagStep, TreeStep, PageStep DEF IInv
<1>3. QED
  BY <1>1, <1>2, PTL DEF Spec

\* Whatever a page, a language batch or a re-run round did in between, a line that
\* was once flagged is never logged "ok".
THEOREM FlaggedCorrect == Spec => []FlaggedNeverOk
<1>1. IInv => FlaggedNeverOk
  BY DEF IInv, TypeInv, TypeOK, FlowInv, FlagInv, FlaggedNeverOk, Row
<1>2. QED
  BY <1>1, Invariant, PTL

\* The rows of the CSV say what the Strings of the written XML hold.
THEOREM LogCorrect == Spec => []LogTellsTheFile
<1>1. IInv => LogTellsTheFile
  <2> SUFFICES ASSUME IInv, phase = "done", NEW l \in LinesOfAll(gathered)
               PROVE  /\ log[l] \in {"ok", "rerun"} => file[l] = pass
                      /\ log[l] = "untranslated" => file[l] = Source
                      /\ file[l] = Blank => log[l] \in {"approx_alignment", "unsupported_lang"}
                      /\ log[l] # "none"
    BY DEF LogTellsTheFile
  <2>1. l \in Lines /\ BlockOf[l] \in gathered
    BY DEF LinesOfAll
  <2>2. file[l] = tree[l] /\ log[l] = Row(l) /\ status[l] # "none"
    BY <2>1 DEF IInv, FlowInv
  <2>3. status[l] \in Statuses
    BY <2>1, <2>2 DEF IInv, TypeInv, TypeOK
  <2>4. pass # Blank /\ Source # Blank
    BY DocumentAssumption DEF IInv, TypeInv, TypeOK, Blank, Source, DocumentAssumption
  <2>5. /\ status[l] \in {"ok", "rerun"} => tree[l] = pass
        /\ status[l] = "untranslated" => tree[l] = Source
    BY <2>1 DEF IInv, TreeInv
  <2>6. QED
    BY <2>1, <2>2, <2>3, <2>4, <2>5 DEF Row, Statuses
<1>2. QED
  BY <1>1, Invariant, PTL

\* No later pass over its own output touches what an append pass translated.
THEOREM AppendCorrect == Spec => AppendKeepsTranslations
<1> DEFINE Kept == opt.append => \A l \in Lines : file[l] > 0 => file'[l] = file[l]
<1>1. IInv /\ [Next]_vars => Kept
  <2> SUFFICES ASSUME IInv, [Next]_vars, opt.append, NEW l \in Lines, file[l] > 0
               PROVE  file'[l] = file[l]
    OBVIOUS
  <2>1. CASE WriteOutputs
    <3>1. phase = "close" /\ file' = tree
      BY <2>1 DEF WriteOutputs
    <3>2. file[l] # Source
      BY DEF Source
    <3>3. BlockOf[l] \notin gathered
      BY <3>1, <3>2 DEF IInv, TreeInv
    <3>4. tree[l] = file[l]
      BY <3>3 DEF IInv, FlowInv, TreeInv
    <3>5. QED
      BY <3>1, <3>4
  <2>2. CASE ~WriteOutputs
    <3>1. UNCHANGED file
      BY <2>2 DEF Next, Step, GatherPage, TranslateBlocks, TranslateAnchors, StartPlacing,
         PlaceBlock, NextPage, EndPages, StartRound, RetryBlock, RetryAnchor, EndRound,
         EndRerun, SettleBlock, EndSettle, Fails, ProcessAgain, vars, diskVars
    <3>2. QED
      BY <3>1
  <2>3. QED
    BY <2>1, <2>2
<1>2. QED
  BY <1>1, Invariant, PTL DEF Spec, AppendKeepsTranslations

-----------------------------------------------------------------------------
(***************************************************************************)
(* AltoDocument implements DocumentLedger.                                 *)
(***************************************************************************)
LEMMA LedgerInit == Init => Ledger!Init
  BY DEF Init, Ledger!Init, Fate, LedgerState, Source

\* A step that changes nothing the ledger sees is a stutter.
LEMMA LedgerStutter ==
  ASSUME UNCHANGED <<opt, pass, gathered, status, tree, file>>, LedgerState' = LedgerState
  PROVE  UNCHANGED Ledger!vars
  BY DEF Ledger!vars, Fate

\* Placing a block gives its lines their fate.
LEMMA LedgerPlacement ==
  ASSUME IInv, NEW b \in Blocks, Placement(b), b \in gathered,
         b \in unplaced \cup pending, phase \notin {"done", "failed"},
         IInv', UNCHANGED <<opt, pass, phase, gathered, file>>
  PROVE  Ledger!Next
<1> DEFINE f == [l \in LinesOf(b) |-> Fate'[l]]
<1>1. \A l \in LinesOf(b) : /\ l \in Lines /\ BlockOf[l] = b
                            /\ status[l] = "none" /\ status'[l] # "none"
  BY DEF LinesOf, IInv, FlowInv, Placement, Statuses
<1>2. \A l \in LinesOf(b) : Fate[l] = "open" /\ Fate'[l] \in Ledger!Settled
  BY <1>1 DEF Fate, Ledger!Settled
<1>3. \A l \in Lines \ LinesOf(b) : Fate'[l] = Fate[l]
  BY DEF Fate, Placement
<1>4. opt.append => \A l \in LinesOf(b) : Fate'[l] # "blanked"
  BY <1>1 DEF Fate, IInv, TreeInv
<1>5. Fate' = [l \in Lines |-> IF l \in LinesOf(b) THEN Fate'[l] ELSE Fate[l]]
  BY <1>3 DEF Fate
<1>6. PICK l \in Lines : BlockOf[l] = b
  BY DocumentAssumption DEF DocumentAssumption
<1>7. Ledger!LinesOf(b) = LinesOf(b)
  BY DEF Ledger!LinesOf, LinesOf
<1>8. f \in [Ledger!LinesOf(BlockOf[l]) -> Ledger!Settled]
  BY <1>2, <1>6, <1>7
<1>9. Ledger!Settle(BlockOf[l], f)
  BY <1>2, <1>4, <1>5, <1>6, <1>7 DEF Ledger!Settle, LedgerState
<1>10. QED
  BY <1>6, <1>8, <1>9 DEF Ledger!Next

\* Every step of the processing is a step of the abstract file, or none.
LEMMA LedgerStep == IInv /\ IInv' /\ [Next]_vars => [Ledger!Next]_(Ledger!vars)
<1> SUFFICES ASSUME IInv, IInv', [Next]_vars PROVE [Ledger!Next]_(Ledger!vars)
  OBVIOUS
<1> USE DEF callVars, pageVars, blockVars, anchorVars, roundVars, lineVars, diskVars
<1>1. CASE GatherPage
  <2> DEFINE found == {b \in Blocks : PageOf[b] = page /\ ~Skipped(b)}
             S == LinesOfAll(found)
  <2>1. /\ phase = "gather" /\ gathered' = gathered \cup found
        /\ phase' \in {"gather", "blocks"}
        /\ UNCHANGED <<opt, pass, status, tree, file>>
    BY <1>1 DEF GatherPage
  <2>2. found \cap gathered = {}
    BY <2>1, DocumentAssumption DEF IInv, FlowInv, TypeInv, TypeOK, DocumentAssumption
  <2>3. \A l \in S : l \in Lines /\ BlockOf[l] \in found /\ status[l] = "none"
    BY <2>2 DEF LinesOfAll, IInv, FlowInv
  <2>4. ASSUME NEW l \in S, opt.append, Ledger!Carries(l) PROVE FALSE
    <3>1. PICK m \in Lines : BlockOf[m] = BlockOf[l] /\ file[m] > 0
      BY <2>4 DEF Ledger!Carries
    <3>2. tree[m] = file[m]
      BY <2>2, <2>3, <3>1 DEF IInv, FlowInv, TreeInv
    <3>3. tree[m] \in 1 .. MaxPasses
      BY <3>1, <3>2 DEF IInv, TypeInv, TypeOK, Held, Source, Blank
    <3>4. Skipped(BlockOf[l])
      BY <2>4, <3>1, <3>3 DEF Skipped, HasTranslation, LinesOf
    <3>5. QED
      BY <2>3, <3>4
  <2>5. \A l \in S : Fate[l] = "out" /\ Fate'[l] = "open"
    BY <2>1, <2>2, <2>3 DEF Fate
  <2>6. \A l \in Lines \ S : Fate'[l] = Fate[l]
    BY <2>1 DEF Fate, LinesOfAll
  <2>7. Fate' = [l \in Lines |-> IF l \in S THEN "open" ELSE Fate[l]]
    BY <2>5, <2>6 DEF Fate
  <2>8. S \in SUBSET Lines /\ LedgerState = "working" /\ LedgerState' = "working"
    BY <2>1, <2>3 DEF LedgerState
  <2> HIDE DEF S
  <2>9. Ledger!Open(S)
    BY <2>1, <2>4, <2>5, <2>7, <2>8 DEF Ledger!Open
  <2>10. QED
    BY <2>8, <2>9 DEF Ledger!Next
<1>2. ASSUME NEW g \in Langs, TranslateBlocks(g) PROVE UNCHANGED Ledger!vars
  <2>1. /\ UNCHANGED <<opt, pass, gathered, status, tree, file>>
        /\ phase = "blocks" /\ phase' \in {"blocks", "anchors"}
    BY <1>2 DEF TranslateBlocks
  <2>2. QED
    BY <2>1, LedgerStutter DEF LedgerState
<1>3. ASSUME NEW g \in Langs, TranslateAnchors(g) PROVE UNCHANGED Ledger!vars
  <2>1. /\ UNCHANGED <<opt, pass, gathered, status, tree, file>>
        /\ phase = "anchors" /\ phase' = "blocks"
    BY <1>3 DEF TranslateAnchors
  <2>2. QED
    BY <2>1, LedgerStutter DEF LedgerState
<1>4. CASE StartPlacing
  BY <1>4, LedgerStutter DEF StartPlacing, LedgerState
<1>5. ASSUME NEW b \in Blocks, PlaceBlock(b) PROVE [Ledger!Next]_(Ledger!vars)
  <2>1. CASE Flagged(b)
    BY <1>5, <2>1, LedgerStutter DEF PlaceBlock, LedgerState
  <2>2. CASE ~Flagged(b)
    <3>1. /\ FinalizeBlock(b) /\ b \in unplaced /\ phase = "place"
          /\ UNCHANGED <<opt, pass, phase, gathered, file>>
      BY <1>5, <2>2 DEF PlaceBlock
    <3>2. Placement(b) /\ b \in gathered
      BY <3>1, FinalizePlaces DEF IInv, TypeInv, FlowInv
    <3>3. QED
      BY <3>1, <3>2, LedgerPlacement
  <2>3. QED
    BY <2>1, <2>2
<1>6. CASE NextPage
  BY <1>6, LedgerStutter DEF NextPage, LedgerState
<1>7. CASE EndPages
  BY <1>7, LedgerStutter DEF EndPages, LedgerState
<1>8. CASE StartRound
  BY <1>8, LedgerStutter DEF StartRound, LedgerState
<1>9. ASSUME NEW b \in Blocks, RetryBlock(b) PROVE UNCHANGED Ledger!vars
  <2>1. UNCHANGED <<opt, pass, phase, gathered, status, tree, file>>
    BY <1>9 DEF RetryBlock
  <2>2. QED
    BY <2>1, LedgerStutter DEF LedgerState
<1>10. ASSUME NEW l \in Lines, RetryAnchor(l) PROVE UNCHANGED Ledger!vars
  <2>1. UNCHANGED <<opt, pass, phase, gathered, status, tree, file>>
    BY <1>10 DEF RetryAnchor
  <2>2. QED
    BY <2>1, LedgerStutter DEF LedgerState
<1>11. CASE EndRound
  BY <1>11, LedgerStutter DEF EndRound, LedgerState
<1>12. CASE EndRerun
  BY <1>12, LedgerStutter DEF EndRerun, LedgerState
<1>13. ASSUME NEW b \in Blocks, SettleBlock(b) PROVE Ledger!Next
  <2>1. /\ FinalizeBlock(b) /\ b \in pending /\ phase = "settle"
        /\ UNCHANGED <<opt, pass, phase, gathered, file>>
    BY <1>13 DEF SettleBlock
  <2>2. Placement(b) /\ b \in gathered
    BY <2>1, FinalizePlaces DEF IInv, TypeInv, FlowInv
  <2>3. QED
    BY <2>1, <2>2, LedgerPlacement
<1>14. CASE EndSettle
  BY <1>14, LedgerStutter DEF EndSettle, LedgerState
<1>15. CASE WriteOutputs
  <2>1. /\ phase = "close" /\ phase' = "done" /\ file' = tree
        /\ UNCHANGED <<opt, pass, gathered, status, tree>>
    BY <1>15 DEF WriteOutputs
  <2>2. Fate' = Fate /\ LedgerState = "working" /\ LedgerState' = "done"
    BY <2>1 DEF Fate, LedgerState
  <2>3. ASSUME NEW l \in Lines
        PROVE  Fate[l] # "open" /\ (Fate[l] = "out" => opt.append /\ Ledger!Carries(l))
    <3>1. BlockOf[l] \in Blocks /\ PageOf[BlockOf[l]] < page
      BY <2>1, DocumentAssumption DEF IInv, PageInv, TypeInv, TypeOK, DocumentAssumption
    <3>2. BlockOf[l] \in gathered \/ Carried(BlockOf[l])
      BY <2>1, <3>1 DEF IInv, PageInv
    <3>3. Fate[l] # "open"
      BY <2>1 DEF Fate, IInv, FlowInv
    <3>4. Fate[l] = "out" => opt.append /\ Ledger!Carries(l)
      BY <3>2 DEF Fate, Carried, Ledger!Carries, LinesOf
    <3>5. QED
      BY <3>3, <3>4
  <2>4. ASSUME NEW l \in Lines
        PROVE  tree[l] = CASE Fate[l] = "translated" -> pass
                           [] Fate[l] = "blanked" -> -1
                           [] OTHER -> file[l]
    <3>1. CASE BlockOf[l] \notin gathered
      BY <3>1 DEF Fate, IInv, FlowInv, TreeInv
    <3>2. CASE BlockOf[l] \in gathered
      <4>1. status[l] # "none" /\ file[l] = Source
        BY <2>1, <3>2 DEF IInv, FlowInv, TreeInv
      <4>2. status[l] \in Statuses
        BY <4>1 DEF IInv, TypeInv, TypeOK
      <4>3. tree[l] \in {pass, Source, Blank}
        BY <4>2 DEF IInv, TreeInv, Statuses
      <4>4. QED
        BY <3>2, <4>1, <4>3 DEF Fate, Blank
    <3>3. QED
      BY <3>1, <3>2
  <2>5. tree = [l \in Lines |-> tree[l]]
    BY DEF IInv, TypeInv, TypeOK
  <2>6. file' = [l \in Lines |-> CASE Fate[l] = "translated" -> pass
                                   [] Fate[l] = "blanked" -> -1
                                   [] OTHER -> file[l]]
    BY <2>1, <2>4, <2>5
  <2>7. Ledger!Publish
    BY <2>1, <2>2, <2>3, <2>6 DEF Ledger!Publish
  <2>8. QED
    BY <2>7 DEF Ledger!Next
<1>16. CASE Fails
  <2>1. /\ LedgerState = "working" /\ LedgerState' = "failed"
        /\ UNCHANGED <<Fate, file, opt, pass>>
    BY <1>16 DEF Fails, LedgerState, Fate
  <2>2. QED
    BY <2>1 DEF Ledger!Abandon, Ledger!Next
<1>17. CASE ProcessAgain
  <2>1. /\ LedgerState = "failed" \/ (LedgerState = "done" /\ opt.append)
        /\ LedgerState' = "working" /\ pass < MaxPasses /\ pass' = pass + 1
        /\ UNCHANGED <<file, opt>>
    BY <1>17 DEF ProcessAgain, LedgerState
  <2>2. Fate' = [l \in Lines |-> "out"]
    BY <1>17 DEF ProcessAgain, Fate
  <2>3. QED
    BY <2>1, <2>2 DEF Ledger!Again, Ledger!Next
<1>18. CASE UNCHANGED vars
  BY <1>18, LedgerStutter DEF vars, LedgerState
<1>19. QED
  BY <1>1, <1>2, <1>3, <1>4, <1>5, <1>6, <1>7, <1>8, <1>9, <1>10,
     <1>11, <1>12, <1>13, <1>14, <1>15, <1>16, <1>17, <1>18 DEF Next, Step

\* Batches, anchors, flags and re-runs are invisible outside: the file changes
\* only at once, from a processing that gave every line of every page its fate.
THEOREM LedgerImplemented == Spec => ImplementsLedger
<1>1. Init => Ledger!Init
  BY LedgerInit
<1>2. IInv /\ IInv' /\ [Next]_vars => [Ledger!Next]_(Ledger!vars)
  BY LedgerStep
<1>3. QED
  BY <1>1, <1>2, Invariant, PTL DEF Spec, ImplementsLedger, Ledger!Spec

-----------------------------------------------------------------------------
(***************************************************************************)
(* The counters.  SegInv follows the blocks flagged for the re-run through *)
(* its rounds, NotesInv counts the lines given the two statuses that are   *)
(* counted, QuietInv says what has been counted when a line is in doubt.   *)
(***************************************************************************)
SegInv ==
  /\ InPages => /\ counter["segments_flagged"] = 0 /\ counter["segments_recovered"] = 0
                /\ counter["segments_untranslated"] = 0
  /\ phase \in {"rerun", "round"} =>
       /\ counter["segments_flagged"] = counter["segments_recovered"] + Cardinality(FailedBlocks)
       /\ counter["segments_untranslated"] = 0
  /\ phase = "round" => todoBlocks \subseteq FailedBlocks
  /\ phase \in {"settle", "close", "done"} =>
       counter["segments_flagged"] = counter["segments_recovered"] + counter["segments_untranslated"]

Given(st) == {l \in Lines : status[l] = st}

NotesInv ==
  /\ notes = Cardinality(Given("untranslated"))
  /\ counter["anchors_approximated"] = Cardinality(Given("approx_alignment"))

Rerun == counter["segments_flagged"] > 0 \/ counter["anchors_flagged"] > 0

QuietInv ==
  /\ InPages => /\ \A b \in Blocks : ~blockRerun[b]
                /\ \A l \in Lines : ~anchorRerun[l]
                /\ \A b \in pending : Flagged(b)
  /\ phase \in {"rerun", "round", "settle"} => Rerun
  /\ \A l \in Lines : status[l] \in {"rerun", "untranslated"} => Rerun \/ counter["blocks_short"] > 0

CountInv == SegInv /\ NotesInv /\ QuietInv

\* The counters the invariant speaks of other than by lines.
SameCounters ==
  \A k \in {"segments_flagged", "segments_recovered", "segments_untranslated", "anchors_flagged"} :
    counter'[k] = counter[k]

\* A batched call counts its fallback and nothing else.
LEMMA CountItemsOnly ==
  ASSUME NEW c \in [Counters -> Nat], NEW how, NEW S, NEW k \in Counters, k # "fallbacks"
  PROVE  CountItems(c, how, S)[k] = c[k]
  BY DEF CountItems

\* Counts of disjoint sets of lines add up.
LEMMA DisjointCount ==
  ASSUME NEW S \in SUBSET Lines, NEW T \in SUBSET Lines, S \cap T = {}
  PROVE  Cardinality(S \cup T) = Cardinality(S) + Cardinality(T)
<1>1. IsFiniteSet(S) /\ IsFiniteSet(T) /\ Cardinality(S) \in Nat /\ Cardinality(T) \in Nat
  BY LinesCount
<1>2. Cardinality(S \cup T) = Cardinality(S) + Cardinality(T) - Cardinality(S \cap T)
  BY <1>1, FS_Union
<1>3. QED
  BY <1>1, <1>2, FS_EmptySet

\* Placing a block counts its lines by the status they are given, and what it gives
\* besides "ok" has a reason that is counted.
LEMMA FinalizeCounts ==
  ASSUME TypeOK, NotesInv, NEW b \in Blocks, \A l \in LinesOf(b) : status[l] = "none", FinalizeBlock(b)
  PROVE  /\ NotesInv' /\ SameCounters
         /\ counter'["blocks_short"] >= counter["blocks_short"]
         /\ \A l \in LinesOf(b) :
              /\ status'[l] = "untranslated" => blockFailed[b] \/ counter'["blocks_short"] > 0
              /\ status'[l] = "rerun" => blockRerun[b] \/ anchorRerun[l]
<1>0. /\ LinesOf(b) \subseteq Lines /\ \A l \in LinesOf(b) : BlockOf[l] = b
      /\ counter \in [Counters -> Nat] /\ notes \in Nat
  BY DEF LinesOf, TypeOK
<1>1. CASE blockFailed[b]
  <2>1. /\ status' = [l \in Lines |-> IF l \in LinesOf(b) THEN "untranslated" ELSE status[l]]
        /\ notes' = notes + Cardinality(LinesOf(b)) /\ counter' = counter
    BY <1>1 DEF FinalizeBlock, KeepBlock
  <2>2. /\ Given("untranslated")' = Given("untranslated") \cup LinesOf(b)
        /\ Given("untranslated") \cap LinesOf(b) = {}
        /\ Given("approx_alignment")' = Given("approx_alignment")
    BY <1>0, <2>1 DEF Given
  <2>3. Cardinality(Given("untranslated")') = Cardinality(Given("untranslated")) + Cardinality(LinesOf(b))
    BY <1>0, <2>2, DisjointCount DEF Given
  <2>4. NotesInv'
    BY <2>1, <2>2, <2>3 DEF NotesInv
  <2>5. QED
    BY <1>0, <1>1, <2>1, <2>4 DEF SameCounters, Counters
<1>2. CASE ~blockFailed[b]
  <2> DEFINE kept    == KeptSource(b)
             bare(e) == IF Starved(b) /\ opt.line_anchors THEN {} ELSE e
             approx(e) == Approximated(b) \cup bare(e)
             own == IF Starved(b) /\ opt.line_anchors THEN Cardinality(LinesOf(b) \ kept) ELSE 0
  <2>1. PICK empty \in Bare(b) :
          /\ status' = [l \in Lines |-> IF l \in LinesOf(b)
                         THEN LineStatus(l, kept, approx(empty)) ELSE status[l]]
          /\ notes' = notes + Cardinality(kept)
          /\ counter' = [counter EXCEPT
                  !["anchors_approximated"] = @ + Cardinality(approx(empty)),
                  !["blocks_short"] = @ + IF Starved(b) THEN 1 ELSE 0,
                  !["lines_by_own_translation"] = @ + own,
                  !["lines_untranslated"] = @ + Cardinality(kept)]
    BY <1>2 DEF FinalizeBlock, PlaceWords
  <2>2. kept \subseteq LinesOf(b) /\ approx(empty) \subseteq LinesOf(b) /\ kept \cap approx(empty) = {}
    BY DEF KeptSource, Approximated, Bare
  <2>3. kept # {} => Starved(b)
    BY DEF KeptSource
  <2> DEFINE close == approx(empty)
  <2>4. /\ status' = [l \in Lines |-> IF l \in LinesOf(b) THEN LineStatus(l, kept, close) ELSE status[l]]
        /\ counter' = [counter EXCEPT
                  !["anchors_approximated"] = @ + Cardinality(close),
                  !["blocks_short"] = @ + IF Starved(b) THEN 1 ELSE 0,
                  !["lines_by_own_translation"] = @ + own,
                  !["lines_untranslated"] = @ + Cardinality(kept)]
    BY <2>1
  <2>5. kept \subseteq LinesOf(b) /\ close \subseteq LinesOf(b) /\ kept \cap close = {}
    BY <2>2
  <2> HIDE DEF kept, close, own
  <2>6. /\ SameCounters
        /\ counter'["anchors_approximated"] = counter["anchors_approximated"] + Cardinality(close)
        /\ counter'["blocks_short"] = counter["blocks_short"] + (IF Starved(b) THEN 1 ELSE 0)
    BY <1>0, <2>4 DEF SameCounters, Counters
  <2>7. \A l \in LinesOf(b) : status'[l] = LineStatus(l, kept, close)
    BY <1>0, <2>4
  <2>8. /\ Given("untranslated")' = Given("untranslated") \cup kept
        /\ Given("approx_alignment")' = Given("approx_alignment") \cup close
        /\ Given("untranslated") \cap kept = {} /\ Given("approx_alignment") \cap close = {}
    <3>1. \A l \in Lines \ LinesOf(b) : status'[l] = status[l] /\ l \notin kept \cup close
      BY <2>4, <2>5
    <3>2. \A l \in LinesOf(b) : /\ l \in kept <=> status'[l] = "untranslated"
                                /\ l \in close <=> status'[l] = "approx_alignment"
      BY <2>5, <2>7 DEF LineStatus
    <3>3. QED
      BY <1>0, <2>5, <3>1, <3>2 DEF Given
  <2>9. /\ Cardinality(Given("untranslated")') = Cardinality(Given("untranslated")) + Cardinality(kept)
        /\ Cardinality(Given("approx_alignment")') = Cardinality(Given("approx_alignment")) + Cardinality(close)
    <3>1. kept \in SUBSET Lines /\ close \in SUBSET Lines
      BY <1>0, <2>5
    <3>2. Given("untranslated") \in SUBSET Lines /\ Given("approx_alignment") \in SUBSET Lines
      BY DEF Given
    <3>3. QED
      BY <2>8, <3>1, <3>2, DisjointCount
  <2>10. NotesInv'
    BY <2>1, <2>6, <2>9 DEF NotesInv
  <2>11. counter["blocks_short"] \in Nat
    BY <1>0 DEF Counters
  <2>12. ASSUME NEW l \in LinesOf(b), status'[l] = "untranslated"
         PROVE  counter'["blocks_short"] > 0
    <3>1. l \in kept
      BY <2>7, <2>12 DEF LineStatus
    <3>2. QED
      BY <2>3, <2>6, <2>11, <3>1
  <2>13. ASSUME NEW l \in LinesOf(b), status'[l] = "rerun"
         PROVE  blockRerun[b] \/ anchorRerun[l]
    BY <1>0, <2>7, <2>13 DEF LineStatus
  <2>14. QED
    BY <2>6, <2>10, <2>11, <2>12, <2>13
<1>3. QED
  BY <1>1, <1>2

\* A block being placed has lines without a status.
LEMMA UnplacedHaveNone ==
  ASSUME FlowInv, NEW b \in unplaced \cup pending
  PROVE  \A l \in LinesOf(b) : status[l] = "none"
  BY DEF FlowInv, LinesOf

\* The counters of a processing start at nought.
LEMMA CountInit == Init => CountInv
<1> SUFFICES ASSUME Init PROVE SegInv /\ NotesInv /\ QuietInv
  BY DEF CountInv
<1>1. Given("untranslated") = {} /\ Given("approx_alignment") = {}
  BY DEF Init, Given
<1>2. NotesInv
  BY <1>1, FS_EmptySet DEF Init, NotesInv, Counters
<1>3. SegInv
  BY DEF Init, SegInv, InPages, Counters
<1>4. QuietInv
  BY DEF Init, QuietInv, InPages, FreshBlock, FreshLine
<1>5. QED
  BY <1>2, <1>3, <1>4

\* A block asked for again recovers, or nothing is counted.
LEMMA RetryCounts ==
  ASSUME TypeOK, NEW b \in Blocks, RetryBlock(b)
  PROVE  /\ phase = "round" /\ phase' = "round" /\ b \in todoBlocks /\ todoBlocks' = todoBlocks \ {b}
         /\ UNCHANGED <<pending, status, notes>>
         /\ counter'["anchors_approximated"] = counter["anchors_approximated"]
         /\ counter'["segments_flagged"] = counter["segments_flagged"]
         /\ counter'["segments_untranslated"] = counter["segments_untranslated"]
         /\ counter'["anchors_flagged"] = counter["anchors_flagged"]
         /\ counter'["blocks_short"] = counter["blocks_short"]
         /\ \/ /\ blockFailed' = blockFailed
               /\ counter'["segments_recovered"] = counter["segments_recovered"]
            \/ /\ blockFailed' = [blockFailed EXCEPT ![b] = FALSE]
               /\ counter'["segments_recovered"] = counter["segments_recovered"] + 1
<1> USE DEF callVars, pageVars, blockVars, anchorVars, roundVars, lineVars, diskVars
<1>1. /\ phase = "round" /\ phase' = "round" /\ b \in todoBlocks /\ todoBlocks' = todoBlocks \ {b}
      /\ UNCHANGED <<pending, status, notes>>
  BY DEF RetryBlock
<1>2. CASE UNCHANGED <<blockVars, anchorVars, counter, everFlagged>>
  BY <1>1, <1>2
<1>3. CASE ~UNCHANGED <<blockVars, anchorVars, counter, everFlagged>>
  <2> DEFINE more == [counter EXCEPT !["segments_recovered"] = @ + 1]
  <2>1. PICK how, S : /\ counter' = CountItems(more, how, S)
                      /\ blockFailed' = [blockFailed EXCEPT ![b] = FALSE]
    BY <1>3 DEF RetryBlock
  <2>2. counter \in [Counters -> Nat] /\ more \in [Counters -> Nat]
    BY DEF TypeOK, Counters
  <2>3. \A k \in Counters \ {"fallbacks"} : counter'[k] = more[k]
    <3> HIDE DEF more
    <3> QED BY <2>1, <2>2, CountItemsOnly
  <2>4. QED
    BY <1>1, <2>1, <2>2, <2>3 DEF Counters
<1>4. QED
  BY <1>2, <1>3

\* The notes are counted where a status is given, and nowhere else.
LEMMA NotesStep == ASSUME TypeInv, FlowInv, NotesInv, [Next]_vars PROVE NotesInv'
<1> USE DEF callVars, pageVars, blockVars, anchorVars, roundVars, lineVars, diskVars
<1>1. ASSUME UNCHANGED <<status, notes>>, counter'["anchors_approximated"] = counter["anchors_approximated"]
      PROVE  NotesInv'
  BY <1>1 DEF NotesInv, Given
<1>2. counter \in [Counters -> Nat]
  BY DEF TypeInv, TypeOK
<1>3. CASE GatherPage \/ StartPlacing \/ NextPage \/ StartRound \/ EndRound \/ EndSettle
           \/ WriteOutputs \/ Fails \/ UNCHANGED vars
  BY <1>1, <1>3 DEF GatherPage, StartPlacing, NextPage, StartRound, EndRound, EndSettle,
     WriteOutputs, Fails, vars
<1>4. ASSUME NEW g \in Langs, TranslateBlocks(g) \/ TranslateAnchors(g) PROVE NotesInv'
  <2>1. PICK how, S : counter' = CountItems(counter, how, S)
    BY <1>4 DEF TranslateBlocks, TranslateAnchors
  <2>2. counter'["anchors_approximated"] = counter["anchors_approximated"]
    BY <1>2, <2>1, CountItemsOnly DEF Counters
  <2>3. QED
    BY <1>1, <1>4, <2>2 DEF TranslateBlocks, TranslateAnchors
<1>5. ASSUME NEW b \in Blocks, PlaceBlock(b) \/ SettleBlock(b) PROVE NotesInv'
  <2>1. b \in unplaced \cup pending
    BY <1>5 DEF PlaceBlock, SettleBlock
  <2>2. FinalizeBlock(b) \/ UNCHANGED <<lineVars, counter>>
    BY <1>5 DEF PlaceBlock, SettleBlock
  <2>3. QED
    BY <1>1, <2>1, <2>2, UnplacedHaveNone, FinalizeCounts DEF TypeInv
<1>6. CASE EndPages \/ EndRerun
  BY <1>1, <1>2, <1>6 DEF EndPages, EndRerun, Counters
<1>7. ASSUME NEW b \in Blocks, RetryBlock(b) PROVE NotesInv'
  BY <1>1, <1>7, RetryCounts DEF TypeInv
<1>8. ASSUME NEW l \in Lines, RetryAnchor(l) PROVE NotesInv'
  BY <1>1, <1>2, <1>8 DEF RetryAnchor, Counters
<1>9. CASE ProcessAgain
  <2>1. Given("untranslated")' = {} /\ Given("approx_alignment")' = {}
    BY <1>9 DEF ProcessAgain, Given
  <2>2. notes' = 0 /\ counter'["anchors_approximated"] = 0
    BY <1>9 DEF ProcessAgain, Counters
  <2>3. QED
    BY <2>1, <2>2, FS_EmptySet DEF NotesInv
<1>10. QED
  BY <1>3, <1>4, <1>5, <1>6, <1>7, <1>8, <1>9 DEF Next, Step

\* Every block flagged for the re-run is in one of the two other counts, or failed.
LEMMA SegStep == ASSUME TypeInv, FlowInv, NotesInv, SegInv, [Next]_vars PROVE SegInv'
<1> USE DEF callVars, pageVars, blockVars, anchorVars, roundVars, lineVars, diskVars
<1>1. counter \in [Counters -> Nat]
  BY DEF TypeInv, TypeOK
<1>2. CASE GatherPage \/ StartPlacing \/ NextPage \/ StartRound \/ EndRound \/ EndSettle
           \/ WriteOutputs \/ Fails \/ UNCHANGED vars
  BY <1>2 DEF SegInv, InPages, FailedBlocks, GatherPage, StartPlacing, NextPage, StartRound,
     EndRound, EndSettle, WriteOutputs, Fails, vars
<1>3. ASSUME NEW g \in Langs, TranslateBlocks(g) \/ TranslateAnchors(g) PROVE SegInv'
  <2>1. PICK how, S : counter' = CountItems(counter, how, S)
    BY <1>3 DEF TranslateBlocks, TranslateAnchors
  <2>2. SameCounters
    BY <1>1, <2>1, CountItemsOnly DEF SameCounters, Counters
  <2>3. phase \in {"blocks", "anchors"} /\ phase' \in {"blocks", "anchors"}
    BY <1>3 DEF TranslateBlocks, TranslateAnchors
  <2>4. QED
    BY <2>2, <2>3 DEF SegInv, SameCounters, InPages
<1>4. ASSUME NEW b \in Blocks, PlaceBlock(b) \/ SettleBlock(b) PROVE SegInv'
  <2>1. b \in unplaced \cup pending /\ phase \in {"place", "settle"} /\ phase' = phase
    BY <1>4 DEF PlaceBlock, SettleBlock
  <2>2. FinalizeBlock(b) \/ UNCHANGED counter
    BY <1>4 DEF PlaceBlock, SettleBlock
  <2>3. SameCounters
    BY <2>1, <2>2, UnplacedHaveNone, FinalizeCounts DEF TypeInv, SameCounters
  <2>4. QED
    BY <2>1, <2>3 DEF SegInv, SameCounters, InPages
<1>5. CASE EndPages
  <2>1. phase = "gather" /\ UNCHANGED <<pending, blockFailed>>
    BY <1>5 DEF EndPages
  <2>2. CASE pending = {}
    BY <1>5, <2>1, <2>2 DEF EndPages, SegInv, InPages
  <2>3. CASE pending # {}
    <3>1. Cardinality(FailedBlocks) \in Nat /\ FailedBlocks' = FailedBlocks
      BY <2>1, BlocksCount DEF FailedBlocks, TypeInv, TypeOK
    <3>2. /\ phase' = "rerun"
          /\ counter'["segments_flagged"] = counter["segments_flagged"] + Cardinality(FailedBlocks)
          /\ counter'["segments_recovered"] = counter["segments_recovered"]
          /\ counter'["segments_untranslated"] = counter["segments_untranslated"]
      BY <1>1, <1>5, <2>3 DEF EndPages, Counters
    <3>3. QED
      BY <2>1, <3>1, <3>2 DEF SegInv, InPages
  <2>4. QED
    BY <2>2, <2>3
<1>6. ASSUME NEW b \in Blocks, RetryBlock(b) PROVE SegInv'
  <2>1. phase = "round" /\ phase' = "round" /\ b \in FailedBlocks /\ UNCHANGED pending
        /\ todoBlocks' = todoBlocks \ {b} /\ todoBlocks \subseteq FailedBlocks
    BY <1>6, RetryCounts DEF TypeInv, SegInv
  <2>2. counter["segments_recovered"] \in Nat
    BY <1>1 DEF Counters
  <2>3. /\ counter'["segments_flagged"] = counter["segments_flagged"]
        /\ counter'["segments_untranslated"] = counter["segments_untranslated"]
    BY <1>6, RetryCounts DEF TypeInv
  <2>4. CASE blockFailed' = blockFailed /\ counter'["segments_recovered"] = counter["segments_recovered"]
    <3>1. FailedBlocks' = FailedBlocks
      BY <2>1, <2>4 DEF FailedBlocks
    <3>2. QED
      BY <2>1, <2>3, <2>4, <3>1 DEF SegInv, InPages
  <2>5. CASE /\ blockFailed' = [blockFailed EXCEPT ![b] = FALSE]
             /\ counter'["segments_recovered"] = counter["segments_recovered"] + 1
    <3>1. FailedBlocks' = FailedBlocks \ {b}
      BY <2>1, <2>5 DEF FailedBlocks, TypeInv, TypeOK
    <3>2. IsFiniteSet(FailedBlocks) /\ Cardinality(FailedBlocks) \in Nat
      BY BlocksCount DEF FailedBlocks, TypeInv, TypeOK
    <3>3. Cardinality(FailedBlocks \ {b}) = Cardinality(FailedBlocks) - 1
      BY <2>1, <3>2, FS_RemoveElement
    <3>4. QED
      BY <2>1, <2>2, <2>3, <2>5, <3>1, <3>2, <3>3 DEF SegInv, InPages
  <2>6. QED
    BY <1>6, <2>4, <2>5, RetryCounts DEF TypeInv
<1>7. ASSUME NEW l \in Lines, RetryAnchor(l) PROVE SegInv'
  <2>1. /\ phase = "round" /\ phase' = "round" /\ UNCHANGED <<pending, blockFailed, todoBlocks>>
        /\ UNCHANGED counter \/ counter' = [counter EXCEPT !["anchors_recovered"] = @ + 1]
    BY <1>7 DEF RetryAnchor
  <2>2. SameCounters
    BY <1>1, <2>1 DEF SameCounters, Counters
  <2>3. FailedBlocks' = FailedBlocks
    BY <2>1 DEF FailedBlocks
  <2>4. QED
    BY <2>1, <2>2, <2>3 DEF SegInv, SameCounters, InPages
<1>8. CASE EndRerun
  <2>1. phase = "rerun" /\ phase' = "settle"
        /\ counter' = [counter EXCEPT !["segments_untranslated"] = @ + Cardinality(FailedBlocks)]
    BY <1>8 DEF EndRerun
  <2>2. Cardinality(FailedBlocks) \in Nat
    BY BlocksCount DEF FailedBlocks, TypeInv, TypeOK
  <2>3. QED
    BY <1>1, <2>1, <2>2 DEF SegInv, InPages, Counters
<1>9. CASE ProcessAgain
  BY <1>9 DEF ProcessAgain, SegInv, InPages, Counters
<1>10. QED
  BY <1>2, <1>3, <1>4, <1>5, <1>6, <1>7, <1>8, <1>9 DEF Next, Step

\* In a pass over the pages nothing was re-run yet, and what is put aside is flagged.
LEMMA QuietPages ==
  ASSUME TypeInv, FlowInv, QuietInv, InPages, InPages',
         \/ GatherPage \/ StartPlacing \/ NextPage
         \/ \E g \in Langs : TranslateBlocks(g) \/ TranslateAnchors(g)
         \/ \E b \in Blocks : PlaceBlock(b)
  PROVE  /\ \A b \in Blocks : ~blockRerun'[b]
         /\ \A l \in Lines : ~anchorRerun'[l]
         /\ \A b \in pending' : Flagged(b)'
<1> USE DEF callVars, pageVars, blockVars, anchorVars, roundVars, lineVars, diskVars
<1>1. UNCHANGED <<blockRerun, anchorRerun>>
  BY DEF GatherPage, StartPlacing, NextPage, TranslateBlocks, TranslateAnchors, PlaceBlock
<1>2. ASSUME NEW b \in pending' PROVE Flagged(b)'
  <2>1. CASE GatherPage \/ StartPlacing \/ NextPage
    BY <1>2, <2>1 DEF GatherPage, StartPlacing, NextPage, QuietInv, Flagged
  <2>2. ASSUME NEW g \in Langs, TranslateBlocks(g) PROVE Flagged(b)'
    <3>1. b \in pending /\ UNCHANGED anchorFailed
      BY <1>2, <2>2 DEF TranslateBlocks
    <3>2. b \in Blocks /\ b \notin Group(g)
      BY <3>1 DEF FlowInv, TypeInv, TypeOK, Group
    <3>3. blockFailed'[b] = blockFailed[b]
      <4>1. PICK bad : blockFailed' = [c \in Blocks |-> IF c \in Group(g) THEN c \in bad ELSE blockFailed[c]]
        BY <2>2 DEF TranslateBlocks
      <4>2. blockFailed'[b] = IF b \in Group(g) THEN b \in bad ELSE blockFailed[b]
        BY <3>2, <4>1, Zenon
      <4>3. QED
        BY <3>2, <4>2, Zenon
    <3>4. QED
      BY <3>1, <3>3 DEF QuietInv, Flagged
  <2>3. ASSUME NEW g \in Langs, TranslateAnchors(g) PROVE Flagged(b)'
    <3>1. b \in pending /\ UNCHANGED blockFailed
      BY <1>2, <2>3 DEF TranslateAnchors
    <3>2. \A l \in LinesOf(b) : l \in Lines /\ l \notin Anchored(g)
      BY <3>1 DEF FlowInv, Group, Anchored, LinesOf
    <3>3. ASSUME NEW l \in LinesOf(b) PROVE anchorFailed'[l] = anchorFailed[l]
      <4>1. PICK bad : anchorFailed' = [m \in Lines |-> IF m \in Anchored(g) THEN m \in bad ELSE anchorFailed[m]]
        BY <2>3 DEF TranslateAnchors, TakeAnchors
      <4>2. l \in Lines /\ l \notin Anchored(g)
        BY <3>2
      <4>3. anchorFailed'[l] = IF l \in Anchored(g) THEN l \in bad ELSE anchorFailed[l]
        BY <4>1, <4>2, Zenon
      <4>4. QED
        BY <4>2, <4>3, Zenon
    <3>4. QED
      BY <3>1, <3>3 DEF QuietInv, Flagged
  <2>4. ASSUME NEW c \in Blocks, PlaceBlock(c) PROVE Flagged(b)'
    <3>1. UNCHANGED <<blockFailed, anchorFailed>> /\ (b \in pending \/ (b = c /\ Flagged(c)))
      BY <1>2, <2>4 DEF PlaceBlock
    <3>2. QED
      BY <3>1 DEF QuietInv, Flagged
  <2>5. QED
    BY <2>1, <2>2, <2>3, <2>4
<1>3. QED
  BY <1>1, <1>2 DEF QuietInv

\* What was put aside is flagged, so that the end of the pages counts it.
LEMMA PendingCounted ==
  ASSUME TypeInv, FlowInv, QuietInv, InPages, pending # {}
  PROVE  Cardinality(FailedBlocks) > 0 \/ Cardinality(FailedAnchors) > 0
<1>1. PICK b \in pending : Flagged(b)
  BY DEF QuietInv
<1>2. FailedBlocks # {} \/ FailedAnchors # {}
  BY <1>1 DEF Flagged, FailedBlocks, FailedAnchors, LinesOf
<1>3. FailedBlocks \subseteq Blocks /\ FailedAnchors \subseteq Lines
  BY DEF FailedBlocks, FailedAnchors, TypeInv, TypeOK
<1>4. QED
  BY <1>2, <1>3, BlocksCount, LinesCount, FS_EmptySet

\* Whatever gives a line another status than "ok" is counted.
LEMMA QuietStep == ASSUME TypeInv, FlowInv, NotesInv, QuietInv, [Next]_vars PROVE QuietInv'
<1> USE DEF callVars, pageVars, blockVars, anchorVars, roundVars, lineVars, diskVars
<1>1. counter \in [Counters -> Nat]
  BY DEF TypeInv, TypeOK
<1> DEFINE Doubt == Rerun \/ counter["blocks_short"] > 0
<1>2. CASE GatherPage \/ StartPlacing \/ NextPage
  <2>1. InPages /\ InPages' /\ UNCHANGED <<status, counter>>
    BY <1>2 DEF GatherPage, StartPlacing, NextPage, InPages
  <2>2. QED
    BY <1>2, <2>1, QuietPages DEF QuietInv, InPages, Rerun
<1>3. ASSUME NEW g \in Langs, TranslateBlocks(g) \/ TranslateAnchors(g) PROVE QuietInv'
  <2>1. PICK how, S : counter' = CountItems(counter, how, S)
    BY <1>3 DEF TranslateBlocks, TranslateAnchors
  <2>2. Rerun' = Rerun /\ counter'["blocks_short"] = counter["blocks_short"]
    BY <1>1, <2>1, CountItemsOnly DEF Rerun, Counters
  <2>3. InPages /\ InPages' /\ UNCHANGED status
    BY <1>3 DEF TranslateBlocks, TranslateAnchors, InPages
  <2>4. QED
    BY <1>3, <2>2, <2>3, QuietPages DEF QuietInv, InPages
<1>4. ASSUME NEW b \in Blocks, PlaceBlock(b) \/ SettleBlock(b) PROVE QuietInv'
  <2>1. b \in unplaced \cup pending /\ phase' = phase
    BY <1>4 DEF PlaceBlock, SettleBlock
  <2>2. CASE UNCHANGED <<lineVars, counter>>
    <3>1. PlaceBlock(b) => InPages /\ InPages'
      BY DEF PlaceBlock, InPages
    <3>2. SettleBlock(b) => phase = "settle" /\ phase' = "settle"
      BY DEF SettleBlock
    <3>3. QED
      BY <1>4, <2>2, <3>1, <3>2, QuietPages DEF QuietInv, InPages, Rerun
  <2>3. CASE FinalizeBlock(b)
    <3>1. /\ SameCounters /\ counter'["blocks_short"] >= counter["blocks_short"]
          /\ \A l \in LinesOf(b) :
               /\ status'[l] = "untranslated" => blockFailed[b] \/ counter'["blocks_short"] > 0
               /\ status'[l] = "rerun" => blockRerun[b] \/ anchorRerun[l]
      BY <2>1, <2>3, UnplacedHaveNone, FinalizeCounts DEF TypeInv
    <3>2. \A l \in Lines \ LinesOf(b) : status'[l] = status[l]
      BY <2>3, FinalizePlaces DEF TypeInv, Placement
    <3>3. counter["blocks_short"] \in Nat /\ counter'["blocks_short"] \in Nat
      BY <1>1, <2>3, FinalizeType DEF Counters, TypeInv
    <3>4. Rerun' = Rerun /\ (counter["blocks_short"] > 0 => counter'["blocks_short"] > 0)
      BY <3>1, <3>3 DEF Rerun, SameCounters
    <3>5. ASSUME NEW l \in LinesOf(b), status'[l] \in {"rerun", "untranslated"}
          PROVE  Rerun \/ counter'["blocks_short"] > 0
      <4>1. CASE SettleBlock(b)
        BY <4>1 DEF SettleBlock, QuietInv
      <4>2. CASE PlaceBlock(b)
        <5>1. phase = "place" /\ l \in Lines
          BY <4>2 DEF PlaceBlock, LinesOf
        <5>2. ~blockRerun[b] /\ ~anchorRerun[l]
          BY <5>1 DEF QuietInv, InPages
        <5>3. ~blockFailed[b] \/ status'[l] = status[l]
          BY <4>2 DEF PlaceBlock, Flagged
        <5>4. status[l] = "none"
          BY <2>1, UnplacedHaveNone
        <5>5. QED
          BY <3>1, <3>5, <5>2, <5>3, <5>4
      <4>3. QED
        BY <1>4, <4>1, <4>2
    <3>6. \A l \in Lines : status'[l] \in {"rerun", "untranslated"} => Rerun' \/ counter'["blocks_short"] > 0
      BY <3>2, <3>4, <3>5 DEF QuietInv
    <3>7. InPages => PlaceBlock(b)
      BY <1>4 DEF SettleBlock, InPages
    <3>8. QED
      BY <2>1, <3>4, <3>6, <3>7, QuietPages DEF QuietInv, InPages
  <2>4. QED
    BY <1>4, <2>2, <2>3 DEF PlaceBlock, SettleBlock
<1>5. CASE EndPages
  <2>1. phase = "gather" /\ UNCHANGED <<status, blockRerun, anchorRerun>>
    BY <1>5 DEF EndPages
  <2>2. CASE pending = {}
    BY <1>5, <2>1, <2>2 DEF EndPages, QuietInv, InPages, Rerun
  <2>3. CASE pending # {}
    <3>1. Cardinality(FailedBlocks) \in Nat /\ Cardinality(FailedAnchors) \in Nat
      <4>1. FailedBlocks \subseteq Blocks /\ FailedAnchors \subseteq Lines
        BY DEF FailedBlocks, FailedAnchors, TypeInv, TypeOK
      <4>2. QED
        BY <4>1, BlocksCount, LinesCount
    <3>2. Cardinality(FailedBlocks) > 0 \/ Cardinality(FailedAnchors) > 0
      BY <2>1, <2>3, PendingCounted DEF InPages
    <3>3. /\ phase' = "rerun"
          /\ counter'["segments_flagged"] = counter["segments_flagged"] + Cardinality(FailedBlocks)
          /\ counter'["anchors_flagged"] = counter["anchors_flagged"] + Cardinality(FailedAnchors)
      BY <1>1, <1>5, <2>3 DEF EndPages, Counters
    <3>4. Rerun'
      BY <1>1, <3>1, <3>2, <3>3 DEF Rerun, Counters
    <3>5. QED
      BY <3>3, <3>4 DEF QuietInv, InPages
  <2>4. QED
    BY <2>2, <2>3
<1>6. CASE StartRound \/ EndRound \/ EndSettle \/ WriteOutputs \/ Fails
  <2>1. UNCHANGED <<status, counter>>
    BY <1>6 DEF StartRound, EndRound, EndSettle, WriteOutputs, Fails
  <2>2. /\ ~InPages'
        /\ phase' \in {"rerun", "round", "settle"} => phase \in {"rerun", "round", "settle"}
    BY <1>6 DEF StartRound, EndRound, EndSettle, WriteOutputs, Fails, InPages
  <2>3. QED
    BY <2>1, <2>2 DEF QuietInv, Rerun
<1>7. ASSUME NEW b \in Blocks, RetryBlock(b) PROVE QuietInv'
  <2>1. /\ phase = "round" /\ phase' = "round" /\ UNCHANGED status
        /\ Rerun' = Rerun /\ counter'["blocks_short"] = counter["blocks_short"]
    BY <1>7, RetryCounts DEF TypeInv, Rerun
  <2>2. QED
    BY <2>1 DEF QuietInv, InPages
<1>8. ASSUME NEW l \in Lines, RetryAnchor(l) PROVE QuietInv'
  <2>1. /\ phase = "round" /\ phase' = "round" /\ UNCHANGED status
        /\ UNCHANGED counter \/ counter' = [counter EXCEPT !["anchors_recovered"] = @ + 1]
    BY <1>8 DEF RetryAnchor
  <2>2. Rerun' = Rerun /\ counter'["blocks_short"] = counter["blocks_short"]
    BY <1>1, <2>1 DEF Rerun, Counters
  <2>3. QED
    BY <2>1, <2>2 DEF QuietInv, InPages
<1>9. CASE EndRerun
  <2>1. /\ phase = "rerun" /\ phase' = "settle" /\ UNCHANGED status
        /\ Rerun' = Rerun /\ counter'["blocks_short"] = counter["blocks_short"]
    BY <1>1, <1>9 DEF EndRerun, Rerun, Counters
  <2>2. QED
    BY <2>1 DEF QuietInv, InPages
<1>10. CASE ProcessAgain
  BY <1>10 DEF ProcessAgain, QuietInv, InPages, FreshBlock, FreshLine
<1>11. CASE UNCHANGED vars
  BY <1>11 DEF vars, QuietInv, InPages, Flagged, Rerun
<1>12. QED
  BY <1>2, <1>3, <1>4, <1>5, <1>6, <1>7, <1>8, <1>9, <1>10, <1>11 DEF Next, Step

\* What the run tells of a document beside its log agrees with the log and with the
\* file, for every document: the counters, the summary's level and the limit note.
THEOREM CountersCorrect == Spec => []CountersTellTheFile
<1>1. IInv /\ CountInv /\ [Next]_vars => CountInv'
  BY SegStep, NotesStep, QuietStep DEF IInv, CountInv
<1>2. IInv /\ CountInv => CountersTellTheFile
  <2> SUFFICES ASSUME IInv, CountInv, phase = "done" PROVE CountersTellTheFile
    BY DEF CountersTellTheFile, SegmentsAccounted, NotesMatchLog, QuietMeansClean
  <2>1. /\ log = [l \in Lines |-> Row(l)] /\ file = tree
        /\ \A l \in Lines : status[l] # "none" <=> BlockOf[l] \in gathered
    BY DEF IInv, FlowInv
  <2>2. \A l \in LinesOfAll(gathered) : l \in Lines /\ BlockOf[l] \in gathered /\ log[l] = Row(l)
    BY <2>1 DEF LinesOfAll
  <2>3. {l \in LinesOfAll(gathered) : log[l] = "untranslated"} = Given("untranslated")
    BY <2>1, <2>2 DEF Given, Row, LinesOfAll
  <2>4. {l \in LinesOfAll(gathered) : status[l] = "approx_alignment"} = Given("approx_alignment")
    BY <2>1 DEF Given, LinesOfAll
  <2>5. SegmentsAccounted /\ NotesMatchLog
    BY <2>3, <2>4 DEF CountInv, SegInv, NotesInv, SegmentsAccounted, NotesMatchLog
  <2>6. ASSUME ~NeedsAttention, NEW l \in LinesOfAll(gathered)
        PROVE  log[l] \in {"ok", "unsupported_lang"} /\ file[l] = pass
    <3>1. /\ counter["segments_flagged"] = 0 /\ counter["anchors_flagged"] = 0
          /\ counter["anchors_approximated"] = 0 /\ counter["blocks_short"] = 0
      BY <2>6 DEF NeedsAttention, IInv, TypeInv, TypeOK, Counters
    <3>2. Given("approx_alignment") = {}
      BY <3>1, LinesCount, FS_EmptySet DEF CountInv, NotesInv, Given
    <3>3. status[l] \in Statuses \ {"approx_alignment", "rerun", "untranslated"}
      <4>1. l \in Lines /\ status[l] # "none"
        BY <2>1, <2>2
      <4>2. status[l] \in Statuses
        BY <4>1 DEF IInv, TypeInv, TypeOK
      <4>3. status[l] # "approx_alignment"
        BY <3>2, <4>1 DEF Given
      <4>4. status[l] \notin {"rerun", "untranslated"}
        BY <3>1, <4>1 DEF CountInv, QuietInv, Rerun
      <4>5. QED
        BY <4>2, <4>3, <4>4
    <3>4. status[l] = "ok"
      BY <3>3 DEF Statuses
    <3>5. tree[l] = pass
      BY <2>2, <3>4 DEF IInv, TreeInv
    <3>6. QED
      BY <2>1, <2>2, <3>4, <3>5 DEF Row
  <2>7. QED
    BY <2>5, <2>6 DEF CountersTellTheFile, QuietMeansClean
<1>3. QED
  BY <1>1, <1>2, CountInit, Invariant, PTL DEF Spec
=============================================================================
