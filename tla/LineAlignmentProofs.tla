------------------------- MODULE LineAlignmentProofs -------------------------
(***************************************************************************)
(* The alignment's guarantees, for a block of any size: with line anchors, *)
(* no line of text of a block that is not starved is left without a word,  *)
(* and no line without text is given one; no word is lost, doubled or      *)
(* moved; a fast alignment leaves some line of text its words; a           *)
(* translation word for word is cut where the source is.                   *)
(*                                                                         *)
(* And the two loops of TextLoops: what the scan for repetitions finds in  *)
(* a reply of any length, and that a text of any length is cut into pieces *)
(* that are the text.                                                      *)
(***************************************************************************)
EXTENDS LineAlignment, TextLoops, FiniteSetTheorems, SequenceTheorems, TLAPS

\* A set of numbers that is not empty has a least one.
LEMMA LeastExists ==
  ASSUME NEW S, S \subseteq Nat, S # {}
  PROVE  \E m \in S : \A y \in S : m <= y
<1> DEFINE Less == {p \in Nat \X Nat : p[1] < p[2]}
<1>1. IsWellFoundedOn(Less, Nat)
  BY NatLessThanWellFounded DEF OpToRel
<1>2. PICK m \in S : \A y \in S : ~(<<y, m>> \in Less)
  <2> HIDE DEF Less
  <2> QED
    BY <1>1, WFMin
<1>3. \A y \in S : m \in Nat /\ y \in Nat /\ ~(y < m)
  BY <1>2
<1>4. QED
  BY <1>3

\* What the guard rail of the split keeps true: there is a word left for every line
\* of text still to come, and no line before has been passed over.
RoomInv ==
  /\ words \in Nat /\ cut \in 0 .. words /\ todo \subseteq 1 .. n
  /\ bucket \in [1 .. n -> [from : Int, to : Int]]
  /\ anchors => todo \subseteq TextLines
  /\ anchors => \A l \in (1 .. n) \ TextLines : bucket[l].to < bucket[l].from
  /\ anchors /\ ~Starved /\ words > 0 =>
       /\ cut + Cardinality(todo) <= words
       /\ \A l \in TextLines \ todo : bucket[l].from <= bucket[l].to
       /\ phase # "align" => todo = {}

\* Sets of lines are finite and counted.
LEMMA LinesAreFinite ==
  ASSUME NEW m \in Nat, NEW S, S \subseteq 1 .. m
  PROVE  IsFiniteSet(S) /\ Cardinality(S) \in Nat
<1>1. IsFiniteSet(1 .. m)
  BY FS_Interval
<1>2. IsFiniteSet(S)
  BY <1>1, FS_Subset
<1>3. QED
  BY <1>2, FS_CardinalityType

\* Cumulative counts are numbers, and the lines up to one with text do not hold
\* more words than all of them.
LEMMA CountsAreNumbers ==
  ASSUME NEW k \in Nat, NEW f \in Cumulative(k)
  PROVE  /\ \A l \in 0 .. k : f[l] \in Nat
         /\ \A l, m \in 0 .. k : l <= m => f[l] <= f[m]
         /\ f[k] > 0
<1>1. f \in [0 .. k -> 0 .. MaxSource]
  BY DEF Cumulative
<1>2. QED
  BY <1>1, AlignmentAssumption DEF Cumulative, AlignmentAssumption

\* Rounding a share gives a number.
LEMMA RoundIsNumber ==
  ASSUME NEW p \in Int, NEW q \in Int, q > 0
  PROVE  Round(p, q) \in Int
  BY DEF Round

\* What the invariant needs to know of the block: it never changes.
BlockInv ==
  /\ n \in Nat \ {0} /\ ends \in Cumulative(n) /\ words \in Nat
  /\ anchors \in BOOLEAN /\ usable \subseteq TextLines

\* Words are counted by numbers.
LEMMA CountType ==
  ASSUME BlockInv, NEW l \in 1 .. n
  PROVE  /\ Count(l) \in Nat
         /\ ends[n] \in Nat /\ ends[n] > 0 /\ ends[l - 1] \in Nat
         /\ l \in TextLines => ends[n] - ends[l - 1] > 0
<1>1. n \in Nat /\ l \in 0 .. n /\ l - 1 \in 0 .. n /\ n \in 0 .. n
  BY DEF BlockInv
<1>2. /\ ends[l] \in Nat /\ ends[l - 1] \in Nat /\ ends[n] \in Nat /\ ends[n] > 0
      /\ ends[l - 1] <= ends[l] /\ ends[l] <= ends[n]
  BY <1>1, CountsAreNumbers DEF BlockInv
<1>3. QED
  BY <1>2 DEF Count, TextLines

\* A line that is not the last takes at least one word and leaves one for each of
\* the lines that remain.
LEMMA SplitLeavesRoom ==
  ASSUME BlockInv, RoomInv, NEW l \in 1 .. n, IsNext(l), ~IsLast(l),
         NEW take \in Int, anchors, cut < words,
         \/ \E len \in 1 .. MaxAnchor : take \in SplitsAtAnchor(l, len)
         \/ take = Share(l)
  PROVE  /\ take >= 1
         /\ cut + Cardinality(todo) <= words =>
              cut + take + Cardinality(todo \ {l}) <= words
<1> DEFINE later == Cardinality(todo \ {l})
<1>1. /\ IsFiniteSet(todo) /\ IsFiniteSet(todo \ {l})
      /\ later \in Nat /\ Cardinality(todo) \in Nat
  BY LinesAreFinite DEF BlockInv, RoomInv
<1>2. Cardinality(todo) = later + 1
  BY <1>1, FS_RemoveElement DEF IsNext
<1>3. cut \in Nat /\ words \in Nat
  BY DEF RoomInv
<1> HIDE DEF later
<1>4. /\ Highest(l) \in Int /\ Highest(l) >= 1
      /\ cut + Cardinality(todo) <= words => Highest(l) = words - cut - later
  BY <1>1, <1>2, <1>3 DEF Highest, Greatest, later
<1>5. take >= 1 /\ take <= Highest(l)
  <2>1. CASE \E len \in 1 .. MaxAnchor : take \in SplitsAtAnchor(l, len)
    <3>1. PICK len \in 1 .. MaxAnchor : take \in SplitsAtAnchor(l, len)
      BY <2>1
    <3>2. len \in Int /\ len >= 1
      BY AlignmentAssumption DEF AlignmentAssumption
    <3>3. len \div 2 - 1 \in Int /\ (len * 3) \div 2 + 2 \in Int /\ (len * 3) \div 2 + 2 >= 1
      BY <3>2
    <3>4. QED
      BY <1>4, <3>1, <3>3 DEF SplitsAtAnchor, Least, Greatest
  <2>2. CASE take = Share(l)
    <3>1. /\ Count(l) \in Nat /\ ends[n] - ends[l - 1] \in Int /\ ends[n] - ends[l - 1] > 0
      BY CountType DEF RoomInv, IsNext
    <3>2. (words - cut) * Count(l) \in Int
      BY <1>3, <3>1
    <3>3. Round((words - cut) * Count(l), ends[n] - ends[l - 1]) \in Int
      BY <3>1, <3>2, RoundIsNumber
    <3>4. QED
      BY <1>4, <2>2, <3>3 DEF Share, Least, Greatest
  <2>3. QED
    BY <2>1, <2>2
<1>6. QED
  BY <1>1, <1>2, <1>3, <1>4, <1>5 DEF later

-----------------------------------------------------------------------------
IInv == BlockInv /\ RoomInv

\* The invariant holds when a block is taken up.
LEMMA IInit == Init => IInv
<1> SUFFICES ASSUME Init PROVE BlockInv /\ RoomInv
  BY DEF IInv
<1>1. BlockInv
  BY AlignmentAssumption DEF Init, BlockInv, AlignmentAssumption
<1>2. TextLines \subseteq 1 .. n
  BY DEF TextLines
<1>3. Cardinality(TextLines) \in Nat
  BY <1>1, <1>2, LinesAreFinite DEF BlockInv
<1>4. anchors /\ ~Starved /\ words > 0 => cut + Cardinality(todo) <= words
  BY <1>1, <1>3 DEF Init, Starved, BlockInv
<1>5. QED
  BY <1>1, <1>2, <1>4 DEF Init, RoomInv, BlockInv, Nothing

\* The block does not change, so neither do the notions read off it.
LEMMA BlockConstant ==
  ASSUME UNCHANGED block
  PROVE  TextLines' = TextLines /\ (Starved <=> Starved') /\ (BlockInv <=> BlockInv')
<1>1. TextLines' = TextLines
  BY DEF block, TextLines, Count
<1>2. QED
  BY <1>1 DEF block, Starved, BlockInv

\* A word given to a line with anchors goes to one of the lines of text.
LEMMA GiveKeepsRoom ==
  ASSUME IInv, NEW l \in 1 .. n, NEW take \in Nat, Give(l, take), UNCHANGED block,
         l \in todo, phase = "align", cut + take <= words,
         anchors /\ ~Starved /\ words > 0 =>
           /\ take >= 1 /\ cut + take + Cardinality(todo \ {l}) <= words
           /\ phase' # "align" => todo = {l}
  PROVE  IInv'
<1>1. /\ TextLines' = TextLines /\ (Starved <=> Starved') /\ BlockInv'
      /\ n' = n /\ words' = words /\ anchors' = anchors
  BY BlockConstant DEF IInv, block
<1>2. /\ cut' = cut + take /\ todo' = todo \ {l} /\ cut \in Nat
      /\ bucket' = [bucket EXCEPT ![l] = [from |-> cut + 1, to |-> cut + take]]
      /\ bucket \in [1 .. n -> [from : Int, to : Int]]
  BY DEF Give, IInv, RoomInv
<1>3. /\ bucket' \in [1 .. n -> [from : Int, to : Int]]
      /\ bucket'[l] = [from |-> cut + 1, to |-> cut + take]
      /\ \A m \in (1 .. n) \ {l} : bucket'[m] = bucket[m]
  BY <1>2
<1>4. anchors => l \in TextLines
  BY DEF IInv, RoomInv
<1>5. anchors' => \A m \in (1 .. n') \ TextLines' : bucket'[m].to < bucket'[m].from
  BY <1>1, <1>3, <1>4 DEF IInv, RoomInv
<1>6. anchors' /\ ~Starved' /\ words' > 0 =>
        /\ cut' + Cardinality(todo') <= words'
        /\ \A m \in TextLines' \ todo' : bucket'[m].from <= bucket'[m].to
        /\ phase' # "align" => todo' = {}
  <2> SUFFICES ASSUME anchors, ~Starved, words > 0
               PROVE  /\ cut' + Cardinality(todo') <= words
                      /\ \A m \in TextLines \ todo' : bucket'[m].from <= bucket'[m].to
                      /\ phase' # "align" => todo' = {}
    BY <1>1
  <2>1. \A m \in TextLines \ todo' : m = l \/ (m # l /\ m \in TextLines \ todo)
    BY <1>2
  <2>2. \A m \in TextLines : m \in 1 .. n
    BY DEF TextLines
  <2>3. bucket'[l].from <= bucket'[l].to
    BY <1>2, <1>3
  <2>4. \A m \in TextLines \ todo' : bucket'[m].from <= bucket'[m].to
    BY <1>3, <2>1, <2>2, <2>3 DEF IInv, RoomInv
  <2>5. QED
    BY <1>2, <2>4
<1>7. todo' \subseteq 1 .. n' /\ cut' \in 0 .. words' /\ (anchors' => todo' \subseteq TextLines') /\ words' \in Nat
  BY <1>1, <1>2 DEF IInv, RoomInv
<1>8. QED
  BY <1>1, <1>2, <1>3, <1>5, <1>6, <1>7 DEF IInv, RoomInv

\* While words remain to be cut there is room for every line of text to come.
LEMMA RoomLeft ==
  ASSUME IInv, anchors, ~Starved, cut < words
  PROVE  cut + Cardinality(todo) <= words
  BY DEF IInv, RoomInv

\* Every placement keeps the invariant.
LEMMA IStep == IInv /\ [Next]_vars => IInv'
<1> SUFFICES ASSUME IInv, [Next]_vars PROVE IInv'
  OBVIOUS
<1>1. cut \in Nat /\ words \in Nat /\ cut <= words /\ todo \subseteq 1 .. n
  BY DEF IInv, RoomInv
<1>2. ASSUME NEW l \in 1 .. n, CutAtAnchor(l) PROVE IInv'
  <2>1. PICK len \in 1 .. MaxAnchor : \E take \in SplitsAtAnchor(l, len) : Give(l, take)
    BY <1>2 DEF CutAtAnchor
  <2>2. PICK take \in SplitsAtAnchor(l, len) : Give(l, take)
    BY <2>1
  <2>3. take \in Int
    BY DEF SplitsAtAnchor
  <2>4. take >= 1 /\ cut + take + Cardinality(todo \ {l}) <= words
    BY <1>2, <2>3, SplitLeavesRoom, RoomLeft DEF CutAtAnchor, IInv
  <2>5. Cardinality(todo \ {l}) \in Nat
    BY <1>1, LinesAreFinite DEF IInv, BlockInv
  <2>6. take \in Nat /\ cut + take <= words
    BY <1>1, <2>3, <2>4, <2>5
  <2>7. QED
    BY <1>2, <2>2, <2>4, <2>6, GiveKeepsRoom DEF CutAtAnchor, IsNext
<1>3. ASSUME NEW l \in 1 .. n, CutByShare(l) PROVE IInv'
  <2>1. Cardinality(todo \ {l}) \in Nat
    BY <1>1, LinesAreFinite DEF IInv, BlockInv
  <2>2. Share(l) \in Int
    <3>1. /\ Count(l) \in Nat /\ ends[n] - ends[l - 1] \in Int /\ ends[n] - ends[l - 1] > 0
      BY <1>3, CountType DEF CutByShare, IInv, RoomInv, IsNext
    <3>2. (words - cut) * Count(l) \in Int
      BY <1>1, <3>1
    <3>3. Round((words - cut) * Count(l), ends[n] - ends[l - 1]) \in Int
      BY <3>1, <3>2, RoundIsNumber
    <3>4. QED
      BY <1>1, <2>1, <3>3 DEF Share, Highest, Least, Greatest
  <2>3. Share(l) >= 1 /\ cut + Share(l) + Cardinality(todo \ {l}) <= words
    BY <1>3, <2>2, SplitLeavesRoom, RoomLeft DEF CutByShare, IInv
  <2>4. Share(l) \in Nat /\ cut + Share(l) <= words
    BY <1>1, <2>1, <2>2, <2>3
  <2>5. QED
    BY <1>3, <2>3, <2>4, GiveKeepsRoom DEF CutByShare, IsNext
<1>4. ASSUME NEW l \in 1 .. n, GiveRest(l) PROVE IInv'
  <2>1. todo = {l} /\ Cardinality(todo) = 1 /\ Cardinality(todo \ {l}) = 0
    BY <1>4, FS_Singleton, FS_EmptySet DEF GiveRest, IsLast
  <2>2. anchors /\ ~Starved /\ words > 0 => words - cut >= 1
    BY <1>1, <2>1 DEF IInv, RoomInv
  <2>3. QED
    BY <1>1, <1>4, <2>1, <2>2, GiveKeepsRoom DEF GiveRest
<1>5. CASE TakeOwnTranslations
  <2>1. PICK len \in [usable -> 1 .. MaxAnchor] :
          bucket' = [l \in 1 .. n |-> IF l \in usable THEN [from |-> 1, to |-> len[l]] ELSE Nothing]
    BY <1>5 DEF TakeOwnTranslations
  <2>2. /\ UNCHANGED block /\ anchors /\ Starved /\ cut' = cut /\ todo' = {}
    BY <1>5 DEF TakeOwnTranslations
  <2>3. /\ TextLines' = TextLines /\ Starved' /\ BlockInv'
        /\ n' = n /\ words' = words /\ usable \subseteq TextLines
    BY <2>2, BlockConstant DEF IInv, BlockInv, block
  <2>4. bucket' \in [1 .. n -> [from : Int, to : Int]]
    BY <2>1, AlignmentAssumption DEF Nothing, AlignmentAssumption
  <2>5. \A l \in (1 .. n) \ TextLines : bucket'[l].to < bucket'[l].from
    BY <2>1, <2>3 DEF Nothing
  <2>6. QED
    BY <1>1, <2>2, <2>3, <2>4, <2>5 DEF IInv, RoomInv
<1>6. ASSUME NEW l \in 1 .. n, CutProportionally(l) PROVE IInv'
  <2>1. ProportionalShare(l) \in Int /\ ProportionalShare(l) >= 0
        /\ cut + ProportionalShare(l) <= words
    <3>1. Count(l) \in Nat /\ ends[n] \in Nat /\ ends[n] > 0
      BY CountType DEF IInv
    <3>2. words * Count(l) \in Int
      BY <1>1, <3>1
    <3>3. Round(words * Count(l), ends[n]) \in Int
      BY <3>1, <3>2, RoundIsNumber
    <3>4. QED
      BY <1>1, <3>3 DEF ProportionalShare, Least, Greatest
  <2>2. ProportionalShare(l) \in Nat
    BY <2>1
  <2>3. Give(l, ProportionalShare(l)) /\ UNCHANGED <<block, phase>> /\ phase = "align" /\ l \in todo
        /\ ~anchors
    BY <1>6 DEF CutProportionally, IsNext
  <2>4. QED
    BY <2>1, <2>2, <2>3, GiveKeepsRoom
<1>7. CASE RestToLastLine
  <2>1. n \in 1 .. n /\ n \in todo /\ words - cut \in Nat /\ cut + (words - cut) <= words
    BY <1>1, <1>7 DEF RestToLastLine, IsLast, IInv, BlockInv
  <2>2. QED
    BY <1>7, <2>1, GiveKeepsRoom DEF RestToLastLine
<1>8. CASE PlaceWords
  <2>1. UNCHANGED <<block, todo, cut, bucket>> /\ phase # "align"
    BY <1>8 DEF PlaceWords
  <2>2. QED
    BY <2>1, BlockConstant DEF IInv, RoomInv, block
<1>9. CASE UNCHANGED vars
  BY <1>9, BlockConstant DEF vars, IInv, RoomInv, block
<1>10. QED
  BY <1>2, <1>3, <1>4, <1>5, <1>6, <1>7, <1>8, <1>9 DEF Next

\* So it holds at all times.
LEMMA Invariant == Spec => []IInv
  BY IInit, IStep, PTL DEF Spec

\* However many lines and words, and whatever the anchors matched: no line of text
\* of a block that has a word for each is left without one.
THEOREM NoTextLineEmptyCorrect == Spec => []NoTextLineEmpty
<1>1. IInv => NoTextLineEmpty
  BY DEF IInv, RoomInv, NoTextLineEmpty
<1>2. QED
  BY <1>1, Invariant, PTL

\* With anchors no word goes to a line that has no text.
THEOREM BlanksEmptyCorrect == Spec => []AnchorsLeaveBlanksEmpty
<1>1. IInv => AnchorsLeaveBlanksEmpty
  BY DEF IInv, RoomInv, AnchorsLeaveBlanksEmpty
<1>2. QED
  BY <1>1, Invariant, PTL

-----------------------------------------------------------------------------
(***************************************************************************)
(* The words a block's lines hold.  The buckets tile the words cut so far, *)
(* in the order of the lines; a line the loop has not come to has nothing. *)
(***************************************************************************)
Held(l) == bucket[l].from <= bucket[l].to

Tiled == ~(anchors /\ Starved)

TileInv ==
  Tiled =>
    /\ \A l \in 1 .. n : bucket[l].from >= 1 /\ bucket[l].to <= cut
    /\ \A l \in todo : bucket[l] = Nothing /\ \A m \in (1 .. n) \ todo : Held(m) => m < l
    /\ \A l, m \in 1 .. n : l < m /\ Held(l) /\ Held(m) => bucket[l].to < bucket[m].from
    /\ \A w \in 1 .. cut : \E l \in 1 .. n : bucket[l].from <= w /\ w <= bucket[l].to
    /\ \A l \in (1 .. n) \ TextLines : Held(l) => ~anchors /\ l = n
    /\ kept = {}
    /\ phase # "align" => cut = words

\* At the end the Strings of every line hold the words of its bucket.
SpreadInv ==
  phase = "done" =>
    /\ Bare \subseteq approx
    /\ \E k \in [1 .. n -> 0 .. MaxStrings] :
         /\ \A l \in TextLines : k[l] > 0
         /\ strings = [l \in 1 .. n |-> IF l \in kept THEN <<>> ELSE Spread(l, k[l])]

\* The next line of the loop extends the tiling.
LEMMA GiveTiles ==
  ASSUME IInv, TileInv, Tiled, NEW l \in 1 .. n, IsNext(l), NEW take \in Nat, Give(l, take),
         UNCHANGED <<block, kept>>, l \notin TextLines /\ take > 0 => ~anchors /\ l = n,
         phase = "align", phase' # "align" => cut + take = words
  PROVE  TileInv'
<1>1. n' = n /\ words' = words /\ anchors' = anchors /\ TextLines' = TextLines /\ (Tiled' <=> Tiled)
  BY BlockConstant DEF block, Tiled
<1>2. /\ cut' = cut + take /\ todo' = todo \ {l} /\ cut \in Nat
      /\ bucket' = [bucket EXCEPT ![l] = [from |-> cut + 1, to |-> cut + take]]
      /\ bucket \in [1 .. n -> [from : Int, to : Int]] /\ todo \subseteq 1 .. n /\ n \in Nat
  BY DEF Give, IInv, RoomInv, BlockInv
<1>3. /\ bucket'[l].from = cut + 1 /\ bucket'[l].to = cut + take
      /\ \A m \in (1 .. n) \ {l} : bucket'[m] = bucket[m]
      /\ \A m \in 1 .. n : bucket[m].from \in Int /\ bucket[m].to \in Int
  BY <1>2
<1>4. /\ \A m \in (1 .. n) \ {l} : Held(m)' <=> Held(m)
      /\ Held(l)' <=> take > 0
  BY <1>2, <1>3 DEF Held
<1>5. l \in todo /\ \A m \in todo : l <= m
  BY DEF IsNext
<1>6. /\ \A m \in 1 .. n : bucket[m].from >= 1 /\ bucket[m].to <= cut
      /\ \A m \in todo : bucket[m] = Nothing
      /\ \A m \in (1 .. n) \ todo : Held(m) => m < l
      /\ \A p, m \in 1 .. n : p < m /\ Held(p) /\ Held(m) => bucket[p].to < bucket[m].from
      /\ \A m \in (1 .. n) \ TextLines : Held(m) => ~anchors /\ m = n
      /\ kept = {}
  BY <1>5 DEF TileInv
<1>7. \A m \in todo : ~Held(m)
  BY <1>6 DEF Nothing, Held
<1>8. \A m \in 1 .. n : bucket'[m].from >= 1 /\ bucket'[m].to <= cut'
  BY <1>2, <1>3, <1>6
<1>9. ASSUME NEW p \in todo'
      PROVE  bucket'[p] = Nothing /\ \A m \in (1 .. n) \ todo' : Held(m)' => m < p
  <2>1. p \in todo /\ p # l /\ p \in 1 .. n /\ l < p
    BY <1>2, <1>5, <1>9
  <2>2. bucket'[p] = Nothing
    BY <1>3, <1>6, <2>1
  <2>3. ASSUME NEW m \in (1 .. n) \ todo', Held(m)' PROVE m < p
    <3>1. CASE m = l
      BY <2>1, <3>1
    <3>2. CASE m # l
      BY <1>2, <1>4, <1>6, <2>1, <2>3, <3>2
    <3>3. QED
      BY <3>1, <3>2
  <2>4. QED
    BY <2>2, <2>3
<1>10. ASSUME NEW p \in 1 .. n, NEW m \in 1 .. n, p < m, Held(p)', Held(m)'
       PROVE  bucket'[p].to < bucket'[m].from
  <2>1. CASE m = l
    <3>1. p # l /\ bucket'[p] = bucket[p] /\ bucket[p].to <= cut /\ bucket[p].to \in Int
      BY <1>3, <1>6, <1>10, <2>1
    <3>2. QED
      BY <1>2, <1>3, <2>1, <3>1
  <2>2. CASE p = l
    <3>1. m # l /\ Held(m) /\ m \notin todo
      BY <1>4, <1>7, <1>10, <2>2
    <3>2. QED
      BY <1>6, <1>10, <2>2, <3>1
  <2>3. CASE p # l /\ m # l
    BY <1>3, <1>4, <1>6, <1>10, <2>3
  <2>4. QED
    BY <2>1, <2>2, <2>3
<1>11. ASSUME NEW w \in 1 .. cut' PROVE \E m \in 1 .. n : bucket'[m].from <= w /\ w <= bucket'[m].to
  <2>1. CASE w > cut
    BY <1>2, <1>3, <1>11, <2>1
  <2>2. CASE ~(w > cut)
    <3>1. w \in 1 .. cut
      BY <1>2, <1>11, <2>2
    <3>2. PICK m \in 1 .. n : bucket[m].from <= w /\ w <= bucket[m].to
      BY <3>1 DEF TileInv
    <3>3. m # l
      <4>1. bucket[l] = Nothing
        BY <1>5, <1>6
      <4>2. QED
        BY <3>1, <3>2, <4>1 DEF Nothing
    <3>4. QED
      BY <1>3, <3>2, <3>3
  <2>3. QED
    BY <2>1, <2>2
<1>12. \A m \in (1 .. n) \ TextLines : Held(m)' => ~anchors /\ m = n
  BY <1>4, <1>6
<1>13. kept' = {} /\ (phase' # "align" => cut' = words)
  BY <1>2, <1>6
<1>14. QED
  BY <1>1, <1>8, <1>9, <1>10, <1>11, <1>12, <1>13 DEF TileInv

\* A cut takes a number of words.
LEMMA CutsAreNumbers ==
  ASSUME IInv, NEW l \in 1 .. n
  PROVE  /\ CutByShare(l) => Share(l) \in Nat
         /\ CutProportionally(l) =>
              /\ ProportionalShare(l) \in Nat /\ cut + ProportionalShare(l) <= words
              /\ Count(l) = 0 => ProportionalShare(l) = 0
<1>1. cut \in Nat /\ words \in Nat /\ cut <= words /\ todo \subseteq 1 .. n
  BY DEF IInv, RoomInv
<1>2. /\ Count(l) \in Nat /\ ends[n] \in Nat /\ ends[n] > 0 /\ ends[l - 1] \in Nat
      /\ l \in TextLines => ends[n] - ends[l - 1] > 0
  BY CountType DEF IInv
<1>3. ASSUME CutByShare(l) PROVE Share(l) \in Nat
  <2>1. (words - cut) * Count(l) \in Int
    BY <1>1, <1>2
  <2>2. l \in TextLines
    BY <1>3 DEF CutByShare, IsNext, IInv, RoomInv
  <2>3. Round((words - cut) * Count(l), ends[n] - ends[l - 1]) \in Int
    BY <1>2, <2>1, <2>2, RoundIsNumber
  <2>4. Cardinality(todo \ {l}) \in Nat
    BY <1>1, LinesAreFinite DEF IInv, BlockInv
  <2>5. QED
    BY <1>1, <2>3, <2>4 DEF Share, Highest, Least, Greatest
<1>4. words * Count(l) \in Int
  BY <1>1, <1>2
<1>5. Round(words * Count(l), ends[n]) \in Int
  BY <1>2, <1>4, RoundIsNumber
<1>6. /\ ProportionalShare(l) \in Nat /\ cut + ProportionalShare(l) <= words
      /\ Count(l) = 0 => ProportionalShare(l) = 0
  BY <1>1, <1>5 DEF ProportionalShare, Least, Greatest
<1>7. QED
  BY <1>3, <1>6

\* Every placement keeps the tiling.
LEMMA TileStep == IInv /\ TileInv /\ [Next]_vars => TileInv'
<1> SUFFICES ASSUME IInv, TileInv, [Next]_vars PROVE TileInv'
  OBVIOUS
<1>0. cut \in Nat /\ words \in Nat /\ cut <= words /\ todo \subseteq 1 .. n /\ (anchors => todo \subseteq TextLines)
  BY DEF IInv, RoomInv
<1>1. ASSUME NEW l \in 1 .. n, CutAtAnchor(l) PROVE TileInv'
  <2>1. PICK len \in 1 .. MaxAnchor : \E take \in SplitsAtAnchor(l, len) : Give(l, take)
    BY <1>1 DEF CutAtAnchor
  <2>2. PICK take \in SplitsAtAnchor(l, len) : Give(l, take)
    BY <2>1
  <2>3. take \in Int /\ take >= 1
    <3>1. take \in Int
      BY DEF SplitsAtAnchor
    <3>2. QED
      BY <1>1, <3>1, SplitLeavesRoom DEF CutAtAnchor, IInv
  <2>4. take \in Nat
    BY <2>3
  <2>5. IsNext(l) /\ l \in TextLines /\ UNCHANGED <<block, phase, kept>> /\ phase = "align" /\ Tiled
    BY <1>0, <1>1 DEF CutAtAnchor, IsNext, Tiled
  <2>6. QED
    BY <2>2, <2>4, <2>5, GiveTiles
<1>2. ASSUME NEW l \in 1 .. n, CutByShare(l) PROVE TileInv'
  <2>1. Share(l) \in Nat
    BY <1>2, CutsAreNumbers
  <2>2. /\ IsNext(l) /\ l \in TextLines /\ UNCHANGED <<block, phase, kept>> /\ phase = "align" /\ Tiled
        /\ Give(l, Share(l))
    BY <1>0, <1>2 DEF CutByShare, IsNext, Tiled
  <2>3. QED
    BY <2>1, <2>2, GiveTiles
<1>3. ASSUME NEW l \in 1 .. n, GiveRest(l) PROVE TileInv'
  <2>1. words - cut \in Nat /\ cut + (words - cut) = words
    BY <1>0
  <2>2. /\ IsNext(l) /\ l \in TextLines /\ UNCHANGED <<block, kept>> /\ phase = "align" /\ Tiled
        /\ Give(l, words - cut)
    BY <1>0, <1>3 DEF GiveRest, IsNext, IsLast, Tiled
  <2>3. QED
    BY <2>1, <2>2, GiveTiles
<1>4. CASE TakeOwnTranslations
  <2>1. ~Tiled /\ UNCHANGED block
    BY <1>4 DEF TakeOwnTranslations, Tiled
  <2>2. ~Tiled'
    BY <2>1, BlockConstant DEF Tiled, block
  <2>3. QED
    BY <2>2 DEF TileInv
<1>5. ASSUME NEW l \in 1 .. n, CutProportionally(l) PROVE TileInv'
  <2>1. /\ ProportionalShare(l) \in Nat /\ Count(l) \in Nat
        /\ Count(l) = 0 => ProportionalShare(l) = 0
    BY <1>5, CutsAreNumbers, CountType DEF IInv
  <2>2. l \notin TextLines => ProportionalShare(l) = 0
    BY <2>1 DEF TextLines
  <2>3. /\ IsNext(l) /\ UNCHANGED <<block, phase, kept>> /\ phase = "align" /\ Tiled
        /\ Give(l, ProportionalShare(l))
    BY <1>5 DEF CutProportionally, Tiled
  <2>4. QED
    BY <2>1, <2>2, <2>3, GiveTiles
<1>6. CASE RestToLastLine
  <2>1. words - cut \in Nat /\ cut + (words - cut) = words /\ n \in 1 .. n
    BY <1>0, <1>6 DEF IInv, BlockInv
  <2>2. /\ IsNext(n) /\ UNCHANGED <<block, kept>> /\ phase = "align" /\ Tiled /\ ~anchors
        /\ Give(n, words - cut)
    BY <1>0, <1>6, <2>1 DEF RestToLastLine, IsNext, IsLast, Tiled
  <2>3. QED
    BY <2>1, <2>2, GiveTiles
<1>7. CASE PlaceWords
  <2>1. UNCHANGED <<block, todo, cut, bucket, kept>> /\ phase # "align"
    BY <1>7 DEF PlaceWords
  <2>2. QED
    BY <2>1, BlockConstant DEF TileInv, Tiled, Held, block
<1>8. CASE UNCHANGED vars
  BY <1>8, BlockConstant DEF vars, TileInv, Tiled, Held, block
<1>9. QED
  BY <1>1, <1>2, <1>3, <1>4, <1>5, <1>6, <1>7, <1>8 DEF Next

\* The Strings are filled once, at the end.
LEMMA SpreadStep == SpreadInv /\ [Next]_vars => SpreadInv'
<1> SUFFICES ASSUME SpreadInv, [Next]_vars PROVE SpreadInv'
  OBVIOUS
<1>1. CASE PlaceWords
  <2>1. UNCHANGED <<block, bucket, kept>>
    BY <1>1 DEF PlaceWords
  <2>2. TextLines' = TextLines /\ n' = n /\ Bare' = Bare
    BY <2>1, BlockConstant DEF Bare, block
  <2>3. PICK k \in [1 .. n -> 0 .. MaxStrings] :
           /\ \A l \in TextLines : k[l] > 0
           /\ strings' = [l \in 1 .. n |-> IF l \in kept THEN <<>> ELSE Spread(l, k[l])]
    BY <1>1 DEF PlaceWords
  <2>4. Bare' \subseteq approx'
    BY <1>1, <2>2 DEF PlaceWords, FlaggedLines
  <2>5. strings' = [l \in 1 .. n' |-> IF l \in kept' THEN <<>> ELSE Spread(l, k[l])']
    BY <2>1, <2>2, <2>3 DEF Spread
  <2>6. k \in [1 .. n' -> 0 .. MaxStrings] /\ \A l \in TextLines' : k[l] > 0
    BY <2>2, <2>3
  <2>7. QED
    BY <2>4, <2>5, <2>6 DEF SpreadInv
<1>2. CASE UNCHANGED vars
  <2>1. UNCHANGED <<n, phase, bucket, kept, approx, strings>> /\ TextLines' = TextLines
    BY <1>2, BlockConstant DEF vars, block
  <2>2. Bare' = Bare
    BY <2>1 DEF Bare
  <2>3. \A l, k : Spread(l, k)' = Spread(l, k)
    BY <2>1 DEF Spread
  <2>4. QED
    BY <2>1, <2>2, <2>3 DEF SpreadInv
<1>3. CASE ~PlaceWords /\ Next
  <2>1. phase' # "done"
    BY <1>3 DEF Next, CutAtAnchor, CutByShare, GiveRest, TakeOwnTranslations, CutProportionally,
       RestToLastLine
  <2>2. QED
    BY <2>1 DEF SpreadInv
<1>4. QED
  BY <1>1, <1>2, <1>3

-----------------------------------------------------------------------------
(***************************************************************************)
(* Where a word is: in the one line whose bucket has it, in the String of  *)
(* its number, or in the last one.                                         *)
(***************************************************************************)

\* The words of one String of _distribute_tokens.
LEMMA SpreadWords ==
  ASSUME NEW l, bucket[l].from \in Int, bucket[l].to \in Int, NEW k \in Nat, NEW i \in 1 .. k, NEW w
  PROVE  w \in Spread(l, k)[i] <=>
           /\ w \in Int /\ bucket[l].from + i - 1 <= w /\ w <= bucket[l].to
           /\ i < k => w = bucket[l].from + i - 1
<1>1. Spread(l, k)[i] = IF i < k
        THEN (bucket[l].from + i - 1) .. Least(bucket[l].from + i - 1, bucket[l].to)
        ELSE (bucket[l].from + i - 1) .. bucket[l].to
  BY DEF Spread
<1>2. QED
  BY <1>1 DEF Least

\* A place holds a word of its line's bucket.
LEMMA PlaceHolds ==
  ASSUME IInv, TileInv, SpreadInv, phase = "done", Tiled, NEW l \in 1 .. n
  PROVE  \E k \in 0 .. MaxStrings :
           /\ l \in TextLines => k > 0
           /\ \A i \in 1 .. MaxStrings, w \in Int :
                Holds(<<l, i>>, w) <=>
                  /\ i <= k /\ bucket[l].from + i - 1 <= w /\ w <= bucket[l].to
                  /\ i < k => w = bucket[l].from + i - 1
<1>1. PICK K \in [1 .. n -> 0 .. MaxStrings] :
        /\ \A m \in TextLines : K[m] > 0
        /\ strings = [m \in 1 .. n |-> IF m \in kept THEN <<>> ELSE Spread(m, K[m])]
  BY DEF SpreadInv
<1>2. K[l] \in 0 .. MaxStrings /\ K[l] \in Nat /\ strings[l] = Spread(l, K[l])
  BY <1>1, AlignmentAssumption DEF TileInv
<1>3. bucket[l].from \in Int /\ bucket[l].to \in Int
  BY DEF IInv, RoomInv
<1>4. DOMAIN strings[l] = 1 .. K[l]
  BY <1>2 DEF Spread
<1>5. ASSUME NEW i \in 1 .. MaxStrings, NEW w \in Int
      PROVE  Holds(<<l, i>>, w) <=>
               /\ i <= K[l] /\ bucket[l].from + i - 1 <= w /\ w <= bucket[l].to
               /\ i < K[l] => w = bucket[l].from + i - 1
  <2>1. Holds(<<l, i>>, w) <=> i \in 1 .. K[l] /\ w \in Spread(l, K[l])[i]
    BY <1>2, <1>4 DEF Holds
  <2>2. i \in 1 .. K[l] <=> i <= K[l]
    BY <1>2, AlignmentAssumption
  <2>3. QED
    BY <1>2, <1>3, <2>1, <2>2, SpreadWords
<1>6. QED
  BY <1>1, <1>2, <1>5

\* Every word is in one place, and the places keep the order of the words.
LEMMA KeptInOrder ==
  ASSUME IInv, TileInv, SpreadInv, phase = "done", Tiled, anchors \/ n \in TextLines
  PROVE  /\ \A w \in 1 .. words :
              \E p \in Places : Holds(p, w) /\ \A q \in Places \ {p} : ~Holds(q, w)
         /\ \A v, w \in 1 .. words : \A p, q \in Places :
              Holds(p, v) /\ Holds(q, w) /\ Before(p, q) => v < w
<1>1. n \in Nat /\ words \in Nat /\ cut = words /\ MaxStrings \in Nat
  BY AlignmentAssumption DEF IInv, BlockInv, RoomInv, TileInv
<1>2. \A l \in 1 .. n : bucket[l].from \in Int /\ bucket[l].to \in Int
  BY DEF IInv, RoomInv
<1>3. \A l, m \in 1 .. n : l < m /\ Held(l) /\ Held(m) => bucket[l].to < bucket[m].from
  BY DEF TileInv
<1>4. ASSUME NEW l \in 1 .. n, NEW i \in 1 .. MaxStrings, NEW w \in 1 .. words, Holds(<<l, i>>, w)
      PROVE  /\ Held(l) /\ bucket[l].from + i - 1 <= w /\ w <= bucket[l].to
             /\ \A j \in 1 .. MaxStrings, v \in 1 .. words :
                  Holds(<<l, j>>, v) /\ i < j => w = bucket[l].from + i - 1
  <2>1. PICK k \in 0 .. MaxStrings :
           \A j \in 1 .. MaxStrings, v \in Int :
             Holds(<<l, j>>, v) <=>
               /\ j <= k /\ bucket[l].from + j - 1 <= v /\ v <= bucket[l].to
               /\ j < k => v = bucket[l].from + j - 1
    BY PlaceHolds
  <2>2. bucket[l].from + i - 1 <= w /\ w <= bucket[l].to /\ (i < k => w = bucket[l].from + i - 1)
    BY <1>4, <2>1
  <2>3. Held(l)
    BY <1>2, <2>2 DEF Held
  <2>4. ASSUME NEW j \in 1 .. MaxStrings, NEW v \in 1 .. words, Holds(<<l, j>>, v), i < j
        PROVE  w = bucket[l].from + i - 1
    <3>1. j <= k /\ k \in Int
      BY <2>1, <2>4
    <3>2. QED
      BY <2>2, <2>4, <3>1
  <2>5. QED
    BY <2>2, <2>3, <2>4
<1>5. ASSUME NEW w \in 1 .. words
      PROVE  \E p \in Places : Holds(p, w) /\ \A q \in Places \ {p} : ~Holds(q, w)
  <2>1. PICK l \in 1 .. n : bucket[l].from <= w /\ w <= bucket[l].to
    BY <1>1, <1>5 DEF TileInv
  <2>2. Held(l)
    BY <1>2, <2>1 DEF Held
  <2>3. l \in TextLines
    BY <2>2 DEF TileInv
  <2>4. PICK k \in 0 .. MaxStrings :
           /\ k > 0
           /\ \A j \in 1 .. MaxStrings, v \in Int :
                Holds(<<l, j>>, v) <=>
                  /\ j <= k /\ bucket[l].from + j - 1 <= v /\ v <= bucket[l].to
                  /\ j < k => v = bucket[l].from + j - 1
    BY <2>3, PlaceHolds
  <2> DEFINE i == IF w - bucket[l].from + 1 < k THEN w - bucket[l].from + 1 ELSE k
  <2>5. i \in 1 .. MaxStrings /\ i <= k /\ (i < k => w = bucket[l].from + i - 1)
        /\ bucket[l].from + i - 1 <= w
    BY <1>1, <1>2, <2>1, <2>4
  <2> HIDE DEF i
  <2>6. Holds(<<l, i>>, w)
    BY <2>1, <2>4, <2>5
  <2>7. ASSUME NEW m \in 1 .. n, NEW j \in 1 .. MaxStrings, Holds(<<m, j>>, w)
        PROVE  m = l /\ j = i
    <3>1. Held(m) /\ bucket[m].from + j - 1 <= w /\ w <= bucket[m].to
      BY <1>4, <2>7
    <3>2. bucket[m].from <= w
      BY <1>2, <2>7, <3>1
    <3>3. ~(l < m) /\ ~(m < l)
      BY <1>2, <1>3, <2>1, <2>2, <3>1, <3>2
    <3>4. m = l
      BY <3>3
    <3>5. j <= k /\ (j < k => w = bucket[l].from + j - 1)
      BY <2>4, <2>7, <3>4
    <3>6. j = i
      BY <1>2, <2>4, <2>5, <3>1, <3>4, <3>5
    <3>7. QED
      BY <3>4, <3>6
  <2>8. <<l, i>> \in Places
    BY <2>5 DEF Places
  <2>9. ASSUME NEW q \in Places, q # <<l, i>> PROVE ~Holds(q, w)
    <3>1. PICK m \in 1 .. n, j \in 1 .. MaxStrings : q = <<m, j>>
      BY DEF Places
    <3>2. QED
      BY <2>7, <2>9, <3>1
  <2>10. QED
    BY <2>6, <2>8, <2>9
<1>6. ASSUME NEW v \in 1 .. words, NEW w \in 1 .. words, NEW p \in Places, NEW q \in Places,
             Holds(p, v), Holds(q, w), Before(p, q)
      PROVE  v < w
  <2>1. PICK l \in 1 .. n, i \in 1 .. MaxStrings : p = <<l, i>>
    BY DEF Places
  <2>2. PICK m \in 1 .. n, j \in 1 .. MaxStrings : q = <<m, j>>
    BY DEF Places
  <2>3. l < m \/ (l = m /\ i < j)
    BY <1>6, <2>1, <2>2 DEF Before
  <2>4. Held(l) /\ v <= bucket[l].to
    BY <1>4, <1>6, <2>1
  <2>5. Held(m) /\ bucket[m].from + j - 1 <= w
    BY <1>4, <1>6, <2>2
  <2>6. CASE l < m
    BY <1>2, <1>3, <2>4, <2>5, <2>6
  <2>7. CASE l = m /\ i < j
    <3>1. v = bucket[l].from + i - 1
      BY <1>4, <1>6, <2>1, <2>2, <2>7
    <3>2. QED
      BY <1>2, <2>5, <2>7, <3>1
  <2>8. QED
    BY <2>3, <2>6, <2>7
<1>7. QED
  BY <1>5, <1>6

\* A line whose bucket has a word has it in its first String, or its only one.
LEMMA EmptyFlagged ==
  ASSUME IInv, SpreadInv, phase = "done", NEW l \in TextLines,
         \A i \in DOMAIN strings[l] : strings[l][i] = {}
  PROVE  l \in approx \cup kept
<1>1. l \in 1 .. n
  BY DEF TextLines
<1>2. SUFFICES ASSUME l \notin kept PROVE l \in Bare
  BY DEF SpreadInv
<1>3. PICK K \in [1 .. n -> 0 .. MaxStrings] :
        /\ \A m \in TextLines : K[m] > 0
        /\ strings = [m \in 1 .. n |-> IF m \in kept THEN <<>> ELSE Spread(m, K[m])]
  BY DEF SpreadInv
<1>4. K[l] \in Nat /\ K[l] > 0 /\ strings[l] = Spread(l, K[l])
  BY <1>1, <1>2, <1>3, AlignmentAssumption
<1>5. bucket[l].from \in Int /\ bucket[l].to \in Int
  BY <1>1 DEF IInv, RoomInv
<1>6. 1 \in 1 .. K[l] /\ 1 \in DOMAIN strings[l]
  BY <1>4 DEF Spread
<1>7. bucket[l].from \notin Spread(l, K[l])[1]
  BY <1>4, <1>6
<1>8. bucket[l].to < bucket[l].from
  BY <1>4, <1>5, <1>6, <1>7, SpreadWords
<1>9. QED
  BY <1>2, <1>8 DEF Bare

-----------------------------------------------------------------------------
(***************************************************************************)
(* The words of the lines, added up.  Each lemma looks at the first line   *)
(* up to which the sum would be wrong: it is right before that line, and   *)
(* the line adds its own words.                                            *)
(***************************************************************************)
TextUpTo(a, b) == {l \in TextLines : a < l /\ l <= b}

\* One more line: its words, and the line itself if it has any.
LEMMA OneMoreLine ==
  ASSUME BlockInv, NEW a \in 0 .. n, NEW b \in 1 .. n, a < b
  PROVE  /\ ends[b] = ends[b - 1] + Count(b) /\ Count(b) \in Nat
         /\ ends[b] \in Nat /\ ends[b - 1] \in Nat /\ ends[a] \in Nat
         /\ IsFiniteSet(TextUpTo(a, b)) /\ Cardinality(TextUpTo(a, b - 1)) \in Nat
         /\ b \in TextLines <=> Count(b) > 0
         /\ Cardinality(TextUpTo(a, b)) =
              Cardinality(TextUpTo(a, b - 1)) + (IF b \in TextLines THEN 1 ELSE 0)
<1>1. n \in Nat /\ b - 1 \in 0 .. n /\ b \in 0 .. n
  BY DEF BlockInv
<1>2. ends[b] \in Nat /\ ends[b - 1] \in Nat /\ ends[a] \in Nat /\ ends[b - 1] <= ends[b]
  BY <1>1, CountsAreNumbers DEF BlockInv
<1>3. TextUpTo(a, b) \subseteq 1 .. n /\ TextUpTo(a, b - 1) \subseteq 1 .. n
  BY DEF TextUpTo, TextLines
<1>4. /\ IsFiniteSet(TextUpTo(a, b)) /\ IsFiniteSet(TextUpTo(a, b - 1))
      /\ Cardinality(TextUpTo(a, b - 1)) \in Nat
  BY <1>1, <1>3, LinesAreFinite
<1>5. \A l \in TextLines : l \in Int
  BY DEF TextLines
<1>6. CASE b \in TextLines
  <2>1. TextUpTo(a, b) = TextUpTo(a, b - 1) \cup {b} /\ b \notin TextUpTo(a, b - 1)
    <3>1. a \in Int /\ b \in Int /\ a < b
      BY <1>1
    <3>2. \A l \in TextLines : (a < l /\ l <= b) <=> (a < l /\ l <= b - 1) \/ l = b
      BY <1>5, <3>1
    <3>3. b \notin TextUpTo(a, b - 1)
      BY <3>1 DEF TextUpTo
    <3>4. QED
      BY <1>6, <3>2, <3>3 DEF TextUpTo
  <2>2. Cardinality(TextUpTo(a, b)) = Cardinality(TextUpTo(a, b - 1)) + 1
    BY <1>4, <2>1, FS_AddElement
  <2>3. QED
    BY <1>2, <1>4, <1>6, <2>2 DEF Count, TextLines
<1>7. CASE b \notin TextLines
  <2>1. TextUpTo(a, b) = TextUpTo(a, b - 1)
    BY <1>5, <1>7 DEF TextUpTo
  <2>2. QED
    BY <1>2, <1>4, <1>7, <2>1 DEF Count, TextLines
<1>8. QED
  BY <1>6, <1>7

\* A product of a sum.
LEMMA SumTimes ==
  ASSUME NEW x \in Nat, NEW y \in Nat, NEW z \in Nat
  PROVE  /\ x * (y + z) = x * y + x * z /\ (y + 1) * x = y * x + x
         /\ x * y \in Nat
  OBVIOUS

\* No more words than lines of text times the most words on one of them.
LEMMA WordsAtMost ==
  ASSUME BlockInv, NEW c \in Nat, NEW d \in Nat, \A l \in TextLines : c * Count(l) <= d
  PROVE  c * ends[n] <= Cardinality(TextLines) * d
<1> DEFINE T(b) == Cardinality(TextUpTo(0, b))
           S == {b \in 0 .. n : ~(c * ends[b] <= T(b) * d)}
<1>1. n \in Nat /\ n \in 0 .. n /\ 0 \in 0 .. n /\ S \subseteq Nat
  BY DEF BlockInv
<1>2. TextUpTo(0, n) = TextLines
  BY <1>1 DEF TextUpTo, TextLines
<1>3. ASSUME S # {} PROVE FALSE
  <2> HIDE DEF S
  <2>1. PICK m \in S : \A b \in S : m <= b
    BY <1>1, <1>3, LeastExists
  <2>2. m \in 0 .. n /\ ~(c * ends[m] <= T(m) * d)
    BY DEF S
  <2>3. m # 0
    <3>1. ends[0] = 0 /\ TextUpTo(0, 0) = {}
      BY <1>1 DEF BlockInv, Cumulative, TextUpTo, TextLines
    <3>2. T(0) = 0
      BY <3>1, FS_EmptySet
    <3>3. c * ends[0] <= T(0) * d
      BY <3>1, <3>2
    <3>4. QED
      BY <2>2, <3>3
  <2>4. m \in 1 .. n /\ m - 1 \in 0 .. n /\ m - 1 \notin S
    BY <1>1, <2>1, <2>2, <2>3
  <2>5. c * ends[m - 1] <= T(m - 1) * d
    BY <2>4 DEF S
  <2>6. /\ ends[m] = ends[m - 1] + Count(m) /\ Count(m) \in Nat /\ ends[m - 1] \in Nat
        /\ T(m - 1) \in Nat /\ (m \in TextLines <=> Count(m) > 0)
        /\ T(m) = T(m - 1) + (IF m \in TextLines THEN 1 ELSE 0)
    BY <1>1, <2>4, OneMoreLine
  <2> HIDE DEF T
  <2>7. CASE m \in TextLines
    <3>1. c * Count(m) <= d
      BY <2>7
    <3>2. /\ c * (ends[m - 1] + Count(m)) = c * ends[m - 1] + c * Count(m)
          /\ (T(m - 1) + 1) * d = T(m - 1) * d + d
          /\ c * ends[m - 1] \in Int /\ c * Count(m) \in Int /\ T(m - 1) * d \in Int
      <4>1. ends[m - 1] \in Nat /\ Count(m) \in Nat /\ T(m - 1) \in Nat
        BY <2>6
      <4>2. c * (ends[m - 1] + Count(m)) = c * ends[m - 1] + c * Count(m)
        BY <4>1, SumTimes
      <4>3. (T(m - 1) + 1) * d = T(m - 1) * d + d
        BY <4>1, SumTimes
      <4>4. c * ends[m - 1] \in Int /\ c * Count(m) \in Int /\ T(m - 1) * d \in Int
        BY <4>1, SumTimes
      <4>5. QED
        BY <4>2, <4>3, <4>4
    <3>3. c * ends[m] <= T(m) * d
      BY <2>5, <2>6, <2>7, <3>1, <3>2
    <3>4. QED
      BY <2>2, <3>3
  <2>8. CASE m \notin TextLines
    <3>1. ends[m] = ends[m - 1] /\ T(m) = T(m - 1)
      BY <2>6, <2>8
    <3>2. QED
      BY <2>2, <2>5, <3>1
  <2>9. QED
    BY <2>7, <2>8
<1>4. n \notin S
  BY <1>3
<1>5. QED
  BY <1>1, <1>2, <1>4

\* At least one word for each of the lines of text.
LEMMA WordsAtLeast ==
  ASSUME BlockInv, NEW a \in 0 .. n
  PROVE  Cardinality(TextUpTo(a, n)) <= ends[n] - ends[a]
<1> DEFINE T(b) == Cardinality(TextUpTo(a, b))
           S == {b \in a .. n : ~(T(b) <= ends[b] - ends[a])}
<1>1. n \in Nat /\ a \in Nat /\ n \in a .. n /\ S \subseteq Nat
  BY DEF BlockInv
<1>2. ASSUME S # {} PROVE FALSE
  <2> HIDE DEF S
  <2>1. PICK m \in S : \A b \in S : m <= b
    BY <1>1, <1>2, LeastExists
  <2>2. m \in a .. n /\ ~(T(m) <= ends[m] - ends[a])
    BY DEF S
  <2>3. m # a
    <3>1. TextUpTo(a, a) = {}
      BY <1>1 DEF TextUpTo, TextLines
    <3>2. T(a) = 0
      BY <3>1, FS_EmptySet
    <3>3. ends[a] \in Nat
      BY <1>1, CountsAreNumbers DEF BlockInv
    <3>4. T(a) <= ends[a] - ends[a]
      BY <3>2, <3>3
    <3>5. QED
      BY <2>2, <3>4
  <2>4. m \in 1 .. n /\ m - 1 \in a .. n /\ m - 1 \notin S /\ a < m
    BY <1>1, <2>1, <2>2, <2>3
  <2>5. T(m - 1) <= ends[m - 1] - ends[a]
    BY <2>4 DEF S
  <2>6. /\ ends[m] = ends[m - 1] + Count(m) /\ Count(m) \in Nat /\ ends[m - 1] \in Nat /\ ends[a] \in Nat
        /\ T(m - 1) \in Nat /\ (m \in TextLines <=> Count(m) > 0)
        /\ T(m) = T(m - 1) + (IF m \in TextLines THEN 1 ELSE 0)
    BY <1>1, <2>4, OneMoreLine
  <2> HIDE DEF T
  <2>7. QED
    BY <2>2, <2>5, <2>6
<1>3. n \notin S
  BY <1>2
<1>4. QED
  BY <1>1, <1>3

\* Lines without text add nothing.
LEMMA BlankLinesAddNothing ==
  ASSUME BlockInv, NEW a \in 0 .. n, NEW b \in a .. n, TextUpTo(a, b) = {}
  PROVE  ends[b] = ends[a]
<1> DEFINE S == {c \in a .. b : ends[c] # ends[a]}
<1>1. n \in Nat /\ a \in Nat /\ b \in Nat /\ b \in a .. b /\ S \subseteq Nat
  BY DEF BlockInv
<1>2. ASSUME S # {} PROVE FALSE
  <2> HIDE DEF S
  <2>1. PICK m \in S : \A c \in S : m <= c
    BY <1>1, <1>2, LeastExists
  <2>2. m \in a .. b /\ ends[m] # ends[a]
    BY DEF S
  <2>3. m \in 1 .. n /\ m - 1 \in a .. b /\ m - 1 \notin S /\ a < m
    BY <1>1, <2>1, <2>2
  <2>4. ends[m - 1] = ends[a]
    BY <2>3 DEF S
  <2>5. ends[m] = ends[m - 1] + Count(m) /\ Count(m) \in Nat /\ ends[m - 1] \in Nat
        /\ (m \in TextLines <=> Count(m) > 0)
    BY <1>1, <2>3, OneMoreLine
  <2>6. m \in TextUpTo(a, b)
    BY <2>2, <2>3, <2>4, <2>5 DEF TextUpTo
  <2>7. QED
    BY <2>6
<1>3. b \notin S
  BY <1>2
<1>4. QED
  BY <1>1, <1>3

-----------------------------------------------------------------------------
(***************************************************************************)
(* What a fast alignment leaves the lines of text.                         *)
(***************************************************************************)

\* As long as every line of text was left bare, no word is given, and the words of
\* each of those lines are too few for their share to round up.
NoneHolds == \A l \in TextLines : ~Held(l)

HoldInv ==
  ~anchors /\ ~Starved /\ words > 0 =>
    IF phase = "align"
      THEN NoneHolds =>
             cut = 0 /\ \A l \in TextLines \ todo : 2 * (words * Count(l)) <= ends[n]
      ELSE ~NoneHolds

\* A share that rounds down to nothing is at most a half.
LEMMA RoundsToNothing ==
  ASSUME NEW p \in Nat, NEW q \in Nat, q > 0, Round(p, q) <= 0
  PROVE  2 * p <= q
<1> DEFINE d == p \div q
           r == p % q
<1>1. d \in Nat /\ r \in 0 .. q - 1
  OBVIOUS
<1>2. p = q * d + r
  OBVIOUS
<1>3. Round(p, q) = IF 2 * r < q \/ (2 * r = q /\ d % 2 = 0) THEN d ELSE d + 1
  BY DEF Round
<1> HIDE DEF d, r
<1>4. d = 0 /\ 2 * r <= q
  BY <1>1, <1>3
<1>5. QED
  BY <1>1, <1>2, <1>4

\* Lines of text that all round down to nothing are more than the words are.
LEMMA TooFewWords ==
  ASSUME BlockInv, \A l \in TextLines : 2 * (words * Count(l)) <= ends[n], words > 0
  PROVE  Starved
<1>1. /\ n \in Nat \ {0} /\ words \in Nat /\ n \in 1 .. n
      /\ \A l \in TextLines : l \in 1 .. n
  BY DEF BlockInv, TextLines
<1>2. ends[n] \in Nat /\ ends[n] > 0
  BY <1>1, CountType
<1>3. \A l \in TextLines : (2 * words) * Count(l) <= ends[n]
  <2> TAKE l \in TextLines
  <2>1. Count(l) \in Nat
    BY <1>1, CountType
  <2>2. (2 * words) * Count(l) = 2 * (words * Count(l))
    BY <1>1, <2>1
  <2>3. QED
    BY <2>2
<1>4. 2 * words \in Nat
  BY <1>1
<1>5. (2 * words) * ends[n] <= Cardinality(TextLines) * ends[n]
  BY <1>2, <1>3, <1>4, WordsAtMost
<1>6. Cardinality(TextLines) \in Nat
  BY <1>1, LinesAreFinite
<1>7. ASSUME NEW x \in Nat, NEW y \in Nat, NEW z \in Nat, z > 0, x * z <= y * z
      PROVE  x <= y
  <2>1. CASE y < x
    <3>1. PICK u \in Nat : x = y + u /\ u > 0
      <4>1. x - y \in Nat /\ x = y + (x - y) /\ x - y > 0
        BY <2>1
      <4>2. QED
        BY <4>1
    <3>2. x * z = y * z + u * z
      BY <3>1
    <3>3. u * z > 0 /\ y * z \in Nat /\ u * z \in Nat
      BY <1>7, <3>1
    <3>4. QED
      BY <1>7, <3>2, <3>3
  <2>2. QED
    BY <2>1
<1>8. 2 * words <= Cardinality(TextLines)
  BY <1>2, <1>4, <1>5, <1>6, <1>7
<1>9. QED
  BY <1>1, <1>6, <1>8 DEF Starved

\* No word is given when a block is taken up.
LEMMA HoldInit == Init => HoldInv
<1> SUFFICES ASSUME Init PROVE HoldInv
  OBVIOUS
<1>1. ~anchors => TextLines \ todo = {}
  BY DEF Init, TextLines
<1>2. QED
  BY <1>1 DEF Init, HoldInv

\* Every placement keeps the account of a fast alignment.
LEMMA HoldStep == IInv /\ TileInv /\ HoldInv /\ [Next]_vars => HoldInv'
<1> SUFFICES ASSUME IInv, TileInv, HoldInv, [Next]_vars PROVE HoldInv'
  OBVIOUS
<1>0. /\ cut \in Nat /\ words \in Nat /\ n \in Nat \ {0} /\ TextLines \subseteq 1 .. n
      /\ bucket \in [1 .. n -> [from : Int, to : Int]]
      /\ todo \subseteq 1 .. n /\ cut <= words
  BY DEF IInv, BlockInv, RoomInv, TextLines
<1>1. ASSUME UNCHANGED block, anchors PROVE HoldInv'
  BY <1>1 DEF HoldInv, block
<1>2. ASSUME UNCHANGED <<block, bucket, phase, cut, todo>> PROVE HoldInv'
  <2>1. TextLines' = TextLines /\ (Starved <=> Starved')
    BY <1>2, BlockConstant
  <2>2. NoneHolds <=> NoneHolds'
    BY <1>2, <2>1 DEF NoneHolds, Held
  <2>3. \A l : Count(l)' = Count(l)
    BY <1>2 DEF Count, block
  <2>4. QED
    BY <1>2, <2>1, <2>2, <2>3 DEF HoldInv, block
<1>3. ASSUME NEW l \in 1 .. n, ~anchors, UNCHANGED block, phase = "align", IsNext(l),
             NEW take \in Nat, Give(l, take), ~Starved, words > 0, NoneHolds'
      PROVE  /\ cut = 0 /\ NoneHolds
             /\ \A m \in TextLines \ todo : 2 * (words * Count(m)) <= ends[n]
             /\ l \in TextLines => take = 0
  <2>1. TextLines' = TextLines
    BY <1>3, BlockConstant
  <2>2. bucket' = [bucket EXCEPT ![l] = [from |-> cut + 1, to |-> cut + take]] /\ l \in todo
    BY <1>3 DEF Give, IsNext
  <2>3. bucket[l] = Nothing
    BY <1>3, <2>2 DEF TileInv, Tiled
  <2>4. NoneHolds
    <3>1. ASSUME NEW m \in TextLines PROVE ~Held(m)
      <4>1. m \in 1 .. n
        BY <1>0
      <4>2. ~(bucket'[m].from <= bucket'[m].to)
        BY <1>3, <2>1 DEF NoneHolds, Held
      <4>3. CASE m = l
        BY <2>3, <4>3 DEF Held, Nothing
      <4>4. CASE m # l
        BY <1>0, <2>2, <4>1, <4>2, <4>4 DEF Held
      <4>5. QED
        BY <4>3, <4>4
    <3>2. QED
      BY <3>1 DEF NoneHolds
  <2>5. cut = 0 /\ \A m \in TextLines \ todo : 2 * (words * Count(m)) <= ends[n]
    BY <1>3, <2>4 DEF HoldInv
  <2>6. ASSUME l \in TextLines PROVE take = 0
    <3>1. ~(bucket'[l].from <= bucket'[l].to)
      BY <1>3, <2>1, <2>6 DEF NoneHolds, Held
    <3>2. bucket'[l] = [from |-> cut + 1, to |-> cut + take]
      BY <1>0, <2>2
    <3>3. QED
      BY <1>0, <3>1, <3>2
  <2>7. QED
    BY <2>4, <2>5, <2>6
<1>4. ASSUME NEW l \in 1 .. n, CutProportionally(l) PROVE HoldInv'
  <2>1. /\ UNCHANGED <<block, phase>> /\ phase = "align" /\ IsNext(l) /\ ~anchors
        /\ Give(l, ProportionalShare(l))
    BY <1>4 DEF CutProportionally
  <2>2. /\ TextLines' = TextLines /\ (Starved <=> Starved')
        /\ n' = n /\ ends' = ends /\ words' = words /\ anchors' = anchors
    BY <2>1, BlockConstant DEF block
  <2>3. \A m : Count(m)' = Count(m)
    BY <2>2 DEF Count
  <2>4. ProportionalShare(l) \in Nat /\ Count(l) \in Nat /\ ends[n] \in Nat /\ ends[n] > 0
        /\ (Count(l) = 0 => ProportionalShare(l) = 0)
    BY <1>4, CutsAreNumbers, CountType DEF IInv
  <2>5. ASSUME ~Starved, words > 0, NoneHolds'
        PROVE  /\ cut' = 0
               /\ \A m \in TextLines \ todo' : 2 * (words * Count(m)) <= ends[n]
    <3>1. /\ cut = 0
          /\ \A m \in TextLines \ todo : 2 * (words * Count(m)) <= ends[n]
          /\ l \in TextLines => ProportionalShare(l) = 0
      BY <1>3, <2>1, <2>4, <2>5
    <3>2. ProportionalShare(l) = 0
      BY <2>4, <3>1 DEF TextLines
    <3>3. cut' = 0 /\ todo' = todo \ {l}
      BY <2>1, <3>1, <3>2 DEF Give
    <3>4. ASSUME l \in TextLines PROVE 2 * (words * Count(l)) <= ends[n]
      <4>1. Count(l) # 0 /\ cut # words
        BY <2>4, <2>5, <3>1, <3>4 DEF TextLines
      <4>2. words * Count(l) \in Nat
        BY <1>0, <2>4
      <4>3. Round(words * Count(l), ends[n]) \in Int
        BY <2>4, <4>2, RoundIsNumber
      <4>4. Round(words * Count(l), ends[n]) <= 0
        BY <1>0, <2>5, <3>1, <3>2, <4>1, <4>3 DEF ProportionalShare, Least, Greatest
      <4>5. QED
        BY <2>4, <4>2, <4>4, RoundsToNothing
    <3>5. QED
      BY <3>1, <3>3, <3>4
  <2>6. QED
    BY <2>1, <2>2, <2>3, <2>5 DEF HoldInv
<1>5. CASE RestToLastLine
  <2>1. /\ UNCHANGED block /\ phase = "align" /\ ~anchors /\ todo = {n} /\ phase' = "place"
        /\ Give(n, words - cut) /\ n \in 1 .. n /\ words - cut \in Nat
    BY <1>0, <1>5 DEF RestToLastLine, IsLast
  <2>2. IsNext(n)
    BY <1>0, <2>1 DEF IsNext
  <2>3. (Starved <=> Starved') /\ words' = words
    BY <2>1, BlockConstant DEF block
  <2>4. ASSUME ~Starved, words > 0, NoneHolds' PROVE FALSE
    <3>1. /\ cut = 0
          /\ \A m \in TextLines \ {n} : 2 * (words * Count(m)) <= ends[n]
          /\ n \in TextLines => words - cut = 0
      BY <1>3, <2>1, <2>2, <2>4
    <3>2. n \notin TextLines
      BY <1>0, <2>4, <3>1
    <3>3. \A m \in TextLines : 2 * (words * Count(m)) <= ends[n]
      BY <3>1, <3>2
    <3>4. QED
      BY <2>4, <3>3, TooFewWords DEF IInv
  <2>5. QED
    BY <2>1, <2>3, <2>4 DEF HoldInv
<1>6. ASSUME NEW l \in 1 .. n, CutAtAnchor(l) \/ CutByShare(l) \/ GiveRest(l) PROVE HoldInv'
  BY <1>1, <1>6 DEF CutAtAnchor, CutByShare, GiveRest
<1>7. CASE TakeOwnTranslations
  BY <1>1, <1>7 DEF TakeOwnTranslations
<1>8. CASE PlaceWords
  <2>1. UNCHANGED <<block, bucket, cut, todo>> /\ phase = "place" /\ phase' = "done"
    BY <1>8 DEF PlaceWords
  <2>2. TextLines' = TextLines /\ (Starved <=> Starved')
    BY <2>1, BlockConstant
  <2>3. NoneHolds <=> NoneHolds'
    BY <2>1, <2>2 DEF NoneHolds, Held
  <2>4. QED
    BY <2>1, <2>2, <2>3 DEF HoldInv, block
<1>9. CASE UNCHANGED vars
  BY <1>2, <1>9 DEF vars
<1>10. QED
  BY <1>4, <1>5, <1>6, <1>7, <1>8, <1>9 DEF Next

\* The tiling starts empty.
LEMMA TileInit == Init => TileInv /\ SpreadInv
<1> SUFFICES ASSUME Init PROVE TileInv /\ SpreadInv
  OBVIOUS
<1>1. /\ \A l \in 1 .. n : bucket[l] = Nothing /\ ~Held(l)
      /\ cut = 0 /\ kept = {} /\ phase = "align"
  BY DEF Init, Nothing, Held
<1>2. \A l \in 1 .. n : bucket[l].from >= 1 /\ bucket[l].to <= cut
  BY <1>1 DEF Nothing
<1>3. todo \subseteq 1 .. n
  BY DEF Init, TextLines
<1>4. QED
  BY <1>1, <1>2, <1>3 DEF TileInv, SpreadInv

\* No word is lost, doubled or moved between the lines, and what the lines went
\* without is told: _finalize_alto_block and _distribute_tokens.
THEOREM LinesAccountedCorrect == Spec => []LinesAccounted
<1> DEFINE Inv == IInv /\ TileInv /\ SpreadInv /\ HoldInv
<1>1. Init => Inv
  BY IInit, TileInit, HoldInit
<1>2. Inv /\ [Next]_vars => Inv'
  BY IStep, TileStep, SpreadStep, HoldStep
<1>3. Inv => LinesAccounted
  <2> SUFFICES ASSUME IInv, TileInv, SpreadInv, HoldInv PROVE LinesAccounted
    OBVIOUS
  <2>1. WordsKeptInOrder
    BY KeptInOrder DEF WordsKeptInOrder, Tiled
  <2>2. EmptyIsFlagged
    BY EmptyFlagged DEF EmptyIsFlagged
  <2>3. SomeLineHolds
    <3> SUFFICES ASSUME phase # "align", ~anchors, ~Starved, words > 0
                 PROVE  Bare # TextLines /\ (Cardinality(TextLines) = 1 => Bare = {})
      BY DEF SomeLineHolds
    <3>1. PICK l \in TextLines : Held(l)
      BY DEF HoldInv, NoneHolds
    <3>2. l \in 1 .. n /\ bucket[l].from \in Int /\ bucket[l].to \in Int
      BY DEF TextLines, IInv, RoomInv
    <3>3. l \notin Bare
      BY <3>1, <3>2 DEF Bare, Held
    <3>4. ASSUME Cardinality(TextLines) = 1 PROVE Bare = {}
      <4>1. IsFiniteSet(TextLines)
        BY LinesAreFinite DEF TextLines, IInv, BlockInv
      <4>2. PICK x : TextLines = {x}
        BY <3>4, <4>1, FS_Singleton
      <4>3. QED
        BY <3>3, <4>2 DEF Bare
    <3>5. QED
      BY <3>3, <3>4
  <2>4. QED
    BY <2>1, <2>2, <2>3 DEF LinesAccounted
<1>4. QED
  BY <1>1, <1>2, <1>3, PTL DEF Spec

-----------------------------------------------------------------------------
(***************************************************************************)
(* A translation word for word, cut without an anchor, is cut where the    *)
(* source is.                                                              *)
(***************************************************************************)
LinesToCut == IF anchors THEN TextLines ELSE 1 .. n

Size(l) == bucket[l].to - bucket[l].from + 1

WordForWord == usable = {} /\ words = ends[n]

DriftInv ==
  WordForWord =>
    /\ \A l \in todo : IsNext(l) => cut = ends[l - 1]
    /\ \A l \in todo, m \in LinesToCut \ todo : m < l
    /\ \A l \in (1 .. n) \ todo : Size(l) = Count(l)
    /\ todo \subseteq LinesToCut
    /\ phase # "align" => todo = {}

\* Rounding leaves a whole share as it is.
LEMMA RoundsToItself ==
  ASSUME NEW c \in Nat, NEW q \in Nat, q > 0
  PROVE  Round(q * c, q) = c
<1>1. (q * c) \div q = c /\ (q * c) % q = 0
  <2> DEFINE d == (q * c) \div q
             r == (q * c) % q
  <2>1. q * c \in Nat
    OBVIOUS
  <2>2. d \in Nat /\ r \in 0 .. q - 1 /\ q * c = q * d + r
    BY <2>1
  <2> HIDE DEF d, r
  <2>3. CASE d < c
    <3>1. PICK u \in Nat : c = d + u /\ u >= 1
      <4>1. c - d \in Nat /\ c = d + (c - d) /\ c - d >= 1
        BY <2>2, <2>3
      <4>2. QED
        BY <4>1
    <3>2. q * c = q * d + q * u
      BY <2>2, <3>1
    <3>3. q * u >= q /\ q * u \in Nat /\ q * d \in Nat
      BY <2>2, <3>1
    <3>4. QED
      BY <2>2, <3>2, <3>3
  <2>4. CASE d > c
    <3>1. PICK u \in Nat : d = c + u /\ u >= 1
      <4>1. d - c \in Nat /\ d = c + (d - c) /\ d - c >= 1
        BY <2>2, <2>4
      <4>2. QED
        BY <4>1
    <3>2. q * d = q * c + q * u
      BY <2>2, <3>1
    <3>3. q * u >= q /\ q * u \in Nat /\ q * c \in Nat
      BY <2>2, <3>1
    <3>4. QED
      BY <2>2, <3>2, <3>3
  <2>5. d = c /\ r = 0
    <3>1. d = c
      BY <2>2, <2>3, <2>4
    <3>2. QED
      BY <2>2, <3>1
  <2>6. QED
    BY <2>5 DEF d, r
<1>2. QED
  BY <1>1 DEF Round

\* A word for each line of text: a block translated word for word is not starved.
LEMMA WordForWordNotStarved ==
  ASSUME BlockInv, WordForWord
  PROVE  ~Starved /\ words > 0
<1>1. n \in Nat \ {0} /\ 0 \in 0 .. n /\ n \in 1 .. n
  BY DEF BlockInv
<1>2. TextUpTo(0, n) = TextLines
  BY <1>1 DEF TextUpTo, TextLines
<1>3. ends[0] = 0 /\ ends[n] \in Nat /\ ends[n] > 0
  BY <1>1, CountType DEF BlockInv, Cumulative
<1>4. Cardinality(TextLines) <= ends[n]
  <2>1. Cardinality(TextUpTo(0, n)) <= ends[n] - ends[0]
    BY <1>1, WordsAtLeast
  <2>2. QED
    BY <1>2, <1>3, <2>1
<1>5. Cardinality(TextLines) \in Nat
  BY <1>1, LinesAreFinite DEF TextLines
<1>6. QED
  BY <1>3, <1>4, <1>5 DEF WordForWord, Starved

\* The next line and its words, where the cut is where the source's is.
LEMMA NextLineWords ==
  ASSUME IInv, DriftInv, WordForWord, NEW l \in 1 .. n, IsNext(l)
  PROVE  /\ cut = ends[l - 1] /\ words - cut = ends[n] - ends[l - 1]
         /\ Count(l) \in Nat /\ Count(l) <= words - cut
         /\ l \in TextLines => words - cut > 0
         /\ \A m \in todo \ {l} : IsNext(m)' /\ todo' = todo \ {l} => ends[m - 1] = ends[l]
         /\ todo = {l} => ends[n] = ends[l]
         /\ anchors => Count(l) + Cardinality(todo \ {l}) <= words - cut
<1>1. n \in Nat /\ l \in todo /\ l - 1 \in 0 .. n /\ l \in 0 .. n /\ n \in 0 .. n /\ todo \subseteq 1 .. n
  BY DEF IInv, BlockInv, RoomInv, IsNext
<1>2. cut = ends[l - 1] /\ words = ends[n]
  BY <1>1 DEF DriftInv, WordForWord
<1>3. /\ Count(l) \in Nat /\ ends[n] \in Nat /\ ends[l - 1] \in Nat /\ ends[l] \in Nat
      /\ ends[l] <= ends[n] /\ ends[l] = ends[l - 1] + Count(l)
      /\ l \in TextLines => Count(l) > 0
  <2>1. ends[l] \in Nat /\ ends[l] <= ends[n]
    BY <1>1, CountsAreNumbers DEF IInv, BlockInv
  <2>2. Count(l) \in Nat /\ ends[n] \in Nat /\ ends[l - 1] \in Nat
    BY CountType DEF IInv
  <2>3. QED
    BY <2>1, <2>2 DEF Count, TextLines
<1>4. TextLines \subseteq LinesToCut
  BY DEF TextLines, LinesToCut
<1>5. ASSUME NEW b \in l .. n, \A m \in todo \ {l} : ~(m <= b)
      PROVE  ends[b] = ends[l]
  <2>1. TextUpTo(l, b) = {}
    <3>1. ASSUME NEW m \in TextUpTo(l, b) PROVE FALSE
      <4>1. m \in TextLines /\ l < m /\ m <= b /\ m \in Int /\ m \in LinesToCut
        BY <1>4 DEF TextUpTo, TextLines
      <4>2. m \notin todo
        BY <1>1, <1>5, <4>1
      <4>3. m < l
        BY <1>1, <4>1, <4>2 DEF DriftInv
      <4>4. QED
        BY <1>1, <4>1, <4>3
    <3>2. QED
      BY <3>1
  <2>2. QED
    BY <1>1, <2>1, BlankLinesAddNothing DEF IInv
<1>6. ASSUME NEW m \in todo \ {l}, IsNext(m)', todo' = todo \ {l}
      PROVE  ends[m - 1] = ends[l]
  <2>1. m \in Int /\ l < m /\ m <= n
    BY <1>1, <1>6 DEF IsNext
  <2>2. m - 1 \in l .. n
    BY <1>1, <2>1
  <2>3. \A k \in todo \ {l} : m <= k /\ k \in Int
    BY <1>1, <1>6 DEF IsNext
  <2>4. \A k \in todo \ {l} : ~(k <= m - 1)
    BY <2>1, <2>3
  <2>5. QED
    BY <1>5, <2>2, <2>4
<1>7. ASSUME todo = {l} PROVE ends[n] = ends[l]
  <2>1. n \in l .. n /\ todo \ {l} = {}
    BY <1>1, <1>7
  <2>2. QED
    BY <1>5, <2>1
<1>8. ASSUME anchors PROVE Count(l) + Cardinality(todo \ {l}) <= words - cut
  <2>1. todo \ {l} \subseteq TextUpTo(l, n)
    <3>1. ASSUME NEW m \in todo \ {l} PROVE m \in TextUpTo(l, n)
      <4>1. m \in TextLines /\ m \in Int /\ m <= n /\ l <= m
        BY <1>1, <1>8 DEF IInv, RoomInv, IsNext
      <4>2. QED
        BY <1>1, <4>1 DEF TextUpTo
    <3>2. QED
      BY <3>1
  <2>2. TextUpTo(l, n) \subseteq 1 .. n
    BY DEF TextUpTo, TextLines
  <2>3. IsFiniteSet(TextUpTo(l, n)) /\ Cardinality(TextUpTo(l, n)) \in Nat
    BY <1>1, <2>2, LinesAreFinite
  <2>4. Cardinality(todo \ {l}) <= Cardinality(TextUpTo(l, n)) /\ Cardinality(todo \ {l}) \in Nat
    BY <1>1, <2>1, <2>3, FS_Subset, LinesAreFinite
  <2>5. Cardinality(TextUpTo(l, n)) <= ends[n] - ends[l]
    BY <1>1, WordsAtLeast DEF IInv
  <2>6. QED
    BY <1>2, <1>3, <2>3, <2>4, <2>5
<1>9. QED
  BY <1>2, <1>3, <1>6, <1>7, <1>8

\* A line that is given as many words as it has keeps the rest in step.
LEMMA GiveKeepsStep ==
  ASSUME IInv, TileInv, DriftInv, WordForWord, NEW l \in 1 .. n, IsNext(l),
         NEW take, take = Count(l), Give(l, take), UNCHANGED block,
         phase' # "align" => todo = {l}
  PROVE  DriftInv'
<1>1. /\ n' = n /\ ends' = ends /\ words' = words /\ anchors' = anchors /\ usable' = usable
      /\ TextLines' = TextLines /\ LinesToCut' = LinesToCut
  BY BlockConstant DEF block, LinesToCut
<1>2. /\ cut' = cut + take /\ todo' = todo \ {l} /\ cut \in Nat /\ todo \subseteq 1 .. n /\ n \in Nat
      /\ bucket' = [bucket EXCEPT ![l] = [from |-> cut + 1, to |-> cut + take]]
      /\ bucket \in [1 .. n -> [from : Int, to : Int]] /\ l \in todo
  BY DEF Give, IInv, RoomInv, BlockInv, IsNext
<1>3. /\ cut = ends[l - 1] /\ Count(l) \in Nat
      /\ \A m \in todo \ {l} : IsNext(m)' /\ todo' = todo \ {l} => ends[m - 1] = ends[l]
  BY NextLineWords
<1>4. cut' = ends[l]
  <2>1. ends[l] \in Nat /\ ends[l - 1] \in Nat
    BY CountType, CountsAreNumbers DEF IInv, BlockInv
  <2>2. cut' = cut + take
    BY <1>2
  <2>3. cut = ends[l - 1] /\ take = ends[l] - ends[l - 1]
    BY <1>3 DEF Count
  <2>4. QED
    BY <2>1, <2>2, <2>3
<1>5. \A m \in todo' : IsNext(m)' => cut' = ends[m - 1]
  BY <1>2, <1>3, <1>4
<1>6. \A k \in todo', m \in LinesToCut \ todo' : m < k
  <2> TAKE k \in todo', m \in LinesToCut \ todo'
  <2>1. k \in todo \ {l} /\ k \in Int /\ l < k
    BY <1>2 DEF IsNext
  <2>2. m = l \/ m \in LinesToCut \ todo
    BY <1>2
  <2>3. QED
    BY <2>1, <2>2 DEF DriftInv
<1>7. \A m \in (1 .. n) \ todo' : bucket'[m].to - bucket'[m].from + 1 = Count(m)
  <2> TAKE m \in (1 .. n) \ todo'
  <2>1. CASE m = l
    <3>1. bucket'[l].from = cut + 1 /\ bucket'[l].to = cut + take
      BY <1>2
    <3>2. cut \in Nat /\ take = Count(l) /\ take \in Nat
      BY <1>2, <1>3
    <3>3. QED
      BY <2>1, <3>1, <3>2
  <2>2. CASE m # l
    <3>1. bucket'[m] = bucket[m] /\ m \in (1 .. n) \ todo
      BY <1>2, <2>2
    <3>2. QED
      BY <3>1 DEF DriftInv, Size
  <2>3. QED
    BY <2>1, <2>2
<1>8. \A m : Count(m)' = Count(m) /\ Size(m)' = bucket'[m].to - bucket'[m].from + 1
  BY <1>1 DEF Count, Size
<1>9. todo' \subseteq LinesToCut /\ (phase' # "align" => todo' = {})
  BY <1>2 DEF DriftInv
<1>10. QED
  BY <1>1, <1>5, <1>6, <1>7, <1>8, <1>9 DEF DriftInv

\* Each line's share is as many words as it has.
LEMMA SharesAreExact ==
  ASSUME IInv, DriftInv, WordForWord, NEW l \in 1 .. n, IsNext(l)
  PROVE  /\ anchors /\ l \in TextLines => Share(l) = Count(l)
         /\ ProportionalShare(l) = Count(l)
         /\ todo = {l} => words - cut = Count(l)
<1>1. /\ cut = ends[l - 1] /\ words - cut = ends[n] - ends[l - 1]
      /\ Count(l) \in Nat /\ Count(l) <= words - cut
      /\ l \in TextLines => words - cut > 0
      /\ todo = {l} => ends[n] = ends[l]
      /\ anchors => Count(l) + Cardinality(todo \ {l}) <= words - cut
  BY NextLineWords
<1>2. cut \in Nat /\ words \in Nat /\ cut <= words /\ words = ends[n] /\ ends[n] > 0
      /\ Cardinality(todo \ {l}) \in Nat
  <2>1. n \in Nat /\ todo \ {l} \subseteq 1 .. n
    BY DEF IInv, BlockInv, RoomInv
  <2>2. Cardinality(todo \ {l}) \in Nat
    BY <2>1, LinesAreFinite
  <2>3. ends[n] > 0
    BY CountType DEF IInv
  <2>4. QED
    BY <2>2, <2>3 DEF IInv, RoomInv, WordForWord
<1>3. ASSUME anchors, l \in TextLines PROVE Share(l) = Count(l)
  <2>1. Count(l) >= 1
    BY <1>1, <1>3 DEF TextLines
  <2>2. words - cut \in Nat /\ words - cut > 0
    BY <1>1, <1>2, <1>3
  <2>3. Round((words - cut) * Count(l), words - cut) = Count(l)
    BY <1>1, <2>2, RoundsToItself
  <2>4. Count(l) <= Highest(l) /\ Highest(l) \in Int
    BY <1>1, <1>2, <1>3, <2>1 DEF Highest, Greatest
  <2>5. QED
    BY <1>1, <2>1, <2>3, <2>4 DEF Share, Least, Greatest
<1>4. ProportionalShare(l) = Count(l)
  <2>1. Round(words * Count(l), ends[n]) = Count(l)
    BY <1>1, <1>2, RoundsToItself
  <2>2. QED
    BY <1>1, <1>2, <2>1 DEF ProportionalShare, Least, Greatest
<1>5. ASSUME todo = {l} PROVE words - cut = Count(l)
  BY <1>1, <1>5 DEF Count
<1>6. QED
  BY <1>3, <1>4, <1>5

\* No word is given when a block is taken up.
LEMMA DriftInit == Init => DriftInv
<1> SUFFICES ASSUME Init PROVE DriftInv
  OBVIOUS
<1>1. BlockInv /\ n \in Nat
  BY IInit DEF IInv, BlockInv
<1>2. todo = LinesToCut /\ TextLines \subseteq LinesToCut /\ todo \subseteq 1 .. n
  BY DEF Init, LinesToCut, TextLines
<1>3. ASSUME NEW l \in todo, IsNext(l) PROVE cut = ends[l - 1]
  <2>1. l - 1 \in 0 .. n /\ 0 \in 0 .. n
    BY <1>1, <1>2
  <2>2. TextUpTo(0, l - 1) = {}
    BY <1>1, <1>2, <1>3 DEF TextUpTo, IsNext, TextLines
  <2>3. ends[l - 1] = ends[0]
    BY <1>1, <2>1, <2>2, BlankLinesAddNothing
  <2>4. ends[0] = 0 /\ cut = 0
    BY <1>1 DEF Init, BlockInv, Cumulative
  <2>5. QED
    BY <2>3, <2>4
<1>4. ASSUME NEW l \in (1 .. n) \ todo PROVE Size(l) = Count(l)
  <2>1. l \notin TextLines
    BY <1>2
  <2>2. Count(l) \in Nat
    BY <1>1, CountType
  <2>3. Count(l) = 0
    BY <2>1, <2>2 DEF TextLines
  <2>4. bucket[l] = Nothing
    BY DEF Init
  <2>5. QED
    BY <2>3, <2>4 DEF Size, Nothing
<1>5. phase = "align"
  BY DEF Init
<1>6. QED
  BY <1>2, <1>3, <1>4, <1>5 DEF DriftInv

\* Every placement keeps the cut where the source's is.
LEMMA DriftStep == IInv /\ TileInv /\ DriftInv /\ [Next]_vars => DriftInv'
<1> SUFFICES ASSUME IInv, TileInv, DriftInv, [Next]_vars PROVE DriftInv'
  OBVIOUS
<1>1. UNCHANGED block
  BY DEF Next, vars, CutAtAnchor, CutByShare, GiveRest, TakeOwnTranslations, CutProportionally,
     RestToLastLine, PlaceWords
<1>2. WordForWord' <=> WordForWord
  BY <1>1 DEF block, WordForWord
<1>3. SUFFICES ASSUME WordForWord PROVE DriftInv'
  BY <1>2 DEF DriftInv
<1>4. BlockInv /\ todo \subseteq 1 .. n /\ ~Starved
  BY <1>3, WordForWordNotStarved DEF IInv, RoomInv
<1>5. ASSUME NEW l \in 1 .. n, CutAtAnchor(l) PROVE FALSE
  BY <1>3, <1>5 DEF CutAtAnchor, WordForWord
<1>6. ASSUME NEW l \in 1 .. n, CutByShare(l) PROVE DriftInv'
  <2>1. /\ IsNext(l) /\ anchors /\ Give(l, Share(l)) /\ phase' = phase /\ phase = "align"
    BY <1>6 DEF CutByShare
  <2>2. l \in TextLines
    BY <2>1 DEF IInv, RoomInv, IsNext
  <2>3. QED
    BY <1>1, <1>3, <2>1, <2>2, SharesAreExact, GiveKeepsStep
<1>7. ASSUME NEW l \in 1 .. n, GiveRest(l) PROVE DriftInv'
  <2>1. todo = {l} /\ Give(l, words - cut)
    BY <1>7 DEF GiveRest, IsLast
  <2>2. IsNext(l)
    BY <2>1 DEF IsNext
  <2>3. QED
    BY <1>1, <1>3, <2>1, <2>2, SharesAreExact, GiveKeepsStep
<1>8. CASE TakeOwnTranslations
  BY <1>4, <1>8 DEF TakeOwnTranslations
<1>9. ASSUME NEW l \in 1 .. n, CutProportionally(l) PROVE DriftInv'
  <2>1. IsNext(l) /\ Give(l, ProportionalShare(l)) /\ phase' = phase /\ phase = "align"
    BY <1>9 DEF CutProportionally
  <2>2. QED
    BY <1>1, <1>3, <2>1, SharesAreExact, GiveKeepsStep
<1>10. CASE RestToLastLine
  <2>1. todo = {n} /\ Give(n, words - cut) /\ n \in 1 .. n
    BY <1>4, <1>10 DEF RestToLastLine, IsLast, BlockInv
  <2>2. IsNext(n)
    BY <2>1 DEF IsNext
  <2>3. QED
    BY <1>1, <1>3, <2>1, <2>2, SharesAreExact, GiveKeepsStep
<1>11. CASE PlaceWords \/ UNCHANGED vars
  <2>1. UNCHANGED <<todo, cut, bucket>> /\ (phase' = "align" <=> phase = "align")
    BY <1>11 DEF PlaceWords, vars
  <2>2. /\ n' = n /\ ends' = ends /\ anchors' = anchors /\ LinesToCut' = LinesToCut
    BY <1>1, BlockConstant DEF block, LinesToCut
  <2>3. \A l : (IsNext(l)' <=> IsNext(l)) /\ Size(l)' = Size(l) /\ Count(l)' = Count(l)
    BY <2>1, <2>2 DEF IsNext, Size, Count
  <2>4. QED
    BY <1>2, <1>3, <2>1, <2>2, <2>3 DEF DriftInv
<1>12. QED
  BY <1>5, <1>6, <1>7, <1>8, <1>9, <1>10, <1>11 DEF Next

\* A translation of as many words as the block, without a usable anchor, is cut where
\* the source is: the rounded shares of _align_block do not drift down the block.
THEOREM SharesDoNotDriftCorrect == Spec => []SharesDoNotDrift
<1> DEFINE Inv == IInv /\ TileInv /\ DriftInv
<1>1. Init => Inv
  BY IInit, TileInit, DriftInit
<1>2. Inv /\ [Next]_vars => Inv'
  BY IStep, TileStep, DriftStep
<1>3. Inv => SharesDoNotDrift
  BY DEF DriftInv, SharesDoNotDrift, WordForWord, Size
<1>4. QED
  BY <1>1, <1>2, <1>3, PTL DEF Spec
-----------------------------------------------------------------------------
(* The scan for repetitions (TextLoops). *)

\* A set of numbers with a bound that is not empty has a greatest one.
LEMMA GreatestExists ==
  ASSUME NEW S, NEW top \in Nat, S \subseteq 1 .. top, S # {}
  PROVE  \E m \in S : \A y \in S : m >= y
<1> DEFINE T == {top - x : x \in S}
<1>1. T \subseteq Nat /\ T # {}
  <2>1. PICK x \in S : TRUE
    OBVIOUS
  <2>2. top - x \in T
    OBVIOUS
  <2>3. ASSUME NEW y \in S
        PROVE  top - y \in Nat
    <3>1. y \in 1 .. top
      OBVIOUS
    <3>2. QED
      BY <3>1
  <2>4. QED
    BY <2>2, <2>3
<1>2. PICK t \in T : \A y \in T : t <= y
  <2> HIDE DEF T
  <2>1. QED
    BY <1>1, LeastExists
<1>3. PICK m \in S : t = top - m
  BY <1>2
<1>4. \A y \in S : top - m <= top - y
  BY <1>2, <1>3
<1>5. QED
  BY <1>4

\* The numbers of repetitions of the u tokens at p.
Repeats(s, p, u) ==
  {r \in 1 .. Len(s) : /\ p + r * u - 1 <= Len(s)
                       /\ \A k \in p .. p + (r - 1) * u - 1 : s[k] = s[k + u]}

\* The run at a place is the greatest of them.
LEMMA RunIsGreatest ==
  ASSUME NEW S, NEW s \in Seq(S), NEW p \in Nat \ {0}, NEW u \in Nat \ {0}, p + u - 1 <= Len(s)
  PROVE  /\ RunAt(s, p, u) \in Repeats(s, p, u) /\ 1 \in Repeats(s, p, u)
         /\ \A r \in Repeats(s, p, u) : r <= RunAt(s, p, u)
<1> DEFINE R == Repeats(s, p, u)
<1>1. Len(s) \in Nat /\ 1 <= Len(s)
  BY LenProperties
<1>2. 1 \in R
  <2>1. 1 * u = u /\ (1 - 1) * u = 0
    OBVIOUS
  <2>2. \A k \in p .. p + (1 - 1) * u - 1 : s[k] = s[k + u]
    BY <2>1
  <2>3. QED
    BY <1>1, <2>1, <2>2 DEF Repeats
<1>3. R \subseteq 1 .. Len(s)
  BY DEF Repeats
<1>4. RunAt(s, p, u) = CHOOSE x \in R : \A y \in R : x >= y
  BY DEF RunAt, Max, Repeats
<1> HIDE DEF R
<1>5. \E x \in R : \A y \in R : x >= y
  BY <1>1, <1>2, <1>3, GreatestExists
<1>6. RunAt(s, p, u) \in R /\ \A y \in R : RunAt(s, p, u) >= y
  BY <1>4, <1>5
<1>7. QED
  BY <1>1, <1>2, <1>3, <1>6 DEF R

\* Two repetitions are at least two units long.
LEMMA TwiceAtLeast ==
  ASSUME NEW r \in Nat, NEW u \in Nat, r >= 2
  PROVE  r * u >= 2 * u
<1>1. r * u = 2 * u + (r - 2) * u
  OBVIOUS
<1>2. (r - 2) * u >= 0
  <2>1. r - 2 \in Nat
    OBVIOUS
  <2>2. \A a, b \in Nat : a * b >= 0
    OBVIOUS
  <2>3. QED
    BY <2>1, <2>2
<1>3. QED
  BY <1>1, <1>2

\* A run that begins inside another one, before its last repetition ends, is no longer.
LEMMA RunsInside ==
  ASSUME NEW S, NEW s \in Seq(S), NEW p \in Nat \ {0}, NEW u \in Nat \ {0}, p + u - 1 <= Len(s),
         NEW q \in p .. p + u * (RunAt(s, p, u) - 1), q + u - 1 <= Len(s)
  PROVE  RunAt(s, q, u) <= RunAt(s, p, u)
<1> DEFINE r == RunAt(s, p, u)
           t == RunAt(s, q, u)
<1>1. r \in Repeats(s, p, u) /\ \A x \in Repeats(s, p, u) : x <= r
  BY RunIsGreatest
<1>2. q \in Nat \ {0}
  <2>1. r \in Nat
    BY <1>1, LenProperties DEF Repeats
  <2>2. QED
    BY <2>1
<1>3. t \in Repeats(s, q, u)
  BY <1>2, RunIsGreatest
<1> HIDE DEF r, t
<1>4. /\ r \in Nat \ {0} /\ t \in 1 .. Len(s) /\ Len(s) \in Nat /\ t \in Nat
      /\ q + t * u - 1 <= Len(s)
      /\ \A k \in p .. p + (r - 1) * u - 1 : s[k] = s[k + u]
      /\ \A k \in q .. q + (t - 1) * u - 1 : s[k] = s[k + u]
  BY <1>1, <1>3, LenProperties DEF Repeats
<1>5. q \in p .. p + (r - 1) * u
  <2>1. u * (r - 1) = (r - 1) * u
    BY <1>4
  <2>2. q \in p .. p + u * (r - 1)
    BY DEF r
  <2>3. QED
    BY <2>1, <2>2
<1> DEFINE a == (r - 1) * u
           b == (t - 1) * u
           c == t * u
<1>6. a \in Int /\ b \in Int /\ c \in Int
  BY <1>4
<1>7. t \in Repeats(s, p, u)
  <2>1. q \in Int /\ q >= p /\ q <= p + a
    BY <1>5, <1>6
  <2>2. q + c - 1 <= Len(s) /\ (\A k \in p .. p + a - 1 : s[k] = s[k + u])
        /\ (\A k \in q .. q + b - 1 : s[k] = s[k + u])
    BY <1>4
  <2> HIDE DEF a, b, c
  <2>3. p + c - 1 <= Len(s)
    BY <1>4, <1>6, <2>1, <2>2
  <2>4. ASSUME NEW k \in p .. p + b - 1
        PROVE  s[k] = s[k + u]
    <3>1. CASE k < q
      BY <1>6, <2>1, <2>2, <3>1
    <3>2. CASE k >= q
      BY <1>6, <2>1, <2>2, <3>2
    <3>3. QED
      BY <2>1, <3>1, <3>2
  <2>5. QED
    BY <1>4, <2>3, <2>4 DEF b, c, Repeats
<1>8. QED
  BY <1>1, <1>7 DEF r, t

\* The places and units that lie behind the scan.
Passed(p, u) == u < unit \/ (u = unit /\ p < place)

\* A place of the reply where one unit of the length fits.
Found(p, u) == p \in 1 .. Len(text) /\ u \in 1 .. MaxUnit /\ p + u - 1 <= Len(text)

\* The inductive invariant of the scan: best is the run of some place and unit, and no
\* place and unit passed has a longer one.
ScanInv ==
  loop = "repeat" =>
    /\ text \in Seq(Tokens) /\ unit \in 1 .. MaxUnit + 1 /\ place \in Nat \ {0} /\ best \in Nat \ {0}
    /\ best = 1 \/ \E p, u : Found(p, u) /\ best = RunAt(text, p, u)
    /\ \A p, u : Found(p, u) /\ Passed(p, u) => RunAt(text, p, u) <= best
    /\ done => unit = MaxUnit + 1

\* Before the first turn nothing is passed.
LEMMA ScanInit == ASSUME LoopInit PROVE ScanInv
<1> SUFFICES ASSUME loop = "repeat" PROVE ScanInv
  BY DEF ScanInv
<1>1. /\ text \in Replies /\ unit = 1 /\ place = 1 /\ best = 1 /\ done = FALSE
      /\ MaxUnit \in Nat \ {0}
  BY TextAssumption DEF LoopInit, InitChunk, InitRepeat
<1>2. text \in Seq(Tokens)
  <2>1. PICK len \in Nat : text \in [1 .. len -> Tokens]
    BY <1>1, TextAssumption DEF Replies
  <2>2. QED
    BY <2>1
<1>3. \A p, u : Found(p, u) => ~Passed(p, u)
  BY <1>1 DEF Found, Passed
<1>4. QED
  BY <1>1, <1>2, <1>3 DEF ScanInv

\* The greatest of two numbers.
LEMMA GreaterOfTwo ==
  ASSUME NEW a \in Nat, NEW b \in Nat
  PROVE  Max({a, b}) = IF a >= b THEN a ELSE b
<1> DEFINE m == IF a >= b THEN a ELSE b
<1>1. m \in {a, b} /\ \A y \in {a, b} : m >= y
  OBVIOUS
<1>2. \A x \in {a, b} : (\A y \in {a, b} : x >= y) => x = m
  OBVIOUS
<1> HIDE DEF m
<1>3. (CHOOSE x \in {a, b} : \A y \in {a, b} : x >= y) = m
  BY <1>1, <1>2
<1>4. QED
  BY <1>3 DEF Max, m

\* One turn of the scan: the places leapt over lie in the run just measured.
LEMMA ScanTurn ==
  ASSUME ScanInv, Scan
  PROVE  ScanInv'
<1> DEFINE run == RunAt(text, place, unit)
<1>1. /\ loop = "repeat" /\ ~done /\ unit <= MaxUnit /\ place + 2 * unit - 1 <= Len(text)
      /\ best' = Max({best, run}) /\ place' = NextStart(place, unit, run)
      /\ loop' = loop /\ text' = text /\ unit' = unit /\ done' = done
  BY DEF Scan, chunkVars
<1>2. /\ text \in Seq(Tokens) /\ unit \in Nat \ {0} /\ place \in Nat \ {0} /\ best \in Nat \ {0}
      /\ MaxUnit \in Nat \ {0} /\ Len(text) \in Nat /\ place + unit - 1 <= Len(text)
  BY <1>1, LenProperties, TextAssumption DEF ScanInv
<1>3. run \in Nat \ {0} /\ Found(place, unit)
  <2>1. run \in Repeats(text, place, unit)
    BY <1>2, RunIsGreatest
  <2>2. QED
    BY <1>1, <1>2, <2>1 DEF Repeats, Found
<1>4. \A q \in place .. place + unit * (run - 1) :
        q + unit - 1 <= Len(text) => RunAt(text, q, unit) <= run
  BY <1>2, RunsInside
<1> HIDE DEF run
<1>5. best' \in Nat \ {0} /\ best' >= best /\ best' >= run /\ best' \in {best, run}
  BY <1>1, <1>2, <1>3, GreaterOfTwo
<1>6. /\ place' \in Nat \ {0} /\ place' > place
      /\ \A q \in place .. place' - 1 : q \in place .. place + unit * (run - 1)
  <2> DEFINE w == unit * (run - 1)
  <2>1. w \in Nat
    <3>1. run - 1 \in Nat
      BY <1>3
    <3>2. \A a, b \in Nat : a * b \in Nat
      OBVIOUS
    <3>3. QED
      BY <1>2, <3>1, <3>2
  <2>2. place' = IF run > 1 THEN place + w + 1 ELSE place + 1
    BY <1>1 DEF NextStart
  <2> HIDE DEF w
  <2>3. QED
    BY <1>2, <1>3, <2>1, <2>2 DEF w
<1>7. \A p, u : Found(p, u)' <=> Found(p, u)
  BY <1>1 DEF Found
<1>8. best' = 1 \/ \E p, u : Found(p, u) /\ best' = RunAt(text, p, u)
  BY <1>1, <1>3, <1>5 DEF ScanInv, run
<1>9. ASSUME NEW p, NEW u, Found(p, u), Passed(p, u)'
      PROVE  RunAt(text, p, u) <= best'
  <2>1. RunAt(text, p, u) \in Nat
    <3>1. p \in Nat \ {0} /\ u \in Nat \ {0} /\ p + u - 1 <= Len(text)
      BY <1>2, <1>9 DEF Found
    <3>2. RunAt(text, p, u) \in Repeats(text, p, u)
      BY <1>2, <3>1, RunIsGreatest
    <3>3. QED
      BY <3>2 DEF Repeats
  <2>2. CASE Passed(p, u)
    <3>1. RunAt(text, p, u) <= best
      BY <1>1, <1>9, <2>2 DEF ScanInv
    <3>2. QED
      BY <1>2, <1>5, <2>1, <3>1
  <2>3. CASE ~Passed(p, u)
    <3>1. u = unit /\ p \in place .. place' - 1 /\ p + unit - 1 <= Len(text)
      BY <1>1, <1>2, <1>6, <1>9, <2>3 DEF Passed, Found
    <3>2. RunAt(text, p, u) <= run
      BY <1>4, <1>6, <3>1
    <3>3. QED
      BY <1>3, <1>5, <2>1, <3>2
  <2>4. QED
    BY <2>2, <2>3
<1>10. QED
  <2>1. RunAt(text, place, unit)' = RunAt(text', place', unit')
    OBVIOUS
  <2>2. /\ text' \in Seq(Tokens) /\ unit' \in 1 .. MaxUnit + 1
        /\ done' => unit' = MaxUnit + 1
    BY <1>1, <1>2 DEF ScanInv
  <2>3. \A p, u : Found(p, u)' /\ Passed(p, u)' => RunAt(text', p, u) <= best'
    BY <1>1, <1>7, <1>9
  <2>4. best' = 1 \/ \E p, u : Found(p, u)' /\ best' = RunAt(text', p, u)
    BY <1>1, <1>7, <1>8
  <2>5. QED
    BY <1>5, <1>6, <2>2, <2>3, <2>4 DEF ScanInv

\* The next unit: where two repetitions do not fit, there is one.
LEMMA ScanUnit ==
  ASSUME ScanInv, NextUnit
  PROVE  ScanInv'
<1>1. /\ loop = "repeat" /\ unit <= MaxUnit /\ place + 2 * unit - 1 > Len(text)
      /\ best' = best /\ place' = 1 /\ unit' = unit + 1 /\ (done' <=> unit' > MaxUnit)
      /\ loop' = loop /\ text' = text
  BY DEF NextUnit, chunkVars
<1>2. /\ text \in Seq(Tokens) /\ unit \in Nat \ {0} /\ place \in Nat \ {0} /\ best \in Nat \ {0}
      /\ MaxUnit \in Nat \ {0} /\ Len(text) \in Nat
  BY <1>1, LenProperties, TextAssumption DEF ScanInv
<1>3. \A p, u : Found(p, u)' <=> Found(p, u)
  BY <1>1 DEF Found
<1>4. ASSUME NEW p, NEW u, Found(p, u), Passed(p, u)'
      PROVE  RunAt(text, p, u) <= best
  <2>1. CASE Passed(p, u)
    BY <1>1, <1>4, <2>1 DEF ScanInv
  <2>2. CASE ~Passed(p, u)
    <3>1. /\ u = unit /\ p \in Nat \ {0} /\ p >= place /\ p + unit - 1 <= Len(text)
      BY <1>1, <1>2, <1>4, <2>2 DEF Passed, Found
    <3>2. PICK r \in Nat : r = RunAt(text, p, u) /\ r >= 1 /\ p + r * u - 1 <= Len(text)
      <4>1. RunAt(text, p, u) \in Repeats(text, p, u)
        BY <1>2, <3>1, RunIsGreatest
      <4>2. QED
        BY <4>1 DEF Repeats
    <3>3. ~(r >= 2)
      <4>1. SUFFICES ASSUME r >= 2 PROVE FALSE
        OBVIOUS
      <4>2. r * u >= 2 * u
        BY <1>2, <3>1, <4>1, TwiceAtLeast
      <4> DEFINE w == r * u
      <4>3. w \in Int /\ w >= 2 * u /\ p + w - 1 <= Len(text)
        BY <1>2, <3>1, <3>2, <4>2
      <4> HIDE DEF w
      <4>4. QED
        BY <1>1, <1>2, <3>1, <4>3
    <3>4. QED
      BY <1>2, <3>2, <3>3
  <2>3. QED
    BY <2>1, <2>2
<1>5. QED
  <2>1. /\ text' \in Seq(Tokens) /\ unit' \in 1 .. MaxUnit + 1 /\ place' \in Nat \ {0}
        /\ best' \in Nat \ {0} /\ (done' => unit' = MaxUnit + 1)
    BY <1>1, <1>2
  <2>2. \A p, u : Found(p, u)' /\ Passed(p, u)' => RunAt(text', p, u) <= best'
    BY <1>1, <1>3, <1>4
  <2>3. best' = 1 \/ \E p, u : Found(p, u)' /\ best' = RunAt(text', p, u)
    BY <1>1, <1>3 DEF ScanInv
  <2>4. QED
    BY <2>1, <2>2, <2>3 DEF ScanInv

\* The invariant of the scan holds.
LEMMA ScanHolds == LoopSpec => []ScanInv
<1>1. LoopInit => ScanInv
  BY ScanInit
<1>2. ScanInv /\ [LoopNext]_loopVars => ScanInv'
  <2>1. SUFFICES ASSUME ScanInv, [LoopNext]_loopVars PROVE ScanInv'
    OBVIOUS
  <2>2. CASE Cut \/ LastChunk
    BY <2>2 DEF Cut, LastChunk, ScanInv
  <2>3. CASE UNCHANGED loopVars
    BY <2>1, <2>3 DEF loopVars, repeatVars, ScanInv, Found, Passed
  <2>4. QED
    BY <2>1, <2>2, <2>3, ScanTurn, ScanUnit DEF LoopNext
<1>3. QED
  BY <1>1, <1>2, PTL DEF LoopSpec

\* Whatever the reply and the longest unit looked for: the scan, which leaps over what it
\* has measured, finds the longest run there is (_longest_repeat_run).
THEOREM LongestRunCorrect == LoopSpec => []LongestRunFound
<1>1. ScanInv => LongestRunFound
  <2>1. SUFFICES ASSUME ScanInv, loop = "repeat", done
                 PROVE  best = Max({1} \cup {RunAt(text, pu[1], pu[2]) :
                          pu \in {x \in (DOMAIN text) \X (1 .. MaxUnit) : x[1] + x[2] - 1 <= Len(text)}})
    BY DEF LongestRunFound
  <2> DEFINE R == {1} \cup {RunAt(text, pu[1], pu[2]) :
                     pu \in {x \in (DOMAIN text) \X (1 .. MaxUnit) : x[1] + x[2] - 1 <= Len(text)}}
  <2>2. /\ text \in Seq(Tokens) /\ best \in Nat \ {0} /\ unit = MaxUnit + 1 /\ MaxUnit \in Nat \ {0}
        /\ DOMAIN text = 1 .. Len(text) /\ Len(text) \in Nat
    BY <2>1, LenProperties, TextAssumption DEF ScanInv
  <2>3. best \in R
    <3>1. \A p, u : Found(p, u) => RunAt(text, p, u) \in R
      <4>1. SUFFICES ASSUME NEW p, NEW u, Found(p, u) PROVE RunAt(text, p, u) \in R
        OBVIOUS
      <4>2. <<p, u>> \in {x \in (DOMAIN text) \X (1 .. MaxUnit) : x[1] + x[2] - 1 <= Len(text)}
        BY <2>2, <4>1 DEF Found
      <4>3. QED
        BY <4>2
    <3> HIDE DEF R
    <3>2. 1 \in R
      BY DEF R
    <3>3. QED
      BY <2>1, <3>1, <3>2 DEF ScanInv
  <2>4. ASSUME NEW y \in R PROVE y \in Nat /\ best >= y
    <3>1. CASE y = 1
      BY <2>2, <3>1
    <3>2. ASSUME NEW p \in 1 .. Len(text), NEW u \in 1 .. MaxUnit, p + u - 1 <= Len(text),
                 y = RunAt(text, p, u)
          PROVE  y \in Nat /\ best >= y
      <4>1. Found(p, u) /\ Passed(p, u)
        BY <2>2, <3>2 DEF Found, Passed
      <4>2. y <= best
        BY <2>1, <3>2, <4>1 DEF ScanInv
      <4>3. y \in Repeats(text, p, u)
        BY <2>2, <3>2, RunIsGreatest
      <4>4. y \in Nat
        BY <4>3 DEF Repeats
      <4>5. QED
        BY <2>2, <4>2, <4>4
    <3>3. QED
      BY <2>2, <2>4, <3>1, <3>2
  <2> HIDE DEF R
  <2>5. \A x \in R : (\A y \in R : x >= y) => x = best
    BY <2>2, <2>3, <2>4
  <2>6. best = CHOOSE x \in R : \A y \in R : x >= y
    BY <2>2, <2>3, <2>4, <2>5
  <2>7. QED
    BY <2>6 DEF R, Max
<1>2. QED
  BY <1>1, ScanHolds, PTL
-----------------------------------------------------------------------------
(* The cutting of a text (TextLoops). *)

\* The first and the last character of a text that is not white.
LEMMA InkEnds ==
  ASSUME NEW s, NEW len \in Nat, DOMAIN s = 1 .. len, Inked(s) # {}
  PROVE  /\ Min(Inked(s)) \in Inked(s) /\ \A k \in Inked(s) : Min(Inked(s)) <= k
         /\ Max(Inked(s)) \in Inked(s) /\ \A k \in Inked(s) : Max(Inked(s)) >= k
<1> DEFINE I == Inked(s)
<1>1. I \subseteq 1 .. len /\ I \subseteq Nat
  BY DEF Inked
<1> HIDE DEF I
<1>2. (\E m \in I : \A k \in I : m <= k) /\ (\E m \in I : \A k \in I : m >= k)
  BY <1>1, LeastExists, GreatestExists DEF I
<1>3. Min(I) \in I /\ (\A k \in I : Min(I) <= k) /\ Max(I) \in I /\ (\A k \in I : Max(I) >= k)
  BY <1>2 DEF Min, Max
<1>4. QED
  BY <1>3 DEF I

\* The end of a text from a place on, and a part of it, are parts of the text.
LEMMA Parts ==
  ASSUME NEW s \in Seq(Chars), NEW from \in 1 .. Len(s) + 1, NEW at \in 0 .. Len(s) - from + 1
  PROVE  LET r == SubSeq(s, from, Len(s)) IN
         /\ r \in Seq(Chars) /\ Len(r) = Len(s) - from + 1 /\ Len(s) \in Nat
         /\ \A k \in 1 .. Len(r) : r[k] = s[from + k - 1]
         /\ SubSeq(r, 1, at) \in Seq(Chars) /\ Len(SubSeq(r, 1, at)) = at
         /\ \A k \in 1 .. at : SubSeq(r, 1, at)[k] = s[from + k - 1]
         /\ SubSeq(r, at + 1, Len(r)) \in Seq(Chars) /\ Len(SubSeq(r, at + 1, Len(r))) = Len(r) - at
         /\ \A k \in 1 .. Len(r) - at : SubSeq(r, at + 1, Len(r))[k] = s[from + at + k - 1]
<1> DEFINE r == SubSeq(s, from, Len(s))
<1>1. Len(s) \in Nat /\ \A k \in 1 .. Len(s) : s[k] \in Chars
  BY LenProperties, ElementOfSeq
<1>2. /\ r \in Seq(Chars) /\ Len(r) = Len(s) - from + 1
      /\ \A k \in 1 .. Len(r) : r[k] = s[from + k - 1]
  <2>1. \A k \in from .. Len(s) : s[k] \in Chars
    BY <1>1
  <2>2. from \in Int /\ Len(s) \in Int
    BY <1>1
  <2>3. QED
    BY <1>1, <2>1, <2>2, SubSeqProperties
<1> HIDE DEF r
<1>3. \A k \in 1 .. Len(r) : r[k] \in Chars
  BY <1>2, ElementOfSeq
<1>4. /\ SubSeq(r, 1, at) \in Seq(Chars) /\ Len(SubSeq(r, 1, at)) = at
      /\ \A k \in 1 .. at : SubSeq(r, 1, at)[k] = r[k]
  <2>1. \A k \in 1 .. at : r[k] \in Chars
    BY <1>1, <1>2, <1>3
  <2>2. at \in Int /\ 1 \in Int
    BY <1>1
  <2>3. /\ SubSeq(r, 1, at) \in Seq(Chars) /\ Len(SubSeq(r, 1, at)) = IF 1 <= at THEN at - 1 + 1 ELSE 0
        /\ \A k \in 1 .. at - 1 + 1 : SubSeq(r, 1, at)[k] = r[1 + k - 1]
    BY <2>1, <2>2, SubSeqProperties
  <2>4. QED
    BY <1>1, <2>3
<1>5. /\ SubSeq(r, at + 1, Len(r)) \in Seq(Chars) /\ Len(SubSeq(r, at + 1, Len(r))) = Len(r) - at
      /\ \A k \in 1 .. Len(r) - at : SubSeq(r, at + 1, Len(r))[k] = r[at + k]
  <2>1. \A k \in at + 1 .. Len(r) : r[k] \in Chars
    BY <1>1, <1>2, <1>3
  <2>2. at + 1 \in Int /\ Len(r) \in Int
    BY <1>1, <1>2
  <2>3. /\ SubSeq(r, at + 1, Len(r)) \in Seq(Chars)
        /\ Len(SubSeq(r, at + 1, Len(r))) = IF at + 1 <= Len(r) THEN Len(r) - (at + 1) + 1 ELSE 0
        /\ \A k \in 1 .. Len(r) - (at + 1) + 1 : SubSeq(r, at + 1, Len(r))[k] = r[at + 1 + k - 1]
    BY <2>1, <2>2, SubSeqProperties
  <2>4. QED
    BY <1>1, <1>2, <2>3
<1>6. \A k \in 1 .. at : r[k] = s[from + k - 1]
  BY <1>1, <1>2
<1>7. \A k \in 1 .. Len(r) - at : r[at + k] = s[from + at + k - 1]
  BY <1>1, <1>2
<1>8. QED
  BY <1>1, <1>2, <1>4, <1>5, <1>6, <1>7 DEF r

\* What remains behind a cut is the text from its next character that is not white.
LEMMA RestIs ==
  ASSUME NEW s \in Seq(Chars), NEW from \in 1 .. Len(s) + 1, NEW at \in 0 .. Len(s) - from + 1
  PROVE  LET r == SubSeq(s, from, Len(s)) IN
         \E next \in from + at .. Len(s) + 1 :
           /\ Rest(r, at) = SubSeq(s, next, Len(s))
           /\ \A p \in from + at .. next - 1 : s[p] \in White
           /\ next <= Len(s) => s[next] \notin White
<1> DEFINE r == SubSeq(s, from, Len(s))
           b == SubSeq(r, at + 1, Len(r))
<1>1. /\ r \in Seq(Chars) /\ Len(r) = Len(s) - from + 1 /\ Len(s) \in Nat
      /\ b \in Seq(Chars) /\ Len(b) = Len(r) - at
      /\ \A k \in 1 .. Len(r) - at : b[k] = s[from + at + k - 1]
  BY Parts
<1>2. Rest(r, at) = LStrip(b)
  BY DEF Rest
<1>3. DOMAIN b = 1 .. Len(b) /\ Len(b) \in Nat
  BY <1>1, LenProperties
<1>4. CASE Inked(b) = {}
  <2>1. Rest(r, at) = <<>>
    BY <1>2, <1>4 DEF LStrip
  <2>2. SubSeq(s, Len(s) + 1, Len(s)) = <<>>
    BY <1>1, SubSeqEmpty
  <2>3. ASSUME NEW p \in from + at .. Len(s)
        PROVE  s[p] \in White
    <3>1. p - (from + at) + 1 \in 1 .. Len(b)
      BY <1>1
    <3>2. b[p - (from + at) + 1] = s[p]
      BY <1>1, <3>1
    <3>3. QED
      BY <1>3, <1>4, <3>1, <3>2 DEF Inked
  <2>4. QED
    BY <1>1, <2>1, <2>2, <2>3
<1>5. CASE Inked(b) # {}
  <2> DEFINE m == Min(Inked(b))
             next == from + at + m - 1
  <2>1. m \in Inked(b) /\ \A k \in Inked(b) : m <= k
    BY <1>3, <1>5, InkEnds
  <2>2. Rest(r, at) = SubSeq(b, m, Len(b))
    BY <1>2, <1>5 DEF LStrip
  <2>3. m \in 1 .. Len(b) /\ b[m] \notin White
    BY <1>3, <2>1 DEF Inked
  <2>4. ASSUME NEW k \in 1 .. m - 1
        PROVE  b[k] \in White
    <3>1. k \in 1 .. Len(b) /\ ~(m <= k)
      BY <1>3, <2>3
    <3>2. k \notin Inked(b)
      BY <2>1, <3>1
    <3>3. QED
      BY <1>3, <3>1, <3>2 DEF Inked
  <2> HIDE DEF m
  <2>5. next \in from + at .. Len(s)
    BY <1>1, <2>3
  <2>6. b = SubSeq(s, from + at, Len(s))
    <3>1. /\ from \in 1 .. Len(s) /\ Len(s) \in 1 .. Len(s)
          /\ at + 1 \in 1 .. Len(s) - from + 1 /\ Len(r) \in 1 .. Len(s) - from + 1
      BY <1>1, <2>3
    <3>2. SubSeq(SubSeq(s, from, Len(s)), at + 1, Len(r)) = SubSeq(s, from + (at + 1) - 1, from + Len(r) - 1)
      <4> HIDE DEF r
      <4>1. QED
        BY <3>1, SubSeqOfSubSeq
    <3>3. from + (at + 1) - 1 = from + at /\ from + Len(r) - 1 = Len(s)
      BY <1>1
    <3>4. QED
      BY <3>2, <3>3
  <2>7. Rest(r, at) = SubSeq(s, next, Len(s))
    <3>1. /\ from + at \in 1 .. Len(s) /\ Len(s) \in 1 .. Len(s)
          /\ m \in 1 .. Len(s) - (from + at) + 1 /\ Len(b) \in 1 .. Len(s) - (from + at) + 1
      BY <1>1, <2>3
    <3>2. SubSeq(SubSeq(s, from + at, Len(s)), m, Len(b)) = SubSeq(s, from + at + m - 1, from + at + Len(b) - 1)
      <4> DEFINE f == from + at
                 t == Len(b)
      <4>1. f \in 1 .. Len(s) /\ Len(s) \in 1 .. Len(s) /\ m \in 1 .. Len(s) - f + 1 /\ t \in 1 .. Len(s) - f + 1
        BY <3>1
      <4> HIDE DEF f, t
      <4>2. SubSeq(SubSeq(s, f, Len(s)), m, t) = SubSeq(s, f + m - 1, f + t - 1)
        BY <4>1, SubSeqOfSubSeq
      <4>3. QED
        BY <4>2 DEF f, t
    <3>3. from + at + Len(b) - 1 = Len(s)
      <4> HIDE DEF b, r
      <4>1. QED
        BY <1>1, <1>3
    <3>4. QED
      BY <2>2, <2>6, <3>2, <3>3
  <2>8. s[next] \notin White
    BY <1>1, <2>3
  <2>9. ASSUME NEW p \in from + at .. next - 1
        PROVE  s[p] \in White
    <3>1. p - (from + at) + 1 \in 1 .. m - 1 /\ p - (from + at) + 1 \in 1 .. Len(r) - at
      BY <1>1, <2>3
    <3>2. b[p - (from + at) + 1] = s[p]
      BY <1>1, <3>1
    <3>3. QED
      BY <2>4, <3>1, <3>2
  <2>10. QED
    BY <1>1, <2>5, <2>7, <2>8, <2>9
<1>6. QED
  BY <1>4, <1>5

\* The piece before a cut is a part of the text, from its first to its last character
\* that is not white; there may be none.
LEMMA PieceIs ==
  ASSUME NEW s \in Seq(Chars), NEW from \in 1 .. Len(s) + 1, NEW at \in 0 .. Len(s) - from + 1
  PROVE  LET left == SubSeq(SubSeq(s, from, Len(s)), 1, at) IN
         \/ Strip(left) = <<>> /\ \A p \in from .. from + at - 1 : s[p] \in White
         \/ LET a == from + Min(Inked(left)) - 1
                b == from + Max(Inked(left)) - 1
            IN  /\ Strip(left) # <<>> /\ Strip(left) = SubSeq(s, a, b)
                /\ a \in Nat /\ b \in Nat /\ from <= a /\ a <= b /\ b <= from + at - 1
                /\ s[a] \notin White /\ s[b] \notin White
                /\ \A p \in from .. from + at - 1 : s[p] \notin White => p \in a .. b
<1> DEFINE r    == SubSeq(s, from, Len(s))
           left == SubSeq(r, 1, at)
<1>1. /\ r \in Seq(Chars) /\ Len(r) = Len(s) - from + 1 /\ Len(s) \in Nat
      /\ left \in Seq(Chars) /\ Len(left) = at
      /\ \A k \in 1 .. at : left[k] = s[from + k - 1]
  BY Parts
<1>2. DOMAIN left = 1 .. at /\ at \in Nat
  BY <1>1, LenProperties
<1>3. ASSUME NEW p \in from .. from + at - 1
      PROVE  p - from + 1 \in 1 .. at /\ left[p - from + 1] = s[p]
  <2> HIDE DEF left, r
  <2> DEFINE k == p - from + 1
  <2>1. k \in 1 .. at /\ from + k - 1 = p
    BY <1>1, <1>2
  <2> HIDE DEF k
  <2>2. left[k] = s[p]
    BY <1>1, <2>1
  <2>3. QED
    BY <2>1, <2>2 DEF k
<1>4. CASE Inked(left) = {}
  <2>1. Strip(left) = <<>>
    BY <1>4 DEF Strip
  <2>2. \A p \in from .. from + at - 1 : s[p] \in White
    BY <1>2, <1>3, <1>4 DEF Inked
  <2>3. QED
    BY <2>1, <2>2
<1>5. CASE Inked(left) # {}
  <2> DEFINE m == Min(Inked(left))
             z == Max(Inked(left))
  <2>1. m \in Inked(left) /\ z \in Inked(left) /\ \A k \in Inked(left) : m <= k /\ k <= z
    <3>1. /\ m \in Inked(left) /\ (\A k \in Inked(left) : m <= k)
          /\ z \in Inked(left) /\ (\A k \in Inked(left) : z >= k)
      BY <1>2, <1>5, InkEnds
    <3>2. Inked(left) \subseteq Nat
      BY <1>2 DEF Inked
    <3> HIDE DEF m, z
    <3>3. QED
      BY <3>1, <3>2
  <2>2. m \in 1 .. at /\ z \in 1 .. at /\ m <= z /\ left[m] \notin White /\ left[z] \notin White
    BY <1>2, <2>1 DEF Inked
  <2>3. \A k \in 1 .. at : left[k] \notin White => m <= k /\ k <= z
    BY <1>2, <2>1 DEF Inked
  <2>4. Strip(left) = SubSeq(left, m, z)
    BY <1>5 DEF Strip
  <2> HIDE DEF m, z
  <2>5. SubSeq(left, m, z) = SubSeq(r, m, z)
    <3>1. /\ 1 \in 1 .. Len(r) /\ at \in 1 .. Len(r) /\ m \in 1 .. at - 1 + 1 /\ z \in 1 .. at - 1 + 1
      BY <1>1, <2>2
    <3>2. SubSeq(left, m, z) = SubSeq(r, 1 + m - 1, 1 + z - 1)
      BY <1>1, <3>1, SubSeqOfSubSeq
    <3>3. 1 + m - 1 = m /\ 1 + z - 1 = z
      BY <2>2
    <3>4. QED
      BY <3>2, <3>3
  <2>6. SubSeq(r, m, z) = SubSeq(s, from + m - 1, from + z - 1)
    <3>1. /\ from \in 1 .. Len(s) /\ Len(s) \in 1 .. Len(s)
          /\ m \in 1 .. Len(s) - from + 1 /\ z \in 1 .. Len(s) - from + 1
      BY <1>1, <2>2
    <3>2. QED
      BY <3>1, SubSeqOfSubSeq
  <2>7. SubSeq(s, from + m - 1, from + z - 1) # <<>>
    <3> DEFINE x == from + m - 1
               y == from + z - 1
    <3>1. x \in Int /\ y \in Int /\ x <= y /\ \A i \in x .. y : s[i] \in Chars
      <4>1. x \in Nat /\ y \in Nat /\ x <= y /\ x >= 1 /\ y <= Len(s)
        BY <1>1, <2>2
      <4>2. \A i \in 1 .. Len(s) : s[i] \in Chars
        BY ElementOfSeq
      <4> HIDE DEF x, y
      <4>3. QED
        BY <1>1, <4>1, <4>2
    <3> HIDE DEF x, y
    <3>2. Len(SubSeq(s, x, y)) = y - x + 1
      BY <3>1, SubSeqProperties
    <3>3. Len(SubSeq(s, x, y)) # 0
      BY <3>1, <3>2
    <3>4. QED
      BY <3>3, EmptySeq DEF x, y
  <2>8. /\ from + m - 1 \in Nat /\ from + z - 1 \in Nat /\ from <= from + m - 1
        /\ from + m - 1 <= from + z - 1 /\ from + z - 1 <= from + at - 1
    BY <1>1, <2>2
  <2>9. s[from + m - 1] \notin White /\ s[from + z - 1] \notin White
    BY <1>1, <2>2
  <2>10. \A p \in from .. from + at - 1 : s[p] \notin White => p \in from + m - 1 .. from + z - 1
    <3>1. SUFFICES ASSUME NEW p \in from .. from + at - 1, s[p] \notin White
                   PROVE  p \in from + m - 1 .. from + z - 1
      OBVIOUS
    <3>2. p - from + 1 \in 1 .. at /\ m <= p - from + 1 /\ p - from + 1 <= z
      BY <1>3, <2>3, <3>1
    <3>3. QED
      BY <1>1, <2>2, <3>2
  <2>11. QED
    BY <2>4, <2>5, <2>6, <2>7, <2>8, <2>9, <2>10 DEF m, z
<1>6. QED
  BY <1>4, <1>5

\* How much of the text is cut: where the remaining text begins, at a character that
\* is not white.
RemainingInv ==
  /\ text \in Seq(Chars) /\ size \in Nat \ {0}
  /\ From \in 1 .. Len(text) + 1 /\ remaining = SubSeq(text, From, Len(text))
  /\ From <= Len(text) => text[From] \notin White

\* A cut behind this place of the text tears no word but one that the code gives up.
Whole(to) ==
  \A w \in WordsOf(text) :
    to \in w[1] .. w[2] - 1 =>
      \/ w[2] - w[1] + 1 > size
      \/ w[1] > 1 /\ text[w[1] - 1] = NewLine /\ w[2] - w[1] + 1 >= size - size \div 4

\* Each chunk is a part of the text, short enough, and ends where a cut may be.
PiecesInv ==
  /\ chunks \in Seq(Seq(Chars)) /\ spans \in Seq(Nat \X Nat) /\ Len(chunks) = Len(spans)
  /\ \A k \in 1 .. Len(spans) :
       /\ 1 <= spans[k][1] /\ spans[k][1] <= spans[k][2] /\ spans[k][2] < From
       /\ spans[k][2] - spans[k][1] < size
       /\ chunks[k] = SubSeq(text, spans[k][1], spans[k][2])
       /\ Whole(spans[k][2])
  /\ \A j, k \in 1 .. Len(spans) : j < k => spans[j][2] < spans[k][1]

\* What is not white before the remaining text is in a chunk.
CoverInv ==
  \A p \in 1 .. From - 1 :
    text[p] \notin White => \E k \in 1 .. Len(spans) : spans[k][1] <= p /\ p <= spans[k][2]

\* The invariant of the cutting loop.
CutInv == loop = "chunk" => RemainingInv /\ PiecesInv /\ CoverInv

\* The last place of a separator, or 0.
LEMMA LastAtIs ==
  ASSUME NEW window, NEW S, Len(window) \in Nat
  PROVE  /\ LastAt(window, S) \in 0 .. Len(window)
         /\ LastAt(window, S) # 0 => S[LastAt(window, S)]
         /\ \A p \in 1 .. Len(window) : S[p] => p <= LastAt(window, S)
<1> DEFINE P == {p \in 1 .. Len(window) : S[p]}
<1>1. CASE P = {}
  <2>1. LastAt(window, S) = 0
    BY <1>1 DEF LastAt
  <2>2. QED
    BY <1>1, <2>1
<1>2. CASE P # {}
  <2>1. LastAt(window, S) = Max(P)
    BY <1>2 DEF LastAt
  <2>2. \E m \in P : \A y \in P : m >= y
    <3>1. P \subseteq 1 .. Len(window)
      OBVIOUS
    <3> HIDE DEF P
    <3>2. QED
      BY <1>2, <3>1, GreatestExists
  <2>3. Max(P) \in P /\ \A y \in P : Max(P) >= y
    <3> HIDE DEF P
    <3>1. QED
      BY <2>2 DEF Max
  <2> DEFINE l == Max(P)
  <2>4. l \in P /\ \A y \in P : l >= y
    BY <2>3
  <2>5. LastAt(window, S) = l
    BY <2>1
  <2> HIDE DEF l
  <2>6. l \in 1 .. Len(window) /\ S[l]
    BY <2>4
  <2>7. ASSUME NEW p \in 1 .. Len(window), S[p]
        PROVE  p <= l
    <3>1. p \in P
      BY <2>7
    <3>2. l >= p
      BY <2>4, <3>1
    <3>3. QED
      BY <2>6, <3>2
  <2>8. QED
    BY <2>5, <2>6, <2>7
<1>3. QED
  BY <1>1, <1>2

\* Where a window is cut: before a separator, or behind the whole window when its line
\* breaks are in its first quarter and no space is behind its first character.
LEMMA CutAtIs ==
  ASSUME NEW window, NEW len \in Nat \ {0}, Len(window) = len
  PROVE  LET at == CutAt(window, len) IN
         \/ at \in 1 .. len - 1 /\ window[at + 1] \in White
         \/ /\ at = len
            /\ \A p \in 1 .. len : window[p] = NewLine => p - 1 <= len \div 4
            /\ \A p \in 1 .. len : window[p] = Space => p <= 1
<1> DEFINE spaces   == [p \in 1 .. Len(window) |-> window[p] = Space]
           line     == LastAt(window, Breaks(window))
           sentence == LastAt(window, Ends(window, Stop))
           clause   == LastAt(window, Ends(window, Comma))
           space    == LastAt(window, spaces)
           quarter  == len \div 4
           at       == CutAt(window, len)
<1>1. Len(window) \in Nat /\ quarter \in Nat
  OBVIOUS
<1>2. at = IF Usable(line, len)          THEN line - 1
           ELSE IF Usable(sentence, len) THEN sentence
           ELSE IF Usable(clause, len)   THEN clause
           ELSE IF WordBreak(space, len) THEN space - 1
           ELSE len
  BY DEF CutAt
<1>3. /\ line \in 0 .. len /\ (line # 0 => window[line] = NewLine)
      /\ \A p \in 1 .. len : window[p] = NewLine => p <= line
  <2>1. /\ line \in 0 .. Len(window) /\ (line # 0 => Breaks(window)[line])
        /\ \A p \in 1 .. Len(window) : Breaks(window)[p] => p <= line
    BY <1>1, LastAtIs
  <2>2. \A p \in 1 .. Len(window) : Breaks(window)[p] <=> window[p] = NewLine
    BY Zenon DEF Breaks
  <2> HIDE DEF line
  <2>3. line # 0 => line \in 1 .. Len(window)
    BY <1>1, <2>1
  <2>4. QED
    BY <2>1, <2>2, <2>3
<1>4. ASSUME NEW mark
      PROVE  LET e == LastAt(window, Ends(window, mark)) IN
             e \in 0 .. len /\ (e # 0 => e < len /\ window[e + 1] = Space)
  <2> DEFINE e == LastAt(window, Ends(window, mark))
  <2>1. e \in 0 .. Len(window) /\ (e # 0 => Ends(window, mark)[e])
    BY <1>1, LastAtIs
  <2>2. \A p \in 1 .. Len(window) :
          Ends(window, mark)[p] <=> p < Len(window) /\ window[p] = mark /\ window[p + 1] = Space
    BY Zenon DEF Ends
  <2> HIDE DEF e
  <2>3. e # 0 => e \in 1 .. Len(window)
    BY <1>1, <2>1
  <2>4. e \in 0 .. len /\ (e # 0 => e < len /\ window[e + 1] = Space)
    BY <2>1, <2>2, <2>3
  <2>5. QED
    BY <2>4 DEF e
<1>5. sentence \in 0 .. len /\ (sentence # 0 => sentence < len /\ window[sentence + 1] = Space)
  BY <1>4
<1>6. clause \in 0 .. len /\ (clause # 0 => clause < len /\ window[clause + 1] = Space)
  BY <1>4
<1>7. /\ space \in 0 .. len /\ (space # 0 => window[space] = Space)
      /\ \A p \in 1 .. len : window[p] = Space => p <= space
  <2>1. /\ space \in 0 .. Len(window) /\ (space # 0 => spaces[space])
        /\ \A p \in 1 .. Len(window) : spaces[p] => p <= space
    BY <1>1, LastAtIs
  <2>2. \A p \in 1 .. Len(window) : spaces[p] <=> window[p] = Space
    BY Zenon
  <2> HIDE DEF space, spaces
  <2>3. space # 0 => space \in 1 .. Len(window)
    BY <1>1, <2>1
  <2>4. QED
    BY <2>1, <2>2, <2>3
<1>8. ASSUME NEW p \in 0 .. len
      PROVE  (Usable(p, len) <=> p - 1 > quarter) /\ (WordBreak(p, len) <=> p > 1)
  BY DEF Usable, WordBreak
<1> HIDE DEF spaces, line, sentence, clause, space, quarter, at
<1>9. CASE Usable(line, len)
  <2>1. at = line - 1 /\ line - 1 > quarter
    <3>1. at = line - 1
      BY <1>2, <1>9
    <3>2. line - 1 > quarter
      BY <1>3, <1>8, <1>9
    <3>3. QED
      BY <3>1, <3>2
  <2>2. at \in 1 .. len - 1 /\ at + 1 = line /\ line # 0
    BY <1>1, <1>3, <2>1
  <2>3. QED
    BY <1>3, <2>2 DEF White, at
<1>10. CASE ~Usable(line, len) /\ Usable(sentence, len)
  <2>1. at = sentence /\ sentence - 1 > quarter
    <3>1. at = sentence
      BY <1>2, <1>10
    <3>2. sentence - 1 > quarter
      BY <1>5, <1>8, <1>10
    <3>3. QED
      BY <3>1, <3>2
  <2>2. at \in 1 .. len - 1 /\ window[at + 1] = Space
    BY <1>1, <1>5, <2>1
  <2>3. QED
    BY <2>2 DEF White, at
<1>11. CASE ~Usable(line, len) /\ ~Usable(sentence, len) /\ Usable(clause, len)
  <2>1. at = clause /\ clause - 1 > quarter
    <3>1. at = clause
      BY <1>2, <1>11
    <3>2. clause - 1 > quarter
      BY <1>6, <1>8, <1>11
    <3>3. QED
      BY <3>1, <3>2
  <2>2. at \in 1 .. len - 1 /\ window[at + 1] = Space
    BY <1>1, <1>6, <2>1
  <2>3. QED
    BY <2>2 DEF White, at
<1>12. CASE /\ ~Usable(line, len) /\ ~Usable(sentence, len) /\ ~Usable(clause, len)
            /\ WordBreak(space, len)
  <2>1. at = space - 1 /\ space > 1
    BY <1>2, <1>7, <1>8, <1>12
  <2>2. at \in 1 .. len - 1 /\ at + 1 = space /\ space # 0
    BY <1>1, <1>7, <2>1
  <2>3. QED
    BY <1>7, <2>2 DEF White, at
<1>13. CASE /\ ~Usable(line, len) /\ ~Usable(sentence, len) /\ ~Usable(clause, len)
            /\ ~WordBreak(space, len)
  <2>1. at = len /\ line - 1 <= quarter /\ space <= 1
    BY <1>1, <1>2, <1>3, <1>7, <1>8, <1>13
  <2>2. \A p \in 1 .. len : window[p] = NewLine => p - 1 <= quarter
    BY <1>1, <1>3, <2>1
  <2>3. \A p \in 1 .. len : window[p] = Space => p <= 1
    BY <1>7, <2>1
  <2>4. QED
    BY <2>1, <2>2, <2>3 DEF at, quarter
<1>14. QED
  BY <1>9, <1>10, <1>11, <1>12, <1>13

\* Where the cut goes through a word, the word is one the code gives up.
LEMMA CutTears ==
  ASSUME RemainingInv, Len(remaining) > size,
         LET at == CutAt(SubSeq(remaining, 1, size), size) IN
           remaining[at] \notin White /\ remaining[at + 1] \notin White
  PROVE  Whole(From + CutAt(SubSeq(remaining, 1, size), size) - 1)
<1> DEFINE window == SubSeq(remaining, 1, size)
           at     == CutAt(window, size)
           f      == From
<1>1. /\ text \in Seq(Chars) /\ size \in Nat \ {0} /\ f \in 1 .. Len(text) + 1
      /\ remaining = SubSeq(text, f, Len(text)) /\ (f <= Len(text) => text[f] \notin White)
  BY DEF RemainingInv
<1> HIDE DEF f
<1>2. Len(remaining) = Len(text) - f + 1 /\ Len(text) \in Nat
  <2>1. 0 \in 0 .. Len(text) - f + 1
    BY <1>1, LenProperties
  <2>2. QED
    BY <1>1, <2>1, Parts
<1>3. size \in 0 .. Len(text) - f + 1
  BY <1>1, <1>2
<1>4. /\ \A k \in 1 .. Len(remaining) : remaining[k] = text[f + k - 1]
      /\ Len(window) = size
      /\ \A k \in 1 .. size : window[k] = text[f + k - 1]
  BY <1>1, <1>3, Parts
<1>5. \/ at \in 1 .. size - 1 /\ window[at + 1] \in White
      \/ /\ at = size
         /\ \A p \in 1 .. size : window[p] = NewLine => p - 1 <= size \div 4
         /\ \A p \in 1 .. size : window[p] = Space => p <= 1
  <2> HIDE DEF window
  <2>1. QED
    BY <1>1, <1>4, CutAtIs
<1>6. remaining[at + 1] \notin White
  OBVIOUS
<1> HIDE DEF window, at
<1>7. /\ at = size
      /\ \A p \in 1 .. size : window[p] = NewLine => p - 1 <= size \div 4
      /\ \A p \in 1 .. size : window[p] = Space => p <= 1
  <2>1. ASSUME at \in 1 .. size - 1
        PROVE  window[at + 1] = remaining[at + 1]
    <3>1. at + 1 \in 1 .. size /\ at + 1 \in 1 .. Len(remaining)
      BY <1>1, <1>2, <1>3, <2>1
    <3>2. QED
      BY <1>4, <3>1
  <2>2. QED
    BY <1>5, <1>6, <2>1
<1>8. ASSUME NEW w \in WordsOf(text), f + size - 1 \in w[1] .. w[2] - 1
      PROVE  \/ w[2] - w[1] + 1 > size
             \/ w[1] > 1 /\ text[w[1] - 1] = NewLine /\ w[2] - w[1] + 1 >= size - size \div 4
  <2>1. /\ w[1] \in 1 .. Len(text) /\ w[2] \in 1 .. Len(text)
        /\ w[1] = 1 \/ text[w[1] - 1] \in White
    BY <1>8 DEF WordsOf
  <2>2. w[1] <= f + size - 1 /\ f + size <= w[2]
    BY <1>1, <1>2, <1>8, <2>1
  <2>3. CASE w[1] <= f
    BY <1>1, <1>2, <2>1, <2>2, <2>3
  <2>4. CASE w[1] > f
    <3> DEFINE first == w[1]
               last  == w[2]
               q     == first - f
    <3>0. first \in Nat /\ last \in Nat /\ f \in Nat /\ size \in Nat /\ f >= 1
      BY <1>1, <1>2, <2>1
    <3>1. q \in 1 .. size - 1 /\ q \in 1 .. size /\ f + q - 1 = w[1] - 1 /\ w[1] > 1
      <4>1. first <= f + size - 1 /\ first > f
        BY <2>2, <2>4
      <4> HIDE DEF first
      <4>2. q \in 1 .. size - 1 /\ q \in 1 .. size /\ f + q - 1 = first - 1 /\ first > 1
        BY <3>0, <4>1
      <4>3. QED
        BY <4>2 DEF first
    <3>2. window[q] = text[w[1] - 1] /\ text[w[1] - 1] \in White
      BY <1>1, <1>4, <2>1, <3>1
    <3>3. f <= Len(text)
      BY <1>1, <1>2, <2>1, <2>4
    <3>4. text[w[1] - 1] # Space
      <4>1. SUFFICES ASSUME text[w[1] - 1] = Space
                     PROVE  FALSE
        OBVIOUS
      <4>2. q <= 1
        BY <1>7, <3>1, <3>2, <4>1
      <4>3. w[1] - 1 = f
        BY <1>1, <2>1, <3>1, <4>2
      <4>4. QED
        BY <1>1, <3>2, <3>3, <4>3
    <3>5. text[w[1] - 1] = NewLine
      BY <3>2, <3>4 DEF White
    <3>6. q - 1 <= size \div 4
      BY <1>7, <3>1, <3>2, <3>5
    <3>7. size \div 4 \in Nat
      BY <1>1
    <3>8. w[2] - w[1] + 1 >= size - size \div 4
      <4> DEFINE quarter == size \div 4
      <4>1. quarter \in Nat /\ q - 1 <= quarter /\ f + size <= last
        BY <2>2, <3>6, <3>7
      <4> HIDE DEF quarter, first, last
      <4>2. last - first + 1 >= size - quarter
        BY <3>0, <4>1
      <4>3. QED
        BY <4>2 DEF quarter, first, last
    <3>9. QED
      BY <3>1, <3>5, <3>8
  <2>5. QED
    BY <1>1, <1>2, <2>1, <2>3, <2>4
<1>9. From + at - 1 = f + size - 1
  BY <1>7 DEF f
<1>10. QED
  BY <1>8, <1>9 DEF Whole, at, window

\* Taking a piece, the whole rest or the characters before a cut, keeps the invariant.
LEMMA PieceTaken ==
  ASSUME RemainingInv, PiecesInv, CoverInv,
         NEW at \in 0 .. Len(remaining), at <= size,
         1 <= at /\ at < Len(remaining) /\ remaining[at] \notin White /\ remaining[at + 1] \notin White
           => Whole(From + at - 1),
         chunks' = Appended(SubSeq(remaining, 1, at)),
         spans' = Placed(SubSeq(remaining, 1, at)),
         remaining' = Rest(remaining, at), text' = text, size' = size
  PROVE  RemainingInv' /\ PiecesInv' /\ CoverInv'
<1> DEFINE left == SubSeq(remaining, 1, at)
           f    == From
           g    == From'
<1>1. /\ text \in Seq(Chars) /\ size \in Nat \ {0} /\ f \in 1 .. Len(text) + 1
      /\ remaining = SubSeq(text, f, Len(text)) /\ (f <= Len(text) => text[f] \notin White)
  BY DEF RemainingInv
<1>2. f = Len(text) - Len(remaining) + 1 /\ g = Len(text) - Len(remaining') + 1
  BY DEF From
<1> HIDE DEF f, g
<1>3. Len(remaining) = Len(text) - f + 1 /\ Len(text) \in Nat
  <2>1. 0 \in 0 .. Len(text) - f + 1
    BY <1>1, LenProperties
  <2>2. QED
    BY <1>1, <2>1, Parts
<1>4. at \in 0 .. Len(text) - f + 1 /\ at \in Nat
  BY <1>1, <1>3
<1>5. \A k \in 1 .. Len(remaining) : remaining[k] = text[f + k - 1]
  BY <1>1, <1>4, Parts
<1>6. PICK next \in f + at .. Len(text) + 1 :
        /\ remaining' = SubSeq(text, next, Len(text))
        /\ \A p \in f + at .. next - 1 : text[p] \in White
        /\ next <= Len(text) => text[next] \notin White
  BY <1>1, <1>4, RestIs
<1>7. /\ g = next /\ next \in 1 .. Len(text) + 1 /\ next >= f + at
      /\ f \in Nat /\ g \in Nat /\ f <= g
  <2>1. next \in 1 .. Len(text) + 1 /\ next >= f + at
    BY <1>1, <1>3, <1>4, <1>6
  <2>2. 0 \in 0 .. Len(text) - next + 1
    BY <1>3, <2>1
  <2>3. Len(remaining') = Len(text) - next + 1
    <3>1. Len(SubSeq(text, next, Len(text))) = Len(text) - next + 1
      BY <1>1, <2>1, <2>2, Parts
    <3>2. QED
      BY <1>6, <3>1
  <2>4. g = next
    BY <1>2, <1>3, <2>1, <2>3
  <2>5. f \in Nat /\ next \in Nat
    BY <1>1, <1>3, <2>1
  <2>6. QED
    BY <1>4, <2>1, <2>4, <2>5
<1>8. RemainingInv'
  BY <1>1, <1>6, <1>7 DEF RemainingInv, g
<1>9. ASSUME NEW to
      PROVE  Whole(to)' <=> Whole(to)
  BY DEF Whole, WordsOf
<1>10. /\ chunks \in Seq(Seq(Chars)) /\ spans \in Seq(Nat \X Nat) /\ Len(chunks) = Len(spans)
       /\ \A k \in 1 .. Len(spans) :
            /\ 1 <= spans[k][1] /\ spans[k][1] <= spans[k][2] /\ spans[k][2] < f
            /\ spans[k][2] - spans[k][1] < size
            /\ chunks[k] = SubSeq(text, spans[k][1], spans[k][2])
            /\ Whole(spans[k][2])
       /\ \A j, k \in 1 .. Len(spans) : j < k => spans[j][2] < spans[k][1]
  BY DEF PiecesInv, f
<1>11. Len(spans) \in Nat /\ \A k \in 1 .. Len(spans) : spans[k][1] \in Nat /\ spans[k][2] \in Nat
  <2>1. Len(spans) \in Nat /\ \A k \in 1 .. Len(spans) : spans[k] \in Nat \X Nat
    BY <1>10, LenProperties, ElementOfSeq
  <2>2. QED
    BY <2>1
<1>12. \/ Strip(left) = <<>> /\ \A p \in f .. f + at - 1 : text[p] \in White
       \/ LET a == f + Min(Inked(left)) - 1
              b == f + Max(Inked(left)) - 1
          IN  /\ Strip(left) # <<>> /\ Strip(left) = SubSeq(text, a, b)
              /\ a \in Nat /\ b \in Nat /\ f <= a /\ a <= b /\ b <= f + at - 1
              /\ text[a] \notin White /\ text[b] \notin White
              /\ \A p \in f .. f + at - 1 : text[p] \notin White => p \in a .. b
  BY <1>1, <1>4, PieceIs
<1>13. CASE Strip(left) = <<>> /\ \A p \in f .. f + at - 1 : text[p] \in White
  <2>1. chunks' = chunks /\ spans' = spans
    BY <1>13 DEF Appended, Placed
  <2>2. ASSUME NEW k \in 1 .. Len(spans)
        PROVE  spans[k][2] < g
    <3>1. spans[k][2] < f /\ spans[k][2] \in Nat
      BY <1>10, <1>11
    <3>2. QED
      BY <1>7, <3>1
  <2>3. PiecesInv'
    BY <1>9, <1>10, <2>1, <2>2 DEF PiecesInv, g
  <2>4. ASSUME NEW p \in 1 .. g - 1, text[p] \notin White
        PROVE  \E k \in 1 .. Len(spans) : spans[k][1] <= p /\ p <= spans[k][2]
    <3>1. p \notin f .. f + at - 1 /\ p \notin f + at .. next - 1
      BY <1>6, <1>13, <2>4
    <3>2. p \in 1 .. f - 1
      BY <1>1, <1>3, <1>4, <1>7, <3>1
    <3>3. QED
      BY <2>4, <3>2 DEF CoverInv, f
  <2>5. CoverInv'
    BY <2>1, <2>4 DEF CoverInv, g
  <2>6. QED
    BY <1>8, <2>3, <2>5
<1>14. CASE LET a == f + Min(Inked(left)) - 1
                b == f + Max(Inked(left)) - 1
            IN  /\ Strip(left) # <<>> /\ Strip(left) = SubSeq(text, a, b)
                /\ a \in Nat /\ b \in Nat /\ f <= a /\ a <= b /\ b <= f + at - 1
                /\ text[a] \notin White /\ text[b] \notin White
                /\ \A p \in f .. f + at - 1 : text[p] \notin White => p \in a .. b
  <2> DEFINE a   == f + Min(Inked(left)) - 1
             b   == f + Max(Inked(left)) - 1
             len == Len(spans)
  <2>1. /\ Strip(left) # <<>> /\ Strip(left) = SubSeq(text, a, b)
        /\ a \in Nat /\ b \in Nat /\ f <= a /\ a <= b /\ b <= f + at - 1
        /\ text[a] \notin White /\ text[b] \notin White
        /\ \A p \in f .. f + at - 1 : text[p] \notin White => p \in a .. b
    BY <1>14
  <2>2. chunks' = Append(chunks, SubSeq(text, a, b)) /\ spans' = Append(spans, <<a, b>>)
    BY <2>1 DEF Appended, Placed, f
  <2> HIDE DEF a, b
  <2>3. SubSeq(text, a, b) \in Seq(Chars) /\ <<a, b>> \in Nat \X Nat
    <3>1. \A k \in a .. b : text[k] \in Chars
      <4>1. \A k \in 1 .. Len(text) : text[k] \in Chars
        BY <1>1, ElementOfSeq
      <4>2. QED
        BY <1>1, <1>3, <1>4, <2>1, <4>1
    <3>2. a \in Int /\ b \in Int
      BY <2>1
    <3>3. QED
      BY <2>1, <3>1, <3>2, SubSeqProperties
  <2>4. /\ spans' \in Seq(Nat \X Nat) /\ Len(spans') = len + 1 /\ spans'[len + 1] = <<a, b>>
        /\ \A k \in 1 .. len : spans'[k] = spans[k]
    <3>1. spans \in Seq(Nat \X Nat) /\ <<a, b>> \in Nat \X Nat
      BY <1>10, <2>3
    <3> HIDE DEF len
    <3>2. /\ Append(spans, <<a, b>>) \in Seq(Nat \X Nat) /\ Len(Append(spans, <<a, b>>)) = Len(spans) + 1
          /\ \A k \in 1 .. Len(spans) : Append(spans, <<a, b>>)[k] = spans[k]
          /\ Append(spans, <<a, b>>)[Len(spans) + 1] = <<a, b>>
      <4> DEFINE pair  == <<a, b>>
                 Pairs == Nat \X Nat
      <4>1. pair \in Pairs /\ spans \in Seq(Pairs)
        BY <3>1
      <4> HIDE DEF pair, Pairs
      <4>2. /\ Append(spans, pair) \in Seq(Pairs) /\ Len(Append(spans, pair)) = Len(spans) + 1
            /\ \A k \in 1 .. Len(spans) : Append(spans, pair)[k] = spans[k]
            /\ Append(spans, pair)[Len(spans) + 1] = pair
        BY <4>1, AppendProperties
      <4>3. QED
        BY <4>2 DEF pair, Pairs
    <3>3. QED
      BY <2>2, <3>2 DEF len
  <2>5. /\ chunks' \in Seq(Seq(Chars)) /\ Len(chunks') = len + 1 /\ chunks'[len + 1] = SubSeq(text, a, b)
        /\ \A k \in 1 .. len : chunks'[k] = chunks[k]
    <3>1. SubSeq(text, a, b) \in Seq(Chars) /\ chunks \in Seq(Seq(Chars))
      BY <1>10, <2>3
    <3>2. QED
      <4> DEFINE piece == SubSeq(text, a, b)
                 Lists == Seq(Chars)
      <4>1. piece \in Lists /\ chunks \in Seq(Lists)
        BY <3>1
      <4> HIDE DEF piece, Lists, len
      <4>2. /\ Append(chunks, piece) \in Seq(Lists) /\ Len(Append(chunks, piece)) = Len(chunks) + 1
            /\ \A k \in 1 .. Len(chunks) : Append(chunks, piece)[k] = chunks[k]
            /\ Append(chunks, piece)[Len(chunks) + 1] = piece
        BY <4>1, AppendProperties
      <4>3. QED
        BY <1>10, <2>2, <4>2 DEF piece, Lists, len
  <2> HIDE DEF len
  <2>6. len \in Nat /\ len = Len(spans)
    BY <1>11 DEF len
  <2>7. Whole(b)
    <3>1. SUFFICES ASSUME NEW w \in WordsOf(text), b \in w[1] .. w[2] - 1
                   PROVE  \/ w[2] - w[1] + 1 > size
                          \/ w[1] > 1 /\ text[w[1] - 1] = NewLine /\ w[2] - w[1] + 1 >= size - size \div 4
      BY DEF Whole
    <3>2. /\ w[1] \in 1 .. Len(text) /\ w[2] \in 1 .. Len(text)
          /\ \A k \in w[1] .. w[2] : text[k] \notin White
      BY <3>1 DEF WordsOf
    <3>3. b + 1 \in w[1] .. w[2] /\ b + 1 <= Len(text)
      <4> DEFINE last == w[2]
      <4>1. last \in Nat /\ last <= Len(text) /\ w[1] <= b /\ b <= last - 1 /\ w[1] \in Nat
        BY <1>3, <3>1, <3>2
      <4> HIDE DEF last
      <4>2. b + 1 \in w[1] .. last /\ b + 1 <= Len(text)
        BY <1>3, <2>1, <4>1
      <4>3. QED
        BY <4>2 DEF last
    <3>4. text[b + 1] \notin White
      BY <3>2, <3>3
    <3>5. b = f + at - 1
      <4>1. b + 1 \notin f .. f + at - 1
        <5>1. ~(b + 1 \in a .. b)
          BY <2>1
        <5>2. QED
          BY <2>1, <3>4, <5>1
      <4>2. QED
        BY <1>1, <1>3, <1>4, <2>1, <4>1
    <3>6. 1 <= at /\ at < Len(remaining)
      BY <1>1, <1>3, <1>4, <2>1, <3>3, <3>5
    <3>7. remaining[at] = text[b] /\ remaining[at + 1] = text[b + 1]
      <4>1. at \in 1 .. Len(remaining) /\ at + 1 \in 1 .. Len(remaining) /\ f + (at + 1) - 1 = b + 1
        BY <1>1, <1>3, <1>4, <3>5, <3>6
      <4>2. QED
        BY <1>5, <3>5, <4>1
    <3>8. Whole(From + at - 1)
      BY <2>1, <3>4, <3>6, <3>7
    <3>9. Whole(b)
      BY <3>5, <3>8 DEF f
    <3>10. QED
      BY <3>1, <3>9 DEF Whole
  <2>8. ASSUME NEW k \in 1 .. len + 1
        PROVE  /\ 1 <= spans'[k][1] /\ spans'[k][1] <= spans'[k][2] /\ spans'[k][2] < g
               /\ spans'[k][2] - spans'[k][1] < size
               /\ chunks'[k] = SubSeq(text, spans'[k][1], spans'[k][2])
               /\ Whole(spans'[k][2])
    <3>1. CASE k \in 1 .. len
      <4>1. spans[k][2] < g
        <5>1. spans[k][2] < f /\ spans[k][2] \in Nat
          BY <1>10, <1>11, <2>6, <3>1
        <5>2. QED
          BY <1>7, <5>1
      <4>2. QED
        BY <1>10, <2>4, <2>5, <2>6, <3>1, <4>1
    <3>2. CASE k = len + 1
      <4>1. spans'[k][1] = a /\ spans'[k][2] = b /\ chunks'[k] = SubSeq(text, a, b)
        <5>1. spans'[k] = <<a, b>> /\ chunks'[k] = SubSeq(text, a, b)
          BY <2>4, <2>5, <3>2
        <5>2. <<a, b>>[1] = a /\ <<a, b>>[2] = b
          OBVIOUS
        <5>3. QED
          BY <5>1, <5>2
      <4>2. 1 <= a /\ a <= b /\ b < g /\ b - a < size
        BY <1>1, <1>3, <1>4, <1>7, <2>1
      <4>3. QED
        BY <2>7, <4>1, <4>2
    <3>3. QED
      BY <2>6, <3>1, <3>2
  <2>9. ASSUME NEW j \in 1 .. len + 1, NEW k \in 1 .. len + 1, j < k
        PROVE  spans'[j][2] < spans'[k][1]
    <3>1. CASE k \in 1 .. len
      <4>1. j \in 1 .. len
        BY <2>6, <2>9, <3>1
      <4>2. QED
        BY <1>10, <2>4, <2>6, <2>9, <3>1, <4>1
    <3>2. CASE k = len + 1
      <4>1. j \in 1 .. len
        BY <2>6, <2>9, <3>2
      <4>2. spans'[k][1] = a /\ spans'[j] = spans[j] /\ spans[j][2] < f /\ spans[j][2] \in Nat
        <5>1. spans'[k] = <<a, b>> /\ <<a, b>>[1] = a
          BY <2>4, <3>2
        <5>2. spans'[j] = spans[j] /\ spans[j][2] < f /\ spans[j][2] \in Nat
          BY <1>10, <1>11, <2>4, <2>6, <4>1
        <5>3. QED
          BY <5>1, <5>2
      <4>3. a \in Nat /\ f <= a /\ f \in Nat
        BY <1>7, <2>1
      <4>4. QED
        BY <4>2, <4>3
    <3>3. QED
      BY <2>6, <3>1, <3>2
  <2>10. PiecesInv'
    <3>1. \A k \in 1 .. len + 1 : Whole(spans[k][2])'
      <4>1. SUFFICES ASSUME NEW k \in 1 .. len + 1
                     PROVE  Whole(spans[k][2])'
        OBVIOUS
      <4>2. Whole(spans'[k][2])
        BY <2>8
      <4>3. QED
        BY <4>2 DEF Whole, WordsOf
    <3>2. QED
      BY <2>4, <2>5, <2>8, <2>9, <3>1 DEF PiecesInv, g
  <2>11. ASSUME NEW p \in 1 .. g - 1, text[p] \notin White
         PROVE  \E k \in 1 .. len + 1 : spans'[k][1] <= p /\ p <= spans'[k][2]
    <3>1. p \notin f + at .. next - 1
      BY <1>6, <2>11
    <3>2. p \in 1 .. f - 1 \/ p \in f .. f + at - 1
      BY <1>1, <1>3, <1>4, <1>7, <3>1
    <3>3. CASE p \in 1 .. f - 1
      <4>1. PICK k \in 1 .. Len(spans) : spans[k][1] <= p /\ p <= spans[k][2]
        BY <2>11, <3>3 DEF CoverInv, f
      <4>2. k \in 1 .. len + 1 /\ spans'[k] = spans[k]
        <5>1. k \in 1 .. len /\ k \in 1 .. len + 1
          BY <2>6, <4>1
        <5>2. QED
          BY <2>4, <5>1
      <4>3. QED
        BY <4>1, <4>2
    <3>4. CASE p \in f .. f + at - 1
      <4>1. p \in a .. b /\ p \in Int
        BY <2>1, <2>11, <3>4
      <4>2. a <= p /\ p <= b
        BY <2>1, <4>1
      <4>3. len + 1 \in 1 .. len + 1 /\ spans'[len + 1][1] = a /\ spans'[len + 1][2] = b
        BY <2>4, <2>6
      <4>4. QED
        BY <4>2, <4>3
    <3>5. QED
      BY <3>2, <3>3, <3>4
  <2>12. CoverInv'
    BY <2>4, <2>11 DEF CoverInv, g
  <2>13. QED
    BY <1>8, <2>10, <2>12
<1>15. QED
  BY <1>12, <1>13, <1>14

\* The loop begins with the whole text, which is stripped.
LEMMA CutBegins == InitChunk => RemainingInv /\ PiecesInv /\ CoverInv
<1> SUFFICES ASSUME InitChunk
             PROVE  RemainingInv /\ PiecesInv /\ CoverInv
  OBVIOUS
<1>1. /\ size \in Sizes /\ text \in Texts /\ text = Strip(text) /\ Len(text) > size
      /\ remaining = text /\ chunks = <<>> /\ spans = <<>>
  BY DEF InitChunk
<1>2. text \in Seq(Chars) /\ size \in Nat \ {0} /\ Len(text) \in Nat
  <2>1. PICK len \in 1 .. MaxText : text \in [1 .. len -> Chars]
    BY <1>1 DEF Texts
  <2>2. len \in Nat
    BY <2>1, TextAssumption
  <2>3. text \in Seq(Chars)
    BY <2>1, <2>2, SeqDef
  <2>4. QED
    BY <1>1, <2>3, TextAssumption, LenProperties
<1>3. Len(text) >= 2 /\ DOMAIN text = 1 .. Len(text)
  BY <1>1, <1>2, LenProperties
<1>4. Inked(text) # {}
  <2>1. SUFFICES ASSUME Inked(text) = {}
                 PROVE  FALSE
    OBVIOUS
  <2>2. text = <<>>
    BY <1>1, <2>1 DEF Strip
  <2>3. QED
    BY <1>3, <2>2, EmptySeq
<1> DEFINE first == Min(Inked(text))
           last  == Max(Inked(text))
<1>5. first \in Inked(text) /\ last \in Inked(text)
  BY <1>2, <1>3, <1>4, InkEnds
<1>6. text = SubSeq(text, first, last)
  BY <1>1, <1>4 DEF Strip
<1> HIDE DEF first, last
<1>7. first \in 1 .. Len(text) /\ last \in 1 .. Len(text) /\ text[first] \notin White
  BY <1>3, <1>5 DEF Inked
<1>8. Len(SubSeq(text, first, last)) = IF first <= last THEN last - first + 1 ELSE 0
  <2>1. first \in Int /\ last \in Int /\ \A k \in first .. last : text[k] \in Chars
    <3>1. \A k \in 1 .. Len(text) : text[k] \in Chars
      BY <1>2, ElementOfSeq
    <3>2. QED
      BY <1>2, <1>7, <3>1
  <2>2. QED
    BY <2>1, SubSeqProperties
<1>9. first = 1
  <2>1. Len(text) = IF first <= last THEN last - first + 1 ELSE 0
    BY <1>6, <1>8
  <2>2. QED
    BY <1>2, <1>3, <1>7, <2>1
<1>10. From = 1
  BY <1>1, <1>2 DEF From
<1>11. text = SubSeq(text, 1, Len(text))
  BY <1>2, SubSeqFull
<1>12. RemainingInv
  BY <1>1, <1>2, <1>7, <1>9, <1>10, <1>11 DEF RemainingInv
<1>13. Len(spans) = 0 /\ Len(chunks) = 0
  BY <1>1, EmptySeq
<1>14. PiecesInv
  <2>1. chunks \in Seq(Seq(Chars)) /\ spans \in Seq(Nat \X Nat)
    BY <1>1, EmptySeq
  <2>2. QED
    BY <1>13, <2>1 DEF PiecesInv
<1>15. CoverInv
  BY <1>10 DEF CoverInv
<1>16. QED
  BY <1>12, <1>14, <1>15

\* A cut takes a piece.
LEMMA CutKeeps ==
  ASSUME CutInv, Cut
  PROVE  CutInv'
<1> DEFINE window == SubSeq(remaining, 1, size)
           at     == CutAt(window, size)
<1>1. /\ loop = "chunk" /\ Len(remaining) > size
      /\ chunks' = Appended(SubSeq(remaining, 1, at)) /\ spans' = Placed(SubSeq(remaining, 1, at))
      /\ remaining' = Rest(remaining, at)
      /\ loop' = loop /\ text' = text /\ size' = size
  BY DEF Cut
<1>2. RemainingInv /\ PiecesInv /\ CoverInv
  BY <1>1 DEF CutInv
<1>3. /\ text \in Seq(Chars) /\ size \in Nat \ {0} /\ From \in 1 .. Len(text) + 1
      /\ remaining = SubSeq(text, From, Len(text)) /\ From = Len(text) - Len(remaining) + 1
  BY <1>2 DEF RemainingInv, From
<1>4. Len(text) \in Nat
  BY <1>3, LenProperties
<1>5. Len(remaining) = Len(text) - From + 1
  <2>1. 0 \in 0 .. Len(text) - From + 1
    BY <1>3, <1>4
  <2>2. QED
    BY <1>3, <2>1, Parts
<1>6. Len(window) = size
  <2>1. size \in 0 .. Len(text) - From + 1
    BY <1>1, <1>3, <1>4, <1>5
  <2>2. QED
    BY <1>3, <2>1, Parts
<1>7. at \in 1 .. size
  <2> HIDE DEF window
  <2>1. at \in 1 .. size - 1 \/ at = size
    BY <1>3, <1>6, CutAtIs
  <2> HIDE DEF at
  <2>2. QED
    BY <1>3, <2>1
<1>8. remaining[at] \notin White /\ remaining[at + 1] \notin White => Whole(From + at - 1)
  BY <1>1, <1>2, CutTears
<1> HIDE DEF at, window
<1>9. at \in 0 .. Len(remaining) /\ at <= size
  BY <1>1, <1>3, <1>4, <1>5, <1>7
<1>10. RemainingInv' /\ PiecesInv' /\ CoverInv'
  BY <1>1, <1>2, <1>8, <1>9, PieceTaken
<1>11. QED
  BY <1>10 DEF CutInv

\* The last piece is all that remains.
LEMMA LastChunkKeeps ==
  ASSUME CutInv, LastChunk
  PROVE  CutInv'
<1> DEFINE at == Len(remaining)
<1>1. /\ loop = "chunk" /\ at <= size
      /\ chunks' = Appended(remaining) /\ spans' = Placed(remaining) /\ remaining' = <<>>
      /\ loop' = loop /\ text' = text /\ size' = size
  BY DEF LastChunk
<1>2. RemainingInv /\ PiecesInv /\ CoverInv
  BY <1>1 DEF CutInv
<1>3. /\ text \in Seq(Chars) /\ From \in 1 .. Len(text) + 1 /\ remaining = SubSeq(text, From, Len(text))
  BY <1>2 DEF RemainingInv
<1>4. remaining \in Seq(Chars) /\ at \in Nat
  <2>1. 0 \in 0 .. Len(text) - From + 1
    BY <1>3, LenProperties
  <2>2. QED
    BY <1>3, <2>1, Parts, LenProperties
<1>5. SubSeq(remaining, 1, at) = remaining
  BY <1>4, SubSeqFull
<1>6. Rest(remaining, at) = <<>>
  <2>1. SubSeq(remaining, at + 1, at) = <<>>
    BY <1>4, SubSeqEmpty
  <2>2. Inked(<<>>) = {}
    <3>1. DOMAIN <<>> = {}
      OBVIOUS
    <3>2. QED
      BY <3>1 DEF Inked
  <2>3. QED
    BY <2>1, <2>2 DEF Rest, LStrip
<1>7. at \in 0 .. Len(remaining) /\ ~(at < Len(remaining))
  BY <1>4
<1> HIDE DEF at
<1>8. /\ chunks' = Appended(SubSeq(remaining, 1, at)) /\ spans' = Placed(SubSeq(remaining, 1, at))
      /\ remaining' = Rest(remaining, at)
  BY <1>1, <1>5, <1>6
<1>9. RemainingInv' /\ PiecesInv' /\ CoverInv'
  BY <1>1, <1>2, <1>7, <1>8, PieceTaken
<1>10. QED
  BY <1>9 DEF CutInv

\* The invariant gives the property.
LEMMA CutMeans == CutInv => CutsAreClean
<1> SUFFICES ASSUME CutInv, loop = "chunk"
             PROVE  CutsAreClean
  BY DEF CutsAreClean, PiecesAreTheText, ShortWordsWhole
<1>1. RemainingInv /\ PiecesInv /\ CoverInv
  BY DEF CutInv
<1>2. /\ chunks \in Seq(Seq(Chars)) /\ spans \in Seq(Nat \X Nat) /\ Len(chunks) = Len(spans)
      /\ text \in Seq(Chars) /\ size \in Nat \ {0} /\ From \in 1 .. Len(text) + 1
  BY <1>1 DEF PiecesInv, RemainingInv
<1>3. /\ DOMAIN chunks = 1 .. Len(spans) /\ DOMAIN spans = 1 .. Len(spans) /\ DOMAIN text = 1 .. Len(text)
      /\ Len(text) \in Nat
  BY <1>2, LenProperties
<1>4. \A k \in 1 .. Len(spans) :
        /\ spans[k][1] \in Nat /\ spans[k][2] \in Nat
        /\ 1 <= spans[k][1] /\ spans[k][1] <= spans[k][2] /\ spans[k][2] < From
        /\ spans[k][2] - spans[k][1] < size
        /\ chunks[k] = SubSeq(text, spans[k][1], spans[k][2])
        /\ Whole(spans[k][2])
  <2>1. \A k \in 1 .. Len(spans) : spans[k] \in Nat \X Nat
    BY <1>2, ElementOfSeq
  <2>2. QED
    BY <1>1, <2>1 DEF PiecesInv
<1>5. ASSUME NEW k \in 1 .. Len(spans)
      PROVE  chunks[k] = SubSeq(text, spans[k][1], spans[k][2]) /\ Len(chunks[k]) \in 1 .. size
  <2> DEFINE a == spans[k][1]
             b == spans[k][2]
  <2>1. a \in Nat /\ b \in Nat /\ 1 <= a /\ a <= b /\ b < From /\ b - a < size /\ chunks[k] = SubSeq(text, a, b)
    BY <1>4
  <2> HIDE DEF a, b
  <2>2. a \in Int /\ b \in Int /\ \A i \in a .. b : text[i] \in Chars
    <3>1. \A i \in 1 .. Len(text) : text[i] \in Chars
      BY <1>2, ElementOfSeq
    <3>2. b <= Len(text)
      BY <1>2, <1>3, <2>1
    <3>3. QED
      BY <1>3, <2>1, <3>1, <3>2
  <2>3. Len(SubSeq(text, a, b)) = b - a + 1
    BY <2>1, <2>2, SubSeqProperties
  <2>4. Len(chunks[k]) \in 1 .. size
    BY <1>2, <2>1, <2>3
  <2>5. QED
    BY <2>1, <2>4 DEF a, b
<1>6. \A j, k \in 1 .. Len(spans) : j < k => spans[j][2] < spans[k][1]
  BY <1>1 DEF PiecesInv
<1>7. ASSUME NEW p \in 1 .. Len(text), text[p] \notin White, ~(p >= From)
      PROVE  \E k \in 1 .. Len(spans) : p \in spans[k][1] .. spans[k][2]
  <2>1. p \in 1 .. From - 1
    BY <1>2, <1>3, <1>7
  <2>2. PICK k \in 1 .. Len(spans) : spans[k][1] <= p /\ p <= spans[k][2]
    BY <1>1, <1>7, <2>1 DEF CoverInv
  <2>3. p \in spans[k][1] .. spans[k][2]
    BY <1>4, <2>2
  <2>4. QED
    BY <2>3
<1>8. PiecesAreTheText
  BY <1>3, <1>5, <1>6, <1>7 DEF PiecesAreTheText
<1>9. ShortWordsWhole
  <2>1. SUFFICES ASSUME NEW w \in WordsOf(text), NEW k \in DOMAIN spans, spans[k][2] \in w[1] .. w[2] - 1
                 PROVE  \/ w[2] - w[1] + 1 > size
                        \/ w[1] > 1 /\ text[w[1] - 1] = NewLine /\ w[2] - w[1] + 1 >= size - size \div 4
    BY DEF ShortWordsWhole
  <2>2. Whole(spans[k][2])
    BY <1>3, <1>4
  <2>3. QED
    BY <2>1, <2>2 DEF Whole
<1>10. QED
  BY <1>8, <1>9 DEF CutsAreClean

\* The invariant of the cutting loop holds.
LEMMA CutHolds == LoopSpec => []CutInv
<1>1. LoopInit => CutInv
  BY CutBegins DEF LoopInit, InitRepeat, CutInv
<1>2. CutInv /\ [LoopNext]_loopVars => CutInv'
  <2> SUFFICES ASSUME CutInv, [LoopNext]_loopVars
               PROVE  CutInv'
    OBVIOUS
  <2>1. CASE Cut
    BY <2>1, CutKeeps
  <2>2. CASE LastChunk
    BY <2>2, LastChunkKeeps
  <2>3. CASE Scan
    BY <2>3 DEF Scan, CutInv
  <2>4. CASE NextUnit
    BY <2>4 DEF NextUnit, CutInv
  <2>5. CASE UNCHANGED loopVars
    <3>1. loop' = loop /\ text' = text /\ size' = size /\ remaining' = remaining /\ chunks' = chunks /\ spans' = spans
      BY <2>5 DEF loopVars, chunkVars
    <3>2. From' = From /\ (RemainingInv => RemainingInv') /\ (CoverInv => CoverInv')
      BY <3>1 DEF From, RemainingInv, CoverInv
    <3>4. ASSUME PiecesInv
          PROVE  PiecesInv'
      <4>1. \A k \in 1 .. Len(spans) : Whole(spans[k][2])'
        <5>1. ASSUME NEW k \in 1 .. Len(spans)
              PROVE  Whole(spans[k][2])'
          <6>1. Whole(spans[k][2])
            BY <3>4 DEF PiecesInv
          <6>2. QED
            BY <3>1, <6>1 DEF Whole, WordsOf
        <5>2. QED
          BY <5>1
      <4>2. QED
        BY <3>1, <3>2, <3>4, <4>1 DEF PiecesInv
    <3>5. QED
      BY <3>1, <3>2, <3>4 DEF CutInv
  <2>6. QED
    BY <2>1, <2>2, <2>3, <2>4, <2>5 DEF LoopNext
<1>3. QED
  BY <1>1, <1>2, PTL DEF LoopSpec

\* The pieces of a text that is too long for one request are the text, in order and with
\* nothing but white space left out, each of them short enough, and no word that fits into
\* a request is torn but where a line break is all there is before it: for texts of every
\* length and for every chunk size (chunk_text).
THEOREM CutsCorrect == LoopSpec => []CutsAreClean
  BY CutHolds, CutMeans, PTL

\* What the cutting loop leaves as it was, and what a reply is.
KindInv ==
  /\ loop \in {"chunk", "repeat"} /\ done \in BOOLEAN
  /\ loop = "chunk" => unit = 1 /\ place = 1 /\ best = 1
  /\ loop = "repeat" => /\ remaining = <<>> /\ chunks = <<>> /\ spans = <<>>
                        /\ text \in Seq(Tokens) /\ Len(text) <= MaxReply

\* Both loops keep the shape of the variables.
THEOREM LoopTypeCorrect == LoopSpec => []LoopTypeOK
<1>1. LoopInit => KindInv
  <2>1. ASSUME text \in Replies
        PROVE  text \in Seq(Tokens) /\ Len(text) <= MaxReply
    <3>1. PICK len \in 1 .. MaxReply : text \in [1 .. len -> Tokens]
      BY <2>1 DEF Replies
    <3>2. len \in Nat
      BY <3>1, TextAssumption
    <3>3. text \in Seq(Tokens) /\ Len(text) = len
      BY <3>1, <3>2, SeqDef, LenProperties
    <3>4. QED
      BY <3>1, <3>3, TextAssumption
  <2>2. QED
    BY <2>1 DEF LoopInit, InitChunk, InitRepeat, KindInv
<1>2. KindInv /\ [LoopNext]_loopVars => KindInv'
  <2> SUFFICES ASSUME KindInv, [LoopNext]_loopVars
               PROVE  KindInv'
    OBVIOUS
  <2>1. CASE Cut
    BY <2>1 DEF Cut, repeatVars, KindInv
  <2>2. CASE LastChunk
    BY <2>2 DEF LastChunk, repeatVars, KindInv
  <2>3. CASE Scan
    <3>1. /\ loop' = loop /\ loop = "repeat" /\ text' = text /\ done' = done
          /\ remaining' = remaining /\ chunks' = chunks /\ spans' = spans
      BY <2>3 DEF Scan, chunkVars
    <3>2. QED
      BY <3>1 DEF KindInv
  <2>4. CASE NextUnit
    <3>1. /\ loop' = loop /\ loop = "repeat" /\ text' = text /\ done' \in BOOLEAN
          /\ remaining' = remaining /\ chunks' = chunks /\ spans' = spans
      BY <2>4 DEF NextUnit, chunkVars
    <3>2. QED
      BY <3>1 DEF KindInv
  <2>5. CASE UNCHANGED loopVars
    BY <2>5 DEF loopVars, chunkVars, repeatVars, KindInv
  <2>6. QED
    BY <2>1, <2>2, <2>3, <2>4, <2>5 DEF LoopNext
<1>3. CutInv /\ ScanInv /\ KindInv => LoopTypeOK
  <2> SUFFICES ASSUME CutInv, ScanInv, KindInv
               PROVE  LoopTypeOK
    OBVIOUS
  <2>1. CASE loop = "chunk"
    <3>1. /\ text \in Seq(Chars) /\ From \in 1 .. Len(text) + 1 /\ remaining = SubSeq(text, From, Len(text))
          /\ chunks \in Seq(Seq(Chars)) /\ spans \in Seq(Nat \X Nat)
      BY <2>1 DEF CutInv, RemainingInv, PiecesInv
    <3>2. remaining \in Seq(Chars)
      <4>1. 0 \in 0 .. Len(text) - From + 1
        BY <3>1, LenProperties
      <4>2. QED
        BY <3>1, <4>1, Parts
    <3>3. text \in Seq(Chars \cup Tokens)
      BY <3>1, LenProperties, ElementOfSeq
    <3>4. 1 \in 1 .. MaxUnit + 1 /\ 1 \in 1 .. MaxReply + 1 /\ 1 \in Nat \ {0}
      BY TextAssumption
    <3>5. QED
      BY <2>1, <3>1, <3>2, <3>3, <3>4 DEF KindInv, LoopTypeOK
  <2>2. CASE loop = "repeat"
    <3>1. /\ text \in Seq(Tokens) /\ Len(text) \in Nat /\ Len(text) <= MaxReply
          /\ remaining = <<>> /\ chunks = <<>> /\ spans = <<>>
      BY <2>2, LenProperties DEF KindInv
    <3>2. /\ unit \in 1 .. MaxUnit + 1 /\ place \in Nat \ {0}
          /\ best = 1 \/ \E p, u : Found(p, u) /\ best = RunAt(text, p, u)
      BY <2>2 DEF ScanInv
    <3>3. best \in 1 .. MaxReply + 1
      <4>1. CASE best = 1
        BY <4>1, TextAssumption
      <4>2. ASSUME NEW p, NEW u, Found(p, u), best = RunAt(text, p, u)
            PROVE  best \in 1 .. MaxReply + 1
        <5>1. p \in Nat \ {0} /\ u \in Nat \ {0} /\ p + u - 1 <= Len(text)
          BY <3>1, <4>2, TextAssumption DEF Found
        <5>2. best \in Repeats(text, p, u)
          BY <3>1, <4>2, <5>1, RunIsGreatest
        <5>3. QED
          BY <3>1, <5>2, TextAssumption DEF Repeats
      <4>3. QED
        BY <3>2, <4>1, <4>2
    <3>4. text \in Seq(Chars \cup Tokens)
      BY <3>1, LenProperties, ElementOfSeq
    <3>5. remaining \in Seq(Chars) /\ chunks \in Seq(Seq(Chars)) /\ spans \in Seq(Nat \X Nat)
      BY <3>1, EmptySeq
    <3>6. QED
      BY <2>2, <3>2, <3>3, <3>4, <3>5 DEF KindInv, LoopTypeOK
  <2>3. QED
    BY <2>1, <2>2 DEF KindInv
<1>4. QED
  BY <1>1, <1>2, <1>3, CutHolds, ScanHolds, PTL DEF LoopSpec
\* A turn of a loop that goes on comes nearer to its end: less of the text remains, or
\* the scan moves on within its unit length, or to the next unit length, each of which
\* can happen only so often.  With fairness this is why both loops end.
Nearer ==
  \/ loop = "chunk" /\ Len(remaining) \in Nat /\ Len(remaining') \in Nat /\ Len(remaining') < Len(remaining)
  \/ loop = "chunk" /\ ~done /\ done'
  \/ loop = "repeat" /\ unit' = unit /\ place' > place /\ place' <= Len(text) + 1
  \/ loop = "repeat" /\ unit' = unit + 1 /\ unit' <= MaxUnit + 1

\* Every turn of either loop, over a text of any length, comes nearer to its end
\* (chunk_text, _longest_repeat_run).
THEOREM TurnsComeNearer == LoopSpec => [][Nearer]_loopVars
<1>1. CutInv /\ ScanInv /\ [LoopNext]_loopVars => [Nearer]_loopVars
  <2> SUFFICES ASSUME CutInv, ScanInv, LoopNext
               PROVE  Nearer
    OBVIOUS
  <2>1. CASE Cut
    <3> DEFINE window == SubSeq(remaining, 1, size)
               at     == CutAt(window, size)
               f      == From
    <3>1. loop = "chunk" /\ Len(remaining) > size /\ remaining' = Rest(remaining, at)
      BY <2>1 DEF Cut
    <3>2. /\ text \in Seq(Chars) /\ size \in Nat \ {0} /\ f \in 1 .. Len(text) + 1
          /\ remaining = SubSeq(text, f, Len(text)) /\ Len(text) \in Nat
      BY <3>1, LenProperties DEF CutInv, RemainingInv
    <3> HIDE DEF f
    <3>3. Len(remaining) = Len(text) - f + 1
      <4>1. 0 \in 0 .. Len(text) - f + 1
        BY <3>2
      <4>2. QED
        BY <3>2, <4>1, Parts
    <3>4. Len(window) = size
      <4>1. size \in 0 .. Len(text) - f + 1
        BY <3>1, <3>2, <3>3
      <4>2. QED
        BY <3>2, <4>1, Parts
    <3>5. at \in 1 .. size
      <4> HIDE DEF window
      <4>1. at \in 1 .. size - 1 \/ at = size
        BY <3>2, <3>4, CutAtIs
      <4> HIDE DEF at
      <4>2. QED
        BY <3>2, <4>1
    <3> HIDE DEF at, window
    <3>6. at \in 0 .. Len(text) - f + 1 /\ at \in Nat /\ at >= 1
      BY <3>1, <3>2, <3>3, <3>5
    <3>7. PICK next \in f + at .. Len(text) + 1 : remaining' = SubSeq(text, next, Len(text))
      BY <3>1, <3>2, <3>6, RestIs
    <3>8. next \in 1 .. Len(text) + 1 /\ next >= f + at /\ 0 \in 0 .. Len(text) - next + 1
      BY <3>2, <3>6, <3>7
    <3>9. Len(SubSeq(text, next, Len(text))) = Len(text) - next + 1
      BY <3>2, <3>8, Parts
    <3>10. Len(remaining') \in Nat /\ Len(remaining) \in Nat /\ Len(remaining') < Len(remaining)
      BY <3>2, <3>3, <3>6, <3>7, <3>8, <3>9
    <3>11. QED
      BY <3>1, <3>10 DEF Nearer
  <2>2. CASE LastChunk
    BY <2>2 DEF LastChunk, Nearer
  <2>3. CASE Scan
    <3> DEFINE run == RunAt(text, place, unit)
    <3>1. /\ loop = "repeat" /\ unit <= MaxUnit /\ place + 2 * unit - 1 <= Len(text)
          /\ place' = NextStart(place, unit, run) /\ unit' = unit
      BY <2>3 DEF Scan
    <3>2. /\ text \in Seq(Tokens) /\ unit \in Nat \ {0} /\ place \in Nat \ {0} /\ Len(text) \in Nat
          /\ place + unit - 1 <= Len(text)
      BY <3>1, LenProperties, TextAssumption DEF ScanInv
    <3>3. run \in Nat \ {0} /\ place + run * unit - 1 <= Len(text)
      <4>1. run \in Repeats(text, place, unit)
        BY <3>2, RunIsGreatest
      <4>2. QED
        BY <3>2, <4>1 DEF Repeats
    <3> HIDE DEF run
    <3>4. CASE run > 1
      <4> DEFINE d == unit * (run - 1)
      <4>1. d \in Nat /\ run * unit = d + unit /\ place' = place + d + 1
        <5>1. run - 1 \in Nat
          BY <3>3
        <5>2. QED
          BY <3>1, <3>2, <3>3, <3>4, <5>1 DEF NextStart
      <4>2. place + d + unit - 1 <= Len(text)
        BY <3>2, <3>3, <4>1
      <4> HIDE DEF d
      <4>3. place' > place /\ place' <= Len(text) + 1
        BY <3>2, <4>1, <4>2
      <4>4. QED
        BY <3>1, <4>3 DEF Nearer
    <3>5. CASE ~(run > 1)
      <4>1. place' = place + 1
        BY <3>1, <3>5 DEF NextStart
      <4>2. place' > place /\ place' <= Len(text) + 1
        BY <3>2, <4>1
      <4>3. QED
        BY <3>1, <4>2 DEF Nearer
    <3>6. QED
      BY <3>4, <3>5
  <2>4. CASE NextUnit
    <3>1. /\ loop = "repeat" /\ unit <= MaxUnit /\ unit' = unit + 1
      BY <2>4 DEF NextUnit
    <3>2. unit \in Nat
      BY <3>1 DEF ScanInv
    <3>3. unit' <= MaxUnit + 1
      BY <3>1, <3>2, TextAssumption
    <3>4. QED
      BY <3>1, <3>3 DEF Nearer
  <2>5. QED
    BY <2>1, <2>2, <2>3, <2>4 DEF LoopNext
<1>2. QED
  BY <1>1, CutHolds, ScanHolds, PTL DEF LoopSpec
=============================================================================
