----------------------- MODULE MetadataDocumentProofs -----------------------
(***************************************************************************)
(* Theorems about MetadataDocument: type correctness for every             *)
(* configuration; that pairs describe themselves and that no translation   *)
(* is sent to the backend again where a single target language is in use;  *)
(* that the log tells what the record holds where no element is named by   *)
(* two XPaths; and that a processing then implements DocumentLedger.       *)
(***************************************************************************)
EXTENDS MetadataDocument, FiniteSetTheorems, SequenceTheorems, TLAPS

-----------------------------------------------------------------------------
(***************************************************************************)
(* What the processing keeps, whatever the configuration.                  *)
(***************************************************************************)
Texts    == [pass : Int, row : Nat]
Labels   == {"none", "source"} \cup Targets
Elements == [id : Seq(Nat), text : Texts, label : Labels]
Rows     == [id : Seq(Nat), asked : Texts, target : Texts, status : Statuses]

Inserted(id)     == Len(id) > 1
InsertedIn(id)   == id[Len(id)]

\* A record: elements with text, each there once, the inserted ones of a pass up to p.
Record(s, p) ==
  /\ s \in Seq(Elements)
  /\ \A i \in 1 .. Len(s) : Len(s[i].id) >= 1
  /\ \A i, j \in 1 .. Len(s) : s[i].id = s[j].id => i = j
  /\ \A i \in 1 .. Len(s) : Inserted(s[i].id) => InsertedIn(s[i].id) \in 1 .. p

\* A sibling inserted by this pass is still right behind its element, in its language.
RightBehind(s) ==
  \A j \in 1 .. Len(s) :
    Inserted(s[j].id) /\ InsertedIn(s[j].id) = pass =>
      j > 1 /\ s[j].id = Append(s[j - 1].id, pass) /\ s[j].label = target

Untranslated == {r \in DOMAIN rows : rows[r].status = "untranslated"}

Working == phase \in {"visit", "rerun", "round", "close"}

\* The call: its options, and how far it is.
CallInv ==
  /\ opt \in [append : BOOLEAN, rounds : 0 .. MaxRounds] /\ target \in Targets
  /\ pass \in 1 .. MaxPasses /\ phase \in Phases /\ xpath \in 1 .. Len(XPaths) + 1
  /\ round \in 0 .. MaxRounds + 1
  /\ phase = "round" => round <= opt.rounds

\* Rows and work name elements of the record; what is to be asked again is a flagged
\* row, and none is left when the rows are settled; the note counts what was given up.
QueueInv ==
  /\ rows \in Seq(Rows)
  /\ todo \subseteq Ids(record)
  /\ \A r \in 1 .. Len(rows) : rows[r].id \in Ids(record)
  /\ flagged \subseteq 1 .. Len(rows) /\ retry \subseteq StillFlagged
  /\ phase \notin {"round", "failed"} => retry = {}
  /\ phase \in {"close", "done"} => StillFlagged = {}
  /\ notes = Cardinality(Untranslated)

\* What is in memory and what is on disk are records, of the passes they may be of.
FileInv ==
  /\ Record(record, pass) /\ RightBehind(record)
  /\ Record(file, pass) /\ (phase # "done" => Record(file, pass - 1))
  /\ phase = "done" => file = record /\ log = [r \in DOMAIN rows |-> LogRow(rows[r])]

BaseInv == CallInv /\ QueueInv /\ FileInv
-----------------------------------------------------------------------------
\* A record is always translated into the same language.
OneTarget == \A l, m \in Targets : l = m

\* Only original elements are given a sibling, and at most one.
Paired(s) ==
  \A i \in 1 .. Len(s) :
    /\ Len(s[i].id) <= 2 /\ (Len(s[i].id) = 2 <=> s[i].label \in Targets)
    /\ Inserted(s[i].id) => /\ i > 1 /\ Len(s[i - 1].id) = 1
                            /\ s[i].id[1] = s[i - 1].id[1]
                            /\ s[i - 1].label # "none"

\* Append leaves the elements of the source as they were.
SourceKept(s) == \A i \in 1 .. Len(s) : Len(s[i].id) = 1 => s[i].text = Source

\* Pairs, in memory and on disk; in append mode only the source's own text is asked for.
PairInv ==
  /\ Paired(record) /\ Paired(file)
  /\ opt.append =>
       /\ SourceKept(record) /\ SourceKept(file)
       /\ \A r \in 1 .. Len(rows) : rows[r].asked = Source
-----------------------------------------------------------------------------
\* No two XPaths name the same element.
NamedOnce == \A x, y \in 1 .. Len(XPaths) : x # y => XPaths[x] \cap XPaths[y] = {}

\* An element is visited by one XPath, and has one row, that of an XPath already begun.
VisitInv ==
  /\ \A id \in todo : xpath > 1 /\ Kind(id) \in XPaths[xpath - 1]
  /\ \A r \in 1 .. Len(rows) :
       /\ rows[r].id \notin todo
       /\ \E x \in 1 .. xpath - 1 : Kind(rows[r].id) \in XPaths[x]
  /\ \A r, q \in 1 .. Len(rows) : rows[r].id = rows[q].id => r = q

\* The record shows this text for an element; an element without a translation is
\* as it was, with none beside it.
ShownIn(s, id, text) ==
  \A i \in 1 .. Len(s) : s[i].id = id =>
    IF opt.append
      THEN i < Len(s) /\ s[i + 1].id = Append(id, pass) /\ s[i + 1].text = text
      ELSE s[i].text = text

AppendedIn(s, i) ==
  \/ s[i].label = target
  \/ i < Len(s) /\ Kind(s[i + 1].id) = Kind(s[i].id) /\ s[i + 1].label = target

UntouchedIn(s, id, text) ==
  \A i \in 1 .. Len(s) : s[i].id = id =>
    IF opt.append THEN ~AppendedIn(s, i) ELSE s[i].text = text

Told(s, r) ==
  IF rows[r].target = NoText
    THEN /\ r \in flagged /\ rows[r].status \in {"ok", "untranslated"}
         /\ UntouchedIn(s, rows[r].id, rows[r].asked)
    ELSE /\ rows[r].status = "rerun" \/ (rows[r].status = "ok" /\ r \notin flagged)
         /\ ShownIn(s, rows[r].id, rows[r].target)

\* Every row tells what the record in memory shows.
TellInv == \A r \in 1 .. Len(rows) : Told(record, r)

\* In replace mode what is not the source was written by a row of this pass.
AskInv ==
  ~opt.append =>
    /\ phase # "done" => \A i \in 1 .. Len(file) : file[i].text = Source
    /\ \A i \in 1 .. Len(record) :
         record[i].text # Source => \E r \in 1 .. Len(rows) : rows[r].id = record[i].id
    /\ \A r \in 1 .. Len(rows) : rows[r].asked = Source

\* What is kept where no element is named twice.
OnceInv == VisitInv /\ TellInv /\ AskInv
-----------------------------------------------------------------------------
(***************************************************************************)
(* Sequences.                                                              *)
(***************************************************************************)

\* t is s with e behind position i, and the rest moved by one: what parent.insert
\* does to the children of an element.
Shifted(t, S, s, i, e) ==
  /\ t \in Seq(S) /\ Len(t) = Len(s) + 1
  /\ \A k \in 1 .. Len(s) + 1 : t[k] = IF k <= i THEN s[k] ELSE IF k = i + 1 THEN e ELSE s[k - 1]

\* Inserting behind position i shifts the rest.
LEMMA InsertAtShifts ==
  ASSUME NEW S, NEW s \in Seq(S), NEW i \in 1 .. Len(s), NEW e \in S
  PROVE  Shifted(InsertAt(s, i + 1, e), S, s, i, e)
<1> DEFINE a == SubSeq(s, 1, i)
           b == <<e>>
           c == SubSeq(s, i + 1, Len(s))
<1>1. a \in Seq(S) /\ Len(a) = i /\ \A k \in 1 .. i : a[k] = s[k]
  OBVIOUS
<1>2. c \in Seq(S) /\ Len(c) = Len(s) - i /\ \A k \in 1 .. Len(s) - i : c[k] = s[k + i]
  OBVIOUS
<1>3. b \in Seq(S) /\ Len(b) = 1 /\ b[1] = e
  OBVIOUS
<1>4. InsertAt(s, i + 1, e) = (a \o b) \o c
  <2>1. (i + 1) - 1 = i
    OBVIOUS
  <2>2. InsertAt(s, i + 1, e) = SubSeq(s, 1, (i + 1) - 1) \o b \o c
    BY Zenon DEF InsertAt
  <2>3. QED
    BY <2>1, <2>2, Zenon
<1> HIDE DEF a, b, c
<1>5. /\ a \o b \in Seq(S)
      /\ Len(a \o b) = Len(a) + Len(b)
      /\ \A q \in 1 .. Len(a) + Len(b) : (a \o b)[q] = IF q <= Len(a) THEN a[q] ELSE b[q - Len(a)]
  BY <1>1, <1>3, ConcatProperties, Zenon
<1> DEFINE d == a \o b
<1> HIDE DEF d
<1>6. /\ d \o c \in Seq(S)
      /\ Len(d \o c) = Len(d) + Len(c)
      /\ \A q \in 1 .. Len(d) + Len(c) : (d \o c)[q] = IF q <= Len(d) THEN d[q] ELSE c[q - Len(d)]
  <2>1. d \in Seq(S)
    BY <1>5 DEF d
  <2>2. QED
    BY <2>1, <1>2, ConcatProperties, Zenon
<1> DEFINE t == d \o c
<1>7. InsertAt(s, i + 1, e) = t
  BY <1>4 DEF d
<1> HIDE DEF t
<1>8. Len(d) = i + 1 /\ \A q \in 1 .. i + 1 : d[q] = IF q <= i THEN s[q] ELSE e
  BY <1>1, <1>3, <1>5 DEF d
<1>9. /\ Len(t) = Len(s) + 1
      /\ \A q \in 1 .. Len(s) + 1 : t[q] = IF q <= i + 1 THEN d[q] ELSE c[q - (i + 1)]
  BY <1>2, <1>6, <1>8 DEF t
<1>10. ASSUME NEW k \in 1 .. Len(s) + 1
      PROVE  t[k] = IF k <= i THEN s[k] ELSE IF k = i + 1 THEN e ELSE s[k - 1]
  BY <1>2, <1>8, <1>9
<1>11. t \in Seq(S)
  BY <1>6 DEF t
<1> QED
  BY <1>7, <1>9, <1>10, <1>11 DEF Shifted

\* Two elements do not share the path of a sibling.
LEMMA AppendOnce ==
  ASSUME NEW s \in Seq(Nat), NEW t \in Seq(Nat), NEW p \in Nat, Append(s, p) = Append(t, p)
  PROVE  s = t
<1>1. Append(s, p) = Append(t, p) <=> s = t /\ p = p
  BY AppendInjective
<1>2. QED
  BY <1>1

\* The path of a sibling: that of its element, and the pass behind it.
LEMMA AppendPath ==
  ASSUME NEW s \in Seq(Nat), NEW p \in Nat, Len(s) >= 1
  PROVE  /\ Append(s, p) \in Seq(Nat) /\ Len(Append(s, p)) = Len(s) + 1
         /\ Inserted(Append(s, p)) /\ InsertedIn(Append(s, p)) = p
         /\ Append(s, p)[1] = s[1]
  BY DEF Inserted, InsertedIn

-----------------------------------------------------------------------------
(***************************************************************************)
(* What writing a translation does to the record.                          *)
(***************************************************************************)
Replaced(s, w, i, text) ==
  /\ w \in Seq(Elements) /\ Len(w) = Len(s)
  /\ \A k \in 1 .. Len(s) : /\ w[k].id = s[k].id /\ w[k].label = s[k].label
                            /\ w[k].text = IF k = i THEN text ELSE s[k].text

Widened(s, w, i, text) ==
  /\ w \in Seq(Elements) /\ Len(w) = Len(s) + 1
  /\ \A k \in 1 .. i : w[k].id = s[k].id /\ w[k].text = s[k].text
  /\ \A k \in 1 .. i - 1 : w[k].label = s[k].label
  /\ w[i].label = IF s[i].label = "none" THEN "source" ELSE s[i].label
  /\ w[i + 1].id = Append(s[i].id, pass)
  /\ w[i + 1].text = text /\ w[i + 1].label = target
  /\ \A k \in i + 2 .. Len(s) + 1 : w[k] = s[k - 1]

\* What a step made of the record when it wrote this text for this element.
Wrote(s, w, id, text) ==
  \E i \in 1 .. Len(s) :
    /\ s[i].id = id
    /\ \/ ~opt.append /\ Replaced(s, w, i, text)
       \/ opt.append /\ AppendedIn(s, i) /\ w = s
       \/ opt.append /\ ~AppendedIn(s, i) /\ Widened(s, w, i, text)

\* An element is in the record at one position.
LEMMA PositionFound ==
  ASSUME Record(record, pass), NEW id \in Ids(record)
  PROVE  /\ Position(id) \in 1 .. Len(record) /\ record[Position(id)].id = id
         /\ \A k \in 1 .. Len(record) : record[k].id = id => k = Position(id)
<1>1. DOMAIN record = 1 .. Len(record)
  BY LenProperties DEF Record
<1>2. \E i \in DOMAIN record : record[i].id = id
  BY DEF Ids
<1>3. Position(id) \in DOMAIN record /\ record[Position(id)].id = id
  BY <1>2, Zenon DEF Position
<1>4. QED
  BY <1>1, <1>3 DEF Record

\* The guard of append, read at the position of the element.
LEMMA AlreadyAppendedIn ==
  ASSUME Record(record, pass), NEW id \in Ids(record)
  PROVE  AlreadyAppended(id) <=> AppendedIn(record, Position(id))
  BY PositionFound DEF AlreadyAppended, AppendedIn

\* _translate_element_metadata replaces the text, inserts a sibling, or finds one there.
LEMMA WrittenWrites ==
  ASSUME MetadataAssumption, CallInv, Record(record, pass),
         NEW id \in Ids(record), NEW text \in Texts
  PROVE  Wrote(record, Written(id, text), id, text)
<1> DEFINE i == Position(id)
           w == Written(id, text)
<1>1. i \in 1 .. Len(record) /\ record[i].id = id
  BY PositionFound
<1>2. record \in Seq(Elements) /\ record \in [1 .. Len(record) -> Elements] /\ Len(record) \in Nat
  BY LenProperties DEF Record
<1>3. CASE ~opt.append
  <2>1. w = [record EXCEPT ![i].text = text]
    BY <1>3 DEF Written
  <2>2. [record[i] EXCEPT !.text = text] \in Elements
    BY <1>1, <1>2 DEF Elements
  <2>3. w = [record EXCEPT ![i] = [record[i] EXCEPT !.text = text]]
    BY <2>1
  <2> HIDE DEF w, i
  <2>4. /\ w \in Seq(Elements) /\ Len(w) = Len(record)
        /\ \A k \in 1 .. Len(record) :
             w[k] = IF k = i THEN [record[i] EXCEPT !.text = text] ELSE record[k]
    BY <1>1, <1>2, <2>2, <2>3, ExceptSeq
  <2>5. \A k \in 1 .. Len(record) : record[k] \in Elements
    BY <1>2
  <2>6. Replaced(record, w, i, text)
    BY <1>1, <2>4, <2>5 DEF Replaced, Elements
  <2>7. QED
    BY <1>1, <1>3, <2>6 DEF Wrote, w
<1>4. CASE opt.append /\ AlreadyAppended(id)
  <2>1. w = record
    BY <1>4 DEF Written
  <2>2. AppendedIn(record, i)
    BY <1>4, AlreadyAppendedIn
  <2>3. QED
    BY <1>1, <1>4, <2>1, <2>2 DEF Wrote
<1>5. CASE opt.append /\ ~AlreadyAppended(id)
  <2> DEFINE o == [record[i] EXCEPT !.label = IF @ = "none" THEN "source" ELSE @]
             t == [record EXCEPT ![i] = o]
             e == [id |-> Append(id, pass), text |-> text, label |-> target]
  <2>1. w = InsertAt(t, i + 1, e)
    BY <1>5, <1>1, <1>2 DEF Written
  <2>2. o \in Elements /\ o.id = record[i].id /\ o.text = record[i].text
        /\ o.label = IF record[i].label = "none" THEN "source" ELSE record[i].label
    BY <1>1, <1>2 DEF Elements, Labels
  <2>3. e \in Elements
    <3>1. id \in Seq(Nat)
      BY <1>1, <1>2 DEF Elements
    <3>2. pass \in Nat /\ target \in Labels
      BY DEF CallInv, MetadataAssumption, Labels
    <3>3. QED
      BY <3>1, <3>2 DEF Elements
  <2>4. /\ t \in Seq(Elements) /\ Len(t) = Len(record)
        /\ \A k \in 1 .. Len(record) : t[k] = IF k = i THEN o ELSE record[k]
    <3> HIDE DEF o, i
    <3>1. QED
      BY <1>1, <1>2, <2>2, ExceptSeq
  <2>5. e.id = Append(record[i].id, pass) /\ e.text = text /\ e.label = target
    BY <1>1
  <2> HIDE DEF w, t, e, o, i
  <2>6. /\ w \in Seq(Elements) /\ Len(w) = Len(record) + 1
        /\ \A k \in 1 .. Len(record) + 1 :
             w[k] = IF k <= i THEN t[k] ELSE IF k = i + 1 THEN e ELSE t[k - 1]
    <3>1. i \in 1 .. Len(t)
      BY <1>1, <2>4
    <3>2. Shifted(w, Elements, t, i, e)
      BY <2>1, <2>3, <2>4, <3>1, InsertAtShifts
    <3>3. QED
      BY <2>4, <3>2 DEF Shifted
  <2>6a. i \in 1 .. Len(record)
    BY <1>1 DEF i
  <2>6b. \A k \in 1 .. i - 1 : w[k] = record[k]
    BY <1>2, <2>6a, <2>4, <2>6
  <2>6c. w[i] = o
    BY <1>2, <2>6a, <2>4, <2>6
  <2>7. \A k \in 1 .. i : w[k].id = record[k].id /\ w[k].text = record[k].text
    <3>1. SUFFICES ASSUME NEW k \in 1 .. i
                   PROVE  w[k].id = record[k].id /\ w[k].text = record[k].text
      OBVIOUS
    <3>2. CASE k = i
      BY <3>2, <2>6c, <2>2
    <3>3. CASE k # i
      BY <3>3, <2>6b, <2>6a
    <3>4. QED
      BY <3>2, <3>3
  <2>8. /\ \A k \in 1 .. i - 1 : w[k].label = record[k].label
        /\ w[i].label = IF record[i].label = "none" THEN "source" ELSE record[i].label
    BY <2>2, <2>6b, <2>6c
  <2>9. w[i + 1] = e
    BY <1>1, <1>2, <2>6
  <2>10. \A k \in i + 2 .. Len(record) + 1 : w[k] = record[k - 1]
    <3>1. SUFFICES ASSUME NEW k \in i + 2 .. Len(record) + 1
                   PROVE  w[k] = record[k - 1]
      OBVIOUS
    <3>2. k \in 1 .. Len(record) + 1 /\ ~(k <= i) /\ k # i + 1
      BY <1>2, <2>6a
    <3>3. k - 1 \in 1 .. Len(record) /\ k - 1 # i
      BY <1>2, <2>6a
    <3>4. w[k] = t[k - 1]
      BY <2>6, <3>2
    <3>5. QED
      BY <2>4, <3>3, <3>4
  <2>11. Widened(record, w, i, text)
    BY <2>5, <2>6, <2>7, <2>8, <2>9, <2>10 DEF Widened
  <2>12. ~AppendedIn(record, i)
    BY <1>5, AlreadyAppendedIn DEF i
  <2>13. QED
    BY <1>1, <1>5, <2>11, <2>12 DEF Wrote, w
<1>6. QED
  BY <1>3, <1>4, <1>5

\* An element with no translation behind it has no sibling of this pass anywhere.
LEMMA NoSiblingYet ==
  ASSUME CallInv, NEW s, Record(s, pass), RightBehind(s),
         NEW i \in 1 .. Len(s), ~AppendedIn(s, i),
         NEW j \in 1 .. Len(s)
  PROVE  s[j].id # Append(s[i].id, pass)
<1> SUFFICES ASSUME s[j].id = Append(s[i].id, pass)
             PROVE  FALSE
  OBVIOUS
<1>1. s \in [1 .. Len(s) -> Elements] /\ Len(s) \in Nat /\ pass \in Nat
  BY LenProperties DEF Record, CallInv
<1>2. /\ s[i].id \in Seq(Nat) /\ Len(s[i].id) >= 1
      /\ \A k \in 1 .. Len(s) : s[k].id \in Seq(Nat) /\ Len(s[k].id) >= 1
  BY <1>1 DEF Record, Elements
<1>3. Inserted(s[j].id) /\ InsertedIn(s[j].id) = pass /\ s[j].id[1] = s[i].id[1]
  BY <1>1, <1>2, AppendPath
<1>4. j > 1 /\ s[j].id = Append(s[j - 1].id, pass) /\ s[j].label = target
  BY <1>3 DEF RightBehind
<1>5. s[j - 1].id = s[i].id
  <2>1. s[j - 1].id \in Seq(Nat)
    BY <1>1, <1>2, <1>4
  <2>2. Append(s[j - 1].id, pass) = Append(s[i].id, pass)
    BY <1>4
  <2>3. QED
    BY <1>1, <1>2, <2>1, <2>2, AppendOnce
<1>6. j - 1 = i
  BY <1>1, <1>4, <1>5 DEF Record
<1>7. Kind(s[i + 1].id) = Kind(s[i].id) /\ s[i + 1].label = target /\ i < Len(s)
  BY <1>1, <1>3, <1>4, <1>6 DEF Kind
<1>8. QED
  BY <1>7 DEF AppendedIn

\* Where an element of the widened record comes from.
LEMMA WidenedFrom ==
  ASSUME NEW s, NEW w, NEW text, NEW i \in 1 .. Len(s), Len(s) \in Nat,
         Widened(s, w, i, text), NEW k \in 1 .. Len(w), k # i + 1
  PROVE  LET j == IF k <= i THEN k ELSE k - 1
         IN j \in 1 .. Len(s) /\ w[k].id = s[j].id /\ w[k].text = s[j].text
            /\ (k # i => w[k].label = s[j].label)
<1>1. CASE k <= i
  BY <1>1 DEF Widened
<1>2. CASE k > i + 1
  <2>1. k \in i + 2 .. Len(s) + 1
    BY <1>2 DEF Widened
  <2>2. w[k] = s[k - 1] /\ k - 1 \in 1 .. Len(s)
    BY <2>1 DEF Widened
  <2>3. QED
    BY <1>2, <2>2
<1>3. QED
  BY <1>1, <1>2 DEF Widened

\* The record stays one: no element twice, the siblings of this pass right behind.
LEMMA WroteRecord ==
  ASSUME MetadataAssumption, CallInv, NEW s, Record(s, pass), RightBehind(s),
         NEW w, NEW id, NEW text, Wrote(s, w, id, text)
  PROVE  Record(w, pass) /\ RightBehind(w) /\ Ids(s) \subseteq Ids(w)
<1>1. s \in [1 .. Len(s) -> Elements] /\ DOMAIN s = 1 .. Len(s) /\ Len(s) \in Nat
      /\ pass \in Nat \ {0}
  BY LenProperties DEF Record, CallInv
<1>2. PICK i \in 1 .. Len(s) :
        /\ s[i].id = id
        /\ \/ ~opt.append /\ Replaced(s, w, i, text)
           \/ opt.append /\ AppendedIn(s, i) /\ w = s
           \/ opt.append /\ ~AppendedIn(s, i) /\ Widened(s, w, i, text)
  BY DEF Wrote
<1>3. CASE Replaced(s, w, i, text)
  <2>1. w \in Seq(Elements) /\ Len(w) = Len(s) /\ DOMAIN w = 1 .. Len(s)
        /\ \A k \in 1 .. Len(s) : w[k].id = s[k].id /\ w[k].label = s[k].label
    BY <1>3, LenProperties DEF Replaced
  <2>2. Record(w, pass)
    BY <1>1, <2>1 DEF Record
  <2>3. RightBehind(w)
    <3>1. SUFFICES ASSUME NEW j \in 1 .. Len(w), Inserted(w[j].id), InsertedIn(w[j].id) = pass
                   PROVE  j > 1 /\ w[j].id = Append(w[j - 1].id, pass) /\ w[j].label = target
      BY DEF RightBehind
    <3>2. w[j].id = s[j].id /\ w[j].label = s[j].label /\ j \in 1 .. Len(s)
      BY <2>1
    <3>3. j > 1 /\ s[j].id = Append(s[j - 1].id, pass) /\ s[j].label = target
      BY <3>1, <3>2 DEF RightBehind
    <3>4. w[j - 1].id = s[j - 1].id
      BY <1>1, <2>1, <3>2, <3>3
    <3>5. QED
      BY <3>2, <3>3, <3>4
  <2>4. Ids(s) \subseteq Ids(w)
    BY <1>1, <2>1 DEF Ids
  <2>5. QED
    BY <2>2, <2>3, <2>4
<1>4. CASE w = s
  BY <1>4
<1>5. CASE ~AppendedIn(s, i) /\ Widened(s, w, i, text)
  <2> DEFINE new == Append(s[i].id, pass)
  <2>1. w \in Seq(Elements) /\ Len(w) = Len(s) + 1 /\ DOMAIN w = 1 .. Len(s) + 1
        /\ w[i + 1].id = new /\ w[i + 1].label = target
    BY <1>5, LenProperties DEF Widened
  <2>2. /\ new \in Seq(Nat) /\ Len(new) >= 1
        /\ Inserted(new) /\ InsertedIn(new) = pass /\ new[1] = s[i].id[1]
    <3>1. s[i].id \in Seq(Nat) /\ Len(s[i].id) >= 1
      BY <1>1 DEF Record, Elements
    <3>2. QED
      BY <1>1, <3>1, AppendPath
  <2>3. \A j \in 1 .. Len(s) : s[j].id # new
    BY <1>5, NoSiblingYet
  <2> DEFINE From(k) == IF k <= i THEN k ELSE k - 1
  <2>4. \A k \in 1 .. Len(w) : k # i + 1 =>
          /\ From(k) \in 1 .. Len(s) /\ w[k].id = s[From(k)].id
          /\ k # i => w[k].label = s[From(k)].label
    BY <1>1, <1>5, WidenedFrom
  <2> HIDE DEF new
  <2>5. \A k \in 1 .. Len(w) : Len(w[k].id) >= 1
    BY <2>1, <2>2, <2>4 DEF Record
  <2>6. \A k, j \in 1 .. Len(w) : w[k].id = w[j].id => k = j
    <3>1. SUFFICES ASSUME NEW k \in 1 .. Len(w), NEW j \in 1 .. Len(w), w[k].id = w[j].id
                   PROVE  k = j
      OBVIOUS
    <3>2. CASE k = i + 1 \/ j = i + 1
      <4>1. ASSUME NEW q \in 1 .. Len(w), q # i + 1
            PROVE  w[q].id # new
        BY <4>1, <2>3, <2>4
      <4>2. QED
        BY <3>1, <3>2, <2>1, <4>1
    <3>3. CASE k # i + 1 /\ j # i + 1
      <4>1. From(k) = From(j)
        BY <3>1, <3>3, <2>4 DEF Record
      <4>2. QED
        BY <3>3, <4>1
    <3>4. QED
      BY <3>2, <3>3
  <2>7. \A k \in 1 .. Len(w) : Inserted(w[k].id) => InsertedIn(w[k].id) \in 1 .. pass
    <3>1. SUFFICES ASSUME NEW k \in 1 .. Len(w), Inserted(w[k].id)
                   PROVE  InsertedIn(w[k].id) \in 1 .. pass
      OBVIOUS
    <3>2. CASE k = i + 1
      BY <3>2, <1>1, <2>1, <2>2
    <3>3. CASE k # i + 1
      BY <3>1, <3>3, <2>4 DEF Record
    <3>4. QED
      BY <3>2, <3>3
  <2>8. RightBehind(w)
    <3>1. SUFFICES ASSUME NEW j \in 1 .. Len(w), Inserted(w[j].id), InsertedIn(w[j].id) = pass
                   PROVE  j > 1 /\ w[j].id = Append(w[j - 1].id, pass) /\ w[j].label = target
      BY DEF RightBehind
    <3>2. CASE j = i + 1
      <4>1. i \in 1 .. Len(w) /\ i # i + 1 /\ From(i) = i
        BY <1>1, <2>1
      <4>2. w[i].id = s[i].id
        BY <2>4, <4>1
      <4>3. j > 1 /\ j - 1 = i
        BY <3>2
      <4>4. w[j].id = Append(s[i].id, pass) /\ w[j].label = target
        BY <3>2, <2>1 DEF new
      <4>5. QED
        BY <4>2, <4>3, <4>4
    <3>3. CASE j # i + 1
      <4>1. /\ From(j) > 1 /\ s[From(j)].id = Append(s[From(j) - 1].id, pass)
            /\ s[From(j)].label = target /\ From(j) \in 1 .. Len(s)
        BY <3>1, <3>3, <2>4 DEF RightBehind
      <4>2. j # i + 2
        <5>1. SUFFICES ASSUME j = i + 2
                       PROVE  FALSE
          OBVIOUS
        <5>2. From(j) = i + 1
          BY <5>1
        <5>3. s[i + 1].id = Append(s[(i + 1) - 1].id, pass) /\ i + 1 \in 1 .. Len(s)
          BY <4>1, <5>2
        <5>4. (i + 1) - 1 = i
          OBVIOUS
        <5>5. QED
          BY <5>3, <5>4, <2>3, Zenon DEF new
      <4>3. w[j].label = target
        <5>1. CASE j = i
          <6>1. s[i].label = target
            BY <4>1, <5>1
          <6>2. target # "none"
            BY DEF CallInv, MetadataAssumption
          <6>3. QED
            BY <1>5, <5>1, <6>1, <6>2 DEF Widened
        <5>2. CASE j # i
          BY <3>3, <4>1, <5>2, <2>4
        <5>3. QED
          BY <5>1, <5>2
      <4>4. j > 1 /\ From(j - 1) = From(j) - 1 /\ j - 1 \in 1 .. Len(w) /\ j - 1 # i + 1
        BY <3>3, <4>1, <4>2
      <4>5. w[j - 1].id = s[From(j) - 1].id
        BY <2>4, <4>4
      <4>6. w[j].id = s[From(j)].id
        BY <2>4, <3>3
      <4>7. QED
        BY <4>1, <4>3, <4>4, <4>5, <4>6
    <3>4. QED
      BY <3>2, <3>3
  <2>9. Ids(s) \subseteq Ids(w)
    <3>1. SUFFICES ASSUME NEW j \in 1 .. Len(s)
                   PROVE  \E k \in 1 .. Len(w) : w[k].id = s[j].id
      BY <1>1, <2>1 DEF Ids
    <3> DEFINE k == IF j <= i THEN j ELSE j + 1
    <3>2. k \in 1 .. Len(w) /\ k # i + 1 /\ From(k) = j
      BY <1>1, <2>1
    <3>3. QED
      BY <2>4, <3>2
  <2>10. QED
    BY <2>1, <2>5, <2>6, <2>7, <2>8, <2>9 DEF Record
<1>6. QED
  BY <1>2, <1>3, <1>4, <1>5

\* The facts about a widened record the other lemmas start from.
LEMMA WidenedFacts ==
  ASSUME MetadataAssumption, CallInv, NEW s, Record(s, pass), RightBehind(s),
         NEW w, NEW text, NEW i \in 1 .. Len(s), ~AppendedIn(s, i), Widened(s, w, i, text)
  PROVE  /\ Len(s) \in Nat /\ Len(w) = Len(s) + 1 /\ s[i].label # target
         /\ w[i + 1].id = Append(s[i].id, pass) /\ w[i + 1].text = text /\ w[i + 1].label = target
         /\ Len(w[i + 1].id) = Len(s[i].id) + 1 /\ w[i + 1].id[1] = s[i].id[1]
         /\ \A j \in 1 .. Len(s) : s[j].id # w[i + 1].id
         /\ w[i].label = IF s[i].label = "none" THEN "source" ELSE s[i].label
         /\ \A k \in 1 .. Len(w) : k # i + 1 =>
              LET j == IF k <= i THEN k ELSE k - 1
              IN /\ j \in 1 .. Len(s) /\ w[k].id = s[j].id /\ w[k].text = s[j].text
                 /\ k # i => w[k].label = s[j].label
<1>1. s \in [1 .. Len(s) -> Elements] /\ Len(s) \in Nat /\ pass \in Nat
  BY LenProperties DEF Record, CallInv
<1>2. s[i].id \in Seq(Nat) /\ Len(s[i].id) >= 1
  BY <1>1 DEF Record, Elements
<1>3. Len(Append(s[i].id, pass)) = Len(s[i].id) + 1 /\ Append(s[i].id, pass)[1] = s[i].id[1]
  BY <1>1, <1>2, AppendPath
<1>4. \A j \in 1 .. Len(s) : s[j].id # Append(s[i].id, pass)
  BY NoSiblingYet
<1>5. /\ Len(w) = Len(s) + 1
      /\ w[i + 1].id = Append(s[i].id, pass) /\ w[i + 1].text = text /\ w[i + 1].label = target
      /\ w[i].label = IF s[i].label = "none" THEN "source" ELSE s[i].label
  BY DEF Widened
<1>6. \A k \in 1 .. Len(w) : k # i + 1 =>
        LET j == IF k <= i THEN k ELSE k - 1
        IN /\ j \in 1 .. Len(s) /\ w[k].id = s[j].id /\ w[k].text = s[j].text
           /\ k # i => w[k].label = s[j].label
  BY <1>1, WidenedFrom
<1>7. s[i].label # target
  BY DEF AppendedIn
<1>8. QED
  BY <1>1, <1>3, <1>4, <1>5, <1>6, <1>7, Zenon

\* With one target language the pairs stay pairs, and no source text changes beside one.
LEMMA WrotePaired ==
  ASSUME MetadataAssumption, OneTarget, CallInv, NEW s, Record(s, pass), RightBehind(s),
         NEW w, NEW id, NEW text, Wrote(s, w, id, text), Paired(s)
  PROVE  Paired(w) /\ (opt.append /\ SourceKept(s) => SourceKept(w))
<1>1. s \in [1 .. Len(s) -> Elements] /\ Len(s) \in Nat
  BY LenProperties DEF Record
<1>2. PICK i \in 1 .. Len(s) :
        \/ ~opt.append /\ Replaced(s, w, i, text)
        \/ opt.append /\ AppendedIn(s, i) /\ w = s
        \/ opt.append /\ ~AppendedIn(s, i) /\ Widened(s, w, i, text)
  BY DEF Wrote
<1>3. CASE ~opt.append /\ Replaced(s, w, i, text)
  <2>1. Len(w) = Len(s) /\ \A k \in 1 .. Len(s) : w[k].id = s[k].id /\ w[k].label = s[k].label
    BY <1>3 DEF Replaced
  <2>2. SUFFICES ASSUME NEW k \in 1 .. Len(w)
                 PROVE  /\ Len(w[k].id) <= 2 /\ (Len(w[k].id) = 2 <=> w[k].label \in Targets)
                        /\ Inserted(w[k].id) => /\ k > 1 /\ Len(w[k - 1].id) = 1
                                                /\ w[k].id[1] = w[k - 1].id[1]
                                                /\ w[k - 1].label # "none"
    BY <1>3 DEF Paired
  <2>3. w[k].id = s[k].id /\ w[k].label = s[k].label /\ k \in 1 .. Len(s)
    BY <2>1
  <2>4. k > 1 => w[k - 1].id = s[k - 1].id /\ w[k - 1].label = s[k - 1].label
    BY <1>1, <2>1
  <2>5. QED
    BY <2>3, <2>4 DEF Paired
<1>4. CASE w = s
  BY <1>4
<1>5. CASE opt.append /\ ~AppendedIn(s, i) /\ Widened(s, w, i, text)
  <2> DEFINE From(k) == IF k <= i THEN k ELSE k - 1
  <2>1. /\ Len(w) = Len(s) + 1 /\ s[i].label # target
        /\ w[i + 1].label = target
        /\ Len(w[i + 1].id) = Len(s[i].id) + 1 /\ w[i + 1].id[1] = s[i].id[1]
        /\ w[i].label = IF s[i].label = "none" THEN "source" ELSE s[i].label
    BY <1>5, WidenedFacts
  <2>2. \A k \in 1 .. Len(w) : k # i + 1 =>
          /\ From(k) \in 1 .. Len(s) /\ w[k].id = s[From(k)].id /\ w[k].text = s[From(k)].text
          /\ k # i => w[k].label = s[From(k)].label
    BY <1>5, WidenedFacts
  <2>3. target \in Targets /\ "none" \notin Targets /\ "source" \notin Targets
    BY DEF CallInv, MetadataAssumption
  <2>4. s[i].label \notin Targets
    BY <2>1, <2>3 DEF OneTarget
  <2>5. Len(s[i].id) = 1
    <3>1. Len(s[i].id) \in Nat /\ Len(s[i].id) >= 1
      BY <1>1 DEF Record, Elements
    <3>2. Len(s[i].id) <= 2 /\ Len(s[i].id) # 2
      BY <2>4 DEF Paired
    <3>3. \A n \in Nat : n >= 1 /\ n <= 2 /\ n # 2 => n = 1
      OBVIOUS
    <3>4. QED
      BY <3>1, <3>2, <3>3, Zenon
  <2>6. w[i].id = s[i].id /\ w[i].label \notin Targets /\ w[i].label # "none"
    <3>1. w[i].id = s[i].id
      BY <1>1, <2>1, <2>2
    <3>2. QED
      BY <3>1, <2>1, <2>3, <2>4
  <2>7. Paired(w)
    <3>1. SUFFICES ASSUME NEW k \in 1 .. Len(w)
                   PROVE  /\ Len(w[k].id) <= 2 /\ (Len(w[k].id) = 2 <=> w[k].label \in Targets)
                          /\ Inserted(w[k].id) => /\ k > 1 /\ Len(w[k - 1].id) = 1
                                                  /\ w[k].id[1] = w[k - 1].id[1]
                                                  /\ w[k - 1].label # "none"
      BY DEF Paired
    <3>2. CASE k = i + 1
      <4>1. k - 1 = i /\ k > 1
        BY <3>2
      <4>2. Len(w[k].id) = 2 /\ w[k].label \in Targets /\ w[k].id[1] = s[i].id[1]
        BY <3>2, <2>1, <2>3, <2>5
      <4>3. QED
        BY <4>1, <4>2, <2>5, <2>6
    <3>3. CASE k = i
      <4>1. w[k].id = s[i].id
        BY <3>3, <2>6
      <4>2. QED
        BY <3>3, <4>1, <2>5, <2>6 DEF Inserted
    <3>4. CASE k # i /\ k # i + 1
      <4>1. From(k) \in 1 .. Len(s) /\ w[k].id = s[From(k)].id /\ w[k].label = s[From(k)].label
        BY <3>4, <2>2
      <4> DEFINE j == From(k)
      <4>2. Len(w[k].id) <= 2 /\ (Len(w[k].id) = 2 <=> w[k].label \in Targets)
        BY <4>1 DEF Paired
      <4>3. ASSUME Inserted(w[k].id)
            PROVE  /\ k > 1 /\ Len(w[k - 1].id) = 1
                   /\ w[k].id[1] = w[k - 1].id[1]
                   /\ w[k - 1].label # "none"
        <5> HIDE DEF From
        <5>1. /\ j > 1 /\ Len(s[j - 1].id) = 1
              /\ s[j].id[1] = s[j - 1].id[1]
              /\ s[j - 1].label # "none"
          BY <4>1, <4>3 DEF Paired
        <5>2. j # i + 1
          <6>1. SUFFICES ASSUME j = i + 1
                         PROVE  FALSE
            OBVIOUS
          <6>2. j \in 1 .. Len(s) /\ i < Len(s) /\ j - 1 = i
            BY <1>1, <4>1, <6>1
          <6>3. Kind(s[i + 1].id) = Kind(s[i].id)
            BY <5>1, <6>1, <6>2 DEF Kind
          <6>4. Len(s[j].id) = 2
            <7>1. s[j].id \in Seq(Nat)
              BY <1>1, <6>2 DEF Elements
            <7>2. Len(s[j].id) > 1 /\ Len(s[j].id) <= 2
              BY <4>1, <4>3, <6>2 DEF Inserted, Paired
            <7>3. \A n \in Nat : n > 1 /\ n <= 2 => n = 2
              OBVIOUS
            <7>4. Len(s[j].id) \in Nat
              BY <7>1, LenProperties
            <7>5. QED
              BY <7>2, <7>3, <7>4, Zenon
          <6>5. s[i + 1].label = target
            BY <6>1, <6>2, <6>4, <2>3 DEF Paired, OneTarget
          <6>6. QED
            BY <1>5, <6>2, <6>3, <6>5 DEF AppendedIn
        <5>3. k > 1 /\ k - 1 \in 1 .. Len(w) /\ k - 1 # i + 1 /\ From(k - 1) = j - 1
          BY <1>1, <3>4, <5>1, <5>2 DEF From
        <5>4. /\ w[k - 1].id = s[j - 1].id
              /\ k - 1 # i => w[k - 1].label = s[j - 1].label
          BY <2>2, <5>3
        <5>5. w[k - 1].label # "none"
          BY <2>6, <5>1, <5>4
        <5>6. QED
          BY <4>1, <5>1, <5>3, <5>4, <5>5
      <4>4. QED
        BY <4>2, <4>3
    <3>5. QED
      BY <3>2, <3>3, <3>4
  <2>8. SourceKept(s) => SourceKept(w)
    <3>1. SUFFICES ASSUME SourceKept(s), NEW k \in 1 .. Len(w), Len(w[k].id) = 1
                   PROVE  w[k].text = Source
      BY DEF SourceKept
    <3>2. k # i + 1
      <4>1. Len(w[i + 1].id) = 2
        BY <2>1, <2>5
      <4>2. k = i + 1 => w[k].id = w[i + 1].id
        OBVIOUS
      <4>3. 1 # 2
        OBVIOUS
      <4>4. QED
        BY <3>1, <4>1, <4>2, <4>3, Zenon
    <3>3. QED
      BY <3>1, <3>2, <2>2 DEF SourceKept
  <2>9. QED
    BY <2>7, <2>8
<1>6. QED
  BY <1>2, <1>3, <1>4, <1>5

\* Writing one element leaves what the record shows for every other.
LEMMA WroteOthers ==
  ASSUME MetadataAssumption, CallInv, NEW s, Record(s, pass), RightBehind(s),
         NEW w, NEW id, NEW text, Wrote(s, w, id, text),
         NEW x \in Ids(s), x # id, NEW t
  PROVE  /\ ShownIn(s, x, t) => ShownIn(w, x, t)
         /\ UntouchedIn(s, x, t) => UntouchedIn(w, x, t)
<1>1. s \in [1 .. Len(s) -> Elements] /\ DOMAIN s = 1 .. Len(s) /\ Len(s) \in Nat
  BY LenProperties DEF Record
<1>2. PICK i \in 1 .. Len(s) :
        /\ s[i].id = id
        /\ \/ ~opt.append /\ Replaced(s, w, i, text)
           \/ opt.append /\ AppendedIn(s, i) /\ w = s
           \/ opt.append /\ ~AppendedIn(s, i) /\ Widened(s, w, i, text)
  BY DEF Wrote
<1>3. CASE ~opt.append /\ Replaced(s, w, i, text)
  <2>1. Len(w) = Len(s) /\ \A k \in 1 .. Len(s) : k # i => w[k].text = s[k].text
    BY <1>3 DEF Replaced
  <2>2. \A k \in 1 .. Len(s) : w[k].id = s[k].id
    BY <1>3 DEF Replaced
  <2>3. \A k \in 1 .. Len(w) :
          w[k].id = x => k \in 1 .. Len(s) /\ s[k].id = x /\ w[k].text = s[k].text
    BY <1>2, <2>1, <2>2
  <2>4. QED
    BY <1>3, <2>3 DEF ShownIn, UntouchedIn
<1>4. CASE w = s
  BY <1>4
<1>5. CASE opt.append /\ ~AppendedIn(s, i) /\ Widened(s, w, i, text)
  <2> DEFINE From(k) == IF k <= i THEN k ELSE k - 1
  <2>1. /\ Len(w) = Len(s) + 1 /\ \A j \in 1 .. Len(s) : s[j].id # w[i + 1].id
        /\ w[i].label = IF s[i].label = "none" THEN "source" ELSE s[i].label
    BY <1>5, WidenedFacts
  <2>2. \A k \in 1 .. Len(w) : k # i + 1 =>
          /\ From(k) \in 1 .. Len(s) /\ w[k].id = s[From(k)].id /\ w[k].text = s[From(k)].text
          /\ k # i => w[k].label = s[From(k)].label
    BY <1>5, WidenedFacts
  <2>3. \E j \in 1 .. Len(s) : s[j].id = x
    BY <1>1 DEF Ids
  <2>4. w[i].label = target => s[i].label = target
    BY <2>1 DEF CallInv, MetadataAssumption
  <2>5. ASSUME NEW k \in 1 .. Len(w), w[k].id = x
        PROVE  /\ From(k) \in 1 .. Len(s) /\ s[From(k)].id = x /\ w[k].label = s[From(k)].label
               /\ (k < Len(w) <=> From(k) < Len(s))
               /\ k < Len(w) => /\ w[k + 1].id = s[From(k) + 1].id
                                /\ w[k + 1].text = s[From(k) + 1].text
                                /\ w[k + 1].label = target => s[From(k) + 1].label = target
    <3>1. k # i + 1
      BY <2>1, <2>3, <2>5
    <3>2. k # i
      <4>1. k = i => s[k].id = x
        BY <2>5, <2>2, <3>1
      <4>2. QED
        BY <4>1, <1>2
    <3>3. From(k) \in 1 .. Len(s) /\ s[From(k)].id = x /\ w[k].label = s[From(k)].label
      BY <2>2, <2>5, <3>1, <3>2
    <3>4. k < Len(w) <=> From(k) < Len(s)
      BY <1>1, <2>1, <3>1, <3>2
    <3>5. ASSUME k < Len(w)
          PROVE  /\ w[k + 1].id = s[From(k) + 1].id
                 /\ w[k + 1].text = s[From(k) + 1].text
                 /\ w[k + 1].label = target => s[From(k) + 1].label = target
      <4>1. k + 1 \in 1 .. Len(w) /\ k + 1 # i + 1 /\ From(k + 1) = From(k) + 1
        <5>1. k + 1 \in 1 .. Len(w) /\ k + 1 # i + 1
          BY <1>1, <2>1, <3>2, <3>5
        <5>2. k + 1 <= i <=> k <= i
          BY <3>2
        <5>3. QED
          BY <5>1, <5>2
      <4>2. /\ w[k + 1].id = s[From(k) + 1].id /\ w[k + 1].text = s[From(k) + 1].text
            /\ k + 1 # i => w[k + 1].label = s[From(k) + 1].label
        BY <2>2, <4>1
      <4>3. k + 1 = i => From(k) + 1 = i
        BY <4>1
      <4>4. QED
        BY <4>2, <4>3, <2>4
    <3>6. QED
      BY <3>3, <3>4, <3>5
  <2> HIDE DEF From
  <2>6. ShownIn(s, x, t) => ShownIn(w, x, t)
    <3>1. SUFFICES ASSUME ShownIn(s, x, t), NEW k \in 1 .. Len(w), w[k].id = x
                   PROVE  k < Len(w) /\ w[k + 1].id = Append(x, pass) /\ w[k + 1].text = t
      BY <1>5 DEF ShownIn
    <3>2. From(k) \in 1 .. Len(s) /\ s[From(k)].id = x
      BY <2>5, <3>1
    <3>3. From(k) < Len(s) /\ s[From(k) + 1].id = Append(x, pass) /\ s[From(k) + 1].text = t
      BY <1>5, <3>1, <3>2 DEF ShownIn
    <3>4. QED
      BY <2>5, <3>1, <3>3
  <2>7. UntouchedIn(s, x, t) => UntouchedIn(w, x, t)
    <3>1. SUFFICES ASSUME UntouchedIn(s, x, t), NEW k \in 1 .. Len(w), w[k].id = x, AppendedIn(w, k)
                   PROVE  FALSE
      BY <1>5 DEF UntouchedIn
    <3>2. From(k) \in 1 .. Len(s) /\ s[From(k)].id = x
      BY <2>5, <3>1
    <3>3. ~AppendedIn(s, From(k))
      BY <1>5, <3>1, <3>2 DEF UntouchedIn
    <3>4. AppendedIn(s, From(k))
      BY <2>5, <3>1, <3>2 DEF AppendedIn
    <3>5. QED
      BY <3>3, <3>4
  <2>8. QED
    BY <2>6, <2>7
<1>6. QED
  BY <1>2, <1>3, <1>4, <1>5

\* A field written where nothing had been written shows its translation.
LEMMA WroteShows ==
  ASSUME MetadataAssumption, CallInv, NEW s, Record(s, pass), RightBehind(s),
         NEW w, NEW id, NEW text, Wrote(s, w, id, text),
         NEW t, UntouchedIn(s, id, t)
  PROVE  ShownIn(w, id, text)
<1>1. s \in [1 .. Len(s) -> Elements] /\ Len(s) \in Nat
  BY LenProperties DEF Record
<1>2. PICK i \in 1 .. Len(s) :
        /\ s[i].id = id
        /\ \/ ~opt.append /\ Replaced(s, w, i, text)
           \/ opt.append /\ AppendedIn(s, i) /\ w = s
           \/ opt.append /\ ~AppendedIn(s, i) /\ Widened(s, w, i, text)
  BY DEF Wrote
<1>3. CASE ~opt.append /\ Replaced(s, w, i, text)
  <2>1. /\ Len(w) = Len(s) /\ w[i].text = text
        /\ \A k \in 1 .. Len(s) : w[k].id = s[k].id
    BY <1>3 DEF Replaced
  <2>2. \A k \in 1 .. Len(w) : w[k].id = id => k = i
    BY <1>2, <2>1 DEF Record
  <2>3. QED
    BY <1>3, <2>1, <2>2 DEF ShownIn
<1>4. CASE opt.append /\ AppendedIn(s, i)
  BY <1>2, <1>4 DEF UntouchedIn
<1>5. CASE opt.append /\ ~AppendedIn(s, i) /\ Widened(s, w, i, text)
  <2> DEFINE From(k) == IF k <= i THEN k ELSE k - 1
  <2>1. /\ Len(w) = Len(s) + 1 /\ w[i + 1].text = text
        /\ \A j \in 1 .. Len(s) : s[j].id # w[i + 1].id
    BY <1>5, WidenedFacts
  <2>2. \A k \in 1 .. Len(w) : k # i + 1 => From(k) \in 1 .. Len(s) /\ w[k].id = s[From(k)].id
    BY <1>5, WidenedFacts
  <2>3. ASSUME NEW k \in 1 .. Len(w), w[k].id = id
        PROVE  k = i
    <3>1. k # i + 1
      BY <1>2, <2>1, <2>3
    <3>2. From(k) = i
      BY <1>2, <2>2, <2>3, <3>1 DEF Record
    <3>3. QED
      BY <3>1, <3>2
  <2>4. i < Len(w) /\ w[i + 1].id = Append(id, pass)
    <3>1. w[i + 1].id = Append(s[i].id, pass)
      BY <1>5 DEF Widened
    <3>2. w[i + 1].id = Append(id, pass)
      BY <1>2, <3>1
    <3>3. i < Len(w)
      BY <1>1, <2>1
    <3>4. QED
      BY <3>2, <3>3
  <2>5. QED
    BY <1>5, <2>1, <2>3, <2>4 DEF ShownIn
<1>6. QED
  BY <1>2, <1>3, <1>4, <1>5

-----------------------------------------------------------------------------
(***************************************************************************)
(* What the two writing actions do to the rows and the record.             *)
(***************************************************************************)
RowAdded(row) ==
  /\ rows' \in Seq(Rows) /\ Len(rows') = Len(rows) + 1 /\ Len(rows) \in Nat
  /\ rows'[Len(rows) + 1] = row
  /\ \A q \in 1 .. Len(rows) : rows'[q] = rows[q]

RowChanged(r, text, status) ==
  /\ rows' \in Seq(Rows) /\ Len(rows') = Len(rows) /\ r \in 1 .. Len(rows)
  /\ rows'[r].id = rows[r].id /\ rows'[r].asked = rows[r].asked
  /\ rows'[r].target = text /\ rows'[r].status = status
  /\ \A q \in 1 .. Len(rows) : q # r => rows'[q] = rows[q]

TextOfRow(r) == [pass |-> pass, row |-> r]

Asked(id, row) ==
  /\ row \in Rows /\ row.id = id /\ row.status = "ok"
  /\ row.asked = record[Position(id)].text

Translated(id) ==
  LET n == Len(rows) + 1
  IN \E row \in Rows :
       /\ Asked(id, row) /\ RowAdded(row)
       /\ \/ /\ row.target = TextOfRow(n) /\ flagged' = flagged
             /\ Wrote(record, record', id, TextOfRow(n))
          \/ /\ row.target = NoText /\ flagged' = flagged \cup {n}
             /\ record' = record

\* A visited field gets a row, and its translation or a flag.
LEMMA TranslateStep ==
  ASSUME MetadataAssumption, BaseInv, TranslateField
  PROVE  \E id \in todo :
           /\ id \in Ids(record) /\ todo' = todo \ {id}
           /\ ~(opt.append /\ AlreadyAppended(id)) /\ Translated(id)
<1>1. /\ rows \in Seq(Rows) /\ Len(rows) \in Nat /\ todo \subseteq Ids(record)
      /\ Record(record, pass) /\ CallInv /\ pass \in Nat
  BY LenProperties DEF BaseInv, QueueInv, FileInv, CallInv
<1> DEFINE n    == Len(rows) + 1
           text == TextOfRow(n)
<1>2. PICK id \in todo :
        /\ ~(opt.append /\ AlreadyAppended(id)) /\ todo' = todo \ {id}
        /\ \/ /\ record' = Written(id, text)
              /\ rows' = Append(rows, [NextRow(id) EXCEPT !.target = text])
              /\ UNCHANGED flagged
           \/ /\ rows' = Append(rows, NextRow(id))
              /\ flagged' = flagged \cup {n}
              /\ UNCHANGED record
  BY DEF TranslateField, TextOfRow
<1>3. id \in Ids(record) /\ text \in Texts /\ NoText \in Texts
  BY <1>1 DEF TextOfRow, Texts, NoText
<1>4. record[Position(id)] \in Elements /\ record[Position(id)].id = id
  BY <1>1, <1>3, PositionFound, LenProperties DEF Record
<1>5. /\ Asked(id, NextRow(id)) /\ NextRow(id).target = NoText
      /\ Asked(id, [NextRow(id) EXCEPT !.target = text])
      /\ [NextRow(id) EXCEPT !.target = text].target = text
  BY <1>3, <1>4 DEF NextRow, Asked, Rows, Elements, Statuses
<1> HIDE DEF text
<1>6. ASSUME NEW row \in Rows, rows' = Append(rows, row)
      PROVE  RowAdded(row)
  <2>1. /\ Append(rows, row) \in Seq(Rows) /\ Len(Append(rows, row)) = Len(rows) + 1
        /\ \A q \in 1 .. Len(rows) : Append(rows, row)[q] = rows[q]
        /\ Append(rows, row)[Len(rows) + 1] = row
    BY <1>1, AppendProperties
  <2>2. QED
    BY <1>1, <1>6, <2>1 DEF RowAdded
<1>7. CASE /\ record' = Written(id, text)
           /\ rows' = Append(rows, [NextRow(id) EXCEPT !.target = text])
           /\ UNCHANGED flagged
  <2> DEFINE row == [NextRow(id) EXCEPT !.target = text]
  <2>1. row \in Rows /\ Asked(id, row) /\ row.target = text
    BY <1>5 DEF Asked
  <2>2. RowAdded(row)
    BY <1>6, <1>7, <2>1
  <2>3. Wrote(record, record', id, text)
    BY <1>1, <1>3, <1>7, WrittenWrites
  <2> HIDE DEF row
  <2>4. Translated(id)
    BY <1>7, <2>1, <2>2, <2>3 DEF Translated, text
  <2>5. QED
    BY <1>2, <1>3, <2>4
<1>8. CASE /\ rows' = Append(rows, NextRow(id))
           /\ flagged' = flagged \cup {n}
           /\ UNCHANGED record
  <2>1. NextRow(id) \in Rows /\ Asked(id, NextRow(id)) /\ RowAdded(NextRow(id))
    BY <1>5, <1>6, <1>8 DEF Asked
  <2>2. Translated(id)
    BY <1>5, <1>8, <2>1 DEF Translated
  <2>3. QED
    BY <1>2, <1>3, <2>2
<1>9. QED
  BY <1>2, <1>7, <1>8

\* A field asked for again stays as it is, or gets its translation.
LEMMA RetryStep ==
  ASSUME MetadataAssumption, BaseInv, RetryField
  PROVE  \E r \in retry :
           /\ retry' = retry \ {r} /\ r \in 1 .. Len(rows) /\ r \in flagged
           /\ rows[r].status = "ok" /\ rows[r].id \in Ids(record)
           /\ \/ UNCHANGED <<rows, record>>
              \/ /\ RowChanged(r, TextOfRow(r), "rerun")
                 /\ Wrote(record, record', rows[r].id, TextOfRow(r))
<1>1. /\ rows \in Seq(Rows) /\ rows \in [1 .. Len(rows) -> Rows] /\ Len(rows) \in Nat
      /\ Record(record, pass) /\ CallInv /\ pass \in Nat
  BY LenProperties DEF BaseInv, QueueInv, FileInv, CallInv
<1>2. PICK r \in retry :
        /\ retry' = retry \ {r}
        /\ \/ UNCHANGED <<rows, record>>
           \/ /\ record' = Written(rows[r].id, TextOfRow(r))
              /\ rows' = [rows EXCEPT ![r].target = TextOfRow(r), ![r].status = "rerun"]
  BY DEF RetryField, TextOfRow
<1>3. r \in flagged /\ rows[r].status = "ok" /\ r \in 1 .. Len(rows) /\ rows[r].id \in Ids(record)
  BY DEF BaseInv, QueueInv, StillFlagged
<1>4. TextOfRow(r) \in Texts
  BY <1>1, <1>3 DEF TextOfRow, Texts
<1>5. CASE /\ record' = Written(rows[r].id, TextOfRow(r))
           /\ rows' = [rows EXCEPT ![r].target = TextOfRow(r), ![r].status = "rerun"]
  <2>1. Wrote(record, record', rows[r].id, TextOfRow(r))
    BY <1>1, <1>3, <1>4, <1>5, WrittenWrites
  <2> DEFINE text == TextOfRow(r)
             row  == [rows[r] EXCEPT !.target = text, !.status = "rerun"]
  <2>2. rows' = [rows EXCEPT ![r] = row]
    BY <1>5
  <2> HIDE DEF text
  <2>3. /\ row \in Rows /\ row.id = rows[r].id /\ row.asked = rows[r].asked
        /\ row.target = text /\ row.status = "rerun"
    BY <1>1, <1>3, <1>4 DEF Rows, Statuses, text
  <2> HIDE DEF row
  <2>4. /\ rows' \in Seq(Rows) /\ Len(rows') = Len(rows)
        /\ \A q \in 1 .. Len(rows) : rows'[q] = IF q = r THEN row ELSE rows[q]
    BY <1>1, <1>3, <2>2, <2>3, ExceptSeq
  <2>5. RowChanged(r, text, "rerun")
    BY <1>3, <2>3, <2>4 DEF RowChanged
  <2>6. QED
    BY <1>2, <1>3, <2>1, <2>5 DEF text
<1>6. QED
  BY <1>2, <1>3, <1>5

\* A field given up keeps what it has and is marked so.
LEMMA GiveUpStep ==
  ASSUME MetadataAssumption, BaseInv, GiveUpField
  PROVE  \E r \in StillFlagged : RowChanged(r, rows[r].target, "untranslated")
<1>1. rows \in Seq(Rows) /\ rows \in [1 .. Len(rows) -> Rows] /\ Len(rows) \in Nat
  BY LenProperties DEF BaseInv, QueueInv
<1>2. PICK r \in StillFlagged : rows' = [rows EXCEPT ![r].status = "untranslated"]
  BY DEF GiveUpField
<1>3. r \in 1 .. Len(rows)
  BY DEF BaseInv, QueueInv, StillFlagged
<1> DEFINE row == [rows[r] EXCEPT !.status = "untranslated"]
<1>4. rows' = [rows EXCEPT ![r] = row]
  BY <1>2
<1>5. /\ row \in Rows /\ row.id = rows[r].id /\ row.asked = rows[r].asked
      /\ row.target = rows[r].target /\ row.status = "untranslated"
  BY <1>1, <1>3 DEF Rows, Statuses
<1> HIDE DEF row
<1>6. /\ rows' \in Seq(Rows) /\ Len(rows') = Len(rows)
      /\ \A q \in 1 .. Len(rows) : rows'[q] = IF q = r THEN row ELSE rows[q]
  BY <1>1, <1>3, <1>4, <1>5, ExceptSeq
<1>7. QED
  BY <1>3, <1>5, <1>6 DEF RowChanged

-----------------------------------------------------------------------------
(***************************************************************************)
(* The invariant of every configuration.                                   *)
(***************************************************************************)
LEMMA RecordMonotone ==
  ASSUME NEW s, NEW p \in Nat, NEW q \in Nat, p <= q, Record(s, p)
  PROVE  Record(s, q)
<1>1. ASSUME NEW i \in 1 .. Len(s), Inserted(s[i].id)
      PROVE  InsertedIn(s[i].id) \in 1 .. q
  BY <1>1 DEF Record
<1>2. QED
  BY <1>1 DEF Record

\* The source is a record of elements no pass has inserted.
LEMMA OriginalRecord ==
  ASSUME MetadataAssumption
  PROVE  /\ Record(Original, 0) /\ Original \in Seq(Elements) /\ Len(Original) = Len(KindOf)
         /\ \A f \in 1 .. Len(Original) :
              /\ Original[f].id = <<f>> /\ Original[f].text = Source
              /\ Original[f].label \notin Targets /\ Len(Original[f].id) = 1
              /\ ~Inserted(Original[f].id)
<1> DEFINE n == Len(KindOf)
<1>1. n \in Nat /\ Original = [f \in 1 .. n |->
        [id |-> <<f>>, text |-> Source, label |-> IF f \in Labelled THEN "source" ELSE "none"]]
  BY DEF MetadataAssumption, Original
<1> HIDE DEF n
<1>2. ASSUME NEW f \in 1 .. n
      PROVE  Original[f] \in Elements
  <2>1. <<f>> \in Seq(Nat) /\ Source \in Texts
    BY DEF Texts, Source
  <2>2. QED
    BY <1>1, <2>1 DEF Elements, Labels
<1>3. Original \in Seq(Elements) /\ Len(Original) = n
  BY <1>1, <1>2
<1>4. \A f \in 1 .. n :
        /\ Original[f].id = <<f>> /\ Original[f].text = Source
        /\ Original[f].label \notin Targets /\ Len(Original[f].id) = 1
  BY <1>1 DEF MetadataAssumption
<1>5. \A f, g \in 1 .. n : Original[f].id = Original[g].id => f = g
  <2>1. SUFFICES ASSUME NEW f \in 1 .. n, NEW g \in 1 .. n, Original[f].id = Original[g].id
                 PROVE  f = g
    OBVIOUS
  <2>2. <<f>> = <<g>>
    BY <1>4, <2>1
  <2>3. QED
    BY <2>2
<1>6. \A f \in 1 .. n : Len(Original[f].id) >= 1 /\ ~Inserted(Original[f].id)
  <2>1. 1 >= 1 /\ ~(1 > 1)
    OBVIOUS
  <2>2. QED
    BY <1>4, <2>1, Zenon DEF Inserted
<1>7. Record(Original, 0)
  BY <1>3, <1>5, <1>6 DEF Record
<1>8. QED
  BY <1>3, <1>4, <1>6, <1>7 DEF n

\* A first call starts from the source.
LEMMA BaseInit ==
  ASSUME MetadataAssumption, Init
  PROVE  BaseInv
<1>1. CallInv
  BY DEF Init, CallInv, MetadataAssumption, Phases
<1>2. QueueInv
  <2>1. rows \in Seq(Rows) /\ Len(rows) = 0
    BY DEF Init
  <2>2. Untranslated = {}
    BY <2>1, LenProperties DEF Untranslated
  <2>3. StillFlagged = {}
    BY DEF Init, StillFlagged
  <2>4. QED
    BY <2>1, <2>2, <2>3, FS_EmptySet DEF Init, QueueInv
<1>3. FileInv
  <2>1. record = Original /\ file = Original /\ pass = 1 /\ phase = "visit"
    BY DEF Init
  <2>2. Record(Original, 0)
    BY OriginalRecord
  <2>3. Record(Original, 1)
    BY <2>2, RecordMonotone
  <2>4. RightBehind(record)
    BY <2>1, OriginalRecord DEF RightBehind
  <2>5. pass - 1 = 0
    BY <2>1
  <2>6. QED
    BY <2>1, <2>2, <2>3, <2>4, <2>5 DEF FileInv
<1>4. QED
  BY <1>1, <1>2, <1>3 DEF BaseInv

\* Every step keeps the call in its bounds.
LEMMA CallNext ==
  ASSUME MetadataAssumption, CallInv, [Next]_vars
  PROVE  CallInv'
<1> USE DEF CallInv, callVars, Phases
<1>1. CASE EvaluateXPath
  BY <1>1 DEF EvaluateXPath, MetadataAssumption
<1>2. CASE SkipField
  BY <1>2 DEF SkipField
<1>3. CASE TranslateField
  BY <1>3 DEF TranslateField
<1>4. CASE EndVisit
  BY <1>4 DEF EndVisit, MetadataAssumption
<1>5. CASE StartRound
  BY <1>5 DEF StartRound
<1>6. CASE RetryField
  BY <1>6 DEF RetryField
<1>7. CASE EndRound
  BY <1>7 DEF EndRound, MetadataAssumption
<1>8. CASE GiveUpField
  BY <1>8 DEF GiveUpField
<1>9. CASE EndRerun
  BY <1>9 DEF EndRerun
<1>10. CASE WriteOutputs
  BY <1>10 DEF WriteOutputs
<1>11. CASE Fails
  BY <1>11 DEF Fails
<1>12. CASE ProcessAgain
  BY <1>12 DEF ProcessAgain, MetadataAssumption
<1>13. CASE UNCHANGED vars
  BY <1>13 DEF vars
<1>14. QED
  BY <1>1, <1>2, <1>3, <1>4, <1>5, <1>6, <1>7, <1>8, <1>9, <1>10, <1>11, <1>12, <1>13
     DEF Next, Step

\* The rows under way, counted when one is changed.
LEMMA UntranslatedCount ==
  ASSUME QueueInv
  PROVE  IsFiniteSet(Untranslated) /\ Untranslated \subseteq 1 .. Len(rows)
         /\ Cardinality(Untranslated) <= Len(rows) /\ DOMAIN rows = 1 .. Len(rows)
         /\ Len(rows) \in Nat
<1>1. DOMAIN rows = 1 .. Len(rows) /\ Len(rows) \in Nat
  BY LenProperties DEF QueueInv
<1>2. Untranslated \subseteq 1 .. Len(rows)
  BY <1>1 DEF Untranslated
<1>3. IsFiniteSet(1 .. Len(rows)) /\ Cardinality(1 .. Len(rows)) = Len(rows)
  <2>1. /\ IsFiniteSet(1 .. Len(rows))
        /\ Cardinality(1 .. Len(rows)) = IF 1 > Len(rows) THEN 0 ELSE Len(rows) - 1 + 1
    BY <1>1, FS_Interval
  <2>2. QED
    BY <1>1, <2>1
<1>4. IsFiniteSet(Untranslated) /\ Cardinality(Untranslated) <= Len(rows)
  BY <1>2, <1>3, FS_Subset
<1>5. QED
  BY <1>1, <1>2, <1>4

\* Every step keeps rows, work and note in agreement.
LEMMA QueueNext ==
  ASSUME MetadataAssumption, BaseInv, [Next]_vars
  PROVE  QueueInv'
<1>1. /\ rows \in Seq(Rows) /\ todo \subseteq Ids(record)
      /\ \A r \in 1 .. Len(rows) : rows[r].id \in Ids(record)
      /\ flagged \subseteq 1 .. Len(rows) /\ retry \subseteq StillFlagged
      /\ phase \notin {"round", "failed"} => retry = {}
      /\ phase \in {"close", "done"} => StillFlagged = {}
      /\ notes = Cardinality(Untranslated)
  BY DEF BaseInv, QueueInv
<1>2. DOMAIN rows = 1 .. Len(rows) /\ Len(rows) \in Nat /\ IsFiniteSet(Untranslated)
  BY UntranslatedCount DEF BaseInv
<1>3. CallInv /\ Record(record, pass) /\ RightBehind(record)
  BY DEF BaseInv, FileInv
<1>4. ASSUME UNCHANGED <<rows, flagged, record, notes>>
      PROVE  /\ StillFlagged' = StillFlagged /\ Untranslated' = Untranslated
             /\ Ids(record)' = Ids(record)
  BY <1>4 DEF StillFlagged, Untranslated
<1>5. CASE EvaluateXPath
  <2>1. todo' \subseteq Ids(record)' /\ UNCHANGED <<rows, flagged, record, notes, retry, phase>>
    BY <1>5 DEF EvaluateXPath
  <2>2. QED
    BY <1>1, <1>4, <2>1 DEF QueueInv
<1>6. CASE SkipField
  <2>1. todo' \subseteq todo /\ UNCHANGED <<rows, flagged, record, notes, retry, phase>>
    BY <1>6 DEF SkipField
  <2>2. QED
    BY <1>1, <1>4, <2>1 DEF QueueInv
<1>7. CASE TranslateField
  <2>1. PICK id \in todo :
          /\ id \in Ids(record) /\ todo' = todo \ {id} /\ Translated(id)
    BY <1>7, TranslateStep
  <2> DEFINE n == Len(rows) + 1
  <2>2. PICK row \in Rows :
          /\ Asked(id, row) /\ RowAdded(row)
          /\ \/ /\ row.target = TextOfRow(n) /\ flagged' = flagged
                /\ Wrote(record, record', id, TextOfRow(n))
             \/ /\ row.target = NoText /\ flagged' = flagged \cup {n}
                /\ record' = record
    BY <2>1 DEF Translated
  <2>3. phase = "visit" /\ UNCHANGED <<phase, retry, notes>>
    BY <1>7 DEF TranslateField
  <2>4. Ids(record) \subseteq Ids(record')
    BY <1>3, <2>2, WroteRecord
  <2>5. /\ rows' \in Seq(Rows) /\ Len(rows') = n /\ DOMAIN rows' = 1 .. n
        /\ rows'[n] = row /\ \A q \in 1 .. Len(rows) : rows'[q] = rows[q]
    BY <2>2, LenProperties DEF RowAdded
  <2>6. \A q \in 1 .. n : q \in 1 .. Len(rows) \/ q = n
    BY <1>2
  <2>7. Untranslated' = Untranslated
    <3>1. row.status # "untranslated"
      BY <2>2 DEF Asked
    <3>2. ASSUME NEW q
          PROVE  q \in Untranslated' <=> q \in Untranslated
      BY <1>2, <2>5, <2>6, <3>1 DEF Untranslated
    <3>3. QED
      BY <3>2
  <2>8. \A r \in 1 .. n : rows'[r].id \in Ids(record')
    BY <1>1, <2>1, <2>2, <2>4, <2>5, <2>6 DEF Asked
  <2>9. todo' \subseteq Ids(record')
    BY <1>1, <2>1, <2>4
  <2>10. flagged' \subseteq 1 .. n /\ retry' = {} /\ phase' = "visit"
    <3>1. 1 .. Len(rows) \subseteq 1 .. n /\ n \in 1 .. n
      BY <1>2
    <3>2. flagged' \subseteq flagged \cup {n}
      BY <2>2
    <3>3. flagged' \subseteq 1 .. n
      BY <1>1, <3>1, <3>2, Zenon
    <3>4. QED
      BY <1>1, <2>3, <3>3
  <2>11. QED
    BY <1>1, <2>3, <2>5, <2>7, <2>8, <2>9, <2>10 DEF QueueInv
<1>8. CASE EndVisit
  <2>1. /\ UNCHANGED <<rows, flagged, record, notes, retry, todo>>
        /\ phase = "visit" /\ phase' \in {"close", "rerun"} /\ (phase' = "close" => flagged = {})
    BY <1>8 DEF EndVisit
  <2>2. phase' = "close" => StillFlagged = {}
    BY <2>1 DEF StillFlagged
  <2>3. QED
    BY <1>1, <1>4, <2>1, <2>2 DEF QueueInv
<1>9. CASE StartRound
  <2>1. /\ UNCHANGED <<rows, flagged, record, notes, todo>>
        /\ retry' = StillFlagged /\ phase' = "round"
    BY <1>9 DEF StartRound
  <2>2. QED
    BY <1>1, <1>4, <2>1 DEF QueueInv
<1>10. CASE RetryField
  <2>1. phase = "round" /\ UNCHANGED <<phase, todo, flagged, notes>>
    BY <1>10 DEF RetryField
  <2>2. PICK r \in retry :
          /\ retry' = retry \ {r} /\ r \in 1 .. Len(rows) /\ r \in flagged
          /\ rows[r].status = "ok" /\ rows[r].id \in Ids(record)
          /\ \/ UNCHANGED <<rows, record>>
             \/ /\ RowChanged(r, TextOfRow(r), "rerun")
                /\ Wrote(record, record', rows[r].id, TextOfRow(r))
    BY <1>10, RetryStep
  <2>3. CASE UNCHANGED <<rows, record>>
    BY <1>1, <1>4, <2>1, <2>2, <2>3 DEF QueueInv
  <2>4. CASE /\ RowChanged(r, TextOfRow(r), "rerun")
             /\ Wrote(record, record', rows[r].id, TextOfRow(r))
    <3>1. Ids(record) \subseteq Ids(record')
      BY <1>3, <2>4, WroteRecord
    <3>2. /\ rows' \in Seq(Rows) /\ Len(rows') = Len(rows) /\ DOMAIN rows' = 1 .. Len(rows)
          /\ rows'[r].id = rows[r].id /\ rows'[r].status = "rerun"
          /\ \A q \in 1 .. Len(rows) : q # r => rows'[q] = rows[q]
      BY <2>4, LenProperties DEF RowChanged
    <3>3. Untranslated' = Untranslated
      <4>1. ASSUME NEW q
            PROVE  q \in Untranslated' <=> q \in Untranslated
        BY <1>2, <2>2, <3>2 DEF Untranslated
      <4>2. QED
        BY <4>1
    <3>4. \A q \in 1 .. Len(rows) : rows'[q].id \in Ids(record')
      BY <1>1, <3>1, <3>2
    <3>5. retry' \subseteq StillFlagged'
      BY <1>1, <2>1, <2>2, <3>2 DEF StillFlagged
    <3>6. QED
      BY <1>1, <2>1, <3>1, <3>2, <3>3, <3>4, <3>5 DEF QueueInv
  <2>5. QED
    BY <2>2, <2>3, <2>4
<1>11. CASE EndRound
  <2>1. UNCHANGED <<rows, flagged, record, notes, todo, retry>> /\ retry = {} /\ phase' = "rerun"
    BY <1>11 DEF EndRound
  <2>2. QED
    BY <1>1, <1>4, <2>1 DEF QueueInv
<1>12. CASE GiveUpField
  <2>1. phase = "rerun" /\ UNCHANGED <<phase, todo, flagged, record, retry>> /\ notes' = notes + 1
    BY <1>12 DEF GiveUpField
  <2>2. PICK r \in StillFlagged : RowChanged(r, rows[r].target, "untranslated")
    BY <1>12, GiveUpStep
  <2>3. /\ rows' \in Seq(Rows) /\ Len(rows') = Len(rows) /\ DOMAIN rows' = 1 .. Len(rows)
        /\ r \in 1 .. Len(rows) /\ rows'[r].id = rows[r].id /\ rows'[r].status = "untranslated"
        /\ \A q \in 1 .. Len(rows) : q # r => rows'[q] = rows[q]
    BY <2>2, LenProperties DEF RowChanged
  <2>4. r \notin Untranslated
    BY <2>2 DEF StillFlagged, Untranslated
  <2>5. Untranslated' = Untranslated \cup {r}
    <3>1. ASSUME NEW q
          PROVE  q \in Untranslated' <=> q \in Untranslated \cup {r}
      BY <1>2, <2>3 DEF Untranslated
    <3>2. QED
      BY <3>1
  <2>6. Cardinality(Untranslated') = Cardinality(Untranslated) + 1
    BY <1>2, <2>4, <2>5, FS_AddElement
  <2>7. \A q \in 1 .. Len(rows) : rows'[q].id \in Ids(record)
    BY <1>1, <2>3
  <2>8. retry' = {}
    BY <1>1, <2>1
  <2>9. QED
    BY <1>1, <2>1, <2>3, <2>6, <2>7, <2>8 DEF QueueInv
<1>13. CASE EndRerun
  <2>1. /\ UNCHANGED <<rows, flagged, record, notes, todo, retry>>
        /\ StillFlagged = {} /\ phase = "rerun"
    BY <1>13 DEF EndRerun
  <2>2. QED
    BY <1>1, <1>4, <2>1 DEF QueueInv
<1>14. CASE WriteOutputs
  <2>1. /\ UNCHANGED <<rows, flagged, record, notes, todo, retry>>
        /\ phase = "close" /\ phase' = "done"
    BY <1>14 DEF WriteOutputs
  <2>2. QED
    BY <1>1, <1>4, <2>1 DEF QueueInv
<1>15. CASE Fails
  <2>1. UNCHANGED <<rows, flagged, record, notes, todo, retry>> /\ phase' = "failed"
    BY <1>15 DEF Fails
  <2>2. QED
    BY <1>1, <1>4, <2>1 DEF QueueInv
<1>16. CASE ProcessAgain
  <2>1. /\ rows' = <<>> /\ flagged' = {} /\ retry' = {} /\ notes' = 0 /\ todo' = {}
        /\ phase' = "visit"
    BY <1>16 DEF ProcessAgain
  <2>2. rows' \in Seq(Rows) /\ Len(rows') = 0
    BY <2>1
  <2>3. Untranslated' = {} /\ StillFlagged' = {}
    BY <2>1, <2>2, LenProperties DEF Untranslated, StillFlagged
  <2>4. QED
    BY <2>1, <2>2, <2>3, FS_EmptySet DEF QueueInv
<1>17. CASE UNCHANGED vars
  <2>1. UNCHANGED <<rows, flagged, record, notes, todo, retry, phase>>
    BY <1>17 DEF vars
  <2>2. QED
    BY <1>1, <1>4, <2>1 DEF QueueInv
<1>18. QED
  BY <1>5, <1>6, <1>7, <1>8, <1>9, <1>10, <1>11, <1>12, <1>13, <1>14, <1>15, <1>16, <1>17
     DEF Next, Step

\* Every step keeps the records records.
LEMMA FileNext ==
  ASSUME MetadataAssumption, BaseInv, [Next]_vars
  PROVE  FileInv'
<1>1. /\ CallInv /\ Record(record, pass) /\ RightBehind(record)
      /\ Record(file, pass) /\ (phase # "done" => Record(file, pass - 1))
      /\ phase = "done" => file = record /\ log = [r \in DOMAIN rows |-> LogRow(rows[r])]
  BY DEF BaseInv, FileInv
<1>2. pass \in Nat \ {0}
  BY <1>1 DEF CallInv
<1>3. ASSUME UNCHANGED <<pass, target>>, Record(record', pass), RightBehind(record')
      PROVE  Record(record, pass)' /\ RightBehind(record)'
  BY <1>3 DEF RightBehind
<1>4. ASSUME UNCHANGED <<pass, target, record, file>>, phase # "done", phase' # "done"
      PROVE  FileInv'
  BY <1>1, <1>3, <1>4 DEF FileInv
<1>5. ASSUME UNCHANGED <<pass, target, file>>, phase # "done", phase' # "done",
             NEW id, NEW text, Wrote(record, record', id, text)
      PROVE  FileInv'
  <2>1. Record(record', pass) /\ RightBehind(record')
    BY <1>1, <1>5, WroteRecord
  <2>2. QED
    BY <1>1, <1>3, <1>5, <2>1 DEF FileInv
<1>6. CASE EvaluateXPath
  BY <1>4, <1>6 DEF EvaluateXPath, callVars, diskVars
<1>7. CASE SkipField
  BY <1>4, <1>7 DEF SkipField, callVars, diskVars
<1>8. CASE TranslateField
  <2>1. UNCHANGED <<pass, target, file>> /\ phase = "visit" /\ phase' = "visit"
    BY <1>8 DEF TranslateField, callVars, diskVars
  <2>2. PICK id \in todo : Translated(id)
    BY <1>8, TranslateStep
  <2>3. record' = record \/ Wrote(record, record', id, TextOfRow(Len(rows) + 1))
    BY <2>2 DEF Translated
  <2>4. QED
    BY <1>4, <1>5, <2>1, <2>3
<1>9. CASE EndVisit
  BY <1>4, <1>9 DEF EndVisit, callVars, diskVars
<1>10. CASE StartRound
  BY <1>4, <1>10 DEF StartRound, callVars, diskVars
<1>11. CASE RetryField
  <2>1. UNCHANGED <<pass, target, file>> /\ phase = "round" /\ phase' = "round"
    BY <1>11 DEF RetryField, callVars, diskVars
  <2>2. PICK r \in retry : record' = record \/ Wrote(record, record', rows[r].id, TextOfRow(r))
    BY <1>11, RetryStep
  <2>3. QED
    BY <1>4, <1>5, <2>1, <2>2
<1>12. CASE EndRound
  BY <1>4, <1>12 DEF EndRound, callVars, diskVars
<1>13. CASE GiveUpField
  BY <1>4, <1>13 DEF GiveUpField, callVars, diskVars
<1>14. CASE EndRerun
  BY <1>4, <1>14 DEF EndRerun, callVars, diskVars
<1>15. CASE WriteOutputs
  <2>1. /\ UNCHANGED <<pass, target, record, rows, opt>> /\ file' = record
        /\ phase' = "done" /\ log' = [r \in DOMAIN rows |-> LogRow(rows[r])]
    BY <1>15 DEF WriteOutputs, callVars
  <2>2. log' = [r \in DOMAIN rows' |-> LogRow(rows'[r])]
    BY <2>1
  <2>3. Record(record, pass)' /\ RightBehind(record)'
    BY <1>1, <1>3, <2>1
  <2>4. Record(file, pass)' /\ file' = record'
    BY <1>1, <2>1
  <2>5. (log = [r \in DOMAIN rows |-> LogRow(rows[r])])'
    BY <2>2 DEF LogRow
  <2>6. QED
    BY <2>1, <2>3, <2>4, <2>5 DEF FileInv
<1>16. CASE Fails
  BY <1>4, <1>16 DEF Fails, callVars, diskVars
<1>17. CASE ProcessAgain
  <2>1. record' = file /\ file' = file /\ pass' = pass + 1 /\ phase' = "visit"
    BY <1>17 DEF ProcessAgain, diskVars
  <2>2. Record(file, pass + 1)
    BY <1>1, <1>2, RecordMonotone
  <2>3. pass' - 1 = pass
    BY <1>2, <2>1
  <2>4. Record(record', pass') /\ Record(file', pass') /\ Record(file', pass' - 1)
    BY <1>1, <2>1, <2>2, <2>3
  <2>5. RightBehind(record)'
    <3>1. ASSUME NEW j \in 1 .. Len(file), Inserted(file[j].id)
          PROVE  InsertedIn(file[j].id) # pass + 1
      BY <1>1, <1>2, <3>1 DEF Record
    <3>2. QED
      BY <2>1, <3>1 DEF RightBehind
  <2>6. QED
    BY <2>1, <2>4, <2>5 DEF FileInv
<1>18. CASE UNCHANGED vars
  <2>1. UNCHANGED <<pass, target, record, file, rows, log, phase>>
    BY <1>18 DEF vars, callVars, diskVars
  <2>2. QED
    BY <1>1, <1>3, <2>1 DEF FileInv, LogRow
<1>19. QED
  BY <1>6, <1>7, <1>8, <1>9, <1>10, <1>11, <1>12, <1>13, <1>14, <1>15, <1>16, <1>17, <1>18
     DEF Next, Step

\* Whatever the configuration: rows and work name elements of the record, no element is
\* there twice, and a sibling of this pass is right behind its element
\* (process_metadata_xml and _rerun_flagged_metadata).
THEOREM BaseHolds == Spec => []BaseInv
<1>1. Init => BaseInv
  BY BaseInit, MetadataAssumption
<1>2. BaseInv /\ [Next]_vars => BaseInv'
  <2>1. SUFFICES ASSUME BaseInv, [Next]_vars
                 PROVE  BaseInv'
    OBVIOUS
  <2>2. CallInv' /\ QueueInv' /\ FileInv'
    BY <2>1, CallNext, QueueNext, FileNext, MetadataAssumption DEF BaseInv
  <2>3. QED
    BY <2>2 DEF BaseInv
<1>3. QED
  BY <1>1, <1>2, PTL DEF Spec

\* Every variable of the metadata pass keeps its type, an element is in the record
\* once, and no more segments are noted as left untranslated than rows are logged,
\* whatever the configuration.
THEOREM TypeCorrect == Spec => []TypeOK
<1>1. BaseInv => TypeOK
  <2>1. SUFFICES ASSUME BaseInv
                 PROVE  TypeOK
    OBVIOUS
  <2>2. CallInv /\ Record(record, pass) /\ DOMAIN record = 1 .. Len(record)
    BY <2>1, LenProperties DEF BaseInv, FileInv, Record
  <2>3. /\ DOMAIN rows = 1 .. Len(rows) /\ Len(rows) \in Nat
        /\ Cardinality(Untranslated) <= Len(rows) /\ Cardinality(Untranslated) \in Nat
    BY <2>1, UntranslatedCount, FS_CardinalityType DEF BaseInv
  <2>4. \A r \in DOMAIN rows : rows[r].status \in Statuses
    <3>1. rows \in [1 .. Len(rows) -> Rows]
      BY <2>1, LenProperties DEF BaseInv, QueueInv
    <3>2. QED
      BY <2>3, <3>1 DEF Rows
  <2>5. notes \in 0 .. Len(rows)
    BY <2>1, <2>3 DEF BaseInv, QueueInv
  <2>6. flagged \subseteq DOMAIN rows /\ retry \subseteq flagged /\ todo \subseteq Ids(record)
    BY <2>1, <2>3 DEF BaseInv, QueueInv, StillFlagged
  <2>7. \A i, j \in DOMAIN record : record[i].id = record[j].id => i = j
    BY <2>2 DEF Record
  <2>8. QED
    BY <2>2, <2>4, <2>5, <2>6, <2>7 DEF TypeOK, CallInv
<1>2. QED
  BY <1>1, BaseHolds, PTL

-----------------------------------------------------------------------------
(***************************************************************************)
(* One target language: pairs.                                             *)
(***************************************************************************)
LEMMA PairInit ==
  ASSUME MetadataAssumption, Init
  PROVE  PairInv
<1>1. record = Original /\ file = Original
  BY DEF Init
<1>2. Paired(Original) /\ SourceKept(Original)
  <2>1. ASSUME NEW f \in 1 .. Len(Original)
        PROVE  /\ Original[f].text = Source /\ Original[f].label \notin Targets
               /\ Len(Original[f].id) = 1 /\ ~Inserted(Original[f].id)
    BY OriginalRecord
  <2>2. \A f \in 1 .. Len(Original) : Len(Original[f].id) <= 2 /\ Len(Original[f].id) # 2
    <3>1. 1 <= 2 /\ 1 # 2
      OBVIOUS
    <3>2. QED
      BY <2>1, <3>1, Zenon
  <2>3. QED
    BY <2>1, <2>2 DEF Paired, SourceKept
<1>3. rows = <<>> /\ \A r \in 1 .. Len(rows) : FALSE
  BY DEF Init
<1>4. QED
  BY <1>1, <1>2, <1>3 DEF PairInv

\* A field asked for in append mode carries its own text.
LEMMA AskedIsSource ==
  ASSUME MetadataAssumption, OneTarget, BaseInv, PairInv, opt.append,
         NEW id \in Ids(record), ~AlreadyAppended(id)
  PROVE  record[Position(id)].text = Source
<1> DEFINE i == Position(id)
<1>1. Record(record, pass) /\ CallInv /\ record \in [1 .. Len(record) -> Elements]
  BY LenProperties DEF BaseInv, FileInv, Record
<1>2. i \in 1 .. Len(record) /\ ~AppendedIn(record, i)
  BY <1>1, PositionFound, AlreadyAppendedIn
<1> HIDE DEF i
<1>3. record[i].label \notin Targets
  BY <1>1, <1>2 DEF AppendedIn, OneTarget, CallInv
<1>4. Len(record[i].id) <= 2 /\ Len(record[i].id) # 2
  BY <1>2, <1>3 DEF PairInv, Paired
<1>5. Len(record[i].id) \in Nat /\ Len(record[i].id) >= 1
  BY <1>1, <1>2, LenProperties DEF Record, Elements
<1>6. \A n \in Nat : n >= 1 /\ n <= 2 /\ n # 2 => n = 1
  OBVIOUS
<1>7. Len(record[i].id) = 1
  BY <1>4, <1>5, <1>6, Zenon
<1>8. QED
  BY <1>2, <1>7 DEF PairInv, SourceKept, i

\* Every step keeps the pairs, for one target language.
LEMMA PairNext ==
  ASSUME MetadataAssumption, OneTarget, BaseInv, PairInv, [Next]_vars
  PROVE  PairInv'
<1>1. /\ Paired(record) /\ Paired(file)
      /\ opt.append =>
           /\ SourceKept(record) /\ SourceKept(file)
           /\ \A r \in 1 .. Len(rows) : rows[r].asked = Source
  BY DEF PairInv
<1>2. CallInv /\ Record(record, pass) /\ RightBehind(record)
  BY DEF BaseInv, FileInv
<1>3. ASSUME UNCHANGED <<opt, file, rows, record>>
      PROVE  PairInv'
  BY <1>1, <1>3 DEF PairInv
<1>4. ASSUME UNCHANGED opt, NEW id, NEW text, Wrote(record, record', id, text)
      PROVE  Paired(record') /\ (opt'.append => SourceKept(record'))
  BY <1>1, <1>2, <1>4, WrotePaired
<1>5. CASE TranslateField
  <2>1. UNCHANGED <<opt, file>>
    BY <1>5 DEF TranslateField, callVars, diskVars
  <2>2. PICK id \in todo :
          id \in Ids(record) /\ ~(opt.append /\ AlreadyAppended(id)) /\ Translated(id)
    BY <1>5, TranslateStep
  <2>3. PICK row \in Rows :
          /\ Asked(id, row) /\ RowAdded(row)
          /\ record' = record \/ Wrote(record, record', id, TextOfRow(Len(rows) + 1))
    BY <2>2 DEF Translated
  <2>4. Paired(record') /\ (opt'.append => SourceKept(record'))
    BY <1>1, <1>4, <2>1, <2>3
  <2>5. opt.append => row.asked = Source
    BY <2>2, <2>3, AskedIsSource DEF Asked
  <2>6. opt.append => \A r \in 1 .. Len(rows') : rows'[r].asked = Source
    <3>1. \A r \in 1 .. Len(rows') : r \in 1 .. Len(rows) \/ r = Len(rows) + 1
      BY <2>3 DEF RowAdded
    <3>2. QED
      BY <1>1, <2>3, <2>5, <3>1 DEF RowAdded
  <2>7. QED
    BY <1>1, <2>1, <2>4, <2>6 DEF PairInv
<1>6. CASE RetryField
  <2>1. UNCHANGED <<opt, file>>
    BY <1>6 DEF RetryField, callVars, diskVars
  <2>2. PICK r \in retry :
          \/ UNCHANGED <<rows, record>>
          \/ /\ RowChanged(r, TextOfRow(r), "rerun")
             /\ Wrote(record, record', rows[r].id, TextOfRow(r))
    BY <1>6, RetryStep
  <2>3. CASE UNCHANGED <<rows, record>>
    BY <1>3, <2>1, <2>3
  <2>4. CASE /\ RowChanged(r, TextOfRow(r), "rerun")
             /\ Wrote(record, record', rows[r].id, TextOfRow(r))
    <3>1. Paired(record') /\ (opt'.append => SourceKept(record'))
      BY <1>4, <2>1, <2>4
    <3>2. opt.append => \A q \in 1 .. Len(rows') : rows'[q].asked = Source
      BY <1>1, <2>4 DEF RowChanged
    <3>3. QED
      BY <1>1, <2>1, <3>1, <3>2 DEF PairInv
  <2>5. QED
    BY <2>2, <2>3, <2>4
<1>7. CASE GiveUpField
  <2>1. UNCHANGED <<opt, file, record>>
    BY <1>7 DEF GiveUpField, callVars, diskVars
  <2>2. opt.append => \A q \in 1 .. Len(rows') : rows'[q].asked = Source
    BY <1>1, <1>7, GiveUpStep DEF RowChanged
  <2>3. QED
    BY <1>1, <2>1, <2>2 DEF PairInv
<1>8. CASE WriteOutputs
  <2>1. UNCHANGED <<opt, record, rows>> /\ file' = record
    BY <1>8 DEF WriteOutputs, callVars
  <2>2. QED
    BY <1>1, <2>1 DEF PairInv
<1>9. CASE ProcessAgain
  <2>1. UNCHANGED <<opt, file>> /\ record' = file /\ rows' = <<>>
    BY <1>9 DEF ProcessAgain, diskVars
  <2>2. \A q \in 1 .. Len(rows') : FALSE
    BY <2>1
  <2>3. QED
    BY <1>1, <2>1, <2>2 DEF PairInv
<1>10. CASE EvaluateXPath \/ SkipField \/ EndVisit \/ StartRound \/ EndRound \/ EndRerun
            \/ Fails \/ UNCHANGED vars
  <2>1. UNCHANGED <<opt, file, rows, record>>
    BY <1>10 DEF EvaluateXPath, SkipField, EndVisit, StartRound, EndRound, EndRerun, Fails,
                 vars, callVars, diskVars
  <2>2. QED
    BY <1>3, <2>1
<1>11. QED
  BY <1>5, <1>6, <1>7, <1>8, <1>9, <1>10 DEF Next, Step

\* With one target language no sibling is ever given a sibling, and append asks only for
\* the source's own text (_already_appended).
THEOREM PairHolds ==
  ASSUME OneTarget
  PROVE  Spec => [](BaseInv /\ PairInv)
<1>1. Init => BaseInv /\ PairInv
  BY BaseInit, PairInit, MetadataAssumption
<1>2. BaseInv /\ BaseInv' /\ PairInv /\ [Next]_vars => PairInv'
  BY PairNext, OneTarget, MetadataAssumption
<1>3. QED
  BY <1>1, <1>2, BaseHolds, PTL DEF Spec

\* The parent of an inserted element stands right before it, and carries a label.
LEMMA PairBehind ==
  ASSUME NEW s, NEW p, Record(s, p), Paired(s),
         NEW i \in 1 .. Len(s), NEW j \in 1 .. Len(s), Len(s[j].id) = 2,
         SubSeq(s[j].id, 1, 1) = s[i].id
  PROVE  j = i + 1 /\ s[i].label # "none"
<1>1. s \in [1 .. Len(s) -> Elements] /\ Len(s) \in Nat
  BY LenProperties DEF Record
<1>2. s[j].id \in Seq(Nat) /\ s[i].id \in Seq(Nat)
  BY <1>1 DEF Elements
<1>3. Inserted(s[j].id)
  BY DEF Inserted
<1>4. /\ j > 1 /\ Len(s[j - 1].id) = 1 /\ s[j].id[1] = s[j - 1].id[1]
      /\ s[j - 1].label # "none"
  BY <1>3 DEF Paired
<1>5. Len(s[i].id) = 1 /\ s[i].id[1] = s[j].id[1]
  <2>1. Len(SubSeq(s[j].id, 1, 1)) = 1 /\ SubSeq(s[j].id, 1, 1)[1] = s[j].id[1]
    BY <1>2
  <2>2. QED
    BY <2>1
<1>6. s[j - 1].id = s[i].id
  <2>1. s[j - 1].id \in Seq(Nat) /\ 1 \in 1 .. 1
    BY <1>1, <1>4 DEF Elements
  <2>2. \A k \in 1 .. 1 : s[j - 1].id[k] = s[i].id[k]
    BY <1>4, <1>5
  <2>3. /\ Len(s[j - 1].id) = Len(s[i].id)
        /\ \A k \in 1 .. Len(s[j - 1].id) : s[j - 1].id[k] = s[i].id[k]
    BY <1>4, <1>5, <2>2
  <2>4. QED
    BY <1>2, <2>1, <2>3, SeqEqual
<1>7. j - 1 = i
  BY <1>1, <1>4, <1>6 DEF Record
<1>8. QED
  BY <1>4, <1>7

\* With one target language append is idempotent: however often a record is processed,
\* and whatever the replies, a field has at most one sibling, and says what it is.
THEOREM PairsCorrect ==
  ASSUME OneTarget
  PROVE  Spec => []PairsDescribeThemselves
<1>1. BaseInv /\ PairInv => PairsDescribeThemselves
  <2>1. SUFFICES ASSUME BaseInv, PairInv
                 PROVE  OneSiblingPerLanguage /\ PairsAreLabelled
    BY DEF PairsDescribeThemselves
  <2>2. /\ Record(file, pass) /\ Paired(file) /\ DOMAIN file = 1 .. Len(file)
        /\ file \in [1 .. Len(file) -> Elements]
    BY <2>1, LenProperties DEF BaseInv, FileInv, PairInv, Record
  <2>3. \A k \in 1 .. Len(file) :
          Len(file[k].id) \in Nat /\ Len(file[k].id) <= 2 /\ Len(file[k].id) >= 1
    BY <2>2, LenProperties DEF Paired, Elements, Record
  <2>4. OneSiblingPerLanguage
    <3>1. SUFFICES ASSUME NEW i \in 1 .. Len(file), NEW l \in Targets
                   PROVE  Cardinality(TranslationsInto(l, file[i].id)) <= 1
      BY <2>2 DEF OneSiblingPerLanguage
    <3> DEFINE T == TranslationsInto(l, file[i].id)
    <3>2. ASSUME NEW j \in T
          PROVE  j = i + 1
      <4>1. /\ j \in 1 .. Len(file) /\ file[j].label = l
            /\ Len(file[j].id) = Len(file[i].id) + 1
            /\ SubSeq(file[j].id, 1, Len(file[i].id)) = file[i].id
        BY <2>2, <3>2 DEF TranslationsInto
      <4>2. Len(file[j].id) = 2
        BY <2>2, <4>1 DEF Paired
      <4>3. Len(file[i].id) = 1
        <5>1. \A m, n \in Nat : m = n + 1 /\ m = 2 => n = 1
          OBVIOUS
        <5>2. QED
          BY <2>3, <4>1, <4>2, <5>1, Zenon
      <4>4. SubSeq(file[j].id, 1, 1) = file[i].id
        BY <4>1, <4>3
      <4>5. QED
        BY <2>2, <4>1, <4>2, <4>4, PairBehind
    <3> HIDE DEF T
    <3>3. T \subseteq {i + 1}
      BY <3>2
    <3>4. IsFiniteSet({i + 1}) /\ Cardinality({i + 1}) = 1
      BY FS_Singleton
    <3>5. Cardinality(T) <= 1
      BY <3>3, <3>4, FS_Subset
    <3>6. QED
      BY <3>5 DEF T
  <2>5. PairsAreLabelled
    <3>1. SUFFICES ASSUME NEW i \in 1 .. Len(file), NEW j \in 1 .. Len(file),
                          Len(file[j].id) > 1, Front(file[j].id) = file[i].id
                   PROVE  file[i].label # "none"
      BY <2>2 DEF PairsAreLabelled
    <3>2. Len(file[j].id) = 2
      <4>1. \A n \in Nat : n > 1 /\ n <= 2 => n = 2
        OBVIOUS
      <4>2. QED
        BY <2>3, <3>1, <4>1, Zenon
    <3>3. SubSeq(file[j].id, 1, 1) = file[i].id
      <4>1. Len(file[j].id) - 1 = 1
        BY <3>2
      <4>2. QED
        BY <3>1, <4>1 DEF Front
    <3>4. QED
      BY <2>2, <3>2, <3>3, PairBehind
  <2>6. QED
    BY <2>4, <2>5
<1>2. QED
  BY <1>1, PairHolds, PTL

-----------------------------------------------------------------------------
(***************************************************************************)
(* XPaths that name no element twice: the log tells what the record holds. *)
(***************************************************************************)
LEMMA VisitNext ==
  ASSUME MetadataAssumption, NamedOnce, BaseInv, VisitInv, [Next]_vars
  PROVE  VisitInv'
<1>1. /\ \A id \in todo : xpath > 1 /\ Kind(id) \in XPaths[xpath - 1]
      /\ \A r \in 1 .. Len(rows) :
           /\ rows[r].id \notin todo
           /\ \E x \in 1 .. xpath - 1 : Kind(rows[r].id) \in XPaths[x]
      /\ \A r, q \in 1 .. Len(rows) : rows[r].id = rows[q].id => r = q
  BY DEF VisitInv
<1>2. xpath \in 1 .. Len(XPaths) + 1 /\ Len(XPaths) \in Nat
  BY DEF BaseInv, CallInv, MetadataAssumption
<1>3. CASE EvaluateXPath
  <2>1. /\ todo' = {id \in Ids(record) : Kind(id) \in XPaths[xpath]}
        /\ xpath' = xpath + 1 /\ xpath <= Len(XPaths) /\ rows' = rows
    BY <1>3 DEF EvaluateXPath
  <2>2. xpath' > 1 /\ xpath' - 1 = xpath /\ xpath \in 1 .. xpath' - 1
    BY <1>2, <2>1
  <2>3. \A id \in todo' : xpath' > 1 /\ Kind(id) \in XPaths[xpath' - 1]
    BY <2>1, <2>2
  <2>4. ASSUME NEW r \in 1 .. Len(rows)
        PROVE  /\ rows[r].id \notin todo'
               /\ \E x \in 1 .. xpath' - 1 : Kind(rows[r].id) \in XPaths[x]
    <3>1. PICK x \in 1 .. xpath - 1 : Kind(rows[r].id) \in XPaths[x]
      BY <1>1
    <3>2. x \in 1 .. Len(XPaths) /\ xpath \in 1 .. Len(XPaths) /\ x # xpath
      BY <1>2, <2>1
    <3>3. Kind(rows[r].id) \notin XPaths[xpath]
      BY <3>1, <3>2 DEF NamedOnce
    <3>4. x \in 1 .. xpath' - 1
      BY <1>2, <2>1
    <3>5. QED
      BY <2>1, <3>1, <3>3, <3>4
  <2>5. QED
    BY <1>1, <2>1, <2>3, <2>4 DEF VisitInv
<1>4. CASE SkipField
  <2>1. todo' \subseteq todo /\ xpath' = xpath /\ rows' = rows
    BY <1>4 DEF SkipField
  <2>2. QED
    BY <1>1, <2>1 DEF VisitInv
<1>5. CASE TranslateField
  <2>1. xpath' = xpath
    BY <1>5 DEF TranslateField
  <2>2. PICK id \in todo : id \in Ids(record) /\ todo' = todo \ {id} /\ Translated(id)
    BY <1>5, TranslateStep
  <2>3. PICK row \in Rows : Asked(id, row) /\ RowAdded(row)
    BY <2>2 DEF Translated
  <2> DEFINE n == Len(rows) + 1
  <2>4. /\ Len(rows') = n /\ rows'[n].id = id /\ Len(rows) \in Nat
        /\ \A q \in 1 .. Len(rows) : rows'[q].id = rows[q].id
    BY <2>3 DEF Asked, RowAdded
  <2>5. \A q \in 1 .. n : q \in 1 .. Len(rows) \/ q = n
    BY <2>4
  <2>6. xpath - 1 \in 1 .. xpath - 1 /\ Kind(id) \in XPaths[xpath - 1]
    BY <1>1, <1>2, <2>2
  <2>7. \A q \in 1 .. Len(rows) : rows[q].id # id
    BY <1>1, <2>2
  <2> HIDE DEF n
  <2>8. \A r \in 1 .. n :
          /\ rows'[r].id \notin todo'
          /\ \E x \in 1 .. xpath - 1 : Kind(rows'[r].id) \in XPaths[x]
    <3>1. SUFFICES ASSUME NEW r \in 1 .. n
                   PROVE  /\ rows'[r].id \notin todo'
                          /\ \E x \in 1 .. xpath - 1 : Kind(rows'[r].id) \in XPaths[x]
      OBVIOUS
    <3>2. CASE r = n
      BY <2>2, <2>4, <2>6, <3>2
    <3>3. CASE r \in 1 .. Len(rows)
      BY <1>1, <2>2, <2>4, <3>3
    <3>4. QED
      BY <2>5, <3>2, <3>3
  <2>9. \A r, q \in 1 .. n : rows'[r].id = rows'[q].id => r = q
    BY <1>1, <2>4, <2>5, <2>7
  <2>10. \A x \in todo' : xpath > 1 /\ Kind(x) \in XPaths[xpath - 1]
    BY <1>1, <2>2
  <2>11. QED
    BY <2>1, <2>4, <2>8, <2>9, <2>10 DEF VisitInv
<1>6. ASSUME UNCHANGED <<todo, xpath>>, Len(rows') = Len(rows),
             \A q \in 1 .. Len(rows) : rows'[q].id = rows[q].id
      PROVE  VisitInv'
  BY <1>1, <1>6 DEF VisitInv
<1>7. CASE RetryField
  <2>1. UNCHANGED <<todo, xpath>>
    BY <1>7 DEF RetryField
  <2>2. PICK r \in retry : rows' = rows \/ RowChanged(r, TextOfRow(r), "rerun")
    BY <1>7, RetryStep
  <2>3. Len(rows') = Len(rows) /\ \A q \in 1 .. Len(rows) : rows'[q].id = rows[q].id
    BY <2>2 DEF RowChanged
  <2>4. QED
    BY <1>6, <2>1, <2>3
<1>8. CASE GiveUpField
  <2>1. UNCHANGED <<todo, xpath>>
    BY <1>8 DEF GiveUpField
  <2>2. PICK r \in StillFlagged : RowChanged(r, rows[r].target, "untranslated")
    BY <1>8, GiveUpStep
  <2>3. Len(rows') = Len(rows) /\ \A q \in 1 .. Len(rows) : rows'[q].id = rows[q].id
    BY <2>2 DEF RowChanged
  <2>4. QED
    BY <1>6, <2>1, <2>3
<1>9. CASE ProcessAgain
  <2>1. todo' = {} /\ rows' = <<>>
    BY <1>9 DEF ProcessAgain
  <2>2. \A r \in 1 .. Len(rows') : FALSE
    BY <2>1
  <2>3. QED
    BY <2>1, <2>2 DEF VisitInv
<1>10. CASE EndVisit \/ StartRound \/ EndRound \/ EndRerun \/ WriteOutputs \/ Fails
            \/ UNCHANGED vars
  <2>1. UNCHANGED <<todo, xpath, rows>>
    BY <1>10 DEF EndVisit, StartRound, EndRound, EndRerun, WriteOutputs, Fails, vars
  <2>2. QED
    BY <1>6, <2>1
<1>11. QED
  BY <1>3, <1>4, <1>5, <1>7, <1>8, <1>9, <1>10 DEF Next, Step

\* The mode, the pass and the language do not change within a processing.
LEMMA ShownInNext ==
  ASSUME UNCHANGED <<opt, pass, target>>, NEW x, NEW t
  PROVE  /\ ShownIn(record', x, t) => ShownIn(record, x, t)'
         /\ UntouchedIn(record', x, t) => UntouchedIn(record, x, t)'
  BY DEF ShownIn, UntouchedIn, AppendedIn

\* What is told of a row stays told while other rows are written.
LEMMA ToldKept ==
  ASSUME MetadataAssumption, BaseInv, UNCHANGED <<opt, pass, target>>,
         NEW q \in 1 .. Len(rows), Told(record, q),
         rows'[q] = rows[q], q \in flagged' <=> q \in flagged,
         \/ record' = record
         \/ \E id, text : Wrote(record, record', id, text) /\ id # rows[q].id
  PROVE  Told(record, q)'
<1>1. /\ CallInv /\ Record(record, pass) /\ RightBehind(record)
      /\ rows[q].id \in Ids(record)
  BY DEF BaseInv, FileInv, QueueInv
<1> DEFINE x == rows[q].id
<1>2. /\ ShownIn(record, x, rows[q].target) => ShownIn(record', x, rows[q].target)
      /\ UntouchedIn(record, x, rows[q].asked) => UntouchedIn(record', x, rows[q].asked)
  BY <1>1, WroteOthers
<1>3. ASSUME NEW y, NEW a, NEW t, y = rows[q].id, a = rows[q].asked, t = rows[q].target
      PROVE  Told(record, q)'
  <2>1. /\ ShownIn(record, y, t) => ShownIn(record, y, t)'
        /\ UntouchedIn(record, y, a) => UntouchedIn(record, y, a)'
    BY <1>2, <1>3, ShownInNext
  <2>2. rows'[q].id = y /\ rows'[q].asked = a /\ rows'[q].target = t
    BY <1>3
  <2>3. QED
    BY <1>3, <2>1, <2>2 DEF Told
<1>4. QED
  BY <1>3

\* Every step keeps the rows telling what the record shows.
LEMMA TellNext ==
  ASSUME MetadataAssumption, BaseInv, BaseInv', VisitInv, TellInv, [Next]_vars
  PROVE  TellInv'
<1>1. /\ CallInv /\ Record(record, pass) /\ RightBehind(record)
      /\ pass \in Nat \ {0} /\ Len(rows) \in Nat /\ flagged \subseteq 1 .. Len(rows)
  BY LenProperties DEF BaseInv, CallInv, FileInv, QueueInv
<1>2. \A r : TextOfRow(r) # NoText
  BY <1>1 DEF TextOfRow, NoText
<1>3. ASSUME UNCHANGED <<opt, pass, target, rows, flagged, record>>
      PROVE  TellInv'
  BY <1>3, ToldKept DEF TellInv
<1>4. CASE TranslateField
  <2>1. UNCHANGED <<opt, pass, target>>
    BY <1>4 DEF TranslateField, callVars
  <2>2. PICK id \in todo :
          /\ id \in Ids(record) /\ ~(opt.append /\ AlreadyAppended(id)) /\ Translated(id)
    BY <1>4, TranslateStep
  <2> DEFINE n == Len(rows) + 1
  <2>3. PICK row \in Rows :
          /\ Asked(id, row) /\ RowAdded(row)
          /\ \/ /\ row.target = TextOfRow(n) /\ flagged' = flagged
                /\ Wrote(record, record', id, TextOfRow(n))
             \/ /\ row.target = NoText /\ flagged' = flagged \cup {n}
                /\ record' = record
    BY <2>2 DEF Translated
  <2>4. /\ Len(rows') = n /\ rows'[n] = row /\ row.id = id /\ row.status = "ok"
        /\ \A q \in 1 .. Len(rows) : rows'[q] = rows[q]
    BY <2>3 DEF Asked, RowAdded
  <2>5. n \notin flagged /\ \A q \in 1 .. n : q \in 1 .. Len(rows) \/ q = n
    BY <1>1
  <2>6. UntouchedIn(record, id, row.asked)
    <3>1. /\ Position(id) \in 1 .. Len(record)
          /\ \A k \in 1 .. Len(record) : record[k].id = id => k = Position(id)
      BY <1>1, <2>2, PositionFound
    <3>2. opt.append => ~AppendedIn(record, Position(id))
      BY <1>1, <2>2, AlreadyAppendedIn
    <3>3. row.asked = record[Position(id)].text
      BY <2>3 DEF Asked
    <3>4. QED
      BY <3>1, <3>2, <3>3 DEF UntouchedIn
  <2>7. ASSUME NEW q \in 1 .. Len(rows)
        PROVE  Told(record, q)'
    <3>1. Told(record, q) /\ rows[q].id # id
      BY <2>2 DEF TellInv, VisitInv
    <3>2. q # n
      BY <1>1
    <3>3. q \in flagged' <=> q \in flagged
      BY <2>3, <3>2
    <3>4. \/ record' = record
          \/ \E y, text : Wrote(record, record', y, text) /\ y # rows[q].id
      BY <2>3, <3>1
    <3>5. QED
      BY <2>1, <2>4, <3>1, <3>3, <3>4, ToldKept
  <2>8. ASSUME NEW m, m = n
        PROVE  Told(record, m)'
    <3>1. CASE /\ row.target = TextOfRow(n) /\ flagged' = flagged
               /\ Wrote(record, record', id, TextOfRow(n))
      <4>1. ShownIn(record', id, TextOfRow(n))
        BY <1>1, <2>6, <3>1, WroteShows
      <4>2. ASSUME NEW t, t = TextOfRow(n)
            PROVE  ShownIn(record, id, t)'
        BY <2>1, <4>1, <4>2, ShownInNext
      <4>3. TextOfRow(n) # NoText /\ n \notin flagged'
        BY <1>2, <2>5, <3>1
      <4> HIDE DEF n
      <4>4. /\ rows'[n].target # NoText /\ rows'[n].status = "ok" /\ n \notin flagged'
            /\ rows'[n].id = id /\ rows'[n].target = TextOfRow(n)
        BY <2>4, <3>1, <4>3
      <4>5. ASSUME NEW t, t = TextOfRow(n)
            PROVE  Told(record, m)'
        BY <2>8, <4>2, <4>4, <4>5 DEF Told, NoText
      <4>6. QED
        BY <4>5
    <3>2. CASE /\ row.target = NoText /\ flagged' = flagged \cup {n}
               /\ record' = record
      <4>1. UntouchedIn(record, id, row.asked)'
        BY <2>1, <2>6, <3>2, ShownInNext
      <4> HIDE DEF n
      <4>2. n \in flagged' /\ rows'[n] = row
        BY <2>4, <3>2
      <4>3. QED
        BY <2>4, <2>8, <3>2, <4>1, <4>2 DEF Told, NoText
    <3>3. QED
      BY <2>3, <3>1, <3>2
  <2>9. QED
    BY <2>4, <2>5, <2>7, <2>8 DEF TellInv
<1>5. CASE RetryField
  <2>1. UNCHANGED <<opt, pass, target, flagged>>
    BY <1>5 DEF RetryField, callVars
  <2>2. PICK r \in retry :
          /\ r \in 1 .. Len(rows) /\ r \in flagged
          /\ rows[r].status = "ok" /\ rows[r].id \in Ids(record)
          /\ \/ UNCHANGED <<rows, record>>
             \/ /\ RowChanged(r, TextOfRow(r), "rerun")
                /\ Wrote(record, record', rows[r].id, TextOfRow(r))
    BY <1>5, RetryStep
  <2>3. CASE UNCHANGED <<rows, record>>
    BY <1>3, <2>1, <2>3
  <2>4. CASE /\ RowChanged(r, TextOfRow(r), "rerun")
             /\ Wrote(record, record', rows[r].id, TextOfRow(r))
    <3>1. /\ Len(rows') = Len(rows) /\ rows'[r].id = rows[r].id
          /\ rows'[r].target = TextOfRow(r) /\ rows'[r].status = "rerun"
          /\ \A q \in 1 .. Len(rows) : q # r => rows'[q] = rows[q]
      BY <2>4 DEF RowChanged
    <3>2. UntouchedIn(record, rows[r].id, rows[r].asked)
      BY <2>2 DEF TellInv, Told
    <3>3. ShownIn(record', rows[r].id, TextOfRow(r))
      BY <1>1, <2>4, <3>2, WroteShows
    <3>4. ASSUME NEW x, NEW t, x = rows[r].id, t = TextOfRow(r)
          PROVE  Told(record, r)'
      <4>1. rows'[r].target # NoText
        BY <1>2, <3>1
      <4>2. ShownIn(record, x, t)'
        BY <2>1, <3>3, <3>4, ShownInNext
      <4>3. rows'[r].id = x /\ rows'[r].target = t
        BY <3>1, <3>4
      <4>4. QED
        BY <3>1, <4>1, <4>2, <4>3 DEF Told, NoText
    <3>5. Told(record, r)'
      BY <3>4
    <3>6. ASSUME NEW q \in 1 .. Len(rows), q # r
          PROVE  Told(record, q)'
      <4>1. Told(record, q) /\ rows[q].id # rows[r].id
        BY <2>2, <3>6 DEF TellInv, VisitInv
      <4>2. QED
        BY <2>1, <2>4, <3>1, <3>6, <4>1, ToldKept
    <3>7. QED
      BY <3>1, <3>5, <3>6 DEF TellInv
  <2>5. QED
    BY <2>2, <2>3, <2>4
<1>6. CASE GiveUpField
  <2>1. UNCHANGED <<opt, pass, target, flagged, record>>
    BY <1>6 DEF GiveUpField, callVars
  <2>2. PICK r \in StillFlagged : RowChanged(r, rows[r].target, "untranslated")
    BY <1>6, GiveUpStep
  <2>3. /\ Len(rows') = Len(rows) /\ r \in 1 .. Len(rows)
        /\ rows'[r].id = rows[r].id /\ rows'[r].asked = rows[r].asked
        /\ rows'[r].target = rows[r].target /\ rows'[r].status = "untranslated"
        /\ \A q \in 1 .. Len(rows) : q # r => rows'[q] = rows[q]
    BY <2>2 DEF RowChanged
  <2>4. r \in flagged /\ rows[r].status = "ok"
    BY <2>2 DEF StillFlagged
  <2>5. rows[r].target = NoText /\ UntouchedIn(record, rows[r].id, rows[r].asked)
    BY <2>3, <2>4 DEF TellInv, Told
  <2>6. Told(record, r)'
    <3>1. UntouchedIn(record, rows[r].id, rows[r].asked)'
      BY <2>1, <2>3, <2>5 DEF UntouchedIn, AppendedIn
    <3>2. QED
      BY <2>1, <2>3, <2>4, <2>5, <3>1 DEF Told, NoText
  <2>7. ASSUME NEW q \in 1 .. Len(rows), q # r
        PROVE  Told(record, q)'
    BY <2>1, <2>3, <2>7, ToldKept DEF TellInv
  <2>8. QED
    BY <2>3, <2>6, <2>7 DEF TellInv
<1>7. CASE ProcessAgain
  <2>1. rows' = <<>>
    BY <1>7 DEF ProcessAgain
  <2>2. \A r \in 1 .. Len(rows') : FALSE
    BY <2>1
  <2>3. QED
    BY <2>2 DEF TellInv
<1>8. CASE EvaluateXPath \/ SkipField \/ EndVisit \/ StartRound \/ EndRound \/ EndRerun
           \/ WriteOutputs \/ Fails \/ UNCHANGED vars
  <2>1. UNCHANGED <<opt, pass, target, rows, flagged, record>>
    BY <1>8 DEF EvaluateXPath, SkipField, EndVisit, StartRound, EndRound, EndRerun,
                WriteOutputs, Fails, vars, callVars
  <2>2. QED
    BY <1>3, <2>1
<1>9. QED
  BY <1>4, <1>5, <1>6, <1>7, <1>8 DEF Next, Step

\* Every step asks, in replace mode, for the source's text only.
LEMMA AskNext ==
  ASSUME MetadataAssumption, BaseInv, BaseInv', VisitInv, AskInv, [Next]_vars
  PROVE  AskInv'
<1> SUFFICES ASSUME ~opt'.append
             PROVE  /\ phase' # "done" => \A i \in 1 .. Len(file') : file'[i].text = Source
                    /\ \A i \in 1 .. Len(record') : record'[i].text # Source =>
                         \E r \in 1 .. Len(rows') : rows'[r].id = record'[i].id
                    /\ \A r \in 1 .. Len(rows') : rows'[r].asked = Source
  BY DEF AskInv
<1>1. opt' = opt
  BY DEF Next, Step, EvaluateXPath, SkipField, TranslateField, EndVisit, StartRound, RetryField,
         EndRound, GiveUpField, EndRerun, WriteOutputs, Fails, ProcessAgain, vars, callVars
<1>2. /\ ~opt.append
      /\ phase # "done" => \A i \in 1 .. Len(file) : file[i].text = Source
      /\ \A i \in 1 .. Len(record) :
           record[i].text # Source => \E r \in 1 .. Len(rows) : rows[r].id = record[i].id
      /\ \A r \in 1 .. Len(rows) : rows[r].asked = Source
  BY <1>1 DEF AskInv
<1>3. CallInv /\ Record(record, pass) /\ RightBehind(record) /\ Len(rows) \in Nat
  BY LenProperties DEF BaseInv, FileInv, QueueInv
<1>4. ASSUME NEW id, NEW text, Wrote(record, record', id, text)
      PROVE  /\ Len(record') = Len(record)
             /\ \A i \in 1 .. Len(record) :
                  /\ record'[i].id = record[i].id
                  /\ record[i].id # id => record'[i].text = record[i].text
  <2>1. PICK i \in 1 .. Len(record) : record[i].id = id /\ Replaced(record, record', i, text)
    BY <1>2, <1>4 DEF Wrote
  <2>2. QED
    BY <2>1 DEF Replaced
<1>5. CASE TranslateField
  <2>1. phase' = phase /\ file' = file /\ phase = "visit"
    BY <1>5 DEF TranslateField, diskVars
  <2>2. PICK id \in todo : id \in Ids(record) /\ Translated(id)
    BY <1>5, TranslateStep
  <2> DEFINE n == Len(rows) + 1
  <2>3. PICK row \in Rows :
          /\ Asked(id, row) /\ RowAdded(row)
          /\ record' = record \/ Wrote(record, record', id, TextOfRow(n))
    BY <2>2 DEF Translated
  <2>4. /\ Len(rows') = n /\ rows'[n] = row /\ row.id = id
        /\ row.asked = record[Position(id)].text
        /\ \A q \in 1 .. Len(rows) : rows'[q] = rows[q]
    BY <2>3 DEF Asked, RowAdded
  <2>5. n \in 1 .. n /\ \A q \in 1 .. n : q \in 1 .. Len(rows) \/ q = n
    BY <1>3
  <2>6. \A q \in 1 .. Len(rows) : q \in 1 .. n
    BY <1>3
  <2>7. row.asked = Source
    <3>1. Position(id) \in 1 .. Len(record) /\ record[Position(id)].id = id
      BY <1>3, <2>2, PositionFound
    <3>2. \A q \in 1 .. Len(rows) : rows[q].id # id
      BY <2>2 DEF VisitInv
    <3>3. QED
      BY <1>2, <2>4, <3>1, <3>2
  <2> HIDE DEF n
  <2>8. ASSUME NEW i \in 1 .. Len(record'), record'[i].text # Source
        PROVE  \E r \in 1 .. Len(rows') : rows'[r].id = record'[i].id
    <3>1. i \in 1 .. Len(record) /\ record'[i].id = record[i].id
      BY <1>4, <2>3
    <3>2. CASE record[i].id = id
      BY <2>4, <2>5, <3>1, <3>2
    <3>3. CASE record[i].id # id
      <4>1. record[i].text # Source
        BY <1>4, <2>3, <2>8, <3>1, <3>3
      <4>2. PICK r \in 1 .. Len(rows) : rows[r].id = record[i].id
        BY <1>2, <3>1, <4>1
      <4>3. QED
        BY <2>4, <2>6, <3>1, <4>2
    <3>4. QED
      BY <3>2, <3>3
  <2>9. \A r \in 1 .. Len(rows') : rows'[r].asked = Source
    BY <1>2, <2>4, <2>5, <2>7
  <2>10. QED
    BY <1>2, <2>1, <2>8, <2>9
<1>6. ASSUME file' = file, phase # "done" \/ phase' = "done", Len(rows') = Len(rows),
             \A q \in 1 .. Len(rows) : rows'[q].id = rows[q].id /\ rows'[q].asked = rows[q].asked,
             \/ record' = record
             \/ \E r \in 1 .. Len(rows) : \E text : Wrote(record, record', rows[r].id, text)
      PROVE  /\ phase' # "done" => \A i \in 1 .. Len(file') : file'[i].text = Source
             /\ \A i \in 1 .. Len(record') : record'[i].text # Source =>
                  \E r \in 1 .. Len(rows') : rows'[r].id = record'[i].id
             /\ \A r \in 1 .. Len(rows') : rows'[r].asked = Source
  <2>1. ASSUME NEW i \in 1 .. Len(record'), record'[i].text # Source
        PROVE  \E r \in 1 .. Len(rows') : rows'[r].id = record'[i].id
    <3>1. i \in 1 .. Len(record) /\ record'[i].id = record[i].id
      BY <1>4, <1>6
    <3>2. \E r \in 1 .. Len(rows) : rows[r].id = record[i].id
      <4>1. CASE record'[i].text = record[i].text
        BY <1>2, <2>1, <3>1, <4>1
      <4>2. CASE record'[i].text # record[i].text
        <5>1. PICK r \in 1 .. Len(rows) : \E text : Wrote(record, record', rows[r].id, text)
          BY <1>6, <4>2
        <5>2. record[i].id = rows[r].id
          BY <1>4, <3>1, <4>2, <5>1
        <5>3. QED
          BY <5>2
      <4>3. QED
        BY <4>1, <4>2
    <3>3. QED
      BY <1>6, <3>1, <3>2
  <2>2. QED
    BY <1>2, <1>6, <2>1
<1>7. CASE RetryField
  <2>1. file' = file /\ phase' = phase /\ phase = "round"
    BY <1>7 DEF RetryField, diskVars
  <2>2. PICK r \in retry :
          /\ r \in 1 .. Len(rows)
          /\ \/ UNCHANGED <<rows, record>>
             \/ /\ RowChanged(r, TextOfRow(r), "rerun")
                /\ Wrote(record, record', rows[r].id, TextOfRow(r))
    BY <1>7, RetryStep
  <2>3. /\ Len(rows') = Len(rows)
        /\ \A q \in 1 .. Len(rows) : rows'[q].id = rows[q].id /\ rows'[q].asked = rows[q].asked
    BY <2>2 DEF RowChanged
  <2>4. QED
    BY <1>6, <2>1, <2>2, <2>3
<1>8. CASE GiveUpField
  <2>1. file' = file /\ phase' = phase /\ phase = "rerun" /\ record' = record
    BY <1>8 DEF GiveUpField, diskVars
  <2>2. PICK r \in StillFlagged : RowChanged(r, rows[r].target, "untranslated")
    BY <1>8, GiveUpStep
  <2>3. /\ Len(rows') = Len(rows)
        /\ \A q \in 1 .. Len(rows) : rows'[q].id = rows[q].id /\ rows'[q].asked = rows[q].asked
    BY <2>2 DEF RowChanged
  <2>4. QED
    BY <1>6, <2>1, <2>3
<1>9. CASE WriteOutputs
  <2>1. phase' = "done" /\ UNCHANGED <<record, rows>>
    BY <1>9 DEF WriteOutputs
  <2>2. QED
    BY <1>2, <2>1
<1>10. CASE ProcessAgain
  <2>1. record' = file /\ file' = file /\ rows' = <<>> /\ phase = "failed"
    BY <1>2, <1>10 DEF ProcessAgain, diskVars
  <2>2. \A i \in 1 .. Len(file) : file[i].text = Source
    BY <1>2, <2>1
  <2>3. \A r \in 1 .. Len(rows') : FALSE
    BY <2>1
  <2>4. QED
    BY <2>1, <2>2, <2>3
<1>11. CASE EvaluateXPath \/ SkipField \/ EndVisit \/ StartRound \/ EndRound \/ EndRerun
            \/ Fails \/ UNCHANGED vars
  <2>1. UNCHANGED <<file, rows, record>>
    BY <1>11 DEF EvaluateXPath, SkipField, EndVisit, StartRound, EndRound, EndRerun, Fails,
                 vars, diskVars
  <2>2. phase # "done" \/ phase' = "done"
    BY <1>11 DEF EvaluateXPath, SkipField, EndVisit, StartRound, EndRound, EndRerun, Fails, vars
  <2>3. QED
    BY <1>6, <2>1, <2>2
<1>12. QED
  BY <1>5, <1>7, <1>8, <1>9, <1>10, <1>11 DEF Next, Step

\* Where no element is named twice each has one row, which tells what the record shows,
\* flagged and re-run fields included (process_metadata_xml).
THEOREM OnceHolds ==
  ASSUME NamedOnce
  PROVE  Spec => [](BaseInv /\ OnceInv)
<1>1. Init => BaseInv /\ OnceInv
  <2>1. SUFFICES ASSUME Init
                 PROVE  OnceInv
    BY BaseInit, MetadataAssumption
  <2>2. /\ rows = <<>> /\ todo = {} /\ record = Original /\ file = Original
        /\ \A r \in 1 .. Len(rows) : FALSE
    BY <2>1 DEF Init
  <2>3. VisitInv /\ TellInv
    BY <2>2 DEF VisitInv, TellInv
  <2>4. \A i \in 1 .. Len(Original) : Original[i].text = Source
    BY OriginalRecord, MetadataAssumption
  <2>5. AskInv
    BY <2>2, <2>4 DEF AskInv
  <2>6. QED
    BY <2>3, <2>5 DEF OnceInv
<1>2. BaseInv /\ BaseInv' /\ OnceInv /\ [Next]_vars => OnceInv'
  <2>1. SUFFICES ASSUME BaseInv, BaseInv', OnceInv, [Next]_vars
                 PROVE  OnceInv'
    OBVIOUS
  <2>2. VisitInv' /\ TellInv' /\ AskInv'
    BY <2>1, VisitNext, TellNext, AskNext, NamedOnce, MetadataAssumption DEF OnceInv
  <2>3. QED
    BY <2>2 DEF OnceInv
<1>3. QED
  BY <1>1, <1>2, BaseHolds, PTL DEF Spec

\* Where no two XPaths name the same element the CSV log tells what the record holds:
\* a row with a translation shows the text in the written record, re-run rows included,
\* a row marked untranslated kept its source, and the note counts exactly those.
THEOREM LogCorrect ==
  ASSUME NamedOnce
  PROVE  Spec => []LogTellsTheRecord
<1>1. BaseInv /\ OnceInv => LogTellsTheRecord
  <2>1. SUFFICES ASSUME BaseInv, OnceInv, phase = "done"
                 PROVE  /\ \A r \in DOMAIN log :
                             IF log[r].status = "untranslated"
                               THEN /\ log[r].target = NoText
                                    /\ Shown(r) = IF opt.append THEN NoText ELSE log[r].asked
                               ELSE log[r].target # NoText /\ Shown(r) = log[r].target
                        /\ notes = Cardinality({r \in DOMAIN log : log[r].status = "untranslated"})
    BY DEF LogTellsTheRecord
  <2>2. /\ CallInv /\ Record(record, pass) /\ RightBehind(record)
        /\ file = record /\ log = [r \in DOMAIN rows |-> LogRow(rows[r])]
        /\ StillFlagged = {} /\ notes = Cardinality(Untranslated)
        /\ rows \in [1 .. Len(rows) -> Rows]
    BY <2>1, LenProperties DEF BaseInv, FileInv, QueueInv
  <2>3. /\ DOMAIN log = 1 .. Len(rows) /\ DOMAIN rows = 1 .. Len(rows)
        /\ DOMAIN file = 1 .. Len(file) /\ Len(file) \in Nat
    BY <2>2, LenProperties DEF Record
  <2>4. \A r \in 1 .. Len(rows) :
          /\ log[r].id = rows[r].id /\ log[r].asked = rows[r].asked
          /\ log[r].target = rows[r].target
          /\ log[r].status = "untranslated" <=> rows[r].status = "untranslated"
    BY <2>2, <2>3 DEF LogRow, Rows
  <2>5. ASSUME NEW r \in 1 .. Len(rows)
        PROVE  IF log[r].status = "untranslated"
                 THEN /\ log[r].target = NoText
                      /\ Shown(r) = IF opt.append THEN NoText ELSE log[r].asked
                 ELSE log[r].target # NoText /\ Shown(r) = log[r].target
    <3> DEFINE i == CHOOSE k \in DOMAIN file : file[k].id = log[r].id
    <3>1. \E k \in DOMAIN file : file[k].id = log[r].id
      BY <2>1, <2>2, <2>4 DEF BaseInv, QueueInv, Ids
    <3>2. i \in 1 .. Len(file) /\ file[i].id = log[r].id
      BY <2>3, <3>1, Zenon
    <3>3. Shown(r) = IF opt.append
                       THEN IF i < Len(file) /\ file[i + 1].id = Append(log[r].id, pass)
                              THEN file[i + 1].text ELSE NoText
                       ELSE file[i].text
      BY DEF Shown
    <3> HIDE DEF i
    <3>4. Told(record, r) /\ file[i].id = rows[r].id
      BY <2>1, <2>4, <3>2 DEF OnceInv, TellInv
    <3>5. CASE rows[r].target = NoText
      <4>1. r \in flagged /\ rows[r].status \in {"ok", "untranslated"}
            /\ UntouchedIn(record, rows[r].id, rows[r].asked)
        BY <3>4, <3>5 DEF Told
      <4>2. rows[r].status = "untranslated"
        BY <2>2, <4>1 DEF StillFlagged
      <4>3. IF opt.append THEN ~AppendedIn(file, i) ELSE file[i].text = rows[r].asked
        BY <2>2, <3>2, <3>4, <4>1 DEF UntouchedIn
      <4>4. opt.append => ~(i < Len(file) /\ file[i + 1].id = Append(log[r].id, pass))
        <5>1. SUFFICES ASSUME opt.append, i < Len(file), file[i + 1].id = Append(log[r].id, pass)
                       PROVE  FALSE
          OBVIOUS
        <5>2. i + 1 \in 1 .. Len(file)
          BY <2>3, <3>2, <5>1
        <5>3. file[i + 1].id # Append(file[i].id, pass)
          BY <2>2, <3>2, <4>3, <5>1, <5>2, NoSiblingYet
        <5>4. QED
          BY <3>2, <5>1, <5>3
      <4>5. QED
        BY <2>4, <3>3, <3>5, <4>2, <4>3, <4>4
    <3>6. CASE rows[r].target # NoText
      <4>1. rows[r].status # "untranslated" /\ ShownIn(record, rows[r].id, rows[r].target)
        BY <3>4, <3>6 DEF Told
      <4>2. IF opt.append
              THEN i < Len(file) /\ file[i + 1].id = Append(rows[r].id, pass)
                   /\ file[i + 1].text = rows[r].target
              ELSE file[i].text = rows[r].target
        BY <2>2, <3>2, <3>4, <4>1 DEF ShownIn
      <4>3. QED
        BY <2>4, <3>3, <3>6, <4>1, <4>2
    <3>7. QED
      BY <3>5, <3>6
  <2>6. {r \in DOMAIN log : log[r].status = "untranslated"} = Untranslated
    BY <2>3, <2>4 DEF Untranslated
  <2>7. QED
    BY <2>2, <2>3, <2>5, <2>6
<1>2. QED
  BY <1>1, OnceHolds, PTL

\* With one target language and no element named by two XPaths every text sent to the
\* backend is the source's own: no request, in this pass or after earlier ones, over a
\* replaced text or a sibling, translates a translation.
THEOREM TranslatedOnceCorrect ==
  ASSUME OneTarget, NamedOnce
  PROVE  Spec => []NothingTranslatedTwice
<1>1. BaseInv /\ PairInv /\ OnceInv => NothingTranslatedTwice
  <2>1. SUFFICES ASSUME BaseInv, PairInv, OnceInv
                 PROVE  \A r \in 1 .. Len(rows) : rows[r].asked = Source
    BY LenProperties DEF BaseInv, QueueInv, NothingTranslatedTwice
  <2>2. QED
    BY <2>1 DEF PairInv, OnceInv, AskInv
<1>2. QED
  BY <1>1, PairHolds, OnceHolds, PTL

-----------------------------------------------------------------------------
(***************************************************************************)
(* The ledger: a field the loop has passed has a row or carries an earlier *)
(* translation, and what a field shows is told by its row.                 *)
(***************************************************************************)
\* Every field of the source is in the record; what was inserted is a sibling that
\* shows a text of the pass it is named by, and only append inserts.
Placed(s) ==
  /\ \A f \in Fields : <<f>> \in Ids(s)
  /\ \A i \in 1 .. Len(s) : s[i].id[1] \in Fields
  /\ \A i \in 1 .. Len(s) :
       Inserted(s[i].id) => opt.append /\ s[i].text.pass = InsertedIn(s[i].id)

HasText(f) == \E r \in RowsOf(f) : rows[r].target # NoText

Carried(f) == opt.append /\ TextOf(file, f) > 0

\* A field the loop has passed has a row or a translation of an earlier pass; what a
\* field shows is what it showed in the file, unless its row has a text.
CarryInv ==
  /\ Placed(record) /\ Placed(file)
  /\ \A r \in 1 .. Len(rows) : rows[r].target = NoText \/ rows[r].target.pass = pass
  /\ phase # "done" =>
       /\ \A f \in Fields : TextOf(record, f) = TextOf(file, f) \/ HasText(f)
       /\ \A f \in Fields : \A x \in 1 .. xpath - 1 :
            KindOf[f] \in XPaths[x] => <<f>> \in todo \/ RowsOf(f) # {} \/ Carried(f)
  /\ phase \in {"rerun", "round", "close"} => todo = {} /\ xpath = Len(XPaths) + 1

\* The fate of a field, without a look at the record.
FateBy(f) ==
  IF RowsOf(f) = {} THEN IF <<f>> \in todo /\ ~Carried(f) THEN "open" ELSE "out"
  ELSE IF HasText(f) THEN "translated"
  ELSE IF \E r \in RowsOf(f) : rows[r].status = "untranslated" THEN "kept" ELSE "open"

-----------------------------------------------------------------------------
(***************************************************************************)
(* What a field shows.                                                     *)
(***************************************************************************)

\* A field stands at one place of the record, and shows its own text, or that beside it.
LEMMA TextAt ==
  ASSUME NEW s, NEW p, Record(s, p), NEW f, NEW i \in 1 .. Len(s), s[i].id = <<f>>
  PROVE  TextOf(s, f) = IF opt.append
                          THEN IF i < Len(s) /\ Len(s[i + 1].id) > 1 THEN s[i + 1].text.pass ELSE 0
                          ELSE s[i].text.pass
<1>1. DOMAIN s = 1 .. Len(s)
  BY LenProperties DEF Record
<1> DEFINE k == CHOOSE k \in DOMAIN s : s[k].id = <<f>>
<1>2. k \in DOMAIN s /\ s[k].id = <<f>>
  BY <1>1
<1>3. k = i
  BY <1>1, <1>2 DEF Record
<1> HIDE DEF k
<1>4. TextOf(s, f) = IF opt.append
                       THEN IF k < Len(s) /\ Len(s[k + 1].id) > 1 THEN s[k + 1].text.pass ELSE 0
                       ELSE s[k].text.pass
  BY DEF TextOf, k
<1>5. QED
  BY <1>3, <1>4

\* Every field stands somewhere.
LEMMA FieldAt ==
  ASSUME NEW s, NEW p, Record(s, p), Placed(s), NEW f \in Fields
  PROVE  \E i \in 1 .. Len(s) : s[i].id = <<f>>
<1>1. DOMAIN s = 1 .. Len(s)
  BY LenProperties DEF Record
<1>2. QED
  BY <1>1 DEF Placed, Ids

\* With one target language the guard of append sees exactly the translations that are
\* shown.
LEMMA GuardSeesText ==
  ASSUME MetadataAssumption, OneTarget, CallInv, opt.append,
         NEW s, NEW p \in Nat, Record(s, p), Paired(s), Placed(s),
         NEW f \in Fields, NEW i \in 1 .. Len(s), s[i].id = <<f>>
  PROVE  IF AppendedIn(s, i) THEN TextOf(s, f) \in 1 .. p ELSE TextOf(s, f) = 0
<1>1. Len(s[i].id) = 1 /\ s[i].id[1] = f /\ Len(s) \in Nat /\ target \in Targets
  BY LenProperties DEF Record, CallInv
<1>2. s[i].label # target
  <2>1. Len(s[i].id) # 2
    BY <1>1
  <2>2. s[i].label \notin Targets
    BY <2>1 DEF Paired
  <2>3. QED
    BY <1>1, <2>2
<1>3. CASE i < Len(s) /\ Len(s[i + 1].id) > 1
  <2> DEFINE e == s[i + 1]
  <2>1. i + 1 \in 1 .. Len(s) /\ Inserted(e.id) /\ (i + 1) - 1 = i
    BY <1>1, <1>3 DEF Inserted
  <2>2. /\ Len(e.id) <= 2 /\ (Len(e.id) = 2 <=> e.label \in Targets)
        /\ e.id[1] = s[(i + 1) - 1].id[1]
    BY <2>1 DEF Paired
  <2>3. Len(e.id) \in Nat
    <3>1. e \in Elements
      BY <2>1, ElementOfSeq DEF Record
    <3>2. QED
      BY <3>1, LenProperties DEF Elements
  <2>4. Len(e.id) = 2
    <3>1. \A n \in Nat : n > 1 /\ n <= 2 => n = 2
      OBVIOUS
    <3>2. Len(e.id) > 1 /\ Len(e.id) <= 2
      BY <1>3, <2>2
    <3> HIDE DEF e
    <3>3. QED
      BY <2>3, <3>1, <3>2, Zenon
  <2>5. e.label = target
    BY <1>1, <2>2, <2>4 DEF OneTarget
  <2>6. Kind(e.id) = Kind(s[i].id)
    BY <2>1, <2>2 DEF Kind
  <2>7. AppendedIn(s, i)
    BY <1>3, <2>5, <2>6 DEF AppendedIn
  <2>8. e.text.pass = InsertedIn(e.id) /\ InsertedIn(e.id) \in 1 .. p
    BY <2>1 DEF Placed, Record
  <2>9. TextOf(s, f) = e.text.pass
    BY <1>3, TextAt
  <2>10. QED
    BY <2>7, <2>8, <2>9
<1>4. CASE ~(i < Len(s) /\ Len(s[i + 1].id) > 1)
  <2>1. ASSUME i < Len(s)
        PROVE  s[i + 1].label # target
    <3>1. i + 1 \in 1 .. Len(s)
      BY <1>1, <2>1
    <3>2. Len(s[i + 1].id) # 2
      BY <1>4, <2>1
    <3>3. s[i + 1].label \notin Targets
      BY <3>1, <3>2 DEF Paired
    <3>4. QED
      BY <1>1, <3>3
  <2>2. ~AppendedIn(s, i)
    BY <1>2, <2>1 DEF AppendedIn
  <2>3. TextOf(s, f) = 0
    BY <1>4, TextAt
  <2>4. QED
    BY <2>2, <2>3
<1>5. QED
  BY <1>3, <1>4

\* Writing a translation places it.
LEMMA WrotePlaced ==
  ASSUME MetadataAssumption, CallInv, NEW s, Record(s, pass), RightBehind(s), Placed(s),
         NEW w, NEW id, NEW text, Wrote(s, w, id, text), text.pass = pass
  PROVE  Placed(w)
<1>1. Ids(s) \subseteq Ids(w) /\ pass \in Nat
  BY WroteRecord DEF CallInv
<1>2. PICK i \in 1 .. Len(s) :
        /\ s[i].id = id
        /\ \/ ~opt.append /\ Replaced(s, w, i, text)
           \/ opt.append /\ AppendedIn(s, i) /\ w = s
           \/ opt.append /\ ~AppendedIn(s, i) /\ Widened(s, w, i, text)
  BY DEF Wrote
<1>3. CASE ~opt.append /\ Replaced(s, w, i, text)
  <2>1. Len(w) = Len(s) /\ \A k \in 1 .. Len(s) : w[k].id = s[k].id
    BY <1>3 DEF Replaced
  <2>2. QED
    BY <1>1, <1>3, <2>1 DEF Placed
<1>4. CASE opt.append /\ ~AppendedIn(s, i) /\ Widened(s, w, i, text)
  <2>1. /\ w[i + 1].id = Append(s[i].id, pass) /\ w[i + 1].text = text
        /\ w[i + 1].id[1] = s[i].id[1]
        /\ \A k \in 1 .. Len(w) : k # i + 1 =>
             LET j == IF k <= i THEN k ELSE k - 1
             IN /\ j \in 1 .. Len(s) /\ w[k].id = s[j].id /\ w[k].text = s[j].text
    <3>1. /\ w[i + 1].id = Append(s[i].id, pass) /\ w[i + 1].text = text
          /\ w[i + 1].id[1] = s[i].id[1]
      BY <1>4, WidenedFacts
    <3>2. ASSUME NEW k \in 1 .. Len(w), k # i + 1
          PROVE  LET j == IF k <= i THEN k ELSE k - 1
                 IN j \in 1 .. Len(s) /\ w[k].id = s[j].id /\ w[k].text = s[j].text
      BY <1>1, <1>4, <3>2, WidenedFrom
    <3>3. QED
      BY <3>1, <3>2
  <2>2. InsertedIn(Append(s[i].id, pass)) = pass
    <3>1. s[i].id \in Seq(Nat) /\ Len(s[i].id) >= 1
      <4>1. s[i] \in Elements
        BY ElementOfSeq DEF Record
      <4>2. QED
        BY <4>1 DEF Record, Elements
    <3>2. QED
      BY <1>1, <3>1, AppendPath
  <2>3. ASSUME NEW k \in 1 .. Len(w)
        PROVE  /\ w[k].id[1] \in Fields
               /\ Inserted(w[k].id) => w[k].text.pass = InsertedIn(w[k].id)
    <3>1. CASE k = i + 1
      BY <2>1, <2>2, <3>1 DEF Placed
    <3>2. CASE k # i + 1
      <4>1. PICK j \in 1 .. Len(s) : w[k].id = s[j].id /\ w[k].text = s[j].text
        BY <2>1, <3>2
      <4>2. QED
        BY <4>1 DEF Placed
    <3>3. QED
      BY <3>1, <3>2
  <2>4. QED
    BY <1>1, <1>4, <2>3 DEF Placed
<1>5. QED
  BY <1>2, <1>3, <1>4

\* Writing the translation of one element leaves what the others show.
LEMMA WroteOtherText ==
  ASSUME MetadataAssumption, CallInv, NEW s, Record(s, pass), RightBehind(s),
         NEW w, NEW id, NEW text, Wrote(s, w, id, text),
         NEW f, <<f>> \in Ids(s), <<f>> # id
  PROVE  TextOf(w, f) = TextOf(s, f)
<1>1. Record(w, pass) /\ Len(s) \in Nat /\ DOMAIN s = 1 .. Len(s)
  BY WroteRecord, LenProperties DEF Record
<1>2. PICK k \in 1 .. Len(s) : s[k].id = <<f>>
  BY <1>1 DEF Ids
<1>3. TextOf(s, f) = IF opt.append
                       THEN IF k < Len(s) /\ Len(s[k + 1].id) > 1 THEN s[k + 1].text.pass ELSE 0
                       ELSE s[k].text.pass
  BY <1>2, TextAt
<1>4. PICK i \in 1 .. Len(s) :
        /\ s[i].id = id
        /\ \/ ~opt.append /\ Replaced(s, w, i, text)
           \/ opt.append /\ AppendedIn(s, i) /\ w = s
           \/ opt.append /\ ~AppendedIn(s, i) /\ Widened(s, w, i, text)
  BY DEF Wrote
<1>5. i # k
  BY <1>2, <1>4
<1>6. CASE ~opt.append /\ Replaced(s, w, i, text)
  <2>1. Len(w) = Len(s) /\ w[k].id = s[k].id /\ w[k].text = s[k].text
    BY <1>5, <1>6 DEF Replaced
  <2>2. TextOf(w, f) = w[k].text.pass
    BY <1>1, <1>2, <1>6, <2>1, TextAt
  <2>3. QED
    BY <1>3, <1>6, <2>1, <2>2
<1>7. CASE opt.append /\ ~AppendedIn(s, i) /\ Widened(s, w, i, text)
  <2>1. /\ Len(w) = Len(s) + 1
        /\ \A q \in 1 .. Len(w) : q # i + 1 =>
             LET j == IF q <= i THEN q ELSE q - 1
             IN /\ j \in 1 .. Len(s) /\ w[q].id = s[j].id /\ w[q].text = s[j].text
    <3>1. Len(w) = Len(s) + 1
      BY <1>7 DEF Widened
    <3>2. ASSUME NEW q \in 1 .. Len(w), q # i + 1
          PROVE  LET j == IF q <= i THEN q ELSE q - 1
                 IN j \in 1 .. Len(s) /\ w[q].id = s[j].id /\ w[q].text = s[j].text
      BY <1>1, <1>7, <3>2, WidenedFrom
    <3>3. QED
      BY <3>1, <3>2
  <2> DEFINE m == IF k < i THEN k ELSE k + 1
  <2>2. m \in 1 .. Len(w) /\ m # i + 1 /\ k = (IF m <= i THEN m ELSE m - 1)
    BY <1>1, <1>5, <2>1
  <2>3. w[m].id = <<f>>
    BY <1>2, <2>1, <2>2
  <2>4. TextOf(w, f) = IF m < Len(w) /\ Len(w[m + 1].id) > 1 THEN w[m + 1].text.pass ELSE 0
    <3> HIDE DEF m
    <3>1. QED
      BY <1>1, <1>7, <2>2, <2>3, TextAt
  <2>5. m < Len(w) <=> k < Len(s)
    BY <1>1, <1>5, <2>1
  <2>6. ASSUME k < Len(s)
        PROVE  w[m + 1].id = s[k + 1].id /\ w[m + 1].text = s[k + 1].text
    <3>1. /\ m + 1 \in 1 .. Len(w) /\ m + 1 # i + 1
          /\ k + 1 = (IF m + 1 <= i THEN m + 1 ELSE (m + 1) - 1)
      BY <1>1, <1>5, <2>1, <2>6
    <3> HIDE DEF m
    <3>2. QED
      BY <2>1, <3>1
  <2> HIDE DEF m
  <2>7. QED
    BY <1>3, <1>7, <2>4, <2>5, <2>6
<1>8. QED
  BY <1>4, <1>6, <1>7

-----------------------------------------------------------------------------
(***************************************************************************)
(* The fields a processing has come to.                                    *)
(***************************************************************************)

\* Rows are numbered.
LEMMA RowNumbers ==
  ASSUME QueueInv
  PROVE  DOMAIN rows = 1 .. Len(rows) /\ Len(rows) \in Nat
  BY LenProperties DEF QueueInv

\* A row, once there, stays its field's, and keeps a text it has.
LEMMA RowsStay ==
  ASSUME QueueInv, rows' \in Seq(Rows),
         \A r \in 1 .. Len(rows) :
           /\ r \in 1 .. Len(rows') /\ rows'[r].id = rows[r].id
           /\ rows[r].target # NoText => rows'[r].target # NoText,
         NEW f
  PROVE  /\ RowsOf(f) # {} => RowsOf(f)' # {}
         /\ HasText(f) => HasText(f)'
<1>1. DOMAIN rows = 1 .. Len(rows) /\ DOMAIN rows' = 1 .. Len(rows')
  BY LenProperties DEF QueueInv
<1>2. \A r \in RowsOf(f) : /\ r \in RowsOf(f)'
                           /\ rows[r].target # NoText => rows'[r].target # NoText
  BY <1>1 DEF RowsOf
<1>3. QED
  BY <1>2 DEF HasText

\* A processing starts from a source no pass has touched.
LEMMA CarryInit ==
  ASSUME MetadataAssumption, Init
  PROVE  CarryInv
<1>1. /\ record = Original /\ file = Original /\ phase = "visit" /\ xpath = 1
      /\ \A r \in 1 .. Len(rows) : FALSE
  BY DEF Init
<1>2. /\ Fields = 1 .. Len(Original) /\ DOMAIN Original = 1 .. Len(Original)
      /\ \A f \in 1 .. Len(Original) : Original[f].id = <<f>> /\ ~Inserted(Original[f].id)
  BY OriginalRecord, LenProperties DEF MetadataAssumption
<1>3. Placed(Original)
  <2>1. \A f \in Fields : <<f>> \in Ids(Original)
    BY <1>2 DEF Ids
  <2>2. \A i \in 1 .. Len(Original) : Original[i].id[1] \in Fields
    BY <1>2
  <2>3. QED
    BY <1>2, <2>1, <2>2 DEF Placed
<1>4. \A x \in 1 .. xpath - 1 : FALSE
  BY <1>1
<1>5. QED
  BY <1>1, <1>3, <1>4 DEF CarryInv

\* A step that writes nothing changes nothing of what is said of the fields.
LEMMA FrameOfFields ==
  ASSUME UNCHANGED <<opt, file, record, rows>>
  PROVE  /\ Placed(record)' <=> Placed(record)
         /\ Placed(file)' <=> Placed(file)
         /\ \A f : /\ TextOf(record, f)' = TextOf(record, f) /\ TextOf(file, f)' = TextOf(file, f)
                   /\ RowsOf(f)' = RowsOf(f)
                   /\ HasText(f)' <=> HasText(f)
                   /\ Carried(f)' <=> Carried(f)
<1>1. (Placed(record)' <=> Placed(record)) /\ (Placed(file)' <=> Placed(file))
  BY DEF Placed
<1>2. \A f : RowsOf(f)' = RowsOf(f)
  BY DEF RowsOf
<1>3. \A f : TextOf(record, f)' = TextOf(record, f) /\ TextOf(file, f)' = TextOf(file, f)
  BY DEF TextOf
<1>4. \A f : HasText(f)' <=> HasText(f)
  BY <1>2 DEF HasText
<1>5. \A f : Carried(f)' <=> Carried(f)
  BY <1>3 DEF Carried
<1>6. QED
  BY <1>1, <1>2, <1>3, <1>4, <1>5

\* Every step keeps track of the fields.
LEMMA CarryNext ==
  ASSUME MetadataAssumption, OneTarget, BaseInv, BaseInv', PairInv, VisitInv, CarryInv,
         [Next]_vars
  PROVE  CarryInv'
<1>1. /\ Placed(record) /\ Placed(file)
      /\ \A r \in 1 .. Len(rows) : rows[r].target = NoText \/ rows[r].target.pass = pass
      /\ phase # "done" =>
           /\ \A f \in Fields : TextOf(record, f) = TextOf(file, f) \/ HasText(f)
           /\ \A f \in Fields : \A x \in 1 .. xpath - 1 :
                KindOf[f] \in XPaths[x] => <<f>> \in todo \/ RowsOf(f) # {} \/ Carried(f)
      /\ phase \in {"rerun", "round", "close"} => todo = {} /\ xpath = Len(XPaths) + 1
  BY DEF CarryInv
<1>2. /\ CallInv /\ QueueInv /\ Record(record, pass) /\ RightBehind(record)
      /\ Record(file, pass) /\ Paired(record) /\ rows' \in Seq(Rows)
  BY DEF BaseInv, FileInv, QueueInv, PairInv
<1>3. pass \in Nat \ {0} /\ xpath \in Nat \ {0} /\ xpath <= Len(XPaths) + 1 /\ Len(XPaths) \in Nat
  BY <1>2 DEF CallInv, MetadataAssumption
<1>4. ASSUME opt' = opt, NEW s, Placed(s)
      PROVE  Placed(s)'
  BY <1>4 DEF Placed
<1>5. ASSUME UNCHANGED <<opt, file, record, rows, pass>>, phase # "done",
             phase' \in {"rerun", "round", "close"} => todo' = {} /\ xpath' = Len(XPaths) + 1,
             \A f \in Fields : \A x \in 1 .. xpath' - 1 :
               KindOf[f] \in XPaths[x] => <<f>> \in todo' \/ RowsOf(f) # {} \/ Carried(f)
      PROVE  CarryInv'
  BY <1>1, <1>5, FrameOfFields DEF CarryInv
<1>6. ASSUME UNCHANGED <<opt, file, pass, phase, xpath>>, phase # "done", NEW id,
             \A r \in 1 .. Len(rows) :
               /\ r \in 1 .. Len(rows') /\ rows'[r].id = rows[r].id
               /\ rows[r].target # NoText => rows'[r].target # NoText,
             \A r \in 1 .. Len(rows') : rows'[r].target = NoText \/ rows'[r].target.pass = pass,
             \/ record' = record
             \/ \E text : /\ Wrote(record, record', id, text) /\ text.pass = pass
                          /\ \E r \in 1 .. Len(rows') : rows'[r].id = id /\ rows'[r].target # NoText,
             \/ todo' = todo
             \/ todo' = todo \ {id} /\ \E r \in 1 .. Len(rows') : rows'[r].id = id
      PROVE  CarryInv'
  <2>1. \A f : /\ RowsOf(f) # {} => RowsOf(f)' # {}
               /\ HasText(f) => HasText(f)'
    BY <1>2, <1>6, RowsStay
  <2>2. \A f : RowsOf(f)' = {r \in 1 .. Len(rows') : rows'[r].id = <<f>>}
    <3>1. DOMAIN rows' = 1 .. Len(rows')
      BY <1>2, LenProperties
    <3>2. QED
      BY <3>1 DEF RowsOf
  <2>3. Placed(record')
    BY <1>1, <1>2, <1>6, WrotePlaced
  <2>4. ASSUME NEW f \in Fields
        PROVE  TextOf(record', f) = TextOf(file, f) \/ HasText(f)'
    <3>1. CASE record' = record
      BY <1>1, <1>6, <2>1, <3>1
    <3>2. CASE \E text : /\ Wrote(record, record', id, text) /\ text.pass = pass
                         /\ \E r \in 1 .. Len(rows') : rows'[r].id = id /\ rows'[r].target # NoText
      <4>1. CASE id = <<f>>
        <5>1. PICK r \in 1 .. Len(rows') : rows'[r].id = id /\ rows'[r].target # NoText
          BY <3>2
        <5>2. r \in RowsOf(f)'
          BY <2>2, <4>1, <5>1
        <5>3. QED
          BY <5>1, <5>2 DEF HasText
      <4>2. CASE id # <<f>>
        <5>1. <<f>> \in Ids(record)
          BY <1>1 DEF Placed
        <5>2. PICK text : Wrote(record, record', id, text)
          BY <3>2
        <5>3. TextOf(record', f) = TextOf(record, f)
          BY <1>2, <4>2, <5>1, <5>2, WroteOtherText
        <5>4. QED
          BY <1>1, <1>6, <2>1, <5>3
      <4>3. QED
        BY <4>1, <4>2
    <3>3. QED
      BY <1>6, <3>1, <3>2
  <2>5. ASSUME NEW f \in Fields, NEW x \in 1 .. xpath - 1, KindOf[f] \in XPaths[x]
        PROVE  <<f>> \in todo' \/ RowsOf(f)' # {} \/ Carried(f)
    <3>1. <<f>> \in todo \/ RowsOf(f) # {} \/ Carried(f)
      BY <1>1, <1>6, <2>5
    <3>2. CASE <<f>> \in todo /\ <<f>> \notin todo'
      <4>1. CASE id = <<f>>
        BY <1>6, <2>2, <3>2, <4>1
      <4>2. CASE id # <<f>>
        BY <1>6, <3>2, <4>2
      <4>3. QED
        BY <4>1, <4>2
    <3>3. QED
      BY <2>1, <3>1, <3>2
  <2>6. /\ Placed(record)' /\ Placed(file)'
        /\ \A f : TextOf(record, f)' = TextOf(record', f) /\ TextOf(file, f)' = TextOf(file, f)
        /\ \A f : Carried(f)' = Carried(f)
    BY <1>1, <1>4, <1>6, <2>3 DEF Placed, TextOf, Carried
  <2>7. QED
    BY <1>1, <1>6, <2>4, <2>5, <2>6 DEF CarryInv
<1>7. CASE EvaluateXPath
  <2>1. /\ UNCHANGED <<opt, file, record, rows, pass, phase>> /\ phase = "visit"
        /\ todo = {} /\ xpath' = xpath + 1
        /\ todo' = {id \in Ids(record) : Kind(id) \in XPaths[xpath]}
    BY <1>7 DEF EvaluateXPath, callVars, diskVars
  <2>2. ASSUME NEW f \in Fields, NEW x \in 1 .. xpath' - 1, KindOf[f] \in XPaths[x]
        PROVE  <<f>> \in todo' \/ RowsOf(f) # {} \/ Carried(f)
    <3>1. x \in 1 .. xpath - 1 \/ x = xpath
      BY <1>3, <2>1
    <3>2. CASE x \in 1 .. xpath - 1
      BY <1>1, <2>1, <2>2, <3>2
    <3>3. CASE x = xpath
      BY <1>1, <2>1, <2>2, <3>3 DEF Placed, Kind
    <3>4. QED
      BY <3>1, <3>2, <3>3
  <2>3. QED
    BY <1>5, <2>1, <2>2
<1>8. CASE SkipField
  <2>1. /\ UNCHANGED <<opt, file, record, rows, pass, phase, xpath>>
        /\ phase = "visit" /\ opt.append
    BY <1>8 DEF SkipField, callVars, diskVars
  <2>2. PICK id \in todo : AlreadyAppended(id) /\ todo' = todo \ {id}
    BY <1>8 DEF SkipField
  <2>3. ASSUME NEW f \in Fields, NEW x \in 1 .. xpath - 1, KindOf[f] \in XPaths[x]
        PROVE  <<f>> \in todo' \/ RowsOf(f) # {} \/ Carried(f)
    <3>1. <<f>> \in todo \/ RowsOf(f) # {} \/ Carried(f)
      BY <1>1, <2>1, <2>3
    <3>2. CASE RowsOf(f) = {} /\ <<f>> = id
      <4>1. id \in Ids(record)
        BY <1>2, <2>2 DEF QueueInv
      <4>2. /\ Position(id) \in 1 .. Len(record) /\ record[Position(id)].id = id
            /\ AppendedIn(record, Position(id))
        BY <1>2, <2>2, <4>1, PositionFound, AlreadyAppendedIn
      <4>3. TextOf(record, f) \in 1 .. pass
        BY <1>1, <1>2, <1>3, <2>1, <3>2, <4>2, GuardSeesText
      <4>4. TextOf(record, f) = TextOf(file, f)
        BY <1>1, <2>1, <3>2 DEF HasText
      <4>5. QED
        BY <1>3, <2>1, <4>3, <4>4 DEF Carried
    <3>3. QED
      BY <2>2, <3>1, <3>2
  <2>4. QED
    BY <1>5, <2>1, <2>3
<1>9. CASE TranslateField
  <2>1. UNCHANGED <<opt, file, pass, phase, xpath>> /\ phase = "visit"
    BY <1>9 DEF TranslateField, callVars, diskVars
  <2>2. PICK id \in todo : todo' = todo \ {id} /\ Translated(id)
    BY <1>9, TranslateStep
  <2> DEFINE n == Len(rows) + 1
  <2>3. PICK row \in Rows :
          /\ row.id = id /\ RowAdded(row)
          /\ \/ row.target = TextOfRow(n) /\ Wrote(record, record', id, TextOfRow(n))
             \/ row.target = NoText /\ record' = record
    BY <2>2 DEF Translated, Asked
  <2>4. /\ Len(rows') = n /\ rows'[n] = row /\ n \in 1 .. Len(rows')
        /\ \A q \in 1 .. Len(rows') : q \in 1 .. Len(rows) \/ q = n
        /\ \A q \in 1 .. Len(rows) : q \in 1 .. Len(rows') /\ rows'[q] = rows[q]
    BY <2>3 DEF RowAdded
  <2>5. TextOfRow(n).pass = pass /\ TextOfRow(n) # NoText
    BY <1>3 DEF TextOfRow, NoText
  <2> HIDE DEF n
  <2>6. \A r \in 1 .. Len(rows') : rows'[r].target = NoText \/ rows'[r].target.pass = pass
    BY <1>1, <2>3, <2>4, <2>5
  <2>7. \/ record' = record
        \/ \E text : /\ Wrote(record, record', id, text) /\ text.pass = pass
                     /\ \E r \in 1 .. Len(rows') : rows'[r].id = id /\ rows'[r].target # NoText
    BY <2>3, <2>4, <2>5
  <2>8. \E r \in 1 .. Len(rows') : rows'[r].id = id
    BY <2>3, <2>4
  <2>9. QED
    BY <1>6, <2>1, <2>2, <2>4, <2>6, <2>7, <2>8
<1>10. CASE RetryField
  <2>1. UNCHANGED <<opt, file, pass, phase, xpath, todo>> /\ phase = "round"
    BY <1>10 DEF RetryField, callVars, diskVars
  <2>2. PICK r \in retry :
          \/ UNCHANGED <<rows, record>>
          \/ /\ RowChanged(r, TextOfRow(r), "rerun")
             /\ Wrote(record, record', rows[r].id, TextOfRow(r))
    BY <1>10, RetryStep
  <2>3. TextOfRow(r).pass = pass /\ TextOfRow(r) # NoText
    BY <1>3 DEF TextOfRow, NoText
  <2>4. CASE UNCHANGED <<rows, record>>
    BY <1>1, <1>6, <2>1, <2>4
  <2>5. CASE /\ RowChanged(r, TextOfRow(r), "rerun")
             /\ Wrote(record, record', rows[r].id, TextOfRow(r))
    <3>1. /\ Len(rows') = Len(rows) /\ r \in 1 .. Len(rows)
          /\ rows'[r].id = rows[r].id /\ rows'[r].target = TextOfRow(r)
          /\ \A q \in 1 .. Len(rows) : q # r => rows'[q] = rows[q]
      BY <2>5 DEF RowChanged
    <3>2. QED
      BY <1>1, <1>6, <2>1, <2>3, <2>5, <3>1
  <2>6. QED
    BY <2>2, <2>4, <2>5
<1>11. CASE GiveUpField
  <2>1. UNCHANGED <<opt, file, pass, phase, xpath, todo, record>> /\ phase = "rerun"
    BY <1>11 DEF GiveUpField, callVars, diskVars
  <2>2. PICK r \in StillFlagged : RowChanged(r, rows[r].target, "untranslated")
    BY <1>11, GiveUpStep
  <2>3. /\ Len(rows') = Len(rows) /\ r \in 1 .. Len(rows)
        /\ rows'[r].id = rows[r].id /\ rows'[r].target = rows[r].target
        /\ \A q \in 1 .. Len(rows) : q # r => rows'[q] = rows[q]
    BY <2>2 DEF RowChanged
  <2>4. QED
    BY <1>1, <1>6, <2>1, <2>3
<1>12. CASE EndVisit \/ StartRound \/ EndRound \/ EndRerun \/ Fails
  <2>1. /\ UNCHANGED <<opt, file, pass, xpath, todo, rows, record>> /\ phase # "done"
        /\ phase' \in {"rerun", "round", "close"} =>
             phase \in {"rerun", "round", "close"} \/ (todo = {} /\ xpath > Len(XPaths))
    BY <1>12 DEF EndVisit, StartRound, EndRound, EndRerun, Fails, callVars, diskVars
  <2>2. phase' \in {"rerun", "round", "close"} => todo' = {} /\ xpath' = Len(XPaths) + 1
    BY <1>1, <1>3, <2>1
  <2>3. QED
    BY <1>1, <1>5, <2>1, <2>2
<1>13. CASE WriteOutputs
  <2>1. UNCHANGED <<opt, pass, rows, record>> /\ file' = record /\ phase' = "done"
    BY <1>13 DEF WriteOutputs, callVars
  <2>2. QED
    BY <1>1, <2>1 DEF CarryInv, Placed
<1>14. CASE ProcessAgain
  <2>1. /\ UNCHANGED <<opt, file>> /\ record' = file /\ phase' = "visit" /\ xpath' = 1
        /\ rows' = <<>>
    BY <1>14 DEF ProcessAgain, diskVars
  <2>2. (\A r \in 1 .. Len(rows') : FALSE) /\ (\A x \in 1 .. xpath' - 1 : FALSE)
    BY <2>1
  <2>3. Placed(record)' /\ Placed(file)' /\ \A f : TextOf(record, f)' = TextOf(file, f)'
    BY <1>1, <2>1 DEF Placed, TextOf
  <2>4. QED
    BY <2>1, <2>2, <2>3 DEF CarryInv
<1>15. CASE UNCHANGED vars
  <2>1. UNCHANGED <<opt, file, record, rows, pass, phase, todo, xpath>>
    BY <1>15 DEF vars, callVars, diskVars
  <2>2. QED
    BY <1>1, <2>1, FrameOfFields DEF CarryInv
<1>16. QED
  BY <1>7, <1>8, <1>9, <1>10, <1>11, <1>12, <1>13, <1>14, <1>15 DEF Next, Step

-----------------------------------------------------------------------------
(***************************************************************************)
(* The fate of a field.                                                    *)
(***************************************************************************)
FieldInv == BaseInv /\ PairInv /\ OnceInv /\ CarryInv

\* Whether a field shows a text of this pass is told by its row.
LEMMA ShownByRow ==
  ASSUME MetadataAssumption, OneTarget, FieldInv, NEW f \in Fields,
         NEW r \in 1 .. Len(rows), rows[r].id = <<f>>
  PROVE  TextOf(record, f) = pass <=> rows[r].target # NoText
<1>1. /\ CallInv /\ Record(record, pass) /\ Paired(record) /\ Placed(record) /\ pass \in Nat \ {0}
      /\ Told(record, r) /\ Len(record) \in Nat
  BY LenProperties
     DEF FieldInv, BaseInv, CallInv, FileInv, PairInv, OnceInv, TellInv, CarryInv, Record
<1>2. PICK i \in 1 .. Len(record) : record[i].id = <<f>>
  BY <1>1, FieldAt
<1>3. TextOf(record, f) = IF opt.append
                            THEN IF i < Len(record) /\ Len(record[i + 1].id) > 1
                                   THEN record[i + 1].text.pass ELSE 0
                            ELSE record[i].text.pass
  BY <1>1, <1>2, TextAt
<1>4. CASE rows[r].target = NoText
  <2>1. UntouchedIn(record, <<f>>, rows[r].asked)
    BY <1>1, <1>4 DEF Told
  <2>2. CASE opt.append
    <3>1. ~AppendedIn(record, i)
      BY <1>2, <2>1, <2>2 DEF UntouchedIn
    <3>2. TextOf(record, f) = 0
      BY <1>1, <1>2, <2>2, <3>1, GuardSeesText
    <3>3. QED
      BY <1>1, <1>4, <3>2
  <2>3. CASE ~opt.append
    <3>1. record[i].text = rows[r].asked
      BY <1>2, <2>1, <2>3 DEF UntouchedIn
    <3>2. rows[r].asked = Source
      BY <2>3 DEF FieldInv, OnceInv, AskInv
    <3>3. TextOf(record, f) = 0
      BY <1>3, <2>3, <3>1, <3>2 DEF Source
    <3>4. QED
      BY <1>1, <1>4, <3>3
  <2>4. QED
    BY <2>2, <2>3
<1>5. CASE rows[r].target # NoText
  <2>1. ShownIn(record, <<f>>, rows[r].target) /\ rows[r].target.pass = pass
    BY <1>1, <1>5 DEF Told, FieldInv, CarryInv
  <2>2. CASE opt.append
    <3>1. /\ i < Len(record) /\ record[i + 1].id = Append(<<f>>, pass)
          /\ record[i + 1].text = rows[r].target
      BY <1>2, <2>1, <2>2 DEF ShownIn
    <3>2. Len(record[i + 1].id) = 2
      BY <3>1
    <3>3. QED
      BY <1>3, <1>5, <2>1, <2>2, <3>1, <3>2
  <2>3. CASE ~opt.append
    BY <1>2, <1>3, <1>5, <2>1, <2>3 DEF ShownIn
  <2>4. QED
    BY <2>2, <2>3
<1>6. QED
  BY <1>4, <1>5

\* Before it is written down the fate of a field can be read off its row, the work to do
\* and the file.
LEMMA FateIsRead ==
  ASSUME MetadataAssumption, OneTarget, FieldInv, phase # "done"
  PROVE  Fate = [f \in Targeted |-> FateBy(f)]
<1>1. /\ CallInv /\ QueueInv /\ Record(record, pass) /\ Paired(record) /\ Placed(record)
      /\ pass \in Nat \ {0}
  BY DEF FieldInv, BaseInv, CallInv, FileInv, PairInv, CarryInv
<1>2. DOMAIN rows = 1 .. Len(rows)
  BY <1>1, RowNumbers
<1>3. ASSUME NEW f \in Targeted
      PROVE  Fate[f] = FateBy(f)
  <2>1. f \in Fields
    BY DEF Targeted
  <2>2. CASE RowsOf(f) = {}
    <3>1. TextOf(record, f) = TextOf(file, f)
      BY <2>1, <2>2 DEF FieldInv, CarryInv, HasText
    <3>2. <<f>> \in Ids(record)
      BY <1>1, <2>1 DEF Placed
    <3>3. /\ Position(<<f>>) \in 1 .. Len(record) /\ record[Position(<<f>>)].id = <<f>>
          /\ AlreadyAppended(<<f>>) <=> AppendedIn(record, Position(<<f>>))
      BY <1>1, <3>2, PositionFound, AlreadyAppendedIn
    <3>4. opt.append => IF AppendedIn(record, Position(<<f>>))
                          THEN TextOf(record, f) \in 1 .. pass ELSE TextOf(record, f) = 0
      BY <1>1, <2>1, <3>3, GuardSeesText
    <3>5. opt.append /\ AlreadyAppended(<<f>>) <=> Carried(f)
      BY <1>1, <3>1, <3>3, <3>4 DEF Carried
    <3>6. QED
      BY <2>2, <3>5 DEF Fate, FateBy
  <2>3. CASE RowsOf(f) # {}
    <3>1. PICK r \in 1 .. Len(rows) : r \in RowsOf(f) /\ rows[r].id = <<f>>
      BY <1>2, <2>3 DEF RowsOf
    <3>2. RowsOf(f) = {r}
      BY <1>2, <3>1 DEF RowsOf, FieldInv, OnceInv, VisitInv
    <3>3. TextOf(record, f) = pass <=> HasText(f)
      BY <2>1, <3>1, <3>2, ShownByRow DEF HasText
    <3>4. QED
      BY <2>3, <3>3 DEF Fate, FateBy
  <2>4. QED
    BY <2>2, <2>3
<1>4. QED
  BY <1>3 DEF Fate

-----------------------------------------------------------------------------
(***************************************************************************)
(* The refinement of DocumentLedger.                                       *)
(***************************************************************************)
RowFate(row) ==
  IF row.target # NoText THEN "translated"
  ELSE IF row.status = "untranslated" THEN "kept" ELSE "open"

\* The fate of a field is that of its row; without one it is open if it is to be visited.
FateIs ==
  /\ phase # "done" => Fate = [f \in Targeted |-> FateBy(f)]
  /\ \A f \in Targeted :
       /\ \A r \in 1 .. Len(rows) : rows[r].id = <<f>> => FateBy(f) = RowFate(rows[r])
       /\ (\A r \in 1 .. Len(rows) : rows[r].id # <<f>>) =>
            FateBy(f) = IF <<f>> \in todo /\ ~Carried(f) THEN "open" ELSE "out"

Published == [f \in Targeted |-> TextOf(file, f)]

\* The ledger calls a field carried as the record does.
LEMMA LedgerCarries ==
  ASSUME NEW f \in Targeted
  PROVE  Ledger!Carries(f) <=> TextOf(file, f) > 0
  BY DEF Ledger!Carries

\* A field is a block of its own.
LEMMA LedgerBlock ==
  ASSUME NEW f \in Targeted
  PROVE  Ledger!LinesOf(f) = {f}
  BY DEF Ledger!LinesOf

\* A step that gives one open field its fate settles it in the ledger.
LEMMA LedgerSettles ==
  ASSUME NEW f \in Targeted, Fate[f] = "open", NEW v \in {"translated", "kept"},
         Fate' = [g \in Targeted |-> IF g = f THEN v ELSE Fate[g]],
         LedgerState = "working", LedgerState' = LedgerState, UNCHANGED <<opt, pass, file>>
  PROVE  Ledger!Next
<1> DEFINE given == [g \in Ledger!LinesOf(f) |-> v]
<1>1. Ledger!LinesOf(f) = {f}
  BY LedgerBlock
<1>2. given \in [Ledger!LinesOf(f) -> Ledger!Settled]
  BY DEF Ledger!Settled
<1>3. Published' = Published
  BY DEF Published, TextOf
<1>4. Fate' = [g \in Targeted |-> IF g \in Ledger!LinesOf(f) THEN given[g] ELSE Fate[g]]
  BY <1>1
<1>5. \A g \in Ledger!LinesOf(f) : Fate[g] = "open" /\ given[g] # "blanked"
  BY <1>1
<1> HIDE DEF given
<1>6. Ledger!Settle(f, given)
  BY <1>3, <1>4, <1>5 DEF Ledger!Settle, Published
<1>7. QED
  BY <1>2, <1>6 DEF Ledger!Next

\* A step that gives no field a fate and leaves the file is not seen in the ledger.
LEMMA LedgerStays ==
  ASSUME Fate' = Fate, LedgerState' = LedgerState, UNCHANGED <<opt, pass, file>>
  PROVE  UNCHANGED Ledger!vars
<1>1. Published' = Published
  BY DEF Published, TextOf
<1>2. QED
  BY <1>1 DEF Ledger!vars, Published

\* So it is at all times.
LEMMA FateAlways ==
  ASSUME MetadataAssumption, OneTarget, FieldInv
  PROVE  FateIs
<1>1. DOMAIN rows = 1 .. Len(rows)
  BY RowNumbers DEF FieldInv, BaseInv
<1>2. phase # "done" => Fate = [f \in Targeted |-> FateBy(f)]
  BY FateIsRead
<1>3. ASSUME NEW f \in Targeted, NEW r \in 1 .. Len(rows), rows[r].id = <<f>>
      PROVE  FateBy(f) = RowFate(rows[r])
  <2>1. RowsOf(f) = {r}
    BY <1>1, <1>3 DEF RowsOf, FieldInv, OnceInv, VisitInv
  <2>2. QED
    BY <2>1 DEF FateBy, RowFate, HasText
<1>4. ASSUME NEW f \in Targeted, \A r \in 1 .. Len(rows) : rows[r].id # <<f>>
      PROVE  FateBy(f) = IF <<f>> \in todo /\ ~Carried(f) THEN "open" ELSE "out"
  <2>1. RowsOf(f) = {}
    BY <1>1, <1>4 DEF RowsOf
  <2>2. QED
    BY <2>1 DEF FateBy
<1>5. QED
  BY <1>2, <1>3, <1>4 DEF FateIs

\* A step at one element leaves the fate of the other fields.
LEMMA OtherFates ==
  ASSUME FateIs, FateIs', UNCHANGED <<opt, file>>, NEW id,
         \A r \in 1 .. Len(rows) :
           /\ r \in 1 .. Len(rows') /\ rows'[r].id = rows[r].id
           /\ rows[r].id # id => rows'[r] = rows[r],
         \A r \in 1 .. Len(rows') : r \in 1 .. Len(rows) \/ rows'[r].id = id,
         NEW f \in Targeted, <<f>> # id, <<f>> \in todo' <=> <<f>> \in todo
  PROVE  FateBy(f)' = FateBy(f)
<1>1. Carried(f)' <=> Carried(f)
  BY DEF Carried, TextOf
<1>2. CASE \E r \in 1 .. Len(rows) : rows[r].id = <<f>>
  <2>1. PICK r \in 1 .. Len(rows) : rows[r].id = <<f>>
    BY <1>2
  <2>2. r \in 1 .. Len(rows') /\ rows'[r] = rows[r]
    BY <2>1
  <2>3. FateBy(f) = RowFate(rows[r])
    BY <2>1 DEF FateIs
  <2>4. FateBy(f)' = RowFate(rows'[r])
    BY <2>1, <2>2 DEF FateIs, RowFate
  <2>5. QED
    BY <2>2, <2>3, <2>4
<1>3. CASE \A r \in 1 .. Len(rows) : rows[r].id # <<f>>
  <2>1. \A r \in 1 .. Len(rows') : rows'[r].id # <<f>>
    BY <1>3
  <2>2. FateBy(f) = IF <<f>> \in todo /\ ~Carried(f) THEN "open" ELSE "out"
    BY <1>3 DEF FateIs
  <2>3. FateBy(f)' = IF <<f>> \in todo' /\ ~Carried(f)' THEN "open" ELSE "out"
    BY <2>1 DEF FateIs
  <2>4. QED
    BY <1>1, <2>2, <2>3
<1>4. QED
  BY <1>2, <1>3

\* A step at one element is not seen in the ledger, or settles the field it is.
LEMMA LedgerAtOne ==
  ASSUME FateIs, FateIs', UNCHANGED <<opt, file, pass, phase>>,
         phase \in {"visit", "rerun", "round"}, NEW id,
         \A r \in 1 .. Len(rows) :
           /\ r \in 1 .. Len(rows') /\ rows'[r].id = rows[r].id
           /\ rows[r].id # id => rows'[r] = rows[r],
         \A r \in 1 .. Len(rows') : r \in 1 .. Len(rows) \/ rows'[r].id = id,
         \A f : <<f>> # id => (<<f>> \in todo' <=> <<f>> \in todo),
         \A f \in Targeted : <<f>> = id =>
           \/ FateBy(f)' = FateBy(f)
           \/ FateBy(f) = "open" /\ FateBy(f)' \in {"translated", "kept"}
  PROVE  Ledger!Next \/ UNCHANGED Ledger!vars
<1>1. \A f \in Targeted : <<f>> # id => FateBy(f)' = FateBy(f)
  BY OtherFates
<1>2. /\ Fate = [f \in Targeted |-> FateBy(f)] /\ Fate' = [f \in Targeted |-> FateBy(f)']
      /\ LedgerState = "working" /\ LedgerState' = LedgerState
  BY DEF FateIs, LedgerState
<1>3. CASE \A f \in Targeted : FateBy(f)' = FateBy(f)
  <2>1. Fate' = Fate
    BY <1>2, <1>3
  <2>2. QED
    BY <1>2, <2>1, LedgerStays
<1>4. CASE \E f \in Targeted : FateBy(f)' # FateBy(f)
  <2>1. PICK f \in Targeted : FateBy(f)' # FateBy(f)
    BY <1>4
  <2>2. <<f>> = id /\ FateBy(f) = "open" /\ FateBy(f)' \in {"translated", "kept"}
    BY <1>1, <2>1
  <2>3. \A g \in Targeted : g # f => <<g>> # id
    BY <2>2
  <2> DEFINE v == FateBy(f)'
  <2>4. \A g \in Targeted : Fate'[g] = IF g = f THEN v ELSE Fate[g]
    BY <1>1, <1>2, <2>3
  <2>5. Fate' = [g \in Targeted |-> IF g = f THEN v ELSE Fate[g]]
    BY <1>2, <2>4
  <2>6. Fate[f] = "open" /\ v \in {"translated", "kept"}
    BY <1>2, <2>2
  <2> HIDE DEF v
  <2>7. QED
    BY <1>2, <2>5, <2>6, LedgerSettles
<1>5. QED
  BY <1>3, <1>4

\* The fate is read off these variables.
LEMMA FateUnseen ==
  ASSUME UNCHANGED <<opt, pass, target, todo, rows, record>>
  PROVE  Fate' = Fate
  BY DEF Fate, RowsOf, TextOf, AlreadyAppended, Position, Kind

\* Every step is a step of the ledger, or is not seen there.
LEMMA LedgerStep ==
  ASSUME MetadataAssumption, OneTarget, FieldInv, FieldInv', FateIs, FateIs', [Next]_vars
  PROVE  Ledger!Next \/ UNCHANGED Ledger!vars
<1>1. /\ CallInv /\ QueueInv /\ Len(rows) \in Nat
      /\ \A r \in 1 .. Len(rows) : rows[r].id \notin todo /\ Told(record, r)
      /\ \A r, q \in 1 .. Len(rows) : rows[r].id = rows[q].id => r = q
  BY RowNumbers DEF FieldInv, BaseInv, OnceInv, VisitInv, TellInv
<1>2. ASSUME Fate' = Fate, UNCHANGED <<opt, pass, file>>, LedgerState' = LedgerState
      PROVE  Ledger!Next \/ UNCHANGED Ledger!vars
  BY <1>2, LedgerStays
<1>3. CASE EvaluateXPath
  <2>1. /\ UNCHANGED <<opt, pass, file, phase, rows, record>> /\ phase = "visit" /\ todo = {}
    BY <1>3 DEF EvaluateXPath, callVars, diskVars
  <2> DEFINE S == {f \in Targeted : <<f>> \in todo' /\ ~Carried(f)}
  <2>2. \A r \in 1 .. Len(rows) : rows[r].id \notin todo'
    BY <2>1 DEF FieldInv, OnceInv, VisitInv
  <2>3. ASSUME NEW f \in Targeted
        PROVE  /\ FateBy(f)' = IF f \in S THEN "open" ELSE FateBy(f)
               /\ f \in S => FateBy(f) = "out" /\ ~(opt.append /\ Ledger!Carries(f))
    <3>1. Carried(f)' <=> Carried(f)
      BY <2>1, FrameOfFields
    <3>2. CASE \E r \in 1 .. Len(rows) : rows[r].id = <<f>>
      <4>1. PICK r \in 1 .. Len(rows) : rows[r].id = <<f>>
        BY <3>2
      <4>2. f \notin S
        BY <2>2, <4>1
      <4>3. FateBy(f) = RowFate(rows[r]) /\ FateBy(f)' = RowFate(rows[r])
        BY <2>1, <4>1 DEF FateIs, RowFate
      <4>4. QED
        BY <4>2, <4>3
    <3>3. CASE \A r \in 1 .. Len(rows) : rows[r].id # <<f>>
      <4>1. FateBy(f) = "out"
        BY <2>1, <3>3 DEF FateIs
      <4>2. FateBy(f)' = IF <<f>> \in todo' /\ ~Carried(f) THEN "open" ELSE "out"
        BY <2>1, <3>1, <3>3 DEF FateIs
      <4>3. QED
        BY <4>1, <4>2, LedgerCarries DEF Carried
    <3>4. QED
      BY <3>2, <3>3
  <2> HIDE DEF S
  <2>4. /\ Fate = [f \in Targeted |-> FateBy(f)] /\ Fate' = [f \in Targeted |-> FateBy(f)']
        /\ LedgerState = "working" /\ LedgerState' = "working"
    BY <2>1 DEF FateIs, LedgerState
  <2>5. Fate' = [f \in Targeted |-> IF f \in S THEN "open" ELSE Fate[f]]
    BY <2>3, <2>4
  <2>6. S \subseteq Targeted /\ \A f \in S : Fate[f] = "out" /\ ~(opt.append /\ Ledger!Carries(f))
    BY <2>3, <2>4 DEF S
  <2>7. Published' = Published
    BY <2>1 DEF Published, TextOf
  <2>8. Ledger!Open(S)
    BY <2>1, <2>4, <2>5, <2>6, <2>7 DEF Ledger!Open, Published
  <2>9. QED
    BY <2>6, <2>8 DEF Ledger!Next
<1>4. CASE SkipField
  <2>1. /\ UNCHANGED <<opt, pass, file, phase, rows, record>> /\ phase = "visit" /\ opt.append
    BY <1>4 DEF SkipField, callVars, diskVars
  <2>2. PICK id \in todo : AlreadyAppended(id) /\ todo' = todo \ {id}
    BY <1>4 DEF SkipField
  <2>3. \A r \in 1 .. Len(rows) : rows[r].id # id
    BY <1>1, <2>2
  <2>4. ASSUME NEW f \in Targeted, <<f>> = id
        PROVE  FateBy(f)' = FateBy(f)
    <3>1. RowsOf(f) = {}
      BY <1>1, <2>3, <2>4, RowNumbers DEF RowsOf
    <3>2. Fate[f] = "out"
      BY <2>1, <2>2, <2>4, <3>1 DEF Fate
    <3>3. FateBy(f) = "out"
      BY <2>1, <3>2 DEF FateIs
    <3>4. FateBy(f)' = "out"
      BY <2>1, <2>2, <2>3, <2>4 DEF FateIs
    <3>5. QED
      BY <3>3, <3>4
  <2>5. QED
    BY <2>1, <2>2, <2>4, LedgerAtOne
<1>5. CASE TranslateField
  <2>1. UNCHANGED <<opt, pass, file, phase>> /\ phase = "visit"
    BY <1>5 DEF TranslateField, callVars, diskVars
  <2>2. PICK id \in todo : /\ todo' = todo \ {id} /\ ~(opt.append /\ AlreadyAppended(id))
                           /\ Translated(id)
    BY <1>5, TranslateStep DEF FieldInv
  <2> DEFINE n == Len(rows) + 1
  <2>3. PICK row \in Rows : row.id = id /\ row.status = "ok" /\ RowAdded(row)
    BY <2>2 DEF Translated, Asked
  <2>4. /\ Len(rows') = n /\ rows'[n] = row /\ n \in 1 .. Len(rows')
        /\ \A q \in 1 .. Len(rows') : q \in 1 .. Len(rows) \/ q = n
        /\ \A q \in 1 .. Len(rows) : q \in 1 .. Len(rows') /\ rows'[q] = rows[q]
    BY <2>3 DEF RowAdded
  <2> HIDE DEF n
  <2>5. \A r \in 1 .. Len(rows) : rows[r].id # id
    BY <1>1, <2>2
  <2>6. ASSUME NEW f \in Targeted, <<f>> = id
        PROVE  FateBy(f) = "open" /\ FateBy(f)' \in {"translated", "open"}
    <3>1. RowsOf(f) = {}
      BY <1>1, <2>5, <2>6, RowNumbers DEF RowsOf
    <3>2. Fate[f] = "open"
      BY <2>2, <2>6, <3>1 DEF Fate
    <3>3. FateBy(f) = "open"
      BY <2>1, <3>2 DEF FateIs
    <3>4. FateBy(f)' = RowFate(rows'[n])
      BY <2>3, <2>4, <2>6 DEF FateIs, RowFate
    <3>5. QED
      BY <2>3, <2>4, <3>3, <3>4 DEF RowFate
  <2>7. QED
    BY <2>1, <2>2, <2>3, <2>4, <2>6, LedgerAtOne
<1>6. CASE RetryField
  <2>1. UNCHANGED <<opt, pass, file, phase, todo>> /\ phase = "round"
    BY <1>6 DEF RetryField, callVars, diskVars
  <2>2. PICK r \in retry :
          /\ r \in 1 .. Len(rows) /\ r \in flagged /\ rows[r].status = "ok"
          /\ \/ UNCHANGED <<rows, record>>
             \/ RowChanged(r, TextOfRow(r), "rerun")
    BY <1>6, RetryStep DEF FieldInv
  <2>3. rows[r].target = NoText
    BY <1>1, <2>2 DEF Told
  <2>4. CASE UNCHANGED <<rows, record>>
    <3>1. Fate' = Fate
      <4>1. UNCHANGED <<opt, pass, target, todo, rows, record>>
        BY <1>6, <2>4 DEF RetryField, callVars
      <4>2. QED
        BY <4>1, FateUnseen
    <3>2. QED
      BY <1>2, <2>1, <3>1 DEF LedgerState
  <2>5. CASE RowChanged(r, TextOfRow(r), "rerun")
    <3>1. /\ Len(rows') = Len(rows) /\ rows'[r].id = rows[r].id
          /\ rows'[r].target = TextOfRow(r)
          /\ \A q \in 1 .. Len(rows) : q # r => rows'[q] = rows[q]
      BY <2>5 DEF RowChanged
    <3>2. TextOfRow(r) # NoText
      BY <1>1 DEF TextOfRow, NoText, CallInv
    <3>3. ASSUME NEW f \in Targeted, <<f>> = rows[r].id
          PROVE  FateBy(f) = "open" /\ FateBy(f)' = "translated"
      <4>1. FateBy(f) = RowFate(rows[r])
        BY <2>2, <3>3 DEF FateIs
      <4>2. FateBy(f)' = RowFate(rows'[r])
        BY <2>2, <3>1, <3>3 DEF FateIs, RowFate
      <4>3. QED
        BY <2>2, <2>3, <3>1, <3>2, <4>1, <4>2 DEF RowFate
    <3>4. \A q \in 1 .. Len(rows) :
            /\ q \in 1 .. Len(rows') /\ rows'[q].id = rows[q].id
            /\ rows[q].id # rows[r].id => rows'[q] = rows[q]
      BY <3>1
    <3>5. QED
      BY <2>1, <3>1, <3>3, <3>4, LedgerAtOne
  <2>6. QED
    BY <2>2, <2>4, <2>5
<1>7. CASE GiveUpField
  <2>1. UNCHANGED <<opt, pass, file, phase, todo>> /\ phase = "rerun"
    BY <1>7 DEF GiveUpField, callVars, diskVars
  <2>2. PICK r \in StillFlagged : RowChanged(r, rows[r].target, "untranslated")
    BY <1>7, GiveUpStep DEF FieldInv
  <2>3. /\ Len(rows') = Len(rows) /\ r \in 1 .. Len(rows) /\ rows'[r].id = rows[r].id
        /\ rows'[r].target = rows[r].target /\ rows'[r].status = "untranslated"
        /\ \A q \in 1 .. Len(rows) : q # r => rows'[q] = rows[q]
    BY <2>2 DEF RowChanged
  <2>4. rows[r].target = NoText /\ rows[r].status = "ok"
    BY <1>1, <2>2, <2>3 DEF Told, StillFlagged
  <2>5. ASSUME NEW f \in Targeted, <<f>> = rows[r].id
        PROVE  FateBy(f) = "open" /\ FateBy(f)' = "kept"
    <3>1. FateBy(f) = RowFate(rows[r])
      BY <2>3, <2>5 DEF FateIs
    <3>2. FateBy(f)' = RowFate(rows'[r])
      BY <2>3, <2>5 DEF FateIs, RowFate
    <3>3. QED
      BY <2>3, <2>4, <3>1, <3>2 DEF RowFate
  <2>6. \A q \in 1 .. Len(rows) :
          /\ q \in 1 .. Len(rows') /\ rows'[q].id = rows[q].id
          /\ rows[q].id # rows[r].id => rows'[q] = rows[q]
    BY <2>3
  <2>7. QED
    BY <2>1, <2>3, <2>5, <2>6, LedgerAtOne
<1>8. CASE EndVisit \/ StartRound \/ EndRound \/ EndRerun
  <2>1. /\ UNCHANGED <<opt, pass, target, todo, rows, record, file>>
        /\ LedgerState' = LedgerState
    BY <1>8 DEF EndVisit, StartRound, EndRound, EndRerun, callVars, diskVars, LedgerState
  <2>2. QED
    BY <1>2, <2>1, FateUnseen
<1>9. CASE WriteOutputs
  <2>1. /\ UNCHANGED <<opt, pass, target, todo, rows, record>> /\ file' = record
        /\ phase = "close" /\ phase' = "done"
    BY <1>9 DEF WriteOutputs, callVars
  <2>2. Fate' = Fate /\ LedgerState = "working" /\ LedgerState' = "done"
    BY <2>1, FateUnseen DEF LedgerState
  <2>3. Fate = [f \in Targeted |-> FateBy(f)]
    BY <2>1 DEF FateIs
  <2>4. ASSUME NEW f \in Targeted
        PROVE  /\ \/ Fate[f] = "translated" /\ TextOf(record, f) = pass
                  \/ Fate[f] \in {"kept", "out"} /\ TextOf(record, f) = TextOf(file, f)
               /\ Fate[f] = "out" => opt.append /\ Ledger!Carries(f)
    <3>1. f \in Fields /\ \E x \in 1 .. Len(XPaths) : KindOf[f] \in XPaths[x]
      BY DEF Targeted
    <3>2. /\ todo = {} /\ xpath = Len(XPaths) + 1 /\ Len(XPaths) \in Nat
          /\ TextOf(record, f) = TextOf(file, f) \/ HasText(f)
          /\ \A x \in 1 .. xpath - 1 :
               KindOf[f] \in XPaths[x] => <<f>> \in todo \/ RowsOf(f) # {} \/ Carried(f)
      BY <2>1, <3>1 DEF FieldInv, CarryInv, MetadataAssumption
    <3>3. DOMAIN rows = 1 .. Len(rows)
      BY <1>1, RowNumbers
    <3>4. CASE \E r \in 1 .. Len(rows) : rows[r].id = <<f>>
      <4>1. PICK r \in 1 .. Len(rows) : rows[r].id = <<f>>
        BY <3>4
      <4>2. Fate[f] = RowFate(rows[r]) /\ (TextOf(record, f) = pass <=> rows[r].target # NoText)
        BY <2>3, <3>1, <4>1, ShownByRow DEF FateIs
      <4>3. CASE rows[r].target # NoText
        BY <4>2, <4>3 DEF RowFate
      <4>4. CASE rows[r].target = NoText
        <5>1. rows[r].status = "untranslated"
          BY <1>1, <2>1, <4>1, <4>4 DEF Told, QueueInv, StillFlagged
        <5>2. RowsOf(f) = {r}
          BY <1>1, <3>3, <4>1 DEF RowsOf
        <5>3. ~HasText(f)
          BY <4>4, <5>2 DEF HasText
        <5>4. QED
          BY <3>2, <4>2, <4>4, <5>1, <5>3 DEF RowFate
      <4>5. QED
        BY <4>3, <4>4
    <3>5. CASE \A r \in 1 .. Len(rows) : rows[r].id # <<f>>
      <4>1. RowsOf(f) = {}
        BY <3>3, <3>5 DEF RowsOf
      <4>2. Fate[f] = "out"
        BY <2>3, <3>2, <3>5 DEF FateIs
      <4>3. Carried(f)
        BY <3>1, <3>2, <4>1
      <4>4. QED
        BY <3>2, <4>1, <4>2, <4>3, LedgerCarries DEF Carried, HasText
    <3>6. QED
      BY <3>4, <3>5
  <2>5. Published' = [f \in Targeted |-> TextOf(record, f)]
    BY <2>1 DEF Published, TextOf
  <2>6. Published' = [f \in Targeted |-> CASE Fate[f] = "translated" -> pass
                                           [] Fate[f] = "blanked" -> -1
                                           [] OTHER -> Published[f]]
    BY <2>4, <2>5 DEF Published
  <2>7. Ledger!Publish
    BY <2>1, <2>2, <2>4, <2>6 DEF Ledger!Publish, Published
  <2>8. QED
    BY <2>7 DEF Ledger!Next
<1>10. CASE Fails
  <2>1. /\ UNCHANGED <<opt, pass, target, todo, rows, record, file>>
        /\ LedgerState = "working" /\ LedgerState' = "failed"
    BY <1>10 DEF Fails, LedgerState, callVars, diskVars
  <2>2. Fate' = Fate /\ Published' = Published
    BY <2>1, FateUnseen DEF Published, TextOf
  <2>3. Ledger!Abandon
    BY <2>1, <2>2 DEF Ledger!Abandon, Published
  <2>4. QED
    BY <2>3 DEF Ledger!Next
<1>11. CASE ProcessAgain
  <2>1. /\ UNCHANGED <<opt, file>> /\ pass < MaxPasses /\ pass' = pass + 1
        /\ rows' = <<>> /\ todo' = {}
        /\ LedgerState = "failed" \/ (LedgerState = "done" /\ opt.append)
        /\ LedgerState' = "working"
    BY <1>11 DEF ProcessAgain, LedgerState, diskVars
  <2>2. \A f : RowsOf(f)' = {}
    BY <2>1 DEF RowsOf
  <2>3. Fate' = [f \in Targeted |-> "out"]
    BY <2>1, <2>2 DEF Fate
  <2>4. Published' = Published
    BY <2>1 DEF Published, TextOf
  <2>5. Ledger!Again
    BY <2>1, <2>3, <2>4 DEF Ledger!Again, Published
  <2>6. QED
    BY <2>5 DEF Ledger!Next
<1>12. CASE UNCHANGED vars
  <2>1. /\ UNCHANGED <<opt, pass, target, todo, rows, record, file>>
        /\ LedgerState' = LedgerState
    BY <1>12 DEF vars, callVars, diskVars, LedgerState
  <2>2. QED
    BY <1>2, <2>1, FateUnseen
<1>13. QED
  BY <1>3, <1>4, <1>5, <1>6, <1>7, <1>8, <1>9, <1>10, <1>11, <1>12 DEF Next, Step

\* A first call starts with every field out, over a file that shows the source.
LEMMA LedgerInit ==
  ASSUME MetadataAssumption, Init
  PROVE  Ledger!Init
<1>1. /\ pass = 1 /\ phase = "visit" /\ rows = <<>> /\ todo = {} /\ file = Original
      /\ opt.append \in BOOLEAN
  BY DEF Init
<1>2. LedgerState = "working"
  BY <1>1 DEF LedgerState
<1>3. \A f : RowsOf(f) = {}
  BY <1>1 DEF RowsOf
<1>4. Fate = [f \in Targeted |-> "out"]
  BY <1>1, <1>3 DEF Fate
<1>5. ASSUME NEW f \in Targeted
      PROVE  TextOf(Original, f) = 0
  <2>1. f \in 1 .. Len(Original) /\ Original[f].id = <<f>>
    BY OriginalRecord DEF Targeted, Fields
  <2>2. f < Len(Original) => Len(Original[f + 1].id) = 1
    BY <2>1, OriginalRecord
  <2>3. Record(Original, 0)
    BY OriginalRecord
  <2>4. TextOf(Original, f) = IF opt.append
                                THEN IF f < Len(Original) /\ Len(Original[f + 1].id) > 1
                                       THEN Original[f + 1].text.pass ELSE 0
                                ELSE Original[f].text.pass
    BY <2>1, <2>3, TextAt
  <2>5. QED
    BY <2>1, <2>2, <2>4, OriginalRecord DEF Source
<1>6. Published = [f \in Targeted |-> 0]
  BY <1>1, <1>5 DEF Published
<1>7. QED
  BY <1>1, <1>2, <1>4, <1>6 DEF Ledger!Init, Published

\* With one target language and no element named by two XPaths, visits, writes into the
\* record, flags and re-run rounds are invisible outside: the file changes only at once,
\* by the save of process_amcr, from a pass that gave every targeted field its fate, and
\* a field is left out only if it carries the translation of an earlier append pass.
THEOREM LedgerImplemented ==
  ASSUME OneTarget, NamedOnce
  PROVE  Spec => ImplementsLedger
<1>1. Init => Ledger!Init
  BY LedgerInit, MetadataAssumption
<1>2. Init => CarryInv
  BY CarryInit, MetadataAssumption
<1>3. BaseInv /\ BaseInv' /\ PairInv /\ OnceInv /\ CarryInv /\ [Next]_vars => CarryInv'
  BY CarryNext, OneTarget, MetadataAssumption DEF OnceInv
<1>4. BaseInv /\ PairInv /\ OnceInv /\ CarryInv => FieldInv /\ FateIs
  BY FateAlways, OneTarget, MetadataAssumption DEF FieldInv
<1>5. FieldInv /\ FateIs /\ FieldInv' /\ FateIs' /\ [Next]_vars
        => [Ledger!Next]_(Ledger!vars)
  BY LedgerStep, OneTarget, MetadataAssumption
<1>6. Spec => [](BaseInv /\ PairInv)
  BY PairHolds, OneTarget
<1>7. Spec => [](BaseInv /\ OnceInv)
  BY OnceHolds, NamedOnce
<1>8. QED
  BY <1>1, <1>2, <1>3, <1>4, <1>5, <1>6, <1>7, PTL DEF Spec, ImplementsLedger, Ledger!Spec

=============================================================================
