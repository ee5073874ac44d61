------------------------ MODULE DocumentRecordProofs ------------------------
(***************************************************************************)
(* The rules of atrium_document.py for any files, lines, programs and      *)
(* sessions: the positional plane stays one originator's, a score adds     *)
(* nothing, a session keeps what others wrote, and folding two branches    *)
(* does not depend on their order.                                         *)
(***************************************************************************)
EXTENDS DocumentRecord, TLAPS

(***************************************************************************)
(* The invariant.                                                          *)
(***************************************************************************)

\* A session belongs to a program, and what a page was ever asked for is kept.
SessionInv ==
  /\ open # Closed => open.program \in Programs
  /\ \A s \in Slots : disk[s].pages \subseteq disk[s].asked
  /\ data.pages \subseteq data.asked

\* No complaint was made of the record, and it was never written without its origin.
Uncontested(d) == ~d.warned /\ ~d.unsourced

\* The text and the origin of one line are the originator's, or OCR's on a page that
\* was flagged for it.
TextPlaced(d, k) ==
  \/ d.lines[k].text = None \/ Canonical(d.lines[k].text) = Originator(d.origin)
  \/ Canonical(d.lines[k].text) = Ocr /\ k[1] \in d.asked

RowPlaced(d, k) ==
  Canonical(d.lines[k].by) = Ocr => Originator(d.origin) = Ocr \/ k[1] \in d.asked

\* The remembered write covers the text of a line.
Covers(h, k) ==
  /\ h.held
  /\ h.fields = Wholesale \/ "text" \in h.fields
  /\ h.pages = Anywhere \/ k[1] \in h.pages

\* A record in a file: without an origin no originator has written lines into it.
FilePlane(d) ==
  Uncontested(d) => \A k \in Keys :
    /\ d.origin = None => d.lines[k].text = None
    /\ Originator(d.origin) # None => TextPlaced(d, k)
    /\ d.origin = None /\ ~d.late => Canonical(d.lines[k].by) # Ocr
    /\ Originator(d.origin) # None /\ ~d.late => RowPlaced(d, k)

\* A session's copy: without an origin the text is its own, and remembered.
CopyPlane ==
  open # Closed /\ Uncontested(data) => \A k \in Keys :
    /\ data.origin = None =>
         \/ data.lines[k].text = None
         \/ /\ data.lines[k].text = open.program /\ open.program \in Candidates
            /\ Covers(open.deferred["lines"], k)
    /\ Originator(data.origin) # None => TextPlaced(data, k)
    /\ data.origin = None /\ ~data.late /\ ~open.deferred["lines"].held =>
         Canonical(data.lines[k].by) # Ocr
    /\ Originator(data.origin) # None /\ ~data.late => RowPlaced(data, k)

PlaneInv == CopyPlane /\ \A s \in Slots : FilePlane(disk[s])

\* A stamp's time names the write: records that share it share the block.
SameWrite(a, b) ==
  /\ \A x \in Blocks : a.stamps[x].at = b.stamps[x].at => a.stamps[x] = b.stamps[x]
  /\ a.stamps["pages"].at = b.stamps["pages"].at => a.pages = b.pages
  /\ a.stamps["lines"].at = b.stamps["lines"].at => a.lines = b.lines
  /\ a.stamps["content"].at = b.stamps["content"].at => a.content = b.content

StampInv ==
  /\ open # Closed => sessions > 0
  /\ \A s \in Slots : SameWrite(disk[s], data) /\ SameWrite(disk[s], Blank)
  /\ \A s, t \in Slots : SameWrite(disk[s], disk[t])
  /\ SameWrite(data, Blank)
  /\ \A x \in Blocks :
       /\ data.stamps[x].at <= sessions
       /\ \A s \in Slots : disk[s].stamps[x].at <= sessions
                        /\ (open # Closed => disk[s].stamps[x].at < sessions)

\* What the session's record owes to the one it was opened on.
SurviveInv == open # Closed /\ ~data.warned => Survives(base, data)

-----------------------------------------------------------------------------
(***************************************************************************)
(* Shapes.                                                                 *)
(***************************************************************************)
Rows     == [{"by"} \cup Fields -> Programs \cup {None}]
Held     == [ held : BOOLEAN, fields : (SUBSET (Fields \cup {"needs_ocr"})) \cup {Wholesale},
              pages : (SUBSET Pages) \cup {Anywhere} ]
Deferral == [Blocks -> Held]
Session  == [program : Programs \cup {None}, replaced : SUBSET Pages, deferred : Deferral]

\* The rows that are written are rows.
LEMMA RowTypes ==
  ASSUME NEW lines \in [Keys -> Rows], NEW keys, NEW fields \in SUBSET Fields, open.program \in Programs
  PROVE  /\ NoRow \in Rows
         /\ Merged(lines, keys, fields) \in [Keys -> Rows]
         /\ \A k \in Keys : LET row == Merged(lines, keys, fields)[k] IN
              /\ row.text = IF /\ k \in keys /\ "text" \in fields
                               /\ Exists(lines[k]) \/ ~Scoring(data, open.program, "lines", fields)
                            THEN open.program ELSE lines[k].text
              /\ row.lemma # lines[k].lemma => k \in keys /\ "lemma" \in fields
              /\ row.by = IF /\ k \in keys /\ ~Exists(lines[k])
                             /\ ~Scoring(data, open.program, "lines", fields)
                          THEN open.program ELSE lines[k].by
<1>1. NoRow \in Rows
  BY DEF NoRow, Rows, Fields, None
<1> DEFINE Write(row) == [f \in DOMAIN row |->
             IF f \in fields \/ (f = "by" /\ ~Exists(row)) THEN open.program ELSE row[f]]
           hit(k) == k \in keys /\ (Exists(lines[k]) \/ ~Scoring(data, open.program, "lines", fields))
<1>2. Merged(lines, keys, fields) = [k \in Keys |-> IF hit(k) THEN Write(lines[k]) ELSE lines[k]]
  BY DEF Merged
<1>3. ASSUME NEW row \in Rows
      PROVE  /\ Write(row) \in Rows
             /\ Write(row).text = IF "text" \in fields THEN open.program ELSE row.text
             /\ Write(row).lemma = IF "lemma" \in fields THEN open.program ELSE row.lemma
             /\ Write(row).by = IF ~Exists(row) THEN open.program ELSE row.by
  BY DEF Rows, Fields
<1> HIDE DEF Write
<1>4. Merged(lines, keys, fields) \in [Keys -> Rows]
  BY <1>2, <1>3
<1>5. ASSUME NEW k \in Keys
      PROVE  LET row == Merged(lines, keys, fields)[k] IN
              /\ row.text = IF hit(k) /\ "text" \in fields THEN open.program ELSE lines[k].text
              /\ row.lemma # lines[k].lemma => k \in keys /\ "lemma" \in fields
              /\ row.by = IF hit(k) /\ ~Exists(lines[k]) THEN open.program ELSE lines[k].by
  <2>1. Merged(lines, keys, fields)[k] = IF hit(k) THEN Write(lines[k]) ELSE lines[k]
    BY <1>2
  <2>2. lines[k] \in Rows
    OBVIOUS
  <2>3. QED
    BY <1>3, <2>1, <2>2
<1>6. QED
  BY <1>1, <1>4, <1>5

\* A record is a record, and putting a stamp, an origin or a warning on it leaves one.
LEMMA RecordShape ==
  ASSUME NEW d \in Records
  PROVE  /\ d.origin \in Origins \cup {None} /\ d.pages \subseteq Pages /\ d.asked \subseteq Pages
         /\ d.lines \in [Keys -> Rows] /\ d.content \in Candidates \cup {None}
         /\ d.stamps \in [Blocks -> [program : Programs \cup {None},
                                     contribution : {None, "scoring", "ocr-handoff"}, at : Nat]]
         /\ d.warned \in BOOLEAN /\ d.unsourced \in BOOLEAN /\ d.late \in BOOLEAN
  BY DEF Records, Rows

\* What is on a record after a write: its stamp, and whether the write was warned about.
Stamped(d, e, block, faulty) ==
  /\ d \in Records /\ d.warned = faulty
  /\ d.origin = e.origin /\ d.pages = e.pages /\ d.asked = e.asked /\ d.lines = e.lines
  /\ d.content = e.content /\ d.unsourced = e.unsourced /\ d.late = e.late
  /\ d.stamps[block].at = sessions
  /\ \A x \in Blocks \ {block} : d.stamps[x] = e.stamps[x]

\* A stamp changes its block's entry and nothing else.
LEMMA StampShape ==
  ASSUME NEW e \in Records, NEW block \in Blocks, open.program \in Programs, sessions \in Nat,
         NEW mark \in {None, "scoring", "ocr-handoff"}, NEW faulty \in BOOLEAN
  PROVE  Stamped([Stamp(e, block, mark) EXCEPT !.warned = faulty], e, block, faulty)
<1> DEFINE stamp == [program |-> open.program, contribution |-> mark, at |-> sessions]
           d == [Stamp(e, block, mark) EXCEPT !.warned = faulty]
<1>1. d = [[e EXCEPT !.stamps[block] = stamp] EXCEPT !.warned = faulty]
  BY DEF Stamp
<1>2. stamp \in [program : Programs \cup {None},
                 contribution : {None, "scoring", "ocr-handoff"}, at : Nat]
  OBVIOUS
<1>3. stamp.at = sessions
  OBVIOUS
<1> HIDE DEF stamp
<1>4. d \in Records
  <2> DEFINE S == [e.stamps EXCEPT ![block] = stamp]
  <2>1. S \in [Blocks -> [program : Programs \cup {None},
                          contribution : {None, "scoring", "ocr-handoff"}, at : Nat]]
    BY <1>2, RecordShape
  <2>2. d = [[e EXCEPT !.stamps = S] EXCEPT !.warned = faulty]
    BY <1>1 DEF Records
  <2> HIDE DEF S
  <2>3. [e EXCEPT !.stamps = S] \in Records
    BY <2>1 DEF Records
  <2>4. QED
    BY <2>2, <2>3 DEF Records
<1>5. d.stamps[block].at = sessions
  BY <1>1, <1>3 DEF Records
<1>6. /\ d.warned = faulty
      /\ d.origin = e.origin /\ d.pages = e.pages /\ d.asked = e.asked /\ d.lines = e.lines
      /\ d.content = e.content /\ d.unsourced = e.unsourced /\ d.late = e.late
      /\ \A x \in Blocks \ {block} : d.stamps[x] = e.stamps[x]
  BY <1>1 DEF Records
<1>7. QED
  BY <1>4, <1>5, <1>6 DEF Stamped

-----------------------------------------------------------------------------
(***************************************************************************)
(* What a writing call does: every merge_block, replace_page_rows and      *)
(* set_block is a write in this sense.                                     *)
(***************************************************************************)

\* The open program may place the text of a line: it is the originator, or OCR on a
\* flagged page.
MayPlace(d, k) ==
  /\ open.program \in Candidates
  /\ Originator(data.origin) # None =>
       \/ Canonical(open.program) = Originator(data.origin)
       \/ Canonical(open.program) = Ocr /\ k[1] \in d.asked

LineWritten(d, deferred, replaced, k) ==
  LET old == data.lines[k]
      row == d.lines[k]
  IN  /\ \/ row.text = old.text
         \/ row.text = None /\ k[1] \in replaced
         \/ /\ row.text = open.program /\ MayPlace(d, k)
            /\ data.origin = None => Covers(deferred["lines"], k)
      /\ \/ row.by = old.by
         \/ row.by = None /\ k[1] \in replaced
         \/ /\ row.by = open.program
            /\ ~Exists(old) \/ k[1] \in replaced
            /\ Canonical(open.program) = Ocr =>
                 MayPlace(d, k) /\ (data.origin = None => deferred["lines"].held)
      /\ row.lemma # old.lemma => k[1] \in replaced \/ open.program = "nlp-enrich"

Remembers(deferred) ==
  /\ \A k \in Keys : Covers(open.deferred["lines"], k) => Covers(deferred["lines"], k)
  /\ open.deferred["lines"].held => deferred["lines"].held

StampedWrite(d) ==
  /\ \A x \in Blocks : d.stamps[x] = data.stamps[x] \/ d.stamps[x].at = sessions
  /\ d.stamps["pages"].at # sessions => d.pages = data.pages
  /\ d.stamps["lines"].at # sessions => d.lines = data.lines
  /\ d.stamps["content"].at # sessions => d.content = data.content

Written(d, deferred, replaced) ==
  /\ d \in Records /\ deferred \in Deferral /\ replaced \subseteq Pages
  /\ d.origin = data.origin /\ d.late = data.late /\ d.unsourced = data.unsourced
  /\ data.asked \subseteq d.asked /\ d.pages \subseteq d.asked
  /\ ~d.warned => /\ \A k \in Keys : LineWritten(d, deferred, replaced, k)
                  /\ d.content = data.content \/ ~OthersPlane(data, open.program)
  /\ data.origin = None => Remembers(deferred)
  /\ StampedWrite(d)

\* The session the calls are made in.
InSession ==
  /\ open \in Session /\ open.program \in Programs
  /\ open.deferred \in Deferral /\ open.replaced \subseteq Pages
  /\ data \in Records /\ sessions \in Nat /\ data.pages \subseteq data.asked
  /\ ~data.warned

\* What is remembered of a write grows.
LEMMA DeferredGrows ==
  ASSUME InSession, NEW block \in Blocks,
         NEW fields \in (SUBSET (Fields \cup {"needs_ocr"})) \cup {Wholesale},
         NEW pages \in (SUBSET Pages) \cup {Anywhere}
  PROVE  /\ Deferred(block, fields, pages) \in Deferral
         /\ Remembers(Deferred(block, fields, pages))
         /\ block = "lines" /\ data.origin = None /\ open.program \in Candidates =>
              /\ Deferred(block, fields, pages)["lines"].held
              /\ \A k \in Keys :
                   (fields = Wholesale \/ "text" \in fields) /\ (pages = Anywhere \/ k[1] \in pages) =>
                     Covers(Deferred(block, fields, pages)["lines"], k)
<1> DEFINE old == open.deferred[block]
           h == Hold(old, fields, pages)
           F == (SUBSET (Fields \cup {"needs_ocr"})) \cup {Wholesale}
           P == (SUBSET Pages) \cup {Anywhere}
<1>1. old.held \in BOOLEAN /\ old.fields \in F /\ old.pages \in P /\ open.deferred \in [Blocks -> Held]
  BY DEF InSession, Deferral, Held
<1>2. /\ h.held = TRUE
      /\ h.fields = IF Wholesale \in {old.fields, fields} THEN Wholesale ELSE old.fields \cup fields
      /\ h.pages = IF Anywhere \in {old.pages, pages} THEN Anywhere ELSE old.pages \cup pages
      /\ h = [held |-> TRUE, fields |-> h.fields, pages |-> h.pages]
  BY DEF Hold
<1>3. h.fields \in F
  BY <1>1, <1>2
<1>4. h.pages \in P
  BY <1>1, <1>2
<1> HIDE DEF F, P
<1>5. h \in Held
  <2>1. Held = [held : BOOLEAN, fields : F, pages : P]
    BY DEF Held, F, P
  <2>2. QED
    BY <1>2, <1>3, <1>4, <2>1
<1>6. ASSUME NEW k \in Keys, Covers(old, k) PROVE Covers(h, k)
  BY <1>2, <1>6 DEF Covers
<1>7. ASSUME NEW k \in Keys, fields = Wholesale \/ "text" \in fields, pages = Anywhere \/ k[1] \in pages
      PROVE  Covers(h, k)
  BY <1>2, <1>7 DEF Covers
<1>8. h.held
  BY <1>2
<1> HIDE DEF h, old
<1>9. Deferred(block, fields, pages) =
        IF data.origin = None /\ open.program \in Candidates
          THEN [open.deferred EXCEPT ![block] = h] ELSE open.deferred
  BY DEF Deferred, h, old
<1>10. Deferred(block, fields, pages) \in Deferral
  BY <1>1, <1>5, <1>9 DEF Deferral
<1>11. \/ Deferred(block, fields, pages)["lines"] = open.deferred["lines"]
       \/ block = "lines" /\ Deferred(block, fields, pages)["lines"] = h
  <2>1. [open.deferred EXCEPT ![block] = h]["lines"] =
          IF block = "lines" THEN h ELSE open.deferred["lines"]
    BY <1>1 DEF Blocks
  <2>2. QED
    BY <1>9, <2>1
<1>12. Remembers(Deferred(block, fields, pages))
  BY <1>6, <1>8, <1>11 DEF Remembers, old
<1>13. ASSUME block = "lines", data.origin = None, open.program \in Candidates
       PROVE  Deferred(block, fields, pages)["lines"] = h
  BY <1>1, <1>9, <1>13 DEF Blocks
<1>14. QED
  BY <1>7, <1>8, <1>10, <1>12, <1>13

\* A write the origin check let pass, of more than a score, may place its lines.
LEMMA AllowedPlaces ==
  ASSUME InSession, NEW fields, NEW pages, ~Refused("lines", fields, pages), open.program \in Candidates,
         "text" \in fields \/ ~Scoring(data, open.program, "lines", fields),
         NEW d, data.asked \subseteq d.asked, NEW k \in Keys, k[1] \in pages
  PROVE  MayPlace(d, k)
<1> SUFFICES ASSUME Originator(data.origin) # None
             PROVE  \/ Canonical(open.program) = Originator(data.origin)
                    \/ Canonical(open.program) = Ocr /\ k[1] \in d.asked
  BY DEF MayPlace
<1>1. data.origin # None
  BY DEF Originator, None
<1>2. OriginAllows(data, open.program, "lines", fields, pages)
  BY <1>1 DEF Refused
<1>3. CASE ~OthersPlane(data, open.program)
  BY <1>3 DEF OthersPlane
<1>4. CASE OthersPlane(data, open.program)
  <2>1. ~ScoreOnly(open.program, "lines", fields)
    BY <1>4 DEF Scoring, ScoreOnly, ScoringFields
  <2>2. QED
    BY <1>2, <1>4, <2>1 DEF OriginAllows, InSession
<1>5. QED
  BY <1>3, <1>4

\* A merge of lines onto these rows is a write of lines.
LEMMA MergeWrites ==
  ASSUME InSession, NEW lines \in [Keys -> Rows], NEW keys \in SUBSET Keys, NEW pages \in SUBSET Pages,
         PagesOf(keys) \subseteq pages, NEW fields \in Narrowed(open.program), NEW replaced \in SUBSET Pages,
         NEW faulty \in BOOLEAN, Refused("lines", fields, pages) => faulty,
         \A k \in Keys : lines[k] = data.lines[k] \/ (lines[k] = NoRow /\ k[1] \in replaced)
  PROVE  Written([Stamp([data EXCEPT !.lines = Merged(lines, keys, fields)], "lines",
                        Mark("lines", fields, pages)) EXCEPT !.warned = faulty],
                 Deferred("lines", fields, pages), replaced)
<1> DEFINE e == [data EXCEPT !.lines = Merged(lines, keys, fields)]
           d == [Stamp(e, "lines", Mark("lines", fields, pages)) EXCEPT !.warned = faulty]
           deferred == Deferred("lines", fields, pages)
<1>1. /\ fields \in SUBSET Fields
      /\ "text" \in fields => open.program \in Candidates
      /\ "lemma" \in fields => open.program \notin Candidates
  BY DEF Narrowed, Grant, Fields
<1>2. fields \in (SUBSET (Fields \cup {"needs_ocr"})) \cup {Wholesale} /\ pages \in (SUBSET Pages) \cup {Anywhere}
  BY <1>1
<1>3. e \in Records /\ e.lines = Merged(lines, keys, fields)
      /\ e.origin = data.origin /\ e.late = data.late /\ e.unsourced = data.unsourced
      /\ e.asked = data.asked /\ e.pages = data.pages /\ e.content = data.content /\ e.stamps = data.stamps
  <2>1. Merged(lines, keys, fields) \in [Keys -> Rows]
    BY <1>1, RowTypes DEF InSession
  <2>2. QED
    BY <2>1 DEF InSession, Records, Rows
<1> HIDE DEF e
<1>4. Mark("lines", fields, pages) \in {None, "scoring", "ocr-handoff"} /\ "lines" \in Blocks
  BY DEF Mark, Blocks
<1>5. /\ d \in Records /\ d.warned = faulty /\ d.lines = e.lines
      /\ d.origin = data.origin /\ d.late = data.late /\ d.unsourced = data.unsourced
      /\ d.asked = data.asked /\ d.pages = data.pages /\ d.content = data.content
      /\ d.stamps["lines"].at = sessions
      /\ \A x \in Blocks \ {"lines"} : d.stamps[x] = data.stamps[x]
  <2>1. Stamped(d, e, "lines", faulty)
    BY <1>3, <1>4, StampShape DEF InSession
  <2>2. QED
    BY <1>3, <2>1 DEF Stamped
<1> HIDE DEF d
<1>6. /\ deferred \in Deferral /\ Remembers(deferred)
      /\ data.origin = None /\ open.program \in Candidates =>
              /\ deferred["lines"].held
              /\ \A k \in Keys : "text" \in fields /\ k[1] \in pages => Covers(deferred["lines"], k)
  BY <1>2, <1>4, DeferredGrows
<1> HIDE DEF deferred
<1>7. ASSUME NEW k \in Keys, ~faulty PROVE LineWritten(d, deferred, replaced, k)
  <2> DEFINE row == Merged(lines, keys, fields)[k]
             hit == k \in keys /\ (Exists(lines[k]) \/ ~Scoring(data, open.program, "lines", fields))
  <2>1. /\ row.text = IF hit /\ "text" \in fields THEN open.program ELSE lines[k].text
        /\ row.lemma # lines[k].lemma => "lemma" \in fields
        /\ row.by = IF k \in keys /\ ~Exists(lines[k]) /\ ~Scoring(data, open.program, "lines", fields)
                    THEN open.program ELSE lines[k].by
    BY <1>1, RowTypes DEF InSession
  <2>2. d.lines[k] = row
    BY <1>3, <1>5
  <2> HIDE DEF row
  <2>3. \/ lines[k] = data.lines[k]
        \/ lines[k].text = None /\ lines[k].by = None /\ lines[k].lemma = None /\ k[1] \in replaced
    BY DEF NoRow
  <2>4. k \in keys => k[1] \in pages
    BY DEF PagesOf
  <2>5. data.asked \subseteq d.asked
    BY <1>5
  <2>6. ~Refused("lines", fields, pages)
    BY <1>7
  <2>7. ASSUME k \in keys, "text" \in fields PROVE MayPlace(d, k)
    BY <1>1, <2>4, <2>5, <2>6, <2>7, AllowedPlaces
  <2>8. ASSUME k \in keys, ~Scoring(data, open.program, "lines", fields), Canonical(open.program) = Ocr
        PROVE  MayPlace(d, k) /\ (data.origin = None => deferred["lines"].held)
    <3>1. open.program \in Candidates
      BY <2>8 DEF Canonical, Candidates, Ocr
    <3>2. QED
      BY <1>6, <2>4, <2>5, <2>6, <2>8, <3>1, AllowedPlaces
  <2>9. \/ row.text = data.lines[k].text
        \/ row.text = None /\ k[1] \in replaced
        \/ row.text = open.program /\ MayPlace(d, k) /\ (data.origin = None => Covers(deferred["lines"], k))
    BY <1>1, <1>6, <2>1, <2>3, <2>4, <2>7
  <2>10. \/ row.by = data.lines[k].by
         \/ row.by = None /\ k[1] \in replaced
         \/ /\ row.by = open.program
            /\ ~Exists(data.lines[k]) \/ k[1] \in replaced
            /\ Canonical(open.program) = Ocr =>
                 MayPlace(d, k) /\ (data.origin = None => deferred["lines"].held)
    BY <2>1, <2>3, <2>8
  <2>11. row.lemma # data.lines[k].lemma => k[1] \in replaced \/ open.program = "nlp-enrich"
    BY <1>1, <2>1, <2>3, RecordAssumption DEF InSession, RecordAssumption
  <2>12. QED
    BY <2>2, <2>9, <2>10, <2>11 DEF LineWritten
<1>8. StampedWrite(d)
  BY <1>5 DEF StampedWrite, Blocks
<1>9. d.pages \subseteq d.asked
  BY <1>5 DEF InSession
<1>10. Written(d, deferred, replaced)
  BY <1>5, <1>6, <1>7, <1>8, <1>9 DEF Written
<1>11. QED
  BY <1>10 DEF d, deferred, e

\* A wholesale write is remembered as one.
LEMMA WholesaleShape ==
  /\ Wholesale \in (SUBSET (Fields \cup {"needs_ocr"})) \cup {Wholesale}
  /\ Anywhere \in (SUBSET Pages) \cup {Anywhere}
  /\ None \in {None, "scoring", "ocr-handoff"} /\ "lines" \in Blocks
<1>1. Wholesale \in (SUBSET (Fields \cup {"needs_ocr"})) \cup {Wholesale}
  OBVIOUS
<1>2. Anywhere \in (SUBSET Pages) \cup {Anywhere}
  OBVIOUS
<1>3. "lines" \in Blocks /\ None \in {None, "scoring", "ocr-handoff"}
  BY DEF Blocks
<1>4. QED
  BY <1>1, <1>2, <1>3

\* A call that writes the page rows or the content is a write that leaves the lines.
LEMMA OtherWrites ==
  ASSUME InSession, open.program \in Candidates, NEW e \in Records, NEW block \in {"pages", "content"},
         NEW fields \in (SUBSET (Fields \cup {"needs_ocr"})) \cup {Wholesale},
         NEW pages \in (SUBSET Pages) \cup {Anywhere}, NEW mark \in {None, "scoring", "ocr-handoff"},
         NEW faulty \in BOOLEAN,
         e.origin = data.origin, e.late = data.late, e.unsourced = data.unsourced,
         e.lines = data.lines, e.stamps = data.stamps,
         data.asked \subseteq e.asked, e.pages \subseteq e.asked,
         block # "pages" => e.pages = data.pages,
         block # "content" => e.content = data.content,
         faulty \/ e.content = data.content \/ ~OthersPlane(data, open.program)
  PROVE  Written([Stamp(e, block, mark) EXCEPT !.warned = faulty], Deferred(block, fields, pages), {})
<1> DEFINE d == [Stamp(e, block, mark) EXCEPT !.warned = faulty]
<1>1. block \in Blocks
  BY DEF Blocks
<1>2. /\ d \in Records /\ d.warned = faulty
      /\ d.origin = e.origin /\ d.pages = e.pages /\ d.asked = e.asked /\ d.lines = e.lines
      /\ d.content = e.content /\ d.unsourced = e.unsourced /\ d.late = e.late
      /\ d.stamps[block].at = sessions
      /\ \A x \in Blocks \ {block} : d.stamps[x] = e.stamps[x]
  <2>1. Stamped(d, e, block, faulty)
    BY <1>1, StampShape DEF InSession
  <2>2. QED
    BY <2>1 DEF Stamped
<1> HIDE DEF d
<1>3. Deferred(block, fields, pages) \in Deferral /\ Remembers(Deferred(block, fields, pages))
  BY <1>1, DeferredGrows
<1>4. StampedWrite(d)
  BY <1>2 DEF StampedWrite, Blocks
<1>5. \A k \in Keys : LineWritten(d, Deferred(block, fields, pages), {}, k)
  BY <1>2 DEF LineWritten
<1>6. ~d.warned => d.content = data.content \/ ~OthersPlane(data, open.program)
  BY <1>2
<1>7. Written(d, Deferred(block, fields, pages), {})
  BY <1>2, <1>3, <1>4, <1>5, <1>6 DEF Written
<1>8. QED
  BY <1>7 DEF d

Writing == \E d, deferred, replaced : Written(d, deferred, replaced) /\ Becomes(d, deferred, replaced)

\* set_block("content").
LEMMA ContentWrites ==
  ASSUME InSession, SetContent
  PROVE  Raise \/ Writing
<1> DEFINE e == [data EXCEPT !.content = open.program]
           faulty == data.origin # None
                       /\ ~OriginAllows(data, open.program, "content", Wholesale, Anywhere)
<1>1. open.program \in Candidates /\ faulty \in BOOLEAN
  BY DEF SetContent
<1>2. /\ e \in Records
      /\ e.origin = data.origin /\ e.late = data.late /\ e.unsourced = data.unsourced
      /\ e.lines = data.lines /\ e.stamps = data.stamps /\ e.asked = data.asked /\ e.pages = data.pages
  BY <1>1 DEF InSession, Records
<1>3. faulty \/ ~OthersPlane(data, open.program)
  <2>1. OthersPlane(data, open.program) => data.origin # None
    BY DEF OthersPlane, Originator, None
  <2>2. ~ScoreOnly(open.program, "content", Wholesale)
    BY DEF ScoreOnly
  <2>3. QED
    BY <1>1, <2>1, <2>2 DEF OriginAllows
<1>4. /\ Wholesale \in (SUBSET (Fields \cup {"needs_ocr"})) \cup {Wholesale}
      /\ Anywhere \in (SUBSET Pages) \cup {Anywhere}
      /\ None \in {None, "scoring", "ocr-handoff"} /\ "lines" \in Blocks
  BY WholesaleShape
<1>5. Raise \/ Becomes([Stamp(e, "content", None) EXCEPT !.warned = faulty],
                       Deferred("content", Wholesale, Anywhere), {})
  BY DEF SetContent, Complaining
<1> HIDE DEF e, faulty
<1>6. data.pages \subseteq data.asked
  BY DEF InSession
<1>7. Written([Stamp(e, "content", None) EXCEPT !.warned = faulty],
              Deferred("content", Wholesale, Anywhere), {})
  BY <1>1, <1>2, <1>3, <1>4, <1>6, OtherWrites
<1>8. QED
  BY <1>5, <1>7 DEF Writing

\* merge_block("pages").
LEMMA PagesWrite ==
  ASSUME InSession, NEW pages \in SUBSET Pages, NEW flag \in BOOLEAN, MergePages(pages, flag)
  PROVE  Raise \/ Writing
<1> DEFINE e == [data EXCEPT !.pages = IF flag THEN @ \cup pages ELSE @ \ pages,
                             !.asked = IF flag THEN @ \cup pages ELSE @]
           faulty == Refused("pages", {"needs_ocr"}, pages)
           mark == Mark("pages", {"needs_ocr"}, pages)
<1>1. open.program \in Candidates /\ faulty \in BOOLEAN
  BY DEF MergePages, Refused
<1>2. /\ e \in Records
      /\ e.origin = data.origin /\ e.late = data.late /\ e.unsourced = data.unsourced
      /\ e.lines = data.lines /\ e.stamps = data.stamps /\ e.content = data.content
  BY DEF InSession, Records
<1>3. data.asked \subseteq e.asked /\ e.pages \subseteq e.asked
  BY DEF InSession, Records
<1>4. {"needs_ocr"} \in (SUBSET (Fields \cup {"needs_ocr"})) \cup {Wholesale}
      /\ pages \in (SUBSET Pages) \cup {Anywhere} /\ mark \in {None, "scoring", "ocr-handoff"}
  BY DEF Mark
<1>5. Raise \/ Becomes([Stamp(e, "pages", mark) EXCEPT !.warned = faulty],
                       Deferred("pages", {"needs_ocr"}, pages), {})
  BY DEF MergePages, Complaining
<1> HIDE DEF e, faulty, mark
<1>6. Written([Stamp(e, "pages", mark) EXCEPT !.warned = faulty],
              Deferred("pages", {"needs_ocr"}, pages), {})
  BY <1>1, <1>2, <1>3, <1>4, OtherWrites
<1>7. QED
  BY <1>5, <1>6 DEF Writing

\* set_block("lines") always complains.
LEMMA LinesWrite ==
  ASSUME InSession, SetLines
  PROVE  Raise \/ Writing
<1> DEFINE row == [NoRow EXCEPT !.by = open.program, !.text = open.program]
           e == [data EXCEPT !.lines = [k \in Keys |-> row]]
           faulty == TRUE
           d == [Stamp(e, "lines", None) EXCEPT !.warned = faulty]
           deferred == Deferred("lines", Wholesale, Anywhere)
<1>1. row \in Rows
  <2>1. NoRow \in Rows
    BY DEF NoRow, Rows, Fields, None
  <2>2. QED
    BY <2>1 DEF InSession, Rows, Fields
<1> HIDE DEF row
<1>2. /\ e \in Records
      /\ e.origin = data.origin /\ e.late = data.late /\ e.unsourced = data.unsourced
      /\ e.stamps = data.stamps /\ e.content = data.content
      /\ e.asked = data.asked /\ e.pages = data.pages
  BY <1>1 DEF InSession, Records, Rows
<1>3. Raise \/ Becomes(d, deferred, {})
  BY DEF SetLines, Complaining, row
<1> HIDE DEF e
<1>0. faulty \in BOOLEAN /\ (faulty <=> TRUE)
  OBVIOUS
<1> HIDE DEF faulty
<1>4. /\ Wholesale \in (SUBSET (Fields \cup {"needs_ocr"})) \cup {Wholesale}
      /\ Anywhere \in (SUBSET Pages) \cup {Anywhere}
      /\ None \in {None, "scoring", "ocr-handoff"} /\ "lines" \in Blocks
  BY WholesaleShape
<1>5. /\ d \in Records /\ d.warned = faulty
      /\ d.origin = e.origin /\ d.pages = e.pages /\ d.asked = e.asked
      /\ d.content = e.content /\ d.unsourced = e.unsourced /\ d.late = e.late
      /\ d.stamps["lines"].at = sessions
      /\ \A x \in Blocks \ {"lines"} : d.stamps[x] = e.stamps[x]
  <2>1. "lines" \in Blocks /\ None \in {None, "scoring", "ocr-handoff"}
    BY <1>4
  <2>2. e \in Records /\ open.program \in Programs /\ sessions \in Nat
    BY <1>2 DEF InSession
  <2>3. Stamped(d, e, "lines", faulty)
    BY <1>0, <2>1, <2>2, StampShape
  <2>4. QED
    BY <2>3 DEF Stamped
<1> HIDE DEF d
<1>6. deferred \in Deferral /\ Remembers(deferred)
  BY <1>4, DeferredGrows
<1> HIDE DEF deferred
<1>7. StampedWrite(d)
  BY <1>2, <1>5 DEF StampedWrite, Blocks
<1>8. Written(d, deferred, {})
  BY <1>0, <1>2, <1>5, <1>6, <1>7 DEF Written, InSession
<1>9. QED
  BY <1>3, <1>8 DEF Writing

\* merge_block("lines").
LEMMA LinesMerge ==
  ASSUME InSession, NEW keys \in SUBSET Keys, NEW fields \in Narrowed(open.program), MergeLines(keys, fields)
  PROVE  Raise \/ Writing
<1> DEFINE pages == PagesOf(keys)
           faulty == Refused("lines", fields, pages)
                       \/ (Scoring(data, open.program, "lines", fields)
                             /\ \E k \in keys : ~Exists(data.lines[k]))
           d == [Stamp([data EXCEPT !.lines = Merged(data.lines, keys, fields)], "lines",
                       Mark("lines", fields, pages)) EXCEPT !.warned = faulty]
<1>1. pages \in SUBSET Pages /\ faulty \in BOOLEAN /\ data.lines \in [Keys -> Rows]
  BY RecordShape DEF PagesOf, Pages, InSession
<1>2. Raise \/ Becomes(d, Deferred("lines", fields, pages), {})
  BY DEF MergeLines, Complaining
<1>3. Refused("lines", fields, pages) => faulty
  OBVIOUS
<1> HIDE DEF faulty
<1>4. Written(d, Deferred("lines", fields, pages), {})
  BY <1>1, <1>3, MergeWrites
<1>5. QED
  BY <1>2, <1>4 DEF Writing

\* replace_page_rows("lines").
LEMMA RowsReplace ==
  ASSUME InSession, NEW pages \in SUBSET Pages, NEW keys \in SUBSET Keys, ReplacePageRows(pages, keys)
  PROVE  Raise \/ Writing
<1> DEFINE fields == Grant(open.program)
           cleared == [k \in Keys |-> IF k[1] \in pages THEN NoRow ELSE data.lines[k]]
           faulty == Refused("lines", fields, pages)
           d == [Stamp([data EXCEPT !.lines = Merged(cleared, keys, fields)], "lines",
                       Mark("lines", fields, pages)) EXCEPT !.warned = faulty]
<1>1. data.lines \in [Keys -> Rows] /\ NoRow \in Rows
  BY RecordShape DEF InSession, NoRow, Rows, Fields, None
<1>2. /\ cleared \in [Keys -> Rows] /\ faulty \in BOOLEAN /\ fields \in Narrowed(open.program)
      /\ PagesOf(keys) \subseteq pages
  BY <1>1 DEF Narrowed, ReplacePageRows, Refused
<1>3. \A k \in Keys : cleared[k] = data.lines[k] \/ (cleared[k] = NoRow /\ k[1] \in pages)
  OBVIOUS
<1>4. Raise \/ Becomes(d, Deferred("lines", fields, pages), pages)
  BY DEF ReplacePageRows, Complaining
<1>5. Refused("lines", fields, pages) => faulty
  OBVIOUS
<1> HIDE DEF faulty, cleared, fields
<1>6. Written(d, Deferred("lines", fields, pages), pages)
  BY <1>2, <1>3, <1>5, MergeWrites
<1>7. QED
  BY <1>4, <1>6 DEF Writing

\* So a call raises, writes, or states the origin.
LEMMA CallsWrite ==
  ASSUME InSession, Call
  PROVE  Raise \/ Writing \/ \E o \in Origins : SetSource(o)
<1>1. \A keys \in Batches : keys \in SUBSET Keys /\ PagesOf(keys) \in SUBSET Pages
  BY RecordAssumption DEF RecordAssumption, PagesOf, Pages
<1>2. ASSUME NEW keys \in Batches, NEW fields \in Narrowed(open.program), MergeLines(keys, fields)
      PROVE  Raise \/ Writing
  BY <1>1, <1>2, LinesMerge
<1>3. ASSUME NEW keys \in Batches, NEW flag \in BOOLEAN, MergePages(PagesOf(keys), flag)
      PROVE  Raise \/ Writing
  BY <1>1, <1>3, PagesWrite
<1>4. ASSUME NEW keys \in Batches, NEW rows \in Batches \cup {{}}, ReplacePageRows(PagesOf(keys), rows)
      PROVE  Raise \/ Writing
  <2>1. rows \in SUBSET Keys
    BY <1>1
  <2>2. QED
    BY <1>1, <1>4, <2>1, RowsReplace
<1>5. QED
  BY <1>2, <1>3, <1>4, ContentWrites, LinesWrite DEF Call

-----------------------------------------------------------------------------
(***************************************************************************)
(* Stating the origin, folding, and the shape of every step.               *)
(***************************************************************************)

\* What set_source leaves once the origin is new: the remembered writes are judged.
Stated(d, o) ==
  /\ d \in Records /\ data.origin = None /\ d.origin = o
  /\ d.pages = data.pages /\ d.lines = data.lines /\ d.content = data.content
  /\ d.stamps = data.stamps /\ d.asked = data.asked /\ d.unsourced = data.unsourced
  /\ ~d.late => ~data.late /\ \A x \in Blocks : ~open.deferred[x].held
  /\ ~d.warned => \A x \in Blocks : open.deferred[x].held =>
       OriginAllows(d, open.program, x, open.deferred[x].fields, open.deferred[x].pages)

\* Stating the origin is refused, changes nothing, or makes the checks that were waiting.
LEMMA SourceStated ==
  ASSUME InSession, NEW o \in Origins, SetSource(o)
  PROVE  \/ Raise
         \/ Becomes(data, open.deferred, {})
         \/ \E d : Stated(d, o) /\ Becomes(d, Closed.deferred, {})
<1> DEFINE held == \E x \in Blocks : open.deferred[x].held
           known == [data EXCEPT !.origin = o, !.late = @ \/ held]
           refused == \E x \in Blocks :
                        /\ open.deferred[x].held
                        /\ ~OriginAllows(known, open.program, x,
                                         open.deferred[x].fields, open.deferred[x].pages)
           d == [known EXCEPT !.warned = refused]
<1>1. \/ Raise
      \/ Becomes(data, open.deferred, {})
      \/ data.origin = None /\ Becomes(d, Closed.deferred, {})
  BY DEF SetSource, Complaining
<1>2. held \in BOOLEAN /\ refused \in BOOLEAN
  OBVIOUS
<1>3. ~held => \A x \in Blocks : ~open.deferred[x].held
  OBVIOUS
<1> HIDE DEF held
<1>4. /\ known \in Records /\ known.origin = o
      /\ known.pages = data.pages /\ known.lines = data.lines /\ known.content = data.content
      /\ known.stamps = data.stamps /\ known.asked = data.asked /\ known.unsourced = data.unsourced
  BY <1>2 DEF InSession, Records
<1>5. ~known.late => ~data.late /\ ~held
  <2>1. known.late = (data.late \/ held)
    BY DEF InSession, Records
  <2>2. QED
    BY <2>1
<1>6. ~refused => \A x \in Blocks : open.deferred[x].held =>
       OriginAllows(known, open.program, x, open.deferred[x].fields, open.deferred[x].pages)
  BY Zenon
<1> HIDE DEF known, refused
<1>7. /\ d \in Records /\ d.origin = known.origin
      /\ d.pages = known.pages /\ d.lines = known.lines /\ d.content = known.content
      /\ d.stamps = known.stamps /\ d.asked = known.asked /\ d.unsourced = known.unsourced
      /\ d.late = known.late /\ d.warned = refused
  BY <1>2, <1>4 DEF Records
<1> HIDE DEF d
<1>8. ~d.warned => ~refused
  BY <1>7, Zenon
<1>9. ~d.late => ~data.late /\ ~held
  BY <1>5, <1>7
<1>10. \A x \in Blocks : \A fields, pages :
         OriginAllows(d, open.program, x, fields, pages) <=> OriginAllows(known, open.program, x, fields, pages)
  BY <1>7 DEF OriginAllows, OthersPlane
<1>11. ~d.warned => \A x \in Blocks : open.deferred[x].held =>
         OriginAllows(d, open.program, x, open.deferred[x].fields, open.deferred[x].pages)
  BY <1>6, <1>8, <1>10
<1>12. data.origin = None => Stated(d, o)
  BY <1>3, <1>4, <1>7, <1>9, <1>11 DEF Stated
<1>13. QED
  BY <1>1, <1>12

\* What a fold takes from which record.
LEMMA FoldShape ==
  ASSUME NEW a \in Records, NEW b \in Records
  PROVE  /\ Fold(a, b) \in Records
         /\ Fold(a, b).origin = IF a.origin = None THEN b.origin ELSE a.origin
         /\ Fold(a, b).pages = IF Newer(a, b, "pages") THEN b.pages ELSE a.pages
         /\ Fold(a, b).lines = IF Newer(a, b, "lines") THEN b.lines ELSE a.lines
         /\ Fold(a, b).content = IF Newer(a, b, "content") THEN b.content ELSE a.content
         /\ \A x \in Blocks :
              Fold(a, b).stamps[x] = IF Newer(a, b, x) THEN b.stamps[x] ELSE a.stamps[x]
         /\ Fold(a, b).asked = a.asked \cup b.asked
         /\ ~Fold(a, b).warned => ~a.warned /\ ~b.warned
         /\ ~Fold(a, b).unsourced => ~a.unsourced /\ ~b.unsourced
         /\ ~Fold(a, b).late => ~a.late /\ ~b.late
<1> DEFINE f == Fold(a, b)
           S == [x \in Blocks |-> IF Newer(a, b, x) THEN b.stamps[x] ELSE a.stamps[x]]
<1>1. f = [ origin    |-> IF a.origin = None THEN b.origin ELSE a.origin,
            pages     |-> IF Newer(a, b, "pages") THEN b.pages ELSE a.pages,
            lines     |-> IF Newer(a, b, "lines") THEN b.lines ELSE a.lines,
            content   |-> IF Newer(a, b, "content") THEN b.content ELSE a.content,
            stamps    |-> S,
            asked     |-> a.asked \cup b.asked,
            warned    |-> a.warned \/ b.warned,
            unsourced |-> a.unsourced \/ b.unsourced,
            late      |-> a.late \/ b.late ]
  BY Zenon DEF Fold
<1>2. S \in [Blocks -> [program : Programs \cup {None},
                       contribution : {None, "scoring", "ocr-handoff"}, at : Nat]]
  BY RecordShape
<1>3. \A x \in Blocks : S[x] = IF Newer(a, b, x) THEN b.stamps[x] ELSE a.stamps[x]
  OBVIOUS
<1> HIDE DEF S, f
<1>4. f \in Records
  BY <1>1, <1>2 DEF Records
<1>5. /\ f.origin = IF a.origin = None THEN b.origin ELSE a.origin
      /\ f.pages = IF Newer(a, b, "pages") THEN b.pages ELSE a.pages
      /\ f.lines = IF Newer(a, b, "lines") THEN b.lines ELSE a.lines
      /\ f.content = IF Newer(a, b, "content") THEN b.content ELSE a.content
      /\ f.stamps = S /\ f.asked = a.asked \cup b.asked
  BY <1>1
<1>6. /\ f.warned = (a.warned \/ b.warned)
      /\ f.unsourced = (a.unsourced \/ b.unsourced)
      /\ f.late = (a.late \/ b.late)
  BY <1>1
<1>7. /\ ~f.warned => ~a.warned /\ ~b.warned
      /\ ~f.unsourced => ~a.unsourced /\ ~b.unsourced
      /\ ~f.late => ~a.late /\ ~b.late
  BY <1>6
<1>8. QED
  BY <1>3, <1>4, <1>5, <1>7 DEF f

\* The record without anything is a record.
LEMMA BlankShape ==
  /\ Blank \in Records
  /\ Blank.origin = None /\ Blank.pages = {} /\ Blank.asked = {} /\ Blank.content = None
  /\ \A k \in Keys : Blank.lines[k] = NoRow
  /\ \A x \in Blocks : Blank.stamps[x] = NoStamp /\ Blank.stamps[x].at = 0
<1> DEFINE S == [x \in Blocks |-> NoStamp]
           L == [k \in Keys |-> NoRow]
<1>1. S \in [Blocks -> [program : Programs \cup {None},
                       contribution : {None, "scoring", "ocr-handoff"}, at : Nat]]
  BY DEF NoStamp
<1>2. NoRow \in Rows
  BY DEF NoRow, Rows, Fields, None
<1>3. L \in [Keys -> Rows]
  BY <1>2
<1>4. /\ \A k \in Keys : L[k] = NoRow
      /\ \A x \in Blocks : S[x] = NoStamp /\ S[x].at = 0
  BY DEF NoStamp
<1>5. Blank = [ origin |-> None, pages |-> {}, lines |-> L, content |-> None, stamps |-> S,
                asked |-> {}, warned |-> FALSE, unsourced |-> FALSE, late |-> FALSE ]
  BY DEF Blank
<1> HIDE DEF S, L
<1>6. QED
  BY <1>1, <1>3, <1>4, <1>5 DEF Records, Rows

\* A session's calls change its copy and what it remembers.
LEMMA BecomesShape ==
  ASSUME InSession, NEW d, NEW deferred, NEW replaced, Becomes(d, deferred, replaced)
  PROVE  /\ data' = d /\ UNCHANGED <<disk, base, sessions>> /\ calls' = calls + 1
         /\ open' = [program |-> open.program, replaced |-> open.replaced \cup replaced, deferred |-> deferred]
         /\ open'.program = open.program /\ open'.deferred = deferred
         /\ open'.replaced = open.replaced \cup replaced /\ open' # Closed
<1>1. open' = [open EXCEPT !.deferred = deferred, !.replaced = @ \cup replaced]
  BY DEF Becomes
<1>2. open' = [program |-> open.program, replaced |-> open.replaced \cup replaced, deferred |-> deferred]
  BY <1>1 DEF InSession, Session
<1>3. open'.program # None
  BY <1>2, RecordAssumption DEF InSession, RecordAssumption, Candidates, Ocr, Converter, None
<1>4. open' # Closed
  BY <1>3 DEF Closed
<1>5. QED
  BY <1>2, <1>4 DEF Becomes

-----------------------------------------------------------------------------
(***************************************************************************)
(* The invariant holds at the start and is kept by every step.             *)
(***************************************************************************)
\* All of it.
IInv == TypeOK /\ SessionInv /\ PlaneInv /\ StampInv /\ SurviveInv

\* The types, with the session's parts named.
LEMMA TypeShape ==
  TypeOK <=> /\ disk \in [Slots -> Records] /\ data \in Records /\ base \in Records
             /\ open \in Session /\ sessions \in Nat /\ calls \in Nat
  BY DEF TypeOK, Session, Deferral, Held

\* No session is open, and nothing waits for the origin.
LEMMA ClosedShape ==
  /\ Closed \in Session /\ Closed.program = None /\ Closed.replaced = {}
  /\ Closed.deferred \in Deferral /\ \A x \in Blocks : ~Closed.deferred[x].held
<1>1. NotHeld \in Held /\ ~NotHeld.held
  BY DEF NotHeld, Held
<1>2. QED
  BY <1>1 DEF Closed, Session, Deferral

\* A call is made in a session.
LEMMA InSessionHolds ==
  ASSUME TypeOK, SessionInv, InCall
  PROVE  InSession
  BY TypeShape DEF SessionInv, InCall, InSession, Session

\* A step opens a record, raises, writes, states the origin, saves, folds or changes
\* nothing that matters.
LEMMA NextCases ==
  ASSUME TypeOK, SessionInv, [Next]_vars
  PROVE  \/ \E prog \in Programs, s \in Slots : Open(prog, s)
         \/ open # Closed /\ Raise
         \/ InSession /\ open # Closed /\ Writing
         \/ /\ InSession /\ open # Closed
            /\ \E o \in Origins : \E d : Stated(d, o) /\ Becomes(d, Closed.deferred, {})
         \/ \E s \in Slots : Finalize(s)
         \/ \E s, t, out \in Slots : FanIn(s, t, out)
         \/ UNCHANGED <<disk, open, data, base, sessions>> /\ (calls' = calls \/ calls' = calls + 1)
<1>1. ASSUME Call
      PROVE  \/ open # Closed /\ Raise
             \/ InSession /\ open # Closed /\ Writing
             \/ /\ InSession /\ open # Closed
                /\ \E o \in Origins : \E d : Stated(d, o) /\ Becomes(d, Closed.deferred, {})
             \/ UNCHANGED <<disk, open, data, base, sessions>> /\ calls' = calls + 1
  <2>1. InCall
    BY <1>1 DEF Call, SetSource, SetContent, SetLines, MergeLines, MergePages, ReplacePageRows
  <2>2. InSession /\ open # Closed
    BY <2>1, InSessionHolds DEF InCall
  <2>3. ASSUME Becomes(data, open.deferred, {})
        PROVE  UNCHANGED <<disk, open, data, base, sessions>> /\ calls' = calls + 1
    <3>1. open' = [program |-> open.program, replaced |-> open.replaced \cup {}, deferred |-> open.deferred]
      BY <2>2, <2>3, BecomesShape
    <3>2. open' = open
      BY <2>2, <3>1 DEF InSession, Session
    <3>3. QED
      BY <2>2, <2>3, <3>2, BecomesShape
  <2>4. ASSUME NEW o \in Origins, SetSource(o)
        PROVE  \/ Raise
               \/ UNCHANGED <<disk, open, data, base, sessions>> /\ calls' = calls + 1
               \/ \E d : Stated(d, o) /\ Becomes(d, Closed.deferred, {})
    BY <2>2, <2>3, <2>4, SourceStated
  <2>5. Raise \/ Writing \/ \E o \in Origins : SetSource(o)
    BY <1>1, <2>2, CallsWrite
  <2>6. QED
    BY <2>2, <2>4, <2>5
<1>2. CASE UNCHANGED vars
  BY <1>2 DEF vars
<1>3. QED
  BY <1>1, <1>2 DEF Next

\* The variables keep their shape.
LEMMA TypeStep == TypeOK /\ SessionInv /\ [Next]_vars => TypeOK'
<1> SUFFICES ASSUME TypeOK, SessionInv, [Next]_vars PROVE TypeOK'
  OBVIOUS
<1>0. /\ disk \in [Slots -> Records] /\ data \in Records /\ base \in Records
      /\ open \in Session /\ sessions \in Nat /\ calls \in Nat
  BY TypeShape
<1> USE TypeShape
<1> SUFFICES /\ disk' \in [Slots -> Records] /\ data' \in Records /\ base' \in Records
             /\ open' \in Session /\ sessions' \in Nat /\ calls' \in Nat
  BY DEF TypeOK, Session, Deferral, Held
<1>1. ASSUME NEW prog \in Programs, NEW s \in Slots, Open(prog, s)
      PROVE  /\ disk' \in [Slots -> Records] /\ data' \in Records /\ base' \in Records
             /\ open' \in Session /\ sessions' \in Nat /\ calls' \in Nat
  <2>1. open' \in Session
    BY <1>1, ClosedShape DEF Open, Session
  <2>2. QED
    BY <1>0, <1>1, <2>1 DEF Open
<1>2. CASE Raise
  BY <1>0, <1>2, ClosedShape, BlankShape DEF Raise
<1>3. ASSUME InSession, NEW d, NEW deferred, NEW replaced,
             d \in Records, deferred \in Deferral, replaced \subseteq Pages, Becomes(d, deferred, replaced)
      PROVE  /\ disk' \in [Slots -> Records] /\ data' \in Records /\ base' \in Records
             /\ open' \in Session /\ sessions' \in Nat /\ calls' \in Nat
  <2>1. /\ data' = d /\ UNCHANGED <<disk, base, sessions>> /\ calls' = calls + 1
        /\ open' = [program |-> open.program, replaced |-> open.replaced \cup replaced, deferred |-> deferred]
    BY <1>3, BecomesShape
  <2>2. open' \in Session
    BY <1>3, <2>1 DEF Session, InSession
  <2>3. QED
    BY <1>0, <1>3, <2>1, <2>2
<1>4. CASE InSession /\ Writing
  BY <1>3, <1>4 DEF Writing, Written
<1>5. CASE InSession /\ \E o \in Origins : \E d : Stated(d, o) /\ Becomes(d, Closed.deferred, {})
  BY <1>3, <1>5, ClosedShape DEF Stated
<1>6. ASSUME NEW s \in Slots, Finalize(s)
      PROVE  /\ disk' \in [Slots -> Records] /\ data' \in Records /\ base' \in Records
             /\ open' \in Session /\ sessions' \in Nat /\ calls' \in Nat
  <2>1. [data EXCEPT !.unsourced = @ \/ \E b \in Blocks : open.deferred[b].held] \in Records
    BY <1>0 DEF Records
  <2>2. QED
    BY <1>0, <1>6, <2>1, ClosedShape, BlankShape DEF Finalize
<1>7. ASSUME NEW s \in Slots, NEW t \in Slots, NEW out \in Slots, FanIn(s, t, out)
      PROVE  /\ disk' \in [Slots -> Records] /\ data' \in Records /\ base' \in Records
             /\ open' \in Session /\ sessions' \in Nat /\ calls' \in Nat
  <2>1. Fold(disk[s], disk[t]) \in Records
    BY <1>0, FoldShape
  <2>2. QED
    BY <1>0, <1>7, <2>1 DEF FanIn
<1>8. CASE UNCHANGED <<disk, open, data, base, sessions>> /\ (calls' = calls \/ calls' = calls + 1)
  BY <1>0, <1>8
<1>9. QED
  BY <1>1, <1>2, <1>4, <1>5, <1>6, <1>7, <1>8, NextCases

\* The session stays its program's, and flagged pages were asked for.
LEMMA SessionStep == TypeOK /\ SessionInv /\ [Next]_vars => SessionInv'
<1> SUFFICES ASSUME TypeOK, SessionInv, [Next]_vars PROVE SessionInv'
  OBVIOUS
<1>0. disk \in [Slots -> Records] /\ data \in Records /\ open \in Session
  BY TypeShape
<1>1. ASSUME NEW prog \in Programs, NEW s \in Slots, Open(prog, s) PROVE SessionInv'
  <2>1. open'.program = prog
    BY <1>1, ClosedShape DEF Open, Session
  <2>2. QED
    BY <1>1, <2>1 DEF Open, SessionInv
<1>2. CASE Raise
  BY <1>2, BlankShape DEF Raise, SessionInv
<1>3. ASSUME InSession, NEW d, NEW deferred, NEW replaced, d.pages \subseteq d.asked,
             Becomes(d, deferred, replaced)
      PROVE  SessionInv'
  <2>1. data' = d /\ disk' = disk /\ open'.program = open.program
    BY <1>3, BecomesShape
  <2>2. QED
    BY <1>3, <2>1 DEF SessionInv, InSession
<1>4. CASE InSession /\ Writing
  BY <1>3, <1>4 DEF Writing, Written
<1>5. CASE InSession /\ \E o \in Origins : \E d : Stated(d, o) /\ Becomes(d, Closed.deferred, {})
  BY <1>3, <1>5 DEF Stated, SessionInv
<1>6. ASSUME NEW s \in Slots, Finalize(s) PROVE SessionInv'
  <2> DEFINE saved == [data EXCEPT !.unsourced = @ \/ \E b \in Blocks : open.deferred[b].held]
  <2>1. saved.pages = data.pages /\ saved.asked = data.asked
    BY <1>0 DEF Records
  <2>2. disk' = [disk EXCEPT ![s] = saved] /\ open' = Closed /\ data' = Blank
    BY <1>6 DEF Finalize
  <2> HIDE DEF saved
  <2>3. QED
    BY <1>0, <2>1, <2>2, BlankShape DEF SessionInv
<1>7. ASSUME NEW s \in Slots, NEW t \in Slots, NEW out \in Slots, FanIn(s, t, out) PROVE SessionInv'
  <2>1. /\ Fold(disk[s], disk[t]).pages \in {disk[s].pages, disk[t].pages}
        /\ Fold(disk[s], disk[t]).asked = disk[s].asked \cup disk[t].asked
    BY <1>0, FoldShape
  <2>2. disk' = [disk EXCEPT ![out] = Fold(disk[s], disk[t])] /\ UNCHANGED <<open, data>>
    BY <1>7 DEF FanIn
  <2>3. QED
    BY <1>0, <2>1, <2>2 DEF SessionInv
<1>8. CASE UNCHANGED <<disk, open, data, base, sessions>>
  BY <1>8 DEF SessionInv
<1>9. QED
  BY <1>1, <1>2, <1>4, <1>5, <1>6, <1>7, <1>8, NextCases

-----------------------------------------------------------------------------
(***************************************************************************)
(* The plane.                                                              *)
(***************************************************************************)

\* Of the origins one at most has an originator, and a record without an origin none.
LEMMA Originators ==
  /\ Originator(None) = None /\ Ocr # None /\ Canonical(None) # Ocr
  /\ \A p \in Programs : Canonical(p) = Ocr => p \in Candidates
  BY DEF Originator, None, Canonical, Ocr, Candidates

\* A write keeps the plane of the copy.
LEMMA WriteKeepsPlane ==
  ASSUME InSession, open # Closed, CopyPlane, NEW d, NEW deferred, NEW replaced,
         Written(d, deferred, replaced), Becomes(d, deferred, replaced)
  PROVE  CopyPlane'
<1>1. /\ data' = d /\ open'.program = open.program /\ open'.deferred = deferred
      /\ UNCHANGED <<disk, base, sessions>>
  BY BecomesShape
<1>2. /\ d.origin = data.origin /\ d.late = data.late /\ d.unsourced = data.unsourced
      /\ data.asked \subseteq d.asked
      /\ data.origin = None => Remembers(deferred)
  BY DEF Written
<1>3. SUFFICES ASSUME Uncontested(d), NEW k \in Keys
      PROVE  /\ d.origin = None =>
                  \/ d.lines[k].text = None
                  \/ /\ d.lines[k].text = open.program /\ open.program \in Candidates
                     /\ Covers(deferred["lines"], k)
             /\ Originator(d.origin) # None => TextPlaced(d, k)
             /\ d.origin = None /\ ~d.late /\ ~deferred["lines"].held => Canonical(d.lines[k].by) # Ocr
             /\ Originator(d.origin) # None /\ ~d.late => RowPlaced(d, k)
  BY <1>1 DEF CopyPlane, Uncontested, TextPlaced, RowPlaced, Covers
<1>4. /\ Uncontested(data)
      /\ LineWritten(d, deferred, replaced, k)
  BY <1>2, <1>3 DEF Uncontested, Written, InSession
<1>5. /\ data.origin = None =>
           \/ data.lines[k].text = None
           \/ /\ data.lines[k].text = open.program /\ open.program \in Candidates
              /\ Covers(open.deferred["lines"], k)
      /\ Originator(data.origin) # None => TextPlaced(data, k)
      /\ data.origin = None /\ ~data.late /\ ~open.deferred["lines"].held =>
           Canonical(data.lines[k].by) # Ocr
      /\ Originator(data.origin) # None /\ ~data.late => RowPlaced(data, k)
  BY <1>4 DEF CopyPlane
<1>6. /\ \/ d.lines[k].text = data.lines[k].text
         \/ d.lines[k].text = None
         \/ /\ d.lines[k].text = open.program /\ MayPlace(d, k)
            /\ data.origin = None => Covers(deferred["lines"], k)
      /\ \/ d.lines[k].by = data.lines[k].by
         \/ d.lines[k].by = None
         \/ /\ d.lines[k].by = open.program
            /\ Canonical(open.program) = Ocr =>
                 MayPlace(d, k) /\ (data.origin = None => deferred["lines"].held)
  BY <1>4 DEF LineWritten
<1>7. ASSUME d.origin = None
      PROVE  /\ \/ d.lines[k].text = None
                \/ /\ d.lines[k].text = open.program /\ open.program \in Candidates
                   /\ Covers(deferred["lines"], k)
             /\ ~d.late /\ ~deferred["lines"].held => Canonical(d.lines[k].by) # Ocr
  <2>1. /\ Covers(open.deferred["lines"], k) => Covers(deferred["lines"], k)
        /\ open.deferred["lines"].held => deferred["lines"].held
    BY <1>2, <1>7 DEF Remembers
  <2>2. MayPlace(d, k) => open.program \in Candidates
    BY DEF MayPlace
  <2>3. \/ d.lines[k].text = None
        \/ /\ d.lines[k].text = open.program /\ open.program \in Candidates
           /\ Covers(deferred["lines"], k)
    BY <1>2, <1>5, <1>6, <1>7, <2>1, <2>2
  <2>4. ~d.late /\ ~deferred["lines"].held => Canonical(d.lines[k].by) # Ocr
    BY <1>2, <1>5, <1>6, <1>7, <2>1, Originators
  <2>5. QED
    BY <2>3, <2>4
<1>8. ASSUME Originator(d.origin) # None
      PROVE  TextPlaced(d, k) /\ (~d.late => RowPlaced(d, k))
  <2>1. MayPlace(d, k) => \/ Canonical(open.program) = Originator(d.origin)
                          \/ Canonical(open.program) = Ocr /\ k[1] \in d.asked
    BY <1>2, <1>8 DEF MayPlace
  <2>2. TextPlaced(d, k)
    BY <1>2, <1>5, <1>6, <1>8, <2>1 DEF TextPlaced
  <2>3. ~d.late => RowPlaced(d, k)
    BY <1>2, <1>5, <1>6, <1>8, <2>1, Originators DEF RowPlaced
  <2>4. QED
    BY <2>2, <2>3
<1>9. QED
  BY <1>7, <1>8

\* The origin judges what was remembered.
LEMMA OriginKeepsPlane ==
  ASSUME InSession, open # Closed, CopyPlane, NEW o \in Origins, NEW d, Stated(d, o),
         Becomes(d, Closed.deferred, {})
  PROVE  CopyPlane'
<1>1. data' = d /\ open'.program = open.program /\ open'.deferred = Closed.deferred
  BY BecomesShape
<1>2. /\ data.origin = None /\ d.origin = o /\ o # None
      /\ d.pages = data.pages /\ d.lines = data.lines /\ d.asked = data.asked
      /\ d.unsourced = data.unsourced /\ data.pages \subseteq data.asked /\ ~data.warned
  BY RecordAssumption DEF Stated, InSession, RecordAssumption
<1>3. SUFFICES ASSUME Uncontested(d), NEW k \in Keys, Originator(d.origin) # None
      PROVE  TextPlaced(d, k) /\ (~d.late => RowPlaced(d, k))
  BY <1>1, <1>2 DEF CopyPlane, Uncontested, TextPlaced, RowPlaced
<1>4. Uncontested(data)
  BY <1>2, <1>3 DEF Uncontested
<1>5. /\ \/ data.lines[k].text = None
         \/ /\ data.lines[k].text = open.program /\ open.program \in Candidates
            /\ Covers(open.deferred["lines"], k)
      /\ ~data.late /\ ~open.deferred["lines"].held => Canonical(data.lines[k].by) # Ocr
  BY <1>2, <1>4 DEF CopyPlane
<1>6. ~d.late => ~data.late /\ ~open.deferred["lines"].held
  BY DEF Stated, Blocks
<1>7. ~d.late => RowPlaced(d, k)
  BY <1>2, <1>5, <1>6 DEF RowPlaced
<1>8. ASSUME open.program \in Candidates, Covers(open.deferred["lines"], k)
      PROVE  \/ Canonical(open.program) = Originator(d.origin)
             \/ Canonical(open.program) = Ocr /\ k[1] \in d.asked
  <2> DEFINE h == open.deferred["lines"]
  <2>1. OriginAllows(d, open.program, "lines", h.fields, h.pages)
    BY <1>3, <1>8 DEF Stated, Uncontested, Covers, Blocks
  <2>2. h.fields = Wholesale \/ "text" \in h.fields
    BY <1>8 DEF Covers
  <2>3. h.pages = Anywhere \/ k[1] \in h.pages
    BY <1>8 DEF Covers
  <2> HIDE DEF h
  <2>4. ~ScoreOnly(open.program, "lines", h.fields)
    BY <2>2 DEF ScoreOnly, ScoringFields, Wholesale
  <2>5. \/ ~OthersPlane(d, open.program)
        \/ Canonical(open.program) = Ocr /\ h.pages # Anywhere /\ h.pages \subseteq d.pages
    BY <1>8, <2>1, <2>4 DEF OriginAllows
  <2>6. QED
    BY <1>2, <1>3, <2>3, <2>5 DEF OthersPlane
<1>9. TextPlaced(d, k)
  BY <1>2, <1>5, <1>8 DEF TextPlaced
<1>10. QED
  BY <1>7, <1>9

\* A fold of two records takes lines whose origin is the fold's or was not known.
LEMMA FoldKeepsPlane ==
  ASSUME NEW a \in Records, NEW b \in Records, FilePlane(a), FilePlane(b), Foldable(a, b)
  PROVE  FilePlane(Fold(a, b))
<1> DEFINE f == Fold(a, b)
<1>1. /\ f.origin = IF a.origin = None THEN b.origin ELSE a.origin
      /\ f.lines \in {a.lines, b.lines} /\ f.asked = a.asked \cup b.asked
      /\ Uncontested(f) => Uncontested(a) /\ Uncontested(b)
      /\ ~f.late => ~a.late /\ ~b.late
  BY FoldShape DEF Uncontested
<1>2. \A d \in {a, b} : d.origin \in {None, f.origin} /\ d.asked \subseteq f.asked
  BY <1>1 DEF Foldable
<1> HIDE DEF f
<1>3. SUFFICES ASSUME Uncontested(f), NEW k \in Keys
      PROVE  /\ f.origin = None => f.lines[k].text = None
             /\ Originator(f.origin) # None => TextPlaced(f, k)
             /\ f.origin = None /\ ~f.late => Canonical(f.lines[k].by) # Ocr
             /\ Originator(f.origin) # None /\ ~f.late => RowPlaced(f, k)
  BY DEF FilePlane, f
<1>4. ASSUME NEW d \in {a, b}, f.lines = d.lines
      PROVE  /\ f.origin = None => f.lines[k].text = None
             /\ Originator(f.origin) # None => TextPlaced(f, k)
             /\ f.origin = None /\ ~f.late => Canonical(f.lines[k].by) # Ocr
             /\ Originator(f.origin) # None /\ ~f.late => RowPlaced(f, k)
  <2>1. /\ d.origin = None => d.lines[k].text = None
        /\ Originator(d.origin) # None => TextPlaced(d, k)
        /\ d.origin = None /\ ~d.late => Canonical(d.lines[k].by) # Ocr
        /\ Originator(d.origin) # None /\ ~d.late => RowPlaced(d, k)
    BY <1>1, <1>3 DEF FilePlane
  <2>2. /\ d.origin \in {None, f.origin} /\ d.asked \subseteq f.asked
        /\ ~f.late => ~d.late
        /\ f.origin = None => d.origin = None
    BY <1>1, <1>2
  <2>3. Originator(f.origin) # None => TextPlaced(f, k)
    BY <1>4, <2>1, <2>2 DEF TextPlaced
  <2>4. Originator(f.origin) # None /\ ~f.late => RowPlaced(f, k)
    BY <1>4, <2>1, <2>2 DEF RowPlaced
  <2>5. QED
    BY <1>4, <2>1, <2>2, <2>3, <2>4
<1>5. QED
  BY <1>1, <1>4

\* Every step keeps the plane.
LEMMA PlaneStep == TypeOK /\ SessionInv /\ PlaneInv /\ [Next]_vars => PlaneInv'
<1> SUFFICES ASSUME TypeOK, SessionInv, PlaneInv, [Next]_vars PROVE PlaneInv'
  OBVIOUS
<1>0. /\ disk \in [Slots -> Records] /\ data \in Records /\ open \in Session
      /\ CopyPlane /\ \A s \in Slots : FilePlane(disk[s])
  BY TypeShape DEF PlaneInv
<1>1. ASSUME disk' = disk PROVE \A s \in Slots : FilePlane(disk[s])'
  BY <1>0, <1>1 DEF FilePlane, Uncontested, TextPlaced, RowPlaced
<1>2. ASSUME NEW prog \in Programs, NEW s \in Slots, Open(prog, s) PROVE PlaneInv'
  <2>1. disk' = disk /\ data' = disk[s] /\ open' = [Closed EXCEPT !.program = prog]
    BY <1>2 DEF Open
  <2>2. FilePlane(data')
    BY <1>0, <2>1
  <2>3. CopyPlane'
    BY <2>2 DEF CopyPlane, FilePlane, Uncontested, TextPlaced, RowPlaced
  <2>4. QED
    BY <1>1, <2>1, <2>3 DEF PlaneInv
<1>3. CASE Raise
  BY <1>1, <1>3 DEF Raise, PlaneInv, CopyPlane
<1>4. CASE InSession /\ open # Closed /\ Writing
  <2>1. PICK d, deferred, replaced : Written(d, deferred, replaced) /\ Becomes(d, deferred, replaced)
    BY <1>4 DEF Writing
  <2>2. CopyPlane'
    BY <1>0, <1>4, <2>1, WriteKeepsPlane
  <2>3. disk' = disk
    BY <2>1 DEF Becomes
  <2>4. QED
    BY <1>1, <2>2, <2>3 DEF PlaneInv
<1>5. CASE InSession /\ open # Closed
             /\ \E o \in Origins : \E d : Stated(d, o) /\ Becomes(d, Closed.deferred, {})
  <2>1. PICK o, d : o \in Origins /\ Stated(d, o) /\ Becomes(d, Closed.deferred, {})
    BY <1>5
  <2>2. CopyPlane'
    BY <1>0, <1>5, <2>1, OriginKeepsPlane
  <2>3. disk' = disk
    BY <2>1 DEF Becomes
  <2>4. QED
    BY <1>1, <2>2, <2>3 DEF PlaneInv
<1>6. ASSUME NEW s \in Slots, Finalize(s) PROVE PlaneInv'
  <2> DEFINE held == \E b \in Blocks : open.deferred[b].held
             saved == [data EXCEPT !.unsourced = @ \/ held]
  <2>1. disk' = [disk EXCEPT ![s] = saved] /\ open' = Closed /\ open # Closed
    BY <1>6 DEF Finalize
  <2>2. ~held => ~open.deferred["lines"].held
    BY DEF Blocks
  <2> HIDE DEF held
  <2>3. /\ saved.origin = data.origin /\ saved.lines = data.lines /\ saved.asked = data.asked
        /\ saved.late = data.late /\ saved.warned = data.warned
        /\ saved.unsourced = (data.unsourced \/ held)
    BY <1>0 DEF Records
  <2> HIDE DEF saved
  <2>4. Uncontested(saved) => Uncontested(data) /\ ~held
    BY <2>3 DEF Uncontested
  <2>5. FilePlane(saved)
    <3> SUFFICES ASSUME Uncontested(saved), NEW k \in Keys
                 PROVE  /\ saved.origin = None => saved.lines[k].text = None
                        /\ Originator(saved.origin) # None => TextPlaced(saved, k)
                        /\ saved.origin = None /\ ~saved.late => Canonical(saved.lines[k].by) # Ocr
                        /\ Originator(saved.origin) # None /\ ~saved.late => RowPlaced(saved, k)
      BY DEF FilePlane
    <3>1. /\ data.origin = None =>
             \/ data.lines[k].text = None
             \/ Covers(open.deferred["lines"], k)
          /\ Originator(data.origin) # None => TextPlaced(data, k)
          /\ data.origin = None /\ ~data.late /\ ~open.deferred["lines"].held =>
               Canonical(data.lines[k].by) # Ocr
          /\ Originator(data.origin) # None /\ ~data.late => RowPlaced(data, k)
      BY <1>0, <2>1, <2>4 DEF CopyPlane
    <3>2. ~Covers(open.deferred["lines"], k)
      BY <2>2, <2>4 DEF Covers
    <3>3. QED
      BY <2>2, <2>3, <2>4, <3>1, <3>2 DEF TextPlaced, RowPlaced
  <2>6. \A t \in Slots : FilePlane(disk'[t])
    BY <1>0, <2>1, <2>5
  <2>7. \A t \in Slots : FilePlane(disk[t])'
    BY <2>6 DEF FilePlane, Uncontested, TextPlaced, RowPlaced
  <2>8. QED
    BY <2>1, <2>7 DEF PlaneInv, CopyPlane
<1>7. ASSUME NEW s \in Slots, NEW t \in Slots, NEW out \in Slots, FanIn(s, t, out) PROVE PlaneInv'
  <2>1. disk' = [disk EXCEPT ![out] = Fold(disk[s], disk[t])] /\ UNCHANGED <<open, data>>
        /\ Foldable(disk[s], disk[t]) /\ open = Closed
    BY <1>7 DEF FanIn
  <2>2. FilePlane(Fold(disk[s], disk[t]))
    BY <1>0, <2>1, FoldKeepsPlane
  <2>3. \A u \in Slots : FilePlane(disk'[u])
    BY <1>0, <2>1, <2>2
  <2>4. \A u \in Slots : FilePlane(disk[u])'
    BY <2>3 DEF FilePlane, Uncontested, TextPlaced, RowPlaced
  <2>5. QED
    BY <2>1, <2>4 DEF PlaneInv, CopyPlane
<1>8. CASE UNCHANGED <<disk, open, data, base, sessions>>
  <2>1. CopyPlane'
    BY <1>0, <1>8 DEF CopyPlane, Uncontested, TextPlaced, RowPlaced, Covers
  <2>2. QED
    BY <1>1, <1>8, <2>1 DEF PlaneInv
<1>9. QED
  BY <1>2, <1>3, <1>4, <1>5, <1>6, <1>7, <1>8, NextCases

-----------------------------------------------------------------------------
(***************************************************************************)
(* The stamps.                                                             *)
(***************************************************************************)

\* A write of this session has this session's time.
LEMMA WriteStamps ==
  ASSUME TypeOK, StampInv, open # Closed, NEW d \in Records, StampedWrite(d),
         data' = d, UNCHANGED <<disk, sessions>>, open' # Closed
  PROVE  StampInv'
<1>0. /\ disk \in [Slots -> Records] /\ data \in Records /\ sessions \in Nat /\ sessions > 0
  BY TypeShape DEF StampInv
<1>1. ASSUME NEW r \in Records, SameWrite(r, data),
             \A x \in Blocks : r.stamps[x].at < sessions
      PROVE  SameWrite(r, d)
  <2>1. ASSUME NEW x \in Blocks, r.stamps[x].at = d.stamps[x].at
        PROVE  d.stamps[x] = data.stamps[x] /\ d.stamps[x].at # sessions
    <3>1. r.stamps[x].at \in Nat
      BY RecordShape
    <3>2. d.stamps[x].at # sessions
      BY <1>0, <1>1, <2>1, <3>1
    <3>3. QED
      BY <3>2 DEF StampedWrite
  <2>2. \A x \in Blocks : r.stamps[x].at = d.stamps[x].at => r.stamps[x] = d.stamps[x]
    BY <1>1, <2>1 DEF SameWrite
  <2>3. r.stamps["pages"].at = d.stamps["pages"].at => r.pages = d.pages
    BY <1>1, <2>1 DEF SameWrite, StampedWrite, Blocks
  <2>4. r.stamps["lines"].at = d.stamps["lines"].at => r.lines = d.lines
    BY <1>1, <2>1 DEF SameWrite, StampedWrite, Blocks
  <2>5. r.stamps["content"].at = d.stamps["content"].at => r.content = d.content
    BY <1>1, <2>1 DEF SameWrite, StampedWrite, Blocks
  <2>6. QED
    BY <2>2, <2>3, <2>4, <2>5 DEF SameWrite
<1>2. \A s \in Slots : SameWrite(disk[s], d)
  BY <1>0, <1>1 DEF StampInv
<1>3. SameWrite(Blank, d)
  <2>1. SameWrite(Blank, data)
    BY DEF StampInv, SameWrite
  <2>2. \A x \in Blocks : Blank.stamps[x].at < sessions
    BY <1>0, BlankShape
  <2>3. QED
    BY <1>1, <2>1, <2>2, BlankShape
<1>4. SameWrite(d, Blank)
  BY <1>3 DEF SameWrite
<1>5. \A x \in Blocks : d.stamps[x].at <= sessions
  BY <1>0 DEF StampInv, StampedWrite
<1>6. \A s, t \in Slots : SameWrite(disk[s], disk[t])
  BY DEF StampInv
<1>7. \A s \in Slots : SameWrite(disk[s], Blank)
  BY DEF StampInv
<1>8. \A s \in Slots, x \in Blocks : disk[s].stamps[x].at <= sessions /\ disk[s].stamps[x].at < sessions
  BY DEF StampInv
<1>9. /\ sessions' = sessions /\ disk' = disk /\ data' = d
  OBVIOUS
<1>10. QED
  BY <1>0, <1>2, <1>4, <1>5, <1>6, <1>7, <1>8, <1>9 DEF StampInv, SameWrite

\* A record put into a file that shares the writes of the others.
LEMMA SavedStamps ==
  ASSUME NEW r, NEW out \in Slots, disk' = [disk EXCEPT ![out] = r], disk \in [Slots -> Records],
         data \in Records, StampInv, SameWrite(r, Blank), \A s \in Slots : SameWrite(disk[s], r),
         \A x \in Blocks : r.stamps[x].at <= sessions',
         sessions' \in Nat, sessions \in Nat, sessions <= sessions',
         open' = Closed, data' = Blank \/ (data' = data /\ SameWrite(r, data))
  PROVE  StampInv'
<1>1. \A s \in Slots : disk'[s] = disk[s] \/ disk'[s] = r
  OBVIOUS
<1>2. \A s \in Slots : SameWrite(r, disk[s])
  BY DEF SameWrite
<1>3. SameWrite(r, r) /\ SameWrite(Blank, Blank) /\ SameWrite(data, data)
  BY DEF SameWrite
<1>4. \A s, t \in Slots : SameWrite(disk'[s], disk'[t])
  BY <1>1, <1>2, <1>3 DEF StampInv
<1>5. \A s \in Slots : SameWrite(disk'[s], Blank)
  BY <1>1 DEF StampInv
<1>6. (\A s \in Slots : SameWrite(disk'[s], data')) /\ SameWrite(data', Blank)
  BY <1>1, <1>3, <1>5 DEF StampInv
<1>7. \A s \in Slots, x \in Blocks : disk'[s].stamps[x].at <= sessions'
  <2> TAKE s \in Slots, x \in Blocks
  <2>1. disk[s].stamps[x].at \in Nat /\ disk[s].stamps[x].at <= sessions
    BY RecordShape DEF StampInv
  <2>2. QED
    BY <1>1, <2>1
<1>8. \A x \in Blocks : data'.stamps[x].at <= sessions'
  <2>1. CASE data' = Blank
    BY <2>1, BlankShape
  <2>2. CASE data' = data /\ SameWrite(r, data)
    <3>1. \A x \in Blocks : data.stamps[x].at <= sessions
      BY DEF StampInv
    <3>2. ASSUME NEW x \in Blocks PROVE data.stamps[x].at <= sessions'
      BY <3>1, RecordShape
    <3>3. QED
      BY <2>2, <3>2
  <2>3. QED
    BY <2>1, <2>2
<1>9. QED
  BY <1>4, <1>5, <1>6, <1>7, <1>8 DEF StampInv, SameWrite

\* Every step keeps the times of the stamps apart.
LEMMA StampStep == TypeOK /\ SessionInv /\ StampInv /\ [Next]_vars => StampInv'
<1> SUFFICES ASSUME TypeOK, SessionInv, StampInv, [Next]_vars PROVE StampInv'
  OBVIOUS
<1>0. disk \in [Slots -> Records] /\ data \in Records /\ open \in Session /\ sessions \in Nat
  BY TypeShape
<1>1. \A s \in Slots, x \in Blocks :
        disk[s].stamps[x].at \in Nat /\ disk[s].stamps[x].at <= sessions
  BY <1>0, RecordShape DEF StampInv
<1>2. ASSUME NEW prog \in Programs, NEW s \in Slots, Open(prog, s) PROVE StampInv'
  <2>1. disk' = disk /\ data' = disk[s] /\ sessions' = sessions + 1
    BY <1>2 DEF Open
  <2>2. \A r \in Slots, x \in Blocks : disk[r].stamps[x].at < sessions + 1
    BY <1>0, <1>1
  <2>3. \A r \in Slots, x \in Blocks : disk[r].stamps[x].at <= sessions + 1
    BY <1>0, <1>1
  <2>4. sessions + 1 > 0
    BY <1>0
  <2>5. \A r, t \in Slots : SameWrite(disk[r], disk[t])
    BY DEF StampInv
  <2>6. \A r \in Slots : SameWrite(disk[r], Blank)
    BY DEF StampInv
  <2>7. QED
    BY <2>1, <2>2, <2>3, <2>4, <2>5, <2>6 DEF StampInv, SameWrite
<1>3. CASE Raise
  <2>1. disk' = disk /\ data' = Blank /\ sessions' = sessions /\ open' = Closed
    BY <1>3 DEF Raise
  <2>2. \A r, t \in Slots : SameWrite(disk[r], disk[t])
    BY DEF StampInv
  <2>3. \A r \in Slots : SameWrite(disk[r], Blank)
    BY DEF StampInv
  <2>4. SameWrite(Blank, Blank)
    BY DEF SameWrite
  <2>5. \A x \in Blocks : Blank.stamps[x].at <= sessions
    BY <1>0, BlankShape
  <2>6. QED
    BY <1>1, <2>1, <2>2, <2>3, <2>4, <2>5 DEF StampInv, SameWrite
<1>4. CASE InSession /\ open # Closed /\ Writing
  <2>1. PICK d, deferred, replaced : Written(d, deferred, replaced) /\ Becomes(d, deferred, replaced)
    BY <1>4 DEF Writing
  <2>2. data' = d /\ UNCHANGED <<disk, sessions>> /\ open' # Closed
    BY <1>4, <2>1, BecomesShape
  <2>3. d \in Records /\ StampedWrite(d)
    BY <2>1 DEF Written
  <2>4. QED
    BY <1>4, <2>2, <2>3, WriteStamps
<1>5. CASE InSession /\ open # Closed
             /\ \E o \in Origins : \E d : Stated(d, o) /\ Becomes(d, Closed.deferred, {})
  <2>1. PICK o, d : o \in Origins /\ Stated(d, o) /\ Becomes(d, Closed.deferred, {})
    BY <1>5
  <2>2. data' = d /\ UNCHANGED <<disk, sessions>> /\ open' # Closed
    BY <1>5, <2>1, BecomesShape
  <2>3. d \in Records /\ StampedWrite(d)
    BY <2>1 DEF Stated, StampedWrite
  <2>4. QED
    BY <1>5, <2>2, <2>3, WriteStamps
<1>6. ASSUME NEW s \in Slots, Finalize(s) PROVE StampInv'
  <2> DEFINE saved == [data EXCEPT !.unsourced = @ \/ \E b \in Blocks : open.deferred[b].held]
  <2>1. disk' = [disk EXCEPT ![s] = saved] /\ open' = Closed /\ data' = Blank /\ sessions' = sessions
    BY <1>6 DEF Finalize
  <2>2. /\ saved.pages = data.pages /\ saved.lines = data.lines /\ saved.content = data.content
        /\ saved.stamps = data.stamps
    BY <1>0 DEF Records
  <2> HIDE DEF saved
  <2>3. SameWrite(data, Blank) /\ \A r \in Slots : SameWrite(disk[r], data)
    BY DEF StampInv
  <2>4. SameWrite(saved, Blank)
    BY <2>2, <2>3 DEF SameWrite
  <2>5. \A r \in Slots : SameWrite(disk[r], saved)
    BY <2>2, <2>3 DEF SameWrite
  <2>6. \A x \in Blocks : saved.stamps[x].at <= sessions'
    BY <2>1, <2>2 DEF StampInv
  <2>7. sessions' \in Nat /\ sessions <= sessions'
    BY <1>0, <2>1
  <2>8. QED
    BY <1>0, <2>1, <2>4, <2>5, <2>6, <2>7, SavedStamps
<1>7. ASSUME NEW s \in Slots, NEW t \in Slots, NEW out \in Slots, FanIn(s, t, out) PROVE StampInv'
  <2> DEFINE a == disk[s]
             b == disk[t]
             f == Fold(a, b)
  <2>1. disk' = [disk EXCEPT ![out] = f] /\ open' = Closed /\ data' = data /\ sessions' = sessions + 1
    BY <1>7 DEF FanIn
  <2>2. /\ f.pages = IF Newer(a, b, "pages") THEN b.pages ELSE a.pages
        /\ f.lines = IF Newer(a, b, "lines") THEN b.lines ELSE a.lines
        /\ f.content = IF Newer(a, b, "content") THEN b.content ELSE a.content
        /\ \A x \in Blocks : f.stamps[x] = IF Newer(a, b, x) THEN b.stamps[x] ELSE a.stamps[x]
    BY <1>0, FoldShape
  <2> HIDE DEF f
  <2>3. ASSUME NEW r, SameWrite(r, a), SameWrite(r, b) PROVE SameWrite(r, f)
    BY <2>2, <2>3 DEF SameWrite, Blocks
  <2>4. /\ \A r \in Slots : SameWrite(disk[r], a) /\ SameWrite(disk[r], b)
        /\ SameWrite(Blank, a) /\ SameWrite(Blank, b)
    BY DEF StampInv, SameWrite
  <2>5. SameWrite(data, a) /\ SameWrite(data, b)
    BY DEF StampInv, SameWrite
  <2>6. /\ \A r \in Slots : SameWrite(disk[r], f)
        /\ SameWrite(Blank, f) /\ SameWrite(data, f)
    BY <2>3, <2>4, <2>5
  <2>7. SameWrite(f, Blank) /\ SameWrite(f, data)
    BY <2>6 DEF SameWrite
  <2>8. \A x \in Blocks : f.stamps[x].at <= sessions'
    BY <1>0, <1>1, <2>1, <2>2
  <2>9. sessions' \in Nat /\ sessions <= sessions'
    BY <1>0, <2>1
  <2>10. QED
    BY <1>0, <2>1, <2>6, <2>7, <2>8, <2>9, SavedStamps
<1>8. CASE UNCHANGED <<disk, open, data, base, sessions>>
  BY <1>8 DEF StampInv, SameWrite
<1>9. QED
  BY <1>2, <1>3, <1>4, <1>5, <1>6, <1>7, <1>8, NextCases

-----------------------------------------------------------------------------
(***************************************************************************)
(* What a session keeps of the record it was opened on.                    *)
(***************************************************************************)

\* A record that may still be judged by its origin keeps that origin's plane.
LEMMA SamePlane ==
  ASSUME Survives(base, data), OthersPlane(base, open.program)
  PROVE  OthersPlane(data, open.program) /\ data.origin = base.origin
<1>1. base.origin # None
  BY DEF OthersPlane, Originator, None
<1>2. QED
  BY <1>1 DEF Survives, OthersPlane

\* A write leaves others' lines, lemmas and content.
LEMMA WriteSurvives ==
  ASSUME InSession, NEW d, NEW deferred, NEW replaced, Written(d, deferred, replaced),
         Becomes(d, deferred, replaced), Survives(base, data), ~d.warned
  PROVE  Survives(base, d)'
<1>1. /\ data' = d /\ UNCHANGED base /\ open'.program = open.program
      /\ open'.replaced = open.replaced \cup replaced
  BY BecomesShape
<1>2. /\ d.origin = data.origin /\ data.asked \subseteq d.asked
      /\ \A k \in Keys : LineWritten(d, deferred, replaced, k)
      /\ d.content = data.content \/ ~OthersPlane(data, open.program)
  BY DEF Written
<1>3. base.origin # None => d.origin = base.origin
  BY <1>2 DEF Survives
<1>4. ASSUME NEW k \in Keys, Exists(base.lines[k]), k[1] \notin open.replaced \cup replaced
      PROVE  /\ d.lines[k].by = base.lines[k].by
             /\ d.lines[k].lemma # base.lines[k].lemma => open.program = "nlp-enrich"
             /\ d.lines[k].text # base.lines[k].text /\ OthersPlane(base, open.program) =>
                  k[1] \in d.asked
  <2>1. /\ data.lines[k].by = base.lines[k].by
        /\ data.lines[k].lemma # base.lines[k].lemma => open.program = "nlp-enrich"
        /\ data.lines[k].text # base.lines[k].text /\ OthersPlane(base, open.program) =>
             k[1] \in data.asked
    BY <1>4 DEF Survives
  <2>2. Exists(data.lines[k])
    BY <1>4, <2>1 DEF Exists
  <2>3. LineWritten(d, deferred, replaced, k) /\ k[1] \notin replaced
    BY <1>2, <1>4
  <2>4. d.lines[k].by = data.lines[k].by
    BY <2>2, <2>3 DEF LineWritten
  <2>5. d.lines[k].lemma # data.lines[k].lemma => open.program = "nlp-enrich"
    BY <2>3 DEF LineWritten
  <2>6. ASSUME OthersPlane(base, open.program), d.lines[k].text # data.lines[k].text
        PROVE  k[1] \in d.asked
    <3>1. MayPlace(d, k)
      BY <2>3, <2>6 DEF LineWritten
    <3>2. OthersPlane(data, open.program)
      BY <2>6, SamePlane
    <3>3. QED
      BY <3>1, <3>2 DEF MayPlace, OthersPlane
  <2>7. QED
    BY <1>2, <2>1, <2>4, <2>5, <2>6
<1>5. base.content # None /\ OthersPlane(base, open.program) => d.content = base.content
  BY <1>2, SamePlane DEF Survives
<1>6. QED
  BY <1>1, <1>3, <1>4, <1>5 DEF Survives, OthersPlane

\* Every step keeps what others wrote.
LEMMA SurviveStep == TypeOK /\ SessionInv /\ SurviveInv /\ [Next]_vars => SurviveInv'
<1> SUFFICES ASSUME TypeOK, SessionInv, SurviveInv, [Next]_vars PROVE SurviveInv'
  OBVIOUS
<1>1. ASSUME NEW prog \in Programs, NEW s \in Slots, Open(prog, s) PROVE SurviveInv'
  <2>1. data' = disk[s] /\ base' = disk[s]
    BY <1>1 DEF Open
  <2>2. QED
    BY <2>1 DEF SurviveInv, Survives
<1>2. CASE Raise
  BY <1>2 DEF Raise, SurviveInv
<1>3. CASE InSession /\ open # Closed /\ Writing
  <2>1. PICK d, deferred, replaced : Written(d, deferred, replaced) /\ Becomes(d, deferred, replaced)
    BY <1>3 DEF Writing
  <2>2. Survives(base, data)
    BY <1>3 DEF SurviveInv, InSession
  <2>3. data' = d
    BY <2>1 DEF Becomes
  <2>4. ~d.warned => Survives(base, d)'
    BY <1>3, <2>1, <2>2, WriteSurvives
  <2>5. QED
    BY <2>3, <2>4 DEF SurviveInv, Survives
<1>4. CASE InSession /\ open # Closed
             /\ \E o \in Origins : \E d : Stated(d, o) /\ Becomes(d, Closed.deferred, {})
  <2>1. PICK o, d : o \in Origins /\ Stated(d, o) /\ Becomes(d, Closed.deferred, {})
    BY <1>4
  <2>2. Survives(base, data)
    BY <1>4 DEF SurviveInv, InSession
  <2>3. /\ data' = d /\ UNCHANGED base /\ open'.program = open.program
        /\ open'.replaced = open.replaced
    BY <1>4, <2>1, BecomesShape
  <2>4. /\ data.origin = None /\ d.lines = data.lines /\ d.content = data.content /\ d.asked = data.asked
    BY <2>1 DEF Stated
  <2>5. base.origin = None
    BY <2>2, <2>4 DEF Survives
  <2>6. QED
    BY <2>2, <2>3, <2>4, <2>5 DEF SurviveInv, Survives, OthersPlane
<1>5. ASSUME NEW s \in Slots, Finalize(s) PROVE SurviveInv'
  BY <1>5 DEF Finalize, SurviveInv
<1>6. ASSUME NEW s \in Slots, NEW t \in Slots, NEW out \in Slots, FanIn(s, t, out) PROVE SurviveInv'
  BY <1>6 DEF FanIn, SurviveInv
<1>7. CASE UNCHANGED <<disk, open, data, base, sessions>>
  BY <1>7 DEF SurviveInv, Survives, OthersPlane
<1>8. QED
  BY <1>1, <1>2, <1>3, <1>4, <1>5, <1>6, <1>7, NextCases

-----------------------------------------------------------------------------
(***************************************************************************)
(* The theorems.                                                           *)
(***************************************************************************)

\* It all holds of no record.
LEMMA IInit == Init => IInv
<1> SUFFICES ASSUME Init PROVE IInv
  OBVIOUS
<1>1. TypeOK
  BY BlankShape, ClosedShape, TypeShape DEF Init
<1>2. SessionInv
  BY BlankShape DEF Init, SessionInv
<1>3. FilePlane(Blank)
  BY BlankShape, Originators DEF FilePlane, NoRow
<1>4. PlaneInv
  BY <1>3 DEF Init, PlaneInv, CopyPlane
<1>5. SameWrite(Blank, Blank)
  BY DEF SameWrite
<1>6. StampInv
  BY <1>5, BlankShape DEF Init, StampInv
<1>7. SurviveInv
  BY DEF Init, SurviveInv
<1>8. QED
  BY <1>1, <1>2, <1>4, <1>6, <1>7 DEF IInv

\* So it holds at all times.
LEMMA Invariant == Spec => []IInv
<1>1. IInv /\ [Next]_vars => IInv'
  BY TypeStep, SessionStep, PlaneStep, StampStep, SurviveStep DEF IInv
<1>2. QED
  BY IInit, <1>1, PTL DEF Spec

\* A record keeps its shape, and holds nothing but what a session may write.
THEOREM TypeCorrect == Spec => []TypeOK
<1>1. IInv => TypeOK
  BY DEF IInv
<1>2. QED
  BY <1>1, Invariant, PTL

\* However many programs open the record, in whatever order they write, learn its
\* origin, branch and fold: the text of a record nobody was warned about is one
\* originator's, or OCR's on a page that was flagged for it.
THEOREM OneTextPlaneCorrect == Spec => []OneTextPlane
<1>1. IInv => OneTextPlane
  BY DEF IInv, PlaneInv, FilePlane, OneTextPlane, Sound, Uncontested, TextPlaced
<1>2. QED
  BY <1>1, Invariant, PTL

\* A score never adds a line to the converter's plane.
THEOREM ScoreInventsNothingCorrect == Spec => []ScoreInventsNothing
<1>1. IInv => ScoreInventsNothing
  BY DEF IInv, PlaneInv, FilePlane, ScoreInventsNothing, Sound, Uncontested, RowPlaced
<1>2. QED
  BY <1>1, Invariant, PTL

\* Two branches fold into the same record in either order, because the time of a
\* stamp names the write.
THEOREM FanInOrderFreeCorrect == Spec => []FanInOrderFree
<1>1. ASSUME IInv, NEW s \in Slots, NEW t \in Slots, Foldable(disk[s], disk[t])
      PROVE  Foldable(disk[t], disk[s]) /\ Fold(disk[s], disk[t]) = Fold(disk[t], disk[s])
  <2> DEFINE a == disk[s]
             b == disk[t]
  <2>1. a \in Records /\ b \in Records /\ SameWrite(a, b)
    BY <1>1, TypeShape DEF IInv, StampInv
  <2>2. \A x \in Blocks : a.stamps[x].at \in Nat /\ b.stamps[x].at \in Nat
    BY <2>1, RecordShape
  <2>3. a.origin = None \/ b.origin = None \/ a.origin = b.origin
    BY <1>1 DEF Foldable
  <2>4. ASSUME NEW x \in Blocks
        PROVE  \/ a.stamps[x].at = b.stamps[x].at /\ ~Newer(a, b, x) /\ ~Newer(b, a, x)
               \/ Newer(a, b, x) /\ ~Newer(b, a, x)
               \/ ~Newer(a, b, x) /\ Newer(b, a, x)
    BY <2>2 DEF Newer
  <2> HIDE DEF a, b
  <2> DEFINE f == Fold(a, b)
             g == Fold(b, a)
  <2>5. /\ f.origin = IF a.origin = None THEN b.origin ELSE a.origin
        /\ g.origin = IF b.origin = None THEN a.origin ELSE b.origin
        /\ f.asked = a.asked \cup b.asked /\ g.asked = b.asked \cup a.asked
        /\ f \in Records /\ g \in Records
    BY <2>1, FoldShape
  <2>6. f.pages = g.pages
    BY <2>1, <2>4, FoldShape DEF SameWrite, Blocks
  <2>7. f.lines = g.lines
    BY <2>1, <2>4, FoldShape DEF SameWrite, Blocks
  <2>8. f.content = g.content
    BY <2>1, <2>4, FoldShape DEF SameWrite, Blocks
  <2>9. f.stamps = g.stamps
    <3>1. \A x \in Blocks : f.stamps[x] = g.stamps[x]
      BY <2>1, <2>4, FoldShape DEF SameWrite
    <3>2. f.stamps = [x \in Blocks |-> f.stamps[x]] /\ g.stamps = [x \in Blocks |-> g.stamps[x]]
      BY <2>5, RecordShape
    <3>3. QED
      BY <3>1, <3>2
  <2>10. /\ f.warned = g.warned /\ f.unsourced = g.unsourced /\ f.late = g.late
    <3>1. /\ f.warned = (a.warned \/ b.warned) /\ g.warned = (b.warned \/ a.warned)
          /\ f.unsourced = (a.unsourced \/ b.unsourced) /\ g.unsourced = (b.unsourced \/ a.unsourced)
          /\ f.late = (a.late \/ b.late) /\ g.late = (b.late \/ a.late)
      BY DEF Fold
    <3>2. QED
      BY <3>1
  <2>11. f.origin = g.origin /\ f.asked = g.asked
    <3>1. f.origin = g.origin
      BY <2>3, <2>5
    <3>2. f.asked = g.asked
      BY <2>5
    <3>3. QED
      BY <3>1, <3>2
  <2> HIDE DEF f, g
  <2>12. f = g
    <3>1. ASSUME NEW d \in Records
          PROVE  d = [ origin |-> d.origin, pages |-> d.pages, lines |-> d.lines, content |-> d.content,
                       stamps |-> d.stamps, asked |-> d.asked, warned |-> d.warned,
                       unsourced |-> d.unsourced, late |-> d.late ]
      BY DEF Records
    <3>2. QED
      BY <2>5, <2>6, <2>7, <2>8, <2>9, <2>10, <2>11, <3>1
  <2>13. Foldable(b, a)
    <3>1. \A x \in Blocks : StampAllowed(f, f.stamps[x])
      BY <1>1 DEF Foldable, f, a, b
    <3>2. \A x \in Blocks : StampAllowed(g, g.stamps[x])
      BY <2>12, <3>1
    <3>3. QED
      BY <2>3, <3>2 DEF Foldable, g
  <2>14. QED
    BY <2>12, <2>13 DEF f, g, a, b
<1>2. IInv => FanInOrderFree
  BY <1>1 DEF FanInOrderFree
<1>3. QED
  BY <1>2, Invariant, PTL

\* A session that was not complained about writes back what the others had put into
\* the record.
THEOREM OthersSurviveCorrect == Spec => OthersSurvive
<1>1. ASSUME IInv, [Next]_vars, NEW s \in Slots, open # Closed, disk'[s] # disk[s], ~disk'[s].warned
      PROVE  Survives(base, disk'[s])
  <2>1. disk \in [Slots -> Records] /\ data \in Records
    BY <1>1, TypeShape DEF IInv
  <2>2. PICK u \in Slots : Finalize(u)
    <3>1. disk' # disk
      BY <1>1
    <3>2. QED
      BY <1>1, <3>1, NextCases DEF IInv, Open, Raise, Writing, Becomes, FanIn
  <2> DEFINE saved == [data EXCEPT !.unsourced = @ \/ \E b \in Blocks : open.deferred[b].held]
  <2>3. disk' = [disk EXCEPT ![u] = saved]
    BY <2>2 DEF Finalize
  <2>4. /\ saved.origin = data.origin /\ saved.lines = data.lines /\ saved.asked = data.asked
        /\ saved.content = data.content /\ saved.warned = data.warned
    BY <2>1 DEF Records
  <2> HIDE DEF saved
  <2>5. disk'[s] = saved
    BY <1>1, <2>1, <2>3
  <2>6. Survives(base, data)
    BY <1>1, <2>4, <2>5 DEF IInv, SurviveInv
  <2>7. Survives(base, saved)
    BY <2>4, <2>6 DEF Survives
  <2>8. QED
    BY <2>5, <2>7
<1>2. IInv /\ [Next]_vars => [\A s \in Slots :
        open # Closed /\ disk'[s] # disk[s] /\ ~disk'[s].warned => Survives(base, disk'[s])]_vars
  BY <1>1
<1>3. QED
  BY <1>2, Invariant, PTL DEF Spec, OthersSurvive
=============================================================================
