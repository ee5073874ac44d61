--------------------------- MODULE DocumentRecord ---------------------------
(***************************************************************************)
(* The record of one document, atrium_document.py: programs open it one    *)
(* after another or side by side, each adds its own part, and records of   *)
(* parallel branches are folded into one.  The positional plane (pages,    *)
(* lines, content) has two possible originators, and the origin of the     *)
(* source decides between them: OCR for a scan, the converter for a        *)
(* born-digital document, except the pages whose text layer the record     *)
(* sends back to OCR.                                                      *)
(*                                                                         *)
(* A value is known by the program that wrote it.  A session is one        *)
(* DocumentRecord object: its calls change a copy, finalize writes it.     *)
(* In strict mode a complaint raises and the session writes nothing;       *)
(* otherwise it is a warning.  Of a record's fields the model keeps those  *)
(* the rules tell apart: a page's needs_ocr, and of a line its text (the   *)
(* originator's), categ (a score) and lemma (a co-contributor's).          *)
(***************************************************************************)
EXTENDS Integers, FiniteSets

CONSTANTS
  Slots,        \* the files records are kept in
  Keys,         \* the keys of lines: pairs of a page and a line
  Batches,      \* the sets of keys a program hands over in one call
  Programs,     \* the programs that take part
  Origins,      \* the origins they may state
  MaxSessions,  \* bound on the sessions and fan-ins
  MaxCalls      \* bound on the calls of all sessions

VARIABLES
  disk,      \* the record in each file
  open,      \* the session: its program, deferred checks and what it replaced
  data,      \* the session's copy of the record
  base,      \* the record the session was opened on
  sessions,  \* number of sessions and fan-ins so far, the time of the stamps
  calls      \* number of calls so far

vars == <<disk, open, data, base, sessions, calls>>

-----------------------------------------------------------------------------
(* Programs, what they may write, and who originates what. *)

None == "none"

Ocr       == "ocr-postprocess"
Converter == "digital-convert"

\* BLOCK_OWNERS: the candidates for every block of the plane.
Candidates == {"alto-postprocess", Ocr, Converter}
Blocks     == {"pages", "lines", "content"}
Fields     == {"text", "categ", "lemma"}

ASSUME RecordAssumption ==
  /\ \A k \in Keys : k = <<k[1], k[2]>> /\ k[1] # "anywhere"
  /\ Batches \subseteq SUBSET Keys
  /\ Programs \subseteq Candidates \cup {"nlp-enrich"} /\ None \notin Origins
  /\ MaxSessions \in Nat /\ MaxCalls \in Nat

PagesOf(keys) == {k[1] : k \in keys}
Pages == PagesOf(Keys)

\* PROGRAM_SUCCESSORS: a renamed program is the same writer.
Canonical(p) == IF p = "alto-postprocess" THEN Ocr ELSE p

\* ORIGIN_ORIGINATORS; an origin the table does not know has none.
Originator(origin) ==
  CASE origin = "ocr:engine" -> Ocr
    [] origin = "digital-born-pdf" -> Converter
    [] OTHER -> None

\* BLOCK_FIELD_OWNERS of lines, and what own_fields may narrow it to.
Grant(p) == IF p \in Candidates THEN {"text", "categ"} ELSE {"lemma"}
Narrowed(p) == {Grant(p), Grant(p) \ {"text"}}

\* SCORING_FIELDS of lines, of the fields the model has.
ScoringFields == {"categ"}

NoRow == [by |-> None, text |-> None, categ |-> None, lemma |-> None]

NoStamp == [program |-> None, contribution |-> None, at |-> 0]

\* A file without a record and a record with nothing in it are the same here;
\* pages holds the pages whose row says needs_ocr.  "by" of a line is the program that added it.  asked, warned, unsourced and
\* late are history: the pages ever flagged, a write that went on after a
\* complaint, a part of the plane written by a session that never knew the
\* origin, and one that was judged only when the origin arrived.
Blank ==
  [ origin    |-> None,
    pages     |-> {},
    lines     |-> [k \in Keys |-> NoRow],
    content   |-> None,
    stamps    |-> [b \in Blocks |-> NoStamp],
    asked     |-> {}, warned |-> FALSE, unsourced |-> FALSE, late |-> FALSE ]

Exists(row) == row.by # None

-----------------------------------------------------------------------------
(* The origin check.  A write is known by the fields it may set and the      *)
(* pages of its rows; a wholesale write by Wholesale fields and Anywhere.    *)

Wholesale == {"wholesale"}
Anywhere  == {"anywhere"}

\* _scoring_fields_only.
ScoreOnly(prog, block, fields) ==
  Canonical(prog) = Ocr /\ block = "lines" /\ fields # {} /\ fields \subseteq ScoringFields

\* The plane of the record is another program's.
OthersPlane(d, prog) ==
  Originator(d.origin) # None /\ Originator(d.origin) # Canonical(prog)

\* Fault: one flagged page opens all of them.
OriginAllowsAnyPage(d, prog, block, fields, pages) ==
  \/ prog \notin Candidates \/ ~OthersPlane(d, prog)
  \/ ScoreOnly(prog, block, fields)
  \/ Canonical(prog) = Ocr /\ d.pages # {}

\* _assert_origin_consistent, once the origin is known.
OriginAllows(d, prog, block, fields, pages) ==
  \/ prog \notin Candidates \/ ~OthersPlane(d, prog)
  \/ ScoreOnly(prog, block, fields)
  \/ /\ Canonical(prog) = Ocr /\ d.pages # {}
     /\ pages # Anywhere /\ pages \subseteq d.pages

\* Without an origin the write is remembered: what it may set and its pages,
\* together with what earlier writes to the block did.
NotHeld == [held |-> FALSE, fields |-> {}, pages |-> {}]

Hold(old, fields, pages) ==
  LET Both(a, b, all) == IF all \in {a, b} THEN all ELSE a \cup b
  IN  [held |-> TRUE, fields |-> Both(old.fields, fields, Wholesale),
       pages |-> Both(old.pages, pages, Anywhere)]

Deferred(block, fields, pages) ==
  IF data.origin = None /\ open.program \in Candidates
  THEN [open.deferred EXCEPT ![block] = Hold(@, fields, pages)]
  ELSE open.deferred

\* Fault: a score is not told apart from an origination.
NeverScoring(d, prog, block, fields) == FALSE

\* _is_scoring_contribution, _is_ocr_handoff: both need the origin.
Scoring(d, prog, block, fields) == OthersPlane(d, prog) /\ ScoreOnly(prog, block, fields)

HandOff(d, prog, pages) ==
  /\ OthersPlane(d, prog) /\ Canonical(prog) = Ocr
  /\ pages # {} /\ pages \subseteq d.pages

Mark(block, fields, pages) ==
  IF Scoring(data, open.program, block, fields) THEN "scoring"
  ELSE IF HandOff(data, open.program, pages) THEN "ocr-handoff" ELSE None

Stamp(d, block, contribution) ==
  [d EXCEPT !.stamps[block] =
     [program |-> open.program, contribution |-> contribution, at |-> sessions]]

-----------------------------------------------------------------------------
(* A session. *)

Closed == [program |-> None, replaced |-> {}, deferred |-> [b \in Blocks |-> NotHeld]]

Init ==
  /\ disk = [s \in Slots |-> Blank]
  /\ open = Closed
  /\ data = Blank /\ base = Blank
  /\ sessions = 0 /\ calls = 0

\* The properties claim nothing of a record written under a warning, so such a
\* record is not opened or folded again, and its session makes no further call.
Open(prog, slot) ==
  /\ open = Closed /\ sessions < MaxSessions /\ ~disk[slot].warned
  /\ open' = [Closed EXCEPT !.program = prog]
  /\ data' = disk[slot] /\ base' = disk[slot]
  /\ sessions' = sessions + 1
  /\ UNCHANGED <<disk, calls>>

InCall == open # Closed /\ calls < MaxCalls /\ ~data.warned

\* One call that turns the copy into d and leaves these checks deferred.
Becomes(d, deferred, replaced) ==
  /\ data' = d
  /\ open' = [open EXCEPT !.deferred = deferred, !.replaced = @ \cup replaced]
  /\ calls' = calls + 1
  /\ UNCHANGED <<disk, base, sessions>>

\* A strict session raises, and the with block writes nothing.
Raise ==
  /\ open' = Closed /\ data' = Blank /\ base' = Blank
  /\ calls' = calls + 1
  /\ UNCHANGED <<disk, sessions>>

\* _complain: the session is strict, or it goes on with a warning.
Complaining(faulty, d, deferred, replaced) ==
  \/ faulty /\ Raise
  \/ Becomes([d EXCEPT !.warned = faulty], deferred, replaced)

\* set_source with an origin.
SetSource(origin) ==
  LET known == [data EXCEPT !.origin = origin,
                            !.late = @ \/ \E b \in Blocks : open.deferred[b].held]
      refused == \E b \in Blocks :
                   /\ open.deferred[b].held
                   /\ ~OriginAllows(known, open.program, b,
                                    open.deferred[b].fields, open.deferred[b].pages)
  IN  /\ InCall
      /\ \/ /\ data.origin = None
            /\ Complaining(refused, known, Closed.deferred, {})
         \/ /\ data.origin \notin {None, origin}
            /\ Raise \/ Becomes(data, open.deferred, {})

\* set_block("content"); a wholesale write of pages or lines complains as well,
\* for they have co-contributors.
SetContent ==
  /\ InCall /\ open.program \in Candidates
  /\ Complaining(data.origin # None
                   /\ ~OriginAllows(data, open.program, "content", Wholesale, Anywhere),
                 Stamp([data EXCEPT !.content = open.program], "content", None),
                 Deferred("content", Wholesale, Anywhere), {})

SetLines ==
  /\ InCall /\ open.program \in Candidates
  /\ Complaining(TRUE,
       Stamp([data EXCEPT !.lines = [k \in Keys |->
                [NoRow EXCEPT !.by = open.program, !.text = open.program]]],
             "lines", None),
       Deferred("lines", Wholesale, Anywhere), {})

\* Fault: a matching row is replaced and not updated.
MergedOver(lines, keys, fields) ==
  [k \in Keys |->
     IF k \in keys /\ (Exists(lines[k]) \/ ~Scoring(data, open.program, "lines", fields))
     THEN [f \in DOMAIN NoRow |-> IF f \in fields \cup {"by"} THEN open.program ELSE None]
     ELSE lines[k]]

\* The rows of lines after a merge of these keys: the fields the program may
\* write are set, the others stay, a missing row is appended unless it is scored.
Merged(lines, keys, fields) ==
  LET Write(row) == [f \in DOMAIN row |->
        IF f \in fields \/ (f = "by" /\ ~Exists(row)) THEN open.program ELSE row[f]]
  IN  [k \in Keys |->
        IF k \in keys /\ (Exists(lines[k]) \/ ~Scoring(data, open.program, "lines", fields))
        THEN Write(lines[k]) ELSE lines[k]]

Refused(block, fields, pages) ==
  data.origin # None /\ ~OriginAllows(data, open.program, block, fields, pages)

\* merge_block("lines", rows, own_fields): refused by the origin check, or
\* scoring a line that is not there.
MergeLines(keys, fields) ==
  /\ InCall
  /\ LET pages == PagesOf(keys)
         unmatched == /\ Scoring(data, open.program, "lines", fields)
                      /\ \E k \in keys : ~Exists(data.lines[k])
     IN  Complaining(Refused("lines", fields, pages) \/ unmatched,
           Stamp([data EXCEPT !.lines = Merged(@, keys, fields)],
                 "lines", Mark("lines", fields, pages)),
           Deferred("lines", fields, pages), {})

\* merge_block("pages", rows): the rows say whether the pages need OCR.
MergePages(pages, flag) ==
  /\ InCall /\ open.program \in Candidates
  /\ Complaining(Refused("pages", {"needs_ocr"}, pages),
       Stamp([data EXCEPT !.pages = IF flag THEN @ \cup pages ELSE @ \ pages,
                          !.asked = IF flag THEN @ \cup pages ELSE @],
             "pages", Mark("pages", {"needs_ocr"}, pages)),
       Deferred("pages", {"needs_ocr"}, pages), {})

\* replace_page_rows("lines", pages, rows): the rows of these pages go first.
ReplacePageRows(pages, keys) ==
  /\ InCall /\ open.program \in Candidates
  /\ pages # {} /\ PagesOf(keys) \subseteq pages
  /\ LET cleared == [k \in Keys |-> IF k[1] \in pages THEN NoRow ELSE data.lines[k]]
     IN  Complaining(Refused("lines", Grant(open.program), pages),
           Stamp([data EXCEPT !.lines = Merged(cleared, keys, Grant(open.program))],
                 "lines", Mark("lines", Grant(open.program), pages)),
           Deferred("lines", Grant(open.program), pages), pages)

Finalize(slot) ==
  /\ open # Closed
  /\ disk' = [disk EXCEPT ![slot] =
       [data EXCEPT !.unsourced = @ \/ \E b \in Blocks : open.deferred[b].held]]
  /\ open' = Closed /\ data' = Blank /\ base' = Blank
  /\ UNCHANGED <<sessions, calls>>

-----------------------------------------------------------------------------
(* merge_document_records: two branches of a record are folded into one.     *)

\* Fault: the first record's block stays whenever it has one.
FirstStays(a, b, block) == a.stamps[block] = NoStamp /\ b.stamps[block] # NoStamp

\* A block of the first record, or of the second when it is newer.
Newer(a, b, block) == b.stamps[block].at > a.stamps[block].at

Fold(a, b) ==
  LET from(block) == IF Newer(a, b, block) THEN b ELSE a
  IN  [ origin    |-> IF a.origin = None THEN b.origin ELSE a.origin,
        pages     |-> from("pages").pages,
        lines     |-> from("lines").lines,
        content   |-> from("content").content,
        stamps    |-> [block \in Blocks |-> from(block).stamps[block]],
        asked     |-> a.asked \cup b.asked,
        warned    |-> a.warned \/ b.warned,
        unsourced |-> a.unsourced \/ b.unsourced,
        late      |-> a.late \/ b.late ]

\* A stamp that is no second originator of the plane.
StampAllowed(d, stamp) ==
  \/ Originator(d.origin) = None \/ stamp.program \notin Candidates
  \/ Canonical(stamp.program) = Originator(d.origin)
  \/ stamp.contribution = "scoring"
  \/ stamp.contribution = "ocr-handoff" /\ d.pages # {}

Foldable(a, b) ==
  /\ None \in {a.origin, b.origin} \/ a.origin = b.origin
  /\ \A block \in Blocks : StampAllowed(Fold(a, b), Fold(a, b).stamps[block])

FanIn(s, t, out) ==
  /\ open = Closed /\ s # t /\ sessions < MaxSessions
  /\ ~disk[s].warned /\ ~disk[t].warned
  /\ Foldable(disk[s], disk[t])
  /\ disk' = [disk EXCEPT ![out] = Fold(disk[s], disk[t])]
  /\ sessions' = sessions + 1
  /\ UNCHANGED <<open, data, base, calls>>

Call ==
  \/ \E o \in Origins : SetSource(o)
  \/ SetContent
  \/ SetLines
  \/ \E keys \in Batches, fields \in Narrowed(open.program) : MergeLines(keys, fields)
  \/ \E keys \in Batches, flag \in BOOLEAN : MergePages(PagesOf(keys), flag)
  \/ \E keys \in Batches, rows \in Batches \cup {{}} : ReplacePageRows(PagesOf(keys), rows)

Next ==
  \/ \E prog \in Programs, s \in Slots : Open(prog, s)
  \/ Call
  \/ \E s \in Slots : Finalize(s)
  \/ \E s, t, out \in Slots : FanIn(s, t, out)

Spec == Init /\ [][Next]_vars

-----------------------------------------------------------------------------
(* Properties. *)

Records ==
  [ origin : Origins \cup {None},
    pages : SUBSET Pages,
    lines : [Keys -> [{"by"} \cup Fields -> Programs \cup {None}]],
    content : Candidates \cup {None},
    stamps : [Blocks -> [program : Programs \cup {None},
                         contribution : {None, "scoring", "ocr-handoff"},
                         at : Nat]],
    asked : SUBSET Pages, warned : BOOLEAN, unsourced : BOOLEAN, late : BOOLEAN ]

\* The variables keep their shape; only what a session may write is in a record.
TypeOK ==
  /\ disk \in [Slots -> Records] /\ data \in Records /\ base \in Records
  /\ open \in [ program : Programs \cup {None}, replaced : SUBSET Pages,
                 deferred : [Blocks -> [held : BOOLEAN,
                                        fields : (SUBSET (Fields \cup {"needs_ocr"})) \cup {Wholesale},
                                        pages : (SUBSET Pages) \cup {Anywhere}]] ]
  /\ sessions \in Nat /\ calls \in Nat

\* A record nobody warned about.
Sound(d) == ~d.warned /\ ~d.unsourced /\ Originator(d.origin) # None

\* In a record written without a complaint, every text of a line is the
\* originator's, or came from OCR onto a page that was flagged for it: the plane
\* is never half OCR and half converted, in whatever order the programs write,
\* learn the origin, branch and are folded (_assert_origin_consistent and the
\* check of merge_document_records).
OneTextPlane ==
  \A s \in Slots : Sound(disk[s]) =>
    \A k \in Keys :
      LET text == disk[s].lines[k].text IN
      \/ text = None \/ Canonical(text) = Originator(disk[s].origin)
      \/ Canonical(text) = Ocr /\ k[1] \in disk[s].asked

\* A score never adds a line to a plane of the converter: the lines OCR added are
\* on pages flagged for it.  Claimed when the origin was known as they were
\* written (_is_scoring_contribution and _merge).
ScoreInventsNothing ==
  \A s \in Slots : Sound(disk[s]) /\ ~disk[s].late =>
    \A k \in Keys :
      LET row == disk[s].lines[k] IN
      Canonical(row.by) = Ocr =>
        Originator(disk[s].origin) = Ocr \/ k[1] \in disk[s].asked

\* What one contribution may do to the record it was opened on.
Survives(b, d) ==
  /\ b.origin # None => d.origin = b.origin
  /\ \A k \in Keys : Exists(b.lines[k]) /\ k[1] \notin open.replaced =>
       /\ d.lines[k].by = b.lines[k].by
       /\ d.lines[k].lemma # b.lines[k].lemma => open.program = "nlp-enrich"
       /\ d.lines[k].text # b.lines[k].text /\ OthersPlane(b, open.program) =>
            k[1] \in d.asked
  /\ b.content # None /\ OthersPlane(b, open.program) => d.content = b.content

\* A record written without a complaint keeps what other programs put there: the
\* origin, the lines of pages that were not replaced and the lemmas on them, and
\* what a program that is not the originator may not touch (_merge, set_source).
OthersSurvive ==
  [][ \A s \in Slots :
        open # Closed /\ disk'[s] # disk[s] /\ ~disk'[s].warned => Survives(base, disk'[s]) ]_vars

\* Two branches fold into the same record in either order, and are refused in
\* either order (merge_document_records).
FanInOrderFree ==
  \A s, t \in Slots : Foldable(disk[s], disk[t]) =>
    Foldable(disk[t], disk[s]) /\ Fold(disk[s], disk[t]) = Fold(disk[t], disk[s])
=============================================================================
