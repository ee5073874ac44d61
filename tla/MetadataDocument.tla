-------------------------- MODULE MetadataDocument --------------------------
(***************************************************************************)
(* One metadata record through utils.process_metadata_xml: the XPath loop, *)
(* the field translated in place (replace) or into a sibling beside it     *)
(* (append), the end-of-document re-run of the flagged fields, and the     *)
(* record and its CSV log written at the end.  A behaviour may process the *)
(* record several times, its own output being the next input.              *)
(*                                                                         *)
(* The record is the sequence of its elements with text.  An element is    *)
(* known by the path of insertions that made it: <<f>> is the f-th element *)
(* of the original record, Append(id, p) the sibling pass p put after id.  *)
(* Two neighbours are siblings with the same tag exactly if their original *)
(* elements have the same kind (parent and tag).  A text is its author:    *)
(* the source, or the row of the log of the pass that translated it.       *)
(***************************************************************************)
EXTENDS Integers, Sequences, FiniteSets, SequencesExt

CONSTANTS
  KindOf,        \* KindOf[f]: parent and tag of the f-th element, f in 1 .. n
  XPaths,        \* the configured XPaths: a sequence of sets of kinds
  Labelled,      \* original elements with an xml:lang of their own
  Unsupported,   \* elements identified as a language the backend cannot translate
  Targets,       \* target languages of the passes
  MaxRounds,     \* bound of TRANSLATION_RERUN_ROUNDS
  MaxPasses      \* bound on how often the record is processed

Fields == DOMAIN KindOf

ASSUME MetadataAssumption ==
  /\ Fields = 1 .. Len(KindOf) /\ Len(KindOf) \in Nat /\ Len(XPaths) \in Nat
  /\ Labelled \subseteq Fields /\ Unsupported \subseteq Fields
  /\ MaxRounds \in Nat /\ MaxPasses \in Nat \ {0}
  /\ "none" \notin Targets /\ "source" \notin Targets

VARIABLES
  opt,       \* the mode and the re-run rounds in force
  target,    \* the target language of this pass
  pass,      \* which processing of the record this is
  phase,     \* where process_metadata_xml is
  xpath,     \* the XPath to be evaluated next
  todo,      \* its elements not yet visited, visited in document order
  record,    \* the tree in memory
  rows,      \* the rows of this pass
  flagged,   \* rows of the fields put aside for the re-run
  round,     \* the re-run round
  retry,     \* flagged rows the round still has to ask for, in the order of the rows
  notes,     \* fields in the TRANSLATION_RERUN_ROUNDS "skipped" note
  file,      \* the record last written
  log        \* the log last written

callVars == <<opt, target, pass>>
diskVars == <<file, log>>
vars == <<callVars, phase, xpath, todo, record, rows, flagged, round, retry, notes, diskVars>>

-----------------------------------------------------------------------------
Phases   == {"visit", "rerun", "round", "close", "done", "failed"}
Statuses == {"ok", "rerun", "untranslated", "unsupported_lang"}
Source   == [pass |-> 0, row |-> 0]
NoText   == [pass |-> -1, row |-> 0]

Kind(id) == KindOf[id[1]]

Ids(s) == {s[i].id : i \in DOMAIN s}

Position(id) == CHOOSE i \in DOMAIN record : record[i].id = id

Original == [f \in Fields |->
  [id |-> <<f>>, text |-> Source, label |-> IF f \in Labelled THEN "source" ELSE "none"]]

\* Faults: an element that is itself a translation is taken for a source field;
\* the element behind a field is not looked at.
LooksBehindOnly(id) ==
  LET i == Position(id)
  IN i < Len(record) /\ Kind(record[i + 1].id) = Kind(id) /\ record[i + 1].label = target

LooksAtItselfOnly(id) == record[Position(id)].label = target

\* _already_appended: the element is a translation, or has one right behind it.
AlreadyAppended(id) ==
  LET i == Position(id)
  IN \/ record[i].label = target
     \/ /\ i < Len(record)
        /\ Kind(record[i + 1].id) = Kind(id)
        /\ record[i + 1].label = target

\* _write_metadata_translation with _append_translation_sibling: the text of the
\* element, or a sibling right behind it and a label on an element that has none.
Written(id, text) ==
  LET i == Position(id)
  IN IF ~opt.append THEN [record EXCEPT ![i].text = text]
     ELSE IF AlreadyAppended(id) THEN record
     ELSE InsertAt([record EXCEPT ![i].label = IF @ = "none" THEN "source" ELSE @],
                   i + 1, [id |-> Append(id, pass), text |-> text, label |-> target])

-----------------------------------------------------------------------------
Init ==
  /\ opt \in [append : BOOLEAN, rounds : 0 .. MaxRounds]
  /\ target \in Targets
  /\ pass = 1 /\ phase = "visit" /\ xpath = 1 /\ todo = {}
  /\ record = Original
  /\ rows = <<>> /\ flagged = {} /\ round = 0 /\ retry = {} /\ notes = 0
  /\ file = Original /\ log = <<>>

\* The elements of an XPath are selected when the loop comes to it: siblings that
\* an earlier XPath appended are among them.
EvaluateXPath ==
  /\ phase = "visit" /\ todo = {} /\ xpath <= Len(XPaths)
  /\ todo' = {id \in Ids(record) : Kind(id) \in XPaths[xpath]}
  /\ xpath' = xpath + 1
  /\ UNCHANGED <<callVars, phase, record, rows, flagged, round, retry, notes, diskVars>>

\* The element the loop comes to next.
ComesNext(id) == \A other \in todo : Position(id) <= Position(other)

SkipField ==
  /\ phase = "visit" /\ opt.append
  /\ \E id \in todo : ComesNext(id) /\ AlreadyAppended(id) /\ todo' = todo \ {id}
  /\ UNCHANGED <<callVars, phase, xpath, record, rows, flagged, round, retry, notes, diskVars>>

NextRow(id) == [id |-> id, asked |-> record[Position(id)].text, target |-> NoText, status |-> "ok"]

\* One request for the field: written at once, or put aside as it is.
TranslateField ==
  /\ phase = "visit"
  /\ \E id \in todo :
       /\ ComesNext(id) /\ ~(opt.append /\ AlreadyAppended(id))
       /\ LET n    == Len(rows) + 1
              text == [pass |-> pass, row |-> n]
          IN \/ /\ record' = Written(id, text)
                /\ rows' = Append(rows, [NextRow(id) EXCEPT !.target = text])
                /\ UNCHANGED flagged
             \/ /\ rows' = Append(rows, NextRow(id))
                /\ flagged' = flagged \cup {n}
                /\ UNCHANGED record
       /\ todo' = todo \ {id}
  /\ UNCHANGED <<callVars, phase, xpath, round, retry, notes, diskVars>>

EndVisit ==
  /\ phase = "visit" /\ todo = {} /\ xpath > Len(XPaths)
  /\ IF flagged = {} THEN phase' = "close" /\ UNCHANGED round
                     ELSE phase' = "rerun" /\ round' = 1
  /\ UNCHANGED <<callVars, xpath, todo, record, rows, flagged, retry, notes, diskVars>>

-----------------------------------------------------------------------------
(***************************************************************************)
(* _rerun_flagged_metadata.                                                *)
(***************************************************************************)
StillFlagged == {r \in flagged : rows[r].status = "ok"}

FirstOf(R, r) == r \in R /\ \A other \in R : r <= other

StartRound ==
  /\ phase = "rerun" /\ round <= opt.rounds /\ StillFlagged # {}
  /\ retry' = StillFlagged
  /\ phase' = "round"
  /\ UNCHANGED <<callVars, xpath, todo, record, rows, flagged, round, notes, diskVars>>

\* Fault: the recovered translation is logged but not written.
RetryFieldLogOnly ==
  /\ phase = "round"
  /\ \E r \in retry :
       /\ FirstOf(retry, r) /\ retry' = retry \ {r}
       /\ \/ UNCHANGED rows
          \/ rows' = [rows EXCEPT ![r].target = [pass |-> pass, row |-> r], ![r].status = "rerun"]
  /\ UNCHANGED <<callVars, phase, xpath, todo, record, flagged, round, notes, diskVars>>

RetryField ==
  /\ phase = "round"
  /\ \E r \in retry :
       /\ FirstOf(retry, r) /\ retry' = retry \ {r}
       /\ \/ UNCHANGED <<rows, record>>
          \/ LET text == [pass |-> pass, row |-> r]
             IN /\ record' = Written(rows[r].id, text)
                /\ rows' = [rows EXCEPT ![r].target = text, ![r].status = "rerun"]
  /\ UNCHANGED <<callVars, phase, xpath, todo, flagged, round, notes, diskVars>>

\* Fault: the round is not counted.
EndRoundUncounted ==
  /\ phase = "round" /\ retry = {}
  /\ phase' = "rerun"
  /\ UNCHANGED <<callVars, xpath, todo, record, rows, flagged, round, retry, notes, diskVars>>

EndRound ==
  /\ phase = "round" /\ retry = {}
  /\ round' = round + 1
  /\ phase' = "rerun"
  /\ UNCHANGED <<callVars, xpath, todo, record, rows, flagged, retry, notes, diskVars>>

\* What never recovered keeps its source, says so, and is counted in the note.
GiveUpField ==
  /\ phase = "rerun" /\ round > opt.rounds
  /\ \E r \in StillFlagged :
       FirstOf(StillFlagged, r) /\ rows' = [rows EXCEPT ![r].status = "untranslated"]
  /\ notes' = notes + 1
  /\ UNCHANGED <<callVars, phase, xpath, todo, record, flagged, round, retry, diskVars>>

\* Fault: the fields the last round did not recover are left as they are.
EndRerunLeavesFlagged ==
  /\ phase = "rerun" /\ (round > opt.rounds \/ StillFlagged = {})
  /\ phase' = "close"
  /\ UNCHANGED <<callVars, xpath, todo, record, rows, flagged, round, retry, notes, diskVars>>

EndRerun ==
  /\ phase = "rerun" /\ StillFlagged = {}
  /\ phase' = "close"
  /\ UNCHANGED <<callVars, xpath, todo, record, rows, flagged, round, retry, notes, diskVars>>

-----------------------------------------------------------------------------
\* unsupported_lang outranks all but untranslated.
LogRow(row) ==
  IF row.id[1] \in Unsupported /\ row.status # "untranslated"
    THEN [row EXCEPT !.status = "unsupported_lang"] ELSE row

\* The log in the order of the visits, then the record (whatever the XSD says).
WriteOutputs ==
  /\ phase = "close"
  /\ log' = [r \in DOMAIN rows |-> LogRow(rows[r])]
  /\ file' = record
  /\ phase' = "done"
  /\ UNCHANGED <<callVars, xpath, todo, record, rows, flagged, round, retry, notes>>

\* A request or the write raises: nothing is written.
Fails ==
  /\ \/ /\ phase = "visit"
        /\ \E id \in todo : ComesNext(id) /\ ~(opt.append /\ AlreadyAppended(id))
     \/ phase = "round" /\ retry # {}
     \/ phase = "close"
  /\ phase' = "failed"
  /\ UNCHANGED <<callVars, xpath, todo, record, rows, flagged, round, retry, notes, diskVars>>

\* A fresh call on the record as it now is, for the same or another language.
ProcessAgain ==
  /\ phase = "failed" \/ (phase = "done" /\ opt.append)
  /\ pass < MaxPasses
  /\ pass' = pass + 1 /\ target' \in Targets
  /\ phase' = "visit" /\ xpath' = 1 /\ todo' = {}
  /\ record' = file
  /\ rows' = <<>> /\ flagged' = {} /\ round' = 0 /\ retry' = {} /\ notes' = 0
  /\ UNCHANGED <<opt, diskVars>>

Step ==
  \/ EvaluateXPath \/ SkipField \/ TranslateField \/ EndVisit
  \/ StartRound \/ RetryField \/ EndRound \/ GiveUpField \/ EndRerun \/ WriteOutputs

Next == Step \/ Fails \/ ProcessAgain

Spec == Init /\ [][Next]_vars

\* As for ALTO: every request returns or raises, a failure or a pass is not owed.
FairSpec == Spec /\ WF_vars(Step)
-----------------------------------------------------------------------------
\* Every variable keeps its type; an element is in the record once.
TypeOK ==
  /\ opt \in [append : BOOLEAN, rounds : 0 .. MaxRounds] /\ target \in Targets
  /\ pass \in 1 .. MaxPasses /\ phase \in Phases /\ xpath \in 1 .. Len(XPaths) + 1
  /\ \A i, j \in DOMAIN record : record[i].id = record[j].id => i = j
  /\ todo \subseteq Ids(record)
  /\ \A r \in DOMAIN rows : rows[r].status \in Statuses
  /\ flagged \subseteq DOMAIN rows /\ retry \subseteq flagged
  /\ round \in 0 .. MaxRounds + 1 /\ notes \in 0 .. Len(rows)

\* The element of a row, and what the written record shows for it: its own text in
\* replace mode, that of the sibling behind it in append mode.
Shown(r) ==
  LET i == CHOOSE k \in DOMAIN file : file[k].id = log[r].id
  IN IF opt.append
       THEN IF i < Len(file) /\ file[i + 1].id = Append(log[r].id, pass)
              THEN file[i + 1].text ELSE NoText
       ELSE file[i].text

\* A row logged with a translation shows the text the record really holds for that
\* field, flagged and re-run fields included; one logged "untranslated" (and only
\* such a one) kept its source and is counted in the note the service reports.
LogTellsTheRecord ==
  phase = "done" =>
    /\ \A r \in DOMAIN log :
         IF log[r].status = "untranslated"
           THEN /\ log[r].target = NoText
                /\ Shown(r) = IF opt.append THEN NoText ELSE log[r].asked
           ELSE log[r].target # NoText /\ Shown(r) = log[r].target
    /\ notes = Cardinality({r \in DOMAIN log : log[r].status = "untranslated"})

\* No request is spent on a translation: every text sent to the backend is the
\* source's own, never what an earlier request of this or of an earlier pass wrote
\* ("re-running over an _en output silently re-translates English into English").
NothingTranslatedTwice == \A r \in DOMAIN rows : rows[r].asked = Source

\* Elements of the record in the language l that translate the element id.
TranslationsInto(l, id) ==
  {i \in DOMAIN file : /\ file[i].label = l
                       /\ Len(file[i].id) = Len(id) + 1
                       /\ SubSeq(file[i].id, 1, Len(id)) = id}

\* Append is idempotent: however often the record is processed, a field has at most
\* one sibling in a target language.
OneSiblingPerLanguage ==
  \A i \in DOMAIN file, l \in Targets : Cardinality(TranslationsInto(l, file[i].id)) <= 1

\* An element that was given a translation beside it says which language it is in
\* itself, so that the pair describes itself.
PairsAreLabelled ==
  \A i, j \in DOMAIN file :
    Len(file[j].id) > 1 /\ Front(file[j].id) = file[i].id => file[i].label # "none"

\* A field and its translation are one pair, and say so.
PairsDescribeThemselves == OneSiblingPerLanguage /\ PairsAreLabelled

\* Each processing ends, written or failed: no reply keeps the rounds going.
PassEnds == phase = "visit" ~> phase \in {"done", "failed"}

-----------------------------------------------------------------------------
(***************************************************************************)
(* For one target language and XPaths that name no element twice the       *)
(* processing implements DocumentLedger, each targeted field being a line  *)
(* and a block of its own.                                                 *)
(***************************************************************************)
Targeted == {f \in Fields : \E x \in 1 .. Len(XPaths) : KindOf[f] \in XPaths[x]}

RowsOf(f) == {r \in DOMAIN rows : rows[r].id = <<f>>}

TextOf(s, f) ==
  LET i == CHOOSE k \in DOMAIN s : s[k].id = <<f>>
      beside == i < Len(s) /\ Len(s[i + 1].id) > 1
  IN IF opt.append THEN IF beside THEN s[i + 1].text.pass ELSE 0 ELSE s[i].text.pass

Fate == [f \in Targeted |->
  IF RowsOf(f) = {}
    THEN IF <<f>> \in todo /\ ~(opt.append /\ AlreadyAppended(<<f>>)) THEN "open" ELSE "out"
    ELSE IF TextOf(record, f) = pass THEN "translated"
    ELSE IF \E r \in RowsOf(f) : rows[r].status = "untranslated" THEN "kept"
    ELSE "open"]

LedgerState == IF phase \in {"done", "failed"} THEN phase ELSE "working"

Ledger == INSTANCE DocumentLedger
            WITH Lines <- Targeted, BlockOf <- [f \in Targeted |-> f],
                 fate <- Fate, published <- [f \in Targeted |-> TextOf(file, f)],
                 append <- opt.append, state <- LedgerState

\* The record changes as the same abstract specification allows as an ALTO file.
ImplementsLedger == Ledger!Spec
=============================================================================
