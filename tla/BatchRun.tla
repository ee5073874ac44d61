------------------------------ MODULE BatchRun ------------------------------
(***************************************************************************)
(* The batch command: main.main over the files of a folder, each through   *)
(* main.process_single_file, and the four files a document leaves in the   *)
(* output folder: the translated XML, the CSV log, its .partial, and the   *)
(* document record.  The command is run several times on one output        *)
(* folder; any run may be killed between two steps.                        *)
(*                                                                         *)
(* A file's content is the number of the run that wrote it.  The documents *)
(* of a folder have names of their own.                                    *)
(***************************************************************************)
EXTENDS Integers, FiniteSets

CONSTANTS
  Docs,        \* the input files
  Validated,   \* metadata records, validated against the XSD of the run
  MaxRuns      \* bound on how often the command is run

ASSUME BatchAssumption ==
  IsFiniteSet(Docs) /\ Validated \subseteq Docs /\ MaxRuns \in Nat \ {0}

VARIABLES
  run,         \* which run of the command this is
  strict,      \* --xsd-strict
  exit,        \* "running", an exit code, or how the run stopped
  inputs,      \* files_to_process
  waiting,     \* those the loop has not come to
  doc,         \* the file in hand
  step,        \* where process_single_file is
  rows,        \* what has been written to the .partial log
  xmlWritten, success,
  invalid,     \* documents whose XSD verdict is False
  failed,      \* failed_files
  counted,     \* the paradata's output count (log_success)
  skipped,     \* the paradata's skipped files (log_skip)
  paradata,    \* the paradata of the last run that wrote one
  xml, partial, log, record   \* the output folder

runVars   == <<run, strict, inputs>>
loopVars  == <<exit, waiting, doc, failed>>
fileVars  == <<rows, xmlWritten, success>>
tallyVars == <<invalid, counted, skipped>>
diskVars  == <<xml, partial, log, record>>
vars == <<runVars, loopVars, step, fileVars, tallyVars, paradata, diskVars>>

Steps == {"next", "open", "translate", "write", "writing", "gate", "record", "publish"}
Exits == {"running", "ok", "no_input", "failed", "aborted", "killed"}
Runs  == 0 .. MaxRuns    \* 0: no file

-----------------------------------------------------------------------------
\* The files a run collects: of the folder or the one it is given, or those of a list of
\* URLs that could be downloaded.
Found == SUBSET Docs

Fresh ==
  /\ exit' = "running" /\ step' = "next" /\ rows' = "header"
  /\ xmlWritten' = FALSE /\ success' = FALSE
  /\ invalid' = {} /\ failed' = {} /\ counted' = 0 /\ skipped' = 0

Init ==
  /\ run = 1 /\ strict \in BOOLEAN /\ exit = "running"
  /\ inputs \in Found /\ waiting = inputs /\ doc \in Docs
  /\ step = "next" /\ rows = "header" /\ xmlWritten = FALSE /\ success = FALSE
  /\ invalid = {} /\ failed = {} /\ counted = 0 /\ skipped = 0
  /\ paradata = [total |-> 0, processed |-> 0, skipped |-> 0]
  /\ xml = [d \in Docs |-> [run |-> 0, whole |-> TRUE]]
  /\ partial = [d \in Docs |-> 0]
  /\ log = [d \in Docs |-> [run |-> 0, rows |-> "none"]]
  /\ record = [d \in Docs |-> 0]

Running(s) == exit = "running" /\ step = s

\* The file is neither ALTO nor a record with XPath targets.
RefuseFile ==
  /\ Running("next")
  /\ \E d \in waiting :
       /\ waiting' = waiting \ {d} /\ doc' = d
       /\ failed' = failed \union {d}
  /\ skipped' = skipped + 1
  /\ UNCHANGED <<runVars, exit, step, fileVars, invalid, counted, paradata, diskVars>>

TakeFile ==
  /\ Running("next")
  /\ \E d \in waiting : waiting' = waiting \ {d} /\ doc' = d
  /\ step' = "open"
  /\ UNCHANGED <<runVars, exit, failed, fileVars, tallyVars, paradata, diskVars>>

OpenPartial ==
  /\ Running("open")
  /\ partial' = [partial EXCEPT ![doc] = run]
  /\ rows' = "header" /\ xmlWritten' = FALSE /\ success' = FALSE
  /\ step' = "translate"
  /\ UNCHANGED <<runVars, loopVars, tallyVars, paradata, xml, log, record>>

\* The rows go to the open .partial before the XML is written.
Translate ==
  /\ Running("translate")
  /\ rows' = "full"
  /\ step' = "write"
  /\ UNCHANGED <<runVars, loopVars, xmlWritten, success, tallyVars, paradata, diskVars>>

StartWrite ==
  /\ Running("write")
  /\ xml' = [xml EXCEPT ![doc] = [run |-> run, whole |-> FALSE]]
  /\ step' = "writing"
  /\ UNCHANGED <<runVars, loopVars, fileVars, tallyVars, paradata, partial, log, record>>

\* tree.write returns; a schema's verdict is kept, it does not stop the document.
EndWrite ==
  /\ Running("writing")
  /\ xml' = [xml EXCEPT ![doc] = [run |-> run, whole |-> TRUE]]
  /\ xmlWritten' = TRUE
  /\ invalid' \in {invalid} \union (IF doc \in Validated THEN {invalid \union {doc}} ELSE {})
  /\ step' = "gate"
  /\ UNCHANGED <<runVars, loopVars, rows, success, counted, skipped, paradata, partial, log, record>>

PassGate ==
  /\ Running("gate")
  /\ step' = "record"
  /\ UNCHANGED <<runVars, loopVars, fileVars, tallyVars, paradata, diskVars>>

\* Fault: the XML and the record are counted as two documents.
FinalizeRecordTwice ==
  /\ Running("record")
  /\ record' = [record EXCEPT ![doc] = run]
  /\ success' = TRUE /\ counted' = counted + 2
  /\ step' = "publish"
  /\ UNCHANGED <<runVars, loopVars, rows, xmlWritten, invalid, skipped, paradata, xml, partial, log>>

\* Written to a .tmp and renamed, then the successes are counted.
FinalizeRecord ==
  /\ Running("record")
  /\ record' = [record EXCEPT ![doc] = run]
  /\ success' = TRUE /\ counted' = counted + 1
  /\ step' = "publish"
  /\ UNCHANGED <<runVars, loopVars, rows, xmlWritten, invalid, skipped, paradata, xml, partial, log>>

\* Fault: a reply that cannot be written is reported and the document goes on.
FailFileGoesOn ==
  /\ exit = "running" /\ step \in {"translate", "write", "writing", "gate", "record"}
  /\ step' = IF step \in {"write", "writing"} THEN "gate" ELSE "publish"
  /\ skipped' = IF step \in {"write", "writing"} THEN skipped ELSE skipped + 1
  /\ UNCHANGED <<runVars, loopVars, fileVars, invalid, counted, paradata, diskVars>>

\* Anything between opening the record and finalizing it raises: the file is skipped.
FailFile ==
  /\ exit = "running" /\ step \in {"translate", "write", "writing", "gate", "record"}
  /\ skipped' = skipped + 1
  /\ step' = "publish"
  /\ UNCHANGED <<runVars, loopVars, fileVars, invalid, counted, paradata, diskVars>>

LogExists == log[doc].run # 0

\* Faults: every log is published; only that of a success is.
PublishesAlways  == TRUE
PublishesSuccess == success \/ ~LogExists

Publishes == xmlWritten \/ ~LogExists

\* The log replaces the previous one, or its .partial is dropped.
CloseLog ==
  /\ Running("publish")
  /\ partial' = [partial EXCEPT ![doc] = 0]
  /\ log' = IF Publishes THEN [log EXCEPT ![doc] = [run |-> run, rows |-> rows]] ELSE log
  /\ failed' = IF success THEN failed ELSE failed \union {doc}
  /\ step' = "next"
  /\ UNCHANGED <<runVars, exit, waiting, doc, fileVars, tallyVars, paradata, xml, record>>

\* Fault: the records the schema rejects do not count.
AllFailedIgnoresXsd == failed

AllFailed == failed \union (IF strict THEN invalid ELSE {})

EndRun ==
  /\ Running("next") /\ waiting = {} /\ inputs # {}
  /\ failed' = AllFailed
  /\ paradata' = [total |-> Cardinality(inputs), processed |-> counted, skipped |-> skipped]
  /\ exit' = IF AllFailed = {} THEN "ok" ELSE "failed"
  /\ UNCHANGED <<runVars, waiting, doc, step, fileVars, tallyVars, diskVars>>

\* The paradata of a run that returns early or raises is written as it leaves.
AsItLeaves == [total |-> counted + skipped, processed |-> counted, skipped |-> skipped]

NoInput ==
  /\ Running("next") /\ inputs = {}
  /\ exit' = "no_input"
  /\ paradata' = AsItLeaves
  /\ UNCHANGED <<runVars, waiting, doc, failed, step, fileVars, tallyVars, diskVars>>

\* An interrupt, or an error nothing catches (a folder cannot be made, the .partial not
\* opened, flushed or renamed): the run ends where it is.
Abort ==
  /\ exit = "running"
  /\ exit' = "aborted"
  /\ paradata' = AsItLeaves
  /\ UNCHANGED <<runVars, waiting, doc, failed, step, fileVars, tallyVars, diskVars>>

Kill ==
  /\ exit = "running"
  /\ exit' = "killed"
  /\ UNCHANGED <<runVars, waiting, doc, failed, step, fileVars, tallyVars, paradata, diskVars>>

RunAgain ==
  /\ exit # "running" /\ run < MaxRuns
  /\ run' = run + 1 /\ strict' \in BOOLEAN
  /\ inputs' \in Found /\ waiting' = inputs'
  /\ Fresh
  /\ UNCHANGED <<doc, paradata, diskVars>>

Next ==
  \/ RefuseFile \/ TakeFile \/ OpenPartial \/ Translate \/ StartWrite \/ EndWrite
  \/ PassGate \/ FinalizeRecord \/ FailFile \/ CloseLog \/ EndRun \/ NoInput
  \/ Abort \/ Kill \/ RunAgain

Spec == Init /\ [][Next]_vars
-----------------------------------------------------------------------------
\* Every variable keeps its type; the loop waits for inputs of its own run only.
TypeOK ==
  /\ run \in 1 .. MaxRuns /\ strict \in BOOLEAN /\ exit \in Exits
  /\ inputs \subseteq Docs /\ waiting \subseteq inputs /\ doc \in Docs
  /\ step \in Steps /\ rows \in {"header", "full"}
  /\ xmlWritten \in BOOLEAN /\ success \in BOOLEAN
  /\ invalid \subseteq Docs /\ failed \subseteq Docs
  /\ counted \in Nat /\ skipped \in Nat
  /\ paradata \in [total : Nat, processed : Nat, skipped : Nat]
  /\ xml \in [Docs -> [run : Runs, whole : BOOLEAN]]
  /\ partial \in [Docs -> Runs]
  /\ log \in [Docs -> [run : Runs, rows : {"none", "header", "full"}]]
  /\ record \in [Docs -> Runs]

\* A log with the rows of a document is never replaced by an empty one, nor lost:
\* whatever fails or is killed, the review of the last translation can go on.
FullLogKept ==
  [][\A d \in Docs : log[d].rows = "full" => log'[d].rows = "full"]_vars

Handled(d) == d \in inputs \ waiting /\ ~(d = doc /\ step # "next")

\* "The log is published whenever that XML was (re)written - even if a later step
\* failed": of every document this run is done with, an XML of this run that is
\* whole has the log of this run beside it.
WrittenXmlHasItsLog ==
  \A d \in Docs :
    Handled(d) /\ xml[d] = [run |-> run, whole |-> TRUE] => log[d] = [run |-> run, rows |-> "full"]

\* The record describes an XML that is there: the one its own run wrote, complete,
\* or what a later run has made of it.  Killed runs included.
RecordNeverAheadOfXml ==
  \A d \in Docs :
    record[d] = 0 \/ xml[d].run > record[d] \/ xml[d] = [run |-> record[d], whole |-> TRUE]

Complete(d) ==
  /\ xml[d] = [run |-> run, whole |-> TRUE]
  /\ log[d] = [run |-> run, rows |-> "full"]
  /\ record[d] = run /\ partial[d] = 0

\* The exit code tells the folder: success, exactly if every document has an XML, a
\* log and a record of this run and no leftover of this or an earlier run (and, when
\* strict, a valid XML); exit 3 exactly if one has not.
ExitTellsTheOutputs ==
  exit \in {"ok", "failed"} =>
    (exit = "ok" <=> \A d \in inputs : Complete(d) /\ (strict => d \notin invalid))

\* The paradata of a run that came to its end counts every input once: as processed
\* exactly those with a record of this run, as skipped the others.
ParadataAccounts ==
  exit \in {"ok", "failed"} =>
    /\ paradata.total = Cardinality(inputs)
    /\ paradata.processed = Cardinality({d \in inputs : record[d] = run})
    /\ paradata.processed + paradata.skipped = paradata.total

=============================================================================
