--------------------------- MODULE BatchRunProofs ---------------------------
(***************************************************************************)
(* Theorems about BatchRun, for every folder and every number of runs.     *)
(* What a file in the output folder says depends on the step at which the  *)
(* run that wrote it was stopped, so the invariant relates the folder to   *)
(* the loop (LoopInv), to the file in hand (HandInv) and to the files the  *)
(* run is done with (DoneInv).                                             *)
(*                                                                         *)
(* And about the run-level record (Paradata), for every number of stages:  *)
(* it accounts for what the completed calls logged, and the merged licence *)
(* label covers every stage, in any order of them.                         *)
(***************************************************************************)
EXTENDS BatchRun, Paradata, FiniteSetTheorems, SequenceTheorems, TLAPS

Whole(r) == [run |-> r, whole |-> TRUE]

\* The folder is of this and earlier runs; of earlier ones where the loop has not
\* been.  The lists of the run name only files it has come to.
LoopInv ==
  /\ \A d \in Docs : xml[d].run <= run /\ record[d] <= run /\ log[d].run <= run
  /\ \A d \in waiting : xml[d].run < run /\ record[d] < run
  /\ \A d \in Docs : log[d].rows = "full" => log[d].run # 0
  /\ step # "next" => doc \in inputs \ waiting
  /\ invalid \subseteq inputs /\ failed \subseteq inputs
  /\ exit = "running" => failed \cap waiting = {} /\ (step # "next" => doc \notin failed)

\* The file in hand: its XML, log rows and record as far as the step has brought them.
HandInv ==
  /\ step \in {"open", "translate", "write"} => xml[doc].run < run
  /\ step = "writing" => xml[doc] = [run |-> run, whole |-> FALSE]
  /\ step \in {"open", "translate", "write", "writing", "gate", "record"} => record[doc] < run
  /\ step \in {"translate", "write", "writing"} => ~xmlWritten
  /\ step \in {"translate", "write", "writing", "gate", "record"} => ~success
  /\ step \in {"write", "writing", "gate", "record"} => rows = "full"
  /\ step \in {"gate", "record"} => xmlWritten
  /\ step \in {"gate", "record", "publish"} =>
       /\ xmlWritten <=> xml[doc] = Whole(run)
       /\ xmlWritten => rows = "full"
  /\ step = "publish" =>
       /\ success => xmlWritten
       /\ success <=> record[doc] = run

\* A file the run is done with is complete, or among the failed and without a record.
DoneInv ==
  exit = "running" =>
    \A d \in Docs : Handled(d) => IF d \in failed THEN record[d] < run ELSE Complete(d)

IInv ==
  /\ TypeOK /\ LoopInv /\ HandInv /\ RecordNeverAheadOfXml
  /\ WrittenXmlHasItsLog /\ DoneInv /\ ExitTellsTheOutputs

-----------------------------------------------------------------------------
(***************************************************************************)
(* Each part is kept by every action.                                      *)
(***************************************************************************)

\* A run has finitely many inputs, so that the paradata can count them.
LEMMA InputsCounted == ASSUME TypeOK PROVE Cardinality(inputs) \in Nat
  BY BatchAssumption, FS_Subset, FS_CardinalityType DEF TypeOK

\* Every action keeps the types.
LEMMA TypeStep ==
  ASSUME TypeOK, [Next]_vars
  PROVE  TypeOK'
<1>1. CASE RefuseFile
  BY <1>1, BatchAssumption
     DEF RefuseFile, Running, runVars, fileVars, diskVars, TypeOK, Steps, Exits, Runs
<1>2. CASE TakeFile
  BY <1>2, BatchAssumption
     DEF TakeFile, Running, runVars, fileVars, tallyVars, diskVars, TypeOK, Steps, Exits, Runs
<1>3. CASE OpenPartial
  <2>1. run \in Runs
    BY BatchAssumption DEF TypeOK, Runs
  <2>2. partial' \in [Docs -> Runs]
    BY <1>3, <2>1 DEF OpenPartial, TypeOK
  <2> QED
    BY <1>3, <2>2 DEF OpenPartial, Running, runVars, loopVars, tallyVars, TypeOK, Steps, Exits
<1>4. CASE Translate
  BY <1>4, BatchAssumption
     DEF Translate, Running, runVars, loopVars, tallyVars, diskVars, TypeOK, Steps, Exits, Runs
<1>5. CASE StartWrite
  BY <1>5, BatchAssumption
     DEF StartWrite, Running, runVars, loopVars, fileVars, tallyVars, TypeOK, Steps, Exits, Runs
<1>6. CASE EndWrite
  BY <1>6, BatchAssumption
     DEF EndWrite, Running, runVars, loopVars, TypeOK, Steps, Exits, Runs
<1>7. CASE PassGate
  BY <1>7, BatchAssumption
     DEF PassGate, Running, runVars, loopVars, fileVars, tallyVars, diskVars, TypeOK, Steps, Exits, Runs
<1>8. CASE FinalizeRecord
  BY <1>8, BatchAssumption
     DEF FinalizeRecord, Running, runVars, loopVars, TypeOK, Steps, Exits, Runs
<1>9. CASE FailFile
  BY <1>9, BatchAssumption
     DEF FailFile, runVars, loopVars, fileVars, diskVars, TypeOK, Steps, Exits, Runs
<1>10. CASE CloseLog
  BY <1>10, BatchAssumption
     DEF CloseLog, Running, Publishes, LogExists, runVars, fileVars, tallyVars, TypeOK, Steps, Exits, Runs
<1>11. CASE EndRun
  BY <1>11, BatchAssumption, InputsCounted
     DEF EndRun, Running, AllFailed, runVars, fileVars, tallyVars, diskVars, TypeOK, Steps, Exits, Runs
<1>12. CASE NoInput
  BY <1>12, BatchAssumption
     DEF NoInput, Running, AsItLeaves, runVars, fileVars, tallyVars, diskVars, TypeOK, Steps, Exits, Runs
<1>13. CASE Abort
  BY <1>13, BatchAssumption
     DEF Abort, AsItLeaves, runVars, fileVars, tallyVars, diskVars, TypeOK, Steps, Exits, Runs
<1>14. CASE Kill
  BY <1>14, BatchAssumption
     DEF Kill, runVars, fileVars, tallyVars, diskVars, TypeOK, Steps, Exits, Runs
<1>15. CASE RunAgain
  <2>1. run' \in 1 .. MaxRuns /\ strict' \in BOOLEAN /\ inputs' \subseteq Docs
    BY <1>15, BatchAssumption DEF RunAgain, Found, TypeOK
  <2>2. UNCHANGED <<doc, paradata, xml, partial, log, record>>
    BY <1>15 DEF RunAgain, Found, diskVars
  <2> QED
    BY <1>15, <2>1, <2>2 DEF RunAgain, Found, Fresh, TypeOK, Steps, Exits
<1>16. CASE UNCHANGED vars
  BY <1>16 DEF vars, runVars, loopVars, fileVars, tallyVars, diskVars, TypeOK, Steps, Exits, Runs
<1>17. QED
  BY <1>1, <1>2, <1>3, <1>4, <1>5, <1>6, <1>7, <1>8, <1>9, <1>10, <1>11, <1>12, <1>13, <1>14, <1>15, <1>16 DEF Next

\* Every action keeps the lists of the loop in step with the folder.
LEMMA LoopStep ==
  ASSUME TypeOK, LoopInv, [Next]_vars
  PROVE  LoopInv'
<1>1. CASE RefuseFile
  BY <1>1, BatchAssumption
     DEF RefuseFile, Running, runVars, fileVars, diskVars, TypeOK, Steps, Exits, Runs, LoopInv
<1>2. CASE TakeFile
  BY <1>2, BatchAssumption
     DEF TakeFile, Running, runVars, fileVars, tallyVars, diskVars, TypeOK, Steps, Exits, Runs, LoopInv
<1>3. CASE OpenPartial
  BY <1>3, BatchAssumption
     DEF OpenPartial, Running, runVars, loopVars, tallyVars, TypeOK, Steps, Exits, Runs, LoopInv
<1>4. CASE Translate
  BY <1>4, BatchAssumption
     DEF Translate, Running, runVars, loopVars, tallyVars, diskVars, TypeOK, Steps, Exits, Runs, LoopInv
<1>5. CASE StartWrite
  BY <1>5, BatchAssumption
     DEF StartWrite, Running, runVars, loopVars, fileVars, tallyVars, TypeOK, Steps, Exits, Runs, LoopInv
<1>6. CASE EndWrite
  BY <1>6, BatchAssumption
     DEF EndWrite, Running, runVars, loopVars, TypeOK, Steps, Exits, Runs, LoopInv
<1>7. CASE PassGate
  BY <1>7, BatchAssumption
     DEF PassGate, Running, runVars, loopVars, fileVars, tallyVars, diskVars, TypeOK, Steps, Exits, Runs, LoopInv
<1>8. CASE FinalizeRecord
  BY <1>8, BatchAssumption
     DEF FinalizeRecord, Running, runVars, loopVars, TypeOK, Steps, Exits, Runs, LoopInv
<1>9. CASE FailFile
  BY <1>9, BatchAssumption
     DEF FailFile, runVars, loopVars, fileVars, diskVars, TypeOK, Steps, Exits, Runs, LoopInv
<1>10. CASE CloseLog
  BY <1>10, BatchAssumption
     DEF CloseLog, Running, Publishes, LogExists, runVars, fileVars, tallyVars, TypeOK, Steps, Exits, Runs, LoopInv
<1>11. CASE EndRun
  BY <1>11, BatchAssumption
     DEF EndRun, Running, AllFailed, runVars, fileVars, tallyVars, diskVars, TypeOK, Steps, Exits, Runs, LoopInv
<1>12. CASE NoInput
  BY <1>12, BatchAssumption
     DEF NoInput, Running, AsItLeaves, runVars, fileVars, tallyVars, diskVars, TypeOK, Steps, Exits, Runs, LoopInv
<1>13. CASE Abort
  BY <1>13, BatchAssumption
     DEF Abort, AsItLeaves, runVars, fileVars, tallyVars, diskVars, TypeOK, Steps, Exits, Runs, LoopInv
<1>14. CASE Kill
  BY <1>14, BatchAssumption
     DEF Kill, runVars, fileVars, tallyVars, diskVars, TypeOK, Steps, Exits, Runs, LoopInv
<1>15. CASE RunAgain
  BY <1>15, BatchAssumption
     DEF RunAgain, Found, Fresh, diskVars, TypeOK, Steps, Exits, Runs, LoopInv
<1>16. CASE UNCHANGED vars
  BY <1>16 DEF vars, runVars, loopVars, fileVars, tallyVars, diskVars, TypeOK, Steps, Exits, Runs, LoopInv
<1>17. QED
  BY <1>1, <1>2, <1>3, <1>4, <1>5, <1>6, <1>7, <1>8, <1>9, <1>10, <1>11, <1>12, <1>13, <1>14, <1>15, <1>16 DEF Next

\* Every action keeps what is known of the file in hand.
LEMMA HandStep ==
  ASSUME TypeOK, LoopInv, HandInv, [Next]_vars
  PROVE  HandInv'
<1>1. CASE RefuseFile
  BY <1>1, BatchAssumption
     DEF RefuseFile, Running, runVars, fileVars, diskVars, TypeOK, Steps, Exits, Runs, LoopInv, HandInv, Whole
<1>2. CASE TakeFile
  BY <1>2, BatchAssumption
     DEF TakeFile, Running, runVars, fileVars, tallyVars, diskVars, TypeOK, Steps, Exits, Runs, LoopInv, HandInv, Whole
<1>3. CASE OpenPartial
  BY <1>3, BatchAssumption
     DEF OpenPartial, Running, runVars, loopVars, tallyVars, TypeOK, Steps, Exits, Runs, LoopInv, HandInv, Whole
<1>4. CASE Translate
  BY <1>4, BatchAssumption
     DEF Translate, Running, runVars, loopVars, tallyVars, diskVars, TypeOK, Steps, Exits, Runs, LoopInv, HandInv, Whole
<1>5. CASE StartWrite
  BY <1>5, BatchAssumption
     DEF StartWrite, Running, runVars, loopVars, fileVars, tallyVars, TypeOK, Steps, Exits, Runs, LoopInv, HandInv, Whole
<1>6. CASE EndWrite
  <2>1. xml'[doc] = Whole(run)
    BY <1>6 DEF EndWrite, TypeOK, Whole
  <2> QED
    BY <1>6, <2>1 DEF EndWrite, Running, runVars, loopVars, TypeOK, HandInv, Whole
<1>7. CASE PassGate
  BY <1>7, BatchAssumption
     DEF PassGate, Running, runVars, loopVars, fileVars, tallyVars, diskVars, TypeOK, Steps, Exits, Runs, LoopInv, HandInv, Whole
<1>8. CASE FinalizeRecord
  BY <1>8, BatchAssumption
     DEF FinalizeRecord, Running, runVars, loopVars, TypeOK, Steps, Exits, Runs, LoopInv, HandInv, Whole
<1>9. CASE FailFile
  BY <1>9, BatchAssumption
     DEF FailFile, runVars, loopVars, fileVars, diskVars, TypeOK, Steps, Exits, Runs, LoopInv, HandInv, Whole
<1>10. CASE CloseLog
  BY <1>10, BatchAssumption
     DEF CloseLog, Running, Publishes, LogExists, runVars, fileVars, tallyVars, TypeOK, Steps, Exits, Runs, LoopInv, HandInv, Whole
<1>11. CASE EndRun
  BY <1>11, BatchAssumption
     DEF EndRun, Running, AllFailed, runVars, fileVars, tallyVars, diskVars, TypeOK, Steps, Exits, Runs, LoopInv, HandInv, Whole
<1>12. CASE NoInput
  BY <1>12, BatchAssumption
     DEF NoInput, Running, AsItLeaves, runVars, fileVars, tallyVars, diskVars, TypeOK, Steps, Exits, Runs, LoopInv, HandInv, Whole
<1>13. CASE Abort
  BY <1>13, BatchAssumption
     DEF Abort, AsItLeaves, runVars, fileVars, tallyVars, diskVars, TypeOK, Steps, Exits, Runs, LoopInv, HandInv, Whole
<1>14. CASE Kill
  BY <1>14, BatchAssumption
     DEF Kill, runVars, fileVars, tallyVars, diskVars, TypeOK, Steps, Exits, Runs, LoopInv, HandInv, Whole
<1>15. CASE RunAgain
  BY <1>15, BatchAssumption
     DEF RunAgain, Found, Fresh, diskVars, TypeOK, Steps, Exits, Runs, LoopInv, HandInv, Whole
<1>16. CASE UNCHANGED vars
  BY <1>16 DEF vars, runVars, loopVars, fileVars, tallyVars, diskVars, TypeOK, Steps, Exits, Runs, LoopInv, HandInv, Whole
<1>17. QED
  BY <1>1, <1>2, <1>3, <1>4, <1>5, <1>6, <1>7, <1>8, <1>9, <1>10, <1>11, <1>12, <1>13, <1>14, <1>15, <1>16 DEF Next

\* No action leaves a record without its XML.
LEMMA RecordStep ==
  ASSUME TypeOK, LoopInv, HandInv, RecordNeverAheadOfXml, [Next]_vars
  PROVE  RecordNeverAheadOfXml'
<1>1. CASE RefuseFile
  BY <1>1, BatchAssumption
     DEF RefuseFile, Running, runVars, fileVars, diskVars, TypeOK, Steps, Exits, Runs, LoopInv, HandInv, Whole, RecordNeverAheadOfXml
<1>2. CASE TakeFile
  BY <1>2, BatchAssumption
     DEF TakeFile, Running, runVars, fileVars, tallyVars, diskVars, TypeOK, Steps, Exits, Runs, LoopInv, HandInv, Whole, RecordNeverAheadOfXml
<1>3. CASE OpenPartial
  BY <1>3, BatchAssumption
     DEF OpenPartial, Running, runVars, loopVars, tallyVars, TypeOK, Steps, Exits, Runs, LoopInv, HandInv, Whole, RecordNeverAheadOfXml
<1>4. CASE Translate
  BY <1>4, BatchAssumption
     DEF Translate, Running, runVars, loopVars, tallyVars, diskVars, TypeOK, Steps, Exits, Runs, LoopInv, HandInv, Whole, RecordNeverAheadOfXml
<1>5. CASE StartWrite
  BY <1>5, BatchAssumption
     DEF StartWrite, Running, runVars, loopVars, fileVars, tallyVars, TypeOK, Steps, Exits, Runs, LoopInv, HandInv, Whole, RecordNeverAheadOfXml
<1>6. CASE EndWrite
  <2>1. xml' = [xml EXCEPT ![doc] = Whole(run)] /\ record' = record /\ record[doc] < run
    BY <1>6 DEF EndWrite, Running, HandInv, Whole
  <2>2. xml'[doc].run = run /\ run \in Nat /\ record \in [Docs -> Int]
    BY <1>6, <2>1, BatchAssumption DEF TypeOK, Runs, Whole
  <2>3. \A d \in Docs : d # doc => xml'[d] = xml[d]
    BY <2>1 DEF TypeOK
  <2> QED
    BY <2>1, <2>2, <2>3 DEF RecordNeverAheadOfXml, TypeOK
<1>7. CASE PassGate
  BY <1>7, BatchAssumption
     DEF PassGate, Running, runVars, loopVars, fileVars, tallyVars, diskVars, TypeOK, Steps, Exits, Runs, LoopInv, HandInv, Whole, RecordNeverAheadOfXml
<1>8. CASE FinalizeRecord
  BY <1>8, BatchAssumption
     DEF FinalizeRecord, Running, runVars, loopVars, TypeOK, Steps, Exits, Runs, LoopInv, HandInv, Whole, RecordNeverAheadOfXml
<1>9. CASE FailFile
  BY <1>9, BatchAssumption
     DEF FailFile, runVars, loopVars, fileVars, diskVars, TypeOK, Steps, Exits, Runs, LoopInv, HandInv, Whole, RecordNeverAheadOfXml
<1>10. CASE CloseLog
  BY <1>10, BatchAssumption
     DEF CloseLog, Running, Publishes, LogExists, runVars, fileVars, tallyVars, TypeOK, Steps, Exits, Runs, LoopInv, HandInv, Whole, RecordNeverAheadOfXml
<1>11. CASE EndRun
  BY <1>11, BatchAssumption
     DEF EndRun, Running, AllFailed, runVars, fileVars, tallyVars, diskVars, TypeOK, Steps, Exits, Runs, LoopInv, HandInv, Whole, RecordNeverAheadOfXml
<1>12. CASE NoInput
  BY <1>12, BatchAssumption
     DEF NoInput, Running, AsItLeaves, runVars, fileVars, tallyVars, diskVars, TypeOK, Steps, Exits, Runs, LoopInv, HandInv, Whole, RecordNeverAheadOfXml
<1>13. CASE Abort
  BY <1>13, BatchAssumption
     DEF Abort, AsItLeaves, runVars, fileVars, tallyVars, diskVars, TypeOK, Steps, Exits, Runs, LoopInv, HandInv, Whole, RecordNeverAheadOfXml
<1>14. CASE Kill
  BY <1>14, BatchAssumption
     DEF Kill, runVars, fileVars, tallyVars, diskVars, TypeOK, Steps, Exits, Runs, LoopInv, HandInv, Whole, RecordNeverAheadOfXml
<1>15. CASE RunAgain
  BY <1>15, BatchAssumption
     DEF RunAgain, Found, Fresh, diskVars, TypeOK, Steps, Exits, Runs, LoopInv, HandInv, Whole, RecordNeverAheadOfXml
<1>16. CASE UNCHANGED vars
  BY <1>16 DEF vars, runVars, loopVars, fileVars, tallyVars, diskVars, TypeOK, Steps, Exits, Runs, LoopInv, HandInv, Whole, RecordNeverAheadOfXml
<1>17. QED
  BY <1>1, <1>2, <1>3, <1>4, <1>5, <1>6, <1>7, <1>8, <1>9, <1>10, <1>11, <1>12, <1>13, <1>14, <1>15, <1>16 DEF Next

\* No action leaves an XML of this run without its log.
LEMMA LogStep ==
  ASSUME TypeOK, LoopInv, HandInv, WrittenXmlHasItsLog, [Next]_vars
  PROVE  WrittenXmlHasItsLog'
<1>1. CASE RefuseFile
  BY <1>1, BatchAssumption
     DEF RefuseFile, Running, runVars, fileVars, diskVars, TypeOK, Steps, Exits, Runs, LoopInv, HandInv, Whole, WrittenXmlHasItsLog, Handled
<1>2. CASE TakeFile
  BY <1>2, BatchAssumption
     DEF TakeFile, Running, runVars, fileVars, tallyVars, diskVars, TypeOK, Steps, Exits, Runs, LoopInv, HandInv, Whole, WrittenXmlHasItsLog, Handled
<1>3. CASE OpenPartial
  BY <1>3, BatchAssumption
     DEF OpenPartial, Running, runVars, loopVars, tallyVars, TypeOK, Steps, Exits, Runs, LoopInv, HandInv, Whole, WrittenXmlHasItsLog, Handled
<1>4. CASE Translate
  BY <1>4, BatchAssumption
     DEF Translate, Running, runVars, loopVars, tallyVars, diskVars, TypeOK, Steps, Exits, Runs, LoopInv, HandInv, Whole, WrittenXmlHasItsLog, Handled
<1>5. CASE StartWrite
  BY <1>5, BatchAssumption
     DEF StartWrite, Running, runVars, loopVars, fileVars, tallyVars, TypeOK, Steps, Exits, Runs, LoopInv, HandInv, Whole, WrittenXmlHasItsLog, Handled
<1>6. CASE EndWrite
  BY <1>6, BatchAssumption
     DEF EndWrite, Running, runVars, loopVars, TypeOK, Steps, Exits, Runs, LoopInv, HandInv, Whole, WrittenXmlHasItsLog, Handled
<1>7. CASE PassGate
  BY <1>7, BatchAssumption
     DEF PassGate, Running, runVars, loopVars, fileVars, tallyVars, diskVars, TypeOK, Steps, Exits, Runs, LoopInv, HandInv, Whole, WrittenXmlHasItsLog, Handled
<1>8. CASE FinalizeRecord
  BY <1>8, BatchAssumption
     DEF FinalizeRecord, Running, runVars, loopVars, TypeOK, Steps, Exits, Runs, LoopInv, HandInv, Whole, WrittenXmlHasItsLog, Handled
<1>9. CASE FailFile
  BY <1>9, BatchAssumption
     DEF FailFile, runVars, loopVars, fileVars, diskVars, TypeOK, Steps, Exits, Runs, LoopInv, HandInv, Whole, WrittenXmlHasItsLog, Handled
<1>10. CASE CloseLog
  BY <1>10, BatchAssumption
     DEF CloseLog, Running, Publishes, LogExists, runVars, fileVars, tallyVars, TypeOK, Steps, Exits, Runs, LoopInv, HandInv, Whole, WrittenXmlHasItsLog, Handled
<1>11. CASE EndRun
  BY <1>11, BatchAssumption
     DEF EndRun, Running, AllFailed, runVars, fileVars, tallyVars, diskVars, TypeOK, Steps, Exits, Runs, LoopInv, HandInv, Whole, WrittenXmlHasItsLog, Handled
<1>12. CASE NoInput
  BY <1>12, BatchAssumption
     DEF NoInput, Running, AsItLeaves, runVars, fileVars, tallyVars, diskVars, TypeOK, Steps, Exits, Runs, LoopInv, HandInv, Whole, WrittenXmlHasItsLog, Handled
<1>13. CASE Abort
  BY <1>13, BatchAssumption
     DEF Abort, AsItLeaves, runVars, fileVars, tallyVars, diskVars, TypeOK, Steps, Exits, Runs, LoopInv, HandInv, Whole, WrittenXmlHasItsLog, Handled
<1>14. CASE Kill
  BY <1>14, BatchAssumption
     DEF Kill, runVars, fileVars, tallyVars, diskVars, TypeOK, Steps, Exits, Runs, LoopInv, HandInv, Whole, WrittenXmlHasItsLog, Handled
<1>15. CASE RunAgain
  BY <1>15, BatchAssumption
     DEF RunAgain, Found, Fresh, diskVars, TypeOK, Steps, Exits, Runs, LoopInv, HandInv, Whole, WrittenXmlHasItsLog, Handled
<1>16. CASE UNCHANGED vars
  BY <1>16 DEF vars, runVars, loopVars, fileVars, tallyVars, diskVars, TypeOK, Steps, Exits, Runs, LoopInv, HandInv, Whole, WrittenXmlHasItsLog, Handled
<1>17. QED
  BY <1>1, <1>2, <1>3, <1>4, <1>5, <1>6, <1>7, <1>8, <1>9, <1>10, <1>11, <1>12, <1>13, <1>14, <1>15, <1>16 DEF Next

\* A file the run is done with stays complete or failed.
LEMMA DoneStep ==
  ASSUME TypeOK, LoopInv, HandInv, DoneInv, [Next]_vars
  PROVE  DoneInv'
<1>1. CASE RefuseFile
  BY <1>1, BatchAssumption
     DEF RefuseFile, Running, runVars, fileVars, diskVars, TypeOK, Steps, Exits, Runs, LoopInv, HandInv, Whole, DoneInv, Handled, Complete
<1>2. CASE TakeFile
  BY <1>2, BatchAssumption
     DEF TakeFile, Running, runVars, fileVars, tallyVars, diskVars, TypeOK, Steps, Exits, Runs, LoopInv, HandInv, Whole, DoneInv, Handled, Complete
<1>3. CASE OpenPartial
  BY <1>3, BatchAssumption
     DEF OpenPartial, Running, runVars, loopVars, tallyVars, TypeOK, Steps, Exits, Runs, LoopInv, HandInv, Whole, DoneInv, Handled, Complete
<1>4. CASE Translate
  BY <1>4, BatchAssumption
     DEF Translate, Running, runVars, loopVars, tallyVars, diskVars, TypeOK, Steps, Exits, Runs, LoopInv, HandInv, Whole, DoneInv, Handled, Complete
<1>5. CASE StartWrite
  BY <1>5, BatchAssumption
     DEF StartWrite, Running, runVars, loopVars, fileVars, tallyVars, TypeOK, Steps, Exits, Runs, LoopInv, HandInv, Whole, DoneInv, Handled, Complete
<1>6. CASE EndWrite
  BY <1>6, BatchAssumption
     DEF EndWrite, Running, runVars, loopVars, TypeOK, Steps, Exits, Runs, LoopInv, HandInv, Whole, DoneInv, Handled, Complete
<1>7. CASE PassGate
  BY <1>7, BatchAssumption
     DEF PassGate, Running, runVars, loopVars, fileVars, tallyVars, diskVars, TypeOK, Steps, Exits, Runs, LoopInv, HandInv, Whole, DoneInv, Handled, Complete
<1>8. CASE FinalizeRecord
  BY <1>8, BatchAssumption
     DEF FinalizeRecord, Running, runVars, loopVars, TypeOK, Steps, Exits, Runs, LoopInv, HandInv, Whole, DoneInv, Handled, Complete
<1>9. CASE FailFile
  BY <1>9, BatchAssumption
     DEF FailFile, runVars, loopVars, fileVars, diskVars, TypeOK, Steps, Exits, Runs, LoopInv, HandInv, Whole, DoneInv, Handled, Complete
<1>10. CASE CloseLog
  <2> SUFFICES ASSUME exit = "running", NEW d \in Docs, Handled(d)'
               PROVE  (IF d \in failed THEN record[d] < run ELSE Complete(d))'
    BY <1>10 DEF CloseLog, Running, DoneInv
  <2>1. CASE d = doc
    <3>1. CASE success
      <4>1. xmlWritten /\ record[doc] = run /\ xml[doc] = Whole(run) /\ rows = "full"
        BY <1>10, <3>1 DEF CloseLog, Running, HandInv
      <4>2. log' = [log EXCEPT ![doc] = [run |-> run, rows |-> "full"]] /\ failed' = failed
        BY <1>10, <3>1, <4>1 DEF CloseLog, Publishes
      <4>3. doc \notin failed'
        BY <1>10, <4>2 DEF CloseLog, Running, LoopInv
      <4>4. Complete(doc)'
        BY <1>10, <4>1, <4>2 DEF CloseLog, Complete, TypeOK, Whole, runVars
      <4>5. doc' = doc
        BY <1>10 DEF CloseLog
      <4> QED
        BY <2>1, <4>3, <4>4, <4>5
    <3>2. CASE ~success
      <4>1. record[doc] # run /\ doc \in failed'
        BY <1>10, <3>2 DEF CloseLog, Running, HandInv
      <4>2. record' = record /\ run' = run /\ doc' = doc
        BY <1>10 DEF CloseLog, runVars
      <4>3. record[doc] \in Int /\ run \in Int /\ record[doc] <= run
        BY BatchAssumption DEF LoopInv, TypeOK, Runs
      <4> QED
        BY <2>1, <4>1, <4>2, <4>3
    <3> QED
      BY <3>1, <3>2 DEF TypeOK
  <2>2. CASE d # doc
    <3>1. Handled(d) /\ (d \in failed' <=> d \in failed)
      BY <1>10, <2>2 DEF CloseLog, Handled, runVars
    <3>2. xml'[d] = xml[d] /\ log'[d] = log[d] /\ partial'[d] = partial[d] /\ record'[d] = record[d]
      BY <1>10, <2>2 DEF CloseLog, TypeOK
    <3> QED
      BY <1>10, <3>1, <3>2 DEF CloseLog, Running, DoneInv, Complete, runVars
  <2> QED
    BY <2>1, <2>2
<1>11. CASE EndRun
  BY <1>11, BatchAssumption
     DEF EndRun, Running, AllFailed, runVars, fileVars, tallyVars, diskVars, TypeOK, Steps, Exits, Runs, LoopInv, HandInv, Whole, DoneInv, Handled, Complete
<1>12. CASE NoInput
  BY <1>12, BatchAssumption
     DEF NoInput, Running, AsItLeaves, runVars, fileVars, tallyVars, diskVars, TypeOK, Steps, Exits, Runs, LoopInv, HandInv, Whole, DoneInv, Handled, Complete
<1>13. CASE Abort
  BY <1>13, BatchAssumption
     DEF Abort, AsItLeaves, runVars, fileVars, tallyVars, diskVars, TypeOK, Steps, Exits, Runs, LoopInv, HandInv, Whole, DoneInv, Handled, Complete
<1>14. CASE Kill
  BY <1>14, BatchAssumption
     DEF Kill, runVars, fileVars, tallyVars, diskVars, TypeOK, Steps, Exits, Runs, LoopInv, HandInv, Whole, DoneInv, Handled, Complete
<1>15. CASE RunAgain
  BY <1>15, BatchAssumption
     DEF RunAgain, Found, Fresh, diskVars, TypeOK, Steps, Exits, Runs, LoopInv, HandInv, Whole, DoneInv, Handled, Complete
<1>16. CASE UNCHANGED vars
  BY <1>16 DEF vars, runVars, loopVars, fileVars, tallyVars, diskVars, TypeOK, Steps, Exits, Runs, LoopInv, HandInv, Whole, DoneInv, Handled, Complete
<1>17. QED
  BY <1>1, <1>2, <1>3, <1>4, <1>5, <1>6, <1>7, <1>8, <1>9, <1>10, <1>11, <1>12, <1>13, <1>14, <1>15, <1>16 DEF Next

\* The exit code is right when it is set, and nothing it speaks of changes after.
LEMMA ExitStep ==
  ASSUME TypeOK, LoopInv, DoneInv, ExitTellsTheOutputs, [Next]_vars
  PROVE  ExitTellsTheOutputs'
<1>1. CASE RefuseFile
  BY <1>1, BatchAssumption
     DEF RefuseFile, Running, runVars, fileVars, diskVars, TypeOK, Steps, Exits, Runs, LoopInv, DoneInv, ExitTellsTheOutputs, Handled, Complete
<1>2. CASE TakeFile
  BY <1>2, BatchAssumption
     DEF TakeFile, Running, runVars, fileVars, tallyVars, diskVars, TypeOK, Steps, Exits, Runs, LoopInv, DoneInv, ExitTellsTheOutputs, Handled, Complete
<1>3. CASE OpenPartial
  BY <1>3, BatchAssumption
     DEF OpenPartial, Running, runVars, loopVars, tallyVars, TypeOK, Steps, Exits, Runs, LoopInv, DoneInv, ExitTellsTheOutputs, Handled, Complete
<1>4. CASE Translate
  BY <1>4, BatchAssumption
     DEF Translate, Running, runVars, loopVars, tallyVars, diskVars, TypeOK, Steps, Exits, Runs, LoopInv, DoneInv, ExitTellsTheOutputs, Handled, Complete
<1>5. CASE StartWrite
  BY <1>5, BatchAssumption
     DEF StartWrite, Running, runVars, loopVars, fileVars, tallyVars, TypeOK, Steps, Exits, Runs, LoopInv, DoneInv, ExitTellsTheOutputs, Handled, Complete
<1>6. CASE EndWrite
  BY <1>6, BatchAssumption
     DEF EndWrite, Running, runVars, loopVars, TypeOK, Steps, Exits, Runs, LoopInv, DoneInv, ExitTellsTheOutputs, Handled, Complete
<1>7. CASE PassGate
  BY <1>7, BatchAssumption
     DEF PassGate, Running, runVars, loopVars, fileVars, tallyVars, diskVars, TypeOK, Steps, Exits, Runs, LoopInv, DoneInv, ExitTellsTheOutputs, Handled, Complete
<1>8. CASE FinalizeRecord
  BY <1>8, BatchAssumption
     DEF FinalizeRecord, Running, runVars, loopVars, TypeOK, Steps, Exits, Runs, LoopInv, DoneInv, ExitTellsTheOutputs, Handled, Complete
<1>9. CASE FailFile
  BY <1>9, BatchAssumption
     DEF FailFile, runVars, loopVars, fileVars, diskVars, TypeOK, Steps, Exits, Runs, LoopInv, DoneInv, ExitTellsTheOutputs, Handled, Complete
<1>10. CASE CloseLog
  BY <1>10, BatchAssumption
     DEF CloseLog, Running, Publishes, LogExists, runVars, fileVars, tallyVars, TypeOK, Steps, Exits, Runs, LoopInv, DoneInv, ExitTellsTheOutputs, Handled, Complete
<1>11. CASE EndRun
  <2>1. UNCHANGED <<run, strict, inputs, invalid, xml, partial, log, record>>
    BY <1>11 DEF EndRun, runVars, tallyVars, diskVars
  <2>2. \A d \in inputs : IF d \in failed THEN record[d] < run ELSE Complete(d)
    BY <1>11 DEF EndRun, Running, DoneInv, Handled, TypeOK
  <2>3. \A d \in inputs : Complete(d)' <=> Complete(d)
    BY <2>1 DEF Complete
  <2>4. \A d \in inputs : record[d] < run => ~Complete(d)
    BY DEF Complete, TypeOK, Runs
  <2>5. AllFailed = {} <=> \A d \in inputs : Complete(d) /\ (strict => d \notin invalid)
    BY <2>2, <2>4 DEF AllFailed, LoopInv, TypeOK
  <2>6. exit' = "ok" <=> AllFailed = {}
    BY <1>11 DEF EndRun
  <2> QED
    BY <2>1, <2>3, <2>5, <2>6 DEF ExitTellsTheOutputs
<1>12. CASE NoInput
  BY <1>12, BatchAssumption
     DEF NoInput, Running, AsItLeaves, runVars, fileVars, tallyVars, diskVars, TypeOK, Steps, Exits, Runs, LoopInv, DoneInv, ExitTellsTheOutputs, Handled, Complete
<1>13. CASE Abort
  BY <1>13, BatchAssumption
     DEF Abort, AsItLeaves, runVars, fileVars, tallyVars, diskVars, TypeOK, Steps, Exits, Runs, LoopInv, DoneInv, ExitTellsTheOutputs, Handled, Complete
<1>14. CASE Kill
  BY <1>14, BatchAssumption
     DEF Kill, runVars, fileVars, tallyVars, diskVars, TypeOK, Steps, Exits, Runs, LoopInv, DoneInv, ExitTellsTheOutputs, Handled, Complete
<1>15. CASE RunAgain
  BY <1>15, BatchAssumption
     DEF RunAgain, Found, Fresh, diskVars, TypeOK, Steps, Exits, Runs, LoopInv, DoneInv, ExitTellsTheOutputs, Handled, Complete
<1>16. CASE UNCHANGED vars
  BY <1>16 DEF vars, runVars, loopVars, fileVars, tallyVars, diskVars, TypeOK, Steps, Exits, Runs, LoopInv, DoneInv, ExitTellsTheOutputs, Handled, Complete
<1>17. QED
  BY <1>1, <1>2, <1>3, <1>4, <1>5, <1>6, <1>7, <1>8, <1>9, <1>10, <1>11, <1>12, <1>13, <1>14, <1>15, <1>16 DEF Next

-----------------------------------------------------------------------------
\* The invariant holds at the start, is kept, and so always holds.
LEMMA InitInv == Init => IInv
  <1> SUFFICES ASSUME Init PROVE IInv
    OBVIOUS
  <1>1. TypeOK
    <2>1. xml \in [Docs -> [run : Runs, whole : BOOLEAN]]
      BY BatchAssumption DEF Init, Found, Runs
    <2>2. log \in [Docs -> [run : Runs, rows : {"none", "header", "full"}]]
      BY BatchAssumption DEF Init, Found, Runs
    <2>3. paradata \in [total : Nat, processed : Nat, skipped : Nat]
      BY DEF Init, Found
    <2>4. partial \in [Docs -> Runs] /\ record \in [Docs -> Runs]
      BY BatchAssumption DEF Init, Found, Runs
    <2>5. /\ run \in 1 .. MaxRuns /\ strict \in BOOLEAN /\ exit \in Exits
          /\ inputs \subseteq Docs /\ waiting \subseteq inputs /\ doc \in Docs
      BY BatchAssumption DEF Init, Found, Exits
    <2>6. step \in Steps /\ rows \in {"header", "full"} /\ xmlWritten \in BOOLEAN /\ success \in BOOLEAN
      BY DEF Init, Found, Steps
    <2>7. invalid \subseteq Docs /\ failed \subseteq Docs /\ counted \in Nat /\ skipped \in Nat
      BY DEF Init, Found
    <2> QED
      BY <2>1, <2>2, <2>3, <2>4, <2>5, <2>6, <2>7 DEF TypeOK
  <1>2. LoopInv
    BY DEF Init, Found, LoopInv
  <1>3. HandInv
    BY DEF Init, Found, HandInv
  <1>4. RecordNeverAheadOfXml
    BY DEF Init, Found, RecordNeverAheadOfXml
  <1>5. WrittenXmlHasItsLog /\ DoneInv
    BY DEF Init, Found, WrittenXmlHasItsLog, DoneInv, Handled
  <1>6. ExitTellsTheOutputs
    BY DEF Init, Found, ExitTellsTheOutputs
  <1> QED
    BY <1>1, <1>2, <1>3, <1>4, <1>5, <1>6 DEF IInv

\* Its parts together are kept by every step.
LEMMA StepInv == IInv /\ [Next]_vars => IInv'
  <1> SUFFICES ASSUME IInv, [Next]_vars PROVE IInv'
    OBVIOUS
  <1> QED
    BY TypeStep, LoopStep, HandStep, RecordStep, LogStep, DoneStep, ExitStep DEF IInv

\* The invariant holds in every run on every folder.
THEOREM BatchInvariant == Spec => []IInv
  BY InitInv, StepInv, PTL DEF Spec

\* Every variable keeps its type in every run on every folder.
THEOREM BatchTypeCorrect == Spec => []TypeOK
  <1>1. IInv => TypeOK
    BY DEF IInv
  <1> QED
    BY <1>1, BatchInvariant, PTL

\* However runs fail or are killed, a record in the folder has an XML its run, or a
\* later one, wrote.
THEOREM RecordCorrect == Spec => []RecordNeverAheadOfXml
  <1>1. IInv => RecordNeverAheadOfXml
    BY DEF IInv
  <1> QED
    BY <1>1, BatchInvariant, PTL

\* Whatever fails after the XML is written, the log of that XML is published.
THEOREM PublishedLogCorrect == Spec => []WrittenXmlHasItsLog
  <1>1. IInv => WrittenXmlHasItsLog
    BY DEF IInv
  <1> QED
    BY <1>1, BatchInvariant, PTL

\* The exit code is 0 exactly if the folder holds all files of this run's documents.
THEOREM ExitCorrect == Spec => []ExitTellsTheOutputs
  <1>1. IInv => ExitTellsTheOutputs
    BY DEF IInv
  <1> QED
    BY <1>1, BatchInvariant, PTL

\* Only CloseLog writes a log, and with an empty one only where there was none.
LEMMA LogKeptStep ==
  ASSUME IInv, [Next]_vars, NEW d \in Docs, log[d].rows = "full"
  PROVE  log'[d].rows = "full"
  <1>1. CASE CloseLog
    <2>1. log[d].run # 0
      BY DEF IInv, LoopInv
    <2>2. xmlWritten => rows = "full"
      BY <1>1 DEF CloseLog, Running, IInv, HandInv
    <2>3. d = doc => (Publishes => xmlWritten)
      BY <2>1 DEF Publishes, LogExists
    <2> QED
      BY <1>1, <2>2, <2>3 DEF CloseLog, IInv, TypeOK
  <1>2. CASE UNCHANGED log
    BY <1>2
  <1> QED
    BY <1>1, <1>2
    DEF Next, vars, diskVars, RefuseFile, TakeFile, OpenPartial, Translate, StartWrite, EndWrite,
        PassGate, FinalizeRecord, FailFile, EndRun, NoInput, Abort, Kill, RunAgain

\* A log with rows is kept until another log with rows takes its place.
THEOREM LogKept == Spec => FullLogKept
  <1>1. IInv /\ [Next]_vars => [\A d \in Docs : log[d].rows = "full" => log'[d].rows = "full"]_vars
    BY LogKeptStep
  <1> QED
    BY <1>1, BatchInvariant, PTL DEF Spec, FullLogKept
-----------------------------------------------------------------------------
(***************************************************************************)
(* The paradata: while the run goes on, its two counts are those of the    *)
(* files with a record of this run and of the files it has decided.        *)
(***************************************************************************)
Recorded == {d \in inputs : record[d] = run}
Decided  == {d \in inputs \ waiting : d # doc \/ step \in {"next", "publish"}}

CountInv ==
  exit = "running" =>
    /\ counted = Cardinality(Recorded)
    /\ counted + skipped = Cardinality(Decided)

\* The inputs and their parts are finite, so that the library's facts on counting apply.
LEMMA PartsFinite ==
  ASSUME TypeOK
  PROVE  IsFiniteSet(inputs) /\ IsFiniteSet(Recorded) /\ IsFiniteSet(Decided)
  <1>1. IsFiniteSet(inputs)
    BY BatchAssumption, FS_Subset DEF TypeOK
  <1>2. Recorded \in SUBSET inputs /\ Decided \in SUBSET inputs
    BY DEF Recorded, Decided
  <1> QED
    BY <1>1, <1>2, FS_Subset

\* A file is decided once: as it is refused, recorded or given up.
LEMMA DecideOne ==
  ASSUME TypeOK, CountInv, exit = "running", NEW d \in inputs, d \notin Decided,
         Decided' = Decided \cup {d}
  PROVE  Cardinality(Decided') = counted + skipped + 1
  <1>1. Cardinality(Decided \cup {d}) = Cardinality(Decided) + 1
    BY PartsFinite, FS_AddElement
  <1> QED
    BY <1>1 DEF CountInv

\* The counts stay those of the two sets.
LEMMA CountStep ==
  ASSUME TypeOK, LoopInv, HandInv, CountInv, [Next]_vars
  PROVE  CountInv'
<1>1. CASE RefuseFile
  <2>1. PICK d \in waiting : waiting' = waiting \ {d}
    BY <1>1 DEF RefuseFile
  <2>2. /\ step = "next" /\ exit = "running" /\ UNCHANGED <<inputs, run, step, record, counted>>
        /\ skipped' = skipped + 1
    BY <1>1 DEF RefuseFile, Running, runVars, diskVars
  <2>3. Recorded' = Recorded
    BY <2>2 DEF Recorded
  <2>4. d \in inputs /\ d \notin Decided /\ Decided' = Decided \cup {d}
    BY <2>1, <2>2 DEF Decided, TypeOK
  <2>5. Cardinality(Decided') = counted + skipped + 1
    BY <2>2, <2>4, DecideOne
  <2> QED
    BY <2>2, <2>3, <2>5 DEF CountInv, TypeOK
<1>2. CASE TakeFile
  <2>1. PICK d \in waiting : waiting' = waiting \ {d} /\ doc' = d
    BY <1>2 DEF TakeFile
  <2>2. /\ step = "next" /\ step' = "open"
        /\ UNCHANGED <<inputs, run, exit, record, counted, skipped>>
    BY <1>2 DEF TakeFile, Running, runVars, tallyVars, diskVars
  <2>3. Recorded' = Recorded
    BY <2>2 DEF Recorded
  <2>4. Decided' = Decided
    BY <2>1, <2>2 DEF Decided, TypeOK
  <2> QED
    BY <2>2, <2>3, <2>4 DEF CountInv
<1>3. CASE OpenPartial \/ Translate \/ StartWrite \/ EndWrite \/ PassGate \/ CloseLog
  <2>1. UNCHANGED <<inputs, waiting, doc, run, exit, record, counted, skipped>>
    BY <1>3 DEF OpenPartial, Translate, StartWrite, EndWrite, PassGate, CloseLog,
                runVars, loopVars, tallyVars, diskVars
  <2>2. step \in {"next", "publish"} <=> step' \in {"next", "publish"}
    BY <1>3 DEF OpenPartial, Translate, StartWrite, EndWrite, PassGate, CloseLog, Running
  <2>3. Recorded' = Recorded
    BY <2>1 DEF Recorded
  <2>4. Decided' = Decided
    BY <2>1, <2>2 DEF Decided
  <2> QED
    BY <2>1, <2>3, <2>4 DEF CountInv
<1>4. CASE FinalizeRecord
  <2>1. /\ step = "record" /\ step' = "publish" /\ exit = "running" /\ counted' = counted + 1
        /\ record' = [record EXCEPT ![doc] = run]
        /\ UNCHANGED <<inputs, waiting, doc, run, exit, skipped>>
    BY <1>4 DEF FinalizeRecord, Running, runVars, loopVars
  <2>2. doc \in inputs /\ doc \notin waiting /\ record[doc] # run
    BY <2>1 DEF LoopInv, HandInv, TypeOK, Runs
  <2>3. Recorded' = Recorded \cup {doc} /\ doc \notin Recorded
    BY <2>1, <2>2 DEF Recorded, TypeOK
  <2>4. Cardinality(Recorded') = counted + 1
    BY <2>1, <2>3, PartsFinite, FS_AddElement DEF CountInv
  <2>5. doc \notin Decided /\ Decided' = Decided \cup {doc}
    BY <2>1, <2>2 DEF Decided
  <2>6. Cardinality(Decided') = counted + skipped + 1
    BY <2>1, <2>2, <2>5, DecideOne
  <2> QED
    BY <2>1, <2>4, <2>6 DEF CountInv, TypeOK
<1>5. CASE FailFile
  <2>1. /\ step \notin {"next", "publish"} /\ step' = "publish" /\ exit = "running"
        /\ skipped' = skipped + 1
        /\ UNCHANGED <<inputs, waiting, doc, run, exit, record, counted>>
    BY <1>5 DEF FailFile, runVars, loopVars, diskVars
  <2>2. Recorded' = Recorded
    BY <2>1 DEF Recorded
  <2>3. doc \in inputs /\ doc \notin Decided /\ Decided' = Decided \cup {doc}
    BY <2>1 DEF Decided, LoopInv
  <2>4. Cardinality(Decided') = counted + skipped + 1
    BY <2>1, <2>3, DecideOne
  <2> QED
    BY <2>1, <2>2, <2>4 DEF CountInv, TypeOK
<1>6. CASE EndRun \/ NoInput \/ Abort \/ Kill
  BY <1>6 DEF EndRun, NoInput, Abort, Kill, CountInv
<1>7. CASE RunAgain
  <2>1. /\ run' = run + 1 /\ inputs' \subseteq Docs /\ waiting' = inputs'
        /\ counted' = 0 /\ skipped' = 0 /\ record' = record
    BY <1>7 DEF RunAgain, Found, Fresh, diskVars
  <2>2. \A d \in inputs' : record'[d] # run'
    BY <2>1 DEF LoopInv, TypeOK, Runs
  <2>3. Recorded' = {} /\ Decided' = {}
    BY <2>1, <2>2 DEF Recorded, Decided
  <2> QED
    BY <2>1, <2>3, FS_EmptySet DEF CountInv
<1>8. CASE UNCHANGED vars
  BY <1>8 DEF vars, runVars, loopVars, tallyVars, diskVars, CountInv, Recorded, Decided
<1>9. QED
  BY <1>1, <1>2, <1>3, <1>4, <1>5, <1>6, <1>7, <1>8 DEF Next

\* The paradata is right when the run ends, and nothing it speaks of changes after.
LEMMA ParadataStep ==
  ASSUME TypeOK, CountInv, ParadataAccounts, [Next]_vars
  PROVE  ParadataAccounts'
<1>1. CASE EndRun
  <2>1. /\ step = "next" /\ waiting = {} /\ exit = "running"
        /\ paradata' = [total |-> Cardinality(inputs), processed |-> counted, skipped |-> skipped]
        /\ UNCHANGED <<inputs, record, run>>
    BY <1>1 DEF EndRun, Running, runVars, diskVars
  <2>2. Decided = inputs
    BY <2>1 DEF Decided
  <2>3. counted = Cardinality(Recorded) /\ counted + skipped = Cardinality(inputs)
    BY <2>1, <2>2 DEF CountInv
  <2> QED
    BY <2>1, <2>3 DEF ParadataAccounts, Recorded
<1>2. CASE exit = "running" /\ ~EndRun
  <2>1. exit' \notin {"ok", "failed"}
    BY <1>2 DEF Next, vars, loopVars, RefuseFile, TakeFile, OpenPartial, Translate, StartWrite,
                EndWrite, PassGate, FinalizeRecord, FailFile, CloseLog, NoInput, Abort, Kill, RunAgain
  <2> QED
    BY <2>1 DEF ParadataAccounts
<1>3. CASE exit # "running"
  <2>1. exit' = "running" \/ UNCHANGED <<exit, inputs, record, run, paradata>>
    BY <1>3 DEF Next, vars, runVars, loopVars, diskVars, Fresh, Running, RefuseFile, TakeFile,
                OpenPartial, Translate, StartWrite, EndWrite, PassGate, FinalizeRecord, FailFile,
                CloseLog, EndRun, NoInput, Abort, Kill, RunAgain
  <2> QED
    BY <2>1 DEF ParadataAccounts
<1>4. QED
  BY <1>1, <1>2, <1>3

\* The paradata of a run that came to its end counts every input once, as processed
\* exactly if the folder has a record of this run.
THEOREM ParadataCorrect == Spec => []ParadataAccounts
  <1>1. Init => CountInv /\ ParadataAccounts
    <2> SUFFICES ASSUME Init PROVE CountInv /\ ParadataAccounts
      OBVIOUS
    <2>1. Recorded = {} /\ Decided = {}
      BY DEF Init, Found, Recorded, Decided
    <2> QED
      BY <2>1, FS_EmptySet DEF Init, CountInv, ParadataAccounts
  <1>2. IInv /\ CountInv /\ ParadataAccounts /\ [Next]_vars => CountInv' /\ ParadataAccounts'
    BY CountStep, ParadataStep DEF IInv
  <1> QED
    BY <1>1, <1>2, BatchInvariant, PTL DEF Spec

-----------------------------------------------------------------------------
(* The run-level record (Paradata). *)

\* A set of numbers that is not empty has a least one.
LEMMA LeastExists ==
  ASSUME NEW S, S \subseteq Nat, S # {}
  PROVE  \E m \in S : \A y \in S : m <= y
<1> DEFINE Less == {p \in Nat \X Nat : p[1] < p[2]}
<1>1. IsWellFoundedOn(Less, Nat)
  BY NatLessThanWellFounded DEF OpToRel
<1>2. PICK m \in S : \A y \in S : ~(<<y, m>> \in Less)
  <2> HIDE DEF Less
  <2> QED
    BY <1>1, WFMin
<1>3. \A y \in S : m \in Nat /\ y \in Nat /\ ~(y < m)
  BY <1>2
<1>4. QED
  BY <1>3

\* A set of numbers with a bound that is not empty has a greatest one.
LEMMA GreatestExists ==
  ASSUME NEW S, NEW top \in Nat, S \subseteq 1 .. top, S # {}
  PROVE  \E m \in S : \A y \in S : m >= y
<1> DEFINE T == {top - x : x \in S}
<1>1. T \subseteq Nat /\ T # {}
  <2>1. PICK x \in S : TRUE
    OBVIOUS
  <2>2. top - x \in T
    OBVIOUS
  <2>3. ASSUME NEW y \in S
        PROVE  top - y \in Nat
    <3>1. y \in 1 .. top
      OBVIOUS
    <3>2. QED
      BY <3>1
  <2>4. QED
    BY <2>2, <2>3
<1>2. PICK t \in T : \A y \in T : t <= y
  <2> HIDE DEF T
  <2>1. QED
    BY <1>1, LeastExists
<1>3. PICK m \in S : t = top - m
  BY <1>2
<1>4. \A y \in S : top - m <= top - y
  BY <1>2, <1>3
<1>5. QED
  BY <1>4

\* What a logger holds.
Loggers == [counts : [Types -> Nat], docs : Nat, skipped : Nat,
            components : Seq([name : Names, licence : Terms]), notes : [Limits -> Nat]]

\* A new logger is one, and so is a logger after a call.
LEMMA LoggerKept ==
  /\ NewLogger \in Loggers
  /\ \A l \in Loggers, e \in Entries : Logged(l, e) \in Loggers
<1>1. NewLogger \in Loggers
  BY DEF NewLogger, Loggers
<1> DEFINE L(S) == [counts : [Types -> Nat], docs : Nat, skipped : Nat,
                    components : S, notes : [Limits -> Nat]]
<1>2. ASSUME NEW l \in Loggers, NEW e \in Entries
      PROVE  Logged(l, e) \in Loggers
  <2> DEFINE S == Seq([name : Names, licence : Terms])
  <2>0. l \in L(S) /\ Loggers = L(S)
    BY DEF Loggers
  <2> HIDE DEF S
  <2>1. CASE e.kind = "success" /\ e.of \in Types
    <3>1. Logged(l, e) = [l EXCEPT !.counts[e.of] = @ + 1]
      BY <2>1 DEF Logged
    <3>2. [l.counts EXCEPT ![e.of] = @ + 1] \in [Types -> Nat]
      BY <2>0, <2>1
    <3>3. [l EXCEPT !.counts[e.of] = @ + 1] = [l EXCEPT !.counts = [l.counts EXCEPT ![e.of] = @ + 1]]
      BY <2>0
    <3>4. QED
      BY <2>0, <3>1, <3>2, <3>3
  <2>2. CASE e.kind = "document"
    <3>1. Logged(l, e) = [l EXCEPT !.docs = @ + 1]
      BY <2>2 DEF Logged
    <3>2. QED
      BY <2>0, <3>1
  <2>3. CASE e.kind = "skip"
    <3>1. Logged(l, e) = [l EXCEPT !.skipped = @ + 1]
      BY <2>3 DEF Logged
    <3>2. QED
      BY <2>0, <3>1
  <2>4. CASE e.kind = "component" /\ e.of \in [name : Names, licence : Terms]
    <3> DEFINE C == [name : Names, licence : Terms]
               w == WithComponent(l.components, e.of)
    <3>1. l.components \in Seq(C) /\ e.of \in C
      BY <2>4 DEF Loggers
    <3> HIDE DEF C
    <3>2. w \in Seq(C)
      <4>1. CASE \E i \in DOMAIN l.components : l.components[i].name = e.of.name
        <5>1. w = [i \in 1 .. Len(l.components) |->
                     IF l.components[i].name = e.of.name THEN e.of ELSE l.components[i]]
          BY <3>1, <4>1, LenProperties DEF WithComponent
        <5>2. \A i \in 1 .. Len(l.components) : l.components[i] \in C
          BY <3>1, ElementOfSeq
        <5>3. w \in [1 .. Len(l.components) -> C] /\ Len(l.components) \in Nat
          BY <3>1, <5>1, <5>2, LenProperties
        <5>4. QED
          BY <5>3, SeqDef
      <4>2. CASE ~\E i \in DOMAIN l.components : l.components[i].name = e.of.name
        BY <3>1, <4>2, AppendProperties DEF WithComponent
      <4>3. QED
        BY <4>1, <4>2
    <3>3. Logged(l, e) = [l EXCEPT !.components = w]
      BY <2>4 DEF Logged
    <3> HIDE DEF w
    <3>4. QED
      BY <3>2, <3>3 DEF Loggers, C
  <2>5. CASE e.kind = "limit" /\ e.of \in Limits
    <3>1. Logged(l, e) = [l EXCEPT !.notes[e.of] = @ + 1]
      BY <2>5 DEF Logged
    <3>2. [l.notes EXCEPT ![e.of] = @ + 1] \in [Limits -> Nat]
      BY <2>0, <2>5
    <3>3. [l EXCEPT !.notes[e.of] = @ + 1] = [l EXCEPT !.notes = [l.notes EXCEPT ![e.of] = @ + 1]]
      BY <2>0
    <3>4. QED
      BY <2>0, <3>1, <3>2, <3>3
  <2>6. QED
    BY <2>1, <2>2, <2>3, <2>4, <2>5 DEF Entries
<1>3. QED
  BY <1>1, <1>2

-----------------------------------------------------------------------------
\* Where a stage may be, and what is there.
ShapeInv ==
  /\ stage \in 1 .. Stages + 1 /\ how \in {"process", "cli"}
  /\ at \in {"start", "out", "write", "dump", "record", "remove", "over"}
  /\ DOMAIN records = 1 .. Stages
  /\ asked \in [1 .. Stages -> Loggers] /\ logger \in Loggers
  /\ at # "start" => stage <= Stages
  /\ at \in {"write", "dump", "record", "remove", "over"} => how = "cli"
  /\ merged # NoRecord => stage = Stages + 1

\* A whole record is of what the completed calls of its stage logged; later stages have none.
RecordsInv ==
  /\ \A i \in 1 .. Stages : records[i] \in {NoRecord, Torn, Record(asked[i])}
  /\ \A i \in stage .. Stages : i > stage \/ at \notin {"record", "remove", "over"} => records[i] = NoRecord
  /\ \A i \in stage .. Stages : i > stage \/ at = "start" => asked[i] = NewLogger

\* And that is what the logger in memory has, or a state file that can be read; a call at
\* hand has added its entry to it.
MemoryInv ==
  /\ at = "out" /\ how = "process" => logger = asked[stage]
  /\ how = "cli" /\ at \notin {"start", "dump"} /\ state \notin {Torn, NoFile} => state = asked[stage]
  /\ at = "dump" => state = Torn
  /\ at \in {"write", "dump"} => entry \in Entries /\ logger = Logged(asked[stage], entry)
  /\ at = "record" => logger = asked[stage]

\* The inductive invariant of the calls.
KeptInv ==
  /\ ShapeInv /\ RecordsInv /\ MemoryInv

\* They hold of a pipeline that has not begun.
LEMMA KeptInit == ParadataInit => KeptInv
<1>1. SUFFICES ASSUME ParadataInit PROVE KeptInv
  OBVIOUS
<1>2. NewLogger \in Loggers /\ Stages \in Nat
  BY LoggerKept, ParadataAssumption
<1>3. QED
  BY <1>1, <1>2 DEF ParadataInit, KeptInv, ShapeInv, RecordsInv, MemoryInv

\* The next stage begins with nothing.
LEMMA StageLeft ==
  ASSUME KeptInv, NextStage, at # "start", UNCHANGED <<asked, merged>>,
         DOMAIN records' = 1 .. Stages,
         \A i \in 1 .. Stages : i # stage => records'[i] = records[i],
         records'[stage] \in {NoRecord, Torn, Record(asked[stage])}
  PROVE  KeptInv'
<1>1. /\ stage' = stage + 1 /\ at' = "start" /\ how' \in {"process", "cli"}
      /\ logger' = NewLogger /\ state' = NoFile /\ asked' = asked /\ merged' = merged
  BY DEF NextStage
<1>2. NewLogger \in Loggers /\ Stages \in Nat /\ stage \in 1 .. Stages
  BY LoggerKept, ParadataAssumption DEF KeptInv, ShapeInv
<1>3. merged' = NoRecord
  BY <1>1, <1>2 DEF KeptInv, ShapeInv
<1>4. \A i \in 1 .. Stages : records'[i] \in {NoRecord, Torn, Record(asked'[i])}
  BY <1>1, <1>2 DEF KeptInv, RecordsInv
<1>5. \A i \in stage + 1 .. Stages : records'[i] = NoRecord /\ asked'[i] = NewLogger
  BY <1>1, <1>2 DEF KeptInv, RecordsInv
<1>6. ShapeInv'
  BY <1>1, <1>2, <1>3 DEF KeptInv, ShapeInv
<1>7. RecordsInv'
  <2>1. \A i \in stage' .. Stages : records'[i] = NoRecord /\ asked'[i] = NewLogger
    BY <1>1, <1>5
  <2>2. QED
    BY <1>4, <2>1 DEF RecordsInv
<1>8. MemoryInv'
  BY <1>1 DEF MemoryInv
<1>9. QED
  BY <1>6, <1>7, <1>8 DEF KeptInv

\* Every step keeps them.
LEMMA KeptNext ==
  ASSUME KeptInv, [ParadataNext]_paradataVars
  PROVE  KeptInv'
<1>0. NewLogger \in Loggers /\ Stages \in Nat /\ \A l : Saved(l) = l
  BY LoggerKept, ParadataAssumption DEF Saved
<1> USE DEF KeptInv
<1>1. CASE UNCHANGED paradataVars
  BY <1>1 DEF ShapeInv, RecordsInv, MemoryInv, paradataVars
<1>a. at # "start" => stage \in 1 .. Stages /\ stage \in stage .. Stages /\ merged = NoRecord
  BY <1>0 DEF ShapeInv
<1>2. CASE Start
  <2>1. /\ stage <= Stages /\ at = "start" /\ logger' = NewLogger /\ at' = "out"
        /\ state' = (IF how = "cli" THEN NewLogger ELSE NoFile)
        /\ UNCHANGED <<stage, how, entry, records, calls, asked, merged>>
    BY <1>0, <1>2 DEF Start
  <2>2. asked[stage] = NewLogger
    BY <1>0, <2>1 DEF RecordsInv, ShapeInv
  <2>3. ShapeInv'
    BY <1>0, <2>1 DEF ShapeInv
  <2>4. RecordsInv'
    BY <2>1 DEF RecordsInv
  <2>5. MemoryInv'
    BY <2>1, <2>2 DEF MemoryInv
  <2>6. QED
    BY <2>3, <2>4, <2>5
<1>3. CASE Log
  <2>1. PICK e \in Entries : /\ logger' = Logged(logger, e)
                             /\ asked' = [asked EXCEPT ![stage] = Logged(asked[stage], e)]
    BY <1>3 DEF Log
  <2>2. at = "out" /\ how = "process" /\ UNCHANGED <<stage, how, at, state, records, merged>>
    BY <1>3 DEF Log
  <2>3. stage \in 1 .. Stages /\ logger = asked[stage] /\ merged = NoRecord /\ records[stage] = NoRecord
    BY <1>a, <2>2 DEF MemoryInv, RecordsInv
  <2>4. logger' \in Loggers
    BY <2>1, LoggerKept DEF ShapeInv
  <2>5. asked' = [asked EXCEPT ![stage] = logger']
    BY <2>1, <2>3
  <2> HIDE <2>1
  <2>6. /\ asked'[stage] = logger' /\ \A i \in 1 .. Stages : i # stage => asked'[i] = asked[i]
        /\ asked' \in [1 .. Stages -> Loggers]
    BY <2>3, <2>4, <2>5 DEF ShapeInv
  <2>7. ShapeInv'
    BY <2>2, <2>4, <2>6 DEF ShapeInv
  <2>8. RecordsInv'
    BY <1>0, <2>2, <2>3, <2>6 DEF RecordsInv
  <2>9. MemoryInv'
    BY <2>2, <2>6 DEF MemoryInv
  <2>10. QED
    BY <2>7, <2>8, <2>9
<1>4. CASE Finalize
  <2>1. logger = asked[stage] /\ stage \in 1 .. Stages /\ at # "start"
    BY <1>a, <1>4 DEF Finalize, MemoryInv
  <2>2. records' = [records EXCEPT ![stage] = Record(logger)] /\ NextStage /\ UNCHANGED <<asked, merged>>
    BY <1>4 DEF Finalize
  <2>3. /\ DOMAIN records' = 1 .. Stages
        /\ \A i \in 1 .. Stages : i # stage => records'[i] = records[i]
        /\ records'[stage] = Record(asked[stage])
    BY <2>1, <2>2 DEF ShapeInv
  <2>4. QED
    BY <2>1, <2>2, <2>3, StageLeft
<1>5. ASSUME NextStage, UNCHANGED <<records, asked, merged>>, at # "start"
      PROVE  KeptInv'
  <2>1. /\ DOMAIN records' = 1 .. Stages
        /\ \A i \in 1 .. Stages : i # stage => records'[i] = records[i]
        /\ records'[stage] \in {NoRecord, Torn, Record(asked[stage])}
    BY <1>a, <1>5 DEF ShapeInv, RecordsInv
  <2>2. QED
    BY <1>5, <2>1, StageLeft
<1>6. CASE FinalizeFails \/ CliRemove \/ CliUnreadable
  <2>1. CASE UNCHANGED records
    BY <1>5, <1>6, <2>1 DEF FinalizeFails, CliRemove, CliUnreadable
  <2>2. CASE FinalizeFails /\ records' = [records EXCEPT ![stage] = Torn]
    <3>1. NextStage /\ UNCHANGED <<asked, merged>> /\ at # "start" /\ stage \in 1 .. Stages
      BY <1>a, <2>2 DEF FinalizeFails
    <3>2. /\ DOMAIN records' = 1 .. Stages
          /\ \A i \in 1 .. Stages : i # stage => records'[i] = records[i]
          /\ records'[stage] = Torn
      BY <2>2, <3>1 DEF ShapeInv
    <3>3. QED
      BY <3>1, <3>2, StageLeft
  <2>3. QED
    BY <1>6, <2>1, <2>2 DEF FinalizeFails, CliRemove, CliUnreadable
<1>7. CASE CliCall
  <2>1. entry' \in Entries /\ logger' = Logged(state, entry')
    BY <1>0, <1>7 DEF CliCall, CliEntries
  <2>2. /\ at = "out" /\ how = "cli" /\ state = asked[stage] /\ at' = "write"
        /\ UNCHANGED <<stage, how, state, records, asked, merged>>
    BY <1>7 DEF CliCall, MemoryInv
  <2>3. logger' \in Loggers
    BY <1>a, <2>1, <2>2, LoggerKept DEF ShapeInv
  <2>4. ShapeInv' /\ RecordsInv' /\ MemoryInv'
    BY <1>a, <2>1, <2>2, <2>3 DEF ShapeInv, RecordsInv, MemoryInv
  <2>5. QED
    BY <2>4
<1>8. CASE CliOpen \/ CliKilled
  <2>1. /\ at \in {"write", "dump", "record", "remove"}
        /\ UNCHANGED <<stage, how, logger, records, asked, merged>>
        /\ at' \in {"dump", "over", "out"} /\ (at' = "over" <=> at \in {"record", "remove"})
        /\ at' # "dump" => state' = state
        /\ at' = "dump" => entry' = entry /\ at = "write"
        /\ state' \in {state, Torn} /\ (at' = "dump" => state' = Torn)
    BY <1>8 DEF CliOpen, CliKilled
  <2>2. ShapeInv'
    BY <1>a, <2>1 DEF ShapeInv
  <2>3. RecordsInv'
    BY <2>1 DEF RecordsInv
  <2>4. MemoryInv'
    BY <2>1 DEF MemoryInv, ShapeInv
  <2>5. QED
    BY <2>2, <2>3, <2>4
<1>9. CASE CliDump
  <2>0. at = "dump" /\ logger = Logged(asked[stage], entry)
    BY <1>9 DEF CliDump, MemoryInv
  <2>1. /\ at = "dump" /\ state' = logger /\ at' = "out" /\ asked' = [asked EXCEPT ![stage] = logger]
        /\ UNCHANGED <<stage, how, logger, records, calls, merged>>
    BY <1>0, <1>9, <2>0 DEF CliDump
  <2>2. stage \in 1 .. Stages /\ merged = NoRecord /\ records[stage] = NoRecord /\ how = "cli"
    BY <1>a, <2>1 DEF ShapeInv, RecordsInv
  <2>3. /\ asked'[stage] = logger /\ \A i \in 1 .. Stages : i # stage => asked'[i] = asked[i]
        /\ asked' \in [1 .. Stages -> Loggers]
    BY <2>1, <2>2 DEF ShapeInv
  <2>4. ShapeInv'
    BY <2>1, <2>2, <2>3 DEF ShapeInv
  <2>5. RecordsInv'
    BY <1>0, <2>1, <2>2, <2>3 DEF RecordsInv
  <2>6. MemoryInv'
    BY <2>1, <2>2, <2>3 DEF MemoryInv
  <2>7. QED
    BY <2>4, <2>5, <2>6
<1>10. CASE CliFinish \/ CliRecord
  <2>1. /\ how = "cli" /\ UNCHANGED <<stage, how, state, calls, asked, merged>>
        /\ at # "start" /\ at \notin {"write", "dump"}
    BY <1>10 DEF CliFinish, CliRecord, ShapeInv
  <2>2. stage \in 1 .. Stages /\ merged = NoRecord
    BY <1>a, <2>1
  <2>3. \/ at' = "record" /\ logger' = asked[stage] /\ records' = [records EXCEPT ![stage] = Torn]
        \/ at' = "remove" /\ logger' = logger /\ records' = [records EXCEPT ![stage] = Record(asked[stage])]
    BY <1>0, <1>10, <2>1 DEF CliFinish, CliRecord, MemoryInv
  <2>4. /\ DOMAIN records' = 1 .. Stages
        /\ \A i \in 1 .. Stages : i # stage => records'[i] = records[i]
        /\ records'[stage] \in {Torn, Record(asked[stage])}
    BY <2>2, <2>3 DEF ShapeInv
  <2>5. ShapeInv'
    BY <2>1, <2>2, <2>3, <2>4 DEF ShapeInv
  <2>6. RecordsInv'
    BY <1>0, <2>1, <2>2, <2>3, <2>4 DEF RecordsInv
  <2>7. MemoryInv'
    BY <2>1, <2>2, <2>3 DEF MemoryInv
  <2>8. QED
    BY <2>5, <2>6, <2>7
<1>11. CASE Merge
  <2>1. ShapeInv' /\ RecordsInv' /\ MemoryInv'
    BY <1>11 DEF Merge, ShapeInv, RecordsInv, MemoryInv
  <2>2. QED
    BY <2>1
<1>12. QED
  BY <1>1, <1>2, <1>3, <1>4, <1>6, <1>7, <1>8, <1>9, <1>10, <1>11 DEF ParadataNext

\* What is merged is what the stages left on record.
MergedInv == merged # NoRecord => merged \in {MergeOf(OnRecord), StepsOf(OnRecord)}

\* No record changes once there is a merge.
LEMMA MergedNext ==
  ASSUME KeptInv, MergedInv, [ParadataNext]_paradataVars
  PROVE  MergedInv'
<1>1. CASE Merge
  <2>1. OnRecord' = OnRecord /\ merged' \in {MergeOf(OnRecord), StepsOf(OnRecord)}
    BY <1>1 DEF Merge, OnRecord, Left
  <2>2. MergeOf(OnRecord)' = MergeOf(OnRecord') /\ StepsOf(OnRecord)' = StepsOf(OnRecord')
    BY DEF MergeOf, StepsOf
  <2>3. QED
    BY <2>1, <2>2 DEF MergedInv
<1>2. CASE merged' = merged /\ records' = records
  <2>1. OnRecord' = OnRecord
    BY <1>2 DEF OnRecord, Left
  <2>2. MergeOf(OnRecord)' = MergeOf(OnRecord') /\ StepsOf(OnRecord)' = StepsOf(OnRecord')
    BY DEF MergeOf, StepsOf
  <2>3. QED
    BY <1>2, <2>1, <2>2 DEF MergedInv
<1>3. CASE merged' = merged /\ at # "start"
  BY <1>3, ParadataAssumption DEF KeptInv, ShapeInv, MergedInv
<1>4. QED
  BY <1>1, <1>2, <1>3 DEF ParadataNext, paradataVars, Start, Log, Finalize, FinalizeFails, CliCall, CliOpen,
     CliDump, CliFinish, CliRecord, CliRemove, CliKilled, CliUnreadable, NextStage

-----------------------------------------------------------------------------
\* A record that was left has the sums, notes and components of the completed calls.
LEMMA RecordTells ==
  ASSUME KeptInv, NEW i \in Left
  PROVE  /\ i \in 1 .. Stages /\ records[i] = Record(asked[i]) /\ asked[i] \in Loggers
         /\ records[i].inputs = Processed(asked[i]) + asked[i].skipped
         /\ records[i].processed = Processed(asked[i]) /\ records[i].skipped = asked[i].skipped
         /\ records[i].counts = asked[i].counts /\ records[i].notes = asked[i].notes
         /\ records[i].licence = LicenceBlock(asked[i].components)
         /\ records[i].components = asked[i].components
<1>1. i \in 1 .. Stages /\ records[i] = Record(asked[i]) /\ asked[i] \in Loggers
  BY DEF KeptInv, RecordsInv, ShapeInv, Left
<1>2. QED
  BY <1>1 DEF Record

\* The first and the last stage that left a record.
LEMMA Ends ==
  ASSUME Left # {}
  PROVE  Min(Left) \in Left /\ Max(Left) \in Left
<1>1. Left \subseteq 1 .. Stages /\ Stages \in Nat
  BY ParadataAssumption DEF Left
<1>2. \E m \in Left : \A y \in Left : m <= y
  <2>1. Left \subseteq Nat
    BY <1>1
  <2>2. QED
    BY <2>1, LeastExists
<1>3. \E m \in Left : \A y \in Left : m >= y
  BY <1>1, GreatestExists
<1>4. QED
  BY <1>2, <1>3 DEF Min, Max

\* Nothing logged by a completed call is lost or doubled on its way.
LEMMA CallsFollow ==
  ASSUME KeptInv, MergedInv
  PROVE  CallsSurvive
<1>1. RecordsTellTheCalls
  <2>1. SUFFICES ASSUME NEW i \in Left
                 PROVE  /\ records[i].counts = asked[i].counts /\ records[i].skipped = asked[i].skipped
                        /\ records[i].notes = asked[i].notes
                        /\ ToSet(records[i].components) = ToSet(asked[i].components)
    BY DEF RecordsTellTheCalls
  <2>2. QED
    BY <2>1, RecordTells
<1>2. MergedTellsTheCalls
  <2>1. SUFFICES ASSUME merged # NoRecord, "steps" \notin DOMAIN merged
                 PROVE  /\ merged.skipped = Total([i \in Left |-> asked[i].skipped])
                        /\ \A t \in Types : merged.counts[t] = Total([i \in Left |-> asked[i].counts[t]])
                        /\ \A i \in Left : merged.notes[i] = asked[i].notes
                        /\ Left # {} =>
                             /\ merged.inputs = Processed(asked[Min(Left)]) + asked[Min(Left)].skipped
                             /\ merged.processed = Processed(asked[Max(Left)])
    BY DEF MergedTellsTheCalls
  <2>2. merged = MergeOf(OnRecord)
    <3>1. "steps" \in DOMAIN StepsOf(OnRecord)
      BY DEF StepsOf
    <3>2. QED
      BY <2>1, <3>1 DEF MergedInv
  <2>3. DOMAIN OnRecord = Left /\ \A i \in Left : OnRecord[i] = records[i]
    BY DEF OnRecord
  <2>4. merged.skipped = Total([i \in Left |-> asked[i].skipped])
    <3>1. merged.skipped = Total([i \in Left |-> OnRecord[i].skipped])
      BY <2>2, <2>3 DEF MergeOf
    <3>2. [i \in Left |-> OnRecord[i].skipped] = [i \in Left |-> asked[i].skipped]
      BY <2>3, RecordTells
    <3>3. QED
      BY <3>1, <3>2
  <2>5. ASSUME NEW t \in Types
        PROVE  merged.counts[t] = Total([i \in Left |-> asked[i].counts[t]])
    <3>1. merged.counts[t] = Total([i \in Left |-> OnRecord[i].counts[t]])
      BY <2>2, <2>3 DEF MergeOf
    <3>2. [i \in Left |-> OnRecord[i].counts[t]] = [i \in Left |-> asked[i].counts[t]]
      BY <2>3, RecordTells
    <3>3. QED
      BY <3>1, <3>2
  <2>6. ASSUME NEW i \in Left
        PROVE  merged.notes[i] = asked[i].notes
    <3>1. merged.notes[i] = records[i].notes
      BY <2>2, <2>3 DEF MergeOf
    <3>2. QED
      BY <3>1, RecordTells
  <2>7. ASSUME Left # {}
        PROVE  /\ merged.inputs = Processed(asked[Min(Left)]) + asked[Min(Left)].skipped
               /\ merged.processed = Processed(asked[Max(Left)])
    <3>1. Min(Left) \in Left /\ Max(Left) \in Left
      BY <2>7, Ends
    <3>2. merged.inputs = records[Min(Left)].inputs /\ merged.processed = records[Max(Left)].processed
      BY <2>2, <2>3, <2>7, <3>1 DEF MergeOf
    <3>3. QED
      BY <3>1, <3>2, RecordTells
  <2>8. QED
    BY <2>4, <2>5, <2>6, <2>7
<1>3. QED
  BY <1>1, <1>2 DEF CallsSurvive

-----------------------------------------------------------------------------
(* The licence label. *)

\* Lists of components, by numbers.
Lists(lists) ==
  /\ lists = [i \in DOMAIN lists |-> lists[i]] /\ DOMAIN lists \subseteq Nat
  /\ \A i \in DOMAIN lists : DOMAIN lists[i] \subseteq Nat

\* A set of places that is not empty has a first one.
LEMMA FirstExists ==
  ASSUME NEW P, P \subseteq Nat \X Nat, P # {}
  PROVE  First(P) \in P /\ \A q \in P \ {First(P)} : Earlier(First(P), q)
<1> DEFINE I == {p[1] : p \in P}
<1>1. I \subseteq Nat /\ I # {}
  OBVIOUS
<1>2. PICK i \in I : \A y \in I : i <= y
  <2> HIDE DEF I
  <2>1. QED
    BY <1>1, LeastExists
<1> DEFINE K == {p[2] : p \in {q \in P : q[1] = i}}
<1>3. K \subseteq Nat /\ K # {}
  OBVIOUS
<1>4. PICK k \in K : \A y \in K : k <= y
  <2> HIDE DEF K
  <2>1. QED
    BY <1>3, LeastExists
<1>5. PICK p \in P : p[1] = i /\ p[2] = k
  BY <1>4
<1>6. ASSUME NEW q \in P, q # p
      PROVE  Earlier(p, q)
  <2>1. q[1] \in I /\ q[1] \in Nat /\ q[2] \in Nat /\ i \in Nat /\ k \in Nat
        /\ q = <<q[1], q[2]>> /\ p = <<i, k>>
    BY <1>5
  <2>2. i <= q[1]
    BY <1>2, <2>1
  <2>3. CASE q[1] = i
    <3>1. q[2] \in K
      BY <2>3
    <3>2. k <= q[2] /\ q[2] # k
      BY <1>4, <1>6, <2>1, <2>3, <3>1
    <3>3. QED
      BY <1>5, <2>1, <2>3, <3>2 DEF Earlier
  <2>4. CASE q[1] # i
    BY <1>5, <2>1, <2>2, <2>4 DEF Earlier
  <2>5. QED
    BY <2>3, <2>4
<1>7. \E m \in P : \A q \in P \ {m} : Earlier(m, q)
  BY <1>6
<1>8. QED
  BY <1>7 DEF First

\* The ranks of licences are numbers, none above the highest of the catalogue.
LEMMA Ranks ==
  Highest \in Nat /\ \A l : RankOf(l) \in 0 .. Highest
<1> DEFINE R == {Rank[l] : l \in Licences}
<1>1. PICK h \in Licences : \A m \in Licences : Rank[m] <= Rank[h]
  BY CatalogueAssumption
<1>2. R \subseteq Nat /\ Rank[h] \in R /\ \A y \in R : Rank[h] >= y
  BY <1>1, ParadataAssumption
<1>3. Highest = CHOOSE x \in R : \A y \in R : x >= y
  BY DEF Highest, Max
<1>4. Highest \in R /\ \A y \in R : Highest >= y
  <2> HIDE DEF R
  <2> QED
    BY <1>2, <1>3
<1>5. \A l \in Licences : Rank[l] \in R
  OBVIOUS
<1> HIDE DEF R
<1>6. Highest \in Nat
  BY <1>2, <1>4
<1>7. ASSUME NEW l \in Licences
      PROVE  Rank[l] \in 0 .. Highest
  <2>1. Rank[l] \in Nat /\ Highest >= Rank[l]
    BY <1>2, <1>4, <1>5
  <2>2. QED
    BY <1>6, <2>1
<1>8. QED
  BY <1>6, <1>7 DEF RankOf

\* The label over places that are not none is the licence of one of the components
\* there, and none of them is stricter.
LEMMA LabelIsTop ==
  ASSUME NEW lists, NEW P, P \subseteq Nat \X Nat, P # {}
  PROVE  /\ \E p \in P : Label(lists, P) = At(lists, p).licence
         /\ \A q \in P : RankOf(Label(lists, P)) >= RankOf(At(lists, q).licence)
<1> DEFINE rank(p) == RankOf(At(lists, p).licence)
           R == {rank(p) : p \in P}
           T == {p \in P : \A q \in P : rank(p) >= rank(q)}
<1>1. \A p : rank(p) \in 0 .. Highest /\ Highest \in Nat
  BY Ranks
<1>2. \E r \in R : \A y \in R : r >= y
  <2> DEFINE S == {x + 1 : x \in R}
  <2>1. S \subseteq 1 .. Highest + 1 /\ S # {} /\ Highest + 1 \in Nat
    BY <1>1
  <2>2. PICK m \in S : \A y \in S : m >= y
    <3> HIDE DEF S
    <3>1. QED
      BY <2>1, GreatestExists
  <2>3. PICK r \in R : m = r + 1
    BY <2>2
  <2>4. \A y \in R : y + 1 \in S /\ y \in Nat
    BY <1>1
  <2> HIDE DEF S, R
  <2>5. QED
    BY <2>2, <2>3, <2>4
<1>3. T # {} /\ T \subseteq P /\ T \subseteq Nat \X Nat
  BY <1>2
<1>4. First(T) \in T
  <2> HIDE DEF T
  <2> QED
    BY <1>3, FirstExists
<1>5. Label(lists, P) = At(lists, First(T)).licence
  BY DEF Label
<1>6. QED
  BY <1>4, <1>5

\* The components a list of lists has, those left out as well.
Listed(lists) == {At(lists, p) : p \in Places(lists)}

\* What the union keeps is one place of each component.
LEMMA UnionKeeps ==
  ASSUME NEW lists, Lists(lists)
  PROVE  /\ Places(lists) \subseteq Nat \X Nat /\ Kept(lists) \subseteq Places(lists)
         /\ {At(lists, p) : p \in Kept(lists)} = Listed(lists)
<1>1. Places(lists) \subseteq Nat \X Nat
  BY DEF Lists, Places
<1>2. Kept(lists) \subseteq Places(lists)
  BY DEF Kept
<1>3. ASSUME NEW p \in Places(lists)
      PROVE  \E q \in Kept(lists) : At(lists, q) = At(lists, p)
  <2> DEFINE E == {q \in Places(lists) : At(lists, q) = At(lists, p)}
             f == First(E)
  <2>1. E \subseteq Nat \X Nat /\ E # {}
    BY <1>1
  <2> HIDE DEF E
  <2>2. f \in E /\ \A q \in E \ {f} : Earlier(f, q)
    BY <2>1, FirstExists
  <2>3. f \in Nat \X Nat /\ f \in Places(lists) /\ At(lists, f) = At(lists, p)
    BY <2>1, <2>2 DEF E
  <2> HIDE DEF f
  <2>4. ASSUME NEW q \in Places(lists), Earlier(q, f), At(lists, q) = At(lists, f)
        PROVE  FALSE
    <3>1. q \in E /\ q \in Nat \X Nat
      BY <1>1, <2>3, <2>4 DEF E
    <3>2. q # f
      BY <2>3, <2>4 DEF Earlier
    <3>3. Earlier(f, q)
      BY <2>2, <3>1, <3>2
    <3>4. QED
      BY <2>3, <2>4, <3>1, <3>3 DEF Earlier
  <2>5. f \in Kept(lists)
    BY <2>3, <2>4 DEF Kept, Same
  <2>6. QED
    BY <2>3, <2>5
<1>4. QED
  BY <1>1, <1>2, <1>3 DEF Listed

\* Of two licences of one rank neither has duties the other has not.
LEMMA RankTellsFlags ==
  ASSUME NEW l, NEW m, RankOf(l) = RankOf(m)
  PROVE  Flags(l) = Flags(m)
<1>1. CASE l \in Licences /\ m \in Licences
  BY <1>1, CatalogueAssumption DEF RankOf
<1>2. CASE l \notin Licences /\ m \notin Licences
  BY <1>2 DEF Flags
<1>3. ASSUME NEW x \in Licences, NEW y, y \notin Licences, RankOf(x) = RankOf(y)
      PROVE  Flags(x) = Flags(y)
  <2>1. x \in NonCommercial /\ x \in ShareAlike
    BY <1>3, CatalogueAssumption DEF RankOf
  <2>2. QED
    BY <1>3, <2>1 DEF Flags
<1>4. QED
  BY <1>1, <1>2, <1>3

\* The merged label is that of a component listed, and as strict as each of them.
LEMMA MergedLabel ==
  ASSUME NEW lists, Lists(lists), DOMAIN lists # {}
  PROVE  LET l == MergedLicence(lists).licence IN
         /\ MergedLicence(lists).flags = Flags(l)
         /\ Listed(lists) = {} => l = "MIT"
         /\ Listed(lists) # {} => \E c \in Listed(lists) : l = c.licence
         /\ \A c \in Listed(lists) : RankOf(l) >= RankOf(c.licence)
<1> DEFINE P == Kept(lists)
<1>1. P \subseteq Nat \X Nat /\ {At(lists, p) : p \in P} = Listed(lists)
  BY UnionKeeps
<1> HIDE DEF P
<1>2. MergedLicence(lists) = Resolved(lists, P)
  BY DEF MergedLicence, P
<1>3. CASE P = {}
  <2>1. Listed(lists) = {} /\ MergedLicence(lists) = [licence |-> "MIT", flags |-> Flags("MIT")]
    BY <1>1, <1>2, <1>3 DEF Resolved
  <2>2. QED
    BY <2>1
<1>4. CASE P # {}
  <2>1. MergedLicence(lists) = [licence |-> Label(lists, P), flags |-> Flags(Label(lists, P))]
    BY <1>2, <1>4 DEF Resolved
  <2>2. /\ \E p \in P : Label(lists, P) = At(lists, p).licence
        /\ \A q \in P : RankOf(Label(lists, P)) >= RankOf(At(lists, q).licence)
    BY <1>1, <1>4, LabelIsTop
  <2>3. \A c \in Listed(lists) : RankOf(Label(lists, P)) >= RankOf(c.licence)
    BY <1>1, <2>2
  <2>4. \E c \in Listed(lists) : Label(lists, P) = c.licence
    BY <1>1, <2>2
  <2>5. QED
    BY <2>1, <2>3, <2>4
<1>5. QED
  BY <1>3, <1>4

\* Two orders of the same lists have the same duties.
LEMMA OrderFree ==
  ASSUME NEW a, NEW b, Lists(a), Lists(b), Listed(a) = Listed(b), DOMAIN a = {} <=> DOMAIN b = {}
  PROVE  MergedLicence(a).flags = MergedLicence(b).flags
<1> DEFINE l == MergedLicence(a).licence
           m == MergedLicence(b).licence
<1>1. CASE DOMAIN a = {}
  BY <1>1 DEF MergedLicence
<1>2. CASE DOMAIN a # {}
  <2>1. MergedLicence(a).flags = Flags(l) /\ MergedLicence(b).flags = Flags(m)
    BY <1>2, MergedLabel
  <2>2. CASE Listed(a) = {}
    BY <1>2, <2>2, MergedLabel
  <2>3. CASE Listed(a) # {}
    <3>1. PICK c \in Listed(a) : l = c.licence
      BY <1>2, <2>3, MergedLabel
    <3>2. PICK d \in Listed(a) : m = d.licence
      BY <1>2, <2>3, MergedLabel
    <3>3. RankOf(l) >= RankOf(d.licence) /\ RankOf(m) >= RankOf(c.licence)
      BY <1>2, MergedLabel
    <3> HIDE DEF l, m
    <3>4. RankOf(l) = RankOf(m)
      <4>1. RankOf(l) >= RankOf(m) /\ RankOf(m) >= RankOf(l)
        BY <3>1, <3>2, <3>3
      <4>2. RankOf(l) \in Nat /\ RankOf(m) \in Nat
        BY Ranks
      <4>3. QED
        BY <4>1, <4>2
    <3>5. Flags(l) = Flags(m)
      BY <3>4, RankTellsFlags
    <3>6. QED
      BY <2>1, <3>5 DEF l, m
  <2>4. QED
    BY <2>2, <2>3
<1>3. QED
  BY <1>1, <1>2

\* What the stages recorded are lists of components.
LEMMA StagesList ==
  ASSUME KeptInv
  PROVE  LET comps == Components(OnRecord) IN
         /\ Lists(comps) /\ DOMAIN comps = Left
         /\ \A i \in Left : comps[i] = asked[i].components /\ DOMAIN comps[i] \subseteq Nat
<1>1. DOMAIN OnRecord = Left /\ \A i \in Left : OnRecord[i] = records[i]
  BY DEF OnRecord
<1>2. \A i \in Left : records[i].components = asked[i].components
  BY RecordTells
<1>3. ASSUME NEW i \in Left PROVE i \in Nat /\ DOMAIN asked[i].components \subseteq Nat
  <2>1. asked[i] \in Loggers /\ i \in 1 .. Stages
    BY RecordTells
  <2>2. asked[i].components \in Seq([name : Names, licence : Terms])
    BY <2>1 DEF Loggers
  <2>3. QED
    BY <2>1, <2>2, LenProperties
<1>4. QED
  BY <1>1, <1>2, <1>3 DEF Components, Lists

\* The label covers the stages, in any order of them.
LEMMA LabelFollows ==
  ASSUME KeptInv, MergedInv
  PROVE  LabelCoversStages
<1> DEFINE comps == Components(OnRecord)
<1>1. /\ Lists(comps) /\ DOMAIN comps = Left
      /\ \A i \in Left : comps[i] = asked[i].components /\ DOMAIN comps[i] \subseteq Nat
  BY StagesList
<1>2. merged # NoRecord => merged.licence = MergedLicence(comps)
  BY DEF MergedInv, MergeOf, StepsOf
<1> HIDE DEF comps
<1>3. ASSUME merged # NoRecord, NEW i \in Left, asked[i].components # <<>>
      PROVE  RankOf(merged.licence.licence) >= RankOf(records[i].licence.licence)
  <2> DEFINE own == <<comps[i]>>
             P   == Places(own)
  <2>1. i \in Left
    BY <1>3
  <2>2. /\ records[i].licence = Resolved(own, P) /\ comps[i] = asked[i].components
        /\ asked[i].components \in Seq([name : Names, licence : Terms])
    BY <1>1, <1>3, <2>1, RecordTells DEF LicenceBlock, Loggers
  <2>3. DOMAIN own = {1} /\ own[1] = comps[i] /\ DOMAIN comps[i] = 1 .. Len(comps[i]) /\ Len(comps[i]) \in Nat \ {0}
    BY <1>3, <2>2, LenProperties, EmptySeq
  <2>4. P = {1} \X DOMAIN comps[i]
    BY <2>3 DEF Places
  <2>5. P \subseteq Nat \X Nat /\ P # {}
    <3>1. <<1, 1>> \in P
      BY <2>3, <2>4
    <3>2. QED
      BY <1>1, <2>1, <2>4, <3>1
  <2>6. PICK p \in P : Label(own, P) = At(own, p).licence
    <3> HIDE DEF P
    <3> QED
      BY <2>5, LabelIsTop
  <2>7. records[i].licence.licence = Label(own, P)
    BY <2>2, <2>5 DEF Resolved
  <2>8. At(own, p) \in Listed(comps)
    <3>1. <<i, p[2]>> \in Places(comps) /\ At(comps, <<i, p[2]>>) = comps[i][p[2]]
      BY <1>1, <2>1, <2>4 DEF Places, At
    <3>2. At(own, p) = comps[i][p[2]]
      BY <2>3, <2>4 DEF At
    <3>3. QED
      BY <3>1, <3>2 DEF Listed
  <2>9. RankOf(MergedLicence(comps).licence) >= RankOf(At(own, p).licence)
    BY <1>1, <2>1, <2>8, MergedLabel
  <2>10. QED
    BY <1>2, <1>3, <2>6, <2>7, <2>9
<1>4. FlagsOrderFree
  <2> DEFINE back == [k \in {Stages + 1 - i : i \in Left} |-> records[Stages + 1 - k].components]
  <2>1. \A i \in Left : i \in 1 .. Stages /\ Stages \in Nat /\ Stages + 1 - (Stages + 1 - i) = i
                       /\ records[i].components = comps[i]
    BY <1>1, RecordTells, ParadataAssumption
  <2>2. \A i \in Left : Stages + 1 - i \in DOMAIN back /\ back[Stages + 1 - i] = comps[i]
    BY <2>1
  <2>3. \A k \in DOMAIN back : \E i \in Left : k = Stages + 1 - i /\ back[k] = comps[i] /\ k \in Nat
    BY <2>1
  <2>4. DOMAIN back = {} <=> DOMAIN comps = {}
    BY <1>1, <2>2, <2>3
  <2>5. Lists(back)
    <3>1. back = [k \in DOMAIN back |-> back[k]]
      OBVIOUS
    <3> HIDE DEF back
    <3>2. QED
      BY <1>1, <2>3, <3>1 DEF Lists
  <2> HIDE DEF back
  <2>6. Listed(back) \subseteq Listed(comps)
    <3>1. SUFFICES ASSUME NEW k \in DOMAIN back, NEW n \in DOMAIN back[k]
                   PROVE  back[k][n] \in Listed(comps)
      BY DEF Listed, Places, At
    <3>2. PICK i \in Left : back[k] = comps[i]
      BY <2>3
    <3>3. <<i, n>> \in Places(comps) /\ At(comps, <<i, n>>) = back[k][n]
      BY <1>1, <3>2 DEF Places, At
    <3>4. QED
      BY <3>3 DEF Listed
  <2>7. Listed(comps) \subseteq Listed(back)
    <3>1. SUFFICES ASSUME NEW i \in Left, NEW n \in DOMAIN comps[i]
                   PROVE  comps[i][n] \in Listed(back)
      BY <1>1 DEF Listed, Places, At
    <3>2. <<Stages + 1 - i, n>> \in Places(back) /\ At(back, <<Stages + 1 - i, n>>) = comps[i][n]
      BY <2>2 DEF Places, At
    <3>3. QED
      BY <3>2 DEF Listed
  <2>8. MergedLicence(back).flags = MergedLicence(comps).flags
    <3>1. Listed(back) = Listed(comps)
      BY <2>6, <2>7
    <3>2. QED
      BY <1>1, <2>4, <2>5, <3>1, OrderFree
  <2>9. QED
    BY <1>2, <2>8 DEF FlagsOrderFree, back
<1>5. QED
  BY <1>3, <1>4 DEF LabelCoversStages

\* Both invariants hold of every run.
LEMMA ParadataKept == ParadataSpec => [](KeptInv /\ MergedInv)
<1>1. ParadataInit => KeptInv /\ MergedInv
  BY KeptInit DEF ParadataInit, MergedInv
<1>2. KeptInv /\ MergedInv /\ [ParadataNext]_paradataVars => (KeptInv /\ MergedInv)'
  BY KeptNext, MergedNext
<1>3. QED
  BY <1>1, <1>2, PTL DEF ParadataSpec

\* However many stages, calls and processes, and wherever a call is killed or a record
\* fails: what the completed calls logged is what is recorded and merged.
THEOREM CallsCorrect == ParadataSpec => []CallsSurvive
<1>1. KeptInv /\ MergedInv => CallsSurvive
  BY CallsFollow
<1>2. QED
  BY <1>1, ParadataKept, PTL

\* For every catalogue whose ranks tell the duties: the merged label is as strict as that
\* of each stage which recorded a component, and its duties do not depend on their order.
THEOREM LabelCorrect == ParadataSpec => []LabelCoversStages
<1>1. KeptInv /\ MergedInv => LabelCoversStages
  BY LabelFollows
<1>2. QED
  BY <1>1, ParadataKept, PTL
=============================================================================
