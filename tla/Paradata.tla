------------------------------ MODULE Paradata ------------------------------
(***************************************************************************)
(* The run-level record of a pipeline: what the stages log, in one process *)
(* (ParadataLogger) or call by call through the command line, whose calls  *)
(* share a state file; the record each stage leaves; and the merge of these*)
(* into one, with the licence label calculated over all components used.   *)
(*                                                                         *)
(* A call may be killed at any point, a record may fail to be written.  A  *)
(* licence is what the label makes of it (its rank and its two flags); how *)
(* its spellings are normalised, times and durations are left out.         *)
(***************************************************************************)
EXTENDS Integers, FiniteSetsExt, SequencesExt

CONSTANTS
  Types,        \* output types: "xml", "csv", ...
  Limits,       \* limits that notes are made of
  Names,        \* components of para_config.txt
  Licences, Rank, NonCommercial, ShareAlike,  \* the catalogue of para_licenses
  Terms,        \* licences a component may be logged with: also ones not in it
  Conservative, \* the label where nothing was recorded
  NoFile, Torn, NoRecord,
  Stages,       \* stages of the pipeline
  MaxCalls      \* bound on what a stage logs

ASSUME ParadataAssumption ==
  /\ Stages \in Nat /\ MaxCalls \in Nat
  /\ Rank \in [Licences -> Nat] /\ Conservative \in Licences
  /\ NonCommercial \subseteq Licences /\ ShareAlike \subseteq Licences

VARIABLES
  stage,        \* the stage that runs, Stages + 1 once all have
  how,          \* "process" or "cli"
  at,           \* where it is: "out" between two calls
  logger,       \* the logger in memory
  entry,        \* what the call at hand logs, NoEntry between two calls
  state,        \* the state file of the command line
  records,      \* stage -> the record it left
  calls,        \* how much the stage may still log
  asked,        \* history: stage -> what its completed calls logged
  merged        \* the merged record

paradataVars ==
  <<stage, how, at, logger, entry, state, records, calls, asked, merged>>

-----------------------------------------------------------------------------
(* Licences: resolve_effective_license and merge_effective_licenses. *)

Highest == Max({Rank[l] : l \in Licences})

\* A licence that is not in the catalogue counts as the most restrictive.
RankOf(l) == IF l \in Licences THEN Rank[l] ELSE Highest

\* An unknown licence is restrictive in its flags too.
Flags(l) == [nc |-> l \notin Licences \/ l \in NonCommercial, sa |-> l \notin Licences \/ l \in ShareAlike]

\* The catalogue: one licence is the strictest, which of two of a rank names the label
\* does not change its duties, and none is stricter in them than an unknown one.
ASSUME CatalogueAssumption ==
  /\ \E l \in Licences : \A m \in Licences : Rank[m] <= Rank[l]
  /\ \A l, m \in Licences : Rank[l] = Rank[m] => Flags(l) = Flags(m)
  /\ \A l \in Licences : Rank[l] = Highest => l \in NonCommercial /\ l \in ShareAlike

\* The places <<i, k>> of the components in the lists of several stages, in their order.
Places(lists)   == UNION {{i} \X DOMAIN lists[i] : i \in DOMAIN lists}
At(lists, p)    == lists[p[1]][p[2]]
Earlier(p, q)   == p[1] < q[1] \/ (p[1] = q[1] /\ p[2] < q[2])
First(P)        == CHOOSE p \in P : \A q \in P \ {p} : Earlier(p, q)

\* The first of the most restrictive licences, in the order of the components.
Label(lists, P) ==
  LET rank(p) == RankOf(At(lists, p).licence)
  IN  At(lists, First({p \in P : \A q \in P : rank(p) >= rank(q)})).licence

\* (A merge of blocks without any component resolves to MIT.)
Resolved(lists, P) ==
  LET label == IF P = {} THEN "MIT" ELSE Label(lists, P)
  IN  [licence |-> label, flags |-> Flags(label)]

Defaulted == [licence |-> Conservative, flags |-> [nc |-> TRUE, sa |-> FALSE]]

\* The block of one logger; with no component recorded, a conservative one.
LicenceBlock(comps) ==
  IF comps = <<>> THEN Defaulted ELSE Resolved(<<comps>>, Places(<<comps>>))

\* Fault: a component is known by its name alone.
SameName(c, d) == c.name = d.name

Same(c, d) == c = d

\* The union: a component that was there before is left out.
Kept(lists) ==
  {p \in Places(lists) :
     \A q \in Places(lists) : Earlier(q, p) => ~Same(At(lists, q), At(lists, p))}

MergedLicence(lists) ==
  IF DOMAIN lists = {} THEN Defaulted ELSE Resolved(lists, Kept(lists))

-----------------------------------------------------------------------------
(* The logger, and what may be logged. *)

NewLogger == [counts |-> [t \in Types |-> 0], docs |-> 0, skipped |-> 0,
              components |-> <<>>, notes |-> [k \in Limits |-> 0]]

\* log_component: a dict write; a component logged again keeps its place.
WithComponent(s, c) ==
  IF \E i \in DOMAIN s : s[i].name = c.name
  THEN [i \in DOMAIN s |-> IF s[i].name = c.name THEN c ELSE s[i]]
  ELSE Append(s, c)

Entries == [kind : {"success"}, of : Types] \cup [kind : {"skip", "document"}]
           \cup [kind : {"component"}, of : [name : Names, licence : Terms]]
           \cup [kind : {"limit"}, of : Limits]

NoEntry == [kind |-> "none"]

Logged(l, e) ==
  CASE e.kind = "success"   -> [l EXCEPT !.counts[e.of] = @ + 1]
    [] e.kind = "document"  -> [l EXCEPT !.docs = @ + 1]
    [] e.kind = "skip"      -> [l EXCEPT !.skipped = @ + 1]
    [] e.kind = "component" -> [l EXCEPT !.components = WithComponent(@, e.of)]
    [] e.kind = "limit"     -> [l EXCEPT !.notes[e.of] = @ + 1]

\* Fault: the notes of limits are not part of the state.
ForgetsNotes(l) == [l EXCEPT !.notes = NewLogger.notes]

\* _to_state_dict and _from_state_dict (the container image of the runner is forgotten).
Saved(l) == l

\* The documents logged, or else the most outputs of one type.
Processed(l) == IF l.docs > 0 THEN l.docs ELSE Max({l.counts[t] : t \in Types} \cup {0})

\* finalize, without a number of inputs given.
Record(l) == [inputs |-> Processed(l) + l.skipped, processed |-> Processed(l), skipped |-> l.skipped,
              counts |-> l.counts, notes |-> l.notes, licence |-> LicenceBlock(l.components),
              components |-> l.components]

-----------------------------------------------------------------------------
ParadataInit ==
  /\ stage = 1 /\ how \in {"process", "cli"} /\ at = "start"
  /\ logger = NewLogger /\ entry = NoEntry /\ state = NoFile /\ calls = MaxCalls
  /\ records = [i \in 1 .. Stages |-> NoRecord]
  /\ asked = [i \in 1 .. Stages |-> NewLogger]
  /\ merged = NoRecord

\* A stage begins; on the command line with a state file.
Start ==
  /\ stage <= Stages /\ at = "start"
  /\ logger' = NewLogger /\ state' = IF how = "cli" THEN Saved(NewLogger) ELSE NoFile
  /\ at' = "out"
  /\ UNCHANGED <<stage, how, entry, records, calls, asked, merged>>

\* The next stage, in a process of its own or on the command line.
NextStage ==
  /\ stage' = stage + 1 /\ at' = "start" /\ calls' = MaxCalls
  /\ how' \in {"process", "cli"} /\ logger' = NewLogger /\ entry' = NoEntry
  /\ state' = NoFile

\* A log call in the process of the stage.
Log ==
  /\ at = "out" /\ how = "process" /\ calls > 0
  /\ \E e \in Entries :
       /\ logger' = Logged(logger, e) /\ asked' = [asked EXCEPT ![stage] = Logged(@, e)]
       /\ calls' = calls - 1
  /\ UNCHANGED <<stage, how, at, entry, state, records, merged>>

\* The process ends: finalize, once; a record that cannot be written is not tried again.
Finalize ==
  /\ at = "out" /\ how = "process"
  /\ records' = [records EXCEPT ![stage] = Record(logger)]
  /\ NextStage /\ UNCHANGED <<asked, merged>>

\* It may be there as far as it was written.
FinalizeFails ==
  /\ at = "out" /\ how = "process"
  /\ \/ UNCHANGED records
     \/ records' = [records EXCEPT ![stage] = Torn]
  /\ NextStage /\ UNCHANGED <<asked, merged>>

-----------------------------------------------------------------------------
(* The command line: skip, success, component, note-limit read the state,  *)
(* log, and write it anew; finish reads it, writes the record, removes it. *)
(* Both are written by open(..., "w"), which empties the file, and a dump.  *)

CliEntries == {e \in Entries : e.kind # "document"}

CliCall ==
  /\ at = "out" /\ how = "cli" /\ calls > 0 /\ state \notin {Torn, NoFile}
  /\ entry' \in CliEntries /\ logger' = Logged(Saved(state), entry')
  /\ at' = "write" /\ calls' = calls - 1
  /\ UNCHANGED <<stage, how, state, records, asked, merged>>

CliOpen ==
  /\ at = "write" /\ state' = Torn /\ at' = "dump"
  /\ UNCHANGED <<stage, how, logger, entry, records, calls, asked, merged>>

CliDump ==
  /\ at = "dump" /\ state' = Saved(logger) /\ at' = "out"
  /\ asked' = [asked EXCEPT ![stage] = Logged(@, entry)] /\ entry' = NoEntry
  /\ UNCHANGED <<stage, how, logger, records, calls, merged>>

CliFinish ==
  /\ at \in {"out", "over"} /\ how = "cli" /\ state \notin {Torn, NoFile}
  /\ logger' = Saved(state) /\ records' = [records EXCEPT ![stage] = Torn] /\ at' = "record"
  /\ UNCHANGED <<stage, how, entry, state, calls, asked, merged>>

CliRecord ==
  /\ at = "record" /\ records' = [records EXCEPT ![stage] = Record(logger)] /\ at' = "remove"
  /\ UNCHANGED <<stage, how, logger, entry, state, calls, asked, merged>>

\* The state file is removed, or left behind by a finish that was killed.
CliRemove ==
  /\ at \in {"remove", "over"} /\ NextStage /\ UNCHANGED <<records, asked, merged>>

\* A call that is killed leaves the state file and the record as they are at that point; a
\* finish that was killed may be repeated.
CliKilled ==
  /\ at \in {"write", "dump", "record", "remove"} /\ entry' = NoEntry
  /\ at' = IF at \in {"record", "remove"} THEN "over" ELSE "out"
  /\ UNCHANGED <<stage, how, logger, state, records, calls, asked, merged>>

\* No call can read a torn state file: the stage goes without a record.
CliUnreadable ==
  /\ at = "out" /\ how = "cli" /\ state = Torn
  /\ NextStage /\ UNCHANGED <<records, asked, merged>>

-----------------------------------------------------------------------------
(* The merge of the records there are: merge_run_paradata.  One that is not *)
(* whole cannot be loaded, and there is no merge.                           *)

Left == {i \in 1 .. Stages : records[i] \notin {NoRecord, Torn}}

Total(f) == FoldFunction(+, 0, f)

Components(rs) == [i \in DOMAIN rs |-> rs[i].components]

\* The inputs are those of the first stage, the successes those of the last.
MergeOf(rs) ==
  [inputs     |-> IF DOMAIN rs = {} THEN 0 ELSE rs[Min(DOMAIN rs)].inputs,
   processed  |-> IF DOMAIN rs = {} THEN 0 ELSE rs[Max(DOMAIN rs)].processed,
   skipped    |-> Total([i \in DOMAIN rs |-> rs[i].skipped]),
   counts     |-> [t \in Types |-> Total([i \in DOMAIN rs |-> rs[i].counts[t]])],
   notes      |-> [i \in DOMAIN rs |-> rs[i].notes],
   licence    |-> MergedLicence(Components(rs)),
   components |-> {At(Components(rs), p) : p \in Kept(Components(rs))}]

\* merge_paradata_files: the log of one file, step by step, with no totals of its own.
StepsOf(rs) ==
  [steps   |-> [i \in DOMAIN rs |-> [licence |-> rs[i].licence.licence, notes |-> rs[i].notes]],
   licence |-> MergedLicence(Components(rs))]

OnRecord == [i \in Left |-> records[i]]

Merge ==
  /\ stage = Stages + 1 /\ merged = NoRecord
  /\ \A i \in 1 .. Stages : records[i] # Torn
  /\ merged' \in {MergeOf(OnRecord), StepsOf(OnRecord)}
  /\ UNCHANGED <<stage, how, at, logger, entry, state, records, calls, asked>>

ParadataNext ==
  \/ Start \/ Log \/ Finalize \/ FinalizeFails
  \/ CliCall \/ CliOpen \/ CliDump \/ CliFinish \/ CliRecord \/ CliRemove \/ CliKilled \/ CliUnreadable
  \/ Merge

ParadataSpec == ParadataInit /\ [][ParadataNext]_paradataVars

-----------------------------------------------------------------------------
(* Properties. *)

\* What a stage left on record, if it is whole, is what its completed calls logged, in
\* however many processes they ran and wherever one of them was killed.
RecordsTellTheCalls ==
  \A i \in Left :
    LET r == records[i] a == asked[i]
    IN  /\ r.counts = a.counts /\ r.skipped = a.skipped /\ r.notes = a.notes
        /\ ToSet(r.components) = ToSet(a.components)

\* The merged record accounts for every skip, output and limit of the stages that left
\* a record, and for the inputs of the first and the successes of the last of them.
MergedTellsTheCalls ==
  merged # NoRecord /\ "steps" \notin DOMAIN merged =>
    LET first == Min(Left) last == Max(Left)
    IN  /\ merged.skipped = Total([i \in Left |-> asked[i].skipped])
        /\ \A t \in Types : merged.counts[t] = Total([i \in Left |-> asked[i].counts[t]])
        /\ \A i \in Left : merged.notes[i] = asked[i].notes
        /\ Left # {} => /\ merged.inputs = Processed(asked[first]) + asked[first].skipped
                        /\ merged.processed = Processed(asked[last])

\* Nothing that was logged is lost or counted twice on its way through the state files
\* and the records of the stages into the merged one.
CallsSurvive == RecordsTellTheCalls /\ MergedTellsTheCalls

\* Which of two equally restrictive licences names the label depends on the order of
\* the stages; whether it is non-commercial and share-alike does not.
FlagsOrderFree ==
  merged # NoRecord =>
    LET backwards == [k \in {Stages + 1 - i : i \in Left} |-> records[Stages + 1 - k].components]
    IN  MergedLicence(backwards).flags = merged.licence.flags

\* The merged label is no weaker than that of any stage which recorded a component, and
\* its duties do not depend on the order of the stages.
LabelCoversStages ==
  /\ merged # NoRecord => \A i \in Left :
       asked[i].components # <<>> =>
         RankOf(merged.licence.licence) >= RankOf(records[i].licence.licence)
  /\ FlagsOrderFree
=============================================================================
