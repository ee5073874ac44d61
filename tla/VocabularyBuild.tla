--------------------------- MODULE VocabularyBuild ---------------------------
(* load_vocab.py: one run after another builds the vocabulary file, either    *)
(* by harvesting the two thesauri page by page and reply by reply, or from a  *)
(* published release that somebody may be republishing meanwhile.  Every      *)
(* request may fail and the process may be killed at any step.                *)
(*                                                                            *)
(* A concept is [lemma, target, id]: its Czech label in lower case, its       *)
(* English one and its identifier, each Absent when the reply has none.  An   *)
(* entry is [target, source, id] (VocabEntry); the URI is the identifier      *)
(* behind a fixed prefix, and the description is a text beside it: both are   *)
(* left out.                                                                  *)
(* A concept also says whether keyword-extract's curation excluded it         *)
(* (excluded), which the program cannot see: only a property reads it.        *)
EXTENDS Integers, SequencesExt

CONSTANTS
    LemmaOrder,   \* the lemmas in the order of sorted()
    AmcrPages,    \* the pages of AMCR's listing, each a sequence of concepts
    TeaterNodes,  \* the nodes of TEATER's export in document order
    Releases,     \* the successive contents of the release's zip, a sequence of
                  \* [readable, curated, nested, amcr, teater]
    CommittedRows,\* the rows of the file before the first run
    MaxRuns       \* bound on the number of runs

Absent   == ""    \* a label, source or identifier the reply does not have
Concepts == [lemma : STRING, target : STRING, id : STRING, excluded : BOOLEAN]
Named    == [pair : STRING \X STRING, source : STRING, id : STRING]
Assets   == [readable : BOOLEAN, curated : Seq(STRING \X STRING), nested : Seq(Named),
             amcr : Seq(Concepts), teater : Seq(Concepts)]

ASSUME VocabularyAssumption ==
    /\ AmcrPages \in Seq(Seq(Concepts)) /\ TeaterNodes \in Seq(Concepts)
    /\ Releases \in Seq(Assets) /\ Releases # <<>>

VARIABLES
    options,  \* the arguments: [mode, amcr, teater, pin]
    pc,       \* what the run does next; "idle" between two runs
    page,     \* AMCR pages read so far
    fields,   \* the queries TEATER's schema offers
    czech,    \* the nodes the Czech search answered, as indices
    amcr, teater, records,   \* dictionaries from lemma to entry
    zip, sum,                \* the published asset and the asset its .sha256 names
    payload, expected,       \* what this run downloaded of each (0: nothing yet)
    file,     \* the vocabulary file: [rows, whole]
    before,   \* the file as the run found it
    exit,     \* the exit code of the last run, "none" while one is going on
    runs      \* runs started

vocabularyVars ==
    <<options, pc, page, fields, czech, amcr, teater, records, zip, sum,
      payload, expected, file, before, exit, runs>>

published == <<zip, sum>>
asset     == <<payload, expected>>
harvest   == <<page, fields, czech, amcr, teater>>
thisRun   == <<options, before, runs>>

Empty    == <<>>    \* the empty dictionary: a function with an empty domain

----------------------------------------------------------------------------
(* Dictionaries.                                                            *)

(* Concepts listed in the order of their (numeric) domain, as a dictionary:  *)
(* only those with both labels, and the last one of a lemma wins.            *)
Collect(concepts, source) ==
    LET both == {k \in DOMAIN concepts :
                    concepts[k].lemma # Absent /\ concepts[k].target # Absent}
        last(l) == Max({k \in both : concepts[k].lemma = l})
    IN  [l \in {concepts[k].lemma : k \in both} |->
            [target |-> concepts[last(l)].target, source |-> source,
             id |-> concepts[last(l)].id]]

(* dict.update: the entries of a override those of t.  So do AMCR's those of *)
(* TEATER (merge_records), and those of a page those of the pages before.    *)
Merged(a, t) ==
    [l \in DOMAIN a \cup DOMAIN t |-> IF l \in DOMAIN a THEN a[l] ELSE t[l]]

(* _harvest_via_search_records: the English label of a node the Czech search *)
(* answered is the one the English search answered under the same identifier. *)
EnglishFor(k, english) ==
    LET same == {j \in english : TeaterNodes[j].id = TeaterNodes[k].id}
    IN  IF same = {} THEN Absent ELSE TeaterNodes[Max(same)].target

Joined(english) ==
    [k \in czech |-> [TeaterNodes[k] EXCEPT !.target = EnglishFor(k, english)]]

----------------------------------------------------------------------------
(* records_from_release, once the digest agrees.                            *)

(* The flat rows of the asset that carry a pair, AMCR's before TEATER's, as   *)
(* <<source, concept>>.                                                       *)
Harvested(r) ==
    [k \in DOMAIN r.amcr |-> <<"amcr", r.amcr[k]>>]
        \o [k \in DOMAIN r.teater |-> <<"teater", r.teater[k]>>]

FirstMatch(r, pair) ==
    LET rows == Harvested(r)
        hits == {k \in DOMAIN rows :
                    <<rows[k][2].lemma, rows[k][2].target>> = pair}
    IN  IF hits = {} THEN [source |-> Absent, id |-> Absent]
        ELSE [source |-> rows[Min(hits)][1], id |-> rows[Min(hits)][2].id]

HasIdentity(row, n) == row[1] = n.source /\ row[2].id = n.id

(* Where the nested union names a pair for the first time (setdefault).       *)
FirstNamed(r, pair) ==
    {m \in DOMAIN r.nested : /\ r.nested[m].pair = pair
                             /\ \A j \in 1..m - 1 : r.nested[j].pair # pair}

(* A fault: the identity it names the last time.                             *)
LastWinner(r, pair) ==
    {r.nested[m] : m \in {n \in DOMAIN r.nested :
        /\ r.nested[n].pair = pair /\ \A j \in n + 1..Len(r.nested) : r.nested[j].pair # pair
        /\ \E k \in DOMAIN Harvested(r) : HasIdentity(Harvested(r)[k], r.nested[n])}}

(* The identity it names there, when a flat row has it (by_identity).         *)
Winner(r, pair) ==
    {r.nested[m] : m \in {n \in FirstNamed(r, pair) :
        \E k \in DOMAIN Harvested(r) : HasIdentity(Harvested(r)[k], r.nested[n])}}

(* Otherwise the first flat row of the pair, excluded or not.                 *)
Provenance(r, pair) ==
    IF Winner(r, pair) # {} THEN CHOOSE w \in Winner(r, pair) : TRUE
    ELSE FirstMatch(r, pair)

(* One entry per curated lemma, the last row of a lemma winning.             *)
FromRelease(r) ==
    LET last(l) == Max({k \in DOMAIN r.curated : r.curated[k][1] = l})
    IN  [l \in {r.curated[k][1] : k \in DOMAIN r.curated} |->
            LET pair == r.curated[last(l)]
                from == Provenance(r, pair)
            IN  [target |-> pair[2], source |-> from.source, id |-> from.id]]

----------------------------------------------------------------------------
(* The rows of the file, and what load_vocabulary_records reads back.        *)

Precedes(l, m) ==
    \E i, j \in DOMAIN LemmaOrder : i < j /\ LemmaOrder[i] = l /\ LemmaOrder[j] = m

Unwritten ==
    {l \in DOMAIN records : \A k \in DOMAIN file.rows : file.rows[k].lemma # l}

Row(dict, l) == [lemma |-> l, target |-> dict[l].target,
                 source |-> dict[l].source, id |-> dict[l].id]

Loaded(rows) ==
    LET last(l) == Max({k \in DOMAIN rows : rows[k].lemma = l})
    IN  [l \in {rows[k].lemma : k \in DOMAIN rows} |->
            [target |-> rows[last(l)].target, source |-> rows[last(l)].source,
             id |-> rows[last(l)].id]]

----------------------------------------------------------------------------
VocabularyInit ==
    /\ options = [mode |-> "none", amcr |-> FALSE, teater |-> FALSE, pin |-> 0]
    /\ pc = "idle" /\ exit = "none" /\ runs = 0
    /\ page = 0 /\ fields = {} /\ czech = {}
    /\ amcr = Empty /\ teater = Empty /\ records = Empty
    /\ zip = 1 /\ sum = 1
    /\ payload = 0 /\ expected = 0
    /\ file = [rows |-> CommittedRows, whole |-> TRUE]
    /\ before = file

(* A run ends with an exit code.                                             *)
Leave(code) == pc' = "idle" /\ exit' = code

Begin(args, first) ==
    /\ pc = "idle" /\ runs < MaxRuns
    /\ runs' = runs + 1 /\ options' = args /\ before' = file
    /\ page' = 0 /\ fields' = {} /\ czech' = {}
    /\ amcr' = Empty /\ teater' = Empty /\ records' = Empty
    /\ payload' = 0 /\ expected' = 0
    /\ pc' = first /\ exit' = "none"
    /\ UNCHANGED <<published, file>>

StartHarvest ==
    \E a, t \in BOOLEAN :
        /\ a \/ t     \* skipping both is a usage error: nothing starts
        /\ Begin([mode |-> "harvest", amcr |-> a, teater |-> t, pin |-> 0],
                 IF a THEN "amcr" ELSE "introspect")

StartRelease ==
    \E pin \in 0..Len(Releases) :
        Begin([mode |-> "release", amcr |-> FALSE, teater |-> FALSE, pin |-> pin],
              "asset")

----------------------------------------------------------------------------
(* harvest_amcr_records                                                     *)

AfterAmcr == IF options.teater THEN "introspect" ELSE "merge"

AmcrPage ==
    /\ pc = "amcr" /\ page < Len(AmcrPages)
    /\ amcr' = Merged(Collect(AmcrPages[page + 1], "amcr"), amcr)
    /\ page' = page + 1
    /\ pc' = IF page + 1 = Len(AmcrPages) THEN AfterAmcr ELSE "amcr"
    /\ UNCHANGED <<thisRun, fields, czech, teater, records, published, asset, file, exit>>

(* A network error, a body that is not XML, or a reply with no token: the    *)
(* loop ends with what it has.                                               *)
AmcrBreaks ==
    /\ pc = "amcr"
    /\ pc' = AfterAmcr
    /\ UNCHANGED <<thisRun, harvest, records, published, asset, file, exit>>

----------------------------------------------------------------------------
(* _harvest_teater: the schema, then the export, then the two searches.      *)

AfterExport(offered) == IF "search" \in offered THEN "searchCs" ELSE "merge"

Introspect ==
    /\ pc = "introspect"
    /\ fields' \in SUBSET {"exportAll", "search"}     \* {} when the query fails
    /\ pc' = IF "exportAll" \in fields' THEN "export" ELSE AfterExport(fields')
    /\ UNCHANGED <<thisRun, page, czech, amcr, teater, records, published, asset, file, exit>>

Export ==
    /\ pc = "export"
    /\ LET vocab == Collect(TeaterNodes, "teater")
       IN  IF vocab = Empty
           THEN teater' = teater /\ pc' = AfterExport(fields)
           ELSE teater' = vocab /\ pc' = "merge"
    /\ UNCHANGED <<thisRun, page, fields, czech, amcr, records, published, asset, file, exit>>

(* exportAll answers no URL, the download fails, or it holds no pair.        *)
ExportFails ==
    /\ pc = "export"
    /\ pc' = AfterExport(fields)
    /\ UNCHANGED <<thisRun, harvest, records, published, asset, file, exit>>

(* Each search answers some of the nodes: the service limits and changes.    *)
SearchCzech ==
    /\ pc = "searchCs"
    /\ czech' \in SUBSET DOMAIN TeaterNodes
    /\ pc' = "searchEn"
    /\ UNCHANGED <<thisRun, page, fields, amcr, teater, records, published, asset, file, exit>>

SearchEnglish ==
    /\ pc = "searchEn"
    /\ \E english \in SUBSET DOMAIN TeaterNodes :
           teater' = Collect(Joined(english), "teater")
    /\ pc' = "merge"
    /\ UNCHANGED <<thisRun, page, fields, czech, amcr, records, published, asset, file, exit>>

SearchFails ==
    /\ pc \in {"searchCs", "searchEn"}
    /\ pc' = "merge"
    /\ UNCHANGED <<thisRun, harvest, records, published, asset, file, exit>>

----------------------------------------------------------------------------
(* The records are known: an empty dictionary leaves the file alone.         *)
Settle(dict) ==
    /\ records' = dict
    /\ IF dict = Empty THEN Leave("nothing") ELSE pc' = "open" /\ exit' = exit

Merge ==
    /\ pc = "merge"
    /\ Settle(Merged(amcr, teater))
    /\ UNCHANGED <<thisRun, harvest, published, asset, file>>

(* records_from_release: the asset, then the digest, then the comparison.    *)
FetchAsset ==
    /\ pc = "asset"
    /\ payload' = zip
    /\ pc' = "digest"
    /\ UNCHANGED <<thisRun, harvest, records, published, expected, file, exit>>

FetchDigest ==
    /\ pc = "digest"
    /\ expected' = IF options.pin # 0 THEN options.pin ELSE sum
    /\ pc' = "verify"
    /\ UNCHANGED <<thisRun, harvest, records, published, payload, file, exit>>

FetchFails ==
    /\ pc = "asset" \/ (pc = "digest" /\ options.pin = 0)
    /\ Leave("refused")
    /\ UNCHANGED <<thisRun, harvest, records, published, asset, file>>

(* A fault: the digest is read and reported but not compared.                *)
VerifyNothing ==
    /\ pc = "verify"
    /\ IF Releases[payload].readable
       THEN Settle(FromRelease(Releases[payload]))
       ELSE Leave("refused") /\ records' = records
    /\ UNCHANGED <<thisRun, harvest, published, asset, file>>

Verify ==
    /\ pc = "verify"
    /\ IF payload = expected /\ Releases[payload].readable
       THEN Settle(FromRelease(Releases[payload]))
       ELSE Leave("refused") /\ records' = records
    /\ UNCHANGED <<thisRun, harvest, published, asset, file>>

----------------------------------------------------------------------------
(* write_vocabulary_csv: open() empties the file, the rows follow in order.  *)

OpenFile ==
    /\ pc = "open"
    /\ file' = [rows |-> <<>>, whole |-> FALSE]
    /\ pc' = "rows"
    /\ UNCHANGED <<thisRun, harvest, records, published, asset, exit>>

WriteRow ==
    /\ pc = "rows"
    /\ \E l \in Unwritten :
           /\ \A m \in Unwritten \ {l} : Precedes(l, m)
           /\ file' = [file EXCEPT !.rows = Append(@, Row(records, l))]
    /\ UNCHANGED <<thisRun, harvest, records, published, asset, pc, exit>>

CloseFile ==
    /\ pc = "rows" /\ Unwritten = {}
    /\ file' = [file EXCEPT !.whole = TRUE]
    /\ Leave("done")
    /\ UNCHANGED <<thisRun, harvest, records, published, asset>>

Killed ==
    /\ pc # "idle"
    /\ Leave("killed")
    /\ UNCHANGED <<thisRun, harvest, records, published, asset, file>>

----------------------------------------------------------------------------
(* The publisher replaces the zip first and its checksum afterwards.         *)
PublishZip ==
    /\ zip < Len(Releases) /\ sum = zip
    /\ zip' = zip + 1
    /\ UNCHANGED <<thisRun, harvest, records, asset, sum, file, pc, exit>>

PublishSum ==
    /\ sum # zip
    /\ sum' = zip
    /\ UNCHANGED <<thisRun, harvest, records, asset, zip, file, pc, exit>>

VocabularyNext ==
    \/ StartHarvest \/ StartRelease
    \/ AmcrPage \/ AmcrBreaks
    \/ Introspect \/ Export \/ ExportFails \/ SearchCzech \/ SearchEnglish \/ SearchFails
    \/ Merge \/ FetchAsset \/ FetchDigest \/ FetchFails \/ Verify
    \/ OpenFile \/ WriteRow \/ CloseFile \/ Killed
    \/ PublishZip \/ PublishSum

VocabularySpec == VocabularyInit /\ [][VocabularyNext]_vocabularyVars

----------------------------------------------------------------------------
(* Properties.                                                              *)

(* What a run's exit code says of the file: 0 means a whole file that reads  *)
(* back as this run's records, at least one, and taken from the very asset   *)
(* the checksum names; 2 and 3 mean the file of before, byte for byte.  A    *)
(* republication between the two downloads, a reply that fails and an        *)
(* earlier run killed while it was writing must not break this.              *)
ExitTellsTheFile ==
    /\ exit = "done" =>
           /\ file.whole /\ file.rows # <<>>
           /\ Loaded(file.rows) = records
           /\ options.mode = "release" => payload = expected
    /\ exit \in {"nothing", "refused"} => file = before

(* The concepts a row of the present run may have come from.                 *)
Thesaurus(source) ==
    CASE options.mode = "release" /\ source = "amcr"   -> Range(Releases[payload].amcr)
      [] options.mode = "release" /\ source = "teater" -> Range(Releases[payload].teater)
      [] options.mode = "harvest" /\ source = "teater" -> Range(TeaterNodes)
      [] OTHER -> UNION {Range(AmcrPages[p]) : p \in DOMAIN AmcrPages}

(* No row mixes two identities: both labels of a row belong to concepts of    *)
(* the source the row names that have its identifier, and but for TEATER      *)
(* items without one, which the searches join by having none, to the same     *)
(* concept.  Where a flat row has the identity that the release's nested      *)
(* union names first for the pair, that concept is not one the release        *)
(* excluded - not even when an excluded concept with the same two labels      *)
(* comes first.                                                              *)
RowsAreConcepts ==
    exit = "done" =>
        \A k \in DOMAIN file.rows :
            LET row == file.rows[k]
                r     == Releases[payload]
                named == /\ options.mode = "release"
                         /\ \E m \in DOMAIN r.nested : \E h \in DOMAIN Harvested(r) :
                               /\ r.nested[m].pair = <<row.lemma, row.target>>
                               /\ \A j \in 1..m - 1 : r.nested[j].pair # r.nested[m].pair
                               /\ HasIdentity(Harvested(r)[h], r.nested[m])
            IN  row.source # Absent =>
                    \E c, d \in Thesaurus(row.source) :
                        /\ c.lemma = row.lemma /\ c.id = row.id
                        /\ d.target = row.target /\ d.id = row.id
                        /\ options.mode = "release" \/ row.source = "amcr" \/ row.id # Absent => c = d
                        /\ named => ~c.excluded

(* AMCR wins: a lemma AMCR gave a pair for, on any page the harvest reached,  *)
(* carries the identifier of AMCR's last concept of that lemma, whatever      *)
(* TEATER answered and in whatever order.                                     *)
AmcrFirst ==
    exit = "done" /\ options.mode = "harvest" =>
        \A p \in 1..page : \A k \in DOMAIN AmcrPages[p] :
            LET c == AmcrPages[p][k]
                later == \E q \in p..page : \E j \in DOMAIN AmcrPages[q] :
                            /\ q > p \/ j > k
                            /\ AmcrPages[q][j].lemma = c.lemma /\ AmcrPages[q][j].target # Absent
            IN  c.lemma # Absent /\ c.target # Absent /\ ~later =>
                    \E r \in DOMAIN file.rows :
                        file.rows[r] = [lemma |-> c.lemma, target |-> c.target,
                                        source |-> "amcr", id |-> c.id]

(* What RowsAreConcepts takes from the thesauri: an identifier of TEATER has  *)
(* one English label.                                                        *)
IdentifiersName ==
    \A j, k \in DOMAIN TeaterNodes :
        TeaterNodes[j].id # Absent /\ TeaterNodes[j].id = TeaterNodes[k].id =>
            TeaterNodes[j].target = TeaterNodes[k].target

(* And from a release: where flat rows have the identity that the nested      *)
(* union names first for a pair, one of them carries the pair and is not      *)
(* excluded.                                                                 *)
UnionNamesRows(r) ==
    \A n \in DOMAIN r.nested :
        LET pair == r.nested[n].pair
            same == {k \in DOMAIN Harvested(r) : HasIdentity(Harvested(r)[k], r.nested[n])}
        IN  n \in FirstNamed(r, pair) /\ same # {} =>
                \E k \in same : LET c == Harvested(r)[k][2]
                                IN  <<c.lemma, c.target>> = pair /\ ~c.excluded

ASSUME ThesaurusAssumption ==
    IdentifiersName /\ \A z \in DOMAIN Releases : UnionNamesRows(Releases[z])

(* Each row of the file is one concept, of the source that has precedence.   *)
RowsAreSound == RowsAreConcepts /\ AmcrFirst

=============================================================================
