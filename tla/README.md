# Verification of atrium-translator

TLA+ models of the parts of `atrium-translator` where the order of steps, the
failure of one of several steps, or an earlier run decides whether the output is
right. Each model is translated from the source named in `PROJECT.json` under
"map" (file, lines, function). TLC checks the models on small instances; TLAPS
proves most of their safety properties for every instance.

- [What the program does](#what-the-program-does)
- [Components](#components)
- [Modules](#modules)
- [What each run checks](#what-each-run-checks)
- [What is proved](#what-is-proved)
- [Disagreements found](#disagreements-found)
- [What is not modelled](#what-is-not-modelled)
- [Plan](#plan)

## What the program does

The command (`main.py`) takes a folder of XML files. A file is either an ALTO
document (OCR text with the place of every word on the page) or an AMCR metadata
record. Each is translated by a backend over HTTP (or by a local model), and leaves
in the output folder

- the translated XML,
- a CSV log with one row per line or field, whose `status` column tells the person
  checking the translation which rows to look at (`ok`, `rerun`, `approx_alignment`, `untranslated`,
  `unsupported_lang`),
- a document record `<doc_id>.document.json` that later programs of the pipeline
  add to;

and the run leaves a paradata file with its totals. The HTTP service
(`service/api.py`) runs the same function, `process_single_file`, in a worker thread
per request.

The backend is unreliable in a particular way: it answers, but with text that is no
translation. So a segment can fail without its request failing. The program sets such
a segment aside, goes on, asks again at the end of the document, and keeps the source
text if nothing helps. Most of what can go wrong follows from this: the state of a
segment is decided at three or four separate moments, and file, log, notes and counters
are written from it later.

## Components

| Component | State it keeps | Operations | Interacts with | Makes it correct |
|---|---|---|---|---|
| ALTO processing (`utils.process_alto_xml`) | blocks and lines of the document with their translation, failure and re-run marks; pending blocks; counters; the tree | gather a page, translate its blocks in one request per language, translate its line anchors, place the words, re-run what was flagged, settle the rest, write log and file | backend, alignment, the record, the log | the log tells what the file holds; nothing flagged is logged `ok`; the notes count what was kept; an append pass keeps earlier translations; it ends |
| Line alignment (`utils._finalize_alto_block` and below) | buckets of words per line | cut at an anchor, cut by share, fall back line by line, distribute over Strings | called when a block is placed | no word lost or reordered, no line with text starved, no empty line without a flag |
| Metadata processing (`utils.process_metadata_xml`) | the tree, the rows, the flagged fields | evaluate an XPath, translate a field in place or beside it, re-run, write | backend, the record, XSD | no translation is translated again, one sibling per language, pairs are labelled, log and record agree |
| Batch command (`main.main`, `main.process_single_file`) | the files to process, failures, verdicts, totals; the output folder | take a file, write `.partial`, XML, record, publish the log, count, exit | both processings, the record, paradata; earlier runs through the folder | a log with rows is never lost; no record without its XML; exit code and totals tell what is in the folder |
| Guarded requests (`processors/translator.py`, `http_retry.py`, `quality.py`, `chunking.py`) | time of the last request, reply counts | chunk, protect terms, ask, judge the reply, ask again, retry transport errors | HTTP endpoint; shared by all threads of the service | a reply is accepted only if plausible; every request ends; the interval between requests is kept |
| Other backends (`ct2_translator.py`, `llm_translator.py`, `lemmatizer.py`) | loaded model, glossary | translate one text, or a batch | as above | one load, however many threads ask first; notes and re-run rounds stay with their document |
| Language resolution (`processors/language.py`, `identifier.py`) | the document's language, counts | resolve document, resolve segment | both processings | a segment's language is one the backend accepts, or the row says so |
| Document record (`atrium_document.py`) | inherited and own blocks | open, set and merge blocks, validate, finalize | batch command, earlier programs' records | what others contributed survives |
| Paradata (`atrium_paradata.py`) and limits (`atrium_limits.py`, `limit_notes.py`) | counters, notes of the current call | log success, skip, note; finalize | batch command, service | totals add up; a note reaches its own call |
| HTTP service (`service/api.py`, `service/atrium_service.py`) | warm, draining, requests in flight, shared backends | start, ready, translate, drain, stop | `process_single_file` in threads | a request gets its own counts and notes; shutdown waits for work and ends |
| Vocabulary building (`load_vocab.py`, `processors/vocab.py`) | the vocabulary file | harvest two thesauri, or take a published release; write; read back | the guarded requests' terms | the exit code tells what the file holds; a row is one concept |
| Release, schema and evaluation tools | none between calls | sequential passes over files | run by hand | — |

The hard behaviours, with the lines where they bite, are the "hazards" of
`PROJECT.json`.

## Modules

| Module | Models | Checked by | Proved in |
|---|---|---|---|
| `DocumentLedger` | what a processing of any document promises: a line is translated, kept as source or left out, once; only a finished processing publishes, and all at once | as a PROPERTY of the next two | |
| `AltoDocument` | `process_alto_xml` with the re-run and both output modes | `alto_passes` | `AltoDocumentProofs` |
| `MetadataDocument` | `process_metadata_xml` with the re-run and both output modes | `metadata_passes` | `MetadataDocumentProofs` |
| `LineAlignment` | the cutting of a block's words into lines and Strings | `line_alignment` | `LineAlignmentProofs` |
| `GuardedRequest` | one `_translate_items` over the LINDAT backend: batch, terms as tags, pieces, guard, re-requests, scrubbing, fallback | `requests` | `SharedBackendProofs` |
| `TextLoops` | the two loops over characters and words inside a request, turn by turn: `chunk_text` and `_longest_repeat_run` | `text_loops` | `LineAlignmentProofs` |
| `SharedBackend` | the threads of one process over one backend object: lazy load, throttle, collectors of limit notes, re-run rounds | `shared_backend` | `SharedBackendProofs` |
| `SourceLanguage` | the check of the language pair, the policy, the language of document and segment, the tally | `source_language` | `SourceLanguageProofs` |
| `BatchRun` | the command over a folder, several times, with failures and kills | `batch_runs` | `BatchRunProofs` |
| `TranslationService` | the HTTP service: start, shutdown, `/translate` calls in threads over one backend | `service_calls` | `TranslationServiceProofs` |
| `DocumentRecord` | the document record through the programs of the pipeline: sessions, ownership, origin, branches folded | `records` | `DocumentRecordProofs` |
| `Paradata` | the run record of a pipeline: logger, state file, records of the stages, their merge, the licence label | `paradata` | `BatchRunProofs` |
| `VocabularyBuild` | `load_vocab.py`, run after run, against failing thesauri and a release that is republished | `vocabulary` | `SourceLanguageProofs` |

`MC*` modules give the constants of a module the values of its runs. Four proof modules hold the
proofs of two modules each; the definitions of the second are named after it (`LoopSpec`,
`ParadataSpec`, `VocabularySpec`, `RequestSpec`) so that both can be extended.

How they compose: `AltoDocument` and `MetadataDocument` take a request for a choice among
its outcomes (usable, flagged, failed) and a segment's language for a constant;
`GuardedRequest` and `SourceLanguage` are where these come from. `BatchRun` and
`TranslationService` take the processing of a document for a few steps that may fail.
`SharedBackend` is what several of them meet at. The refinements of `DocumentLedger` are
checked and proved; the other interfaces are the choices named here.

### How a model corresponds to the code

**AltoDocument.** `phase` is the place in `process_alto_xml`. `GatherPage` collects the
page's blocks and groups them by language; `TranslateBlocks` is `_translate_items`
for one group: either the batched reply is accepted as sent, or every item is asked
for alone and some may come back unusable. `TranslateAnchors` is the same for the
lines; `PlaceBlock` is `_finalize_alto_block`, or sets the block aside. `EndPages`,
`StartRound`, `RetryBlock`, `RetryAnchor`, `EndRound` and `EndRerun` are
`_rerun_flagged_alto` with one action per request; `SettleBlock` places what was set
aside; `WriteOutputs` writes the log and the tree. `Fails` is any exception: nothing is
written. `ProcessAgain` starts over, on the output of the last call in append
mode. A text is abstracted to who wrote it (the source, nobody, or pass number p),
a block's translation to whether it is empty, has fewer words than lines, or enough:
that is all the control flow looks at. Lines without source text are not in the model
because the code never requests, flags or logs them.

**LineAlignment.** One block, one behaviour. Words are numbers, and a source line is
known by how many source words end with it, so that the shares are computed with the
code's own arithmetic, Python's rounding of halves to even included. The similarity
score that prefers one split at an anchor to another is not computed: any split in the
window the code searches is allowed, so what holds does so for every score.

**MetadataDocument.** The record is the sequence of its elements with text. An element
is identified by the insertions that made it, so "the element right behind" is the
next in the sequence if it has the same parent and tag, as for `getnext()`. A text
is its author: the source, or a row of the log of some pass, so that "the record holds
what the log says" is equality. XPaths select what is in the tree when the loop comes
to them, earlier insertions included. What an XPath selected (`todo`) and the rows to be asked for
again (`flagged`, `retry`) are sets, visited in the order of the document and of the log
(`ComesNext`, `FirstOf`), as the code's lists are. `ProcessAgain` takes the output of a finished call as its input in append mode
only. A finished replacement has the elements of its source and no sibling, so a call on it is a behaviour of its own
whose source is that output; the code has no means to see that it translates English into English then, and
says so (`utils.py:704-707`).

**GuardedRequest.** A request is a sequence of words and line breaks, each word marked with
the text it belongs to, so that the result of a text shows whose words it got. The loops are walked
turn by turn: `JoinText` puts the next text into the batch; `Protect` comes to the next word of the vocabulary
(phrases first, then, after `Lemmatize`, the lemmas) and tags the first place where it still stands, by a number that is its
place in `protected_map`; `Reply` is one answer for the next piece (`PieceEnd`), with the guard on it: the piece is
asked for again (`AskAgain`) or the request is given up (`GiveUp`). The
backend may answer straight, or slip: lose or add a line break, move one past a line (`Slipped`) or by part of a
line (`Shifted`), loop, say nothing, or not answer (`NoReply`); and any tag may come back with its number, with that of another tag, or
as what is left of one (`Fates`): with its stem, as loose letters z, or as something nobody can recognise. The scrubbing
is keyed to the stem, so without one nothing is taken away (`Scrubbing`). `Take` joins the answers and after the last puts the terms back; `ScrubFragment` and
`ScrubBreak` take away what is left of tags and the line breaks that go with it; `AcceptBatch` maps the lines to
texts, `RefuseBatch` falls back to one request per text, which `JudgeSingle` accepts or flags. `slips` counts the line breaks
that were lost, added or moved past a line, at a cut, in the backend or in the scrubbing: the properties speak of at most one, because a
second may put back what the first moved, and no line count can see that. `unseen` remembers what the code has no means to see
even once: a break moved by some words (`"shift"`: the count is right and no line is empty) and a tag that became another
(`"renumber"`). The properties say what such a reply can do, and that it can do no more.

**TextLoops.** A step is a turn of a `while`. The characters are those the code tells
apart: letters, the two kinds of white space, two tiers of separators. `spans` is a history variable:
the first and the last place of each chunk in the text, so that "the chunks are the text" can be said of
places and not of characters, of which there may be many alike.

**SharedBackend.** `pc` is where a thread is in `_translate_items`, `_ensure_loaded`, the
throttle or a request; `active` and `rerun` are the thread-local attributes; `lock`, `engine`,
`parts`, `ago` the shared ones. A step ends at a read or write of something shared. Time passes in ticks
(`Tick`) and only as far as the interval. `_throttle` reads the time of the last request, sleeps
and writes it: the read is one step, and between it and the write the other thread may do the
same; only reading the clock and storing it (two adjacent statements) are one step.
Each thread takes the documents that wait one after another, as a pool's does, so what one
leaves behind is found by the next.

**SourceLanguage.** The identifier is the environment: any list of distinct guesses, the
sure ones before the others. `Accepts`, `Usable`, `Resolve` and `Unsupported` are
`SourceLanguagePolicy` and `resolve_source_language`; `Start` is the check that command and service make
before they touch anything; `Translate` is the request, refused by a backend with model pairs
for a pair it lacks.

**BatchRun.** A file's content is the number of the run that wrote it. An XML being
written is torn until `tree.write` returns. The log is a `.partial` that replaces the
log of an earlier run when `Publishes`; the record is renamed into place. Any step of a
document may raise (`FailFile`) and the command goes on; it may be interrupted or end
by an error nothing catches (`Abort`), or be killed between any two steps (`Kill`), and
be run again on the same folder with other inputs (`Found`).

**TranslationService.** `server` is where uvicorn and the lifespan are, `call` where the
handler of a request is on the event loop, `thread` where its `process_single_file` is in
the worker thread. A handler's step ends at an await: the body of the request
(`Arrive` to `Admit`), the upload, and `asyncio.to_thread` (`StartThread` to `Report`). A
thread's step ends when a request returns: a reply is accepted, rejected by the guard
(`Degenerate`, counted in the shared `tally`), or does not come (`NoReply`). A document is
its batched request and, after a fallback, up to `MaxItems` requests for single items, the
re-run at its end included; under `xsd_strict` a whole translation may still be answered by
422 (`Answer`). The increment of the tally is one step, as in the interpreter of
the image (CPython 3.11 does not switch threads inside it). uvicorn is external: it
closes the listener, waits for the calls up to `--timeout-graceful-shutdown`, cancels
the rest, and ends the lifespan. The time-outs of the drain are choices; `wait_drained`'s
own 25 seconds are not modelled, since a cancelled handler leaves the middleware at its
next turn of the loop. `rejected` and `together` are history variables.

**DocumentRecord.** A session is one `DocumentRecord` object: `Open` to `Finalize`, with one
action per call in between. A value is the name of the program that wrote it. A complaint of
the ownership or origin checks raises or warns (`Complaining`); a check that cannot be made
because the origin is not known yet is kept with the session (`Deferred`) and made when it is
stated (`SetSource`). `FanIn` is `merge_document_records`. The translator is one of the programs
that may not touch the text plane; what it does to a record is the same calls.

**Paradata.** A stage runs in one process (`Log`, `Finalize`) or as one command per entry over a
state file, each of which reads the file, empties it and writes it (`CliCall`, `CliOpen`,
`CliDump`), and may be killed between any two of these. The finish reads it, empties the record and writes it (`CliFinish`,
`CliRecord`) and removes the state file; killed in between it leaves a record that is no JSON (`Torn`), and may be
repeated. A merge over such a record raises, and there is none. `asked` is the yardstick: each call that returned adds its own
`entry` to it, whatever the state file held. A licence is its rank and its two flags; `MCParadata` has the catalogue of
`para_licenses.py` in full. The records of the stages are a sequence (`OnRecord`), the components in them are
named by their places (`Places`, `Earlier`), and what `merge_run_paradata` and `resolve_effective_license` choose is the
first of the strictest (`First`, `Label`).

**VocabularyBuild.** A run takes its arguments, harvests AMCR page by page and TEATER by its
export or, if that fails, by two searches, or downloads a zip and its checksum, and writes the
file row by row. `PublishZip` and `PublishSum` are the other repository's release job. A concept's
`excluded` is known to a property only.

### The abstract specification

`DocumentLedger` has four variables: the fate of each line in this processing, what
the published file holds, the mode, and whether the processing is at work. It allows
a line's fate to be settled once, a processing to publish all settled lines at one
moment, or to fail and publish nothing. `AltoDocument` implements it line by line and
block by block, `MetadataDocument` with every field a block of its own, each by a
refinement mapping (`Fate`, `LedgerState`) at its end. `ImplementsLedger` says that no
order of replies, rounds and failures produces a file the abstract document could not
have.

## What each run checks

| Run | Instance | Shows |
|---|---|---|
| `alto_passes` | three blocks on two pages: two lines of which one is a rule, a rule in an unsupported language, a single line; two rounds, two processings | the log tells the file; counters, summary and note agree with it; append keeps earlier translations; every processing ends; the ledger is implemented |
| `line_alignment` | every block of up to 4 lines and 5 source words, every translation of up to 5 words, every set of usable anchors | no line with text starved; no word lost or out of order, no unflagged empty line (`LinesAccounted`); shares do not drift |
| `metadata_passes` | two neighbouring fields of one kind, one of another, an element no XPath names; one labelled, one unsupported; two XPaths, two rounds, three processings into one language | one translation per field, pairs labelled, log and record agree, the ledger is implemented |
| `requests` | a homonym of another segment's term, a bracket before a term, a term alone, a blank line, a phrase; pieces of 3, 4 and 20 tokens; two guard re-requests; 4850 states | one slip of the line structure never gives a text another's words, and a shifted break only those of the next line; no term is another's but by a renumbered tag; each text is answered or flagged; the call ends |
| `text_loops` | every text of up to 6 characters at three chunk sizes; every reply of up to 9 tokens over 3 words, units of up to 3 | the pieces are the text, in order, torn only where the code must; the leaping scan finds the longest run; both loops end |
| `shared_backend` | two threads, three documents of two segments, one of them long; one re-run round, one retry, an interval of two ticks; CTranslate2 or HTTP | one load and no half-loaded engine; notes and rounds stay with their document; each thread keeps the interval; nobody waits for ever |
| `source_language` | seven backends (model pairs in one, both or neither direction, lists, nothing), three sources, two targets, two fallbacks, three restrictions, up to three guesses, two segments | a run let in is not refused midway; no segment is left for want of a language; an unusable language is told, once, under its best name |
| `batch_runs` | an ALTO document and a validated record, any of them found, three runs | no log with rows lost, no record without its XML, exit code and paradata right |
| `service_calls` | two calls, a batch and up to two single items each, one re-request and one retry of a request, a signal at any time | no handler loses the backend, no call is admitted after the signal (one admitted before it may still start its thread), a call alone reports its own rejected replies, threads and shutdown end |
| `records` | two pages of a line, two files; the OCR program under an old name, the converter, the enricher; four sessions, three calls | one originator of the text plane but for pages handed to OCR; a score adds no line; others' contributions survive; a fold does not depend on its order |
| `paradata` | two stages, two entries each, the full catalogue of licences; four of them and an unknown one are logged | what a finished call logged is in the records and the merge; the label is no weaker than any stage's and its duties do not depend on the order |
| `vocabulary` | three lemmas with collisions inside and between the thesauri, two nodes without an identifier, two pages, three releases (good, with a pair named twice and an identity no flat row has; empty; unreadable), two runs | what the exit code says of the file holds after failures, kills and republication; a row is one concept (with the two exceptions [below](#what-is-proved)), and AMCR wins |

**Bounds.** `MaxRounds`, `MaxPasses`, `MaxRuns`, `Stages` bound `TRANSLATION_RERUN_ROUNDS`,
the processings of a document, the runs of a command and the stages of a pipeline. Two rounds are the fewest
in which a segment flagged in the first is recovered in the second; two passes let
one find the output of another, three bring the append guard to its own siblings twice;
three runs of the batch let one find what is left by a failure on top of a success. Three
blocks with four lines hold a block with one line, one with several, two languages on a page and a second
page. Four lines with five words reach every branch of the alignment:
starvation (fewer words than lines), ties in rounding, a blank line first, inside and
last. Two calls can overlap, follow each other, or be cut with the other's thread still at
work. Three documents over two threads make one thread serve two. A chunk of 5 characters has
a first quarter, a middle and an end, and 6 characters make a second chunk; nine tokens hold three turns of a
unit of three. Four sessions are a writer on each branch, a fold and one who reads it. The bounds stop
only how often something is repeated; within them every reply, failure and order is explored.

**Deadlock** is not checked where the last processing or run, or the stopped service, is
the end of the behaviour; there the termination property says what must be reached.

**Fairness.** `FairSpec` of `AltoDocument` and `MetadataDocument` is weak fairness of
their own steps: the code is one thread that goes on as long as it is not blocked, and
every request has a timeout (`LINDAT_TIMEOUT_S`) and a bounded number of retries, so
each returns or raises. The same holds of `GuardedRequest` and `TextLoops`. No fairness is
assumed of failures or of being called again. `SharedBackend` assumes it of each thread and of time; for
the lock weak fairness is enough, since every holder releases it and the others take it at most once for
each document. `TranslationService` assumes weak fairness
of the threads (each has its own, and its requests return as above), of the loop taking up
a finished thread or a cancelled call, and of uvicorn's shutdown once it has begun, whose
waits are bounded. No signal and no call has to come, and a body may never be complete.

Every property of a passing run has a mutant in `PROJECT.json`: a definition changed the
way a plausible bug would change the code, under which the property is violated. The
operators whose comment begins with "Fault" are these mutated forms; no specification
uses them.

## What is proved

All proofs are for every value of the constants that satisfies the module's
assumption; finiteness of the documents is all that is asked for in most.

**AltoDocumentProofs.** `TypeCorrect`, `FlaggedCorrect`, `LogCorrect` and
`AppendCorrect` are consequences of one inductive invariant. `FlaggedNeverOk` and
`LogTellsTheFile` speak of the moment when a line is placed or the document is done; they
are not inductive because what a line ends up with is decided from flags set pages and
rounds earlier. `FlowInv` adds where every block is (waiting on its page, waiting for
the re-run, or placed, and only then with a status), `FlagInv` what a flag leaves
behind until the line is placed (a failed or re-run block, a re-run anchor, or no
anchor where the block uses them), `TreeInv` that the Strings in memory differ from the
file only on lines whose status says so, `PageInv` that no block of an earlier page is
left behind. `CountersCorrect` adds `CountInv`: through the rounds a flagged block is either
recovered and counted, or still among `FailedBlocks`, whose cardinality makes up the difference (`SegInv`);
the note and the counter of anchors are the cardinalities of the lines with the two statuses, each
counted by the step that gives the status (`NotesInv`); and a line in doubt has left a
count that turns the summary into a warning (`QuietInv`). `LedgerImplemented` proves that
initial states map to initial states of `DocumentLedger` and every step to a step or a
stutter, from the same invariant.

**LineAlignmentProofs.** `NoTextLineEmptyCorrect` and `BlanksEmptyCorrect` rest on a counting
argument: before every cut the words left are at least the lines
of text left, which a cut keeps because it never takes more than `Highest`, all but one word for
each later line (`RoomInv`). Stating it needs the cardinality of the lines still to do,
and hence lemmas on removing an element from a finite set. `LinesAccountedCorrect` has three
parts: the buckets tile the words cut so far, in the order of the lines (`TileInv`); at the end
the Strings of a line hold the words of its bucket, one after the other (`SpreadInv`, with lemmas on
what `Spread` does to a line of any number of Strings); and as long as a fast alignment
has given nobody a word, each line it passed had at most half a word for its share (`HoldInv`); were that so of all
lines of text, the words would be fewer than the lines (`TooFewWords`), and the block starved. `SharesDoNotDriftCorrect`: with as many words as
the source, the place of the cut is the end of the source line (`DriftInv`), because the share is then a
whole number and rounding leaves it.

**MetadataDocumentProofs.** Four invariants. `BaseInv` holds for every configuration: rows and work name
elements of the record, each element is there once, and a sibling this pass inserted is still
right behind its element, since each later insertion is behind another one; `TypeCorrect` follows.
`PairInv` says that only elements of the source have a sibling, one at most, and that append
asks only for the source's text; it gives `PairsCorrect`. `OnceInv` says that each element has one row, whose XPath has been begun
(`VisitInv`), that the row tells what the record in memory shows (`TellInv`), and that what is no longer the
source's in replace mode has a row (`AskInv`); it gives `LogCorrect` and, with `PairInv`,
`TranslatedOnceCorrect`. The theorems name the hypotheses they need, and each is needed: `OneTarget` (a
record is always translated into the same language) because passes into two languages do leave two siblings
([below](#disagreements-found)); `NamedOnce` (no two XPaths name one element)
because in replace mode the second XPath would find the first one's translation in place of the source, and the
first row would tell a text that is no longer there. `LogCorrect` needs only the second, `PairsCorrect` only the first.
`LedgerImplemented` maps initial states to initial states of `DocumentLedger` and every step to a step or a stutter, under both. The fate of
a field is defined on the record, which every write changes; `CarryInv` says that what a field shows is what the file
showed unless its row has a text, and that a field whose XPath the loop has left has a row or carries an earlier translation. So the fate
can be read off the rows, the work left and the file (`FateBy`), and a step at one element changes that
element's fate only. `CarryInv` also gives what publishing needs: after the loop nothing is waiting, and a field
without a row is one the guard of append passed over.

**BatchRunProofs.** `BatchTypeCorrect`, `RecordCorrect`, `PublishedLogCorrect`,
`ExitCorrect`, `LogKept` and `ParadataCorrect`. `RecordNeverAheadOfXml` is not inductive: the record is
written by a step that does not look at the XML. `HandInv` says what holds of the
document in hand at each step of `process_single_file` (after `EndWrite` its XML is whole
and of this run, and stays so; the rows are full from `Translate` on), `LoopInv` how the
inputs, those waiting and the one in hand are related, `DoneInv` that a document the
run is done with is complete or among the failed, and in the latter case without a record of
this run. The exit code follows from the last. For the paradata, `CountInv` says that while the run goes on its
counts are the cardinalities of the files with a record of this run (`Recorded`) and of those
it has decided (`Decided`); a file becomes decided by one step only.

**DocumentRecordProofs.** One invariant, for any files, pages, lines and programs, gives `TypeCorrect`,
`OneTextPlaneCorrect`, `ScoreInventsNothingCorrect`, `FanInOrderFreeCorrect` and
`OthersSurviveCorrect`. `PlaneInv` is the heart: of the records nobody was warned about, one without an origin holds no text, and no line that
OCR added, while a session's copy without one may hold the session's own text as long
as the check of it is remembered (`Covers`) and made when the origin is stated. So what the deferred check
forgets, it has forgotten in a record marked `unsourced` or `late`, of which nothing is claimed.
`StampInv` says that the time of a stamp names the write, so that two branches with
equal stamps of a block hold the same block, and whichever is taken, the fold is the same. `SurviveInv` is what the
session's copy owes to the record it was opened on.

**TranslationServiceProofs.** `ServiceTypes`, `ServiceBackendThere` and `ServiceLoneCalls`.
`BackendThere` needs that `in_flight` is exactly the number of requests being served
(`LifeInv`; each arrival and each leaving changes the cardinality by one), because the drain
looks at the number and the property at the requests. `LoneCallsCountOwn` speaks of an
answer; `TallyInv` says that while a call that overlapped no other's is counting, the tally
is its own count, since any other counting call would have put both into `together`, and
`ThreadInv` that a thread starts once, with nothing counted for it.

**SharedBackendProofs.** `LoadedOnceHolds`, `OwnIntervalKept`, `ThreadsKeepTheirOwnHolds` and
`SharedTypes`, for any number of threads. Each has an invariant of its own. `LoadInv`: who is
inside the load holds the lock, and `loads` is 1 exactly if the engine is there or about to be
published, so whoever enters `load` still finds 0. `ClockInv`: the shared time is never older
than a thread's own, and a sleeping thread's own time and the rest of its sleep make up the
interval; a request of another thread only resets the shared time. `NotesInv`: the count of a document is the
cardinality of what its collector has seen (`Counted`), what was not seen is still to be asked for
(`Unseen`; a re-run starts only when nothing is left, and so has nothing new), and two threads never
serve one document (`Assigned`).

**GuardedRequest** (in `SharedBackendProofs`). `OneSlipCaughtHolds`, `ResultsAreTheirOwnHolds` and `RequestTypes`, for any
texts, any piece size of two tokens or more and any replies. What is judged is the reply in
the end, but a slip may come at any piece, and a later piece, the tags put back or the scrubbing might hide it. So the
invariant follows the lines through the request: the answers so far joined with the rest (`Join(answers, rest)`) are
as many slips away from the batch as are counted (`Sound`): with none, line m holds words of the m-th text
only, or, once a break was shifted (`Drift`), in the part already answered also of a text next to it (`Lined`); with one, the number of lines is wrong or a line is empty; with more nothing is claimed. `JoinInv` says
this of the batch while it is put together, `LineInv` while it is asked, `ScrubInv` while it is scrubbed, where a line break taken counts
as a slip. It is kept because a piece has no empty line and begins and ends with a word, so a reply that the
guard lets pass has one line of its own for each line, or shows what it has lost: a merged, an added or a torn line by the count, a swallowed one by the
empty line it leaves or, where that is stripped off the end of the piece, by the count; and the last check, `Mapped`, looks at both.
`TokenInv` says of every word in the request that it is of one of the request's texts, and that a tag's entry in the map is a word of the text the
tag stands in, so numbering, cutting and garbling cannot move a term (`Fitting`); once a tag was renumbered (`Mixed`) its entry is
still a word of some text of the request, which is all that `TermsOwn` claims then. That a word moves by one line at most, although every
piece may have a break shifted, is because a word is answered in one piece only, and the other pieces keep their count (`Drifting`, `ReplacedLeads`). `SettleInv` says what is settled and what is still to be
asked for.

**SourceLanguageProofs.** `LanguageIsDecidedHolds` and `UnsupportedToldHolds`. That a run is not refused midway is
not inductive, since the language of the document is decided before that of a segment falls back to it;
`LanguageInv` says that every language resolved so far may be asked for (`Askable`), and
`AcceptsAskable` is the heart of it: what the policy accepts, after the check of the pair let the
run in, the backend has a model for, unless no pair leads to the target and the fallback is the
target itself. For the second, `HeardInv` keeps what was heard of the segment at hand with what it owes, and
the name a segment is counted under is the first of the sure guesses that can be named: there is a least index among them
(`LeastExists`, by the well-foundedness of the numbers).

**TextLoops** (in `LineAlignmentProofs`). `LongestRunCorrect`: the scan leaps over what it has measured, and finds
the longest run all the same. `ScanInv` says that no place and unit length behind the scan has a longer run than
`best`; that the places leapt over have none is `RunsInside`: a run that begins inside another one, before its last
repetition ends, ends with it, and is no longer. `CutsCorrect` is for texts of any length: `CutInv` says that what
remains is an end of the text that begins with ink (`RemainingInv`), that each chunk is a part of the text before it (`PiecesInv`)
and that all ink before it is in some chunk (`CoverInv`). A piece taken keeps it (`PieceTaken`) if the cut tears only a
word it may tear, which is `CutTears`: the window is cut whole only when its spaces are its first character and its
line breaks in the first quarter (`CutAtIs`). The proof gave a sharper bound than the model had been checked with: a word
torn behind an early line break has at least `size - size \div 4` characters. It also found a flaw of the model: its tiers had
been written as a CASE with guards that overlap, of which TLA+ (not TLC) leaves open which is taken. `TurnsComeNearer` is the part of `LoopsEnd` that
does not need fairness: every turn, over any text, shortens what remains or moves the scan on.
`LoopTypeCorrect` is the type invariant.

**Paradata** (in `BatchRunProofs`). `CallsCorrect` for `CallsSurvive`: `KeptInv` ties the logger in memory, the state file at each
step of a command that reads, empties and writes it, and the records of the earlier stages to what the completed calls `asked`
for; `MergedInv` says what was merged; and that the merged totals are those asked for is a sum over
stages (`Total`). `LabelCorrect` for `LabelCoversStages`: there is a first among the strictest components of all
stages, wherever they stand, and its duties are the same for every order.
It rests on `CatalogueAssumption`: some licence is the strictest, licences of one rank have the same duties, and the strictest
rank has both. `para_licenses.py` has such a catalogue; the assumption says what a change of it must keep.

**VocabularyBuild** (in `SourceLanguageProofs`). `VocabularyExitCorrect` for `ExitTellsTheFile`: while rows are written the file holds
records of this run, no lemma twice (`RowsInv`), and exit 0 is given when none is left, so what is read back is the
records; in a release run the payload was the one its checksum named when they were compared (`ExitInv`), whatever was
published since. `RowsCorrect` for `RowsAreSound`: every entry of a dictionary is one concept of its source (`AmcrInv`, `TeaterInv`;
`Collected` says what a loop that overwrites earlier entries leaves), the last concept of a lemma has it, and a merge prefers AMCR. Two
cases are excepted in the property, because the code does join different concepts there: items of TEATER's searches without an
identifier (`load_vocab.py:490-495`; of those it is proved that both labels are of nodes without one), and a release
whose union first names an identity for a pair that no flat row has: then the first flat row of the pair is taken, excluded or not
(`load_vocab.py:691-693`). Both cases are in the instance that TLC checks.
`VocabularyAssumption` gives the constants their shape (sequences of concepts, at least one release).
`ThesaurusAssumption` is about the data, and `RowsCorrect` is false without it: a TEATER identifier that is there has one English label
(`IdentifiersName`), and the lists of a release agree (`UnionNamesRows`): where flat rows have the identity that the nested union
names first for a pair (`FirstNamed`, a `setdefault`), one of them carries the pair and is not excluded.
`load_vocab.py` joins by identifier and by pair and compares nothing else, so data that break this give a row
that mixes two concepts; the assumption says what the code trusts its sources with.

**Only model-checked.** Termination (`PassEnds`, `CallsEnd`, `RequestEnds`, `LoopsEnd`,
`ShutdownCompletes`) is liveness under fairness and out of the prover's reach. Every other property that a run checks
is a theorem.

## Disagreements found

Where code and text of the repository say different things. The models follow the
code; the properties are stated as far as the code keeps them.

- Anchors: the summary of a document can report more anchors recovered than
  flagged, because a block recovered in the re-run flags its anchors uncounted (`utils.py:1482`,
  `1448`).
- Alignment: with `--fast-align` a last line without source text can be
  given words (`utils.py:1249`), against the docstring of `_align_tokens_proportional` (`1218`).
- Metadata: `append` is documented to be idempotent (`docs/how-it-works.md:317`); passes into English,
  German and English again leave two English siblings of one field (the pass into German
  puts its sibling between them, and takes the English one for a source field, too; `utils.py:715`). The run has one target.
- Batch: a log with rows can stand beside an XML it does not describe, or
  beside none, after a failure or a kill between the XML and the log (`main.py:811`,
  `docs/reference/outputs.md:46`).
- Service: `lindat_degenerate_replies` of a `/translate` call can be another
  document's, because the tally is one attribute of the shared backend that every call
  resets (`main.py:662`, `api.py:944`; `docs/reference/paradata.md:59`). It is right for a call that overlaps no other (`LoneCallsCountOwn`, proved).
- Requests: "a malformed sentinel must never reach the caller" (`translator.py:359`), but a text that is nothing but the
  remains of a tag is returned as it is (533; so `DebrisOnlyAlone` allows it), and remains without the full stem are never taken away
  (521). `_scrub_placeholder_fragments` takes the white space behind an opening bracket away,
  line breaks included (532), although its comment keeps them (526). A tag whose number the backend changed to that of another is
  restored as the other's term (490-508). A batch is accepted if "every line is a plausible translation" (`utils.py:291`), which a reply
  with a line break moved by some words is: the words it moved go to the line beside.
- Chunks: a word can be cut apart where the only break before it is a line break in the first
  quarter of the window, against "mid-word truncation does not occur" (`docs/how-it-works.md:132`); the note of
  a split counts a batch as one segment (`chunking.py:59`).
- Throttle: the interval is kept by every thread, not between threads: two may read the time before
  either writes it (`http_retry.py:58`).
- Languages: with a fallback equal to the target and no pair into it, every language of the backend is
  accepted and the document is refused midway (`language.py:232`); `NeverRefusedMidway` excepts this case. A
  language that `LANG_ID_LANGUAGES` rules out is reported as one the backend cannot translate.
- Record: a score stated before the origin is known can append a line (`atrium_document.py:1329`, `408`);
  a deferred check is forgotten with its session; a fold takes whole blocks, so what the older branch
  added to a block of the newer is not in it.
- Paradata: the state file omits the image of the container; a stage without components is
  labelled CC BY-NC 4.0, a merge without any MIT; the name of the label depends on the order of equally strict
  licences, and share-alike of a weaker one is not passed on; runs of one second share a run id.
- Vocabulary: an AMCR page that cannot be fetched ends its harvest with exit code 0 and a vocabulary that lacks
  the rest (`load_vocab.py:179`); a kill while writing leaves a part of the file (523); usage errors exit with 2, the
  docstring says 1 (733); search items without an identifier are joined to one another (490-495), though "the id that joins
  the cs/en pair is the concept identity" (492).

## What is not modelled

The text itself: what a good translation is, similarity scores, token counts and mixed scripts
of the guard, geometry of words. Names of files: the documents of a `BatchRun` have different
names, although the code lets `X.xml` and `X.alto.xml`, or files of one name in two
folders, share outputs; the hazard list has it. Downloads and argument parsing,
which end the command before it has touched an output. Of the backends: prompts, glossaries, the
lemmatizer's answer. Of the record: seeds, validation against the schema, `derived_from` and
`regenerable`. Of paradata: times, identifiers, the migration of old records. Of the
vocabulary: descriptions and URIs, and the term formatting of `atrium_vocab.py`. Of the service: the endpoints that only read, the
checks of parameters and uploads (they are one refusal), a second signal, and a signal before
the lifespan has installed its handler. Release checks, RO-Crate and OpenAPI builders and
the evaluation scripts: single passes over their input, with no state between calls.

## Plan

1. The interface of `GuardedRequest`: an abstract specification of what `AltoDocument` assumes of a request
   (each item usable, flagged or the call failed), implemented by it.
2. Shared names in `BatchRun`: a naming function from documents to outputs.
3. `SharedBackend`: the chunks of a long text one by one, and the tokenizer's own load.
