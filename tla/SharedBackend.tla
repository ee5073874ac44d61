---------------------------- MODULE SharedBackend ----------------------------
(***************************************************************************)
(* Translations that run in the threads of one process over ONE backend    *)
(* object: what the threads share (the lazily loaded CTranslate2 engine    *)
(* behind its lock; the throttle of the HTTP backends) and what is kept per*)
(* thread (the collector of limit notes, the re-run round).  The threads   *)
(* come from a pool: one that has ended a translation, well or not, takes  *)
(* the next.  (The tokenizer of the instruction models is loaded under the *)
(* same lock in the same way as the engine and is not modelled apart.)     *)
(***************************************************************************)
EXTENDS Integers, FiniteSets

CONSTANTS
  Threads, Calls,
  NoCall, NoThread,
  Segments,     \* the texts of a document, translated in order: a set of numbers
  Long,         \* those longer than a chunk
  Rounds,       \* TRANSLATION_RERUN_ROUNDS
  MaxRetries,   \* of an HTTP request
  Interval      \* the minimum interval between requests, in ticks

ASSUME SharedAssumption ==
  /\ IsFiniteSet(Segments) /\ Segments \subseteq Nat \ {0} /\ Long \subseteq Segments
  /\ Rounds \in Nat /\ MaxRetries \in Nat /\ Interval \in Nat \ {0}
  /\ NoCall \notin Calls /\ NoThread \notin Threads

VARIABLES
  kind,         \* "ct2" or "http"
  waiting,      \* calls not yet begun
  outcome,      \* Calls -> "open", "done", "failed"
  call,         \* Threads -> the call it works for
  pc,           \* Threads -> where it is
  left,         \* Threads -> segments of this round still to be asked for
  flagged,      \* Threads -> segments without a usable translation so far
  turn,         \* Threads -> the round the document is in
  active,       \* limit_notes._active: the open collector and the keys it has seen
  tries,        \* Threads -> attempts made at the request
  rerun,        \* CT2Translator._rerun: Threads -> the round requests are decoded for
  noted,        \* Calls -> the split notes in its collector
  lock, engine, parts, loads,  \* _load_lock, _engine, _sp, how often they were loaded
  ago,          \* ticks since _last_call_ts, at most Interval
  pause,        \* Threads -> ticks it still sleeps in the throttle
  own           \* Threads -> ticks since its own last request, at most Interval

document == <<waiting, outcome, call, left, flagged, turn, noted, tries>>
locals   == <<active, rerun>>
loading  == <<lock, engine, parts, loads>>
clocks   == <<ago, pause, own>>
vars == <<kind, document, pc, locals, loading, clocks>>

Closed == [notes |-> NoCall, seen |-> {}]
First(S) == CHOOSE s \in S : \A r \in S : s <= r

Init ==
  /\ kind \in {"ct2", "http"}
  /\ waiting = Calls /\ outcome = [c \in Calls |-> "open"] /\ noted = [c \in Calls |-> 0]
  /\ call = [t \in Threads |-> NoCall] /\ pc = [t \in Threads |-> "idle"]
  /\ left = [t \in Threads |-> {}] /\ flagged = [t \in Threads |-> {}] /\ turn = [t \in Threads |-> 0] /\ tries = [t \in Threads |-> 0]
  /\ active = [t \in Threads |-> Closed] /\ rerun = [t \in Threads |-> 0]
  /\ lock = NoThread /\ engine = FALSE /\ parts = FALSE /\ loads = 0
  /\ ago = Interval /\ pause = [t \in Threads |-> 0] /\ own = [t \in Threads |-> Interval]

Goto(t, place) == pc' = [pc EXCEPT ![t] = place]

-----------------------------------------------------------------------------
(* A document: process_single_file under collecting(), the re-run after it. *)

Begin(t) ==
  /\ pc[t] = "idle" /\ waiting # {}
  /\ \E c \in waiting :
       /\ waiting' = waiting \ {c} /\ call' = [call EXCEPT ![t] = c]
       /\ active' = [active EXCEPT ![t] = [notes |-> c, seen |-> {}]]
  /\ left' = [left EXCEPT ![t] = Segments] /\ flagged' = [flagged EXCEPT ![t] = {}]
  /\ turn' = [turn EXCEPT ![t] = 0] /\ Goto(t, "next")
  /\ UNCHANGED <<kind, outcome, noted, tries, rerun, loading, clocks>>

\* The thread leaves the document, its collector with it.
Ends(t, how) ==
  /\ outcome' = [outcome EXCEPT ![call[t]] = how]
  /\ call' = [call EXCEPT ![t] = NoCall] /\ active' = [active EXCEPT ![t] = Closed]
  /\ left' = [left EXCEPT ![t] = {}] /\ flagged' = [flagged EXCEPT ![t] = {}]
  /\ turn' = [turn EXCEPT ![t] = 0] /\ tries' = [tries EXCEPT ![t] = 0]
  /\ Goto(t, "idle")

\* What the round becomes when the block of retrying is left, however it is left.
RoundBefore(t) == 0

\* A segment is asked for, in the re-run under retrying(round), which only CT2 has.
AskFor(t) ==
  /\ pc[t] = "next" /\ left[t] # {}
  /\ rerun' = IF kind = "ct2" /\ turn[t] > 0 THEN [rerun EXCEPT ![t] = turn[t]] ELSE rerun
  /\ Goto(t, IF kind = "ct2" THEN "check" ELSE "chunk")
  /\ UNCHANGED <<kind, document, active, loading, clocks>>

\* All asked for: what is flagged once more, while there are rounds, or the end.
Rerun(t) ==
  /\ pc[t] = "next" /\ left[t] = {}
  /\ IF flagged[t] # {} /\ turn[t] < Rounds
     THEN /\ turn' = [turn EXCEPT ![t] = @ + 1] /\ left' = [left EXCEPT ![t] = flagged[t]]
          /\ UNCHANGED <<waiting, outcome, call, flagged, noted, tries, active, pc>>
     ELSE Ends(t, "done") /\ UNCHANGED <<waiting, noted>>
  /\ UNCHANGED <<kind, rerun, loading, clocks>>

-----------------------------------------------------------------------------
(* The load: _ensure_loaded and _load_engine. *)

Check(t) ==
  /\ pc[t] = "check" /\ Goto(t, IF engine THEN "chunk" ELSE "lock")
  /\ UNCHANGED <<kind, document, locals, loading, clocks>>

Lock(t) ==
  /\ pc[t] = "lock" /\ lock = NoThread
  /\ lock' = t /\ Goto(t, "recheck")
  /\ UNCHANGED <<kind, document, locals, engine, parts, loads, clocks>>

\* Fault: no second look under the lock.
NotThere == TRUE

StillMissing == ~engine

Recheck(t) ==
  /\ pc[t] = "recheck"
  /\ IF StillMissing THEN Goto(t, "load") /\ UNCHANGED lock ELSE lock' = NoThread /\ Goto(t, "chunk")
  /\ UNCHANGED <<kind, document, locals, engine, parts, loads, clocks>>

Load(t) ==
  /\ pc[t] = "load" /\ loads' = loads + 1 /\ parts' = TRUE /\ Goto(t, "publish")
  /\ UNCHANGED <<kind, document, locals, lock, engine, clocks>>

\* Published last: a thread that sees the engine sees what it needs.
Publish(t) ==
  /\ pc[t] = "publish" /\ engine' = TRUE /\ lock' = NoThread /\ Goto(t, "chunk")
  /\ UNCHANGED <<kind, document, locals, parts, loads, clocks>>

\* Fault: the lock is not released by an exception.
Held(t) == lock

Released(t) == NoThread

\* No model there, or one the device cannot run: the document fails.
LoadFails(t) ==
  /\ pc[t] = "load" /\ lock' = Released(t) /\ Ends(t, "failed")
  /\ rerun' = [rerun EXCEPT ![t] = RoundBefore(t)]
  /\ UNCHANGED <<kind, waiting, noted, engine, parts, loads, clocks>>

-----------------------------------------------------------------------------
(* The request: chunk_for_translation and its note, the throttle, the reply. *)

\* Fault: the notes go to whichever collector is open.
AnyCollector(t) == active[CHOOSE u \in Threads : active[u].notes # NoCall].notes

Collector(t) == active[t].notes

\* A note joins the one of its limit and effect, and adds to its count.
Note(t, s) ==
  /\ noted' = [noted EXCEPT ![Collector(t)] = @ + 1]
  /\ active' = [active EXCEPT ![t].seen = @ \cup {s}]

\* A text longer than a chunk is noted, once for the collector.
Chunk(t) ==
  /\ pc[t] = "chunk"
  /\ LET s == First(left[t])
     IN  IF s \in Long \ active[t].seen THEN Note(t, s) ELSE UNCHANGED <<noted, active>>
  /\ Goto(t, IF kind = "ct2" THEN "generate" ELSE "throttle")
  /\ UNCHANGED <<kind, waiting, outcome, call, left, flagged, turn, tries, rerun, loading, clocks>>

\* How long the throttle sleeps is computed before it sleeps.
Throttle(t) ==
  /\ pc[t] = "throttle"
  /\ pause' = [pause EXCEPT ![t] = Interval - ago] /\ Goto(t, "sleep")
  /\ UNCHANGED <<kind, document, locals, loading, ago, own>>

\* Fault: the time of the request is not written down.
NotStamped == ago

Stamped == 0

\* The time is read and stored in one step: what may come between is far below a tick.
Send(t) ==
  /\ pc[t] = "sleep" /\ pause[t] = 0
  /\ ago' = Stamped /\ own' = [own EXCEPT ![t] = 0] /\ Goto(t, "reply")
  /\ UNCHANGED <<kind, document, locals, loading, pause>>

Tick ==
  /\ ago < Interval \/ \E t \in Threads : own[t] < Interval \/ pause[t] > 0
  /\ ago' = IF ago < Interval THEN ago + 1 ELSE ago
  /\ own' = [t \in Threads |-> IF own[t] < Interval THEN own[t] + 1 ELSE own[t]]
  /\ pause' = [t \in Threads |-> IF pause[t] > 0 THEN pause[t] - 1 ELSE 0]
  /\ UNCHANGED <<kind, document, pc, locals, loading>>

Generate(t) ==
  /\ pc[t] = "generate" /\ Goto(t, "reply")
  /\ UNCHANGED <<kind, document, locals, loading, clocks>>

\* No answer, or one worth another try: the request is sent again, through the throttle
\* (the back-off before it is left out).
Retry(t) ==
  /\ pc[t] = "reply" /\ kind = "http" /\ tries[t] < MaxRetries
  /\ tries' = [tries EXCEPT ![t] = @ + 1] /\ Goto(t, "throttle")
  /\ UNCHANGED <<kind, waiting, outcome, call, left, flagged, turn, noted, locals, loading, clocks>>

\* The segment of the request is settled for this round.
Settled(t) ==
  /\ pc[t] = "reply" /\ left' = [left EXCEPT ![t] = @ \ {First(@)}]
  /\ tries' = [tries EXCEPT ![t] = 0]
  /\ rerun' = [rerun EXCEPT ![t] = RoundBefore(t)] /\ Goto(t, "next")
  /\ UNCHANGED <<kind, waiting, outcome, call, turn, noted, active, loading, clocks>>

Accept(t) == Settled(t) /\ flagged' = [flagged EXCEPT ![t] = @ \ {First(left[t])}]

\* Degenerate, cut or copied from the source: flagged for the re-run.
Reject(t) == Settled(t) /\ flagged' = [flagged EXCEPT ![t] = @ \cup {First(left[t])}]

\* No answer at all, or one that is none: the document fails.
Breaks(t) ==
  /\ pc[t] = "reply" /\ Ends(t, "failed")
  /\ rerun' = [rerun EXCEPT ![t] = RoundBefore(t)]
  /\ UNCHANGED <<kind, waiting, noted, loading, clocks>>

-----------------------------------------------------------------------------
Step(t) ==
  \/ Begin(t) \/ AskFor(t) \/ Rerun(t)
  \/ Check(t) \/ Lock(t) \/ Recheck(t) \/ Load(t) \/ Publish(t) \/ LoadFails(t)
  \/ Chunk(t) \/ Throttle(t) \/ Send(t) \/ Generate(t)
  \/ Retry(t) \/ Accept(t) \/ Reject(t) \/ Breaks(t)

Next == Tick \/ \E t \in Threads : Step(t)

Spec     == Init /\ [][Next]_vars
FairSpec == Spec /\ WF_vars(Tick) /\ \A t \in Threads : WF_vars(Step(t))

-----------------------------------------------------------------------------
(* Properties. *)

\* The variables keep their types, and the clocks their range.
TypeOK ==
  /\ kind \in {"ct2", "http"} /\ waiting \subseteq Calls
  /\ outcome \in [Calls -> {"open", "done", "failed"}] /\ noted \in [Calls -> Nat]
  /\ call \in [Threads -> Calls \cup {NoCall}]
  /\ pc \in [Threads -> {"idle", "next", "check", "lock", "recheck", "load", "publish",
                         "chunk", "throttle", "sleep", "generate", "reply"}]
  /\ left \in [Threads -> SUBSET Segments] /\ flagged \in [Threads -> SUBSET Segments]
  /\ tries \in [Threads -> 0 .. MaxRetries]
  /\ turn \in [Threads -> 0 .. Rounds] /\ rerun \in [Threads -> 0 .. Rounds]
  /\ active \in [Threads -> [notes : Calls \cup {NoCall}, seen : SUBSET Segments]]
  /\ lock \in Threads \cup {NoThread} /\ engine \in BOOLEAN /\ parts \in BOOLEAN /\ loads \in Nat
  /\ ago \in 0 .. Interval /\ pause \in [Threads -> 0 .. Interval] /\ own \in [Threads -> 0 .. Interval]

\* However many first requests arrive together, the model is loaded once, by one
\* thread at a time, and whoever generates finds engine and tokenizer both there.
LoadedOnce ==
  /\ loads <= 1
  /\ \A t \in Threads : pc[t] \in {"chunk", "generate"} /\ kind = "ct2" => engine /\ parts
  /\ \A t \in Threads : pc[t] \in {"recheck", "load", "publish"} => lock = t

\* A limit note reaches the record of the document it was made for, once per segment
\* that was split, however often the re-run sends it and whoever else translates.
NotesOwn ==
  \A c \in Calls : /\ outcome[c] = "done" => noted[c] = Cardinality(Long)
                   /\ noted[c] <= Cardinality(Long)
                   /\ c \in waiting => noted[c] = 0

\* A request is decoded for the round of its own document: none as a re-run because of
\* what this thread or another did before.
RoundIsOwn ==
  \A t \in Threads :
    rerun[t] = IF kind = "ct2" /\ pc[t] \notin {"idle", "next"} THEN turn[t] ELSE 0

\* What is kept with a thread serves the document the thread works for, and no other.
ThreadsKeepTheirOwn == NotesOwn /\ RoundIsOwn

\* No thread sends two requests closer than the interval, whatever the others write
\* into the time they share.
OwnInterval == [][\A t \in Threads : Send(t) => own[t] = Interval]_vars

\* Every translation ends: a load that fails keeps nobody waiting for the lock.
CallsEnd == <>(\A c \in Calls : outcome[c] # "open")
=============================================================================
