------------------------- MODULE SharedBackendProofs -------------------------
(***************************************************************************)
(* Theorems about the translation backends.                                *)
(* Of SharedBackend, for any number of threads, documents, rounds and      *)
(* retries: the load that happens once, the interval of the throttle, and  *)
(* what is kept with a thread.  Each has an invariant of its own, over the *)
(* few variables it needs; none needs another.                             *)
(* Of GuardedRequest, for any texts, piece sizes and re-requests: whose    *)
(* words a result has.  Along the whole request the count of slips says    *)
(* what can be wrong with its lines: with none they are the texts' own,    *)
(* with one their number is wrong or one of them is empty (Sound).         *)
(***************************************************************************)
EXTENDS SharedBackend, GuardedRequest, FiniteSetTheorems, SequenceTheorems, TLAPS

\* A set of numbers that is not empty has a least one.
LEMMA LeastExists ==
  ASSUME NEW S, S \subseteq Nat, S # {}
  PROVE  \E m \in S : \A y \in S : m <= y
<1> DEFINE Less == {p \in Nat \X Nat : p[1] < p[2]}
<1>1. IsWellFoundedOn(Less, Nat)
  BY NatLessThanWellFounded DEF OpToRel
<1>2. PICK m \in S : \A y \in S : ~(<<y, m>> \in Less)
  <2> HIDE DEF Less
  <2> QED
    BY <1>1, WFMin
<1>3. \A y \in S : m \in Nat /\ y \in Nat /\ ~(y < m)
  BY <1>2
<1>4. QED
  BY <1>3

Places == {"idle", "next", "check", "lock", "recheck", "load", "publish", "chunk",
           "throttle", "sleep", "generate", "reply"}

-----------------------------------------------------------------------------
(***************************************************************************)
(* The load.  Who is inside holds the lock; the model was loaded once if   *)
(* the engine is there or is about to be published, and never otherwise.   *)
(***************************************************************************)
Inside == {"recheck", "load", "publish"}

LoadInv ==
  /\ pc \in [Threads -> Places] /\ engine \in BOOLEAN /\ parts \in BOOLEAN
  /\ \A t \in Threads : pc[t] \in Inside <=> lock = t
  /\ loads \in {0, 1}
  /\ loads = 1 <=> engine \/ \E t \in Threads : pc[t] = "publish"
  /\ loads = 1 => parts
  /\ \A t \in Threads : pc[t] = "load" => ~engine
  /\ \A t \in Threads : pc[t] \in {"chunk", "generate"} /\ kind = "ct2" => engine

LEMMA LoadInit == Init => LoadInv
<1> SUFFICES ASSUME Init PROVE LoadInv
  OBVIOUS
<1>1. /\ pc = [t \in Threads |-> "idle"] /\ lock = NoThread
      /\ engine = FALSE /\ parts = FALSE /\ loads = 0
  BY DEF Init
<1>2. \A t \in Threads : pc[t] = "idle" /\ lock # t
  BY <1>1, SharedAssumption
<1>3. ~engine /\ engine \in BOOLEAN /\ parts \in BOOLEAN
  BY <1>1
<1>4. pc \in [Threads -> Places] /\ loads \in {0, 1} /\ loads # 1
  BY <1>1 DEF Places
<1>5. QED BY <1>2, <1>3, <1>4 DEF LoadInv, Inside

LEMMA LoadStep == ASSUME LoadInv, [Next]_vars PROVE LoadInv'
<1> USE SharedAssumption DEF Places, LoadInv, Inside
<1>1. CASE UNCHANGED vars \/ Tick
  BY <1>1 DEF vars, Tick, loading
<1>2. ASSUME NEW t \in Threads, NEW p \in Places, p \notin Inside, pc[t] \notin Inside,
             p \in {"chunk", "generate"} /\ kind = "ct2" => engine,
             Goto(t, p), UNCHANGED <<kind, loading>>
      PROVE  LoadInv'
  BY <1>2 DEF Goto, loading
<1>3. ASSUME NEW t \in Threads, Step(t) PROVE LoadInv'
  <2>1. CASE Lock(t)
    BY <2>1 DEF Lock, Goto
  <2>2. CASE Recheck(t)
    BY <2>2 DEF Recheck, StillMissing, Goto
  <2>3. CASE Load(t)
    BY <2>3 DEF Load, Goto
  <2>4. CASE Publish(t)
    BY <2>4 DEF Publish, Goto
  <2>5. CASE LoadFails(t)
    BY <2>5 DEF LoadFails, Ends, Released, Goto
  <2>6. CASE Begin(t) \/ AskFor(t) \/ Check(t)
    BY <1>2, <2>6 DEF Begin, AskFor, Check
  <2>7. CASE Rerun(t)
    BY <2>7 DEF Rerun, Ends, loading, Goto
  <2>8. CASE Chunk(t)
    BY <1>2, <2>8 DEF Chunk
  <2>9. CASE Throttle(t) \/ Send(t) \/ Generate(t) \/ Retry(t)
    BY <1>2, <2>9 DEF Throttle, Send, Generate, Retry
  <2>10. CASE Accept(t) \/ Reject(t) \/ Breaks(t)
    BY <1>2, <2>10 DEF Accept, Reject, Settled, Breaks, Ends
  <2>11. QED BY <1>3, <2>1, <2>2, <2>3, <2>4, <2>5, <2>6, <2>7, <2>8, <2>9, <2>10 DEF Step
<1>4. QED BY <1>1, <1>3 DEF Next

(* However many first requests arrive together, the model is loaded once,  *)
(* and who generates with it finds the engine and what belongs to it:      *)
(* _ensure_loaded looks again under the lock, and publishes last.          *)
THEOREM LoadedOnceHolds == Spec => []LoadedOnce
<1>1. LoadInv /\ [Next]_vars => LoadInv'
  BY LoadStep
<1>2. LoadInv => LoadedOnce
  BY DEF LoadInv, LoadedOnce, Inside
<1>3. QED BY LoadInit, <1>1, <1>2, PTL DEF Spec

-----------------------------------------------------------------------------
(***************************************************************************)
(* The throttle.                                                           *)
(***************************************************************************)
ClockTypes == /\ pc \in [Threads -> Places] /\ ago \in Nat
              /\ pause \in [Threads -> Nat] /\ own \in [Threads -> Nat]

(* The shared time is never older than a thread's own, and one that sleeps *)
(* sleeps for what is missing of its interval at least.                    *)
ClockInv ==
  /\ ClockTypes
  /\ ago <= Interval
  /\ \A t \in Threads : ago <= own[t] /\ own[t] <= Interval
  /\ \A t \in Threads : pc[t] = "sleep" => own[t] + pause[t] >= Interval

LEMMA ClockInit == Init => ClockInv
BY SharedAssumption DEF Places, Init, ClockInv, ClockTypes

LEMMA ClockStep == ASSUME ClockInv, [Next]_vars PROVE ClockInv'
<1> USE SharedAssumption DEF Places, ClockInv, ClockTypes
<1>1. CASE UNCHANGED vars
  BY <1>1 DEF vars, clocks
<1>2. CASE Tick
  BY <1>2 DEF Tick
<1>3. ASSUME NEW t \in Threads, NEW p \in Places, p # "sleep", Goto(t, p), UNCHANGED clocks
      PROVE  ClockInv'
  BY <1>3 DEF Goto, clocks
<1>4. ASSUME NEW t \in Threads, Step(t) PROVE ClockInv'
  <2>1. CASE Throttle(t)
    BY <2>1 DEF Throttle, Goto
  <2>2. CASE Send(t)
    BY <2>2 DEF Send, Stamped, Goto
  <2>3. CASE Begin(t) \/ AskFor(t) \/ Check(t) \/ Lock(t) \/ Recheck(t) \/ Load(t) \/ Publish(t)
    BY <1>3, <2>3 DEF Begin, AskFor, Check, Lock, Recheck, Load, Publish
  <2>4. CASE Rerun(t)
    BY <1>3, <2>4 DEF Rerun, Ends, clocks
  <2>5. CASE LoadFails(t) \/ Breaks(t)
    BY <1>3, <2>5 DEF LoadFails, Breaks, Ends
  <2>6. CASE Chunk(t) \/ Generate(t) \/ Retry(t) \/ Accept(t) \/ Reject(t)
    BY <1>3, <2>6 DEF Chunk, Generate, Retry, Accept, Reject, Settled
  <2>7. QED BY <1>4, <2>1, <2>2, <2>3, <2>4, <2>5, <2>6 DEF Step
<1>5. QED BY <1>1, <1>2, <1>4 DEF Next

(* No thread sends two requests closer than the interval: what others      *)
(* write into the shared time only makes it later.                         *)
THEOREM OwnIntervalKept == Spec => OwnInterval
<1>1. ClockInv /\ [Next]_vars => ClockInv'
  BY ClockStep
<1>2. ASSUME ClockInv PROVE \A t \in Threads : Send(t) => own[t] = Interval
  BY <1>2, SharedAssumption DEF ClockInv, ClockTypes, Send
<1>3. QED BY ClockInit, <1>1, <1>2, PTL DEF Spec, OwnInterval

-----------------------------------------------------------------------------
(***************************************************************************)
(* The round a thread's requests are decoded for: that of its document     *)
(* inside a request of CTranslate2, none otherwise.                        *)
(***************************************************************************)
RoundTypes == /\ pc \in [Threads -> Places]
              /\ turn \in [Threads -> Nat] /\ rerun \in [Threads -> Nat]

LEMMA RoundInit == Init => RoundTypes /\ RoundIsOwn
BY DEF Places, Init, RoundTypes, RoundIsOwn

LEMMA RoundStep ==
  ASSUME RoundTypes, RoundIsOwn, [Next]_vars
  PROVE  RoundTypes' /\ RoundIsOwn'
<1> USE DEF Places, RoundTypes, RoundIsOwn
<1>1. CASE UNCHANGED vars \/ Tick
  BY <1>1 DEF vars, Tick, document, locals
<1>2. ASSUME NEW t \in Threads, Step(t) PROVE RoundTypes' /\ RoundIsOwn'
  <2>1. CASE Begin(t)
    BY <2>1 DEF Begin, Goto
  <2>2. CASE AskFor(t)
    BY <2>2 DEF AskFor, Goto, document
  <2>3. CASE Rerun(t)
    BY <2>3 DEF Rerun, Ends, Goto
  <2>4. CASE Check(t) \/ Lock(t) \/ Recheck(t) \/ Load(t) \/ Publish(t)
    BY <2>4 DEF Check, Lock, Recheck, Load, Publish, Goto, document, locals
  <2>5. CASE LoadFails(t) \/ Breaks(t)
    BY <2>5 DEF LoadFails, Breaks, Ends, RoundBefore, Goto
  <2>6. CASE Chunk(t) \/ Retry(t)
    BY <2>6 DEF Chunk, Retry, Goto, locals
  <2>7. CASE Throttle(t) \/ Send(t) \/ Generate(t)
    BY <2>7 DEF Throttle, Send, Generate, Goto, document, locals
  <2>8. CASE Accept(t) \/ Reject(t)
    BY <2>8 DEF Accept, Reject, Settled, RoundBefore, Goto
  <2>9. QED BY <1>2, <2>1, <2>2, <2>3, <2>4, <2>5, <2>6, <2>7, <2>8 DEF Step
<1>3. QED BY <1>1, <1>2 DEF Next

-----------------------------------------------------------------------------
(***************************************************************************)
(* The limit notes.  Texts are seen in the order of the segments, a re-run *)
(* sees only what was seen before, so a document that is done has noted    *)
(* each of its long texts once.                                            *)
(***************************************************************************)
(* Where the segment asked for has been through chunk_for_translation.     *)
Sent == {"throttle", "sleep", "generate", "reply"}

NotesTypes ==
  /\ pc \in [Threads -> Places] /\ waiting \subseteq Calls
  /\ outcome \in [Calls -> {"open", "done", "failed"}] /\ noted \in [Calls -> Nat]
  /\ call \in [Threads -> Calls \cup {NoCall}]
  /\ active \in [Threads -> [notes : Calls \cup {NoCall}, seen : SUBSET Long]]
  /\ DOMAIN left = Threads /\ left = [t \in Threads |-> left[t]]

(* Who works for which document, and with which collector.                 *)
Assigned ==
  /\ \A t \in Threads : /\ active[t].notes = call[t]
                        /\ pc[t] = "idle" <=> call[t] = NoCall
                        /\ call[t] # NoCall => call[t] \notin waiting /\ outcome[call[t]] = "open"
  /\ \A t, u \in Threads : call[t] = call[u] => t = u \/ call[t] = NoCall
  /\ \A c \in waiting : outcome[c] = "open"

(* A long text that was not seen yet is still to be asked for; the one     *)
(* being asked for has been seen.                                          *)
Unseen ==
  \A t \in Threads : /\ pc[t] # "idle" => Long \ active[t].seen \subseteq left[t]
                     /\ pc[t] \in Sent => First(left[t]) \notin Long \ active[t].seen

(* The notes of a document count the long texts its thread has seen.       *)
Counted ==
  /\ \A c \in waiting : noted[c] = 0
  /\ \A t \in Threads : call[t] # NoCall => noted[call[t]] = Cardinality(active[t].seen)
  /\ \A c \in Calls : /\ noted[c] <= Cardinality(Long)
                      /\ outcome[c] = "done" => noted[c] = Cardinality(Long)

NotesInv == NotesTypes /\ Assigned /\ Unseen /\ Counted

LEMMA LongFinite ==
  /\ IsFiniteSet(Long) /\ Cardinality(Long) \in Nat
  /\ \A S \in SUBSET Long : IsFiniteSet(S) /\ Cardinality(S) \in Nat /\ Cardinality(S) <= Cardinality(Long)
<1>1. IsFiniteSet(Long)
  BY SharedAssumption, FS_Subset
<1>2. QED BY <1>1, FS_Subset, FS_CardinalityType

LEMMA NotesInit == Init => NotesInv
<1> SUFFICES ASSUME Init PROVE NotesInv
  OBVIOUS
<1>1. NotesTypes
  BY DEF Init, NotesTypes, Places, Closed
<1>2. Assigned /\ Unseen
  BY SharedAssumption DEF Init, Assigned, Unseen, Closed, Sent
<1>3. Counted
  BY LongFinite DEF Init, Counted
<1>4. QED BY <1>1, <1>2, <1>3 DEF NotesInv

(* A thread goes on with its document; left may lose the text asked for.   *)
LEMMA Advances ==
  ASSUME NotesInv, NEW t \in Threads, NEW p \in Places, p # "idle", pc[t] # "idle", Goto(t, p),
         p \in Sent => pc[t] \in Sent,
         UNCHANGED <<waiting, outcome, call, noted, active>>,
         \/ left' = left
         \/ p \notin Sent /\ pc[t] \in Sent /\ left' = [left EXCEPT ![t] = @ \ {First(@)}]
  PROVE  NotesInv'
<1> USE DEF NotesInv, Goto
<1>1. NotesTypes'
  BY DEF NotesTypes
<1>2. Assigned'
  BY DEF Assigned, NotesTypes
<1>3. Unseen'
  <2> SUFFICES ASSUME NEW u \in Threads
               PROVE /\ pc'[u] # "idle" => Long \ active'[u].seen \subseteq left'[u]
                     /\ pc'[u] \in Sent => First(left'[u]) \notin Long \ active'[u].seen
    BY DEF Unseen
  <2>1. CASE left' = left
    BY <2>1 DEF Unseen, NotesTypes
  <2>2. CASE left' # left
    <3>1. left'[u] = IF u = t THEN left[t] \ {First(left[t])} ELSE left[u]
      BY <2>2 DEF NotesTypes
    <3>2. CASE u = t
      BY <2>2, <3>1, <3>2 DEF Unseen, NotesTypes
    <3>3. CASE u # t
      BY <3>1, <3>3 DEF Unseen, NotesTypes
    <3>4. QED BY <3>2, <3>3
  <2>3. QED BY <2>1, <2>2
<1>4. Counted'
  BY DEF Counted
<1>5. QED BY <1>1, <1>2, <1>3, <1>4

(* A thread leaves its document; all its notes are made if it is done.     *)
LEMMA Leaves ==
  ASSUME NotesInv, NEW t \in Threads, pc[t] # "idle", NEW how \in {"done", "failed"},
         Ends(t, how), how = "done" => left[t] = {}, UNCHANGED <<waiting, noted>>
  PROVE  NotesInv'
<1> USE DEF NotesInv, Goto, Ends, Closed
<1>1. NotesTypes'
  BY DEF NotesTypes, Places
<1>2. call[t] \in Calls /\ call[t] # NoCall
  BY DEF NotesTypes, Assigned
<1>3. Assigned'
  BY <1>2, SharedAssumption DEF Assigned, NotesTypes
<1>4. Unseen'
  BY DEF Unseen, NotesTypes, Sent
<1>5. Counted'
  <2>1. ASSUME how = "done" PROVE noted[call[t]] = Cardinality(Long)
    <3>1. active[t].seen = Long
      BY <2>1 DEF Unseen, NotesTypes
    <3>2. QED BY <3>1, <1>2 DEF Counted
  <2>2. QED BY <1>2, <2>1 DEF Counted, NotesTypes, Assigned
<1>6. QED BY <1>1, <1>3, <1>4, <1>5

LEMMA ChunkNotes == ASSUME NotesInv, NEW t \in Threads, Chunk(t) PROVE NotesInv'
<1> USE DEF NotesInv, Chunk, Goto
<1> DEFINE s == First(left[t])
<1>1. call[t] \in Calls /\ call[t] # NoCall
  BY DEF NotesTypes, Assigned
<1>2. CASE s \in Long \ active[t].seen
  <2>1. /\ noted' = [noted EXCEPT ![call[t]] = @ + 1]
        /\ active' = [active EXCEPT ![t].seen = @ \cup {s}]
    BY <1>2 DEF Note, Collector, Assigned
  <2>2. active[t].seen \cup {s} \in SUBSET Long
    BY <1>2 DEF NotesTypes
  <2>3. active'[t].seen = active[t].seen \cup {s} /\ active'[t].notes = active[t].notes
    BY <2>1 DEF NotesTypes
  <2>4. \A u \in Threads \ {t} : active'[u] = active[u]
    BY <2>1 DEF NotesTypes
  <2>5. NotesTypes'
    <3>1. active' \in [Threads -> [notes : Calls \cup {NoCall}, seen : SUBSET Long]]
      BY <2>1, <2>2 DEF NotesTypes
    <3>2. noted' \in [Calls -> Nat]
      BY <1>1, <2>1 DEF NotesTypes
    <3>3. QED BY <3>1, <3>2 DEF NotesTypes, Places
  <2>6. Assigned'
    BY <2>3, <2>4 DEF Assigned, NotesTypes
  <2>7. Unseen'
    BY <2>3, <2>4 DEF Unseen, NotesTypes, Sent
  <2>8. Cardinality(active[t].seen \cup {s}) = Cardinality(active[t].seen) + 1
    <3>1. IsFiniteSet(active[t].seen)
      BY LongFinite DEF NotesTypes
    <3>2. QED BY <1>2, <3>1, FS_AddElement
  <2>9. Cardinality(active[t].seen \cup {s}) <= Cardinality(Long)
    BY <2>2, LongFinite
  <2>10. Counted'
    <3>1. noted'[call[t]] = Cardinality(active'[t].seen) /\ noted'[call[t]] <= Cardinality(Long)
      BY <1>1, <2>1, <2>3, <2>8, <2>9 DEF Counted, NotesTypes
    <3>2. \A c \in Calls \ {call[t]} : noted'[c] = noted[c]
      BY <1>1, <2>1 DEF NotesTypes
    <3>3. \A u \in Threads \ {t} : call[u] # NoCall => call[u] \in Calls \ {call[t]}
      BY DEF Assigned, NotesTypes
    <3>4. call[t] \notin waiting /\ outcome[call[t]] = "open"
      BY <1>1 DEF Assigned
    <3>5. \A u \in Threads : call[u] # NoCall => noted'[call[u]] = Cardinality(active'[u].seen)
      BY <3>1, <3>2, <3>3, <2>4 DEF Counted
    <3>6. \A c \in Calls : /\ noted'[c] <= Cardinality(Long)
                           /\ outcome[c] = "done" => noted'[c] = Cardinality(Long)
      BY <3>1, <3>2, <3>4 DEF Counted
    <3>7. \A c \in waiting : noted'[c] = 0
      BY <3>2, <3>4 DEF Counted, NotesTypes
    <3>8. QED BY <3>5, <3>6, <3>7 DEF Counted
  <2>11. QED BY <2>5, <2>6, <2>7, <2>10
<1>3. CASE s \notin Long \ active[t].seen
  <2>1. UNCHANGED <<noted, active>>
    BY <1>3
  <2>2. NotesTypes'
    BY <2>1 DEF NotesTypes, Places
  <2>3. Assigned' /\ Counted'
    BY <2>1 DEF Assigned, Counted, NotesTypes
  <2>4. Unseen'
    BY <1>3, <2>1 DEF Unseen, NotesTypes, Sent
  <2>5. QED BY <2>2, <2>3, <2>4
<1>4. QED BY <1>2, <1>3

LEMMA BeginNotes == ASSUME NotesInv, NEW t \in Threads, Begin(t) PROVE NotesInv'
<1> USE DEF NotesInv, Goto
<1>1. PICK c \in waiting : /\ waiting' = waiting \ {c} /\ call' = [call EXCEPT ![t] = c]
                           /\ active' = [active EXCEPT ![t] = [notes |-> c, seen |-> {}]]
  BY DEF Begin
<1>2. /\ c \in Calls /\ c # NoCall /\ pc[t] = "idle" /\ pc' = [pc EXCEPT ![t] = "next"]
      /\ left' = [left EXCEPT ![t] = Segments] /\ UNCHANGED <<outcome, noted>>
  BY <1>1, SharedAssumption DEF Begin, NotesTypes
<1>3. NotesTypes'
  BY <1>1, <1>2 DEF NotesTypes, Places
<1>4. Assigned'
  BY <1>1, <1>2 DEF Assigned, NotesTypes
<1>5. Unseen'
  BY <1>1, <1>2, SharedAssumption DEF Unseen, NotesTypes, Sent
<1>6. Counted'
  <2>1. Cardinality({}) = 0
    BY FS_EmptySet
  <2>2. noted[c] = 0
    BY <1>1 DEF Counted
  <2>3. active'[t].seen = {} /\ \A u \in Threads \ {t} : active'[u] = active[u] /\ call'[u] = call[u]
    BY <1>1 DEF NotesTypes
  <2>4. call'[t] = c
    BY <1>1 DEF NotesTypes
  <2>5. \A u \in Threads : call'[u] # NoCall => noted[call'[u]] = Cardinality(active'[u].seen)
    BY <2>1, <2>2, <2>3, <2>4 DEF Counted
  <2>6. QED BY <1>1, <1>2, <2>5 DEF Counted
<1>7. QED BY <1>3, <1>4, <1>5, <1>6

(* A re-run begins once nothing is left: every long text has been seen.    *)
LEMMA RerunNotes == ASSUME NotesInv, NEW t \in Threads, Rerun(t) PROVE NotesInv'
<1>1. CASE Ends(t, "done") /\ UNCHANGED <<waiting, noted>>
  BY <1>1, Leaves DEF Rerun
<1>2. CASE ~(Ends(t, "done") /\ UNCHANGED <<waiting, noted>>)
  <2>1. /\ pc[t] = "next" /\ left[t] = {} /\ left' = [left EXCEPT ![t] = flagged[t]]
        /\ UNCHANGED <<waiting, outcome, call, noted, active, pc>>
    BY <1>2 DEF Rerun
  <2> USE DEF NotesInv
  <2>2. NotesTypes'
    BY <2>1 DEF NotesTypes
  <2>3. Assigned' /\ Counted'
    BY <2>1 DEF Assigned, Counted
  <2>4. Unseen'
    <3>1. left[t] = {} /\ pc[t] \notin Sent /\ \A u \in Threads \ {t} : left'[u] = left[u]
      BY <2>1 DEF NotesTypes, Sent
    <3>2. Long \ active[t].seen = {}
      BY <2>1, <3>1 DEF Unseen
    <3>3. QED BY <2>1, <3>1, <3>2 DEF Unseen
  <2>5. QED BY <2>2, <2>3, <2>4
<1>3. QED BY <1>1, <1>2

LEMMA NotesStep == ASSUME NotesInv, [Next]_vars PROVE NotesInv'
<1>1. CASE UNCHANGED vars \/ Tick
  <2>1. UNCHANGED <<pc, waiting, outcome, noted, call, active, left>>
    BY <1>1 DEF vars, Tick, document, locals
  <2>2. QED BY <2>1 DEF NotesInv, NotesTypes, Assigned, Unseen, Counted
<1>2. ASSUME NEW t \in Threads, Step(t) PROVE NotesInv'
  <2> USE DEF Places, Sent
  <2>1. CASE AskFor(t) \/ Check(t) \/ Lock(t) \/ Recheck(t) \/ Load(t) \/ Publish(t)
    <3>1. \E p \in Places \ Sent : p # "idle" /\ Goto(t, p)
      BY <2>1 DEF AskFor, Check, Lock, Recheck, Load, Publish
    <3>2. pc[t] # "idle" /\ UNCHANGED <<waiting, outcome, call, noted, active, left>>
      BY <2>1 DEF AskFor, Check, Lock, Recheck, Load, Publish, document, locals
    <3>3. QED BY <3>1, <3>2, Advances
  <2>2. CASE LoadFails(t) \/ Breaks(t)
    BY <2>2, Leaves DEF LoadFails, Breaks
  <2>3. CASE Throttle(t) \/ Send(t) \/ Generate(t) \/ Retry(t)
    <3>1. \E p \in Sent : Goto(t, p)
      BY <2>3 DEF Throttle, Send, Generate, Retry
    <3>2. pc[t] \in Sent /\ UNCHANGED <<waiting, outcome, call, noted, active, left>>
      BY <2>3 DEF Throttle, Send, Generate, Retry, document, locals
    <3>3. QED BY <3>1, <3>2, Advances
  <2>4. CASE Accept(t) \/ Reject(t)
    <3>1. /\ pc[t] = "reply" /\ Goto(t, "next") /\ left' = [left EXCEPT ![t] = @ \ {First(@)}]
          /\ UNCHANGED <<waiting, outcome, call, noted, active>>
      BY <2>4 DEF Accept, Reject, Settled
    <3>2. QED BY <3>1, Advances
  <2>5. QED BY <1>2, <2>1, <2>2, <2>3, <2>4, BeginNotes, RerunNotes, ChunkNotes DEF Step
<1>3. QED BY <1>1, <1>2 DEF Next

(* What is kept with a thread, its collector and its re-run round, serves  *)
(* the document it works for: limit_notes and CT2Translator.retrying.      *)
THEOREM ThreadsKeepTheirOwnHolds == Spec => []ThreadsKeepTheirOwn
<1>1. NotesInv /\ [Next]_vars => NotesInv'
  BY NotesStep
<1>2. (RoundTypes /\ RoundIsOwn) /\ [Next]_vars => (RoundTypes /\ RoundIsOwn)'
  BY RoundStep
<1>3. NotesInv => NotesOwn
  BY DEF NotesInv, Counted, NotesOwn
<1>4. NotesOwn /\ RoundIsOwn => ThreadsKeepTheirOwn
  BY DEF ThreadsKeepTheirOwn
<1>5. QED BY NotesInit, RoundInit, <1>1, <1>2, <1>3, <1>4, PTL DEF Spec

-----------------------------------------------------------------------------
(***************************************************************************)
(* The types.                                                              *)
(***************************************************************************)
(* The next segment is one of those left.                                  *)
LEMMA FirstIsLeft ==
  ASSUME NEW S, S \subseteq Nat, S # {}
  PROVE  First(S) \in S
<1>1. \E m \in S : \A y \in S : m <= y
  BY LeastExists
<1>2. QED BY <1>1 DEF First

Working == Places \ {"idle", "next"}

(* Whoever works at a segment has one left, and it is the document's.      *)
SegmentInv ==
  /\ pc \in [Threads -> Places]
  /\ left \in [Threads -> SUBSET Segments] /\ flagged \in [Threads -> SUBSET Segments]
  /\ \A t \in Threads : pc[t] \in Working => left[t] # {}

LEMMA SegmentInit == Init => SegmentInv
BY DEF Init, SegmentInv, Places, Working

LEMMA SegmentStep == ASSUME SegmentInv, [Next]_vars PROVE SegmentInv'
<1> USE DEF SegmentInv, Places, Working
<1>1. CASE UNCHANGED vars \/ Tick
  BY <1>1 DEF vars, Tick, document
<1>2. ASSUME NEW t \in Threads, Step(t) PROVE SegmentInv'
  <2>1. CASE Begin(t)
    BY <2>1 DEF Begin, Goto
  <2>2. CASE AskFor(t)
    BY <2>2 DEF AskFor, Goto, document
  <2>3. CASE Rerun(t)
    BY <2>3 DEF Rerun, Ends, Goto
  <2>4. CASE Check(t) \/ Lock(t) \/ Recheck(t) \/ Load(t) \/ Publish(t)
    BY <2>4 DEF Check, Lock, Recheck, Load, Publish, Goto, document
  <2>5. CASE LoadFails(t) \/ Breaks(t)
    BY <2>5 DEF LoadFails, Breaks, Ends, Goto
  <2>6. CASE Chunk(t) \/ Retry(t)
    BY <2>6 DEF Chunk, Retry, Goto
  <2>7. CASE Throttle(t) \/ Send(t) \/ Generate(t)
    BY <2>7 DEF Throttle, Send, Generate, Goto, document
  <2>8. CASE Accept(t) \/ Reject(t)
    <3>1. /\ pc[t] = "reply" /\ pc' = [pc EXCEPT ![t] = "next"]
          /\ left' = [left EXCEPT ![t] = @ \ {First(@)}]
      BY <2>8 DEF Accept, Reject, Settled, Goto
    <3>2. First(left[t]) \in Segments
      <4>1. left[t] # {} /\ left[t] \subseteq Segments
        BY <3>1
      <4>2. left[t] \subseteq Nat
        BY <4>1, SharedAssumption
      <4>3. QED BY <4>1, <4>2, FirstIsLeft
    <3>3. flagged' \in [Threads -> SUBSET Segments]
      BY <2>8, <3>2 DEF Accept, Reject
    <3>4. QED BY <3>1, <3>3
  <2>9. QED BY <1>2, <2>1, <2>2, <2>3, <2>4, <2>5, <2>6, <2>7, <2>8 DEF Step
<1>3. QED BY <1>1, <1>2 DEF Next

(* The remaining variables stay within their bounds.                       *)
BoundInv ==
  /\ kind \in {"ct2", "http"} /\ lock \in Threads \cup {NoThread}
  /\ tries \in [Threads -> 0 .. MaxRetries] /\ turn \in [Threads -> 0 .. Rounds]
  /\ rerun \in [Threads -> 0 .. Rounds] /\ pause \in [Threads -> 0 .. Interval]
  /\ ago \in 0 .. Interval /\ own \in [Threads -> 0 .. Interval]

LEMMA BoundInit == Init => BoundInv
<1> SUFFICES ASSUME Init PROVE BoundInv
  OBVIOUS
<1>1. kind \in {"ct2", "http"} /\ lock \in Threads \cup {NoThread}
  BY DEF Init
<1>2. 0 \in 0 .. MaxRetries /\ 0 \in 0 .. Rounds /\ 0 \in 0 .. Interval /\ Interval \in 0 .. Interval
  BY SharedAssumption
<1>3. /\ tries = [t \in Threads |-> 0] /\ turn = [t \in Threads |-> 0] /\ rerun = [t \in Threads |-> 0]
      /\ pause = [t \in Threads |-> 0] /\ ago = Interval /\ own = [t \in Threads |-> Interval]
  BY DEF Init
<1>4. QED BY <1>1, <1>2, <1>3 DEF BoundInv

LEMMA BoundStep == ASSUME BoundInv, [Next]_vars PROVE BoundInv'
<1> USE SharedAssumption DEF BoundInv
<1>1. CASE UNCHANGED vars
  BY <1>1 DEF vars, document, locals, loading, clocks
<1>2. CASE Tick
  BY <1>2 DEF Tick, document, locals, loading
<1>3. ASSUME NEW t \in Threads, Step(t) PROVE BoundInv'
  <2>1. CASE Begin(t)
    BY <2>1 DEF Begin, loading, clocks
  <2>2. CASE AskFor(t)
    BY <2>2 DEF AskFor, document, loading, clocks
  <2>3. CASE Rerun(t)
    BY <2>3 DEF Rerun, Ends, loading, clocks
  <2>4. CASE Check(t) \/ Generate(t)
    BY <2>4 DEF Check, Generate, document, locals, loading, clocks
  <2>5. CASE Lock(t) \/ Recheck(t) \/ Load(t) \/ Publish(t)
    BY <2>5 DEF Lock, Recheck, Load, Publish, document, locals, clocks
  <2>6. CASE LoadFails(t) \/ Breaks(t)
    BY <2>6 DEF LoadFails, Breaks, Ends, Released, RoundBefore, loading, clocks
  <2>7. CASE Chunk(t)
    BY <2>7 DEF Chunk, loading, clocks
  <2>8. CASE Throttle(t)
    BY <2>8 DEF Throttle, document, locals, loading
  <2>9. CASE Send(t)
    BY <2>9 DEF Send, Stamped, document, locals, loading
  <2>10. CASE Retry(t)
    BY <2>10 DEF Retry, locals, loading, clocks
  <2>11. CASE Accept(t) \/ Reject(t)
    BY <2>11 DEF Accept, Reject, Settled, RoundBefore, loading, clocks
  <2>12. QED BY <1>3, <2>1, <2>2, <2>3, <2>4, <2>5, <2>6, <2>7, <2>8, <2>9, <2>10, <2>11 DEF Step
<1>4. QED BY <1>1, <1>2, <1>3 DEF Next

(* The variables keep their types and the clocks, retries and rounds their *)
(* bounds, whichever loads and requests fail.                              *)
THEOREM SharedTypes == Spec => []TypeOK
<1>1. SegmentInv /\ [Next]_vars => SegmentInv'
  BY SegmentStep
<1>2. BoundInv /\ [Next]_vars => BoundInv'
  BY BoundStep
<1>3. NotesInv /\ [Next]_vars => NotesInv'
  BY NotesStep
<1>4. LoadInv /\ [Next]_vars => LoadInv'
  BY LoadStep
<1>5. ASSUME SegmentInv, BoundInv, NotesInv, LoadInv PROVE TypeOK
  <2>1. active \in [Threads -> [notes : Calls \cup {NoCall}, seen : SUBSET Segments]]
    BY <1>5, SharedAssumption DEF NotesInv, NotesTypes
  <2>2. /\ waiting \subseteq Calls /\ noted \in [Calls -> Nat]
        /\ outcome \in [Calls -> {"open", "done", "failed"}]
        /\ call \in [Threads -> Calls \cup {NoCall}]
    BY <1>5 DEF NotesInv, NotesTypes
  <2>3. engine \in BOOLEAN /\ parts \in BOOLEAN /\ loads \in Nat
    BY <1>5 DEF LoadInv
  <2>4. QED BY <1>5, <2>1, <2>2, <2>3 DEF TypeOK, SegmentInv, BoundInv, Places
<1>6. QED
  BY SegmentInit, BoundInit, NotesInit, LoadInit, <1>1, <1>2, <1>3, <1>4, <1>5, PTL DEF Spec

-----------------------------------------------------------------------------
(* Line breaks counted. *)

Count(x) == Cardinality(LineEnds(x))

\* The first of a set of places.
LEMMA MinIs ==
  ASSUME NEW S, S \subseteq Nat, S # {}
  PROVE  Min(S) \in S /\ \A y \in S : Min(S) <= y
<1>1. \E m \in S : \A y \in S : m <= y
  BY LeastExists
<1>2. QED
  BY <1>1 DEF Min

\* And the last of those in a text.
LEMMA MaxIs ==
  ASSUME NEW n \in Nat, NEW S, S \subseteq 1 .. n, S # {}
  PROVE  Max(S) \in S /\ \A y \in S : y <= Max(S)
<1> DEFINE R == {m \in Nat : \A y \in S : y <= m}
<1>1. n \in R /\ R \subseteq Nat
  OBVIOUS
<1>2. PICK m \in R : \A y \in R : m <= y
  BY <1>1, LeastExists
<1>3. m \in S
  <2> SUFFICES ASSUME m \notin S PROVE FALSE
    OBVIOUS
  <2>1. PICK e \in S : TRUE
    OBVIOUS
  <2>2. m \in Nat /\ e \in Nat /\ e >= 1 /\ e <= m
    BY <2>1
  <2>3. \A y \in S : y \in Nat /\ y <= m /\ y # m
    BY <1>2
  <2>4. m - 1 \in R
    BY <2>2, <2>3
  <2>5. QED
    BY <1>2, <2>2, <2>4
<1>4. \E k \in S : \A y \in S : y <= k
  BY <1>2, <1>3
<1>5. QED
  BY <1>4 DEF Max

\* The line breaks before a place, one place at a time.
LEMMA LeadIs ==
  ASSUME NEW x \in Seq(Tokens)
  PROVE  /\ LineEnds(x) \subseteq 1 .. Len(x) /\ IsFiniteSet(LineEnds(x)) /\ Count(x) \in Nat
         /\ \A k \in 1 .. Len(x) + 1 : Lead(x, k) \in Nat
         /\ Lead(x, 1) = 0
         /\ \A k \in 1 .. Len(x) : Lead(x, k + 1) = Lead(x, k) + (IF x[k] = Break THEN 1 ELSE 0)
         /\ Count(x) = Lead(x, Len(x) + 1)
<1>1. LineEnds(x) \subseteq 1 .. Len(x) /\ Len(x) \in Nat /\ DOMAIN x = 1 .. Len(x)
  BY DEF LineEnds
<1>2. IsFiniteSet(LineEnds(x))
  <2>1. IsFiniteSet(1 .. Len(x))
    BY <1>1, FS_Interval
  <2>2. QED
    BY <1>1, <2>1, FS_Subset
<1> DEFINE Before(k) == {j \in LineEnds(x) : j < k}
<1>3. \A k : IsFiniteSet(Before(k)) /\ Cardinality(Before(k)) \in Nat /\ Lead(x, k) = Cardinality(Before(k))
  BY <1>2, FS_Subset, FS_CardinalityType DEF Lead
<1>4. Lead(x, 1) = 0
  <2>1. Before(1) = {}
    BY <1>1
  <2>2. QED
    BY <1>3, <2>1, FS_EmptySet
<1>5. \A k \in 1 .. Len(x) : Lead(x, k + 1) = Lead(x, k) + (IF x[k] = Break THEN 1 ELSE 0)
  <2> TAKE k \in 1 .. Len(x)
  <2>1. CASE x[k] = Break
    <3>1. Before(k + 1) = Before(k) \cup {k} /\ k \notin Before(k)
      BY <1>1, <2>1 DEF LineEnds
    <3>2. Cardinality(Before(k + 1)) = Cardinality(Before(k)) + 1
      <4> HIDE DEF Before
      <4> QED
        BY <1>3, <3>1, FS_AddElement
    <3>3. QED
      BY <1>3, <2>1, <3>2
  <2>2. CASE x[k] # Break
    <3>1. Before(k + 1) = Before(k)
      BY <1>1, <2>2 DEF LineEnds
    <3> HIDE DEF Before
    <3>2. QED
      BY <1>3, <2>2, <3>1
  <2>3. QED
    BY <2>1, <2>2
<1>6. Before(Len(x) + 1) = LineEnds(x)
  BY <1>1
<1>7. QED
  BY <1>1, <1>2, <1>3, <1>4, <1>5, <1>6 DEF Count

\* The n places from p on in one text have line breaks where those from q on in the
\* other have them.
Alike(x, p, y, q, n) ==
  /\ p \in Nat /\ q \in Nat /\ n \in Nat /\ p >= 1 /\ q >= 1
  /\ p + n <= Len(x) + 1 /\ q + n <= Len(y) + 1
  /\ \A j \in 0 .. n - 1 : (x[p + j] = Break) <=> (y[q + j] = Break)

\* There they count alike.
LEMMA LeadAlong ==
  ASSUME NEW x \in Seq(Tokens), NEW y \in Seq(Tokens), NEW p, NEW q, NEW n, Alike(x, p, y, q, n)
  PROVE  Lead(x, p + n) + Lead(y, q) = Lead(y, q + n) + Lead(x, p)
<1> DEFINE Even(j) == Lead(x, p + j) + Lead(y, q) = Lead(y, q + j) + Lead(x, p)
           Off == {j \in 0 .. n : ~Even(j)}
<1>1. p \in Nat /\ q \in Nat /\ n \in Nat /\ p >= 1 /\ q >= 1 /\ p + n <= Len(x) + 1 /\ q + n <= Len(y) + 1
  BY DEF Alike
<1>2. /\ Len(x) \in Nat /\ Len(y) \in Nat
      /\ \A k \in 1 .. Len(x) + 1 : Lead(x, k) \in Nat
      /\ \A k \in 1 .. Len(y) + 1 : Lead(y, k) \in Nat
  BY LeadIs
<1>3. Even(0)
  <2>1. p + 0 = p /\ q + 0 = q /\ p \in 1 .. Len(x) + 1 /\ q \in 1 .. Len(y) + 1
    BY <1>1, <1>2
  <2>2. Lead(x, p) \in Nat /\ Lead(y, q) \in Nat
    BY <1>2, <2>1
  <2>3. Lead(x, p) + Lead(y, q) = Lead(y, q) + Lead(x, p)
    BY <2>2
  <2>4. QED
    BY <2>1, <2>3
<1>4. ASSUME NEW m \in 1 .. n, Even(m - 1)
      PROVE  Even(m)
  <2> DEFINE b == p + (m - 1)
             c == q + (m - 1)
  <2>1. /\ b \in 1 .. Len(x) /\ c \in 1 .. Len(y) /\ b + 1 = p + m /\ c + 1 = q + m
        /\ p \in 1 .. Len(x) + 1 /\ q \in 1 .. Len(y) + 1
        /\ b \in 1 .. Len(x) + 1 /\ c \in 1 .. Len(y) + 1
        /\ p + m \in 1 .. Len(x) + 1 /\ q + m \in 1 .. Len(y) + 1 /\ m - 1 \in 0 .. n - 1
    BY <1>1, <1>2
  <2>2. Lead(x, b) + Lead(y, q) = Lead(y, c) + Lead(x, p) /\ ((x[b] = Break) <=> (y[c] = Break))
    BY <1>4, <2>1 DEF Alike
  <2> HIDE DEF b, c
  <2>3. /\ Lead(x, b + 1) = Lead(x, b) + (IF x[b] = Break THEN 1 ELSE 0)
        /\ Lead(y, c + 1) = Lead(y, c) + (IF y[c] = Break THEN 1 ELSE 0)
    BY <2>1, LeadIs
  <2>4. /\ Lead(x, b) \in Nat /\ Lead(x, p) \in Nat /\ Lead(y, c) \in Nat /\ Lead(y, q) \in Nat
    BY <1>2, <2>1
  <2>5. \A d \in Nat : (Lead(x, b) + d) + Lead(y, q) = (Lead(y, c) + d) + Lead(x, p)
    <3> DEFINE u == Lead(x, b)
               v == Lead(y, q)
               w == Lead(y, c)
               z == Lead(x, p)
    <3>1. u \in Nat /\ v \in Nat /\ w \in Nat /\ z \in Nat /\ u + v = w + z
      BY <2>2, <2>4
    <3>2. \A d \in Nat : (u + d) + v = (w + d) + z
      <4> HIDE DEF u, v, w, z
      <4> QED
        BY <3>1
    <3>3. QED
      BY <3>2
  <2>6. Lead(x, b + 1) + Lead(y, q) = Lead(y, c + 1) + Lead(x, p)
    <3> DEFINE d == IF x[b] = Break THEN 1 ELSE 0
    <3>1. d \in Nat /\ d = (IF y[c] = Break THEN 1 ELSE 0)
      BY <2>2
    <3>2. Lead(x, b + 1) = Lead(x, b) + d /\ Lead(y, c + 1) = Lead(y, c) + d
      BY <2>3, <3>1
    <3> HIDE DEF d
    <3>3. QED
      BY <2>5, <3>1, <3>2
  <2>7. QED
    BY <2>1, <2>6
<1> HIDE DEF Even
<1>5. Off = {}
  <2> SUFFICES ASSUME Off # {} PROVE FALSE
    OBVIOUS
  <2>1. Off \subseteq Nat
    BY <1>1
  <2>2. PICK m \in Off : \A j \in Off : m <= j
    <3> HIDE DEF Off
    <3> QED
      BY <2>1, LeastExists
  <2>3. m \in 0 .. n /\ ~Even(m)
    BY <2>2
  <2>4. m # 0
    BY <1>3, <2>3
  <2>5. m \in 1 .. n /\ m - 1 \in 0 .. n /\ m - 1 < m
    BY <1>1, <2>3, <2>4
  <2>6. Even(m - 1)
    BY <1>1, <2>2, <2>3, <2>5
  <2>7. QED
    BY <1>4, <2>3, <2>5, <2>6
<1>6. Even(n)
  BY <1>1, <1>5
<1>7. QED
  BY <1>6 DEF Even

\* Texts that begin alike count alike there.
LEMMA LeadFromStart ==
  ASSUME NEW x \in Seq(Tokens), NEW y \in Seq(Tokens), NEW k \in Nat, k >= 1,
         k <= Len(x) + 1, k <= Len(y) + 1,
         \A j \in 1 .. k - 1 : (x[j] = Break) <=> (y[j] = Break)
  PROVE  Lead(x, k) = Lead(y, k)
<1> DEFINE n == k - 1
<1>1. n \in Nat /\ 1 + n = k /\ \A j \in 0 .. n - 1 : 1 + j \in 1 .. k - 1
  OBVIOUS
<1>2. Alike(x, 1, y, 1, n)
  BY <1>1 DEF Alike
<1> HIDE DEF n
<1>3. Lead(x, 1 + n) + Lead(y, 1) = Lead(y, 1 + n) + Lead(x, 1)
  BY <1>2, LeadAlong
<1>4. k \in 1 .. Len(x) + 1 /\ k \in 1 .. Len(y) + 1
  BY LeadIs
<1>5. Lead(x, 1) = 0 /\ Lead(y, 1) = 0 /\ Lead(x, k) \in Nat /\ Lead(y, k) \in Nat
  BY <1>4, LeadIs
<1>6. QED
  BY <1>1, <1>3, <1>5

\* The further on, the more line breaks before.
LEMMA LeadGrows ==
  ASSUME NEW x \in Seq(Tokens), NEW j \in 1 .. Len(x) + 1, NEW k \in 1 .. Len(x) + 1, j <= k
  PROVE  Lead(x, j) <= Lead(x, k)
<1> DEFINE Before(i) == {b \in LineEnds(x) : b < i}
<1>1. Before(j) \subseteq Before(k)
  BY LeadIs
<1>2. IsFiniteSet(Before(k))
  BY LeadIs, FS_Subset
<1>3. Cardinality(Before(j)) <= Cardinality(Before(k))
  BY <1>1, <1>2, FS_Subset
<1>4. QED
  BY <1>3 DEF Lead

-----------------------------------------------------------------------------
(* What the parts of the invariant say of a text. *)

\* Its words stand in the lines of their texts, or if there is drift those of the first a
\* places may stand a line further up or down.
Lined(S, x, a, drift) ==
  \A k \in DOMAIN x : Owned(x[k]) =>
    /\ x[k].of \in S /\ Place(S, x[k].of) - (1 + Lead(x, k)) \in -1 .. 1
    /\ Place(S, x[k].of) = 1 + Lead(x, k) \/ (drift /\ k <= a)

\* It has a line with nothing in it.
Gap(x) == \E k \in 0 .. Len(x) : (k = 0 \/ x[k] = Break) /\ (k = Len(x) \/ x[k + 1] = Break)

\* After s slips: it is lined, or that it is not can be seen.
Sound(S, x, s, a, drift) == /\ s = 0 => Lined(S, x, a, drift) /\ Count(x) + 1 = Cardinality(S)
                            /\ s = 1 => Count(x) + 1 # Cardinality(S) \/ Gap(x)

\* What holds with less drift holds with more.
LEMMA SoundMore ==
  ASSUME NEW S, NEW x \in Seq(Tokens), NEW s, NEW a \in Nat, NEW b \in Nat, a <= b, NEW d, NEW e, d => e,
         Sound(S, x, s, a, d)
  PROVE  Sound(S, x, s, b, e)
<1>1. ASSUME NEW k \in DOMAIN x, k <= a PROVE k <= b
  BY <1>1
<1>2. Lined(S, x, a, d) => Lined(S, x, b, e)
  BY <1>1 DEF Lined
<1>3. QED
  BY <1>2 DEF Sound

\* The line breaks of two texts are the same, and no word of the second is of
\* another text than the word of the first.
Shape(x, y) ==
  /\ Len(x) = Len(y)
  /\ \A k \in 1 .. Len(x) : /\ (x[k] = Break) <=> (y[k] = Break)
                            /\ Owned(y[k]) => Owned(x[k]) /\ y[k].of = x[k].of

LEMMA Shaped ==
  ASSUME NEW x \in Seq(Tokens), NEW y \in Seq(Tokens), Shape(x, y)
  PROVE  /\ Count(x) = Count(y)
         /\ \A k \in 1 .. Len(x) + 1 : Lead(x, k) = Lead(y, k)
         /\ Gap(x) <=> Gap(y)
         /\ \A S, s, a, d : Sound(S, x, s, a, d) => Sound(S, y, s, a, d)
<1>1. Len(x) \in Nat /\ Len(y) = Len(x) /\ DOMAIN x = 1 .. Len(x) /\ DOMAIN y = 1 .. Len(x)
  BY DEF Shape
<1>2. \A k \in 1 .. Len(x) + 1 : Lead(x, k) = Lead(y, k)
  <2> TAKE k \in 1 .. Len(x) + 1
  <2>1. k \in Nat /\ k >= 1 /\ k <= Len(x) + 1 /\ k <= Len(y) + 1
    BY <1>1
  <2>2. \A j \in 1 .. k - 1 : (x[j] = Break) <=> (y[j] = Break)
    BY <1>1 DEF Shape
  <2>3. QED
    BY <2>1, <2>2, LeadFromStart
<1>3. Count(x) = Count(y)
  BY <1>1, <1>2, LeadIs
<1>4. Gap(x) <=> Gap(y)
  <2>1. \A k \in 1 .. Len(x) : (x[k] = Break) <=> (y[k] = Break)
    BY DEF Shape
  <2>2. \A k \in 0 .. Len(x) : (k = 0 \/ k \in 1 .. Len(x)) /\ (k = Len(x) \/ k + 1 \in 1 .. Len(x))
    <3>1. Len(x) \in Nat
      BY <1>1
    <3>2. \A n \in Nat : \A k \in 0 .. n : (k = 0 \/ k \in 1 .. n) /\ (k = n \/ k + 1 \in 1 .. n)
      OBVIOUS
    <3>3. QED
      BY <3>1, <3>2
  <2>3. QED
    BY <1>1, <2>1, <2>2 DEF Gap
<1>5. \A S, a, d : Lined(S, x, a, d) => Lined(S, y, a, d)
  BY <1>1, <1>2 DEF Shape, Lined
<1>6. QED
  BY <1>2, <1>3, <1>4, <1>5 DEF Sound

\* One text is the other without the place p, as far as line breaks go.
Without(x, y, p) ==
  /\ p \in 1 .. Len(x) /\ Len(y) = Len(x) - 1
  /\ \A k \in 1 .. p - 1 : (y[k] = Break) <=> (x[k] = Break)
  /\ \A k \in p .. Len(y) : (y[k] = Break) <=> (x[k + 1] = Break)

LEMMA WithoutOne ==
  ASSUME NEW x \in Seq(Tokens), NEW y \in Seq(Tokens), NEW p, Without(x, y, p)
  PROVE  /\ \A k \in 1 .. p : Lead(y, k) = Lead(x, k)
         /\ \A k \in p .. Len(y) + 1 : Lead(y, k) = Lead(x, k + 1) - (IF x[p] = Break THEN 1 ELSE 0)
         /\ Count(y) = Count(x) - (IF x[p] = Break THEN 1 ELSE 0)
<1> DEFINE d == IF x[p] = Break THEN 1 ELSE 0
<1>1. Len(x) \in Nat /\ Len(y) = Len(x) - 1 /\ p \in 1 .. Len(x) /\ Len(y) \in Nat
  BY DEF Without
<1>2. /\ Lead(x, 1) = 0 /\ Lead(y, 1) = 0
      /\ \A k \in 1 .. Len(x) + 1 : Lead(x, k) \in Nat
      /\ \A k \in 1 .. Len(y) + 1 : Lead(y, k) \in Nat
      /\ Lead(x, p + 1) = Lead(x, p) + d
      /\ Count(x) = Lead(x, Len(x) + 1) /\ Count(y) = Lead(y, Len(y) + 1)
  BY <1>1, LeadIs
<1> HIDE DEF d
<1>3. \A k \in 1 .. p : Lead(y, k) = Lead(x, k)
  <2> TAKE k \in 1 .. p
  <2>1. k \in Nat /\ k >= 1 /\ k <= Len(x) + 1 /\ k <= Len(y) + 1
    BY <1>1
  <2>2. \A j \in 1 .. k - 1 : (x[j] = Break) <=> (y[j] = Break)
    BY <1>1 DEF Without
  <2>3. QED
    BY <2>1, <2>2, LeadFromStart
<1>4. \A k \in p .. Len(y) + 1 : Lead(y, k) = Lead(x, k + 1) - d
  <2> TAKE k \in p .. Len(y) + 1
  <2> DEFINE n == k - p
             q == p + 1
  <2>1. /\ p \in Nat /\ p >= 1 /\ q >= 1 /\ n \in Nat /\ q \in Nat
        /\ q + n <= Len(x) + 1 /\ p + n <= Len(y) + 1 /\ q + n = k + 1 /\ p + n = k
        /\ k + 1 \in 1 .. Len(x) + 1 /\ k \in 1 .. Len(y) + 1 /\ p \in 1 .. Len(x) + 1
        /\ q \in 1 .. Len(x) + 1 /\ p \in 1 .. p
    BY <1>1
  <2>2. \A j \in 0 .. n - 1 : (x[q + j] = Break) <=> (y[p + j] = Break)
    <3> TAKE j \in 0 .. n - 1
    <3>1. p + j \in p .. Len(y) /\ (p + j) + 1 = q + j
      BY <1>1
    <3>2. QED
      BY <3>1 DEF Without
  <2>3. Alike(x, q, y, p, n)
    BY <2>1, <2>2 DEF Alike
  <2> HIDE DEF n, q
  <2>4. Lead(x, k + 1) + Lead(y, p) = Lead(y, k) + Lead(x, q)
    BY <2>1, <2>3, LeadAlong
  <2>5. /\ Lead(y, p) = Lead(x, p) /\ Lead(x, q) = Lead(x, p) + d /\ d \in Int
        /\ Lead(x, k + 1) \in Int /\ Lead(x, p) \in Int /\ Lead(y, k) \in Int
    BY <1>2, <1>3, <2>1 DEF d, q
  <2>6. QED
    BY <2>4, <2>5
<1>5. Count(y) = Count(x) - d
  <2>1. Len(y) + 1 \in p .. Len(y) + 1 /\ (Len(y) + 1) + 1 = Len(x) + 1
    BY <1>1
  <2>2. QED
    BY <1>2, <1>4, <2>1
<1>6. QED
  BY <1>3, <1>4, <1>5 DEF d

\* Taking a word out changes no line; the breaks of a line that is empty stay together.
LEMMA WordRemoved ==
  ASSUME NEW x \in Seq(Tokens), NEW y \in Seq(Tokens), NEW p, Without(x, y, p), x[p] # Break,
         \A k \in 1 .. p - 1 : y[k] = x[k],
         \A k \in p .. Len(y) : y[k] = x[k + 1]
  PROVE  /\ Count(y) = Count(x)
         /\ \A S, s, d : Sound(S, x, s, Len(x), d) => Sound(S, y, s, Len(y), d)
<1>1. Len(x) \in Nat /\ Len(y) = Len(x) - 1 /\ p \in 1 .. Len(x) /\ Len(y) \in Nat
  BY DEF Without
<1>2. /\ \A k \in 1 .. p : Lead(y, k) = Lead(x, k)
      /\ \A k \in p .. Len(y) + 1 : Lead(y, k) = Lead(x, k + 1) - 0
      /\ Count(y) = Count(x) - 0
  BY WithoutOne
<1>3. /\ \A k \in 1 .. Len(x) + 1 : Lead(x, k) \in Nat
      /\ Count(x) \in Nat
  BY LeadIs
<1>4. Count(y) = Count(x)
  BY <1>2, <1>3
<1>5. ASSUME NEW S, NEW d, Lined(S, x, Len(x), d) PROVE Lined(S, y, Len(y), d)
  <2> SUFFICES ASSUME NEW k \in 1 .. Len(y), Owned(y[k])
               PROVE  /\ y[k].of \in S /\ Place(S, y[k].of) - (1 + Lead(y, k)) \in -1 .. 1
                      /\ Place(S, y[k].of) = 1 + Lead(y, k) \/ d
    BY <1>1 DEF Lined
  <2>1. CASE k \in 1 .. p - 1
    <3>1. y[k] = x[k] /\ k \in 1 .. p /\ k \in DOMAIN x
      BY <1>1, <2>1
    <3>2. QED
      BY <1>2, <1>5, <3>1 DEF Lined
  <2>2. CASE k \in p .. Len(y)
    <3>1. y[k] = x[k + 1] /\ k \in p .. Len(y) + 1 /\ k + 1 \in DOMAIN x /\ k + 1 \in 1 .. Len(x) + 1
      BY <1>1, <2>2
    <3>2. Lead(y, k) = Lead(x, k + 1)
      BY <1>2, <1>3, <3>1
    <3>3. QED
      BY <1>5, <3>1, <3>2 DEF Lined
  <2>3. QED
    BY <1>1, <2>1, <2>2
<1>6. ASSUME Gap(x) PROVE Gap(y)
  <2>1. PICK k \in 0 .. Len(x) : (k = 0 \/ x[k] = Break) /\ (k = Len(x) \/ x[k + 1] = Break)
    BY <1>6 DEF Gap
  <2>2. k # p
    BY <1>1, <2>1
  <2>3. CASE k < p
    <3>1. k + 1 # p /\ k # Len(x)
      BY <1>1, <2>1, <2>3
    <3>2. k + 1 \in 1 .. p - 1 /\ (k = 0 \/ k \in 1 .. p - 1) /\ k \in 0 .. Len(y)
      BY <1>1, <2>3, <3>1
    <3>3. QED
      BY <2>1, <3>1, <3>2 DEF Gap
  <2>4. CASE k > p
    <3>1. k - 1 \in p .. Len(y) /\ (k - 1) + 1 = k /\ k - 1 \in 0 .. Len(y)
      BY <1>1, <2>4
    <3>2. y[k - 1] = Break
      BY <1>1, <2>1, <2>4, <3>1
    <3>3. k = Len(x) \/ (k \in p .. Len(y) /\ y[k] = Break)
      BY <1>1, <2>1, <2>4
    <3>4. k - 1 = Len(y) \/ y[(k - 1) + 1] = Break
      BY <1>1, <3>1, <3>3
    <3>5. QED
      BY <3>1, <3>2, <3>4 DEF Gap
  <2>5. QED
    BY <1>1, <2>2, <2>3, <2>4
<1>7. QED
  BY <1>4, <1>5, <1>6 DEF Sound

\* Putting another stretch into a text changes the number of its line breaks by as many
\* as the two differ by.
Replaced(x, y, a, c, r) ==
  /\ a \in Nat /\ a + Len(c) <= Len(x) /\ Len(y) = Len(x) - Len(c) + Len(r)
  /\ \A k \in 1 .. a : y[k] = x[k]
  /\ \A k \in 1 .. Len(c) : x[a + k] = c[k]
  /\ \A k \in 1 .. Len(r) : y[a + k] = r[k]
  /\ \A k \in 1 .. Len(x) - a - Len(c) : y[a + Len(r) + k] = x[a + Len(c) + k]

LEMMA ReplacedCounts ==
  ASSUME NEW x \in Seq(Tokens), NEW y \in Seq(Tokens), NEW a, NEW c \in Seq(Tokens), NEW r \in Seq(Tokens),
         Replaced(x, y, a, c, r)
  PROVE  Count(y) + Count(c) = Count(x) + Count(r)
<1> DEFINE lx == Len(x)
           ly == Len(y)
           lc == Len(c)
           lr == Len(r)
           n  == lx - a - lc
<1>1. /\ lx \in Nat /\ ly \in Nat /\ lc \in Nat /\ lr \in Nat /\ a \in Nat /\ n \in Nat
      /\ lx = a + lc + n /\ ly = a + lr + n
  BY DEF Replaced
<1>2. /\ Lead(x, 1) = 0 /\ Lead(y, 1) = 0 /\ Lead(c, 1) = 0 /\ Lead(r, 1) = 0
      /\ Count(x) = Lead(x, lx + 1) /\ Count(y) = Lead(y, ly + 1)
      /\ Count(c) = Lead(c, lc + 1) /\ Count(r) = Lead(r, lr + 1)
      /\ Count(x) \in Nat /\ Count(y) \in Nat /\ Count(c) \in Nat /\ Count(r) \in Nat
  BY LeadIs
<1>3. \A k \in 1 .. a : y[k] = x[k]
  BY DEF Replaced
<1>4. \A k \in 1 .. lc : x[a + k] = c[k]
  BY DEF Replaced
<1>5. \A k \in 1 .. lr : y[a + k] = r[k]
  BY DEF Replaced
<1>6. \A k \in 1 .. n : y[a + lr + k] = x[a + lc + k]
  BY DEF Replaced
<1>7. lx = Len(x) /\ ly = Len(y) /\ lc = Len(c) /\ lr = Len(r)
  OBVIOUS
<1> HIDE DEF lx, ly, lc, lr, n
<1>8. Lead(x, a + 1) = Lead(y, a + 1)
  <2>1. a + 1 \in Nat /\ a + 1 >= 1 /\ a + 1 <= lx + 1 /\ a + 1 <= ly + 1 /\ (a + 1) - 1 = a
    BY <1>1
  <2>2. \A j \in 1 .. (a + 1) - 1 : (x[j] = Break) <=> (y[j] = Break)
    BY <1>3, <2>1
  <2>3. QED
    BY <1>7, <2>1, <2>2, LeadFromStart
<1>9. Lead(x, a + 1 + lc) + Lead(c, 1) = Lead(c, 1 + lc) + Lead(x, a + 1)
  <2>1. Alike(x, a + 1, c, 1, lc)
    <3>1. \A j \in 0 .. lc - 1 : 1 + j \in 1 .. lc /\ (a + 1) + j = a + (1 + j)
      BY <1>1
    <3>2. \A j \in 0 .. lc - 1 : (x[(a + 1) + j] = Break) <=> (c[1 + j] = Break)
      BY <1>4, <3>1
    <3>3. a + 1 \in Nat /\ 1 \in Nat /\ a + 1 >= 1 /\ 1 >= 1 /\ (a + 1) + lc <= lx + 1 /\ 1 + lc <= lc + 1
      BY <1>1
    <3>4. QED
      BY <1>1, <1>7, <3>2, <3>3 DEF Alike
  <2>2. QED
    BY <2>1, LeadAlong
<1>10. Lead(y, a + 1 + lr) + Lead(r, 1) = Lead(r, 1 + lr) + Lead(y, a + 1)
  <2>1. Alike(y, a + 1, r, 1, lr)
    <3>1. \A j \in 0 .. lr - 1 : 1 + j \in 1 .. lr /\ (a + 1) + j = a + (1 + j)
      BY <1>1
    <3>2. \A j \in 0 .. lr - 1 : (y[(a + 1) + j] = Break) <=> (r[1 + j] = Break)
      BY <1>5, <3>1
    <3>3. a + 1 \in Nat /\ 1 \in Nat /\ a + 1 >= 1 /\ 1 >= 1 /\ (a + 1) + lr <= ly + 1 /\ 1 + lr <= lr + 1
      BY <1>1
    <3>4. QED
      BY <1>1, <1>7, <3>2, <3>3 DEF Alike
  <2>2. QED
    BY <2>1, LeadAlong
<1>11. Lead(y, a + 1 + lr + n) + Lead(x, a + 1 + lc) = Lead(x, a + 1 + lc + n) + Lead(y, a + 1 + lr)
  <2>1. Alike(y, a + 1 + lr, x, a + 1 + lc, n)
    <3>1. \A j \in 0 .. n - 1 : /\ 1 + j \in 1 .. n /\ (a + 1 + lr) + j = a + lr + (1 + j)
                                /\ (a + 1 + lc) + j = a + lc + (1 + j)
      BY <1>1
    <3>2. \A j \in 0 .. n - 1 : (y[(a + 1 + lr) + j] = Break) <=> (x[(a + 1 + lc) + j] = Break)
      BY <1>6, <3>1
    <3>3. /\ a + 1 + lr \in Nat /\ a + 1 + lc \in Nat /\ a + 1 + lr >= 1 /\ a + 1 + lc >= 1
          /\ (a + 1 + lr) + n <= ly + 1 /\ (a + 1 + lc) + n <= lx + 1
      BY <1>1
    <3>4. QED
      BY <1>1, <1>7, <3>2, <3>3 DEF Alike
  <2>2. QED
    BY <2>1, LeadAlong
<1>12. Count(y) + Count(c) = Count(x) + Count(r)
  <2>1. a + 1 + lr + n = ly + 1 /\ a + 1 + lc + n = lx + 1 /\ 1 + lc = lc + 1 /\ 1 + lr = lr + 1
    BY <1>1
  <2>2. /\ a + 1 \in 1 .. lx + 1 /\ a + 1 \in 1 .. ly + 1
        /\ a + 1 + lc \in 1 .. lx + 1 /\ a + 1 + lr \in 1 .. ly + 1
    BY <1>1
  <2>3. /\ Lead(x, a + 1) \in Nat /\ Lead(x, a + 1 + lc) \in Nat /\ Lead(y, a + 1 + lr) \in Nat
        /\ Lead(y, a + 1) \in Nat
    BY <1>7, <2>2, LeadIs
  <2>4. /\ Lead(x, a + 1 + lc) = Count(c) + Lead(x, a + 1)
        /\ Lead(y, a + 1 + lr) = Count(r) + Lead(x, a + 1)
        /\ Count(y) + Lead(x, a + 1 + lc) = Count(x) + Lead(y, a + 1 + lr)
    BY <1>2, <1>8, <1>9, <1>10, <1>11, <2>1, <2>3
  <2> DEFINE u == Lead(x, a + 1 + lc)
             v == Lead(y, a + 1 + lr)
             l == Lead(x, a + 1)
             cx == Count(x)
             cy == Count(y)
             cc == Count(c)
             cr == Count(r)
  <2>5. /\ u \in Nat /\ v \in Nat /\ l \in Nat /\ cx \in Nat /\ cy \in Nat /\ cc \in Nat /\ cr \in Nat
        /\ u = cc + l /\ v = cr + l /\ cy + u = cx + v
    BY <1>2, <2>3, <2>4
  <2>6. cy + cc = cx + cr
    <3> HIDE DEF u, v, l, cx, cy, cc, cr
    <3> QED
      BY <2>5
  <2>7. QED
    BY <2>6
<1>13. QED
  BY <1>12

\* Two line breaks on end in the stretch are two on end in the text.
LEMMA ReplacedGaps ==
  ASSUME NEW x \in Seq(Tokens), NEW y \in Seq(Tokens), NEW a, NEW c \in Seq(Tokens), NEW r \in Seq(Tokens),
         Replaced(x, y, a, c, r), NEW k \in 1 .. Len(r) - 1, r[k] = Break, r[k + 1] = Break
  PROVE  Gap(y)
<1> DEFINE l == Len(r)
           m == Len(y)
<1>1. l \in Nat /\ Len(c) \in Nat /\ Len(x) \in Nat /\ a \in Nat /\ a + Len(c) <= Len(x) /\ m = Len(x) - Len(c) + l
  BY DEF Replaced
<1>2. \A j \in 1 .. l : y[a + j] = r[j]
  BY DEF Replaced
<1> HIDE DEF l
<1>3. k \in 1 .. l /\ k + 1 \in 1 .. l /\ a + k \in 0 .. m /\ (a + k) + 1 = a + (k + 1)
  BY <1>1 DEF l
<1>4. y[a + k] = Break /\ y[(a + k) + 1] = Break
  BY <1>2, <1>3
<1>5. QED
  BY <1>3, <1>4 DEF Gap

\* The lines of one text are those of the other, but a word may stand a line further up or
\* down.
Drifting(x, y) ==
  /\ Len(y) = Len(x) /\ Count(y) = Count(x)
  /\ \A k \in 1 .. Len(y) : Owned(y[k]) =>
       \E j \in 1 .. Len(x) : Owned(x[j]) /\ x[j].of = y[k].of /\ Lead(x, j) - Lead(y, k) \in -1 .. 1

\* If the two stretches have as many words and line breaks each, the rest keeps its lines.
LEMMA ReplacedLeads ==
  ASSUME NEW x \in Seq(Tokens), NEW y \in Seq(Tokens), NEW a, NEW c \in Seq(Tokens), NEW r \in Seq(Tokens),
         Replaced(x, y, a, c, r), Drifting(c, r)
  PROVE  /\ \A k \in 1 .. a : Lead(y, k) = Lead(x, k)
         /\ \A k \in 1 .. Len(c) : /\ Lead(x, a + k) = Lead(x, a + 1) + Lead(c, k)
                                  /\ Lead(y, a + k) = Lead(x, a + 1) + Lead(r, k)
         /\ \A k \in a + Len(c) + 1 .. Len(x) : Lead(y, k) = Lead(x, k)
<1> DEFINE n == Len(x)
           m == Len(c)
<1>1. /\ n \in Nat /\ m \in Nat /\ a \in Nat /\ a + m <= n /\ Len(y) = n /\ Len(r) = m /\ Len(x) = n /\ Len(c) = m
  BY DEF Replaced, Drifting
<1>2. /\ \A k \in 1 .. a : y[k] = x[k]
      /\ \A k \in 1 .. m : x[a + k] = c[k] /\ y[a + k] = r[k]
      /\ \A k \in 1 .. n - a - m : y[a + m + k] = x[a + m + k]
  BY <1>1 DEF Replaced
<1>3. /\ \A k \in 1 .. n + 1 : Lead(x, k) \in Nat /\ Lead(y, k) \in Nat
      /\ \A k \in 1 .. m + 1 : Lead(c, k) \in Nat /\ Lead(r, k) \in Nat
      /\ Lead(c, 1) = 0 /\ Lead(r, 1) = 0 /\ Lead(c, m + 1) = Lead(r, m + 1)
  BY <1>1, LeadIs DEF Drifting
<1> HIDE DEF n, m
<1>4. ASSUME NEW k \in 1 .. a + 1 PROVE Lead(y, k) = Lead(x, k)
  <2>1. k \in Nat /\ k >= 1 /\ k <= n + 1 /\ \A j \in 1 .. k - 1 : j \in 1 .. a
    BY <1>1
  <2>2. \A j \in 1 .. k - 1 : (y[j] = Break) <=> (x[j] = Break)
    BY <1>2, <2>1
  <2>3. QED
    BY <1>1, <2>1, <2>2, LeadFromStart
<1>5. ASSUME NEW z \in Seq(Tokens), NEW d \in Seq(Tokens), Len(z) = n, Len(d) = m,
             \A k \in 1 .. m : z[a + k] = d[k], NEW k \in 1 .. m + 1
      PROVE  Lead(z, a + k) + Lead(d, 1) = Lead(d, k) + Lead(z, a + 1)
  <2> DEFINE b == k - 1
  <2>1. /\ b \in Nat /\ 1 + b = k /\ (a + 1) + b = a + k /\ a + 1 \in Nat /\ a + 1 >= 1 /\ 1 \in Nat /\ 1 >= 1
        /\ (a + 1) + b <= n + 1 /\ 1 + b <= m + 1
        /\ \A j \in 0 .. b - 1 : 1 + j \in 1 .. m /\ (a + 1) + j = a + (1 + j)
    BY <1>1
  <2> HIDE DEF b
  <2>2. \A j \in 0 .. b - 1 : (z[(a + 1) + j] = Break) <=> (d[1 + j] = Break)
    BY <1>5, <2>1
  <2>3. Alike(z, a + 1, d, 1, b)
    BY <1>5, <2>1, <2>2 DEF Alike
  <2>4. Lead(z, (a + 1) + b) + Lead(d, 1) = Lead(d, 1 + b) + Lead(z, a + 1)
    BY <2>3, LeadAlong
  <2>5. QED
    BY <2>1, <2>4
<1>6. ASSUME NEW k \in 1 .. m + 1
      PROVE  Lead(x, a + k) = Lead(x, a + 1) + Lead(c, k) /\ Lead(y, a + k) = Lead(x, a + 1) + Lead(r, k)
  <2>1. Lead(x, a + k) + Lead(c, 1) = Lead(c, k) + Lead(x, a + 1)
    BY <1>1, <1>2, <1>5 DEF n, m
  <2>2. Lead(y, a + k) + Lead(r, 1) = Lead(r, k) + Lead(y, a + 1)
    BY <1>1, <1>2, <1>5
  <2>3. a + k \in 1 .. n + 1 /\ a + 1 \in 1 .. n + 1 /\ a + 1 \in 1 .. a + 1
    BY <1>1
  <2>4. Lead(y, a + 1) = Lead(x, a + 1)
    BY <1>4, <2>3
  <2>5. /\ Lead(x, a + k) \in Nat /\ Lead(y, a + k) \in Nat /\ Lead(x, a + 1) \in Nat
        /\ Lead(c, k) \in Nat /\ Lead(r, k) \in Nat
    BY <1>3, <2>3
  <2>6. Lead(x, a + k) = Lead(x, a + 1) + Lead(c, k)
    BY <1>3, <2>1, <2>5
  <2>7. Lead(y, a + k) = Lead(x, a + 1) + Lead(r, k)
    BY <1>3, <2>2, <2>4, <2>5
  <2>8. QED
    BY <2>6, <2>7
<1>7. ASSUME NEW k \in a + m + 1 .. n PROVE Lead(y, k) = Lead(x, k)
  <2> DEFINE p == a + m + 1
             b == k - p
  <2>1. /\ p \in Nat /\ p >= 1 /\ b \in Nat /\ p + b = k /\ p + b <= n + 1 /\ p = a + (m + 1)
        /\ m + 1 \in 1 .. m + 1 /\ k \in 1 .. n + 1 /\ p \in 1 .. n + 1
        /\ \A j \in 0 .. b - 1 : 1 + j \in 1 .. n - a - m /\ p + j = a + m + (1 + j)
    BY <1>1
  <2> HIDE DEF p, b
  <2>2. \A j \in 0 .. b - 1 : (x[p + j] = Break) <=> (y[p + j] = Break)
    BY <1>2, <2>1
  <2>3. Alike(x, p, y, p, b)
    BY <1>1, <2>1, <2>2 DEF Alike, n
  <2>4. Lead(x, p + b) + Lead(y, p) = Lead(y, p + b) + Lead(x, p)
    BY <2>3, LeadAlong
  <2>5. Lead(x, p) = Lead(x, a + 1) + Lead(c, m + 1) /\ Lead(y, p) = Lead(x, a + 1) + Lead(r, m + 1)
    BY <1>6, <2>1
  <2>6. Lead(x, p) = Lead(y, p)
    BY <1>3, <2>5
  <2>7. Lead(x, k) \in Nat /\ Lead(y, k) \in Nat /\ Lead(x, p) \in Nat
    BY <1>3, <2>1
  <2>8. QED
    BY <2>1, <2>4, <2>6, <2>7
<1>8. (1 .. a \subseteq 1 .. a + 1) /\ (1 .. m \subseteq 1 .. m + 1)
  BY <1>1
<1>9. QED
  BY <1>1, <1>4, <1>6, <1>7, <1>8

-----------------------------------------------------------------------------
(* Lines. *)

\* A line is made of words that have the line breaks of the lines above before them.
LEMMA LineIs ==
  ASSUME NEW x \in Seq(Tokens), NEW m \in Nat
  PROVE  /\ Line(x, m) \in Seq(Tokens)
         /\ \A j \in DOMAIN Line(x, m) : \E k \in DOMAIN x :
              Line(x, m)[j] = x[k] /\ x[k] # Break /\ Lead(x, k) = m - 1
         /\ (\E k \in DOMAIN x : x[k] # Break /\ Lead(x, k) = m - 1) => Line(x, m) # <<>>
<1> DEFINE K == {k \in DOMAIN x : x[k] # Break /\ Lead(x, k) = m - 1}
<1>1. DOMAIN x = 1 .. Len(x) /\ Len(x) \in Nat
  OBVIOUS
<1>2. CASE K = {}
  BY <1>2 DEF Line
<1>3. CASE K # {}
  <2>1. K \subseteq Nat /\ K \subseteq 1 .. Len(x)
    BY <1>1
  <2> DEFINE a == Min(K)
             b == Max(K)
  <2>2. /\ a \in K /\ b \in K /\ a <= b
        /\ a \in 1 .. Len(x) /\ b \in 1 .. Len(x) /\ a \in Nat /\ b \in Nat
    <3> HIDE DEF K
    <3>1. a \in K /\ \A y \in K : a <= y
      BY <1>3, <2>1, MinIs
    <3>2. b \in K
      BY <1>1, <1>3, <2>1, MaxIs
    <3>3. QED
      BY <2>1, <3>1, <3>2
  <2>3. Line(x, m) = SubSeq(x, a, b)
    BY <1>3 DEF Line
  <2> HIDE DEF a, b
  <2>4. \A k \in a .. b : k \in K
    <3> SUFFICES ASSUME NEW k \in a .. b PROVE k \in K
      OBVIOUS
    <3>1. k \in 1 .. Len(x) /\ k \in 1 .. Len(x) + 1 /\ a \in 1 .. Len(x) + 1 /\ b \in 1 .. Len(x) + 1
      BY <1>1, <2>2
    <3>2. Lead(x, a) = m - 1 /\ Lead(x, b) = m - 1 /\ x[b] # Break
      BY <2>2
    <3>3. Lead(x, a) <= Lead(x, k) /\ Lead(x, k) <= Lead(x, b) /\ Lead(x, k) \in Nat
      BY <2>2, <3>1, LeadGrows, LeadIs
    <3>4. Lead(x, k) = m - 1
      BY <3>2, <3>3
    <3>5. x[k] # Break
      <4> SUFFICES ASSUME x[k] = Break PROVE FALSE
        OBVIOUS
      <4>1. k # b
        BY <3>2
      <4>2. k + 1 \in 1 .. Len(x) + 1 /\ k + 1 <= b
        BY <1>1, <2>2, <3>1, <4>1
      <4>3. Lead(x, k + 1) = Lead(x, k) + 1
        BY <3>1, LeadIs
      <4>4. Lead(x, k + 1) <= Lead(x, b)
        BY <3>1, <4>2, LeadGrows
      <4>5. QED
        BY <3>2, <3>4, <4>3, <4>4
    <3>6. QED
      BY <1>1, <3>1, <3>4, <3>5
  <2>5. /\ SubSeq(x, a, b) \in Seq(Tokens) /\ Len(SubSeq(x, a, b)) = b - a + 1
        /\ DOMAIN SubSeq(x, a, b) = 1 .. b - a + 1
        /\ \A j \in 1 .. b - a + 1 : SubSeq(x, a, b)[j] = x[a + j - 1]
    BY <1>1, <2>2, SubSeqProperties
  <2>6. \A j \in 1 .. b - a + 1 : a + j - 1 \in a .. b
    BY <2>2
  <2>7. SubSeq(x, a, b) # <<>>
    BY <2>2, <2>5
  <2>8. \A j \in DOMAIN Line(x, m) : \E k \in DOMAIN x :
              Line(x, m)[j] = x[k] /\ x[k] # Break /\ Lead(x, k) = m - 1
    BY <2>3, <2>4, <2>5, <2>6
  <2>9. QED
    BY <2>3, <2>5, <2>7, <2>8
<1>4. QED
  BY <1>2, <1>3

LEMMA LinesAre ==
  ASSUME NEW x \in Seq(Tokens)
  PROVE  /\ Len(Lines(x)) = Count(x) + 1 /\ DOMAIN Lines(x) = 1 .. Count(x) + 1
         /\ \A m \in 1 .. Count(x) + 1 : Lines(x)[m] = Line(x, m)
<1>1. Count(x) + 1 \in Nat
  BY LeadIs
<1>2. Lines(x) = [m \in 1 .. Count(x) + 1 |-> Line(x, m)]
  BY DEF Lines, Count
<1> DEFINE n == Count(x) + 1
<1>3. DOMAIN Lines(x) = 1 .. n /\ \A m \in 1 .. n : Lines(x)[m] = Line(x, m)
  BY <1>2
<1>4. Len(Lines(x)) = n
  <2> HIDE DEF n
  <2>1. Lines(x) \in Seq({Line(x, m) : m \in 1 .. n})
    <3>1. Lines(x) = [m \in 1 .. n |-> Line(x, m)]
      BY <1>2 DEF n
    <3>2. n \in Nat
      BY <1>1 DEF n
    <3> DEFINE T == {Line(x, m) : m \in 1 .. n}
    <3>3. \A m \in 1 .. n : Line(x, m) \in T
      OBVIOUS
    <3> HIDE DEF T
    <3>4. [m \in 1 .. n |-> Line(x, m)] \in Seq(T)
      BY <3>2, <3>3, IsASeq
    <3>5. QED
      BY <3>1, <3>4 DEF T
  <2>2. n \in Nat /\ DOMAIN Lines(x) = 1 .. n
    BY <1>1, <1>3 DEF n
  <2>3. QED
    BY <2>1, <2>2, LenProperties
<1>5. QED
  BY <1>3, <1>4

\* Where two line breaks meet, or one stands at an end, there is an empty line.
LEMMA GapIsLine ==
  ASSUME NEW x \in Seq(Tokens), Gap(x)
  PROVE  \E m \in 1 .. Count(x) + 1 : Line(x, m) = <<>>
<1>1. PICK k \in 0 .. Len(x) : (k = 0 \/ x[k] = Break) /\ (k = Len(x) \/ x[k + 1] = Break)
  BY DEF Gap
<1>2. Len(x) \in Nat /\ DOMAIN x = 1 .. Len(x)
  OBVIOUS
<1>3. k + 1 \in 1 .. Len(x) + 1 /\ Len(x) + 1 \in 1 .. Len(x) + 1 /\ k + 1 <= Len(x) + 1
  BY <1>2
<1> DEFINE l == Lead(x, k + 1)
<1>4. l \in Nat /\ l <= Count(x) /\ Count(x) \in Nat
  BY <1>3, LeadIs, LeadGrows
<1>5. ASSUME NEW j \in DOMAIN x, x[j] # Break, Lead(x, j) = l PROVE FALSE
  <2>1. j \in 1 .. Len(x) /\ j \in 1 .. Len(x) + 1 /\ j \in Nat
    BY <1>2
  <2>2. CASE j <= k
    <3>1. k \in 1 .. Len(x) /\ k # 0 /\ k \in 1 .. Len(x) + 1
      BY <1>2, <2>1, <2>2
    <3> x[k] = Break
      BY <1>1, <3>1
    <3>2. Lead(x, j) <= Lead(x, k) /\ l = Lead(x, k) + 1 /\ Lead(x, k) \in Nat
      BY <2>1, <2>2, <3>1, LeadGrows, LeadIs
    <3>3. QED
      BY <1>4, <1>5, <3>2
  <2>3. CASE j > k
    <3>1. k + 1 \in 1 .. Len(x) /\ k # Len(x)
      <4>1. k \in Nat /\ j \in Nat /\ j <= Len(x) /\ Len(x) \in Nat /\ k < j
        BY <1>2, <2>1, <2>3
      <4>2. QED
        BY <4>1
    <3> x[k + 1] = Break
      BY <1>1, <3>1
    <3>2. j # k + 1
      BY <1>5, <3>1
    <3>3. (k + 1) + 1 <= j /\ (k + 1) + 1 \in 1 .. Len(x) + 1
      BY <1>2, <2>1, <2>3, <3>2
    <3>4. Lead(x, (k + 1) + 1) = l + 1
      BY <3>1, LeadIs
    <3>5. Lead(x, (k + 1) + 1) <= Lead(x, j)
      BY <2>1, <3>3, LeadGrows
    <3>6. QED
      BY <1>4, <1>5, <3>4, <3>5
  <2>4. QED
    BY <2>1, <2>2, <2>3
<1> DEFINE m == l + 1
<1>6. m \in 1 .. Count(x) + 1 /\ m - 1 = l
  BY <1>4
<1>7. Line(x, m) = <<>>
  <2>1. {j \in DOMAIN x : x[j] # Break /\ Lead(x, j) = m - 1} = {}
    BY <1>5, <1>6
  <2>2. QED
    BY <2>1 DEF Line
<1>8. QED
  BY <1>6, <1>7

\* A reply with nothing in it is no translation of a piece that has a word.
LEMMA NothingIsNoReply ==
  ASSUME NEW x \in Seq(Tokens), NEW w \in DOMAIN x, x[w] # Break
  PROVE  ReplyDegenerate(x, <<>>)
<1>1. <<>> \in Seq(Tokens) /\ Len(<<>>) = 0 /\ DOMAIN <<>> = {}
  OBVIOUS
<1>2. Count(<<>>) = 0
  <2>1. LineEnds(<<>>) = {}
    BY <1>1 DEF LineEnds
  <2>2. QED
    BY <2>1, FS_EmptySet DEF Count
<1>3. Blank(<<>>) /\ ~Blank(x)
  BY DEF Blank
<1>4. /\ Len(Lines(<<>>)) = 1 /\ Lines(<<>>)[1] = Line(<<>>, 1)
      /\ Len(Lines(x)) = Count(x) + 1 /\ DOMAIN Lines(x) = 1 .. Count(x) + 1
      /\ Lines(x)[1] = Line(x, 1) /\ Count(x) \in Nat
  <2>1. Count(<<>>) + 1 = 1 /\ 1 \in 1 .. 1
    BY <1>2
  <2>2. Count(x) \in Nat
    BY LeadIs
  <2>3. 1 \in 1 .. Count(x) + 1
    BY <2>2
  <2>4. /\ Len(Lines(<<>>)) = Count(<<>>) + 1
        /\ \A m \in 1 .. Count(<<>>) + 1 : Lines(<<>>)[m] = Line(<<>>, m)
    BY <1>1, LinesAre
  <2>5. QED
    BY <2>1, <2>2, <2>3, <2>4, LinesAre
<1>5. CASE Count(x) = 0
  <2>1. w \in 1 .. Len(x) /\ w \in 1 .. Len(x) + 1 /\ w <= Len(x) + 1 /\ Len(x) + 1 \in 1 .. Len(x) + 1
    OBVIOUS
  <2>2. Lead(x, w) \in Nat /\ Lead(x, w) <= Lead(x, Len(x) + 1) /\ Lead(x, Len(x) + 1) = Count(x)
    BY <2>1, LeadIs, LeadGrows
  <2>3. Lead(x, w) = 1 - 1
    BY <1>5, <2>2
  <2>4. Line(x, 1) # <<>> /\ Line(x, 1) \in Seq(Tokens)
    BY <2>3, LineIs
  <2>5. 1 \in DOMAIN Line(x, 1)
    BY <2>4
  <2>6. Line(x, 1)[1] # Break
    BY <2>5, LineIs
  <2>7. ~Blank(Line(x, 1))
    BY <2>5, <2>6 DEF Blank
  <2>8. Line(<<>>, 1) = <<>>
    BY <1>1 DEF Line
  <2>9. Degenerate(Lines(x)[1], Lines(<<>>)[1])
    BY <1>3, <1>4, <2>7, <2>8 DEF Degenerate
  <2>10. QED
    BY <1>4, <1>5, <2>9 DEF ReplyDegenerate
<1>6. CASE Count(x) # 0
  <2>1. Len(Lines(x)) # Len(Lines(<<>>))
    <3>1. Count(x) + 1 # 1
      BY <1>4, <1>6
    <3>2. QED
      BY <1>4, <3>1
  <2>2. QED
    BY <1>3, <2>1 DEF ReplyDegenerate, Degenerate
<1>7. QED
  BY <1>5, <1>6

\* Without its line breaks at the ends a text is a stretch of itself.
LEMMA TrimIs ==
  ASSUME NEW x \in Seq(Tokens)
  PROVE  /\ Trim(x) \in Seq(Tokens)
         /\ Trim(x) = <<>> <=> Blank(x)
         /\ Trim(x) # <<>> => \E a \in 1 .. Len(x), b \in 1 .. Len(x) :
              /\ a <= b /\ x[a] # Break /\ x[b] # Break /\ Trim(x) = SubSeq(x, a, b)
              /\ Len(Trim(x)) = b - a + 1 /\ \A j \in 1 .. b - a + 1 : Trim(x)[j] = x[a + j - 1]
              /\ \A j \in 1 .. Len(x) : j < a \/ j > b => x[j] = Break
<1> DEFINE ink == {k \in DOMAIN x : x[k] # Break}
<1>1. DOMAIN x = 1 .. Len(x) /\ Len(x) \in Nat
  OBVIOUS
<1>2. CASE ink = {}
  BY <1>2 DEF Trim, Blank
<1>3. CASE ink # {}
  <2>1. ink \subseteq Nat /\ ink \subseteq 1 .. Len(x)
    BY <1>1
  <2> DEFINE a == Min(ink)
             b == Max(ink)
  <2>2. /\ a \in ink /\ b \in ink /\ \A y \in ink : a <= y /\ y <= b
    <3> HIDE DEF ink
    <3>1. a \in ink /\ \A y \in ink : a <= y
      BY <1>3, <2>1, MinIs
    <3>2. b \in ink /\ \A y \in ink : y <= b
      BY <1>1, <1>3, <2>1, MaxIs
    <3>3. QED
      BY <3>1, <3>2
  <2>3. Trim(x) = SubSeq(x, a, b)
    BY <1>3 DEF Trim
  <2> HIDE DEF a, b
  <2>4. a \in 1 .. Len(x) /\ b \in 1 .. Len(x) /\ a <= b /\ x[a] # Break /\ x[b] # Break
    BY <1>1, <2>2
  <2>5. /\ SubSeq(x, a, b) \in Seq(Tokens) /\ Len(SubSeq(x, a, b)) = b - a + 1
        /\ \A j \in 1 .. b - a + 1 : SubSeq(x, a, b)[j] = x[a + j - 1]
    BY <1>1, <2>4, SubSeqProperties
  <2>6. SubSeq(x, a, b) # <<>>
    BY <1>1, <2>4, <2>5
  <2>7. \A j \in 1 .. Len(x) : j < a \/ j > b => x[j] = Break
    BY <1>1, <2>2, <2>4
  <2>8. ~Blank(x)
    BY <1>1, <2>4 DEF Blank
  <2>9. \A j \in 1 .. b - a + 1 : Trim(x)[j] = x[a + j - 1]
    BY <2>3, <2>5
  <2>10. Trim(x) \in Seq(Tokens) /\ Len(Trim(x)) = b - a + 1 /\ Trim(x) # <<>>
    BY <2>3, <2>5, <2>6
  <2>11. QED
    BY <2>3, <2>4, <2>7, <2>8, <2>9, <2>10
<1>4. QED
  BY <1>2, <1>3

-----------------------------------------------------------------------------
(* Words, tags and the rest. *)

LEMMA TokenKinds ==
  ASSUME NEW e \in Tokens
  PROVE  /\ e.t \in {"break", "loop", "word", "tag", "term", "stem", "guard", "junk"}
         /\ e = Break <=> e.t = "break"
         /\ e = Loop <=> e.t = "loop"
         /\ Owned(e) <=> e.t \in {"word", "tag", "term", "stem", "guard", "junk"}
         /\ Owned(e) => e.of \in Items
         /\ e.t \in {"word", "term"} => e.s \in Surfaces
         /\ e.t = "tag" => e.n \in Nat /\ e = Tag(e.n, e.of)
<1>1. CASE e = Break
  BY <1>1 DEF Break, Loop, Owned
<1>2. CASE e = Loop
  BY <1>2 DEF Break, Loop, Owned
<1>3. CASE e \in [t : {"word"}, s : Surfaces, v : {"no", "lemma", "phrase"}, of : Items]
  BY <1>3 DEF Break, Loop, Owned
<1>4. CASE e \in [t : {"tag"}, n : Nat, of : Items]
  BY <1>4 DEF Break, Loop, Owned, Tag
<1>5. CASE e \in [t : {"term"}, s : Surfaces, of : Items]
  BY <1>5 DEF Break, Loop, Owned
<1>6. CASE e \in [t : DebrisKinds, of : Items]
  BY <1>6 DEF Break, Loop, Owned, DebrisKinds
<1>7. QED
  BY <1>1, <1>2, <1>3, <1>4, <1>5, <1>6 DEF Tokens

LEMMA TokenMade ==
  ASSUME NEW i \in Items
  PROVE  /\ Break \in Tokens /\ Loop \in Tokens
         /\ \A n \in Nat : Tag(n, i) \in Tokens /\ Tag(n, i).t = "tag" /\ Tag(n, i).of = i /\ Tag(n, i).n = n
         /\ \A s \in Surfaces : Term(s, i) \in Tokens /\ Term(s, i).t = "term" /\ Term(s, i).of = i /\ Term(s, i).s = s
         /\ \A d \in DebrisKinds : Debris(d, i) \in Tokens /\ Debris(d, i).t = d /\ Debris(d, i).of = i
  BY DEF Tokens, Tag, Term, Debris

LEMMA BreakIsToken == Break \in Tokens /\ Loop \in Tokens /\ ~Owned(Break) /\ ~Owned(Loop) /\ Loop # Break
  BY DEF Tokens, Owned, Break, Loop

\* The surfaces of the words of a text.
Surf(i) == {w.s : w \in Range(Texts[i])}

LEMMA SourceIs ==
  ASSUME NEW i \in Items
  PROVE  /\ Source(i) \in Seq(Tokens) /\ Len(Source(i)) = Len(Texts[i]) /\ Len(Texts[i]) \in Nat
         /\ \A k \in 1 .. Len(Texts[i]) : /\ Source(i)[k].t = "word" /\ Source(i)[k].of = i
                                          /\ Source(i)[k].s \in Surf(i)
                                          /\ Owned(Source(i)[k]) /\ Source(i)[k] # Break
         /\ Texts[i] = <<>> <=> Len(Texts[i]) = 0
         /\ Surf(i) \subseteq Surfaces
<1> DEFINE W == [s : Surfaces, v : {"no", "lemma", "phrase"}]
<1>1. Texts[i] \in Seq(W)
  BY RequestAssumption DEF RequestAssumption, Items
<1>2. Len(Texts[i]) \in Nat /\ DOMAIN Texts[i] = 1 .. Len(Texts[i]) /\ \A k \in 1 .. Len(Texts[i]) : Texts[i][k] \in W
  <2> HIDE DEF W
  <2> QED
    BY <1>1
<1>3. ASSUME NEW k \in 1 .. Len(Texts[i])
      PROVE  /\ Word(Texts[i][k], i) \in Tokens /\ Word(Texts[i][k], i).t = "word"
             /\ Word(Texts[i][k], i).of = i /\ Word(Texts[i][k], i).s \in Surf(i)
  <2>1. Texts[i][k] \in W
    BY <1>2
  <2>2. Texts[i][k] \in Range(Texts[i])
    BY <1>2 DEF Range
  <2>3. Word(Texts[i][k], i) \in [t : {"word"}, s : Surfaces, v : {"no", "lemma", "phrase"}, of : Items]
    BY <2>1 DEF Word
  <2>4. Word(Texts[i][k], i).t = "word" /\ Word(Texts[i][k], i).of = i /\ Word(Texts[i][k], i).s = Texts[i][k].s
    BY DEF Word
  <2>5. QED
    BY <2>2, <2>3, <2>4 DEF Tokens, Surf
<1>4. Source(i) = [k \in 1 .. Len(Texts[i]) |-> Word(Texts[i][k], i)]
  BY <1>2 DEF Source
<1>5. Source(i) \in Seq(Tokens) /\ Len(Source(i)) = Len(Texts[i])
  <2>1. \A k \in 1 .. Len(Texts[i]) : Word(Texts[i][k], i) \in Tokens
    BY <1>3
  <2>2. QED
    BY <1>2, <1>4, <2>1
<1>6. ASSUME NEW k \in 1 .. Len(Texts[i])
      PROVE  /\ Source(i)[k].t = "word" /\ Source(i)[k].of = i /\ Source(i)[k].s \in Surf(i)
             /\ Owned(Source(i)[k]) /\ Source(i)[k] # Break
  <2>1. Source(i)[k] = Word(Texts[i][k], i) /\ Source(i)[k] \in Tokens
    BY <1>3, <1>4
  <2>2. Source(i)[k].t = "word"
    BY <1>3, <2>1
  <2>3. Owned(Source(i)[k]) /\ Source(i)[k] # Break
    BY <2>1, <2>2, TokenKinds
  <2>4. QED
    BY <1>3, <2>1, <2>2, <2>3
<1>7. Surf(i) \subseteq Surfaces
  BY <1>1, <1>2 DEF Surf, Range
<1>8. Texts[i] = <<>> <=> Len(Texts[i]) = 0
  BY <1>1
<1>9. QED
  BY <1>2, <1>5, <1>6, <1>7, <1>8

-----------------------------------------------------------------------------
(* The lines of a batch and the texts. *)

LEMMA ItemsAre ==
  ASSUME NEW S, S \subseteq Items
  PROVE  S \subseteq Nat /\ IsFiniteSet(S) /\ Cardinality(S) \in Nat /\ S \subseteq 1 .. Len(Texts) /\ Len(Texts) \in Nat
<1>1. Items = 1 .. Len(Texts) /\ Len(Texts) \in Nat
  BY RequestAssumption DEF RequestAssumption, Items
<1>2. IsFiniteSet(1 .. Len(Texts))
  BY <1>1, FS_Interval
<1>3. IsFiniteSet(S)
  BY <1>1, <1>2, FS_Subset
<1>4. QED
  BY <1>1, <1>3, FS_CardinalityType

\* Every line has its text, and every text its line.
LEMMA PlaceIs ==
  ASSUME NEW S, S \subseteq Items
  PROVE  /\ \A i \in S : Place(S, i) \in 1 .. Cardinality(S)
         /\ \A i, j \in S : Place(S, i) = Place(S, j) => i = j
         /\ \A m \in 1 .. Cardinality(S) : \E i \in S : Place(S, i) = m
<1> DEFINE Upto(i) == {j \in S : j <= i}
           n == Cardinality(S)
<1>1. /\ S \subseteq Nat /\ IsFiniteSet(S) /\ n \in Nat
      /\ S \subseteq 1 .. Len(Texts) /\ Len(Texts) \in Nat
      /\ \A j \in S : j \in Nat
  BY ItemsAre
<1>2. \A i : IsFiniteSet(Upto(i)) /\ Place(S, i) = Cardinality(Upto(i)) /\ Place(S, i) \in Nat /\ Place(S, i) <= n
  <2> TAKE i
  <2>1. Upto(i) \subseteq S /\ Place(S, i) = Cardinality(Upto(i))
    BY DEF Place
  <2> HIDE DEF Upto
  <2>2. QED
    BY <1>1, <2>1, FS_Subset, FS_CardinalityType
<1>3. ASSUME NEW i \in S, NEW j \in S, i < j PROVE Place(S, i) < Place(S, j)
  <2>1. j \notin Upto(i) /\ Upto(i) \cup {j} \subseteq Upto(j)
    <3>1. i \in Nat /\ j \in Nat
      BY <1>1
    <3>2. \A k \in S : k <= i => k <= j
      BY <1>1, <1>3, <3>1
    <3>3. ~(j <= i) /\ j <= j
      BY <1>3, <3>1
    <3>4. \A k \in Upto(i) : k \in Upto(j)
      BY <3>2
    <3>5. j \in Upto(j) /\ j \notin Upto(i)
      BY <1>3, <3>3
    <3>6. QED
      <4> HIDE DEF Upto
      <4> QED
        BY <3>4, <3>5
  <2> HIDE DEF Upto
  <2>2. IsFiniteSet(Upto(i) \cup {j}) /\ Cardinality(Upto(i) \cup {j}) = Cardinality(Upto(i)) + 1
    BY <1>2, <2>1, FS_AddElement
  <2>3. Cardinality(Upto(i) \cup {j}) <= Cardinality(Upto(j))
    BY <1>2, <2>1, FS_Subset
  <2>4. QED
    BY <1>2, <2>2, <2>3
<1>4. ASSUME NEW i \in S PROVE Place(S, i) >= 1
  <2>1. i \in Upto(i)
    BY <1>1
  <2> HIDE DEF Upto
  <2>2. Cardinality(Upto(i)) # 0
    BY <1>2, <2>1, FS_EmptySet
  <2>3. QED
    BY <1>2, <2>2
<1>5. ASSUME NEW m \in 1 .. n PROVE \E i \in S : Place(S, i) = m
  <2> DEFINE Late == {i \in S : Place(S, i) >= m}
  <2>1. Late \subseteq Nat /\ Late # {}
    <3>1. S # {}
      <4>1. n # 0
        BY <1>1
      <4>2. QED
        BY <4>1, FS_EmptySet
    <3>2. Max(S) \in S /\ \A y \in S : y <= Max(S)
      BY <1>1, <3>1, MaxIs
    <3>3. Upto(Max(S)) = S
      BY <3>2
    <3>4. Place(S, Max(S)) = n
      BY <1>2, <3>3
    <3>5. Max(S) \in Late
      BY <1>1, <3>2, <3>4
    <3>6. QED
      BY <1>1, <3>5
  <2>2. PICK i \in Late : \A y \in Late : i <= y
    <3> HIDE DEF Late
    <3> QED
      BY <2>1, LeastExists
  <2>3. i \in S /\ Place(S, i) >= m /\ i \in Nat
    BY <1>1, <2>2
  <2>4. CASE Place(S, i) = m
    BY <2>3, <2>4
  <2>5. CASE Place(S, i) # m
    <3> DEFINE B == {j \in S : j < i}
    <3>1. Upto(i) = B \cup {i} /\ i \notin B /\ B \subseteq S
      <4>1. \A k \in S : k <= i <=> k < i \/ k = i
        BY <1>1, <2>3
      <4>2. i <= i /\ ~(i < i)
        BY <2>3
      <4>3. QED
        BY <2>3, <4>1, <4>2
    <3>2. IsFiniteSet(B) /\ Cardinality(B) \in Nat
      <4> HIDE DEF B
      <4> QED
        BY <1>1, <3>1, FS_Subset, FS_CardinalityType
    <3>3. Place(S, i) = Cardinality(B) + 1
      <4> HIDE DEF B, Upto
      <4> QED
        BY <1>2, <3>1, <3>2, FS_AddElement
    <3>4. Cardinality(B) >= m
      BY <1>2, <2>3, <2>5, <3>2, <3>3
    <3>5. B # {}
      <4> HIDE DEF B
      <4>1. Cardinality(B) # 0
        BY <3>2, <3>4
      <4>2. QED
        BY <4>1, FS_EmptySet
    <3>6. Max(B) \in B /\ \A y \in B : y <= Max(B)
      <4>1. B \subseteq 1 .. Len(Texts)
        BY <1>1, <3>1
      <4> HIDE DEF B
      <4>2. QED
        BY <1>1, <3>5, <4>1, MaxIs
    <3> DEFINE b == Max(B)
    <3>7. b \in S /\ b < i /\ b \in Nat
      BY <1>1, <3>6
    <3> HIDE DEF b
    <3>8. Upto(b) = B
      <4>1. \A k \in S : k < i => k <= b
        BY <3>6 DEF b
      <4>2. \A k \in S : k <= b => k < i
        BY <1>1, <2>3, <3>7
      <4>3. QED
        BY <4>1, <4>2
    <3>9. Place(S, b) >= m
      <4> HIDE DEF B, Upto
      <4> QED
        BY <1>2, <3>4, <3>8
    <3>10. i <= b
      BY <2>2, <3>7, <3>9
    <3>11. QED
      BY <2>3, <3>7, <3>10
  <2>6. QED
    BY <2>4, <2>5
<1>6. ASSUME NEW i \in S, NEW j \in S, Place(S, i) = Place(S, j) PROVE i = j
  <2>1. ~(i < j) /\ ~(j < i)
    <3>1. Place(S, i) \in Nat
      BY <1>2
    <3>2. ~(Place(S, i) < Place(S, j)) /\ ~(Place(S, j) < Place(S, i))
      BY <1>6, <3>1
    <3>3. QED
      BY <1>3, <3>2
  <2>2. QED
    BY <1>1, <2>1
<1>7. \A i \in S : Place(S, i) \in 1 .. n
  <2> TAKE i \in S
  <2>1. Place(S, i) \in Nat /\ Place(S, i) <= n /\ Place(S, i) >= 1 /\ n \in Nat
    BY <1>1, <1>2, <1>4
  <2> HIDE DEF n
  <2>2. QED
    BY <2>1
<1>8. QED
  BY <1>5, <1>6, <1>7

-----------------------------------------------------------------------------
(* Texts put together. *)

LEMMA Stretch ==
  ASSUME NEW x \in Seq(Tokens), NEW a \in Nat, NEW b \in Nat, a >= 1, a <= b + 1, b <= Len(x)
  PROVE  /\ SubSeq(x, a, b) \in Seq(Tokens) /\ Len(SubSeq(x, a, b)) = b - a + 1
         /\ \A j \in 1 .. b - a + 1 : SubSeq(x, a, b)[j] = x[a + j - 1]
<1>1. Len(x) \in Nat /\ \A j \in 1 .. Len(x) : x[j] \in Tokens
  OBVIOUS
<1>2. a \in Int /\ b \in Int /\ \A j \in a .. b : x[j] \in Tokens
  BY <1>1
<1>3. /\ SubSeq(x, a, b) \in Seq(Tokens)
      /\ Len(SubSeq(x, a, b)) = IF a <= b THEN b - a + 1 ELSE 0
      /\ \A j \in 1 .. b - a + 1 : SubSeq(x, a, b)[j] = x[a + j - 1]
  BY <1>2, SubSeqProperties
<1>4. a <= b \/ b - a + 1 = 0
  OBVIOUS
<1>5. QED
  BY <1>3, <1>4

LEMMA TwoParts ==
  ASSUME NEW u \in Seq(Tokens), NEW v \in Seq(Tokens)
  PROVE  /\ u \o v \in Seq(Tokens) /\ Len(u \o v) = Len(u) + Len(v)
         /\ \A k \in 1 .. Len(u) : (u \o v)[k] = u[k]
         /\ \A k \in 1 .. Len(v) : (u \o v)[Len(u) + k] = v[k]
<1>1. /\ u \o v \in Seq(Tokens) /\ Len(u \o v) = Len(u) + Len(v)
      /\ \A i \in 1 .. Len(u) + Len(v) : (u \o v)[i] = IF i <= Len(u) THEN u[i] ELSE v[i - Len(u)]
  BY ConcatProperties
<1>2. Len(u) \in Nat /\ Len(v) \in Nat
  OBVIOUS
<1>3. ASSUME NEW k \in 1 .. Len(u) PROVE (u \o v)[k] = u[k]
  <2>1. k \in 1 .. Len(u) + Len(v) /\ k <= Len(u)
    BY <1>2
  <2>2. QED
    BY <1>1, <2>1
<1>4. ASSUME NEW k \in 1 .. Len(v) PROVE (u \o v)[Len(u) + k] = v[k]
  <2>1. Len(u) + k \in 1 .. Len(u) + Len(v) /\ ~(Len(u) + k <= Len(u)) /\ (Len(u) + k) - Len(u) = k
    BY <1>2
  <2>2. (u \o v)[Len(u) + k] = v[(Len(u) + k) - Len(u)]
    BY <1>1, <2>1
  <2>3. QED
    BY <2>1, <2>2
<1>5. QED
  BY <1>1, <1>3, <1>4

LEMMA WithMiddle ==
  ASSUME NEW u \in Seq(Tokens), NEW e \in Tokens, NEW v \in Seq(Tokens)
  PROVE  /\ u \o <<e>> \o v \in Seq(Tokens) /\ Len(u \o <<e>> \o v) = Len(u) + 1 + Len(v)
         /\ \A k \in 1 .. Len(u) : (u \o <<e>> \o v)[k] = u[k]
         /\ (u \o <<e>> \o v)[Len(u) + 1] = e
         /\ \A k \in 1 .. Len(v) : (u \o <<e>> \o v)[Len(u) + 1 + k] = v[k]
<1> DEFINE w == u \o <<e>>
<1>1. <<e>> \in Seq(Tokens) /\ Len(<<e>>) = 1 /\ <<e>>[1] = e /\ 1 \in 1 .. 1
  OBVIOUS
<1>2. Len(u) \in Nat /\ Len(v) \in Nat
  OBVIOUS
<1>3. /\ w \in Seq(Tokens) /\ Len(w) = Len(u) + 1
      /\ \A k \in 1 .. Len(u) : w[k] = u[k]
      /\ w[Len(u) + 1] = e
  BY <1>1, TwoParts
<1> HIDE DEF w
<1>4. /\ w \o v \in Seq(Tokens) /\ Len(w \o v) = Len(w) + Len(v)
      /\ \A k \in 1 .. Len(w) : (w \o v)[k] = w[k]
      /\ \A k \in 1 .. Len(v) : (w \o v)[Len(w) + k] = v[k]
  BY <1>3, TwoParts
<1>5. (\A k \in 1 .. Len(u) : k \in 1 .. Len(w)) /\ Len(u) + 1 \in 1 .. Len(w)
  BY <1>2, <1>3
<1>6. QED
  BY <1>3, <1>4, <1>5 DEF w

\* How much of a joined text the first part takes.
Off(x) == IF x = <<>> THEN 0 ELSE Len(x) + 1

LEMMA JoinIs ==
  ASSUME NEW x \in Seq(Tokens), NEW y \in Seq(Tokens)
  PROVE  /\ Join(x, y) \in Seq(Tokens) /\ Off(x) \in Nat /\ Len(Join(x, y)) = Off(x) + Len(y)
         /\ \A k \in 1 .. Len(x) : Join(x, y)[k] = x[k]
         /\ x # <<>> => Off(x) = Len(x) + 1 /\ Len(x) \in Nat \ {0} /\ Join(x, y)[Len(x) + 1] = Break
         /\ x = <<>> => Off(x) = 0 /\ Len(x) = 0
         /\ \A k \in 1 .. Len(y) : Join(x, y)[Off(x) + k] = y[k]
<1>1. CASE x = <<>>
  <2>1. Len(x) = 0 /\ Off(x) = 0 /\ Join(x, y) = y /\ 1 .. Len(x) = {} /\ Len(y) \in Nat
    BY <1>1 DEF Off, Join
  <2>2. \A k \in 1 .. Len(y) : 0 + k = k
    BY <2>1
  <2>3. QED
    BY <1>1, <2>1, <2>2
<1>2. CASE x # <<>>
  <2>1. Len(x) \in Nat \ {0} /\ Off(x) = Len(x) + 1 /\ Join(x, y) = x \o <<Break>> \o y
    BY <1>2 DEF Off, Join
  <2>2. QED
    BY <1>2, <2>1, WithMiddle, BreakIsToken
<1>3. QED
  BY <1>1, <1>2

LEMMA JoinBehind ==
  ASSUME NEW x \in Seq(Tokens), NEW y \in Seq(Tokens), x # <<>>
  PROVE  /\ Join(x, y) \in Seq(Tokens) /\ Off(x) = Len(x) + 1
         /\ Len(Join(x, y)) = Off(x) + Len(y)
         /\ \A k \in 1 .. Len(x) : Join(x, y)[k] = x[k]
         /\ Join(x, y)[Len(x) + 1] = Break
         /\ \A k \in 1 .. Len(y) : Join(x, y)[Off(x) + k] = y[k]
  BY JoinIs

LEMMA RemoveIs ==
  ASSUME NEW x \in Seq(Tokens), NEW p \in 1 .. Len(x)
  PROVE  /\ RemoveAt(x, p) \in Seq(Tokens) /\ Len(RemoveAt(x, p)) = Len(x) - 1
         /\ \A k \in 1 .. p - 1 : RemoveAt(x, p)[k] = x[k]
         /\ \A k \in p .. Len(x) - 1 : RemoveAt(x, p)[k] = x[k + 1]
         /\ Without(x, RemoveAt(x, p), p)
<1> DEFINE u == SubSeq(x, 1, p - 1)
           v == SubSeq(x, p + 1, Len(x))
<1>1. Len(x) \in Nat /\ p \in Nat /\ p >= 1 /\ p <= Len(x) /\ p - 1 \in Nat /\ p + 1 \in Nat
  OBVIOUS
<1>2. /\ u \in Seq(Tokens) /\ Len(u) = p - 1
      /\ \A j \in 1 .. p - 1 : u[j] = x[j]
  <2>1. 1 \in Nat /\ 1 >= 1 /\ 1 <= (p - 1) + 1 /\ p - 1 <= Len(x) /\ (p - 1) - 1 + 1 = p - 1
    BY <1>1
  <2>2. /\ u \in Seq(Tokens) /\ Len(u) = (p - 1) - 1 + 1
        /\ \A j \in 1 .. (p - 1) - 1 + 1 : u[j] = x[1 + j - 1]
    BY <1>1, <2>1, Stretch
  <2>3. \A j \in 1 .. p - 1 : 1 + j - 1 = j
    BY <1>1
  <2>4. QED
    BY <2>1, <2>2, <2>3
<1>3. /\ v \in Seq(Tokens) /\ Len(v) = Len(x) - p
      /\ \A j \in 1 .. Len(x) - p : v[j] = x[p + j]
  <2>1. p + 1 >= 1 /\ p + 1 <= Len(x) + 1 /\ Len(x) <= Len(x) /\ Len(x) - (p + 1) + 1 = Len(x) - p
    BY <1>1
  <2>2. /\ v \in Seq(Tokens) /\ Len(v) = Len(x) - (p + 1) + 1
        /\ \A j \in 1 .. Len(x) - (p + 1) + 1 : v[j] = x[(p + 1) + j - 1]
    BY <1>1, <2>1, Stretch
  <2>3. \A j \in 1 .. Len(x) - p : (p + 1) + j - 1 = p + j
    BY <1>1
  <2>4. QED
    BY <2>1, <2>2, <2>3
<1> HIDE DEF u, v
<1>4. RemoveAt(x, p) = u \o v
  BY DEF RemoveAt, u, v
<1> DEFINE y == u \o v
<1>5. /\ y \in Seq(Tokens) /\ Len(y) = Len(u) + Len(v)
      /\ \A k \in 1 .. Len(u) : y[k] = u[k]
      /\ \A k \in 1 .. Len(v) : y[Len(u) + k] = v[k]
  BY <1>2, <1>3, TwoParts
<1> HIDE DEF y
<1>6. Len(y) = Len(x) - 1
  BY <1>1, <1>2, <1>3, <1>5
<1>7. \A k \in 1 .. p - 1 : y[k] = x[k]
  BY <1>2, <1>5
<1>8. ASSUME NEW k \in p .. Len(x) - 1 PROVE y[k] = x[k + 1]
  <2> DEFINE j == k - (p - 1)
  <2>1. j \in 1 .. Len(x) - p /\ (p - 1) + j = k /\ p + j = k + 1
    BY <1>1
  <2> HIDE DEF j
  <2>2. y[(p - 1) + j] = v[j] /\ v[j] = x[p + j]
    BY <1>2, <1>3, <1>5, <2>1
  <2>3. QED
    BY <2>1, <2>2
<1>9. Without(x, y, p)
  BY <1>6, <1>7, <1>8 DEF Without
<1>10. QED
  BY <1>4, <1>5, <1>6, <1>7, <1>8, <1>9 DEF y

LEMMA InsertIs ==
  ASSUME NEW x \in Seq(Tokens), NEW p \in 1 .. Len(x) + 1
  PROVE  LET y == InsertAt(x, p, Break)
         IN  /\ y \in Seq(Tokens) /\ Len(y) = Len(x) + 1 /\ y[p] = Break
             /\ \A k \in 1 .. p - 1 : y[k] = x[k]
             /\ \A k \in p .. Len(x) : y[k + 1] = x[k]
             /\ Without(y, x, p)
<1> DEFINE u == SubSeq(x, 1, p - 1)
           v == SubSeq(x, p, Len(x))
<1>1. Len(x) \in Nat /\ p \in Nat /\ p >= 1 /\ p <= Len(x) + 1 /\ p - 1 \in Nat
  OBVIOUS
<1>2. /\ u \in Seq(Tokens) /\ Len(u) = p - 1
      /\ \A j \in 1 .. p - 1 : u[j] = x[j]
  <2>1. 1 \in Nat /\ 1 >= 1 /\ 1 <= (p - 1) + 1 /\ p - 1 <= Len(x) /\ (p - 1) - 1 + 1 = p - 1
    BY <1>1
  <2>2. /\ u \in Seq(Tokens) /\ Len(u) = (p - 1) - 1 + 1
        /\ \A j \in 1 .. (p - 1) - 1 + 1 : u[j] = x[1 + j - 1]
    BY <1>1, <2>1, Stretch
  <2>3. \A j \in 1 .. p - 1 : 1 + j - 1 = j
    BY <1>1
  <2>4. QED
    BY <2>1, <2>2, <2>3
<1>3. /\ v \in Seq(Tokens) /\ Len(v) = Len(x) - p + 1
      /\ \A j \in 1 .. Len(x) - p + 1 : v[j] = x[p + j - 1]
  <2>1. p <= Len(x) + 1 /\ Len(x) <= Len(x)
    BY <1>1
  <2>2. QED
    BY <1>1, <2>1, Stretch
<1> HIDE DEF u, v
<1>4. InsertAt(x, p, Break) = u \o <<Break>> \o v
  BY DEF InsertAt, u, v
<1> DEFINE y == u \o <<Break>> \o v
<1>5. /\ y \in Seq(Tokens) /\ Len(y) = Len(u) + 1 + Len(v)
      /\ \A k \in 1 .. Len(u) : y[k] = u[k]
      /\ y[Len(u) + 1] = Break
      /\ \A k \in 1 .. Len(v) : y[Len(u) + 1 + k] = v[k]
  <2>1. u \in Seq(Tokens) /\ v \in Seq(Tokens) /\ Break \in Tokens
    BY <1>2, <1>3, BreakIsToken
  <2>2. QED
    BY <2>1, WithMiddle
<1> HIDE DEF y
<1>6. Len(y) = Len(x) + 1 /\ Len(u) + 1 = p
  BY <1>1, <1>2, <1>3, <1>5
<1>7. \A k \in 1 .. p - 1 : y[k] = x[k]
  BY <1>2, <1>5
<1>8. ASSUME NEW k \in p .. Len(x) PROVE y[k + 1] = x[k]
  <2> DEFINE j == k - p + 1
  <2>1. j \in 1 .. Len(x) - p + 1 /\ p + j = k + 1 /\ p + j - 1 = k
    BY <1>1
  <2> HIDE DEF j
  <2>2. y[Len(u) + 1 + j] = v[j] /\ v[j] = x[p + j - 1]
    BY <1>3, <1>5, <2>1
  <2>3. QED
    BY <1>6, <2>1, <2>2
<1>9. y[p] = Break
  BY <1>5, <1>6
<1>10. Without(y, x, p)
  <2>1. p \in 1 .. Len(y) /\ Len(x) = Len(y) - 1
    BY <1>1, <1>6
  <2>2. QED
    BY <1>7, <1>8, <2>1 DEF Without
<1>11. QED
  BY <1>4, <1>5, <1>6, <1>7, <1>8, <1>9, <1>10 DEF y

\* A line break fewer behind place p.
Falls(x, y, p) == /\ \A k \in 1 .. p : Lead(y, k) = Lead(x, k)
                  /\ \A k \in p .. Len(y) + 1 : Lead(y, k) = Lead(x, k + 1) - 1
                  /\ Count(y) = Count(x) - 1

LEMMA WithoutBreak ==
  ASSUME NEW x \in Seq(Tokens), NEW y \in Seq(Tokens), NEW p, Without(x, y, p), x[p] = Break
  PROVE  Falls(x, y, p)
  BY WithoutOne DEF Falls

\* The places and the lines of the words when a line break goes elsewhere.
LEMMA RelocatedIs ==
  ASSUME NEW x \in Seq(Tokens), NEW p \in 1 .. Len(x), NEW q \in 1 .. Len(x), x[p] = Break,
         NEW y, y = Relocated(x, <<p, q>>)
  PROVE  /\ y \in Seq(Tokens) /\ Len(y) = Len(x) /\ y[q] = Break /\ Count(y) = Count(x)
         /\ \A k \in 1 .. p - 1 : k < q => y[k] = x[k] /\ Lead(y, k) = Lead(x, k)
         /\ \A k \in p .. q - 1 : y[k] = x[k + 1] /\ Lead(y, k) = Lead(x, k + 1) - 1
         /\ \A k \in q + 1 .. p : y[k] = x[k - 1] /\ Lead(y, k) = Lead(x, k - 1) + 1
         /\ \A k \in q + 1 .. Len(x) : k > p => y[k] = x[k] /\ Lead(y, k) = Lead(x, k)
<1> DEFINE z == RemoveAt(x, p)
           n == Len(x)
<1>1. n \in Nat /\ p \in 1 .. n /\ q \in 1 .. n
  OBVIOUS
<1>2. /\ z \in Seq(Tokens) /\ Len(z) = n - 1
      /\ \A k \in 1 .. p - 1 : z[k] = x[k]
      /\ \A k \in p .. n - 1 : z[k] = x[k + 1]
      /\ Without(x, z, p)
  BY RemoveIs
<1>3. y = InsertAt(z, q, Break)
  BY DEF Relocated
<1> HIDE DEF z
<1>4. q \in 1 .. Len(z) + 1
  BY <1>1, <1>2
<1> HIDE DEF n
<1>5. /\ y \in Seq(Tokens) /\ Len(y) = n /\ y[q] = Break
      /\ \A k \in 1 .. q - 1 : y[k] = z[k]
      /\ \A k \in q .. n - 1 : y[k + 1] = z[k]
      /\ Without(y, z, q)
  <2>1. /\ y \in Seq(Tokens) /\ Len(y) = Len(z) + 1 /\ y[q] = Break
        /\ \A k \in 1 .. q - 1 : y[k] = z[k]
        /\ \A k \in q .. Len(z) : y[k + 1] = z[k]
        /\ Without(y, z, q)
    <3> DEFINE w == InsertAt(z, q, Break)
    <3>1. z \in Seq(Tokens)
      BY <1>2
    <3>2. /\ w \in Seq(Tokens) /\ Len(w) = Len(z) + 1 /\ w[q] = Break
          /\ \A k \in 1 .. q - 1 : w[k] = z[k]
          /\ \A k \in q .. Len(z) : w[k + 1] = z[k]
          /\ Without(w, z, q)
      BY <1>4, <3>1, InsertIs
    <3>3. y = w
      BY <1>3
    <3> HIDE DEF w
    <3>4. QED
      BY <3>2, <3>3
  <2>2. Len(z) + 1 = n
    BY <1>1, <1>2
  <2>3. QED
    BY <1>2, <2>1, <2>2
<1>6. /\ \A k \in 1 .. p : Lead(z, k) = Lead(x, k)
      /\ \A k \in p .. n : Lead(z, k) = Lead(x, k + 1) - 1
      /\ Count(z) = Count(x) - 1
  <2>1. Len(z) + 1 = n
    BY <1>1, <1>2
  <2>2. QED
    BY <1>2, <2>1, WithoutOne
<1>7. /\ \A k \in 1 .. q : Lead(z, k) = Lead(y, k)
      /\ \A k \in q .. n : Lead(z, k) = Lead(y, k + 1) - 1
      /\ Count(z) = Count(y) - 1
  <2>1. Len(z) + 1 = n /\ y[q] = Break
    BY <1>1, <1>2, <1>5
  <2>2. z \in Seq(Tokens) /\ y \in Seq(Tokens) /\ Without(y, z, q)
    BY <1>2, <1>5
  <2>3. Falls(y, z, q)
    BY <2>1, <2>2, WithoutBreak
  <2>4. q .. Len(z) + 1 = q .. n
    BY <2>1
  <2>5. QED
    BY <2>3, <2>4 DEF Falls
<1>8. /\ \A k \in 1 .. n + 1 : Lead(x, k) \in Nat /\ Lead(y, k) \in Nat
      /\ Count(x) \in Nat /\ Count(y) \in Nat
  BY <1>5, LeadIs DEF n
<1>9. Count(y) = Count(x)
  BY <1>6, <1>7, <1>8
<1>10. ASSUME NEW k \in 1 .. p - 1, k < q PROVE y[k] = x[k] /\ Lead(y, k) = Lead(x, k)
  <2>1. k \in 1 .. q - 1 /\ k \in 1 .. q /\ k \in 1 .. p
    BY <1>1, <1>10
  <2>2. QED
    BY <1>2, <1>5, <1>6, <1>7, <2>1
<1>11. ASSUME NEW k \in p .. q - 1 PROVE y[k] = x[k + 1] /\ Lead(y, k) = Lead(x, k + 1) - 1
  <2>1. k \in 1 .. q - 1 /\ k \in 1 .. q /\ k \in p .. n /\ k \in p .. n - 1
    BY <1>1
  <2>2. QED
    BY <1>2, <1>5, <1>6, <1>7, <2>1
<1>12. ASSUME NEW k \in q + 1 .. p PROVE y[k] = x[k - 1] /\ Lead(y, k) = Lead(x, k - 1) + 1
  <2> DEFINE j == k - 1
  <2>1. j \in q .. n - 1 /\ j \in q .. n /\ j \in 1 .. p - 1 /\ j \in 1 .. p /\ j + 1 = k /\ k \in 1 .. n + 1 /\ j \in 1 .. n + 1
    BY <1>1
  <2> HIDE DEF j
  <2>2. y[k] = x[j]
    BY <1>2, <1>5, <2>1
  <2>3. Lead(z, j) = Lead(x, j) /\ Lead(z, j) = Lead(y, k) - 1 /\ Lead(x, j) \in Nat /\ Lead(y, k) \in Nat
    BY <1>6, <1>7, <1>8, <2>1
  <2>4. Lead(y, k) = Lead(x, j) + 1
    BY <2>3
  <2>5. QED
    BY <2>2, <2>4 DEF j
<1>13. ASSUME NEW k \in q + 1 .. n, k > p PROVE y[k] = x[k] /\ Lead(y, k) = Lead(x, k)
  <2> DEFINE j == k - 1
  <2>1. j \in q .. n - 1 /\ j \in q .. n /\ j \in p .. n - 1 /\ j \in p .. n /\ j + 1 = k /\ k \in 1 .. n + 1
    BY <1>1, <1>13
  <2> HIDE DEF j
  <2>2. y[k] = x[k]
    BY <1>2, <1>5, <2>1
  <2>3. Lead(z, j) = Lead(x, k) - 1 /\ Lead(z, j) = Lead(y, k) - 1 /\ Lead(x, k) \in Nat /\ Lead(y, k) \in Nat
    BY <1>6, <1>7, <1>8, <2>1
  <2>4. QED
    BY <2>2, <2>3
<1>14. QED
  BY <1>5, <1>9, <1>10, <1>11, <1>12, <1>13 DEF n

-----------------------------------------------------------------------------
(* What comes back of a piece. *)

LEMMA TrimSelf ==
  ASSUME NEW x \in Seq(Tokens), x # <<>>, x[1] # Break, x[Len(x)] # Break
  PROVE  Trim(x) = x
<1>1. Len(x) \in Nat /\ Len(x) >= 1 /\ 1 \in 1 .. Len(x) /\ Len(x) \in 1 .. Len(x) /\ DOMAIN x = 1 .. Len(x)
  BY EmptySeq
<1>2. ~Blank(x)
  BY <1>1 DEF Blank
<1>3. PICK a \in 1 .. Len(x), b \in 1 .. Len(x) :
        /\ a <= b /\ Len(Trim(x)) = b - a + 1 /\ \A j \in 1 .. b - a + 1 : Trim(x)[j] = x[a + j - 1]
        /\ \A j \in 1 .. Len(x) : j < a \/ j > b => x[j] = Break
  BY <1>2, TrimIs
<1>4. a = 1
  BY <1>1, <1>3
<1>5. b = Len(x)
  <2>1. ~(Len(x) > b)
    BY <1>1, <1>3
  <2>2. b \in Nat /\ b <= Len(x) /\ Len(x) \in Nat
    BY <1>1
  <2>3. QED
    BY <2>1, <2>2
<1>6. Trim(x) \in Seq(Tokens) /\ Len(Trim(x)) = Len(x) /\ \A j \in 1 .. Len(x) : Trim(x)[j] = x[j]
  <2>1. \A j \in 1 .. Len(x) : a + j - 1 = j
    BY <1>4
  <2>2. b - a + 1 = Len(x)
    BY <1>1, <1>4, <1>5
  <2>3. \A j \in 1 .. Len(x) : Trim(x)[j] = x[j]
    BY <1>3, <2>1, <2>2
  <2>4. QED
    BY <1>3, <2>2, <2>3, TrimIs
<1>7. QED
  BY <1>6, SeqEqual

\* A reply has nothing but the words of the piece, loops, line breaks, what is left of its
\* tags and, if r, tags with another number.
Echo(e, x, r) ==
  \/ e \in {Break, Loop}
  \/ \E k \in DOMAIN x : \/ e = x[k]
                         \/ x[k].t = "tag" /\ \E d \in DebrisKinds : e = Debris(d, x[k].of)
                         \/ r /\ x[k].t = "tag" /\ \E n \in Nat : e = Tag(n, x[k].of)
Echoes(y, x, r) == \A k \in DOMAIN y : Echo(y[k], x, r)

LEMMA FatedIs ==
  ASSUME map \in Seq(Surfaces), NEW e \in Tokens, e.t = "tag", NEW f \in Fates
  PROVE  /\ Fated(e, f) \in Tokens /\ Fated(e, f) # Break /\ Owned(e) /\ Fated(e, f).of = e.of
         /\ \/ Fated(e, f) = e
            \/ \E d \in DebrisKinds : Fated(e, f) = Debris(d, e.of)
            \/ (f[1] = "tag" /\ f[2] # e.n) /\ \E n \in Nat : Fated(e, f) = Tag(n, e.of)
<1>1. e.of \in Items /\ Owned(e) /\ e = Tag(e.n, e.of) /\ e.n \in Nat
  BY TokenKinds
<1>2. CASE \E n \in DOMAIN map : f = <<"tag", n - 1>>
  <2>1. PICK n \in DOMAIN map : f = <<"tag", n - 1>>
    BY <1>2
  <2>2. n - 1 \in Nat /\ f[1] = "tag" /\ f[2] = n - 1
    BY <2>1
  <2>3. Fated(e, f) = Tag(f[2], e.of) /\ f[2] \in Nat
    BY <2>2 DEF Fated
  <2>4. Fated(e, f) \in Tokens /\ Fated(e, f).t = "tag" /\ Fated(e, f).of = e.of
    BY <1>1, <2>3, TokenMade
  <2>5. Fated(e, f) # Break
    BY <2>4, TokenKinds
  <2>6. QED
    BY <1>1, <2>2, <2>3, <2>4, <2>5
<1>3. CASE \E d \in DebrisKinds : f = <<d, 0>>
  <2>1. PICK d \in DebrisKinds : f = <<d, 0>>
    BY <1>3
  <2>2. f[1] # "tag" /\ f[1] = d
    BY <2>1 DEF DebrisKinds
  <2>3. Fated(e, f) = Debris(d, e.of)
    BY <2>2 DEF Fated
  <2>4. Fated(e, f) \in Tokens /\ Fated(e, f).t = d /\ Fated(e, f).of = e.of
    BY <1>1, <2>3, TokenMade
  <2>5. Fated(e, f) # Break
    BY <2>4, TokenKinds DEF DebrisKinds
  <2>6. QED
    BY <1>1, <2>3, <2>4, <2>5
<1>4. QED
  BY <1>2, <1>3 DEF Fates

LEMMA GarbledIs ==
  ASSUME map \in Seq(Surfaces), NEW x \in Seq(Tokens), NEW g \in [Tags(x) -> Fates]
  PROVE  /\ Garbled(x, g) \in Seq(Tokens) /\ Shape(x, Garbled(x, g))
         /\ \A k \in 1 .. Len(x) :
              \/ Garbled(x, g)[k] = x[k]
              \/ x[k].t = "tag" /\ \E d \in DebrisKinds : Garbled(x, g)[k] = Debris(d, x[k].of)
              \/ Renumbered(x, g) /\ x[k].t = "tag" /\ \E n \in Nat : Garbled(x, g)[k] = Tag(n, x[k].of)
<1> DEFINE y(k) == IF k \in Tags(x) THEN Fated(x[k], g[k]) ELSE x[k]
<1>1. Len(x) \in Nat /\ DOMAIN x = 1 .. Len(x) /\ \A k \in 1 .. Len(x) : x[k] \in Tokens
  OBVIOUS
<1>2. ASSUME NEW k \in 1 .. Len(x)
      PROVE  /\ y(k) \in Tokens /\ (x[k] = Break <=> y(k) = Break)
             /\ Owned(y(k)) => Owned(x[k]) /\ y(k).of = x[k].of
             /\ \/ y(k) = x[k]
                \/ x[k].t = "tag" /\ \E d \in DebrisKinds : y(k) = Debris(d, x[k].of)
                \/ Renumbered(x, g) /\ x[k].t = "tag" /\ \E n \in Nat : y(k) = Tag(n, x[k].of)
  <2>1. CASE k \in Tags(x)
    <3> DEFINE e == x[k]
               f == g[k]
    <3>1. e \in Tokens /\ e.t = "tag" /\ f \in Fates /\ y(k) = Fated(e, f)
      BY <1>1, <2>1 DEF Tags
    <3>2. e # Break
      BY <3>1, TokenKinds
    <3>3. f[1] = "tag" /\ f[2] # e.n => Renumbered(x, g)
      BY <2>1 DEF Renumbered
    <3> HIDE DEF e, f, y
    <3>4. /\ y(k) \in Tokens /\ y(k) # Break /\ Owned(e) /\ y(k).of = e.of
          /\ \/ y(k) = e
             \/ \E d \in DebrisKinds : y(k) = Debris(d, e.of)
             \/ (f[1] = "tag" /\ f[2] # e.n) /\ \E n \in Nat : y(k) = Tag(n, e.of)
      BY <3>1, FatedIs
    <3>5. QED
      BY <3>1, <3>2, <3>3, <3>4 DEF e
  <2>2. CASE k \notin Tags(x)
    BY <1>1, <2>2
  <2>3. QED
    BY <2>1, <2>2
<1>3. Garbled(x, g) = [k \in 1 .. Len(x) |-> y(k)]
  BY <1>1 DEF Garbled
<1> HIDE DEF y
<1>4. Garbled(x, g) \in Seq(Tokens) /\ Len(Garbled(x, g)) = Len(x) /\ \A k \in 1 .. Len(x) : Garbled(x, g)[k] = y(k)
  <2>1. [k \in 1 .. Len(x) |-> y(k)] \in Seq(Tokens)
    BY <1>1, <1>2, IsASeq
  <2>2. DOMAIN Garbled(x, g) = 1 .. Len(x)
    BY <1>3
  <2>3. QED
    BY <1>1, <1>3, <2>1, <2>2, LenProperties
<1>5. QED
  BY <1>2, <1>4 DEF Shape

LEMMA LoopsAre ==
  ASSUME NEW x \in Seq(Tokens), NEW y \in Loops(x)
  PROVE  /\ y \in Seq(Tokens) /\ Shape(x, y)
         /\ \A k \in 1 .. Len(x) : y[k] = x[k] \/ y[k] = Loop
<1>1. PICK m : y = [k \in DOMAIN x |-> IF x[k] # Break /\ Lead(x, k) = m THEN Loop ELSE x[k]]
  BY DEF Loops
<1> DEFINE g(k) == IF x[k] # Break /\ Lead(x, k) = m THEN Loop ELSE x[k]
<1>2. Len(x) \in Nat /\ DOMAIN x = 1 .. Len(x) /\ \A k \in 1 .. Len(x) : x[k] \in Tokens
  OBVIOUS
<1>3. \A k \in 1 .. Len(x) : /\ g(k) \in Tokens /\ (x[k] = Break <=> g(k) = Break)
                             /\ g(k) = x[k] \/ g(k) = Loop
                             /\ Owned(g(k)) => g(k) = x[k]
  BY <1>2, BreakIsToken
<1>4. y = [k \in 1 .. Len(x) |-> g(k)]
  BY <1>1, <1>2
<1> HIDE DEF g
<1>5. y \in Seq(Tokens) /\ Len(y) = Len(x) /\ \A k \in 1 .. Len(x) : y[k] = g(k)
  <2>1. [k \in 1 .. Len(x) |-> g(k)] \in Seq(Tokens)
    BY <1>2, <1>3, IsASeq
  <2>2. DOMAIN y = 1 .. Len(x)
    BY <1>4
  <2>3. QED
    BY <1>2, <1>4, <2>1, <2>2, LenProperties
<1>6. QED
  BY <1>3, <1>5 DEF Shape

\* A move is of a line break, and the words between its places are of one line.
LEMMA MoveIs ==
  ASSUME NEW x \in Seq(Tokens), NEW m \in Moves(x)
  PROVE  \E p \in 1 .. Len(x), q \in 1 .. Len(x) :
           /\ m = <<p, q>> /\ p # q /\ x[p] = Break
           /\ \A j \in (p + 1 .. q) \cup (q .. p - 1) : x[j] # Break
           /\ Whole(x, m) <=> IF p < q THEN q = Len(x) \/ x[q + 1] = Break ELSE q = 1 \/ x[q - 1] = Break
<1>1. PICK p \in LineEnds(x), q \in DOMAIN x : m = <<p, q>>
  BY DEF Moves
<1>2. p \in 1 .. Len(x) /\ q \in 1 .. Len(x) /\ x[p] = Break /\ m[1] = p /\ m[2] = q
  BY <1>1 DEF LineEnds
<1>3. QED
  BY <1>1, <1>2 DEF Moves, Whole

\* What the backend makes of a piece.
LEMMA BaseIs ==
  ASSUME NEW x \in Seq(Tokens), NEW base \in Straight(x) \cup Slipped(x) \cup Shifted(x)
  PROVE  /\ base \in Seq(Tokens)
         /\ \A k \in 1 .. Len(base) : base[k] \in {Break, Loop} \/ \E j \in 1 .. Len(x) : base[k] = x[j]
<1>1. Len(x) \in Nat /\ DOMAIN x = 1 .. Len(x)
  OBVIOUS
<1>2. CASE base = x
  BY <1>2
<1>3. CASE base = <<>>
  BY <1>3
<1>4. CASE base \in Loops(x)
  <2>1. base \in Seq(Tokens) /\ Len(base) = Len(x) /\ \A k \in 1 .. Len(x) : base[k] = x[k] \/ base[k] = Loop
    BY <1>4, LoopsAre DEF Shape
  <2>2. QED
    BY <2>1
<1>5. CASE base \in Merges(x)
  <2>1. PICK k \in 1 .. Len(x) : base = RemoveAt(x, k)
    BY <1>1, <1>5 DEF Merges, LineEnds
  <2>2. /\ base \in Seq(Tokens) /\ Len(base) = Len(x) - 1
        /\ \A j \in 1 .. k - 1 : base[j] = x[j]
        /\ \A j \in k .. Len(x) - 1 : base[j] = x[j + 1]
    BY <2>1, RemoveIs
  <2>3. \A j \in 1 .. Len(base) : (j \in 1 .. k - 1 /\ j \in 1 .. Len(x)) \/ (j \in k .. Len(x) - 1 /\ j + 1 \in 1 .. Len(x))
    BY <1>1, <2>2
  <2>4. QED
    BY <2>2, <2>3
<1>6. CASE base \in {Relocated(x, m) : m \in Moves(x)}
  <2>1. PICK p \in 1 .. Len(x), q \in 1 .. Len(x) : p # q /\ x[p] = Break /\ base = Relocated(x, <<p, q>>)
    <3>1. PICK m \in Moves(x) : base = Relocated(x, m)
      BY <1>6
    <3>2. PICK p \in 1 .. Len(x), q \in 1 .. Len(x) : m = <<p, q>> /\ p # q /\ x[p] = Break
      BY MoveIs
    <3>3. QED
      BY <3>1, <3>2
  <2>2. /\ base \in Seq(Tokens) /\ Len(base) = Len(x) /\ base[q] = Break
        /\ \A k \in 1 .. p - 1 : k < q => base[k] = x[k]
        /\ \A k \in p .. q - 1 : base[k] = x[k + 1]
        /\ \A k \in q + 1 .. p : base[k] = x[k - 1]
        /\ \A k \in q + 1 .. Len(x) : k > p => base[k] = x[k]
    BY <2>1, RelocatedIs
  <2>3. \A j \in 1 .. Len(base) : \/ j = q \/ (j \in 1 .. p - 1 /\ j < q)
                                  \/ (j \in p .. q - 1 /\ j + 1 \in 1 .. Len(x))
                                  \/ (j \in q + 1 .. p /\ j - 1 \in 1 .. Len(x))
                                  \/ (j \in q + 1 .. Len(x) /\ j > p)
    BY <1>1, <2>2
  <2>4. QED
    BY <2>2, <2>3
<1>7. CASE base \in Added(x)
  <2>1. PICK k \in 1 .. Len(x) : base = InsertAt(x, k, Break)
    BY <1>1, <1>7 DEF Added
  <2>2. /\ base \in Seq(Tokens) /\ Len(base) = Len(x) + 1 /\ base[k] = Break
        /\ \A j \in 1 .. k - 1 : base[j] = x[j]
        /\ \A j \in k .. Len(x) : base[j + 1] = x[j]
    BY <2>1, InsertIs
  <2>3. \A j \in 1 .. Len(base) : \/ j = k \/ (j \in 1 .. k - 1 /\ j \in 1 .. Len(x))
                                  \/ (j - 1 \in k .. Len(x) /\ j - 1 \in 1 .. Len(x) /\ (j - 1) + 1 = j)
    BY <1>1, <2>2
  <2>4. QED
    BY <2>2, <2>3
<1>8. QED
  BY <1>2, <1>3, <1>4, <1>5, <1>6, <1>7 DEF Straight, Slipped, Shifted

LEMMA ReplyEchoes ==
  ASSUME map \in Seq(Surfaces), NEW x \in Seq(Tokens), NEW base \in Straight(x) \cup Slipped(x) \cup Shifted(x),
         NEW g \in [Tags(base) -> Fates]
  PROVE  /\ base \in Seq(Tokens)
         /\ Trim(Garbled(base, g)) \in Seq(Tokens)
         /\ Echoes(Trim(Garbled(base, g)), x, Renumbered(base, g))
<1> DEFINE y == Garbled(base, g)
           r == Renumbered(base, g)
<1>1. /\ base \in Seq(Tokens)
      /\ \A k \in 1 .. Len(base) : base[k] \in {Break, Loop} \/ \E j \in 1 .. Len(x) : base[k] = x[j]
  BY BaseIs
<1>2. /\ y \in Seq(Tokens) /\ Len(y) = Len(base)
      /\ \A k \in 1 .. Len(base) :
           \/ y[k] = base[k]
           \/ base[k].t = "tag" /\ \E d \in DebrisKinds : y[k] = Debris(d, base[k].of)
           \/ r /\ base[k].t = "tag" /\ \E n \in Nat : y[k] = Tag(n, base[k].of)
  BY <1>1, GarbledIs DEF Shape
<1> HIDE DEF y, r
<1>3. ASSUME NEW k \in 1 .. Len(y) PROVE Echo(y[k], x, r)
  <2>1. k \in 1 .. Len(base) /\ base[k] \in Tokens
    BY <1>1, <1>2
  <2>2. CASE base[k] \in {Break, Loop}
    <3>1. base[k].t # "tag"
      BY <2>2 DEF Break, Loop
    <3>2. QED
      BY <1>2, <2>1, <2>2, <3>1 DEF Echo
  <2>3. CASE \E j \in 1 .. Len(x) : base[k] = x[j]
    <3>1. PICK j \in DOMAIN x : base[k] = x[j]
      BY <2>3
    <3>2. QED
      BY <1>2, <2>1, <3>1 DEF Echo
  <2>4. QED
    BY <1>1, <2>1, <2>2, <2>3
<1>4. Trim(y) \in Seq(Tokens) /\ Echoes(Trim(y), x, r)
  <2>1. CASE Trim(y) = <<>>
    BY <2>1 DEF Echoes
  <2>2. CASE Trim(y) # <<>>
    <3>1. PICK a \in 1 .. Len(y), b \in 1 .. Len(y) :
             /\ a <= b /\ Len(Trim(y)) = b - a + 1 /\ \A j \in 1 .. b - a + 1 : Trim(y)[j] = y[a + j - 1]
      BY <1>2, <2>2, TrimIs
    <3>2. Trim(y) \in Seq(Tokens)
      BY <1>2, TrimIs
    <3>3. \A j \in 1 .. b - a + 1 : a + j - 1 \in 1 .. Len(y)
      BY <3>1
    <3>4. DOMAIN Trim(y) = 1 .. b - a + 1
      BY <3>1, <3>2
    <3>5. QED
      BY <1>3, <3>1, <3>2, <3>3, <3>4 DEF Echoes
  <2>3. QED
    BY <2>1, <2>2
<1>5. QED
  BY <1>1, <1>4 DEF y, r

\* A text without an empty line begins and ends with a word.
LEMMA NoGap ==
  ASSUME NEW x \in Seq(Tokens), ~Gap(x)
  PROVE  /\ x # <<>> /\ Len(x) \in Nat /\ Len(x) >= 1 /\ x[1] # Break /\ x[Len(x)] # Break
         /\ \A k \in 1 .. Len(x) - 1 : ~(x[k] = Break /\ x[k + 1] = Break)
<1>1. Len(x) \in Nat /\ (x = <<>> <=> Len(x) = 0)
  BY EmptySeq
<1>2. \A k \in 0 .. Len(x) : ~((k = 0 \/ x[k] = Break) /\ (k = Len(x) \/ x[k + 1] = Break))
  BY DEF Gap
<1>3. Len(x) # 0
  <2>1. 0 \in 0 .. Len(x)
    BY <1>1
  <2>2. QED
    BY <1>2, <2>1
<1>4. x[1] # Break
  <2>1. 0 \in 0 .. Len(x) /\ 0 + 1 = 1
    BY <1>1
  <2>2. QED
    BY <1>2, <2>1
<1>5. x[Len(x)] # Break
  <2>1. Len(x) \in 0 .. Len(x)
    BY <1>1
  <2>2. QED
    BY <1>2, <2>1
<1>6. \A k \in 1 .. Len(x) - 1 : k \in 0 .. Len(x)
  BY <1>1
<1>7. QED
  BY <1>1, <1>2, <1>3, <1>4, <1>5, <1>6

\* And one that does, and in which no two line breaks meet, has none.
LEMMA GapNot ==
  ASSUME NEW x \in Seq(Tokens), x # <<>>, x[1] # Break, x[Len(x)] # Break,
         \A k \in 1 .. Len(x) - 1 : ~(x[k] = Break /\ x[k + 1] = Break)
  PROVE  ~Gap(x)
<1>1. Len(x) \in Nat /\ Len(x) # 0
  BY EmptySeq
<1>2. ASSUME NEW k \in 0 .. Len(x), k = 0 \/ x[k] = Break, k = Len(x) \/ x[k + 1] = Break PROVE FALSE
  <2>1. k # 0
    BY <1>1, <1>2
  <2>2. k # Len(x)
    BY <1>1, <1>2, <2>1
  <2>3. k \in 1 .. Len(x) - 1
    BY <1>1, <2>1, <2>2
  <2>4. QED
    BY <1>2, <2>1, <2>2, <2>3
<1>3. QED
  BY <1>2 DEF Gap

\* Without a slip the lines stay what they are.
LEMMA StraightReply ==
  ASSUME NEW x \in Seq(Tokens), ~Gap(x), NEW base \in Straight(x), map \in Seq(Surfaces), NEW g \in [Tags(base) -> Fates],
         ~ReplyDegenerate(x, Trim(Garbled(base, g)))
  PROVE  Shape(x, Trim(Garbled(base, g)))
<1>1. /\ x # <<>> /\ Len(x) \in Nat /\ Len(x) >= 1 /\ x[1] # Break /\ x[Len(x)] # Break
      /\ 1 \in DOMAIN x /\ Len(x) \in DOMAIN x
  BY NoGap
<1>2. base # <<>>
  <2> SUFFICES ASSUME base = <<>> PROVE FALSE
    OBVIOUS
  <2>1. Garbled(base, g) = <<>>
    BY DEF Garbled
  <2>2. Trim(<<>>) = <<>>
    BY DEF Trim
  <2>3. QED
    BY <1>1, <2>1, <2>2, NothingIsNoReply
<1>3. base \in Seq(Tokens) /\ Shape(x, base)
  <2>1. CASE base = x
    BY <2>1 DEF Shape
  <2>2. CASE base \in Loops(x)
    BY <2>2, LoopsAre
  <2>3. QED
    BY <1>2, <2>1, <2>2 DEF Straight
<1> DEFINE y == Garbled(base, g)
<1>4. y \in Seq(Tokens) /\ Shape(base, y)
  BY <1>3, GarbledIs
<1> HIDE DEF y
<1>5. Shape(x, y)
  BY <1>3, <1>4 DEF Shape
<1>6. y # <<>> /\ y[1] # Break /\ y[Len(y)] # Break
  <2>1. Len(y) = Len(x) /\ \A k \in 1 .. Len(x) : (x[k] = Break) <=> (y[k] = Break)
    BY <1>5 DEF Shape
  <2>2. 1 \in 1 .. Len(x) /\ Len(x) \in 1 .. Len(x)
    BY <1>1
  <2>3. y # <<>>
    BY <1>1, <1>4, <2>1, EmptySeq
  <2>4. QED
    BY <1>1, <2>1, <2>2, <2>3
<1>7. Trim(y) = y
  BY <1>4, <1>6, TrimSelf
<1>8. QED
  BY <1>5, <1>7 DEF y

\* After a slip the lines are fewer or more, or one is empty.
Differs(x, y) == \/ Count(y) # Count(x)
                 \/ \E k \in 1 .. Len(y) - 1 : y[k] = Break /\ y[k + 1] = Break

\* A slip leaves the ends as they are, ...
LEMMA SlipInside ==
  ASSUME NEW x \in Seq(Tokens), NEW base \in Seq(Tokens), map \in Seq(Surfaces), NEW g \in [Tags(base) -> Fates],
         base # <<>>, base[1] # Break, base[Len(base)] # Break, Differs(x, base)
  PROVE  Differs(x, Trim(Garbled(base, g)))
<1> DEFINE y == Garbled(base, g)
<1>1. y \in Seq(Tokens) /\ Shape(base, y)
  BY GarbledIs
<1> HIDE DEF y
<1>2. Len(y) = Len(base) /\ \A k \in 1 .. Len(base) : (base[k] = Break) <=> (y[k] = Break)
  BY <1>1 DEF Shape
<1>3. Len(base) \in Nat /\ Len(base) >= 1 /\ 1 \in 1 .. Len(base) /\ Len(base) \in 1 .. Len(base)
  BY EmptySeq
<1>4. y # <<>> /\ y[1] # Break /\ y[Len(y)] # Break
  BY <1>1, <1>2, <1>3, EmptySeq
<1>5. Trim(y) = y
  BY <1>1, <1>4, TrimSelf
<1>6. Count(y) = Count(base)
  BY <1>1, Shaped
<1>7. \A k \in 1 .. Len(base) - 1 : k \in 1 .. Len(base) /\ k + 1 \in 1 .. Len(base)
  BY <1>3
<1>8. Differs(x, y)
  BY <1>2, <1>6, <1>7 DEF Differs
<1>9. QED
  BY <1>5, <1>8 DEF y

\* ... or has a line break at the end that goes.
LEMMA SlipAtEnd ==
  ASSUME NEW x \in Seq(Tokens), NEW base \in Seq(Tokens), map \in Seq(Surfaces), NEW g \in [Tags(base) -> Fates],
         Len(base) >= 2, base[1] # Break, base[Len(base)] = Break, base[Len(base) - 1] # Break,
         Count(base) = Count(x)
  PROVE  Differs(x, Trim(Garbled(base, g)))
<1> DEFINE y == Garbled(base, g)
           n == Len(base)
<1>1. y \in Seq(Tokens) /\ Shape(base, y)
  BY GarbledIs
<1> HIDE DEF y
<1>2. Len(y) = n /\ \A k \in 1 .. n : (base[k] = Break) <=> (y[k] = Break)
  BY <1>1 DEF Shape
<1>3. n \in Nat /\ n >= 2 /\ 1 \in 1 .. n /\ n \in 1 .. n /\ n - 1 \in 1 .. n /\ DOMAIN y = 1 .. n
  BY <1>1, <1>2
<1>4. y[1] # Break /\ y[n] = Break /\ y[n - 1] # Break
  BY <1>2, <1>3
<1>5. ~Blank(y)
  BY <1>3, <1>4 DEF Blank
<1> HIDE DEF n
<1>6. PICK a \in 1 .. n, b \in 1 .. n :
        /\ a <= b /\ y[b] # Break /\ Len(Trim(y)) = b - a + 1 /\ \A j \in 1 .. b - a + 1 : Trim(y)[j] = y[a + j - 1]
        /\ \A j \in 1 .. n : j < a \/ j > b => y[j] = Break
  BY <1>1, <1>2, <1>5, TrimIs
<1>7. a = 1
  <2>1. ~(1 < a)
    BY <1>3, <1>4, <1>6
  <2>2. a \in Nat /\ a >= 1
    BY <1>3
  <2>3. QED
    BY <2>1, <2>2
<1>8. b = n - 1
  <2>1. b # n
    BY <1>4, <1>6
  <2>2. ~(n - 1 > b)
    BY <1>3, <1>4, <1>6
  <2>3. b \in Nat /\ b <= n /\ n \in Nat
    BY <1>3
  <2>4. QED
    BY <2>1, <2>2, <2>3
<1> DEFINE z == Trim(y)
<1>9. z \in Seq(Tokens) /\ Len(z) = n - 1 /\ \A j \in 1 .. n - 1 : z[j] = y[j]
  <2>1. b - a + 1 = n - 1
    BY <1>3, <1>7, <1>8
  <2>2. \A j \in 1 .. n - 1 : a + j - 1 = j
    BY <1>3, <1>7
  <2>3. \A j \in 1 .. n - 1 : z[j] = y[j]
    BY <1>6, <2>1, <2>2
  <2>4. QED
    BY <1>1, <1>6, <2>1, <2>3, TrimIs
<1> HIDE DEF z
<1>10. Without(y, z, n)
  <2>1. n \in 1 .. Len(y) /\ Len(z) = Len(y) - 1 /\ n .. Len(z) = {}
    BY <1>2, <1>3, <1>9
  <2>2. QED
    BY <1>9, <2>1 DEF Without
<1>11. Count(z) = Count(y) - 1
  BY <1>1, <1>4, <1>9, <1>10, WithoutOne
<1>12. Count(y) = Count(x) /\ Count(x) \in Nat
  BY <1>1, Shaped, LeadIs
<1>13. QED
  BY <1>11, <1>12 DEF Differs, z, y

\* ... or one at the start.
LEMMA SlipAtStart ==
  ASSUME NEW x \in Seq(Tokens), NEW base \in Seq(Tokens), map \in Seq(Surfaces), NEW g \in [Tags(base) -> Fates],
         Len(base) >= 2, base[1] = Break, base[2] # Break, base[Len(base)] # Break,
         Count(base) = Count(x)
  PROVE  Differs(x, Trim(Garbled(base, g)))
<1> DEFINE y == Garbled(base, g)
           n == Len(base)
<1>1. y \in Seq(Tokens) /\ Shape(base, y)
  BY GarbledIs
<1> HIDE DEF y
<1>2. Len(y) = n /\ \A k \in 1 .. n : (base[k] = Break) <=> (y[k] = Break)
  BY <1>1 DEF Shape
<1>3. n \in Nat /\ n >= 2 /\ 1 \in 1 .. n /\ n \in 1 .. n /\ 2 \in 1 .. n /\ DOMAIN y = 1 .. n
  BY <1>1, <1>2
<1>4. y[1] = Break /\ y[2] # Break /\ y[n] # Break
  BY <1>2, <1>3
<1>5. ~Blank(y)
  BY <1>3, <1>4 DEF Blank
<1> HIDE DEF n
<1>6. PICK a \in 1 .. n, b \in 1 .. n :
        /\ a <= b /\ y[a] # Break /\ Len(Trim(y)) = b - a + 1 /\ \A j \in 1 .. b - a + 1 : Trim(y)[j] = y[a + j - 1]
        /\ \A j \in 1 .. n : j < a \/ j > b => y[j] = Break
  BY <1>1, <1>2, <1>5, TrimIs
<1>7. b = n
  <2>1. ~(n > b)
    BY <1>3, <1>4, <1>6
  <2>2. b \in Nat /\ b <= n /\ n \in Nat
    BY <1>3
  <2>3. QED
    BY <2>1, <2>2
<1>8. a = 2
  <2>1. a # 1
    BY <1>4, <1>6
  <2>2. ~(2 < a)
    BY <1>3, <1>4, <1>6
  <2>3. a \in Nat /\ a >= 1
    BY <1>3
  <2>4. QED
    BY <2>1, <2>2, <2>3
<1> DEFINE z == Trim(y)
<1>9. z \in Seq(Tokens) /\ Len(z) = n - 1 /\ \A j \in 1 .. n - 1 : z[j] = y[j + 1]
  <2>1. b - a + 1 = n - 1
    BY <1>3, <1>7, <1>8
  <2>2. \A j \in 1 .. n - 1 : a + j - 1 = j + 1
    BY <1>3, <1>8
  <2>3. \A j \in 1 .. n - 1 : z[j] = y[j + 1]
    BY <1>6, <2>1, <2>2
  <2>4. QED
    BY <1>1, <1>6, <2>1, <2>3, TrimIs
<1> HIDE DEF z
<1>10. Without(y, z, 1)
  <2>1. 1 \in 1 .. Len(y) /\ Len(z) = Len(y) - 1 /\ 1 .. 1 - 1 = {}
    BY <1>2, <1>3, <1>9
  <2>2. QED
    BY <1>9, <2>1 DEF Without
<1>11. Count(z) = Count(y) - 1
  BY <1>1, <1>4, <1>9, <1>10, WithoutOne
<1>12. Count(y) = Count(x) /\ Count(x) \in Nat
  BY <1>1, Shaped, LeadIs
<1>13. QED
  BY <1>11, <1>12 DEF Differs, z, y

LEMMA SlippedReply ==
  ASSUME NEW x \in Seq(Tokens), ~Gap(x), NEW base \in Slipped(x), map \in Seq(Surfaces), NEW g \in [Tags(base) -> Fates]
  PROVE  Differs(x, Trim(Garbled(base, g)))
<1> DEFINE n == Len(x)
<1>1. /\ n \in Nat /\ n >= 1 /\ x[1] # Break /\ x[n] # Break /\ DOMAIN x = 1 .. n
      /\ \A k \in 1 .. n - 1 : ~(x[k] = Break /\ x[k + 1] = Break)
      /\ Count(x) \in Nat
  BY NoGap, LeadIs
<1>2. CASE base \in Merges(x)
  <2>1. PICK k \in 1 .. n : base = RemoveAt(x, k) /\ x[k] = Break
    BY <1>1, <1>2 DEF Merges, LineEnds
  <2>2. k # 1 /\ k # n
    BY <1>1, <2>1
  <2>3. /\ base \in Seq(Tokens) /\ Len(base) = n - 1 /\ Without(x, base, k)
        /\ \A j \in 1 .. k - 1 : base[j] = x[j]
        /\ \A j \in k .. n - 1 : base[j] = x[j + 1]
    BY <2>1, RemoveIs
  <2> HIDE DEF n
  <2>4. 1 \in 1 .. k - 1 /\ n - 1 \in k .. n - 1 /\ (n - 1) + 1 = n /\ n - 1 >= 1
    BY <1>1, <2>1, <2>2
  <2>5. base[1] # Break /\ base[n - 1] # Break
    BY <1>1, <2>3, <2>4
  <2>6. Count(base) = Count(x) - 1
    BY <2>1, <2>3, WithoutOne
  <2>7. base # <<>>
    BY <2>3, <2>4, EmptySeq
  <2>8. base[Len(base)] # Break /\ Differs(x, base)
    BY <1>1, <2>3, <2>5, <2>6 DEF Differs
  <2>9. QED
    BY <2>3, <2>5, <2>7, <2>8, SlipInside
<1>3. CASE base \in Added(x)
  <2>1. PICK k \in 2 .. n : base = InsertAt(x, k, Break)
    BY <1>1, <1>3 DEF Added
  <2>2. k \in 1 .. Len(x) + 1
    BY <1>1
  <2>3. /\ base \in Seq(Tokens) /\ Len(base) = n + 1 /\ base[k] = Break /\ Without(base, x, k)
        /\ \A j \in 1 .. k - 1 : base[j] = x[j]
        /\ \A j \in k .. n : base[j + 1] = x[j]
    BY <2>1, <2>2, InsertIs
  <2> HIDE DEF n
  <2>4. 1 \in 1 .. k - 1 /\ n \in k .. n /\ n + 1 >= 1
    BY <1>1, <2>1
  <2>5. base[1] # Break /\ base[n + 1] # Break
    BY <1>1, <2>3, <2>4
  <2>6. Count(x) = Count(base) - 1 /\ Count(base) \in Nat
    BY <2>3, WithoutOne, LeadIs
  <2>7. base # <<>>
    BY <2>3, <2>4, EmptySeq
  <2>8. base[Len(base)] # Break /\ Differs(x, base)
    BY <1>1, <2>3, <2>5, <2>6 DEF Differs
  <2>9. QED
    BY <2>3, <2>5, <2>7, <2>8, SlipInside
<1>4. CASE base \in {Relocated(x, m) : m \in {e \in Moves(x) : Whole(x, e)}}
  <2>1. PICK m \in Moves(x) : Whole(x, m) /\ base = Relocated(x, m)
    BY <1>4
  <2>2. PICK p \in 1 .. n, q \in 1 .. n :
          /\ p # q /\ x[p] = Break /\ base = Relocated(x, <<p, q>>)
          /\ \A j \in (p + 1 .. q) \cup (q .. p - 1) : x[j] # Break
          /\ IF p < q THEN q = n \/ x[q + 1] = Break ELSE q = 1 \/ x[q - 1] = Break
    BY <2>1, MoveIs
  <2>3. /\ base \in Seq(Tokens) /\ Len(base) = n /\ base[q] = Break /\ Count(base) = Count(x)
        /\ \A k \in 1 .. p - 1 : k < q => base[k] = x[k]
        /\ \A k \in p .. q - 1 : base[k] = x[k + 1]
        /\ \A k \in q + 1 .. p : base[k] = x[k - 1]
        /\ \A k \in q + 1 .. n : k > p => base[k] = x[k]
    BY <2>2, RelocatedIs
  <2> HIDE DEF n
  <2>4. p # 1 /\ p # n /\ p \in 1 .. n /\ q \in 1 .. n
    BY <1>1, <2>2
  <2>5. CASE p < q
    <3>1. 1 \in 1 .. p - 1 /\ 1 < q /\ q - 1 \in p .. q - 1 /\ (q - 1) + 1 = q /\ q >= 2
      BY <1>1, <2>4, <2>5
    <3>2. base[1] # Break /\ base[q - 1] = x[q] /\ x[q] # Break
      <4>1. base[1] = x[1]
        BY <2>3, <3>1
      <4>2. base[q - 1] = x[(q - 1) + 1]
        BY <2>3, <3>1
      <4>3. q \in p + 1 .. q
        BY <2>4, <2>5
      <4>4. QED
        BY <1>1, <2>2, <3>1, <4>1, <4>2, <4>3
    <3>3. CASE q = n
      BY <2>3, <3>1, <3>2, <3>3, SlipAtEnd
    <3>4. CASE q # n
      <4>1. x[q + 1] = Break /\ q + 1 # n
        BY <1>1, <2>2, <2>5, <3>4
      <4>2. q + 1 \in q + 1 .. n /\ n \in q + 1 .. n /\ q + 1 > p /\ n > p /\ q \in 1 .. n - 1 /\ n >= 1
        BY <1>1, <2>4, <2>5, <3>4
      <4>3. base[q + 1] = Break /\ base[n] # Break
        BY <1>1, <2>3, <4>1, <4>2
      <4>4. Differs(x, base)
        BY <2>3, <4>2, <4>3 DEF Differs
      <4>5. base # <<>>
        BY <2>3, <4>2, EmptySeq
      <4>6. QED
        BY <2>3, <3>2, <4>3, <4>4, <4>5, SlipInside
    <3>5. QED
      BY <3>3, <3>4
  <2>6. CASE q < p
    <3>1. n \in q + 1 .. n /\ n > p /\ q + 1 \in q + 1 .. p /\ (q + 1) - 1 = q /\ n >= 2
      BY <1>1, <2>4, <2>6
    <3>2. base[n] # Break /\ base[q + 1] = x[q] /\ x[q] # Break
      <4>1. q \in q .. p - 1
        BY <1>1, <2>4, <2>6
      <4>2. QED
        BY <1>1, <2>2, <2>3, <3>1, <4>1
    <3>3. CASE q = 1
      <4>1. base[1] = Break /\ base[2] # Break /\ Len(base) >= 2 /\ base[Len(base)] # Break
        BY <2>3, <3>1, <3>2, <3>3
      <4>2. QED
        BY <2>3, <4>1, SlipAtStart
    <3>4. CASE q # 1
      <4>1. x[q - 1] = Break
        BY <1>1, <2>2, <2>6, <3>4
      <4>2. /\ q - 1 \in 1 .. p - 1 /\ q - 1 < q /\ 1 \in 1 .. p - 1 /\ 1 < q /\ q - 1 \in 1 .. n - 1
            /\ (q - 1) + 1 = q
        BY <1>1, <2>4, <2>6, <3>4
      <4>3. base[q - 1] = Break /\ base[1] # Break
        BY <1>1, <2>3, <4>1, <4>2
      <4>4. Differs(x, base)
        BY <2>3, <4>2, <4>3 DEF Differs
      <4>5. base # <<>>
        BY <1>1, <2>3, <3>1, EmptySeq
      <4>6. QED
        BY <2>3, <3>2, <4>3, <4>4, <4>5, SlipInside
    <3>5. QED
      BY <3>3, <3>4
  <2>7. QED
    BY <1>1, <2>2, <2>4, <2>5, <2>6
<1>5. QED
  BY <1>2, <1>3, <1>4 DEF Slipped

LEMMA ShiftedReply ==
  ASSUME NEW x \in Seq(Tokens), ~Gap(x), NEW base \in Shifted(x), map \in Seq(Surfaces), NEW g \in [Tags(base) -> Fates]
  PROVE  Drifting(x, Trim(Garbled(base, g))) /\ Trim(Garbled(base, g)) # <<>>
<1> DEFINE n == Len(x)
           y == Garbled(base, g)
<1>1. /\ n \in Nat /\ n >= 1 /\ x[1] # Break /\ x[n] # Break
      /\ \A k \in 1 .. n : Lead(x, k) \in Nat
  BY NoGap, LeadIs
<1>2. PICK m \in Moves(x) : ~Whole(x, m) /\ base = Relocated(x, m)
  BY DEF Shifted
<1>3. PICK p \in 1 .. n, q \in 1 .. n :
        /\ p # q /\ x[p] = Break /\ base = Relocated(x, <<p, q>>)
        /\ ~(IF p < q THEN q = n \/ x[q + 1] = Break ELSE q = 1 \/ x[q - 1] = Break)
  BY <1>2, MoveIs
<1>4. /\ base \in Seq(Tokens) /\ Len(base) = n /\ base[q] = Break /\ Count(base) = Count(x)
      /\ \A k \in 1 .. p - 1 : k < q => base[k] = x[k] /\ Lead(base, k) = Lead(x, k)
      /\ \A k \in p .. q - 1 : base[k] = x[k + 1] /\ Lead(base, k) = Lead(x, k + 1) - 1
      /\ \A k \in q + 1 .. p : base[k] = x[k - 1] /\ Lead(base, k) = Lead(x, k - 1) + 1
      /\ \A k \in q + 1 .. n : k > p => base[k] = x[k] /\ Lead(base, k) = Lead(x, k)
  BY <1>3, RelocatedIs
<1> HIDE DEF n
<1>5. p # 1 /\ p # n /\ p \in 1 .. n /\ q \in 1 .. n
  BY <1>1, <1>3
<1>6. base[1] # Break /\ base[n] # Break
  <2>1. CASE p < q
    <3>1. q # n
      BY <1>3, <2>1
    <3>2. 1 \in 1 .. p - 1 /\ 1 < q /\ n \in q + 1 .. n /\ n > p
      BY <1>1, <1>5, <2>1, <3>1
    <3>3. QED
      BY <1>1, <1>4, <3>2
  <2>2. CASE q < p
    <3>1. q # 1
      BY <1>1, <1>3, <2>2
    <3>2. 1 \in 1 .. p - 1 /\ 1 < q /\ n \in q + 1 .. n /\ n > p
      BY <1>1, <1>5, <2>2, <3>1
    <3>3. QED
      BY <1>1, <1>4, <3>2
  <2>3. QED
    BY <1>1, <1>3, <1>5, <2>1, <2>2
<1>7. ASSUME NEW k \in 1 .. n, Owned(base[k])
      PROVE  \E j \in 1 .. n : x[j] = base[k] /\ Lead(x, j) - Lead(base, k) \in -1 .. 1
  <2>1. k # q
    BY <1>4, <1>7, BreakIsToken
  <2>2. \/ k \in 1 .. p - 1 /\ k < q
        \/ k \in p .. q - 1 /\ k + 1 \in 1 .. n
        \/ k \in q + 1 .. p /\ k - 1 \in 1 .. n
        \/ k \in q + 1 .. n /\ k > p
    BY <1>1, <1>5, <2>1
  <2>3. CASE k \in 1 .. p - 1 /\ k < q
    <3>1. x[k] = base[k] /\ Lead(base, k) = Lead(x, k) /\ Lead(x, k) \in Nat
      BY <1>1, <1>4, <2>3
    <3>2. Lead(x, k) - Lead(base, k) = 0
      BY <3>1
    <3>3. QED
      BY <3>1, <3>2
  <2>4. CASE k \in p .. q - 1 /\ k + 1 \in 1 .. n
    <3>1. x[k + 1] = base[k] /\ Lead(base, k) = Lead(x, k + 1) - 1 /\ Lead(x, k + 1) \in Nat
      BY <1>1, <1>4, <2>4
    <3>2. Lead(x, k + 1) - Lead(base, k) = 1
      BY <3>1
    <3>3. QED
      BY <2>4, <3>1, <3>2
  <2>5. CASE k \in q + 1 .. p /\ k - 1 \in 1 .. n
    <3>1. x[k - 1] = base[k] /\ Lead(base, k) = Lead(x, k - 1) + 1 /\ Lead(x, k - 1) \in Nat
      BY <1>1, <1>4, <2>5
    <3>2. Lead(x, k - 1) - Lead(base, k) = -1
      BY <3>1
    <3>3. QED
      BY <2>5, <3>1, <3>2
  <2>6. CASE k \in q + 1 .. n /\ k > p
    <3>1. x[k] = base[k] /\ Lead(base, k) = Lead(x, k) /\ Lead(x, k) \in Nat
      BY <1>1, <1>4, <2>6
    <3>2. Lead(x, k) - Lead(base, k) = 0
      BY <3>1
    <3>3. QED
      BY <3>1, <3>2
  <2>7. QED
    BY <2>2, <2>3, <2>4, <2>5, <2>6
<1>8. y \in Seq(Tokens) /\ Shape(base, y)
  BY <1>4, GarbledIs
<1> HIDE DEF y
<1>9. /\ Len(y) = n /\ Count(y) = Count(x) /\ \A k \in 1 .. n : Lead(y, k) = Lead(base, k)
      /\ \A k \in 1 .. n : (base[k] = Break) <=> (y[k] = Break)
      /\ \A k \in 1 .. n : Owned(y[k]) => Owned(base[k]) /\ y[k].of = base[k].of
  <2>1. \A k \in 1 .. n : k \in 1 .. n + 1
    BY <1>1
  <2>2. Len(base) = Len(y) /\ Count(base) = Count(y) /\ \A k \in 1 .. n + 1 : Lead(base, k) = Lead(y, k)
    BY <1>4, <1>8, Shaped DEF Shape
  <2>3. QED
    BY <1>4, <1>8, <2>1, <2>2 DEF Shape
<1>10. Trim(y) = y /\ y # <<>>
  <2>1. 1 \in 1 .. n /\ n \in 1 .. n
    BY <1>1
  <2>2. y[1] # Break /\ y[Len(y)] # Break
    BY <1>6, <1>9, <2>1
  <2>3. y # <<>>
    BY <1>1, <1>9
  <2>4. QED
    BY <1>8, <2>2, <2>3, TrimSelf
<1>11. ASSUME NEW k \in 1 .. n, Owned(y[k])
       PROVE  \E j \in 1 .. n : Owned(x[j]) /\ x[j].of = y[k].of /\ Lead(x, j) - Lead(y, k) \in -1 .. 1
  <2>1. Owned(base[k]) /\ y[k].of = base[k].of /\ Lead(y, k) = Lead(base, k)
    BY <1>9, <1>11
  <2>2. PICK j \in 1 .. n : x[j] = base[k] /\ Lead(x, j) - Lead(base, k) \in -1 .. 1
    BY <1>7, <2>1
  <2>3. QED
    BY <2>1, <2>2
<1>12. Drifting(x, y)
  BY <1>9, <1>11 DEF Drifting, n
<1>13. QED
  BY <1>10, <1>12 DEF y

-----------------------------------------------------------------------------
(* Pieces. *)

\* Where a piece ends.
LEMMA PieceEndIs ==
  ASSUME rest \in Seq(Tokens), size \in PieceSizes
  PROVE  /\ PieceEnd \in 0 .. Len(rest)
         /\ Len(rest) >= 1 => PieceEnd >= 1
         /\ PieceEnd = Len(rest) \/ rest[PieceEnd + 1] = Break \/ rest[PieceEnd] # Break
<1> DEFINE ends == {k \in 1 .. size : rest[k] = Break /\ k - 1 > size \div 4}
           gaps == {k \in 1 .. size : rest[k] # Break /\ rest[k + 1] # Break}
<1>1. Len(rest) \in Nat /\ size \in Nat /\ size >= 2
  BY RequestAssumption DEF RequestAssumption
<1>2. CASE Len(rest) <= size
  BY <1>1, <1>2 DEF PieceEnd
<1>3. ends \subseteq 1 .. size /\ gaps \subseteq 1 .. size
  OBVIOUS
<1>4. CASE ~(Len(rest) <= size) /\ ends # {}
  <2>1. PieceEnd = Max(ends) - 1
    BY <1>4 DEF PieceEnd
  <2>2. \A k \in ends : k \in 2 .. size /\ rest[k] = Break
    <3>1. size \div 4 \in Nat
      BY <1>1
    <3>2. QED
      BY <1>1, <3>1
  <2> DEFINE m == Max(ends)
  <2>3. m \in ends
    <3> HIDE DEF ends
    <3>1. QED
      BY <1>1, <1>3, <1>4, MaxIs
  <2>4. m \in 2 .. size /\ rest[m] = Break /\ PieceEnd = m - 1
    BY <2>1, <2>2, <2>3
  <2> HIDE DEF m
  <2>5. m - 1 \in 0 .. Len(rest) /\ m - 1 >= 1 /\ (m - 1) + 1 = m
    BY <1>1, <1>4, <2>4
  <2>6. QED
    BY <2>4, <2>5
<1>5. CASE ~(Len(rest) <= size) /\ ends = {} /\ gaps # {}
  <2>1. PieceEnd = Max(gaps)
    BY <1>5 DEF PieceEnd
  <2> DEFINE m == Max(gaps)
  <2>2. m \in gaps
    <3> HIDE DEF gaps
    <3>1. QED
      BY <1>1, <1>3, <1>5, MaxIs
  <2>3. m \in 1 .. size /\ rest[m] # Break /\ PieceEnd = m
    BY <2>1, <2>2
  <2> HIDE DEF m
  <2>4. QED
    BY <1>1, <1>5, <2>3
<1>6. CASE ~(Len(rest) <= size) /\ ends = {} /\ gaps = {}
  <2>1. PieceEnd = size
    BY <1>6 DEF PieceEnd
  <2>2. size - 1 > size \div 4 /\ size \in 1 .. size
    BY <1>1
  <2>3. rest[size] # Break
    BY <1>6, <2>2
  <2>4. QED
    BY <1>1, <1>6, <2>1, <2>3
<1>7. QED
  BY <1>2, <1>4, <1>5, <1>6

\* A piece, and what comes after it, are of the rest.
LEMMA PieceIs ==
  ASSUME rest \in Seq(Tokens), size \in PieceSizes
  PROVE  /\ PieceEnd \in 0 .. Len(rest) /\ Len(rest) \in Nat
         /\ Piece \in Seq(Tokens) /\ Len(Piece) = PieceEnd
         /\ \A k \in 1 .. PieceEnd : Piece[k] = rest[k]
         /\ After \in Seq(Tokens) /\ \A k \in 1 .. Len(After) : \E j \in 1 .. Len(rest) : After[k] = rest[j]
         /\ Torn \in {0, 1}
<1> DEFINE e == PieceEnd
           n == Len(rest)
           tail == SubSeq(rest, e + 1, n)
<1>1. e \in 0 .. n /\ n \in Nat
  BY PieceEndIs
<1> HIDE DEF e
<1>2. Piece \in Seq(Tokens) /\ Len(Piece) = e /\ \A k \in 1 .. e : Piece[k] = rest[k]
  <2>1. Piece = SubSeq(rest, 1, e)
    BY DEF Piece, e
  <2>2. e \in Nat /\ 1 >= 1 /\ 1 <= e + 1 /\ e <= n /\ e - 1 + 1 = e /\ 1 \in Nat
    BY <1>1
  <2> HIDE DEF n
  <2>3. /\ SubSeq(rest, 1, e) \in Seq(Tokens) /\ Len(SubSeq(rest, 1, e)) = e - 1 + 1
        /\ \A j \in 1 .. e - 1 + 1 : SubSeq(rest, 1, e)[j] = rest[1 + j - 1]
    BY <2>2, Stretch DEF n
  <2>4. \A j \in 1 .. e : 1 + j - 1 = j
    BY <2>2
  <2>5. QED
    BY <2>1, <2>2, <2>3, <2>4
<1>3. tail \in Seq(Tokens) /\ Len(tail) = n - e /\ \A j \in 1 .. n - e : tail[j] = rest[e + j]
  <2>1. /\ e + 1 \in Nat /\ n \in Nat /\ e + 1 >= 1 /\ e + 1 <= n + 1 /\ n <= Len(rest)
        /\ n - (e + 1) + 1 = n - e /\ \A j \in 1 .. n - e : (e + 1) + j - 1 = e + j
    BY <1>1
  <2>2. /\ tail \in Seq(Tokens) /\ Len(tail) = n - (e + 1) + 1
        /\ \A j \in 1 .. n - (e + 1) + 1 : tail[j] = rest[(e + 1) + j - 1]
    BY <2>1, Stretch
  <2>3. QED
    BY <2>1, <2>2
<1>4. After = Trim(tail)
  BY DEF After, e
<1> HIDE DEF tail, n
<1>5. After \in Seq(Tokens)
  BY <1>3, <1>4, TrimIs
<1>6. ASSUME NEW k \in 1 .. Len(After) PROVE \E j \in 1 .. n : After[k] = rest[j]
  <2>1. After # <<>>
    BY <1>5
  <2>2. PICK a \in 1 .. Len(tail), b \in 1 .. Len(tail) :
          /\ Len(After) = b - a + 1 /\ \A j \in 1 .. b - a + 1 : After[j] = tail[a + j - 1]
    <3>1. tail \in Seq(Tokens) /\ Trim(tail) # <<>>
      BY <1>3, <1>4, <2>1
    <3>2. \E a \in 1 .. Len(tail), b \in 1 .. Len(tail) :
            /\ Len(Trim(tail)) = b - a + 1 /\ \A j \in 1 .. b - a + 1 : Trim(tail)[j] = tail[a + j - 1]
      BY <3>1, TrimIs
    <3>3. QED
      BY <1>4, <3>2
  <2>3. a + k - 1 \in 1 .. n - e /\ e + (a + k - 1) \in 1 .. n
    <3>1. Len(tail) = n - e /\ Len(After) = b - a + 1 /\ n \in Nat /\ e \in Nat /\ e <= n
      BY <1>1, <1>3, <2>2
    <3>2. a \in 1 .. n - e /\ b \in 1 .. n - e /\ k \in 1 .. b - a + 1
      BY <3>1
    <3>3. QED
      BY <3>1, <3>2
  <2>4. After[k] = tail[a + k - 1] /\ tail[a + k - 1] = rest[e + (a + k - 1)]
    BY <1>3, <2>2, <2>3
  <2>5. QED
    BY <2>3, <2>4
<1>7. QED
  BY <1>1, <1>2, <1>5, <1>6 DEF e, n, Torn

\* Without empty lines in the rest there are none in the piece nor behind it, and nothing
\* but a line break goes between them.
LEMMA PieceLines ==
  ASSUME rest \in Seq(Tokens), size \in PieceSizes, ~Gap(rest)
  PROVE  /\ ~Gap(Piece)
         /\ PieceEnd = Len(rest) => After = <<>> /\ Torn = 0
         /\ PieceEnd # Len(rest) =>
              /\ After # <<>> /\ ~Gap(After)
              /\ Len(After) = Len(rest) - PieceEnd - (1 - Torn)
              /\ \A j \in 1 .. Len(After) : After[j] = rest[PieceEnd + (1 - Torn) + j]
              /\ Torn = 0 => rest[PieceEnd + 1] = Break
<1> DEFINE e == PieceEnd
           n == Len(rest)
           tail == SubSeq(rest, e + 1, n)
<1>1. /\ n \in Nat /\ n >= 1 /\ rest[1] # Break /\ rest[n] # Break
      /\ \A k \in 1 .. n - 1 : ~(rest[k] = Break /\ rest[k + 1] = Break)
  BY NoGap
<1>2. e \in 1 .. n /\ (e = n \/ rest[e + 1] = Break \/ rest[e] # Break)
  BY <1>1, PieceEndIs
<1>3. /\ Piece \in Seq(Tokens) /\ Len(Piece) = e /\ \A k \in 1 .. e : Piece[k] = rest[k]
      /\ After \in Seq(Tokens)
  BY PieceIs
<1>4. Torn = IF After # <<>> /\ rest[e + 1] # Break THEN 1 ELSE 0
  BY DEF Torn
<1>5. After = Trim(tail)
  BY DEF After
<1>6. tail \in Seq(Tokens) /\ Len(tail) = n - e /\ \A j \in 1 .. n - e : tail[j] = rest[e + j]
  <2>1. /\ e + 1 \in Nat /\ n \in Nat /\ e + 1 >= 1 /\ e + 1 <= n + 1 /\ n <= Len(rest)
        /\ n - (e + 1) + 1 = n - e /\ \A j \in 1 .. n - e : (e + 1) + j - 1 = e + j
    BY <1>2
  <2> HIDE DEF e
  <2>2. /\ tail \in Seq(Tokens) /\ Len(tail) = n - (e + 1) + 1
        /\ \A j \in 1 .. n - (e + 1) + 1 : tail[j] = rest[(e + 1) + j - 1]
    BY <2>1, Stretch
  <2>3. QED
    BY <2>1, <2>2
<1> HIDE DEF e, n, tail
<1>7. rest[e] # Break
  <2>1. CASE e = n
    BY <1>1, <2>1
  <2>2. CASE e # n
    <3>1. e \in 1 .. n - 1
      BY <1>1, <1>2, <2>2
    <3>2. QED
      BY <1>1, <1>2, <2>2, <3>1
  <2>3. QED
    BY <2>1, <2>2
<1>8. ~Gap(Piece)
  <2>1. Piece # <<>>
    BY <1>2, <1>3, EmptySeq
  <2>2. 1 \in 1 .. e /\ e \in 1 .. e
    BY <1>2
  <2>3. Piece[1] # Break /\ Piece[Len(Piece)] # Break
    BY <1>1, <1>3, <1>7, <2>2
  <2>4. \A k \in 1 .. e - 1 : k \in 1 .. e /\ k + 1 \in 1 .. e /\ k \in 1 .. n - 1
    BY <1>1, <1>2
  <2>5. \A k \in 1 .. Len(Piece) - 1 : ~(Piece[k] = Break /\ Piece[k + 1] = Break)
    BY <1>1, <1>3, <2>4
  <2>6. QED
    BY <1>3, <2>1, <2>3, <2>5, GapNot
<1>9. ASSUME e = n PROVE After = <<>> /\ Torn = 0
  <2>1. Len(tail) = 0
    BY <1>1, <1>6, <1>9
  <2>2. tail = <<>>
    BY <1>6, <2>1
  <2>3. After = <<>>
    BY <1>5, <2>2 DEF Trim
  <2>4. QED
    BY <1>4, <2>3
<1>10. ASSUME e # n
       PROVE  /\ After # <<>> /\ ~Gap(After)
              /\ Len(After) = n - e - (1 - Torn)
              /\ \A j \in 1 .. Len(After) : After[j] = rest[e + (1 - Torn) + j]
              /\ Torn = 0 => rest[e + 1] = Break
  <2> DEFINE l == n - e
  <2>1. l \in Nat /\ l >= 1 /\ l \in 1 .. l /\ e + l = n /\ Len(tail) = l /\ DOMAIN tail = 1 .. l /\ 1 \in 1 .. l
    BY <1>1, <1>2, <1>6, <1>10
  <2>2. \A j \in 1 .. l : tail[j] = rest[e + j]
    BY <1>6
  <2>3. tail[l] # Break /\ ~Blank(tail)
    BY <1>1, <2>1, <2>2 DEF Blank
  <2> HIDE DEF l
  <2>4. After # <<>>
    BY <1>5, <1>6, <2>3, TrimIs
  <2>5. PICK a \in 1 .. l, b \in 1 .. l :
          /\ a <= b /\ tail[a] # Break /\ tail[b] # Break
          /\ Len(After) = b - a + 1 /\ \A j \in 1 .. b - a + 1 : After[j] = tail[a + j - 1]
          /\ \A j \in 1 .. l : j < a \/ j > b => tail[j] = Break
    <3>1. Trim(tail) # <<>> /\ tail \in Seq(Tokens)
      BY <1>5, <1>6, <2>4
    <3>2. \E a \in 1 .. Len(tail), b \in 1 .. Len(tail) :
            /\ a <= b /\ tail[a] # Break /\ tail[b] # Break
            /\ Len(Trim(tail)) = b - a + 1 /\ \A j \in 1 .. b - a + 1 : Trim(tail)[j] = tail[a + j - 1]
            /\ \A j \in 1 .. Len(tail) : j < a \/ j > b => tail[j] = Break
      BY <3>1, TrimIs
    <3>3. QED
      BY <1>5, <2>1, <3>2
  <2>6. b = l
    <3>1. ~(l > b)
      BY <2>1, <2>3, <2>5
    <3>2. b \in Nat /\ b <= l
      BY <2>1
    <3>3. QED
      BY <2>1, <3>1, <3>2
  <2>7. a = 1 + (1 - Torn) /\ Torn \in {0, 1} /\ (Torn = 0 => rest[e + 1] = Break)
    <3>1. CASE rest[e + 1] = Break
      <4>1. tail[1] = Break /\ Torn = 0
        BY <1>4, <2>1, <2>2, <3>1
      <4>2. a # 1
        BY <2>5, <4>1
      <4>3. ~(a > 2)
        <5> SUFFICES ASSUME a > 2 PROVE FALSE
          OBVIOUS
        <5>1. 2 \in 1 .. l /\ 2 < a
          BY <2>1
        <5>2. tail[2] = Break /\ tail[2] = rest[e + 2]
          BY <2>2, <2>5, <5>1
        <5>3. e + 1 \in 1 .. n - 1 /\ (e + 1) + 1 = e + 2
          BY <1>1, <1>2, <2>1, <5>1
        <5>4. QED
          BY <1>1, <3>1, <5>2, <5>3
      <4>4. a \in Nat /\ a >= 1
        BY <2>1
      <4>5. a = 2
        BY <4>2, <4>3, <4>4
      <4>6. QED
        BY <3>1, <4>1, <4>5
    <3>2. CASE rest[e + 1] # Break
      <4>1. tail[1] # Break /\ Torn = 1
        BY <1>4, <2>1, <2>2, <2>4, <3>2
      <4>2. ~(1 < a)
        BY <2>1, <2>5, <4>1
      <4>3. a \in Nat /\ a >= 1
        BY <2>1
      <4>4. a = 1
        BY <4>2, <4>3
      <4>5. QED
        BY <4>1, <4>4
    <3>3. QED
      BY <3>1, <3>2
  <2>8. Len(After) = l - (1 - Torn) /\ Len(After) \in Nat /\ Len(After) >= 1
    BY <1>3, <2>1, <2>5, <2>6, <2>7
  <2>9. ASSUME NEW j \in 1 .. Len(After) PROVE After[j] = rest[e + (1 - Torn) + j]
    <3>1. a + j - 1 \in 1 .. l /\ e + (a + j - 1) = e + (1 - Torn) + j /\ j \in 1 .. b - a + 1
      BY <1>2, <2>1, <2>5, <2>6, <2>7
    <3>2. After[j] = tail[a + j - 1] /\ tail[a + j - 1] = rest[e + (a + j - 1)]
      BY <2>2, <2>5, <3>1
    <3>3. QED
      BY <3>1, <3>2
  <2>10. ~Gap(After)
    <3>1. After[1] # Break
      <4>1. 1 \in 1 .. b - a + 1 /\ a + 1 - 1 = a
        BY <2>5
      <4>2. QED
        BY <2>5, <4>1
    <3>2. After[Len(After)] # Break
      <4>1. b - a + 1 \in 1 .. b - a + 1 /\ a + (b - a + 1) - 1 = b
        BY <2>5
      <4>2. QED
        BY <2>5, <4>1
    <3>3. ASSUME NEW k \in 1 .. Len(After) - 1 PROVE ~(After[k] = Break /\ After[k + 1] = Break)
      <4> DEFINE q == e + (1 - Torn) + k
      <4>1. k \in 1 .. Len(After) /\ k + 1 \in 1 .. Len(After)
        BY <2>8
      <4>2. q \in 1 .. n - 1 /\ e + (1 - Torn) + (k + 1) = q + 1
        BY <1>1, <1>2, <2>1, <2>7, <2>8
      <4>3. After[k] = rest[q] /\ After[k + 1] = rest[q + 1]
        BY <2>9, <4>1, <4>2
      <4> HIDE DEF q
      <4>4. QED
        BY <1>1, <4>2, <4>3
    <3>4. QED
      BY <1>3, <2>4, <3>1, <3>2, <3>3, GapNot
  <2>11. QED
    BY <2>4, <2>7, <2>8, <2>9, <2>10 DEF l
<1>11. QED
  BY <1>8, <1>9, <1>10 DEF e, n

\* What was sent and what came back of it, once a reply is taken.
Going == Join(answers, rest)
Coming(reply) == IF After = <<>> THEN Join(answers, reply) ELSE Join(Join(answers, reply), After)
Instead(reply) == IF Torn = 1 THEN reply \o <<Break>> ELSE reply

LEMMA JoinedAlike ==
  ASSUME NEW x \in Seq(Tokens), NEW y \in Seq(Tokens), NEW z \in Seq(Tokens)
  PROVE  /\ \A k \in 1 .. Off(x) : Join(x, y)[k] = Join(x, z)[k]
<1>1. CASE x = <<>>
  <2>1. Off(x) = 0
    BY <1>1 DEF Off
  <2>2. QED
    BY <2>1
<1>2. CASE x # <<>>
  <2>1. Len(x) \in Nat /\ Off(x) = Len(x) + 1
    BY <1>2, JoinIs
  <2>2. ASSUME NEW k \in 1 .. Off(x) PROVE Join(x, y)[k] = Join(x, z)[k]
    <3>1. k \in 1 .. Len(x) \/ k = Len(x) + 1
      BY <2>1
    <3>2. CASE k \in 1 .. Len(x)
      <4>1. Join(x, y)[k] = x[k]
        BY <3>2, JoinIs
      <4>2. Join(x, z)[k] = x[k]
        BY <3>2, JoinIs
      <4>3. QED
        BY <4>1, <4>2
    <3>3. CASE k = Len(x) + 1
      <4>1. Join(x, y)[Len(x) + 1] = Break
        BY <1>2, JoinIs
      <4>2. Join(x, z)[Len(x) + 1] = Break
        BY <1>2, JoinIs
      <4>3. QED
        BY <3>3, <4>1, <4>2
    <3>4. QED
      BY <3>1, <3>2, <3>3
  <2>3. QED
    BY <2>2
<1>3. QED
  BY <1>1, <1>2

LEMMA InsteadIs ==
  ASSUME NEW reply \in Seq(Tokens)
  PROVE  /\ Instead(reply) \in Seq(Tokens)
         /\ Len(Instead(reply)) = Len(reply) + (IF Torn = 1 THEN 1 ELSE 0)
         /\ \A k \in 1 .. Len(reply) : Instead(reply)[k] = reply[k]
         /\ Torn = 1 => Instead(reply)[Len(reply) + 1] = Break
         /\ Count(Instead(reply)) = Count(reply) + (IF Torn = 1 THEN 1 ELSE 0)
<1>1. CASE Torn # 1
  <2>1. Instead(reply) = reply /\ Count(reply) \in Nat /\ Len(reply) \in Nat
    BY <1>1, LeadIs DEF Instead
  <2>2. QED
    BY <1>1, <2>1
<1>2. CASE Torn = 1
  <2> DEFINE y == reply \o <<Break>>
             n == Len(reply)
  <2>1. <<Break>> \in Seq(Tokens) /\ Len(<<Break>>) = 1 /\ <<Break>>[1] = Break /\ 1 \in 1 .. 1 /\ n \in Nat
    BY BreakIsToken
  <2>2. /\ y \in Seq(Tokens) /\ Len(y) = n + 1
        /\ \A k \in 1 .. n : y[k] = reply[k]
        /\ y[n + 1] = Break
    BY <2>1, TwoParts
  <2> HIDE DEF y
  <2>3. Without(y, reply, n + 1)
    <3>1. n + 1 \in 1 .. Len(y) /\ Len(reply) = Len(y) - 1 /\ (n + 1) - 1 = n /\ n + 1 .. Len(reply) = {}
      BY <2>1, <2>2
    <3>2. QED
      BY <2>2, <3>1 DEF Without
  <2>4. Count(reply) = Count(y) - 1
    BY <2>2, <2>3, WithoutOne
  <2>5. Count(y) \in Nat
    BY <2>2, LeadIs
  <2>6. Instead(reply) = y
    BY <1>2 DEF Instead, y
  <2>7. Count(y) = Count(reply) + 1
    BY <2>4, <2>5
  <2>8. QED
    BY <1>2, <2>2, <2>6, <2>7
<1>3. QED
  BY <1>1, <1>2

LEMMA TakenIs ==
  ASSUME rest \in Seq(Tokens), answers \in Seq(Tokens), size \in PieceSizes, ~Gap(rest),
         NEW reply \in Seq(Tokens), reply # <<>>
  PROVE  /\ Going \in Seq(Tokens) /\ Coming(reply) \in Seq(Tokens)
         /\ Replaced(Going, Coming(reply), Off(answers), Piece, Instead(reply))
<1> DEFINE e == PieceEnd
           n == Len(rest)
           a == Off(answers)
           l == Len(reply)
           joined == Join(answers, reply)
           z == Going
           w == Coming(reply)
           r == Instead(reply)
<1>1. /\ e \in 0 .. n /\ n \in Nat /\ Piece \in Seq(Tokens) /\ Len(Piece) = e
      /\ \A k \in 1 .. e : Piece[k] = rest[k]
      /\ After \in Seq(Tokens) /\ Torn \in {0, 1}
  BY PieceIs
<1>2. /\ z \in Seq(Tokens) /\ a \in Nat /\ Len(z) = a + n /\ \A k \in 1 .. n : z[a + k] = rest[k]
  BY JoinIs DEF Going
<1>3. /\ joined \in Seq(Tokens) /\ Len(joined) = a + l /\ \A k \in 1 .. l : joined[a + k] = reply[k]
  BY JoinIs
<1>4. l \in Nat /\ l >= 1
  BY EmptySeq
<1>5. joined # <<>>
  BY <1>2, <1>3, <1>4
<1>6. /\ r \in Seq(Tokens) /\ Len(r) = l + (IF Torn = 1 THEN 1 ELSE 0)
      /\ \A k \in 1 .. l : r[k] = reply[k]
      /\ Torn = 1 => r[l + 1] = Break
  BY InsteadIs
<1>7. \A k \in 1 .. a : z[k] = joined[k]
  BY JoinedAlike DEF Going
<1>8. /\ e = n => After = <<>> /\ Torn = 0
      /\ e # n => /\ After # <<>>
                  /\ Len(After) = n - e - (1 - Torn)
                  /\ \A j \in 1 .. Len(After) : After[j] = rest[e + (1 - Torn) + j]
                  /\ Torn = 0 => rest[e + 1] = Break
  BY PieceLines
<1>9. After # <<>> => /\ w \in Seq(Tokens) /\ Len(w) = a + l + 1 + Len(After)
                      /\ \A k \in 1 .. a + l : w[k] = joined[k]
                      /\ w[a + l + 1] = Break
                      /\ \A k \in 1 .. Len(After) : w[a + l + 1 + k] = After[k]
  <2>1. /\ Join(joined, After) \in Seq(Tokens) /\ Off(joined) = Len(joined) + 1
        /\ Len(Join(joined, After)) = Off(joined) + Len(After)
        /\ \A k \in 1 .. Len(joined) : Join(joined, After)[k] = joined[k]
        /\ Join(joined, After)[Len(joined) + 1] = Break
        /\ \A k \in 1 .. Len(After) : Join(joined, After)[Off(joined) + k] = After[k]
    <3>1. joined \in Seq(Tokens) /\ After \in Seq(Tokens) /\ joined # <<>>
      BY <1>1, <1>3, <1>5
    <3> HIDE DEF joined
    <3>2. QED
      BY <3>1, JoinBehind
  <2>2. After # <<>> => w = Join(joined, After)
    BY DEF Coming
  <2>3. QED
    BY <1>3, <2>1, <2>2
<1>10. After = <<>> => w = joined
  BY DEF Coming
<1> HIDE DEF e, n, a, l, joined, z, w, r
<1>11. \A k \in 1 .. a : k \in 1 .. a + l
  BY <1>2, <1>4
<1>12. \A k \in 1 .. l : a + k \in 1 .. a + l
  BY <1>2, <1>4
<1>13. \A k \in 1 .. e : z[a + k] = Piece[k]
  <2>1. \A k \in 1 .. e : k \in 1 .. n
    BY <1>1
  <2>2. QED
    BY <1>1, <1>2, <2>1
<1>14. \A k \in 1 .. a : w[k] = z[k]
  BY <1>7, <1>9, <1>10, <1>11
<1>15. \A k \in 1 .. l : w[a + k] = reply[k]
  BY <1>3, <1>9, <1>10, <1>12
<1>16. w \in Seq(Tokens)
  BY <1>3, <1>9, <1>10
<1>17. a + e <= a + n /\ a + n - a - e = n - e
  BY <1>1, <1>2
<1>18. CASE e = n
  <2>1. w = joined /\ Torn = 0 /\ Len(w) = a + l
    BY <1>3, <1>8, <1>10, <1>18
  <2>2. Len(r) = l /\ \A k \in 1 .. l : w[a + k] = r[k]
    BY <1>4, <1>6, <1>15, <2>1
  <2>3. (a + n) - e + l = a + l /\ 1 .. n - e = {}
    BY <1>1, <1>2, <1>4, <1>18
  <2>4. Replaced(z, w, a, Piece, r)
    <3>1. a \in Nat /\ a + Len(Piece) <= Len(z) /\ Len(w) = Len(z) - Len(Piece) + Len(r)
      BY <1>1, <1>2, <1>17, <2>1, <2>2, <2>3
    <3>2. \A k \in 1 .. Len(Piece) : z[a + k] = Piece[k]
      BY <1>1, <1>13
    <3>3. \A k \in 1 .. Len(r) : w[a + k] = r[k]
      BY <2>2
    <3>4. 1 .. Len(z) - a - Len(Piece) = {}
      <4>1. a \in Nat /\ n \in Nat /\ Len(z) = a + n /\ Len(Piece) = n
        BY <1>1, <1>2, <1>18
      <4>2. Len(z) - a - Len(Piece) = 0
        BY <4>1
      <4>3. QED
        BY <4>2
    <3>5. QED
      BY <1>14, <3>1, <3>2, <3>3, <3>4 DEF Replaced
  <2>5. QED
    BY <1>2, <1>16, <2>4 DEF z, w, a, r
<1>19. CASE e # n /\ Torn = 1
  <2>1. After # <<>> /\ Len(After) = n - e /\ \A j \in 1 .. n - e : After[j] = rest[e + j]
    <3>1. n - e - (1 - Torn) = n - e /\ \A j \in 1 .. n - e : e + (1 - Torn) + j = e + j
      BY <1>1, <1>19
    <3>2. QED
      BY <1>8, <1>19, <3>1
  <2>2. Len(r) = l + 1 /\ r[l + 1] = Break
    BY <1>6, <1>19
  <2>3. ASSUME NEW k \in 1 .. l + 1 PROVE w[a + k] = r[k]
    <3>1. CASE k \in 1 .. l
      BY <1>6, <1>15, <3>1
    <3>2. CASE k = l + 1
      <4>1. a + k = a + l + 1
        BY <1>2, <1>4, <3>2
      <4>2. QED
        BY <1>9, <2>1, <2>2, <3>2, <4>1
    <3>3. QED
      BY <1>4, <3>1, <3>2
  <2>4. ASSUME NEW k \in 1 .. n - e PROVE w[a + (l + 1) + k] = z[a + e + k]
    <3>1. a + (l + 1) + k = a + l + 1 + k /\ a + e + k = a + (e + k) /\ e + k \in 1 .. n
      <4>1. a \in Nat /\ l \in Nat /\ n \in Nat /\ e \in 0 .. n /\ k \in 1 .. n - e
        BY <1>1, <1>2, <1>4
      <4>2. e + k \in 1 .. n
        BY <4>1
      <4>3. QED
        BY <4>1, <4>2
    <3>2. w[a + l + 1 + k] = After[k] /\ After[k] = rest[e + k]
      BY <1>9, <2>1
    <3>3. QED
      BY <1>2, <3>1, <3>2
  <2>5. Len(w) = (a + n) - e + (l + 1)
    BY <1>1, <1>2, <1>4, <1>9, <2>1
  <2>6. Replaced(z, w, a, Piece, r)
    BY <1>1, <1>2, <1>13, <1>14, <1>17, <2>2, <2>3, <2>4, <2>5 DEF Replaced
  <2>7. QED
    BY <1>2, <1>16, <2>6 DEF z, w, a, r
<1>20. CASE e # n /\ Torn = 0
  <2>1. /\ After # <<>> /\ Len(After) = n - e - 1 /\ rest[e + 1] = Break
        /\ \A j \in 1 .. n - e - 1 : After[j] = rest[e + 1 + j]
    <3>1. n - e - (1 - Torn) = n - e - 1 /\ \A j \in 1 .. n - e - 1 : e + (1 - Torn) + j = e + 1 + j
      BY <1>1, <1>20
    <3>2. QED
      BY <1>8, <1>20, <3>1
  <2>2. Len(r) = l /\ \A k \in 1 .. l : w[a + k] = r[k]
    BY <1>4, <1>6, <1>15, <1>20
  <2>3. ASSUME NEW k \in 1 .. n - e PROVE w[a + l + k] = z[a + e + k]
    <3>1. a + e + k = a + (e + k) /\ e + k \in 1 .. n
      BY <1>1, <1>2
    <3>2. z[a + e + k] = rest[e + k]
      BY <1>2, <3>1
    <3>3. CASE k = 1
      BY <1>9, <2>1, <3>2, <3>3
    <3>4. CASE k # 1
      <4> DEFINE j == k - 1
      <4>1. j \in 1 .. n - e - 1 /\ a + l + k = a + l + 1 + j /\ e + 1 + j = e + k
        BY <1>1, <1>2, <1>4, <3>4
      <4> HIDE DEF j
      <4>2. w[a + l + 1 + j] = After[j] /\ After[j] = rest[e + 1 + j]
        BY <1>9, <2>1, <4>1
      <4>3. QED
        BY <3>2, <4>1, <4>2
    <3>5. QED
      BY <3>3, <3>4
  <2>4. Len(w) = (a + n) - e + l
    <3>1. Len(w) = a + l + 1 + (n - e - 1)
      BY <1>9, <2>1
    <3>2. QED
      BY <1>1, <1>2, <1>4, <3>1
  <2>5. Replaced(z, w, a, Piece, r)
    BY <1>1, <1>2, <1>13, <1>14, <1>17, <2>2, <2>3, <2>4 DEF Replaced
  <2>6. QED
    BY <1>2, <1>16, <2>5 DEF z, w, a, r
<1>21. QED
  BY <1>1, <1>18, <1>19, <1>20

\* A reply with the lines of its piece leaves the lines of the whole.
LEMMA ReplacedShape ==
  ASSUME NEW x \in Seq(Tokens), NEW y \in Seq(Tokens), NEW a, NEW c \in Seq(Tokens), NEW r \in Seq(Tokens),
         Replaced(x, y, a, c, r), Shape(c, r)
  PROVE  Shape(x, y)
<1> DEFINE n == Len(x)
           m == Len(c)
<1>1. n \in Nat /\ m \in Nat /\ a \in Nat /\ a + m <= n /\ Len(r) = m /\ Len(y) = n
  BY DEF Replaced, Shape
<1>2. /\ \A k \in 1 .. a : y[k] = x[k]
      /\ \A k \in 1 .. m : x[a + k] = c[k] /\ y[a + k] = r[k]
      /\ \A k \in 1 .. n - a - m : y[a + m + k] = x[a + m + k]
  BY <1>1 DEF Replaced
<1>3. \A k \in 1 .. m : (c[k] = Break <=> r[k] = Break) /\ (Owned(r[k]) => Owned(c[k]) /\ r[k].of = c[k].of)
  BY DEF Shape
<1> HIDE DEF n, m
<1>4. ASSUME NEW k \in 1 .. n
      PROVE  (x[k] = Break <=> y[k] = Break) /\ (Owned(y[k]) => Owned(x[k]) /\ y[k].of = x[k].of)
  <2>1. CASE k <= a
    <3>1. k \in 1 .. a
      BY <1>1, <2>1
    <3>2. QED
      BY <1>2, <3>1
  <2>2. CASE k > a /\ k <= a + m
    <3> DEFINE j == k - a
    <3>1. j \in 1 .. m /\ a + j = k
      BY <1>1, <2>2
    <3> HIDE DEF j
    <3>2. x[k] = c[j] /\ y[k] = r[j]
      BY <1>2, <3>1
    <3>3. QED
      BY <1>3, <3>1, <3>2
  <2>3. CASE k > a + m
    <3> DEFINE j == k - (a + m)
    <3>1. j \in 1 .. n - a - m /\ a + m + j = k
      BY <1>1, <2>3
    <3> HIDE DEF j
    <3>2. QED
      BY <1>2, <3>1
  <2>4. QED
    BY <1>1, <2>1, <2>2, <2>3
<1>5. QED
  BY <1>1, <1>4 DEF Shape, n

\* A line with nothing in it that stands before the piece is still there.
LEMMA ReplacedGap ==
  ASSUME NEW x \in Seq(Tokens), NEW y \in Seq(Tokens), NEW b \in Seq(Tokens), NEW a, NEW c \in Seq(Tokens),
         NEW r \in Seq(Tokens), Replaced(x, y, a, c, r), ~Gap(b), Len(x) = a + Len(b),
         \A k \in 1 .. Len(b) : x[a + k] = b[k], Gap(x)
  PROVE  Gap(y)
<1>1. /\ a \in Nat /\ Len(x) \in Nat /\ Len(y) \in Nat /\ a <= Len(y)
      /\ \A k \in 1 .. a : y[k] = x[k]
  <2>1. /\ Len(c) \in Nat /\ Len(r) \in Nat /\ Len(x) \in Nat /\ Len(y) \in Nat /\ a \in Nat
        /\ a + Len(c) <= Len(x) /\ Len(y) = Len(x) - Len(c) + Len(r)
    BY DEF Replaced
  <2>2. a <= Len(y)
    BY <2>1
  <2>3. QED
    BY <2>1, <2>2 DEF Replaced
<1>2. /\ Len(b) \in Nat /\ Len(b) >= 1 /\ b[1] # Break /\ b[Len(b)] # Break
      /\ \A k \in 1 .. Len(b) - 1 : ~(b[k] = Break /\ b[k + 1] = Break)
  BY NoGap
<1>3. PICK k \in 0 .. Len(x) : (k = 0 \/ x[k] = Break) /\ (k = Len(x) \/ x[k + 1] = Break)
  BY DEF Gap
<1>4. CASE k + 1 <= a
  <2>1. k \in 0 .. Len(y) /\ k + 1 \in 1 .. a /\ (k = 0 \/ k \in 1 .. a) /\ k # Len(x)
    BY <1>1, <1>2, <1>4
  <2>2. QED
    BY <1>1, <1>3, <2>1 DEF Gap
<1>5. CASE k = a
  <2>1. k # Len(x) /\ 1 \in 1 .. Len(b) /\ k + 1 = a + 1
    BY <1>1, <1>2, <1>5
  <2>2. x[k + 1] # Break
    BY <1>2, <2>1
  <2>3. QED
    BY <1>3, <2>1, <2>2
<1>6. CASE k > a
  <2> DEFINE j == k - a
             n == Len(b)
  <2>0. n \in Nat /\ Len(x) = a + n /\ k \in 0 .. a + n /\ a \in Nat /\ k > a
    BY <1>1, <1>2, <1>6
  <2> HIDE DEF n
  <2>1. /\ j \in 1 .. n /\ a + j = k /\ k # 0
        /\ k = Len(x) => j = n
        /\ k # Len(x) => j \in 1 .. n - 1 /\ j + 1 \in 1 .. n /\ a + (j + 1) = k + 1
    <3>1. j \in 1 .. n /\ a + j = k /\ k # 0
      BY <2>0
    <3>2. k = a + n => j = n
      BY <2>0
    <3>3. k # a + n => j \in 1 .. n - 1 /\ j + 1 \in 1 .. n /\ a + (j + 1) = k + 1
      BY <2>0
    <3>4. QED
      BY <2>0, <3>1, <3>2, <3>3
  <2> USE DEF n
  <2> HIDE DEF j
  <2>2. b[j] = Break /\ (k # Len(x) => b[j + 1] = Break)
    BY <1>3, <2>1
  <2>3. QED
    BY <1>2, <2>1, <2>2
<1>7. QED
  BY <1>1, <1>4, <1>5, <1>6

LEMMA Apart ==
  ASSUME NEW u \in Nat, NEW v \in Nat, NEW w \in Nat
  PROVE  (1 + (u + v)) - (1 + (u + w)) = v - w
  OBVIOUS

\* A reply whose words drift leaves the others in their lines.
LEMMA ReplacedDrift ==
  ASSUME NEW x \in Seq(Tokens), NEW y \in Seq(Tokens), NEW b \in Seq(Tokens), NEW a, NEW c \in Seq(Tokens),
         NEW r \in Seq(Tokens), Replaced(x, y, a, c, r), Drifting(c, r),
         ~Gap(b), Len(x) = a + Len(b), \A k \in 1 .. Len(b) : x[a + k] = b[k],
         NEW S, NEW s, NEW d, NEW l \in Nat, l <= a, Sound(S, x, s, l, d)
  PROVE  Sound(S, y, s, a + Len(r), TRUE)
<1> DEFINE m == Len(c)
           n == Len(x)
<1>1. /\ m \in Nat /\ n \in Nat /\ a \in Nat /\ Len(r) = m /\ Len(y) = n /\ a + m <= n
      /\ DOMAIN y = 1 .. n /\ DOMAIN x = 1 .. n /\ Count(c) = Count(r)
      /\ Len(c) = m /\ Len(x) = n
  BY DEF Replaced, Drifting
<1>2. /\ \A k \in 1 .. a : y[k] = x[k]
      /\ \A k \in 1 .. m : x[a + k] = c[k] /\ y[a + k] = r[k]
      /\ \A k \in 1 .. n - a - m : y[a + m + k] = x[a + m + k]
  BY <1>1 DEF Replaced
<1>3. /\ \A k \in 1 .. m : Owned(r[k]) =>
           \E j \in 1 .. m : Owned(c[j]) /\ c[j].of = r[k].of /\ Lead(c, j) - Lead(r, k) \in -1 .. 1
  BY <1>1 DEF Drifting
<1>4. Count(y) = Count(x)
  <2>1. Count(y) + Count(c) = Count(x) + Count(r)
    BY ReplacedCounts
  <2>2. Count(y) \in Nat /\ Count(c) \in Nat /\ Count(x) \in Nat
    BY LeadIs
  <2>3. QED
    BY <1>1, <2>1, <2>2
<1>5. Gap(x) => Gap(y)
  BY ReplacedGap
<1>6. /\ \A k \in 1 .. a : Lead(y, k) = Lead(x, k)
      /\ \A k \in 1 .. m : /\ Lead(x, a + k) = Lead(x, a + 1) + Lead(c, k)
                          /\ Lead(y, a + k) = Lead(x, a + 1) + Lead(r, k)
      /\ \A k \in a + m + 1 .. n : Lead(y, k) = Lead(x, k)
  BY ReplacedLeads
<1>7. /\ \A k \in 1 .. n + 1 : Lead(x, k) \in Nat /\ Lead(y, k) \in Nat
      /\ \A k \in 1 .. m + 1 : Lead(c, k) \in Nat /\ Lead(r, k) \in Nat
  BY <1>1, LeadIs
<1> HIDE DEF m, n
<1>8. ASSUME Lined(S, x, l, d) PROVE Lined(S, y, a + m, TRUE)
  <2> SUFFICES ASSUME NEW k \in 1 .. n, Owned(y[k])
               PROVE  /\ y[k].of \in S /\ Place(S, y[k].of) - (1 + Lead(y, k)) \in -1 .. 1
                      /\ Place(S, y[k].of) = 1 + Lead(y, k) \/ k <= a + m
    BY <1>1 DEF Lined
  <2>1. CASE k <= a
    <3>1. k \in 1 .. a /\ k <= a + m
      BY <1>1, <2>1
    <3>2. y[k] = x[k] /\ Lead(y, k) = Lead(x, k) /\ k \in DOMAIN x
      BY <1>1, <1>2, <1>6, <3>1
    <3>3. QED
      BY <1>8, <3>1, <3>2 DEF Lined
  <2>2. CASE k > a /\ k <= a + m
    <3> DEFINE i == k - a
    <3>1. i \in 1 .. m /\ a + i = k
      BY <1>1, <2>2
    <3> HIDE DEF i
    <3>2. y[k] = r[i]
      BY <1>2, <3>1
    <3>3. PICK j \in 1 .. m : Owned(c[j]) /\ c[j].of = r[i].of /\ Lead(c, j) - Lead(r, i) \in -1 .. 1
      BY <1>3, <3>1, <3>2
    <3>4. x[a + j] = c[j] /\ a + j \in DOMAIN x /\ ~(a + j <= l)
      BY <1>1, <1>2
    <3>5. x[a + j].of \in S /\ Place(S, x[a + j].of) = 1 + Lead(x, a + j)
      BY <1>8, <3>3, <3>4 DEF Lined
    <3>6. Lead(x, a + j) = Lead(x, a + 1) + Lead(c, j) /\ Lead(y, k) = Lead(x, a + 1) + Lead(r, i)
      BY <1>6, <3>1
    <3>7. /\ Lead(x, a + 1) \in Nat /\ Lead(c, j) \in Nat /\ Lead(r, i) \in Nat
      <4>1. a + 1 \in 1 .. n + 1 /\ j \in 1 .. m + 1 /\ i \in 1 .. m + 1
        BY <1>1, <3>1
      <4>2. QED
        BY <1>7, <4>1
    <3>8. Place(S, y[k].of) = 1 + (Lead(x, a + 1) + Lead(c, j)) /\ y[k].of \in S
      BY <3>2, <3>3, <3>4, <3>5, <3>6
    <3>9. (1 + (Lead(x, a + 1) + Lead(c, j))) - (1 + (Lead(x, a + 1) + Lead(r, i))) \in -1 .. 1
      BY <3>3, <3>7, Apart
    <3>10. QED
      BY <2>2, <3>6, <3>8, <3>9
  <2>3. CASE k > a + m
    <3> DEFINE i == k - (a + m)
    <3>0. a \in Nat /\ m \in Nat /\ n \in Nat /\ k \in 1 .. n /\ k > a + m
      BY <1>1, <2>3
    <3>1. i \in 1 .. n - a - m /\ a + m + i = k /\ k \in a + m + 1 .. n
      <4>1. a + m + i = k /\ k \in a + m + 1 .. n
        BY <3>0
      <4>2. i \in 1 .. n - a - m
        BY <3>0
      <4>3. QED
        BY <4>1, <4>2
    <3> HIDE DEF i
    <3>2. y[k] = x[k] /\ Lead(y, k) = Lead(x, k) /\ k \in DOMAIN x
      BY <1>1, <1>2, <1>6, <3>1
    <3>3. ~(k <= l)
      BY <3>0
    <3>4. x[k].of \in S /\ Place(S, x[k].of) - (1 + Lead(x, k)) \in -1 .. 1 /\ Place(S, x[k].of) = 1 + Lead(x, k)
      BY <1>8, <3>2, <3>3 DEF Lined
    <3>5. QED
      BY <3>2, <3>4
  <2>4. QED
    BY <1>1, <2>1, <2>2, <2>3
<1>9. Sound(S, y, s, a + m, TRUE)
  BY <1>4, <1>5, <1>8 DEF Sound
<1>10. QED
  BY <1>1, <1>9

\* What a reply may be that is taken, with the slips it counts for and the drift after it.
Taken(base, slip, d, e) == \/ base \in Straight(Piece) /\ slip = 0 /\ (d => e)
                           \/ base \in Slipped(Piece) /\ slip = 1
                           \/ base \in Shifted(Piece) /\ slip = 0 /\ e

LEMMA TakenKinds ==
  ASSUME rest \in Seq(Tokens), size \in PieceSizes, ~Gap(rest), map \in Seq(Surfaces),
         NEW base, NEW slip, NEW d, NEW e, Taken(base, slip, d, e),
         NEW g \in [Tags(base) -> Fates], NEW reply, reply = Trim(Garbled(base, g)), ~ReplyDegenerate(Piece, reply)
  PROVE  /\ Piece \in Seq(Tokens) /\ ~Gap(Piece) /\ Torn \in {0, 1} /\ slip \in {0, 1}
         /\ reply \in Seq(Tokens) /\ reply # <<>> /\ Echoes(reply, Piece, Renumbered(base, g))
         /\ slip = 0 => (Shape(Piece, reply) /\ (d => e)) \/ (Drifting(Piece, reply) /\ e)
         /\ slip = 1 => Differs(Piece, reply)
<1>1. Piece \in Seq(Tokens) /\ ~Gap(Piece) /\ Torn \in {0, 1}
  BY PieceIs, PieceLines
<1>2. base \in Straight(Piece) \cup Slipped(Piece) \cup Shifted(Piece)
  BY DEF Taken
<1>3. reply \in Seq(Tokens) /\ Echoes(reply, Piece, Renumbered(base, g))
  BY <1>1, <1>2, ReplyEchoes
<1>4. reply # <<>>
  <2>1. 1 \in DOMAIN Piece /\ Piece[1] # Break
    BY <1>1, NoGap
  <2>2. ReplyDegenerate(Piece, <<>>)
    BY <1>1, <2>1, NothingIsNoReply
  <2>3. QED
    BY <2>2
<1>5. base \in Straight(Piece) => Shape(Piece, reply)
  BY <1>1, StraightReply
<1>6. base \in Slipped(Piece) => Differs(Piece, reply)
  BY <1>1, SlippedReply
<1>7. base \in Shifted(Piece) => Drifting(Piece, reply)
  BY <1>1, ShiftedReply
<1>8. QED
  BY <1>1, <1>3, <1>4, <1>5, <1>6, <1>7 DEF Taken

LEMMA ReplyCounts ==
  ASSUME NEW z \in Seq(Tokens), NEW w \in Seq(Tokens), NEW r \in Seq(Tokens), Piece \in Seq(Tokens),
         Replaced(z, w, Off(answers), Piece, r)
  PROVE  /\ Count(w) + Count(Piece) = Count(z) + Count(r)
         /\ \A k \in 1 .. Len(r) - 1 : r[k] = Break /\ r[k + 1] = Break => Gap(w)
<1>1. Count(w) + Count(Piece) = Count(z) + Count(r)
  BY ReplacedCounts
<1>2. \A k \in 1 .. Len(r) - 1 : r[k] = Break /\ r[k + 1] = Break => Gap(w)
  BY ReplacedGaps
<1>3. QED
  BY <1>1, <1>2

\* Whatever the reply: what is wrong with its lines adds up, or is gone again only where
\* it was counted twice.
LEMMA TakenSound ==
  ASSUME rest \in Seq(Tokens), answers \in Seq(Tokens), size \in PieceSizes, ~Gap(rest), map \in Seq(Surfaces),
         NEW d, slips \in Nat, Sound(todo, Going, slips, Len(answers), d), Cardinality(todo) \in Nat,
         NEW base, NEW slip, NEW e, Taken(base, slip, d, e),
         NEW g \in [Tags(base) -> Fates], NEW reply, reply = Trim(Garbled(base, g)), ~ReplyDegenerate(Piece, reply)
  PROVE  /\ Coming(reply) \in Seq(Tokens)
         /\ Sound(todo, Coming(reply), slips + slip + Torn, Off(answers) + Len(reply), e)
<1>1. /\ Piece \in Seq(Tokens) /\ ~Gap(Piece) /\ Torn \in {0, 1} /\ slip \in {0, 1}
      /\ reply \in Seq(Tokens) /\ reply # <<>>
      /\ slip = 0 => (Shape(Piece, reply) /\ (d => e)) \/ (Drifting(Piece, reply) /\ e)
      /\ slip = 1 => Differs(Piece, reply)
  BY TakenKinds
<1> DEFINE z == Going
           w == Coming(reply)
           r == Instead(reply)
           N == Cardinality(todo)
           a == Off(answers)
<1>2. z \in Seq(Tokens) /\ w \in Seq(Tokens) /\ Replaced(z, w, a, Piece, r)
  BY <1>1, TakenIs
<1>3. r \in Seq(Tokens) /\ Count(r) = Count(reply) + (IF Torn = 1 THEN 1 ELSE 0) /\ Len(r) = Len(reply) + (IF Torn = 1 THEN 1 ELSE 0)
      /\ \A k \in 1 .. Len(reply) : r[k] = reply[k]
  BY <1>1, InsteadIs
<1>4. Torn = 0 => r = reply
  BY DEF Instead
<1>5. /\ a \in Nat /\ Len(answers) \in Nat /\ Len(answers) <= a /\ Len(z) = a + Len(rest)
      /\ \A k \in 1 .. Len(rest) : z[a + k] = rest[k]
  <2>1. /\ a \in Nat /\ Len(z) = a + Len(rest) /\ \A k \in 1 .. Len(rest) : z[a + k] = rest[k]
    BY JoinIs DEF Going
  <2>2. Len(answers) \in Nat /\ (answers = <<>> => Len(answers) = 0)
    BY EmptySeq
  <2>3. Len(answers) <= a
    BY <2>1, <2>2 DEF Off
  <2>4. QED
    BY <2>1, <2>2, <2>3
<1> DEFINE b == a + Len(reply)
<1>6. Len(reply) \in Nat /\ b \in Nat /\ Len(answers) <= b
  <2>1. Len(reply) \in Nat
    BY <1>1
  <2>2. QED
    BY <1>5, <2>1
<1>7. Sound(todo, z, slips, Len(answers), d)
  BY DEF z
<1> HIDE DEF z, w, r, a
<1>8. /\ Count(w) + Count(Piece) = Count(z) + Count(r)
      /\ \A k \in 1 .. Len(r) - 1 : r[k] = Break /\ r[k + 1] = Break => Gap(w)
  BY <1>1, <1>2, <1>3, ReplyCounts DEF a
<1>9. Count(w) \in Nat /\ Count(z) \in Nat /\ Count(Piece) \in Nat /\ Count(reply) \in Nat
  BY <1>1, <1>2, LeadIs
<1>10. slip = 0 => Count(reply) = Count(Piece)
  <2>1. Shape(Piece, reply) => Count(reply) = Count(Piece)
    BY <1>1, Shaped
  <2>2. Drifting(Piece, reply) => Count(reply) = Count(Piece)
    BY DEF Drifting
  <2>3. QED
    BY <1>1, <2>1, <2>2
<1> HIDE DEF b
<1>11. CASE Torn = 0 /\ slip = 0 /\ Shape(Piece, reply) /\ (d => e)
  <2>1. Shape(z, w)
    BY <1>1, <1>2, <1>4, <1>11, ReplacedShape
  <2>2. Sound(todo, w, slips, Len(answers), d)
    BY <1>2, <1>7, <2>1, Shaped
  <2>3. Sound(todo, w, slips, b, e)
    BY <1>2, <1>5, <1>6, <1>11, <2>2, SoundMore
  <2>4. slips + slip + Torn = slips
    BY <1>11
  <2>5. QED
    BY <1>2, <2>3, <2>4 DEF w, a, b
<1>12. CASE Torn = 0 /\ slip = 0 /\ Drifting(Piece, reply) /\ e
  <2>1. Replaced(z, w, a, Piece, reply)
    BY <1>2, <1>4, <1>12
  <2>2. Sound(todo, w, slips, a + Len(reply), TRUE)
    <3>1. PICK c : c = Piece
      OBVIOUS
    <3>2. c \in Seq(Tokens) /\ Replaced(z, w, a, c, reply) /\ Drifting(c, reply)
      BY <1>1, <1>12, <2>1, <3>1
    <3>3. QED
      BY <1>1, <1>2, <1>5, <1>7, <3>2, ReplacedDrift
  <2>3. Sound(todo, w, slips, b, e)
    BY <1>12, <2>2 DEF b
  <2>4. slips + slip + Torn = slips
    BY <1>12
  <2>5. QED
    BY <1>2, <2>3, <2>4 DEF w, a, b
<1>13. CASE Torn = 0 /\ slip = 1
  <2>1. slips + slip + Torn = slips + 1
    BY <1>13
  <2>2. slips = 0 => Count(w) + 1 # N \/ Gap(w)
    <3> SUFFICES ASSUME slips = 0, Count(w) + 1 = N PROVE Gap(w)
      OBVIOUS
    <3>1. Count(z) + 1 = N
      BY <1>7 DEF Sound
    <3>2. Count(reply) = Count(Piece)
      BY <1>4, <1>8, <1>9, <1>13, <3>1
    <3>3. QED
      BY <1>1, <1>4, <1>8, <1>13, <3>2 DEF Differs
  <2>3. Sound(todo, w, slips + 1, b, e)
    <3>1. slips + 1 # 0 /\ (slips + 1 = 1 => slips = 0)
      OBVIOUS
    <3>2. QED
      BY <2>2, <3>1 DEF Sound
  <2>4. QED
    BY <1>2, <2>1, <2>3 DEF w, a, b
<1>14. CASE Torn = 1
  <2>1. slips + slip + Torn = slips + slip + 1 /\ slip \in {0, 1}
    BY <1>1, <1>14
  <2>2. slips = 0 /\ slip = 0 => Count(w) + 1 # N
    <3> SUFFICES ASSUME slips = 0, slip = 0 PROVE Count(w) + 1 # N
      OBVIOUS
    <3>1. Count(z) + 1 = N
      BY <1>7 DEF Sound
    <3>2. Count(r) = Count(reply) + 1
      BY <1>3, <1>14
    <3>3. QED
      BY <1>8, <1>9, <1>10, <3>1, <3>2
  <2>3. Sound(todo, w, slips + slip + 1, b, e)
    <3>1. slips + slip + 1 # 0 /\ (slips + slip + 1 = 1 => slips = 0 /\ slip = 0)
      BY <2>1
    <3>2. QED
      BY <2>2, <3>1 DEF Sound
  <2>4. QED
    BY <1>2, <2>1, <2>3 DEF w, a, b
<1>15. QED
  BY <1>1, <1>11, <1>12, <1>13, <1>14

-----------------------------------------------------------------------------
(* Whose the words are. *)

Surfs(S) == UNION {Surf(i) : i \in S}

\* The map has only words of the texts S.
Known(S, m) == \A j \in 1 .. Len(m) : m[j] \in Surfs(S)

\* A word belongs to one of the texts S; a tag is in the map, for a word of that text, or
\* if they were mixed it may have any number, and a term be of any of the texts.
Fits(S, e, m, mixed) ==
  Owned(e) => /\ e.of \in S
              /\ e.t = "tag"  => mixed \/ (e.n < Len(m) /\ m[e.n + 1] \in Surf(e.of))
              /\ e.t = "word" => e.s \in Surf(e.of)
              /\ e.t = "term" => e.s \in Surf(e.of) \/ (mixed /\ e.s \in Surfs(S))
Fitting(S, x, m, mixed) == \A k \in 1 .. Len(x) : Fits(S, x[k], m, mixed)

LEMMA FittingNothing == \A S, m, q : Fitting(S, <<>>, m, q)
  BY DEF Fitting

\* What is made of words that fit, fits.
LEMMA FittingEcho ==
  ASSUME NEW x \in Seq(Tokens), NEW y \in Seq(Tokens), NEW S, NEW m, NEW q, Fitting(S, x, m, q),
         NEW r, Echoes(y, x, r), r => q
  PROVE  Fitting(S, y, m, q)
<1> SUFFICES ASSUME NEW k \in 1 .. Len(y) PROVE Fits(S, y[k], m, q)
  BY DEF Fitting
<1>1. Echo(y[k], x, r)
  BY DEF Echoes
<1>2. CASE y[k] \in {Break, Loop}
  BY <1>2, BreakIsToken DEF Fits
<1>3. ASSUME NEW j \in DOMAIN x, y[k] = x[j] PROVE Fits(S, y[k], m, q)
  BY <1>3 DEF Fitting
<1>4. ASSUME NEW j \in DOMAIN x, x[j].t = "tag" PROVE x[j].of \in S /\ x[j].of \in Items
  <2>1. x[j] \in Tokens /\ Owned(x[j]) /\ x[j].of \in Items
    BY <1>4, TokenKinds
  <2>2. x[j].of \in S
    BY <2>1 DEF Fitting, Fits
  <2>3. QED
    BY <2>1, <2>2
<1>5. ASSUME NEW j \in DOMAIN x, x[j].t = "tag", NEW b \in DebrisKinds, y[k] = Debris(b, x[j].of)
      PROVE  Fits(S, y[k], m, q)
  <2>1. x[j].of \in S /\ x[j].of \in Items
    BY <1>4, <1>5
  <2>2. y[k].t = b /\ y[k].of = x[j].of /\ b \notin {"tag", "word", "term"}
    BY <1>5, <2>1, TokenMade DEF DebrisKinds
  <2>3. QED
    BY <2>1, <2>2 DEF Fits
<1>6. ASSUME NEW j \in DOMAIN x, r, x[j].t = "tag", NEW n \in Nat, y[k] = Tag(n, x[j].of)
      PROVE  Fits(S, y[k], m, q)
  <2>1. x[j].of \in S /\ x[j].of \in Items
    BY <1>4, <1>6
  <2>2. y[k].t = "tag" /\ y[k].of = x[j].of
    BY <1>6, <2>1, TokenMade
  <2>3. QED
    BY <1>6, <2>1, <2>2 DEF Fits
<1>7. QED
  BY <1>1, <1>2, <1>3, <1>5, <1>6 DEF Echo

LEMMA FittingPart ==
  ASSUME NEW x \in Seq(Tokens), NEW y \in Seq(Tokens), NEW S, NEW m, NEW q, Fitting(S, x, m, q),
         \A k \in 1 .. Len(y) : \E j \in 1 .. Len(x) : y[k] = x[j]
  PROVE  Fitting(S, y, m, q)
<1>1. Echoes(y, x, FALSE)
  BY DEF Echoes, Echo
<1>2. QED
  BY <1>1, FittingEcho

\* What fits, fits when more is mixed.
LEMMA FittingAlso ==
  ASSUME NEW x, NEW S, NEW m, NEW q, NEW r, q => r, Fitting(S, x, m, q)
  PROVE  Fitting(S, x, m, r)
  BY DEF Fitting, Fits

LEMMA FittingMore ==
  ASSUME NEW x \in Seq(Tokens), NEW S, NEW m \in Seq(Surfaces), NEW s \in Surfaces, NEW q, Fitting(S, x, m, q)
  PROVE  Fitting(S, x, Append(m, s), q)
<1> SUFFICES ASSUME NEW k \in 1 .. Len(x), Owned(x[k]), x[k].t = "tag", ~q
             PROVE  x[k].n < Len(Append(m, s)) /\ Append(m, s)[x[k].n + 1] \in Surf(x[k].of)
  BY DEF Fitting, Fits
<1>1. x[k] \in Tokens /\ x[k].n \in Nat
  BY TokenKinds
<1>2. x[k].n < Len(m) /\ m[x[k].n + 1] \in Surf(x[k].of)
  BY DEF Fitting, Fits
<1>3. Len(Append(m, s)) = Len(m) + 1 /\ Len(m) \in Nat /\ \A j \in 1 .. Len(m) : Append(m, s)[j] = m[j]
  BY AppendProperties
<1>4. x[k].n + 1 \in 1 .. Len(m) /\ x[k].n < Len(m) + 1
  BY <1>1, <1>2, <1>3
<1>5. QED
  BY <1>2, <1>3, <1>4

LEMMA FittingJoin ==
  ASSUME NEW x \in Seq(Tokens), NEW y \in Seq(Tokens), NEW S, NEW m, NEW q, Fitting(S, x, m, q), Fitting(S, y, m, q)
  PROVE  Fitting(S, Join(x, y), m, q)
<1> SUFFICES ASSUME NEW k \in 1 .. Len(Join(x, y)) PROVE Fits(S, Join(x, y)[k], m, q)
  BY DEF Fitting
<1>1. /\ Off(x) \in Nat /\ Len(Join(x, y)) = Off(x) + Len(y) /\ Len(y) \in Nat
      /\ \A j \in 1 .. Len(x) : Join(x, y)[j] = x[j]
      /\ x # <<>> => Off(x) = Len(x) + 1 /\ Len(x) \in Nat /\ Join(x, y)[Len(x) + 1] = Break
      /\ x = <<>> => Off(x) = 0
      /\ \A j \in 1 .. Len(y) : Join(x, y)[Off(x) + j] = y[j]
  BY JoinIs
<1>2. CASE k <= Off(x)
  <2>1. x # <<>> /\ k \in 1 .. Len(x) \cup {Len(x) + 1}
    BY <1>1, <1>2
  <2>2. CASE k = Len(x) + 1
    BY <1>1, <2>1, <2>2, BreakIsToken DEF Fits
  <2>3. CASE k \in 1 .. Len(x)
    BY <1>1, <2>3 DEF Fitting
  <2>4. QED
    BY <2>1, <2>2, <2>3
<1>3. CASE k > Off(x)
  <2> DEFINE j == k - Off(x)
  <2>1. j \in 1 .. Len(y) /\ Off(x) + j = k
    BY <1>1, <1>3
  <2> HIDE DEF j
  <2>2. Join(x, y)[k] = y[j]
    BY <1>1, <2>1
  <2>3. QED
    BY <2>1, <2>2 DEF Fitting
<1>4. QED
  BY <1>1, <1>2, <1>3

\* The tags are put back in their places, each for the word it stands for.
LEMMA RestoredIs ==
  ASSUME NEW x \in Seq(Tokens), NEW m \in Seq(Surfaces), NEW S, NEW q, Fitting(S, x, m, q), Known(S, m)
  PROVE  Restored(x, m) \in Seq(Tokens) /\ Shape(x, Restored(x, m)) /\ Fitting(S, Restored(x, m), m, q)
<1> DEFINE g(k) == IF x[k].t = "tag" /\ x[k].n < Len(m) THEN Term(m[x[k].n + 1], x[k].of) ELSE x[k]
<1>1. Len(x) \in Nat /\ DOMAIN x = 1 .. Len(x) /\ \A k \in 1 .. Len(x) : x[k] \in Tokens
  OBVIOUS
<1>2. ASSUME NEW k \in 1 .. Len(x)
      PROVE  /\ g(k) \in Tokens /\ (x[k] = Break <=> g(k) = Break)
             /\ Owned(g(k)) => Owned(x[k]) /\ g(k).of = x[k].of
             /\ Fits(S, g(k), m, q)
  <2>1. Fits(S, x[k], m, q)
    BY DEF Fitting
  <2>2. CASE x[k].t = "tag" /\ x[k].n < Len(m)
    <3>1. x[k] \in Tokens /\ x[k] # Break /\ Owned(x[k]) /\ x[k].of \in Items /\ x[k].n \in Nat
      BY <1>1, <2>2, TokenKinds
    <3>2. x[k].of \in S /\ (q \/ m[x[k].n + 1] \in Surf(x[k].of))
      BY <2>1, <2>2, <3>1 DEF Fits
    <3>3. x[k].n + 1 \in 1 .. Len(m) /\ m[x[k].n + 1] \in Surfaces /\ m[x[k].n + 1] \in Surfs(S)
      <4>1. Len(m) \in Nat
        OBVIOUS
      <4>2. x[k].n + 1 \in 1 .. Len(m)
        BY <2>2, <3>1, <4>1
      <4>3. QED
        BY <4>2 DEF Known
    <3> DEFINE s == m[x[k].n + 1]
               i == x[k].of
    <3>4. g(k) = Term(s, i)
      BY <2>2
    <3>5. s \in Surfaces /\ i \in Items /\ (q \/ s \in Surf(i)) /\ s \in Surfs(S) /\ i \in S
      BY <3>1, <3>2, <3>3
    <3> HIDE DEF s, i, g
    <3>6. g(k) \in Tokens /\ g(k).t = "term" /\ g(k).of = i /\ g(k).s = s
      BY <3>4, <3>5, TokenMade
    <3>7. g(k) # Break
      BY <3>6, TokenKinds
    <3>8. Fits(S, g(k), m, q)
      BY <3>5, <3>6 DEF Fits
    <3>9. QED
      BY <3>1, <3>6, <3>7, <3>8 DEF i
  <2>3. CASE ~(x[k].t = "tag" /\ x[k].n < Len(m))
    <3>1. g(k) = x[k]
      BY <2>3
    <3> HIDE DEF g
    <3>2. QED
      BY <1>1, <2>1, <3>1
  <2>4. QED
    BY <2>2, <2>3
<1>3. Restored(x, m) = [k \in 1 .. Len(x) |-> g(k)]
  BY <1>1 DEF Restored
<1> HIDE DEF g
<1>4. Restored(x, m) \in Seq(Tokens) /\ Len(Restored(x, m)) = Len(x) /\ \A k \in 1 .. Len(x) : Restored(x, m)[k] = g(k)
  <2>1. [k \in 1 .. Len(x) |-> g(k)] \in Seq(Tokens)
    BY <1>1, <1>2, IsASeq
  <2>2. DOMAIN Restored(x, m) = 1 .. Len(x)
    BY <1>3
  <2>3. QED
    BY <1>1, <1>3, <2>1, <2>2, LenProperties
<1>5. QED
  BY <1>2, <1>4 DEF Shape, Fitting

-----------------------------------------------------------------------------
(* The invariant of a request. *)

\* The texts that the request at hand is for.
Scope == IF phase = "single" THEN {Min(todo)} ELSE todo

\* What happened in the replies that the code does not see.
Drift == "shift" \in unseen
Mixed == "renumber" \in unseen

\* Its words are of those texts, and so is the map.
TokenInv ==
  Busy => /\ unjoined \subseteq Scope /\ Known(Scope, map)
          /\ Fitting(Scope, rest, map, Mixed) /\ Fitting(Scope, answers, map, Mixed)
          /\ Fitting(Scope, clean, map, Mixed)

\* While it is put together, the first texts are in their lines.
JoinInv ==
  phase = "batch" /\ step = "join" =>
    /\ unjoined # {} /\ answers = <<>> /\ slips = 0
    /\ rest = <<>> => unjoined = todo
    /\ rest # <<>> => /\ ~Gap(rest) /\ Lined(todo, rest, 0, FALSE)
                      /\ Count(rest) + 1 = Cardinality(todo \ unjoined)
    /\ \A i \in todo \ unjoined, j \in unjoined : i < j

\* While it is asked, the answers so far with the rest have as many slips as are counted,
\* and only the answers drift.
LineInv ==
  phase = "batch" /\ step \in {"phrases", "lemmas", "ask"} =>
    /\ ~Gap(rest) /\ Sound(todo, Join(answers, rest), slips, Len(answers), Drift)
    /\ answers # <<>> => step = "ask"

\* Something that the scrubbing leaves.
Ink(e) == e.t \notin {"tag", "stem", "guard", "break"}
Inked(x) == \E k \in 1 .. Len(x) : Ink(x[k])

\* While it is scrubbed, the line breaks taken count as slips.
ScrubInv ==
  Busy /\ step = "scrub" =>
    /\ Inked(answers) => Inked(clean)
    /\ Fragments(answers) = {} => clean = answers
    /\ Count(clean) <= Count(answers)
    /\ phase = "batch" => /\ Sound(todo, answers, slips, Len(answers), Drift)
                          /\ Sound(todo, clean, slips + Count(answers) - Count(clean), Len(clean), Drift)

\* The result of a text asked for alone has its own words and a vocabulary term only for
\* one of them; ...
OfText(i, x) ==
  \A k \in DOMAIN x : Owned(x[k]) => x[k].of = i /\ (x[k].t = "term" => x[k].s \in Surf(i))

\* ... one from a batch has its own words if it slipped once at most, or a neighbour's if
\* there was drift, and a term for a word of the text it came with, or if tags were mixed
\* of any text; ...
OfBatch(i, x) ==
  \A k \in DOMAIN x : Owned(x[k]) =>
    /\ slips <= 1 => /\ x[k].of \in Valid /\ Place(Valid, x[k].of) - Place(Valid, i) \in -1 .. 1
                     /\ x[k].of = i \/ Drift
    /\ x[k].t = "term" => x[k].s \in Surf(x[k].of) \/ (Mixed /\ x[k].s \in Surfs(Valid))

\* ... and neither has what is left of a tag with its stem among anything that the
\* scrubbing leaves.
Scraps(x) ==
  \A k \in DOMAIN x : x[k].t \in {"tag", "stem"} =>
    \A j \in DOMAIN x : x[j].t \in {"tag", "stem", "guard", "break"}

Verdict(i) == i \in failed <=> Degenerate(Source(i), results[i])
Nothing(i) == results[i] = <<>> /\ i \notin failed

\* What is settled, and what is still to be asked.
SettleInv ==
  /\ phase = "batch" => /\ todo = Valid /\ todo # {} /\ failed = {} /\ route = ""
                        /\ results = [i \in Items |-> <<>>]
  /\ phase = "single" => todo # {} /\ route = "fallback"
  /\ phase = "failed" => route = "fallback"
  /\ \A i \in Items : IF route = "batched" THEN OfBatch(i, results[i]) ELSE OfText(i, results[i])
  /\ \A i \in Items : Scraps(results[i])
  /\ route # "batched" => \A i \in Items : IF i \in Valid \ todo THEN Verdict(i) ELSE Nothing(i)
  /\ phase = "done" => IF route = "batched"
                       THEN \A i \in Items : IF i \in Valid THEN Verdict(i) ELSE Nothing(i)
                       ELSE todo = {}

RequestInv == RequestTypeOK /\ TokenInv /\ JoinInv /\ LineInv /\ ScrubInv /\ SettleInv

LEMMA ValidIs ==
  ASSUME NEW i \in Valid
  PROVE  /\ i \in Items /\ Source(i) \in Seq(Tokens) /\ ~Blank(Source(i)) /\ Degenerate(Source(i), <<>>)
<1>1. i \in Items /\ Texts[i] # <<>>
  BY DEF Valid
<1>2. /\ Source(i) \in Seq(Tokens) /\ Len(Source(i)) = Len(Texts[i]) /\ Len(Texts[i]) \in Nat /\ Len(Texts[i]) # 0
      /\ \A k \in 1 .. Len(Texts[i]) : Source(i)[k] # Break
  BY <1>1, SourceIs
<1>3. 1 \in DOMAIN Source(i) /\ Source(i)[1] # Break
  BY <1>2
<1>4. ~Blank(Source(i)) /\ Blank(<<>>)
  BY <1>3 DEF Blank
<1>5. QED
  BY <1>1, <1>2, <1>4 DEF Degenerate

LEMMA NextText ==
  ASSUME NEW S, S \subseteq Valid, S # {}
  PROVE  Min(S) \in S /\ Min(S) \in Valid /\ Min(S) \in Items /\ \A j \in S : Min(S) <= j
<1>1. S \subseteq Items /\ Valid \subseteq Items
  BY DEF Valid
<1>2. S \subseteq Nat
  BY <1>1, ItemsAre
<1>3. Min(S) \in S /\ \A j \in S : Min(S) <= j
  BY <1>2, MinIs
<1>4. QED
  BY <1>1, <1>3

LEMMA FromNothing == 0 \in 0 .. GuardRetries /\ 0 \in Nat /\ <<>> \in Seq(Tokens) /\ <<>> \in Seq(Surfaces)
<1>1. GuardRetries \in Nat
  BY RequestAssumption DEF RequestAssumption
<1>2. QED
  BY <1>1

LEMMA KnownNothing == \A S : Known(S, <<>>)
<1>1. 1 .. Len(<<>>) = {}
  BY EmptySeq
<1>2. QED
  BY <1>1 DEF Known

\* Alone, the next text is asked for from nothing.
LEMMA SinglyStep ==
  ASSUME RequestInv, NEW later, later \subseteq Valid, Singly(later), size' = size,
         results' \in [Items -> Seq(Tokens)], failed' \subseteq Valid,
         route' \in {"", "batched", "fallback"}
  PROVE  RequestTypeOK' /\ TokenInv' /\ JoinInv' /\ LineInv' /\ ScrubInv'
<1>1. RequestTypeOK
  BY DEF RequestInv
<1>2. CASE later = {}
  <2>1. phase' = "done" /\ todo' = {} /\ UNCHANGED <<step, unjoined, terms, rest, map, answers, clean, asked, slips, unseen>>
    BY <1>2 DEF Singly, request, building
  <2>2. RequestTypeOK'
    BY <1>1, <2>1 DEF RequestTypeOK
  <2>3. QED
    BY <2>1, <2>2 DEF TokenInv, JoinInv, LineInv, ScrubInv, Busy
<1>3. CASE later # {}
  <2>1. /\ phase' = "single" /\ todo' = later /\ step' = "join" /\ unjoined' = {Min(later)} /\ terms' = <<>>
        /\ rest' = <<>> /\ map' = <<>> /\ answers' = <<>> /\ clean' = <<>> /\ asked' = 0 /\ slips' = 0
        /\ unseen' = {}
    BY <1>3 DEF Singly, Afresh
  <2>2. {Min(later)} \subseteq Valid
    BY <1>3, NextText
  <2>3. RequestTypeOK'
    <3>1. size' \in PieceSizes
      BY <1>1 DEF RequestTypeOK
    <3>2. QED
      BY <2>1, <2>2, <3>1, FromNothing DEF RequestTypeOK
  <2>4. TokenInv'
    <3>1. unjoined' \subseteq Scope'
      BY <2>1 DEF Scope
    <3>2. Known(Scope', map')
      BY <2>1, KnownNothing
    <3>3. QED
      BY <2>1, <3>1, <3>2, FittingNothing DEF TokenInv
  <2>5. QED
    BY <2>1, <2>3, <2>4 DEF JoinInv, LineInv, ScrubInv
<1>4. QED
  BY <1>2, <1>3

LEMMA BatchIs ==
  ASSUME RequestInv, Busy
  PROVE  /\ route # "batched" /\ todo \subseteq Valid /\ todo # {} /\ Scope \subseteq todo /\ Scope \subseteq Items
         /\ \A i \in Items : OfText(i, results[i]) /\ Scraps(results[i])
         /\ \A i \in Items : IF i \in Valid \ todo THEN Verdict(i) ELSE Nothing(i)
         /\ phase = "batch" => Scope = todo /\ todo = Valid /\ failed = {} /\ route = ""
         /\ phase = "single" => Scope = {Min(todo)} /\ Min(todo) \in todo /\ route = "fallback"
<1>1. todo \subseteq Valid /\ SettleInv /\ phase \in {"batch", "single"}
  BY DEF RequestInv, RequestTypeOK, Busy
<1>2. route # "batched" /\ todo # {}
  BY <1>1 DEF SettleInv
<1>3. Min(todo) \in todo
  BY <1>1, <1>2, NextText
<1>4. Scope \subseteq todo
  BY <1>3 DEF Scope
<1>5. Valid \subseteq Items
  BY DEF Valid
<1>6. /\ \A i \in Items : OfText(i, results[i]) /\ Scraps(results[i])
      /\ \A i \in Items : IF i \in Valid \ todo THEN Verdict(i) ELSE Nothing(i)
  BY <1>1, <1>2 DEF SettleInv
<1>7. phase = "batch" => Scope = todo /\ todo = Valid /\ failed = {} /\ route = ""
  BY <1>1 DEF SettleInv, Scope
<1>8. phase = "single" => Scope = {Min(todo)} /\ Min(todo) \in todo /\ route = "fallback"
  BY <1>1, <1>3 DEF SettleInv, Scope
<1>9. QED
  BY <1>1, <1>2, <1>4, <1>5, <1>6, <1>7, <1>8

\* While nothing is settled, nothing of it changes.
LEMMA SettleKept ==
  ASSUME RequestInv, Busy, UNCHANGED <<phase, todo, results, failed, route>>
  PROVE  SettleInv' /\ Scope' = Scope /\ Busy'
<1>1. route # "batched" /\ phase \in {"batch", "single"} /\ SettleInv
  BY BatchIs DEF Busy, RequestInv
<1>2. \A i \in Items : OfText(i, results'[i]) /\ Scraps(results'[i])
  BY BatchIs
<1>3. \A i \in Items : IF i \in Valid \ todo' THEN Verdict(i)' ELSE Nothing(i)'
  BY BatchIs DEF Verdict, Nothing
<1>4. QED
  BY <1>1, <1>2, <1>3 DEF SettleInv, Scope, Busy

\* The batch is given up.
LEMMA FallBackStep ==
  ASSUME RequestInv, phase = "batch", FallBack
  PROVE  RequestInv'
<1>1. /\ todo \subseteq Valid /\ todo # {} /\ todo = Valid /\ failed = {} /\ results = [i \in Items |-> <<>>]
      /\ RequestTypeOK
  BY DEF RequestInv, SettleInv, RequestTypeOK
<1>2. /\ route' = "fallback" /\ Singly(todo) /\ size' = size /\ results' = results /\ failed' = failed
      /\ phase' = "single" /\ todo' = todo
  BY <1>1 DEF FallBack, Singly
<1>3. RequestTypeOK' /\ TokenInv' /\ JoinInv' /\ LineInv' /\ ScrubInv'
  <2>1. results' \in [Items -> Seq(Tokens)] /\ failed' \subseteq Valid /\ route' \in {"", "batched", "fallback"}
    BY <1>1, <1>2 DEF RequestTypeOK
  <2>2. QED
    BY <1>1, <1>2, <2>1, SinglyStep
<1>4. \A i \in Items : results'[i] = <<>> /\ i \notin failed'
  BY <1>1, <1>2
<1>5. \A i : OfText(i, <<>>) /\ Scraps(<<>>)
  BY DEF OfText, Scraps
<1>6. SettleInv'
  <2>1. Valid \ todo' = {}
    BY <1>1, <1>2
  <2>2. \A i \in Items : Nothing(i)'
    BY <1>4 DEF Nothing
  <2>3. QED
    BY <1>1, <1>2, <1>4, <1>5, <2>1, <2>2 DEF SettleInv
<1>7. QED
  BY <1>3, <1>6 DEF RequestInv

\* A text asked for alone is settled, and the next one comes.
LEMMA SettleOne ==
  ASSUME RequestInv, phase = "single", NEW i, i = Min(todo), Singly(Onward(todo)), size' = size, route' = route,
         results' \in [Items -> Seq(Tokens)], failed' \subseteq Valid,
         \A j \in Items \ {i} : results'[j] = results[j] /\ (j \in failed' <=> j \in failed),
         OfText(i, results'[i]), Scraps(results'[i]), Verdict(i)'
  PROVE  RequestInv'
<1>1. /\ todo \subseteq Valid /\ i \in todo /\ i \in Valid /\ i \in Items /\ route = "fallback"
      /\ \A j \in Items : OfText(j, results[j]) /\ Scraps(results[j])
      /\ \A j \in Items : IF j \in Valid \ todo THEN Verdict(j) ELSE Nothing(j)
  <2>1. Busy
    BY DEF Busy
  <2>2. QED
    BY <2>1, BatchIs DEF Valid
<1>2. Onward(todo) = todo \ {i} /\ todo' = todo \ {i}
  BY DEF Onward, Singly
<1>3. RequestTypeOK' /\ TokenInv' /\ JoinInv' /\ LineInv' /\ ScrubInv'
  <2>1. Onward(todo) \subseteq Valid
    BY <1>1, <1>2
  <2>2. route' \in {"", "batched", "fallback"}
    BY <1>1
  <2>3. QED
    BY <2>1, <2>2, SinglyStep
<1>4. (phase' = "single" /\ todo' # {}) \/ (phase' = "done" /\ todo' = {})
  <2>1. CASE Onward(todo) = {}
    BY <1>2, <2>1 DEF Singly
  <2>2. CASE Onward(todo) # {}
    BY <1>2, <2>2 DEF Singly
  <2>3. QED
    BY <2>1, <2>2
<1>5. ASSUME NEW j \in Items PROVE OfText(j, results'[j]) /\ Scraps(results'[j])
  BY <1>1
<1>6. ASSUME NEW j \in Items PROVE IF j \in Valid \ todo' THEN Verdict(j)' ELSE Nothing(j)'
  <2>1. CASE j = i
    BY <1>1, <1>2, <2>1
  <2>2. CASE j # i
    <3>1. results'[j] = results[j] /\ (j \in failed' <=> j \in failed) /\ (j \in todo' <=> j \in todo)
      BY <1>2, <2>2
    <3>2. IF j \in Valid \ todo THEN Verdict(j) ELSE Nothing(j)
      BY <1>1
    <3>3. (Verdict(j) => Verdict(j)') /\ (Nothing(j) => Nothing(j)')
      BY <3>1 DEF Verdict, Nothing
    <3>4. QED
      BY <3>1, <3>2, <3>3
  <2>3. QED
    BY <2>1, <2>2
<1>7. SettleInv'
  BY <1>1, <1>4, <1>5, <1>6 DEF SettleInv
<1>8. QED
  BY <1>3, <1>7 DEF RequestInv

LEMMA GiveUpStep ==
  ASSUME RequestInv, Busy, GiveUp
  PROVE  RequestInv'
<1>1. CASE phase = "batch" /\ FallBack
  BY <1>1, FallBackStep
<1>2. CASE /\ phase = "single" /\ failed' = Flag(Min(todo))
           /\ Singly(Onward(todo)) /\ UNCHANGED <<size, results, route>>
  <2>0. PICK i : i = Min(todo)
    OBVIOUS
  <2>1. /\ i \in Valid /\ i \in Items /\ i \in todo /\ failed' = failed \cup {i} /\ RequestTypeOK
        /\ \A j \in Items : IF j \in Valid \ todo THEN Verdict(j) ELSE Nothing(j)
    BY <1>2, <2>0, BatchIs DEF Flag, RequestInv
  <2>2. results[i] = <<>> /\ results'[i] = <<>>
    BY <1>2, <2>1 DEF Nothing
  <2>3. results' \in [Items -> Seq(Tokens)] /\ failed' \subseteq Valid
    BY <1>2, <2>1 DEF RequestTypeOK
  <2>4. Verdict(i)'
    <3>1. Degenerate(Source(i), <<>>)
      BY <2>1, ValidIs
    <3>2. i \in failed'
      BY <2>1
    <3>3. QED
      BY <2>2, <3>1, <3>2 DEF Verdict
  <2>5. OfText(i, <<>>) /\ Scraps(<<>>)
    BY DEF OfText, Scraps
  <2>6. \A j \in Items \ {i} : results'[j] = results[j] /\ (j \in failed' <=> j \in failed)
    BY <1>2, <2>1
  <2>7. /\ Singly(Onward(todo)) /\ size' = size /\ route' = route /\ OfText(i, results'[i]) /\ Scraps(results'[i])
        /\ phase = "single"
    BY <1>2, <2>2, <2>5
  <2>8. QED
    BY <2>0, <2>3, <2>4, <2>6, <2>7, SettleOne
<1>3. QED
  BY <1>1, <1>2 DEF GiveUp

-----------------------------------------------------------------------------
(* The request is put together. *)

LEMMA JoinLines ==
  ASSUME NEW x \in Seq(Tokens), NEW y \in Seq(Tokens), x # <<>>, NEW z, z = Join(x, y)
  PROVE  /\ z \in Seq(Tokens) /\ Len(z) = Len(x) + 1 + Len(y) /\ Len(x) \in Nat /\ Len(y) \in Nat
         /\ \A k \in 1 .. Len(x) : z[k] = x[k]
         /\ z[Len(x) + 1] = Break
         /\ \A k \in 1 .. Len(y) : z[Len(x) + 1 + k] = y[k]
         /\ \A k \in 1 .. Len(x) : Lead(z, k) = Lead(x, k)
         /\ \A k \in 1 .. Len(y) + 1 : Lead(z, Len(x) + 1 + k) = Count(x) + 1 + Lead(y, k)
         /\ Count(z) = Count(x) + 1 + Count(y)
         /\ ~Gap(x) /\ ~Gap(y) => ~Gap(z)
<1> DEFINE n == Len(x)
           m == Len(y)
<1>1. /\ z \in Seq(Tokens) /\ Len(z) = n + 1 + m /\ n \in Nat /\ n >= 1 /\ m \in Nat
      /\ \A k \in 1 .. n : z[k] = x[k]
      /\ z[n + 1] = Break
      /\ \A k \in 1 .. m : z[n + 1 + k] = y[k]
  <2>1. Off(x) = n + 1 /\ n \in Nat \ {0}
    BY JoinIs
  <2>2. m \in Nat
    OBVIOUS
  <2>3. /\ z \in Seq(Tokens) /\ Len(z) = Off(x) + m
        /\ \A k \in 1 .. n : z[k] = x[k]
        /\ z[n + 1] = Break
        /\ \A k \in 1 .. m : z[Off(x) + k] = y[k]
    BY JoinBehind
  <2> HIDE DEF n, m
  <2>4. n >= 1
    BY <2>1
  <2>5. QED
    BY <2>1, <2>2, <2>3, <2>4
<1> HIDE DEF n, m
<1>2. n = Len(x) /\ m = Len(y)
  BY DEF n, m
<1>3. \A k \in 1 .. n + 1 : Lead(z, k) = Lead(x, k)
  <2> TAKE k \in 1 .. n + 1
  <2>1. k \in Nat /\ k >= 1 /\ k <= Len(x) + 1 /\ k <= Len(z) + 1 /\ \A j \in 1 .. k - 1 : j \in 1 .. n
    BY <1>1, <1>2
  <2>2. \A j \in 1 .. k - 1 : (z[j] = Break) <=> (x[j] = Break)
    BY <1>1, <2>1
  <2>3. QED
    BY <1>1, <2>1, <2>2, LeadFromStart
<1>4. Lead(z, n + 2) = Count(x) + 1 /\ Count(x) \in Nat /\ Count(y) \in Nat
  <2>1. n + 1 \in 1 .. Len(z) /\ (n + 1) + 1 = n + 2 /\ n + 1 \in 1 .. n + 1
    BY <1>1
  <2>2. Lead(z, n + 2) = Lead(z, n + 1) + 1
    BY <1>1, <2>1, LeadIs
  <2>3. Count(x) = Lead(x, n + 1)
    BY <1>2, LeadIs
  <2>4. Count(x) \in Nat /\ Count(y) \in Nat
    BY LeadIs
  <2>5. QED
    BY <1>3, <2>1, <2>2, <2>3, <2>4
<1>5. ASSUME NEW k \in 1 .. m + 1 PROVE Lead(z, n + 1 + k) = Count(x) + 1 + Lead(y, k) /\ Lead(y, k) \in Nat
  <2> DEFINE d == k - 1
             q == n + 2
  <2>1. /\ d \in Nat /\ q \in Nat /\ q >= 1 /\ q + d = n + 1 + k /\ 1 + d = k
        /\ q + d <= Len(z) + 1 /\ 1 + d <= Len(y) + 1
        /\ \A j \in 0 .. d - 1 : 1 + j \in 1 .. m /\ q + j = n + 1 + (1 + j)
    BY <1>1, <1>2
  <2>2. \A j \in 0 .. d - 1 : (z[q + j] = Break) <=> (y[1 + j] = Break)
    BY <1>1, <2>1
  <2>3. Alike(z, q, y, 1, d)
    BY <2>1, <2>2 DEF Alike
  <2> HIDE DEF d, q
  <2>4. Lead(z, q + d) + Lead(y, 1) = Lead(y, 1 + d) + Lead(z, q)
    BY <1>1, <2>3, LeadAlong
  <2>5. Lead(y, 1) = 0 /\ Lead(y, k) \in Nat /\ Lead(z, n + 1 + k) \in Nat
    <3>1. k \in 1 .. Len(y) + 1 /\ n + 1 + k \in 1 .. Len(z) + 1
      BY <1>1, <1>2
    <3>2. QED
      BY <1>1, <3>1, LeadIs
  <2>6. Lead(z, n + 1 + k) + Lead(y, 1) = Lead(y, k) + (Count(x) + 1)
    BY <1>4, <2>1, <2>4 DEF q
  <2>7. QED
    BY <1>4, <2>5, <2>6
<1>6. Count(z) = Count(x) + 1 + Count(y)
  <2>1. m + 1 \in 1 .. m + 1 /\ n + 1 + (m + 1) = Len(z) + 1
    BY <1>1
  <2>2. Count(z) = Lead(z, Len(z) + 1) /\ Count(y) = Lead(y, m + 1)
    BY <1>1, <1>2, LeadIs
  <2>3. QED
    BY <1>5, <2>1, <2>2
<1>7. ASSUME ~Gap(x), ~Gap(y) PROVE ~Gap(z)
  <2>1. /\ x[1] # Break /\ x[n] # Break /\ \A k \in 1 .. n - 1 : ~(x[k] = Break /\ x[k + 1] = Break)
        /\ y[1] # Break /\ y[m] # Break /\ \A k \in 1 .. m - 1 : ~(y[k] = Break /\ y[k + 1] = Break)
        /\ m >= 1
    BY <1>2, <1>7, NoGap
  <2>2. z # <<>> /\ 1 \in 1 .. n /\ m \in 1 .. m /\ Len(z) = n + 1 + m
    BY <1>1, <2>1
  <2>3. z[1] # Break /\ z[Len(z)] # Break
    BY <1>1, <2>1, <2>2
  <2>4. ASSUME NEW k \in 1 .. Len(z) - 1 PROVE ~(z[k] = Break /\ z[k + 1] = Break)
    <3>1. CASE k < n
      <4>1. k \in 1 .. n - 1 /\ k \in 1 .. n /\ k + 1 \in 1 .. n
        BY <1>1, <3>1
      <4>2. QED
        BY <1>1, <2>1, <4>1
    <3>2. CASE k = n
      <4>1. k \in 1 .. n
        BY <1>1, <3>2
      <4>2. QED
        BY <1>1, <2>1, <3>2, <4>1
    <3>3. CASE k = n + 1
      <4>1. 1 \in 1 .. m /\ k + 1 = n + 1 + 1
        BY <1>1, <2>1, <3>3
      <4>2. QED
        BY <1>1, <2>1, <4>1
    <3>4. CASE k > n + 1
      <4> DEFINE j == k - (n + 1)
      <4>0. k \in Nat /\ n \in Nat /\ m \in Nat /\ k > n + 1 /\ k <= n + m
        BY <1>1, <3>4
      <4>1. j \in 1 .. m - 1 /\ j \in 1 .. m /\ j + 1 \in 1 .. m /\ k = n + 1 + j /\ k + 1 = n + 1 + (j + 1)
        BY <4>0
      <4> HIDE DEF j
      <4>2. z[k] = y[j] /\ z[k + 1] = y[j + 1]
        BY <1>1, <4>1
      <4>3. QED
        BY <2>1, <4>1, <4>2
    <3>5. QED
      BY <1>1, <3>1, <3>2, <3>3, <3>4
  <2>5. QED
    BY <1>1, <2>2, <2>3, <2>4, GapNot
<1>8. \A k \in 1 .. n : k \in 1 .. n + 1
  BY <1>1
<1>9. QED
  BY <1>1, <1>3, <1>5, <1>6, <1>7, <1>8 DEF n, m

\* A text that goes out is one line.
LEMMA SourceIsLine ==
  ASSUME NEW i \in Valid
  PROVE  /\ Source(i) \in Seq(Tokens) /\ ~Gap(Source(i)) /\ Source(i) # <<>> /\ Count(Source(i)) = 0
         /\ \A k \in 1 .. Len(Source(i)) : Lead(Source(i), k) = 0 /\ Source(i)[k].of = i
         /\ \A m, q : Fitting({i}, Source(i), m, q)
<1> DEFINE x == Source(i)
           n == Len(x)
<1>1. /\ x \in Seq(Tokens) /\ n \in Nat /\ n # 0 /\ DOMAIN x = 1 .. n
      /\ \A k \in 1 .. n : /\ x[k].t = "word" /\ x[k].of = i /\ x[k].s \in Surf(i)
                           /\ Owned(x[k]) /\ x[k] # Break
  <2>1. i \in Items /\ Texts[i] # <<>>
    BY DEF Valid
  <2>2. QED
    BY <2>1, SourceIs
<1> HIDE DEF x
<1>2. LineEnds(x) = {}
  BY <1>1 DEF LineEnds
<1>3. \A k : Lead(x, k) = 0
  <2>1. \A k : {j \in LineEnds(x) : j < k} = {}
    BY <1>2
  <2>2. QED
    BY <2>1, FS_EmptySet DEF Lead
<1>4. Count(x) = 0
  BY <1>2, FS_EmptySet DEF Count
<1>5. x # <<>>
  BY <1>1 DEF n
<1>6. 1 \in 1 .. n /\ n \in 1 .. n /\ \A k \in 1 .. n - 1 : k \in 1 .. n
  BY <1>1
<1>7. ~Gap(x)
  BY <1>1, <1>5, <1>6, GapNot DEF n
<1>8. \A m, q : Fitting({i}, x, m, q)
  BY <1>1 DEF Fitting, Fits
<1>9. QED
  BY <1>1, <1>3, <1>4, <1>5, <1>7, <1>8 DEF x

\* The next text comes in the next line.
LEMMA NextLine ==
  ASSUME RequestInv, phase = "batch", step = "join", NEW i, i = Min(unjoined), NEW y, y = Join(rest, Source(i))
  PROVE  /\ y # <<>> /\ ~Gap(y) /\ Lined(todo, y, 0, FALSE)
         /\ Count(y) + 1 = Cardinality(todo \ (unjoined \ {i}))
         /\ \A a \in todo \ (unjoined \ {i}), b \in unjoined \ {i} : a < b
<1>1. /\ rest \in Seq(Tokens) /\ unjoined \subseteq Valid /\ todo \subseteq Valid /\ unjoined # {}
      /\ rest = <<>> => unjoined = todo
      /\ rest # <<>> => ~Gap(rest) /\ Lined(todo, rest, 0, FALSE) /\ Count(rest) + 1 = Cardinality(todo \ unjoined)
      /\ \A a \in todo \ unjoined, b \in unjoined : a < b
  BY DEF RequestInv, RequestTypeOK, JoinInv
<1>2. unjoined \subseteq todo
  BY DEF RequestInv, TokenInv, Busy, Scope
<1>3. i \in unjoined /\ i \in Valid /\ i \in todo /\ \A b \in unjoined : i <= b
  BY <1>1, <1>2, NextText
<1> DEFINE x == Source(i)
           S == todo \ unjoined
<1>4. /\ x \in Seq(Tokens) /\ ~Gap(x) /\ x # <<>> /\ Count(x) = 0
      /\ \A k \in 1 .. Len(x) : Lead(x, k) = 0 /\ x[k].of = i
  BY <1>3, SourceIsLine
<1>5. /\ todo \subseteq Nat /\ IsFiniteSet(S) /\ Cardinality(S) \in Nat /\ \A a \in todo : a \in Nat
  <2>1. todo \subseteq Items /\ S \subseteq Items
    BY <1>1 DEF Valid
  <2>2. QED
    BY <2>1, ItemsAre
<1>6. todo \ (unjoined \ {i}) = S \cup {i} /\ i \notin S /\ {j \in todo : j <= i} = S \cup {i}
  <2>1. \A j \in todo : j <= i <=> j \in S \/ j = i
    <3> TAKE j \in todo
    <3>1. CASE j \in S
      <4>1. j < i /\ j \in Nat /\ i \in Nat
        BY <1>1, <1>3, <1>5, <3>1
      <4>2. QED
        BY <3>1, <4>1
    <3>2. CASE j \notin S
      <4>1. i <= j /\ j \in Nat /\ i \in Nat
        BY <1>3, <1>5, <3>2
      <4>2. QED
        BY <3>2, <4>1
    <3>3. QED
      BY <3>1, <3>2
  <2>2. QED
    BY <1>2, <1>3, <2>1
<1>7. Cardinality(S \cup {i}) = Cardinality(S) + 1
  <2> HIDE DEF S
  <2> QED
    BY <1>5, <1>6, FS_AddElement
<1>8. Place(todo, i) = Cardinality(S) + 1
  BY <1>6, <1>7 DEF Place
<1>9. ASSUME NEW a \in todo \ (unjoined \ {i}), NEW b \in unjoined \ {i} PROVE a < b
  <2>1. CASE a = i
    <3>1. i <= b /\ b # i /\ i \in Nat /\ b \in Nat
      BY <1>2, <1>3, <1>5
    <3>2. QED
      BY <2>1, <3>1
  <2>2. CASE a # i
    BY <1>1, <1>9, <2>2
  <2>3. QED
    BY <2>1, <2>2
<1>10. CASE rest = <<>>
  <2>1. y = x /\ Cardinality(S) = 0
    <3>1. S = {}
      BY <1>1, <1>10
    <3>2. y = x
      BY <1>10 DEF Join
    <3>3. QED
      BY <3>1, <3>2, FS_EmptySet
  <2>2. Lined(todo, y, 0, FALSE)
    <3>1. DOMAIN x = 1 .. Len(x) /\ Place(todo, i) = 1 + 0
      BY <1>4, <1>8, <2>1
    <3>2. ASSUME NEW k \in DOMAIN x
          PROVE  x[k].of \in todo /\ Place(todo, x[k].of) = 1 + Lead(x, k) /\ Lead(x, k) = 0
      <4>1. x[k].of = i /\ Lead(x, k) = 0
        BY <1>4, <3>1
      <4>2. QED
        BY <1>3, <3>1, <4>1
    <3> HIDE DEF x
    <3>3. QED
      BY <2>1, <3>2 DEF Lined
  <2>3. Count(y) + 1 = Cardinality(S \cup {i})
    BY <1>4, <1>7, <2>1
  <2>4. QED
    BY <1>4, <1>6, <1>9, <2>1, <2>2, <2>3
<1>11. CASE rest # <<>>
  <2> DEFINE n == Len(rest)
             m == Len(x)
  <2>1. /\ y \in Seq(Tokens) /\ Len(y) = n + 1 + m /\ n \in Nat /\ m \in Nat
        /\ \A k \in 1 .. n : y[k] = rest[k] /\ Lead(y, k) = Lead(rest, k)
        /\ y[n + 1] = Break
        /\ \A k \in 1 .. m : y[n + 1 + k] = x[k]
        /\ \A k \in 1 .. m + 1 : Lead(y, n + 1 + k) = Count(rest) + 1 + Lead(x, k)
        /\ Count(y) = Count(rest) + 1 + Count(x)
        /\ ~Gap(rest) /\ ~Gap(x) => ~Gap(y)
    <3>1. x \in Seq(Tokens) /\ y = Join(rest, x) /\ rest \in Seq(Tokens) /\ rest # <<>>
      BY <1>1, <1>4, <1>11
    <3> HIDE DEF x
    <3>2. /\ y \in Seq(Tokens) /\ Len(y) = Len(rest) + 1 + Len(x) /\ Len(rest) \in Nat /\ Len(x) \in Nat
          /\ \A k \in 1 .. Len(rest) : y[k] = rest[k]
          /\ y[Len(rest) + 1] = Break
          /\ \A k \in 1 .. Len(x) : y[Len(rest) + 1 + k] = x[k]
          /\ \A k \in 1 .. Len(rest) : Lead(y, k) = Lead(rest, k)
          /\ \A k \in 1 .. Len(x) + 1 : Lead(y, Len(rest) + 1 + k) = Count(rest) + 1 + Lead(x, k)
          /\ Count(y) = Count(rest) + 1 + Count(x)
          /\ ~Gap(rest) /\ ~Gap(x) => ~Gap(y)
      BY <3>1, JoinLines
    <3>3. QED
      BY <3>2
  <2>2. ~Gap(y) /\ Count(rest) + 1 = Cardinality(S) /\ Lined(todo, rest, 0, FALSE) /\ Count(rest) \in Nat
    BY <1>1, <1>4, <1>11, <2>1, LeadIs
  <2>3. Count(y) + 1 = Cardinality(S \cup {i})
    BY <1>4, <1>7, <2>1, <2>2
  <2>4. y # <<>>
    BY <2>1
  <2>5. DOMAIN rest = 1 .. n /\ DOMAIN y = 1 .. n + 1 + m
    BY <1>1, <2>1
  <2> HIDE DEF n, m, x, S
  <2>6. ASSUME NEW k \in DOMAIN y, Owned(y[k])
        PROVE  y[k].of \in todo /\ Place(todo, y[k].of) = 1 + Lead(y, k) /\ Lead(y, k) \in Nat
    <3>1. CASE k <= n
      <4>1. k \in 1 .. n /\ k \in DOMAIN rest
        BY <2>1, <2>5, <3>1
      <4>2. y[k] = rest[k] /\ Lead(y, k) = Lead(rest, k) /\ k \in 1 .. Len(rest)
        BY <2>1, <4>1 DEF n
      <4>3. Lead(rest, k) \in Nat
        <5>1. k \in 1 .. Len(rest) + 1
          BY <4>1, <2>1 DEF n
        <5>2. QED
          BY <1>1, <5>1, LeadIs
      <4>4. rest[k].of \in todo /\ Place(todo, rest[k].of) = 1 + Lead(rest, k)
        BY <2>2, <2>6, <4>1, <4>2 DEF Lined
      <4>5. QED
        BY <4>2, <4>3, <4>4
    <3>2. CASE k = n + 1
      BY <2>1, <2>6, <3>2, BreakIsToken
    <3>3. CASE k > n + 1
      <4> DEFINE j == k - (n + 1)
      <4>1. j \in 1 .. m /\ j \in 1 .. m + 1 /\ n + 1 + j = k
        BY <2>1, <2>5, <3>3
      <4> HIDE DEF j
      <4>2. y[k] = x[j] /\ Lead(y, k) = Count(rest) + 1 + Lead(x, j)
        BY <2>1, <4>1
      <4>3. x[j].of = i /\ Lead(x, j) = 0
        BY <1>4, <4>1 DEF m
      <4>4. Lead(y, k) = Cardinality(S)
        BY <2>2, <4>2, <4>3
      <4>5. QED
        BY <1>3, <1>5, <1>8, <4>2, <4>3, <4>4
    <3>4. QED
      BY <2>1, <2>5, <3>1, <3>2, <3>3
  <2>7. Lined(todo, y, 0, FALSE)
    BY <2>6 DEF Lined
  <2>8. QED
    BY <1>6, <1>9, <2>2, <2>3, <2>4, <2>7
<1>12. QED
  BY <1>10, <1>11

LEMMA FittingIn ==
  ASSUME NEW S, NEW R, S \subseteq R, NEW x, NEW m, NEW q, Fitting(S, x, m, q)
  PROVE  Fitting(R, x, m, q)
<1>1. Surfs(S) \subseteq Surfs(R)
  BY DEF Surfs
<1>2. QED
  BY <1>1 DEF Fitting, Fits

LEMMA LinedSound ==
  ASSUME NEW S, NEW x, NEW a, NEW d, Lined(S, x, a, d), Count(x) + 1 = Cardinality(S)
  PROVE  Sound(S, x, 0, a, d)
  BY DEF Sound

LEMMA JoinTextStep ==
  ASSUME RequestInv, JoinText
  PROVE  RequestInv'
<1>1. PICK i : i = Min(unjoined)
  OBVIOUS
<1>2. /\ Busy /\ step = "join" /\ unjoined # {} /\ rest' = Join(rest, Source(i)) /\ unjoined' = unjoined \ {i}
      /\ UNCHANGED <<size, phase, todo, map, answers, clean, asked, slips, unseen, results, failed, route>>
      /\ unjoined' # {} => UNCHANGED <<step, terms>>
      /\ unjoined' = {} => step' = "phrases" /\ terms' = rest'
  BY <1>1 DEF JoinText
<1>3. RequestTypeOK /\ unjoined \subseteq Valid /\ unjoined \subseteq Scope /\ Fitting(Scope, rest, map, Mixed)
  BY <1>2 DEF RequestInv, RequestTypeOK, TokenInv
<1>4. i \in unjoined /\ i \in Valid
  BY <1>1, <1>2, <1>3, NextText
<1>5. SettleInv' /\ Scope' = Scope /\ Busy'
  BY <1>2, SettleKept
<1>6. rest \in Seq(Tokens) /\ map \in Seq(Surfaces) /\ rest' \in Seq(Tokens)
  <2>1. Source(i) \in Seq(Tokens)
    BY <1>4, SourceIsLine
  <2>2. rest \in Seq(Tokens) /\ map \in Seq(Surfaces)
    BY <1>3 DEF RequestTypeOK
  <2>3. QED
    BY <1>2, <2>1, <2>2, JoinIs
<1>7. RequestTypeOK'
  <2>1. terms' \in Seq(Tokens) /\ step' \in {"join", "phrases", "lemmas", "ask", "scrub"}
    BY <1>2, <1>3, <1>6 DEF RequestTypeOK
  <2>2. unjoined' \subseteq Valid
    BY <1>2, <1>3
  <2>3. QED
    BY <1>2, <1>3, <1>6, <2>1, <2>2 DEF RequestTypeOK
<1>8. TokenInv'
  <2>1. Fitting(Scope, Source(i), map, Mixed)
    <3>1. Fitting({i}, Source(i), map, Mixed) /\ {i} \subseteq Scope
      BY <1>3, <1>4, SourceIsLine
    <3>2. QED
      BY <3>1, FittingIn
  <2>2. Fitting(Scope, Join(rest, Source(i)), map, Mixed)
    BY <1>3, <1>4, <1>6, <2>1, FittingJoin, SourceIsLine
  <2>3. /\ Fitting(Scope', rest', map', Mixed') /\ Fitting(Scope', answers', map', Mixed')
        /\ Fitting(Scope', clean', map', Mixed') /\ Known(Scope', map')
    <3>1. /\ Known(Scope, map) /\ Fitting(Scope, answers, map, Mixed) /\ Fitting(Scope, clean, map, Mixed)
      BY <1>2 DEF RequestInv, TokenInv
    <3>2. Mixed' = Mixed /\ map' = map /\ answers' = answers /\ clean' = clean
      BY <1>2 DEF Mixed
    <3>3. QED
      BY <1>2, <1>5, <2>2, <3>1, <3>2
  <2>4. unjoined' \subseteq Scope'
    BY <1>2, <1>3, <1>5
  <2>5. QED
    BY <2>3, <2>4 DEF TokenInv
<1>9. phase = "batch" =>
        /\ rest' # <<>> /\ ~Gap(rest') /\ Lined(todo, rest', 0, FALSE)
        /\ Count(rest') + 1 = Cardinality(todo \ unjoined')
        /\ \A a \in todo \ unjoined', b \in unjoined' : a < b
  BY <1>1, <1>2, NextLine
<1>10. phase = "batch" => answers = <<>> /\ slips = 0
  BY <1>2 DEF RequestInv, JoinInv
<1>11. JoinInv'
  <2>1. step' = "join" => unjoined' # {}
    BY <1>2
  <2>2. QED
    BY <1>2, <1>9, <1>10, <2>1 DEF JoinInv
<1>12. LineInv'
  <2> SUFFICES ASSUME phase = "batch", step' # "join"
               PROVE  ~Gap(rest') /\ Sound(todo, Join(<<>>, rest'), 0, 0, Drift)
    <3>1. Len(<<>>) = 0
      BY EmptySeq
    <3>2. QED
      BY <1>2, <1>10, <3>1 DEF LineInv, Drift
  <2>1. unjoined' = {}
    BY <1>2
  <2>2. todo \ unjoined' = todo
    BY <2>1
  <2>3. Join(<<>>, rest') = rest'
    BY DEF Join
  <2>4. Lined(todo, rest', 0, FALSE) /\ Count(rest') + 1 = Cardinality(todo) /\ ~Gap(rest')
    BY <1>9, <2>2
  <2>5. Sound(todo, rest', 0, 0, Drift)
    <3>1. Sound(todo, rest', 0, 0, FALSE)
      BY <2>4, LinedSound
    <3>2. 0 \in Nat /\ 0 <= 0
      OBVIOUS
    <3>3. QED
      BY <1>6, <3>1, <3>2, SoundMore
  <2>6. QED
    BY <2>3, <2>4, <2>5
<1>13. ScrubInv'
  BY <1>2 DEF ScrubInv
<1>14. QED
  BY <1>5, <1>7, <1>8, <1>11, <1>12, <1>13 DEF RequestInv

Tagged(x, p, m) == [x EXCEPT ![p] = Tag(Len(m), x[p].of)]

\* A word and the tag in its place are alike.
LEMMA TaggedIs ==
  ASSUME NEW x \in Seq(Tokens), NEW p \in 1 .. Len(x), x[p].t = "word", NEW m \in Seq(Surfaces), NEW s, s = x[p].s,
         NEW S, NEW q, Fitting(S, x, m, q), Known(S, m), NEW y, y = Tagged(x, p, m)
  PROVE  /\ y \in Seq(Tokens) /\ Shape(x, y) /\ s \in Surfaces /\ Append(m, s) \in Seq(Surfaces)
         /\ Fitting(S, y, Append(m, s), q) /\ Known(S, Append(m, s))
<1> DEFINE e == Tag(Len(m), x[p].of)
<1>1. x[p] \in Tokens /\ Owned(x[p]) /\ x[p] # Break /\ x[p].of \in Items /\ s \in Surfaces
  BY TokenKinds
<1>2. x[p].of \in S /\ s \in Surf(x[p].of)
  BY <1>1 DEF Fitting, Fits
<1>3. Len(m) \in Nat
  OBVIOUS
<1>4. e \in Tokens /\ e.t = "tag" /\ e.of = x[p].of /\ e.n = Len(m)
  BY <1>1, <1>3, TokenMade
<1> HIDE DEF e
<1>5. e # Break /\ Owned(e)
  BY <1>4, TokenKinds
<1>6. y \in Seq(Tokens) /\ Len(y) = Len(x) /\ y[p] = e /\ \A k \in 1 .. Len(x) : k # p => y[k] = x[k]
  <2>1. y = [x EXCEPT ![p] = e]
    BY DEF e, Tagged
  <2>2. Len(x) \in Nat /\ DOMAIN x = 1 .. Len(x)
    OBVIOUS
  <2>3. y \in Seq(Tokens) /\ Len(y) = Len(x)
    BY <1>4, <2>1, ExceptSeq
  <2>4. QED
    BY <2>1, <2>2, <2>3
<1>7. Shape(x, y)
  BY <1>1, <1>4, <1>5, <1>6 DEF Shape
<1>8. Append(m, s) \in Seq(Surfaces) /\ Len(Append(m, s)) = Len(m) + 1 /\ Append(m, s)[Len(m) + 1] = s
      /\ \A j \in 1 .. Len(m) : Append(m, s)[j] = m[j]
  BY <1>1, AppendProperties
<1>9. Fitting(S, x, Append(m, s), q)
  BY <1>1, FittingMore
<1>10. Fits(S, e, Append(m, s), q)
  BY <1>2, <1>3, <1>4, <1>8 DEF Fits
<1>11. Fitting(S, y, Append(m, s), q)
  BY <1>6, <1>9, <1>10 DEF Fitting
<1>12. Known(S, Append(m, s))
  <2>1. s \in Surfs(S)
    BY <1>2 DEF Surfs
  <2>2. ASSUME NEW j \in 1 .. Len(m) + 1 PROVE j \in 1 .. Len(m) \/ j = Len(m) + 1
    BY <1>3
  <2>3. QED
    BY <1>8, <2>1, <2>2 DEF Known
<1>13. QED
  BY <1>1, <1>6, <1>7, <1>8, <1>11, <1>12

LEMMA ProtectStep ==
  ASSUME RequestInv, Protect
  PROVE  RequestInv'
<1> DEFINE P == {k \in DOMAIN rest : rest[k].t = "word" /\ rest[k].s = Head(terms).s}
<1>1. /\ Busy /\ step \in {"phrases", "lemmas"} /\ terms # <<>> /\ terms' = Tail(terms)
      /\ UNCHANGED <<size, phase, todo, step, unjoined, answers, clean, asked, slips, unseen, results, failed, route>>
      /\ \/ UNCHANGED <<rest, map>>
         \/ /\ P # {} /\ map' = Append(map, Head(terms).s)
            /\ rest' = [rest EXCEPT ![Min(P)] = Tag(Len(map), rest[Min(P)].of)]
  BY DEF Protect, NextTag
<1>2. /\ RequestTypeOK /\ rest \in Seq(Tokens) /\ map \in Seq(Surfaces) /\ terms \in Seq(Tokens)
      /\ answers \in Seq(Tokens) /\ clean \in Seq(Tokens)
  BY DEF RequestInv, RequestTypeOK
<1>3. /\ unjoined \subseteq Scope /\ Known(Scope, map) /\ Fitting(Scope, rest, map, Mixed)
      /\ Fitting(Scope, answers, map, Mixed) /\ Fitting(Scope, clean, map, Mixed)
  BY <1>1 DEF RequestInv, TokenInv
<1>4. SettleInv' /\ Scope' = Scope /\ Busy'
  BY <1>1, SettleKept
<1>5. /\ rest' \in Seq(Tokens) /\ map' \in Seq(Surfaces) /\ Shape(rest, rest') /\ Fitting(Scope, rest', map', Mixed)
      /\ Fitting(Scope, answers, map', Mixed) /\ Fitting(Scope, clean, map', Mixed) /\ Known(Scope, map')
  <2>1. CASE UNCHANGED <<rest, map>>
    BY <1>2, <1>3, <2>1 DEF Shape
  <2>2. CASE /\ P # {} /\ map' = Append(map, Head(terms).s)
             /\ rest' = [rest EXCEPT ![Min(P)] = Tag(Len(map), rest[Min(P)].of)]
    <3>1. PICK p : p = Min(P)
      OBVIOUS
    <3>2. P \subseteq Nat /\ P \subseteq 1 .. Len(rest)
      BY <1>2
    <3>3. p \in P
      <4> HIDE DEF P
      <4> QED
        BY <2>2, <3>1, <3>2, MinIs
    <3>4. p \in 1 .. Len(rest) /\ rest[p].t = "word" /\ rest[p].s = Head(terms).s
      BY <3>2, <3>3
    <3> HIDE DEF P
    <3>5. PICK s, q, x, y, S : s = Head(terms).s /\ q = Mixed /\ x = rest /\ y = rest' /\ S = Scope
      OBVIOUS
    <3>6. x \in Seq(Tokens)
      BY <1>2, <3>5
    <3>7. /\ p \in 1 .. Len(x) /\ x[p].t = "word" /\ y = Tagged(x, p, map) /\ s = x[p].s
           /\ Fitting(S, x, map, q) /\ Known(S, map) /\ map \in Seq(Surfaces)
      BY <1>2, <1>3, <2>2, <3>1, <3>4, <3>5 DEF Tagged
    <3>8. /\ y \in Seq(Tokens) /\ Shape(x, y) /\ s \in Surfaces /\ Append(map, s) \in Seq(Surfaces)
           /\ Fitting(S, y, Append(map, s), q) /\ Known(S, Append(map, s))
      BY <3>6, <3>7, TaggedIs
    <3>9. /\ rest' \in Seq(Tokens) /\ Shape(rest, rest') /\ s \in Surfaces /\ Append(map, s) \in Seq(Surfaces)
          /\ Fitting(Scope, rest', Append(map, s), q) /\ Known(Scope, Append(map, s))
      BY <3>5, <3>8
    <3>10. Fitting(Scope, answers, Append(map, s), Mixed) /\ Fitting(Scope, clean, Append(map, s), Mixed)
      BY <1>2, <1>3, <3>9, FittingMore
    <3>11. QED
      BY <2>2, <3>5, <3>9, <3>10
  <2>3. QED
    BY <1>1, <2>1, <2>2
<1> HIDE DEF P
<1>6. RequestTypeOK'
  <2>1. terms' \in Seq(Tokens)
    BY <1>1, <1>2, HeadTailProperties
  <2>2. QED
    BY <1>1, <1>2, <1>5, <2>1 DEF RequestTypeOK
<1>7. TokenInv'
  <2>1. unjoined' \subseteq Scope' /\ answers' = answers /\ clean' = clean /\ Mixed' = Mixed
    BY <1>1, <1>3, <1>4 DEF Mixed
  <2>2. QED
    BY <1>4, <1>5, <2>1 DEF TokenInv
<1>8. LineInv'
  <2> SUFFICES ASSUME phase = "batch"
               PROVE  answers = <<>> /\ ~Gap(rest') /\ Sound(todo, Join(<<>>, rest'), slips, Len(answers), Drift)
    BY <1>1 DEF LineInv, Drift
  <2>1. answers = <<>> /\ ~Gap(rest) /\ Sound(todo, Join(answers, rest), slips, Len(answers), Drift)
    BY <1>1 DEF RequestInv, LineInv
  <2>2. Join(<<>>, rest) = rest /\ Join(<<>>, rest') = rest'
    BY DEF Join
  <2>3. (Gap(rest) <=> Gap(rest')) /\ \A S, s, a, d : Sound(S, rest, s, a, d) => Sound(S, rest', s, a, d)
    BY <1>2, <1>5, Shaped
  <2>4. QED
    BY <2>1, <2>2, <2>3
<1>9. JoinInv' /\ ScrubInv'
  BY <1>1 DEF JoinInv, ScrubInv
<1>10. QED
  BY <1>4, <1>6, <1>7, <1>8, <1>9 DEF RequestInv

\* Steps that only say how far the request is.
LEMMA LemmatizeStep ==
  ASSUME RequestInv, Lemmatize
  PROVE  RequestInv'
<1>1. /\ Busy /\ step = "phrases" /\ step' = "lemmas" /\ terms' \in {rest, <<>>}
      /\ UNCHANGED <<size, phase, todo, unjoined, rest, map, answers, clean, asked, slips, unseen, results, failed, route>>
  BY DEF Lemmatize
<1>2. RequestTypeOK /\ TokenInv /\ LineInv
  BY DEF RequestInv
<1>3. SettleInv' /\ Scope' = Scope /\ Busy'
  BY <1>1, SettleKept
<1>4. RequestTypeOK'
  <2>1. terms' \in Seq(Tokens)
    BY <1>1, <1>2, FromNothing DEF RequestTypeOK
  <2>2. QED
    BY <1>1, <1>2, <2>1 DEF RequestTypeOK
<1>5. TokenInv'
  BY <1>1, <1>2, <1>3 DEF TokenInv, Mixed
<1>6. LineInv'
  BY <1>1, <1>2 DEF LineInv, Drift
<1>7. JoinInv' /\ ScrubInv'
  BY <1>1 DEF JoinInv, ScrubInv
<1>8. QED
  BY <1>3, <1>4, <1>5, <1>6, <1>7 DEF RequestInv

LEMMA SendOffStep ==
  ASSUME RequestInv, SendOff
  PROVE  RequestInv'
<1>1. /\ Busy /\ step = "lemmas" /\ step' = "ask"
      /\ UNCHANGED <<size, phase, todo, unjoined, terms, rest, map, answers, clean, asked, slips, unseen, results, failed, route>>
  BY DEF SendOff
<1>2. RequestTypeOK /\ TokenInv /\ LineInv
  BY DEF RequestInv
<1>3. SettleInv' /\ Scope' = Scope /\ Busy'
  BY <1>1, SettleKept
<1>4. RequestTypeOK'
  BY <1>1, <1>2 DEF RequestTypeOK
<1>5. TokenInv'
  BY <1>1, <1>2, <1>3 DEF TokenInv, Mixed
<1>6. LineInv'
  BY <1>1, <1>2 DEF LineInv, Drift
<1>7. JoinInv' /\ ScrubInv'
  BY <1>1 DEF JoinInv, ScrubInv
<1>8. QED
  BY <1>3, <1>4, <1>5, <1>6, <1>7 DEF RequestInv

LEMMA AskAgainStep ==
  ASSUME RequestInv, Busy, step = "ask", AskAgain
  PROVE  RequestInv'
<1>1. /\ asked < GuardRetries /\ asked' = asked + 1
      /\ UNCHANGED <<size, phase, todo, step, unjoined, terms, rest, map, answers, clean, slips, unseen, results, failed, route>>
  BY DEF AskAgain, building
<1>2. RequestTypeOK /\ TokenInv /\ LineInv
  BY DEF RequestInv
<1>3. SettleInv' /\ Scope' = Scope /\ Busy'
  BY <1>1, SettleKept
<1>4. RequestTypeOK'
  <2>1. asked' \in 0 .. GuardRetries
    <3>1. asked \in 0 .. GuardRetries /\ GuardRetries \in Nat
      BY <1>2, RequestAssumption DEF RequestTypeOK, RequestAssumption
    <3>2. QED
      BY <1>1, <3>1
  <2>2. QED
    BY <1>1, <1>2, <2>1 DEF RequestTypeOK
<1>5. TokenInv'
  BY <1>1, <1>2, <1>3 DEF TokenInv, Mixed
<1>6. LineInv'
  BY <1>1, <1>2 DEF LineInv, Drift
<1>7. JoinInv' /\ ScrubInv'
  BY <1>1 DEF JoinInv, ScrubInv
<1>8. QED
  BY <1>3, <1>4, <1>5, <1>6, <1>7 DEF RequestInv

LEMMA NoReplyStep ==
  ASSUME RequestInv, NoReply
  PROVE  RequestInv'
<1>1. CASE phase = "batch" /\ FallBack
  BY <1>1, FallBackStep
<1>2. CASE /\ phase = "single" /\ phase' = "failed"
           /\ UNCHANGED <<size, todo, request, results, failed, route>>
  <2>1. /\ Busy /\ RequestTypeOK /\ route = "fallback"
        /\ \A i \in Items : OfText(i, results[i]) /\ Scraps(results[i])
        /\ \A i \in Items : IF i \in Valid \ todo THEN Verdict(i) ELSE Nothing(i)
    BY <1>2, BatchIs DEF NoReply, RequestInv
  <2>2. RequestTypeOK'
    BY <1>2, <2>1 DEF RequestTypeOK, request, building
  <2>3. TokenInv' /\ JoinInv' /\ LineInv' /\ ScrubInv'
    BY <1>2 DEF TokenInv, JoinInv, LineInv, ScrubInv, Busy
  <2>4. SettleInv'
    <3>1. \A i \in Items : IF i \in Valid \ todo' THEN Verdict(i)' ELSE Nothing(i)'
      BY <1>2, <2>1 DEF Verdict, Nothing
    <3>2. QED
      BY <1>2, <2>1, <3>1 DEF SettleInv
  <2>5. QED
    BY <2>2, <2>3, <2>4 DEF RequestInv
<1>3. QED
  BY <1>1, <1>2 DEF NoReply

LEMMA TakeStep ==
  ASSUME RequestInv, Busy, step = "ask",
         NEW base, NEW slip, NEW hidden, hidden \subseteq {"shift"},
         \/ base \in Straight(Piece) /\ slip = 0
         \/ base \in Slipped(Piece) /\ slip = 1
         \/ base \in Shifted(Piece) /\ slip = 0 /\ hidden = {"shift"},
         NEW g \in [Tags(base) -> Fates],
         NEW reply, reply = Trim(Garbled(base, g)), ~ReplyDegenerate(Piece, reply),
         NEW more, more = hidden \cup (IF Renumbered(base, g) THEN {"renumber"} ELSE {}), Take(reply, slip, more)
  PROVE  RequestInv'
<1> DEFINE joined == Join(answers, reply)
<1>0. PICK d, e, q, r : d = Drift /\ e = Drift' /\ q = Mixed /\ r = Mixed'
  OBVIOUS
<1>1. /\ rest' = After /\ asked' = 0 /\ slips' = slips + slip + Torn /\ unseen' = unseen \cup more
      /\ UNCHANGED <<size, phase, todo, unjoined, terms, map, results, failed, route>>
      /\ After # <<>> => answers' = joined /\ UNCHANGED <<step, clean>>
      /\ After = <<>> => answers' = Restored(joined, map) /\ clean' = answers' /\ step' = "scrub"
  BY DEF Take
<1>2. /\ RequestTypeOK /\ rest \in Seq(Tokens) /\ answers \in Seq(Tokens) /\ clean \in Seq(Tokens) /\ map \in Seq(Surfaces)
      /\ slips \in Nat /\ size \in PieceSizes /\ todo \subseteq Valid /\ unseen \subseteq {"shift", "renumber"}
  BY DEF RequestInv, RequestTypeOK
<1>3. /\ (d => e) /\ (q => r) /\ (Renumbered(base, g) => r) /\ Taken(base, slip, d, e)
       /\ unseen' \subseteq {"shift", "renumber"}
  <2>1. (d => e) /\ (q => r)
    BY <1>0, <1>1 DEF Drift, Mixed
  <2>2. Renumbered(base, g) => r
    BY <1>0, <1>1 DEF Mixed
  <2>3. hidden = {"shift"} => e
    BY <1>0, <1>1 DEF Drift
  <2>4. unseen' \subseteq {"shift", "renumber"}
    BY <1>1, <1>2
  <2>5. QED
    BY <2>1, <2>2, <2>3, <2>4 DEF Taken
<1>4. /\ unjoined \subseteq Scope /\ Known(Scope, map) /\ Fitting(Scope, rest, map, r)
      /\ Fitting(Scope, answers, map, r) /\ Fitting(Scope, clean, map, r)
  <2>1. /\ unjoined \subseteq Scope /\ Known(Scope, map) /\ Fitting(Scope, rest, map, q)
        /\ Fitting(Scope, answers, map, q) /\ Fitting(Scope, clean, map, q)
    BY <1>0 DEF RequestInv, TokenInv
  <2>2. QED
    BY <1>3, <2>1, FittingAlso
<1>5. SettleInv' /\ Scope' = Scope /\ Busy'
  BY <1>1, SettleKept
<1>6. /\ PieceEnd \in 0 .. Len(rest) /\ Len(rest) \in Nat
      /\ Piece \in Seq(Tokens) /\ Len(Piece) = PieceEnd
      /\ \A k \in 1 .. PieceEnd : Piece[k] = rest[k]
      /\ After \in Seq(Tokens) /\ \A k \in 1 .. Len(After) : \E j \in 1 .. Len(rest) : After[k] = rest[j]
      /\ Torn \in {0, 1}
  BY <1>2, PieceIs
<1>7. Fitting(Scope, Piece, map, r) /\ Fitting(Scope, After, map, r)
  <2>1. \A k \in 1 .. Len(Piece) : \E j \in 1 .. Len(rest) : Piece[k] = rest[j]
    <3>1. \A k \in 1 .. PieceEnd : k \in 1 .. Len(rest)
      BY <1>6
    <3>2. QED
      BY <1>6, <3>1
  <2>2. Fitting(Scope, Piece, map, r)
    BY <1>2, <1>4, <1>6, <2>1, FittingPart
  <2>3. Fitting(Scope, After, map, r)
    BY <1>2, <1>4, <1>6, FittingPart
  <2>4. QED
    BY <2>2, <2>3
<1>8. reply \in Seq(Tokens) /\ Fitting(Scope, reply, map, r)
  <2>1. reply \in Seq(Tokens) /\ Echoes(reply, Piece, Renumbered(base, g))
    <3>1. base \in Straight(Piece) \cup Slipped(Piece) \cup Shifted(Piece)
      OBVIOUS
    <3>2. QED
      BY <1>2, <1>6, <3>1, ReplyEchoes
  <2>2. QED
    BY <1>6, <1>7, <1>3, <2>1, FittingEcho
<1>9. joined \in Seq(Tokens) /\ Fitting(Scope, joined, map, r) /\ Len(joined) = Off(answers) + Len(reply)
  BY <1>2, <1>4, <1>8, FittingJoin, JoinIs
<1> HIDE DEF joined
<1>10. /\ Restored(joined, map) \in Seq(Tokens) /\ Shape(joined, Restored(joined, map))
      /\ Fitting(Scope, Restored(joined, map), map, r)
  BY <1>2, <1>4, <1>9, RestoredIs
<1>11. slips' \in Nat /\ slip \in {0, 1}
  BY <1>1, <1>2, <1>6
<1>12. RequestTypeOK'
  <2>1. answers' \in Seq(Tokens) /\ clean' \in Seq(Tokens)
    BY <1>1, <1>2, <1>9, <1>10
  <2>2. step' \in {"join", "phrases", "lemmas", "ask", "scrub"}
    BY <1>1
  <2>3. asked' \in 0 .. GuardRetries
    BY <1>1, FromNothing
  <2>4. QED
    BY <1>1, <1>2, <1>6, <1>11, <1>3, <2>1, <2>2, <2>3 DEF RequestTypeOK
<1>13. TokenInv'
  <2>1. Fitting(Scope, answers', map, r) /\ Fitting(Scope, clean', map, r)
    BY <1>1, <1>4, <1>9, <1>10
  <2>2. /\ unjoined' \subseteq Scope' /\ Known(Scope', map') /\ Fitting(Scope', rest', map', r)
        /\ Fitting(Scope', answers', map', r) /\ Fitting(Scope', clean', map', r)
    BY <1>1, <1>4, <1>5, <1>7, <2>1
  <2>3. QED
    BY <1>0, <2>2 DEF TokenInv
<1>14. phase = "batch" => /\ ~Gap(rest) /\ Sound(todo, Coming(reply), slips', Len(joined), e)
                          /\ Coming(reply) = IF After = <<>> THEN joined ELSE Join(joined, After)
  <2> SUFFICES ASSUME phase = "batch" PROVE ~Gap(rest) /\ Sound(todo, Coming(reply), slips', Len(joined), e)
    BY DEF Coming, joined
  <2>1. ~Gap(rest) /\ Sound(todo, Going, slips, Len(answers), d)
    BY <1>0 DEF RequestInv, LineInv, Going
  <2>2. Cardinality(todo) \in Nat
    <3>1. todo \subseteq Items
      BY <1>2 DEF Valid
    <3>2. QED
      BY <3>1, ItemsAre
  <2>3. Sound(todo, Coming(reply), slips + slip + Torn, Off(answers) + Len(reply), e)
    BY <1>2, <1>3, <2>1, <2>2, TakenSound
  <2>4. QED
    BY <1>1, <1>9, <2>1, <2>3
<1>15. LineInv'
  <2> SUFFICES ASSUME phase = "batch", step' # "scrub"
               PROVE  step' = "ask" /\ ~Gap(rest') /\ Sound(todo, Join(answers', rest'), slips', Len(answers'), e)
    BY <1>0, <1>1 DEF LineInv
  <2>1. After # <<>>
    BY <1>1
  <2>2. step' = "ask" /\ answers' = joined
    BY <1>1, <2>1
  <2>3. PieceEnd # Len(rest)
    BY <1>2, <1>14, <2>1, PieceLines
  <2>4. ~Gap(After)
    BY <1>2, <1>14, <2>3, PieceLines
  <2>5. QED
    BY <1>1, <1>14, <2>1, <2>2, <2>4
<1>16. ScrubInv'
  <2> SUFFICES ASSUME step' = "scrub"
               PROVE  /\ Inked(answers') => Inked(clean')
                      /\ Fragments(answers') = {} => clean' = answers'
                      /\ Count(clean') <= Count(answers')
                      /\ phase = "batch" => /\ Sound(todo, answers', slips', Len(answers'), e)
                                            /\ Sound(todo, clean', slips' + Count(answers') - Count(clean'),
                                                     Len(clean'), e)
    BY <1>0, <1>1 DEF ScrubInv
  <2>1. After = <<>>
    BY <1>1
  <2>2. answers' = Restored(joined, map) /\ clean' = answers'
    BY <1>1, <2>1
  <2>3. Count(Restored(joined, map)) \in Nat
    BY <1>10, LeadIs
  <2>4. slips' + Count(answers') - Count(clean') = slips' /\ Count(clean') <= Count(answers')
    BY <1>11, <2>2, <2>3
  <2>5. phase = "batch" => Sound(todo, answers', slips', Len(answers'), e)
    <3>1. \A S, s, a, v : Sound(S, joined, s, a, v) => Sound(S, Restored(joined, map), s, a, v)
      BY <1>9, <1>10, Shaped
    <3>2. Len(joined) = Len(answers')
      BY <1>10, <2>2 DEF Shape
    <3>3. QED
      BY <1>14, <2>1, <2>2, <3>1, <3>2
  <2>6. QED
    BY <2>2, <2>4, <2>5
<1>17. JoinInv'
  BY <1>1 DEF JoinInv
<1>18. QED
  BY <1>5, <1>12, <1>13, <1>15, <1>16, <1>17 DEF RequestInv

\* What is heard is taken, or asked for again, or given up.
LEMMA HeardStep ==
  ASSUME RequestInv, Busy, step = "ask", NEW base, NEW slip, NEW hidden, hidden \subseteq {"shift"},
         \/ base \in Straight(Piece) /\ slip = 0
         \/ base \in Slipped(Piece) /\ slip = 1
         \/ base \in Shifted(Piece) /\ slip = 0 /\ hidden = {"shift"},
         Heard(base, slip, hidden)
  PROVE  RequestInv'
<1>1. PICK g \in [Tags(base) -> Fates] :
        LET reply == Trim(Garbled(base, g))
        IN  IF ReplyDegenerate(Piece, reply) THEN AskAgain \/ (asked = GuardRetries /\ GiveUp)
            ELSE Take(reply, slip, hidden \cup (IF Renumbered(base, g) THEN {"renumber"} ELSE {}))
  BY DEF Heard
<1>2. PICK reply, more : /\ reply = Trim(Garbled(base, g))
                         /\ more = hidden \cup (IF Renumbered(base, g) THEN {"renumber"} ELSE {})
  OBVIOUS
<1>3. \/ ~ReplyDegenerate(Piece, reply) /\ Take(reply, slip, more)
      \/ AskAgain \/ GiveUp
  BY <1>1, <1>2
<1>4. CASE ~ReplyDegenerate(Piece, reply) /\ Take(reply, slip, more)
  BY <1>2, <1>4, TakeStep
<1>5. QED
  BY <1>3, <1>4, AskAgainStep, GiveUpStep

LEMMA ReplyStep ==
  ASSUME RequestInv, Reply
  PROVE  RequestInv'
<1>1. Busy /\ step = "ask" /\ {} \subseteq {"shift"} /\ {"shift"} \subseteq {"shift"}
  BY DEF Reply
<1>2. ASSUME NEW base \in Straight(Piece), Heard(base, 0, {}) PROVE RequestInv'
  BY <1>1, <1>2, HeardStep
<1>3. ASSUME NEW base \in Slipped(Piece), Heard(base, 1, {}) PROVE RequestInv'
  BY <1>1, <1>3, HeardStep
<1>4. ASSUME NEW base \in Shifted(Piece), Heard(base, 0, {"shift"}) PROVE RequestInv'
  BY <1>1, <1>4, HeardStep
<1>5. QED
  BY <1>2, <1>3, <1>4 DEF Reply

-----------------------------------------------------------------------------
(* The answers are scrubbed. *)

\* Something that is no ink is taken away.
LEMMA InkLeft ==
  ASSUME NEW x \in Seq(Tokens), NEW p \in 1 .. Len(x), ~Ink(x[p]), Inked(x)
  PROVE  Inked(RemoveAt(x, p))
<1> DEFINE y == RemoveAt(x, p)
<1>1. /\ y \in Seq(Tokens) /\ Len(y) = Len(x) - 1
      /\ \A k \in 1 .. p - 1 : y[k] = x[k]
      /\ \A k \in p .. Len(x) - 1 : y[k] = x[k + 1]
  BY RemoveIs
<1> HIDE DEF y
<1>2. PICK k \in 1 .. Len(x) : Ink(x[k])
  BY DEF Inked
<1>3. k # p
  BY <1>2
<1>4. CASE k < p
  <2>1. k \in 1 .. p - 1 /\ k \in 1 .. Len(y)
    BY <1>1, <1>4
  <2>2. QED
    BY <1>1, <1>2, <2>1 DEF Inked, y
<1>5. CASE k > p
  <2>1. k - 1 \in p .. Len(x) - 1 /\ k - 1 \in 1 .. Len(y) /\ (k - 1) + 1 = k
    BY <1>1, <1>5
  <2>2. QED
    BY <1>1, <1>2, <2>1 DEF Inked, y
<1>6. QED
  BY <1>3, <1>4, <1>5

LEMMA ScrubStep ==
  ASSUME RequestInv, Busy, step = "scrub", NEW p \in 1 .. Len(clean), ScrubAt(p), ~Ink(clean[p]),
         Fragments(answers) # {}
  PROVE  RequestInv'
<1>1. /\ clean' = RemoveAt(clean, p)
      /\ UNCHANGED <<size, phase, todo, step, unjoined, terms, rest, map, answers, asked, slips, unseen, results, failed, route>>
  BY DEF ScrubAt, building
<1>2. /\ RequestTypeOK /\ TokenInv /\ clean \in Seq(Tokens) /\ answers \in Seq(Tokens) /\ slips \in Nat
      /\ Fitting(Scope, clean, map, Mixed)
  BY DEF RequestInv, RequestTypeOK, TokenInv
<1>3. Mixed' = Mixed /\ Drift' = Drift
  BY <1>1 DEF Mixed, Drift
<1>4. SettleInv' /\ Scope' = Scope /\ Busy'
  BY <1>1, SettleKept
<1>5. /\ clean' \in Seq(Tokens) /\ Len(clean') = Len(clean) - 1
      /\ \A k \in 1 .. p - 1 : clean'[k] = clean[k]
      /\ \A k \in p .. Len(clean) - 1 : clean'[k] = clean[k + 1]
      /\ Without(clean, clean', p)
  BY <1>1, <1>2, RemoveIs
<1>6. RequestTypeOK'
  BY <1>1, <1>2, <1>5 DEF RequestTypeOK
<1>7. TokenInv'
  <2>1. \A k \in 1 .. Len(clean') : \E j \in 1 .. Len(clean) : clean'[k] = clean[j]
    <3>1. Len(clean) \in Nat
      BY <1>2
    <3>2. \A k \in 1 .. Len(clean') : \/ k \in 1 .. p - 1 /\ k \in 1 .. Len(clean)
                                      \/ k \in p .. Len(clean) - 1 /\ k + 1 \in 1 .. Len(clean)
      BY <1>5, <3>1
    <3>3. QED
      BY <1>5, <3>2
  <2>2. Fitting(Scope, clean', map, Mixed)
    BY <1>2, <1>5, <2>1, FittingPart
  <2>3. QED
    BY <1>1, <1>2, <1>4, <1>3, <2>2 DEF TokenInv
<1>8. JoinInv' /\ LineInv'
  BY <1>1 DEF JoinInv, LineInv
<1>9. /\ Inked(answers) => Inked(clean)
      /\ Count(clean) <= Count(answers)
      /\ phase = "batch" => /\ Sound(todo, answers, slips, Len(answers), Drift)
                            /\ Sound(todo, clean, slips + Count(answers) - Count(clean), Len(clean), Drift)
  BY DEF RequestInv, ScrubInv
<1>10. Inked(answers) => Inked(clean')
  BY <1>1, <1>2, <1>9, InkLeft
<1>11. Count(clean) \in Nat /\ Count(answers) \in Nat /\ Count(clean') \in Nat
  BY <1>2, <1>5, LeadIs
<1>12. Count(clean') = Count(clean) - (IF clean[p] = Break THEN 1 ELSE 0)
  BY <1>2, <1>5, WithoutOne
<1>13. Count(clean') <= Count(answers)
  BY <1>9, <1>11, <1>12
<1>14. phase = "batch" => Sound(todo, clean', slips + Count(answers) - Count(clean'), Len(clean'), Drift)
  <2> SUFFICES ASSUME phase = "batch"
               PROVE  Sound(todo, clean', slips + Count(answers) - Count(clean'), Len(clean'), Drift)
    OBVIOUS
  <2> DEFINE s == slips + Count(answers) - Count(clean)
  <2>1. Sound(todo, clean, s, Len(clean), Drift) /\ s \in Nat
    BY <1>2, <1>9, <1>11
  <2>2. CASE clean[p] # Break
    <3>1. /\ Count(clean') = Count(clean)
          /\ \A S, r, d : Sound(S, clean, r, Len(clean), d) => Sound(S, clean', r, Len(clean'), d)
      <4>1. \A k \in p .. Len(clean') : clean'[k] = clean[k + 1]
        BY <1>5
      <4>2. QED
        BY <1>2, <1>5, <2>2, <4>1, WordRemoved
    <3> HIDE DEF s
    <3>2. Sound(todo, clean', s, Len(clean'), Drift)
      BY <2>1, <3>1
    <3>3. QED
      BY <3>1, <3>2 DEF s
  <2>3. CASE clean[p] = Break
    <3>1. slips + Count(answers) - Count(clean') = s + 1 /\ Count(clean') = Count(clean) - 1
      BY <1>2, <1>11, <1>12, <2>3
    <3> HIDE DEF s
    <3>2. s = 0 => Count(clean') + 1 # Cardinality(todo)
      <4>1. s = 0 => Count(clean) + 1 = Cardinality(todo)
        BY <2>1 DEF Sound
      <4>2. QED
        BY <1>11, <3>1, <4>1
    <3>3. s + 1 # 0 /\ (s + 1 = 1 => s = 0)
      BY <2>1
    <3>4. Sound(todo, clean', s + 1, Len(clean'), Drift)
      BY <3>2, <3>3 DEF Sound
    <3>5. QED
      BY <3>1, <3>4
  <2>4. QED
    BY <2>2, <2>3
<1>15. ScrubInv'
  BY <1>1, <1>9, <1>10, <1>13, <1>14, <1>3 DEF ScrubInv
<1>16. QED
  BY <1>4, <1>6, <1>7, <1>8, <1>15 DEF RequestInv

LEMMA ScrubFragmentStep ==
  ASSUME RequestInv, ScrubFragment
  PROVE  RequestInv'
<1>1. /\ Busy /\ step = "scrub" /\ Fragments(answers) # {}
      /\ Remains(clean) # {} /\ ScrubAt(Min(Remains(clean)))
  BY DEF ScrubFragment, Scrubbing
<1>2. PICK p : p = Min(Remains(clean))
  OBVIOUS
<1>3. clean \in Seq(Tokens)
  BY DEF RequestInv, RequestTypeOK
<1>4. Remains(clean) \subseteq 1 .. Len(clean) /\ Remains(clean) \subseteq Nat
  BY <1>3 DEF Remains
<1>5. p \in Remains(clean)
  BY <1>1, <1>2, <1>4, MinIs
<1>6. p \in 1 .. Len(clean) /\ ~Ink(clean[p])
  BY <1>4, <1>5 DEF Remains, Ink
<1>7. QED
  BY <1>1, <1>2, <1>6, ScrubStep

LEMMA ScrubBreakStep ==
  ASSUME RequestInv, ScrubBreak
  PROVE  RequestInv'
<1>1. Busy /\ step = "scrub" /\ Fragments(answers) # {} /\ Eaten(clean) # {} /\ ScrubAt(Min(Eaten(clean)))
  BY DEF ScrubBreak, Scrubbing
<1>2. PICK p : p = Min(Eaten(clean))
  OBVIOUS
<1>3. clean \in Seq(Tokens)
  BY DEF RequestInv, RequestTypeOK
<1>4. Eaten(clean) \subseteq 1 .. Len(clean) /\ Eaten(clean) \subseteq Nat
  BY <1>3 DEF Eaten
<1>5. p \in Eaten(clean)
  BY <1>1, <1>2, <1>4, MinIs
<1>6. p \in 1 .. Len(clean) /\ ~Ink(clean[p])
  BY <1>4, <1>5 DEF Eaten, Ink, Break
<1>7. QED
  BY <1>1, <1>2, <1>6, ScrubStep

-----------------------------------------------------------------------------
(* What is returned, and what becomes of it. *)

\* It has no remains of a tag, or nothing else but line breaks.
Tidy(x) == \/ \A k \in 1 .. Len(x) : x[k].t \notin {"tag", "stem"}
           \/ \A k \in 1 .. Len(x) : x[k].t \in {"tag", "stem", "guard", "break"}

LEMMA TidyPart ==
  ASSUME NEW x \in Seq(Tokens), NEW y \in Seq(Tokens), Tidy(x),
         \A k \in DOMAIN y : \E j \in 1 .. Len(x) : y[k] = x[j]
  PROVE  Scraps(y)
<1>1. CASE \A k \in 1 .. Len(x) : x[k].t \notin {"tag", "stem"}
  BY <1>1 DEF Scraps
<1>2. CASE \A k \in 1 .. Len(x) : x[k].t \in {"tag", "stem", "guard", "break"}
  BY <1>2 DEF Scraps
<1>3. QED
  BY <1>1, <1>2 DEF Tidy

LEMMA TranslatedIs ==
  ASSUME RequestInv, Busy, step = "scrub", Tidied
  PROVE  /\ Translated \in Seq(Tokens) /\ Fitting(Scope, Translated, map, Mixed) /\ Tidy(Translated) /\ Moved \in Nat
         /\ phase = "batch" => Sound(todo, Translated, Moved, Len(Translated), Drift)
<1>1. /\ clean \in Seq(Tokens) /\ answers \in Seq(Tokens) /\ slips \in Nat
      /\ Fitting(Scope, answers, map, Mixed) /\ Fitting(Scope, clean, map, Mixed)
  BY DEF RequestInv, RequestTypeOK, TokenInv
<1>2. /\ Inked(answers) => Inked(clean)
      /\ Fragments(answers) = {} => clean = answers
      /\ Count(clean) <= Count(answers)
      /\ phase = "batch" => /\ Sound(todo, answers, slips, Len(answers), Drift)
                            /\ Sound(todo, clean, slips + Count(answers) - Count(clean), Len(clean), Drift)
  BY DEF RequestInv, ScrubInv
<1>3. Count(clean) \in Nat /\ Count(answers) \in Nat
  BY <1>1, LeadIs
<1>4. Moved = slips + Count(answers) - Count(Translated)
  BY DEF Moved, Count
<1>5. CASE Blank(clean)
  <2>1. Translated = answers
    BY <1>5 DEF Translated
  <2>2. Moved = slips
    BY <1>1, <1>3, <1>4, <2>1
  <2>3. ~Inked(clean)
    BY <1>1, <1>5 DEF Blank, Inked, Ink, Break
  <2>4. \A k \in 1 .. Len(answers) : answers[k].t \in {"tag", "stem", "guard", "break"}
    BY <1>2, <2>3 DEF Inked, Ink
  <2>5. QED
    BY <1>1, <1>2, <2>1, <2>2, <2>4 DEF Tidy
<1>6. CASE ~Blank(clean)
  <2>1. Translated = clean
    BY <1>6 DEF Translated
  <2>2. Fragments(clean) = {}
    BY <1>2 DEF Tidied, Remains, Fragments
  <2>3. \A k \in 1 .. Len(clean) : clean[k].t \notin {"tag", "stem"}
    BY <1>1, <2>2 DEF Fragments
  <2>4. Moved = slips + Count(answers) - Count(clean) /\ Moved \in Nat
    BY <1>1, <1>2, <1>3, <1>4, <2>1
  <2>5. QED
    BY <1>1, <1>2, <2>1, <2>3, <2>4 DEF Tidy
<1>7. QED
  BY <1>5, <1>6

\* A batch is taken only if its lines can be told apart.
LEMMA MappedIsLined ==
  ASSUME NEW x \in Seq(Tokens), todo \subseteq Valid, NEW s \in Nat, NEW a, NEW d, Sound(todo, x, s, a, d),
         s <= 1, Mapped(Lines(x))
  PROVE  Lined(todo, x, a, d)
<1>1. /\ todo \subseteq Items /\ Count(x) \in Nat /\ Cardinality(todo) \in Nat
  <2>1. todo \subseteq Items
    BY DEF Valid
  <2>2. QED
    BY <2>1, ItemsAre, LeadIs
<1>2. /\ Len(Lines(x)) = Count(x) + 1 /\ \A m \in 1 .. Count(x) + 1 : Lines(x)[m] = Line(x, m)
  BY LinesAre
<1>3. Count(x) + 1 = Cardinality(todo)
  BY <1>2 DEF Mapped
<1>4. s # 1
  <2> SUFFICES ASSUME s = 1 PROVE FALSE
    OBVIOUS
  <2>1. Gap(x)
    BY <1>3 DEF Sound
  <2>2. PICK m \in 1 .. Count(x) + 1 : Line(x, m) = <<>>
    BY <2>1, GapIsLine
  <2>3. PICK i \in todo : Place(todo, i) = m
    BY <1>1, <1>3, <2>2, PlaceIs
  <2>4. ~Degenerate(Source(i), <<>>)
    BY <1>2, <2>2, <2>3 DEF Mapped
  <2>5. QED
    BY <2>3, <2>4, ValidIs
<1>5. s = 0
  BY <1>4
<1>6. QED
  BY <1>5 DEF Sound

LEMMA AcceptBatchStep ==
  ASSUME RequestInv, AcceptBatch
  PROVE  RequestInv'
<1> DEFINE x == Translated
           ls == Lines(x)
           r(i) == IF i \in todo /\ Place(todo, i) \in DOMAIN ls THEN ls[Place(todo, i)] ELSE <<>>
<1>1. /\ phase = "batch" /\ step = "scrub" /\ Tidied /\ Mapped(ls)
      /\ results' = [i \in Items |-> r(i)]
      /\ phase' = "done" /\ route' = "batched" /\ slips' = Moved
      /\ UNCHANGED <<size, todo, step, unjoined, terms, rest, map, answers, clean, asked, unseen, failed>>
  BY DEF AcceptBatch, building
<1>2. Busy
  BY <1>1 DEF Busy
<1>3. /\ RequestTypeOK /\ todo = Valid /\ failed = {} /\ Scope = todo
  BY <1>1, <1>2, BatchIs DEF RequestInv
<1>4. /\ x \in Seq(Tokens) /\ Fitting(todo, x, map, Mixed) /\ Tidy(x) /\ Moved \in Nat
      /\ Sound(todo, x, Moved, Len(x), Drift)
  BY <1>1, <1>2, <1>3, TranslatedIs
<1> HIDE DEF x
<1>5. /\ Len(ls) = Count(x) + 1 /\ DOMAIN ls = 1 .. Count(x) + 1 /\ Count(x) \in Nat
      /\ \A m \in 1 .. Count(x) + 1 : ls[m] = Line(x, m)
  BY <1>4, LinesAre, LeadIs
<1>6. /\ todo \subseteq Items /\ Count(x) + 1 = Cardinality(todo)
      /\ \A i \in todo : Place(todo, i) \in 1 .. Cardinality(todo)
      /\ \A i, j \in todo : Place(todo, i) = Place(todo, j) => i = j
  <2>1. todo \subseteq Items
    BY <1>3 DEF Valid
  <2>2. Count(x) + 1 = Cardinality(todo)
    BY <1>1, <1>5 DEF Mapped
  <2>3. QED
    BY <2>1, <2>2, PlaceIs
<1>7. ASSUME NEW i \in todo
      PROVE  /\ Place(todo, i) \in Nat /\ r(i) = Line(x, Place(todo, i)) /\ ~Degenerate(Source(i), r(i))
  <2>1. Place(todo, i) \in DOMAIN ls
    BY <1>5, <1>6
  <2>2. r(i) = ls[Place(todo, i)]
    BY <2>1
  <2>3. ls[Place(todo, i)] = Line(x, Place(todo, i)) /\ ~Degenerate(Source(i), ls[Place(todo, i)])
    BY <1>1, <1>5, <2>1 DEF Mapped
  <2>4. Place(todo, i) \in Nat
    BY <1>5, <2>1
  <2> HIDE DEF r, ls
  <2>5. QED
    BY <2>2, <2>3, <2>4
<1>8. \A i \in Items \ todo : r(i) = <<>>
  OBVIOUS
<1> HIDE DEF r, ls
<1>9. ASSUME NEW i \in todo
      PROVE  /\ r(i) \in Seq(Tokens)
             /\ \A k \in DOMAIN r(i) : \E j \in 1 .. Len(x) :
                  r(i)[k] = x[j] /\ Lead(x, j) = Place(todo, i) - 1
  <2>1. PICK m \in Nat : m = Place(todo, i) /\ r(i) = Line(x, m)
    BY <1>7
  <2>2. /\ Line(x, m) \in Seq(Tokens)
        /\ \A k \in DOMAIN Line(x, m) : \E j \in DOMAIN x :
             Line(x, m)[k] = x[j] /\ x[j] # Break /\ Lead(x, j) = m - 1
    BY <1>4, LineIs
  <2>3. DOMAIN x = 1 .. Len(x)
    BY <1>4
  <2>4. QED
    BY <2>1, <2>2, <2>3
<1>10. RequestTypeOK'
  <2>1. \A i \in Items : r(i) \in Seq(Tokens)
    BY <1>8, <1>9, FromNothing
  <2>2. results' \in [Items -> Seq(Tokens)]
    BY <1>1, <2>1
  <2>3. QED
    BY <1>1, <1>3, <1>4, <2>2 DEF RequestTypeOK
<1>11. TokenInv' /\ JoinInv' /\ LineInv' /\ ScrubInv'
  BY <1>1 DEF TokenInv, JoinInv, LineInv, ScrubInv, Busy
<1>12. (\A i : OfBatch(i, <<>>)') /\ Scraps(<<>>)
  BY DEF OfBatch, Scraps
<1>13. ASSUME NEW i \in todo, NEW k \in DOMAIN r(i), Owned(r(i)[k])
       PROVE  /\ Moved <= 1 => /\ r(i)[k].of \in todo /\ Place(todo, r(i)[k].of) - Place(todo, i) \in -1 .. 1
                               /\ r(i)[k].of = i \/ Drift
              /\ r(i)[k].t = "term" => r(i)[k].s \in Surf(r(i)[k].of) \/ (Mixed /\ r(i)[k].s \in Surfs(todo))
  <2>2. PICK j \in 1 .. Len(x) : r(i)[k] = x[j] /\ Lead(x, j) = Place(todo, i) - 1
    BY <1>9, <1>13
  <2>3. j \in DOMAIN x /\ Owned(x[j])
    BY <1>4, <1>13, <2>2
  <2>4. ASSUME Moved <= 1
        PROVE  /\ x[j].of \in todo /\ Place(todo, x[j].of) - Place(todo, i) \in -1 .. 1
               /\ x[j].of = i \/ Drift
    <3>1. Lined(todo, x, Len(x), Drift)
      BY <1>1, <1>3, <1>4, <2>4, MappedIsLined DEF ls
    <3>2. /\ x[j].of \in todo /\ Place(todo, x[j].of) - (1 + Lead(x, j)) \in -1 .. 1
          /\ Place(todo, x[j].of) = 1 + Lead(x, j) \/ Drift
      BY <2>3, <3>1 DEF Lined
    <3>3. 1 + Lead(x, j) = Place(todo, i)
      BY <1>7, <2>2
    <3>4. Place(todo, x[j].of) = Place(todo, i) => x[j].of = i
      BY <1>6, <3>2
    <3>5. QED
      BY <3>2, <3>3, <3>4
  <2>7. Fits(todo, x[j], map, Mixed)
    BY <1>4 DEF Fitting
  <2>8. x[j].t = "term" => x[j].s \in Surf(x[j].of) \/ (Mixed /\ x[j].s \in Surfs(todo))
    BY <2>3, <2>7 DEF Fits
  <2>9. QED
    BY <2>2, <2>4, <2>8
<1>14. ASSUME NEW i \in todo, NEW y, y = r(i) PROVE OfBatch(i, y)'
  <2>1. Drift' = Drift /\ Mixed' = Mixed /\ slips' = Moved /\ todo = Valid
    BY <1>1, <1>3 DEF Drift, Mixed
  <2>2. ASSUME NEW k \in DOMAIN y, Owned(y[k])
        PROVE  /\ Moved <= 1 => /\ y[k].of \in todo /\ Place(todo, y[k].of) - Place(todo, i) \in -1 .. 1
                                /\ y[k].of = i \/ Drift
               /\ y[k].t = "term" => y[k].s \in Surf(y[k].of) \/ (Mixed /\ y[k].s \in Surfs(todo))
    BY <1>14, <1>13, <2>2
  <2>3. QED
    BY <2>1, <2>2 DEF OfBatch
<1>15. ASSUME NEW i \in todo PROVE Scraps(r(i))
  <2>1. \A k \in DOMAIN r(i) : \E j \in 1 .. Len(x) : r(i)[k] = x[j]
    BY <1>9
  <2>2. r(i) \in Seq(Tokens)
    BY <1>9
  <2>3. PICK y : y = r(i)
    OBVIOUS
  <2>4. QED
    BY <1>4, <2>1, <2>2, <2>3, TidyPart
<1>16. SettleInv'
  <2>1. \A i \in Items : results'[i] = r(i)
    BY <1>1
  <2>2. ASSUME NEW i \in Items PROVE OfBatch(i, results[i])'
    <3>1. PICK y : y = r(i)
      OBVIOUS
    <3>2. OfBatch(i, y)'
      <4>1. CASE i \in todo
        BY <1>14, <3>1, <4>1
      <4>2. CASE i \notin todo
        BY <1>8, <1>12, <3>1, <4>2
      <4>3. QED
        BY <4>1, <4>2
    <3>3. y = results'[i]
      BY <2>1, <3>1
    <3>4. QED
      BY <3>2, <3>3 DEF OfBatch
  <2>3. \A i \in Items : Scraps(results'[i])
    BY <1>8, <1>12, <1>15, <2>1
  <2>4. \A i \in Items : IF i \in Valid THEN Verdict(i)' ELSE Nothing(i)'
    BY <1>1, <1>3, <1>7, <1>8, <2>1 DEF Verdict, Nothing
  <2>5. QED
    BY <1>1, <2>2, <2>3, <2>4 DEF SettleInv
<1>17. QED
  BY <1>10, <1>11, <1>16 DEF RequestInv

LEMMA JudgeSingleStep ==
  ASSUME RequestInv, JudgeSingle
  PROVE  RequestInv'
<1>1. PICK i : i = Min(todo)
  OBVIOUS
<1>2. /\ phase = "single" /\ step = "scrub" /\ Tidied /\ Busy
      /\ \/ GiveUp
         \/ /\ ~Degenerate(Source(i), Translated)
            /\ results' = [results EXCEPT ![i] = Trim(Translated)]
            /\ Singly(Onward(todo)) /\ UNCHANGED <<size, failed, route>>
  BY <1>1 DEF JudgeSingle, Busy
<1>3. CASE GiveUp
  BY <1>2, <1>3, GiveUpStep
<1>4. CASE /\ ~Degenerate(Source(i), Translated)
           /\ results' = [results EXCEPT ![i] = Trim(Translated)]
           /\ Singly(Onward(todo)) /\ UNCHANGED <<size, failed, route>>
  <2>1. /\ RequestTypeOK /\ i \in todo /\ i \in Items /\ i \in Valid /\ Scope = {i}
        /\ \A j \in Items : IF j \in Valid \ todo THEN Verdict(j) ELSE Nothing(j)
    BY <1>1, <1>2, BatchIs DEF RequestInv, Valid
  <2>2. Translated \in Seq(Tokens) /\ Fitting({i}, Translated, map, Mixed) /\ Tidy(Translated)
    BY <1>2, <2>1, TranslatedIs
  <2>3. PICK x \in Seq(Tokens) : x = Translated
    BY <2>2
  <2>4. PICK y : y = Trim(x)
    OBVIOUS
  <2>5. /\ y \in Seq(Tokens)
        /\ \A k \in DOMAIN y : \E j \in 1 .. Len(x) : y[k] = x[j]
        /\ Blank(y) => Blank(x)
    <3>1. y \in Seq(Tokens) /\ (y = <<>> <=> Blank(x))
      BY <2>4, TrimIs
    <3>2. CASE y = <<>>
      BY <3>1, <3>2
    <3>3. CASE y # <<>>
      <4>1. PICK a \in 1 .. Len(x), b \in 1 .. Len(x) :
               /\ a <= b /\ x[a] # Break
               /\ Len(y) = b - a + 1 /\ \A j \in 1 .. b - a + 1 : y[j] = x[a + j - 1]
        BY <2>4, <3>3, TrimIs
      <4>2. DOMAIN y = 1 .. b - a + 1 /\ 1 \in 1 .. b - a + 1 /\ a + 1 - 1 = a
            /\ \A j \in 1 .. b - a + 1 : a + j - 1 \in 1 .. Len(x)
        BY <3>1, <4>1
      <4>3. ~Blank(y)
        BY <4>1, <4>2 DEF Blank
      <4>4. QED
        BY <3>1, <4>1, <4>2, <4>3
    <3>4. QED
      BY <3>2, <3>3
  <2>6. results'[i] = y /\ results' \in [Items -> Seq(Tokens)] /\ \A j \in Items \ {i} : results'[j] = results[j]
    <3>1. results \in [Items -> Seq(Tokens)] /\ results' = [results EXCEPT ![i] = y]
      BY <1>4, <2>1, <2>3, <2>4 DEF RequestTypeOK
    <3>2. QED
      BY <2>1, <2>5, <3>1
  <2>7. Scraps(y)
    BY <2>2, <2>3, <2>5, TidyPart
  <2>8. OfText(i, y)
    <3> SUFFICES ASSUME NEW k \in DOMAIN y, Owned(y[k])
                 PROVE  y[k].of = i /\ (y[k].t = "term" => y[k].s \in Surf(i))
      BY DEF OfText
    <3>1. PICK j \in 1 .. Len(x) : y[k] = x[j]
      BY <2>5
    <3>2. Fits({i}, x[j], map, Mixed)
      BY <2>2, <2>3 DEF Fitting
    <3>3. Surfs({i}) = Surf(i)
      BY DEF Surfs
    <3>4. QED
      BY <3>1, <3>2, <3>3 DEF Fits
  <2>9. ~Degenerate(Source(i), y)
    <3>1. Loop \in Range(y) => Loop \in Range(x)
      <4>1. DOMAIN x = 1 .. Len(x)
        OBVIOUS
      <4>2. QED
        BY <2>5, <4>1 DEF Range
    <3>2. QED
      BY <1>4, <2>3, <2>5, <3>1 DEF Degenerate
  <2>10. Verdict(i)'
    <3>1. i \notin failed
      BY <2>1 DEF Nothing
    <3>2. failed' = failed
      BY <1>4
    <3>3. QED
      BY <2>6, <2>9, <3>1, <3>2 DEF Verdict
  <2>11. failed' \subseteq Valid /\ \A j \in Items \ {i} : results'[j] = results[j] /\ (j \in failed' <=> j \in failed)
    BY <1>4, <2>1, <2>6 DEF RequestTypeOK
  <2>12. OfText(i, results'[i]) /\ Scraps(results'[i])
    BY <2>6, <2>7, <2>8
  <2>13. QED
    BY <1>1, <1>2, <1>4, <2>6, <2>10, <2>11, <2>12, SettleOne
<1>5. QED
  BY <1>2, <1>3, <1>4

-----------------------------------------------------------------------------
(* The theorems. *)

LEMMA RequestStart ==
  ASSUME RequestInit
  PROVE  RequestInv
<1>1. /\ size \in PieceSizes /\ todo = Valid
      /\ phase = IF Valid = {} THEN "done" ELSE "batch"
      /\ step = "join" /\ unjoined = Valid /\ terms = <<>> /\ rest = <<>> /\ map = <<>>
      /\ answers = <<>> /\ clean = <<>> /\ asked = 0 /\ slips = 0 /\ unseen = {}
      /\ results = [i \in Items |-> <<>>] /\ failed = {} /\ route = ""
  BY DEF RequestInit
<1>2. RequestTypeOK
  BY <1>1, FromNothing DEF RequestTypeOK
<1>3. TokenInv
  <2>1. Busy => unjoined \subseteq Scope
    BY <1>1 DEF Busy, Scope
  <2>2. QED
    BY <1>1, <2>1, FittingNothing, KnownNothing DEF TokenInv
<1>4. JoinInv
  <2>1. \A i \in todo \ unjoined : FALSE
    BY <1>1
  <2>2. phase = "batch" => unjoined # {}
    BY <1>1
  <2>3. QED
    BY <1>1, <2>1, <2>2 DEF JoinInv
<1>5. LineInv /\ ScrubInv
  BY <1>1 DEF LineInv, ScrubInv
<1>6. SettleInv
  <2>1. \A i : OfText(i, <<>>) /\ Scraps(<<>>)
    BY DEF OfText, Scraps
  <2>2. \A i \in Items : results[i] = <<>>
    BY <1>1
  <2>3. \A i \in Items : Nothing(i) /\ OfText(i, results[i]) /\ Scraps(results[i])
    BY <1>1, <2>1, <2>2 DEF Nothing
  <2>4. Valid \ todo = {} /\ (phase = "batch" => todo # {}) /\ (phase = "done" => todo = {}) /\ phase \in {"batch", "done"}
    BY <1>1
  <2>5. QED
    BY <1>1, <2>3, <2>4 DEF SettleInv
<1>7. QED
  BY <1>2, <1>3, <1>4, <1>5, <1>6 DEF RequestInv

LEMMA RequestStep ==
  ASSUME RequestInv, [RequestNext]_requestVars
  PROVE  RequestInv'
<1>1. CASE JoinText
  BY <1>1, JoinTextStep
<1>2. CASE Protect
  BY <1>2, ProtectStep
<1>3. CASE Lemmatize
  BY <1>3, LemmatizeStep
<1>4. CASE SendOff
  BY <1>4, SendOffStep
<1>5. CASE Reply
  BY <1>5, ReplyStep
<1>6. CASE NoReply
  BY <1>6, NoReplyStep
<1>7. CASE ScrubFragment
  BY <1>7, ScrubFragmentStep
<1>8. CASE ScrubBreak
  BY <1>8, ScrubBreakStep
<1>9. CASE AcceptBatch
  BY <1>9, AcceptBatchStep
<1>10. CASE RefuseBatch
  BY <1>10, FallBackStep DEF RefuseBatch
<1>11. CASE JudgeSingle
  BY <1>11, JudgeSingleStep
<1>12. CASE UNCHANGED requestVars
  <2>1. UNCHANGED <<size, phase, todo, step, unjoined, terms, rest, map, answers, clean, asked, slips, unseen, results, failed, route>>
    BY <1>12 DEF requestVars, request, building
  <2>2. Drift' = Drift /\ Mixed' = Mixed /\ Scope' = Scope /\ (Busy' <=> Busy)
    BY <2>1 DEF Drift, Mixed, Scope, Busy
  <2>3. RequestTypeOK' /\ TokenInv' /\ JoinInv' /\ LineInv'
    BY <2>1, <2>2 DEF RequestInv, RequestTypeOK, TokenInv, JoinInv, LineInv
  <2>4. ScrubInv'
    BY <2>1, <2>2 DEF RequestInv, ScrubInv
  <2>5. SettleInv'
    BY <2>1, <2>2 DEF RequestInv, SettleInv, Verdict, Nothing, OfBatch
  <2>6. QED
    BY <2>3, <2>4, <2>5 DEF RequestInv
<1>13. QED
  BY <1>1, <1>2, <1>3, <1>4, <1>5, <1>6, <1>7, <1>8, <1>9, <1>10, <1>11, <1>12 DEF RequestNext

\* The variables of a request keep their types, and no piece is asked for more often than
\* the guard allows (_translate_chunk_guarded).
THEOREM RequestTypes == RequestSpec => []RequestTypeOK
<1>1. RequestInv => RequestTypeOK
  BY DEF RequestInv
<1>2. QED
  BY <1>1, RequestStart, RequestStep, PTL DEF RequestSpec

\* For any texts and any replies: while the line structure slipped at most once by a whole
\* line (_translate_items counts the lines and judges each), a text has its own words
\* only, or if a line break was moved by part of a line, those of the line before or
\* behind it too, and never any from further off.
THEOREM OneSlipCaughtHolds == RequestSpec => []OneSlipCaught
<1>1. RequestInv => OneSlipCaught
  <2> SUFFICES ASSUME RequestInv, slips <= 1 \/ route # "batched", NEW i \in DOMAIN results
               PROVE  Owners(results[i]) \subseteq Givers(i)
    BY DEF OneSlipCaught
  <2>1. results \in [Items -> Seq(Tokens)] /\ i \in Items
    BY DEF RequestInv, RequestTypeOK
  <2>2. IF route = "batched" THEN OfBatch(i, results[i]) ELSE OfText(i, results[i])
    BY <2>1 DEF RequestInv, SettleInv
  <2>3. CASE route # "batched"
    BY <2>2, <2>3 DEF OfText, Owners, Givers
  <2>4. CASE route = "batched"
    BY <2>2, <2>4 DEF OfBatch, Owners, Givers, Drift
  <2>5. QED
    BY <2>3, <2>4
<1>2. QED
  BY <1>1, RequestStart, RequestStep, PTL DEF RequestSpec

\* For any texts and any replies: a term in a result stands for a word of the text it came
\* with, or if a tag became another, of some text of the batch; no stem of a tag stands
\* among words; and at the end each text has a usable result or is flagged.
THEOREM ResultsAreTheirOwnHolds == RequestSpec => []ResultsAreTheirOwn
<1>1. RequestInv => ResultsAreTheirOwn
  <2> SUFFICES ASSUME RequestInv PROVE ResultsAreTheirOwn
    OBVIOUS
  <2>1. results \in [Items -> Seq(Tokens)] /\ DOMAIN results = Items
    BY DEF RequestInv, RequestTypeOK
  <2>2. TermsOwn
    <3> SUFFICES ASSUME NEW i \in Items, NEW k \in DOMAIN results[i], results[i][k].t = "term"
                 PROVE  LET known == IF route = "batched" /\ "renumber" \in unseen THEN Valid ELSE {results[i][k].of}
                        IN  \E j \in known : \E w \in Range(Texts[j]) : w.s = results[i][k].s
      BY <2>1 DEF TermsOwn
    <3>1. PICK e \in Tokens : e = results[i][k] /\ e.t = "term"
      BY <2>1
    <3>2. Owned(e)
      BY <3>1, TokenKinds
    <3>3. IF route = "batched" THEN OfBatch(i, results[i]) ELSE OfText(i, results[i])
      BY DEF RequestInv, SettleInv
    <3>4. e.s \in Surf(e.of) \/ (route = "batched" /\ Mixed /\ e.s \in Surfs(Valid))
      <4>1. CASE route = "batched"
        BY <3>1, <3>2, <3>3, <4>1 DEF OfBatch
      <4>2. CASE route # "batched"
        BY <3>1, <3>2, <3>3, <4>2 DEF OfText
      <4>3. QED
        BY <4>1, <4>2
    <3>5. \A j : e.s \in Surf(j) => \E w \in Range(Texts[j]) : w.s = e.s
      BY DEF Surf
    <3>6. Surf(e.of) # {} => e.of \in Valid
      <4>1. e.of \in Items
        BY <3>1, TokenKinds
      <4>2. QED
        BY <4>1 DEF Surf, Valid, Range
    <3>8. QED
      BY <3>1, <3>4, <3>5, <3>6 DEF Surfs, Mixed
  <2>3. DebrisOnlyAlone
    <3>1. \A i \in Items : Scraps(results[i])
      BY DEF RequestInv, SettleInv
    <3>2. QED
      BY <2>1, <3>1 DEF DebrisOnlyAlone, Scraps, Fragments
  <2>4. EveryTextSettled
    <3> SUFFICES ASSUME phase = "done", NEW i \in Items
                 PROVE  IF Texts[i] = <<>> THEN results[i] = <<>> /\ i \notin failed
                        ELSE i \in failed <=> Degenerate(Source(i), results[i])
      BY DEF EveryTextSettled
    <3>1. IF i \in Valid THEN Verdict(i) ELSE Nothing(i)
      BY DEF RequestInv, SettleInv
    <3>2. i \in Valid <=> Texts[i] # <<>>
      BY DEF Valid
    <3>3. QED
      BY <3>1, <3>2 DEF Verdict, Nothing
  <2>5. QED
    BY <2>2, <2>3, <2>4 DEF ResultsAreTheirOwn
<1>2. QED
  BY <1>1, RequestStart, RequestStep, PTL DEF RequestSpec

=============================================================================
