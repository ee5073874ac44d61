------------------------- MODULE TranslationService -------------------------
(***************************************************************************)
(* The HTTP service: service/api.py with the life cycle of                 *)
(* service/atrium_service.py.  One event loop runs the handlers; every     *)
(* /translate call translates in a worker thread of its own, and all       *)
(* threads share one LindatTranslator with its tally of rejected replies   *)
(* (processors/translator.py, processors/http_retry.py).  The server may   *)
(* be told to stop at any time.                                            *)
(*                                                                         *)
(* A document is a batched request and, if that one is of no use, requests *)
(* for its items one at a time; the items asked for again at the end of    *)
(* the document count among them.  A reply is accepted, degenerate, or     *)
(* missing.  uvicorn is external: told to stop, it takes no more           *)
(* connections, waits for the calls for a bounded time, cancels what is    *)
(* left, and ends the lifespan.  A cancelled call does not stop its        *)
(* thread, and the process exits when the threads have ended.              *)
(***************************************************************************)
EXTENDS Integers, FiniteSets

CONSTANTS
  Calls,         \* the POST /translate calls
  MaxItems,      \* bound on the requests for single items of a document
  GuardRetries,  \* LINDAT_GUARD_RETRIES
  HttpRetries    \* LINDAT_MAX_RETRIES

ASSUME ServiceAssumption ==
  /\ IsFiniteSet(Calls)
  /\ MaxItems \in Nat \ {0} /\ GuardRetries \in Nat /\ HttpRetries \in Nat

VARIABLES
  server,      \* where uvicorn and the lifespan are
  draining, inFlight,   \* ServiceState
  loaded,      \* models holds the backend
  call,        \* where the handler of a call is
  thread,      \* where the call's process_single_file is
  batch,       \* the request in hand is the batched one
  left,        \* requests of the document not finished yet
  attempt,     \* re-requests of the request in hand for its content
  retry,       \* and for its transport
  ok,          \* process_single_file's success
  tally,       \* degenerate_replies of the shared translator
  rejected,    \* history: replies to this call's requests that were rejected
  reported,    \* the call's lindat_degenerate_replies
  together     \* history: calls that translated while another did

stateVars == <<server, draining, loaded>>
workVars  == <<batch, left, attempt, retry, ok>>
countVars == <<tally, rejected, reported, together>>
vars == <<stateVars, inFlight, call, thread, workVars, countVars>>

-----------------------------------------------------------------------------
Servers   == {"starting", "serving", "closing", "cancelled", "stopped"}
InService == {"body", "upload", "translate"}
Ended     == {"answered", "invalid", "refused", "failed", "cut"}

Serving == {c \in Calls : call[c] \in InService}

\* process_single_file runs.
Working(c) == thread[c] \in {"reset", "ask"}

\* From the start of the thread to the reading of the tally.
Counting(c) == Working(c) \/ call[c] = "translate"

Init ==
  /\ server = "starting" /\ draining = FALSE /\ inFlight = 0
  /\ loaded = FALSE
  /\ call = [c \in Calls |-> "new"] /\ thread = [c \in Calls |-> "none"]
  /\ batch = [c \in Calls |-> TRUE] /\ left = [c \in Calls |-> 0]
  /\ attempt = [c \in Calls |-> 0] /\ retry = [c \in Calls |-> 0]
  /\ ok = [c \in Calls |-> FALSE]
  /\ tally = 0
  /\ rejected = [c \in Calls |-> 0] /\ reported = [c \in Calls |-> 0]
  /\ together = {}

-----------------------------------------------------------------------------
(* The life of the server. *)

\* The lifespan up to its yield.
WarmUp ==
  /\ server = "starting"
  /\ loaded' = TRUE
  /\ server' = "serving"
  /\ UNCHANGED <<draining, inFlight, call, thread, workVars, countVars>>

\* A configuration error stops the service before it serves.
FailToStart ==
  /\ server = "starting"
  /\ server' = "stopped"
  /\ UNCHANGED <<draining, loaded, inFlight, call, thread, workVars, countVars>>

\* SIGTERM or SIGINT: the handler runs at once, uvicorn notices later.
Signal ==
  /\ server = "serving" /\ ~draining
  /\ draining' = TRUE
  /\ UNCHANGED <<server, loaded, inFlight, call, thread, workVars, countVars>>

StopListening ==
  /\ server = "serving" /\ draining
  /\ server' = "closing"
  /\ UNCHANGED <<draining, loaded, inFlight, call, thread, workVars, countVars>>

\* No call is left to wait for, or timeout_graceful_shutdown has passed.
CancelCalls ==
  /\ server = "closing"
  /\ server' = "cancelled"
  /\ UNCHANGED <<draining, loaded, inFlight, call, thread, workVars, countVars>>

\* Fault: the drain waits for nothing.
DrainNothing == TRUE

\* wait_drained: every request has left the middleware.
Drained == inFlight = 0

\* The lifespan after its yield: wait_drained, then models.clear().
EndLifespan ==
  /\ server = "cancelled" /\ Drained
  /\ loaded' = FALSE
  /\ server' = "stopped"
  /\ UNCHANGED <<draining, inFlight, call, thread, workVars, countVars>>

-----------------------------------------------------------------------------
(* The handler of a call, on the event loop. *)

\* The response, or an exception, through the middleware's finally.
Leave(c, how) ==
  /\ call' = [call EXCEPT ![c] = how]
  /\ inFlight' = inFlight - 1

\* The middleware counts the request before its body has been received.
Arrive(c) ==
  /\ server = "serving" /\ call[c] = "new"
  /\ call' = [call EXCEPT ![c] = "body"]
  /\ inFlight' = inFlight + 1
  /\ UNCHANGED <<stateVars, thread, workVars, countVars>>

\* The handler starts: _refuse_if_draining lets the call pass.
Admit(c) ==
  /\ server \in {"serving", "closing"} /\ call[c] = "body"
  /\ ~draining
  /\ call' = [call EXCEPT ![c] = "upload"]
  /\ UNCHANGED <<stateVars, inFlight, thread, workVars, countVars>>

\* 503 while draining, and every 4xx of the parameters and the upload.
Refuse(c) ==
  /\ server \in {"serving", "closing"} /\ call[c] \in {"body", "upload"}
  /\ Leave(c, "refused")
  /\ UNCHANGED <<stateVars, thread, workVars, countVars>>

\* asyncio.to_thread(process_single_file, ...) on the backend of models.
StartThread(c) ==
  /\ server \in {"serving", "closing"} /\ call[c] = "upload"
  /\ call' = [call EXCEPT ![c] = "translate"]
  /\ thread' = [thread EXCEPT ![c] = "reset"]
  /\ LET others == {d \in Calls \ {c} : Counting(d)}
     IN  together' = together \cup (IF others = {} THEN {} ELSE others \cup {c})
  /\ UNCHANGED <<stateVars, inFlight, workVars, tally, rejected, reported>>

\* 500 for a document that failed; 422 for one that does not validate, if the caller
\* asked for that (xsd_strict); else the translation.
Answer(c) == IF ok[c] THEN {"answered", "invalid"} ELSE {"failed"}

\* The await returns: the tally goes into the call's paradata.
Report(c) ==
  /\ server \in {"serving", "closing"}
  /\ call[c] = "translate" /\ thread[c] = "ended"
  /\ reported' = [reported EXCEPT ![c] = tally]
  /\ \E how \in Answer(c) : Leave(c, how)
  /\ UNCHANGED <<stateVars, thread, workVars, tally, rejected, together>>

\* uvicorn has cancelled the call's task; its thread goes on.
Cut(c) ==
  /\ server = "cancelled" /\ call[c] \in InService
  /\ Leave(c, "cut")
  /\ UNCHANGED <<stateVars, thread, workVars, countVars>>

-----------------------------------------------------------------------------
(* process_single_file, in the thread of a call. *)

\* Fault: the counters are not reset.
ResetNothing(c) ==
  /\ thread[c] = "reset"
  /\ thread' = [thread EXCEPT ![c] = "ask"]
  /\ batch' = [batch EXCEPT ![c] = TRUE] /\ left' = [left EXCEPT ![c] = 1]
  /\ ok' = [ok EXCEPT ![c] = TRUE]
  /\ UNCHANGED <<stateVars, inFlight, call, attempt, retry, countVars>>

\* The counters of the translator are reset; the batched request is first.
Reset(c) ==
  /\ thread[c] = "reset"
  /\ thread' = [thread EXCEPT ![c] = "ask"]
  /\ tally' = 0
  /\ batch' = [batch EXCEPT ![c] = TRUE] /\ left' = [left EXCEPT ![c] = 1]
  /\ ok' = [ok EXCEPT ![c] = TRUE]
  /\ UNCHANGED <<stateVars, inFlight, call, attempt, retry, rejected, reported, together>>

\* The next request has all its attempts before it.
Fresh(c) ==
  /\ attempt' = [attempt EXCEPT ![c] = 0]
  /\ retry' = [retry EXCEPT ![c] = 0]

\* The request in hand is done with, flagged or not.
NextRequest(c) ==
  /\ left' = [left EXCEPT ![c] = @ - 1]
  /\ thread' = [thread EXCEPT ![c] = IF left[c] = 1 THEN "ended" ELSE "ask"]
  /\ Fresh(c)
  /\ UNCHANGED <<batch, ok>>

\* The batch is of no use: its items are asked for one at a time.
FallBack(c) ==
  /\ batch[c]
  /\ batch' = [batch EXCEPT ![c] = FALSE]
  /\ left' \in {[left EXCEPT ![c] = n] : n \in 1 .. MaxItems}
  /\ Fresh(c)
  /\ UNCHANGED <<thread, ok>>

\* A reply the guard accepts; a batch must also keep its lines.
Accepted(c) ==
  /\ thread[c] = "ask"
  /\ NextRequest(c) \/ FallBack(c)
  /\ UNCHANGED <<stateVars, inFlight, call, countVars>>

GuardAgain(c) == attempt[c] < GuardRetries

\* A reply the guard rejects is counted; then the chunk is sent again, or
\* DegenerateTranslationError splits a batch and flags an item.
Degenerate(c) ==
  /\ thread[c] = "ask"
  /\ tally' = tally + 1
  /\ rejected' = [rejected EXCEPT ![c] = @ + 1]
  /\ \/ /\ GuardAgain(c)
        /\ attempt' = [attempt EXCEPT ![c] = @ + 1]
        /\ retry' = [retry EXCEPT ![c] = 0]
        /\ UNCHANGED <<thread, batch, left, ok>>
     \/ /\ ~GuardAgain(c)
        /\ IF batch[c] THEN FallBack(c) ELSE NextRequest(c)
  /\ UNCHANGED <<stateVars, inFlight, call, reported, together>>

\* A network error or a retryable status, with a retry left.
RetryTransport(c) ==
  /\ retry[c] < HttpRetries
  /\ retry' = [retry EXCEPT ![c] = @ + 1]
  /\ UNCHANGED <<thread, batch, left, attempt, ok>>

\* Fault: an item that got no answer is put back instead of failing the file.
GiveUpNever(c) ==
  \/ FallBack(c)
  \/ /\ ~batch[c]
     /\ Fresh(c)
     /\ UNCHANGED <<thread, batch, left, ok>>

\* TranslationError: it splits a batch, and fails the file for an item.
GiveUp(c) ==
  \/ FallBack(c)
  \/ /\ ~batch[c]
     /\ thread' = [thread EXCEPT ![c] = "ended"]
     /\ ok' = [ok EXCEPT ![c] = FALSE]
     /\ left' = [left EXCEPT ![c] = 0] /\ Fresh(c)
     /\ UNCHANGED batch

\* A status that is not retryable gives up at once.
NoReply(c) ==
  /\ thread[c] = "ask"
  /\ RetryTransport(c) \/ GiveUp(c)
  /\ UNCHANGED <<stateVars, inFlight, call, countVars>>

-----------------------------------------------------------------------------
Handler(c) == Arrive(c) \/ Admit(c) \/ Refuse(c) \/ StartThread(c) \/ Report(c) \/ Cut(c)

Thread(c) == Reset(c) \/ Accepted(c) \/ Degenerate(c) \/ NoReply(c)

Next ==
  \/ WarmUp \/ FailToStart \/ Signal \/ StopListening \/ CancelCalls \/ EndLifespan
  \/ \E c \in Calls : Handler(c) \/ Thread(c)

\* Threads run, the loop takes up what is ready, and a shutdown goes on; no
\* signal and no call has to come, and a body may never be complete.
Fairness ==
  /\ \A c \in Calls : WF_vars(Thread(c)) /\ WF_vars(Report(c)) /\ WF_vars(Cut(c))
  /\ WF_vars(StopListening) /\ WF_vars(CancelCalls) /\ WF_vars(EndLifespan)

Spec == Init /\ [][Next]_vars /\ Fairness

-----------------------------------------------------------------------------
(* The types of the variables; a call waits only while its thread exists.  *)
TypeOK ==
  /\ server \in Servers
  /\ draining \in BOOLEAN /\ loaded \in BOOLEAN /\ inFlight \in Int
  /\ call \in [Calls -> InService \cup Ended \cup {"new"}]
  /\ thread \in [Calls -> {"none", "reset", "ask", "ended"}]
  /\ batch \in [Calls -> BOOLEAN] /\ ok \in [Calls -> BOOLEAN]
  /\ left \in [Calls -> 0 .. MaxItems]
  /\ attempt \in [Calls -> 0 .. GuardRetries]
  /\ retry \in [Calls -> 0 .. HttpRetries]
  /\ tally \in Nat
  /\ rejected \in [Calls -> Nat] /\ reported \in [Calls -> Nat]
  /\ together \in SUBSET Calls

(* in_flight is the number of requests between their arrival and their     *)
(* answer, whichever way they ended: the drain waits for it to be zero.    *)
InFlightCounts == inFlight = Cardinality(Serving)

(* While a request is being served, the backend is there: the lifespan     *)
(* drops the models only after the drain, so no handler meets an emptied   *)
(* models dictionary, whatever the signal interrupted.                     *)
BackendThere == Serving # {} => loaded

(* A call whose translation overlapped no other's, a cancelled one's       *)
(* included, reports exactly the replies rejected on its own behalf.       *)
LoneCallsCountOwn ==
  \A c \in Calls : call[c] = "answered" /\ c \notin together
                     => reported[c] = rejected[c]

(* A call that comes after the signal never starts a translation, so the   *)
(* drain has a bounded set of calls to wait for.                           *)
LateCallsDoNotWork ==
  \A c \in Calls : [](draining /\ call[c] = "new" => [](thread[c] = "none"))

(* Every thread comes to an end, whatever LINDAT answers: the retries of a *)
(* request and the fallback of a batch are bounded, together.              *)
ThreadsEnd == \A c \in Calls : Working(c) ~> thread[c] = "ended"

(* Once told to stop, the service stops, and no thread keeps the process.  *)
ShutdownEnds == draining ~> (server = "stopped" /\ \A c \in Calls : ~Working(c))

(* A shutdown takes up no new work and comes to its end with all that is   *)
(* under way, whatever the service is doing when the signal comes.         *)
ShutdownCompletes == LateCallsDoNotWork /\ ThreadsEnd /\ ShutdownEnds
=============================================================================
