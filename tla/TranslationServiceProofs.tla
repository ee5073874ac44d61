---------------------- MODULE TranslationServiceProofs ----------------------
(***************************************************************************)
(* Proofs about TranslationService for any number of calls, items and      *)
(* retries: the types, the drain before the models are dropped, and the    *)
(* tally of rejected replies of a call that translates alone.              *)
(***************************************************************************)
EXTENDS TranslationService, FiniteSetTheorems, TLAPS

(* A thread that asks has a request of its document left to make. *)
WorkInv == \A c \in Calls : thread[c] = "ask" => left[c] \in 1 .. MaxItems

(* in_flight counts the requests being served; none is before the service  *)
(* has started or after it has stopped, and the models are there between.  *)
LifeInv ==
  /\ InFlightCounts
  /\ server \in {"starting", "stopped"} => Serving = {}
  /\ server \in {"serving", "closing", "cancelled"} => loaded

(* What the state of a call's handler says about its thread. *)
ThreadInv ==
  \A c \in Calls :
    /\ call[c] \in {"new", "body", "upload", "refused"} => thread[c] = "none"
    /\ call[c] \in {"answered", "invalid", "failed"} => thread[c] = "ended"
    /\ thread[c] = "none" => rejected[c] = 0

(* Calls that count at the same time know it; a call that never did finds  *)
(* its own rejected replies, and no others, in the tally.                  *)
TallyInv ==
  /\ \A c, d \in Calls : c # d /\ Counting(c) /\ Counting(d) => c \in together
  /\ \A c \in Calls : thread[c] = "reset" => rejected[c] = 0
  /\ \A c \in Calls \ together :
       /\ Counting(c) /\ thread[c] # "reset" => tally = rejected[c]
       /\ call[c] = "answered" => reported[c] = rejected[c]

-----------------------------------------------------------------------------
(* The actions of the handler and of the thread keep the types, and no     *)
(* request is asked for after the last one (process_single_file's loop).   *)
LEMMA TypeStep == TypeOK /\ WorkInv /\ [Next]_vars => (TypeOK /\ WorkInv)'
<1> SUFFICES ASSUME TypeOK, WorkInv, [Next]_vars PROVE (TypeOK /\ WorkInv)'
  OBVIOUS
<1> USE ServiceAssumption DEF TypeOK, WorkInv, Servers, InService, Ended
<1>1. CASE UNCHANGED vars
  BY <1>1 DEF vars, stateVars, workVars, countVars
<1>2. CASE WarmUp \/ FailToStart \/ Signal \/ StopListening \/ CancelCalls \/ EndLifespan
  BY <1>2 DEF WarmUp, FailToStart, Signal, StopListening, CancelCalls, EndLifespan,
              workVars, countVars
<1>3. ASSUME NEW c \in Calls, Handler(c) PROVE (TypeOK /\ WorkInv)'
  <2>1. CASE Arrive(c) \/ Admit(c) \/ Refuse(c) \/ Cut(c)
    BY <2>1 DEF Arrive, Admit, Refuse, Cut, Leave, stateVars, workVars, countVars
  <2>2. CASE StartThread(c)
    <3>1. together' \in SUBSET Calls
      BY <2>2 DEF StartThread
    <3>2. QED BY <2>2, <3>1 DEF StartThread, stateVars, workVars
  <2>3. CASE Report(c)
    BY <2>3 DEF Report, Answer, Leave, stateVars, workVars
  <2>4. QED BY <1>3, <2>1, <2>2, <2>3 DEF Handler
<1>4. ASSUME NEW c \in Calls, Thread(c) PROVE (TypeOK /\ WorkInv)'
  <2>1. CASE Reset(c)
    BY <2>1 DEF Reset, stateVars
  <2>2. ASSUME thread[c] = "ask", NextRequest(c)
        PROVE  /\ thread' \in [Calls -> {"none", "reset", "ask", "ended"}]
               /\ batch' \in [Calls -> BOOLEAN] /\ ok' \in [Calls -> BOOLEAN]
               /\ left' \in [Calls -> 0 .. MaxItems]
               /\ attempt' \in [Calls -> 0 .. GuardRetries]
               /\ retry' \in [Calls -> 0 .. HttpRetries]
               /\ WorkInv'
    BY <2>2 DEF NextRequest, Fresh
  <2>3. ASSUME thread[c] = "ask", FallBack(c)
        PROVE  /\ thread' \in [Calls -> {"none", "reset", "ask", "ended"}]
               /\ batch' \in [Calls -> BOOLEAN] /\ ok' \in [Calls -> BOOLEAN]
               /\ left' \in [Calls -> 0 .. MaxItems]
               /\ attempt' \in [Calls -> 0 .. GuardRetries]
               /\ retry' \in [Calls -> 0 .. HttpRetries]
               /\ WorkInv'
    <3>1. PICK n \in 1 .. MaxItems : left' = [left EXCEPT ![c] = n]
      BY <2>3 DEF FallBack
    <3>2. QED BY <2>3, <3>1 DEF FallBack, Fresh
  <2>4. CASE Accepted(c)
    BY <2>4, <2>2, <2>3 DEF Accepted, stateVars, countVars
  <2>5. CASE Degenerate(c)
    <3>1. /\ tally' \in Nat /\ rejected' \in [Calls -> Nat]
          /\ UNCHANGED <<server, draining, loaded, inFlight, call, reported, together>>
      BY <2>5 DEF Degenerate, stateVars
    <3>2. CASE GuardAgain(c) /\ ~ (NextRequest(c) \/ FallBack(c))
      BY <2>5, <3>1, <3>2 DEF Degenerate, GuardAgain
    <3>3. CASE NextRequest(c) \/ FallBack(c)
      BY <2>5, <3>1, <3>3, <2>2, <2>3 DEF Degenerate
    <3>4. QED BY <2>5, <3>2, <3>3 DEF Degenerate
  <2>6. CASE NoReply(c)
    <3>1. CASE RetryTransport(c)
      BY <2>6, <3>1 DEF NoReply, RetryTransport, stateVars, countVars
    <3>2. CASE FallBack(c)
      BY <2>6, <3>2, <2>3 DEF NoReply, stateVars, countVars
    <3>3. CASE GiveUp(c) /\ ~FallBack(c)
      <4>1. ok' \in [Calls -> BOOLEAN] /\ UNCHANGED batch
        BY <3>3 DEF GiveUp
      <4>2. /\ left' = [left EXCEPT ![c] = 0] /\ thread' = [thread EXCEPT ![c] = "ended"]
            /\ attempt' = [attempt EXCEPT ![c] = 0] /\ retry' = [retry EXCEPT ![c] = 0]
        BY <3>3 DEF GiveUp, Fresh
      <4>3. WorkInv'
        BY <4>2
      <4>4. /\ left' \in [Calls -> 0 .. MaxItems] /\ attempt' \in [Calls -> 0 .. GuardRetries]
            /\ retry' \in [Calls -> 0 .. HttpRetries]
            /\ thread' \in [Calls -> {"none", "reset", "ask", "ended"}]
        BY <4>2
      <4>5. QED BY <2>6, <4>1, <4>3, <4>4 DEF NoReply, stateVars, countVars
    <3>4. QED BY <2>6, <3>1, <3>2, <3>3 DEF NoReply
  <2>7. QED BY <1>4, <2>1, <2>4, <2>5, <2>6 DEF Thread
<1>5. QED BY <1>1, <1>2, <1>3, <1>4 DEF Next

(* The service starts with no request and no thread.                       *)
LEMMA InitTypes == Init => TypeOK /\ WorkInv
<1> SUFFICES ASSUME Init PROVE TypeOK /\ WorkInv
  OBVIOUS
<1> USE ServiceAssumption DEF Init
<1>1. /\ batch \in [Calls -> BOOLEAN] /\ ok \in [Calls -> BOOLEAN]
      /\ draining \in BOOLEAN /\ loaded \in BOOLEAN
  BY Zenon
<1>2. WorkInv
  BY DEF WorkInv
<1>3. /\ server \in Servers
      /\ inFlight \in Int /\ tally \in Nat /\ together \in SUBSET Calls
  BY DEF Servers
<1>4. /\ call \in [Calls -> InService \cup Ended \cup {"new"}]
      /\ thread \in [Calls -> {"none", "reset", "ask", "ended"}]
  OBVIOUS
<1>5. /\ left \in [Calls -> 0 .. MaxItems] /\ attempt \in [Calls -> 0 .. GuardRetries]
      /\ retry \in [Calls -> 0 .. HttpRetries]
      /\ rejected \in [Calls -> Nat] /\ reported \in [Calls -> Nat]
  OBVIOUS
<1> HIDE DEF Init
<1>6. QED BY <1>1, <1>2, <1>3, <1>4, <1>5 DEF TypeOK

(* The variables keep their types, whatever the calls and the signal do.   *)
THEOREM ServiceTypes == Spec => []TypeOK
BY InitTypes, TypeStep, PTL DEF Spec

-----------------------------------------------------------------------------
(* What the actions of a call leave alone outside it.                      *)
LEMMA ThreadFrame ==
  ASSUME NEW c \in Calls, Thread(c)
  PROVE  /\ UNCHANGED <<server, draining, loaded, inFlight, call, reported, together>>
         /\ thread[c] \in {"reset", "ask"}
BY DEF Thread, Reset, Accepted, Degenerate, NoReply, stateVars, countVars

(* Arriving counts a request once, and leaving counts it down once.        *)
LEMMA ServingChanges ==
  ASSUME TypeOK, NEW c \in Calls
  PROVE  /\ \A how \in InService :
              call[c] \notin InService /\ call' = [call EXCEPT ![c] = how]
                => Serving' # {} /\ Cardinality(Serving') = Cardinality(Serving) + 1
         /\ \A how \in InService :
              call[c] \in InService /\ call' = [call EXCEPT ![c] = how]
                => Serving' = Serving
         /\ \A how \in Ended :
              call[c] \in InService /\ call' = [call EXCEPT ![c] = how]
                => Cardinality(Serving') = Cardinality(Serving) - 1
<1>1. IsFiniteSet(Serving) /\ Cardinality(Serving) \in Nat
  BY FS_Subset, FS_CardinalityType, ServiceAssumption DEF Serving
<1>2. ASSUME call[c] \notin InService, NEW how \in InService, call' = [call EXCEPT ![c] = how]
      PROVE  Serving' # {} /\ Cardinality(Serving') = Cardinality(Serving) + 1
  <2>1. Serving' = Serving \cup {c} /\ c \notin Serving
    BY <1>2 DEF Serving, TypeOK
  <2>2. QED BY <1>1, <2>1, FS_AddElement
<1>3. ASSUME call[c] \in InService, NEW how \in InService, call' = [call EXCEPT ![c] = how]
      PROVE  Serving' = Serving
  BY <1>3 DEF Serving, TypeOK
<1>4. ASSUME call[c] \in InService, NEW how \in Ended, call' = [call EXCEPT ![c] = how]
      PROVE  Cardinality(Serving') = Cardinality(Serving) - 1
  <2>1. Serving' = Serving \ {c} /\ c \in Serving
    BY <1>4 DEF Serving, TypeOK, InService, Ended
  <2>2. QED BY <1>1, <2>1, FS_RemoveElement
<1>5. QED BY <1>1, <1>2, <1>3, <1>4

(* The count of the requests and the models follow the server's state: the *)
(* lifespan ends only when no request is being served.                     *)
LEMMA LifeStep == TypeOK /\ LifeInv /\ [Next]_vars => LifeInv'
<1> SUFFICES ASSUME TypeOK, LifeInv, [Next]_vars PROVE LifeInv'
  OBVIOUS
<1> USE DEF LifeInv, InFlightCounts
<1>1. ASSUME UNCHANGED call PROVE Serving' = Serving
  BY <1>1 DEF Serving
<1>2. CASE UNCHANGED vars
  BY <1>1, <1>2 DEF vars, stateVars
<1>3. CASE WarmUp \/ FailToStart \/ Signal \/ StopListening \/ CancelCalls
  BY <1>1, <1>3 DEF WarmUp, FailToStart, Signal, StopListening, CancelCalls
<1>4. CASE EndLifespan
  <2>1. Serving = {}
    BY <1>4, FS_EmptySet, FS_Subset, ServiceAssumption DEF EndLifespan, Drained, Serving
  <2>2. QED BY <1>1, <1>4, <2>1 DEF EndLifespan
<1>5. ASSUME NEW c \in Calls, Handler(c) PROVE LifeInv'
  <2>1. CASE Arrive(c)
    <3>1. call[c] \notin InService /\ "body" \in InService
      BY <2>1 DEF Arrive, InService
    <3>2. Serving' # {} /\ Cardinality(Serving') = Cardinality(Serving) + 1
      BY <2>1, <3>1, ServingChanges DEF Arrive
    <3>3. QED BY <2>1, <3>2 DEF Arrive, stateVars
  <2>2. CASE Admit(c) \/ StartThread(c)
    <3>1. PICK how \in InService : call' = [call EXCEPT ![c] = how]
      BY <2>2 DEF Admit, StartThread, InService
    <3>2. call[c] \in InService
      BY <2>2 DEF Admit, StartThread, InService
    <3>3. Serving' = Serving
      BY <3>1, <3>2, ServingChanges
    <3>4. QED BY <2>2, <3>3 DEF Admit, StartThread, stateVars
  <2>3. CASE Refuse(c) \/ Report(c) \/ Cut(c)
    <3>1. PICK how \in Ended : Leave(c, how)
      BY <2>3 DEF Refuse, Report, Answer, Cut, Ended
    <3>2. call[c] \in InService
      BY <2>3 DEF Refuse, Report, Cut, InService
    <3>3. Cardinality(Serving') = Cardinality(Serving) - 1
      BY <3>1, <3>2, ServingChanges DEF Leave
    <3>4. server' = server /\ loaded' = loaded /\ server \notin {"starting", "stopped"}
      BY <2>3 DEF Refuse, Report, Cut, stateVars
    <3>5. QED BY <3>1, <3>3, <3>4 DEF Leave
  <2>4. QED BY <1>5, <2>1, <2>2, <2>3 DEF Handler
<1>6. ASSUME NEW c \in Calls, Thread(c) PROVE LifeInv'
  BY <1>1, <1>6, ThreadFrame
<1>7. QED BY <1>2, <1>3, <1>4, <1>5, <1>6 DEF Next

(* However many calls there are and whatever the signal interrupts, a      *)
(* request that is being served finds the backend in models.               *)
THEOREM ServiceBackendThere == Spec => [](InFlightCounts /\ BackendThere)
<1>1. Init => TypeOK /\ WorkInv /\ LifeInv
  <2>1. Init => Serving = {}
    BY DEF Init, Serving, InService
  <2>2. QED
    BY <2>1, InitTypes, FS_EmptySet DEF Init, LifeInv, InFlightCounts
<1>2. TypeOK /\ LifeInv => InFlightCounts /\ BackendThere
  BY DEF LifeInv, BackendThere, TypeOK, Servers
<1>3. QED BY <1>1, <1>2, TypeStep, LifeStep, PTL DEF Spec

-----------------------------------------------------------------------------
(* A handler starts its thread once, and answers when the thread has ended.*)
LEMMA ThreadStep == TypeOK /\ ThreadInv /\ [Next]_vars => ThreadInv'
<1> SUFFICES ASSUME TypeOK, ThreadInv, [Next]_vars PROVE ThreadInv'
  OBVIOUS
<1> USE DEF ThreadInv, TypeOK
<1>1. ASSUME UNCHANGED <<call, thread, rejected>> PROVE ThreadInv'
  BY <1>1
<1>2. CASE WarmUp \/ FailToStart \/ Signal \/ StopListening \/ CancelCalls \/ EndLifespan
  BY <1>1, <1>2 DEF WarmUp, FailToStart, Signal, StopListening, CancelCalls, EndLifespan,
                    countVars
<1>3. ASSUME NEW c \in Calls, Handler(c) PROVE ThreadInv'
  <2>1. CASE Arrive(c) \/ Admit(c) \/ Refuse(c) \/ StartThread(c) \/ Cut(c)
    BY <2>1 DEF Arrive, Admit, Refuse, StartThread, Cut, Leave, countVars
  <2>2. CASE Report(c)
    <3>1. PICK how \in {"answered", "invalid", "failed"} : Leave(c, how)
      BY <2>2 DEF Report, Answer
    <3>2. thread[c] = "ended" /\ UNCHANGED <<thread, rejected>>
      BY <2>2 DEF Report
    <3>3. call' = [call EXCEPT ![c] = how]
      BY <3>1 DEF Leave
    <3>4. QED BY <3>2, <3>3
  <2>3. QED BY <1>3, <2>1, <2>2 DEF Handler
<1>4. ASSUME NEW c \in Calls, Thread(c) PROVE ThreadInv'
  <2>1. \A d \in Calls \ {c} : thread'[d] = thread[d] /\ rejected'[d] = rejected[d]
    BY <1>4 DEF Thread, Reset, Accepted, Degenerate, NoReply, NextRequest, FallBack,
                RetryTransport, GiveUp, countVars
  <2>2. thread'[c] # "none"
    BY <1>4 DEF Thread, Reset, Accepted, Degenerate, NoReply, NextRequest, FallBack,
                RetryTransport, GiveUp
  <2>3. QED BY <1>4, <2>1, <2>2, ThreadFrame
<1>5. QED BY <1>1, <1>2, <1>3, <1>4 DEF Next, vars, countVars

(* While a call translates alone, the tally moves with its own rejected    *)
(* replies; no other thread exists that could reset it or add to it.       *)
LEMMA TallyStep == TypeOK /\ ThreadInv /\ TallyInv /\ [Next]_vars => TallyInv'
<1> SUFFICES ASSUME TypeOK, ThreadInv, TallyInv, [Next]_vars PROVE TallyInv'
  OBVIOUS
<1> USE DEF TallyInv, TypeOK, Counting, Working
<1>1. ASSUME UNCHANGED <<call, thread, countVars>> PROVE TallyInv'
  BY <1>1 DEF countVars
<1>2. CASE WarmUp \/ FailToStart \/ Signal \/ StopListening \/ CancelCalls \/ EndLifespan
  BY <1>1, <1>2 DEF WarmUp, FailToStart, Signal, StopListening, CancelCalls, EndLifespan
<1>3. ASSUME NEW c \in Calls, Handler(c) PROVE TallyInv'
  <2>1. CASE Arrive(c) \/ Admit(c) \/ Refuse(c) \/ Cut(c)
    BY <2>1 DEF Arrive, Admit, Refuse, Cut, Leave, countVars, InService
  <2>2. CASE StartThread(c)
    <3>1. thread[c] = "none" /\ rejected[c] = 0 /\ UNCHANGED <<tally, rejected, reported>>
      BY <2>2 DEF StartThread, ThreadInv
    <3>2. \A d \in Calls \ {c} : Counting(d)' = Counting(d) /\ thread'[d] = thread[d]
                                 /\ call'[d] = call[d]
      BY <2>2 DEF StartThread
    <3>3. thread'[c] = "reset" /\ call'[c] = "translate"
      BY <2>2 DEF StartThread
    <3>4. \A d \in Calls \ {c} : Counting(d) => {c, d} \subseteq together'
      BY <2>2 DEF StartThread
    <3>5. together \subseteq together'
      BY <2>2 DEF StartThread
    <3>6. \A d, e \in Calls : d # e /\ Counting(d)' /\ Counting(e)' => d \in together'
      BY <3>2, <3>4, <3>5
    <3>7. \A d \in Calls : thread'[d] = "reset" => rejected'[d] = 0
      BY <3>1, <3>2
    <3>8. ASSUME NEW d \in Calls \ together'
          PROVE  /\ Counting(d)' /\ thread'[d] # "reset" => tally' = rejected'[d]
                 /\ call'[d] = "answered" => reported'[d] = rejected'[d]
      BY <3>1, <3>2, <3>3, <3>5
    <3>9. QED BY <3>6, <3>7, <3>8
  <2>3. CASE Report(c)
    <3>1. Counting(c) /\ thread[c] = "ended"
      BY <2>3 DEF Report, Answer
    <3>2. c \notin together => tally = rejected[c]
      BY <3>1
    <3>3. /\ UNCHANGED <<thread, tally, rejected, together>>
          /\ reported' = [reported EXCEPT ![c] = tally]
          /\ \E how \in {"answered", "invalid", "failed"} : call' = [call EXCEPT ![c] = how]
      BY <2>3 DEF Report, Answer, Leave
    <3>4. QED BY <3>2, <3>3
  <2>4. QED BY <1>3, <2>1, <2>2, <2>3 DEF Handler
<1>4. ASSUME NEW c \in Calls, Thread(c) PROVE TallyInv'
  <2>1. Working(c) /\ UNCHANGED <<call, reported, together>>
    BY <1>4, ThreadFrame
  <2>2. \A d \in Calls \ {c} : Counting(d) => d \in together /\ c \in together
    BY <2>1
  <2>3. call[c] # "answered"
    BY <2>1 DEF ThreadInv
  <2>4. CASE Reset(c)
    BY <2>1, <2>2, <2>3, <2>4 DEF Reset
  <2>5. CASE Accepted(c) \/ Degenerate(c) \/ NoReply(c)
    <3>1. /\ thread[c] = "ask"
          /\ \E s \in {"ask", "ended"} : thread' = [thread EXCEPT ![c] = s]
      BY <2>5 DEF Accepted, Degenerate, NoReply, NextRequest, FallBack, RetryTransport, GiveUp
    <3>2. \/ tally' = tally /\ rejected' = rejected
          \/ tally' = tally + 1 /\ rejected' = [rejected EXCEPT ![c] = @ + 1]
      BY <2>5 DEF Accepted, Degenerate, NoReply, countVars
    <3>3. QED BY <2>1, <2>2, <2>3, <3>1, <3>2
  <2>6. QED BY <1>4, <2>4, <2>5 DEF Thread
<1>5. QED BY <1>1, <1>2, <1>3, <1>4 DEF Next, vars

(* For any number of calls: one whose translation overlapped no other's    *)
(* reports exactly the replies rejected on its behalf.                     *)
THEOREM ServiceLoneCalls == Spec => []LoneCallsCountOwn
<1>1. Init => TypeOK /\ WorkInv /\ ThreadInv /\ TallyInv
  BY InitTypes DEF Init, ThreadInv, TallyInv, Counting, Working
<1>2. TallyInv => LoneCallsCountOwn
  BY DEF TallyInv, LoneCallsCountOwn
<1>3. QED BY <1>1, <1>2, TypeStep, ThreadStep, TallyStep, PTL DEF Spec
=============================================================================
