--------------------------- MODULE DocumentLedger ---------------------------
(***************************************************************************)
(* What processing a document promises, without batches, anchors, flags or *)
(* re-runs: every line is given one fate, and the file changes in one step *)
(* only, from a processing in which no line was left open.  A processing   *)
(* that fails leaves the file as it was.  A line may be left out only if   *)
(* its block already carries a translation an earlier append pass wrote.   *)
(***************************************************************************)
EXTENDS Integers

CONSTANTS Lines, BlockOf, MaxPasses

Settled == {"translated", "blanked", "kept"}
Fates   == {"out", "open"} \cup Settled

VARIABLES
  fate,        \* fate[l] in the processing under way
  published,   \* what each line of the file holds: 0 source, -1 blank, n: pass n
  append,      \* the output mode
  pass,        \* which processing this is
  state        \* "working", "done" or "failed"

vars == <<fate, published, append, pass, state>>

Init ==
  /\ fate = [l \in Lines |-> "out"]
  /\ published = [l \in Lines |-> 0]
  /\ append \in BOOLEAN
  /\ pass = 1
  /\ state = "working"

Carries(l) == \E m \in Lines : BlockOf[m] = BlockOf[l] /\ published[m] > 0

\* Lines of blocks without a translation are taken up.
Open(S) ==
  /\ state = "working"
  /\ \A l \in S : fate[l] = "out" /\ ~(append /\ Carries(l))
  /\ fate' = [l \in Lines |-> IF l \in S THEN "open" ELSE fate[l]]
  /\ UNCHANGED <<published, append, pass, state>>

LinesOf(b) == {l \in Lines : BlockOf[l] = b}

\* The lines of a block are given their fate, once; an append pass blanks none.
Settle(b, f) ==
  /\ state = "working"
  /\ \A l \in LinesOf(b) : fate[l] = "open"
  /\ append => \A l \in LinesOf(b) : f[l] # "blanked"
  /\ fate' = [l \in Lines |-> IF l \in LinesOf(b) THEN f[l] ELSE fate[l]]
  /\ UNCHANGED <<published, append, pass, state>>

Publish ==
  /\ state = "working"
  /\ \A l \in Lines : /\ fate[l] # "open"
                      /\ fate[l] = "out" => append /\ Carries(l)
  /\ published' = [l \in Lines |-> CASE fate[l] = "translated" -> pass
                                     [] fate[l] = "blanked" -> -1
                                     [] OTHER -> published[l]]
  /\ state' = "done"
  /\ UNCHANGED <<fate, append, pass>>

Abandon ==
  /\ state = "working"
  /\ state' = "failed"
  /\ UNCHANGED <<fate, published, append, pass>>

Again ==
  /\ state = "failed" \/ (state = "done" /\ append)
  /\ pass < MaxPasses
  /\ pass' = pass + 1
  /\ state' = "working"
  /\ fate' = [l \in Lines |-> "out"]
  /\ UNCHANGED <<published, append>>

Next ==
  \/ \E S \in SUBSET Lines : Open(S)
  \/ \E l \in Lines : \E f \in [LinesOf(BlockOf[l]) -> Settled] : Settle(BlockOf[l], f)
  \/ Publish \/ Abandon \/ Again

Spec == Init /\ [][Next]_vars
=============================================================================
