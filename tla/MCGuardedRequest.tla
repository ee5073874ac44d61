-------------------------- MODULE MCGuardedRequest --------------------------
(* A homonym of the next segment's term and a bracket before a term, a term
   alone, a blank line, and a phrase before plain words. *)
EXTENDS GuardedRequest

W(surface) == [s |-> surface, v |-> "no"]
L(surface) == [s |-> surface, v |-> "lemma"]
P(surface) == [s |-> surface, v |-> "phrase"]

MCTexts == << <<W("("), W("t")>>, <<L("t")>>, <<>>, <<P("x"), W("a"), W("a")>> >>
=============================================================================
