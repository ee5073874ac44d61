------------------------ MODULE MCTranslationService ------------------------
(* The instances TLC checks: MCTranslationService stands for the service   *)
(* with a few calls, a document of a few items and one retry of each kind. *)
EXTENDS TranslationService, TLC

CONSTANTS c1, c2

Callers == {c1, c2}

\* The calls are told apart by nothing but their names.
Symmetric == Permutations(Callers)
=============================================================================
