-------------------------- MODULE MCSourceLanguage --------------------------
(***************************************************************************)
(* Backends with model pairs into one language, into both, with a third    *)
(* language, and without any; backends that list languages; one that says  *)
(* nothing.                                                                *)
(***************************************************************************)
EXTENDS SourceLanguage

Pairs(S) == [pairs |-> S, lists |-> {}]
Lists(S) == [pairs |-> {}, lists |-> S]

MCBackends ==
  {Pairs({<<"cs", "en">>}), Pairs({<<"cs", "en">>, <<"la", "en">>}),
   Pairs({<<"cs", "en">>, <<"en", "cs">>}), Pairs({<<"en", "cs">>}),
   Lists({"cs", "en"}), Lists({"cs", "en", "la"}), Pairs({})}
MCRestrictions == {{}, {"cs"}, {"la", "en"}}
=============================================================================
