--------------------------- MODULE MCAltoDocument ---------------------------
(***************************************************************************)
(* A document of two pages: on the first a block of two lines, the second  *)
(* of them a rule, and a block in another language that is a rule itself;  *)
(* on the second page a block of one line.                                 *)
(***************************************************************************)
EXTENDS AltoDocument, TLC

CONSTANTS b1, b2, b3, l1, l2, l3, l4

MCBlocks  == {b1, b2, b3}
MCLines   == {l1, l2, l3, l4}
MCBlockOf == l1 :> b1 @@ l2 :> b1 @@ l3 :> b2 @@ l4 :> b3
MCPageOf  == b1 :> 1 @@ b2 :> 1 @@ b3 :> 2
MCLangOf  == b1 :> "cs" @@ b2 :> "de" @@ b3 :> "cs"
=============================================================================
