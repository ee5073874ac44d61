----------------------------- MODULE MCBatchRun -----------------------------
(***************************************************************************)
(* Instances of BatchRun: a folder with an ALTO file and a validated       *)
(* metadata record.                                                        *)
(***************************************************************************)
EXTENDS BatchRun

CONSTANTS alto, metadata
=============================================================================
