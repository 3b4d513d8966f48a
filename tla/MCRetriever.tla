---------------------------- MODULE MCRetriever ----------------------------
(***************************************************************************)
(* The retriever for TLC: p has every block and may be out of reach, q has *)
(* none and always answers.                                                *)
(***************************************************************************)
EXTENDS Retriever, TLC

CONSTANTS p, q

MCHeld == (p :> Digest) @@ (q :> {})
=============================================================================
