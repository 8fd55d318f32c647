----------------------------- MODULE MCFrontEnds -----------------------------
(* One connection to the trigger API and one terminal on the same machine.   *)
EXTENDS FrontEnds, TLC

CONSTANTS n1, k1

MCNames == n1 :> k1
MCMatches == n1 :> {n1}
=============================================================================
