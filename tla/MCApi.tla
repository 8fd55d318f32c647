-------------------------------- MODULE MCApi --------------------------------
(* Two concurrent connections to the trigger API, one machine whose node     *)
(* name differs from its inventory key.                                      *)
EXTENDS Api, TLC

CONSTANTS n1, k1, r1, r2

MCNames == n1 :> k1
MCMatches == n1 :> {n1}
RunnerSymmetry == Permutations({r1, r2})
=============================================================================
