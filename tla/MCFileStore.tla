----------------------------- MODULE MCFileStore -----------------------------
(* Two clients of one record of the store. *)
EXTENDS FileStore, TLC

CONSTANTS c1, c2

ClientSymmetry == Permutations({c1, c2})
=============================================================================
