-------------------------------- MODULE MCBmc --------------------------------
(* Both drivers against every answer of a controller. *)
EXTENDS Bmc

=============================================================================
