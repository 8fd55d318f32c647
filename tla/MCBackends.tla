------------------------------ MODULE MCBackends ------------------------------
(* One operation after another with a storage target that answers, stays    *)
(* silent or pushes events.                                                  *)
EXTENDS Backends
=============================================================================
