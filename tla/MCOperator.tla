------------------------------ MODULE MCOperator ------------------------------
(* The controller on one object.  With MCNames the kube_node_name of the     *)
(* inventory is the key of the entry; MCRemapped has another one, the key    *)
(* being the name of a node Nightwatch does not manage.                      *)
EXTENDS Operator, TLC

CONSTANTS n1, k1

MCNames == n1 :> n1
MCRemapped == n1 :> k1
MCMatches == n1 :> {n1}
===============================================================================
