------------------------------- MODULE Operate -------------------------------
(***************************************************************************)
(* The operate layer the HTTP API and the command line share: an operation  *)
(* looks its node up in the inventory, builds the node's backends and runs  *)
(* the lifecycle state machine with the options of its front-end.           *)
(***************************************************************************)
EXTENDS Lifecycle

CONSTANT UnknownNode        \* a name that is no key of the inventory

ASSUME OperateAssumption == UnknownNode \notin Node \cup {NoNode}

PathNode == Node \cup {UnknownNode}
AssemblePC == {"assemble-drain", "assemble-wake"}
ActivePC == AssemblePC \cup OpPC \cup DonePC

ExpectGPU(n, skip) == n \in GPUNode /\ ~skip

(* A front-end calls operate.DrainShutdown or operate.Wake for the name n. *)
Begin(r, n, assemble, o) ==
    /\ Goto(r, assemble)
    /\ target' = [target EXCEPT ![r] = n]
    /\ opts' = [opts EXCEPT ![r] = o]

(* Look the node up, build, run with node name k.  Only the login at the    *)
(* storage target uses the context while building.                          *)
Assemble(r, k) ==
    /\ pc[r] \in AssemblePC
    /\ \/ /\ target[r] \in Node /\ ~(StorageGate /\ cancelled[r])
          /\ kname' = [kname EXCEPT ![r] = k]
          /\ Goto(r, IF pc[r] = "assemble-drain" THEN "cordon" ELSE "read-power")
       \/ /\ target[r] \notin Node \/ ~stable \/ (StorageGate /\ cancelled[r])
          /\ Goto(r, "err")
          /\ UNCHANGED kname
    /\ UNCHANGED <<world, target, opts, cancelled, todo, steps>>

(* The context of an operation in progress is done. *)
CancelContext(r) ==
    /\ pc[r] \in AssemblePC \cup OpPC /\ ~cancelled[r]
    /\ cancelled' = [cancelled EXCEPT ![r] = TRUE]
    /\ UNCHANGED <<world, pc, target, kname, opts, todo, steps>>

(* The calls that nothing ends but their context: dial and login at the     *)
(* storage target, the patches of Cordon and Uncordon, the pod list of the   *)
(* drain and Talos' Shutdown.  Every other call and wait has a deadline.     *)
OnlyContextEnds(r) ==
    /\ ~cancelled[r]
    /\ \/ pc[r] \in {"cordon", "drain", "talos-shutdown", "uncordon"}
       \/ pc[r] \in AssemblePC /\ target[r] \in Node /\ StorageGate

(* A front-end adds to these where its own runners may be. *)
OperateTypeOK(PC) ==
    /\ WorldTypeOK
    /\ pc \in [Runner -> PC]
    /\ target \in [Runner -> PathNode \cup {NoNode}]
    /\ kname \in [Runner -> KubeNode \cup {NoNode}]
    /\ opts \in [Runner -> Options]
    /\ cancelled \in [Runner -> BOOLEAN]
    /\ todo \in [Runner -> SUBSET Pod]
    /\ steps \in [Runner -> Seq(Step)]

=============================================================================
