------------------------------ MODULE NodeWorld ------------------------------
(***************************************************************************)
(* The world Nightwatch acts on: machines with a BMC and an operating       *)
(* system, their Kubernetes node objects, the pods bound to them and the    *)
(* iSCSI sessions the storage target sees.  None of it is code of the       *)
(* repository; it is modelled from how the clients under internal/ use it.  *)
(*                                                                          *)
(* Two name spaces are kept apart, as in the inventory: a machine is named  *)
(* by its inventory key, a Kubernetes node object by its node name.         *)
(***************************************************************************)

CONSTANTS
    Node,           \* inventory keys, one per machine
    KubeNode,       \* names of the node objects of the target cluster
    KubeNodeName,   \* kube_node_name of each inventory entry
    GPUNode,        \* machines whose inventory entry lists GPUs
    Pod,            \* evictable pods, each mounting one iSCSI volume
    MachineCrash    \* may a machine lose power on its own?

ASSUME WorldAssumption ==
    /\ KubeNodeName \in [Node -> KubeNode]
    /\ \A m, n \in Node : KubeNodeName[m] = KubeNodeName[n] => m = n
    /\ GPUNode \subseteq Node
    /\ MachineCrash \in BOOLEAN

VARIABLES
    power,          \* power[n]: what the BMC of n reports
    os,             \* os[n]: down, booted (Talos API up), joined (kubelet up), stopping
    ready,          \* ready[k]: the Ready condition, which lags the kubelet
    gpu,            \* gpu[k]: allocatable GPUs > 0
    cordoned,       \* cordoned[k]: spec.unschedulable
    running,        \* running[k]: pods bound to k and not being deleted
    terminating,    \* terminating[k]: pods bound to k with a deletion timestamp
    sessions,       \* sessions[n]: iSCSI sessions of n in the target's table
    stable          \* TRUE once backends answer every call

hardware == <<power, os, sessions>>
kube == <<ready, gpu, cordoned, running, terminating>>
world == <<hardware, kube, stable>>

K(n) == KubeNodeName[n]

WorldTypeOK ==
    /\ power \in [Node -> {"on", "off"}]
    /\ os \in [Node -> {"down", "booted", "joined", "stopping"}]
    /\ ready \in [KubeNode -> BOOLEAN]
    /\ gpu \in [KubeNode -> BOOLEAN]
    /\ cordoned \in [KubeNode -> BOOLEAN]
    /\ running \in [KubeNode -> SUBSET Pod]
    /\ terminating \in [KubeNode -> SUBSET Pod]
    /\ sessions \in [Node -> SUBSET Pod]
    /\ stable \in BOOLEAN

(* Every machine starts in service and empty. *)
WorldInit ==
    /\ power = [n \in Node |-> "on"]
    /\ os = [n \in Node |-> "joined"]
    /\ ready = [k \in KubeNode |-> TRUE]
    /\ gpu = [k \in KubeNode |-> \E n \in GPUNode : k = K(n)]
    /\ cordoned = [k \in KubeNode |-> FALSE]
    /\ running = [k \in KubeNode |-> {}]
    /\ terminating = [k \in KubeNode |-> {}]
    /\ sessions = [n \in Node |-> {}]
    /\ stable = FALSE

-----------------------------------------------------------------------------
(* The machine. *)

Boot(n) ==
    /\ power[n] = "on" /\ os[n] = "down"
    /\ os' = [os EXCEPT ![n] = "booted"]
    /\ UNCHANGED <<power, sessions, kube, stable>>

(* A kubelet that registers reports no devices until their plugin is back. *)
Join(n) ==
    /\ os[n] = "booted"
    /\ os' = [os EXCEPT ![n] = "joined"]
    /\ ready' = [ready EXCEPT ![K(n)] = TRUE]
    /\ gpu' = [gpu EXCEPT ![K(n)] = FALSE]
    /\ UNCHANGED <<power, sessions, cordoned, running, terminating, stable>>

RegisterGPU(n) ==
    /\ n \in GPUNode /\ os[n] = "joined" /\ ~gpu[K(n)]
    /\ gpu' = [gpu EXCEPT ![K(n)] = TRUE]
    /\ UNCHANGED <<hardware, ready, cordoned, running, terminating, stable>>

(* The node controller notices a missing kubelet only some time later. *)
LoseReady(n) ==
    /\ os[n] # "joined" /\ ready[K(n)]
    /\ ready' = [ready EXCEPT ![K(n)] = FALSE]
    /\ UNCHANGED <<hardware, gpu, cordoned, running, terminating, stable>>

(* A graceful OS shutdown powers the machine off once its pods are stopped  *)
(* and its iSCSI sessions are logged out.                                   *)
PowerDown(n) ==
    /\ power[n] = "on" /\ os[n] = "stopping"
    /\ running[K(n)] = {} /\ terminating[K(n)] = {} /\ sessions[n] = {}
    /\ power' = [power EXCEPT ![n] = "off"]
    /\ os' = [os EXCEPT ![n] = "down"]
    /\ UNCHANGED <<sessions, kube, stable>>

(* Power is lost: the API objects and the target's session table stay. *)
Crash(n) ==
    /\ MachineCrash /\ ~stable /\ power[n] = "on"
    /\ power' = [power EXCEPT ![n] = "off"]
    /\ os' = [os EXCEPT ![n] = "down"]
    /\ UNCHANGED <<sessions, kube, stable>>

-----------------------------------------------------------------------------
(* Pods and their sessions. *)

Bind(n, p) ==
    /\ ~cordoned[K(n)] /\ ready[K(n)]
    /\ \A k \in KubeNode : p \notin running[k] \cup terminating[k]
    /\ running' = [running EXCEPT ![K(n)] = @ \cup {p}]
    /\ UNCHANGED <<hardware, ready, gpu, cordoned, terminating, stable>>

Attach(n, p) ==
    /\ os[n] = "joined" /\ p \in running[K(n)] /\ p \notin sessions[n]
    /\ sessions' = [sessions EXCEPT ![n] = @ \cup {p}]
    /\ UNCHANGED <<power, os, kube, stable>>

(* Someone else deletes the pod. *)
Delete(n, p) ==
    /\ p \in running[K(n)]
    /\ running' = [running EXCEPT ![K(n)] = @ \ {p}]
    /\ terminating' = [terminating EXCEPT ![K(n)] = @ \cup {p}]
    /\ UNCHANGED <<hardware, ready, gpu, cordoned, stable>>

(* The kubelet finishes a terminating pod, or any pod when the OS stops. *)
KillPod(n, p) ==
    /\ \/ os[n] = "joined" /\ p \in terminating[K(n)]
       \/ os[n] = "stopping" /\ p \in running[K(n)] \cup terminating[K(n)]
    /\ running' = [running EXCEPT ![K(n)] = @ \ {p}]
    /\ terminating' = [terminating EXCEPT ![K(n)] = @ \ {p}]
    /\ UNCHANGED <<hardware, ready, gpu, cordoned, stable>>

(* The volume is detached after its pod, or dropped by the target when the *)
(* machine is gone.                                                        *)
Logout(n, p) ==
    /\ p \in sessions[n]
    /\ os[n] = "down" \/ p \notin running[K(n)] \cup terminating[K(n)]
    /\ sessions' = [sessions EXCEPT ![n] = @ \ {p}]
    /\ UNCHANGED <<power, os, kube, stable>>

-----------------------------------------------------------------------------

(* From some point on no backend fails and no machine crashes. *)
Stabilize ==
    /\ ~stable
    /\ stable' = TRUE
    /\ UNCHANGED <<hardware, kube>>

MachineNext(n) ==
    \/ Boot(n) \/ Join(n) \/ RegisterGPU(n) \/ LoseReady(n) \/ PowerDown(n) \/ Crash(n)

PodNext(n, p) ==
    \/ Bind(n, p) \/ Attach(n, p) \/ Delete(n, p) \/ KillPod(n, p) \/ Logout(n, p)

Environment == \E n \in Node : MachineNext(n) \/ \E p \in Pod : PodNext(n, p)

WorldNext == Environment \/ Stabilize

=============================================================================
