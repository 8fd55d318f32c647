------------------------------ MODULE Lifecycle ------------------------------
(***************************************************************************)
(* The two gated state machines every front-end drives,                     *)
(* lifecycle.DrainShutdown and lifecycle.PowerOn, one action per backend    *)
(* call or wait.  A runner is one invocation: an HTTP request or a          *)
(* reconcile.  A call can take effect and lose its reply; a wait that reads *)
(* its condition false may give up at its deadline; a call made with a done *)
(* context fails without effect.                                            *)
(***************************************************************************)
EXTENDS NodeWorld, Naturals, Sequences

CONSTANTS
    Runner,         \* concurrent invocations
    StorageGate,    \* are the TrueNAS credentials set, so that a gate is built?
    TalosProbe,     \* does the Talos backend offer Reachable?
    Matches,        \* Matches[n]: machines whose session rows contain n's token
    NoNode          \* the target of an idle runner

ASSUME LifecycleAssumption ==
    /\ StorageGate \in BOOLEAN
    /\ TalosProbe \in BOOLEAN
    /\ Matches \in [Node -> SUBSET Node]
    /\ \A n \in Node : n \in Matches[n]      \* a string contains itself
    /\ NoNode \notin Node \cup KubeNode

VARIABLES
    pc,             \* pc[r]: the call runner r makes next
    target,         \* target[r]: the machine (inventory key) it acts on
    kname,          \* kname[r]: the Kubernetes node name it was given
    opts,           \* opts[r]: ForceBMCOff and ExpectGPU
    cancelled,      \* cancelled[r]: its context is done
    todo,           \* todo[r]: the pods its drain listed
    steps           \* steps[r]: the operation.Step records so far

opvars == <<pc, target, kname, opts, cancelled, todo, steps>>

DrainPC == {"cordon", "drain", "drain-wait", "storage-gate", "talos-shutdown",
            "wait-power-off", "bmc-hard-off", "wait-power-off-after-hardoff"}
WakePC == {"read-power", "bmc-power-on", "wait-talos-reachable", "wait-node-ready",
           "wait-gpu-registered", "uncordon"}
OpPC == DrainPC \cup WakePC
DonePC == {"slept", "woken", "err"}

Step == [name : OpPC, ok : BOOLEAN]
Options == [ForceBMCOff : BOOLEAN, ExpectGPU : BOOLEAN]
NoOptions == [ForceBMCOff |-> FALSE, ExpectGPU |-> FALSE]

OpInit ==
    /\ pc = [r \in Runner |-> "idle"]
    /\ target = [r \in Runner |-> NoNode]
    /\ kname = [r \in Runner |-> NoNode]
    /\ opts = [r \in Runner |-> NoOptions]
    /\ cancelled = [r \in Runner |-> FALSE]
    /\ todo = [r \in Runner |-> {}]
    /\ steps = [r \in Runner |-> << >>]

-----------------------------------------------------------------------------
(* Recording a phase and moving on. *)

Goto(r, next) == pc' = [pc EXCEPT ![r] = next]

Record(r, name, ok) ==
    steps' = [steps EXCEPT ![r] = Append(@, [name |-> name, ok |-> ok])]

Pass(r, name, next) == Record(r, name, TRUE) /\ Goto(r, next)
Fail(r, name) == Record(r, name, FALSE) /\ Goto(r, "err")

(* The call took effect: its reply arrives, or is lost and read as a failure. *)
Reply(r, name, next) ==
    \/ Pass(r, name, next)
    \/ ~stable /\ Fail(r, name)

(* The call does not reach the backend. *)
Unreached(r) == cancelled[r] \/ ~stable

Frame == UNCHANGED <<target, kname, opts, cancelled, todo, stable>>

-----------------------------------------------------------------------------
(* DrainShutdown *)

(* Mutant: a node found cordoned is taken to be drained already. *)
CordonTrusted(r) ==
    /\ pc[r] = "cordon"
    /\ \/ /\ ~cancelled[r] /\ kname[r] \in KubeNode
          /\ cordoned' = [cordoned EXCEPT ![kname[r]] = TRUE]
          /\ Reply(r, "cordon", IF cordoned[kname[r]] THEN "storage-gate" ELSE "drain")
       \/ /\ Unreached(r) \/ kname[r] \notin KubeNode
          /\ Fail(r, "cordon")
          /\ UNCHANGED cordoned
    /\ UNCHANGED <<hardware, ready, gpu, running, terminating>>
    /\ Frame

Cordon(r) ==
    /\ pc[r] = "cordon"
    /\ \/ /\ ~cancelled[r] /\ kname[r] \in KubeNode
          /\ cordoned' = [cordoned EXCEPT ![kname[r]] = TRUE]
          /\ Reply(r, "cordon", "drain")
       \/ /\ Unreached(r) \/ kname[r] \notin KubeNode
          /\ Fail(r, "cordon")
          /\ UNCHANGED cordoned
    /\ UNCHANGED <<hardware, ready, gpu, running, terminating>>
    /\ Frame

(* The drain lists the pods once; one already terminating is skipped. *)
DrainList(r) ==
    /\ pc[r] = "drain"
    /\ \/ /\ ~cancelled[r]
          /\ todo' = [todo EXCEPT ![r] = running[kname[r]]]
          /\ Goto(r, "drain-wait")
          /\ UNCHANGED steps
       \/ /\ Unreached(r)
          /\ Fail(r, "drain")
          /\ UNCHANGED todo
    /\ UNCHANGED <<world, target, kname, opts, cancelled>>

DrainEvict(r) ==
    /\ pc[r] = "drain-wait" /\ ~cancelled[r]
    /\ \E p \in todo[r] \cap running[kname[r]] :
          /\ running' = [running EXCEPT ![kname[r]] = @ \ {p}]
          /\ terminating' = [terminating EXCEPT ![kname[r]] = @ \cup {p}]
    /\ UNCHANGED <<hardware, ready, gpu, cordoned, pc, steps>>
    /\ Frame

(* Mutant: the drain does not wait for the pods it listed. *)
DrainWaitEarly(r) ==
    /\ pc[r] = "drain-wait"
    /\ \/ Pass(r, "drain", "storage-gate")
       \/ Unreached(r) /\ Fail(r, "drain")
    /\ todo' = [todo EXCEPT ![r] = {}]
    /\ UNCHANGED <<world, target, kname, opts, cancelled>>

(* Mutant: a failed drain puts the node back into service. *)
DrainWaitRollsBack(r) ==
    /\ pc[r] = "drain-wait"
    /\ LET left == todo[r] \cap (running[kname[r]] \cup terminating[kname[r]])
       IN  \/ /\ ~cancelled[r] /\ left = {}
              /\ Pass(r, "drain", "storage-gate")
              /\ UNCHANGED cordoned
           \/ /\ Unreached(r) \/ left # {}
              /\ Fail(r, "drain")
              /\ cordoned' = [cordoned EXCEPT ![kname[r]] = FALSE]
    /\ todo' = [todo EXCEPT ![r] = {}]
    /\ UNCHANGED <<hardware, ready, gpu, running, terminating, stable, target, kname, opts, cancelled>>

(* Done when every listed pod is gone, which a drain that listed none does *)
(* not ask the context about; a failed eviction or the drain timeout ends  *)
(* it with an error.                                                       *)
DrainWait(r) ==
    /\ pc[r] = "drain-wait"
    /\ LET left == todo[r] \cap (running[kname[r]] \cup terminating[kname[r]])
       IN  \/ left = {} /\ Pass(r, "drain", "storage-gate")
           \/ (Unreached(r) \/ left # {}) /\ Fail(r, "drain")
    /\ todo' = [todo EXCEPT ![r] = {}]
    /\ UNCHANGED <<world, target, kname, opts, cancelled>>

(* Mutant: a session is sought under every token but the node's own. *)
TableClearOfOthers(n) == \A m \in Matches[n] \ {n} : sessions[m] = {}

(* No row of the session table contains the node's token. *)
TableClear(n) == \A m \in Matches[n] : sessions[m] = {}

(* Mutant: a gate that does not clear in time is only a warning. *)
WaitDetachedWarns(r) ==
    /\ pc[r] = "storage-gate"
    /\ Record(r, "storage-gate", ~StorageGate \/ TableClear(target[r]))
    /\ Goto(r, "talos-shutdown")
    /\ UNCHANGED <<hardware, kube>>
    /\ Frame

WaitDetached(r) ==
    /\ pc[r] = "storage-gate"
    /\ \/ ~StorageGate /\ Pass(r, "storage-gate", "talos-shutdown")
       \/ /\ StorageGate /\ ~cancelled[r] /\ TableClear(target[r])
          /\ Pass(r, "storage-gate", "talos-shutdown")
       \/ /\ StorageGate
          /\ Unreached(r) \/ ~TableClear(target[r])
          /\ Fail(r, "storage-gate")
    /\ UNCHANGED <<hardware, kube>>
    /\ Frame

(* Talos answers from boot until late in its shutdown. *)
TalosShutdown(r) ==
    /\ pc[r] = "talos-shutdown"
    /\ \/ /\ ~cancelled[r] /\ os[target[r]] # "down"
          /\ os' = [os EXCEPT ![target[r]] = "stopping"]
          /\ Reply(r, "talos-shutdown", "wait-power-off")
       \/ /\ Unreached(r) \/ os[target[r]] \in {"down", "stopping"}
          /\ Fail(r, "talos-shutdown")
          /\ UNCHANGED os
    /\ UNCHANGED <<power, sessions, kube>>
    /\ Frame

(* Mutant: a BMC that cannot be read is taken to be off. *)
WaitPowerOffUnread(r) ==
    /\ pc[r] = "wait-power-off"
    /\ \/ (Unreached(r) \/ power[target[r]] = "off") /\ Pass(r, "wait-power-off", "slept")
       \/ /\ power[target[r]] # "off"
          /\ Record(r, "wait-power-off", FALSE)
          /\ Goto(r, IF opts[r].ForceBMCOff THEN "bmc-hard-off" ELSE "err")
    /\ UNCHANGED <<hardware, kube>>
    /\ Frame

(* Mutant: the wait for power-off has no deadline. *)
WaitPowerOffForever(r) ==
    /\ pc[r] = "wait-power-off"
    /\ power[target[r]] = "off" /\ Pass(r, "wait-power-off", "slept")
    /\ UNCHANGED <<hardware, kube>>
    /\ Frame

(* A failed BMC read is polled over; only the deadline ends the wait. *)
WaitPowerOff(r) ==
    /\ pc[r] = "wait-power-off"
    /\ \/ ~cancelled[r] /\ power[target[r]] = "off" /\ Pass(r, "wait-power-off", "slept")
       \/ /\ Unreached(r) \/ power[target[r]] # "off"
          /\ Record(r, "wait-power-off", FALSE)
          /\ Goto(r, IF opts[r].ForceBMCOff THEN "bmc-hard-off" ELSE "err")
    /\ UNCHANGED <<hardware, kube>>
    /\ Frame

HardOff(r) ==
    /\ pc[r] = "bmc-hard-off"
    /\ \/ /\ ~cancelled[r]
          /\ power' = [power EXCEPT ![target[r]] = "off"]
          /\ os' = [os EXCEPT ![target[r]] = "down"]
          /\ Reply(r, "bmc-hard-off", "wait-power-off-after-hardoff")
       \/ /\ Unreached(r)
          /\ Fail(r, "bmc-hard-off")
          /\ UNCHANGED <<power, os>>
    /\ UNCHANGED <<sessions, kube>>
    /\ Frame

WaitPowerOffAfterHardOff(r) ==
    /\ pc[r] = "wait-power-off-after-hardoff"
    /\ \/ /\ ~cancelled[r] /\ power[target[r]] = "off"
          /\ Pass(r, "wait-power-off-after-hardoff", "slept")
       \/ /\ Unreached(r) \/ power[target[r]] # "off"
          /\ Fail(r, "wait-power-off-after-hardoff")
    /\ UNCHANGED <<hardware, kube>>
    /\ Frame

-----------------------------------------------------------------------------
(* PowerOn *)

(* A BMC that reports on is not powered on again. *)
ReadPower(r) ==
    /\ pc[r] = "read-power"
    /\ \/ /\ ~cancelled[r] /\ power[target[r]] = "on"
          /\ Pass(r, "bmc-power-on", "wait-talos-reachable")
       \/ /\ Unreached(r) \/ power[target[r]] # "on"
          /\ Goto(r, "bmc-power-on")
          /\ UNCHANGED steps
    /\ UNCHANGED <<hardware, kube>>
    /\ Frame

BMCPowerOn(r) ==
    /\ pc[r] = "bmc-power-on"
    /\ \/ /\ ~cancelled[r]
          /\ power' = [power EXCEPT ![target[r]] = "on"]
          /\ Reply(r, "bmc-power-on", "wait-talos-reachable")
       \/ /\ Unreached(r)
          /\ Fail(r, "bmc-power-on")
          /\ UNCHANGED power
    /\ UNCHANGED <<os, sessions, kube>>
    /\ Frame

WaitTalosReachable(r) ==
    /\ pc[r] = "wait-talos-reachable"
    /\ \/ ~TalosProbe /\ Pass(r, "wait-talos-reachable", "wait-node-ready")
       \/ /\ TalosProbe /\ ~cancelled[r] /\ os[target[r]] # "down"
          /\ Pass(r, "wait-talos-reachable", "wait-node-ready")
       \/ /\ TalosProbe
          /\ Unreached(r) \/ os[target[r]] \in {"down", "stopping"}
          /\ Fail(r, "wait-talos-reachable")
    /\ UNCHANGED <<hardware, kube>>
    /\ Frame

WaitNodeReady(r) ==
    /\ pc[r] = "wait-node-ready"
    /\ \/ /\ ~cancelled[r] /\ kname[r] \in KubeNode /\ ready[kname[r]]
          /\ Pass(r, "wait-node-ready", "wait-gpu-registered")
       \/ /\ Unreached(r) \/ kname[r] \notin KubeNode \/ ~ready[kname[r]]
          /\ Fail(r, "wait-node-ready")
    /\ UNCHANGED <<hardware, kube>>
    /\ Frame

WaitGPURegistered(r) ==
    /\ pc[r] = "wait-gpu-registered"
    /\ \/ ~opts[r].ExpectGPU /\ Pass(r, "wait-gpu-registered", "uncordon")
       \/ /\ opts[r].ExpectGPU /\ ~cancelled[r] /\ gpu[kname[r]]
          /\ Pass(r, "wait-gpu-registered", "uncordon")
       \/ /\ opts[r].ExpectGPU
          /\ Unreached(r) \/ ~gpu[kname[r]]
          /\ Fail(r, "wait-gpu-registered")
    /\ UNCHANGED <<hardware, kube>>
    /\ Frame

Uncordon(r) ==
    /\ pc[r] = "uncordon"
    /\ \/ /\ ~cancelled[r]
          /\ cordoned' = [cordoned EXCEPT ![kname[r]] = FALSE]
          /\ Reply(r, "uncordon", "woken")
       \/ /\ Unreached(r)
          /\ Fail(r, "uncordon")
          /\ UNCHANGED cordoned
    /\ UNCHANGED <<hardware, ready, gpu, running, terminating>>
    /\ Frame

-----------------------------------------------------------------------------

DrainStep(r) ==
    \/ Cordon(r) \/ DrainList(r) \/ DrainEvict(r) \/ DrainWait(r) \/ WaitDetached(r)
    \/ TalosShutdown(r) \/ WaitPowerOff(r) \/ HardOff(r) \/ WaitPowerOffAfterHardOff(r)

WakeStep(r) ==
    \/ ReadPower(r) \/ BMCPowerOn(r) \/ WaitTalosReachable(r) \/ WaitNodeReady(r)
    \/ WaitGPURegistered(r) \/ Uncordon(r)

OpStep(r) == DrainStep(r) \/ WakeStep(r)

(* An operation is over and what it held in memory is gone. *)
Forget(r) ==
    /\ pc' = [pc EXCEPT ![r] = "idle"]
    /\ target' = [target EXCEPT ![r] = NoNode]
    /\ kname' = [kname EXCEPT ![r] = NoNode]
    /\ opts' = [opts EXCEPT ![r] = NoOptions]
    /\ cancelled' = [cancelled EXCEPT ![r] = FALSE]
    /\ todo' = [todo EXCEPT ![r] = {}]
    /\ steps' = [steps EXCEPT ![r] = << >>]

(* The process ends: so it is for all of them. *)
ForgetAll ==
    /\ pc' = [r \in Runner |-> "idle"]
    /\ target' = [r \in Runner |-> NoNode]
    /\ kname' = [r \in Runner |-> NoNode]
    /\ opts' = [r \in Runner |-> NoOptions]
    /\ cancelled' = [r \in Runner |-> FALSE]
    /\ todo' = [r \in Runner |-> {}]
    /\ steps' = [r \in Runner |-> << >>]

-----------------------------------------------------------------------------
(* What the state machines promise, whichever front-end runs them. *)

Mode(n) == CASE power[n] = "off"    -> "off"
             [] os[n] = "stopping"  -> "stopping"
             [] OTHER               -> "up"

Contract == INSTANCE NodeContract WITH
    open <- [n \in Node |-> ~cordoned[K(n)]], load <- [n \in Node |-> running[K(n)]],
    data <- sessions, mode <- [n \in Node |-> Mode(n)], Gated <- StorageGate

(* Every behaviour of the system is one the contract with the workloads      *)
(* allows: whatever calls fail, lose their reply or are cancelled, a machine *)
(* is told to stop only closed, empty and detached, and loses its power only *)
(* after that (DrainShutdown as a whole, PowerOn after it).                  *)
ImplementsContract == Contract!Spec

(* Power is only ever pulled by Nightwatch from a machine whose storage      *)
(* sessions are gone, hard-off fallback included, although the gate is read  *)
(* long before: the cordon and the drain keep it clear ("the hard            *)
(* data-safety barrier before power is pulled", DrainShutdown).              *)
PowerPulledDetached ==
    [][\A n \in Node :
          StorageGate /\ power[n] = "on" /\ power'[n] = "off" /\ ~Crash(n)
             => sessions[n] = {}]_world

(* The OS of a machine is told to stop only while its own Kubernetes node is *)
(* cordoned and holds no pod that is not already being deleted.              *)
ShutdownOnlyDrained ==
    [][\A n \in Node :
          os[n] # "stopping" /\ os'[n] = "stopping"
             => cordoned[K(n)] /\ running[K(n)] = {}]_world

(* With a storage gate the OS is told to stop only when the target holds no  *)
(* session of the machine, although the table was read in an earlier step    *)
(* and pods that were already terminating are not drained (WaitDetached).    *)
ShutdownOnlyDetached ==
    [][\A n \in Node :
          StorageGate /\ os[n] # "stopping" /\ os'[n] = "stopping" => sessions[n] = {}]_world

(* What a finished operation claims still holds when it is answered: after a *)
(* drain-shutdown the machine is off and cordoned, after a wake it is        *)
(* schedulable (DrainShutdown and PowerOn returning nil, then 200).          *)
SuccessHolds ==
    \A r \in Runner :
        /\ pc[r] = "slept" => power[target[r]] = "off" /\ cordoned[kname[r]]
        /\ pc[r] = "woken" => ~cordoned[kname[r]]

(* A drain-shutdown that stops at a failed phase leaves the node cordoned,  *)
(* whichever phase failed after the cordon (DrainShutdown's contract).      *)
FailedDrainStaysCordoned ==
    \A r \in Runner :
        pc[r] = "err" /\ steps[r] # << >> /\ steps[r][1] = [name |-> "cordon", ok |-> TRUE]
            => cordoned[kname[r]]

(* A node is put back into service only while its machine is up: PowerOn     *)
(* uncordons last, so that "the node only takes work once it's verified up"  *)
(* (internal/lifecycle/poweron.go).  Talos and the Ready condition still     *)
(* answer for a machine that an aborted drain has already told to stop.      *)
UncordonOnlyUp ==
    [][\A n \in Node : cordoned[K(n)] /\ ~cordoned'[K(n)] => os[n] = "joined"]_world

=============================================================================
