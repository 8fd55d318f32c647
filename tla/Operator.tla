------------------------------ MODULE Operator ------------------------------
(***************************************************************************)
(* The ElasticNode controller.  One worker per key runs Reconcile: read the *)
(* object from the informer cache, build the backends, observe the world,   *)
(* decide from desired against observed, run a lifecycle operation under a  *)
(* watcher that cancels it when the intent changes, and write the status.   *)
(* The object can be edited or deleted at any time, the cache lags it, a    *)
(* status update on a stale copy conflicts, and the process can fail over.  *)
(***************************************************************************)
EXTENDS Lifecycle, FiniteSets

CONSTANTS
    Eligible,       \* nodes the provider accepts (clusterRef, elastic_eligible)
    Created,        \* desiredPower of the objects as they are created
    Deletion,       \* may objects be deleted?
    MaxConcurrent,  \* MaxConcurrentReconciles
    MaxGeneration   \* bound on the number of spec edits

ASSUME OperatorAssumption ==
    /\ Runner = Node            \* the work queue serialises each key
    /\ Eligible \subseteq Node
    /\ Created \subseteq {"unset", "On", "Off"}
    /\ Deletion \in BOOLEAN
    /\ MaxConcurrent \in Nat \ {0}
    /\ MaxGeneration \in Nat \ {0}

VARIABLES
    obj,            \* obj[n]: the spec of the ElasticNode stored by the API server
    askedOff,       \* history: the nodes of which some stored version asked for Off
    status,         \* status[n]: its status there
    cache,          \* cache[n]: the informer's copy of it
    cacheFresh,     \* cacheFresh[n]: that copy has the latest resourceVersion
    en,             \* en[n]: the copy the current Reconcile works on
    enFresh,        \* enFresh[n]: its resourceVersion is still the latest
    rpc,            \* rpc[n]: where Reconcile is
    obs,            \* obs[n]: what it observed
    fin,            \* fin[n]: the phase it will report, and whether with an error
    changed,        \* changed[n]: the watcher saw the intent change
    queued          \* queued[n]: the work queue holds the key

objects == <<obj, askedOff, status, cache, cacheFresh, en, enFresh>>
control == <<rpc, obs, fin, changed, queued>>
vars == <<world, opvars, objects, control>>

RunPC == {"backends", "power", "ready", "gpu", "schedulable", "decide", "op",
          "power-again", "ready-again", "gpu-again", "finish"}
(* Unset and none stand for the empty string. *)
Phase == {"none", "Ready", "Blocked", "Off", "PoweringOn", "Error"}
PowerState == {"unset", "On", "Off"}

Status == [phase : Phase, power : PowerState, ready : BOOLEAN, gpu : BOOLEAN,
           gen : 0..MaxGeneration, converged : BOOLEAN]
NoStatus == [phase |-> "none", power |-> "unset", ready |-> FALSE, gpu |-> FALSE,
             gen |-> 0, converged |-> FALSE]
ElasticNode == [exists : BOOLEAN, desired : PowerState, gen : 1..MaxGeneration]
Observation == [power : {"on", "off", "unknown"}, ready : BOOLEAN, gpu : BOOLEAN,
                schedulable : BOOLEAN]
NoObservation == [power |-> "unknown", ready |-> FALSE, gpu |-> FALSE, schedulable |-> FALSE]
NoFinish == [phase |-> "none", err |-> FALSE]

TypeOK ==
    /\ WorldTypeOK
    /\ pc \in [Runner -> {"idle"} \cup OpPC \cup DonePC]
    /\ target \in [Runner -> Node \cup {NoNode}]
    /\ kname \in [Runner -> Node \cup {NoNode}]
    /\ opts \in [Runner -> Options]
    /\ cancelled \in [Runner -> BOOLEAN]
    /\ todo \in [Runner -> SUBSET Pod]
    /\ steps \in [Runner -> Seq(Step)]
    /\ obj \in [Node -> ElasticNode]
    /\ askedOff \subseteq Node
    /\ status \in [Node -> Status]
    /\ cache \in [Node -> ElasticNode]
    /\ en \in [Node -> ElasticNode]
    /\ cacheFresh \in [Node -> BOOLEAN]
    /\ enFresh \in [Node -> BOOLEAN]
    /\ rpc \in [Node -> {"idle"} \cup RunPC]
    /\ obs \in [Node -> Observation]
    /\ fin \in [Node -> [phase : Phase, err : BOOLEAN]]
    /\ changed \in [Node -> BOOLEAN]
    /\ queued \in [Node -> BOOLEAN]

NewObject(d) == [exists |-> TRUE, desired |-> d, gen |-> 1]
NoObject == NewObject("unset")

(* The objects are just created, with or without an intent, and the informer *)
(* has listed them.                                                          *)

Init ==
    /\ WorldInit
    /\ OpInit
    /\ obj \in [Node -> {NewObject(d) : d \in Created}]
    /\ askedOff = {n \in Node : obj[n].desired = "Off"}
    /\ status = [n \in Node |-> NoStatus]
    /\ cache = obj
    /\ en = [n \in Node |-> NoObject]
    /\ cacheFresh = [n \in Node |-> TRUE]
    /\ enFresh = [n \in Node |-> FALSE]
    /\ rpc = [n \in Node |-> "idle"]
    /\ obs = [n \in Node |-> NoObservation]
    /\ fin = [n \in Node |-> NoFinish]
    /\ changed = [n \in Node |-> FALSE]
    /\ queued = [n \in Node |-> TRUE]

(* Mutant: an unset intent is read as off. *)
WantDefaultsToOff(o) == IF o.desired = "On" THEN "On" ELSE "Off"

(* An empty desiredPower keeps the node in service. *)
Want(o) == IF o.desired = "unset" THEN "On" ELSE o.desired

-----------------------------------------------------------------------------
(* The API server and the informer (external). *)

Stored(n, o) ==
    /\ obj' = [obj EXCEPT ![n] = o]
    /\ askedOff' = IF o.desired = "Off" THEN askedOff \cup {n} ELSE askedOff
    /\ cacheFresh' = [cacheFresh EXCEPT ![n] = FALSE]
    /\ enFresh' = [enFresh EXCEPT ![n] = FALSE]

EditDesired(n) ==
    /\ ~stable /\ obj[n].exists /\ obj[n].gen < MaxGeneration
    /\ \E d \in {"On", "Off"} \ {obj[n].desired} :
          Stored(n, [exists |-> TRUE, desired |-> d, gen |-> obj[n].gen + 1])
    /\ UNCHANGED <<world, opvars, status, cache, en, control>>

(* The status goes with the object; the controller adds no finalizer. *)
DeleteObject(n) ==
    /\ Deletion /\ ~stable /\ obj[n].exists
    /\ Stored(n, [obj[n] EXCEPT !.exists = FALSE])
    /\ status' = [status EXCEPT ![n] = NoStatus]
    /\ UNCHANGED <<world, opvars, cache, en, control>>

(* The watch delivers the latest version and enqueues the key. *)
Sync(n) ==
    /\ ~cacheFresh[n]
    /\ cache' = [cache EXCEPT ![n] = obj[n]]
    /\ cacheFresh' = [cacheFresh EXCEPT ![n] = TRUE]
    /\ queued' = [queued EXCEPT ![n] = TRUE]
    /\ UNCHANGED <<world, opvars, obj, askedOff, status, en, enFresh, rpc, obs, fin, changed>>

-----------------------------------------------------------------------------
(* Reconcile *)

Continue(n, next) == rpc' = [rpc EXCEPT ![n] = next]

(* Mutant: Reconcile returns without asking to run again. *)
ReturnForGood(n) ==
    /\ Continue(n, "idle")
    /\ en' = [en EXCEPT ![n] = NoObject]
    /\ obs' = [obs EXCEPT ![n] = NoObservation]
    /\ fin' = [fin EXCEPT ![n] = NoFinish]
    /\ UNCHANGED queued

(* Reconcile returns, asking to run again. *)
Return(n) ==
    /\ Continue(n, "idle")
    /\ queued' = [queued EXCEPT ![n] = TRUE]
    /\ en' = [en EXCEPT ![n] = NoObject]
    /\ obs' = [obs EXCEPT ![n] = NoObservation]
    /\ fin' = [fin EXCEPT ![n] = NoFinish]

Get(n) ==
    /\ rpc[n] = "idle" /\ queued[n]
    /\ Cardinality({m \in Node : rpc[m] # "idle"}) < MaxConcurrent
    /\ queued' = [queued EXCEPT ![n] = FALSE]
    /\ IF cache[n].exists
       THEN /\ en' = [en EXCEPT ![n] = cache[n]]
            /\ enFresh' = [enFresh EXCEPT ![n] = cacheFresh[n]]
            /\ Continue(n, "backends")
       ELSE UNCHANGED <<en, enFresh, rpc>>
    /\ UNCHANGED <<world, opvars, obj, askedOff, status, cache, cacheFresh, obs, fin, changed>>

Report(n, phase, err) ==
    /\ fin' = [fin EXCEPT ![n] = [phase |-> phase, err |-> err]]
    /\ Continue(n, "finish")

BackendsFor(n) ==
    /\ rpc[n] = "backends"
    /\ \/ n \in Eligible /\ Continue(n, "power") /\ UNCHANGED fin
       \/ (n \notin Eligible \/ ~stable) /\ Report(n, "Error", TRUE)
    /\ UNCHANGED <<world, opvars, objects, obs, changed, queued>>

(* A read that errors leaves the power unknown and the rest false. *)
Read(value, none) == {value} \cup IF stable THEN {} ELSE {none}

Proceed(n, next) == Continue(n, next) /\ UNCHANGED <<world, opvars, objects, fin, changed, queued>>

ObservePower(n) ==
    /\ rpc[n] = "power"
    /\ \E p \in Read(power[n], "unknown") : obs' = [obs EXCEPT ![n].power = p]
    /\ Proceed(n, "ready")

(* The target node is looked up by the name of the object; a node that is   *)
(* not found reads as false.                                                *)
IsNodeReady(n) == n \in KubeNode /\ ready[n]
NodeHasGPUCapacity(n) == n \in KubeNode /\ gpu[n]
IsNodeSchedulable(n) == n \in KubeNode /\ ~cordoned[n]

ObserveNode(n) ==
    \/ /\ rpc[n] = "ready"
       /\ \E b \in Read(IsNodeReady(n), FALSE) : obs' = [obs EXCEPT ![n].ready = b]
       /\ Proceed(n, "gpu")
    \/ /\ rpc[n] = "gpu"
       /\ \E b \in Read(NodeHasGPUCapacity(n), FALSE) : obs' = [obs EXCEPT ![n].gpu = b]
       /\ Proceed(n, "schedulable")
    \/ /\ rpc[n] = "schedulable"
       /\ \E b \in Read(IsNodeSchedulable(n), FALSE) : obs' = [obs EXCEPT ![n].schedulable = b]
       /\ Proceed(n, "decide")

StartOp(n, first) ==
    /\ Goto(n, first)
    /\ target' = [target EXCEPT ![n] = n]
    /\ kname' = [kname EXCEPT ![n] = n]
    /\ opts' = [opts EXCEPT ![n] = [ForceBMCOff |-> FALSE, ExpectGPU |-> n \in GPUNode]]
    /\ Continue(n, "op")
    /\ obs' = [obs EXCEPT ![n].schedulable = FALSE]
    /\ UNCHANGED <<cancelled, todo, steps, fin>>

InService(n) == obs[n].ready /\ obs[n].schedulable /\ (n \in GPUNode => obs[n].gpu)

(* The report of a node that is as it should be. *)
Settled(o, off) == [power |-> IF off THEN "off" ELSE "on", ready |-> ~off,
                    gpu |-> ~off /\ o.gpu, schedulable |-> o.schedulable]

(* Mutant: a BMC that does not answer counts as off. *)
DecideUnknownIsOff(n) ==
    /\ rpc[n] = "decide"
    /\ LET off == Want(en[n]) = "Off"
           done == IF off THEN obs[n].power # "on"
                          ELSE obs[n].power # "off" /\ InService(n)
       IN  \/ /\ done
              /\ obs' = [obs EXCEPT ![n] = Settled(@, off)]
              /\ Report(n, IF off THEN "Off" ELSE "Ready", FALSE)
              /\ UNCHANGED opvars
           \/ ~done /\ StartOp(n, IF off THEN "cordon" ELSE "read-power")
    /\ UNCHANGED <<world, objects, changed, queued>>

Decide(n) ==
    /\ rpc[n] = "decide"
    /\ LET off == Want(en[n]) = "Off"
           done == IF off THEN obs[n].power = "off"
                          ELSE obs[n].power # "off" /\ InService(n)
       IN  \/ /\ done
              /\ obs' = [obs EXCEPT ![n] = Settled(@, off)]
              /\ Report(n, IF off THEN "Off" ELSE "Ready", FALSE)
              /\ UNCHANGED opvars
           \/ ~done /\ StartOp(n, IF off THEN "cordon" ELSE "read-power")
    /\ UNCHANGED <<world, objects, changed, queued>>

(* The lifecycle operation runs on its own steps. *)
RunOp(n) == OpStep(n) /\ UNCHANGED <<objects, control>>

(* The watcher polls the cache until the operation's context is done. *)
CancelOnDesiredChange(n) ==
    /\ rpc[n] = "op" /\ ~changed[n]
    /\ ~cache[n].exists \/ Want(cache[n]) # Want(en[n])
    /\ changed' = [changed EXCEPT ![n] = TRUE]
    /\ cancelled' = [cancelled EXCEPT ![n] = TRUE]
    /\ UNCHANGED <<world, pc, target, kname, opts, todo, steps, objects, rpc, obs, fin, queued>>

EndOp(n) == Forget(n) /\ changed' = [changed EXCEPT ![n] = FALSE]

OpReturned(n) ==
    /\ rpc[n] = "op" /\ pc[n] \in DonePC
    /\ EndOp(n)
    /\ \/ /\ pc[n] # "err"
          /\ Continue(n, "power-again")
          /\ UNCHANGED <<en, enFresh, fin, obs, queued>>
       \/ /\ pc[n] = "err" /\ changed[n]
          /\ Return(n)
          /\ enFresh' = [enFresh EXCEPT ![n] = FALSE]
       \/ /\ pc[n] = "err" /\ ~changed[n]
          /\ Report(n, IF Want(en[n]) = "Off" THEN "Blocked" ELSE "PoweringOn", TRUE)
          /\ UNCHANGED <<en, enFresh, obs, queued>>
    /\ UNCHANGED <<world, obj, askedOff, status, cache, cacheFresh>>

(* Re-read, so that the status reflects the world just changed. *)
ReobserveOff(n) ==
    /\ rpc[n] = "power-again" /\ Want(en[n]) = "Off"
    /\ \E p \in Read(power[n], "unknown") :
          obs' = [obs EXCEPT ![n] = [NoObservation EXCEPT !.power = p]]
    /\ Report(n, "Off", FALSE)
    /\ UNCHANGED <<world, opvars, objects, changed, queued>>

ReobserveOn(n) ==
    \/ /\ rpc[n] = "power-again" /\ Want(en[n]) = "On"
       /\ \E p \in Read(power[n], "unknown") : obs' = [obs EXCEPT ![n].power = p]
       /\ Proceed(n, "ready-again")
    \/ /\ rpc[n] = "ready-again"
       /\ \E b \in Read(IsNodeReady(n), FALSE) : obs' = [obs EXCEPT ![n].ready = b]
       /\ Proceed(n, "gpu-again")
    \/ /\ rpc[n] = "gpu-again"
       /\ \E b \in Read(NodeHasGPUCapacity(n), FALSE) : obs' = [obs EXCEPT ![n].gpu = b]
       /\ Report(n, "Ready", FALSE)
       /\ UNCHANGED <<world, opvars, objects, changed, queued>>

(* Mutant: the BMC's word goes into the status as it is. *)
powerEnumRaw(p) == p

powerEnum(p) == CASE p = "on" -> "On" [] p = "off" -> "Off" [] OTHER -> "unset"

WantStatus(n) ==
    [phase |-> fin[n].phase, power |-> powerEnum(obs[n].power),
     ready |-> obs[n].ready, gpu |-> obs[n].gpu, gen |-> en[n].gen,
     converged |-> ~fin[n].err /\ fin[n].phase \in {"Ready", "Off"}]

(* Mutant: the status is written whether it changed or not. *)
WriteStatusAlways(n) ==
    \/ /\ enFresh[n]
       /\ status' = [status EXCEPT ![n] = WantStatus(n)]
       /\ cacheFresh' = [cacheFresh EXCEPT ![n] = FALSE]
    \/ ~enFresh[n] /\ UNCHANGED <<status, cacheFresh>>

(* Only a changed status is written (and the text of an error, not modelled, *)
(* may have changed).  The comparison is with the copy's own status, which   *)
(* is the stored one while the copy is fresh; on a stale copy the update     *)
(* conflicts and is dropped, as is one that fails.                           *)
WriteStatus(n) ==
    \/ /\ WantStatus(n) # status[n] \/ fin[n].err
       /\ enFresh[n]
       /\ status' = [status EXCEPT ![n] = WantStatus(n)]
       /\ cacheFresh' = [cacheFresh EXCEPT ![n] = FALSE]
    \/ /\ WantStatus(n) = status[n] \/ ~enFresh[n] \/ ~stable
       /\ UNCHANGED <<status, cacheFresh>>

(* Requeued after the resync interval, or with backoff after an error. *)
Finish(n) ==
    /\ rpc[n] = "finish"
    /\ WriteStatus(n)
    /\ Return(n)
    /\ enFresh' = [enFresh EXCEPT ![n] = FALSE]
    /\ UNCHANGED <<world, opvars, obj, askedOff, cache, changed>>

(* The leader stops anywhere; its successor lists and enqueues everything. *)
Failover ==
    /\ ~stable
    /\ ForgetAll
    /\ cache' = obj
    /\ cacheFresh' = [n \in Node |-> TRUE]
    /\ rpc' = [n \in Node |-> "idle"]
    /\ obs' = [n \in Node |-> NoObservation]
    /\ fin' = [n \in Node |-> NoFinish]
    /\ changed' = [n \in Node |-> FALSE]
    /\ queued' = [n \in Node |-> TRUE]
    /\ en' = [n \in Node |-> NoObject]
    /\ enFresh' = [n \in Node |-> FALSE]
    /\ UNCHANGED <<world, obj, askedOff, status>>

-----------------------------------------------------------------------------

Reconcile(n) ==
    \/ Get(n) \/ BackendsFor(n) \/ ObservePower(n) \/ ObserveNode(n) \/ Decide(n)
    \/ RunOp(n) \/ OpReturned(n) \/ ReobserveOff(n) \/ ReobserveOn(n) \/ Finish(n)

Next ==
    \/ WorldNext /\ UNCHANGED <<opvars, objects, control>>
    \/ \E n \in Node : \/ EditDesired(n) \/ DeleteObject(n) \/ Sync(n)
                       \/ CancelOnDesiredChange(n) \/ Reconcile(n)
    \/ Failover

Spec == Init /\ [][Next]_vars

(* The informer delivers, the watcher polls, and a machine, its kubelet and  *)
(* its pods get on with what was asked of them.  A worker is sure to get on  *)
(* only once the backends answer, the call it is in included: before that    *)
(* it may hang in one without a deadline.  That backends come to answer is   *)
(* the premise of each liveness property, not an assumption.                 *)
MachineFairness(n) ==
    /\ WF_vars(MachineNext(n) /\ UNCHANGED <<opvars, objects, control>>)
    /\ \A p \in Pod : WF_vars((KillPod(n, p) \/ Logout(n, p))
                                /\ UNCHANGED <<opvars, objects, control>>)

FairSpec ==
    /\ Spec
    /\ \A n \in Node : /\ WF_vars(stable /\ Reconcile(n))
                       /\ WF_vars(CancelOnDesiredChange(n))
                       /\ WF_vars(Sync(n))
                       /\ MachineFairness(n)

-----------------------------------------------------------------------------
(* Properties *)

(* A status that reports Off as converged for the current spec tells the     *)
(* truth until the spec is edited: the machine is off.  Stale caches,        *)
(* conflicting updates, unreadable BMCs, aborted operations and failovers    *)
(* never leave such a status on a running machine (Reconcile, writeStatus).  *)
OffStatusTrue ==
    \A n \in Node :
        LET s == status[n]
        IN  obj[n].exists /\ s.converged /\ s.phase = "Off" /\ s.gen = obj[n].gen
               => power[n] = "off"

(* A node of which no version of the object has asked for Off is left alone, *)
(* however often its reads fail, its object is edited or deleted or the      *)
(* leader changes: an unset desiredPower and an unknown state keep the node  *)
(* in service (Reconcile: "fail-safe: unknown intent keeps the node in       *)
(* service").                                                                *)
NoDisruptionUnasked == \A n \in Node \ askedOff : ~cordoned[n] /\ os[n] # "stopping"

(* Converged is never True beside an observed power that contradicts the     *)
(* spec (api/v1alpha1/elasticnode_types.go: "True when observed matches      *)
(* spec.desiredPower").  writeStatus derives it from the phase alone, which  *)
(* does not look at the power re-read after a wake.                          *)
ConvergedMatchesObserved ==
    \A n \in Node :
        LET s == status[n]
        IN  s.converged /\ s.gen = obj[n].gen => s.power \in {"unset", Want(obj[n])}

(* Once the backends answer, a node whose object asks for Off is powered off *)
(* and its status says so, whatever state edits, failures and failovers left *)
(* it in: Reconcile re-drives the drain until it goes through.               *)
ConvergesOff ==
    \A n \in Node :
        stable /\ obj[n].exists /\ Want(obj[n]) = "Off"
            ~> power[n] = "off" /\ status[n].phase = "Off" /\ status[n].converged

(* Likewise a node that is wanted On ends up, and stays, up and schedulable. *)
ConvergesOn ==
    \A n \in Node :
        stable /\ obj[n].exists /\ Want(obj[n]) = "On"
            ~> [](os[n] = "joined" /\ ready[n] /\ ~cordoned[n] /\ status[n].phase = "Ready")

(* The status is written on transitions only: once the backends answer, no   *)
(* write makes the cached copy stale any more (writeStatus: "a steady-state  *)
(* reconcile is a true no-op and doesn't churn the API").                    *)
StatusSettles == (<>[]stable) => \A n \in Node : <>[]cacheFresh[n]

=============================================================================
