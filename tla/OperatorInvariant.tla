------------------------- MODULE OperatorInvariant --------------------------
(***************************************************************************)
(* What is known of a node while the controller works, and that it is kept  *)
(* by the API server, the informer and Reconcile up to the point where it   *)
(* has decided.  Generations only grow along obj, cache, the copy of        *)
(* Reconcile and the status, and an operation is the one that copy asks for. *)
(***************************************************************************)
EXTENDS Operator, LifecycleProofs

Unmapped == \A n \in Node : KubeNodeName[n] = n

(* o is an earlier version of p, or p itself as far as the intent goes. *)
Older(o, p) == o.gen <= p.gen /\ (o.gen = p.gen => o.desired = p.desired)

(* Versions are seen in order. *)
ObjInv(n) ==
    /\ Older(cache[n], obj[n])
    /\ status[n].gen <= cache[n].gen
    /\ rpc[n] # "idle" => Older(en[n], cache[n]) /\ status[n].gen <= en[n].gen

(* The operation under way is the one the copy of Reconcile asks for. *)
RunInv(n) ==
    /\ rpc[n] = "op" <=> pc[n] # "idle"
    /\ pc[n] # "idle" => target[n] = n /\ kname[n] = n
    /\ pc[n] \in DrainPC \cup {"slept"} => Want(en[n]) = "Off"
    /\ pc[n] \in WakePC \cup {"woken"} => Want(en[n]) = "On"

(* An off that was observed, or brought about, still holds. *)
SeenInv(n) ==
    /\ rpc[n] \in {"ready", "gpu", "schedulable", "decide"} /\ obs[n].power = "off" => power[n] = "off"
    /\ rpc[n] = "power-again" /\ Want(en[n]) = "Off" => power[n] = "off"
    /\ rpc[n] = "finish" /\ fin[n].phase = "Off" /\ ~fin[n].err
          => power[n] = "off" /\ Want(en[n]) = "Off"

(* What the status says of the machine. *)
TruthInv(n) ==
    status[n].converged /\ status[n].phase = "Off" /\ status[n].gen = obj[n].gen
       => power[n] = "off" /\ Want(obj[n]) = "Off"

(* Every copy that asks for Off was once stored, and only then is the node  *)
(* disturbed.                                                               *)
AskedInv(n) ==
    n \notin askedOff =>
        /\ obj[n].desired # "Off" /\ cache[n].desired # "Off"
        /\ rpc[n] # "idle" => en[n].desired # "Off"
        /\ ~cordoned[n] /\ os[n] # "stopping"

NodeInv(n) == ObjInv(n) /\ RunInv(n) /\ SeenInv(n) /\ TruthInv(n) /\ AskedInv(n)

IInv == TypeOK /\ PowerOS /\ \A n \in Node : RunnerInv(n) /\ NodeInv(n)

-----------------------------------------------------------------------------
(* What one step leaves alone. *)

Same(m) ==
    /\ pc'[m] = pc[m] /\ target'[m] = target[m] /\ kname'[m] = kname[m]
    /\ obj'[m] = obj[m] /\ status'[m] = status[m] /\ cache'[m] = cache[m] /\ en'[m] = en[m]
    /\ m \in askedOff' <=> m \in askedOff
    /\ rpc'[m] = rpc[m] /\ obs'[m] = obs[m] /\ fin'[m] = fin[m]

Calm(m) ==
    /\ power[m] = "off" => power'[m] = "off"
    /\ cordoned'[m] => cordoned[m]
    /\ os'[m] = "stopping" => os[m] = "stopping"

(* An object is a version of itself. *)
LEMMA OlderSelf == ASSUME NEW o, o.gen \in Nat PROVE Older(o, o)
BY DEF Older

(* A step elsewhere, or of the world, keeps what is known of a node. *)
LEMMA NodeKept ==
    ASSUME NEW m \in Node, NodeInv(m), Same(m), Calm(m)
    PROVE  NodeInv(m)'
<1>1. ObjInv(m)' BY DEF NodeInv, ObjInv, Older, Same
<1>2. RunInv(m)' BY DEF NodeInv, RunInv, Want, Same
<1>3. SeenInv(m)' BY DEF NodeInv, SeenInv, Want, Same, Calm
<1>4. TruthInv(m)' BY DEF NodeInv, TruthInv, Want, Same, Calm
<1>5. AskedInv(m)' BY DEF NodeInv, AskedInv, Same, Calm
<1>6. QED BY <1>1, <1>2, <1>3, <1>4, <1>5 DEF NodeInv

(* A step of one key that touches neither the world nor an operation. *)
LEMMA QuietOK ==
    ASSUME IInv, TypeOK', NEW n \in Node, NodeInv(n)', \A m \in Node \ {n} : Same(m),
           UNCHANGED <<world, pc, target, kname, todo, steps>>
    PROVE  IInv'
<1> USE OperatorAssumption
<1>1. PowerOS' BY DEF IInv, PowerOS, world, hardware
<1>2. \A m \in Node : RunnerInv(m)' BY Untouched DEF IInv
<1>3. \A m \in Node : Calm(m) BY DEF Calm, world, hardware, kube
<1>4. \A m \in Node \ {n} : NodeInv(m)' BY <1>3, NodeKept DEF IInv
<1>5. QED BY <1>1, <1>2, <1>4 DEF IInv

(* The types of what Reconcile does not own. *)
LEMMA QuietTypes ==
    ASSUME TypeOK, UNCHANGED <<world, opvars>>
    PROVE  /\ WorldTypeOK'
           /\ pc' \in [Runner -> {"idle"} \cup OpPC \cup DonePC]
           /\ target' \in [Runner -> Node \cup {NoNode}]
           /\ kname' \in [Runner -> Node \cup {NoNode}]
           /\ opts' \in [Runner -> Options]
           /\ cancelled' \in [Runner -> BOOLEAN]
           /\ todo' \in [Runner -> SUBSET Pod]
           /\ steps' \in [Runner -> Seq(Step)]
BY DEF TypeOK, WorldTypeOK, world, hardware, kube, opvars

-----------------------------------------------------------------------------
(* The API server and the informer. *)

(* An edit raises the generation, so no status speaks of the new spec yet;  *)
(* a deletion changes neither intent nor generation and drops the status.   *)
LEMMA StoredOK ==
    ASSUME IInv, NEW n \in Node, NEW o \in ElasticNode, Stored(n, o),
           \/ o.gen > obj[n].gen
           \/ o.gen = obj[n].gen /\ o.desired = obj[n].desired,
           NEW s \in {status[n], NoStatus}, status' = [status EXCEPT ![n] = s],
           UNCHANGED <<world, opvars, cache, en, control>>
    PROVE  IInv'
<1> USE DEF Stored, control
<1>1. TypeOK BY DEF IInv
<1>2. TypeOK'
  <2>1. /\ obj' \in [Node -> ElasticNode] /\ askedOff' \subseteq Node
        /\ cacheFresh' \in [Node -> BOOLEAN] /\ enFresh' \in [Node -> BOOLEAN]
    BY <1>1 DEF TypeOK
  <2>2. NoStatus \in Status BY OperatorAssumption DEF NoStatus, Status, Phase, PowerState
  <2>3. status' \in [Node -> Status] BY ZenonT(60), <1>1, <2>2 DEF TypeOK
  <2>4. QED BY <1>1, <2>1, <2>3, QuietTypes DEF TypeOK
<1>3. obj'[n] = o /\ obj[n] \in ElasticNode /\ cache[n] \in ElasticNode /\ status[n] \in Status
  BY <1>1 DEF TypeOK
<1>s. status'[n] = status[n] \/ (status'[n].gen = 0 /\ ~status'[n].converged)
  BY <1>1 DEF TypeOK, NoStatus
<1>4. NodeInv(n) BY DEF IInv
<1>5. o.gen \in Nat /\ obj[n].gen \in Nat /\ cache[n].gen \in Nat /\ status[n].gen \in Nat /\ obj[n].gen >= 1
  BY <1>3 DEF ElasticNode, Status
<1>t. /\ status'[n].gen \in Nat /\ status'[n].gen <= status[n].gen
      /\ status'[n].converged => status'[n] = status[n]
  BY <1>s, <1>5
<1>e. en[n].gen \in Nat BY <1>1 DEF TypeOK, ElasticNode
<1>6. ObjInv(n)' BY <1>3, <1>4, <1>5, <1>t, <1>e DEF NodeInv, ObjInv, Older
<1>7. RunInv(n)' BY <1>4 DEF NodeInv, RunInv, Want, opvars
<1>8. SeenInv(n)' BY <1>4 DEF NodeInv, SeenInv, Want, world, hardware
<1>9. TruthInv(n)'
  BY <1>3, <1>4, <1>5, <1>t DEF NodeInv, ObjInv, Older, TruthInv, Want, world, hardware
<1>10. AskedInv(n)' BY <1>3, <1>4 DEF NodeInv, AskedInv, world, hardware, kube
<1>11. \A m \in Node \ {n} : Same(m) BY <1>1 DEF Same, TypeOK, opvars
<1>12. QED
  BY <1>2, <1>6, <1>7, <1>8, <1>9, <1>10, <1>11, QuietOK DEF NodeInv, opvars

(* Edits and deletions of the object. *)
LEMMA EditOK ==
    ASSUME IInv, NEW n \in Node, EditDesired(n) \/ DeleteObject(n)
    PROVE  IInv'
<1>1. obj[n] \in ElasticNode BY DEF IInv, TypeOK
<1>2. CASE EditDesired(n)
  <2>1. PICK d \in {"On", "Off"} : Stored(n, [exists |-> TRUE, desired |-> d, gen |-> obj[n].gen + 1])
    BY ZenonT(60), <1>2 DEF EditDesired
  <2>2. obj[n].gen < MaxGeneration /\ obj[n].gen \in 1..MaxGeneration
    BY <1>1, <1>2 DEF EditDesired, ElasticNode
  <2> DEFINE o == [exists |-> TRUE, desired |-> d, gen |-> obj[n].gen + 1]
  <2>a. obj[n].gen + 1 \in 1..MaxGeneration /\ d \in PowerState
    BY <2>2, OperatorAssumption DEF PowerState
  <2>3. o \in ElasticNode /\ o.gen > obj[n].gen
    BY <2>a, <2>2 DEF ElasticNode
  <2>4. UNCHANGED <<world, opvars, cache, en, control>> /\ status' = [status EXCEPT ![n] = status[n]]
    BY <1>2 DEF EditDesired, IInv, TypeOK
  <2> HIDE DEF o
  <2>5. Stored(n, o) BY <2>1 DEF o
  <2>6. QED BY <2>3, <2>4, <2>5, StoredOK
<1>3. CASE DeleteObject(n)
  <2> DEFINE o == [obj[n] EXCEPT !.exists = FALSE]
  <2>1. o \in ElasticNode /\ o.gen = obj[n].gen /\ o.desired = obj[n].desired
    BY ZenonT(60), <1>1 DEF ElasticNode
  <2>2. UNCHANGED <<world, opvars, cache, en, control>> /\ status' = [status EXCEPT ![n] = NoStatus]
    BY <1>3 DEF DeleteObject
  <2>3. Stored(n, o) BY <1>3 DEF DeleteObject
  <2> HIDE DEF o
  <2>4. QED BY <2>1, <2>2, <2>3, StoredOK
<1>4. QED BY <1>2, <1>3

(* The watch brings the cache up to the object. *)
LEMMA SyncOK ==
    ASSUME IInv, NEW n \in Node, Sync(n)
    PROVE  IInv'
<1> USE DEF Sync
<1>1. TypeOK /\ NodeInv(n) BY DEF IInv
<1>2. TypeOK'
  <2>1. cache' \in [Node -> ElasticNode] /\ cacheFresh' \in [Node -> BOOLEAN] /\ queued' \in [Node -> BOOLEAN]
    BY <1>1 DEF TypeOK
  <2>2. QED BY <1>1, <2>1, QuietTypes DEF TypeOK
<1>3. /\ cache'[n] = obj[n] /\ obj[n].gen \in Nat /\ cache[n].gen \in Nat /\ status[n].gen \in Nat
      /\ en[n].gen \in Nat
  BY <1>1 DEF TypeOK, ElasticNode, Status
<1>4. ObjInv(n)' BY <1>1, <1>3 DEF NodeInv, ObjInv, Older
<1>5. RunInv(n)' BY <1>1 DEF NodeInv, RunInv, Want, opvars
<1>6. SeenInv(n)' BY ZenonT(60), <1>1 DEF NodeInv, SeenInv, Want, world, hardware
<1>7. TruthInv(n)' BY <1>1 DEF NodeInv, TruthInv, Want, world, hardware
<1>8. AskedInv(n)' BY <1>1, <1>3 DEF NodeInv, AskedInv, world, hardware, kube
<1>9. \A m \in Node \ {n} : Same(m) BY <1>1 DEF Same, TypeOK, opvars
<1>10. QED BY <1>2, <1>4, <1>5, <1>6, <1>7, <1>8, <1>9, QuietOK DEF NodeInv, opvars

-----------------------------------------------------------------------------
(* Reconcile. *)

(* A step of Reconcile outside an operation that only moves on, observes or *)
(* decides what to report.                                                  *)
LEMMA ControlOK ==
    ASSUME IInv, NEW n \in Node, UNCHANGED <<world, opvars, objects, changed, queued>>,
           NEW x \in RunPC \ {"op"}, Continue(n, x), rpc[n] \notin {"idle", "op"},
           obs' \in [Node -> Observation], fin' \in [Node -> [phase : Phase, err : BOOLEAN]],
           \A m \in Node \ {n} : obs'[m] = obs[m] /\ fin'[m] = fin[m],
           SeenInv(n)'
    PROVE  IInv'
<1> USE DEF Continue
<1>1. TypeOK /\ NodeInv(n) BY DEF IInv
<1>2. rpc \in [Node -> {"idle"} \cup RunPC] /\ rpc'[n] = x /\ x \notin {"idle", "op"}
  BY <1>1 DEF TypeOK, RunPC
<1>3. TypeOK'
  <2>1. rpc' \in [Node -> {"idle"} \cup RunPC] BY ZenonT(60), <1>2
  <2>2. QED BY <1>1, <2>1, QuietTypes DEF TypeOK, objects
<1>4. ObjInv(n)' BY ZenonT(60), <1>1, <1>2 DEF NodeInv, ObjInv, Older, objects
<1>5. RunInv(n)' BY ZenonT(60), <1>1, <1>2 DEF NodeInv, RunInv, Want, objects, opvars
<1>6. TruthInv(n)' BY ZenonT(60), <1>1 DEF NodeInv, TruthInv, Want, objects, world, hardware
<1>7. AskedInv(n)' BY ZenonT(60), <1>1, <1>2 DEF NodeInv, AskedInv, objects, world, hardware, kube
<1>8. \A m \in Node \ {n} : Same(m) BY ZenonT(60), <1>2 DEF Same, objects, opvars
<1>9. QED BY <1>3, <1>4, <1>5, <1>6, <1>7, <1>8, QuietOK DEF NodeInv, opvars

(* Get starts from the cached copy, or drops the key of a deleted object. *)
LEMMA GetOK ==
    ASSUME IInv, NEW n \in Node, Get(n)
    PROVE  IInv'
<1> USE DEF Get, Continue
<1>1. TypeOK /\ NodeInv(n) BY DEF IInv
<1>2. /\ en' \in [Node -> ElasticNode] /\ enFresh' \in [Node -> BOOLEAN]
      /\ rpc' \in [Node -> {"idle"} \cup RunPC] /\ queued' \in [Node -> BOOLEAN]
      /\ \A m \in Node \ {n} : en'[m] = en[m] /\ rpc'[m] = rpc[m]
      /\ \/ en'[n] = cache[n] /\ rpc'[n] = "backends"
         \/ en'[n] = en[n] /\ rpc'[n] = "idle"
      /\ rpc[n] = "idle"
  <2>1. CASE cache[n].exists
    <3>1. en' = [en EXCEPT ![n] = cache[n]] /\ rpc' = [rpc EXCEPT ![n] = "backends"]
          /\ enFresh' = [enFresh EXCEPT ![n] = cacheFresh[n]] /\ queued' = [queued EXCEPT ![n] = FALSE]
      BY <2>1
    <3>2. "backends" \in RunPC BY DEF RunPC
    <3>3. QED BY ZenonT(60), <1>1, <3>1, <3>2 DEF TypeOK
  <2>2. CASE ~cache[n].exists
    <3>1. UNCHANGED <<en, enFresh, rpc>> /\ queued' = [queued EXCEPT ![n] = FALSE] BY <2>2
    <3>2. QED BY <1>1, <3>1 DEF TypeOK
  <2>3. QED BY <2>1, <2>2
<1>3. TypeOK' BY <1>1, <1>2, QuietTypes DEF TypeOK
<1>4. ObjInv(n)'
  <2>1. cache'[n] = cache[n] /\ obj'[n] = obj[n] /\ status'[n] = status[n] BY ZenonT(60)
  <2> HIDE DEF Get, Continue
  <2>2. cache[n].gen \in Nat BY <1>1 DEF TypeOK, ElasticNode
  <2>3. Older(cache[n], obj[n]) /\ status[n].gen <= cache[n].gen BY <1>1 DEF NodeInv, ObjInv
  <2>4. rpc'[n] # "idle" => en'[n] = cache[n] BY <1>2
  <2>5. /\ Older(cache'[n], obj'[n]) /\ status'[n].gen <= cache'[n].gen
        /\ rpc'[n] # "idle" => Older(en'[n], cache'[n]) /\ status'[n].gen <= en'[n].gen
    BY ZenonT(60), <2>1, <2>2, <2>3, <2>4, OlderSelf
  <2>6. QED BY ZenonT(60), <2>5 DEF ObjInv, Older
<1>5. RunInv(n)' 
  <2>1. pc[n] = "idle" BY <1>1, <1>2 DEF NodeInv, RunInv
  <2>2. QED BY ZenonT(60), <1>2, <2>1 DEF RunInv, opvars, OpPC, DrainPC, WakePC
<1>6. SeenInv(n)' BY ZenonT(60), <1>2 DEF SeenInv
<1>7. TruthInv(n)' BY ZenonT(60), <1>1 DEF NodeInv, TruthInv, Want, world, hardware
<1>8. AskedInv(n)'
  <2>1. /\ cache' = cache /\ obj' = obj /\ askedOff' = askedOff
        /\ cordoned' = cordoned /\ os' = os
    BY ZenonT(60) DEF world, hardware, kube
  <2> HIDE DEF Get, Continue
  <2>2. QED BY ZenonT(60), <1>1, <1>2, <2>1 DEF NodeInv, AskedInv
<1>9. \A m \in Node \ {n} : Same(m) BY ZenonT(60), <1>2 DEF Same, opvars
<1>10. QED BY ZenonT(60), <1>3, <1>4, <1>5, <1>6, <1>7, <1>8, <1>9, QuietOK DEF NodeInv, opvars

(* The backends are built, or their error is reported. *)
LEMMA BackendsOK ==
    ASSUME IInv, NEW n \in Node, BackendsFor(n)
    PROVE  IInv'
<1> USE DEF BackendsFor, Report
<1>1. /\ obs \in [Node -> Observation] /\ fin \in [Node -> [phase : Phase, err : BOOLEAN]]
      /\ rpc \in [Node -> {"idle"} \cup RunPC]
  BY ZenonT(60) DEF IInv, TypeOK
<1>2. CASE Continue(n, "power") /\ UNCHANGED fin
  <2>1. SeenInv(n)' BY ZenonT(60), <1>1, <1>2 DEF SeenInv, Continue
  <2>2. "power" \in RunPC \ {"op"} BY DEF RunPC
  <2>3. QED BY ZenonT(60), <1>1, <1>2, <2>1, <2>2, ControlOK
<1>3. CASE Report(n, "Error", TRUE)
  <2>1. [phase |-> "Error", err |-> TRUE] \in [phase : Phase, err : BOOLEAN] BY DEF Phase
  <2>2. /\ fin' \in [Node -> [phase : Phase, err : BOOLEAN]] /\ fin'[n].err
        /\ \A m \in Node \ {n} : fin'[m] = fin[m]
    BY <1>1, <1>3, <2>1
  <2>3. rpc'[n] = "finish" BY <1>1, <1>3 DEF Continue
  <2>4. SeenInv(n)' BY ZenonT(60), <2>2, <2>3 DEF SeenInv
  <2>5. "finish" \in RunPC \ {"op"} BY DEF RunPC
  <2>6. QED BY ZenonT(60), <1>1, <1>3, <2>2, <2>4, <2>5, ControlOK
<1>4. QED BY ZenonT(60), <1>2, <1>3

(* An observation is of the machine's power, or unknown. *)
LEMMA ObservePowerOK ==
    ASSUME IInv, NEW n \in Node, ObservePower(n)
    PROVE  IInv'
<1>1. /\ obs \in [Node -> Observation] /\ fin \in [Node -> [phase : Phase, err : BOOLEAN]]
      /\ rpc \in [Node -> {"idle"} \cup RunPC] /\ power[n] \in {"on", "off"}
  BY DEF IInv, TypeOK, WorldTypeOK
<1>2. PICK p \in {"on", "off", "unknown"} : obs' = [obs EXCEPT ![n].power = p] /\ (p = "off" => power[n] = "off")
  BY ZenonT(60), <1>1 DEF ObservePower, Read
<1>3. /\ obs' \in [Node -> Observation] /\ obs'[n].power = p
      /\ \A m \in Node \ {n} : obs'[m] = obs[m]
  BY <1>1, <1>2 DEF Observation
<1>4. /\ Continue(n, "ready") /\ UNCHANGED <<world, opvars, objects, fin, changed, queued>>
      /\ rpc[n] = "power"
  BY DEF ObservePower, Proceed
<1>5. rpc'[n] = "ready" /\ power' = power BY <1>1, <1>4 DEF Continue, world, hardware
<1>6. SeenInv(n)' BY ZenonT(60), <1>2, <1>3, <1>5 DEF SeenInv
<1>7. "ready" \in RunPC \ {"op"} BY DEF RunPC
<1>8. QED BY ZenonT(60), <1>1, <1>3, <1>4, <1>6, <1>7, ControlOK

(* A read of the node yields a truth value. *)
LEMMA ReadOK ==
    ASSUME TypeOK, NEW n \in Node
    PROVE  /\ Read(IsNodeReady(n), FALSE) \subseteq BOOLEAN
           /\ Read(NodeHasGPUCapacity(n), FALSE) \subseteq BOOLEAN
           /\ Read(IsNodeSchedulable(n), FALSE) \subseteq BOOLEAN
<1>1. IsNodeReady(n) \in BOOLEAN /\ NodeHasGPUCapacity(n) \in BOOLEAN /\ IsNodeSchedulable(n) \in BOOLEAN
  BY ZenonT(60) DEF IsNodeReady, NodeHasGPUCapacity, IsNodeSchedulable
<1>2. QED BY ZenonT(60), <1>1 DEF Read

(* An observation of the node leaves the observed power alone. *)
LEMMA NodeSeen ==
    ASSUME TypeOK, NEW n \in Node, NEW b \in BOOLEAN,
           \/ obs' = [obs EXCEPT ![n].ready = b]
           \/ obs' = [obs EXCEPT ![n].gpu = b]
           \/ obs' = [obs EXCEPT ![n].schedulable = b]
    PROVE  /\ obs' \in [Node -> Observation] /\ obs'[n].power = obs[n].power
           /\ \A m \in Node \ {n} : obs'[m] = obs[m]
<1>1. obs \in [Node -> Observation] BY DEF TypeOK
<1>2. CASE obs' = [obs EXCEPT ![n].ready = b] BY <1>1, <1>2 DEF Observation
<1>3. CASE obs' = [obs EXCEPT ![n].gpu = b] BY <1>1, <1>3 DEF Observation
<1>4. CASE obs' = [obs EXCEPT ![n].schedulable = b] BY <1>1, <1>4 DEF Observation
<1>5. QED BY <1>2, <1>3, <1>4

(* The three reads of the node object. *)
LEMMA ObserveNodeOK ==
    ASSUME IInv, NEW n \in Node, ObserveNode(n)
    PROVE  IInv'
<1>1. /\ TypeOK /\ SeenInv(n) /\ fin \in [Node -> [phase : Phase, err : BOOLEAN]]
      /\ rpc \in [Node -> {"idle"} \cup RunPC]
  BY DEF IInv, TypeOK, NodeInv
<1>2. /\ obs' \in [Node -> Observation] /\ obs'[n].power = obs[n].power
      /\ \A m \in Node \ {n} : obs'[m] = obs[m]
  BY ZenonT(60), <1>1, ReadOK, NodeSeen DEF ObserveNode
<1>3. PICK x \in {"gpu", "schedulable", "decide"} : Proceed(n, x)
  BY ZenonT(60) DEF ObserveNode
<1>4. rpc[n] \in {"ready", "gpu", "schedulable"} BY ZenonT(60) DEF ObserveNode
<1>5. Continue(n, x) /\ UNCHANGED <<world, opvars, objects, fin, changed, queued>>
  BY <1>3 DEF Proceed
<1>6. rpc'[n] = x /\ power' = power BY <1>1, <1>5 DEF Continue, world, hardware
<1>7. SeenInv(n)' BY ZenonT(60), <1>1, <1>2, <1>4, <1>6 DEF SeenInv
<1>8. x \in RunPC \ {"op"} BY <1>3 DEF RunPC
<1>9. rpc[n] \notin {"idle", "op"} BY <1>4
<1>10. QED BY ZenonT(60), <1>1, <1>2, <1>5, <1>7, <1>8, <1>9, ControlOK

(* The reads that follow a wake; its report is Ready, never Off. *)
LEMMA ReobserveOnOK ==
    ASSUME IInv, NEW n \in Node, ReobserveOn(n)
    PROVE  IInv'
<1>1. /\ TypeOK /\ fin \in [Node -> [phase : Phase, err : BOOLEAN]]
      /\ rpc \in [Node -> {"idle"} \cup RunPC] /\ obs \in [Node -> Observation]
      /\ power[n] \in {"on", "off"}
  BY DEF IInv, TypeOK, WorldTypeOK
<1>2. CASE rpc[n] = "power-again" /\ Proceed(n, "ready-again")
           /\ \E v \in Read(power[n], "unknown") : obs' = [obs EXCEPT ![n].power = v]
  <2>1. PICK v \in {"on", "off", "unknown"} : obs' = [obs EXCEPT ![n].power = v]
    BY ZenonT(60), <1>1, <1>2 DEF Read
  <2>2. obs' \in [Node -> Observation] /\ \A m \in Node \ {n} : obs'[m] = obs[m]
    BY <1>1, <2>1 DEF Observation
  <2>3. rpc'[n] = "ready-again" BY <1>1, <1>2 DEF Proceed, Continue
  <2>4. SeenInv(n)' BY ZenonT(60), <2>3 DEF SeenInv
  <2>5. "ready-again" \in RunPC \ {"op"} /\ rpc[n] \notin {"idle", "op"} BY <1>2 DEF RunPC
  <2>6. QED BY ZenonT(60), <1>1, <1>2, <2>2, <2>4, <2>5, ControlOK DEF Proceed
<1>3. CASE rpc[n] = "ready-again" /\ Proceed(n, "gpu-again")
           /\ \E b \in Read(IsNodeReady(n), FALSE) : obs' = [obs EXCEPT ![n].ready = b]
  <2>1. obs' \in [Node -> Observation] /\ \A m \in Node \ {n} : obs'[m] = obs[m]
    BY ZenonT(60), <1>1, <1>3, ReadOK, NodeSeen
  <2>2. rpc'[n] = "gpu-again" BY <1>1, <1>3 DEF Proceed, Continue
  <2>3. SeenInv(n)' BY ZenonT(60), <2>2 DEF SeenInv
  <2>4. "gpu-again" \in RunPC \ {"op"} /\ rpc[n] \notin {"idle", "op"} BY <1>3 DEF RunPC
  <2>5. QED BY ZenonT(60), <1>1, <1>3, <2>1, <2>3, <2>4, ControlOK DEF Proceed
<1>4. CASE /\ rpc[n] = "gpu-again" /\ Report(n, "Ready", FALSE)
           /\ \E b \in Read(NodeHasGPUCapacity(n), FALSE) : obs' = [obs EXCEPT ![n].gpu = b]
           /\ UNCHANGED <<world, opvars, objects, changed, queued>>
  <2>1. obs' \in [Node -> Observation] /\ \A m \in Node \ {n} : obs'[m] = obs[m]
    BY ZenonT(60), <1>1, <1>4, ReadOK, NodeSeen
  <2>2. /\ fin' \in [Node -> [phase : Phase, err : BOOLEAN]] /\ fin'[n].phase = "Ready"
        /\ \A m \in Node \ {n} : fin'[m] = fin[m]
    BY <1>1, <1>4 DEF Report, Phase
  <2>3. rpc'[n] = "finish" BY <1>1, <1>4 DEF Report, Continue
  <2>4. SeenInv(n)' BY ZenonT(60), <2>2, <2>3 DEF SeenInv
  <2>5. "finish" \in RunPC \ {"op"} /\ rpc[n] \notin {"idle", "op"} BY <1>4 DEF RunPC
  <2>6. QED BY ZenonT(60), <1>1, <1>4, <2>1, <2>2, <2>4, <2>5, ControlOK DEF Report
<1>5. QED BY ZenonT(60), <1>2, <1>3, <1>4 DEF ReobserveOn

(* After a drain-shutdown the machine is off, whatever the BMC answers. *)
LEMMA ReobserveOffOK ==
    ASSUME IInv, NEW n \in Node, ReobserveOff(n)
    PROVE  IInv'
<1> USE DEF ReobserveOff
<1>1. /\ TypeOK /\ SeenInv(n) /\ fin \in [Node -> [phase : Phase, err : BOOLEAN]]
      /\ rpc \in [Node -> {"idle"} \cup RunPC] /\ obs \in [Node -> Observation]
      /\ power[n] \in {"on", "off"}
  BY DEF IInv, TypeOK, NodeInv, WorldTypeOK
<1>2. PICK v \in {"on", "off", "unknown"} : obs' = [obs EXCEPT ![n] = [NoObservation EXCEPT !.power = v]]
  BY ZenonT(60), <1>1 DEF Read
<1>3. [NoObservation EXCEPT !.power = v] \in Observation BY ZenonT(60) DEF NoObservation, Observation
<1>4. obs' \in [Node -> Observation] /\ \A m \in Node \ {n} : obs'[m] = obs[m]
  BY <1>1, <1>2, <1>3
<1>5. /\ fin' \in [Node -> [phase : Phase, err : BOOLEAN]] /\ \A m \in Node \ {n} : fin'[m] = fin[m]
  BY <1>1 DEF Report, Phase
<1>6. rpc'[n] = "finish" /\ power' = power /\ en' = en BY <1>1 DEF Report, Continue, world, hardware, objects
<1>7. SeenInv(n)' BY ZenonT(60), <1>1, <1>6 DEF SeenInv, Want
<1>8. "finish" \in RunPC \ {"op"} /\ rpc[n] \notin {"idle", "op"} BY DEF RunPC
<1>9. QED BY ZenonT(60), <1>1, <1>4, <1>5, <1>7, <1>8, ControlOK DEF Report

(* An unset intent is On. *)
LEMMA WantOK == ASSUME NEW o \in ElasticNode PROVE Want(o) \in {"On", "Off"}
BY DEF Want, ElasticNode, PowerState

(* A step of one key that may start or end its operation. *)
LEMMA OwnOK ==
    ASSUME IInv, TypeOK', NEW n \in Node, NodeInv(n)', RunnerInv(n)', UNCHANGED world,
           \A m \in Node \ {n} : Same(m) /\ todo'[m] = todo[m] /\ steps'[m] = steps[m]
    PROVE  IInv'
<1> USE OperatorAssumption
<1>1. PowerOS' BY ZenonT(60) DEF IInv, PowerOS, world, hardware
<1>2. \A m \in Node \ {n} : RunnerInv(m)' BY ZenonT(60), Untouched DEF IInv, Same
<1>3. \A m \in Node : Calm(m) BY ZenonT(60) DEF Calm, world, hardware, kube
<1>4. \A m \in Node \ {n} : NodeInv(m)' BY <1>3, NodeKept DEF IInv
<1>5. QED BY <1>1, <1>2, <1>4 DEF IInv

(* The observed state is the wanted one: it is reported as it is. *)
LEMMA DecideDoneOK ==
    ASSUME IInv, NEW n \in Node, rpc[n] = "decide", NEW off \in BOOLEAN,
           off <=> Want(en[n]) = "Off", off => obs[n].power = "off",
           obs' = [obs EXCEPT ![n] = Settled(@, off)],
           Report(n, IF off THEN "Off" ELSE "Ready", FALSE),
           UNCHANGED <<world, opvars, objects, changed, queued>>
    PROVE  IInv'
<1>1. /\ TypeOK /\ SeenInv(n) /\ fin \in [Node -> [phase : Phase, err : BOOLEAN]]
      /\ rpc \in [Node -> {"idle"} \cup RunPC] /\ obs \in [Node -> Observation]
  BY DEF IInv, TypeOK, NodeInv
<1>2. obs' \in [Node -> Observation] /\ \A m \in Node \ {n} : obs'[m] = obs[m]
  <2>1. obs[n].gpu \in BOOLEAN /\ obs[n].schedulable \in BOOLEAN BY <1>1 DEF Observation
  <2>2. Settled(obs[n], off) \in Observation
    <3>1. (~off /\ obs[n].gpu) \in BOOLEAN /\ (~off) \in BOOLEAN BY ZenonT(60)
    <3>2. (IF off THEN "off" ELSE "on") \in {"on", "off", "unknown"} BY ZenonT(60)
    <3>3. QED BY ZenonT(60), <2>1, <3>1, <3>2 DEF Settled, Observation
  <2>3. QED BY <1>1, <2>2
<1>3. /\ fin' \in [Node -> [phase : Phase, err : BOOLEAN]] /\ \A m \in Node \ {n} : fin'[m] = fin[m]
      /\ fin'[n].phase = "Off" => off
  BY <1>1 DEF Report, Phase
<1>4. rpc'[n] = "finish" /\ power' = power /\ en' = en
  BY ZenonT(60), <1>1 DEF Report, Continue, world, hardware, objects
<1>5. off => power[n] = "off" BY ZenonT(60), <1>1 DEF SeenInv
<1>6. SeenInv(n)' BY ZenonT(60), <1>3, <1>4, <1>5 DEF SeenInv, Want
<1>7. "finish" \in RunPC \ {"op"} /\ rpc[n] \notin {"idle", "op"} BY ZenonT(60) DEF RunPC
<1>8. QED BY ZenonT(60), <1>1, <1>2, <1>3, <1>6, <1>7, ControlOK DEF Report

(* An operation is started on the machine and node of the object's name. *)
LEMMA StartOK ==
    ASSUME Unmapped, IInv, NEW n \in Node, rpc[n] = "decide",
           NEW first \in {"cordon", "read-power"}, StartOp(n, first),
           first = "cordon" => Want(en[n]) = "Off", first = "read-power" => Want(en[n]) = "On",
           UNCHANGED <<world, objects, changed, queued>>
    PROVE  IInv'
<1> USE OperatorAssumption DEF StartOp, Goto, Continue
<1>1. TypeOK /\ NodeInv(n) /\ RunnerInv(n) BY DEF IInv
<1>2. /\ pc \in [Node -> {"idle"} \cup OpPC \cup DonePC] /\ rpc \in [Node -> {"idle"} \cup RunPC]
      /\ target \in [Node -> Node \cup {NoNode}] /\ kname \in [Node -> Node \cup {NoNode}]
      /\ opts \in [Node -> Options] /\ obs \in [Node -> Observation]
  BY <1>1 DEF TypeOK
<1>3. /\ pc'[n] = first /\ target'[n] = n /\ kname'[n] = n /\ rpc'[n] = "op"
      /\ \A m \in Node \ {n} : pc'[m] = pc[m] /\ target'[m] = target[m] /\ kname'[m] = kname[m] /\ rpc'[m] = rpc[m]
  BY <1>2
<1>4. obs' \in [Node -> Observation] /\ \A m \in Node \ {n} : obs'[m] = obs[m]
  <2>1. obs' = [obs EXCEPT ![n].schedulable = FALSE] OBVIOUS
  <2>2. QED BY ZenonT(60), <1>1, <2>1, NodeSeen
<1>5. TypeOK'
  <2>1. pc' \in [Node -> {"idle"} \cup OpPC \cup DonePC] BY ZenonT(60), <1>2 DEF OpPC, DrainPC, WakePC
  <2>2. target' \in [Node -> Node \cup {NoNode}] /\ kname' \in [Node -> Node \cup {NoNode}] BY <1>2
  <2>a. (n \in GPUNode) \in BOOLEAN OBVIOUS
  <2>b. [ForceBMCOff |-> FALSE, ExpectGPU |-> n \in GPUNode] \in Options
    BY ZenonT(60), <2>a DEF Options
  <2>3. opts' \in [Node -> Options] BY <1>2, <2>b
  <2>4. rpc' \in [Node -> {"idle"} \cup RunPC] BY <1>2 DEF RunPC
  <2>5. WorldTypeOK' BY <1>1 DEF TypeOK, WorldTypeOK, world, hardware, kube
  <2>6. QED BY <1>1, <1>4, <2>1, <2>2, <2>3, <2>4, <2>5 DEF TypeOK, objects
<1>6. pc[n] = "idle" BY <1>1 DEF NodeInv, RunInv
<1>7. steps'[n] = << >> BY ZenonT(60), <1>1, <1>6 DEF RunnerInv, StepInv
<1>8. RunnerInv(n)' BY <1>3, <1>7, Starts DEF Unmapped, K
<1>9. ObjInv(n)' BY <1>1, <1>3 DEF NodeInv, ObjInv, Older, objects
<1>10. RunInv(n)'
  BY ZenonT(60), <1>3 DEF RunInv, Want, objects, DrainPC, WakePC
<1>11. SeenInv(n)' BY ZenonT(60), <1>3 DEF SeenInv
<1>12. TruthInv(n)' BY <1>1 DEF NodeInv, TruthInv, Want, objects, world, hardware
<1>13. AskedInv(n)' BY <1>1, <1>3 DEF NodeInv, AskedInv, objects, world, hardware, kube
<1>14. \A m \in Node \ {n} : Same(m) /\ todo'[m] = todo[m] /\ steps'[m] = steps[m]
  BY <1>3, <1>4 DEF Same, objects
<1>15. QED BY <1>5, <1>8, <1>9, <1>10, <1>11, <1>12, <1>13, <1>14, OwnOK DEF NodeInv

(* Reconcile's decision. *)
LEMMA DecideOK ==
    ASSUME Unmapped, IInv, NEW n \in Node, Decide(n)
    PROVE  IInv'
<1> DEFINE off == Want(en[n]) = "Off"
           done == IF off THEN obs[n].power = "off" ELSE obs[n].power # "off" /\ InService(n)
<1>1. rpc[n] = "decide" /\ UNCHANGED <<world, objects, changed, queued>> BY ZenonT(60) DEF Decide
<1>2. Want(en[n]) \in {"On", "Off"} BY ZenonT(60), WantOK DEF IInv, TypeOK
<1>3. \/ /\ done
         /\ obs' = [obs EXCEPT ![n] = Settled(@, off)]
         /\ Report(n, IF off THEN "Off" ELSE "Ready", FALSE)
         /\ UNCHANGED opvars
      \/ StartOp(n, IF off THEN "cordon" ELSE "read-power")
  BY ZenonT(60) DEF Decide
<1>4. CASE StartOp(n, IF off THEN "cordon" ELSE "read-power")
  <2>1. CASE off BY ZenonT(60), <1>1, <1>4, <2>1, StartOK
  <2>2. CASE ~off BY ZenonT(60), <1>1, <1>2, <1>4, <2>2, StartOK
  <2>3. QED BY ZenonT(60), <2>1, <2>2
<1>5. CASE /\ done
           /\ obs' = [obs EXCEPT ![n] = Settled(@, off)]
           /\ Report(n, IF off THEN "Off" ELSE "Ready", FALSE)
           /\ UNCHANGED opvars
  <2>1. off \in BOOLEAN /\ (off => obs[n].power = "off") BY <1>5
  <2> HIDE DEF done
  <2>2. off <=> Want(en[n]) = "Off" OBVIOUS
  <2> HIDE DEF off
  <2>3. QED BY ZenonT(60), <1>1, <1>5, <2>1, <2>2, DecideDoneOK
<1>6. QED BY ZenonT(60), <1>3, <1>4, <1>5

=============================================================================
