--------------------------- MODULE OperatorProofs ---------------------------
(***************************************************************************)
(* Safety of the controller for any number of nodes, workers, edits and     *)
(* pods, where the inventory renames no node: Reconcile passes the name of  *)
(* the object to Kubernetes, and the run operator_remapped shows that       *)
(* without that assumption the properties fail.  Each key has one worker,   *)
(* so two operations are on different machines and LifecycleProofs applies; *)
(* OperatorInvariant has a lemma for each action up to the decision, this   *)
(* module those for the operation, the status and a failover, and the       *)
(* theorems.                                                                *)
(***************************************************************************)
EXTENDS OperatorInvariant

(* While no later version has been stored, the copy Reconcile works on has  *)
(* the stored intent.                                                       *)
LEMMA SameIntent ==
    ASSUME TypeOK, NEW n \in Node, ObjInv(n), rpc[n] # "idle", obj[n].gen <= status[n].gen
    PROVE  en[n].desired = obj[n].desired
<1>1. /\ en[n].gen \in Nat \ {0} /\ obj[n].gen \in Nat \ {0} /\ cache[n].gen \in Nat \ {0}
      /\ status[n].gen \in Nat
  BY DEF TypeOK, ElasticNode, Status
<1>2. QED BY <1>1 DEF ObjInv, Older

(* A step of the operation that Reconcile runs. *)
LEMMA RunOpOK ==
    ASSUME Unmapped, IInv, NEW n \in Node, RunOp(n)
    PROVE  IInv'
<1> USE OperatorAssumption
<1> DEFINE P == {"idle"} \cup OpPC \cup DonePC
<1>1. /\ TypeOK /\ NodeInv(n) /\ RunnerInv(n) /\ PowerOS /\ WorldTypeOK /\ Typed(P)
  BY DEF IInv, TypeOK, Typed
<1>2. OpStep(n) /\ UNCHANGED <<objects, control>> BY DEF RunOp
<1> HIDE DEF P
<1>3. Local(n) BY <1>1, <1>2, OpLocal
<1>4. pc[n] \in OpPC /\ pc'[n] \in OpPC \cup DonePC BY <1>3 DEF Local
<1>5. pc[n] # "idle" /\ pc'[n] # "idle" BY ZenonT(60), <1>4 DEF OpPC, DrainPC, WakePC, DonePC
<1>6. target[n] = n /\ kname[n] = n /\ rpc[n] = "op" BY <1>1, <1>5 DEF NodeInv, RunInv
<1>7. TypeOK'
  <2>1. steps' \in [Runner -> Seq(Step)] /\ pc' \in [Runner -> P \cup OpPC \cup DonePC]
    BY <1>1, <1>2, OpMoves
  <2>2. /\ WorldTypeOK' /\ todo' \in [Runner -> SUBSET Pod]
        /\ UNCHANGED <<target, kname, opts, cancelled>>
    BY <1>1, <1>2, OpTypes
  <2>3. pc' \in [Runner -> {"idle"} \cup OpPC \cup DonePC] BY <2>1 DEF P
  <2>4. QED BY <1>1, <1>2, <2>1, <2>2, <2>3 DEF TypeOK, objects, control
<1>8. RunnerInv(n)' BY <1>1, <1>2, OpSelf
<1>9. ASSUME NEW m \in Node \ {n} PROVE RunnerInv(m)' /\ NodeInv(m)'
  <2>1. RunnerInv(m) /\ NodeInv(m) BY DEF IInv
  <2>2. pc[m] \in OpPC \cup DonePC => target[m] # target[n]
    <3>1. pc[m] \in OpPC \cup DonePC => pc[m] # "idle"
      BY ZenonT(60) DEF OpPC, DrainPC, WakePC, DonePC
    <3>2. QED BY <1>6, <2>1, <3>1 DEF NodeInv, RunInv
  <2>3. RunnerInv(m)' BY <1>1, <1>3, <2>1, <2>2, OthersKept
  <2>4. Same(m) BY <1>2, <1>3 DEF Same, Local, objects, control
  <2>5. Calm(m) BY <1>3, <1>6, WorldAssumption DEF Calm, Local, Unmapped
  <2>6. QED BY <2>1, <2>3, <2>4, <2>5, NodeKept
<1>10. ObjInv(n)' BY <1>1, <1>2 DEF NodeInv, ObjInv, Older, objects, control
<1>11. SeenInv(n)' BY ZenonT(60), <1>2, <1>6 DEF SeenInv, control
<1>12. RunInv(n)' /\ TruthInv(n)' /\ AskedInv(n)'
  <2>1. target'[n] = n /\ kname'[n] = n /\ rpc'[n] = "op" BY <1>2, <1>3, <1>6 DEF Local, control
  <2>2. Want(en[n]) \in {"On", "Off"} BY <1>1, WantOK DEF TypeOK
  <2>3. CASE /\ pc[n] \in DrainPC /\ pc'[n] \in DrainPC \cup {"slept", "err"}
             /\ \A x \in Node : power[x] = "off" => power'[x] = "off"
    <3>1. Want(en[n]) = "Off" BY <1>1, <2>3 DEF NodeInv, RunInv
    <3>2. RunInv(n)'
      <4>1. pc'[n] \notin WakePC \cup {"woken"} BY ZenonT(60), <2>3 DEF DrainPC, WakePC
      <4>2. QED BY <1>2, <1>5, <2>1, <3>1, <4>1 DEF RunInv, Want, objects
    <3>3. n \in askedOff
      <4>1. en[n].desired = "Off" BY <3>1 DEF Want
      <4>2. QED BY <1>1, <1>6, <4>1 DEF NodeInv, AskedInv
    <3>4. AskedInv(n)' BY <1>2, <3>3 DEF AskedInv, objects
    <3>5. TruthInv(n)' BY ZenonT(60), <1>1, <1>2, <2>3 DEF NodeInv, TruthInv, Want, objects
    <3>6. QED BY <3>2, <3>4, <3>5
  <2>4. CASE /\ pc[n] \in WakePC /\ pc'[n] \in WakePC \cup {"woken", "err"} /\ os' = os
             /\ \A k \in KubeNode : cordoned'[k] => cordoned[k]
    <3>1. Want(en[n]) = "On" BY <1>1, <2>4 DEF NodeInv, RunInv
    <3>2. RunInv(n)'
      <4>1. pc'[n] \notin DrainPC \cup {"slept"} BY ZenonT(60), <2>4 DEF DrainPC, WakePC
      <4>2. QED BY <1>2, <1>5, <2>1, <3>1, <4>1 DEF RunInv, Want, objects
    <3>3. status[n].gen = obj[n].gen => Want(obj[n]) = "On"
      <4>1. status[n].gen = obj[n].gen => en[n].desired = obj[n].desired
        <5>1. obj[n].gen \in Nat BY <1>1 DEF TypeOK, ElasticNode
        <5>2. QED BY <1>1, <1>6, <5>1, SameIntent DEF NodeInv
      <4>2. QED BY <3>1, <4>1 DEF Want
    <3>4. n \in KubeNode BY WorldAssumption DEF Unmapped
    <3>5. UNCHANGED <<obj, status, askedOff, cache, en, rpc>> BY <1>2 DEF objects, control
    <3>6. TruthInv(n)'
      <4>1. ~(status[n].converged /\ status[n].phase = "Off" /\ status[n].gen = obj[n].gen)
        BY <1>1, <3>3 DEF NodeInv, TruthInv
      <4>2. QED BY <3>5, <4>1 DEF TruthInv
    <3>7. AskedInv(n)' BY ZenonT(60), <1>1, <2>4, <3>4, <3>5 DEF NodeInv, AskedInv
    <3>8. QED BY <3>2, <3>6, <3>7
  <2>5. QED BY <1>1, <1>2, <2>3, <2>4, OpKind
<1>13. PowerOS' BY <1>1, <1>2, OpPower
<1>14. QED BY <1>7, <1>8, <1>9, <1>10, <1>11, <1>12, <1>13 DEF IInv, NodeInv

(* The watcher only cancels the operation's context. *)
LEMMA CancelOK ==
    ASSUME IInv, NEW n \in Node, CancelOnDesiredChange(n)
    PROVE  IInv'
<1> USE DEF CancelOnDesiredChange
<1>1. TypeOK /\ NodeInv(n) BY DEF IInv
<1>2. TypeOK'
  <2>1. changed' \in [Node -> BOOLEAN] /\ cancelled' \in [Runner -> BOOLEAN] BY ZenonT(60), <1>1 DEF TypeOK
  <2>2. WorldTypeOK' BY <1>1 DEF TypeOK, WorldTypeOK, world, hardware, kube
  <2>3. QED BY <1>1, <2>1, <2>2 DEF TypeOK, objects
<1>3. \A m \in Node : Same(m) BY DEF Same, objects
<1>4. Calm(n) BY DEF Calm, world, hardware, kube
<1>5. NodeInv(n)' BY <1>1, <1>3, <1>4, NodeKept
<1>6. QED BY <1>2, <1>3, <1>5, QuietOK

(* A step of the world. *)
LEMMA WorldOK ==
    ASSUME Unmapped, IInv, WorldNext, UNCHANGED <<opvars, objects, control>>
    PROVE  IInv'
<1> USE OperatorAssumption
<1>1. WorldTypeOK /\ PowerOS /\ TypeOK BY DEF IInv, TypeOK
<1>2. WorldTypeOK' /\ PowerOS' /\ UNCHANGED cordoned
      /\ \A n \in Node : power[n] = "off" => power'[n] = "off"
  BY ZenonT(60), <1>1, WorldEffect
<1>3. TypeOK' BY <1>1, <1>2 DEF TypeOK, opvars, objects, control
<1>4. \A m \in Node : RunnerInv(m)' BY <1>1, WorldKeeps DEF IInv
<1>5. \A m \in Node : Same(m) BY ZenonT(60) DEF Same, opvars, objects, control
<1>6. \A m \in Node : Calm(m) BY <1>1, <1>2, WorldSafe DEF Calm
<1>7. \A m \in Node : NodeInv(m)' BY <1>5, <1>6, NodeKept DEF IInv
<1>8. QED BY <1>2, <1>3, <1>4, <1>7 DEF IInv

(* The empty values have their types. *)
LEMMA EmptyOK ==
    /\ NoObject \in ElasticNode /\ NoObservation \in Observation
    /\ NoFinish \in [phase : Phase, err : BOOLEAN] /\ NoStatus \in Status
    /\ NoOptions \in Options /\ << >> \in Seq(Step)
<1>1. 1 \in 1..MaxGeneration /\ 0 \in 0..MaxGeneration BY OperatorAssumption
<1>2. NoObject \in ElasticNode BY <1>1 DEF NoObject, NewObject, ElasticNode, PowerState
<1>3. NoObservation \in Observation BY DEF NoObservation, Observation
<1>4. NoFinish \in [phase : Phase, err : BOOLEAN] BY DEF NoFinish, Phase
<1>5. NoStatus \in Status BY <1>1 DEF NoStatus, Status, Phase, PowerState
<1>6. NoOptions \in Options BY DEF NoOptions, Options
<1>7. QED BY <1>2, <1>3, <1>4, <1>5, <1>6

(* What a Reconcile that returns leaves behind. *)
LEMMA ReturnOK ==
    ASSUME TypeOK, NEW n \in Node, Return(n)
    PROVE  /\ en' \in [Node -> ElasticNode] /\ rpc' \in [Node -> {"idle"} \cup RunPC]
           /\ obs' \in [Node -> Observation] /\ fin' \in [Node -> [phase : Phase, err : BOOLEAN]]
           /\ queued' \in [Node -> BOOLEAN] /\ rpc'[n] = "idle"
           /\ \A m \in Node \ {n} : /\ en'[m] = en[m] /\ rpc'[m] = rpc[m]
                                     /\ obs'[m] = obs[m] /\ fin'[m] = fin[m]
<1>1. /\ en \in [Node -> ElasticNode] /\ rpc \in [Node -> {"idle"} \cup RunPC]
      /\ obs \in [Node -> Observation] /\ fin \in [Node -> [phase : Phase, err : BOOLEAN]]
      /\ queued \in [Node -> BOOLEAN]
  BY DEF TypeOK
<1>2. QED BY <1>1, EmptyOK DEF Return, Continue

(* A node without a Reconcile or an operation: only versions and the        *)
(* status matter.                                                           *)
LEMMA IdleOK ==
    ASSUME NEW n \in Node, rpc'[n] = "idle", pc'[n] = "idle", Older(cache[n], obj[n])',
           status'[n].gen <= cache'[n].gen, TruthInv(n)', AskedInv(n)'
    PROVE  NodeInv(n)'
<1>1. ObjInv(n)' BY DEF ObjInv
<1>2. RunInv(n)' BY ZenonT(60) DEF RunInv, DrainPC, WakePC
<1>3. SeenInv(n)' BY ZenonT(60) DEF SeenInv
<1>4. QED BY <1>1, <1>2, <1>3 DEF NodeInv

(* The operation returned: success is re-read, a change of intent starts    *)
(* over, a failure is reported as Blocked or PoweringOn.                    *)
LEMMA OpReturnedOK ==
    ASSUME IInv, NEW n \in Node, OpReturned(n)
    PROVE  IInv'
<1> USE OperatorAssumption DEF OpReturned, EndOp, Forget
<1>1. TypeOK /\ NodeInv(n) /\ RunnerInv(n) BY ZenonT(60) DEF IInv
<1>2. /\ pc' \in [Runner -> {"idle"} \cup OpPC \cup DonePC] /\ pc'[n] = "idle" /\ steps'[n] = << >>
      /\ target' \in [Runner -> Node \cup {NoNode}] /\ kname' \in [Runner -> Node \cup {NoNode}]
      /\ opts' \in [Runner -> Options] /\ cancelled' \in [Runner -> BOOLEAN]
      /\ todo' \in [Runner -> SUBSET Pod] /\ steps' \in [Runner -> Seq(Step)]
      /\ changed' \in [Node -> BOOLEAN]
      /\ \A m \in Node \ {n} : /\ pc'[m] = pc[m] /\ target'[m] = target[m] /\ kname'[m] = kname[m]
                                /\ todo'[m] = todo[m] /\ steps'[m] = steps[m]
  BY <1>1, EmptyOK DEF TypeOK
<1>3. /\ WorldTypeOK' /\ UNCHANGED <<world, obj, askedOff, status, cache, cacheFresh>>
  BY ZenonT(60), <1>1 DEF TypeOK, WorldTypeOK, world, hardware, kube
<1>4. RunnerInv(n)'
  <2>1. pc'[n] \notin OpPC \cup DonePC BY ZenonT(60), <1>2 DEF OpPC, DrainPC, WakePC, DonePC
  <2>2. QED BY ZenonT(60), <1>2, <2>1, Starts
<1>5. TruthInv(n)' BY ZenonT(60), <1>1, <1>3 DEF NodeInv, TruthInv, Want, world, hardware
<1>6. rpc[n] = "op" /\ pc[n] \in DonePC /\ rpc \in [Node -> {"idle"} \cup RunPC]
      /\ fin \in [Node -> [phase : Phase, err : BOOLEAN]]
  BY <1>1 DEF TypeOK
<1>a. rpc'[n] = "idle" \/ en' = en => AskedInv(n)'
  BY ZenonT(60), <1>1, <1>3, <1>6 DEF NodeInv, AskedInv, world, hardware, kube
<1>7. \/ pc[n] # "err" /\ Continue(n, "power-again") /\ UNCHANGED <<en, enFresh, fin, obs, queued>>
      \/ Return(n) /\ enFresh' = [enFresh EXCEPT ![n] = FALSE]
      \/ /\ Report(n, IF Want(en[n]) = "Off" THEN "Blocked" ELSE "PoweringOn", TRUE)
         /\ UNCHANGED <<en, enFresh, obs, queued>>
  BY Zenon
<1> HIDE DEF OpReturned, EndOp, Forget
<1> HIDE OperatorAssumption
<1>8. CASE pc[n] # "err" /\ Continue(n, "power-again") /\ UNCHANGED <<en, enFresh, fin, obs, queued>>
  <2>1. /\ rpc' \in [Node -> {"idle"} \cup RunPC] /\ rpc'[n] = "power-again"
        /\ \A m \in Node \ {n} : rpc'[m] = rpc[m]
    BY <1>6, <1>8 DEF Continue, RunPC
  <2>2. TypeOK' BY ZenonT(60), <1>1, <1>2, <1>3, <1>8, <2>1 DEF TypeOK
  <2>3. ObjInv(n)' BY ZenonT(60), <1>1, <1>3, <1>6, <1>8 DEF NodeInv, ObjInv, Older
  <2>4. RunInv(n)' BY ZenonT(60), <1>2, <2>1 DEF RunInv, DrainPC, WakePC
  <2>5. Want(en[n]) = "Off" => power[n] = "off"
    <3>1. pc[n] = "slept" \/ pc[n] = "woken" BY <1>6, <1>8 DEF DonePC
    <3>2. QED BY ZenonT(60), <1>1, <3>1 DEF RunnerInv, WorldInv, NodeInv, RunInv
  <2>6. SeenInv(n)' BY ZenonT(60), <1>3, <1>8, <2>1, <2>5 DEF SeenInv, Want, world, hardware
  <2>7. \A m \in Node \ {n} : Same(m) BY ZenonT(60), <1>2, <1>3, <1>8, <2>1 DEF Same
  <2>8. NodeInv(n)' BY <1>5, <1>8, <1>a, <2>3, <2>4, <2>6 DEF NodeInv
  <2>9. QED BY ZenonT(60), <1>2, <1>3, <1>4, <2>2, <2>7, <2>8, OwnOK
<1>9. CASE Return(n) /\ enFresh' = [enFresh EXCEPT ![n] = FALSE]
  <2>1. TypeOK'
    <3>1. enFresh' \in [Node -> BOOLEAN] BY <1>1, <1>9 DEF TypeOK
    <3>2. QED BY ZenonT(60), <1>1, <1>2, <1>3, <1>9, <3>1, ReturnOK DEF TypeOK
  <2>2. rpc'[n] = "idle" BY <1>1, <1>9, ReturnOK
  <2>3. Older(cache[n], obj[n])' /\ status'[n].gen <= cache'[n].gen
    BY ZenonT(60), <1>1, <1>3 DEF NodeInv, ObjInv, Older
  <2>4. NodeInv(n)' BY <1>2, <1>5, <1>a, <2>2, <2>3, IdleOK
  <2>5. \A m \in Node \ {n} : Same(m) BY ZenonT(60), <1>1, <1>2, <1>3, <1>9, ReturnOK DEF Same
  <2>6. QED BY ZenonT(60), <1>2, <1>3, <1>4, <2>1, <2>4, <2>5, OwnOK
<1>10. CASE /\ Report(n, IF Want(en[n]) = "Off" THEN "Blocked" ELSE "PoweringOn", TRUE)
            /\ UNCHANGED <<en, enFresh, obs, queued>>
  <2>1. /\ rpc' \in [Node -> {"idle"} \cup RunPC] /\ rpc'[n] = "finish"
        /\ \A m \in Node \ {n} : rpc'[m] = rpc[m]
    BY <1>6, <1>10 DEF Report, Continue, RunPC
  <2>2. /\ fin' \in [Node -> [phase : Phase, err : BOOLEAN]] /\ fin'[n].err
        /\ \A m \in Node \ {n} : fin'[m] = fin[m]
    BY ZenonT(60), <1>6, <1>10 DEF Report, Phase
  <2>3. TypeOK' BY ZenonT(60), <1>1, <1>2, <1>3, <1>10, <2>1, <2>2 DEF TypeOK
  <2>4. ObjInv(n)' BY ZenonT(60), <1>1, <1>3, <1>6, <1>10 DEF NodeInv, ObjInv, Older
  <2>5. RunInv(n)' BY ZenonT(60), <1>2, <2>1 DEF RunInv, DrainPC, WakePC
  <2>6. SeenInv(n)' BY ZenonT(60), <2>1, <2>2 DEF SeenInv
  <2>7. \A m \in Node \ {n} : Same(m) BY ZenonT(60), <1>2, <1>3, <1>10, <2>1, <2>2 DEF Same
  <2>8. NodeInv(n)' BY <1>5, <1>10, <1>a, <2>4, <2>5, <2>6 DEF NodeInv
  <2>9. QED BY ZenonT(60), <1>2, <1>3, <1>4, <2>3, <2>7, <2>8, OwnOK
<1>11. QED BY Zenon, <1>7, <1>8, <1>9, <1>10

-----------------------------------------------------------------------------
(* The status, the failover and the theorems. *)

(* A status is written for the version Reconcile worked on, and an Off in   *)
(* it is true.                                                              *)
LEMMA FinishOK ==
    ASSUME IInv, NEW n \in Node, Finish(n)
    PROVE  IInv'
<1> USE OperatorAssumption DEF Finish
<1>1. TypeOK /\ NodeInv(n) /\ rpc[n] = "finish" /\ WorldTypeOK BY DEF IInv, TypeOK
<1>2. WantStatus(n) \in Status
  <2>1. en[n] \in ElasticNode /\ obs[n] \in Observation /\ fin[n] \in [phase : Phase, err : BOOLEAN]
    BY <1>1 DEF TypeOK
  <2>2. en[n].gen \in 0..MaxGeneration BY <2>1 DEF ElasticNode
  <2>3. powerEnum(obs[n].power) \in PowerState BY <2>1 DEF Observation, powerEnum, PowerState
  <2>4. fin[n].phase \in Phase /\ (~fin[n].err /\ fin[n].phase \in {"Ready", "Off"}) \in BOOLEAN
    BY <2>1
  <2>5. obs[n].ready \in BOOLEAN /\ obs[n].gpu \in BOOLEAN BY <2>1 DEF Observation
  <2>6. QED BY ZenonT(60), <2>2, <2>3, <2>4, <2>5 DEF WantStatus, Status
<1>3. /\ status' \in [Node -> Status] /\ cacheFresh' \in [Node -> BOOLEAN]
      /\ \A m \in Node \ {n} : status'[m] = status[m]
      /\ status'[n] = status[n] \/ status'[n] = WantStatus(n)
  <2>1. \/ /\ status' = [status EXCEPT ![n] = WantStatus(n)]
           /\ cacheFresh' = [cacheFresh EXCEPT ![n] = FALSE]
        \/ UNCHANGED <<status, cacheFresh>>
    BY ZenonT(60) DEF WriteStatus
  <2>2. status \in [Node -> Status] /\ cacheFresh \in [Node -> BOOLEAN] BY ZenonT(60), <1>1 DEF TypeOK
  <2> HIDE DEF Finish
  <2>3. QED BY ZenonT(60), <1>2, <2>1, <2>2
<1>4. TypeOK'
  <2>1. enFresh' \in [Node -> BOOLEAN] BY ZenonT(60), <1>1 DEF TypeOK
  <2>2. QED BY ZenonT(60), <1>1, <1>3, <2>1, QuietTypes, ReturnOK DEF TypeOK
<1>5. rpc'[n] = "idle" /\ pc'[n] = "idle"
  BY ZenonT(60), <1>1, ReturnOK DEF NodeInv, RunInv, opvars
<1>6. /\ en[n].gen <= cache[n].gen /\ Older(cache[n], obj[n]) /\ status[n].gen <= cache[n].gen
      /\ en[n].gen = obj[n].gen => en[n].desired = obj[n].desired
  <2>1. en[n].gen \in Nat /\ obj[n].gen \in Nat /\ cache[n].gen \in Nat
    BY <1>1 DEF TypeOK, ElasticNode
  <2> HIDE DEF Finish
  <2> HIDE OperatorAssumption
  <2>2. Older(cache[n], obj[n]) /\ status[n].gen <= cache[n].gen /\ Older(en[n], cache[n])
    BY <1>1 DEF NodeInv, ObjInv
  <2>3. QED BY <2>1, <2>2 DEF Older
<1>7. WantStatus(n).gen = en[n].gen /\ WantStatus(n).phase = fin[n].phase
      /\ (WantStatus(n).converged => ~fin[n].err)
  BY ZenonT(60) DEF WantStatus
<1>8. Older(cache[n], obj[n])' /\ status'[n].gen <= cache'[n].gen
  BY <1>3, <1>6, <1>7 DEF Older
<1>9. TruthInv(n)'
  <2>1. CASE status'[n] = status[n]
    BY ZenonT(60), <1>1, <2>1 DEF NodeInv, TruthInv, Want, world, hardware
  <2>2. CASE status'[n] = WantStatus(n)
    <3>1. fin[n].phase = "Off" /\ ~fin[n].err => power[n] = "off" /\ Want(en[n]) = "Off"
      BY ZenonT(60), <1>1 DEF NodeInv, SeenInv
    <3>2. en[n].gen = obj[n].gen => Want(en[n]) = Want(obj[n]) BY ZenonT(60), <1>6 DEF Want
    <3>3. UNCHANGED <<obj, power>> BY DEF world, hardware
    <3>4. QED BY ZenonT(60), <1>7, <2>2, <3>1, <3>2, <3>3 DEF TruthInv, Want
  <2>3. QED BY ZenonT(60), <1>3, <2>1, <2>2
<1>10. AskedInv(n)' BY ZenonT(60), <1>1, <1>5 DEF NodeInv, AskedInv, world, hardware, kube
<1>11. NodeInv(n)' BY ZenonT(60), <1>5, <1>8, <1>9, <1>10, IdleOK
<1>12. \A m \in Node \ {n} : Same(m) BY ZenonT(60), <1>1, <1>3, ReturnOK DEF Same, opvars
<1>13. QED BY ZenonT(60), <1>4, <1>11, <1>12, QuietOK DEF opvars

(* A failover forgets the operations, never the versions. *)
LEMMA FailoverOK ==
    ASSUME IInv, Failover
    PROVE  IInv'
<1> USE OperatorAssumption DEF Failover, ForgetAll
<1>1. TypeOK BY DEF IInv
<1>2. TypeOK'
  <2>1. WorldTypeOK' BY ZenonT(60), <1>1 DEF TypeOK, WorldTypeOK, world, hardware, kube
  <2>2. QED BY ZenonT(60), <1>1, <2>1, EmptyOK DEF TypeOK
<1>3. PowerOS' BY ZenonT(60) DEF IInv, PowerOS, world, hardware
<1>4. ASSUME NEW n \in Node PROVE RunnerInv(n)' /\ NodeInv(n)'
  <2>1. pc'[n] = "idle" /\ steps'[n] = << >> /\ rpc'[n] = "idle" OBVIOUS
  <2>2. pc'[n] \notin OpPC \cup DonePC BY ZenonT(60), <2>1 DEF OpPC, DrainPC, WakePC, DonePC
  <2>3. RunnerInv(n)' BY ZenonT(60), <2>1, <2>2, Starts
  <2>4. NodeInv(n) /\ obj[n].gen \in Nat /\ cache[n].gen \in Nat /\ status[n].gen \in Nat
    BY <1>1 DEF IInv, TypeOK, ElasticNode, Status
  <2>5. Older(cache[n], obj[n])' /\ status'[n].gen <= cache'[n].gen
    <3>1. cache'[n] = obj[n] /\ obj'[n] = obj[n] /\ status'[n] = status[n] BY ZenonT(60)
    <3> HIDE DEF Failover, ForgetAll
    <3> HIDE OperatorAssumption
    <3>2. status[n].gen <= cache[n].gen /\ cache[n].gen <= obj[n].gen
      BY ZenonT(60), <2>4 DEF NodeInv, ObjInv, Older
    <3>3. status[n].gen <= obj[n].gen BY <2>4, <3>2
    <3>4. Older(cache'[n], obj'[n]) /\ status'[n].gen <= cache'[n].gen
      BY ZenonT(60), <2>4, <3>1, <3>3, OlderSelf
    <3>5. QED BY ZenonT(60), <3>4 DEF Older
  <2>6. TruthInv(n)' BY ZenonT(60), <2>4 DEF NodeInv, TruthInv, Want, world, hardware
  <2>7. AskedInv(n)' BY ZenonT(60), <2>1, <2>4 DEF NodeInv, AskedInv, world, hardware, kube
  <2>8. QED BY ZenonT(60), <2>1, <2>3, <2>5, <2>6, <2>7, IdleOK
<1>5. QED BY <1>2, <1>3, <1>4 DEF IInv

(* Every node starts in service with a new object and no status. *)
LEMMA InitOK == Unmapped /\ Init => IInv
<1> SUFFICES ASSUME Unmapped, Init PROVE IInv OBVIOUS
<1> USE OperatorAssumption DEF Init, OpInit, WorldInit
<1>1. obj \in [Node -> ElasticNode] /\ \A n \in Node : obj[n].gen = 1
  <2>1. ASSUME NEW d \in Created PROVE NewObject(d) \in ElasticNode /\ NewObject(d).gen = 1
    <3> HIDE DEF Init, OpInit, WorldInit
    <3>1. 1 \in 1..MaxGeneration OBVIOUS
    <3>2. d \in PowerState BY ZenonT(60) DEF PowerState
    <3>3. QED BY ZenonT(60), <3>1, <3>2 DEF NewObject, ElasticNode
  <2>2. ASSUME NEW o \in {NewObject(d) : d \in Created} PROVE o \in ElasticNode /\ o.gen = 1
    <3> HIDE DEF Init, OpInit, WorldInit
    <3> HIDE OperatorAssumption
    <3>1. PICK d \in Created : o = NewObject(d) BY ZenonT(60)
    <3>2. QED BY ZenonT(60), <2>1, <3>1
  <2>3. QED BY ZenonT(60), <2>2
<1>2. TypeOK
  <2>1. WorldTypeOK BY ZenonT(60) DEF WorldTypeOK
  <2>2. QED BY <1>1, <2>1, EmptyOK DEF TypeOK
<1>3. PowerOS BY DEF PowerOS
<1>4. ASSUME NEW n \in Node PROVE RunnerInv(n) /\ NodeInv(n)
  <2>1. RunnerInv(n)
    BY ZenonT(60) DEF RunnerInv, NameInv, StepInv, WorldInv, OpPC, DrainPC, WakePC, DonePC,
       PastCordon, PastDrain, PastGate, PastStop, PastPowerOn
  <2>2. ObjInv(n)
    <3>1. cache[n] = obj[n] /\ obj[n].gen = 1 /\ rpc[n] = "idle" BY ZenonT(60), <1>1
    <3>2. status[n].gen = 0 BY ZenonT(60) DEF NoStatus
    <3> HIDE DEF Init, OpInit, WorldInit
    <3> HIDE OperatorAssumption
    <3>3. Older(cache[n], obj[n]) BY <3>1, OlderSelf
    <3>4. status[n].gen <= cache[n].gen BY <3>1, <3>2
    <3>5. QED BY ZenonT(60), <3>1, <3>3, <3>4 DEF ObjInv
  <2>3. RunInv(n) BY ZenonT(60) DEF RunInv, DrainPC, WakePC
  <2>4. SeenInv(n) BY ZenonT(60) DEF SeenInv
  <2>5. TruthInv(n)
    <3>1. ~status[n].converged BY DEF NoStatus
    <3>2. QED BY <3>1 DEF TruthInv
  <2>6. AskedInv(n)
    <3>1. ~cordoned[n] /\ os[n] # "stopping" BY WorldAssumption DEF Unmapped
    <3>2. rpc[n] = "idle" /\ cache = obj /\ (n \notin askedOff => obj[n].desired # "Off") BY ZenonT(60)
    <3>3. QED BY ZenonT(60), <3>1, <3>2 DEF AskedInv
  <2>7. QED BY <2>1, <2>2, <2>3, <2>4, <2>5, <2>6 DEF NodeInv
<1>5. QED BY <1>2, <1>3, <1>4 DEF IInv

(* Every step of the controller, the API server and the world keeps the     *)
(* invariant.                                                               *)
LEMMA NextOK == Unmapped /\ IInv /\ [Next]_vars => IInv'
<1> SUFFICES ASSUME Unmapped, IInv, [Next]_vars PROVE IInv' OBVIOUS
<1>1. CASE WorldNext /\ UNCHANGED <<opvars, objects, control>> BY <1>1, WorldOK
<1>2. ASSUME NEW n \in Node, EditDesired(n) \/ DeleteObject(n) \/ Sync(n) \/ CancelOnDesiredChange(n)
      PROVE  IInv'
  BY <1>2, EditOK, SyncOK, CancelOK
<1>3. ASSUME NEW n \in Node, Reconcile(n) PROVE IInv'
  BY <1>3, GetOK, BackendsOK, ObservePowerOK, ObserveNodeOK, DecideOK, RunOpOK, OpReturnedOK,
     ReobserveOffOK, ReobserveOnOK, FinishOK DEF Reconcile
<1>4. CASE Failover BY <1>4, FailoverOK
<1>5. CASE UNCHANGED vars
  <2>1. TypeOK /\ PowerOS /\ \A n \in Node : RunnerInv(n) /\ NodeInv(n) BY ZenonT(60) DEF IInv
  <2>2. TypeOK'
    <3>1. UNCHANGED <<world, opvars>> BY ZenonT(60), <1>5 DEF vars
    <3>2. QED BY <1>5, <2>1, <3>1, QuietTypes DEF TypeOK, vars, objects, control
  <2>3. PowerOS' BY ZenonT(60), <1>5, <2>1 DEF PowerOS, vars, world, hardware
  <2>4. \A n \in Node : Same(n) /\ Calm(n)
    BY ZenonT(60), <1>5 DEF Same, Calm, vars, world, hardware, kube, opvars, objects, control
  <2>5. \A n \in Node : NodeInv(n)' BY ZenonT(60), <2>1, <2>4, NodeKept
  <2>6. \A n \in Node : RunnerInv(n)'
    BY ZenonT(60), <1>5, <2>1, OperatorAssumption, Untouched DEF vars, opvars
  <2>7. QED BY <2>2, <2>3, <2>5, <2>6 DEF IInv
<1>6. QED BY <1>1, <1>2, <1>3, <1>4, <1>5 DEF Next

(* The inductive invariant holds throughout. *)
THEOREM Invariance == ASSUME Unmapped PROVE Spec => []IInv
<1>1. Init => IInv BY InitOK
<1>2. IInv /\ [Next]_vars => IInv' BY NextOK
<1>3. QED BY <1>1, <1>2, PTL DEF Spec

(* Every variable of the controller keeps its type. *)
THEOREM TypeCorrect == ASSUME Unmapped PROVE Spec => []TypeOK
<1>1. IInv => TypeOK BY DEF IInv
<1>2. QED BY <1>1, Invariance, PTL

(* A converged Off in the status of the current spec is true: no stale      *)
(* cache, conflict, unreadable BMC, aborted operation or failover leaves it *)
(* on a machine that is on.                                                 *)
THEOREM OffStatusCorrect == ASSUME Unmapped PROVE Spec => []OffStatusTrue
<1>1. IInv => OffStatusTrue BY ZenonT(60) DEF IInv, NodeInv, TruthInv, OffStatusTrue
<1>2. QED BY <1>1, Invariance, PTL

(* A node of which no stored version asked for Off is neither cordoned nor  *)
(* stopped.                                                                 *)
THEOREM NoDisruptionCorrect == ASSUME Unmapped PROVE Spec => []NoDisruptionUnasked
<1>1. IInv => NoDisruptionUnasked BY ZenonT(60) DEF IInv, NodeInv, AskedInv, NoDisruptionUnasked
<1>2. QED BY <1>1, Invariance, PTL

(* An operation that returned nil is still true when Reconcile reads it. *)
THEOREM SuccessCorrect == ASSUME Unmapped PROVE Spec => []SuccessHolds
<1>1. IInv => SuccessHolds
  BY ZenonT(60), OperatorAssumption DEF IInv, RunnerInv, WorldInv, SuccessHolds
<1>2. QED BY <1>1, Invariance, PTL

(* A drain that failed or was cancelled after its cordon left it in place. *)
THEOREM FailedDrainCorrect == ASSUME Unmapped PROVE Spec => []FailedDrainStaysCordoned
<1>1. IInv => FailedDrainStaysCordoned
  BY ZenonT(60), OperatorAssumption DEF IInv, RunnerInv, WorldInv, FailedDrainStaysCordoned, CordonDone
<1>2. QED BY <1>1, Invariance, PTL

-----------------------------------------------------------------------------
(* What a step of the controller is, as far as the machines are concerned. *)
LEMMA Steps ==
    ASSUME [Next]_vars
    PROVE  WorldNext \/ (\E n \in Node : OpStep(n)) \/ UNCHANGED world
<1>1. ASSUME NEW n \in Node, Reconcile(n) PROVE OpStep(n) \/ UNCHANGED world
  BY ZenonT(60), <1>1 DEF Reconcile, Get, BackendsFor, ObservePower, ObserveNode, Proceed, Decide, RunOp, OpReturned,
     ReobserveOff, ReobserveOn, Finish
<1>2. QED BY ZenonT(60), <1>1 DEF Next, EditDesired, DeleteObject, Sync, CancelOnDesiredChange, Failover, vars

(* The OS is told to stop only on a drained machine behind its gate. *)
LEMMA StopSafe ==
    ASSUME IInv, [Next]_vars, NEW n \in Node, os[n] # "stopping", os'[n] = "stopping"
    PROVE  cordoned[K(n)] /\ running[K(n)] = {} /\ (StorageGate => sessions[n] = {})
<1> USE OperatorAssumption
<1>1. WorldTypeOK BY ZenonT(60) DEF IInv, TypeOK
<1>2. ~WorldNext BY ZenonT(60), <1>1, WorldSafe
<1>3. ~UNCHANGED world BY DEF world, hardware
<1>4. PICK m \in Node : OpStep(m) BY <1>2, <1>3, Steps
<1>5. QED BY ZenonT(60), <1>1, <1>4, OpSafe DEF IInv

(* Reconcile stops an OS only behind a cordoned and drained node. *)
THEOREM ShutdownCorrect == ASSUME Unmapped PROVE Spec => ShutdownOnlyDrained
<1>1. IInv /\ [Next]_vars =>
        [\A n \in Node : os[n] # "stopping" /\ os'[n] = "stopping"
             => cordoned[K(n)] /\ running[K(n)] = {}]_world
  BY ZenonT(60), StopSafe
<1>2. QED BY <1>1, Invariance, PTL DEF Spec, ShutdownOnlyDrained

(* With a storage gate, only when the machine's sessions are gone. *)
THEOREM DetachedCorrect == ASSUME Unmapped PROVE Spec => ShutdownOnlyDetached
<1>1. IInv /\ [Next]_vars =>
        [\A n \in Node : StorageGate /\ os[n] # "stopping" /\ os'[n] = "stopping"
             => sessions[n] = {}]_world
  BY ZenonT(60), StopSafe
<1>2. QED BY <1>1, Invariance, PTL DEF Spec, ShutdownOnlyDetached

(* The controller keeps the contract with the workloads. *)
THEOREM ContractKept == ASSUME Unmapped PROVE Spec => ImplementsContract
<1> USE OperatorAssumption
<1>1. Init => Contract!Init BY ContractInit DEF Init
<1>2. ASSUME IInv, [Next]_vars PROVE [Contract!Next]_Contract!vars
  <2>1. WorldTypeOK /\ PowerOS BY <1>2 DEF IInv, TypeOK
  <2>2. CASE WorldNext BY <2>1, <2>2, ContractWorld
  <2>3. ASSUME NEW n \in Node, OpStep(n) PROVE [Contract!Next]_Contract!vars
    BY <1>2, <2>1, <2>3, ContractOp DEF IInv
  <2>4. CASE UNCHANGED world BY <2>4, ContractStutter DEF world, hardware, kube
  <2>5. QED BY <1>2, <2>2, <2>3, <2>4, Steps
<1>3. QED BY <1>1, <1>2, Invariance, PTL DEF Spec, ImplementsContract, Contract!Spec

=============================================================================
