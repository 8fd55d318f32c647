--------------------------- MODULE LifecycleProofs ---------------------------
(***************************************************************************)
(* What a single step of a lifecycle operation, and of the world, preserves *)
(* and promises: the part of the safety argument that does not depend on    *)
(* the front-end.  RunnerInv(r) says what the operation of runner r may     *)
(* rely on at each of its points.  A step of r preserves it for r; a step   *)
(* of another operation touches only that one's machine and node object,    *)
(* which the front-end must keep apart from r's; and the world cannot put   *)
(* work on a cordoned node.                                                 *)
(***************************************************************************)
EXTENDS Lifecycle, TLAPS

CordonDone == [name |-> "cordon", ok |-> TRUE]

PastCordon == DrainPC \ {"cordon"}
PastDrain == PastCordon \ {"drain", "drain-wait"}
PastGate == PastDrain \ {"storage-gate"}
PastStop == PastGate \ {"talos-shutdown"}
PastPowerOn == WakePC \ {"read-power", "bmc-power-on"}

(* The types a step needs; P is where the front-end's runners may be. *)
Typed(P) ==
    /\ WorldTypeOK
    /\ pc \in [Runner -> P]
    /\ todo \in [Runner -> SUBSET Pod]
    /\ steps \in [Runner -> Seq(Step)]

(* A machine without power runs no operating system. *)
PowerOS == \A n \in Node : power[n] = "off" => os[n] = "down"

(* What runner r knows of itself. *)
NameInv(r) ==
    /\ pc[r] \in OpPC \cup {"slept", "woken"} => target[r] \in Node /\ kname[r] = K(target[r])
    /\ pc[r] = "err" /\ steps[r] # << >> => target[r] \in Node /\ kname[r] = K(target[r])

StepInv(r) ==
    /\ pc[r] \in {"idle", "cordon", "read-power", "bmc-power-on"} => steps[r] = << >>
    /\ pc[r] \in PastCordon \cup {"slept"} => steps[r] # << >> /\ steps[r][1] = CordonDone
    /\ pc[r] \in PastPowerOn \cup {"woken"} =>
          /\ steps[r] # << >> /\ steps[r][1] # CordonDone
          /\ steps[r][1].name = "bmc-power-on"

(* What it may rely on in the world. *)
WorldInv(r) ==
    /\ pc[r] \in PastCordon \cup {"slept"} => cordoned[kname[r]]
    /\ pc[r] = "drain-wait" => running[kname[r]] \subseteq todo[r]
    /\ pc[r] \in PastDrain => running[kname[r]] = {}
    /\ pc[r] \in PastGate /\ StorageGate => sessions[target[r]] = {}
    /\ pc[r] \in PastStop => power[target[r]] = "off" \/ os[target[r]] = "stopping"
    /\ pc[r] = "slept" => power[target[r]] = "off"
    /\ pc[r] = "woken" => ~cordoned[kname[r]]
    /\ pc[r] = "err" /\ steps[r] # << >> /\ steps[r][1] = CordonDone => cordoned[kname[r]]

RunnerInv(r) == NameInv(r) /\ StepInv(r) /\ WorldInv(r)

-----------------------------------------------------------------------------
(* The footprint of a lifecycle step of runner r: its own bookkeeping, and  *)
(* the machine and node object it operates on.                              *)
Local(r) ==
    /\ UNCHANGED <<target, kname>>
    /\ pc[r] \in OpPC /\ pc'[r] \in OpPC \cup DonePC
    /\ \A s \in Runner \ {r} : pc'[s] = pc[s] /\ todo'[s] = todo[s] /\ steps'[s] = steps[s]
    /\ \A n \in Node \ {target[r]} : power'[n] = power[n] /\ os'[n] = os[n] /\ sessions'[n] = sessions[n]
    /\ \A k \in KubeNode \ {kname[r]} : cordoned'[k] = cordoned[k] /\ running'[k] = running[k]

(* Recording a phase appends one well-formed Step and keeps the first one. *)
LEMMA RecordOK ==
    ASSUME steps \in [Runner -> Seq(Step)], NEW r \in Runner,
           NEW name \in OpPC, NEW ok \in BOOLEAN, Record(r, name, ok)
    PROVE  /\ steps' \in [Runner -> Seq(Step)]
           /\ \A s \in Runner \ {r} : steps'[s] = steps[s]
           /\ steps'[r] # << >>
           /\ steps[r] # << >> => steps'[r][1] = steps[r][1]
           /\ steps[r] = << >> => steps'[r][1] = [name |-> name, ok |-> ok]
<1> DEFINE e == [name |-> name, ok |-> ok]
<1>1. e \in Step BY DEF Step
<1> HIDE DEF e
<1>2. steps' = [steps EXCEPT ![r] = Append(steps[r], e)] BY DEF Record, e
<1>3. QED BY <1>1, <1>2 DEF e

(* After its first record a runner keeps it. *)
LEMMA HeadKept ==
    ASSUME NEW P, Typed(P), NEW r \in Runner, RunnerInv(r), NEW name \in OpPC, NEW ok \in BOOLEAN, Record(r, name, ok),
           pc[r] \in PastCordon \cup PastPowerOn
    PROVE  steps'[r] # << >> /\ steps'[r][1] = steps[r][1]
<1>1. steps[r] # << >>
  BY DEF RunnerInv, StepInv
<1>2. QED BY ZenonT(60), <1>1, RecordOK DEF Typed

(* The record of a successful cordon. *)
LEMMA HeadCordon ==
    ASSUME NEW P, Typed(P), NEW r \in Runner, RunnerInv(r), Record(r, "cordon", TRUE), pc[r] = "cordon"
    PROVE  steps'[r] # << >> /\ steps'[r][1] = CordonDone
<1>1. steps[r] = << >> /\ "cordon" \in OpPC
  BY DEF RunnerInv, StepInv, OpPC, DrainPC
<1>2. QED BY ZenonT(60), <1>1, RecordOK DEF Typed, CordonDone

(* A failed cordon, or any first phase of PowerOn, is not a recorded cordon. *)
LEMMA HeadOther ==
    ASSUME NEW P, Typed(P), NEW r \in Runner, RunnerInv(r), NEW name \in OpPC, NEW ok \in BOOLEAN, Record(r, name, ok),
           pc[r] \in {"cordon", "read-power", "bmc-power-on"}, name # "cordon" \/ ~ok
    PROVE  steps'[r] # << >> /\ steps'[r][1] # CordonDone
<1>1. steps'[r] # << >> /\ steps'[r][1] = [name |-> name, ok |-> ok]
  BY RecordOK DEF Typed, RunnerInv, StepInv
<1>2. QED BY <1>1 DEF CordonDone

(* The first record of a wake is the one of its power-on. *)
LEMMA HeadPowerOn ==
    ASSUME NEW P, Typed(P), NEW r \in Runner, RunnerInv(r), NEW ok \in BOOLEAN,
           Record(r, "bmc-power-on", ok), pc[r] \in {"read-power", "bmc-power-on"}
    PROVE  steps'[r] # << >> /\ steps'[r][1] # CordonDone /\ steps'[r][1].name = "bmc-power-on"
<1>1. "bmc-power-on" \in OpPC BY DEF OpPC, WakePC
<1>2. steps'[r] # << >> /\ steps'[r][1] = [name |-> "bmc-power-on", ok |-> ok]
  BY <1>1, RecordOK DEF Typed, RunnerInv, StepInv
<1>3. QED BY <1>2 DEF CordonDone

(* A lifecycle step records at most one phase and moves its own pc. *)
LEMMA OpMoves ==
    ASSUME NEW P, Typed(P), NEW r \in Runner, RunnerInv(r), OpStep(r)
    PROVE  /\ steps' \in [Runner -> Seq(Step)]
           /\ pc' \in [Runner -> P \cup OpPC \cup DonePC]
           /\ pc[r] \in OpPC /\ pc'[r] \in OpPC \cup DonePC
           /\ \A s \in Runner \ {r} : pc'[s] = pc[s] /\ steps'[s] = steps[s]
<1> DEFINE Recorded == \/ \E name \in OpPC, ok \in BOOLEAN : Record(r, name, ok)
                       \/ UNCHANGED steps
           Moved == \E x \in OpPC \cup DonePC : Goto(r, x)
<1> SUFFICES pc[r] \in OpPC /\ Recorded /\ (Moved \/ UNCHANGED pc)
  <2>0. /\ steps \in [Runner -> Seq(Step)]
        /\ pc \in [Runner -> P]
    BY DEF Typed
  <2>1. ASSUME NEW name \in OpPC, NEW ok \in BOOLEAN, Record(r, name, ok)
        PROVE  steps' \in [Runner -> Seq(Step)] /\ \A s \in Runner \ {r} : steps'[s] = steps[s]
    BY ZenonT(60), <2>0, <2>1, RecordOK
  <2> QED BY ZenonT(60), <2>0, <2>1 DEF Goto
<1> USE DEF OpPC, DrainPC, WakePC, DonePC, Pass, Fail, Reply, Frame
<1>1. CASE Cordon(r) BY ZenonT(60), <1>1 DEF Cordon
<1>2. CASE DrainList(r) BY ZenonT(60), <1>2 DEF DrainList
<1>3. CASE DrainEvict(r) BY <1>3 DEF DrainEvict
<1>4. CASE DrainWait(r) BY ZenonT(60), <1>4 DEF DrainWait
<1>5. CASE WaitDetached(r) BY ZenonT(60), <1>5 DEF WaitDetached
<1>6. CASE TalosShutdown(r) BY ZenonT(60), <1>6 DEF TalosShutdown
<1>7. CASE WaitPowerOff(r) BY ZenonT(60), <1>7 DEF WaitPowerOff
<1>8. CASE HardOff(r) BY ZenonT(60), <1>8 DEF HardOff
<1>9. CASE WaitPowerOffAfterHardOff(r) BY ZenonT(60), <1>9 DEF WaitPowerOffAfterHardOff
<1>10. CASE ReadPower(r) BY ZenonT(60), <1>10 DEF ReadPower
<1>11. CASE BMCPowerOn(r) BY ZenonT(60), <1>11 DEF BMCPowerOn
<1>12. CASE WaitTalosReachable(r) BY ZenonT(60), <1>12 DEF WaitTalosReachable
<1>13. CASE WaitNodeReady(r) BY ZenonT(60), <1>13 DEF WaitNodeReady
<1>14. CASE WaitGPURegistered(r) BY ZenonT(60), <1>14 DEF WaitGPURegistered
<1>15. CASE Uncordon(r) BY ZenonT(60), <1>15 DEF Uncordon
<1> QED BY <1>1, <1>2, <1>3, <1>4, <1>5, <1>6, <1>7, <1>8, <1>9,
       <1>10, <1>11, <1>12, <1>13, <1>14, <1>15 DEF OpStep, DrainStep, WakeStep

(* A lifecycle step keeps the types of everything else. *)
LEMMA OpTypes ==
    ASSUME NEW P, Typed(P), NEW r \in Runner, RunnerInv(r), OpStep(r)
    PROVE  /\ WorldTypeOK'
           /\ todo' \in [Runner -> SUBSET Pod]
           /\ UNCHANGED <<target, kname, opts, cancelled>>
<1>a. WorldTypeOK /\ todo \in [Runner -> SUBSET Pod]
  BY DEF Typed
<1>b. pc[r] \in OpPC => running[kname[r]] \in SUBSET Pod
  BY WorldAssumption DEF Typed, WorldTypeOK, RunnerInv, NameInv, K
<1> USE <1>a, <1>b DEF Frame, world, hardware, kube, WorldTypeOK
<1>1. CASE Cordon(r) BY ZenonT(60), <1>1 DEF Cordon
<1>2. CASE DrainList(r) BY <1>2 DEF DrainList, OpPC, DrainPC
<1>3. CASE DrainEvict(r)
  <2>1. PICK p \in todo[r] \cap running[kname[r]] :
          /\ running' = [running EXCEPT ![kname[r]] = @ \ {p}]
          /\ terminating' = [terminating EXCEPT ![kname[r]] = @ \cup {p}]
    BY ZenonT(60), <1>3 DEF DrainEvict
  <2>2. running' \in [KubeNode -> SUBSET Pod] /\ terminating' \in [KubeNode -> SUBSET Pod]
    BY ZenonT(60), <2>1
  <2> QED BY <1>3, <2>2 DEF DrainEvict
<1>4. CASE DrainWait(r) BY <1>4 DEF DrainWait
<1>5. CASE WaitDetached(r) BY <1>5 DEF WaitDetached
<1>6. CASE TalosShutdown(r) BY <1>6 DEF TalosShutdown
<1>7. CASE WaitPowerOff(r) BY <1>7 DEF WaitPowerOff
<1>8. CASE HardOff(r) BY <1>8 DEF HardOff
<1>9. CASE WaitPowerOffAfterHardOff(r) BY <1>9 DEF WaitPowerOffAfterHardOff
<1>10. CASE ReadPower(r) BY <1>10 DEF ReadPower
<1>11. CASE BMCPowerOn(r) BY <1>11 DEF BMCPowerOn
<1>12. CASE WaitTalosReachable(r) BY <1>12 DEF WaitTalosReachable
<1>13. CASE WaitNodeReady(r) BY <1>13 DEF WaitNodeReady
<1>14. CASE WaitGPURegistered(r) BY <1>14 DEF WaitGPURegistered
<1>15. CASE Uncordon(r) BY ZenonT(60), <1>15 DEF Uncordon
<1> QED BY ZenonT(60), <1>1, <1>2, <1>3, <1>4, <1>5, <1>6, <1>7, <1>8, <1>9,
       <1>10, <1>11, <1>12, <1>13, <1>14, <1>15 DEF OpStep, DrainStep, WakeStep

(* A lifecycle step stays within its footprint. *)
LEMMA OpLocal ==
    ASSUME NEW P, Typed(P), NEW r \in Runner, RunnerInv(r), OpStep(r)
    PROVE  Local(r)
<1> DEFINE Near ==
      /\ UNCHANGED <<target, kname>>
      /\ \A s \in Runner \ {r} : todo'[s] = todo[s]
      /\ \A n \in Node \ {target[r]} : power'[n] = power[n] /\ os'[n] = os[n] /\ sessions'[n] = sessions[n]
      /\ \A k \in KubeNode \ {kname[r]} : cordoned'[k] = cordoned[k] /\ running'[k] = running[k]
<1> SUFFICES Near BY OpMoves DEF Local
<1>a. WorldTypeOK /\ todo \in [Runner -> SUBSET Pod]
  BY DEF Typed
<1> USE <1>a DEF Frame, world, hardware, kube, WorldTypeOK
<1>1. CASE Cordon(r) BY <1>1 DEF Cordon
<1>2. CASE DrainList(r) BY <1>2 DEF DrainList
<1>3. CASE DrainEvict(r) BY <1>3 DEF DrainEvict
<1>4. CASE DrainWait(r) BY <1>4 DEF DrainWait
<1>5. CASE WaitDetached(r) BY <1>5 DEF WaitDetached
<1>6. CASE TalosShutdown(r) BY <1>6 DEF TalosShutdown
<1>7. CASE WaitPowerOff(r) BY <1>7 DEF WaitPowerOff
<1>8. CASE HardOff(r) BY <1>8 DEF HardOff
<1>9. CASE WaitPowerOffAfterHardOff(r) BY <1>9 DEF WaitPowerOffAfterHardOff
<1>10. CASE ReadPower(r) BY <1>10 DEF ReadPower
<1>11. CASE BMCPowerOn(r) BY <1>11 DEF BMCPowerOn
<1>12. CASE WaitTalosReachable(r) BY <1>12 DEF WaitTalosReachable
<1>13. CASE WaitNodeReady(r) BY <1>13 DEF WaitNodeReady
<1>14. CASE WaitGPURegistered(r) BY <1>14 DEF WaitGPURegistered
<1>15. CASE Uncordon(r) BY ZenonT(60), <1>15 DEF Uncordon
<1> QED BY ZenonT(60), <1>1, <1>2, <1>3, <1>4, <1>5, <1>6, <1>7, <1>8, <1>9,
       <1>10, <1>11, <1>12, <1>13, <1>14, <1>15 DEF OpStep, DrainStep, WakeStep

(* Every lifecycle call and wait, DrainShutdown's and PowerOn's, preserves  *)
(* what its own runner relies on.                                           *)
LEMMA OpSelf ==
    ASSUME NEW P, Typed(P), NEW r \in Runner, RunnerInv(r), OpStep(r)
    PROVE  RunnerInv(r)'
<1> USE WorldAssumption, LifecycleAssumption
<1>a. WorldTypeOK /\ RunnerInv(r) /\ pc \in [Runner -> P]
      /\ todo \in [Runner -> SUBSET Pod]
  BY DEF Typed
<1>b. pc[r] \in OpPC => kname[r] \in KubeNode /\ target[r] \in Node
  BY <1>a DEF RunnerInv, NameInv, K
<1>c. NameInv(r)'
  BY <1>a, OpLocal DEF Local, RunnerInv, NameInv, OpPC, DrainPC, WakePC, DonePC
<1> SUFFICES StepInv(r)' /\ WorldInv(r)' BY ZenonT(60), <1>c DEF RunnerInv
<1> USE <1>a, <1>b DEF OpPC, DrainPC, WakePC, DonePC, PastCordon, PastDrain, PastGate, PastStop, PastPowerOn,
        RunnerInv, Pass, Fail, Goto, Frame, hardware, kube, world
<1>1. CASE Cordon(r)
  <2>1. \/ pc'[r] = "drain" /\ steps'[r] # << >> /\ steps'[r][1] = CordonDone /\ cordoned'[kname[r]]
        \/ pc'[r] = "err" /\ steps'[r] # << >> /\ steps'[r][1] # CordonDone
    BY ZenonT(60), <1>1, HeadOther, HeadCordon DEF Cordon, Reply, WorldTypeOK
  <2>2. pc[r] = "cordon" /\ UNCHANGED <<target, kname>>
    BY ZenonT(60), <1>1 DEF Cordon
  <2> QED BY <2>1, <2>2 DEF StepInv, WorldInv
<1>2. CASE DrainList(r)
  <2>1. /\ steps'[r] # << >> /\ steps'[r][1] = steps[r][1]
        /\ UNCHANGED cordoned
        /\ \/ pc'[r] = "drain-wait" /\ running'[kname[r]] \subseteq todo'[r]
           \/ pc'[r] = "err"
    BY ZenonT(60), <1>2, HeadKept DEF DrainList, StepInv, WorldTypeOK
  <2>2. pc[r] = "drain" /\ UNCHANGED <<target, kname>>
    BY <1>2 DEF DrainList
  <2> QED BY <2>1, <2>2 DEF StepInv, WorldInv
<1>3. CASE DrainEvict(r)
  <2>1. /\ steps'[r] # << >> /\ steps'[r][1] = steps[r][1]
        /\ UNCHANGED <<cordoned, pc, todo>>
        /\ running'[kname[r]] \subseteq running[kname[r]]
    <3>1. /\ pc[r] = "drain-wait" /\ UNCHANGED <<cordoned, pc, todo, steps>>
          /\ \E p \in todo[r] \cap running[kname[r]] :
                running' = [running EXCEPT ![kname[r]] = @ \ {p}]
      BY ZenonT(60), <1>3 DEF DrainEvict
    <3>2. steps[r] # << >> BY ZenonT(60), <3>1 DEF StepInv
    <3>3. running'[kname[r]] \subseteq running[kname[r]]
      <4>1. PICK p \in todo[r] \cap running[kname[r]] : running' = [running EXCEPT ![kname[r]] = @ \ {p}]
        BY ZenonT(60), <3>1
      <4>2. running \in [KubeNode -> SUBSET Pod] BY DEF WorldTypeOK
      <4>3. kname[r] \in KubeNode BY ZenonT(60), <3>1
      <4>4. running'[kname[r]] = running[kname[r]] \ {p} BY ZenonT(60), <4>1, <4>2, <4>3
      <4>5. QED BY ZenonT(60), <4>4
    <3> QED BY ZenonT(60), <3>1, <3>2, <3>3
  <2>2. pc[r] = "drain-wait" /\ UNCHANGED <<target, kname>>
    BY ZenonT(60), <1>3 DEF DrainEvict
  <2> QED BY ZenonT(60), <2>1, <2>2 DEF StepInv, WorldInv
<1>4. CASE DrainWait(r)
  <2>1. /\ steps'[r] # << >> /\ steps'[r][1] = steps[r][1]
        /\ UNCHANGED cordoned
        /\ \/ pc'[r] = "storage-gate" /\ running'[kname[r]] = {}
           \/ pc'[r] = "err"
    BY ZenonT(60), <1>4, HeadKept DEF DrainWait, WorldInv, WorldTypeOK
  <2>2. pc[r] = "drain-wait" /\ UNCHANGED <<target, kname>>
    BY ZenonT(60), <1>4 DEF DrainWait
  <2> QED BY <2>1, <2>2 DEF StepInv, WorldInv
<1>5. CASE WaitDetached(r)
  <2>1. /\ steps'[r] # << >> /\ steps'[r][1] = steps[r][1]
        /\ UNCHANGED <<cordoned, running>>
        /\ \/ pc'[r] = "talos-shutdown" /\ (StorageGate => sessions'[target[r]] = {})
           \/ pc'[r] = "err"
    BY ZenonT(60), <1>5, HeadKept DEF WaitDetached, TableClear, WorldTypeOK
  <2>2. pc[r] = "storage-gate" /\ UNCHANGED <<target, kname>>
    BY ZenonT(60), <1>5 DEF WaitDetached
  <2> QED BY <2>1, <2>2 DEF StepInv, WorldInv
<1>6. CASE TalosShutdown(r)
  <2>1. /\ steps'[r] # << >> /\ steps'[r][1] = steps[r][1]
        /\ UNCHANGED <<cordoned, running, sessions>>
        /\ \/ pc'[r] = "wait-power-off" /\ os'[target[r]] = "stopping"
           \/ pc'[r] = "err"
    BY ZenonT(60), <1>6, HeadKept DEF TalosShutdown, Reply, WorldTypeOK
  <2>2. pc[r] = "talos-shutdown" /\ UNCHANGED <<target, kname>>
    BY ZenonT(60), <1>6 DEF TalosShutdown
  <2> QED BY ZenonT(60), <2>1, <2>2 DEF StepInv, WorldInv
<1>7. CASE WaitPowerOff(r)
  <2>1. /\ steps'[r] # << >> /\ steps'[r][1] = steps[r][1]
        /\ UNCHANGED <<cordoned, running, sessions, power, os>>
        /\ \/ pc'[r] = "slept" /\ power'[target[r]] = "off"
           \/ pc'[r] \in {"bmc-hard-off", "err"}
    BY ZenonT(60), <1>7, HeadKept DEF WaitPowerOff, WorldTypeOK
  <2>2. pc[r] = "wait-power-off" /\ UNCHANGED <<target, kname>>
    BY <1>7 DEF WaitPowerOff
  <2> QED BY ZenonT(60), <2>1, <2>2 DEF StepInv, WorldInv
<1>8. CASE HardOff(r)
  <2>1. \/ Pass(r, "bmc-hard-off", "wait-power-off-after-hardoff")
        \/ Fail(r, "bmc-hard-off")
    BY ZenonT(60), <1>8 DEF HardOff, Reply
  <2>2. pc[r] = "bmc-hard-off" /\ UNCHANGED <<target, kname, cordoned, running, sessions>>
    BY ZenonT(60), <1>8 DEF HardOff
  <2>3. /\ steps'[r] # << >> /\ steps'[r][1] = steps[r][1]
        /\ pc'[r] \in {"wait-power-off-after-hardoff", "err"}
    BY ZenonT(60), <2>1, <2>2, HeadKept
  <2>4. pc'[r] = "wait-power-off-after-hardoff" => power'[target[r]] = "off"
    BY ZenonT(60), <1>8 DEF HardOff, WorldTypeOK
  <2> QED BY ZenonT(60), <2>2, <2>3, <2>4 DEF StepInv, WorldInv
<1>9. CASE WaitPowerOffAfterHardOff(r)
  <2>1. /\ steps'[r] # << >> /\ steps'[r][1] = steps[r][1]
        /\ UNCHANGED cordoned
        /\ \/ pc'[r] = "slept" /\ power'[target[r]] = "off"
           \/ pc'[r] = "err"
    BY ZenonT(60), <1>9, HeadKept DEF WaitPowerOffAfterHardOff, WorldTypeOK
  <2>2. pc[r] = "wait-power-off-after-hardoff" /\ UNCHANGED <<target, kname>>
    BY <1>9 DEF WaitPowerOffAfterHardOff
  <2> QED BY ZenonT(60), <2>1, <2>2 DEF StepInv, WorldInv
<1>10. CASE ReadPower(r)
  <2>1. \/ /\ pc'[r] = "wait-talos-reachable"
           /\ steps'[r] # << >> /\ steps'[r][1] # CordonDone /\ steps'[r][1].name = "bmc-power-on"
        \/ pc'[r] = "bmc-power-on" /\ UNCHANGED steps /\ steps[r] = << >>
    BY ZenonT(60), <1>10, HeadPowerOn DEF ReadPower, StepInv, WorldTypeOK
  <2>2. pc[r] = "read-power" /\ UNCHANGED <<target, kname>>
    BY ZenonT(60), <1>10 DEF ReadPower
  <2> QED BY <2>1, <2>2 DEF StepInv, WorldInv
<1>11. CASE BMCPowerOn(r)
  <2>1. /\ steps'[r] # << >> /\ steps'[r][1] # CordonDone /\ steps'[r][1].name = "bmc-power-on"
        /\ pc'[r] \in {"wait-talos-reachable", "err"}
    BY ZenonT(60), <1>11, HeadPowerOn DEF BMCPowerOn, Reply, WorldTypeOK
  <2>2. pc[r] = "bmc-power-on" /\ UNCHANGED <<target, kname>>
    BY ZenonT(60), <1>11 DEF BMCPowerOn
  <2> QED BY ZenonT(60), <2>1, <2>2 DEF StepInv, WorldInv
<1>12. CASE WaitTalosReachable(r)
  <2>1. /\ steps'[r] # << >> /\ steps'[r][1] = steps[r][1]
        /\ pc'[r] \in {"wait-node-ready", "err"}
    BY ZenonT(60), <1>12, HeadKept DEF WaitTalosReachable, WorldTypeOK
  <2>2. pc[r] = "wait-talos-reachable" /\ UNCHANGED <<target, kname>>
    BY ZenonT(60), <1>12 DEF WaitTalosReachable
  <2> QED BY ZenonT(60), <2>1, <2>2 DEF StepInv, WorldInv
<1>13. CASE WaitNodeReady(r)
  <2>1. /\ steps'[r] # << >> /\ steps'[r][1] = steps[r][1]
        /\ pc'[r] \in {"wait-gpu-registered", "err"}
    BY ZenonT(60), <1>13, HeadKept DEF WaitNodeReady, WorldTypeOK
  <2>2. pc[r] = "wait-node-ready" /\ UNCHANGED <<target, kname>>
    BY ZenonT(60), <1>13 DEF WaitNodeReady
  <2> QED BY ZenonT(60), <2>1, <2>2 DEF StepInv, WorldInv
<1>14. CASE WaitGPURegistered(r)
  <2>1. /\ steps'[r] # << >> /\ steps'[r][1] = steps[r][1]
        /\ pc'[r] \in {"uncordon", "err"}
    BY ZenonT(60), <1>14, HeadKept DEF WaitGPURegistered, WorldTypeOK
  <2>2. pc[r] = "wait-gpu-registered" /\ UNCHANGED <<target, kname>>
    BY ZenonT(60), <1>14 DEF WaitGPURegistered
  <2> QED BY ZenonT(60), <2>1, <2>2 DEF StepInv, WorldInv
<1>15. CASE Uncordon(r)
  <2>1. /\ steps'[r] # << >> /\ steps'[r][1] = steps[r][1]
        /\ \/ pc'[r] = "woken" /\ ~cordoned'[kname[r]]
           \/ pc'[r] = "err"
    BY ZenonT(60), <1>15, HeadKept DEF Uncordon, Reply, WorldTypeOK
  <2>2. pc[r] = "uncordon" /\ UNCHANGED <<target, kname>>
    BY ZenonT(60), <1>15 DEF Uncordon
  <2> QED BY ZenonT(60), <2>1, <2>2 DEF StepInv, WorldInv
<1> QED BY <1>1, <1>2, <1>3, <1>4, <1>5, <1>6, <1>7, <1>8, <1>9,
       <1>10, <1>11, <1>12, <1>13, <1>14, <1>15 DEF OpStep, DrainStep, WakeStep

-----------------------------------------------------------------------------
(* A lifecycle step of r leaves alone what another runner s relies on, when *)
(* the front-end keeps the machines of the two apart: the actuator lock of  *)
(* the HTTP server, the work queue of the controller.                       *)
LEMMA OthersKept ==
    ASSUME NEW r \in Runner, NEW s \in Runner \ {r}, Local(r), RunnerInv(r), RunnerInv(s),
           pc[s] \in OpPC \cup DonePC => target[s] # target[r]
    PROVE  RunnerInv(s)'
<1>1. /\ pc'[s] = pc[s] /\ todo'[s] = todo[s] /\ steps'[s] = steps[s]
      /\ target'[s] = target[s] /\ kname'[s] = kname[s]
  BY DEF Local
<1>3. NameInv(s)' /\ StepInv(s)'
  BY ZenonT(60), <1>1 DEF RunnerInv, NameInv, StepInv
<1>4. CASE pc[s] \notin OpPC \cup DonePC
  BY ZenonT(60), <1>1, <1>3, <1>4
     DEF RunnerInv, WorldInv, OpPC, DrainPC, WakePC, DonePC, PastCordon, PastDrain, PastGate, PastStop
<1>5. CASE pc[s] \in OpPC \cup DonePC /\ target[s] \in Node /\ kname[s] = K(target[s])
  <2>1. target[s] # target[r]
    BY <1>5
  <2>2. target[r] \in Node /\ kname[r] = K(target[r])
    BY ZenonT(60) DEF RunnerInv, NameInv, Local
  <2>3. kname[s] \in KubeNode /\ kname[s] # kname[r]
    BY <1>5, <2>1, <2>2, WorldAssumption DEF K
  <2>4. /\ cordoned'[kname[s]] = cordoned[kname[s]] /\ running'[kname[s]] = running[kname[s]]
        /\ power'[target[s]] = power[target[s]] /\ os'[target[s]] = os[target[s]]
        /\ sessions'[target[s]] = sessions[target[s]]
    BY <1>5, <2>1, <2>3 DEF Local
  <2>5. QED BY ZenonT(60), <1>1, <1>3, <2>4 DEF RunnerInv, WorldInv
<1>6. CASE pc[s] \in OpPC \cup DonePC /\ ~(target[s] \in Node /\ kname[s] = K(target[s]))
  <2>1. pc[s] = "err" /\ steps[s] = << >>
    BY <1>6 DEF RunnerInv, NameInv, OpPC, DrainPC, WakePC, DonePC
  <2>2. QED BY <1>1, <1>3, <2>1
            DEF RunnerInv, WorldInv, OpPC, DrainPC, WakePC, DonePC, PastCordon, PastDrain, PastGate, PastStop
<1>7. QED BY <1>4, <1>5, <1>6

(* A drain turns nothing on and ends slept or failed; a wake cordons and    *)
(* stops nothing and ends woken or failed.                                  *)
LEMMA OpKind ==
    ASSUME NEW P, Typed(P), NEW r \in Runner, OpStep(r)
    PROVE  \/ /\ pc[r] \in DrainPC /\ pc'[r] \in DrainPC \cup {"slept", "err"}
              /\ \A n \in Node : power[n] = "off" => power'[n] = "off"
           \/ /\ pc[r] \in WakePC /\ pc'[r] \in WakePC \cup {"woken", "err"}
              /\ os' = os
              /\ \A k \in KubeNode : cordoned'[k] => cordoned[k]
<1>a. WorldTypeOK /\ pc \in [Runner -> P] BY DEF Typed
<1>b. ASSUME NEW x, Goto(r, x) PROVE pc'[r] = x BY <1>a, <1>b DEF Goto
<1>1. CASE DrainStep(r)
  <2>1. pc[r] \in DrainPC
    BY ZenonT(60), <1>1 DEF DrainStep, Cordon, DrainList, DrainEvict, DrainWait, WaitDetached, TalosShutdown,
       WaitPowerOff, HardOff, WaitPowerOffAfterHardOff, DrainPC
  <2>2. pc'[r] \in DrainPC \cup {"slept", "err"}
    <3> USE <1>b, <2>1 DEF Pass, Fail, Reply, DrainPC
    <3>1. CASE Cordon(r) BY ZenonT(60), <3>1 DEF Cordon
    <3>2. CASE DrainList(r) BY ZenonT(60), <3>2 DEF DrainList
    <3>3. CASE DrainEvict(r) BY ZenonT(60), <3>3 DEF DrainEvict
    <3>4. CASE DrainWait(r) BY ZenonT(60), <3>4 DEF DrainWait
    <3>5. CASE WaitDetached(r) BY ZenonT(60), <3>5 DEF WaitDetached
    <3>6. CASE TalosShutdown(r) BY ZenonT(60), <3>6 DEF TalosShutdown
    <3>7. CASE WaitPowerOff(r) BY ZenonT(60), <3>7 DEF WaitPowerOff
    <3>8. CASE HardOff(r) BY ZenonT(60), <3>8 DEF HardOff
    <3>9. CASE WaitPowerOffAfterHardOff(r) BY ZenonT(60), <3>9 DEF WaitPowerOffAfterHardOff
    <3>10. QED BY <1>1, <3>1, <3>2, <3>3, <3>4, <3>5, <3>6, <3>7, <3>8, <3>9 DEF DrainStep
  <2>3. \A n \in Node : power[n] = "off" => power'[n] = "off"
    <3>1. CASE HardOff(r) BY <1>a, <3>1 DEF HardOff, WorldTypeOK
    <3>2. CASE ~HardOff(r)
      <4>1. UNCHANGED power
        BY ZenonT(60), <1>1, <3>2 DEF DrainStep, Cordon, DrainList, DrainEvict, DrainWait, WaitDetached,
           TalosShutdown, WaitPowerOff, WaitPowerOffAfterHardOff, world, hardware
      <4>2. QED BY <4>1
    <3>3. QED BY <3>1, <3>2
  <2>4. QED BY <2>1, <2>2, <2>3
<1>2. CASE WakeStep(r)
  <2>1. pc[r] \in WakePC /\ os' = os
    BY ZenonT(60), <1>2 DEF WakeStep, ReadPower, BMCPowerOn, WaitTalosReachable, WaitNodeReady,
       WaitGPURegistered, Uncordon, WakePC, hardware
  <2>2. pc'[r] \in WakePC \cup {"woken", "err"}
    <3> USE <1>b, <2>1 DEF Pass, Fail, Reply, WakePC
    <3>1. CASE ReadPower(r) BY ZenonT(60), <3>1 DEF ReadPower
    <3>2. CASE BMCPowerOn(r) BY ZenonT(60), <3>2 DEF BMCPowerOn
    <3>3. CASE WaitTalosReachable(r) BY ZenonT(60), <3>3 DEF WaitTalosReachable
    <3>4. CASE WaitNodeReady(r) BY ZenonT(60), <3>4 DEF WaitNodeReady
    <3>5. CASE WaitGPURegistered(r) BY ZenonT(60), <3>5 DEF WaitGPURegistered
    <3>6. CASE Uncordon(r) BY ZenonT(60), <3>6 DEF Uncordon
    <3>7. QED BY <1>2, <3>1, <3>2, <3>3, <3>4, <3>5, <3>6 DEF WakeStep
  <2>3. \A k \in KubeNode : cordoned'[k] => cordoned[k]
    <3>1. CASE Uncordon(r) BY <1>a, <3>1 DEF Uncordon, WorldTypeOK
    <3>2. CASE ~Uncordon(r)
      <4>1. UNCHANGED cordoned
        BY ZenonT(60), <1>2, <3>2 DEF WakeStep, ReadPower, BMCPowerOn, WaitTalosReachable, WaitNodeReady,
           WaitGPURegistered, kube
      <4>2. QED BY <4>1
    <3>3. QED BY <3>1, <3>2
  <2>4. QED BY <2>1, <2>2, <2>3
<1>3. QED BY <1>1, <1>2 DEF OpStep

(* No call gives an operating system to a machine without power. *)
LEMMA OpPower ==
    ASSUME WorldTypeOK, PowerOS, NEW r \in Runner, OpStep(r)
    PROVE  PowerOS'
<1> USE DEF PowerOS, WorldTypeOK, world, hardware
<1>1. CASE HardOff(r) BY <1>1 DEF HardOff
<1>2. CASE TalosShutdown(r) BY <1>2 DEF TalosShutdown
<1>3. CASE BMCPowerOn(r) BY <1>3 DEF BMCPowerOn
<1>4. CASE ~(HardOff(r) \/ TalosShutdown(r) \/ BMCPowerOn(r))
  <2>1. UNCHANGED <<power, os>>
    BY ZenonT(60), <1>4 DEF OpStep, DrainStep, WakeStep, Cordon, DrainList, DrainEvict, DrainWait,
       WaitDetached, WaitPowerOff, WaitPowerOffAfterHardOff, ReadPower, WaitTalosReachable,
       WaitNodeReady, WaitGPURegistered, Uncordon
  <2>2. QED BY <2>1
<1>5. QED BY <1>1, <1>2, <1>3, <1>4

(* What a step of the world can do to a machine: nothing is scheduled on a  *)
(* cordoned node, no session appears without a pod, no power comes back.    *)
LEMMA WorldEffect ==
    ASSUME WorldTypeOK, PowerOS, WorldNext
    PROVE  /\ WorldTypeOK'
           /\ PowerOS'
           /\ UNCHANGED cordoned
           /\ \A n \in Node :
                 /\ cordoned[K(n)] => running'[K(n)] \subseteq running[K(n)]
                 /\ running[K(n)] = {} => sessions'[n] \subseteq sessions[n]
                 /\ power[n] = "off" => power'[n] = "off"
                 /\ os[n] = "stopping" => power'[n] = "off" \/ os'[n] = "stopping"
<1> USE WorldAssumption DEF WorldTypeOK, hardware, kube, K
<1>1. CASE Stabilize BY ZenonT(60), <1>1 DEF Stabilize, PowerOS
<1>2. ASSUME NEW n \in Node, MachineNext(n)
      PROVE  /\ WorldTypeOK' /\ UNCHANGED <<cordoned, running, sessions>>
             /\ PowerOS'
             /\ \A m \in Node : /\ power[m] = "off" => power'[m] = "off"
                                /\ os[m] = "stopping" => power'[m] = "off" \/ os'[m] = "stopping"
  <2>1. CASE Boot(n) BY ZenonT(60), <2>1 DEF Boot, PowerOS
  <2>2. CASE Join(n) BY ZenonT(60), <2>2 DEF Join, PowerOS
  <2>3. CASE RegisterGPU(n) BY ZenonT(60), <2>3 DEF RegisterGPU, PowerOS
  <2>4. CASE LoseReady(n) BY ZenonT(60), <2>4 DEF LoseReady, PowerOS
  <2>5. CASE PowerDown(n) BY ZenonT(60), <2>5 DEF PowerDown, PowerOS
  <2>6. CASE Crash(n) BY ZenonT(60), <2>6 DEF Crash, PowerOS
  <2>7. QED BY <1>2, <2>1, <2>2, <2>3, <2>4, <2>5, <2>6 DEF MachineNext
<1>3. ASSUME NEW n \in Node, NEW p \in Pod, PodNext(n, p)
      PROVE  /\ WorldTypeOK' /\ UNCHANGED <<cordoned, power, os>>
             /\ \A m \in Node :
                   /\ cordoned[K(m)] => running'[K(m)] \subseteq running[K(m)]
                   /\ running[K(m)] = {} => sessions'[m] \subseteq sessions[m]
  <2>1. CASE Bind(n, p) BY <2>1 DEF Bind
  <2>2. CASE Attach(n, p) BY <2>2 DEF Attach
  <2>3. CASE Delete(n, p) BY <2>3 DEF Delete
  <2>4. CASE KillPod(n, p) BY <2>4 DEF KillPod
  <2>5. CASE Logout(n, p) BY <2>5 DEF Logout
  <2>6. QED BY <1>3, <2>1, <2>2, <2>3, <2>4, <2>5 DEF PodNext
<1>4. QED BY ZenonT(60), <1>1, <1>2, <1>3 DEF WorldNext, Environment, PowerOS

(* No step of a machine, a pod or a session breaks what a runner relies on. *)
LEMMA WorldKeeps ==
    ASSUME WorldTypeOK, PowerOS, NEW r \in Runner, RunnerInv(r), WorldNext, UNCHANGED opvars
    PROVE  RunnerInv(r)'
<1>2. NameInv(r)' /\ StepInv(r)' BY ZenonT(60) DEF RunnerInv, NameInv, StepInv, opvars
<1>3. pc[r] \in PastCordon \cup {"slept"} => target[r] \in Node /\ kname[r] = K(target[r])
  BY ZenonT(60) DEF RunnerInv, NameInv, PastCordon, OpPC, DrainPC, WakePC, DonePC
<1>4. WorldInv(r)'
  BY ZenonT(60), <1>3, WorldEffect
     DEF RunnerInv, WorldInv, opvars, PastCordon, PastDrain, PastGate, PastStop, OpPC, DrainPC, WakePC, DonePC
<1>5. QED BY <1>2, <1>4 DEF RunnerInv

(* An operation that begins, or fails before its first phase, relies on     *)
(* nothing but its names.                                                   *)
LEMMA Starts ==
    ASSUME NEW r \in Runner, steps'[r] = << >>,
           \/ pc'[r] \notin OpPC \cup DonePC
           \/ pc'[r] = "err"
           \/ /\ pc'[r] \in {"cordon", "read-power"}
              /\ target'[r] \in Node /\ kname'[r] = K(target'[r])
    PROVE  RunnerInv(r)'
BY ZenonT(60) DEF RunnerInv, NameInv, StepInv, WorldInv, OpPC, DrainPC, WakePC, DonePC,
   PastCordon, PastDrain, PastGate, PastStop, PastPowerOn

(* A step that touches neither the world nor r leaves r what it relies on. *)
LEMMA Untouched ==
    ASSUME NEW r \in Runner, RunnerInv(r), UNCHANGED world,
           pc'[r] = pc[r], target'[r] = target[r], kname'[r] = kname[r],
           todo'[r] = todo[r], steps'[r] = steps[r]
    PROVE  RunnerInv(r)'
BY ZenonT(60) DEF RunnerInv, NameInv, StepInv, WorldInv, world, hardware, kube

-----------------------------------------------------------------------------
(* What a step may do to a machine. *)

(* Only a hard-off takes power away, only talos-shutdown makes an OS stop,  *)
(* and both come late enough in a drain to be safe.                         *)
LEMMA OpSafe ==
    ASSUME WorldTypeOK, NEW r \in Runner, RunnerInv(r), OpStep(r), NEW n \in Node
    PROVE  /\ StorageGate /\ power[n] = "on" /\ power'[n] = "off" => sessions[n] = {}
           /\ os[n] # "stopping" /\ os'[n] = "stopping"
                => /\ cordoned[K(n)] /\ running[K(n)] = {}
                   /\ StorageGate => sessions[n] = {}
<1>1. CASE HardOff(r)
  <2>1. /\ power'[n] # power[n] => n = target[r]
        /\ os'[n] = "stopping" => os[n] = "stopping"
    BY <1>1 DEF HardOff, WorldTypeOK
  <2>2. StorageGate => sessions[target[r]] = {}
    BY ZenonT(60), <1>1 DEF HardOff, RunnerInv, WorldInv, PastGate, PastDrain, PastCordon, DrainPC
  <2>3. QED BY <2>1, <2>2
<1>2. CASE TalosShutdown(r)
  <2>1. power' = power /\ (os'[n] # os[n] => n = target[r])
    BY <1>2 DEF TalosShutdown, WorldTypeOK
  <2>2. pc[r] = "talos-shutdown" BY <1>2 DEF TalosShutdown
  <2>3. /\ cordoned[K(target[r])] /\ running[K(target[r])] = {}
        /\ StorageGate => sessions[target[r]] = {}
    BY ZenonT(60), <2>2 DEF RunnerInv, NameInv, WorldInv, PastGate, PastDrain, PastCordon, OpPC, DrainPC
  <2>4. QED BY <2>1, <2>3
<1>3. CASE BMCPowerOn(r)
  BY ZenonT(60), <1>3 DEF BMCPowerOn, WorldTypeOK
<1>4. CASE ~(HardOff(r) \/ TalosShutdown(r) \/ BMCPowerOn(r))
  <2>1. UNCHANGED <<power, os>>
    BY ZenonT(60), <1>4 DEF OpStep, DrainStep, WakeStep, Cordon, DrainList, DrainEvict, DrainWait,
       WaitDetached, WaitPowerOff, WaitPowerOffAfterHardOff, ReadPower, WaitTalosReachable,
       WaitNodeReady, WaitGPURegistered, Uncordon, world, hardware
  <2>2. QED BY <2>1
<1>5. QED BY <1>1, <1>2, <1>3, <1>4

(* The world makes no OS stop, and a graceful power-off waits for the       *)
(* sessions.                                                                *)
LEMMA WorldSafe ==
    ASSUME WorldTypeOK, WorldNext, NEW n \in Node
    PROVE  /\ power[n] = "on" /\ power'[n] = "off" /\ ~Crash(n) => sessions[n] = {}
           /\ os'[n] = "stopping" => os[n] = "stopping"
<1> USE DEF WorldTypeOK, hardware
<1>1. ASSUME NEW m \in Node, MachineNext(m)
      PROVE  /\ power[n] = "on" /\ power'[n] = "off" => Crash(n) \/ PowerDown(n)
             /\ os'[n] = "stopping" => os[n] = "stopping"
  <2>1. CASE m = n
    BY <1>1, <2>1 DEF MachineNext, Boot, Join, RegisterGPU, LoseReady, PowerDown, Crash
  <2>2. CASE m # n
    BY <1>1, <2>2 DEF MachineNext, Boot, Join, RegisterGPU, LoseReady, PowerDown, Crash
  <2>3. QED BY <2>1, <2>2
<1>2. ASSUME NEW m \in Node, NEW p \in Pod, PodNext(m, p)
      PROVE  UNCHANGED <<power, os>>
  BY <1>2 DEF PodNext, Bind, Attach, Delete, KillPod, Logout
<1>3. Stabilize => UNCHANGED <<power, os>> BY DEF Stabilize
<1>4. PowerDown(n) => sessions[n] = {} BY DEF PowerDown
<1>5. QED BY ZenonT(60), <1>1, <1>2, <1>3, <1>4 DEF WorldNext, Environment

-----------------------------------------------------------------------------
(* The contract. *)

(* A machine seen through the mapping: off, told to stop, or up. *)
LEMMA ModeChange ==
    ASSUME NEW n \in Node, NEW m, Mode(n)' = m, \A x \in Node \ {n} : Mode(x)' = Mode(x)
    PROVE  [x \in Node |-> Mode(x)]' = [[x \in Node |-> Mode(x)] EXCEPT ![n] = m]
BY ZenonT(60)

(* A change of power and OS of one machine alone. *)
LEMMA ModeOthers ==
    ASSUME NEW n \in Node, \A x \in Node \ {n} : power'[x] = power[x] /\ os'[x] = os[x]
    PROVE  \A x \in Node \ {n} : Mode(x)' = Mode(x)
BY DEF Mode

(* Steps that leave cordons, pods, sessions, power and the OS alone. *)
LEMMA ContractStutter ==
    ASSUME UNCHANGED <<cordoned, running, sessions, power, os>>
    PROVE  UNCHANGED Contract!vars
BY DEF Contract!vars, Mode

(* What only changes how a machine runs is a step of its mode. *)
LEMMA ContractMode ==
    ASSUME NEW n \in Node, UNCHANGED <<cordoned, running, sessions>>,
           \A x \in Node \ {n} : power'[x] = power[x] /\ os'[x] = os[x]
    PROVE  /\ Mode(n)' = Mode(n) => UNCHANGED Contract!vars
           /\ \A m : Mode(n)' = m => Contract!Become(n, m)
<1>1. \A x \in Node \ {n} : Mode(x)' = Mode(x) BY ModeOthers
<1>2. \A m : Mode(n)' = m =>
         [x \in Node |-> Mode(x)]' = [[x \in Node |-> Mode(x)] EXCEPT ![n] = m]
  BY <1>1, ModeChange
<1>3. ASSUME Mode(n)' = Mode(n) PROVE UNCHANGED Contract!vars
  <2>1. \A x \in Node : Mode(x)' = Mode(x) BY <1>1, <1>3
  <2>2. [x \in Node |-> Mode(x)]' = [x \in Node |-> Mode(x)] BY <2>1
  <2>3. QED BY <2>2 DEF Contract!vars
<1>4. QED BY <1>2, <1>3 DEF Contract!Become

(* Every machine starts in service, as the contract has it. *)
LEMMA ContractInit == WorldInit => Contract!Init
BY ZenonT(60), WorldAssumption DEF WorldInit, Contract!Init, Mode, K

(* Each phase of DrainShutdown and PowerOn is a step the contract allows. *)
LEMMA ContractOp ==
    ASSUME WorldTypeOK, PowerOS, NEW r \in Runner, RunnerInv(r), OpStep(r)
    PROVE  [Contract!Next]_Contract!vars
<1>0. PICK n \in Node : n = target[r] /\ kname[r] = K(n) /\ K(n) \in KubeNode
  <2>1. pc[r] \in OpPC
    BY ZenonT(60) DEF OpStep, DrainStep, WakeStep, Cordon, DrainList, DrainEvict, DrainWait, WaitDetached,
       TalosShutdown, WaitPowerOff, HardOff, WaitPowerOffAfterHardOff, ReadPower, BMCPowerOn,
       WaitTalosReachable, WaitNodeReady, WaitGPURegistered, Uncordon, OpPC, DrainPC, WakePC
  <2>2. QED BY <2>1, WorldAssumption DEF RunnerInv, NameInv, K
<1>1. ASSUME NEW b \in BOOLEAN, cordoned' = [cordoned EXCEPT ![K(n)] = b],
             UNCHANGED <<hardware, running>>
      PROVE  Contract!Open(n, ~b)
  <2>1. \A x \in Node \ {n} : cordoned'[K(x)] = cordoned[K(x)]
    BY <1>0, <1>1, WorldAssumption DEF K, WorldTypeOK
  <2>2. cordoned'[K(n)] = b BY <1>0, <1>1 DEF WorldTypeOK
  <2>3. [x \in Node |-> ~cordoned[K(x)]]' = [[x \in Node |-> ~cordoned[K(x)]] EXCEPT ![n] = ~b]
    BY ZenonT(60), <2>1, <2>2
  <2>4. UNCHANGED <<sessions, power, os>> BY <1>1 DEF hardware
  <2>5. [x \in Node |-> Mode(x)]' = [x \in Node |-> Mode(x)] BY <2>4 DEF Mode
  <2>6. QED BY <1>1, <2>3, <2>4, <2>5 DEF Contract!Open
<1>2. CASE Cordon(r) \/ Uncordon(r)
  <2>1. CASE UNCHANGED cordoned
    BY ZenonT(60), <1>2, <2>1, ContractStutter DEF Cordon, Uncordon, hardware
  <2>2. CASE cordoned' # cordoned
    <3>1. \E b \in BOOLEAN : Contract!Open(n, ~b)
      BY ZenonT(60), <1>0, <1>1, <1>2, <2>2 DEF Cordon, Uncordon
    <3>2. QED BY ZenonT(60), <1>0, <3>1 DEF Contract!Next
  <2>3. QED BY ZenonT(60), <2>1, <2>2
<1>3. CASE DrainEvict(r)
  <2>1. PICK p \in Pod : running' = [running EXCEPT ![K(n)] = @ \ {p}]
    BY ZenonT(60), <1>0, <1>3 DEF DrainEvict, WorldTypeOK
  <2>2. \A x \in Node \ {n} : running'[K(x)] = running[K(x)]
    BY <1>0, <2>1, WorldAssumption DEF K, WorldTypeOK
  <2>3. running'[K(n)] = running[K(n)] \ {p} BY <1>0, <2>1 DEF WorldTypeOK
  <2>4. UNCHANGED <<cordoned, sessions, power, os>> BY <1>3 DEF DrainEvict, hardware
  <2>5. [x \in Node |-> running[K(x)]]' = [[x \in Node |-> running[K(x)]] EXCEPT ![n] = @ \ {p}]
    BY ZenonT(60), <2>2, <2>3
  <2>6. [x \in Node |-> Mode(x)]' = [x \in Node |-> Mode(x)] BY <2>4 DEF Mode
  <2>7. Contract!Leave(n, p) BY <2>4, <2>5, <2>6 DEF Contract!Leave
  <2>8. QED BY ZenonT(60), <1>0, <2>7 DEF Contract!Next
<1>4. CASE TalosShutdown(r)
  <2>1. /\ UNCHANGED <<cordoned, running, sessions, power>>
        /\ os' = os \/ (os' = [os EXCEPT ![n] = "stopping"] /\ os[n] # "down")
    BY ZenonT(60), <1>0, <1>4 DEF TalosShutdown, kube
  <2>2. CASE os' = os BY <2>1, <2>2, ContractStutter
  <2>3. CASE os' = [os EXCEPT ![n] = "stopping"] /\ os[n] # "down"
    <3>1. \A x \in Node \ {n} : power'[x] = power[x] /\ os'[x] = os[x]
      BY <2>1, <2>3 DEF WorldTypeOK
    <3>2. Mode(n)' = "stopping" /\ Mode(n) \in {"up", "stopping"} /\ (Mode(n) = "up" => os[n] # "stopping")
      BY <1>0, <2>1, <2>3 DEF Mode, PowerOS, WorldTypeOK
    <3>3. CASE Mode(n) = "stopping" BY ZenonT(60), <1>0, <2>1, <3>1, <3>2, <3>3, ContractMode
    <3>4. CASE Mode(n) = "up"
      <4>1. Contract!Become(n, "stopping") BY <1>0, <2>1, <3>1, <3>2, ContractMode
      <4>2. /\ cordoned[K(n)] /\ running[K(n)] = {} /\ (StorageGate => sessions[n] = {})
        BY <1>0, <2>3, <3>2, <3>4, OpSafe DEF WorldTypeOK
      <4>3. Contract!Stop(n) BY ZenonT(60), <1>0, <3>4, <4>1, <4>2 DEF Contract!Stop
      <4>4. QED BY ZenonT(60), <1>0, <4>3 DEF Contract!Next
    <3>5. QED BY <3>2, <3>3, <3>4
  <2>4. QED BY <2>1, <2>2, <2>3
<1>5. CASE HardOff(r)
  <2>1. /\ UNCHANGED <<cordoned, running, sessions>>
        /\ \/ UNCHANGED <<power, os>>
           \/ power' = [power EXCEPT ![n] = "off"] /\ os' = [os EXCEPT ![n] = "down"]
    BY ZenonT(60), <1>0, <1>5 DEF HardOff, kube
  <2>2. CASE UNCHANGED <<power, os>> BY <2>1, <2>2, ContractStutter
  <2>3. CASE power' = [power EXCEPT ![n] = "off"] /\ os' = [os EXCEPT ![n] = "down"]
    <3>1. \A x \in Node \ {n} : power'[x] = power[x] /\ os'[x] = os[x]
      BY <2>3 DEF WorldTypeOK
    <3>2. /\ power[n] = "off" \/ os[n] = "stopping"
          /\ running[K(n)] = {} /\ (StorageGate => sessions[n] = {})
      BY ZenonT(60), <1>0, <1>5
         DEF HardOff, RunnerInv, WorldInv, PastStop, PastGate, PastDrain, PastCordon, DrainPC
    <3>3. Mode(n)' = "off" /\ Mode(n) \in {"off", "stopping"}
      BY <1>0, <2>3, <3>2 DEF Mode, WorldTypeOK
    <3>4. CASE Mode(n) = "off" BY ZenonT(60), <1>0, <2>1, <3>1, <3>3, <3>4, ContractMode
    <3>5. CASE Mode(n) = "stopping"
      <4>1. Contract!Become(n, "off") BY <1>0, <2>1, <3>1, <3>3, ContractMode
      <4>2. Contract!PowerOff(n) BY ZenonT(60), <1>0, <3>2, <3>5, <4>1 DEF Contract!PowerOff
      <4>3. QED BY ZenonT(60), <1>0, <4>2 DEF Contract!Next
    <3>6. QED BY <3>3, <3>4, <3>5
  <2>4. QED BY ZenonT(60), <2>1, <2>2, <2>3
<1>6. CASE BMCPowerOn(r)
  <2>1. /\ UNCHANGED <<cordoned, running, sessions, os>>
        /\ power' = power \/ power' = [power EXCEPT ![n] = "on"]
    BY ZenonT(60), <1>0, <1>6 DEF BMCPowerOn, kube
  <2>2. CASE power'[n] = power[n]
    <3>1. power' = power BY <1>0, <2>1, <2>2 DEF WorldTypeOK
    <3>2. QED BY <2>1, <3>1, ContractStutter
  <2>3. CASE power[n] = "off" /\ power'[n] = "on"
    <3>1. \A x \in Node \ {n} : power'[x] = power[x] /\ os'[x] = os[x]
      BY <2>1 DEF WorldTypeOK
    <3>2. Mode(n) = "off" /\ Mode(n)' = "up"
      BY <1>0, <2>1, <2>3 DEF Mode, PowerOS
    <3>3. Contract!Become(n, "up") BY <1>0, <2>1, <3>1, <3>2, ContractMode
    <3>4. Contract!PowerOn(n) BY <1>0, <3>2, <3>3 DEF Contract!PowerOn
    <3>5. QED BY ZenonT(60), <1>0, <3>4 DEF Contract!Next
  <2>4. QED BY ZenonT(60), <1>0, <2>1, <2>2, <2>3 DEF WorldTypeOK
<1>7. CASE ~(Cordon(r) \/ Uncordon(r) \/ DrainEvict(r) \/ TalosShutdown(r) \/ HardOff(r) \/ BMCPowerOn(r))
  <2>1. UNCHANGED <<cordoned, running, sessions, power, os>>
    BY ZenonT(60), <1>7 DEF OpStep, DrainStep, WakeStep, DrainList, DrainWait, WaitDetached,
       WaitPowerOff, WaitPowerOffAfterHardOff, ReadPower, WaitTalosReachable, WaitNodeReady,
       WaitGPURegistered, world, hardware, kube
  <2>2. QED BY <2>1, ContractStutter
<1>8. QED BY <1>2, <1>3, <1>4, <1>5, <1>6, <1>7

(* So is everything the machines, the pods and their sessions do. *)
LEMMA ContractWorld ==
    ASSUME WorldTypeOK, PowerOS, WorldNext
    PROVE  [Contract!Next]_Contract!vars
<1>1. ASSUME NEW n \in Node, MachineNext(n)
      PROVE  [Contract!Next]_Contract!vars
  <2>1. CASE RegisterGPU(n) \/ LoseReady(n)
    BY <2>1, ContractStutter DEF RegisterGPU, LoseReady, hardware
  <2>2. ASSUME UNCHANGED <<cordoned, running, sessions>>,
               \A x \in Node \ {n} : power'[x] = power[x] /\ os'[x] = os[x],
               \/ power'[n] = power[n] /\ {os[n], os'[n]} \subseteq {"down", "booted", "joined"}
               \/ /\ power[n] = "on" /\ os[n] = "stopping" /\ power'[n] = "off" /\ os'[n] = "down"
                  /\ running[K(n)] = {} /\ sessions[n] = {}
               \/ MachineCrash /\ power[n] = "on" /\ power'[n] = "off" /\ os'[n] = "down"
        PROVE  [Contract!Next]_Contract!vars
    <3>1. CASE power'[n] = power[n] /\ {os[n], os'[n]} \subseteq {"down", "booted", "joined"}
      <4>1. Mode(n)' = Mode(n) BY ZenonT(60), <3>1 DEF Mode
      <4>2. QED BY <2>2, <4>1, ContractMode
    <3>2. CASE power[n] = "on" /\ power'[n] = "off" /\ os'[n] = "down"
      <4>1. Mode(n)' = "off" BY <3>2 DEF Mode
      <4>2. Contract!Become(n, "off") BY <2>2, <4>1, ContractMode
      <4>3. CASE MachineCrash
        BY ZenonT(60), <4>2, <4>3 DEF Contract!Outage, Contract!Next
      <4>4. CASE os[n] = "stopping" /\ running[K(n)] = {} /\ sessions[n] = {}
        <5>1. Mode(n) = "stopping" BY <3>2, <4>4 DEF Mode
        <5>2. Contract!PowerOff(n) BY <4>2, <4>4, <5>1 DEF Contract!PowerOff
        <5>3. QED BY ZenonT(60), <5>2 DEF Contract!Next
      <4>5. QED BY <2>2, <3>2, <4>3, <4>4
    <3>3. QED BY <2>2, <3>1, <3>2
  <2>3. CASE Boot(n)
    <3>1. os[n] = "down" /\ os'[n] = "booted" /\ UNCHANGED <<cordoned, running, sessions, power>>
      BY <2>3 DEF Boot, kube, WorldTypeOK
    <3>2. \A x \in Node \ {n} : os'[x] = os[x] BY <2>3 DEF Boot, WorldTypeOK
    <3>3. QED BY ZenonT(60), <2>2, <3>1, <3>2
  <2>4. CASE Join(n) BY <2>2, <2>4 DEF Join, WorldTypeOK
  <2>5. CASE PowerDown(n) BY <2>2, <2>5 DEF PowerDown, kube, WorldTypeOK
  <2>6. CASE Crash(n) BY <2>2, <2>6 DEF Crash, kube, WorldTypeOK
  <2>7. QED BY <1>1, <2>1, <2>3, <2>4, <2>5, <2>6 DEF MachineNext
<1>2. ASSUME NEW n \in Node, NEW p \in Pod, PodNext(n, p)
      PROVE  [Contract!Next]_Contract!vars
  <2>0. K(n) \in KubeNode /\ \A x \in Node \ {n} : K(x) # K(n)
    BY ZenonT(60), WorldAssumption DEF K
  <2>1. UNCHANGED <<cordoned, power, os>>
    BY ZenonT(60), <1>2 DEF PodNext, Bind, Attach, Delete, KillPod, Logout, hardware, kube
  <2>2. [x \in Node |-> Mode(x)]' = [x \in Node |-> Mode(x)] BY <2>1 DEF Mode
  <2>3. CASE Bind(n, p)
    <3>1. running' = [running EXCEPT ![K(n)] = @ \cup {p}] /\ UNCHANGED sessions /\ ~cordoned[K(n)]
      BY <2>3 DEF Bind, hardware
    <3>a. \A x \in Node : running'[K(x)] = IF x = n THEN running[K(n)] \cup {p} ELSE running[K(x)]
      BY <2>0, <3>1, WorldAssumption DEF WorldTypeOK, K
    <3>2. [x \in Node |-> running[K(x)]]' = [[x \in Node |-> running[K(x)]] EXCEPT ![n] = @ \cup {p}]
      BY ZenonT(60), <3>a
    <3>3. Contract!Arrive(n, p) BY ZenonT(60), <2>1, <2>2, <3>1, <3>2 DEF Contract!Arrive
    <3>4. QED BY ZenonT(60), <3>3 DEF Contract!Next
  <2>4. CASE Delete(n, p) \/ KillPod(n, p)
    <3>1. running' = [running EXCEPT ![K(n)] = @ \ {p}] /\ UNCHANGED sessions
      BY <2>4 DEF Delete, KillPod, hardware
    <3>a. \A x \in Node : running'[K(x)] = IF x = n THEN running[K(n)] \ {p} ELSE running[K(x)]
      BY <2>0, <3>1, WorldAssumption DEF WorldTypeOK, K
    <3>2. [x \in Node |-> running[K(x)]]' = [[x \in Node |-> running[K(x)]] EXCEPT ![n] = @ \ {p}]
      BY ZenonT(60), <3>a
    <3>3. Contract!Leave(n, p) BY <2>1, <2>2, <3>1, <3>2 DEF Contract!Leave
    <3>4. QED BY ZenonT(60), <3>3 DEF Contract!Next
  <2>5. CASE Attach(n, p)
    <3>1. /\ sessions' = [sessions EXCEPT ![n] = @ \cup {p}] /\ UNCHANGED running
          /\ p \in running[K(n)] /\ os[n] = "joined"
      BY <2>5 DEF Attach, kube
    <3>2. Mode(n) = "up" BY <3>1 DEF Mode, PowerOS
    <3>3. Contract!Mount(n, p) BY <2>1, <2>2, <3>1, <3>2 DEF Contract!Mount
    <3>4. QED BY ZenonT(60), <3>3 DEF Contract!Next
  <2>6. CASE Logout(n, p)
    <3>1. sessions' = [sessions EXCEPT ![n] = @ \ {p}] /\ UNCHANGED running
      BY <2>6 DEF Logout, kube
    <3>2. Contract!Unmount(n, p) BY <2>1, <2>2, <3>1 DEF Contract!Unmount
    <3>3. QED BY ZenonT(60), <3>2 DEF Contract!Next
  <2>7. QED BY <1>2, <2>3, <2>4, <2>5, <2>6 DEF PodNext
<1>3. CASE Stabilize BY <1>3, ContractStutter DEF Stabilize, hardware, kube
<1>4. QED BY <1>1, <1>2, <1>3 DEF WorldNext, Environment

=============================================================================
