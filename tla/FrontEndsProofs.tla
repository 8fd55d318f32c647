--------------------------- MODULE FrontEndsProofs ---------------------------
(***************************************************************************)
(* The server and the command line on the same machines, for any number of  *)
(* machines, connections, shells and pods.  No lock keeps the operations of *)
(* the two apart; what does is their direction: a drain only ever closes,   *)
(* empties and stops, which is all that another drain relies on, and a wake *)
(* only ever opens.  An operation and one of the opposite direction, or a   *)
(* power command, are kept off the same machine by FENext.                  *)
(***************************************************************************)
EXTENDS FrontEnds, LifecycleProofs

(* A command that has begun works on a machine of the inventory it loaded,  *)
(* by the node name it found there, and has no exit code.                   *)
ShellInv(s) ==
    /\ pc[s] \in AssemblePC => target[s] \in Node /\ kname[s] = K(target[s])
    /\ pc[s] \in PowerPC => target[s] \in Node
    /\ pc[s] # "idle" => exit[s] = NoCode

(* An operation that is being assembled has recorded nothing. *)
AssembleInv(r) == pc[r] \in AssemblePC => steps[r] = << >>

IInv ==
    /\ FETypeOK /\ PowerOS /\ ~Opposed
    /\ \A r \in Runner : RunnerInv(r) /\ AssembleInv(r)
    /\ \A s \in Shell : ShellInv(s)

(* A step of r alone: nobody else's bookkeeping moves. *)
Alone(r) ==
    /\ \A s \in Runner \ {r} :
          /\ pc'[s] = pc[s] /\ target'[s] = target[s] /\ kname'[s] = kname[s]
          /\ todo'[s] = todo[s] /\ steps'[s] = steps[s]
    /\ \A s \in Shell \ {r} : exit'[s] = exit[s]

-----------------------------------------------------------------------------
(* Operations of the same direction. *)

(* A drain step, on whatever machine, takes no node back into service, puts *)
(* no work or session anywhere and undoes no shutdown.                      *)
LEMMA DrainEffect ==
    ASSUME WorldTypeOK, NEW r \in Runner, DrainStep(r)
    PROVE  /\ \A k \in KubeNode : /\ cordoned[k] => cordoned'[k]
                                  /\ running'[k] \subseteq running[k]
           /\ UNCHANGED sessions
           /\ \A n \in Node : /\ power[n] = "off" => power'[n] = "off"
                              /\ os[n] = "stopping" => power'[n] = "off" \/ os'[n] = "stopping"
<1> USE DEF WorldTypeOK, world, hardware, kube
<1>1. CASE Cordon(r)
  <2>1. \A k \in KubeNode : cordoned[k] => cordoned'[k]
    <3>1. cordoned' = cordoned \/ cordoned' = [cordoned EXCEPT ![kname[r]] = TRUE]
      BY ZenonT(60), <1>1 DEF Cordon
    <3>2. cordoned \in [KubeNode -> BOOLEAN] OBVIOUS
    <3>3. ASSUME NEW k \in KubeNode, cordoned[k], cordoned' = [cordoned EXCEPT ![kname[r]] = TRUE]
          PROVE  cordoned'[k]
      <4>1. CASE k = kname[r] BY ZenonT(60), <3>2, <3>3, <4>1
      <4>2. CASE k # kname[r] BY ZenonT(60), <3>2, <3>3, <4>2
      <4>3. QED BY <4>1, <4>2
    <3>4. QED BY ZenonT(60), <3>1, <3>3
  <2>2. QED BY ZenonT(60), <1>1, <2>1 DEF Cordon
<1>2. CASE DrainEvict(r)
  <2>1. PICK p : running' = [running EXCEPT ![kname[r]] = @ \ {p}] BY ZenonT(60), <1>2 DEF DrainEvict
  <2>2. running \in [KubeNode -> SUBSET Pod] OBVIOUS
  <2>3. \A k \in KubeNode : running'[k] \subseteq running[k] BY <2>1, <2>2
  <2>4. QED BY ZenonT(60), <1>2, <2>3 DEF DrainEvict
<1>3. CASE TalosShutdown(r)
  <2>1. \A n \in Node : os[n] = "stopping" => os'[n] = "stopping" BY ZenonT(60), <1>3 DEF TalosShutdown
  <2>2. QED BY ZenonT(60), <1>3, <2>1 DEF TalosShutdown
<1>4. CASE HardOff(r)
  <2>1. \A n \in Node : /\ power[n] = "off" => power'[n] = "off"
                        /\ os[n] = "stopping" => power'[n] = "off" \/ os'[n] = "stopping"
    BY <1>4 DEF HardOff
  <2>2. QED BY ZenonT(60), <1>4, <2>1 DEF HardOff
<1>5. CASE ~(Cordon(r) \/ DrainEvict(r) \/ TalosShutdown(r) \/ HardOff(r))
  <2>1. UNCHANGED <<cordoned, running, sessions, power, os>>
    BY ZenonT(60), <1>5 DEF DrainStep, DrainList, DrainWait, WaitDetached, WaitPowerOff, WaitPowerOffAfterHardOff
  <2>2. QED BY ZenonT(60), <2>1
<1>6. QED BY ZenonT(60), <1>1, <1>2, <1>3, <1>4, <1>5

(* So two drains, of one machine even, do not disturb each other; only a     *)
(* wake that has just finished would be.                                     *)
LEMMA DrainsTogether ==
    ASSUME NEW P, Typed(P), NEW r \in Runner, NEW s \in Runner \ {r}, RunnerInv(r), RunnerInv(s),
           DrainStep(r), pc[s] # "woken"
    PROVE  RunnerInv(s)'
<1>1. Local(r) BY OpLocal DEF OpStep
<1>2. /\ pc'[s] = pc[s] /\ todo'[s] = todo[s] /\ steps'[s] = steps[s]
      /\ target'[s] = target[s] /\ kname'[s] = kname[s]
  BY <1>1 DEF Local
<1>3. NameInv(s)' /\ StepInv(s)'
  BY ZenonT(60), <1>2 DEF RunnerInv, NameInv, StepInv
<1>4. CASE pc[s] \in OpPC \cup {"slept"} \/ (pc[s] = "err" /\ steps[s] # << >>)
  <2>1. target[s] \in Node /\ kname[s] \in KubeNode
    <3>1. target[s] \in Node /\ kname[s] = K(target[s]) BY ZenonT(60), <1>4 DEF RunnerInv, NameInv
    <3>2. QED BY <3>1, WorldAssumption DEF K
  <2>2. /\ cordoned[kname[s]] => cordoned'[kname[s]]
        /\ running'[kname[s]] \subseteq running[kname[s]]
        /\ sessions'[target[s]] = sessions[target[s]]
        /\ power[target[s]] = "off" => power'[target[s]] = "off"
        /\ os[target[s]] = "stopping" => power'[target[s]] = "off" \/ os'[target[s]] = "stopping"
    <3>1. WorldTypeOK BY DEF Typed
    <3>2. /\ \A k \in KubeNode : /\ cordoned[k] => cordoned'[k]
                                 /\ running'[k] \subseteq running[k]
          /\ UNCHANGED sessions
          /\ \A n \in Node : /\ power[n] = "off" => power'[n] = "off"
                             /\ os[n] = "stopping" => power'[n] = "off" \/ os'[n] = "stopping"
      BY <3>1, DrainEffect
    <3>3. QED BY ZenonT(60), <2>1, <3>2
  <2>3. WorldInv(s)' BY ZenonT(60), <1>2, <2>2 DEF RunnerInv, WorldInv
  <2>4. QED BY <1>3, <2>3 DEF RunnerInv
<1>5. CASE ~(pc[s] \in OpPC \cup {"slept"} \/ (pc[s] = "err" /\ steps[s] # << >>))
  <2>1. WorldInv(s)'
    BY ZenonT(60), <1>2, <1>5 DEF WorldInv, OpPC, DrainPC, PastCordon, PastDrain, PastGate, PastStop
  <2>2. QED BY <1>3, <2>1 DEF RunnerInv
<1>6. QED BY ZenonT(60), <1>4, <1>5

(* Nor do two wakes: a wake relies on nothing but that the node it has put   *)
(* back into service stays there, and no wake cordons.                       *)
LEMMA WakesTogether ==
    ASSUME NEW P, Typed(P), NEW r \in Runner, NEW s \in Runner \ {r}, RunnerInv(r), RunnerInv(s),
           WakeStep(r), pc[s] \notin DrainPC \cup {"slept"},
           ~(pc[s] = "err" /\ steps[s] # << >> /\ steps[s][1] = CordonDone)
    PROVE  RunnerInv(s)'
<1>1. Local(r) BY OpLocal DEF OpStep
<1>2. /\ pc'[s] = pc[s] /\ todo'[s] = todo[s] /\ steps'[s] = steps[s]
      /\ target'[s] = target[s] /\ kname'[s] = kname[s]
  BY <1>1 DEF Local
<1>3. NameInv(s)' /\ StepInv(s)'
  BY ZenonT(60), <1>2 DEF RunnerInv, NameInv, StepInv
<1>4. pc[s] = "woken" => ~cordoned'[kname[s]]
  <2>1. \A k \in KubeNode : cordoned'[k] => cordoned[k]
    <3>1. CASE Uncordon(r) BY ZenonT(60), <3>1 DEF Uncordon, Typed, WorldTypeOK
    <3>2. CASE ~Uncordon(r)
      BY ZenonT(60), <3>2 DEF WakeStep, ReadPower, BMCPowerOn, WaitTalosReachable, WaitNodeReady,
         WaitGPURegistered, kube
    <3>3. QED BY <3>1, <3>2
  <2>2. pc[s] = "woken" => kname[s] \in KubeNode
    <3>1. pc[s] = "woken" => target[s] \in Node /\ kname[s] = K(target[s])
      BY ZenonT(60) DEF RunnerInv, NameInv
    <3>2. QED BY <3>1, WorldAssumption DEF K
  <2>3. QED BY ZenonT(60), <2>1, <2>2 DEF RunnerInv, WorldInv
<1>5. WorldInv(s)'
  BY ZenonT(60), <1>2, <1>4 DEF WorldInv, DrainPC, PastCordon, PastDrain, PastGate, PastStop
<1>6. QED BY <1>3, <1>5 DEF RunnerInv

-----------------------------------------------------------------------------
(* What every step has in common. *)

(* The front-ends' types are those the lifecycle lemmas ask for. *)
LEMMA FETyped == FETypeOK => Typed(FEPC) /\ WorldTypeOK
BY DEF FETypeOK, OperateTypeOK, Typed

(* A step of one runner is judged by that runner and by what the others     *)
(* rely on in the world.                                                    *)
LEMMA OneMoves ==
    ASSUME IInv, NEW r \in Runner, Alone(r), FETypeOK', PowerOS', ~Opposed',
           \A s \in Runner \ {r} : RunnerInv(s)',
           RunnerInv(r)', AssembleInv(r)', r \in Shell => ShellInv(r)'
    PROVE  IInv'
<1>1. \A s \in Runner : RunnerInv(s)' OBVIOUS
<1>2. \A s \in Runner : AssembleInv(s)'
  BY ZenonT(60) DEF IInv, AssembleInv, Alone
<1>3. ASSUME NEW s \in Shell PROVE ShellInv(s)'
  <2>1. CASE s = r BY <2>1
  <2>2. CASE s # r
    <3>1. s \in Runner \ {r} BY <2>2, CliAssumption
    <3>2. QED BY ZenonT(60), <2>2, <3>1 DEF IInv, ShellInv, Alone
  <2>3. QED BY <2>1, <2>2
<1>4. QED BY <1>1, <1>2, <1>3 DEF IInv

(* A step of r that does not touch the world leaves the others alone. *)
LEMMA SameWorld ==
    ASSUME IInv, NEW r \in Runner, Alone(r), UNCHANGED world
    PROVE  (\A s \in Runner \ {r} : RunnerInv(s)') /\ PowerOS'
<1>1. PowerOS' BY DEF IInv, PowerOS, world, hardware
<1>2. \A s \in Runner \ {r} : RunnerInv(s)'
  BY Untouched DEF IInv, Alone
<1>3. QED BY <1>1, <1>2

(* Steps that only answer, print or cancel a context. *)
LEMMA QuietOK ==
    ASSUME IInv, FETypeOK', ~Opposed', UNCHANGED <<world, pc, target, kname, todo, steps>>,
           \A s \in Shell : pc[s] # "idle" => exit'[s] = exit[s]
    PROVE  IInv'
<1>1. \A r \in Runner : RunnerInv(r)' BY Untouched DEF IInv
<1>2. \A r \in Runner : AssembleInv(r)' BY DEF IInv, AssembleInv
<1>3. \A s \in Shell : ShellInv(s)' BY ZenonT(60) DEF IInv, ShellInv
<1>4. PowerOS' BY DEF IInv, PowerOS, world, hardware
<1>5. QED BY <1>1, <1>2, <1>3, <1>4 DEF IInv

(* The types of a runner that is done. *)
LEMMA ForgetTypes ==
    ASSUME FETypeOK, WorldTypeOK', NEW r \in Runner, Forget(r)
    PROVE  OperateTypeOK(FEPC)' /\ \A s \in Shell : target'[s] \in Node \cup {NoNode}
<1>1. NoOptions \in Options /\ << >> \in Seq(Step) BY DEF NoOptions, Options
<1>2. "idle" \in FEPC BY DEF FEPC, ApiPC
<1>3. OperateTypeOK(FEPC) BY DEF FETypeOK
<1>4. OperateTypeOK(FEPC)' BY <1>1, <1>2, <1>3 DEF OperateTypeOK, Forget
<1>5. ASSUME NEW s \in Shell PROVE target'[s] \in Node \cup {NoNode}
  <2>1. target' = [target EXCEPT ![r] = NoNode] BY DEF Forget
  <2>2. s \in Runner /\ target[s] \in Node \cup {NoNode} BY CliAssumption DEF FETypeOK, CliTypeOK
  <2>3. target \in [Runner -> PathNode \cup {NoNode}] BY <1>3 DEF OperateTypeOK
  <2>4. QED BY <2>1, <2>2, <2>3
<1>6. QED BY <1>4, <1>5

(* A runner that is done relies on nothing. *)
LEMMA Forgotten ==
    ASSUME FETypeOK, NEW r \in Runner, Forget(r)
    PROVE  /\ pc'[r] = "idle"
           /\ RunnerInv(r)' /\ AssembleInv(r)' /\ ShellInv(r)'
           /\ (\A s \in Shell \ {r} : exit'[s] = exit[s]) => Alone(r)
<1>1. pc'[r] = "idle" /\ steps'[r] = << >>
  BY DEF FETypeOK, OperateTypeOK, Forget
<1>2. pc'[r] \notin OpPC \cup DonePC \cup AssemblePC \cup PowerPC
  BY ZenonT(60), <1>1 DEF OpPC, DrainPC, WakePC, DonePC, AssemblePC, PowerPC
<1>3. RunnerInv(r)' BY <1>1, <1>2, Starts
<1>4. AssembleInv(r)' /\ ShellInv(r)' BY ZenonT(60), <1>1, <1>2 DEF AssembleInv, ShellInv
<1>5. \A s \in Runner \ {r} :
        /\ pc'[s] = pc[s] /\ target'[s] = target[s] /\ kname'[s] = kname[s]
        /\ todo'[s] = todo[s] /\ steps'[s] = steps[s]
  BY DEF FETypeOK, OperateTypeOK, Forget
<1>6. QED BY <1>1, <1>3, <1>4, <1>5 DEF Alone

-----------------------------------------------------------------------------
(* The lifecycle and the world. *)

(* A lifecycle step of a handler or of a command. *)
LEMMA OperationOK ==
    ASSUME IInv, NEW r \in Runner, OpStep(r), UNCHANGED <<apivars, exit>>, ~Opposed'
    PROVE  IInv'
<1>1. FETypeOK /\ Typed(FEPC) /\ RunnerInv(r) /\ WorldTypeOK /\ PowerOS
  BY FETyped DEF IInv
<1>2. Local(r) BY <1>1, OpLocal
<1>3. FETypeOK'
  <2>1. steps' \in [Runner -> Seq(Step)] /\ pc' \in [Runner -> FEPC \cup OpPC \cup DonePC]
    BY <1>1, OpMoves
  <2>2. /\ WorldTypeOK' /\ todo' \in [Runner -> SUBSET Pod]
        /\ UNCHANGED <<target, kname, opts, cancelled>>
    BY <1>1, OpTypes
  <2>3. FEPC \cup OpPC \cup DonePC = FEPC BY ZenonT(60) DEF FEPC, ApiPC, ActivePC
  <2>4. OperateTypeOK(FEPC)' BY <1>1, <2>1, <2>2, <2>3 DEF FETypeOK, OperateTypeOK
  <2>5. ApiTypeOK' /\ CliTypeOK' BY <1>1, <2>2 DEF FETypeOK, ApiTypeOK, CliTypeOK, apivars
  <2>6. QED BY <2>4, <2>5 DEF FETypeOK
<1>4. Alone(r) BY <1>2 DEF Alone, Local
<1>5. ASSUME NEW s \in Runner \ {r} PROVE RunnerInv(s)'
  <2>1. RunnerInv(s) /\ ~Opposed BY DEF IInv
  <2>2. CASE target[s] # target[r] BY <1>1, <1>2, <2>1, <2>2, OthersKept
  <2>3. CASE target[s] = target[r] /\ DrainStep(r)
    <3>1. pc[r] \in DrainPC
      BY ZenonT(60), <2>3 DEF DrainStep, Cordon, DrainList, DrainEvict, DrainWait, WaitDetached, TalosShutdown,
         WaitPowerOff, HardOff, WaitPowerOffAfterHardOff, DrainPC
    <3>2. pc[s] # "woken" BY ZenonT(60), <2>1, <2>3, <3>1 DEF Opposed, Drains, Wakes
    <3>3. QED BY <1>1, <2>1, <2>3, <3>2, DrainsTogether
  <2>4. CASE target[s] = target[r] /\ WakeStep(r)
    <3>1. pc[r] \in WakePC
      BY ZenonT(60), <2>4 DEF WakeStep, ReadPower, BMCPowerOn, WaitTalosReachable, WaitNodeReady,
         WaitGPURegistered, Uncordon, WakePC
    <3>2. ~Drains(s) BY ZenonT(60), <2>1, <2>4, <3>1 DEF Opposed, Wakes
    <3>3. pc[s] \notin DrainPC \cup {"slept"} BY ZenonT(60), <3>2 DEF Drains
    <3>4. ~(pc[s] = "err" /\ steps[s] # << >> /\ steps[s][1] = CordonDone)
      <4>1. CordonDone.name = "cordon" BY DEF CordonDone
      <4>2. QED BY ZenonT(60), <3>2, <4>1 DEF Drains, FailedIn
    <3>5. QED BY <1>1, <2>1, <2>4, <3>3, <3>4, WakesTogether
  <2>5. QED BY <2>2, <2>3, <2>4 DEF OpStep
<1>6. RunnerInv(r)' BY <1>1, OpSelf
<1>7. pc[r] # "idle" /\ pc'[r] \notin AssemblePC \cup PowerPC
  BY ZenonT(60), <1>2 DEF Local, AssemblePC, PowerPC, OpPC, DrainPC, WakePC, DonePC
<1>8. AssembleInv(r)' /\ (r \in Shell => ShellInv(r)')
  BY ZenonT(60), <1>7 DEF IInv, AssembleInv, ShellInv
<1>9. PowerOS' BY <1>1, OpPower
<1>10. QED BY <1>3, <1>4, <1>5, <1>6, <1>8, <1>9, OneMoves

(* A step of the machines, the pods and their sessions. *)
LEMMA WorldOK ==
    ASSUME IInv, Environment, UNCHANGED <<opvars, apivars, exit>>, ~Opposed'
    PROVE  IInv'
<1>1. WorldTypeOK /\ PowerOS /\ WorldNext BY FETyped DEF IInv, WorldNext
<1>2. WorldTypeOK' /\ PowerOS' BY <1>1, WorldEffect
<1>3. FETypeOK' BY <1>2 DEF IInv, FETypeOK, OperateTypeOK, ApiTypeOK, CliTypeOK, opvars, apivars
<1>4. \A r \in Runner : RunnerInv(r)' BY <1>1, WorldKeeps DEF IInv
<1>5. \A r \in Runner : AssembleInv(r)' BY DEF IInv, AssembleInv, opvars
<1>6. \A s \in Shell : ShellInv(s)' BY ZenonT(60) DEF IInv, ShellInv, opvars
<1>7. QED BY <1>2, <1>3, <1>4, <1>5, <1>6 DEF IInv

-----------------------------------------------------------------------------
(* Beginning and assembling an operation. *)

(* operate.DrainShutdown and operate.Wake begin with nothing recorded. *)
LEMMA BeginOK ==
    ASSUME IInv, NEW r \in Runner, pc[r] = "idle", NEW n \in PathNode, NEW a \in AssemblePC, NEW o \in Options,
           Begin(r, n, a, o), UNCHANGED <<world, cancelled, todo, steps>>,
           NEW k \in KubeNode \cup {NoNode}, kname' = [kname EXCEPT ![r] = k],
           r \in Shell => n \in Node /\ k = K(n) /\ exit'[r] = NoCode,
           \A s \in Shell \ {r} : exit'[s] = exit[s],
           ApiTypeOK', exit' \in [Shell -> {NoCode, 0, 1, 2}], ~Opposed'
    PROVE  IInv'
<1>1. FETypeOK /\ RunnerInv(r) /\ OperateTypeOK(FEPC) BY DEF IInv, FETypeOK
<1>2. /\ pc' = [pc EXCEPT ![r] = a] /\ target' = [target EXCEPT ![r] = n]
      /\ opts' = [opts EXCEPT ![r] = o]
  BY DEF Begin, Goto
<1>3. /\ pc'[r] = a /\ target'[r] = n /\ kname'[r] = k
      /\ \A s \in Runner \ {r} : pc'[s] = pc[s] /\ target'[s] = target[s] /\ kname'[s] = kname[s]
  BY <1>1, <1>2 DEF OperateTypeOK
<1>4. Alone(r) BY ZenonT(60), <1>3 DEF Alone
<1>5. FETypeOK'
  <2>1. AssemblePC \subseteq FEPC BY ZenonT(60) DEF FEPC, ApiPC, ActivePC
  <2>2. WorldTypeOK' BY <1>1 DEF OperateTypeOK, WorldTypeOK, world, hardware, kube
  <2>3. OperateTypeOK(FEPC)' BY <1>1, <1>2, <2>1, <2>2 DEF OperateTypeOK
  <2>4. \A s \in Shell : target'[s] \in Node \cup {NoNode}
    BY <1>1, <1>3, CliAssumption DEF FETypeOK, CliTypeOK
  <2>5. QED BY <2>3, <2>4 DEF FETypeOK, CliTypeOK
<1>6. steps'[r] = << >> BY ZenonT(60), <1>1 DEF RunnerInv, StepInv
<1>7. pc'[r] \notin OpPC \cup DonePC \cup PowerPC \cup {"idle"} /\ pc'[r] \in AssemblePC
  BY ZenonT(60), <1>3 DEF AssemblePC, OpPC, DrainPC, WakePC, DonePC, PowerPC
<1>8. RunnerInv(r)' BY <1>6, <1>7, Starts
<1>9. AssembleInv(r)' BY <1>6 DEF AssembleInv
<1>10. r \in Shell => ShellInv(r)' BY ZenonT(60), <1>3, <1>7 DEF ShellInv, K
<1>11. QED BY ZenonT(60), <1>4, <1>5, <1>8, <1>9, <1>10, OneMoves, SameWorld

(* It starts on its machine with that machine's own node name. *)
LEMMA AssembleOK ==
    ASSUME IInv, NEW r \in Runner, NEW k, target[r] \in Node => k = K(target[r]), Assemble(r, k),
           UNCHANGED <<apivars, exit>>, ~Opposed'
    PROVE  IInv'
<1>1. FETypeOK /\ RunnerInv(r) /\ OperateTypeOK(FEPC) /\ AssembleInv(r) BY DEF IInv, FETypeOK
<1>2. /\ pc[r] \in AssemblePC /\ UNCHANGED <<world, target, opts, cancelled, todo, steps>>
      /\ \/ /\ target[r] \in Node /\ kname' = [kname EXCEPT ![r] = k]
            /\ \E x \in {"cordon", "read-power"} : pc' = [pc EXCEPT ![r] = x]
         \/ kname' = kname /\ pc' = [pc EXCEPT ![r] = "err"]
  BY ZenonT(60) DEF Assemble, Goto
<1>3. /\ pc'[r] \in {"cordon", "read-power", "err"}
      /\ pc'[r] # "err" => target[r] \in Node /\ kname'[r] = k
      /\ \A s \in Runner \ {r} : pc'[s] = pc[s] /\ kname'[s] = kname[s]
  BY <1>1, <1>2 DEF OperateTypeOK
<1>4. Alone(r) BY ZenonT(60), <1>2, <1>3 DEF Alone
<1>5. FETypeOK'
  <2>1. {"cordon", "read-power", "err"} \subseteq FEPC
    BY ZenonT(60) DEF FEPC, ApiPC, ActivePC, OpPC, DrainPC, WakePC, DonePC
  <2>2. pc' \in [Runner -> FEPC] BY ZenonT(60), <1>1, <1>2, <2>1 DEF OperateTypeOK
  <2>3. target[r] \in Node => k \in KubeNode BY WorldAssumption DEF K
  <2>4. kname' \in [Runner -> KubeNode \cup {NoNode}] BY ZenonT(60), <1>1, <1>2, <2>3 DEF OperateTypeOK
  <2>5. WorldTypeOK' BY <1>1, <1>2 DEF OperateTypeOK, WorldTypeOK, world, hardware, kube
  <2>6. OperateTypeOK(FEPC)' BY <1>1, <1>2, <2>2, <2>4, <2>5 DEF OperateTypeOK
  <2>7. ApiTypeOK' /\ CliTypeOK' BY <1>1, <1>2 DEF FETypeOK, ApiTypeOK, CliTypeOK, apivars
  <2>8. QED BY <2>6, <2>7 DEF FETypeOK
<1>6. steps'[r] = << >> BY <1>1, <1>2 DEF AssembleInv
<1>7. RunnerInv(r)' BY ZenonT(60), <1>2, <1>3, <1>6, Starts
<1>8. pc[r] # "idle" /\ pc'[r] \notin AssemblePC \cup PowerPC
  BY ZenonT(60), <1>2, <1>3 DEF AssemblePC, PowerPC
<1>9. AssembleInv(r)' /\ (r \in Shell => ShellInv(r)')
  BY ZenonT(60), <1>8 DEF IInv, AssembleInv, ShellInv
<1>10. QED BY <1>2, <1>4, <1>5, <1>7, <1>9, OneMoves, SameWorld

(* A handler that answers, a command that reports or is killed. *)
LEMMA EndOK ==
    ASSUME IInv, NEW r \in Runner, Forget(r), UNCHANGED world, ApiTypeOK',
           exit' \in [Shell -> {NoCode, 0, 1, 2}], \A s \in Shell \ {r} : exit'[s] = exit[s], ~Opposed'
    PROVE  IInv'
<1>1. FETypeOK /\ WorldTypeOK BY FETyped DEF IInv
<1>2. WorldTypeOK' BY <1>1 DEF WorldTypeOK, world, hardware, kube
<1>3. FETypeOK' BY <1>1, <1>2, ForgetTypes DEF FETypeOK, CliTypeOK
<1>4. Alone(r) /\ RunnerInv(r)' /\ AssembleInv(r)' /\ ShellInv(r)' BY <1>1, Forgotten
<1>5. QED BY <1>3, <1>4, OneMoves, SameWorld

-----------------------------------------------------------------------------
(* The server. *)

(* Every step of a request keeps the invariant. *)
LEMMA RequestOK ==
    ASSUME IInv, RequestNext, UNCHANGED exit, ~Opposed'
    PROVE  IInv'
<1>1. PICK r \in Connection :
        \/ AnswerWithoutLock(r) \/ AcceptDrainShutdown(r) \/ AcceptWake(r)
        \/ WriteActuatorConflict(r) \/ RequestStep(r) \/ Disconnect(r)
  BY DEF RequestNext
<1>2. /\ r \in Runner /\ r \notin Shell
      /\ FETypeOK /\ ApiTypeOK /\ CliTypeOK /\ OperateTypeOK(FEPC)
  BY ApiAssumption, FrontEndsAssumption DEF IInv, FETypeOK
<1>3. ASSUME NEW c \in Code, Answer(r, c) PROVE resp' \in [Connection -> Code]
  BY <1>2, <1>3 DEF ApiTypeOK, Answer
<1>4. CASE AnswerWithoutLock(r) \/ WriteActuatorConflict(r)
  <2>1. /\ \E c \in Code : Answer(r, c)
        /\ UNCHANGED <<world, opvars, inFlight, server>>
    BY <1>4 DEF AnswerWithoutLock, auth, decodeBody, statusOrDryRun, WriteActuatorConflict, Code
  <2>2. ApiTypeOK' BY <1>2, <1>3, <2>1 DEF ApiTypeOK
  <2>3. OperateTypeOK(FEPC)' /\ CliTypeOK'
    BY ZenonT(60), <1>2, <2>1 DEF OperateTypeOK, CliTypeOK, WorldTypeOK, world, hardware, kube, opvars
  <2>4. QED BY <2>1, <2>2, <2>3, QuietOK DEF FETypeOK, opvars
<1>5. ASSUME NEW n \in PathNode, NEW a \in AssemblePC, NEW o \in Options, Accept(r, n, a, o)
      PROVE  IInv'
  <2>1. /\ pc[r] = "idle" /\ Begin(r, n, a, o) /\ Answer(r, 0)
        /\ inFlight' = inFlight \cup {n}
        /\ UNCHANGED <<world, kname, cancelled, todo, steps, server>>
    BY ZenonT(60), <1>5 DEF Accept, tryAcquire
  <2>2. ApiTypeOK'
    <3>1. resp' \in [Connection -> Code] BY <1>3, <2>1 DEF Code
    <3>2. QED BY <1>2, <2>1, <3>1 DEF ApiTypeOK
  <2>3. PICK k \in KubeNode \cup {NoNode} : k = kname[r] BY <1>2 DEF OperateTypeOK
  <2>4. kname' = [kname EXCEPT ![r] = k] BY <1>2, <2>1, <2>3 DEF OperateTypeOK
  <2>5. exit' \in [Shell -> {NoCode, 0, 1, 2}] BY <1>2 DEF CliTypeOK
  <2>6. QED BY ZenonT(60), <1>2, <2>1, <2>2, <2>4, <2>5, BeginOK
<1>6. CASE AcceptDrainShutdown(r) \/ AcceptWake(r)
  <2>1. \A b \in BOOLEAN : /\ [NoOptions EXCEPT !.ForceBMCOff = b] \in Options
                           /\ [NoOptions EXCEPT !.ExpectGPU = b] \in Options
    BY ZenonT(60) DEF NoOptions, Options
  <2>2. QED BY ZenonT(60), <1>5, <1>6, <2>1 DEF AcceptDrainShutdown, AcceptWake, AssemblePC, ExpectGPU
<1>7. CASE Assemble(r, kubeName(target[r])) /\ UNCHANGED apivars
  <2>1. kubeName(target[r]) = K(target[r]) BY DEF kubeName, K
  <2>2. QED BY <1>2, <1>7, <2>1, AssembleOK
<1>8. CASE OpStep(r) /\ UNCHANGED apivars BY <1>2, <1>8, OperationOK
<1>9. CASE WriteOpResult(r)
  <2>1. OpResultCode(r) \in Code BY DEF OpResultCode, Code
  <2>2. /\ Forget(r) /\ Answer(r, OpResultCode(r)) /\ UNCHANGED <<world, server>>
        /\ inFlight' = inFlight \ {target[r]}
    BY <1>9 DEF WriteOpResult, Release
  <2>3. ApiTypeOK' BY <1>2, <1>3, <2>1, <2>2 DEF ApiTypeOK
  <2>4. QED BY <1>2, <2>2, <2>3, EndOK DEF CliTypeOK
<1>10. CASE Disconnect(r)
  <2>1. /\ cancelled' = [cancelled EXCEPT ![r] = TRUE]
        /\ UNCHANGED <<world, pc, target, kname, opts, todo, steps, apivars>>
    BY ZenonT(60), <1>10 DEF Disconnect, CancelContext
  <2>2. FETypeOK'
    BY <1>2, <2>1 DEF FETypeOK, OperateTypeOK, ApiTypeOK, CliTypeOK, WorldTypeOK, world, hardware, kube, apivars
  <2>3. QED BY <2>1, <2>2, QuietOK
<1>11. QED BY <1>1, <1>4, <1>6, <1>7, <1>8, <1>9, <1>10 DEF RequestStep

-----------------------------------------------------------------------------
(* The command line. *)

(* inventory.Load lets a node in only with its node name. *)
LEMMA LoadOK ==
    ASSUME NEW raw \in RawInventory, Load(raw), NEW n \in DOMAIN raw
    PROVE  n \in Node /\ kubeNameOf(n, raw[n]) = K(n)
<1>1. PICK D \in SUBSET Node : raw \in [D -> RawSpec] BY DEF RawInventory
<1>2. n \in Node BY <1>1
<1>3. "kube_node_name" \in raw[n] BY ZenonT(60) DEF Load, validateNode, Field
<1>4. QED BY <1>2, <1>3 DEF kubeNameOf, K

(* The exit code of one command. *)
LEMMA ExitsOK ==
    ASSUME IInv, NEW r \in Shell, NEW c \in {NoCode, 0, 1, 2}, Exits(r, c)
    PROVE  /\ exit' \in [Shell -> {NoCode, 0, 1, 2}] /\ exit'[r] = c
           /\ \A s \in Shell \ {r} : exit'[s] = exit[s]
<1>1. exit \in [Shell -> {NoCode, 0, 1, 2}] BY DEF IInv, FETypeOK, CliTypeOK
<1>2. QED BY <1>1 DEF Exits

(* A power command is sent to a machine of the inventory. *)
LEMMA RunPowerOK ==
    ASSUME IInv, NEW r \in Shell, pc[r] = "idle", runPower(r), UNCHANGED <<world, apivars>>, ~Opposed'
    PROVE  IInv'
<1>1. r \in Runner /\ FETypeOK /\ OperateTypeOK(FEPC) /\ RunnerInv(r)
  BY CliAssumption DEF IInv, FETypeOK
<1>2. PICK action \in PowerPC, n \in Node :
        /\ pc' = [pc EXCEPT ![r] = action] /\ target' = [target EXCEPT ![r] = n]
        /\ Exits(r, NoCode) /\ UNCHANGED <<kname, opts, cancelled, todo, steps>>
  BY ZenonT(60), LoadOK DEF runPower, Goto
<1>3. /\ exit' \in [Shell -> {NoCode, 0, 1, 2}] /\ exit'[r] = NoCode
      /\ \A s \in Shell \ {r} : exit'[s] = exit[s]
  BY <1>2, ExitsOK
<1>4. /\ pc'[r] = action /\ target'[r] = n
      /\ \A s \in Runner \ {r} : pc'[s] = pc[s] /\ target'[s] = target[s]
  BY <1>1, <1>2 DEF OperateTypeOK
<1>5. Alone(r) BY ZenonT(60), <1>2, <1>3, <1>4 DEF Alone
<1>6. FETypeOK'
  <2>1. action \in FEPC /\ n \in PathNode BY ZenonT(60) DEF FEPC, PathNode
  <2>2. WorldTypeOK' BY <1>1 DEF OperateTypeOK, WorldTypeOK, world, hardware, kube
  <2>3. OperateTypeOK(FEPC)' BY ZenonT(60), <1>1, <1>2, <2>1, <2>2 DEF OperateTypeOK
  <2>4. \A s \in Shell : target'[s] \in Node \cup {NoNode}
    BY <1>1, <1>4, CliAssumption DEF FETypeOK, CliTypeOK
  <2>5. ApiTypeOK' BY <1>1 DEF FETypeOK, ApiTypeOK, apivars
  <2>6. QED BY ZenonT(60), <1>3, <2>3, <2>4, <2>5 DEF FETypeOK, CliTypeOK
<1>7. steps'[r] = << >> BY ZenonT(60), <1>1, <1>2 DEF RunnerInv, StepInv
<1>8. pc'[r] \notin OpPC \cup DonePC \cup AssemblePC
  BY ZenonT(60), <1>4 DEF AssemblePC, OpPC, DrainPC, WakePC, DonePC, PowerPC
<1>9. RunnerInv(r)'
  <2>1. pc'[r] \notin OpPC \cup DonePC BY ZenonT(60), <1>8
  <2>2. QED BY <1>1, <1>7, <2>1, Starts
<1>10. AssembleInv(r)' /\ ShellInv(r)' BY ZenonT(60), <1>3, <1>4, <1>8 DEF AssembleInv, ShellInv
<1>11. QED BY <1>1, <1>5, <1>6, <1>9, <1>10, OneMoves, SameWorld

(* Whatever a shell starts: a command that only prints, a power command or  *)
(* an operation.                                                            *)
LEMMA MainOK ==
    ASSUME IInv, NEW r \in Shell, main(r), UNCHANGED apivars, ~Opposed'
    PROVE  IInv'
<1>1. /\ r \in Runner /\ FETypeOK /\ OperateTypeOK(FEPC) /\ ApiTypeOK /\ CliTypeOK
      /\ pc[r] = "idle" /\ UNCHANGED world
  BY ZenonT(60), CliAssumption DEF IInv, FETypeOK, main
<1>2. ASSUME NEW c \in {0, 1, 2}, Prints(r, c) PROVE IInv'
  <2>1. UNCHANGED opvars /\ Exits(r, c) BY <1>2 DEF Prints
  <2>2. c \in {NoCode, 0, 1, 2} OBVIOUS
  <2>3. exit' \in [Shell -> {NoCode, 0, 1, 2}] /\ \A s \in Shell \ {r} : exit'[s] = exit[s]
    BY ZenonT(60), <2>1, <2>2, ExitsOK
  <2>4. FETypeOK'
    BY ZenonT(60), <1>1, <2>1, <2>3
       DEF FETypeOK, OperateTypeOK, ApiTypeOK, CliTypeOK, WorldTypeOK, world, hardware, kube, opvars, apivars
  <2>5. \A s \in Shell : pc[s] # "idle" => exit'[s] = exit[s] BY ZenonT(60), <1>1, <2>3
  <2>6. QED BY ZenonT(60), <1>1, <2>1, <2>4, <2>5, QuietOK DEF opvars
<1>3. CASE usage(r) \/ loadFails(r) \/ printStatus(r) \/ unknownNode(r) \/ dryRun(r)
  <2>1. Prints(r, 0) \/ Prints(r, 1) \/ Prints(r, 2)
    BY ZenonT(60), <1>3 DEF usage, loadFails, printStatus, unknownNode, dryRun
  <2>2. QED BY <1>2, <2>1
<1>4. CASE runPower(r) BY ZenonT(60), <1>1, <1>4, RunPowerOK
<1>5. ASSUME NEW raw \in RawInventory, Load(raw), NEW n \in DOMAIN raw, NEW a \in AssemblePC,
             NEW o \in Options, Run(r, n, raw[n], a, o)
      PROVE  IInv'
  <2>1. n \in Node /\ kubeNameOf(n, raw[n]) = K(n) BY <1>5, LoadOK
  <2>2. n \in PathNode /\ K(n) \in KubeNode \cup {NoNode} BY <2>1, WorldAssumption DEF PathNode, K
  <2>3. /\ Begin(r, n, a, o) /\ kname' = [kname EXCEPT ![r] = K(n)]
        /\ Exits(r, NoCode) /\ UNCHANGED <<cancelled, todo, steps>>
    BY ZenonT(60), <1>5, <2>1 DEF Run
  <2>4. /\ exit' \in [Shell -> {NoCode, 0, 1, 2}] /\ exit'[r] = NoCode
        /\ \A s \in Shell \ {r} : exit'[s] = exit[s]
    BY <2>3, ExitsOK
  <2>5. ApiTypeOK' BY <1>1 DEF ApiTypeOK, apivars
  <2>6. QED BY ZenonT(60), <1>1, <2>1, <2>2, <2>3, <2>4, <2>5, BeginOK
<1>6. CASE runDrainShutdown(r) \/ runWake(r)
  <2>1. \A b \in BOOLEAN : /\ [NoOptions EXCEPT !.ForceBMCOff = b] \in Options
                           /\ [NoOptions EXCEPT !.ExpectGPU = b] \in Options
    BY ZenonT(60) DEF NoOptions, Options
  <2>2. QED BY ZenonT(60), <1>5, <1>6, <2>1 DEF runDrainShutdown, runWake, AssemblePC, ExpectGPU
<1>7. QED BY <1>3, <1>4, <1>6 DEF main

(* A power call is made while no operation is on its machine. *)
LEMMA PowerCallOK ==
    ASSUME IInv, NEW r \in Shell, PowerCall(r), UNCHANGED apivars, ~Opposed'
    PROVE  IInv'
<1>1. /\ r \in Runner /\ FETypeOK /\ WorldTypeOK /\ PowerOS /\ ~Opposed
      /\ pc[r] \in PowerPC /\ target[r] \in Node
  BY ZenonT(60), CliAssumption, FETyped DEF IInv, ShellInv, PowerCall
<1>2. /\ Forget(r) /\ \E c \in {0, 1} : Exits(r, c)
      /\ UNCHANGED <<sessions, ready, gpu, cordoned, running, terminating, stable>>
      /\ PowerEffect(pc[r], target[r]) \/ UNCHANGED <<power, os>>
  BY ZenonT(60) DEF PowerCall, kube
<1>3. /\ power' \in [Node -> {"on", "off"}] /\ os' \in [Node -> {"down", "booted", "joined", "stopping"}]
      /\ \A n \in Node \ {target[r]} : power'[n] = power[n] /\ os'[n] = os[n]
      /\ power'[target[r]] = "off" => os'[target[r]] = "down"
  <2>1. power \in [Node -> {"on", "off"}] /\ os \in [Node -> {"down", "booted", "joined", "stopping"}]
    BY <1>1 DEF WorldTypeOK
  <2>2. power[target[r]] = "off" => os[target[r]] = "down" BY <1>1 DEF PowerOS
  <2>3. CASE UNCHANGED <<power, os>> BY ZenonT(60), <2>1, <2>2, <2>3
  <2>4. CASE PowerEffect(pc[r], target[r]) BY ZenonT(60), <1>1, <2>1, <2>2, <2>4 DEF PowerEffect
  <2>5. QED BY <1>2, <2>3, <2>4
<1>4. WorldTypeOK' BY ZenonT(60), <1>1, <1>2, <1>3 DEF WorldTypeOK
<1>5. PowerOS' BY ZenonT(60), <1>1, <1>3 DEF PowerOS
<1>6. exit' \in [Shell -> {NoCode, 0, 1, 2}] /\ \A s \in Shell \ {r} : exit'[s] = exit[s]
  BY ZenonT(60), <1>2, ExitsOK
<1>7. FETypeOK'
  <2>1. ApiTypeOK' BY ZenonT(60), <1>1 DEF FETypeOK, ApiTypeOK, apivars
  <2>2. QED BY ZenonT(60), <1>1, <1>2, <1>4, <1>6, <2>1, ForgetTypes DEF FETypeOK, CliTypeOK
<1>8. Alone(r) /\ RunnerInv(r)' /\ AssembleInv(r)' /\ ShellInv(r)' BY ZenonT(60), <1>1, <1>2, <1>6, Forgotten
<1>9. ASSUME NEW s \in Runner \ {r} PROVE RunnerInv(s)'
  <2>1. RunnerInv(s) BY DEF IInv
  <2>2. /\ pc'[s] = pc[s] /\ target'[s] = target[s] /\ kname'[s] = kname[s]
        /\ todo'[s] = todo[s] /\ steps'[s] = steps[s]
    BY <1>8 DEF Alone
  <2>3. NameInv(s)' /\ StepInv(s)' BY ZenonT(60), <2>1, <2>2 DEF RunnerInv, NameInv, StepInv
  <2>4. pc[s] \in DrainPC \cup {"slept"} => target[s] # target[r]
    BY ZenonT(60), <1>1 DEF Opposed, Drains
  <2>5. pc[s] \in DrainPC \cup {"slept"} => target[s] \in Node
    BY ZenonT(60), <2>1 DEF RunnerInv, NameInv, OpPC
  <2>6. pc[s] \in DrainPC \cup {"slept"} => power'[target[s]] = power[target[s]] /\ os'[target[s]] = os[target[s]]
    BY ZenonT(60), <1>3, <2>4, <2>5
  <2>7. WorldInv(s)'
    BY ZenonT(60), <1>2, <2>1, <2>2, <2>6
       DEF RunnerInv, WorldInv, PastCordon, PastDrain, PastGate, PastStop
  <2>8. QED BY <2>3, <2>7 DEF RunnerInv
<1>10. QED BY ZenonT(60), <1>1, <1>5, <1>7, <1>8, <1>9, OneMoves

(* Every step of a command keeps the invariant. *)
LEMMA CommandOK ==
    ASSUME IInv, CommandNext, UNCHANGED apivars, ~Opposed'
    PROVE  IInv'
<1>1. PICK r \in Shell : main(r) \/ CommandStep(r) \/ Signal(r) \/ Killed(r) BY DEF CommandNext
<1>2. /\ r \in Runner /\ FETypeOK /\ ApiTypeOK /\ CliTypeOK /\ ShellInv(r) /\ ApiTypeOK'
  BY CliAssumption DEF IInv, FETypeOK, ApiTypeOK, apivars
<1>3. CASE Assemble(r, kname[r]) /\ UNCHANGED exit
  <2>1. kname[r] = K(target[r]) BY <1>2, <1>3 DEF ShellInv, Assemble
  <2>2. QED BY <1>2, <1>3, <2>1, AssembleOK
<1>4. CASE OpStep(r) /\ UNCHANGED exit BY <1>2, <1>4, OperationOK
<1>5. CASE Report(r)
  <2>1. Forget(r) /\ UNCHANGED world /\ \E c \in {0, 1} : Exits(r, c)
    BY ZenonT(60), <1>5 DEF Report, ExitCode
  <2>2. exit' \in [Shell -> {NoCode, 0, 1, 2}] /\ \A s \in Shell \ {r} : exit'[s] = exit[s]
    BY ZenonT(60), <2>1, ExitsOK
  <2>3. QED BY <1>2, <2>1, <2>2, EndOK
<1>6. CASE Signal(r)
  <2>1. /\ cancelled' = [cancelled EXCEPT ![r] = TRUE]
        /\ UNCHANGED <<world, pc, target, kname, opts, todo, steps, exit>>
    BY <1>6 DEF Signal, CancelContext
  <2>2. FETypeOK'
    BY ZenonT(60), <1>2, <2>1 DEF FETypeOK, OperateTypeOK, CliTypeOK, WorldTypeOK, world, hardware, kube
  <2>3. QED BY <2>1, <2>2, QuietOK
<1>7. CASE Killed(r) BY ZenonT(60), <1>2, <1>7, EndOK DEF Killed, CliTypeOK
<1>8. QED BY <1>1, <1>3, <1>4, <1>5, <1>6, <1>7, MainOK, PowerCallOK DEF CommandStep

-----------------------------------------------------------------------------
(* The invariant and what follows from it. *)

(* Nothing runs at first, and every node is in service. *)
LEMMA InitOK == FEInit => IInv
<1> SUFFICES ASSUME FEInit PROVE IInv OBVIOUS
<1>1. WorldInit /\ OpInit /\ ApiInit /\ CliInit BY DEF FEInit, Init
<1>2. /\ pc = [r \in Runner |-> "idle"] /\ steps = [r \in Runner |-> << >>]
      /\ target = [r \in Runner |-> NoNode]
  BY <1>1 DEF OpInit
<1>3. FETypeOK
  <2>1. NoOptions \in Options /\ << >> \in Seq(Step) BY DEF NoOptions, Options
  <2>2. WorldTypeOK BY ZenonT(60), <1>1 DEF WorldInit, WorldTypeOK
  <2>3. "idle" \in FEPC BY ZenonT(60) DEF FEPC, ApiPC
  <2>4. OperateTypeOK(FEPC) BY <1>1, <2>1, <2>2, <2>3 DEF OpInit, OperateTypeOK
  <2>5. ApiTypeOK BY <1>1 DEF ApiInit, ApiTypeOK, Code
  <2>6. CliTypeOK BY <1>1, <1>2, CliAssumption DEF CliInit, CliTypeOK
  <2>7. QED BY <2>4, <2>5, <2>6 DEF FETypeOK
<1>4. PowerOS BY <1>1 DEF WorldInit, PowerOS
<1>5. ASSUME NEW r \in Runner PROVE pc[r] = "idle" /\ steps[r] = << >> BY <1>2
<1>6. ASSUME NEW r \in Runner PROVE RunnerInv(r) /\ AssembleInv(r) /\ ~Drains(r) /\ ~Wakes(r)
  BY ZenonT(60), <1>5
     DEF RunnerInv, NameInv, StepInv, WorldInv, AssembleInv, AssemblePC, OpPC, DrainPC, WakePC, DonePC,
         PastCordon, PastDrain, PastGate, PastStop, PastPowerOn, Drains, Wakes, FailedIn
<1>7. ~Opposed BY ZenonT(60), <1>6 DEF Opposed
<1>8. \A s \in Shell : ShellInv(s)
  BY ZenonT(60), <1>5, CliAssumption DEF ShellInv, AssemblePC, PowerPC
<1>9. QED BY <1>3, <1>4, <1>6, <1>7, <1>8 DEF IInv

(* Every step of the world, the server and the commands keeps the invariant. *)
LEMMA NextOK == IInv /\ [FENext]_everything => IInv'
<1> SUFFICES ASSUME IInv, [FENext]_everything PROVE IInv' OBVIOUS
<1>1. CASE FENext BY ZenonT(60), <1>1, WorldOK, RequestOK, CommandOK DEF FENext
<1>2. CASE UNCHANGED everything
  <2>1. UNCHANGED <<world, pc, target, kname, opts, cancelled, todo, steps, inFlight, resp, server, exit>>
    BY <1>2 DEF everything, vars, opvars, apivars
  <2>2. FETypeOK'
    BY <2>1 DEF IInv, FETypeOK, OperateTypeOK, ApiTypeOK, CliTypeOK, WorldTypeOK, world, hardware, kube
  <2>3. ~Opposed' BY ZenonT(60), <2>1 DEF IInv, Opposed, Drains, Wakes, FailedIn
  <2>4. QED BY <2>1, <2>2, <2>3, QuietOK
<1>3. QED BY <1>1, <1>2

(* The inductive invariant holds throughout. *)
THEOREM Invariance == FESpec => []IInv
BY InitOK, NextOK, PTL DEF FESpec

(* Every variable of both front-ends keeps its type; no command leaves the  *)
(* inventory it loaded.                                                     *)
THEOREM TypeCorrect == FESpec => []FETypeOK
<1>1. IInv => FETypeOK BY DEF IInv
<1>2. QED BY <1>1, Invariance, PTL

(* An operation that returned nil is still true when it is answered 200 or  *)
(* ends its command, although nothing locks its machine against the other   *)
(* front-end.                                                               *)
THEOREM SuccessUnlocked == FESpec => []SuccessHolds
<1>1. IInv => SuccessHolds
  BY ZenonT(60) DEF IInv, RunnerInv, WorldInv, SuccessHolds
<1>2. QED BY <1>1, Invariance, PTL

(* A drain that failed or was interrupted after its cordon left the node    *)
(* cordoned, and so did everyone else who drains it.                        *)
THEOREM FailedDrainUnlocked == FESpec => []FailedDrainStaysCordoned
<1>1. IInv => FailedDrainStaysCordoned
  BY ZenonT(60) DEF IInv, RunnerInv, WorldInv, FailedDrainStaysCordoned, CordonDone
<1>2. QED BY <1>1, Invariance, PTL

(* What a step of the system is, as far as the machines are concerned. *)
LEMMA Steps ==
    ASSUME FENext
    PROVE  \/ WorldNext
           \/ \E r \in Runner : OpStep(r)
           \/ \E r \in Shell : PowerCall(r)
           \/ UNCHANGED world
<1>1. RequestNext => (\E r \in Runner : OpStep(r)) \/ UNCHANGED world
  BY ZenonT(60), ApiAssumption
     DEF RequestNext, RequestStep, AnswerWithoutLock, AcceptDrainShutdown, AcceptWake, Accept,
         WriteActuatorConflict, Assemble, WriteOpResult, Disconnect, CancelContext
<1>2. CommandNext => \/ \E r \in Runner : OpStep(r)
                     \/ \E r \in Shell : PowerCall(r)
                     \/ UNCHANGED world
  BY ZenonT(60), CliAssumption
     DEF CommandNext, CommandStep, main, Assemble, Report, Signal, CancelContext, Killed
<1>3. QED BY ZenonT(60), <1>1, <1>2 DEF FENext, WorldNext

(* A machine is told to stop only by a power command, or cordoned, drained  *)
(* and detached, whichever of two drains made sure of which.                *)
THEOREM ShutdownUnlocked == FESpec => ShutdownSafeUnlocked
<1>1. ASSUME IInv, FENext, NEW n \in Node, os[n] # "stopping", os'[n] = "stopping",
             \A s \in Shell : pc[s] # "power-off"
      PROVE  cordoned[K(n)] /\ running[K(n)] = {} /\ (StorageGate => sessions[n] = {})
  <2>1. WorldTypeOK BY ZenonT(60), <1>1, FETyped DEF IInv
  <2>2. ~WorldNext BY ZenonT(60), <1>1, <2>1, WorldSafe
  <2>3. ~UNCHANGED world BY ZenonT(60), <1>1 DEF world, hardware
  <2>4. ASSUME NEW r \in Shell, PowerCall(r) PROVE FALSE
    <3>1. pc[r] # "power-off" /\ target[r] \in Node
      BY <1>1, <2>4 DEF IInv, ShellInv, PowerCall
    <3>2. PowerEffect(pc[r], target[r]) \/ os' = os BY ZenonT(60), <2>4 DEF PowerCall
    <3>3. os' = os \/ os' = [os EXCEPT ![target[r]] = "down"]
      BY ZenonT(60), <3>1, <3>2 DEF PowerEffect
    <3>4. QED BY ZenonT(60), <1>1, <2>1, <3>3 DEF WorldTypeOK
  <2>5. ASSUME NEW r \in Runner, OpStep(r)
        PROVE  cordoned[K(n)] /\ running[K(n)] = {} /\ (StorageGate => sessions[n] = {})
    BY ZenonT(60), <1>1, <2>1, <2>5, OpSafe DEF IInv
  <2>6. QED BY ZenonT(60), <1>1, <2>2, <2>3, <2>4, <2>5, Steps
<1>2. IInv /\ [FENext]_everything =>
        [\A n \in Node :
            /\ os[n] # "stopping" /\ os'[n] = "stopping"
            /\ \A s \in Shell : pc[s] # "power-off"
            => cordoned[K(n)] /\ running[K(n)] = {} /\ (StorageGate => sessions[n] = {})]_everything
  BY ZenonT(60), <1>1
<1>3. QED BY <1>2, Invariance, PTL DEF FESpec, ShutdownSafeUnlocked

(* Nobody runs "nightwatch power". *)
NoPowerCommand == \A s \in Shell : pc[s] \notin PowerPC

(* What a step is then. *)
LEMMA GatedSteps ==
    ASSUME [FENext]_everything, NoPowerCommand
    PROVE  WorldNext \/ (\E r \in Runner : OpStep(r)) \/ UNCHANGED world
<1>1. \A r \in Shell : ~PowerCall(r) BY DEF NoPowerCommand, PowerCall
<1>2. QED BY <1>1, Steps DEF everything, vars

(* As long as no power command goes round the gates, two front-ends without *)
(* a common lock keep the contract with the workloads that one keeps: any   *)
(* mix of requests and commands, cancelled, failing or killed, is one of    *)
(* its behaviours.                                                          *)
THEOREM ContractUnlocked == FESpec /\ []NoPowerCommand => ImplementsContract
<1>1. FEInit => Contract!Init BY ContractInit DEF FEInit, Init
<1>2. ASSUME IInv, NoPowerCommand, [FENext]_everything PROVE [Contract!Next]_Contract!vars
  <2>1. WorldTypeOK /\ PowerOS BY <1>2, FETyped DEF IInv
  <2>2. CASE WorldNext BY <2>1, <2>2, ContractWorld
  <2>3. ASSUME NEW r \in Runner, OpStep(r) PROVE [Contract!Next]_Contract!vars
    BY <1>2, <2>1, <2>3, ContractOp DEF IInv
  <2>4. CASE UNCHANGED world BY <2>4, ContractStutter DEF world, hardware, kube
  <2>5. QED BY <1>2, <2>2, <2>3, <2>4, GatedSteps
<1>3. QED BY <1>1, <1>2, Invariance, PTL DEF FESpec, ImplementsContract, Contract!Spec

(* Nor do two drains of one machine, the hard-off of one after the gate of  *)
(* the other, pull the power under an open session.                         *)
THEOREM PowerPulledUnlocked == FESpec /\ []NoPowerCommand => PowerPulledDetached
<1>1. ASSUME IInv, NoPowerCommand, [FENext]_everything, NEW n \in Node,
             StorageGate, power[n] = "on", power'[n] = "off", ~Crash(n)
      PROVE  sessions[n] = {}
  <2>1. WorldTypeOK BY <1>1, FETyped DEF IInv
  <2>2. CASE WorldNext BY ZenonT(60), <1>1, <2>1, <2>2, WorldSafe
  <2>3. ASSUME NEW r \in Runner, OpStep(r) PROVE sessions[n] = {}
    BY <1>1, <2>1, <2>3, OpSafe DEF IInv
  <2>4. CASE UNCHANGED world BY <1>1, <2>4 DEF world, hardware
  <2>5. QED BY <1>1, <2>2, <2>3, <2>4, GatedSteps
<1>2. IInv /\ NoPowerCommand /\ [FENext]_everything =>
        [\A n \in Node : StorageGate /\ power[n] = "on" /\ power'[n] = "off" /\ ~Crash(n)
             => sessions[n] = {}]_world
  BY ZenonT(60), <1>1
<1>3. QED BY <1>2, Invariance, PTL DEF FESpec, PowerPulledDetached

(* Exit code 0 of a drain or a wake command is the truth about the machine. *)
THEOREM ExitCodeCorrect == FESpec => ExitCodeTrue
<1>1. ASSUME IInv, FENext, NEW s \in Shell, pc[s] \in ActivePC, exit'[s] = 0
      PROVE  /\ steps[s] # << >>
             /\ IF steps[s][1].name = "cordon"
                   THEN power[target[s]] = "off" /\ cordoned[kname[s]]
                   ELSE ~cordoned[kname[s]]
  <2>1. s \in Runner /\ RunnerInv(s) BY <1>1, CliAssumption DEF IInv
  <2>2. pc[s] # "idle" /\ pc[s] \notin PowerPC
    BY ZenonT(60), <1>1 DEF ActivePC, AssemblePC, OpPC, DrainPC, WakePC, DonePC, PowerPC
  <2>3. exit[s] # 0 BY <1>1, <2>2 DEF IInv, ShellInv, NoCode
  <2>4. ASSUME NEW r \in Shell, NEW c \in {NoCode, 0, 1, 2}, Exits(r, c) PROVE r = s /\ c = 0
    <3>1. exit'[r] = c /\ \A x \in Shell \ {r} : exit'[x] = exit[x] BY <1>1, <2>4, ExitsOK
    <3>2. QED BY ZenonT(60), <1>1, <2>3, <3>1
  <2>5. PICK r \in Shell : main(r) \/ PowerCall(r) \/ Report(r)
    <3>1. exit' # exit BY <1>1, <2>3
    <3>2. QED BY ZenonT(60), <1>1, <3>1 DEF FENext, CommandNext, CommandStep, Signal, Killed
  <2>6. ~main(r)
    <3>1. ASSUME main(r) PROVE pc[r] = "idle" /\ \E c \in {NoCode, 0, 1, 2} : Exits(r, c)
      BY ZenonT(60), <3>1
         DEF main, usage, loadFails, printStatus, unknownNode, dryRun, Prints, runPower,
             runDrainShutdown, runWake, Run
    <3>2. QED BY <2>2, <2>4, <3>1
  <2>7. ~PowerCall(r)
    <3>1. ASSUME PowerCall(r) PROVE pc[r] \in PowerPC /\ \E c \in {NoCode, 0, 1, 2} : Exits(r, c)
      BY ZenonT(60), <3>1 DEF PowerCall
    <3>2. QED BY <2>2, <2>4, <3>1
  <2>8. Report(s) /\ ExitCode(s) = 0
    <3>1. Report(r) BY <2>5, <2>6, <2>7
    <3>2. Exits(r, ExitCode(r)) /\ ExitCode(r) \in {NoCode, 0, 1, 2} BY <3>1 DEF Report, ExitCode
    <3>3. QED BY <2>4, <3>1, <3>2
  <2>9. pc[s] \in {"slept", "woken"} BY <2>8 DEF Report, ExitCode, DonePC
  <2>10. CASE pc[s] = "slept"
    <3>1. /\ steps[s] # << >> /\ steps[s][1] = CordonDone
          /\ power[target[s]] = "off" /\ cordoned[kname[s]]
      BY ZenonT(60), <2>1, <2>10 DEF RunnerInv, StepInv, WorldInv
    <3>2. QED BY <3>1 DEF CordonDone
  <2>11. CASE pc[s] = "woken"
    <3>1. steps[s] # << >> /\ steps[s][1].name = "bmc-power-on" /\ ~cordoned[kname[s]]
      BY ZenonT(60), <2>1, <2>11 DEF RunnerInv, StepInv, WorldInv
    <3>2. QED BY <3>1
  <2>12. QED BY <2>9, <2>10, <2>11
<1>2. IInv /\ [FENext]_everything =>
        [\A s \in Shell :
            pc[s] \in ActivePC /\ exit'[s] = 0
               => /\ steps[s] # << >>
                  /\ IF steps[s][1].name = "cordon"
                        THEN power[target[s]] = "off" /\ cordoned[kname[s]]
                        ELSE ~cordoned[kname[s]]]_everything
  BY <1>1
<1>3. QED BY <1>2, Invariance, PTL DEF FESpec, ExitCodeTrue

=============================================================================
