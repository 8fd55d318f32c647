------------------------------ MODULE ApiProofs ------------------------------
(***************************************************************************)
(* Safety of the HTTP front-end for any number of machines, connections and *)
(* pods.  LifecycleProofs shows that a step of one operation keeps what     *)
(* another relies on as long as the two work on different machines; here    *)
(* the actuator lock is shown to keep them apart, across disconnects,       *)
(* shutdowns and restarts.                                                  *)
(***************************************************************************)
EXTENDS Api, LifecycleProofs

(* The locks that are held are those of the requests in progress. *)
LockInv ==
    /\ OneActuatorPerNode
    /\ LockHasOwner
    /\ \A r \in Connection : Active(r) => target[r] \in inFlight

(* Runners that are no connection have no part in this. *)
IdleInv == \A r \in Runner \ Connection : pc[r] = "idle"

(* An operation that is being assembled has recorded nothing. *)
AssembleInv(r) == pc[r] \in AssemblePC => steps[r] = << >>

IInv ==
    /\ TypeOK /\ PowerOS /\ LockInv /\ IdleInv
    /\ \A r \in Runner : RunnerInv(r) /\ AssembleInv(r)

(* The front-end's types are those the lifecycle lemmas ask for. *)
LEMMA ApiTyped == TypeOK => Typed(ApiPC)
BY DEF TypeOK, OperateTypeOK, ApiTypeOK, Typed, ApiPC

-----------------------------------------------------------------------------
(* A lifecycle step taken by a handler. *)
LEMMA HandlerOK ==
    ASSUME IInv, NEW r \in Connection, OpStep(r), UNCHANGED apivars
    PROVE  IInv'
<1>r. r \in Runner BY ApiAssumption
<1> USE <1>r
<1>1. Typed(ApiPC) /\ RunnerInv(r) /\ WorldTypeOK /\ PowerOS
  BY ApiTyped DEF IInv, TypeOK, OperateTypeOK, ApiTypeOK
<1>2. Local(r) BY <1>1, OpLocal
<1>3. TypeOK'
  <2>1. steps' \in [Runner -> Seq(Step)] /\ pc' \in [Runner -> ApiPC \cup OpPC \cup DonePC]
    BY <1>1, OpMoves
  <2>2. /\ WorldTypeOK' /\ todo' \in [Runner -> SUBSET Pod]
        /\ UNCHANGED <<target, kname, opts, cancelled>>
    BY <1>1, OpTypes
  <2>3. pc' \in [Runner -> ApiPC] BY <2>1 DEF ApiPC, ActivePC
  <2>4. QED BY <2>1, <2>2, <2>3 DEF IInv, TypeOK, OperateTypeOK, ApiTypeOK, apivars
<1>4. LockInv'
  <2>1. \A s \in Connection : Active(s)' = Active(s) /\ target'[s] = target[s]
    BY <1>2, ApiAssumption DEF Active, ActivePC, Local
  <2>2. inFlight' = inFlight BY DEF apivars
  <2>3. QED BY <2>1, <2>2 DEF IInv, LockInv, OneActuatorPerNode, LockHasOwner
<1>5. ASSUME NEW s \in Runner PROVE RunnerInv(s)' /\ AssembleInv(s)'
  <2>1. RunnerInv(s) /\ AssembleInv(s) BY DEF IInv
  <2>2. CASE s = r
    <3>1. RunnerInv(r)' BY <1>1, OpSelf
    <3>2. pc'[r] \notin AssemblePC
      BY ZenonT(60), <1>2 DEF Local, AssemblePC, OpPC, DrainPC, WakePC, DonePC
    <3>3. QED BY <2>2, <3>1, <3>2 DEF AssembleInv
  <2>3. CASE s # r
    <3>1. pc[s] \in OpPC \cup DonePC => target[s] # target[r]
      <4>1. CASE s \in Connection
        BY <1>2, <2>3, <4>1 DEF IInv, LockInv, OneActuatorPerNode, Active, ActivePC, Local
      <4>2. CASE s \notin Connection
        BY ZenonT(60), <4>2 DEF IInv, IdleInv, OpPC, DrainPC, WakePC, DonePC
      <4>3. QED BY <4>1, <4>2
    <3>2. RunnerInv(s)' BY <1>1, <1>2, <2>1, <2>3, <3>1, OthersKept
    <3>3. QED BY <1>2, <2>1, <2>3, <3>2 DEF AssembleInv, Local
  <2>4. QED BY <2>2, <2>3
<1>6. PowerOS' BY <1>1, OpPower
<1>7. IdleInv' BY ZenonT(60), <1>2 DEF IInv, IdleInv, Local
<1>8. QED BY <1>3, <1>4, <1>5, <1>6, <1>7 DEF IInv

(* A step of the world. *)
LEMMA WorldOK ==
    ASSUME IInv, WorldNext, UNCHANGED <<opvars, apivars>>
    PROVE  IInv'
<1>1. WorldTypeOK /\ PowerOS BY DEF IInv, TypeOK, OperateTypeOK, ApiTypeOK
<1>2. WorldTypeOK' /\ PowerOS' BY <1>1, WorldEffect
<1>3. TypeOK' BY <1>2 DEF IInv, TypeOK, OperateTypeOK, ApiTypeOK, opvars, apivars
<1>4. LockInv' /\ IdleInv'
  BY DEF IInv, LockInv, IdleInv, OneActuatorPerNode, LockHasOwner, Active, opvars, apivars
<1>5. \A r \in Runner : RunnerInv(r)' BY <1>1, WorldKeeps DEF IInv
<1>6. \A r \in Runner : AssembleInv(r)' BY DEF IInv, AssembleInv, opvars
<1>7. QED BY <1>2, <1>3, <1>4, <1>5, <1>6 DEF IInv

-----------------------------------------------------------------------------
(* The server's own steps. *)

(* A request that tryAcquire lets in takes a machine nobody else works on. *)
LEMMA AcceptOK ==
    ASSUME IInv, NEW r \in Connection, NEW n \in PathNode, NEW a \in AssemblePC, NEW o \in Options,
           Accept(r, n, a, o)
    PROVE  IInv'
<1>r. r \in Runner BY ApiAssumption
<1> USE <1>r
<1> USE DEF Accept, Begin, tryAcquire, Goto, Answer
<1>1. TypeOK' BY DEF IInv, TypeOK, OperateTypeOK, ApiTypeOK, WorldTypeOK, world, hardware, kube, Code, ApiPC, ActivePC
<1>2. /\ pc[r] = "idle" /\ pc' = [pc EXCEPT ![r] = a] /\ target' = [target EXCEPT ![r] = n]
      /\ pc \in [Runner -> ApiPC]
      /\ target \in [Runner -> PathNode \cup {NoNode}]
      /\ n \notin inFlight /\ inFlight' = inFlight \cup {n}
      /\ LockInv
  BY DEF IInv, TypeOK, OperateTypeOK, ApiTypeOK
<1>3. LockInv' /\ IdleInv'
  <2>1. /\ OneActuatorPerNode'
        /\ \A s \in Connection : Active(s)' => target'[s] \in inFlight'
    BY <1>2, ApiAssumption DEF LockInv, OneActuatorPerNode, Active
  <2>2. Active(r)' /\ target'[r] = n BY <1>2 DEF Active, ActivePC
  <2>3. \A s \in Connection : Active(s) => Active(s)' /\ target'[s] = target[s]
    BY <1>2, ApiAssumption DEF Active, ActivePC, AssemblePC, OpPC, DrainPC, WakePC, DonePC
  <2>4. LockHasOwner' BY <1>2, <2>2, <2>3 DEF LockInv, LockHasOwner
  <2>5. IdleInv' BY <1>2 DEF IInv, IdleInv
  <2>6. QED BY <2>1, <2>4, <2>5 DEF LockInv
<1>4. ASSUME NEW s \in Runner PROVE RunnerInv(s)' /\ AssembleInv(s)'
  <2>1. RunnerInv(s) /\ AssembleInv(s) BY DEF IInv
  <2>2. CASE s = r
    <3>1. steps'[r] = << >> BY ZenonT(60), <1>2, <2>1, <2>2 DEF RunnerInv, StepInv
    <3>2. pc'[r] \notin OpPC \cup DonePC
      BY ZenonT(60), <1>2 DEF AssemblePC, OpPC, DrainPC, WakePC, DonePC
    <3>3. QED BY <2>2, <3>1, <3>2, Starts DEF AssembleInv
  <2>3. CASE s # r
    BY <1>2, <2>1, <2>3, Untouched DEF AssembleInv
  <2>4. QED BY <2>2, <2>3
<1>5. PowerOS' BY DEF IInv, PowerOS, world, hardware
<1>6. QED BY <1>1, <1>3, <1>4, <1>5 DEF IInv

(* operate.DrainShutdown and operate.Wake start with the node's own name. *)
LEMMA AssembleOK ==
    ASSUME IInv, NEW r \in Connection, Assemble(r, kubeName(target[r])), UNCHANGED apivars
    PROVE  IInv'
<1>r. r \in Runner BY ApiAssumption
<1> USE <1>r
<1> USE DEF Assemble, Goto
<1>0. /\ pc[r] \in AssemblePC /\ pc'[r] \in {"cordon", "read-power", "err"}
      /\ \A s \in Runner \ {r} : pc'[s] = pc[s] /\ kname'[s] = kname[s]
      /\ pc'[r] # "err" => target[r] \in Node /\ kname'[r] = K(target[r])
      /\ UNCHANGED <<world, target, todo, steps, inFlight>>
  BY DEF IInv, TypeOK, OperateTypeOK, ApiTypeOK, apivars, kubeName, K
<1>1. TypeOK'
  <2>1. kname' \in [Runner -> KubeNode \cup {NoNode}]
    BY ZenonT(60), WorldAssumption DEF IInv, TypeOK, OperateTypeOK, ApiTypeOK, kubeName
  <2>2. pc' \in [Runner -> ApiPC]
    BY ZenonT(60) DEF IInv, TypeOK, OperateTypeOK, ApiTypeOK, ApiPC, ActivePC, OpPC, DrainPC, WakePC, DonePC
  <2>3. QED BY <2>1, <2>2 DEF IInv, TypeOK, OperateTypeOK, ApiTypeOK, WorldTypeOK, world, hardware, kube, apivars
<1>2. LockInv' /\ IdleInv'
  <2>1. \A s \in Connection : Active(s)' <=> Active(s)
    <3>1. pc[r] \in ActivePC /\ pc'[r] \in ActivePC
      BY <1>0 DEF ActivePC, OpPC, DrainPC, WakePC, DonePC
    <3>2. QED BY ZenonT(60), <1>0, <3>1, ApiAssumption DEF Active
  <2>2. LockInv' BY <1>0, <2>1 DEF IInv, LockInv, OneActuatorPerNode, LockHasOwner
  <2>3. IdleInv' BY ZenonT(60), <1>0 DEF IInv, IdleInv
  <2>4. QED BY <2>2, <2>3
<1>3. ASSUME NEW s \in Runner PROVE RunnerInv(s)' /\ AssembleInv(s)'
  <2>1. RunnerInv(s) /\ AssembleInv(s) BY DEF IInv
  <2>2. CASE s = r
    <3>1. steps'[r] = << >> BY <1>0, <2>1, <2>2 DEF AssembleInv
    <3>2. RunnerInv(r)' BY <1>0, <3>1, Starts
    <3>3. QED BY <2>2, <3>1, <3>2 DEF AssembleInv
  <2>3. CASE s # r BY <1>0, <2>1, <2>3, Untouched DEF AssembleInv
  <2>4. QED BY <2>2, <2>3
<1>4. PowerOS' BY <1>0 DEF IInv, PowerOS, world, hardware
<1>5. QED BY <1>1, <1>2, <1>3, <1>4 DEF IInv

(* The deferred release of a finished handler frees its machine only. *)
LEMMA ReleaseOK ==
    ASSUME IInv, NEW r \in Connection, WriteOpResult(r)
    PROVE  IInv'
<1>r. r \in Runner BY ApiAssumption
<1> USE <1>r
<1> USE DEF WriteOpResult, Release, Forget, Answer
<1>0. /\ Active(r) /\ pc'[r] = "idle" /\ steps'[r] = << >>
      /\ inFlight' = inFlight \ {target[r]}
      /\ \A s \in Runner \ {r} : /\ pc'[s] = pc[s] /\ target'[s] = target[s] /\ kname'[s] = kname[s]
                                /\ todo'[s] = todo[s] /\ steps'[s] = steps[s]
      /\ UNCHANGED world
  BY DEF IInv, TypeOK, OperateTypeOK, ApiTypeOK, Active, ActivePC
<1>1. TypeOK'
  <2>1. OpResultCode(r) \in Code BY DEF OpResultCode, Code
  <2>2. NoOptions \in Options BY DEF NoOptions, Options
  <2>3. << >> \in Seq(Step) OBVIOUS
  <2>4. OperateTypeOK(ApiPC)'
    BY <2>2, <2>3 DEF IInv, TypeOK, OperateTypeOK, WorldTypeOK, world, hardware, kube, ApiPC
  <2>5. ApiTypeOK' BY <2>1 DEF IInv, TypeOK, ApiTypeOK
  <2>6. QED BY <2>4, <2>5 DEF TypeOK
<1>2. LockInv' /\ IdleInv'
  <2>1. \A s \in Connection : Active(s)' => Active(s) /\ s # r
    BY ZenonT(60), <1>0, ApiAssumption
       DEF Active, ActivePC, AssemblePC, OpPC, DrainPC, WakePC, DonePC
  <2>2. \A s \in Connection : Active(s) /\ s # r => Active(s)' /\ target'[s] = target[s]
    BY ZenonT(60), <1>0, ApiAssumption DEF Active
  <2>3. LockHasOwner' BY <1>0, <2>2 DEF IInv, LockInv, LockHasOwner
  <2>4. LockInv' BY <1>0, <2>1, <2>3, ApiAssumption DEF IInv, LockInv, OneActuatorPerNode
  <2>5. IdleInv' BY ZenonT(60), <1>0 DEF IInv, IdleInv
  <2>6. QED BY <2>4, <2>5
<1>3. ASSUME NEW s \in Runner PROVE RunnerInv(s)' /\ AssembleInv(s)'
  <2>1. RunnerInv(s) /\ AssembleInv(s) BY DEF IInv
  <2>2. CASE s = r
    <3>1. pc'[r] \notin OpPC \cup DonePC
      BY ZenonT(60), <1>0 DEF OpPC, DrainPC, WakePC, DonePC
    <3>2. QED BY <1>0, <2>2, <3>1, Starts DEF AssembleInv
  <2>3. CASE s # r BY <1>0, <2>1, <2>3, Untouched DEF AssembleInv
  <2>4. QED BY <2>2, <2>3
<1>4. PowerOS' BY <1>0 DEF IInv, PowerOS, world, hardware
<1>5. QED BY <1>1, <1>2, <1>3, <1>4 DEF IInv

(* A server that exits or is killed leaves no runner and no lock behind. *)
LEMMA ExitOK ==
    ASSUME IInv, Exit
    PROVE  IInv'
<1> USE DEF Exit, ForgetAll
<1>1. TypeOK'
  <2>1. NoOptions \in Options /\ << >> \in Seq(Step) BY DEF NoOptions, Options
  <2>2. OperateTypeOK(ApiPC)'
    BY <2>1 DEF IInv, TypeOK, OperateTypeOK, WorldTypeOK, world, hardware, kube, ApiPC
  <2>3. ApiTypeOK' BY DEF ApiTypeOK, Code
  <2>4. QED BY <2>2, <2>3 DEF TypeOK
<1>2. LockInv' /\ IdleInv'
  <2>1. \A r \in Connection : ~Active(r)'
    BY ZenonT(60), ApiAssumption DEF Active, ActivePC, AssemblePC, OpPC, DrainPC, WakePC, DonePC
  <2>2. QED BY ZenonT(60), <2>1 DEF LockInv, IdleInv, OneActuatorPerNode, LockHasOwner
<1>3. ASSUME NEW s \in Runner PROVE RunnerInv(s)' /\ AssembleInv(s)'
  <2>1. steps'[s] = << >> /\ pc'[s] = "idle" OBVIOUS
  <2>2. pc'[s] \notin OpPC \cup DonePC BY ZenonT(60), <2>1 DEF OpPC, DrainPC, WakePC, DonePC
  <2>3. QED BY <2>1, <2>2, Starts DEF AssembleInv
<1>4. PowerOS' BY DEF IInv, PowerOS, world, hardware
<1>5. QED BY <1>1, <1>2, <1>3, <1>4 DEF IInv

(* Steps that only answer, cancel a context or change the server's mode. *)
LEMMA QuietOK ==
    ASSUME IInv, TypeOK', UNCHANGED <<world, pc, target, kname, todo, steps, inFlight>>
    PROVE  IInv'
<1>1. LockInv' /\ IdleInv' BY DEF IInv, LockInv, IdleInv, OneActuatorPerNode, LockHasOwner, Active
<1>2. \A r \in Runner : RunnerInv(r)' BY Untouched DEF IInv
<1>3. \A r \in Runner : AssembleInv(r)' BY DEF IInv, AssembleInv
<1>4. PowerOS' BY DEF IInv, PowerOS, world, hardware
<1>5. QED BY <1>1, <1>2, <1>3, <1>4 DEF IInv

-----------------------------------------------------------------------------

(* The server starts with no lock, no runner and every node in service. *)
LEMMA InitOK == Init => IInv
<1> SUFFICES ASSUME Init PROVE IInv OBVIOUS
<1> USE DEF Init, ApiInit, OpInit, WorldInit
<1>1. TypeOK
  <2>1. NoOptions \in Options /\ << >> \in Seq(Step) BY DEF NoOptions, Options
  <2>2. WorldTypeOK BY ZenonT(60) DEF WorldTypeOK
  <2>3. QED BY <2>1, <2>2 DEF TypeOK, OperateTypeOK, ApiTypeOK, ApiPC, Code
<1>2. LockInv /\ IdleInv
  <2>1. \A r \in Connection : ~Active(r)
    BY ZenonT(60), ApiAssumption DEF Active, ActivePC, AssemblePC, OpPC, DrainPC, WakePC, DonePC
  <2>2. QED BY ZenonT(60), <2>1 DEF LockInv, IdleInv, OneActuatorPerNode, LockHasOwner
<1>3. \A r \in Runner : RunnerInv(r) /\ AssembleInv(r)
  BY DEF RunnerInv, NameInv, StepInv, WorldInv, AssembleInv, OpPC, DrainPC, WakePC, DonePC,
     PastCordon, PastDrain, PastGate, PastStop, PastPowerOn
<1>4. PowerOS BY DEF PowerOS
<1>5. QED BY <1>1, <1>2, <1>3, <1>4 DEF IInv

(* Every step of the server, its requests and the world keeps the invariant. *)
LEMMA NextOK == IInv /\ [Next]_vars => IInv'
<1> SUFFICES ASSUME IInv, [Next]_vars PROVE IInv' OBVIOUS
<1>a. TypeOK BY DEF IInv
<1>1. CASE WorldNext /\ UNCHANGED <<opvars, apivars>>
  BY <1>1, WorldOK
<1>2. ASSUME NEW r \in Connection, AnswerWithoutLock(r) \/ WriteActuatorConflict(r)
      PROVE  IInv'
  <2>1. /\ \E c \in Code : Answer(r, c)
        /\ UNCHANGED <<world, opvars, inFlight, server>>
    BY <1>2 DEF AnswerWithoutLock, auth, decodeBody, statusOrDryRun, WriteActuatorConflict, Code
  <2>2. TypeOK'
    BY <1>a, <2>1 DEF TypeOK, OperateTypeOK, ApiTypeOK, WorldTypeOK, world, hardware, kube, opvars, Answer
  <2>3. QED BY <2>1, <2>2, QuietOK DEF opvars
<1>3. ASSUME NEW r \in Connection, AcceptDrainShutdown(r) \/ AcceptWake(r)
      PROVE  IInv'
  <2>1. \A b \in BOOLEAN : /\ [NoOptions EXCEPT !.ForceBMCOff = b] \in Options
                           /\ [NoOptions EXCEPT !.ExpectGPU = b] \in Options
    BY ZenonT(60) DEF NoOptions, Options
  <2>2. QED BY ZenonT(60), <1>3, <2>1, AcceptOK DEF AcceptDrainShutdown, AcceptWake, AssemblePC, ExpectGPU
<1>4. ASSUME NEW r \in Connection, OpStep(r), UNCHANGED apivars
      PROVE  IInv'
  BY <1>4, HandlerOK
<1>5. ASSUME NEW r \in Connection, Disconnect(r)
      PROVE  IInv'
  <2>1. TypeOK'
    BY ZenonT(60), <1>a, <1>5 DEF Disconnect, CancelContext, TypeOK, OperateTypeOK, ApiTypeOK, WorldTypeOK, world, hardware, kube, apivars
  <2>2. QED BY <1>5, <2>1, QuietOK DEF Disconnect, CancelContext, apivars
<1>6. CASE Sigterm \/ Restart
  <2>1. TypeOK'
    BY <1>a, <1>6 DEF Sigterm, Restart, TypeOK, OperateTypeOK, ApiTypeOK, WorldTypeOK, world, hardware, kube, opvars
  <2>2. QED BY <1>6, <2>1, QuietOK DEF Sigterm, Restart, opvars
<1>7. CASE ShutdownDrained \/ ShutdownDeadline \/ Kill
  BY <1>7, ExitOK DEF ShutdownDrained, ShutdownDeadline, Kill
<1>8. CASE UNCHANGED vars
  <2>1. TypeOK' BY <1>a, <1>8 DEF TypeOK, OperateTypeOK, ApiTypeOK, WorldTypeOK, vars, world, hardware, kube, opvars, apivars
  <2>2. QED BY <1>8, <2>1, QuietOK DEF vars, opvars, apivars
<1>9. QED
  BY <1>1, <1>2, <1>3, <1>4, <1>5, <1>6, <1>7, <1>8, AssembleOK, ReleaseOK DEF Next, RequestNext, RequestStep

(* The inductive invariant holds throughout. *)
THEOREM Invariance == Spec => []IInv
BY InitOK, NextOK, PTL DEF Spec

(* Every variable keeps its type, for any inventory, cluster and load. *)
THEOREM TypeCorrect == Spec => []TypeOK
<1>1. IInv => TypeOK BY DEF IInv
<1>2. QED BY <1>1, Invariance, PTL

(* tryAcquire and the deferred release give each node one actuator request. *)
THEOREM MutualExclusion == Spec => []OneActuatorPerNode
<1>1. IInv => OneActuatorPerNode BY DEF IInv, LockInv
<1>2. QED BY <1>1, Invariance, PTL

(* No lock outlives its request, whatever ends that request. *)
THEOREM LockFreed == Spec => []LockHasOwner
<1>1. IInv => LockHasOwner BY DEF IInv, LockInv
<1>2. QED BY <1>1, Invariance, PTL

(* An operation that returned nil is still true when it is answered 200. *)
THEOREM SuccessCorrect == Spec => []SuccessHolds
<1>1. IInv => SuccessHolds
  BY ZenonT(60) DEF IInv, RunnerInv, WorldInv, SuccessHolds
<1>2. QED BY <1>1, Invariance, PTL

(* A drain-shutdown that failed after its cordon left the node cordoned. *)
THEOREM FailedDrainCorrect == Spec => []FailedDrainStaysCordoned
<1>1. IInv => FailedDrainStaysCordoned
  BY ZenonT(60) DEF IInv, RunnerInv, WorldInv, FailedDrainStaysCordoned, CordonDone
<1>2. QED BY <1>1, Invariance, PTL

-----------------------------------------------------------------------------
(* What a step of the system is, as far as the machines are concerned. *)
LEMMA Steps ==
    ASSUME [Next]_vars
    PROVE  WorldNext \/ (\E r \in Runner : OpStep(r)) \/ UNCHANGED world
BY ZenonT(60), ApiAssumption DEF Next, RequestNext, RequestStep, AnswerWithoutLock, AcceptDrainShutdown, AcceptWake, Accept,
   WriteActuatorConflict, Assemble, WriteOpResult, Disconnect, CancelContext, Sigterm, ShutdownDrained,
   ShutdownDeadline, Kill, Exit, Restart, vars

(* The storage gate, read once and long before, still holds when power is   *)
(* pulled: no session is open on a machine that Nightwatch turns off.       *)
THEOREM PowerPulledCorrect == Spec => PowerPulledDetached
<1>1. ASSUME IInv, [Next]_vars, NEW n \in Node,
             StorageGate, power[n] = "on", power'[n] = "off", ~Crash(n)
      PROVE  sessions[n] = {}
  <2>1. WorldTypeOK BY ZenonT(60), <1>1 DEF IInv, TypeOK, OperateTypeOK, ApiTypeOK
  <2>2. CASE WorldNext BY <1>1, <2>1, <2>2, WorldSafe
  <2>3. ASSUME NEW r \in Runner, OpStep(r) PROVE sessions[n] = {}
    BY <1>1, <2>1, <2>3, OpSafe DEF IInv
  <2>4. CASE UNCHANGED world BY <1>1, <2>4 DEF world, hardware
  <2>5. QED BY <1>1, <2>2, <2>3, <2>4, Steps
<1>2. IInv /\ [Next]_vars =>
        [\A n \in Node : StorageGate /\ power[n] = "on" /\ power'[n] = "off" /\ ~Crash(n)
             => sessions[n] = {}]_world
  BY ZenonT(60), <1>1
<1>3. QED BY <1>2, Invariance, PTL DEF Spec, PowerPulledDetached

(* The OS is told to stop only on a machine whose own node is cordoned and  *)
(* drained, in every interleaving of requests, disconnects and restarts.    *)
THEOREM ShutdownCorrect == Spec => ShutdownOnlyDrained
<1>1. ASSUME IInv, [Next]_vars, NEW n \in Node, os[n] # "stopping", os'[n] = "stopping"
      PROVE  cordoned[K(n)] /\ running[K(n)] = {}
  <2>1. WorldTypeOK BY <1>1 DEF IInv, TypeOK, OperateTypeOK, ApiTypeOK
  <2>2. ~WorldNext BY <1>1, <2>1, WorldSafe
  <2>3. ~UNCHANGED world BY <1>1 DEF world, hardware
  <2>4. ASSUME NEW r \in Runner, OpStep(r) PROVE cordoned[K(n)] /\ running[K(n)] = {}
    BY <1>1, <2>1, <2>4, OpSafe DEF IInv
  <2>5. QED BY <1>1, <2>2, <2>3, <2>4, Steps
<1>2. IInv /\ [Next]_vars =>
        [\A n \in Node : os[n] # "stopping" /\ os'[n] = "stopping"
             => cordoned[K(n)] /\ running[K(n)] = {}]_world
  BY ZenonT(60), <1>1
<1>3. QED BY <1>2, Invariance, PTL DEF Spec, ShutdownOnlyDrained

(* And, with a storage gate, only when the target shows no session of it,   *)
(* although the table was read one step earlier.                            *)
THEOREM DetachedCorrect == Spec => ShutdownOnlyDetached
<1>1. ASSUME IInv, [Next]_vars, NEW n \in Node, StorageGate, os[n] # "stopping", os'[n] = "stopping"
      PROVE  sessions[n] = {}
  <2>1. WorldTypeOK BY <1>1 DEF IInv, TypeOK, OperateTypeOK
  <2>2. ~WorldNext BY <1>1, <2>1, WorldSafe
  <2>3. ~UNCHANGED world BY <1>1 DEF world, hardware
  <2>4. ASSUME NEW r \in Runner, OpStep(r) PROVE sessions[n] = {}
    BY <1>1, <2>1, <2>4, OpSafe DEF IInv
  <2>5. QED BY <1>1, <2>2, <2>3, <2>4, Steps
<1>2. IInv /\ [Next]_vars =>
        [\A n \in Node : StorageGate /\ os[n] # "stopping" /\ os'[n] = "stopping"
             => sessions[n] = {}]_world
  BY ZenonT(60), <1>1
<1>3. QED BY <1>2, Invariance, PTL DEF Spec, ShutdownOnlyDetached

(* The HTTP front-end keeps the contract with the workloads: any mix of     *)
(* requests, disconnects, lost replies, kills and restarts is one of its    *)
(* behaviours.                                                              *)
THEOREM ContractKept == Spec => ImplementsContract
<1>1. Init => Contract!Init BY ContractInit DEF Init
<1>2. ASSUME IInv, [Next]_vars PROVE [Contract!Next]_Contract!vars
  <2>1. WorldTypeOK /\ PowerOS BY <1>2 DEF IInv, TypeOK, OperateTypeOK, ApiTypeOK
  <2>2. CASE WorldNext BY <2>1, <2>2, ContractWorld
  <2>3. ASSUME NEW r \in Runner, OpStep(r) PROVE [Contract!Next]_Contract!vars
    BY <1>2, <2>1, <2>3, ContractOp DEF IInv
  <2>4. CASE UNCHANGED world BY <2>4, ContractStutter DEF world, hardware, kube
  <2>5. QED BY <1>2, <2>2, <2>3, <2>4, Steps
<1>3. QED BY <1>1, <1>2, Invariance, PTL DEF Spec, ImplementsContract, Contract!Spec

=============================================================================
