------------------------------ MODULE BmcProofs ------------------------------
(***************************************************************************)
(* Both drivers implement bmc.Adapter.  The bridge between the two levels   *)
(* is what a response in hand says: of the power state, what the host has   *)
(* shown since the call began; of an action, that it was taken if it reads  *)
(* as a success.                                                            *)
(***************************************************************************)
EXTENDS Bmc, TLAPS

(* The request on the wire is one of the method being called. *)
RequestInv ==
    /\ wire = "none" <=> op = "idle"
    /\ wire # "none" => op \in A!Op
    /\ request \in {"Enumerate", "Pull", "GetSystem"} => op = "GetPowerState"
    /\ request \in {"RequestPowerStateChange", "Reset"} => op \in A!Change
    /\ request = "none" => wire = "none"
    /\ request \in {"Enumerate", "Pull"} => driver = "amt"
    /\ request = "GetSystem" => driver = "redfish"

(* The controller has not seen an action whose request is under way. *)
MineInv ==
    /\ wire = "request" => mine = "unseen"
    /\ request = "Enumerate" => mine = "unseen"

(* A response says of the host what it has shown. *)
ReportInv ==
    wire = "response" /\ status = "2xx" =>
        /\ request = "Pull" =>
              \A value \in body : \E state \in shown : value \in PowerCode(state)
        /\ request = "GetSystem" =>
              \A value \in body : \E state \in shown : value \in PowerName(state)

(* A response that reads as a success was given by a controller that acted. *)
AcceptInv ==
    /\ wire = "response" /\ request = "RequestPowerStateChange" /\ Accepted => mine = "taken"
    /\ wire = "response" /\ request = "Reset" /\ status = "2xx" => mine = "taken"

IInv == /\ shown \subseteq A!HostState /\ host \in A!HostState /\ host \in shown
        /\ driver \in Driver
        /\ RequestInv /\ MineInv /\ ReportInv /\ AcceptInv

(* Nothing is on the wire at first. *)
LEMMA InitOK == Init => IInv
BY DEF Init, A!Init, A!HostState, A!Change, IInv, RequestInv, MineInv, ReportInv, AcceptInv

(* The machine, its button and the jobs of the controller. *)
LEMMA MachineInv == ASSUME IInv, MachineStep PROVE IInv'
<1> USE DEF IInv
<1>1. /\ UNCHANGED <<op, mine, driver, http>>
      /\ host' \in A!HostState /\ shown \subseteq shown'
      /\ shown' \subseteq A!HostState /\ host' \in shown'
  BY ZenonT(60) DEF MachineStep, A!HostChanges, A!HostBecomes, A!Execute, A!AcceptLate, A!machine, http,
         A!Intended, A!HostState
<1>2. RequestInv' /\ MineInv' /\ AcceptInv'
  BY <1>1 DEF RequestInv, MineInv, AcceptInv, Accepted, http
<1>3. ReportInv' BY <1>1 DEF ReportInv, http
<1>4. QED BY <1>1, <1>2, <1>3 DEF http

(* What the controller answers. *)
LEMMA ControllerInv == ASSUME IInv, Refuse \/ Report \/ AcceptChange PROVE IInv'
<1> USE DEF IInv, Respond, machine
<1>1. CASE Refuse
  BY <1>1 DEF Refuse, RequestInv, MineInv, ReportInv, AcceptInv, Accepted
<1>2. CASE Report
  BY <1>2 DEF Report, RequestInv, MineInv, ReportInv, AcceptInv, Accepted
<1>3. CASE AcceptChange
  BY <1>3 DEF AcceptChange, RequestInv, MineInv, ReportInv, AcceptInv, Accepted
<1>4. QED BY <1>1, <1>2, <1>3

(* What the client sends and returns. *)
LEMMA ClientInv ==
    ASSUME IInv, (\E o \in Called : Call(o)) \/ ClientStep \/ Timeout PROVE IInv'
<1> USE BmcAssumption DEF IInv, RequestInv, MineInv, ReportInv, AcceptInv, machine
<1>1. CASE \E o \in Called : Call(o)
  BY <1>1 DEF Call, A!Call, A!machine, Post, AMTRequest, RedfishRequest, A!Op, A!Change,
     Driver
<1>2. CASE Pulled \/ GotSystem BY <1>2 DEF Pulled, GotSystem, ReturnReading, Return
<1>3. CASE Enumerated BY <1>3 DEF Enumerated, Return, Post
<1>4. CASE requestPowerChange \/ reset BY <1>4 DEF requestPowerChange, reset, Return
<1>5. CASE Timeout BY <1>5 DEF Timeout
<1>6. QED BY <1>1, <1>2, <1>3, <1>4, <1>5 DEF ClientStep

(* Every step keeps the invariant. *)
LEMMA InvStep == ASSUME IInv, [Next]_vars PROVE IInv'
<1>1. CASE UNCHANGED vars
  BY <1>1 DEF vars, http, machine, IInv, RequestInv, MineInv, ReportInv, AcceptInv, Accepted
<1>2. QED BY <1>1, MachineInv, ControllerInv, ClientInv DEF Next

(* The inductive invariant holds throughout. *)
THEOREM Invariance == Spec => []IInv
BY InitOK, InvStep, PTL DEF Spec

(* A state that GetPowerState maps to on or off is one the host has shown. *)
LEMMA ReadingTrue ==
    ASSUME IInv, request \in {"Pull", "GetSystem"}, wire = "response", status = "2xx",
           NEW value \in body, mapReadPowerState(value) # "unknown"
    PROVE  mapReadPowerState(value) \in shown \ {"other"}
<1> USE DEF IInv, RequestInv, ReportInv, mapReadPowerState, PowerStateOfCode, PowerStateOfName, A!HostState
<1>1. CASE request = "Pull"
  <2>1. PICK state \in shown : value \in PowerCode(state) BY <1>1
  <2>2. QED BY <1>1, <2>1 DEF PowerCode
<1>2. CASE request = "GetSystem"
  <2>1. PICK state \in shown : value \in PowerName(state) BY <1>2
  <2>2. QED BY <1>2, <2>1 DEF PowerName
<1>3. QED BY <1>1, <1>2

(* Every step of a driver is a step of the adapter, or none. *)
LEMMA Simulation == ASSUME IInv, [Next]_vars PROVE [A!Next]_A!vars
<1> USE DEF A!vars, A!machine, machine
<1>0. A!ErrorResult \in A!Result
      /\ \A state \in {"on", "off"} : A!OKResult(state) \in A!Result
  BY DEF A!ErrorResult, A!OKResult, A!Result, A!PowerState
<1>1. CASE MachineStep BY <1>1 DEF MachineStep, A!Next
<1>2. CASE Refuse \/ Report BY <1>2 DEF Refuse, Report, Respond
<1>3. CASE AcceptChange
  <2>1. A!Accept
    BY <1>3 DEF AcceptChange, Respond, A!Accept, IInv, RequestInv, MineInv
  <2>2. QED BY <2>1 DEF A!Next
<1>4. CASE \E o \in Called : Call(o) BY <1>4, BmcAssumption DEF Call, A!Next
<1>5. CASE Pulled \/ GotSystem
  <2>1. op = "GetPowerState" BY <1>5 DEF Pulled, GotSystem, IInv, RequestInv
  <2>2. CASE Return(A!ErrorResult)
    <3>1. A!Return(A!ErrorResult) BY <2>1, <2>2 DEF Return, A!Return, A!Promised
    <3>2. QED BY <3>1, <1>0 DEF A!Next
  <2>3. ASSUME NEW value \in body, status = "2xx",
               Return(PowerResult(mapReadPowerState(value))),
               mapReadPowerState(value) # "unknown"
        PROVE  A!Next
    <3> DEFINE state == mapReadPowerState(value)
    <3>1. state \in shown \ {"other"} BY <1>5, <2>3, ReadingTrue DEF Pulled, GotSystem, ReturnReading
    <3>2. state \in {"on", "off"} BY ZenonT(60), <3>1 DEF IInv, A!HostState
    <3>3. Return(A!OKResult(state)) BY <2>3 DEF PowerResult
    <3>4. A!Return(A!OKResult(state)) BY <2>1, <3>1, <3>3 DEF Return, A!Return, A!Promised
    <3>5. QED BY <3>2, <3>4, <1>0 DEF A!Next
  <2>4. QED BY <1>5, <2>2, <2>3 DEF Pulled, GotSystem, ReturnReading, PowerResult
<1>6. CASE Enumerated
  <2>1. op # "idle" BY <1>6 DEF Enumerated, IInv, RequestInv
  <2>2. CASE Return(A!ErrorResult)
    <3>1. A!Return(A!ErrorResult) BY <2>1, <2>2 DEF Return, A!Return, A!Promised
    <3>2. QED BY <3>1, <1>0 DEF A!Next
  <2>3. QED BY <1>6, <2>2 DEF Enumerated
<1>7. CASE requestPowerChange \/ reset
  <2>1. op \in A!Change /\ op # "idle"
    BY <1>7 DEF requestPowerChange, reset, IInv, RequestInv, A!Change
  <2>2. CASE Return(A!ErrorResult)
    <3>1. A!Return(A!ErrorResult) BY <2>1, <2>2 DEF Return, A!Return, A!Promised
    <3>2. QED BY <3>1, <1>0 DEF A!Next
  <2>3. ASSUME mine = "taken", Return(A!OKResult(intendedPowerState)) PROVE A!Next
    <3>1. A!Intended(op) \in {"on", "off"} BY DEF A!Intended
    <3>2. A!Return(A!OKResult(A!Intended(op)))
      BY <2>1, <2>3 DEF Return, A!Return, A!Promised, intendedPowerState
    <3>3. QED BY <3>1, <3>2, <1>0 DEF A!Next
  <2>4. QED BY <1>7, <2>2, <2>3 DEF requestPowerChange, reset, IInv, AcceptInv
<1>8. CASE Timeout
  <2>1. op # "idle" BY <1>8 DEF Timeout, IInv, RequestInv
  <2>2. A!Return(A!ErrorResult)
    BY <1>8, <2>1 DEF Timeout, A!Return, A!Promised, IInv, MineInv
  <2>3. QED BY <2>2, <1>0 DEF A!Next
<1>9. CASE UNCHANGED vars BY <1>9 DEF vars
<1>10. QED
  BY <1>1, <1>2, <1>3, <1>4, <1>5, <1>6, <1>7, <1>8, <1>9 DEF Next, ClientStep

(* AMT and Redfish implement bmc.Adapter: no driver makes up a power state or *)
(* claims a power action that the controller did not accept.                  *)
THEOREM AdapterCorrect == Spec => ImplementsAdapter
<1>1. Init => A!Init BY DEF Init
<1>2. QED BY <1>1, Invariance, Simulation, PTL DEF Spec, ImplementsAdapter, A!Spec

-----------------------------------------------------------------------------
(* Types: of what the adapter promises, and of the HTTP exchange below it *)

AdapterType ==
    /\ host \in A!HostState /\ shown \subseteq A!HostState
    /\ op \in A!Op \cup {"idle"} /\ mine \in {"unseen", "taken"}
    /\ late \subseteq A!Change /\ jobs \subseteq A!Change
    /\ result \in A!Result

HttpType ==
    /\ driver \in Driver
    /\ request \in Request /\ wire \in {"none", "request", "response"}
    /\ status \in {"2xx", "other"} /\ body \subseteq Value(request)

(* Every step that bmc.Adapter allows keeps the types of its state. *)
LEMMA AdapterTypeStep == ASSUME AdapterType, [A!Next]_A!vars PROVE AdapterType'
<1> USE DEF AdapterType
<1>1. CASE A!HostChanges
  BY <1>1 DEF A!HostChanges, A!HostBecomes
<1>2. CASE A!Accept
  BY <1>2 DEF A!Accept, A!machine
<1>3. ASSUME NEW o \in A!Change, A!Execute(o) PROVE AdapterType'
  BY ZenonT(60), <1>3 DEF A!Execute, A!HostBecomes, A!Intended, A!HostState, A!machine
<1>4. ASSUME NEW o \in A!Change, A!AcceptLate(o) PROVE AdapterType'
  BY <1>4 DEF A!AcceptLate, A!machine
<1>5. ASSUME NEW o \in A!Op, A!Call(o) PROVE AdapterType'
  BY <1>5 DEF A!Call
<1>6. ASSUME NEW res \in A!Result, A!Return(res) PROVE AdapterType'
  BY <1>6 DEF A!Return, A!machine
<1>7. CASE UNCHANGED A!vars
  BY <1>7 DEF A!vars, A!machine
<1>8. QED BY <1>1, <1>2, <1>3, <1>4, <1>5, <1>6, <1>7 DEF A!Next

(* Every request and response of the two drivers keeps the types of the     *)
(* exchange: a body holds a value of the kind its request asks for.         *)
LEMMA HttpTypeStep == ASSUME IInv, HttpType, [Next]_vars PROVE HttpType'
<1> USE DEF HttpType, Request
<1>1. CASE MachineStep \/ UNCHANGED vars
  BY <1>1 DEF MachineStep, vars, http
<1>2. CASE Refuse
  BY <1>2 DEF Refuse, Respond, Value
<1>3. CASE Report
  <2>1. \A state \in A!HostState : /\ PowerCode(state) \subseteq Value("Pull")
                                   /\ PowerName(state) \subseteq Value("GetSystem")
    BY DEF A!HostState, PowerCode, PowerName, Value
  <2>2. "context" \in Value("Enumerate")
    BY DEF Value
  <2>3. QED BY <1>3, <2>1, <2>2 DEF Report, Respond, IInv
<1>4. CASE AcceptChange
  BY <1>4 DEF AcceptChange, Respond, Value
<1>5. CASE \E o \in Called : Call(o)
  BY <1>5 DEF Call, Post, AMTRequest, RedfishRequest
<1>6. CASE Enumerated
  BY <1>6 DEF Enumerated, Post, Return
<1>7. CASE Pulled \/ GotSystem
  BY <1>7 DEF Pulled, GotSystem, ReturnReading, Return
<1>8. CASE requestPowerChange \/ reset
  BY <1>8 DEF requestPowerChange, reset, Return
<1>9. CASE Timeout
  BY <1>9 DEF Timeout
<1>10. QED
  BY <1>1, <1>2, <1>3, <1>4, <1>5, <1>6, <1>7, <1>8, <1>9 DEF Next, ClientStep

(* Every variable keeps its type; in particular a result holds one of the   *)
(* three power states, whatever the controller answered (Result).           *)
THEOREM TypeCorrect == Spec => []TypeOK
<1>1. Init => AdapterType /\ HttpType
  BY DEF Init, A!Init, A!ErrorResult, A!Result, A!PowerState, AdapterType, HttpType, Request
<1>2. IInv /\ AdapterType /\ HttpType /\ [Next]_vars => (AdapterType /\ HttpType)'
  BY Simulation, AdapterTypeStep, HttpTypeStep
<1>3. AdapterType /\ HttpType => TypeOK
  BY DEF AdapterType, HttpType, TypeOK
<1>4. QED BY <1>1, <1>2, <1>3, Invariance, PTL DEF Spec

=============================================================================
