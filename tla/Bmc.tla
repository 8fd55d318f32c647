-------------------------------- MODULE Bmc --------------------------------
(***************************************************************************)
(* The two drivers behind bmc.Adapter: AMT over WS-Man, which reads the     *)
(* power state with an Enumerate and a Pull and changes it with             *)
(* RequestPowerStateChange, and Redfish, which does each with one request.  *)
(* The controller may refuse, answer nonsense, answer late or never, and    *)
(* may act on a request whose answer the client gave up on.                 *)
(***************************************************************************)
EXTENDS Integers

CONSTANT Called             \* the methods of the adapter that are called

VARIABLES host, shown, op, mine, late, jobs, result     \* as in Adapter

VARIABLES
    driver,         \* which driver bmc.New chose
    request,        \* the HTTP request of the call
    wire,           \* where it is: none, request, response
    status,         \* the HTTP status of the response: 2xx or another
    body            \* the value its body holds for us: a set of at most one

A == INSTANCE Adapter

ASSUME BmcAssumption == Called \subseteq A!Op

machine == <<host, shown>>
http == <<request, wire, status, body>>
vars == <<machine, op, mine, late, jobs, result, driver, http>>

Driver == {"amt", "redfish"}
Request == {"none", "Enumerate", "Pull", "RequestPowerStateChange", "GetSystem", "Reset"}

(* What a controller can say of its host. *)
PowerCode(state) == CASE state = "on"    -> {2}
                      [] state = "off"   -> {6, 8, 13}
                      [] state = "other" -> {4, 7}
PowerName(state) == CASE state = "on"    -> {"On"}
                      [] state = "off"   -> {"Off"}
                      [] state = "other" -> {"PoweringOn"}

Value(q) == CASE q = "Enumerate" -> {"context"}
              [] q = "Pull"      -> {2, 4, 6, 7, 8, 13}
              [] q = "GetSystem" -> {"On", "Off", "PoweringOn"}
              [] q = "RequestPowerStateChange" -> {0, 1, 4096}
              [] OTHER -> {}

TypeOK ==
    /\ host \in A!HostState /\ shown \subseteq A!HostState
    /\ op \in A!Op \cup {"idle"} /\ mine \in {"unseen", "taken"}
    /\ late \subseteq A!Change /\ jobs \subseteq A!Change
    /\ result \in A!Result
    /\ driver \in Driver
    /\ request \in Request /\ wire \in {"none", "request", "response"}
    /\ status \in {"2xx", "other"} /\ body \subseteq Value(request)

Init ==
    /\ A!Init
    /\ driver \in Driver
    /\ request = "none" /\ wire = "none" /\ status = "other" /\ body = {}

-----------------------------------------------------------------------------
(* The machine and its controller (external). *)

MachineStep ==
    /\ A!HostChanges \/ \E o \in A!Change : A!Execute(o) \/ A!AcceptLate(o)
    /\ UNCHANGED <<driver, http>>

Respond(code, value) ==
    /\ wire = "request" /\ wire' = "response"
    /\ status' = code /\ body' = value
    /\ UNCHANGED <<machine, op, late, result, driver, request>>

Refuse ==
    /\ \/ Respond("other", {})
       \/ request = "RequestPowerStateChange" /\ Respond("2xx", {1})
    /\ UNCHANGED <<mine, jobs>>

Report ==
    /\ request \in {"Enumerate", "Pull", "GetSystem"}
    /\ \/ Respond("2xx", {})
       \/ request = "Enumerate" /\ Respond("2xx", {"context"})
       \/ request = "Pull" /\ \E code \in PowerCode(host) : Respond("2xx", {code})
       \/ request = "GetSystem" /\ \E name \in PowerName(host) : Respond("2xx", {name})
    /\ UNCHANGED <<mine, jobs>>

(* Done, or begun (4096), or a ReturnValue nobody can parse; an error that is *)
(* answered to an action that was accepted is the worst case.                 *)
AcceptChange ==
    /\ request \in {"RequestPowerStateChange", "Reset"}
    /\ \/ Respond("2xx", {}) \/ Respond("other", {})
       \/ request = "RequestPowerStateChange" /\ (Respond("2xx", {0}) \/ Respond("2xx", {4096}))
    /\ mine' = "taken" /\ jobs' = jobs \cup {op}

-----------------------------------------------------------------------------
(* The client *)

Post(q) == request' = q /\ wire' = "request" /\ status' = "other" /\ body' = {}

AMTRequest(o) == IF o = "GetPowerState" THEN "Enumerate" ELSE "RequestPowerStateChange"
RedfishRequest(o) == IF o = "GetPowerState" THEN "GetSystem" ELSE "Reset"

Call(o) ==
    /\ A!Call(o)
    /\ Post(IF driver = "amt" THEN AMTRequest(o) ELSE RedfishRequest(o))
    /\ UNCHANGED driver

Return(res) ==
    /\ op' = "idle" /\ result' = res
    /\ request' = "none" /\ wire' = "none" /\ status' = "other" /\ body' = {}
    /\ UNCHANGED <<machine, mine, late, jobs, driver>>

(* Mutant: what is not on is off. *)
mapReadPowerStateTotal(value) ==
    IF driver = "amt" THEN (IF value = 2 THEN "on" ELSE "off")
                      ELSE (IF value = "On" THEN "on" ELSE "off")

(* Sleep, hibernation and transient states are unknown. *)
PowerStateOfCode(code) ==
    CASE code = 2 -> "on" [] code \in {6, 8, 13} -> "off" [] OTHER -> "unknown"
PowerStateOfName(name) ==
    CASE name = "On" -> "on" [] name = "Off" -> "off" [] OTHER -> "unknown"

mapReadPowerState(value) ==
    IF driver = "amt" THEN PowerStateOfCode(value) ELSE PowerStateOfName(value)

PowerResult(state) == IF state = "unknown" THEN A!ErrorResult ELSE A!OKResult(state)

(* A body without a state is unknown too. *)
ReturnReading ==
    /\ wire = "response"
    /\ \/ status = "2xx" /\ \E value \in body : Return(PowerResult(mapReadPowerState(value)))
       \/ (status # "2xx" \/ body = {}) /\ Return(A!ErrorResult)

Pulled == request = "Pull" /\ ReturnReading
GotSystem == request = "GetSystem" /\ ReturnReading

Enumerated ==
    /\ request = "Enumerate" /\ wire = "response"
    /\ LET ok == status = "2xx" /\ body # {}
       IN  \/ ok /\ Post("Pull") /\ UNCHANGED <<machine, op, mine, late, jobs, result, driver>>
           \/ ~ok /\ Return(A!ErrorResult)

(* Mutant: the requested method is reported as the state. *)
intendedPowerStateRaw == op

intendedPowerState == A!Intended(op)

(* A ReturnValue, if there is one, is 0 (done) or 4096 (job started). *)
Accepted == status = "2xx" /\ \A value \in body : value \in {0, 4096}

requestPowerChange ==
    /\ request = "RequestPowerStateChange" /\ wire = "response"
    /\ \/ Accepted /\ Return(A!OKResult(intendedPowerState))
       \/ ~Accepted /\ Return(A!ErrorResult)

reset ==
    /\ request = "Reset" /\ wire = "response"
    /\ \/ status = "2xx" /\ Return(A!OKResult(intendedPowerState))
       \/ status # "2xx" /\ Return(A!ErrorResult)

(* Mutant: the HTTP client has no Timeout. *)
TimeoutNever == FALSE

(* The caller's context is done, or the 10 s of the HTTP client are over: an *)
(* action that was on its way may arrive nevertheless.                       *)
Timeout ==
    /\ wire # "none"
    /\ op' = "idle" /\ result' = A!ErrorResult
    /\ request' = "none" /\ wire' = "none" /\ status' = "other" /\ body' = {}
    /\ \/ UNCHANGED late
       \/ wire = "request" /\ op \in A!Change /\ late' = late \cup {op}
    /\ UNCHANGED <<machine, mine, jobs, driver>>

-----------------------------------------------------------------------------

ClientStep == Enumerated \/ Pulled \/ GotSystem \/ requestPowerChange \/ reset

Next ==
    \/ MachineStep \/ Refuse \/ Report \/ AcceptChange
    \/ (\E o \in Called : Call(o)) \/ ClientStep \/ Timeout

Spec == Init /\ [][Next]_vars

(* The client's goroutine runs and its timer fires; nothing is assumed of the *)
(* controller.                                                                *)
FairSpec == Spec /\ WF_vars(ClientStep) /\ WF_vars(Timeout)

-----------------------------------------------------------------------------
(* Properties *)

(* Both drivers keep the promise of bmc.Adapter: GetPowerState never makes up *)
(* a state, a power action is OK only if the controller accepted it.          *)
ImplementsAdapter == A!Spec

(* A call on a controller that is silent or half-broken still returns: the    *)
(* Timeout of the HTTP client bounds it.                                      *)
CallReturns == op # "idle" ~> op = "idle"

=============================================================================
