--------------------------------- MODULE Api ---------------------------------
(***************************************************************************)
(* The HTTP trigger API (nightwatch serve): a request is decoded, takes the *)
(* per-node actuator lock of the process, assembles the node's backends,    *)
(* runs the lifecycle state machine synchronously under the request's       *)
(* context, answers, and releases the lock on return.  The server stops on  *)
(* SIGTERM with a drain deadline, can be killed at any point, and restarts  *)
(* with no memory of what it was doing.                                     *)
(***************************************************************************)
EXTENDS Operate

CONSTANT Connection         \* the runners that are connections to the server

ASSUME ApiAssumption == Connection \subseteq Runner

VARIABLES
    inFlight,       \* actuatorLocks.inFlight: path values with an operation
    resp,           \* resp[r]: the last HTTP status sent on r, 0 before one
    server          \* up, draining (srv.Shutdown called) or exited

apivars == <<inFlight, resp, server>>
vars == <<world, opvars, apivars>>

Code == {0, 200, 400, 401, 404, 409, 500}

(* Mutant: the inventory key is used as the node name. *)
kubeNameIgnored(n) == n

kubeName(n) == KubeNodeName[n]

ApiPC == {"idle"} \cup ActivePC

ApiTypeOK ==
    /\ inFlight \in SUBSET PathNode
    /\ resp \in [Connection -> Code]
    /\ server \in {"up", "draining", "exited"}

TypeOK == OperateTypeOK(ApiPC) /\ ApiTypeOK

ApiInit ==
    /\ inFlight = {}
    /\ resp = [r \in Connection |-> 0]
    /\ server = "up"

Init == WorldInit /\ OpInit /\ ApiInit

-----------------------------------------------------------------------------
(* A request arrives on an idle connection. *)

Answer(r, code) == resp' = [resp EXCEPT ![r] = code]

(* Answered before the lock: a bad token, a bad body, and the requests that *)
(* only look: a dry run or a status read of a known or an unknown node.      *)
auth(r) == Answer(r, 401)
decodeBody(r) == Answer(r, 400)
statusOrDryRun(r) == \E n \in PathNode : Answer(r, IF n \in Node THEN 200 ELSE 404)

AnswerWithoutLock(r) ==
    /\ server = "up" /\ pc[r] = "idle"
    /\ auth(r) \/ decodeBody(r) \/ statusOrDryRun(r)
    /\ UNCHANGED <<world, opvars, inFlight, server>>

(* Mutant: the map is set without looking at it first. *)
tryAcquireUnchecked(n) == inFlight' = inFlight \cup {n}

tryAcquire(n) ==
    /\ n \notin inFlight
    /\ inFlight' = inFlight \cup {n}

Accept(r, n, assemble, o) ==
    /\ server = "up" /\ pc[r] = "idle"
    /\ tryAcquire(n)
    /\ Begin(r, n, assemble, o)
    /\ Answer(r, 0)
    /\ UNCHANGED <<world, kname, cancelled, todo, steps, server>>

AcceptDrainShutdown(r) ==
    \E n \in PathNode, force \in BOOLEAN :
        Accept(r, n, "assemble-drain", [NoOptions EXCEPT !.ForceBMCOff = force])

AcceptWake(r) ==
    \E n \in PathNode, skip \in BOOLEAN :
        Accept(r, n, "assemble-wake", [NoOptions EXCEPT !.ExpectGPU = ExpectGPU(n, skip)])

WriteActuatorConflict(r) ==
    /\ server = "up" /\ pc[r] = "idle"
    /\ \E n \in PathNode : n \in inFlight
    /\ Answer(r, 409)
    /\ UNCHANGED <<world, opvars, inFlight, server>>

-----------------------------------------------------------------------------
(* The answer is buffered until the handler and its deferred release return. *)

(* Mutant: the lock is freed after the operation, not in a deferred call. *)
ReleaseOnSuccess(r) ==
    /\ Forget(r)
    /\ inFlight' = IF pc[r] = "err" THEN inFlight ELSE inFlight \ {target[r]}

Release(r) ==
    /\ Forget(r)
    /\ inFlight' = inFlight \ {target[r]}

OpResultCode(r) ==
    CASE pc[r] # "err"           -> 200
      [] target[r] \notin Node   -> 404
      [] steps[r] # << >>        -> 409
      [] OTHER                   -> 500

WriteOpResult(r) ==
    /\ pc[r] \in DonePC
    /\ Answer(r, OpResultCode(r))
    /\ Release(r)
    /\ UNCHANGED <<world, server>>

(* The client goes away: net/http cancels the request's context. *)
Disconnect(r) == CancelContext(r) /\ UNCHANGED apivars

-----------------------------------------------------------------------------
(* The server process. *)

Sigterm ==
    /\ server = "up"
    /\ server' = "draining"
    /\ UNCHANGED <<world, opvars, inFlight, resp>>

Exit ==
    /\ server' = "exited"
    /\ ForgetAll
    /\ inFlight' = {}
    /\ resp' = [r \in Connection |-> 0]
    /\ UNCHANGED world

(* srv.Shutdown returns when every connection is idle ... *)
ShutdownDrained ==
    /\ server = "draining" /\ \A r \in Connection : pc[r] = "idle"
    /\ Exit

(* ... or when its 30 second context ends, whatever is still in flight. *)
ShutdownDeadline ==
    /\ server = "draining" /\ \E r \in Connection : pc[r] # "idle"
    /\ Exit

Kill == server = "up" /\ Exit

Restart ==
    /\ server = "exited"
    /\ server' = "up"
    /\ UNCHANGED <<world, opvars, inFlight, resp>>

-----------------------------------------------------------------------------

RequestStep(r) ==
    \/ Assemble(r, kubeName(target[r])) /\ UNCHANGED apivars
    \/ OpStep(r) /\ UNCHANGED apivars
    \/ WriteOpResult(r)

RequestNext ==
    \E r \in Connection :
       \/ AnswerWithoutLock(r) \/ AcceptDrainShutdown(r) \/ AcceptWake(r)
       \/ WriteActuatorConflict(r) \/ RequestStep(r) \/ Disconnect(r)

Next ==
    \/ WorldNext /\ UNCHANGED <<opvars, apivars>>
    \/ RequestNext
    \/ Sigterm \/ ShutdownDrained \/ ShutdownDeadline \/ Kill \/ Restart

Spec == Init /\ [][Next]_vars

-----------------------------------------------------------------------------
(* Properties *)

Active(r) == pc[r] \in ActivePC

(* Two requests never operate on the same machine at once, whatever mix of *)
(* answers, disconnects and restarts: actuatorLocks.tryAcquire and the     *)
(* deferred release of the handlers.                                       *)
OneActuatorPerNode ==
    \A r, s \in Connection :
        Active(r) /\ Active(s) /\ target[r] = target[s] => r = s

(* No lock outlives its request: whoever is refused because the node "already *)
(* has an actuator operation in progress" (writeActuatorConflict) is told the *)
(* truth, after unknown names, failed builds, failed and cancelled operations *)
(* and restarts too.                                                          *)
LockHasOwner ==
    \A n \in inFlight : \E r \in Connection : Active(r) /\ target[r] = n

(* Once told to stop, the server exits only when no request is in flight     *)
(* (docs/http-api.md: "SIGINT and SIGTERM drain in-flight requests, then the *)
(* server exits").  The 30 second limit of Serve contradicts it.             *)
ExitOnlyDrained ==
    [][server = "draining" /\ server' = "exited"
          => \A r \in Connection : pc[r] = "idle"]_vars

(* Every accepted request is answered and frees its lock, though every call  *)
(* may fail and no machine make progress, unless it sits for ever in a call  *)
(* that only its client's disconnect would end: the other calls and every    *)
(* wait of DrainShutdown and PowerOn have a deadline.                        *)
RequestAnswered ==
    \A r \in Connection : (Active(r) ~> pc[r] = "idle") \/ <>[]OnlyContextEnds(r)

=============================================================================
