------------------------------ MODULE Backends ------------------------------
(***************************************************************************)
(* The backends of one operation: RealBuilder opens them one after the      *)
(* other, the iSCSI gate polls the storage target with JSON-RPC calls on a  *)
(* websocket, and Close releases them.  The target pushes events on the     *)
(* same socket, answers when it likes or not at all, and the session of the *)
(* machine comes and goes meanwhile.                                        *)
(***************************************************************************)
EXTENDS Integers

CONSTANT MaxCalls           \* bound on the calls made on one connection

ASSUME BackendsAssumption == MaxCalls \in Nat

VARIABLES
    table,          \* is a session of the machine present in the target's table?
    seen,           \* history: what the table has shown since WaitClear began
    ws,             \* the websocket to the target: none, open, closed
    asked,          \* requests the target has not answered yet
    inbox,          \* frames under way to the client
    id,             \* wsConn.id: the id of the latest request
    call,           \* wsConn.Call: idle, write, read, returned or failed
    reply,          \* the result it returned
    talos,          \* the connection of the Talos client: none, open, closed
    bpc,            \* where the operation is
    ctx,            \* its context: live or done
    gate            \* what WaitClear returned: pending, clear, error

session == <<table, seen>>
conn == <<ws, asked, inbox, id, call, reply>>
vars == <<session, conn, talos, bpc, ctx, gate>>

Method == {"auth.login_ex", "iscsi.global.sessions"}
Table == {"present", "absent"}
Request == [id : 1..MaxCalls, method : Method]
Result == {"null", "error", "SUCCESS", "DENIED"} \cup Table
Frame == [id : 0..MaxCalls, result : Result]
(* A frame without an id and without a result: collection_update and the like. *)
Event == [id |-> 0, result |-> "null"]

BPC == {"start", "dial", "login", "kube", "talos", "bmc", "run", "list", "sleep",
        "close", "done"}

TypeOK ==
    /\ table \in Table /\ seen \subseteq Table
    /\ ws \in {"none", "open", "closed"}
    /\ asked \subseteq Request /\ inbox \subseteq Frame
    /\ id \in 0..MaxCalls
    /\ call \in {"idle", "write", "read", "returned", "failed"}
    /\ reply \in Result
    /\ talos \in {"none", "open", "closed"}
    /\ bpc \in BPC
    /\ ctx \in {"live", "done"}
    /\ gate \in {"pending", "clear", "error"}

Fresh ==
    /\ ws' = "none" /\ asked' = {} /\ inbox' = {} /\ id' = 0 /\ call' = "idle" /\ reply' = "null"
    /\ talos' = "none" /\ bpc' = "start" /\ ctx' = "live" /\ gate' = "pending"

Init ==
    /\ table \in Table /\ seen = {}
    /\ ws = "none" /\ asked = {} /\ inbox = {} /\ id = 0 /\ call = "idle" /\ reply = "null"
    /\ talos = "none" /\ bpc = "start" /\ ctx = "live" /\ gate = "pending"

-----------------------------------------------------------------------------
(* The storage target (external). *)

SessionChanges ==
    /\ table' \in Table
    /\ seen' = seen \cup {table'}
    /\ UNCHANGED <<conn, talos, bpc, ctx, gate>>

Send(frame) ==
    /\ ws = "open"
    /\ inbox' = inbox \cup {frame}
    /\ UNCHANGED <<session, ws, id, call, reply, talos, bpc, ctx, gate>>

Results(method) ==
    IF method = "auth.login_ex" THEN {"SUCCESS", "DENIED"}
                                ELSE {table}

Serve ==
    \E q \in asked : \E result \in Results(q.method) \cup {"error"} :
        /\ Send([id |-> q.id, result |-> result])
        /\ asked' = asked \ {q}

PushEvent == Send(Event) /\ UNCHANGED asked

-----------------------------------------------------------------------------
(* wsConn.Call, made by login and by the gate's polls. *)

CallWrite ==
    /\ call = "write" /\ ctx = "live" /\ ws = "open" /\ id < MaxCalls
    /\ id' = id + 1
    /\ asked' = asked \cup {[id |-> id + 1,
                             method |-> IF bpc = "login" THEN "auth.login_ex"
                                                         ELSE "iscsi.global.sessions"]}
    /\ call' = "read"
    /\ UNCHANGED <<session, ws, inbox, reply, talos, bpc, ctx, gate>>

(* Mutant: whatever comes first is the reply. *)
IsReplyAny(frame) == TRUE

(* An event push, or the reply to another request, is not the reply. *)
IsReply(frame) == frame.id = id

CallRead ==
    /\ call = "read" /\ ctx = "live"
    /\ \E frame \in inbox :
          /\ inbox' = inbox \ {frame}
          /\ IF IsReply(frame) THEN call' = "returned" /\ reply' = frame.result
                               ELSE UNCHANGED <<call, reply>>
    /\ UNCHANGED <<session, ws, asked, id, talos, bpc, ctx, gate>>

(* The connection broke, or the context is done. *)
CallFails ==
    /\ call \in {"write", "read"}
    /\ call' = "failed"
    /\ UNCHANGED <<session, ws, asked, inbox, id, reply, talos, bpc, ctx, gate>>

-----------------------------------------------------------------------------
(* RealBuilder *)

Continue(next) == bpc' = next /\ UNCHANGED <<session, asked, inbox, id, reply, ctx, gate>>

(* Without all NIGHTWATCH_TRUENAS_* there is no gate; with them, a node that *)
(* has no iscsi_initiator_addr is refused.                                   *)
BuildStorageGate ==
    /\ bpc = "start"
    /\ \E credentials, identity \in BOOLEAN :
          Continue(CASE ~credentials -> "kube"
                     [] credentials /\ ~identity -> "done"
                     [] credentials /\ identity -> "dial")
    /\ UNCHANGED <<ws, call, talos>>

(* The HTTP client of the handshake has no timeout: only the context ends a *)
(* dial that the target does not answer.                                    *)
dial ==
    /\ bpc = "dial"
    /\ \/ ctx = "live" /\ ws' = "open" /\ call' = "write" /\ Continue("login")
       \/ Continue("done") /\ UNCHANGED <<ws, call>>
    /\ UNCHANGED talos

login ==
    /\ bpc = "login" /\ call \in {"returned", "failed"}
    /\ LET ok == call = "returned" /\ reply = "SUCCESS"
       IN  \/ ok /\ Continue("kube") /\ UNCHANGED ws
           \/ ~ok /\ Continue("done") /\ ws' = "closed"
    /\ call' = "idle"
    /\ UNCHANGED talos

(* The closer is nil when no gate was built. *)
closeStorage == ws' = IF ws = "open" THEN "closed" ELSE ws

NewFromKubeconfig ==
    /\ bpc = "kube"
    /\ \/ Continue("talos") /\ UNCHANGED ws
       \/ Continue("done") /\ closeStorage
    /\ UNCHANGED <<call, talos>>

TalosNew ==
    /\ bpc = "talos"
    /\ \/ Continue("bmc") /\ talos' = "open" /\ UNCHANGED ws
       \/ Continue("done") /\ closeStorage /\ UNCHANGED talos
    /\ UNCHANGED call

(* Mutant: the Talos client is forgotten when there is no driver. *)
BMCNewKeepsTalos ==
    /\ bpc = "bmc"
    /\ \/ Continue("run") /\ UNCHANGED <<ws, talos>>
       \/ Continue("done") /\ closeStorage /\ UNCHANGED talos
    /\ UNCHANGED call

BMCNew ==
    /\ bpc = "bmc"
    /\ \/ Continue("run") /\ UNCHANGED <<ws, talos>>
       \/ Continue("done") /\ closeStorage /\ talos' = "closed"
    /\ UNCHANGED call

-----------------------------------------------------------------------------
(* The operation, of which only the storage gate is of interest here. *)

ReachesGate ==
    /\ bpc = "run" /\ ws # "none"
    /\ bpc' = "list" /\ call' = "write"
    /\ seen' = {table}
    /\ UNCHANGED <<table, ws, asked, inbox, id, reply, talos, ctx, gate>>

EndsWithoutGate ==
    /\ bpc = "run"      \* a wake, no gate, or an earlier phase failed
    /\ Continue("close") /\ UNCHANGED <<ws, call, talos>>

(* An absent result is an empty table. *)
SessionPresent(text) == text = "present"

WaitClearReturns(result) ==
    /\ bpc' = "close" /\ gate' = result /\ call' = "idle"
    /\ UNCHANGED <<session, ws, asked, inbox, id, reply, talos, ctx>>

(* Mutant: how the call ended is handed on as the verdict of the gate. *)
WaitClearRaw ==
    /\ bpc = "list" /\ call \in {"returned", "failed"}
    /\ LET err == call = "failed" \/ reply = "error"
       IN  \/ err /\ WaitClearReturns(call)
           \/ ~err /\ ~SessionPresent(reply) /\ WaitClearReturns("clear")
           \/ /\ ~err /\ SessionPresent(reply)
              /\ Continue("sleep") /\ call' = "idle" /\ UNCHANGED <<ws, talos>>

WaitClear ==
    /\ bpc = "list" /\ call \in {"returned", "failed"}
    /\ LET err == call = "failed" \/ reply = "error"
       IN  \/ err /\ WaitClearReturns("error")
           \/ ~err /\ ~SessionPresent(reply) /\ WaitClearReturns("clear")
           \/ /\ ~err /\ SessionPresent(reply)
              /\ Continue("sleep") /\ call' = "idle" /\ UNCHANGED <<ws, talos>>

Poll ==
    /\ bpc = "sleep"
    /\ \/ Continue("list") /\ call' = "write" /\ UNCHANGED <<ws, talos>>
       \/ ctx = "done" /\ WaitClearReturns("error")

Close ==
    /\ bpc = "close"
    /\ talos' = "closed" /\ closeStorage
    /\ Continue("done") /\ UNCHANGED call

(* Mutant: the wait has no deadline of its own. *)
DeadlineNever == FALSE

(* WaitClear's own timeout. *)
Deadline == bpc \in {"list", "sleep"}

ContextDone ==
    /\ ctx = "live" /\ ctx' = "done"
    /\ UNCHANGED <<session, conn, talos, bpc, gate>>

Timeout == Deadline /\ ContextDone

(* The client of the API goes away, or the operator's intent changes. *)
Cancel == bpc # "done" /\ ContextDone

NextOperation == bpc = "done" /\ Fresh /\ UNCHANGED session

-----------------------------------------------------------------------------

Step ==
    \/ CallWrite \/ CallRead \/ (ctx = "done" /\ (CallFails \/ dial))
    \/ BuildStorageGate \/ login \/ NewFromKubeconfig \/ TalosNew \/ BMCNew
    \/ EndsWithoutGate \/ WaitClear \/ Poll \/ Close

Next ==
    \/ SessionChanges \/ Serve \/ PushEvent
    \/ Step \/ ReachesGate \/ CallFails \/ dial
    \/ Timeout \/ Cancel \/ NextOperation

Spec == Init /\ [][Next]_vars

(* The operation's goroutine runs, timers fire, and a call whose context is  *)
(* done returns.  Nothing is assumed of the storage target, and the phases   *)
(* other than the gate are taken to end (Operate has those that may not).    *)
FairSpec == Spec /\ WF_vars(Step) /\ WF_vars(Timeout)

-----------------------------------------------------------------------------
(* Properties *)

(* The gate opens only if the target really held no session of the machine  *)
(* at some moment of the wait: no event, no reply to the login and no error *)
(* is taken for an empty table (WaitClear: "failing to *read* sessions must *)
(* not be mistaken for clear").                                             *)
ClearWasTrue == gate = "clear" => "absent" \in seen

(* However building or running fails, the operation ends with no connection *)
(* left open (RealBuilder's error paths and Backends.Close).                *)
NoLeak == bpc = "done" => ws # "open" /\ talos # "open"

(* A dial or a login that the target leaves without an answer.              *)
Unanswered == bpc = "dial" \/ (bpc = "login" /\ call = "read")

(* Every operation ends, on a silent or babbling target too, unless it sits *)
(* in a dial or a login that is never answered and nobody cancels it: these *)
(* two have no deadline but the caller's context (truenas.New, dial).  The  *)
(* polls of the gate have WaitClear's, and a cancelled operation always     *)
(* ends.                                                                    *)
OperationEnds == []<>(bpc = "done") \/ <>[](ctx = "live" /\ Unanswered)

=============================================================================
