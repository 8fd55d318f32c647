---------------------------- MODULE BackendsProofs ----------------------------
(***************************************************************************)
(* The gate's verdict and the release of connections, for any number of     *)
(* polls.  Ids grow, so a frame that carries the current id answers the     *)
(* current call; and an answer that shows no session was true when it was   *)
(* given, which was after WaitClear began.                                  *)
(***************************************************************************)
EXTENDS Backends, TLAPS

(* Ids in flight are old or current; a frame with an id has a result. *)
IdInv ==
    /\ \A q \in asked : q.id <= id
    /\ \A f \in inbox : f.id <= id /\ (f.id # 0 => f.result # "null")

(* An answer to a poll: an error, or what the table has shown meanwhile. *)
Honest(result) == result = "error" \/ result \in seen

CallInv ==
    /\ call # "idle" => bpc \in {"login", "list"}
    /\ call = "read" => id # 0
    /\ bpc = "list" /\ call = "read" =>
          /\ \A q \in asked : q.id = id => q.method = "iscsi.global.sessions"
          /\ \A f \in inbox : f.id = id => Honest(f.result)
    /\ bpc = "list" /\ call = "returned" => Honest(reply)

GateInv ==
    /\ bpc \in {"list", "sleep"} => table \in seen
    /\ bpc \notin {"close", "done"} => gate = "pending"
    /\ gate = "clear" => "absent" \in seen

ConnInv ==
    /\ ws = "open" => bpc \notin {"start", "dial", "done"}
    /\ talos = "open" => bpc \in {"bmc", "run", "list", "sleep", "close"}

IInv == TypeOK /\ IdInv /\ CallInv /\ GateInv /\ ConnInv

(* Nothing is built and nothing is asked at first. *)
LEMMA InitOK == Init => IInv
<1> SUFFICES ASSUME Init PROVE IInv OBVIOUS
<1>1. TypeOK BY BackendsAssumption DEF Init, TypeOK, BPC, Result
<1>2. IdInv /\ CallInv /\ GateInv /\ ConnInv
  BY DEF Init, IdInv, CallInv, GateInv, ConnInv
<1>3. QED BY <1>1, <1>2 DEF IInv

(* What the target holds and what is under way when it has answered q. *)
LEMMA ServeOK ==
    ASSUME TypeOK, NEW q \in asked, NEW result \in Results(q.method) \cup {"error"}
    PROVE  /\ [id |-> q.id, result |-> result] \in Frame
           /\ q.id \in 1..MaxCalls
           /\ result # "null"
           /\ q.method = "iscsi.global.sessions" => result \in {table, "error"}
<1>1. q \in Request BY DEF TypeOK
<1>2. q.id \in 1..MaxCalls /\ q.id \in 0..MaxCalls
  BY <1>1, BackendsAssumption DEF Request
<1>3. result \in Result /\ result # "null" BY DEF Results, Result, TypeOK, Table
<1>4. [id |-> q.id, result |-> result] \in Frame BY <1>2, <1>3 DEF Frame
<1>5. QED BY <1>2, <1>3, <1>4 DEF Results

(* Every step of the operation and of the target keeps the types. *)
LEMMA TypeStep == ASSUME TypeOK, [Next]_vars PROVE TypeOK'
<1> USE BackendsAssumption
<1>1. CASE SessionChanges BY <1>1 DEF TypeOK, SessionChanges, conn
<1>2. CASE Serve
  <2>1. PICK q \in asked : \E result \in Results(q.method) \cup {"error"} :
                /\ Send([id |-> q.id, result |-> result])
                /\ asked' = asked \ {q}
    BY <1>2 DEF Serve
  <2>2. PICK result \in Results(q.method) \cup {"error"} :
                Send([id |-> q.id, result |-> result])
    BY <2>1
  <2>3. [id |-> q.id, result |-> result] \in Frame BY ServeOK
  <2>4. QED BY <2>1, <2>2, <2>3 DEF Send, TypeOK, session
<1>3. CASE PushEvent
  <2>1. Event \in Frame BY DEF Event, Frame, Result
  <2>2. QED BY <1>3, <2>1 DEF PushEvent, Send, TypeOK, session
<1>4. CASE CallWrite
  <2> DEFINE request == [id |-> id + 1, method |-> IF bpc = "login" THEN "auth.login_ex"
                                                      ELSE "iscsi.global.sessions"]
  <2>1. id + 1 \in 1..MaxCalls /\ id + 1 \in 0..MaxCalls BY <1>4 DEF CallWrite, TypeOK
  <2>2. request \in Request BY <2>1 DEF Request, Method
  <2>3. asked' \subseteq Request BY <1>4, <2>2 DEF CallWrite, TypeOK
  <2>4. QED BY <1>4, <2>1, <2>3 DEF CallWrite, TypeOK, session
<1>5. CASE CallRead
  <2>1. \A f \in inbox : f.result \in Result BY DEF TypeOK, Frame
  <2>2. QED BY <1>5, <2>1 DEF CallRead, TypeOK, session
<1>6. CASE CallFails BY <1>6 DEF CallFails, TypeOK, session
<1>7. CASE BuildStorageGate \/ dial \/ login \/ NewFromKubeconfig \/ TalosNew \/ BMCNew
  BY <1>7 DEF BuildStorageGate, dial, login, NewFromKubeconfig, TalosNew, BMCNew, Continue,
     closeStorage, session, BPC, TypeOK
<1>8. CASE EndsWithoutGate \/ WaitClear \/ Poll \/ Close \/ ReachesGate
  BY <1>8 DEF EndsWithoutGate, WaitClear, WaitClearReturns, Poll, Close, ReachesGate, Continue,
     closeStorage, session, BPC, TypeOK
<1>9. CASE Timeout \/ Cancel \/ UNCHANGED vars
  BY <1>9 DEF Timeout, Cancel, ContextDone, TypeOK, vars, session, conn
<1>10. CASE NextOperation
  BY SMTT(30), <1>10 DEF NextOperation, Fresh, Result, BPC, TypeOK, session
<1>11. QED
  BY <1>1, <1>2, <1>3, <1>4, <1>5, <1>6, <1>7, <1>8, <1>9, <1>10 DEF Next, Step

(* Every step keeps the invariant: one case per action. *)
LEMMA InvStep == ASSUME IInv, [Next]_vars PROVE IInv'
<1>0. TypeOK /\ TypeOK' BY TypeStep DEF IInv
<1> USE <1>0, BackendsAssumption DEF IInv, TypeOK, IdInv, CallInv, GateInv, ConnInv, Honest
<1>1. CASE SessionChanges BY <1>1 DEF SessionChanges, conn
<1>2. CASE Serve
  <2>1. PICK q \in asked : \E result \in Results(q.method) \cup {"error"} :
                /\ Send([id |-> q.id, result |-> result])
                /\ asked' = asked \ {q}
    BY <1>2 DEF Serve
  <2>2. PICK result \in Results(q.method) \cup {"error"} : Send([id |-> q.id, result |-> result])
    BY <2>1
  <2>3. /\ q.id <= id
        /\ result # "null"
        /\ bpc = "list" /\ q.method = "iscsi.global.sessions" => Honest(result)
    BY ZenonT(60), ServeOK
  <2>4. QED BY <2>1, <2>2, <2>3 DEF Send, session
<1>3. CASE PushEvent BY <1>3 DEF PushEvent, Send, Event, session
<1>4. CASE CallWrite
  <2>1. /\ \A q \in asked : q.id \in Int
        /\ \A f \in inbox : f.id \in Int
    BY DEF Request, Frame
  <2>2. IdInv' BY <1>4, <2>1 DEF CallWrite, session
  <2>3. CallInv' BY <1>4, <2>1 DEF CallWrite, session
  <2>4. QED BY <1>4, <2>2, <2>3 DEF CallWrite, session
<1>5. CASE CallRead BY <1>5 DEF CallRead, IsReply, session
<1>6. CASE CallFails BY <1>6 DEF CallFails, session
<1>7. CASE BuildStorageGate \/ dial \/ login \/ NewFromKubeconfig \/ TalosNew \/ BMCNew
  BY <1>7 DEF BuildStorageGate, dial, login, NewFromKubeconfig, TalosNew, BMCNew, Continue,
     closeStorage, session, BPC
<1>8. CASE EndsWithoutGate \/ Poll \/ Close
  BY <1>8 DEF EndsWithoutGate, Poll, WaitClearReturns, Close, Continue, closeStorage, session
<1>9. CASE WaitClear
  BY ZenonT(60), <1>9 DEF WaitClear, WaitClearReturns, SessionPresent, Continue, session, Table
<1>10. CASE ReachesGate BY <1>10 DEF ReachesGate
<1>11. CASE Timeout \/ Cancel \/ NextOperation \/ UNCHANGED vars
  BY <1>11 DEF Timeout, Cancel, ContextDone, NextOperation, Fresh, vars, session, conn
<1>12. QED
  BY ZenonT(60), <1>1, <1>2, <1>3, <1>4, <1>5, <1>6, <1>7, <1>8, <1>9, <1>10, <1>11 DEF Next, Step

(* The inductive invariant holds throughout. *)
THEOREM Invariance == Spec => []IInv
BY InitOK, InvStep, PTL DEF Spec

(* Every variable of the backends keeps its type, for any bound on polls. *)
THEOREM TypeCorrect == Spec => []TypeOK
<1>1. IInv => TypeOK BY DEF IInv
<1>2. QED BY <1>1, Invariance, PTL

(* WaitClear opens the gate only if the target held no session meanwhile. *)
THEOREM GateCorrect == Spec => []ClearWasTrue
<1>1. IInv => ClearWasTrue BY DEF IInv, GateInv, ClearWasTrue
<1>2. QED BY <1>1, Invariance, PTL

(* RealBuilder's error paths and Backends.Close leave no connection open. *)
THEOREM ReleaseCorrect == Spec => []NoLeak
<1>1. IInv => NoLeak BY DEF IInv, ConnInv, NoLeak
<1>2. QED BY <1>1, Invariance, PTL

=============================================================================
