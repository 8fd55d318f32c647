------------------------------- MODULE Adapter -------------------------------
(***************************************************************************)
(* What bmc.Adapter promises the lifecycle code, whichever driver is behind *)
(* it.  A reading that is OK was true during the call.  A power action that *)
(* is OK was accepted by the controller.  One that failed may nonetheless   *)
(* have been accepted, or may be accepted later, when the caller has long   *)
(* turned to something else; and what was accepted takes effect in its own  *)
(* time.                                                                    *)
(***************************************************************************)
VARIABLES
    host,           \* the power state of the machine
    shown,          \* history: the states it has been in since the call began
    op,             \* the method being called, or idle
    mine,           \* the controller's view of the call: unseen or taken
    late,           \* actions of abandoned calls that may still arrive
    jobs,           \* actions accepted and not yet carried out
    result          \* the latest bmc.Result

machine == <<host, shown>>
vars == <<machine, op, mine, late, jobs, result>>

HostState == {"on", "off", "other"}     \* asleep and in transition are "other"
PowerState == {"on", "off", "unknown"}
Change == {"PowerOn", "SoftOff", "HardOff", "Reset"}
Op == {"GetPowerState"} \cup Change

Result == [OK : BOOLEAN, PowerState : PowerState]
OKResult(state) == [OK |-> TRUE, PowerState |-> state]
ErrorResult == [OK |-> FALSE, PowerState |-> "unknown"]

Intended(o) == IF o \in {"PowerOn", "Reset"} THEN "on" ELSE "off"

Init ==
    /\ host \in HostState /\ shown = {host}
    /\ op = "idle" /\ mine = "unseen" /\ late = {} /\ jobs = {}
    /\ result = ErrorResult

HostBecomes(state) == host' = state /\ shown' = shown \cup {state}

(* By itself: the operating system halts, somebody presses the button. *)
HostChanges ==
    /\ \E state \in HostState : HostBecomes(state)
    /\ UNCHANGED <<op, mine, late, jobs, result>>

Execute(o) ==
    /\ o \in jobs /\ jobs' = jobs \ {o}
    /\ HostBecomes(Intended(o)) \/ UNCHANGED machine
    /\ UNCHANGED <<op, mine, late, result>>

AcceptLate(o) ==
    /\ o \in late /\ late' = late \ {o}
    /\ jobs' = jobs \cup {o}
    /\ UNCHANGED <<machine, op, mine, result>>

Call(o) ==
    /\ op = "idle" /\ op' = o
    /\ mine' = "unseen" /\ shown' = {host}
    /\ UNCHANGED <<host, late, jobs, result>>

Accept ==
    /\ op \in Change /\ mine = "unseen" /\ mine' = "taken"
    /\ jobs' = jobs \cup {op}
    /\ UNCHANGED <<machine, op, late, result>>

Promised(res) ==
    \/ res = ErrorResult
    \/ op = "GetPowerState" /\ \E state \in shown \ {"other"} : res = OKResult(state)
    \/ op \in Change /\ mine = "taken" /\ res = OKResult(Intended(op))

Return(res) ==
    /\ op # "idle" /\ op' = "idle"
    /\ Promised(res) /\ result' = res
    /\ \/ UNCHANGED late
       \/ op \in Change /\ mine = "unseen" /\ late' = late \cup {op}
    /\ UNCHANGED <<machine, mine, jobs>>

Next ==
    \/ HostChanges \/ Accept
    \/ \E o \in Change : Execute(o) \/ AcceptLate(o)
    \/ \E o \in Op : Call(o)
    \/ \E res \in Result : Return(res)

Spec == Init /\ [][Next]_vars

=============================================================================
