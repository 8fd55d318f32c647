---------------------------- MODULE NodeContract ----------------------------
(***************************************************************************)
(* What Nightwatch promises to the workloads and the volumes of a machine,  *)
(* whichever front-end, interleaving or failure: a machine in service may   *)
(* be closed and opened, filled and emptied; it is told to stop only when   *)
(* it is closed, empty and, behind a storage gate, detached; and it loses   *)
(* power only after it was told to stop, or by an outage.                   *)
(***************************************************************************)
CONSTANTS Node, Pod,
    Gated,          \* does a storage gate guard the volumes?
    MachineCrash    \* are there power outages?

VARIABLES
    open,           \* open[n]: new work may be placed on n
    load,           \* load[n]: the work placed on n
    data,           \* data[n]: the volumes n has attached
    mode            \* mode[n]: up, stopping or off

vars == <<open, load, data, mode>>

Init ==
    /\ open = [n \in Node |-> TRUE]
    /\ load = [n \in Node |-> {}]
    /\ data = [n \in Node |-> {}]
    /\ mode = [n \in Node |-> "up"]

Open(n, b) == open' = [open EXCEPT ![n] = b] /\ UNCHANGED <<load, data, mode>>

Arrive(n, p) ==
    /\ open[n]
    /\ load' = [load EXCEPT ![n] = @ \cup {p}]
    /\ UNCHANGED <<open, data, mode>>

Leave(n, p) ==
    /\ load' = [load EXCEPT ![n] = @ \ {p}]
    /\ UNCHANGED <<open, data, mode>>

Mount(n, p) ==
    /\ mode[n] = "up" /\ p \in load[n]
    /\ data' = [data EXCEPT ![n] = @ \cup {p}]
    /\ UNCHANGED <<open, load, mode>>

Unmount(n, p) ==
    /\ data' = [data EXCEPT ![n] = @ \ {p}]
    /\ UNCHANGED <<open, load, mode>>

Become(n, m) == mode' = [mode EXCEPT ![n] = m] /\ UNCHANGED <<open, load, data>>

Stop(n) ==
    /\ mode[n] = "up" /\ ~open[n] /\ load[n] = {} /\ (Gated => data[n] = {})
    /\ Become(n, "stopping")

PowerOff(n) ==
    /\ mode[n] = "stopping" /\ load[n] = {} /\ (Gated => data[n] = {})
    /\ Become(n, "off")

Outage(n) == MachineCrash /\ Become(n, "off")

PowerOn(n) == mode[n] = "off" /\ Become(n, "up")

Next ==
    \E n \in Node :
        \/ Open(n, TRUE) \/ Open(n, FALSE)
        \/ Stop(n) \/ PowerOff(n) \/ Outage(n) \/ PowerOn(n)
        \/ \E p \in Pod : Arrive(n, p) \/ Leave(n, p) \/ Mount(n, p) \/ Unmount(n, p)

Spec == Init /\ [][Next]_vars

=============================================================================
