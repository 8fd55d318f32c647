------------------------------ MODULE FrontEnds ------------------------------
(***************************************************************************)
(* The trigger server and the command line on the same machines.  The       *)
(* server's actuator lock is "intentionally local to this HTTP server"      *)
(* (internal/api/actuator_lock.go) and a command takes none, so operations  *)
(* of the two interleave freely.  What is checked is what survives of      *)
(* the lifecycle's promises without a lock, when nobody pulls one machine   *)
(* in opposite directions at once.  The server stays up and the backends    *)
(* never become reliable: Api has its restarts, and a killed command is no  *)
(* different for the machine.                                               *)
(***************************************************************************)
EXTENDS Api, Cli

ASSUME FrontEndsAssumption == Connection \cap Shell = {}

everything == <<vars, exit>>
FEPC == ApiPC \cup PowerPC

(* The direction of an operation, whichever front-end runs it. *)
FailedIn(r, name) == pc[r] = "err" /\ steps[r] # << >> /\ steps[r][1].name = name

Drains(r) == pc[r] \in {"assemble-drain", "slept"} \cup DrainPC \/ FailedIn(r, "cordon")
Wakes(r) == pc[r] \in {"assemble-wake", "woken"} \cup WakePC \/ FailedIn(r, "bmc-power-on")

(* A wake during a drain of the same machine, or a power command during either. *)
Opposed ==
    \E r, s \in Runner :
        /\ target[r] = target[s]
        /\ \/ Drains(r) /\ Wakes(s)
           \/ pc[r] \in PowerPC /\ (Drains(s) \/ Wakes(s))

FEInit == Init /\ CliInit

FENext ==
    /\ \/ Environment /\ UNCHANGED <<opvars, apivars, exit>>
       \/ RequestNext /\ UNCHANGED exit
       \/ CommandNext /\ UNCHANGED apivars
    /\ ~Opposed'

FESpec == FEInit /\ [][FENext]_everything

(* A handler goroutine keeps running whatever the shells and the world do,   *)
(* but a call without a deadline need not return while the client is there.  *)
FEFairSpec ==
    /\ FESpec
    /\ \A r \in Connection :
          WF_everything(RequestStep(r) /\ ~OnlyContextEnds(r) /\ UNCHANGED exit)

-----------------------------------------------------------------------------
(* Properties.  SuccessHolds and FailedDrainStaysCordoned of the lifecycle    *)
(* are about every runner: without a lock between the processes they say that *)
(* two drains, or two wakes, of one machine do not disturb each other, and    *)
(* that an interrupted drain command leaves its node cordoned although the    *)
(* server drains it too ("Ctrl-C / SIGTERM cancels cleanly - leaving the node *)
(* cordoned", cmd/nightwatch/drainshutdown.go).                               *)

(* Runners, locks, answers and exit codes keep their types; no command works  *)
(* on a machine outside the inventory it loaded (inventory.Load, main).       *)
FETypeOK == OperateTypeOK(FEPC) /\ ApiTypeOK /\ CliTypeOK

(* Unless a power command without gates did it, a machine is told to stop     *)
(* only when it is cordoned, drained and detached, whichever front-end's      *)
(* drain looked at which of these (DrainShutdown of two processes).           *)
ShutdownSafeUnlocked ==
    [][\A n \in Node :
          /\ os[n] # "stopping" /\ os'[n] = "stopping"
          /\ \A s \in Shell : pc[s] # "power-off"
          => cordoned[K(n)] /\ running[K(n)] = {} /\ (StorageGate => sessions[n] = {})]_everything

(* A drain command exits 0 only with its machine off and its node cordoned,   *)
(* and a wake command only with its node in service, interrupted or not       *)
(* ("never half-powered silently", cmd/nightwatch/drainshutdown.go).          *)
ExitCodeTrue ==
    [][\A s \in Shell :
          pc[s] \in ActivePC /\ exit'[s] = 0
             => /\ steps[s] # << >>
                /\ IF steps[s][1].name = "cordon"
                      THEN power[target[s]] = "off" /\ cordoned[kname[s]]
                      ELSE ~cordoned[kname[s]]]_everything

=============================================================================
