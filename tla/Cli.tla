--------------------------------- MODULE Cli ---------------------------------
(***************************************************************************)
(* The one-shot commands of cmd/nightwatch.  A runner is a shell that runs  *)
(* one command after another: each loads the inventory anew, refuses what   *)
(* it cannot resolve, and either only prints, makes a single BMC call, or   *)
(* runs a lifecycle operation under a context that SIGINT and SIGTERM       *)
(* cancel.  No lock is taken, here or across processes.                     *)
(***************************************************************************)
EXTENDS Operate, Integers

CONSTANT Shell          \* the runners that are terminals, one command after another

ASSUME CliAssumption == Shell \subseteq Runner

INSTANCE Inventory

VARIABLE exit           \* exit[r]: exit code of the last command of r

PowerPC == {"power-on", "power-off", "power-hard-off", "power-reset"}
NoCode == -1            \* the command is running, or was killed

CliTypeOK ==
    /\ exit \in [Shell -> {NoCode, 0, 1, 2}]
    /\ \A r \in Shell : target[r] \in Node \cup {NoNode}

CliInit == exit = [r \in Shell |-> NoCode]

-----------------------------------------------------------------------------
(* Starting a command. *)

Exits(r, code) == exit' = [exit EXCEPT ![r] = code]

(* The command ends at once, having read at most. *)
Prints(r, code) == Exits(r, code) /\ UNCHANGED opvars

(* No command, an unknown one, a missing argument or an unknown power action. *)
usage(r) == Prints(r, 2)

loadFails(r) == (\E raw \in RawInventory : ~Load(raw)) /\ Prints(r, 1)

printStatus(r) == \E raw \in RawInventory : Load(raw) /\ Prints(r, 0)

unknownNode(r) ==
    \E raw \in RawInventory : \E n \in PathNode :
        Load(raw) /\ n \notin DOMAIN raw /\ Prints(r, 1)

dryRun(r) ==
    \E raw \in RawInventory : \E n \in PathNode :
        Load(raw) /\ n \in DOMAIN raw /\ Prints(r, 0)

(* kube_node_name, falling back to the inventory key when unset. *)
kubeNameOf(n, spec) == IF "kube_node_name" \in spec THEN KubeNodeName[n] ELSE n

runPower(r) ==
    \E raw \in RawInventory, action \in PowerPC : \E n \in DOMAIN raw :
        /\ Load(raw)
        /\ Goto(r, action)
        /\ target' = [target EXCEPT ![r] = n]
        /\ Exits(r, NoCode)
        /\ UNCHANGED <<kname, opts, cancelled, todo, steps>>

Run(r, n, spec, assemble, o) ==
    /\ Begin(r, n, assemble, o)
    /\ kname' = [kname EXCEPT ![r] = kubeNameOf(n, spec)]
    /\ Exits(r, NoCode)
    /\ UNCHANGED <<cancelled, todo, steps>>

runDrainShutdown(r) ==
    \E raw \in RawInventory, force \in BOOLEAN : \E n \in DOMAIN raw :
        /\ Load(raw)
        /\ Run(r, n, raw[n], "assemble-drain", [NoOptions EXCEPT !.ForceBMCOff = force])

runWake(r) ==
    \E raw \in RawInventory, skip \in BOOLEAN : \E n \in DOMAIN raw :
        /\ Load(raw)
        /\ Run(r, n, raw[n], "assemble-wake", [NoOptions EXCEPT !.ExpectGPU = ExpectGPU(n, skip)])

main(r) ==
    /\ pc[r] = "idle"
    /\ \/ usage(r) \/ loadFails(r) \/ printStatus(r) \/ unknownNode(r) \/ dryRun(r)
       \/ runPower(r) \/ runDrainShutdown(r) \/ runWake(r)
    /\ UNCHANGED world

-----------------------------------------------------------------------------
(* A power command: one BMC call with a timeout, no gate before or after it. *)

PowerEffect(action, n) ==
    \/ action = "power-on" /\ power' = [power EXCEPT ![n] = "on"] /\ UNCHANGED os
    \/ /\ action = "power-off" /\ os[n] # "down"
       /\ os' = [os EXCEPT ![n] = "stopping"] /\ UNCHANGED power
    \/ action = "power-off" /\ os[n] = "down" /\ UNCHANGED <<power, os>>
    \/ /\ action = "power-hard-off"
       /\ power' = [power EXCEPT ![n] = "off"] /\ os' = [os EXCEPT ![n] = "down"]
    \/ /\ action = "power-reset" /\ os' = [os EXCEPT ![n] = "down"]
       /\ \E p \in {power[n], "on"} : power' = [power EXCEPT ![n] = p]

PowerCall(r) ==
    /\ pc[r] \in PowerPC
    /\ Forget(r)
    /\ \/ PowerEffect(pc[r], target[r]) /\ Exits(r, 0)
       \/ PowerEffect(pc[r], target[r]) /\ ~stable /\ Exits(r, 1)
       \/ UNCHANGED <<power, os>> /\ ~stable /\ Exits(r, 1)
    /\ UNCHANGED <<sessions, kube, stable>>

-----------------------------------------------------------------------------
(* A lifecycle command. *)

(* Mutant: the error of an operation is printed and nothing else. *)
ExitCodeIgnored(r) == 0

ExitCode(r) == IF pc[r] = "err" THEN 1 ELSE 0

Report(r) ==
    /\ pc[r] \in DonePC
    /\ Exits(r, ExitCode(r))
    /\ Forget(r)
    /\ UNCHANGED world

Signal(r) == CancelContext(r) /\ UNCHANGED exit

(* The process dies where it is: a signal it does not catch, a lost terminal. *)
Killed(r) ==
    /\ pc[r] # "idle"
    /\ Forget(r)
    /\ UNCHANGED <<world, exit>>

CommandStep(r) ==
    \/ PowerCall(r)
    \/ Assemble(r, kname[r]) /\ UNCHANGED exit
    \/ OpStep(r) /\ UNCHANGED exit
    \/ Report(r)

CommandNext == \E r \in Shell : main(r) \/ CommandStep(r) \/ Signal(r) \/ Killed(r)

=============================================================================
