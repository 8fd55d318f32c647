------------------------------ MODULE Records -------------------------------
(***************************************************************************)
(* The other records of the store: operations/<id>.json, which UpdateOperation *)
(* reads, mutates and writes back, and the desired power, observed state    *)
(* and last success of a node, which are only ever replaced.  A document is *)
(* the set of the changes it carries.                                       *)
(***************************************************************************)
EXTENDS JsonFile

VARIABLES
    kind,           \* the directory of the record (NewFileStore)
    stored          \* history: changes whose writers were told they are stored,
                    \* since the record was last replaced as a whole

Kind == {"locks", "operations", "desired", "observed", "last-success"}
RecordMethod == {"CreateOperation", "UpdateOperation", "SetDesiredPower",
                 "UpdateObservedState", "SetLastSuccess"}
Operation == [changes : SUBSET Serial]

RecordsInit == stored = {}

-----------------------------------------------------------------------------

(* A method that stores a new document without reading the old one. *)
Put(c, method) ==
    /\ issued[c] < MaxIssued
    /\ Enter(c, method, [changes |-> {Fresh(c)}], "flock")
    /\ Issue(c)
    /\ UNCHANGED <<files, stored>>

(* No look at whether the id is in use already. *)
CreateOperation(c) == kind = "operations" /\ Put(c, "CreateOperation")
SetDesiredPower(c) == kind = "desired" /\ Put(c, "SetDesiredPower")
UpdateObservedState(c) == kind = "observed" /\ Put(c, "UpdateObservedState")
SetLastSuccess(c) == kind = "last-success" /\ Put(c, "SetLastSuccess")

GetOperation(c) ==
    /\ kind = "operations" /\ issued[c] < MaxIssued
    /\ readJSON(c, "UpdateOperation", "found")
    /\ UNCHANGED <<files, issued, stored>>

(* Mutant: the mutation is applied to an empty operation. *)
UpdateOperationBlank(c) ==
    /\ call[c] = "UpdateOperation" /\ spc[c] \in {"found", "not-found"}
    /\ \/ /\ Return(c)
          /\ UNCHANGED issued
       \/ /\ spc[c] = "found"
          /\ Issue(c)
          /\ writeJSON(c, [changes |-> {Fresh(c)}])
    /\ UNCHANGED <<files, stored>>

(* The operation is not there or mutate fails, or the result is written. *)
UpdateOperation(c) ==
    /\ call[c] = "UpdateOperation" /\ spc[c] \in {"found", "not-found"}
    /\ \/ /\ Return(c)
          /\ UNCHANGED issued
       \/ /\ spc[c] = "found"
          /\ Issue(c)
          /\ writeJSON(c, [changes |-> doc[c].changes \cup {Fresh(c)}])
    /\ UNCHANGED <<files, stored>>

RecordWritten(c) ==
    /\ Rename(c)
    /\ stored' = CASE tmp = None -> stored
                   [] tmp # None /\ call[c] = "UpdateOperation" ->
                        stored \cup {<<c, issued[c]>>}
                   [] tmp # None /\ call[c] # "UpdateOperation" ->
                        {<<c, issued[c]>>}

CallRecord(c) ==
    \/ CreateOperation(c) \/ GetOperation(c) \/ SetDesiredPower(c)
    \/ UpdateObservedState(c) \/ SetLastSuccess(c)

RecordStep(c) == UpdateOperation(c) \/ RecordWritten(c)

=============================================================================
