------------------------------- MODULE Record -------------------------------
(***************************************************************************)
(* What the state store promises of one record: it holds a complete         *)
(* document or none, and a writer replaces it in one step by exactly the    *)
(* document it was given, or not at all.                                    *)
(***************************************************************************)

CONSTANTS
    Client,         \* actors that use the store
    Doc,            \* documents
    None            \* no record, nothing being written

VARIABLES
    value,          \* what a reader gets
    pending         \* pending[c]: the document c is storing

Init ==
    /\ value = None
    /\ pending = [c \in Client |-> None]

Begin(c) ==
    /\ pending[c] = None
    /\ pending'[c] \in Doc
    /\ pending' = [pending EXCEPT ![c] = pending'[c]]
    /\ UNCHANGED value

Commit(c) ==
    /\ pending[c] # None
    /\ value' = pending[c]
    /\ pending' = [pending EXCEPT ![c] = None]

(* The writer dies, or a file operation fails. *)
Abort(c) ==
    /\ pending[c] # None
    /\ pending' = [pending EXCEPT ![c] = None]
    /\ UNCHANGED value

Remove ==
    /\ value' = None
    /\ UNCHANGED pending

Next ==
    \/ \E c \in Client : Begin(c) \/ Commit(c) \/ Abort(c)
    \/ Remove

Spec == Init /\ [][Next]_<<value, pending>>
=============================================================================
