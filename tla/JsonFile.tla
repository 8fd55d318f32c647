------------------------------ MODULE JsonFile ------------------------------
(***************************************************************************)
(* One record of the file-backed state store: a JSON file that is read      *)
(* whole, and written through a temporary file that is renamed over it      *)
(* under an flock.  Each file operation is a step of its own that may fail, *)
(* and a client may die between any two.                                    *)
(***************************************************************************)
EXTENDS Naturals

CONSTANTS
    Client,         \* actors that use the store
    MaxIssued,      \* bound on the documents each client makes
    None,           \* no file, no document, no flock holder
    Torn            \* a file that has been opened for writing and not written

ASSUME JsonFileAssumption ==
    /\ MaxIssued \in Nat
    /\ None # Torn
    /\ None \notin Client

VARIABLES
    file,           \* <kind>/<key>.json
    tmp,            \* <kind>/<key>.json.tmp
    flock,          \* holder of the flock on <kind>/<key>.json.lock
    issued,         \* issued[c]: number of documents c has made
    call,           \* call[c]: the store method c is in
    spc,            \* spc[c]: the file operation or check it does next
    doc,            \* doc[c]: the document it read, or is about to write
    overlapped      \* history: have two calls ever been in progress at once?

files == <<file, tmp, flock>>

(* What is new in a document (a lock id, a timestamp, a mutation): its      *)
(* maker and a serial number make it unique here.                           *)
Serial == Client \X (1..MaxIssued)
Fresh(c) == <<c, issued[c] + 1>>
Issue(c) == issued' = [issued EXCEPT ![c] = @ + 1]

Writing == {"flock", "truncate", "write", "rename"}
Locked == {"truncate", "write", "rename"}
SPC == {"idle", "check", "remove", "found", "not-found", "unlink"} \cup Writing

FileInit ==
    /\ file = None
    /\ tmp = None
    /\ flock = None
    /\ issued = [c \in Client |-> 0]
    /\ call = [c \in Client |-> "none"]
    /\ spc = [c \in Client |-> "idle"]
    /\ doc = [c \in Client |-> None]
    /\ overlapped = FALSE

Goto(c, next) == spc' = [spc EXCEPT ![c] = next]

(* A method is called, with the document d at hand. *)
Enter(c, method, d, next) ==
    /\ spc[c] = "idle"
    /\ overlapped' = (overlapped \/ \E e \in Client : spc[e] # "idle")
    /\ call' = [call EXCEPT ![c] = method]
    /\ doc' = [doc EXCEPT ![c] = d]
    /\ Goto(c, next)

Return(c) ==
    /\ Goto(c, "idle")
    /\ call' = [call EXCEPT ![c] = "none"]
    /\ doc' = [doc EXCEPT ![c] = None]

(* A torn file does not parse: the call just fails. *)
readJSON(c, method, found) ==
    /\ file # Torn
    /\ Enter(c, method, file, IF file = None THEN "not-found" ELSE found)

-----------------------------------------------------------------------------
(* writeJSON *)

writeJSON(c, d) ==
    /\ doc' = [doc EXCEPT ![c] = d]
    /\ Goto(c, "flock")
    /\ UNCHANGED call

(* Mutant: the lock file is opened and not locked. *)
FlockSkipped(c) ==
    /\ spc[c] = "flock"
    /\ Goto(c, "truncate")
    /\ UNCHANGED <<files, issued, call, doc>>

Flock(c) ==
    /\ spc[c] = "flock" /\ flock = None
    /\ flock' = c
    /\ Goto(c, "truncate")
    /\ UNCHANGED <<file, tmp, issued, call, doc>>

WriteFile(c) ==
    /\ \/ spc[c] = "truncate" /\ tmp' = Torn /\ Goto(c, "write")
       \/ spc[c] = "write" /\ tmp' = doc[c] /\ Goto(c, "rename")
    /\ UNCHANGED <<file, flock, issued, call, doc>>

(* Mutant: the flock outlives the call. *)
RenameKeepsFlock(c) ==
    /\ spc[c] = "rename"
    /\ file' = tmp
    /\ tmp' = None
    /\ Return(c)
    /\ UNCHANGED <<flock, issued>>

(* The rename, which fails if another writer took the temporary file away,  *)
(* the deferred unlock and the return.                                      *)
Rename(c) ==
    /\ spc[c] = "rename"
    /\ file' = IF tmp = None THEN file ELSE tmp
    /\ tmp' = None
    /\ flock' = None
    /\ Return(c)
    /\ UNCHANGED issued

(* A file operation fails: the deferred unlock and the return of the error.  *)
(* What was written of the temporary file stays.                             *)
WriteFails(c) ==
    /\ spc[c] \in Writing
    /\ flock' = IF spc[c] = "flock" THEN flock ELSE None
    /\ Return(c)
    /\ UNCHANGED <<file, tmp, issued>>

(* The process dies: the kernel drops its flock, its files stay. *)
Die(c) ==
    /\ flock' = IF flock = c THEN None ELSE flock
    /\ Return(c)
    /\ UNCHANGED <<file, tmp, issued>>

=============================================================================
