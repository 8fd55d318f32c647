------------------------------- MODULE Leases -------------------------------
(***************************************************************************)
(* The lease on one node, kept in locks/<node>.json.  A call reads the      *)
(* file, removes it when the lease in it has expired, decides, and writes;  *)
(* the clock may move between any two of these steps.                       *)
(***************************************************************************)
EXTENDS JsonFile

CONSTANTS
    TTL,            \* the ttl every call passes
    MaxTime         \* bound on the clock

ASSUME LeasesAssumption ==
    /\ TTL \in Nat \ {0}
    /\ MaxTime \in Nat

VARIABLES
    now,            \* the clock
    held            \* held[c]: the lease c was last told it has

LeaseMethod == {"AcquireLock", "RefreshLock", "ReleaseLock", "GetLock"}
Lease == [id : Serial, expires : 0..(MaxTime + TTL)]

LeasesInit ==
    /\ now = 0
    /\ held = [c \in Client |-> None]

Told(c, l) == held' = [held EXCEPT ![c] = l]

-----------------------------------------------------------------------------
(* GetLock: read the file and remove an expired lease. *)

CallLease(c, method) ==
    /\ \/ method = "GetLock"
       \/ method = "AcquireLock" /\ held[c] = None /\ issued[c] < MaxIssued
       \/ method \in {"RefreshLock", "ReleaseLock"} /\ held[c] # None
    /\ readJSON(c, method, "check")
    /\ UNCHANGED <<files, issued, now, held>>

CheckExpiry(c) ==
    /\ spc[c] = "check"
    /\ Goto(c, IF doc[c].expires < now THEN "remove" ELSE "found")
    /\ UNCHANGED <<files, issued, call, doc, now, held>>

(* Whatever lease is in the file by now. *)
RemoveExpired(c) ==
    /\ spc[c] = "remove"
    /\ file' = None
    /\ doc' = [doc EXCEPT ![c] = None]
    /\ Goto(c, "not-found")
    /\ UNCHANGED <<tmp, flock, issued, call, now, held>>

GetLock(c) ==
    /\ call[c] = "GetLock" /\ spc[c] \in {"found", "not-found"}
    /\ Return(c)
    /\ UNCHANGED <<files, issued, now, held>>

-----------------------------------------------------------------------------
(* What each method does with the lease it found. *)

AcquireLock(c) ==
    /\ call[c] = "AcquireLock" /\ spc[c] \in {"found", "not-found"}
    /\ LET taken == spc[c] = "found" /\ doc[c].expires > now
       IN  \/ /\ taken
              /\ Return(c)
              /\ UNCHANGED issued
           \/ /\ ~taken
              /\ Issue(c)
              /\ writeJSON(c, [id |-> Fresh(c), expires |-> now + TTL])
    /\ UNCHANGED <<files, now, held>>

(* Mutant: the lock id is not compared. *)
RefreshLockOfAnyone(c) ==
    /\ call[c] = "RefreshLock" /\ spc[c] \in {"found", "not-found"}
    /\ LET mine == spc[c] = "found" /\ doc[c].expires >= now
       IN  \/ mine /\ writeJSON(c, [doc[c] EXCEPT !.expires = now + TTL]) /\ UNCHANGED held
           \/ ~mine /\ Return(c) /\ Told(c, None)
    /\ UNCHANGED <<files, issued, now>>

(* Mutant: a refresh extends the old expiry instead of restarting it. *)
RefreshLockAccumulates(c) ==
    /\ call[c] = "RefreshLock" /\ spc[c] \in {"found", "not-found"}
    /\ LET mine == spc[c] = "found" /\ doc[c].id = held[c].id /\ doc[c].expires >= now
       IN  \/ mine /\ writeJSON(c, [doc[c] EXCEPT !.expires = @ + TTL]) /\ UNCHANGED held
           \/ ~mine /\ Return(c) /\ Told(c, None)
    /\ UNCHANGED <<files, issued, now>>

RefreshLock(c) ==
    /\ call[c] = "RefreshLock" /\ spc[c] \in {"found", "not-found"}
    /\ LET mine == spc[c] = "found" /\ doc[c].id = held[c].id /\ doc[c].expires >= now
       IN  \/ mine /\ writeJSON(c, [doc[c] EXCEPT !.expires = now + TTL]) /\ UNCHANGED held
           \/ ~mine /\ Return(c) /\ Told(c, None)
    /\ UNCHANGED <<files, issued, now>>

(* A lease of someone else is an error; either way c has none any more. *)
ReleaseLock(c) ==
    /\ call[c] = "ReleaseLock"
    /\ \/ /\ \/ spc[c] = "not-found"
             \/ spc[c] = "found" /\ doc[c].id # held[c].id
          /\ Return(c)
          /\ Told(c, None)
          /\ UNCHANGED file
       \/ /\ spc[c] = "found" /\ doc[c].id = held[c].id
          /\ Goto(c, "unlink")
          /\ UNCHANGED <<file, call, doc, held>>
       \/ /\ spc[c] = "unlink"
          /\ file' = None
          /\ Return(c)
          /\ Told(c, None)
    /\ UNCHANGED <<tmp, flock, issued, now>>

LeaseWritten(c) ==
    /\ Rename(c)
    /\ Told(c, IF tmp = None THEN None ELSE doc[c])
    /\ UNCHANGED now

LeaseStep(c) ==
    \/ CheckExpiry(c) \/ RemoveExpired(c) \/ GetLock(c)
    \/ AcquireLock(c) \/ RefreshLock(c) \/ ReleaseLock(c) \/ LeaseWritten(c)

Tick ==
    /\ now < MaxTime
    /\ now' = now + 1
    /\ UNCHANGED <<files, issued, call, spc, doc, held, overlapped>>

=============================================================================
