----------------------------- MODULE FileStore ------------------------------
(***************************************************************************)
(* The file-backed state store: any one of its records, of any kind, and    *)
(* the clients that use it at the same time.                                *)
(***************************************************************************)
EXTENDS Leases, Records

jsonvars == <<files, issued, call, spc, doc, overlapped>>
vars == <<jsonvars, now, held, kind, stored>>

Doc == Lease \cup Operation

ASSUME DocAssumption == None \notin Doc /\ Torn \notin Doc

TypeOK ==
    /\ file \in Doc \cup {None, Torn}
    /\ tmp \in Doc \cup {None, Torn}
    /\ flock \in Client \cup {None}
    /\ issued \in [Client -> 0..MaxIssued]
    /\ call \in [Client -> LeaseMethod \cup RecordMethod \cup {"none"}]
    /\ spc \in [Client -> SPC]
    /\ doc \in [Client -> Doc \cup {None}]
    /\ overlapped \in BOOLEAN
    /\ now \in 0..MaxTime
    /\ held \in [Client -> Lease \cup {None}]
    /\ kind \in Kind
    /\ stored \in SUBSET Serial

Init ==
    /\ FileInit
    /\ LeasesInit
    /\ kind \in Kind
    /\ RecordsInit

(* A client goes on with the call it is in. *)
Step(c) ==
    /\ \/ kind = "locks" /\ LeaseStep(c) /\ UNCHANGED stored
       \/ kind # "locks" /\ RecordStep(c) /\ UNCHANGED <<now, held>>
       \/ (Flock(c) \/ WriteFile(c)) /\ UNCHANGED <<now, held, stored>>
    /\ UNCHANGED <<kind, overlapped>>

Call(c) ==
    /\ \/ /\ kind = "locks" /\ UNCHANGED stored
          /\ \E method \in LeaseMethod : CallLease(c, method)
       \/ kind # "locks" /\ CallRecord(c) /\ UNCHANGED <<now, held>>
    /\ UNCHANGED kind

(* The client is told of the error and keeps the lease it had. *)
Fails(c) == WriteFails(c) /\ UNCHANGED <<now, held, kind, stored, overlapped>>

Dies(c) ==
    /\ spc[c] # "idle" \/ held[c] # None
    /\ Die(c)
    /\ Told(c, None)
    /\ UNCHANGED <<now, kind, stored, overlapped>>

Next ==
    \/ \E c \in Client : Step(c) \/ Call(c) \/ Fails(c) \/ Dies(c)
    \/ kind = "locks" /\ Tick /\ UNCHANGED <<kind, stored>>

Spec == Init /\ [][Next]_vars

(* A call in progress goes on, and the kernel serves flock waiters in turn:  *)
(* only while it waits for the flock is its step ever disabled.              *)
FairSpec == Spec /\ \A c \in Client : SF_vars(Step(c))

-----------------------------------------------------------------------------
(* Properties *)

Holds(c) == /\ held[c] # None /\ held[c].expires > now
            /\ call[c] # "ReleaseLock"

(* Two clients never both have a lease that has not expired (AcquireLock; the *)
(* test says "second AcquireLock ok=%v err=%v, want false nil").              *)
MutualExclusion == \A c, d \in Client : Holds(c) /\ Holds(d) => c = d

(* That is so as long as no two calls overlap, through expiry, take-over at   *)
(* the very moment of expiry, late refreshes, releases, a clock that moves    *)
(* within a call and deaths anywhere (AcquireLock, RefreshLock, ReleaseLock). *)
ExclusionWithoutOverlap == ~overlapped => MutualExclusion

(* As long as no two calls overlap, every change that UpdateOperation or one  *)
(* of the replacing methods reported as stored is in the file, whatever       *)
(* writers fail or die and wherever (UpdateOperation reads and writes in two  *)
(* steps).                                                                    *)
NoLostUpdate ==
    ~overlapped /\ stored # {} => file # None /\ stored \subseteq file.changes

(* A reader never sees a half-written file, however many writers there are    *)
(* and wherever they fail or die: writeJSON renames a complete file under the *)
(* flock.                                                                     *)
NeverTorn == file # Torn

(* writeJSON is atomic: however its steps interleave, the file changes to the *)
(* whole document of one writer that is still at it, or is removed.           *)
Register == INSTANCE Record WITH
    value <- file,
    pending <- [c \in Client |-> IF spc[c] \in Writing THEN doc[c] ELSE None]
ImplementsRecord == Register!Spec

(* Every call returns: nobody waits for the flock of a writer that is gone or *)
(* has returned (writeJSON's deferred unlock).                                *)
CallReturns == \A c \in Client : []<>(spc[c] = "idle")

=============================================================================
