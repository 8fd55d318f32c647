-------------------------- MODULE FileStoreProofs ---------------------------
(***************************************************************************)
(* Proofs about the file store: its records are atomic registers however    *)
(* many clients use them, and without overlapping calls leases exclude one  *)
(* another and no update is lost.                                           *)
(***************************************************************************)
EXTENDS FileStore, TLAPS

-----------------------------------------------------------------------------
(* The inductive invariant *)

(* Who holds the flock is between taking it and the rename, and owns the     *)
(* temporary file.                                                           *)
FlockInv ==
    /\ file # Torn
    /\ \A c \in Client : /\ flock = c <=> spc[c] \in Locked
                         /\ spc[c] = "rename" => tmp = doc[c]

(* What a call in progress has at hand. *)
Reading == {"check", "remove", "found", "unlink"}
Undecided == {"check", "remove", "found", "not-found"}

CallInv ==
    \A c \in Client :
        /\ spc[c] \in Reading \cup Writing => doc[c] \in Doc
        /\ spc[c] \in Undecided /\ call[c] \in {"AcquireLock", "UpdateOperation"}
             => issued[c] < MaxIssued
        /\ spc[c] = "unlink" => call[c] = "ReleaseLock"
        /\ spc[c] \in Writing => call[c] \notin {"ReleaseLock", "GetLock"}
        /\ spc[c] # "idle" => call[c] # "none"

(* A record holds documents of its own kind. *)
KindInv ==
    /\ kind = "locks" =>
         /\ file \in Lease \cup {None}
         /\ stored = {}
         /\ \A c \in Client : /\ doc[c] \in Lease \cup {None}
                              /\ call[c] \in LeaseMethod \cup {"none"}
    /\ kind # "locks" =>
         /\ file \in Operation \cup {None}
         /\ \A c \in Client : /\ doc[c] \in Operation \cup {None}
                              /\ call[c] \in RecordMethod \cup {"none"}
                              /\ held[c] = None
                              /\ spc[c] \notin {"check", "remove", "unlink"}
                              /\ spc[c] \in Writing => issued[c] # 0

(* A lease carries the name of the client it was given to. *)
OwnerInv ==
    kind = "locks" => \A c \in Client :
        /\ held[c] # None => held[c].id[1] = c
        /\ call[c] \in {"RefreshLock", "ReleaseLock"} => held[c] # None
        /\ spc[c] \in Writing => doc[c].id[1] = c
        /\ spc[c] = "unlink" => doc[c].id = held[c].id

Alone == \A c, d \in Client : spc[c] # "idle" /\ spc[d] # "idle" => c = d

Live(c) == held[c] # None /\ held[c].expires > now

(* Without overlap a lease that has not expired is the one in the file, and  *)
(* what a call has read is still true.                                       *)
LeaseInv ==
    \A c \in Client :
        /\ Live(c) => file = held[c]
        /\ spc[c] \in Reading => file = doc[c]
        /\ spc[c] = "remove" => doc[c].expires < now
        /\ spc[c] = "not-found" => file = None
        /\ spc[c] \in Writing => \A d \in Client : d # c => ~Live(d)
        /\ spc[c] \in Writing /\ call[c] = "AcquireLock" => ~Live(c)

(* Without overlap a write that is under way keeps what the file has. *)
UpdateInv ==
    /\ stored # {} => file # None /\ stored \subseteq file.changes
    /\ \A c \in Client :
         /\ spc[c] = "found" => file = doc[c]
         /\ spc[c] \in Writing => <<c, issued[c]>> \in doc[c].changes
         /\ spc[c] \in Writing /\ call[c] = "UpdateOperation"
              => file # None /\ file.changes \subseteq doc[c].changes

SoloInv ==
    ~overlapped => /\ Alone
                   /\ kind = "locks" => LeaseInv
                   /\ kind # "locks" => UpdateInv

IInv == TypeOK /\ FlockInv /\ CallInv /\ KindInv /\ OwnerInv /\ SoloInv

-----------------------------------------------------------------------------
USE JsonFileAssumption, LeasesAssumption, DocAssumption
USE DEF SPC, Writing, Locked, Reading, Undecided, LeaseMethod, RecordMethod, Kind

(* A call of a lease method, which reads the file (GetLock), keeps the     *)
(* invariant.                                                              *)
LEMMA CallLeaseOK ==
    ASSUME IInv, NEW c \in Client,
           NEW method \in LeaseMethod, kind = "locks",
           CallLease(c, method), UNCHANGED <<kind, stored>>
    PROVE  IInv'
<1>1. TypeOK'
  BY DEF CallLease, readJSON, Enter, Goto, files, IInv, TypeOK, CallInv,
       KindInv
<1>2. FlockInv'
  BY DEF CallLease, readJSON, Enter, Goto, files, IInv, TypeOK, FlockInv,
       CallInv
<1>3. CallInv'
  BY DEF CallLease, readJSON, Enter, Goto, files, IInv, TypeOK, FlockInv,
       CallInv, KindInv
<1>4. KindInv'
  BY DEF CallLease, readJSON, Enter, Goto, files, IInv, TypeOK, FlockInv,
       CallInv, KindInv
<1>5. OwnerInv'
  BY DEF CallLease, readJSON, Enter, Goto, files, IInv, TypeOK, FlockInv,
       CallInv, KindInv, OwnerInv
<1>6. SoloInv'
  <2>1. SUFFICES ASSUME ~overlapped'
                 PROVE  Alone' /\ LeaseInv'
    BY DEF SoloInv
  <2>2. LeaseInv /\ \A e \in Client : spc[e] = "idle"
    BY ZenonT(60), <2>1 DEF CallLease, readJSON, Enter, IInv, SoloInv
  <2>3. \A e \in Client : e # c => spc'[e] = "idle"
    BY <2>2 DEF CallLease, readJSON, Enter, Goto, IInv, TypeOK
  <2>4. LeaseInv'
    BY <2>2, <2>3 DEF CallLease, readJSON, Enter, Goto, files, IInv, TypeOK,
         LeaseInv, Live
  <2> QED
    BY <2>3, <2>4 DEF Alone
<1> QED
  BY <1>1, <1>2, <1>3, <1>4, <1>5, <1>6 DEF IInv

(* GetLock's look at the clock keeps the invariant.                        *)
LEMMA CheckExpiryOK ==
    ASSUME IInv, NEW c \in Client,
           kind = "locks", CheckExpiry(c), UNCHANGED <<kind, stored, overlapped>>
    PROVE  IInv'
<1>1. TypeOK'
  BY DEF CheckExpiry, Goto, files, IInv, TypeOK, CallInv, KindInv
<1>2. FlockInv'
  BY DEF CheckExpiry, Goto, files, IInv, TypeOK, FlockInv, CallInv
<1>3. CallInv'
  BY DEF CheckExpiry, Goto, files, IInv, TypeOK, FlockInv, CallInv, KindInv
<1>4. KindInv'
  BY DEF CheckExpiry, Goto, files, IInv, TypeOK, FlockInv, CallInv, KindInv
<1>5. OwnerInv'
  BY DEF CheckExpiry, Goto, files, IInv, TypeOK, FlockInv, CallInv, KindInv,
       OwnerInv
<1>6. SoloInv'
  BY DEF CheckExpiry, Goto, files, IInv, TypeOK, FlockInv, CallInv, KindInv,
       OwnerInv, SoloInv, Alone, LeaseInv, UpdateInv, Live
<1> QED
  BY <1>1, <1>2, <1>3, <1>4, <1>5, <1>6 DEF IInv

(* GetLock's removal of an expired lease keeps the invariant.              *)
LEMMA RemoveExpiredOK ==
    ASSUME IInv, NEW c \in Client,
           kind = "locks", RemoveExpired(c), UNCHANGED <<kind, stored, overlapped>>
    PROVE  IInv'
<1>1. TypeOK'
  BY DEF RemoveExpired, Goto, IInv, TypeOK, CallInv, KindInv
<1>2. FlockInv'
  BY DEF RemoveExpired, Goto, IInv, TypeOK, FlockInv, CallInv
<1>3. CallInv'
  BY DEF RemoveExpired, Goto, IInv, TypeOK, FlockInv, CallInv, KindInv
<1>4. KindInv'
  BY DEF RemoveExpired, Goto, IInv, TypeOK, FlockInv, CallInv, KindInv
<1>5. OwnerInv'
  BY DEF RemoveExpired, Goto, IInv, TypeOK, FlockInv, CallInv, KindInv,
       OwnerInv
<1>6. SoloInv'
  <2>1. SUFFICES ASSUME ~overlapped
                 PROVE  Alone' /\ LeaseInv'
    BY DEF RemoveExpired, SoloInv
  <2>2. Alone /\ LeaseInv
    BY <2>1 DEF IInv, SoloInv
  <2>3. \A e \in Client : e # c => spc'[e] = "idle"
    BY <2>2 DEF RemoveExpired, Goto, IInv, TypeOK, Alone
  <2>4. \A e \in Client : ~Live(e)
    <3>1. file = doc[c] /\ doc[c].expires < now /\ doc[c] \in Lease
      BY <2>2 DEF RemoveExpired, LeaseInv, IInv, CallInv, KindInv
    <3> QED
      BY <2>2, <3>1 DEF LeaseInv, Live, Lease, IInv, TypeOK
  <2>5. LeaseInv'
    BY <2>3, <2>4 DEF RemoveExpired, Goto, IInv, TypeOK, LeaseInv, Live
  <2> QED
    BY <2>3, <2>5 DEF Alone
<1> QED
  BY <1>1, <1>2, <1>3, <1>4, <1>5, <1>6 DEF IInv

(* The return of GetLock keeps the invariant.                              *)
LEMMA GetLockOK ==
    ASSUME IInv, NEW c \in Client,
           kind = "locks", GetLock(c), UNCHANGED <<kind, stored, overlapped>>
    PROVE  IInv'
<1>1. TypeOK'
  BY DEF GetLock, Return, Goto, files, IInv, TypeOK, CallInv, KindInv
<1>2. FlockInv'
  BY DEF GetLock, Return, Goto, files, IInv, TypeOK, FlockInv, CallInv
<1>3. CallInv'
  BY DEF GetLock, Return, Goto, files, IInv, TypeOK, FlockInv, CallInv,
       KindInv
<1>4. KindInv'
  BY DEF GetLock, Return, Goto, files, IInv, TypeOK, FlockInv, CallInv,
       KindInv
<1>5. OwnerInv'
  BY DEF GetLock, Return, Goto, files, IInv, TypeOK, FlockInv, CallInv,
       KindInv, OwnerInv
<1>6. SoloInv'
  BY DEF GetLock, Return, Goto, files, IInv, TypeOK, FlockInv, CallInv,
       KindInv, OwnerInv, SoloInv, Alone, LeaseInv, UpdateInv, Live
<1> QED
  BY <1>1, <1>2, <1>3, <1>4, <1>5, <1>6 DEF IInv

(* AcquireLock keeps the invariant: it writes only when nobody has a live  *)
(* lease.                                                                  *)
LEMMA AcquireLockOK ==
    ASSUME IInv, NEW c \in Client,
           kind = "locks", AcquireLock(c), UNCHANGED <<kind, stored, overlapped>>
    PROVE  IInv'
<1> DEFINE l == [id |-> Fresh(c), expires |-> now + TTL]
<1>a. l \in Lease /\ l \in Doc
  <2>1. Fresh(c) \in Serial
    BY DEF AcquireLock, IInv, TypeOK, CallInv, Fresh, Serial
  <2>2. now + TTL \in 0..(MaxTime + TTL)
    BY DEF IInv, TypeOK
  <2> QED
    BY <2>1, <2>2 DEF Lease, Doc
<1>1. TypeOK'
  BY <1>a DEF AcquireLock, Return, writeJSON, Issue, Fresh, Goto, files,
       IInv, TypeOK, CallInv, KindInv
<1>2. FlockInv'
  BY <1>a DEF AcquireLock, Return, writeJSON, Issue, Fresh, Goto, files,
       IInv, TypeOK, FlockInv, CallInv
<1>3. CallInv'
  BY <1>a DEF AcquireLock, Return, writeJSON, Issue, Fresh, Goto, files,
       IInv, TypeOK, FlockInv, CallInv, KindInv
<1>4. KindInv'
  BY <1>a DEF AcquireLock, Return, writeJSON, Issue, Fresh, Goto, files,
       IInv, TypeOK, FlockInv, CallInv, KindInv
<1>5. OwnerInv'
  BY <1>a DEF AcquireLock, Return, writeJSON, Issue, Fresh, Goto, files,
       IInv, TypeOK, FlockInv, CallInv, KindInv, OwnerInv
<1>6. SoloInv'
  BY <1>a DEF AcquireLock, Return, writeJSON, Issue, Fresh, Goto, files,
       IInv, TypeOK, FlockInv, CallInv, KindInv, OwnerInv, SoloInv, Alone,
       LeaseInv, UpdateInv, Live
<1> QED
  BY <1>1, <1>2, <1>3, <1>4, <1>5, <1>6 DEF IInv

(* RefreshLock keeps the invariant: what it writes back is its own lease.  *)
LEMMA RefreshLockOK ==
    ASSUME IInv, NEW c \in Client,
           kind = "locks", RefreshLock(c), UNCHANGED <<kind, stored, overlapped>>
    PROVE  IInv'
<1> DEFINE l == [doc[c] EXCEPT !.expires = now + TTL]
<1>a. doc[c] \in Lease => /\ l \in Lease /\ l \in Doc
                          /\ l.id = doc[c].id /\ l.expires = now + TTL
  <2>1. now + TTL \in 0..(MaxTime + TTL)
    BY DEF IInv, TypeOK
  <2> QED
    BY <2>1 DEF Lease, Doc
<1>b. spc[c] = "found" => doc[c] \in Lease
  BY DEF IInv, CallInv, KindInv
<1> HIDE DEF l
<1>c. \/ /\ spc[c] = "found" /\ doc[c].id = held[c].id /\ doc[c].expires >= now
         /\ doc' = [doc EXCEPT ![c] = l]
         /\ spc' = [spc EXCEPT ![c] = "flock"]
         /\ UNCHANGED <<call, held>>
      \/ /\ Return(c)
         /\ held' = [held EXCEPT ![c] = None]
  BY DEF RefreshLock, writeJSON, Goto, Told, l
<1>d. /\ call[c] = "RefreshLock" /\ spc[c] \in {"found", "not-found"}
      /\ UNCHANGED <<file, tmp, flock, issued, now>>
  BY DEF RefreshLock, files
<1>1. TypeOK'
  BY <1>a, <1>b, <1>c, <1>d DEF Return, Goto, IInv, TypeOK, CallInv, KindInv
<1>2. FlockInv'
  BY <1>a, <1>b, <1>c, <1>d DEF Return, Goto, IInv, TypeOK, FlockInv,
       CallInv
<1>3. CallInv'
  BY <1>a, <1>b, <1>c, <1>d DEF Return, Goto, IInv, TypeOK, FlockInv,
       CallInv, KindInv
<1>4. KindInv'
  BY <1>a, <1>b, <1>c, <1>d DEF Return, Goto, IInv, TypeOK, FlockInv,
       CallInv, KindInv
<1>5. OwnerInv'
  BY <1>a, <1>b, <1>c, <1>d DEF Return, Goto, IInv, TypeOK, FlockInv,
       CallInv, KindInv, OwnerInv
<1>6. SoloInv'
  BY <1>a, <1>b, <1>c, <1>d DEF Return, Goto, IInv, TypeOK, FlockInv,
       CallInv, KindInv, OwnerInv, SoloInv, Alone, LeaseInv, UpdateInv, Live
<1> QED
  BY <1>1, <1>2, <1>3, <1>4, <1>5, <1>6 DEF IInv

(* ReleaseLock keeps the invariant: it removes only its own lease.         *)
LEMMA ReleaseLockOK ==
    ASSUME IInv, NEW c \in Client,
           kind = "locks", ReleaseLock(c), UNCHANGED <<kind, stored, overlapped>>
    PROVE  IInv'
<1>1. TypeOK'
  BY DEF ReleaseLock, Return, Told, Goto, IInv, TypeOK, CallInv, KindInv
<1>2. FlockInv'
  BY DEF ReleaseLock, Return, Told, Goto, IInv, TypeOK, FlockInv, CallInv
<1>3. CallInv'
  BY DEF ReleaseLock, Return, Told, Goto, IInv, TypeOK, FlockInv, CallInv,
       KindInv
<1>4. KindInv'
  BY DEF ReleaseLock, Return, Told, Goto, IInv, TypeOK, FlockInv, CallInv,
       KindInv
<1>5. OwnerInv'
  BY DEF ReleaseLock, Return, Told, Goto, IInv, TypeOK, FlockInv, CallInv,
       KindInv, OwnerInv
<1>6. SoloInv'
  BY DEF ReleaseLock, Return, Told, Goto, IInv, TypeOK, FlockInv, CallInv,
       KindInv, OwnerInv, SoloInv, Alone, LeaseInv, UpdateInv, Live
<1> QED
  BY <1>1, <1>2, <1>3, <1>4, <1>5, <1>6 DEF IInv

(* The rename that stores a lease (writeJSON) keeps the invariant.         *)
LEMMA LeaseWrittenOK ==
    ASSUME IInv, NEW c \in Client,
           kind = "locks", LeaseWritten(c), UNCHANGED <<kind, stored, overlapped>>
    PROVE  IInv'
<1>1. TypeOK'
  BY DEF LeaseWritten, Rename, Return, Told, Goto, IInv, TypeOK, CallInv,
       KindInv
<1>2. FlockInv'
  BY DEF LeaseWritten, Rename, Return, Told, Goto, IInv, TypeOK, FlockInv,
       CallInv
<1>3. CallInv'
  BY DEF LeaseWritten, Rename, Return, Told, Goto, IInv, TypeOK, FlockInv,
       CallInv, KindInv
<1>4. KindInv'
  BY DEF LeaseWritten, Rename, Return, Told, Goto, IInv, TypeOK, FlockInv,
       CallInv, KindInv
<1>5. OwnerInv'
  BY DEF LeaseWritten, Rename, Return, Told, Goto, IInv, TypeOK, FlockInv,
       CallInv, KindInv, OwnerInv
<1>6. SoloInv'
  BY DEF LeaseWritten, Rename, Return, Told, Goto, IInv, TypeOK, FlockInv,
       CallInv, KindInv, OwnerInv, SoloInv, Alone, LeaseInv, UpdateInv, Live
<1> QED
  BY <1>1, <1>2, <1>3, <1>4, <1>5, <1>6 DEF IInv

(* A call of a replacing method (CreateOperation, SetDesiredPower, ...)    *)
(* keeps the invariant.                                                    *)
LEMMA PutOK ==
    ASSUME IInv, NEW c \in Client,
           kind # "locks", NEW method \in RecordMethod \ {"UpdateOperation"},
           Put(c, method), UNCHANGED <<kind, now, held>>
    PROVE  IInv'
<1> DEFINE o == [changes |-> {Fresh(c)}]
<1>a. o \in Operation /\ o \in Doc
  BY DEF Put, IInv, TypeOK, Fresh, Serial, Operation, Doc
<1>b. issued'[c] # 0 /\ \A e \in Client : e # c => issued'[e] = issued[e]
  BY DEF Put, Issue, IInv, TypeOK
<1> HIDE DEF o
<1>c. /\ doc' = [doc EXCEPT ![c] = o]
      /\ spc' = [spc EXCEPT ![c] = "flock"]
      /\ call' = [call EXCEPT ![c] = method]
      /\ spc[c] = "idle"
      /\ UNCHANGED <<file, tmp, flock, stored>>
  BY DEF Put, Enter, Goto, files, o
<1>d. issued' \in [Client -> 0..MaxIssued] /\ overlapped' \in BOOLEAN
  BY DEF Put, Enter, Issue, IInv, TypeOK
<1>1. TypeOK'
  BY ZenonT(60), <1>a, <1>b, <1>c, <1>d DEF IInv, TypeOK, CallInv, KindInv
<1>2. FlockInv'
  BY <1>a, <1>b, <1>c, <1>d DEF IInv, TypeOK, FlockInv, CallInv
<1>3. CallInv'
  BY <1>a, <1>b, <1>c, <1>d DEF IInv, TypeOK, FlockInv, CallInv, KindInv
<1>4. KindInv'
  BY <1>a, <1>b, <1>c DEF IInv, TypeOK, KindInv
<1>5. OwnerInv'
  BY <1>a, <1>b, <1>c, <1>d DEF IInv, TypeOK, FlockInv, CallInv, KindInv,
       OwnerInv
<1>6. SoloInv'
  <2>1. SUFFICES ASSUME ~overlapped'
                 PROVE  Alone' /\ UpdateInv'
    BY DEF SoloInv
  <2>2. UpdateInv /\ \A e \in Client : spc[e] = "idle"
    BY ZenonT(60), <2>1 DEF Put, Enter, IInv, SoloInv
  <2>3. \A e \in Client : e # c => spc'[e] = "idle"
    BY <2>2 DEF Put, Enter, Goto, IInv, TypeOK
  <2>4. spc'[c] = "flock" /\ call'[c] = method /\ doc'[c] = o /\ issued'[c] = issued[c] + 1
    BY DEF Put, Enter, Goto, Issue, IInv, TypeOK, o
  <2>5. <<c, issued'[c]>> \in doc'[c].changes
    BY <2>4 DEF Fresh, o
  <2>6. UpdateInv'
    BY <2>2, <2>3, <2>4, <2>5 DEF Put, files, UpdateInv
  <2> QED
    BY <2>3, <2>6 DEF Alone
<1> QED
  BY <1>1, <1>2, <1>3, <1>4, <1>5, <1>6 DEF IInv

(* UpdateOperation's read keeps the invariant.                             *)
LEMMA GetOperationOK ==
    ASSUME IInv, NEW c \in Client,
           kind # "locks", GetOperation(c), UNCHANGED <<kind, now, held>>
    PROVE  IInv'
<1>1. TypeOK'
  BY DEF GetOperation, readJSON, Enter, Goto, files, IInv, TypeOK, CallInv,
       KindInv
<1>2. FlockInv'
  BY DEF GetOperation, readJSON, Enter, Goto, files, IInv, TypeOK, FlockInv,
       CallInv
<1>3. CallInv'
  BY DEF GetOperation, readJSON, Enter, Goto, files, IInv, TypeOK, FlockInv,
       CallInv, KindInv
<1>4. KindInv'
  BY DEF GetOperation, readJSON, Enter, Goto, files, IInv, TypeOK, FlockInv,
       CallInv, KindInv
<1>5. OwnerInv'
  BY DEF GetOperation, readJSON, Enter, Goto, files, IInv, TypeOK, FlockInv,
       CallInv, KindInv, OwnerInv
<1>6. SoloInv'
  <2>1. SUFFICES ASSUME ~overlapped'
                 PROVE  Alone' /\ UpdateInv'
    BY DEF SoloInv
  <2>2. UpdateInv /\ \A e \in Client : spc[e] = "idle"
    BY ZenonT(60), <2>1 DEF GetOperation, readJSON, Enter, IInv, SoloInv
  <2>3. \A e \in Client : e # c => spc'[e] = "idle"
    BY <2>2 DEF GetOperation, readJSON, Enter, Goto, IInv, TypeOK
  <2>4. UpdateInv'
    BY <2>2, <2>3 DEF GetOperation, readJSON, Enter, Goto, files, IInv, TypeOK,
         UpdateInv
  <2> QED
    BY <2>3, <2>4 DEF Alone
<1> QED
  BY <1>1, <1>2, <1>3, <1>4, <1>5, <1>6 DEF IInv

(* UpdateOperation keeps the invariant: it adds to what it has read.       *)
LEMMA UpdateOperationOK ==
    ASSUME IInv, NEW c \in Client,
           kind # "locks", UpdateOperation(c), UNCHANGED <<kind, overlapped, now, held>>
    PROVE  IInv'
<1> DEFINE o == [changes |-> doc[c].changes \cup {Fresh(c)}]
<1>a. spc[c] = "found" => o \in Operation /\ o \in Doc
  <2>1. Fresh(c) \in Serial
    BY DEF UpdateOperation, IInv, TypeOK, CallInv, Fresh, Serial
  <2>2. spc[c] = "found" => doc[c] \in Operation
    BY DEF IInv, CallInv, KindInv
  <2> QED
    BY <2>1, <2>2 DEF Operation, Doc
<1>b. /\ o.changes = doc[c].changes \cup {Fresh(c)}
      /\ Fresh(c) = <<c, issued[c] + 1>>
  BY DEF Fresh
<1> HIDE DEF o
<1>c. \/ /\ spc[c] = "found"
         /\ doc' = [doc EXCEPT ![c] = o]
         /\ spc' = [spc EXCEPT ![c] = "flock"]
         /\ issued' = [issued EXCEPT ![c] = @ + 1]
         /\ UNCHANGED call
      \/ Return(c) /\ UNCHANGED issued
  BY DEF UpdateOperation, writeJSON, Goto, Issue, o
<1>d. /\ call[c] = "UpdateOperation" /\ spc[c] \in {"found", "not-found"}
      /\ UNCHANGED <<file, tmp, flock, stored>>
  BY DEF UpdateOperation, files
<1>1. TypeOK'
  BY <1>a, <1>b, <1>c, <1>d DEF Return, Goto, IInv, TypeOK, CallInv, KindInv
<1>2. FlockInv'
  BY <1>a, <1>b, <1>c, <1>d DEF Return, Goto, IInv, TypeOK, FlockInv,
       CallInv
<1>3. CallInv'
  BY <1>a, <1>b, <1>c, <1>d DEF Return, Goto, IInv, TypeOK, FlockInv,
       CallInv, KindInv
<1>4. KindInv'
  BY <1>a, <1>b, <1>c, <1>d DEF Return, Goto, IInv, TypeOK, FlockInv,
       CallInv, KindInv
<1>5. OwnerInv'
  BY <1>a, <1>b, <1>c, <1>d DEF Return, Goto, IInv, TypeOK, FlockInv,
       CallInv, KindInv, OwnerInv
<1>6. SoloInv'
  <2>1. SUFFICES ASSUME ~overlapped
                 PROVE  Alone' /\ UpdateInv'
    BY DEF SoloInv
  <2>2. Alone /\ UpdateInv
    BY <2>1 DEF IInv, SoloInv
  <2>3. \A e \in Client : e # c => spc'[e] = "idle"
    BY <2>2, <1>c, <1>d DEF Return, Goto, IInv, TypeOK, Alone
  <2>4. UpdateInv'
    <3>1. CASE Return(c) /\ UNCHANGED issued
      BY <2>2, <2>3, <3>1, <1>d DEF Return, Goto, IInv, TypeOK, UpdateInv
    <3>2. CASE ~(Return(c) /\ UNCHANGED issued)
      <4>1. /\ spc[c] = "found" /\ file = doc[c] /\ doc[c] # None
            /\ spc'[c] = "flock" /\ doc'[c] = o
            /\ issued'[c] = issued[c] + 1
        BY ZenonT(60), <2>2, <3>2, <1>c DEF IInv, TypeOK, CallInv, UpdateInv
      <4>2. <<c, issued'[c]>> \in doc'[c].changes /\ file.changes \subseteq doc'[c].changes
        BY <4>1, <1>b
      <4> QED
        BY <2>2, <2>3, <4>1, <4>2, <1>d DEF UpdateInv
    <3> QED
      BY <3>1, <3>2
  <2> QED
    BY <2>3, <2>4 DEF Alone
<1> QED
  BY <1>1, <1>2, <1>3, <1>4, <1>5, <1>6 DEF IInv

(* The rename that stores another record (writeJSON) keeps the invariant.  *)
LEMMA RecordWrittenOK ==
    ASSUME IInv, NEW c \in Client,
           kind # "locks", RecordWritten(c), UNCHANGED <<kind, overlapped, now, held>>
    PROVE  IInv'
<1>1. TypeOK'
  <2>1. tmp = doc[c] /\ doc[c] \in Doc /\ tmp # None
    BY DEF RecordWritten, Rename, IInv, FlockInv, CallInv
  <2>2. <<c, issued[c]>> \in Serial
    <3>1. kind \in Kind /\ issued[c] # 0
      BY DEF RecordWritten, Rename, IInv, TypeOK, KindInv
    <3> QED
      BY <3>1 DEF Serial, IInv, TypeOK
  <2>3. stored' \in SUBSET Serial
    BY <2>1, <2>2 DEF RecordWritten, IInv, TypeOK
  <2> QED
    BY <2>1, <2>3 DEF RecordWritten, Rename, Return, Goto, IInv, TypeOK
<1>2. FlockInv'
  BY DEF RecordWritten, Rename, Return, Goto, IInv, TypeOK, FlockInv,
       CallInv
<1>3. CallInv'
  BY DEF RecordWritten, Rename, Return, Goto, IInv, TypeOK, FlockInv,
       CallInv, KindInv
<1>4. KindInv'
  BY DEF RecordWritten, Rename, Return, Goto, IInv, TypeOK, FlockInv,
       CallInv, KindInv
<1>5. OwnerInv'
  BY DEF RecordWritten, Rename, Return, Goto, IInv, TypeOK, FlockInv,
       CallInv, KindInv, OwnerInv
<1>6. SoloInv'
  <2>1. SUFFICES ASSUME ~overlapped
                 PROVE  Alone' /\ UpdateInv'
    BY DEF SoloInv
  <2>2. Alone /\ UpdateInv
    BY <2>1 DEF IInv, SoloInv
  <2>3. \A e \in Client : spc'[e] = "idle"
    BY <2>2 DEF RecordWritten, Rename, Return, Goto, IInv, TypeOK, Alone
  <2>4. tmp = doc[c] /\ doc[c] \in Doc /\ tmp # None /\ file' = tmp
    BY DEF RecordWritten, Rename, IInv, FlockInv, CallInv
  <2>5. stored' \subseteq file'.changes
    BY ZenonT(60), <2>2, <2>4 DEF RecordWritten, Rename, UpdateInv
  <2>6. UpdateInv'
    BY <2>3, <2>4, <2>5 DEF UpdateInv
  <2> QED
    BY <2>3, <2>6 DEF Alone
<1> QED
  BY <1>1, <1>2, <1>3, <1>4, <1>5, <1>6 DEF IInv

(* Taking the flock (writeJSON) keeps the invariant.                       *)
LEMMA FlockOK ==
    ASSUME IInv, NEW c \in Client,
           Flock(c), UNCHANGED <<now, held, stored, kind, overlapped>>
    PROVE  IInv'
<1>1. TypeOK'
  BY DEF Flock, Goto, IInv, TypeOK, CallInv, KindInv
<1>2. FlockInv'
  BY DEF Flock, Goto, IInv, TypeOK, FlockInv, CallInv
<1>3. CallInv'
  BY DEF Flock, Goto, IInv, TypeOK, FlockInv, CallInv, KindInv
<1>4. KindInv'
  BY DEF Flock, Goto, IInv, TypeOK, FlockInv, CallInv, KindInv
<1>5. OwnerInv'
  BY DEF Flock, Goto, IInv, TypeOK, FlockInv, CallInv, KindInv, OwnerInv
<1>6. SoloInv'
  BY DEF Flock, Goto, IInv, TypeOK, FlockInv, CallInv, KindInv, OwnerInv,
       SoloInv, Alone, LeaseInv, UpdateInv, Live
<1> QED
  BY <1>1, <1>2, <1>3, <1>4, <1>5, <1>6 DEF IInv

(* Writing the temporary file (writeJSON) keeps the invariant.             *)
LEMMA WriteFileOK ==
    ASSUME IInv, NEW c \in Client,
           WriteFile(c), UNCHANGED <<now, held, stored, kind, overlapped>>
    PROVE  IInv'
<1>1. TypeOK'
  BY DEF WriteFile, Goto, IInv, TypeOK, CallInv, KindInv
<1>2. FlockInv'
  BY DEF WriteFile, Goto, IInv, TypeOK, FlockInv, CallInv
<1>3. CallInv'
  BY DEF WriteFile, Goto, IInv, TypeOK, FlockInv, CallInv, KindInv
<1>4. KindInv'
  BY DEF WriteFile, Goto, IInv, TypeOK, FlockInv, CallInv, KindInv
<1>5. OwnerInv'
  BY DEF WriteFile, Goto, IInv, TypeOK, FlockInv, CallInv, KindInv, OwnerInv
<1>6. SoloInv'
  BY DEF WriteFile, Goto, IInv, TypeOK, FlockInv, CallInv, KindInv,
       OwnerInv, SoloInv, Alone, LeaseInv, UpdateInv, Live
<1> QED
  BY <1>1, <1>2, <1>3, <1>4, <1>5, <1>6 DEF IInv

(* A file operation that fails under a living client keeps the invariant:  *)
(* nothing was renamed, and the client's lease is as it was.               *)
LEMMA FailsOK ==
    ASSUME IInv, NEW c \in Client,
           Fails(c)
    PROVE  IInv'
<1>1. TypeOK'
  BY DEF Fails, WriteFails, Return, Goto, IInv, TypeOK, CallInv, KindInv
<1>2. FlockInv'
  BY DEF Fails, WriteFails, Return, Goto, IInv, TypeOK, FlockInv, CallInv
<1>3. CallInv'
  BY DEF Fails, WriteFails, Return, Goto, IInv, TypeOK, FlockInv, CallInv,
       KindInv
<1>4. KindInv'
  BY DEF Fails, WriteFails, Return, Goto, IInv, TypeOK, FlockInv, CallInv,
       KindInv
<1>5. OwnerInv'
  BY DEF Fails, WriteFails, Return, Goto, IInv, TypeOK, FlockInv, CallInv,
       KindInv, OwnerInv
<1>6. SoloInv'
  BY DEF Fails, WriteFails, Return, Goto, IInv, TypeOK, FlockInv, CallInv,
       KindInv, OwnerInv, SoloInv, Alone, LeaseInv, UpdateInv, Live
<1> QED
  BY <1>1, <1>2, <1>3, <1>4, <1>5, <1>6 DEF IInv

(* The death of a client between any two file operations keeps the         *)
(* invariant.                                                              *)
LEMMA DiesOK ==
    ASSUME IInv, NEW c \in Client,
           Dies(c)
    PROVE  IInv'
<1>1. TypeOK'
  BY DEF Dies, Die, Return, Told, Goto, IInv, TypeOK, CallInv, KindInv
<1>2. FlockInv'
  BY DEF Dies, Die, Return, Told, Goto, IInv, TypeOK, FlockInv, CallInv
<1>3. CallInv'
  BY DEF Dies, Die, Return, Told, Goto, IInv, TypeOK, FlockInv, CallInv,
       KindInv
<1>4. KindInv'
  BY DEF Dies, Die, Return, Told, Goto, IInv, TypeOK, FlockInv, CallInv,
       KindInv
<1>5. OwnerInv'
  BY DEF Dies, Die, Return, Told, Goto, IInv, TypeOK, FlockInv, CallInv,
       KindInv, OwnerInv
<1>6. SoloInv'
  BY DEF Dies, Die, Return, Told, Goto, IInv, TypeOK, FlockInv, CallInv,
       KindInv, OwnerInv, SoloInv, Alone, LeaseInv, UpdateInv, Live
<1> QED
  BY <1>1, <1>2, <1>3, <1>4, <1>5, <1>6 DEF IInv

(* The initial states, with no file and no call, satisfy the invariant. *)
LEMMA InitOK == Init => IInv
<1> SUFFICES ASSUME Init PROVE IInv
  OBVIOUS
<1>1. TypeOK
  <2>1. issued \in [Client -> 0..MaxIssued] /\ now \in 0..MaxTime
    BY DEF Init, FileInit, LeasesInit
  <2> QED
    BY ZenonT(60), <2>1 DEF Init, FileInit, LeasesInit, RecordsInit, TypeOK
<1>2. FlockInv /\ CallInv /\ KindInv /\ OwnerInv
  BY DEF Init, FileInit, LeasesInit, RecordsInit, FlockInv, CallInv, KindInv, OwnerInv
<1>3. SoloInv
  BY DEF Init, FileInit, LeasesInit, RecordsInit, SoloInv, Alone, LeaseInv, UpdateInv, Live
<1> QED
  BY <1>1, <1>2, <1>3 DEF IInv

(* The clock, which moves between any two file operations, keeps the       *)
(* invariant: a lease only ever stops being live.                          *)
LEMMA TickOK == IInv /\ kind = "locks" /\ Tick /\ UNCHANGED <<kind, stored>> => IInv'
<1> SUFFICES ASSUME IInv, kind = "locks", Tick, UNCHANGED <<kind, stored>> PROVE IInv'
  OBVIOUS
<1>1. TypeOK'
  BY DEF Tick, files, IInv, TypeOK
<1>2. FlockInv' /\ CallInv' /\ KindInv' /\ OwnerInv'
  BY DEF Tick, files, IInv, TypeOK, FlockInv, CallInv, KindInv, OwnerInv
<1>3. \A e \in Client : Live(e)' => Live(e)
  BY DEF Tick, files, IInv, TypeOK, Live, Lease
<1>4. SoloInv'
  <2>1. SUFFICES ASSUME ~overlapped
                 PROVE  Alone' /\ LeaseInv'
    BY DEF Tick, SoloInv
  <2>2. Alone /\ LeaseInv
    BY <2>1 DEF IInv, SoloInv
  <2>3. Alone'
    BY <2>2 DEF Tick, Alone
  <2>4. ASSUME NEW e \in Client, spc[e] = "remove"
        PROVE  doc[e].expires < now'
    BY <2>2, <2>4 DEF Tick, IInv, TypeOK, CallInv, KindInv, LeaseInv, Lease
  <2> QED
    BY <2>2, <2>3, <2>4, <1>3 DEF Tick, files, LeaseInv
<1> QED
  BY <1>1, <1>2, <1>4 DEF IInv

(* Every step of every client, and the clock, keep the invariant. *)
LEMMA NextOK == IInv /\ [Next]_vars => IInv'
<1> SUFFICES ASSUME IInv, [Next]_vars PROVE IInv'
  OBVIOUS
<1>1. CASE UNCHANGED vars
  <2>1. /\ UNCHANGED <<file, tmp, flock, issued, call, spc>>
        /\ UNCHANGED <<doc, overlapped, now, held, kind, stored>>
    BY <1>1 DEF vars, jsonvars, files
  <2>2. TypeOK'
    BY <2>1 DEF IInv, TypeOK
  <2>3. FlockInv' /\ CallInv'
    BY <2>1 DEF IInv, FlockInv, CallInv
  <2>4. KindInv' /\ OwnerInv'
    BY <2>1 DEF IInv, KindInv, OwnerInv
  <2>5. SoloInv'
    BY <2>1 DEF IInv, SoloInv, Alone, LeaseInv, UpdateInv, Live
  <2> QED
    BY <2>2, <2>3, <2>4, <2>5 DEF IInv
<1>2. ASSUME NEW c \in Client, Step(c) PROVE IInv'
  BY <1>2, CheckExpiryOK, RemoveExpiredOK, GetLockOK, AcquireLockOK, RefreshLockOK,
     ReleaseLockOK, LeaseWrittenOK, UpdateOperationOK, RecordWrittenOK, FlockOK,
     WriteFileOK DEF Step, LeaseStep, RecordStep
<1>3. ASSUME NEW c \in Client, Call(c) PROVE IInv'
  <2>1. CASE kind = "locks"
    BY <1>3, <2>1, CallLeaseOK DEF Call
  <2>2. CASE kind # "locks"
    BY <1>3, <2>2, PutOK, GetOperationOK DEF Call, CallRecord, CreateOperation,
       SetDesiredPower, UpdateObservedState, SetLastSuccess
  <2> QED
    BY <2>1, <2>2
<1>4. ASSUME NEW c \in Client, Dies(c) PROVE IInv'
  BY <1>4, DiesOK
<1>5. ASSUME NEW c \in Client, Fails(c) PROVE IInv'
  BY <1>5, FailsOK
<1> QED
  BY <1>1, <1>2, <1>3, <1>4, <1>5, TickOK DEF Next

(* The invariant holds in every reachable state. *)
THEOREM Invariance == Spec => []IInv
BY InitOK, NextOK, PTL DEF Spec

(* The state of the store keeps its type: no document has an expiry past    *)
(* the ttl after the latest time (AcquireLock, RefreshLock).                *)
THEOREM TypeCorrect == Spec => []TypeOK
<1>1. IInv => TypeOK
  BY DEF IInv
<1> QED
  BY Invariance, <1>1, PTL

(* For any number of clients, dying anywhere, no reader sees a half-written *)
(* file (writeJSON).                                                        *)
THEOREM NeverTornCorrect == Spec => []NeverTorn
<1>1. IInv => NeverTorn
  BY DEF IInv, FlockInv, NeverTorn
<1> QED
  BY Invariance, <1>1, PTL

(* For any number of clients, any ttl and any clock, leases exclude one     *)
(* another as long as no two calls overlap (AcquireLock, RefreshLock,       *)
(* ReleaseLock, GetLock).                                                   *)
THEOREM ExclusionCorrect == Spec => []ExclusionWithoutOverlap
<1>1. IInv => ExclusionWithoutOverlap
  <2>1. SUFFICES ASSUME IInv, ~overlapped, NEW c \in Client, NEW d \in Client,
                        Holds(c), Holds(d)
                 PROVE  c = d
    BY DEF ExclusionWithoutOverlap, MutualExclusion
  <2>2. kind = "locks"
    BY <2>1 DEF IInv, TypeOK, KindInv, Holds
  <2>3. file = held[c] /\ file = held[d]
    BY <2>1, <2>2 DEF IInv, SoloInv, LeaseInv, Live, Holds
  <2>4. held[c].id[1] = c /\ held[d].id[1] = d
    BY <2>1, <2>2 DEF IInv, OwnerInv, Holds
  <2> QED
    BY <2>3, <2>4
<1> QED
  BY Invariance, <1>1, PTL

(* For any number of clients, no change reported as stored is lost as long  *)
(* as no two calls overlap (UpdateOperation and the replacing methods).     *)
THEOREM NoLostUpdateCorrect == Spec => []NoLostUpdate
<1>1. IInv => NoLostUpdate
  BY DEF IInv, SoloInv, UpdateInv, KindInv, NoLostUpdate
<1> QED
  BY Invariance, <1>1, PTL

-----------------------------------------------------------------------------
(* The store's record as an atomic register *)

Pending == [c \in Client |-> IF spc[c] \in Writing THEN doc[c] ELSE None]

(* What a step of one client does to the register: nothing, or it removes   *)
(* the record, begins to store a document, stores it, or gives up.          *)
RegisterEffect(c) ==
    /\ \A e \in Client : e # c => Pending'[e] = Pending[e]
    /\ \/ file' = file /\ Pending'[c] = Pending[c]
       \/ file' = None /\ Pending'[c] = Pending[c]
       \/ file' = file /\ Pending[c] = None /\ Pending'[c] \in Doc
       \/ file' = Pending[c] /\ Pending[c] # None /\ Pending'[c] = None
       \/ file' = file /\ Pending[c] # None /\ Pending'[c] = None

(* Each step of a lease method has one of these effects (GetLock,           *)
(* AcquireLock, RefreshLock, ReleaseLock).                                  *)
LEMMA LeaseEffect ==
    ASSUME IInv, IInv', NEW c \in Client, kind = "locks", LeaseStep(c)
    PROVE  RegisterEffect(c)
<1>1. CASE CheckExpiry(c) \/ RemoveExpired(c) \/ GetLock(c)
  BY ZenonT(60), <1>1 DEF CheckExpiry, RemoveExpired, GetLock, Return, Goto, files, IInv, TypeOK,
       RegisterEffect, Pending
<1>2. CASE AcquireLock(c) \/ RefreshLock(c)
  <2>1. /\ file' = file /\ spc[c] \notin Writing
        /\ \A e \in Client : e # c => spc'[e] = spc[e] /\ doc'[e] = doc[e]
    BY <1>2 DEF AcquireLock, RefreshLock, writeJSON, Return, Goto, files, IInv, TypeOK
  <2>2. spc'[c] \in Writing => doc'[c] \in Doc
    BY DEF IInv, CallInv
  <2> QED
    BY ZenonT(60), <2>1, <2>2 DEF RegisterEffect, Pending
<1>3. CASE ReleaseLock(c)
  BY <1>3 DEF ReleaseLock, Return, Goto, IInv, TypeOK,
         RegisterEffect, Pending
<1>4. CASE LeaseWritten(c)
  <2>1. tmp = doc[c] /\ doc[c] \in Doc /\ spc[c] = "rename"
    BY ZenonT(60), <1>4 DEF LeaseWritten, Rename, IInv, FlockInv, CallInv
  <2> QED
    BY ZenonT(60), <1>4, <2>1 DEF LeaseWritten, Rename, Return, Goto, IInv, TypeOK,
         RegisterEffect, Pending
<1> QED
  BY <1>1, <1>2, <1>3, <1>4 DEF LeaseStep

(* So has each step of UpdateOperation and of the replacing methods. *)
LEMMA RecordEffect ==
    ASSUME IInv, IInv', NEW c \in Client, RecordStep(c)
    PROVE  RegisterEffect(c)
<1>1. CASE UpdateOperation(c)
  <2>1. /\ file' = file /\ spc[c] \notin Writing
        /\ \A e \in Client : e # c => spc'[e] = spc[e] /\ doc'[e] = doc[e]
    BY ZenonT(60), <1>1 DEF UpdateOperation, writeJSON, Return, Goto, files, IInv, TypeOK
  <2>2. spc'[c] \in Writing => doc'[c] \in Doc
    BY ZenonT(60) DEF IInv, CallInv
  <2> QED
    BY ZenonT(60), <2>1, <2>2 DEF RegisterEffect, Pending
<1>2. CASE RecordWritten(c)
  <2>1. tmp = doc[c] /\ doc[c] \in Doc /\ spc[c] = "rename"
    BY ZenonT(60), <1>2 DEF RecordWritten, Rename, IInv, FlockInv, CallInv
  <2> QED
    BY <1>2, <2>1 DEF RecordWritten, Rename, Return, Goto, IInv, TypeOK,
         RegisterEffect, Pending
<1> QED
  BY ZenonT(60), <1>1, <1>2 DEF RecordStep

(* So has the call of a method, which at most begins to store a document. *)
LEMMA CallEffect ==
    ASSUME IInv, IInv', NEW c \in Client, Call(c)
    PROVE  RegisterEffect(c)
<1>1. /\ file' = file /\ spc[c] \notin Writing
      /\ \A e \in Client : e # c => spc'[e] = spc[e] /\ doc'[e] = doc[e]
  <2>1. file' = file /\ \E method, d, next : Enter(c, method, d, next)
    <3>1. CASE \E method \in LeaseMethod : CallLease(c, method)
      BY <3>1 DEF CallLease, readJSON, files
    <3>2. CASE \E method : Put(c, method)
      BY <3>2 DEF Put, files
    <3>3. CASE GetOperation(c)
      BY <3>3 DEF GetOperation, readJSON, files
    <3> QED
      BY <3>1, <3>2, <3>3 DEF Call, CallRecord, CreateOperation, SetDesiredPower,
         UpdateObservedState, SetLastSuccess
  <2> QED
    BY <2>1 DEF Enter, Goto, IInv, TypeOK
<1>2. spc'[c] \in Writing => doc'[c] \in Doc
  BY DEF IInv, CallInv
<1> QED
  BY ZenonT(60), <1>1, <1>2 DEF RegisterEffect, Pending

(* So have the steps of writeJSON before the rename, a failure and a death. *)
LEMMA WriteEffect ==
    ASSUME IInv, NEW c \in Client, Flock(c) \/ WriteFile(c) \/ Fails(c) \/ Dies(c)
    PROVE  RegisterEffect(c)
<1>1. CASE Flock(c) \/ WriteFile(c)
  BY ZenonT(60), <1>1 DEF Flock, WriteFile, Goto, IInv, TypeOK, RegisterEffect, Pending
<1>2. CASE Fails(c) \/ Dies(c)
  <2>1. spc[c] \in Writing => doc[c] # None
    BY ZenonT(60) DEF IInv, CallInv
  <2> QED
    BY ZenonT(60), <1>2, <2>1 DEF Fails, WriteFails, Dies, Die, Return, Goto,
         IInv, TypeOK, RegisterEffect, Pending
<1> QED
  BY <1>1, <1>2

(* Each of these effects is a step of the atomic register, or none. *)
LEMMA EffectIsStep ==
    ASSUME NEW c \in Client, RegisterEffect(c)
    PROVE  [Register!Next]_<<file, Pending>>
<1>1. Pending' = [Pending EXCEPT ![c] = Pending'[c]]
  BY ZenonT(60) DEF RegisterEffect, Pending
<1>2. CASE file' = file /\ Pending'[c] = Pending[c]
  BY ZenonT(60), <1>1, <1>2 DEF Pending
<1>3. CASE file' = None /\ Pending'[c] = Pending[c]
  <2>1. Pending' = Pending
    BY ZenonT(60), <1>1, <1>3 DEF Pending
  <2> QED
    BY <1>3, <2>1 DEF Register!Next, Register!Remove, Pending
<1>4. CASE file' = file /\ Pending[c] = None /\ Pending'[c] \in Doc
  <2>1. Register!Begin(c)
    BY ZenonT(60), <1>1, <1>4 DEF Register!Begin, Pending
  <2> QED
    BY ZenonT(60), <2>1 DEF Register!Next
<1>5. CASE file' = Pending[c] /\ Pending[c] # None /\ Pending'[c] = None
  <2>1. Register!Commit(c)
    BY ZenonT(60), <1>1, <1>5 DEF Register!Commit, Pending
  <2> QED
    BY <2>1 DEF Register!Next
<1>6. CASE file' = file /\ Pending[c] # None /\ Pending'[c] = None
  <2>1. Register!Abort(c)
    BY ZenonT(60), <1>1, <1>6 DEF Register!Abort, Pending
  <2> QED
    BY <2>1 DEF Register!Next
<1> QED
  BY ZenonT(60), <1>2, <1>3, <1>4, <1>5, <1>6 DEF RegisterEffect

(* For any number of clients, overlapping, failing and dying anywhere, a     *)
(* record of the store is an atomic register (writeJSON).                    *)
THEOREM RegisterCorrect == Spec => ImplementsRecord
<1>1. Init => Register!Init
  BY DEF Init, FileInit, Register!Init
<1>2. IInv /\ IInv' /\ [Next]_vars => [Register!Next]_<<file, Pending>>
  <2> SUFFICES ASSUME IInv, IInv', [Next]_vars
               PROVE  [Register!Next]_<<file, Pending>>
    OBVIOUS
  <2>1. CASE UNCHANGED vars \/ Tick
    BY <2>1 DEF vars, jsonvars, files, Tick, Pending
  <2>2. ASSUME NEW c \in Client, Step(c) \/ Call(c) \/ Fails(c) \/ Dies(c)
        PROVE  RegisterEffect(c)
    BY <2>2, LeaseEffect, RecordEffect, CallEffect, WriteEffect DEF Step
  <2> QED
    BY <2>1, <2>2, EffectIsStep DEF Next
<1>3. Pending = [c \in Client |-> IF spc[c] \in Writing THEN doc[c] ELSE None]
  BY DEF Pending
<1> QED
  BY Invariance, <1>1, <1>2, <1>3, PTL DEF Spec, ImplementsRecord, Register!Spec, Pending

=============================================================================
