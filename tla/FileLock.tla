------------------------------ MODULE FileLock ------------------------------
(***************************************************************************)
(* internal/filelock: an advisory lock on a file that its holder deletes.  *)
(*                                                                         *)
(* One member of Procs is one acquire..Release sequence of a goroutine:    *)
(* flock(2) belongs to the open file description and every acquire opens   *)
(* its own, so two goroutines of a process exclude each other exactly as   *)
(* two processes do.  Each system call is one step.  The directory entry   *)
(* (path), the files it has named (Inodes) and the locks on them (flock)   *)
(* are the state the kernel keeps; pc, call and ino are the caller's.      *)
(*                                                                         *)
(* pc:  "idle"      no call in progress                                    *)
(*      "open"      about to OpenFile (the head of the for loop)           *)
(*      "flock"     descriptor open, polling flock(LOCK_EX|LOCK_NB)        *)
(*      "stat"      flock granted, about to compare descriptor and path    *)
(*      "held"      the caller has a *Handle                               *)
(*      "truncated" SetContent is between Truncate and WriteAt             *)
(*      "published" the caller has a *Handle and SetContent has returned   *)
(*      "unlock"    Release has tried os.Remove, LOCK_UN is next           *)
(*      "close"     Release has unlocked, Close is next                    *)
(***************************************************************************)
EXTENDS Naturals, FiniteSets

CONSTANTS Procs,    \* acquire..Release sequences
          Inodes,   \* files the path may name over time
          NoInode,  \* the path names nothing / no descriptor is open
          Nobody,   \* no flock on a file
          Empty,    \* body of a file nobody has written
          Torn      \* body between Truncate and WriteAt

ASSUME NamesAssumption ==
  /\ NoInode \notin Inodes
  /\ Nobody \notin Procs
  /\ Empty \notin Procs
  /\ Torn \notin Procs

VARIABLES path,   \* what the lock file's name refers to
          flock,  \* inode -> holder of the exclusive flock on it
          body,   \* inode -> whose payload the file carries
          pc, call, ino

vars == <<path, flock, body, pc, call, ino>>

Calls == {"Acquire", "AcquireExisting", "TryAcquire"}

Handles == {"held", "truncated", "published"}

Init ==
  /\ path = NoInode
  /\ flock = [i \in Inodes |-> Nobody]
  /\ body = [i \in Inodes |-> Empty]
  /\ pc = [p \in Procs |-> "idle"]
  /\ call = [p \in Procs |-> "none"]
  /\ ino = [p \in Procs |-> NoInode]

-----------------------------------------------------------------------------
(* Closing a descriptor drops the flock its open file description holds.   *)
Unlocked(p) == [i \in Inodes |-> IF flock[i] = p THEN Nobody ELSE flock[i]]

Close(p) ==
  /\ flock' = Unlocked(p)
  /\ ino' = [ino EXCEPT ![p] = NoInode]

Return(p) ==
  /\ pc' = [pc EXCEPT ![p] = "idle"]
  /\ call' = [call EXCEPT ![p] = "none"]

(* A file that has neither a name nor an open descriptor: the kernel may   *)
(* reuse its inode number for the next file created.                       *)
Fresh(i) == i # path /\ \A p \in Procs : ino[p] # i

Call(p, c) ==
  /\ pc[p] = "idle"
  /\ pc' = [pc EXCEPT ![p] = "open"]
  /\ call' = [call EXCEPT ![p] = c]
  /\ UNCHANGED <<path, flock, body, ino>>

OpenExisting(p) ==
  /\ pc[p] = "open"
  /\ path # NoInode
  /\ ino' = [ino EXCEPT ![p] = path]
  /\ pc' = [pc EXCEPT ![p] = "flock"]
  /\ UNCHANGED <<path, flock, body, call>>

OpenCreates(p) ==
  /\ pc[p] = "open"
  /\ path = NoInode
  /\ call[p] # "AcquireExisting"
  /\ \E i \in Inodes :
       /\ Fresh(i)
       /\ path' = i
       /\ body' = [body EXCEPT ![i] = Empty]
       /\ ino' = [ino EXCEPT ![p] = i]
  /\ pc' = [pc EXCEPT ![p] = "flock"]
  /\ UNCHANGED <<flock, call>>

(* AcquireExisting reports fs.ErrNotExist: nothing was locked or created.  *)
OpenNotExist(p) ==
  /\ pc[p] = "open"
  /\ path = NoInode
  /\ call[p] = "AcquireExisting"
  /\ Return(p)
  /\ UNCHANGED <<path, flock, body, ino>>

Flock(p) ==
  /\ pc[p] = "flock"
  /\ flock[ino[p]] = Nobody
  /\ flock' = [flock EXCEPT ![ino[p]] = p]
  /\ pc' = [pc EXCEPT ![p] = "stat"]
  /\ UNCHANGED <<path, body, call, ino>>

(* EWOULDBLOCK ends TryAcquire; the blocking calls sleep retryInterval and *)
(* ask again, which changes nothing here.                                  *)
FlockBusy(p) ==
  /\ pc[p] = "flock"
  /\ call[p] = "TryAcquire"
  /\ flock[ino[p]] # Nobody
  /\ Close(p)
  /\ Return(p)
  /\ UNCHANGED <<path, body>>

(* Mutant: the locked descriptor is never compared with the path.          *)
AnyFileWillDo(p) == TRUE

LocksNamedFile(p) == path = ino[p]

StatNamed(p) ==
  /\ pc[p] = "stat"
  /\ LocksNamedFile(p)
  /\ pc' = [pc EXCEPT ![p] = "held"]
  /\ UNCHANGED <<path, flock, body, call, ino>>

(* Mutant: the retry polls flock again without reopening the path.         *)
StatUnnamedKeepsDescriptor(p) ==
  /\ pc[p] = "stat"
  /\ ~LocksNamedFile(p)
  /\ pc' = [pc EXCEPT ![p] = "flock"]
  /\ UNCHANGED <<path, flock, body, call, ino>>

(* The file was deleted under this attempt: close it and start over.       *)
StatUnnamed(p) ==
  /\ pc[p] = "stat"
  /\ ~LocksNamedFile(p)
  /\ Close(p)
  /\ pc' = [pc EXCEPT ![p] = "open"]
  /\ UNCHANGED <<path, body, call>>

(* The error returns of acquire and TryAcquire: OpenFile or Chmod failed,  *)
(* the context was done, Flock or Stat failed for another reason.          *)
GiveUp(p) ==
  /\ pc[p] \in {"open", "flock", "stat"}
  /\ Close(p)
  /\ Return(p)
  /\ UNCHANGED <<path, body>>

-----------------------------------------------------------------------------
(* SetContent rewrites the body in place: truncate, then write.            *)
SetContentTruncate(p) ==
  /\ pc[p] \in {"held", "published"}
  /\ body' = [body EXCEPT ![ino[p]] = Torn]
  /\ pc' = [pc EXCEPT ![p] = "truncated"]
  /\ UNCHANGED <<path, flock, call, ino>>

(* Mutant: the write puts another field than the payload into the file.    *)
SetContentWritesCall(p) ==
  /\ pc[p] = "truncated"
  /\ body' = [body EXCEPT ![ino[p]] = call[p]]
  /\ pc' = [pc EXCEPT ![p] = "published"]
  /\ UNCHANGED <<path, flock, call, ino>>

SetContentWrite(p) ==
  /\ pc[p] = "truncated"
  /\ body' = [body EXCEPT ![ino[p]] = p]
  /\ pc' = [pc EXCEPT ![p] = "published"]
  /\ UNCHANGED <<path, flock, call, ino>>

SetContentFails(p) ==
  /\ pc[p] = "truncated"
  /\ pc' = [pc EXCEPT ![p] = "held"]
  /\ UNCHANGED <<path, flock, body, call, ino>>

-----------------------------------------------------------------------------
(* Release: os.Remove of whatever the name refers to, LOCK_UN, Close.      *)
ReleaseRemove(p) ==
  /\ pc[p] \in {"held", "published"}
  /\ path' = NoInode
  /\ pc' = [pc EXCEPT ![p] = "unlock"]
  /\ UNCHANGED <<flock, body, call, ino>>

(* os.Remove failed: the error is kept for the caller, unlocking goes on.  *)
ReleaseRemoveFails(p) ==
  /\ pc[p] \in {"held", "published"}
  /\ pc' = [pc EXCEPT ![p] = "unlock"]
  /\ UNCHANGED <<path, flock, body, call, ino>>

ReleaseUnlock(p) ==
  /\ pc[p] = "unlock"
  /\ flock' = Unlocked(p)
  /\ pc' = [pc EXCEPT ![p] = "close"]
  /\ UNCHANGED <<path, body, call, ino>>

(* Mutant: the file is deleted after the lock is dropped.                  *)
ReleaseCloseDeletes(p) ==
  /\ pc[p] = "close"
  /\ path' = NoInode
  /\ Close(p)
  /\ Return(p)
  /\ UNCHANGED body

ReleaseClose(p) ==
  /\ pc[p] = "close"
  /\ Close(p)
  /\ Return(p)
  /\ UNCHANGED <<path, body>>

(* The process dies: the kernel closes its descriptors, the file stays.    *)
Crash(p) ==
  /\ pc[p] # "idle"
  /\ Close(p)
  /\ Return(p)
  /\ UNCHANGED <<path, body>>

-----------------------------------------------------------------------------
AcquireStep(p) ==
  \/ OpenExisting(p) \/ OpenCreates(p) \/ OpenNotExist(p)
  \/ Flock(p) \/ FlockBusy(p)
  \/ StatNamed(p) \/ StatUnnamed(p)

ReleaseStep(p) == ReleaseUnlock(p) \/ ReleaseClose(p)

HolderStep(p) ==
  \/ SetContentTruncate(p) \/ SetContentWrite(p) \/ SetContentFails(p)
  \/ ReleaseRemove(p) \/ ReleaseRemoveFails(p)

Next ==
  \E p \in Procs :
    \/ \E c \in Calls : Call(p, c)
    \/ AcquireStep(p)
    \/ HolderStep(p)
    \/ ReleaseStep(p)
    \/ GiveUp(p)
    \/ Crash(p)

Spec == Init /\ [][Next]_vars

(* A call that has started runs: the steps inside acquire and inside       *)
(* Release are not refused by the scheduler for ever.  Nothing makes a     *)
(* caller call, a holder release, or a context end.                        *)
Fairness == \A p \in Procs : WF_vars(AcquireStep(p)) /\ WF_vars(ReleaseStep(p))

FairSpec == Spec /\ Fairness

-----------------------------------------------------------------------------
TypeOK ==
  /\ path \in Inodes \cup {NoInode}
  /\ flock \in [Inodes -> Procs \cup {Nobody}]
  /\ body \in [Inodes -> Procs \cup {Empty, Torn}]
  /\ pc \in [Procs -> {"idle", "open", "flock", "stat", "held", "truncated",
                       "published", "unlock", "close"}]
  /\ call \in [Procs -> Calls \cup {"none"}]
  /\ ino \in [Procs -> Inodes \cup {NoInode}]

Holds(p) == pc[p] \in Handles

(* At most one caller has a live Handle, although the file is deleted on   *)
(* every Release and recreated by whoever comes next (filelock.go:176-180, *)
(* 105-108): neither a waiter that locked the deleted file nor the creator *)
(* of its replacement may be let in beside the other.                      *)
MutualExclusion == \A p, q \in Procs : Holds(p) /\ Holds(q) => p = q

(* A payload a holder has finished writing is what ReadContent finds at    *)
(* the path for as long as it holds: no other acquirer replaces or unlinks *)
(* the file under it (filelock.go:139-143).                                *)
PayloadVisible ==
  \A p \in Procs : pc[p] = "published" => path # NoInode /\ body[path] = p

(* Types, and what a holder wrote is what the path shows until it          *)
(* releases.                                                               *)
Safety == TypeOK /\ PayloadVisible

(* The invariant that makes both true.  A descriptor that passed flock     *)
(* keeps it until it unlocks; a handle's file is the one the path names.   *)
DescriptorInv ==
  \A p \in Procs : (ino[p] = NoInode) <=> (pc[p] \in {"idle", "open"})

FlockInv ==
  \A p \in Procs :
    pc[p] \in Handles \cup {"stat", "unlock"} => flock[ino[p]] = p

NamedInv == \A p \in Procs : Holds(p) => path = ino[p]

PublishedInv == \A p \in Procs : pc[p] = "published" => body[ino[p]] = p

LockInv == TypeOK /\ DescriptorInv /\ FlockInv /\ NamedInv /\ PublishedInv

(* A caller waits for ever only because others keep getting the lock (or   *)
(* keep failing or dying on the way): the open-lock-compare loop does not  *)
(* spin on deleted files and no flock stays behind that nobody releases.   *)
Waiting(p) == pc[p] \in {"open", "flock", "stat"}

Failure == \E p \in Procs : GiveUp(p) \/ Crash(p)

Progress ==
  \A p \in Procs :
    (<>[]Waiting(p) /\ <>[][~Failure]_vars) => []<>(\E q \in Procs : Holds(q))

(* The lock as its callers see it.                                         *)
holder == IF \E p \in Procs : Holds(p)
          THEN CHOOSE p \in Procs : Holds(p) ELSE Nobody

Exclusive == INSTANCE ExclusiveLock

ImplementsExclusiveLock == Exclusive!Spec
=============================================================================
