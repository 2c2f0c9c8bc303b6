---------------------------- MODULE KeyValueStore ----------------------------
(***************************************************************************)
(* keyvalue.Store: a JSON file shared by every process that runs a         *)
(* workflow, guarded by a file lock.  Each client is one operation in some *)
(* process.  Writers hold the lock over read-modify-write and replace the  *)
(* file by rename; a reader that finds no lock file reads without one.     *)
(* The lock is the one of module ExclusiveLock, which FileLock implements. *)
(***************************************************************************)
EXTENDS StoreOperations

CONSTANTS Clients, NoClient,
          Missing,   \* no store file yet
          Blank      \* a file with no bytes: an interrupted create

ASSUME ClientAssumption ==
  /\ NoClient \notin Clients
  /\ Missing \notin Maps
  /\ Blank \notin Maps

VARIABLES file,    \* what the store's path holds
          lockHolder,  \* who holds the lock file
          at, op,
          seen,    \* the map the client decoded
          answer   \* what the client's call has computed or returned

storeVars == <<file, lockHolder, at, op, seen, answer>>

StoreInit ==
  /\ file \in Maps \cup {Missing, Blank}
  /\ lockHolder = NoClient
  /\ at = [c \in Clients |-> "idle"]
  /\ op = [c \in Clients |-> NoOp]
  /\ seen = [c \in Clients |-> EmptyMap]
  /\ answer = [c \in Clients |-> NoAnswer]

Goto(c, label) == at' = [at EXCEPT ![c] = label]

(* A missing store and an empty file both read as the empty map.           *)
Contents == IF file \in {Missing, Blank} THEN EmptyMap ELSE file

Invoke(c, o) ==
  /\ at[c] = "idle"
  /\ op' = [op EXCEPT ![c] = o]
  /\ answer' = [answer EXCEPT ![c] = NoAnswer]
  /\ Goto(c, "lock")
  /\ UNCHANGED <<file, lockHolder, seen>>

(* The call returns with the given outcome; what it decoded is dropped.    *)
Answers(c, outcome) ==
  /\ answer' = [answer EXCEPT ![c] = outcome]
  /\ op' = [op EXCEPT ![c] = NoOp]
  /\ seen' = [seen EXCEPT ![c] = EmptyMap]
  /\ Goto(c, "idle")

(* filelock.Acquire, or AcquireExisting when somebody left a lock file.    *)
Lock(c) ==
  /\ at[c] = "lock"
  /\ lockHolder = NoClient
  /\ lockHolder' = c
  /\ Goto(c, "read")
  /\ UNCHANGED <<file, op, seen, answer>>

(* AcquireExisting found no lock file, so nobody holds it at this moment;  *)
(* a writer may take it before this client reads.                          *)
NoLockFile(c) ==
  /\ at[c] = "lock"
  /\ Reads(op[c])
  /\ lockHolder = NoClient
  /\ Goto(c, "read")
  /\ UNCHANGED <<file, lockHolder, op, seen, answer>>

(* The context is done, or making the directory or the lock file failed.   *)
LockFails(c) ==
  /\ at[c] = "lock"
  /\ Answers(c, Error)
  /\ UNCHANGED <<file, lockHolder>>

Read(c) ==
  /\ at[c] = "read"
  /\ seen' = [seen EXCEPT ![c] = Contents]
  /\ answer' = [answer EXCEPT ![c] = Answer(op[c], Contents)]
  /\ Goto(c, IF Rewrites(op[c], Contents) THEN "write" ELSE "release")
  /\ UNCHANGED <<file, lockHolder, op>>

(* Reading or decoding the file failed, or mutate refused the value.       *)
ReadFails(c) ==
  /\ at[c] = "read"
  /\ Goto(c, "failed")
  /\ UNCHANGED <<file, lockHolder, op, seen, answer>>

(* WriteFileAtomic: the temporary file becomes visible by the rename only. *)
Rename(c) ==
  /\ at[c] = "write"
  /\ file' = Effect(op[c], seen[c])
  /\ Goto(c, "sync")
  /\ UNCHANGED <<lockHolder, op, seen, answer>>

(* Mutant: the error of the write is dropped.                              *)
WriteFailsSilently(c) ==
  /\ at[c] = "write"
  /\ Goto(c, "release")
  /\ UNCHANGED <<file, lockHolder, op, seen, answer>>

(* Mutant: the error path returns without releasing the lock.              *)
WriteFailsKeepsLock(c) ==
  /\ at[c] = "write"
  /\ Answers(c, Error)
  /\ UNCHANGED <<file, lockHolder>>

WriteFails(c) ==
  /\ at[c] = "write"
  /\ Goto(c, "failed")
  /\ UNCHANGED <<file, lockHolder, op, seen, answer>>

SyncDirectory(c) ==
  /\ at[c] = "sync"
  /\ Goto(c, "release")
  /\ UNCHANGED <<file, lockHolder, op, seen, answer>>

HolderWithout(c) == IF lockHolder = c THEN NoClient ELSE lockHolder

(* holding's deferred Release, a no-op for the client without a handle.    *)
Release(c) ==
  /\ at[c] \in {"release", "failed"}
  /\ lockHolder' = HolderWithout(c)
  /\ Answers(c, IF at[c] = "failed" THEN Error ELSE Delivered)
  /\ UNCHANGED file

(* The directory sync after the rename, or the deferred Release, failed:   *)
(* the call reports an error although the file was replaced.               *)
LateError(c) ==
  /\ at[c] = "sync" \/ (at[c] = "release" /\ lockHolder = c)
  /\ lockHolder' = HolderWithout(c)
  /\ Answers(c, Error)
  /\ UNCHANGED file

(* The process dies: its lock goes, its temporary file is never renamed.   *)
ClientDies(c) ==
  /\ at[c] # "idle"
  /\ lockHolder' = HolderWithout(c)
  /\ Answers(c, Error)
  /\ UNCHANGED file

Perform(c) ==
  \/ Lock(c) \/ NoLockFile(c) \/ Read(c) \/ Rename(c) \/ SyncDirectory(c) \/ Release(c)

StoreNext ==
  \E c \in Clients :
    \/ \E o \in Ops : Invoke(c, o)
    \/ Perform(c)
    \/ LockFails(c) \/ ReadFails(c) \/ WriteFails(c) \/ LateError(c) \/ ClientDies(c)

StoreSpec == StoreInit /\ [][StoreNext]_storeVars

(* An operation that has started keeps running.                            *)
StoreFairSpec == StoreSpec /\ \A c \in Clients : WF_storeVars(Perform(c))

-----------------------------------------------------------------------------
Labels == {"idle", "lock", "read", "write", "sync", "release", "failed"}

StoreTypeOK ==
  /\ file \in Maps \cup {Missing, Blank}
  /\ lockHolder \in Clients \cup {NoClient}
  /\ at \in [Clients -> Labels]
  /\ op \in [Clients -> Ops]
  /\ seen \in [Clients -> Maps]

(* A client about to replace the file decoded exactly what is still in it: *)
(* no other writer's update can be lost under the read-modify-write        *)
(* (store.go:360-363).                                                     *)
NoLostUpdate == \A c \in Clients : at[c] = "write" => seen[c] = Contents

(* Only the holder of the lock file is between reading and replacing.      *)
WriterHolds ==
  \A c \in Clients :
    /\ at[c] \in {"write", "sync"} => lockHolder = c
    /\ at[c] = "read" /\ ~Reads(op[c]) => lockHolder = c
    /\ at[c] = "write" => ~Reads(op[c])

(* The answer of a write is computed before the rename, from the map the   *)
(* rename then replaces.                                                   *)
AnswerInv ==
  /\ answer = [c \in Clients |-> answer[c]]
  /\ \A c \in Clients : at[c] = "write" => answer[c] = Answer(op[c], seen[c])

StoreInv == StoreTypeOK /\ WriterHolds /\ NoLostUpdate /\ AnswerInv

(* A lock that was taken is given back on every path, errors included.     *)
LockReturned == \A c \in Clients : lockHolder = c ~> lockHolder # c

(* The file and its lock implement one atomic map.  Readers that skip the  *)
(* lock are included: they take effect when they read.                     *)
status == [c \in Clients |->
  IF at[c] = "idle" THEN "idle"
  ELSE IF at[c] \in {"sync", "release"} THEN "done" ELSE "pending"]

returned == [c \in Clients |->
  IF at[c] \in {"read", "lock", "write", "failed"} THEN NoAnswer ELSE answer[c]]

Atomic == INSTANCE AtomicStore WITH store <- Contents, answer <- returned

ImplementsAtomicStore == Atomic!Spec
=============================================================================
