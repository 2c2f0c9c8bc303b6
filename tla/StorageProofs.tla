---------------------------- MODULE StorageProofs ----------------------------
(***************************************************************************)
(* The files processes share: the lock that its holder deletes and the     *)
(* store it guards, for every set of callers, files, keys and values.      *)
(*                                                                         *)
(* FileLock: LockInv is inductive; MutualExclusion and PayloadVisible      *)
(* follow from it because two handles' files are both the one the path     *)
(* names, and a file has one flock.                                        *)
(*                                                                         *)
(* KeyValueStore implements AtomicStore: StoreInv is inductive, as a       *)
(* client between its read and its rename holds the lock, only a rename    *)
(* changes the file, and a rename needs the lock.                          *)
(***************************************************************************)
EXTENDS FileLock, KeyValueStore, TLAPS

USE NamesAssumption

(* Nobody has the lock file open at first.                                 *)
LEMMA InitLockInv == Init => LockInv
  BY DEF Init, LockInv, TypeOK, DescriptorInv, FlockInv, NamedInv, PublishedInv,
         Handles, Holds

(* The kernel's half of a close: only p's flocks go away.                  *)
LEMMA CloseKeepsOthers ==
  ASSUME TypeOK, NEW p \in Procs, Close(p)
  PROVE  /\ flock' \in [Inodes -> Procs \cup {Nobody}]
         /\ ino' \in [Procs -> Inodes \cup {NoInode}]
         /\ ino'[p] = NoInode
         /\ \A q \in Procs \ {p} : ino'[q] = ino[q]
         /\ \A q \in Procs \ {p} : \A i \in Inodes : flock[i] = q => flock'[i] = q
  BY DEF TypeOK, Close, Unlocked

(* Every system call of every caller keeps LockInv.                        *)
LEMMA NextLockInv == LockInv /\ [Next]_vars => LockInv'
<1> SUFFICES ASSUME LockInv, [Next]_vars PROVE LockInv'
  OBVIOUS
<1> USE DEF LockInv, Holds, Handles
<1>1. ASSUME NEW p \in Procs, NEW c \in Calls, Call(p, c) PROVE LockInv'
  BY <1>1 DEF Call, Calls, TypeOK, DescriptorInv, FlockInv, NamedInv, PublishedInv
<1>2. ASSUME NEW p \in Procs, OpenExisting(p) PROVE LockInv'
  BY <1>2 DEF OpenExisting, TypeOK, DescriptorInv, FlockInv, NamedInv, PublishedInv
<1>3. ASSUME NEW p \in Procs, OpenCreates(p) PROVE LockInv'
  <2> PICK i \in Inodes : Fresh(i) /\ path' = i /\ body' = [body EXCEPT ![i] = Empty]
                           /\ ino' = [ino EXCEPT ![p] = i]
    BY <1>3 DEF OpenCreates
  <2>1. TypeOK'
    BY <1>3 DEF OpenCreates, TypeOK
  <2>2. DescriptorInv' /\ FlockInv'
    BY <1>3 DEF OpenCreates, TypeOK, DescriptorInv, FlockInv
  <2>3. NamedInv'
    BY <1>3 DEF OpenCreates, TypeOK, DescriptorInv, NamedInv
  <2>4. PublishedInv'
    BY <1>3 DEF OpenCreates, TypeOK, DescriptorInv, PublishedInv, Fresh
  <2> QED BY <2>1, <2>2, <2>3, <2>4
<1>4. ASSUME NEW p \in Procs, OpenNotExist(p) PROVE LockInv'
  BY <1>4 DEF OpenNotExist, Return, TypeOK, DescriptorInv, FlockInv, NamedInv, PublishedInv
<1>5. ASSUME NEW p \in Procs, Flock(p) PROVE LockInv'
  <2>1. ino[p] \in Inodes
    BY <1>5 DEF Flock, TypeOK, DescriptorInv
  <2>2. TypeOK' /\ DescriptorInv' /\ NamedInv' /\ PublishedInv'
    BY <1>5, <2>1 DEF Flock, TypeOK, DescriptorInv, NamedInv, PublishedInv
  <2>3. FlockInv'
    BY <1>5, <2>1 DEF Flock, TypeOK, DescriptorInv, FlockInv
  <2> QED BY <2>2, <2>3
<1>6. ASSUME NEW p \in Procs, Close(p), Return(p), UNCHANGED <<path, body>>
      PROVE LockInv'
  <2>1. TypeOK'
    BY <1>6, CloseKeepsOthers DEF Return, TypeOK
  <2>2. DescriptorInv'
    BY <1>6, CloseKeepsOthers DEF Return, TypeOK, DescriptorInv
  <2>3. FlockInv'
    BY <1>6, CloseKeepsOthers DEF Return, TypeOK, DescriptorInv, FlockInv
  <2>4. NamedInv' /\ PublishedInv'
    BY <1>6, CloseKeepsOthers DEF Return, TypeOK, NamedInv, PublishedInv
  <2> QED BY <2>1, <2>2, <2>3, <2>4
<1>7. ASSUME NEW p \in Procs, StatNamed(p) PROVE LockInv'
  BY <1>7 DEF StatNamed, LocksNamedFile, TypeOK, DescriptorInv, FlockInv, NamedInv, PublishedInv
<1>8. ASSUME NEW p \in Procs, StatUnnamed(p) PROVE LockInv'
  <2>1. TypeOK'
    BY <1>8, CloseKeepsOthers DEF StatUnnamed, TypeOK
  <2>2. DescriptorInv'
    BY <1>8, CloseKeepsOthers DEF StatUnnamed, TypeOK, DescriptorInv
  <2>3. FlockInv'
    BY <1>8, CloseKeepsOthers DEF StatUnnamed, TypeOK, DescriptorInv, FlockInv
  <2>4. NamedInv' /\ PublishedInv'
    BY <1>8, CloseKeepsOthers DEF StatUnnamed, TypeOK, NamedInv, PublishedInv
  <2> QED BY <2>1, <2>2, <2>3, <2>4
<1>9. ASSUME NEW p \in Procs, SetContentTruncate(p) PROVE LockInv'
  <2>1. TypeOK' /\ DescriptorInv' /\ FlockInv' /\ NamedInv'
    BY <1>9 DEF SetContentTruncate, TypeOK, DescriptorInv, FlockInv, NamedInv
  <2>2. ASSUME NEW q \in Procs, pc'[q] = "published" PROVE ino[q] # ino[p]
    BY <1>9, <2>2 DEF SetContentTruncate, TypeOK, FlockInv
  <2>3. PublishedInv'
    BY <1>9, <2>2 DEF SetContentTruncate, TypeOK, PublishedInv
  <2> QED BY <2>1, <2>3
<1>10. ASSUME NEW p \in Procs, SetContentWrite(p) PROVE LockInv'
  <2>1. TypeOK' /\ DescriptorInv' /\ FlockInv' /\ NamedInv'
    BY <1>10 DEF SetContentWrite, TypeOK, DescriptorInv, FlockInv, NamedInv
  <2>2. ASSUME NEW q \in Procs \ {p}, pc'[q] = "published" PROVE ino[q] # ino[p]
    BY <1>10, <2>2 DEF SetContentWrite, TypeOK, FlockInv
  <2>3. ino[p] \in Inodes
    BY <1>10 DEF SetContentWrite, TypeOK, DescriptorInv
  <2>4. PublishedInv'
    BY <1>10, <2>2, <2>3 DEF SetContentWrite, TypeOK, PublishedInv
  <2> QED BY <2>1, <2>4
<1>11. ASSUME NEW p \in Procs, SetContentFails(p) PROVE LockInv'
  BY <1>11 DEF SetContentFails, TypeOK, DescriptorInv, FlockInv, NamedInv, PublishedInv
<1>12. ASSUME NEW p \in Procs, ReleaseRemove(p) PROVE LockInv'
  <2>1. TypeOK' /\ DescriptorInv' /\ FlockInv' /\ PublishedInv'
    BY <1>12 DEF ReleaseRemove, TypeOK, DescriptorInv, FlockInv, PublishedInv
  <2>2. ASSUME NEW q \in Procs, Holds(q) PROVE q = p
    BY <1>12, <2>2 DEF ReleaseRemove, FlockInv, NamedInv
  <2>3. NamedInv'
    BY <1>12, <2>2 DEF ReleaseRemove, TypeOK, NamedInv
  <2> QED BY <2>1, <2>3
<1>13. ASSUME NEW p \in Procs, ReleaseRemoveFails(p) PROVE LockInv'
  BY <1>13 DEF ReleaseRemoveFails, TypeOK, DescriptorInv, FlockInv, NamedInv, PublishedInv
<1>14. ASSUME NEW p \in Procs, ReleaseUnlock(p) PROVE LockInv'
  <2>1. TypeOK' /\ DescriptorInv' /\ NamedInv' /\ PublishedInv'
    BY <1>14 DEF ReleaseUnlock, Unlocked, TypeOK, DescriptorInv, NamedInv, PublishedInv
  <2>2. FlockInv'
    BY <1>14 DEF ReleaseUnlock, Unlocked, TypeOK, DescriptorInv, FlockInv
  <2> QED BY <2>1, <2>2
<1>15. CASE UNCHANGED vars
  BY <1>15 DEF vars, TypeOK, DescriptorInv, FlockInv, NamedInv, PublishedInv
<1>16. ASSUME NEW p \in Procs, FlockBusy(p) \/ GiveUp(p) \/ ReleaseClose(p) \/ Crash(p)
       PROVE Close(p) /\ Return(p) /\ UNCHANGED <<path, body>>
  BY <1>16 DEF FlockBusy, GiveUp, ReleaseClose, Crash
<1> QED
  BY <1>1, <1>2, <1>3, <1>4, <1>5, <1>6, <1>7, <1>8, <1>9, <1>10, <1>11, <1>12, <1>13,
     <1>14, <1>15, <1>16
     DEF Next, AcquireStep, HolderStep, ReleaseStep

(* LockInv holds in every reachable state.                                 *)
LEMMA LockInvAlways == Spec => []LockInv
  BY InitLockInv, NextLockInv, PTL DEF Spec

(* Two holders would both have the flock of the named file.                *)
LEMMA LockInvExcludes == LockInv => MutualExclusion /\ PayloadVisible
<1> SUFFICES ASSUME LockInv PROVE MutualExclusion /\ PayloadVisible
  OBVIOUS
<1>1. MutualExclusion
  BY DEF LockInv, FlockInv, NamedInv, MutualExclusion, Holds, Handles
<1>2. ASSUME NEW p \in Procs, pc[p] = "published" PROVE path # NoInode /\ body[path] = p
  BY <1>2 DEF LockInv, TypeOK, DescriptorInv, NamedInv, PublishedInv, Holds, Handles
<1> QED BY <1>1, <1>2 DEF PayloadVisible

-----------------------------------------------------------------------------
(* Every variable keeps its type, whatever the callers, the files, the     *)
(* failures and the crashes of filelock.go's acquire and Release.          *)
THEOREM LockTypeCorrect == Spec => []TypeOK
  BY LockInvAlways, PTL DEF LockInv

(* Release's delete-while-locked and acquire's compare-after-lock exclude: *)
(* two callers never have a Handle at the same time.                       *)
THEOREM Exclusion == Spec => []MutualExclusion
  BY LockInvAlways, LockInvExcludes, PTL

(* What SetContent wrote stays readable at the path while the lock is held.*)
THEOREM PayloadStays == Spec => []PayloadVisible
  BY LockInvAlways, LockInvExcludes, PTL

-----------------------------------------------------------------------------
(* Whoever holds is the holder the abstract lock speaks of.                *)
LEMMA HolderOfHandle ==
  ASSUME MutualExclusion, NEW p \in Procs, Holds(p)
  PROVE  holder = p
  BY DEF MutualExclusion, holder

(* A step either leaves every Handle as it is, hands out one when there is *)
(* none, or ends the only one.                                             *)
LEMMA StepTakesOrDrops ==
  ASSUME LockInv, LockInv', [Next]_vars
  PROVE  [Exclusive!Next]_holder
<1> USE LockInvExcludes DEF Handles
<1>0. MutualExclusion /\ MutualExclusion'
  BY LockInvExcludes, PTL
<1>1. CASE \A q \in Procs : Holds(q)' <=> Holds(q)
  <2>1. CASE \E q \in Procs : Holds(q)
    <3> PICK q \in Procs : Holds(q)
      BY <2>1
    <3>1. holder = q
      BY <1>0, HolderOfHandle
    <3>2. holder' = q
      BY <1>0, <1>1 DEF holder, MutualExclusion
    <3> QED BY <3>1, <3>2
  <2>2. CASE ~\E q \in Procs : Holds(q)
    BY <1>1, <2>2 DEF holder
  <2> QED BY <2>1, <2>2
<1>2. ASSUME NEW p \in Procs, ~Holds(p), Holds(p)' PROVE Exclusive!Take(p)
  <2>1. \A q \in Procs \ {p} : Holds(q)' <=> Holds(q)
    BY <1>2 DEF LockInv, TypeOK, Holds, Next, vars, Call, AcquireStep, OpenExisting,
       OpenCreates, OpenNotExist, Flock, FlockBusy, StatNamed, StatUnnamed, HolderStep,
       SetContentTruncate, SetContentWrite, SetContentFails, ReleaseRemove,
       ReleaseRemoveFails, ReleaseStep, ReleaseUnlock, ReleaseClose, GiveUp, Crash, Return
  <2>2. holder' = p
    BY <1>0, <1>2 DEF holder, MutualExclusion
  <2>3. ~\E q \in Procs : Holds(q)
    BY <1>0, <1>2, <2>1 DEF MutualExclusion
  <2> QED BY <2>2, <2>3 DEF holder, Exclusive!Take
<1>3. ASSUME NEW p \in Procs, Holds(p), ~Holds(p)' PROVE Exclusive!Drop(p)
  <2>1. \A q \in Procs \ {p} : Holds(q)' <=> Holds(q)
    BY <1>3 DEF LockInv, TypeOK, Holds, Next, vars, Call, AcquireStep, OpenExisting,
       OpenCreates, OpenNotExist, Flock, FlockBusy, StatNamed, StatUnnamed, HolderStep,
       SetContentTruncate, SetContentWrite, SetContentFails, ReleaseRemove,
       ReleaseRemoveFails, ReleaseStep, ReleaseUnlock, ReleaseClose, GiveUp, Crash, Return
  <2>2. holder = p
    BY <1>0, <1>3, HolderOfHandle
  <2>3. ~\E q \in Procs : Holds(q)'
    BY <1>0, <1>3, <2>1 DEF MutualExclusion
  <2> QED BY <2>2, <2>3 DEF holder, Exclusive!Drop
<1> QED BY <1>1, <1>2, <1>3 DEF Exclusive!Next

(* The protocol of open, flock, compare and delete implements an atomic    *)
(* lock that is taken only when free and dropped only by its holder.       *)
THEOREM Refinement == Spec => ImplementsExclusiveLock
<1>1. Init => Exclusive!Init
  BY DEF Init, Exclusive!Init, holder, Holds, Handles
<1>2. LockInv /\ LockInv' /\ [Next]_vars => [Exclusive!Next]_holder
  BY StepTakesOrDrops
<1> QED
  BY <1>1, <1>2, LockInvAlways, PTL DEF Spec, ImplementsExclusiveLock, Exclusive!Spec

(* Types, and a payload that stays readable while its writer holds the lock. *)
THEOREM LockSafeAlways == Spec => []Safety
  BY LockTypeCorrect, PayloadStays, PTL DEF Safety

-----------------------------------------------------------------------------
(* The store.                                                              *)
HIDE NamesAssumption
USE StoreAssumption, ClientAssumption

(* An operation makes a map of a map.                                      *)
LEMMA OperationTypes ==
  ASSUME NEW o \in Ops, NEW map \in Maps
  PROVE  Effect(o, map) \in Maps
<1>1. CASE o \in [kind : {"List", "Clear"}]
  BY <1>1 DEF Effect, Maps, EmptyMap
<1>2. CASE o \in [kind : {"Get", "Delete", "Update"}, key : Keys]
  <2>1. map[o.key] \in Values \cup {Absent}
    BY <1>2 DEF Maps
  <2>2. Mutate(map[o.key]) \in Values
    BY <2>1
  <2> QED BY <1>2, <2>2 DEF Effect, Maps
<1>3. CASE o \in [kind : {"Set", "SetIfDifferent"}, key : Keys, value : Values]
  BY <1>3 DEF Effect, Maps
<1> QED BY <1>1, <1>2, <1>3 DEF Ops

(* What a reader decodes is a map, of a missing or blank file too.         *)
LEMMA ContentsType == StoreTypeOK => Contents \in Maps
  BY DEF StoreTypeOK, Contents, Maps, EmptyMap

(* The absence of an operation is one of them, for the types' sake.        *)
LEMMA NoOpIsOp == NoOp \in Ops
  BY DEF NoOp, Ops

(* At first no client has read anything.                                   *)
LEMMA InitStoreInv == StoreInit => StoreInv
  BY NoOpIsOp DEF StoreInit, StoreInv, StoreTypeOK, WriterHolds, NoLostUpdate, AnswerInv, Labels,
                  Maps, EmptyMap

(* Every step of every client keeps StoreInv.                              *)
LEMMA NextStoreInv == StoreInv /\ [StoreNext]_storeVars => StoreInv'
<1> SUFFICES ASSUME StoreInv, [StoreNext]_storeVars PROVE StoreInv'
  OBVIOUS
<1> USE ContentsType, NoOpIsOp DEF StoreInv, Labels
<1>0. EmptyMap \in Maps
  BY DEF EmptyMap, Maps
<1>1. ASSUME NEW c \in Clients, NEW o \in Ops, Invoke(c, o) PROVE StoreInv'
  BY <1>1 DEF Invoke, Goto, StoreTypeOK, WriterHolds, NoLostUpdate, AnswerInv, Contents
<1>2. ASSUME NEW c \in Clients, Lock(c) PROVE StoreInv'
  BY <1>2 DEF Lock, Goto, StoreTypeOK, WriterHolds, NoLostUpdate, AnswerInv, Contents
<1>3. ASSUME NEW c \in Clients, NoLockFile(c) PROVE StoreInv'
  BY <1>3 DEF NoLockFile, Goto, StoreTypeOK, WriterHolds, NoLostUpdate, AnswerInv, Contents
<1>4. ASSUME NEW c \in Clients, Read(c) PROVE StoreInv'
  <2>1. Rewrites(op[c], Contents) => ~Reads(op[c])
    BY <1>4 DEF Rewrites, Reads, Effect
  <2>2. StoreTypeOK'
    BY <1>4 DEF Read, Goto, StoreTypeOK
  <2>3. WriterHolds'
    BY <1>4, <2>1 DEF Read, Goto, StoreTypeOK, WriterHolds
  <2>4. NoLostUpdate'
    BY <1>4 DEF Read, Goto, StoreTypeOK, NoLostUpdate, Contents
  <2>5. AnswerInv'
    BY <1>4 DEF Read, Goto, StoreTypeOK, AnswerInv
  <2> QED BY <2>2, <2>3, <2>4, <2>5
<1>5. ASSUME NEW c \in Clients, ReadFails(c) \/ WriteFails(c) \/ SyncDirectory(c)
      PROVE StoreInv'
  BY <1>5 DEF ReadFails, WriteFails, SyncDirectory, Goto, StoreTypeOK, WriterHolds,
              NoLostUpdate, AnswerInv, Contents
<1>6. ASSUME NEW c \in Clients, Rename(c) PROVE StoreInv'
  <2>1. Effect(op[c], seen[c]) \in Maps
    BY <1>6, OperationTypes DEF Rename, StoreTypeOK
  <2>2. StoreTypeOK'
    BY <1>6, <2>1 DEF Rename, Goto, StoreTypeOK
  <2>3. WriterHolds'
    BY <1>6 DEF Rename, Goto, StoreTypeOK, WriterHolds
  <2>4. ASSUME NEW d \in Clients, at'[d] = "write" PROVE FALSE
    BY <1>6, <2>4 DEF Rename, Goto, StoreTypeOK, WriterHolds
  <2>5. AnswerInv'
    BY <1>6, <2>4 DEF Rename, AnswerInv
  <2> QED BY <2>2, <2>3, <2>4, <2>5 DEF NoLostUpdate
<1>7. ASSUME NEW c \in Clients, NEW outcome, Answers(c, outcome), lockHolder' = HolderWithout(c),
             UNCHANGED file
      PROVE StoreInv'
  <2>1. StoreTypeOK'
    BY <1>0, <1>7 DEF Answers, HolderWithout, Goto, StoreTypeOK
  <2>2. WriterHolds'
    BY <1>7 DEF Answers, HolderWithout, Goto, StoreTypeOK, WriterHolds
  <2>3. NoLostUpdate'
    BY <1>7 DEF Answers, Goto, StoreTypeOK, NoLostUpdate, Contents
  <2>4. AnswerInv'
    BY <1>7 DEF Answers, Goto, StoreTypeOK, AnswerInv
  <2> QED BY <2>1, <2>2, <2>3, <2>4
<1>8. ASSUME NEW c \in Clients, LockFails(c) PROVE StoreInv'
  <2>1. StoreTypeOK'
    BY <1>0, <1>8 DEF LockFails, Answers, Goto, StoreTypeOK
  <2>2. WriterHolds' /\ NoLostUpdate' /\ AnswerInv'
    BY <1>8 DEF LockFails, Answers, Goto, StoreTypeOK, WriterHolds, NoLostUpdate, AnswerInv,
                Contents
  <2> QED BY <2>1, <2>2
<1>9. CASE UNCHANGED storeVars
  BY <1>9 DEF storeVars, StoreTypeOK, WriterHolds, NoLostUpdate, AnswerInv, Contents
<1>10. ASSUME NEW c \in Clients, Release(c) \/ LateError(c) \/ ClientDies(c) PROVE StoreInv'
  BY <1>7, <1>10 DEF Release, LateError, ClientDies
<1> QED
  BY <1>1, <1>2, <1>3, <1>4, <1>5, <1>6, <1>8, <1>9, <1>10 DEF StoreNext, Perform

(* StoreInv holds in every reachable state.                                *)
LEMMA StoreInvAlways == StoreSpec => []StoreInv
  BY InitStoreInv, NextStoreInv, PTL DEF StoreSpec

-----------------------------------------------------------------------------
(* The instance of the abstract store speaks of the same operations.       *)
LEMMA SameOperations ==
  /\ Atomic!Maps = Maps /\ Atomic!Ops = Ops /\ Atomic!NoOp = NoOp
  /\ Atomic!NoAnswer = NoAnswer /\ Atomic!Delivered = Delivered /\ Atomic!Error = Error
  BY DEF Atomic!Maps, Maps, Atomic!Ops, Ops, Atomic!NoOp, NoOp, Atomic!NoAnswer, NoAnswer,
         Atomic!Delivered, Delivered, Atomic!Error, Error

(* Both levels agree on what operations do and answer.                     *)
LEMMA SameEffects ==
  ASSUME NEW o, NEW map
  PROVE  Atomic!Effect(o, map) = Effect(o, map) /\ Atomic!Answer(o, map) = Answer(o, map)
  BY DEF Atomic!Effect, Effect, Atomic!Answer, Answer, Atomic!Present, Present,
         Atomic!EmptyMap, EmptyMap

(* A rename or an answered read is the one step of the atomic store; every *)
(* other step only starts, returns, fails or is invisible.                 *)
LEMMA RefinedSteps ==
  ASSUME StoreInv, [StoreNext]_storeVars
  PROVE  [Atomic!Next]_(Atomic!avars)
<1> USE SameOperations, SameEffects
        DEF StoreInv, StoreTypeOK, AnswerInv, Labels, status, returned, Goto
<1>1. ASSUME NEW c \in Clients, NEW o \in Ops, Invoke(c, o) PROVE Atomic!Invoke(c, o)
  BY <1>1 DEF Invoke, Atomic!Invoke, Contents
<1>2. ASSUME NEW c \in Clients, Lock(c) \/ NoLockFile(c) \/ ReadFails(c) \/ WriteFails(c)
      PROVE UNCHANGED Atomic!avars
  BY <1>2 DEF Lock, NoLockFile, ReadFails, WriteFails, Atomic!avars, Contents
<1>3. ASSUME NEW c \in Clients, SyncDirectory(c) PROVE UNCHANGED Atomic!avars
  BY <1>3 DEF SyncDirectory, Atomic!avars, Contents
<1>4. ASSUME NEW c \in Clients, Read(c)
      PROVE Atomic!Commit(c) \/ UNCHANGED Atomic!avars
  <2>1. Contents' = Contents
    BY <1>4 DEF Read, Contents
  <2>2. CASE Rewrites(op[c], Contents)
    BY <1>4, <2>1, <2>2 DEF Read, Atomic!avars
  <2>3. CASE ~Rewrites(op[c], Contents)
    <3>1. Effect(op[c], Contents) = Contents
      BY <2>3 DEF Rewrites
    <3>2. at'[c] = "release" /\ at[c] = "read"
      BY <1>4, <2>3 DEF Read
    <3>3. status' = [status EXCEPT ![c] = "done"] /\ status[c] = "pending"
      BY <1>4, <2>3, <3>2 DEF Read
    <3>4. returned' = [returned EXCEPT ![c] = Answer(op[c], Contents)]
      BY <1>4, <2>3, <3>2 DEF Read
    <3>5. op' = op
      BY <1>4 DEF Read
    <3> HIDE DEF status, returned, Contents, StoreTypeOK, AnswerInv, StoreInv
    <3> QED BY SameEffects, <2>1, <3>1, <3>3, <3>4, <3>5 DEF Atomic!Commit
  <2> QED BY <2>2, <2>3
<1>5. ASSUME NEW c \in Clients, Rename(c) PROVE Atomic!Commit(c)
  <2>1. seen[c] = Contents
    BY <1>5 DEF Rename, NoLostUpdate
  <2>2. Effect(op[c], Contents) \in Maps
    BY OperationTypes, ContentsType
  <2>3. Contents' = Effect(op[c], Contents)
    BY <1>5, <2>1, <2>2 DEF Rename, Contents
  <2>4. status' = [status EXCEPT ![c] = "done"] /\ status[c] = "pending"
    BY <1>5 DEF Rename
  <2>5. returned' = [returned EXCEPT ![c] = Answer(op[c], Contents)]
    BY <1>5, <2>1 DEF Rename
  <2>6. op' = op
    BY <1>5 DEF Rename
  <2> HIDE DEF status, returned, Contents, StoreTypeOK, AnswerInv, StoreInv
  <2> QED BY SameEffects, <2>3, <2>4, <2>5, <2>6 DEF Atomic!Commit
<1>6. ASSUME NEW c \in Clients, at[c] # "idle", Answers(c, Error), UNCHANGED file
      PROVE Atomic!Fail(c)
  BY <1>6 DEF Answers, Atomic!Fail, Contents
<1>7. ASSUME NEW c \in Clients, at[c] = "release", Answers(c, Delivered), UNCHANGED file
      PROVE Atomic!Return(c)
  BY <1>7 DEF Answers, Atomic!Return, Contents
<1>8. ASSUME NEW c \in Clients, Release(c) PROVE Atomic!Return(c) \/ Atomic!Fail(c)
  BY <1>6, <1>7, <1>8 DEF Release
<1>9. ASSUME NEW c \in Clients, LockFails(c) \/ LateError(c) \/ ClientDies(c)
      PROVE Atomic!Fail(c)
  BY <1>6, <1>9 DEF LockFails, LateError, ClientDies
<1>10. CASE UNCHANGED storeVars
  BY <1>10 DEF storeVars, Atomic!avars, Contents
<1> QED
  BY <1>1, <1>2, <1>3, <1>4, <1>5, <1>8, <1>9, <1>10 DEF StoreNext, Perform, Atomic!Next


(* The missing file is the empty map.                                      *)
LEMMA RefinedInit == StoreInit => Atomic!Init
<1> SUFFICES ASSUME StoreInit PROVE Atomic!Init
  OBVIOUS
<1>1. Contents \in Maps
  BY DEF StoreInit, Contents, Maps, EmptyMap
<1>2. status = [c \in Clients |-> "idle"]
  BY DEF StoreInit, status
<1>3. returned = [c \in Clients |-> NoAnswer]
  BY DEF StoreInit, returned
<1> QED BY SameOperations, <1>1, <1>2, <1>3 DEF StoreInit, Atomic!Init

-----------------------------------------------------------------------------
(* Every variable of the store keeps its type.                             *)
THEOREM StoreTypeCorrect == StoreSpec => []StoreTypeOK
  BY StoreInvAlways, PTL DEF StoreInv

(* Concurrent read-modify-writes compose: whoever is about to replace the  *)
(* file decoded exactly what it still holds, for any number of processes.  *)
THEOREM UpdatesCompose == StoreSpec => []NoLostUpdate
  BY StoreInvAlways, PTL DEF StoreInv

(* The file, its lock and the lock-free readers are one atomic map.        *)
THEOREM Linearizable == StoreSpec => ImplementsAtomicStore
  BY RefinedInit, RefinedSteps, StoreInvAlways, PTL
     DEF StoreSpec, ImplementsAtomicStore, Atomic!Spec

-----------------------------------------------------------------------------
(* The store asks of its lock what FileLock gives: clients take it when it *)
(* is free and only its holder gives it up.                                *)
StoreLock == INSTANCE ExclusiveLock WITH Procs <- Clients, Nobody <- NoClient, holder <- lockHolder

(* Lock takes a free lock, and only its holder's release or death frees it.*)
LEMMA StoreStepsLock ==
  ASSUME StoreInv, [StoreNext]_storeVars
  PROVE  [StoreLock!Next]_lockHolder
<1> USE DEF StoreInv, StoreTypeOK, StoreLock!Next, StoreLock!Take, StoreLock!Drop
<1>1. ASSUME NEW c \in Clients, Lock(c) PROVE StoreLock!Take(c)
  BY <1>1 DEF Lock
<1>2. ASSUME NEW c \in Clients, Release(c) \/ LateError(c) \/ ClientDies(c)
      PROVE  StoreLock!Drop(c) \/ UNCHANGED lockHolder
  BY <1>2 DEF Release, LateError, ClientDies, HolderWithout
<1>3. ASSUME NEW c \in Clients,
             \/ \E o \in Ops : Invoke(c, o)
             \/ NoLockFile(c) \/ Read(c) \/ Rename(c) \/ SyncDirectory(c)
             \/ LockFails(c) \/ ReadFails(c) \/ WriteFails(c)
      PROVE  UNCHANGED lockHolder
  BY <1>3 DEF Invoke, NoLockFile, Read, Rename, SyncDirectory, LockFails, ReadFails, WriteFails
<1>4. CASE UNCHANGED storeVars
  BY <1>4 DEF storeVars
<1> QED BY <1>1, <1>2, <1>3, <1>4 DEF StoreNext, Perform

(* KeyValueStore's lock is used as ExclusiveLock is specified, which the   *)
(* protocol of FileLock implements (Refinement).                           *)
THEOREM StoreUsesLock == StoreSpec => StoreLock!Spec
<1>1. StoreInit => StoreLock!Init
  BY DEF StoreInit, StoreLock!Init
<1>2. StoreInv /\ [StoreNext]_storeVars => [StoreLock!Next]_lockHolder
  BY StoreStepsLock
<1> QED BY <1>1, <1>2, StoreInvAlways, PTL DEF StoreSpec, StoreLock!Spec
=============================================================================
