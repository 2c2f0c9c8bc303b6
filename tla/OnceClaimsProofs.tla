-------------------------- MODULE OnceClaimsProofs --------------------------
(***************************************************************************)
(* Theorems about OnceClaims, for any blocks, nesting, keys and waiters.   *)
(* IInv is inductive.  Its parts: where the outcome of a wait stands       *)
(* (Phased), who holds a claim (Claimed), that the blocks around an active *)
(* one are in their bodies (Nested), what is recorded (Stored), whose      *)
(* waits the claims remember and their files show (NoStaleWaits), and      *)
(* where a block whose write failed is going (UnwrittenFails).             *)
(***************************************************************************)
EXTENDS OnceClaims, TLAPS

Active(b) == pc[b] \notin Ended \cup {"idle"}

(* b has taken the claim of its key and not released it yet.               *)
Holding(b) ==
  \/ pc[b] \in {"publish", "recheck", "body", "record", "release"}
  \/ pc[b] = "withdraw" /\ result[b] = "claimed"

(* result carries the end of the wait through its withdrawal, then the end *)
(* of the body to the release of its claim.                                *)
Phased ==
  \A b \in Blocks :
    /\ pc[b] = "withdraw" => result[b] \in {"claimed", "busy", "deadlock", "failed"}
    /\ pc[b] = "release" => result[b] \in {"replayed", "succeeded", "failed"}

(* A claim is held by the block that took it, until that block lets go.    *)
Claimed ==
  \A b \in Blocks, k \in Keys : holder[k] = b <=> Holding(b) /\ KeyOf[b] = k

(* The blocks around one that has started and not ended run their bodies.  *)
Nested == \A b \in Blocks : Active(b) => \A a \in Ancestors(b) : pc[a] = "body"

(* A body runs for a key without a record, and an outcome that is about to *)
(* be reported has one.                                                    *)
Stored ==
  \A b \in Blocks :
    /\ Running(b) => ~Recorded(KeyOf[b])
    /\ pc[b] = "release" /\ result[b] \in {"succeeded", "replayed"} => Recorded(KeyOf[b])

IInv ==
  /\ TypeOK /\ Phased /\ Claimed /\ Nested /\ Stored
  /\ OutcomeStored /\ NoStaleWaits /\ UnwrittenFails

-----------------------------------------------------------------------------
(* The blocks around b are blocks.                                         *)
LEMMA AncestorsAreBlocks ==
  ASSUME NEW b \in Blocks
  PROVE  Ancestors(b) \subseteq Blocks
  BY DEF Ancestors, AncestorsOf

(* The ancestors of b are closed: the block around b, and the one around   *)
(* each ancestor, is an ancestor.                                          *)
LEMMA AncestorsInherit ==
  ASSUME NEW b \in Blocks
  PROVE  Inherits(Ancestors(b), b)
  BY BlocksAssumption DEF Ancestors, AncestorsOf, Inherits

(* They are the least such set.                                            *)
LEMMA AncestorsLeast ==
  ASSUME NEW b \in Blocks, NEW S \in SUBSET Blocks, Inherits(S, b)
  PROVE  Ancestors(b) \subseteq S
  BY DEF Ancestors, AncestorsOf

(* An ancestor's ancestors are ancestors.                                  *)
LEMMA AncestorsTransitive ==
  ASSUME NEW b \in Blocks, NEW a \in Ancestors(b)
  PROVE  Ancestors(a) \subseteq Ancestors(b)
<1>1. a \in Blocks /\ Ancestors(b) \in SUBSET Blocks
  BY AncestorsAreBlocks
<1>2. Inherits(Ancestors(b), a)
  BY AncestorsInherit DEF Inherits
<1> QED
  BY <1>1, <1>2, AncestorsLeast

(* A block is nested in the block around it and in that one's ancestors;   *)
(* a top-level block is nested in nothing.                                 *)
LEMMA AncestorsOfParent ==
  ASSUME NEW b \in Blocks
  PROVE  /\ ParentOf[b] = TopLevel => Ancestors(b) = {}
         /\ ParentOf[b] # TopLevel =>
              Ancestors(b) \subseteq {ParentOf[b]} \cup Ancestors(ParentOf[b])
<1>1. ASSUME ParentOf[b] = TopLevel PROVE Ancestors(b) = {}
  <2>1. Inherits({}, b)
    BY <1>1 DEF Inherits
  <2> QED
    BY <2>1, AncestorsLeast
<1>2. ASSUME ParentOf[b] # TopLevel
      PROVE  Ancestors(b) \subseteq {ParentOf[b]} \cup Ancestors(ParentOf[b])
  <2> DEFINE S == {ParentOf[b]} \cup Ancestors(ParentOf[b])
  <2>1. ParentOf[b] \in Blocks
    BY <1>2, BlocksAssumption
  <2>2. S \in SUBSET Blocks
    BY <2>1, AncestorsAreBlocks
  <2>3. Inherits(S, b)
    BY <2>1, AncestorsInherit DEF Inherits
  <2> QED
    BY <2>2, <2>3, AncestorsLeast
<1> QED
  BY <1>1, <1>2

(* Between a block and one of its ancestors there is a child of that       *)
(* ancestor: the block itself or another of its ancestors.                 *)
LEMMA ChildBetween ==
  ASSUME NEW b \in Blocks, NEW a \in Ancestors(b)
  PROVE  \E c \in {b} \cup Ancestors(b) : c \in Children(a)
<1> SUFFICES ASSUME \A c \in {b} \cup Ancestors(b) : c \notin Children(a)
             PROVE  FALSE
  OBVIOUS
<1> DEFINE S == Ancestors(b) \ {a}
<1>1. S \in SUBSET Blocks
  BY AncestorsAreBlocks
<1>2. Inherits(S, b)
  BY AncestorsAreBlocks, AncestorsInherit DEF Inherits, Children
<1> QED
  BY <1>1, <1>2, AncestorsLeast

-----------------------------------------------------------------------------
(* Before any block has started nothing is claimed, recorded or announced. *)
LEMMA InitInv == Init => IInv
  BY BlocksAssumption
     DEF Init, IInv, TypeOK, Labels, Phased, Claimed, Holding, Nested, Active, Stored, Running,
         Recorded, OutcomeStored, NoStaleWaits, UnwrittenFails, Waiting, Ended

(* Once the holder of a claim has left its body, what the claim shows and  *)
(* remembers is there by failed writes only: nobody waits beneath it.      *)
LEMMA NobodyWaitsBelow ==
  ASSUME IInv, NEW b \in Blocks, NEW k \in Keys, holder[k] = b, pc[b] # "body"
  PROVE  \A c \in announced[k] \cup waits[k] : k \in unwritten[c]
<1> SUFFICES ASSUME NEW c \in announced[k] \cup waits[k], k \notin unwritten[c] PROVE FALSE
  OBVIOUS
<1>1. c \in Blocks
  BY DEF IInv, TypeOK
<1>2. Waiting(c) /\ b \in Ancestors(c)
  BY DEF IInv, NoStaleWaits
<1>3. Active(c)
  BY <1>2 DEF Waiting, Active, Ended
<1> QED
  BY <1>1, <1>2, <1>3 DEF IInv, Nested

(* Every step of a block, and the death of a process, preserves IInv.      *)
LEMMA NextInv == IInv /\ [Next]_vars => IInv'
<1> SUFFICES ASSUME IInv, [Next]_vars PROVE IInv'
  OBVIOUS
<1>a. \A b \in Blocks : Ancestors(b) \subseteq Blocks
  BY AncestorsAreBlocks
<1> USE <1>a, BlocksAssumption
    DEF IInv, TypeOK, Labels, Phased, Claimed, Holding, Nested, Active, Stored, Running, Recorded,
        OutcomeStored, NoStaleWaits, UnwrittenFails, Waiting, Ended, HeldKeys
<1>1. ASSUME NEW b \in Blocks, CheckReplays(b) PROVE IInv'
  BY <1>1 DEF CheckReplays, Goto, edges
<1>2. ASSUME NEW b \in Blocks, CheckRecursive(b) PROVE IInv'
  BY <1>2 DEF CheckRecursive, Goto, edges
<1>3. ASSUME NEW b \in Blocks, CheckGoesOn(b) PROVE IInv'
  BY <1>3 DEF CheckGoesOn, Goto, edges
<1>4. ASSUME NEW b \in Blocks, Announce(b) PROVE IInv'
  BY <1>4 DEF Announce, Goto, Shown
<1>5. ASSUME NEW b \in Blocks, ClaimFree(b) PROVE IInv'
  BY <1>5 DEF ClaimFree, Goto, edges
<1>6. ASSUME NEW b \in Blocks, ClaimBusy(b) PROVE IInv'
  BY <1>6 DEF ClaimBusy, Goto, edges
<1>7. ASSUME NEW b \in Blocks, WalkStarts(b) PROVE IInv'
  BY <1>7 DEF WalkStarts, Goto, edges
<1>8. ASSUME NEW b \in Blocks, WalkReads(b) PROVE IInv'
  <2>1. UNCHANGED <<pc, result, holder, edges, recordOf>>
    BY <1>8 DEF WalkReads
  <2>2. \A k \in Keys : EdgesOf(k) \subseteq Keys
    BY BlocksAssumption DEF EdgesOf
  <2>3. todo' \in [Blocks -> [unread : SUBSET Keys, seen : SUBSET Keys]]
    BY <1>8, <2>2 DEF WalkReads
  <2> QED
    BY <2>1, <2>3 DEF edges
<1>9. ASSUME NEW b \in Blocks, WalkRefuses(b) PROVE IInv'
  BY <1>9 DEF WalkRefuses, Goto, edges
<1>10. ASSUME NEW b \in Blocks, WalkRetries(b) PROVE IInv'
  BY <1>10 DEF WalkRetries, Goto, edges
<1>11. ASSUME NEW b \in Blocks, WaitCancelled(b) PROVE IInv'
  BY <1>11 DEF WaitCancelled, Goto, edges
<1>12. ASSUME NEW b \in Blocks, Publish(b) PROVE IInv'
  BY <1>12 DEF Publish, Goto, Renewed
<1>13. ASSUME NEW b \in Blocks, PublishFails(b) PROVE IInv'
  <2> DEFINE k == KeyOf[b]
  <2>1. k \in Keys /\ holder[k] = b
    BY <1>13 DEF PublishFails
  <2>2. \A c \in announced[k] \cup waits[k] : k \in unwritten[c]
    BY <1>13, <2>1, NobodyWaitsBelow DEF PublishFails
  <2>3. Phased' /\ Nested' /\ Stored' /\ OutcomeStored'
    BY <1>13, <2>1 DEF PublishFails, Goto, Dropped, DroppedUnremoved, Renewed
  <2>4. Claimed'
    BY <1>13, <2>1 DEF PublishFails, Goto, Dropped, DroppedUnremoved, Renewed
  <2>5. CASE Dropped(k)
    <3>1. NoStaleWaits'
      BY <1>13, <2>1, <2>2, <2>5 DEF PublishFails, Goto, Dropped, Renewed
    <3>2. TypeOK' /\ UnwrittenFails'
      BY <1>13, <2>1, <2>5 DEF PublishFails, Goto, Dropped, Renewed
    <3> QED
      BY <2>3, <2>4, <3>1, <3>2
  <2>6. CASE DroppedUnremoved(k)
    <3>1. NoStaleWaits'
      BY <1>13, <2>1, <2>2, <2>6 DEF PublishFails, Goto, DroppedUnremoved
    <3>2. TypeOK' /\ UnwrittenFails'
      BY <1>13, <2>1, <2>6 DEF PublishFails, Goto, DroppedUnremoved
    <3> QED
      BY <2>3, <2>4, <3>1, <3>2
  <2> QED
    BY <1>13, <2>5, <2>6 DEF PublishFails
<1>14. ASSUME NEW b \in Blocks, Withdraw(b) PROVE IInv'
  BY <1>14 DEF Withdraw, Shown
<1>15. ASSUME NEW b \in Blocks, WaitOver(b) PROVE IInv'
  BY <1>15 DEF WaitOver, Goto, edges
<1>16. ASSUME NEW b \in Blocks, Rebusy(b) PROVE IInv'
  BY <1>16 DEF Rebusy, Goto, edges
<1>17. ASSUME NEW b \in Blocks, Recheck(b) PROVE IInv'
  BY <1>17 DEF Recheck, Goto, edges
<1>18. ASSUME NEW b \in Blocks, Record(b) PROVE IInv'
  BY <1>18 DEF Record, Goto, edges
<1>19. ASSUME NEW b \in Blocks, RecordFails(b) PROVE IInv'
  BY <1>19 DEF RecordFails, Goto, edges
<1>20. ASSUME NEW b \in Blocks, Release(b) PROVE IInv'
  <2> DEFINE k == KeyOf[b]
  <2>1. k \in Keys /\ holder[k] = b
    BY <1>20 DEF Release
  <2>2. \A c \in announced[k] \cup waits[k] : k \in unwritten[c]
    BY <1>20, <2>1, NobodyWaitsBelow DEF Release
  <2>3. NoStaleWaits'
    BY <1>20, <2>1, <2>2 DEF Release, Goto, Dropped, Renewed
  <2>4. TypeOK' /\ Phased' /\ Nested' /\ Stored' /\ OutcomeStored' /\ UnwrittenFails'
    BY <1>20, <2>1 DEF Release, Goto, Dropped, Renewed
  <2>5. Claimed'
    BY <1>20, <2>1 DEF Release, Goto, Dropped, Renewed
  <2> QED
    BY <2>3, <2>4, <2>5
<1>21. ASSUME NEW b \in Blocks, Start(b) PROVE IInv'
  <2>0. \A a \in Ancestors(b) : pc[a] = "body"
    <3>1. CASE ParentOf[b] = TopLevel
      BY <3>1, AncestorsOfParent
    <3>2. CASE ParentOf[b] # TopLevel
      <4>1. ParentOf[b] \in Blocks /\ pc[ParentOf[b]] = "body"
        BY <1>21, <3>2 DEF Start
      <4>2. \A a \in Ancestors(ParentOf[b]) : pc[a] = "body"
        BY <4>1
      <4>3. Ancestors(b) \subseteq {ParentOf[b]} \cup Ancestors(ParentOf[b])
        BY <3>2, AncestorsOfParent
      <4> HIDE DEF IInv
      <4> QED
        BY <4>1, <4>2, <4>3
    <3> QED
      BY <3>1, <3>2
  <2>1. Nested'
    BY <1>21, <2>0 DEF Start, Goto, edges
  <2> QED
    BY <1>21, <2>1 DEF Start, Goto, edges
<1>22. ASSUME NEW b \in Blocks, BodySucceeds(b) \/ BodyFails(b) PROVE IInv'
  <2>1. \A c \in Blocks : Active(c) => b \notin Ancestors(c)
    <3> SUFFICES ASSUME NEW c \in Blocks, Active(c), b \in Ancestors(c) PROVE FALSE
      OBVIOUS
    <3>1. PICK d \in {c} \cup Ancestors(c) : d \in Children(b)
      BY ChildBetween
    <3>2. pc[d] \notin Ended \cup {"idle"}
      BY <3>1
    <3> QED
      BY <1>22, <3>1, <3>2 DEF BodySucceeds, BodyFails, ChildrenEnded
  <2>2. Nested'
    BY <1>22, <2>1 DEF BodySucceeds, BodyFails, Goto, edges
  <2>3. CASE BodySucceeds(b)
    BY <2>2, <2>3 DEF BodySucceeds, Goto, edges
  <2>4. CASE BodyFails(b)
    BY <2>2, <2>4 DEF BodyFails, Goto, edges
  <2> QED
    BY <1>22, <2>3, <2>4
<1>23. ASSUME NEW b \in Blocks, Crash(b) PROVE IInv'
  <2>1. \A c \in Blocks : c \notin Process(b) =>
          /\ \A a \in Ancestors(c) : a \notin Process(b)
          /\ pc'[c] = pc[c] /\ result'[c] = result[c]
    BY <1>23, AncestorsTransitive DEF Crash, Process
  <2>2. \A c \in Process(b) : pc'[c] = "crashed"
    BY <1>23 DEF Crash, Process
  <2>3. Process(b) \subseteq Blocks
    BY DEF Process
  <2>4. TypeOK'
    BY <1>23, <2>3 DEF Crash
  <2>5. Phased' /\ Nested' /\ Stored' /\ OutcomeStored' /\ UnwrittenFails'
    BY <1>23, <2>1, <2>2 DEF Crash
  <2>6. Claimed'
    BY <1>23, <2>1, <2>2, <2>3 DEF Crash
  <2>7. NoStaleWaits'
    BY <1>23, <2>1, <2>3 DEF Crash
  <2> QED
    BY <2>4, <2>5, <2>6, <2>7
<1>24. ASSUME NEW b \in Blocks, CheckFails(b) PROVE IInv'
  BY <1>24 DEF CheckFails, Goto, edges
<1>25. ASSUME NEW b \in Blocks, AnnounceFails(b) PROVE IInv'
  BY <1>25 DEF AnnounceFails, Goto, NotShown, Unwritten
<1>26. ASSUME NEW b \in Blocks, WithdrawFails(b) PROVE IInv'
  BY <1>26 DEF WithdrawFails, NotShown, Unwritten
<1>27. ASSUME NEW b \in Blocks, WaitOverUnwritten(b) PROVE IInv'
  <2>1. /\ pc[b] = "withdraw" /\ told[b] = {} /\ unwritten[b] # {}
        /\ UNCHANGED <<holder, waits, announced, told, unwritten, todo, recordOf>>
    BY <1>27 DEF WaitOverUnwritten, edges
  <2>2. ASSUME NEW pcEnd \in {"release", "failed"}, NEW end \in {"none", "failed"},
               pc' = [pc EXCEPT ![b] = pcEnd], result' = [result EXCEPT ![b] = end],
               pcEnd = "release" <=> result[b] = "claimed",
               pcEnd = "release" => end = "failed"
        PROVE  IInv'
    <3>1. TypeOK' /\ Phased' /\ Nested' /\ UnwrittenFails'
      BY <2>1, <2>2
    <3>2. Stored' /\ OutcomeStored'
      BY <2>1, <2>2
    <3>3. Claimed'
      BY <2>1, <2>2
    <3>4. NoStaleWaits'
      BY <2>1, <2>2
    <3> QED
      BY <3>1, <3>2, <3>3, <3>4
  <2>3. CASE result[b] = "claimed"
    BY <1>27, <2>2, <2>3 DEF WaitOverUnwritten, Goto
  <2>4. CASE result[b] # "claimed"
    BY <1>27, <2>2, <2>4 DEF WaitOverUnwritten, Goto
  <2> QED
    BY <2>3, <2>4
<1>28. ASSUME NEW b \in Blocks, RebusyFails(b) PROVE IInv'
  BY <1>28 DEF RebusyFails, Goto, edges
<1>29. ASSUME NEW b \in Blocks, RecheckFails(b) PROVE IInv'
  BY <1>29 DEF RecheckFails, Goto, edges
<1>30. ASSUME NEW b \in Blocks, RecordedButFails(b) PROVE IInv'
  BY <1>30 DEF RecordedButFails, Goto, edges
<1>31. ASSUME NEW b \in Blocks, ReleaseFails(b) PROVE IInv'
  <2> DEFINE k == KeyOf[b]
  <2>1. k \in Keys /\ holder[k] = b
    BY <1>31 DEF ReleaseFails
  <2>2. \A c \in announced[k] \cup waits[k] : k \in unwritten[c]
    BY <1>31, <2>1, NobodyWaitsBelow DEF ReleaseFails
  <2>3. Phased' /\ Nested' /\ Stored' /\ OutcomeStored'
    BY <1>31, <2>1 DEF ReleaseFails, Goto, Dropped, DroppedUnremoved, Renewed
  <2>4. Claimed'
    BY <1>31, <2>1 DEF ReleaseFails, Goto, Dropped, DroppedUnremoved, Renewed
  <2>5. CASE Dropped(k)
    <3>1. NoStaleWaits'
      BY <1>31, <2>1, <2>2, <2>5 DEF ReleaseFails, Goto, Dropped, Renewed
    <3>2. TypeOK' /\ UnwrittenFails'
      BY <1>31, <2>1, <2>5 DEF ReleaseFails, Goto, Dropped, Renewed
    <3> QED
      BY <2>3, <2>4, <3>1, <3>2
  <2>6. CASE DroppedUnremoved(k)
    <3>1. NoStaleWaits'
      BY <1>31, <2>1, <2>2, <2>6 DEF ReleaseFails, Goto, DroppedUnremoved
    <3>2. TypeOK' /\ UnwrittenFails'
      BY <1>31, <2>1, <2>6 DEF ReleaseFails, Goto, DroppedUnremoved
    <3> QED
      BY <2>3, <2>4, <3>1, <3>2
  <2> QED
    BY <1>31, <2>5, <2>6 DEF ReleaseFails
<1>32. ASSUME UNCHANGED vars PROVE IInv'
  BY <1>32 DEF vars, edges
<1> QED
  BY <1>1, <1>2, <1>3, <1>4, <1>5, <1>6, <1>7, <1>8, <1>9, <1>10, <1>11, <1>12, <1>13, <1>14,
     <1>15, <1>16, <1>17, <1>18, <1>19, <1>20, <1>21, <1>22, <1>23, <1>24, <1>25, <1>26, <1>27,
     <1>28, <1>29, <1>30, <1>31, <1>32
     DEF Next, Progress, Failure, Walk, Terminated

(* IInv holds of every state the blocks reach.                             *)
THEOREM Invariance == Spec => []IInv
  BY InitInv, NextInv, PTL DEF Spec

(* Every reachable state is typed.                                         *)
THEOREM TypeCorrect == Spec => []TypeOK
  BY Invariance, PTL DEF IInv

(* Executions of one key's body exclude each other and none runs once the  *)
(* key is recorded (once.go, the claim and the second look-up).            *)
THEOREM BodiesExclude == Spec => []OneBodyPerKey
<1>1. IInv => OneBodyPerKey
  BY BlocksAssumption
     DEF IInv, TypeOK, OneBodyPerKey, Claimed, Holding, Stored, Running, Recorded
<1> QED
  BY <1>1, Invariance, PTL

(* A claim is held by a block on its way from taking to releasing it, and  *)
(* of that block's own key: neither a failure, a refused wait nor a crash  *)
(* leaves one behind (store.go, ClaimKey; once.go, the deferred Release).  *)
ClaimsAccounted ==
  \A k \in Keys : holder[k] # Nobody => Holding(holder[k]) /\ KeyOf[holder[k]] = k

(* No claim outlives the block that holds it, however the block ends.      *)
THEOREM NoClaimLeft == Spec => []ClaimsAccounted
<1>1. IInv => ClaimsAccounted
  BY DEF IInv, TypeOK, Claimed, ClaimsAccounted
<1> QED
  BY <1>1, Invariance, PTL

(* A wait that is over stands on a claim only where the waiting block      *)
(* could not write it there or withdraw it, and such a block has failed or *)
(* is about to (once.go, AddWanted, RemoveWanted and their errors).        *)
THEOREM WaitsWithdrawn == Spec => [](NoStaleWaits /\ UnwrittenFails)
  BY Invariance, PTL DEF IInv

(* All of the claims' safety.                                              *)
THEOREM SafeAlways == Spec => []Safety
<1>1. IInv => OutcomeStored
  BY DEF IInv
<1> QED
  BY <1>1, TypeCorrect, BodiesExclude, WaitsWithdrawn, Invariance, PTL DEF Safety

(* What is recorded for a key stays: no later body of the key, and no      *)
(* crash, replaces or removes it (once.go, readOnceRecord under the claim).*)
THEOREM RecordsStay == Spec => RecordedOnce
<1>1. IInv /\ [Next]_vars =>
        (\A k \in Keys : Recorded(k) => recordOf'[k] = recordOf[k])
  <2> SUFFICES ASSUME IInv, [Next]_vars, NEW k \in Keys, Recorded(k)
               PROVE  recordOf'[k] = recordOf[k]
    OBVIOUS
  <2>1. ASSUME NEW b \in Blocks, Record(b) \/ RecordedButFails(b)
        PROVE  recordOf'[k] = recordOf[k]
    BY <2>1 DEF Record, RecordedButFails, IInv, Stored, Running, TypeOK
  <2>2. (\A b \in Blocks : ~(Record(b) \/ RecordedButFails(b))) => UNCHANGED recordOf
    BY DEF Next, Progress, Failure, Walk, Terminated, vars, Start, CheckReplays, CheckRecursive,
       CheckGoesOn, CheckFails, Announce, AnnounceFails, ClaimFree, ClaimBusy, WalkStarts,
       WalkReads, WalkRefuses, WalkRetries, WaitCancelled, Publish, PublishFails, Withdraw,
       WithdrawFails, WaitOver, WaitOverUnwritten, Rebusy, RebusyFails, Recheck, RecheckFails,
       BodySucceeds, BodyFails, RecordFails, Release, ReleaseFails, Crash
  <2> QED
    BY <2>1, <2>2
<1> QED
  BY <1>1, Invariance, PTL DEF Spec, RecordedOnce

-----------------------------------------------------------------------------
(* The claim of a key as the lock of internal/filelock.                    *)
ClaimOf(k) == INSTANCE ExclusiveLock WITH Procs <- Blocks, holder <- holder[k]

(* The claim of every key behaves as an exclusive lock: it passes from one *)
(* block to another only by being given up, and only its holder, or the    *)
(* death of its holder's process, gives it up.                             *)
THEOREM ClaimsAreLocks == ASSUME NEW k \in Keys PROVE Spec => ClaimOf(k)!Spec
<1>1. Init => ClaimOf(k)!Init
  BY DEF Init, ClaimOf!Init
<1>2. IInv /\ [Next]_vars => [ClaimOf(k)!Next]_(holder[k])
  <2> SUFFICES ASSUME IInv, [Next]_vars PROVE [ClaimOf(k)!Next]_(holder[k])
    OBVIOUS
  <2>1. ASSUME NEW b \in Blocks, ClaimFree(b) PROVE [ClaimOf(k)!Next]_(holder[k])
    BY <2>1 DEF ClaimFree, IInv, TypeOK, ClaimOf!Next, ClaimOf!Take
  <2>2. ASSUME NEW b \in Blocks, PublishFails(b) \/ Release(b) \/ ReleaseFails(b)
        PROVE  [ClaimOf(k)!Next]_(holder[k])
    BY <2>2, BlocksAssumption
       DEF PublishFails, Release, ReleaseFails, Dropped, DroppedUnremoved, IInv, TypeOK, Claimed, Holding, ClaimOf!Next, ClaimOf!Drop
  <2>3. ASSUME NEW b \in Blocks, Crash(b) PROVE [ClaimOf(k)!Next]_(holder[k])
    BY <2>3 DEF Crash, Process, IInv, TypeOK, ClaimOf!Next, ClaimOf!Drop
  <2>4. (\A b \in Blocks : ~(\/ ClaimFree(b) \/ PublishFails(b)
                             \/ Release(b) \/ ReleaseFails(b) \/ Crash(b))) =>
          UNCHANGED holder
    BY DEF Next, Progress, Failure, Walk, Terminated, vars, Start, CheckReplays, CheckRecursive,
       CheckGoesOn, CheckFails, Announce, AnnounceFails, ClaimBusy, WalkStarts, WalkReads,
       WalkRefuses, WalkRetries, WaitCancelled, Publish, Withdraw, WithdrawFails, WaitOver,
       WaitOverUnwritten, Rebusy, RebusyFails, Recheck, RecheckFails, BodySucceeds, BodyFails,
       Record, RecordFails, RecordedButFails
  <2> QED
    BY <2>1, <2>2, <2>3, <2>4
<1> QED
  BY <1>1, <1>2, Invariance, PTL DEF Spec, ClaimOf!Spec
=============================================================================
