----------------------------- MODULE OnceClaims -----------------------------
(***************************************************************************)
(* engine/once.go with the claims of keyvalue/store.go: `once' blocks that *)
(* run their body at most once per key across processes, wait for each     *)
(* other's claims and refuse waits that would close a cycle.               *)
(*                                                                         *)
(* A member of Blocks is one execution of one once block.  ParentOf gives  *)
(* the once block around it (TopLevel for none): a block's children run    *)
(* concurrently inside its body, as the branches of a concurrent control   *)
(* do.  Blocks under one top-level block belong to one process.  The claim *)
(* of a key is the lock of ExclusiveLock; its file carries the holder's    *)
(* record, here the waits announced on it.  The holder keeps them in       *)
(* memory too and writes them all at every change, which may fail: the     *)
(* file then shows what it did, or nothing that can be parsed.             *)
(*                                                                         *)
(* pc: "idle" -> "check" (record looked up) -> "announce" -> "claim"       *)
(*  -> "walk" (one poll of the wait-for graph) -> "claim" ...              *)
(*  -> "publish" -> "withdraw" -> "recheck" or "rebusy" -> "body"          *)
(*  -> "record" -> "release" -> "succeeded", "replayed", "failed" or,      *)
(*  for a refused wait, "refused"; "crashed" for a dead process.           *)
(***************************************************************************)
EXTENDS Naturals, FiniteSets

CONSTANTS Blocks, Keys, TopLevel, Nobody,
          KeyOf,      \* block -> key (scope and rendered key)
          ParentOf,   \* block -> enclosing block or TopLevel
          Waiters,    \* the blocks with on_busy: wait
          Faulty      \* the blocks whose writes to claim files may fail

ASSUME BlocksAssumption ==
  /\ TopLevel \notin Blocks /\ Nobody \notin Blocks
  /\ KeyOf \in [Blocks -> Keys]
  /\ ParentOf \in [Blocks -> Blocks \cup {TopLevel}]
  /\ Waiters \subseteq Blocks /\ Faulty \subseteq Blocks

VARIABLES pc,
          result,    \* where the wait for the claim ended
          holder,    \* key -> block that holds its claim
          waits,     \* key -> blocks whose wait its holder's Claim remembers
          announced, \* key -> blocks whose wait its claim file shows
          told,      \* block -> keys of the claims it is to withdraw its wait from
          unwritten, \* block -> keys of the claim files that a failed write of its wait left
          todo,      \* block -> claim files its walk has still to read
          recordOf   \* key -> block whose outcome is stored, or Nobody

edges == <<waits, announced, told, unwritten>>
vars == <<pc, result, holder, edges, todo, recordOf>>

Init ==
  /\ pc = [b \in Blocks |-> "idle"]
  /\ result = [b \in Blocks |-> "none"]
  /\ holder = [k \in Keys |-> Nobody]
  /\ waits = [k \in Keys |-> {}]
  /\ announced = [k \in Keys |-> {}]
  /\ told = [b \in Blocks |-> {}]
  /\ unwritten = [b \in Blocks |-> {}]
  /\ todo = [b \in Blocks |-> [unread |-> {}, seen |-> {}]]
  /\ recordOf = [k \in Keys |-> Nobody]

-----------------------------------------------------------------------------
(* options.onceClaims: the blocks whose claims b's path holds.  Each level  *)
(* passes on what it was given and adds its own: the least set that        *)
(* contains the block around b and the one around each of its members.     *)
Inherits(S, b) == \A c \in S \cup {b} : ParentOf[c] \in S \cup {TopLevel}

AncestorsOf ==
  [b \in Blocks |-> {a \in Blocks : \A S \in SUBSET Blocks : Inherits(S, b) => a \in S}]

Ancestors(b) == AncestorsOf[b]

HeldKeys(b) == {KeyOf[a] : a \in Ancestors(b)}

Children(b) == {c \in Blocks : ParentOf[c] = b}

Process(b) == {c \in Blocks : c = b \/ b \in Ancestors(c)}

Recorded(k) == recordOf[k] # Nobody

Ended == {"succeeded", "replayed", "failed", "refused", "crashed"}

Goto(b, label) == pc' = [pc EXCEPT ![b] = label]

(* Mutant: a waiting block does not announce its wait.                     *)
NeverAnnounces(b) == FALSE

Announces(b) == b \in Waiters /\ Ancestors(b) # {}

(* The edges readClaimRecord finds in the claim file of k.                 *)
EdgesOf(k) == {KeyOf[w] : w \in announced[k]}

(* publishLocked: the file of k shows what its Claim remembers.            *)
Shown(k) == announced' = [announced EXCEPT ![k] = waits'[k]]

(* SetContent failed: truncating it did, and the file is as it was, or the *)
(* writing did, and readers find no record.                                *)
NotShown(k) ==
  \E left \in {announced[k], {}} : announced' = [announced EXCEPT ![k] = left]

(* b's wait could not be written to, or withdrawn from, the file of k.     *)
Unwritten(b, k) == unwritten' = [unwritten EXCEPT ![b] = @ \cup {k}]

-----------------------------------------------------------------------------
(* The block around b has reached it; a top-level one is simply run.       *)
Start(b) ==
  /\ pc[b] = "idle"
  /\ ParentOf[b] # TopLevel => pc[ParentOf[b]] = "body"
  /\ Goto(b, "check")
  /\ UNCHANGED <<result, holder, edges, todo, recordOf>>

CheckReplays(b) ==
  /\ pc[b] = "check"
  /\ Recorded(KeyOf[b])
  /\ Goto(b, "replayed")
  /\ UNCHANGED <<result, holder, edges, todo, recordOf>>

(* The store cannot be read, or the record in it cannot be decoded.        *)
CheckFails(b) ==
  /\ pc[b] = "check"
  /\ Goto(b, "failed")
  /\ UNCHANGED <<result, holder, edges, todo, recordOf>>

(* The path holds this very key: refused before anything is claimed.       *)
CheckRecursive(b) ==
  /\ pc[b] = "check"
  /\ ~Recorded(KeyOf[b])
  /\ KeyOf[b] \in HeldKeys(b)
  /\ Goto(b, "failed")
  /\ UNCHANGED <<result, holder, edges, todo, recordOf>>

CheckGoesOn(b) ==
  /\ pc[b] = "check"
  /\ ~Recorded(KeyOf[b])
  /\ KeyOf[b] \notin HeldKeys(b)
  /\ Goto(b, IF Announces(b) THEN "announce" ELSE "claim")
  /\ UNCHANGED <<result, holder, edges, todo, recordOf>>

(* AddWanted on one ancestor's claim; claiming starts after the last.      *)
Announce(b) ==
  /\ pc[b] = "announce"
  /\ \E k \in HeldKeys(b) \ told[b] :
       /\ waits' = [waits EXCEPT ![k] = @ \cup {b}]
       /\ Shown(k)
       /\ told' = [told EXCEPT ![b] = @ \cup {k}]
       /\ Goto(b, IF HeldKeys(b) \subseteq told[b] \cup {k} THEN "claim" ELSE "announce")
  /\ UNCHANGED <<result, holder, unwritten, todo, recordOf>>

(* The record cannot be written.  The wait stays in the Claim: withdrawing *)
(* is left to the claims that took the announcement, which this did not.   *)
AnnounceFails(b) ==
  /\ b \in Faulty
  /\ pc[b] = "announce"
  /\ \E k \in HeldKeys(b) \ told[b] :
       /\ waits' = [waits EXCEPT ![k] = @ \cup {b}]
       /\ NotShown(k)
       /\ Unwritten(b, k)
  /\ result' = [result EXCEPT ![b] = "failed"]
  /\ Goto(b, "withdraw")
  /\ UNCHANGED <<holder, told, todo, recordOf>>

(* Mutant: TryAcquire's answer is ignored.                                 *)
ClaimRegardless(b) ==
  /\ pc[b] = "claim"
  /\ holder' = [holder EXCEPT ![KeyOf[b]] = b]
  /\ Goto(b, "publish")
  /\ UNCHANGED <<result, edges, todo, recordOf>>

(* ClaimKey: TryAcquire got the claim file.                                *)
ClaimFree(b) ==
  /\ pc[b] = "claim"
  /\ holder[KeyOf[b]] = Nobody
  /\ holder' = [holder EXCEPT ![KeyOf[b]] = b]
  /\ Goto(b, "publish")
  /\ UNCHANGED <<result, edges, todo, recordOf>>

ClaimBusy(b) ==
  /\ pc[b] = "claim"
  /\ holder[KeyOf[b]] # Nobody
  /\ b \notin Waiters
  /\ result' = [result EXCEPT ![b] = "busy"]
  /\ Goto(b, "withdraw")
  /\ UNCHANGED <<holder, edges, todo, recordOf>>

(* A waiting claim that found the key busy walks the wait-for graph.       *)
WalkStarts(b) ==
  /\ pc[b] = "claim"
  /\ holder[KeyOf[b]] # Nobody
  /\ b \in Waiters
  /\ todo' = [todo EXCEPT ![b] = [unread |-> {KeyOf[b]}, seen |-> {}]]
  /\ Goto(b, "walk")
  /\ UNCHANGED <<result, holder, edges, recordOf>>

(* One claim file is read; its edges are followed unless already seen.     *)
WalkReads(b) ==
  /\ pc[b] = "walk"
  /\ \E k \in todo[b].unread :
       /\ k \notin HeldKeys(b)
       /\ LET seen == todo[b].seen \cup {k}
          IN  todo' = [todo EXCEPT
                        ![b] = [unread |-> (todo[b].unread \cup EdgesOf(k)) \ seen,
                                seen |-> seen]]
  /\ UNCHANGED <<pc, result, holder, edges, recordOf>>

(* The walk came back to a claim the path holds: ErrClaimDeadlock.         *)
WalkRefuses(b) ==
  /\ pc[b] = "walk"
  /\ todo[b].unread \cap HeldKeys(b) # {}
  /\ result' = [result EXCEPT ![b] = "deadlock"]
  /\ todo' = [todo EXCEPT ![b] = [unread |-> {}, seen |-> {}]]
  /\ Goto(b, "withdraw")
  /\ UNCHANGED <<holder, edges, recordOf>>

(* No cycle: sleep claimRetryInterval and try the claim again.             *)
WalkRetries(b) ==
  /\ pc[b] = "walk"
  /\ todo[b].unread = {}
  /\ todo' = [todo EXCEPT ![b] = [unread |-> {}, seen |-> {}]]
  /\ Goto(b, "claim")
  /\ UNCHANGED <<result, holder, edges, recordOf>>

(* The context ended during the wait, or the claim file cannot be opened.  *)
WaitCancelled(b) ==
  /\ pc[b] = "claim"
  /\ result' = [result EXCEPT ![b] = "failed"]
  /\ Goto(b, "withdraw")
  /\ UNCHANGED <<holder, edges, todo, recordOf>>

(* The file of k is deleted or written afresh, earlier failures with it.   *)
Renewed(k) ==
  /\ announced' = [announced EXCEPT ![k] = {}]
  /\ unwritten' = [c \in Blocks |-> unwritten[c] \ {k}]

(* What is left of the claim of k once it is given up: its file is gone,   *)
(* or cannot be removed and shows what it showed.                          *)
Dropped(k) ==
  /\ holder' = [holder EXCEPT ![k] = Nobody]
  /\ waits' = [waits EXCEPT ![k] = {}]
  /\ Renewed(k)

DroppedUnremoved(k) ==
  /\ holder' = [holder EXCEPT ![k] = Nobody]
  /\ waits' = [waits EXCEPT ![k] = {}]
  /\ UNCHANGED <<announced, unwritten>>

(* publishClaim: SetWanted("", "") writes a record without waits.          *)
Publish(b) ==
  /\ pc[b] = "publish"
  /\ waits' = [waits EXCEPT ![KeyOf[b]] = {}]
  /\ Renewed(KeyOf[b])
  /\ result' = [result EXCEPT ![b] = "claimed"]
  /\ Goto(b, "withdraw")
  /\ UNCHANGED <<holder, told, todo, recordOf>>

PublishFails(b) ==
  /\ pc[b] = "publish"
  /\ Dropped(KeyOf[b]) \/ DroppedUnremoved(KeyOf[b])
  /\ result' = [result EXCEPT ![b] = "failed"]
  /\ Goto(b, "withdraw")
  /\ UNCHANGED <<told, todo, recordOf>>

(* RemoveWanted on one announced ancestor's claim, however the wait ended. *)
(* Each is tried, whatever became of the others.                           *)
Withdraw(b) ==
  /\ pc[b] = "withdraw"
  /\ \E k \in told[b] :
       /\ waits' = [waits EXCEPT ![k] = @ \ {b}]
       /\ Shown(k)
       /\ told' = [told EXCEPT ![b] = @ \ {k}]
  /\ UNCHANGED <<pc, result, holder, unwritten, todo, recordOf>>

WithdrawFails(b) ==
  /\ b \in Faulty
  /\ pc[b] = "withdraw"
  /\ \E k \in told[b] :
       /\ waits' = [waits EXCEPT ![k] = @ \ {b}]
       /\ NotShown(k)
       /\ told' = [told EXCEPT ![b] = @ \ {k}]
       /\ Unwritten(b, k)
  /\ UNCHANGED <<pc, result, holder, todo, recordOf>>

(* Mutant: the wait is left without withdrawing its announcements.         *)
WaitOverAnnounced(b) ==
  /\ pc[b] = "withdraw"
  /\ unwritten[b] = {}
  /\ Goto(b, CASE result[b] = "claimed" -> "recheck"
               [] result[b] = "busy" -> "rebusy"
               [] result[b] = "deadlock" -> "refused"
               [] result[b] = "failed" -> "failed")
  /\ result' = [result EXCEPT ![b] = "none"]
  /\ UNCHANGED <<holder, edges, todo, recordOf>>

WaitOver(b) ==
  /\ pc[b] = "withdraw"
  /\ told[b] = {} /\ unwritten[b] = {}
  /\ Goto(b, CASE result[b] = "claimed" -> "recheck"
               [] result[b] = "busy" -> "rebusy"
               [] result[b] = "deadlock" -> "refused"
               [] result[b] = "failed" -> "failed")
  /\ result' = [result EXCEPT ![b] = "none"]
  /\ UNCHANGED <<holder, edges, todo, recordOf>>

(* An error of announcing or withdrawing ends the block; a claim taken     *)
(* meanwhile is released.                                                  *)
WaitOverUnwritten(b) ==
  /\ pc[b] = "withdraw"
  /\ told[b] = {} /\ unwritten[b] # {}
  /\ IF result[b] = "claimed"
     THEN Goto(b, "release") /\ result' = [result EXCEPT ![b] = "failed"]
     ELSE Goto(b, "failed") /\ result' = [result EXCEPT ![b] = "none"]
  /\ UNCHANGED <<holder, edges, todo, recordOf>>

(* Busy and not waiting: the owner may have recorded in the meantime.      *)
Rebusy(b) ==
  /\ pc[b] = "rebusy"
  /\ Goto(b, IF Recorded(KeyOf[b]) THEN "replayed" ELSE "failed")
  /\ UNCHANGED <<result, holder, edges, todo, recordOf>>

RebusyFails(b) ==
  /\ pc[b] = "rebusy"
  /\ Goto(b, "failed")
  /\ UNCHANGED <<result, holder, edges, todo, recordOf>>

(* Mutant: the record read before the claim is trusted.                    *)
RecheckSkipped(b) ==
  /\ pc[b] = "recheck"
  /\ Goto(b, "body")
  /\ UNCHANGED <<result, holder, edges, todo, recordOf>>

(* With the claim held the record is looked up again.                      *)
Recheck(b) ==
  /\ pc[b] = "recheck"
  /\ Goto(b, IF Recorded(KeyOf[b]) THEN "release" ELSE "body")
  /\ result' = [result EXCEPT ![b] = IF Recorded(KeyOf[b]) THEN "replayed" ELSE "none"]
  /\ UNCHANGED <<holder, edges, todo, recordOf>>

RecheckFails(b) ==
  /\ pc[b] = "recheck"
  /\ Goto(b, "release")
  /\ result' = [result EXCEPT ![b] = "failed"]
  /\ UNCHANGED <<holder, edges, todo, recordOf>>

ChildrenEnded(b) == \A c \in Children(b) : pc[c] \in Ended

(* The body may have caught a nested block's error with try.               *)
BodySucceeds(b) ==
  /\ pc[b] = "body"
  /\ ChildrenEnded(b)
  /\ Goto(b, "record")
  /\ UNCHANGED <<result, holder, edges, todo, recordOf>>

(* A child failed, or another step of the body did before or after it.     *)
BodyFails(b) ==
  /\ pc[b] = "body"
  /\ \A c \in Children(b) : pc[c] \in Ended \cup {"idle"}
  /\ result' = [result EXCEPT ![b] = "failed"]
  /\ Goto(b, "release")
  /\ UNCHANGED <<holder, edges, todo, recordOf>>

Record(b) ==
  /\ pc[b] = "record"
  /\ recordOf' = [recordOf EXCEPT ![KeyOf[b]] = b]
  /\ result' = [result EXCEPT ![b] = "succeeded"]
  /\ Goto(b, "release")
  /\ UNCHANGED <<holder, edges, todo>>

RecordFails(b) ==
  /\ pc[b] = "record"
  /\ result' = [result EXCEPT ![b] = "failed"]
  /\ Goto(b, "release")
  /\ UNCHANGED <<holder, edges, todo, recordOf>>

(* Stored, but Set reports an error after all or the record cannot be      *)
(* decoded.                                                                *)
RecordedButFails(b) ==
  /\ pc[b] = "record"
  /\ recordOf' = [recordOf EXCEPT ![KeyOf[b]] = b]
  /\ result' = [result EXCEPT ![b] = "failed"]
  /\ Goto(b, "release")
  /\ UNCHANGED <<holder, edges, todo>>

(* Claim.Release deletes the claim file, record and all.                   *)
Release(b) ==
  /\ pc[b] = "release"
  /\ Dropped(KeyOf[b])
  /\ result' = [result EXCEPT ![b] = "none"]
  /\ Goto(b, result[b])
  /\ UNCHANGED <<told, todo, recordOf>>

(* Deleting, unlocking or closing the file reports an error: the lock is   *)
(* gone all the same, and the block has failed.                            *)
ReleaseFails(b) ==
  /\ pc[b] = "release"
  /\ Dropped(KeyOf[b]) \/ DroppedUnremoved(KeyOf[b])
  /\ result' = [result EXCEPT ![b] = "none"]
  /\ Goto(b, "failed")
  /\ UNCHANGED <<told, todo, recordOf>>

(* The process of a top-level block dies: its claims fall free, and the    *)
(* records it leaves name a dead PID, which readers ignore.                *)
Crash(b) ==
  /\ ParentOf[b] = TopLevel
  /\ pc[b] \notin Ended \cup {"idle"}
  /\ pc' = [c \in Blocks |-> IF c \in Process(b) THEN "crashed" ELSE pc[c]]
  /\ holder' = [k \in Keys |-> IF holder[k] \in Process(b) THEN Nobody ELSE holder[k]]
  /\ waits' = [k \in Keys |-> waits[k] \ Process(b)]
  /\ announced' = [k \in Keys |-> announced[k] \ Process(b)]
  /\ told' = [c \in Blocks |-> IF c \in Process(b) THEN {} ELSE told[c]]
  /\ unwritten' = [c \in Blocks |-> IF c \in Process(b) THEN {} ELSE unwritten[c]]
  /\ result' = [c \in Blocks |-> IF c \in Process(b) THEN "none" ELSE result[c]]
  /\ todo' = [c \in Blocks |->
               IF c \in Process(b) THEN [unread |-> {}, seen |-> {}] ELSE todo[c]]
  /\ UNCHANGED recordOf

-----------------------------------------------------------------------------
Walk(b) == WalkStarts(b) \/ WalkReads(b) \/ WalkRefuses(b) \/ WalkRetries(b)

Progress(b) ==
  \/ Start(b) \/ CheckReplays(b) \/ CheckRecursive(b) \/ CheckGoesOn(b)
  \/ Announce(b) \/ ClaimFree(b) \/ ClaimBusy(b) \/ Walk(b)
  \/ Publish(b) \/ Withdraw(b) \/ WaitOver(b) \/ WaitOverUnwritten(b)
  \/ Rebusy(b) \/ Recheck(b)
  \/ BodySucceeds(b) \/ (ChildrenEnded(b) /\ BodyFails(b))
  \/ Record(b) \/ Release(b)

(* What may go wrong, and need not.                                        *)
Failure(b) ==
  \/ CheckFails(b) \/ AnnounceFails(b) \/ WaitCancelled(b) \/ PublishFails(b)
  \/ WithdrawFails(b) \/ RebusyFails(b) \/ RecheckFails(b) \/ BodyFails(b)
  \/ RecordFails(b) \/ RecordedButFails(b) \/ ReleaseFails(b) \/ Crash(b)

(* Every block has ended, or never started because one around it did.      *)
AllEnded ==
  \A b \in Blocks :
    \/ pc[b] \in Ended
    \/ pc[b] = "idle" /\ \E a \in Ancestors(b) : pc[a] \in Ended

Terminated == AllEnded /\ UNCHANGED vars

Next ==
  \/ \E b \in Blocks : Progress(b) \/ Failure(b)
  \/ Terminated

Spec == Init /\ [][Next]_vars

(* The engine keeps executing a block that has started, bodies finish once *)
(* their nested blocks have, and a waiting claim keeps polling.            *)
FairSpec == Spec /\ \A b \in Blocks : WF_vars(Progress(b))

-----------------------------------------------------------------------------
Labels == {"idle", "check", "announce", "claim", "walk", "publish", "withdraw",
           "rebusy", "recheck", "body", "record", "release"} \cup Ended

TypeOK ==
  /\ pc \in [Blocks -> Labels]
  /\ result \in [Blocks -> {"none", "claimed", "busy", "deadlock", "failed",
                            "replayed", "succeeded"}]
  /\ holder \in [Keys -> Blocks \cup {Nobody}]
  /\ waits \in [Keys -> SUBSET Blocks]
  /\ announced \in [Keys -> SUBSET Blocks]
  /\ told \in [Blocks -> SUBSET Keys]
  /\ unwritten \in [Blocks -> SUBSET Keys]
  /\ todo \in [Blocks -> [unread : SUBSET Keys, seen : SUBSET Keys]]
  /\ recordOf \in [Keys -> Blocks \cup {Nobody}]

Running(b) == pc[b] \in {"body", "record"}

(* Two executions of one key's body never overlap, in one process or in    *)
(* two, and a body never runs for a key that is already recorded: the      *)
(* record looked up before the claim is stale by the time it is granted    *)
(* (once.go:97, 202).                                                      *)
OneBodyPerKey ==
  \A b, c \in Blocks :
    Running(b) => /\ recordOf[KeyOf[b]] = Nobody
                  /\ Running(c) /\ KeyOf[c] = KeyOf[b] => c = b

(* What was recorded for a key is never recorded again by another body,    *)
(* whatever fails or dies in between.                                      *)
RecordedOnce ==
  [][\A k \in Keys : Recorded(k) => recordOf'[k] = recordOf[k]]_vars

(* A block that reports success or replays has an outcome stored under its *)
(* key.                                                                    *)
OutcomeStored ==
  \A b \in Blocks : pc[b] \in {"succeeded", "replayed"} => Recorded(KeyOf[b])

Waiting(b) == pc[b] \in {"announce", "claim", "walk", "publish", "withdraw"}

(* What claims show and remember are waits of blocks still waiting beneath *)
(* the claim, and of no other block, except where this block's own write   *)
(* to that very file failed, until the file is deleted or written by the   *)
(* next holder.  A sibling's writes, and its failures, never bring back a  *)
(* wait (once.go:144-156, store.go:168-182).                               *)
NoStaleWaits ==
  \A k \in Keys : \A b \in announced[k] \cup waits[k] :
    \/ Waiting(b) /\ k \in told[b] /\ holder[k] \in Ancestors(b)
    \/ k \in unwritten[b]

(* A block whose wait could not be written or withdrawn everywhere goes on *)
(* to its failure and nothing else: no body runs, and nothing is replayed, *)
(* beneath a claim that still advertises the wait (once.go:144, 157).      *)
UnwrittenFails ==
  \A b \in Blocks : unwritten[b] # {} =>
    \/ pc[b] \in {"withdraw", "failed"}
    \/ pc[b] = "release" /\ result[b] = "failed"

(* The safety of claims: types, one body of a key at a time, outcomes      *)
(* stored before they are used, no wait announced too long.                *)
Safety == TypeOK /\ OneBodyPerKey /\ OutcomeStored /\ NoStaleWaits /\ UnwrittenFails

(* A failed write hides a wait that goes on from the readers of k's file.  *)
Hides(k) == \E b \in waits[k] \ announced[k] : k \in told[b] /\ pc[b] # "withdraw"

(* Nested claims taken in opposite orders do not leave runs waiting for    *)
(* each other: as long as bodies end, every block that starts ends.  A     *)
(* file left unreadable by a failed write does not change that, for the    *)
(* waiter beneath that claim sees the rest of the cycle; two of them might.*)
EverybodyEnds == <>[](AllEnded \/ \E j, k \in Keys : j # k /\ Hides(j) /\ Hides(k))

-----------------------------------------------------------------------------
(* The wait-for graph as the claim files show it now.                      *)
Reach[n \in 0..Cardinality(Keys)] ==
  [k \in Keys |->
    IF n = 0 THEN {k} ELSE {k} \cup UNION {Reach[n - 1][j] : j \in EdgesOf(k)}]

(* "It only refuses a wait it can prove would cycle"                       *)
(* (docs/execution.md:253): when a wait is refused, the files show a chain *)
(* from the wanted key to a claim of the refused path.                     *)
RefusalsAreCycles ==
  [][\A b \in Blocks :
      pc[b] = "walk" /\ pc'[b] = "withdraw" =>
        Reach[Cardinality(Keys)][KeyOf[b]] \cap HeldKeys(b) # {}]_vars

(* "Whichever side looks second is refused, so the other finishes          *)
(* normally" (docs/execution.md:251): of two blocks that want each other's *)
(* claims at most one is refused.                                          *)
OneSideRefused ==
  \A b, c \in Blocks :
    KeyOf[b] \in HeldKeys(c) /\ KeyOf[c] \in HeldKeys(b) =>
      ~(pc[b] = "refused" /\ pc[c] = "refused")

=============================================================================
