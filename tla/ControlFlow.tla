----------------------------- MODULE ControlFlow -----------------------------
(***************************************************************************)
(* The engine running a workflow (Engine.run and executeSequence of        *)
(* engine/engine.go) with its controls: blocks, executor and worktree      *)
(* blocks, try and catch, attempt, loop, cancel_on, early return, attached *)
(* defers, finally and the release of managed resources.                   *)
(*                                                                         *)
(* A handler that has been called and has not returned has a frame.  There *)
(* is one chain of frames, and one more for each branch of a race.  A      *)
(* frame: what the handler is doing (at), the steps it has yet to call     *)
(* (todo), the errors of this phase and those kept from earlier ones       *)
(* (errors, prior), whether a step of the phase did anything (worked), the *)
(* error of the context its callees get (ctx) and, of an attempt, of the   *)
(* context its passes share (outer), its pass or iteration (count), the    *)
(* resources registered with it (held), the return it suspends (kept), and *)
(* of a race the completions not yet read (inbox) and its winner.          *)
(* An error is the set of what it joins: names of nodes, "canceled" and    *)
(* "deadline".  commits and ran are history.                               *)
(***************************************************************************)
EXTENDS WorkflowTree

VARIABLES frames,
          returning, didReturn,        \* of the run's State
          active,                      \* deferred groups that are registered
          interrupted,                 \* the run's context was cancelled
          result,                      \* "running", "succeeded" or "failed"
          owed,                        \* history: failures nothing has made up for
          live                         \* history: resources acquired, not released

outcomes == <<returning, didReturn>>
history == <<owed, live>>
vars == <<frames, outcomes, active, interrupted, result, history>>

Running == DOMAIN frames
Ctx(n) == frames[Parent[n]].ctx
Expired(n) == IF Ctx(n) # "none" THEN Ctx(n) ELSE frames[n].outer
NoNode == "none"

Frame(n, ctx) ==
  [at |-> "main", todo |-> Tree[n].main, errors |-> {}, prior |-> {}, worked |-> FALSE,
   ctx |-> ctx, outer |-> ctx, count |-> 1, held |-> <<>>, kept |-> FALSE,
   inbox |-> <<>>, winner |-> NoNode, commits |-> <<>>, ran |-> <<>>]

Init ==
  /\ \E r \in Roots : frames = [n \in {r} |-> Frame(n, "none")]
  /\ returning = FALSE /\ didReturn = FALSE /\ active = {} /\ interrupted = FALSE
  /\ result = "running" /\ owed = {} /\ live = <<>>

Idle(n) == frames[n].todo = <<>> /\ \A m \in Running \ Roots : Parent[m] # n

-----------------------------------------------------------------------------
(* Contexts.  Cleanup runs detached (context.WithoutCancel).               *)
Reached(fs, p) ==
  {n \in DOMAIN fs \cap Under[p] :
     \A m \in Within[n] \cap Under[p] \cap DOMAIN fs : fs[m].at # "cleanup"}

End(fs, p, cause) ==
  LET first(old) == IF old = "none" THEN cause ELSE old
  IN [n \in DOMAIN fs |-> IF n \in Reached(fs, p)
                          THEN [fs[n] EXCEPT !.ctx = first(@), !.outer = first(@)]
                          ELSE fs[n]]

Interrupt(n) ==
  /\ n \in Roots /\ ~interrupted /\ interrupted' = TRUE
  /\ frames' = End(frames, n, "canceled")
  /\ UNCHANGED <<outcomes, active, result, history>>

(* The timeout of a pass, and of a whole loop.                             *)
TimesOut(n) ==
  /\ Has(n, "timeout") /\ frames[n].ctx = "none"
  /\ \/ Kind(n) = "attempt" /\ frames[n].at = "main"
        /\ frames' = [End(frames, n, "deadline") EXCEPT ![n].outer = frames[n].outer]
     \/ Kind(n) = "loop" /\ frames' = End(frames, n, "deadline")
  /\ UNCHANGED <<outcomes, active, interrupted, result, history>>

(* max_elapsed_time.                                                       *)
Elapses(n) ==
  /\ n \in Running /\ Kind(n) = "attempt" /\ Has(n, "elapsed") /\ frames[n].outer = "none"
  /\ frames' = End(frames, n, "deadline")
  /\ UNCHANGED <<outcomes, active, interrupted, result, history>>

-----------------------------------------------------------------------------
(* What a caller does when a step returns.  A sequence stops at an error   *)
(* and at a return; a catch goes on unless it was cancelled; cleanup goes  *)
(* on in any case.                                                         *)
(* Mutants: a sequence does not look at state.returning; cleanup stops too.*)
ResumeAfterReturn(f, n, errs, worked, returned) ==
  LET next == [f EXCEPT !.errors = IF f.at = "main" THEN errs ELSE @ \cup errs,
                        !.worked = @ \/ worked, !.ran = Append(@, n)]
  IN IF \/ f.at = "main" /\ errs # {}
        \/ f.at = "catch" /\ errs # {} /\ (f.ctx # "none" \/ "canceled" \in errs)
     THEN [next EXCEPT !.todo = <<>>] ELSE [next EXCEPT !.todo = Tail(@)]

ResumeOrStop(f, n, errs, worked, returned) ==
  LET next == [f EXCEPT !.errors = IF f.at = "main" THEN errs ELSE @ \cup errs,
                        !.worked = @ \/ worked, !.ran = Append(@, n)]
  IN IF errs # {} \/ (f.at = "main" /\ returned)
     THEN [next EXCEPT !.todo = <<>>] ELSE [next EXCEPT !.todo = Tail(@)]

Resume(f, n, errs, worked, returned) ==
  LET next == [f EXCEPT !.errors = IF f.at = "main" THEN errs ELSE @ \cup errs,
                        !.worked = @ \/ worked, !.ran = Append(@, n)]
  IN IF \/ f.at = "main" /\ (errs # {} \/ returned)
        \/ f.at = "catch" /\ errs # {} /\ (f.ctx # "none" \/ "canceled" \in errs)
     THEN [next EXCEPT !.todo = <<>>] ELSE [next EXCEPT !.todo = Tail(@)]

(* A transparent block's steps are recorded as its caller's.               *)
Worked(fs, n, outcome) ==
  IF Kind(n) \in {"block", "executor", "branch"} THEN n \in DOMAIN fs /\ fs[n].worked
  ELSE outcome \in {"ok", "failed"}

(* The handler of n returns.  A step that succeeded is committed, and its  *)
(* defers registered with the enclosing stack, if it has a group there.    *)
Returns(fs, n, outcome, errs, returned) ==
  LET p == Parent[n]
      s == Scope[p]
      commits == outcome = "ok" /\ Tree[n].defers # <<>>
      rest == Restrict(fs, DOMAIN fs \ {n})
      told == IF Kind(n) = "branch"
              THEN [rest EXCEPT ![p].inbox =
                      Append(@, [branch |-> n, failed |-> FALSE,
                                 eligible |-> n = Tree[p].main[1] \/ Worked(fs, n, outcome)])]
              ELSE [rest EXCEPT ![p] = Resume(@, n, errs, Worked(fs, n, outcome), returned)]
  IN /\ frames' = IF commits THEN [told EXCEPT ![s].commits = Append(@, n)] ELSE told
     /\ active' = IF commits /\ n \in Range(Stack(s)) THEN active \cup {n} ELSE active

Fails(fs, n, errs) == Returns(fs, n, "failed", errs, returning)

-----------------------------------------------------------------------------
(* Calling the next step.                                                  *)
Called == {Head(frames[p].todo) : p \in {m \in Running : frames[m].todo # <<>>}} \ Running

(* Every handler looks at its context first.                               *)
Refused(n) ==
  /\ Ctx(n) # "none"
  /\ Returns(frames, n, "refused", {Ctx(n)}, returning) /\ owed' = owed \cup {n}
  /\ UNCHANGED <<outcomes, interrupted, result, live>>

Skipped(n) ==
  /\ Ctx(n) = "none" /\ Has(n, "skips")
  /\ Returns(frames, n, "skipped", {}, returning)
  /\ UNCHANGED <<outcomes, interrupted, result, history>>

Starts(n) ==
  /\ Ctx(n) = "none" /\ Kind(n) # "return"
  /\ LET races == Kind(n) = "race"
         entered == {n} \cup IF races THEN Range(Tree[n].main) ELSE {}
         fresh(m) == IF m = n /\ races THEN [Frame(n, Ctx(n)) EXCEPT !.todo = <<>>, !.count = 0]
                     ELSE Frame(m, Ctx(n))
     IN frames' = [m \in Running \cup entered |-> IF m \in Running THEN frames[m] ELSE fresh(m)]
  /\ active' = IF OwnsDefers(n) THEN active \ Range(Stack(n)) ELSE active
  /\ UNCHANGED <<outcomes, interrupted, result, history>>

(* The session of an executor or the worktree cannot be opened.            *)
OpenFails(n) ==
  /\ Ctx(n) = "none" /\ Kind(n) \in {"executor", "worktree"} /\ Has(n, "fails")
  /\ Fails(frames, n, {n}) /\ owed' = owed \cup {n}
  /\ UNCHANGED <<outcomes, interrupted, result, live>>

(* executeReturn.                                                          *)
EarlyReturn(n) ==
  /\ Ctx(n) = "none" /\ Kind(n) = "return"
  /\ Returns(frames, n, "ok", {}, TRUE) /\ returning' = TRUE /\ didReturn' = TRUE
  /\ UNCHANGED <<interrupted, result, history>>

(* executeStep and managedExecutor: the cleanup of a step whose runner     *)
(* succeeded is registered before its outputs are checked.                 *)
Acquired(n) == [frames EXCEPT ![Keeper[n]].held = Append(@, n)]

StepSucceeds(n) ==
  /\ Kind(n) = "step"
  /\ Returns(IF Has(n, "acquires") THEN Acquired(n) ELSE frames, n, "ok", {}, returning)
  /\ live' = IF Has(n, "acquires") THEN Append(live, n) ELSE live
  /\ UNCHANGED <<outcomes, interrupted, result, owed>>

(* The runner fails or panics (runContained), or stops with its context.   *)
StepFails(n) ==
  /\ Kind(n) = "step" /\ owed' = owed \cup {n}
  /\ \/ Has(n, "fails") /\ Fails(frames, n, {n})
     \/ Ctx(n) # "none" /\ Fails(frames, n, {Ctx(n)})
  /\ UNCHANGED <<outcomes, interrupted, result, live>>

BreaksContract(n) ==
  /\ Kind(n) = "step" /\ {"fails", "acquires"} \subseteq Tree[n].traits
  /\ Fails(Acquired(n), n, {n}) /\ owed' = owed \cup {n} /\ live' = Append(live, n)
  /\ UNCHANGED <<outcomes, interrupted, result>>

SequenceEnds(n) ==
  /\ Idle(n) /\ Kind(n) \in {"block", "branch"}
  /\ Returns(frames, n, IF frames[n].errors = {} THEN "ok" ELSE "failed", frames[n].errors, returning)
  /\ UNCHANGED <<outcomes, interrupted, result, history>>

-----------------------------------------------------------------------------
(* Cleanup scopes: the deferred groups from the last owner to the first,   *)
(* those that were registered, then finally.                               *)
Entries(s) ==
  LET groups == Reverse(Stack(s))
  IN FlattenSeq([i \in DOMAIN groups |->
                   IF groups[i] \in active THEN Tree[groups[i]].defers ELSE <<>>])
     \o (IF Kind(s) = "try" THEN <<>> ELSE Tree[s].rest)

(* executeCleanupScope, with the scope's error so far; state.returning is  *)
(* set aside.                                                              *)
Cleaning(s, errs) ==
  [frames[s] EXCEPT !.at = "cleanup", !.todo = Entries(s), !.prior = errs, !.errors = {},
                    !.ctx = "none", !.kept = returning, !.ran = <<>>]

MainEnds(n) ==
  /\ Idle(n) /\ Kind(n) \in {"run", "executor", "worktree"} /\ frames[n].at = "main"
  /\ frames' = [frames EXCEPT ![n] = Cleaning(n, frames[n].errors)]
  /\ returning' = FALSE
  /\ UNCHANGED <<didReturn, active, interrupted, result, history>>

(* The session is closed, or the worktree removed.                         *)
ScopeEnds(n) ==
  /\ Idle(n) /\ Kind(n) \in {"executor", "worktree"} /\ frames[n].at = "cleanup"
  /\ \E closing \in {{}} \cup (IF Has(n, "fails") THEN {{n}} ELSE {}) :
       LET errs == frames[n].prior \cup frames[n].errors \cup closing
       IN /\ Returns(frames, n, IF errs = {} THEN "ok" ELSE "failed", errs, frames[n].kept)
          /\ owed' = owed \cup closing
  /\ returning' = frames[n].kept
  /\ UNCHANGED <<didReturn, interrupted, result, live>>

RunCleaned(n) ==
  /\ Idle(n) /\ Kind(n) = "run" /\ frames[n].at = "cleanup"
  /\ frames' = [frames EXCEPT ![n].at = "release"]
  /\ UNCHANGED <<outcomes, active, interrupted, result, history>>

(* cleanupScope.run, of the run or of a pass: one resource at a time.      *)
(* Mutant: in the order of registration.                                   *)
Releasing == {"release", "discard", "repoll", "abandon"}

NextReleasedFirst(held) == 1
NextReleased(held) == Len(held)

Releases(n) ==
  /\ frames[n].at \in Releasing /\ frames[n].held # <<>>
  /\ LET next == NextReleased(frames[n].held)
         resource == frames[n].held[next]
     IN /\ \E failing \in {{}} \cup (IF Has(resource, "fails") THEN {{resource}} ELSE {}) :
             /\ frames' = [frames EXCEPT ![n].held = RemoveAt(@, next),
                                         ![n].errors = @ \cup failing]
             /\ owed' = owed \cup failing
        /\ live' = RemoveAt(live, SelectLastInSeq(live, LAMBDA r : r = resource))
  /\ UNCHANGED <<outcomes, active, interrupted, result>>

Released(n) == frames[n].at \in Releasing /\ frames[n].held = <<>>

RunEnds(n) ==
  /\ Released(n) /\ Kind(n) = "run"
  /\ result' = IF frames[n].prior \cup frames[n].errors = {} THEN "succeeded" ELSE "failed"
  /\ frames' = <<>>
  /\ UNCHANGED <<outcomes, active, interrupted, history>>

-----------------------------------------------------------------------------
(* executeTryCatch.                                                        *)
ShouldCatch(n) ==
  /\ frames[n].errors # {} /\ frames[n].ctx = "none"
  /\ "canceled" \notin frames[n].errors \/ "deadline" \in frames[n].errors

TryEnds(n) ==
  /\ Idle(n) /\ Kind(n) = "try" /\ frames[n].at = "main"
  /\ frames' = [frames EXCEPT ![n] =
       IF ShouldCatch(n)
       THEN [@ EXCEPT !.at = "catch", !.todo = Tree[n].rest, !.prior = frames[n].errors,
                      !.errors = {}, !.worked = FALSE, !.ran = <<>>]
       ELSE Cleaning(n, frames[n].errors)]
  /\ UNCHANGED <<outcomes, active, interrupted, result, history>>

(* A catch whose every step was skipped recovers nothing.                  *)
(* Mutant: it does.                                                        *)
RecoveredUnlessFailed(f) == f.errors = {}
Recovered(f) == f.errors = {} /\ f.worked

CatchEnds(n) ==
  /\ Idle(n) /\ Kind(n) = "try" /\ frames[n].at = "catch"
  /\ LET f == frames[n]
         effective == IF Recovered(f) THEN {}
                      ELSE IF f.errors # {} /\ (f.ctx # "none" \/ "canceled" \in f.errors)
                           THEN f.errors ELSE f.prior \cup f.errors
     IN /\ frames' = [frames EXCEPT ![n] = Cleaning(n, effective)]
        /\ owed' = IF f.errors = {} /\ f.worked THEN owed \ Under[n] ELSE owed
  /\ UNCHANGED <<outcomes, active, interrupted, result, live>>

TryCleaned(n) ==
  /\ Idle(n) /\ Kind(n) = "try" /\ frames[n].at = "cleanup"
  /\ LET errs == frames[n].prior \cup frames[n].errors
     IN Returns(frames, n, IF errs = {} THEN "ok" ELSE "failed", errs, returning)
  /\ UNCHANGED <<outcomes, interrupted, result, history>>

-----------------------------------------------------------------------------
(* executeAttempt.  A pass that failed is discarded and retried; one that  *)
(* succeeded before its until holds is discarded and polled again.         *)
(* Mutant: a pass is blamed for its deadline although its body completed.  *)
PassErrorByDeadline(n) ==
  IF Expired(n) # "none" THEN {Expired(n)}
  ELSE frames[n].errors \cup (IF frames[n].ctx = "deadline" THEN {"deadline"} ELSE {})

PassError(n) ==
  IF Expired(n) # "none" THEN {Expired(n)}
  ELSE IF frames[n].errors # {} /\ frames[n].ctx = "deadline"
       THEN frames[n].errors \cup {"deadline"} ELSE frames[n].errors

(* The winning pass promotes its resources.                                *)
(* Mutant: it keeps them.                                                  *)
AdoptNothing(n) == frames
Adopt(n) == [frames EXCEPT ![Keeper[n]].held = @ \o frames[n].held]

PassFails(n) ==
  /\ Idle(n) /\ Kind(n) = "attempt" /\ frames[n].at = "main" /\ PassError(n) # {}
  /\ frames' = [frames EXCEPT ![n].at = "discard", ![n].prior = frames[n].errors,
                              ![n].errors = PassError(n)]
  /\ owed' = IF Expired(n) # "none" THEN owed \cup {n} ELSE owed
  /\ UNCHANGED <<outcomes, active, interrupted, result, live>>

PassWins(n) ==
  /\ Idle(n) /\ Kind(n) = "attempt" /\ frames[n].at = "main" /\ PassError(n) = {}
  /\ Returns(Adopt(n), n, "ok", {}, returning)
  /\ owed' = owed \ Under[n]
  /\ UNCHANGED <<outcomes, interrupted, result, live>>

(* The until condition does not hold, or cannot be evaluated.              *)
PassIsNotReady(n) ==
  /\ Idle(n) /\ Kind(n) = "attempt" /\ frames[n].at = "main" /\ PassError(n) = {}
  /\ Has(n, "until")
  /\ \/ frames' = [frames EXCEPT ![n].at = "repoll"] /\ UNCHANGED owed
     \/ Has(n, "fails") /\ owed' = owed \cup {n}
        /\ frames' = [frames EXCEPT ![n].at = "abandon", ![n].errors = {n}]
  /\ UNCHANGED <<outcomes, active, interrupted, result, live>>

(* Mutant: whatever the number of passes.                                  *)
ExhaustedByContext(n) == Expired(n) # "none"
Exhausted(n) == Expired(n) # "none" \/ frames[n].count = Tree[n].max

Retries(n) ==
  /\ Released(n) /\ frames[n].at = "discard" /\ ~Exhausted(n)
  /\ frames' = [frames EXCEPT ![n].at = "retryWait"] /\ owed' = owed \ Under[n]
  /\ UNCHANGED <<outcomes, active, interrupted, result, live>>

Repolls(n) ==
  /\ Released(n) /\ frames[n].at = "repoll" /\ frames[n].errors = {}
  /\ frames' = [frames EXCEPT ![n].at = "pollWait"]
  /\ UNCHANGED <<outcomes, active, interrupted, result, history>>

GivesUp(n) ==
  /\ Released(n)
  /\ \/ frames[n].at = "discard" /\ (Exhausted(n) \/ Has(n, "when"))
     \/ frames[n].at = "repoll" /\ frames[n].errors # {}
     \/ frames[n].at = "abandon"
  /\ Fails(frames, n, frames[n].errors)
  /\ UNCHANGED <<outcomes, interrupted, result, history>>

(* The delay is over, by its timer or by the end of the context.  A poll   *)
(* spends no attempt.                                                      *)
(* Mutant: nor does a retry.                                               *)
SamePass(f) == f.count
PassNumber(f) == IF f.at = "retryWait" THEN f.count + 1 ELSE f.count

NextPass(n) ==
  /\ frames[n].at \in {"retryWait", "pollWait"}
  /\ IF Expired(n) # "none"
     THEN Fails(frames, n, {Expired(n)}) /\ owed' = owed \cup {n}
     ELSE /\ frames' = [frames EXCEPT ![n] =
               [Frame(n, @.outer) EXCEPT !.count = PassNumber(frames[n])]]
          /\ UNCHANGED <<active, owed>>
  /\ UNCHANGED <<outcomes, interrupted, result, live>>

-----------------------------------------------------------------------------
(* executeLoop.                                                            *)
LoopEnds(n) ==
  /\ Idle(n) /\ Kind(n) = "loop" /\ frames[n].at = "main"
  /\ \/ frames[n].errors # {} /\ Fails(frames, n, frames[n].errors) /\ UNCHANGED owed
     \/ frames[n].errors = {} /\ Returns(frames, n, "ok", {}, returning) /\ UNCHANGED owed
     \/ frames[n].errors = {} /\ (frames[n].count = Tree[n].max \/ Has(n, "fails"))
        /\ Fails(frames, n, {n}) /\ owed' = owed \cup {n}
  /\ UNCHANGED <<outcomes, interrupted, result, live>>

LoopAgain(n) ==
  /\ Idle(n) /\ Kind(n) = "loop" /\ frames[n].at = "main" /\ frames[n].errors = {}
  /\ frames[n].count < Tree[n].max
  /\ IF frames[n].ctx # "none"
     THEN Fails(frames, n, {frames[n].ctx}) /\ owed' = owed \cup {n}
     ELSE /\ frames' = [frames EXCEPT ![n] = [Frame(n, @.ctx) EXCEPT !.count = frames[n].count + 1]]
          /\ UNCHANGED <<active, owed>>
  /\ UNCHANGED <<outcomes, interrupted, result, live>>

-----------------------------------------------------------------------------
(* executeCancelOn and control.Race.                                       *)
BranchPanics(n) ==
  /\ Kind(n) = "branch" /\ Has(n, "fails")
  /\ \A m \in Running \ Roots : Parent[m] # n
  /\ frames' = [Restrict(frames, Running \ {n}) EXCEPT ![Parent[n]].inbox =
                  Append(@, [branch |-> n, failed |-> TRUE, eligible |-> FALSE])]
  /\ UNCHANGED <<outcomes, active, interrupted, result, history>>

Completes(n) ==
  /\ Kind(n) = "race" /\ frames[n].inbox # <<>>
  /\ LET item == Head(frames[n].inbox)
         wins == ~item.failed /\ item.eligible /\ frames[n].winner = NoNode
         read == [frames EXCEPT ![n].inbox = Tail(@), ![n].count = @ + 1,
                                ![n].winner = IF wins THEN item.branch ELSE @,
                                ![n].errors = IF item.failed THEN @ \cup {item.branch} ELSE @]
     IN frames' = IF wins \/ item.failed THEN End(read, n, "canceled") ELSE read
  /\ UNCHANGED <<outcomes, active, interrupted, result, history>>

(* The winner's own error is data; the surrounding context comes first,    *)
(* then a panic.                                                           *)
(* Mutant: a winner comes first.                                           *)
Joined(n) == frames[n].count = Len(Tree[n].main)

RaceErrorOfLosers(n) ==
  IF frames[n].winner # NoNode THEN {}
  ELSE IF Ctx(n) # "none" THEN {Ctx(n)} ELSE frames[n].errors

RaceError(n) == IF Ctx(n) # "none" THEN {Ctx(n)} ELSE frames[n].errors

RaceEnds(n) ==
  /\ Kind(n) = "race" /\ Joined(n)
  /\ \E collecting \in {{}} \cup (IF Has(n, "fails") THEN {{n}} ELSE {}) :
       LET errs == IF RaceError(n) # {} THEN RaceError(n) ELSE collecting
       IN /\ Returns(frames, n, IF errs = {} THEN "ok" ELSE "failed", errs, returning)
          /\ owed' = IF errs = {} THEN owed \ Under[n] ELSE owed \cup {n}
  /\ UNCHANGED <<outcomes, interrupted, result, live>>

-----------------------------------------------------------------------------
Call(n) == Refused(n) \/ Skipped(n) \/ Starts(n) \/ OpenFails(n) \/ EarlyReturn(n)

Continue(n) ==
  \/ StepSucceeds(n) \/ StepFails(n) \/ BreaksContract(n) \/ SequenceEnds(n)
  \/ MainEnds(n) \/ ScopeEnds(n) \/ RunCleaned(n) \/ Releases(n) \/ RunEnds(n)
  \/ TryEnds(n) \/ CatchEnds(n) \/ TryCleaned(n)
  \/ PassFails(n) \/ PassWins(n) \/ PassIsNotReady(n) \/ Retries(n) \/ Repolls(n)
  \/ GivesUp(n) \/ NextPass(n) \/ LoopEnds(n) \/ LoopAgain(n)
  \/ BranchPanics(n) \/ Completes(n) \/ RaceEnds(n)

Advances == (\E n \in Called : Call(n)) \/ (\E n \in Running : Continue(n))

Finished == result # "running" /\ UNCHANGED vars

Next ==
  \/ Advances
  \/ \E n \in Running : Interrupt(n) \/ TimesOut(n) \/ Elapses(n)
  \/ Finished

Spec == Init /\ [][Next]_vars

(* A runner and a cleaner end, a delay is over, and so is the elapsed time *)
(* of an attempt.                                                          *)
Limited == {n \in Nodes : Kind(n) = "attempt" /\ Has(n, "elapsed")}
FairSpec == Spec /\ WF_vars(Advances) /\ \A n \in Limited : WF_vars(Elapses(n))

-----------------------------------------------------------------------------
Errors == Nodes \cup {"canceled", "deadline"}
ContextErrors == {"none", "canceled", "deadline"}

TypeOK ==
  /\ DOMAIN frames \subseteq Nodes
  /\ \A n \in Running :
       LET f == frames[n]
       IN /\ f.at \in {"main", "catch", "cleanup", "retryWait", "pollWait"} \cup Releasing
          /\ f.errors \cup f.prior \subseteq Errors /\ {f.ctx, f.outer} \subseteq ContextErrors
          /\ f.count <= IF Kind(n) = "race" THEN Len(Tree[n].main) ELSE Tree[n].max
          /\ f.winner \in Nodes \cup {NoNode} /\ {f.kept, f.worked} \subseteq BOOLEAN
          /\ n \in Roots \/ Parent[n] \in Running
  /\ {returning, didReturn, interrupted} \subseteq BOOLEAN
  /\ active \cup owed \subseteq Nodes /\ result \in {"running", "succeeded", "failed"}
  /\ Range(live) \subseteq Nodes

(* Cleanup is complete: when a scope has run its cleanup, the defers of    *)
(* every step of it that was committed have run, the last committed first, *)
(* and then its finally; and a block of the cleanup was not cut short by a *)
(* return of the steps it cleans up after.                                 *)
InCleanup(n) == \E m \in Within[n] \ {n} : frames[m].at = "cleanup"

CleanupComplete ==
  \A s \in Running : Idle(s) =>
    /\ (OwnsDefers(s) /\ frames[s].at = "cleanup") =>
         LET owners == Reverse(frames[s].commits)
         IN frames[s].ran = FlattenSeq([i \in DOMAIN owners |-> Tree[owners[i]].defers])
                            \o (IF Kind(s) = "try" THEN <<>> ELSE Tree[s].rest)
    /\ (Kind(s) = "block" /\ InCleanup(s) /\ frames[s].errors = {}) =>
         frames[s].ran = Tree[s].main

(* The run succeeds exactly when every failure was made up for: by a catch *)
(* that did something, by a later pass, or by losing a race.               *)
OutcomeHonest == result # "running" => (result = "failed" <=> owed # {})

(* What was acquired and not released is registered, once, with a handler  *)
(* that runs: no pass begins while an earlier one's resources are held,    *)
(* and nothing is held when the run has ended.                             *)
Acquisitions(r) == {i \in DOMAIN live : live[i] = r}
Registrations(r) ==
  UNION {{n} \X {i \in DOMAIN frames[n].held : frames[n].held[i] = r} : n \in Running}

ReleasedInTime ==
  /\ \A r \in Nodes : Cardinality(Acquisitions(r)) = Cardinality(Registrations(r))
  /\ \A n \in Running : frames[n].at \in {"retryWait", "pollWait"} => frames[n].held = <<>>
  /\ result # "running" => live = <<>>

(* Types, resources are released in time, and the outcome is honest.       *)
Safety == TypeOK /\ ReleasedInTime /\ OutcomeHonest

(* Resources are released in reverse order, but for those of two branches  *)
(* of a race, which nothing orders.                                        *)
Concurrent(a, b) ==
  \E x \in Within[a], y \in Within[b] :
    x # y /\ Kind(x) = "branch" /\ Kind(y) = "branch" /\ Parent[x] = Parent[y]

ReleasedInReverse ==
  [][Len(live') < Len(live) =>
       \E i \in DOMAIN live :
         /\ live' = RemoveAt(live, i)
         /\ \A j \in i + 1..Len(live) : Concurrent(live[i], live[j])]_vars

(* Once the run was cancelled or returned early only cleanup starts.       *)
OnlyCleanupStarts ==
  [][\A n \in Nodes : n \in (DOMAIN frames') \ Running /\ (interrupted \/ didReturn) =>
       InCleanup(n)]_vars

(* A pass whose body completed is never repeated, whatever its deadline    *)
(* did meanwhile (attempt.go:213).  An attempt that polls repeats completed*)
(* passes by design and is not covered.                                    *)
CompletedNotRepeated ==
  [][\A n \in Running \cap DOMAIN frames' :
       Kind(n) = "attempt" /\ frames'[n].count > frames[n].count => frames[n].prior # {}]_vars

(* A race returns when all of its branches have stopped, and it is a       *)
(* success only if its context is live and no branch panicked.             *)
RaceHonest ==
  [][\A n \in Running \ DOMAIN frames' : Kind(n) = "race" =>
       /\ Under[n] \cap DOMAIN frames' = {}
       /\ Under[n] \cap owed' = {} => Ctx(n) = "none" /\ frames[n].errors = {}]_vars

(* What a comment says of cleanup attached to an attempt, that it "runs    *)
(* once after the control commits" (attempt.go:515): the group of every    *)
(* step that was committed is registered.                                  *)
CommittedIsRegistered ==
  \A s \in Running : Range(frames[s].commits) \subseteq active

(* Every run ends.                                                         *)
RunReturns == <>(result # "running")
=============================================================================
