---------------------------- MODULE ServiceScope -----------------------------
(***************************************************************************)
(* engine/background.go with its owner in engine/engine.go (the executor   *)
(* and worktree blocks own theirs the same way) and the startup handshake  *)
(* of steps/process/process.go: a scope runs its steps in the foreground,  *)
(* steps start services that outlive them, and the scope joins every       *)
(* service before its cleanup begins.                                      *)
(*                                                                         *)
(* step[s], the step that starts service s, runs in the foreground:        *)
(*   "idle" -> "calling" -> "waiting" -> "committing" -> "ready", or       *)
(*   "refused", "failed", "gaveUp".                                        *)
(* job[s], the goroutine of the service, runs beside it:                   *)
(*   "none" -> "starting" -> "offered" -> "running" -> "returned"          *)
(*   -> "stopping" (stop under way) -> "done"; "aborting" for a service    *)
(*   whose step went away before it committed.                             *)
(* cause is context.Cause of the scope's context.  "ended" stands for      *)
(* errBackgroundEnded, "stopped" for errBackgroundStopped; the parent may  *)
(* end it with "canceled", or with what ended an outer scope: its own      *)
(* "ended" or a service failure that is "foreign" here.                    *)
(***************************************************************************)
EXTENDS FiniteSets

CONSTANTS Services,
          Policies,      \* the ServiceOptions a service may have: sets of Options
          ParentCauses   \* how the surrounding context may end

Options == {"keep_alive", "exit_on_failure", "exit_on_end"}

ASSUME ScopeAssumption ==
  /\ Policies \subseteq SUBSET Options
  /\ ParentCauses \subseteq {"canceled", "ended", "foreign"}
  /\ Services \cap {"none", "stopped", "canceled", "ended", "foreign"} = {}

VARIABLES options,   \* service -> its ServiceOptions
          phase, cause,
          step, expired,      \* steps whose own context ended
          ready, committed, abandoned,   \* the handshake's channels
          job, outcome, sealedOff,       \* jobs whose context seal cancelled
          pc, foreground,     \* the owner, the error of its steps
          result, reported

handshake == <<ready, committed, abandoned>>
jobs == <<job, outcome, sealedOff>>
owner == <<pc, foreground, result, reported>>

vars == <<options, phase, cause, step, expired, handshake, jobs, owner>>

Init ==
  /\ options \in [Services -> Policies]
  /\ phase = "accepting" /\ cause = "none"
  /\ step = [s \in Services |-> "idle"] /\ expired = {}
  /\ ready = [s \in Services |-> "empty"] /\ committed = {} /\ abandoned = {}
  /\ job = [s \in Services |-> "none"]
  /\ outcome = [s \in Services |-> "none"]
  /\ sealedOff = {}
  /\ pc = "body" /\ foreground = "none" /\ result = "none" /\ reported = {}

-----------------------------------------------------------------------------
Cancelled == cause # "none"

JobCancelled(s) == Cancelled \/ s \in sealedOff

StepCancelled(s) == Cancelled \/ s \in expired

InCall == {"calling", "waiting", "committing"}

MoveStep(s, label) == step' = [step EXCEPT ![s] = label]

MoveJob(s, label) == job' = [job EXCEPT ![s] = label]

(* supervisor.stop, in two parts: the phase under the lock, the context    *)
(* after it.  Only the first cancellation leaves its cause.                *)
EnterStopping == phase' = IF phase = "joined" THEN phase ELSE "stopping"

CancelScope(c) == cause' = IF Cancelled THEN cause ELSE c

-----------------------------------------------------------------------------
(* The foreground.  A step begins only under a live context; cleanup runs  *)
(* detached from it.                                                       *)
BeginStep(s) ==
  /\ step[s] = "idle"
  /\ pc = "cleanup" \/ (pc = "body" /\ ~Cancelled)
  /\ MoveStep(s, "calling")
  /\ UNCHANGED <<options, phase, cause, expired, handshake, jobs, owner>>

(* Mutant: the phase is not looked at.                                     *)
AcceptsWhileAlive == ~Cancelled

Accepts == phase = "accepting" /\ ~Cancelled

StartService(s) ==
  /\ step[s] = "calling"
  /\ IF Accepts THEN MoveStep(s, "waiting") /\ MoveJob(s, "starting")
                ELSE MoveStep(s, "refused") /\ UNCHANGED job
  /\ UNCHANGED <<options, phase, cause, expired, handshake, outcome, sealedOff, owner>>

(* The step reads nil from ready, and then closes committed.               *)
HearsReady(s) ==
  /\ step[s] = "waiting" /\ ready[s] = "ready"
  /\ MoveStep(s, "committing")
  /\ ready' = [ready EXCEPT ![s] = "empty"]
  /\ UNCHANGED <<options, phase, cause, expired, committed, abandoned, jobs, owner>>

Commits(s) ==
  /\ step[s] = "committing"
  /\ MoveStep(s, "ready")
  /\ committed' = committed \cup {s}
  /\ UNCHANGED <<options, phase, cause, expired, ready, abandoned, jobs, owner>>

HearsFailure(s) ==
  /\ step[s] = "waiting" /\ ready[s] = "failure"
  /\ MoveStep(s, "failed")
  /\ ready' = [ready EXCEPT ![s] = "empty"]
  /\ abandoned' = abandoned \cup {s}
  /\ UNCHANGED <<options, phase, cause, expired, committed, jobs, owner>>

(* Mutant: a step that gives up does not tell the service.                 *)
GivesUpSilently(s) ==
  /\ step[s] = "waiting" /\ StepCancelled(s)
  /\ MoveStep(s, "gaveUp")
  /\ UNCHANGED <<options, phase, cause, expired, handshake, jobs, owner>>

GivesUp(s) ==
  /\ step[s] = "waiting" /\ StepCancelled(s)
  /\ MoveStep(s, "gaveUp")
  /\ abandoned' = abandoned \cup {s}
  /\ UNCHANGED <<options, phase, cause, expired, ready, committed, jobs, owner>>

(* The timeout of the step, or a failed sibling in its concurrent group.   *)
StepExpires(s) ==
  /\ step[s] \in InCall /\ s \notin expired
  /\ expired' = expired \cup {s}
  /\ UNCHANGED <<options, phase, cause, step, handshake, jobs, owner>>

(* executeSequence returns: with nil, with the cancellation it ran into,   *)
(* with a failure of a step's own or with the refusal of StartService.  A  *)
(* workflow return ends it with nil.  A failed step may have been caught.  *)
BodyReturns(err, returned) ==
  /\ pc = "body"
  /\ \A s \in Services : step[s] \notin InCall
  /\ err = "canceled" => Cancelled
  /\ err = "refused" => \E s \in Services : step[s] = "refused"
  /\ returned => err = "none"
  /\ foreground' = err
  /\ pc' = IF err # "none" \/ returned THEN "sealAndStop" ELSE "seal"
  /\ UNCHANGED <<options, phase, cause, step, expired, handshake, jobs, result, reported>>

-----------------------------------------------------------------------------
(* The service's goroutine.                                                *)
BecomesReady(s) ==
  /\ job[s] = "starting"
  /\ MoveJob(s, "offered")
  /\ ready' = [ready EXCEPT ![s] = "ready"]
  /\ UNCHANGED <<options, phase, cause, step, expired, committed, abandoned, outcome, sealedOff, owner>>

(* Mutant: a cancelled service is recorded with the cause of its context.  *)
ReturnsCause(s, how) ==
  /\ MoveJob(s, "returned")
  /\ outcome' = [outcome EXCEPT ![s] = IF how = "canceled" THEN cause ELSE how]

Returns(s, how) ==
  /\ MoveJob(s, "returned")
  /\ outcome' = [outcome EXCEPT ![s] = how]

(* A startup failure is handed to the step, not to the scope.              *)
StartFails(s) ==
  /\ job[s] = "starting"
  /\ Returns(s, "aborted")
  /\ ready' = [ready EXCEPT ![s] = "failure"]
  /\ UNCHANGED <<options, phase, cause, step, expired, committed, abandoned, sealedOff, owner>>

OfferTaken(s) ==
  /\ job[s] = "offered" /\ s \in committed
  /\ MoveJob(s, "running")
  /\ UNCHANGED <<options, phase, cause, step, expired, handshake, outcome, sealedOff, owner>>

(* Mutant: the offer ends with the step's context instead of the service's. *)
OfferWithdrawnOnExpiry(s) ==
  /\ job[s] = "offered" /\ (s \in abandoned \/ StepCancelled(s))
  /\ MoveJob(s, "aborting")
  /\ UNCHANGED <<options, phase, cause, step, expired, handshake, outcome, sealedOff, owner>>

OfferWithdrawn(s) ==
  /\ job[s] = "offered" /\ (s \in abandoned \/ JobCancelled(s))
  /\ MoveJob(s, "aborting")
  /\ UNCHANGED <<options, phase, cause, step, expired, handshake, outcome, sealedOff, owner>>

(* abortLaunch has stopped the process; by now the step may have committed *)
(* to a service the scope cancelled, and stopping it may have failed.      *)
Aborts(s) ==
  /\ job[s] = "aborting"
  /\ \E how \in IF s \in committed THEN {"canceled", "shutdownFailed"} ELSE {"aborted"} :
       Returns(s, how)
  /\ UNCHANGED <<options, phase, cause, step, expired, handshake, sealedOff, owner>>

ServiceEnds(s, how) ==
  /\ job[s] = "running"
  /\ how \in {"canceled", "shutdownFailed"} => JobCancelled(s)
  /\ Returns(s, how)
  /\ UNCHANGED <<options, phase, cause, step, expired, handshake, sealedOff, owner>>

Failed(s) == outcome[s] \in {"failed", "shutdownFailed"}

FailsFast(s) == Failed(s) /\ "exit_on_failure" \in options[s]

(* Mutant: a service that the lifecycle shut down ends its scope too.      *)
EndsScopeAnyway(s) == outcome[s] = "ok" /\ "exit_on_end" \in options[s]

EndsScope(s) == outcome[s] = "ok" /\ "exit_on_end" \in options[s] /\ ~JobCancelled(s)

(* Mutant: a service that ends leaves its scope alone.                     *)
ReactsNoStop(s) ==
  /\ job[s] = "returned"
  /\ MoveJob(s, "done")
  /\ UNCHANGED <<options, phase, cause, step, expired, handshake, outcome, sealedOff, owner>>

(* Mutant: a service that never started is not marked done.                *)
ReactsUnlessAborted(s) ==
  /\ job[s] = "returned" /\ outcome[s] # "aborted"
  /\ IF FailsFast(s) \/ EndsScope(s) THEN MoveJob(s, "stopping") /\ EnterStopping
                                     ELSE MoveJob(s, "done") /\ UNCHANGED phase
  /\ UNCHANGED <<options, cause, step, expired, handshake, outcome, sealedOff, owner>>

Reacts(s) ==
  /\ job[s] = "returned"
  /\ IF FailsFast(s) \/ EndsScope(s) THEN MoveJob(s, "stopping") /\ EnterStopping
                                     ELSE MoveJob(s, "done") /\ UNCHANGED phase
  /\ UNCHANGED <<options, cause, step, expired, handshake, outcome, sealedOff, owner>>

StopsScope(s) ==
  /\ job[s] = "stopping"
  /\ MoveJob(s, "done")
  /\ CancelScope(IF outcome[s] = "ok" THEN "ended" ELSE s)
  /\ UNCHANGED <<options, phase, step, expired, handshake, outcome, sealedOff, owner>>

-----------------------------------------------------------------------------
(* The owner, once the foreground has returned.  No step can call          *)
(* StartService any more, so seal and stop are one step each.              *)
Seal ==
  /\ pc \in {"seal", "sealAndStop"}
  /\ phase' = IF phase = "accepting" THEN "sealed" ELSE phase
  /\ sealedOff' = {s \in Services :
       job[s] \in {"starting", "offered", "aborting", "running"} /\ "keep_alive" \notin options[s]}
  /\ pc' = IF pc = "seal" THEN "join" ELSE "stop"
  /\ UNCHANGED <<options, cause, step, expired, handshake, job, outcome, foreground, result, reported>>

Stop ==
  /\ pc = "stop"
  /\ EnterStopping /\ CancelScope("stopped")
  /\ pc' = "join"
  /\ UNCHANGED <<options, step, expired, handshake, jobs, foreground, result, reported>>

Failures == {s \in Services : Failed(s)}

(* The error of wait: the services' failures, and what cancelled the scope *)
(* unless the lifecycle did or the cause is one of them already.           *)
(* Mutant: a cancellation never counts as an error of the scope.           *)
BackgroundSwallowsCancel == IF Failures # {} \/ cause = "foreign" THEN "failed" ELSE "none"

(* Mutant: the failure that cancelled the scope is taken for a cancellation. *)
BackgroundOfCause ==
  IF cause \in {"none", "stopped", "ended"} THEN IF Failures # {} THEN "failed" ELSE "none"
  ELSE IF cause = "foreign" THEN "failed" ELSE "canceled"

Background ==
  IF Failures # {} \/ cause = "foreign" THEN "failed"
  ELSE IF cause = "canceled" THEN "canceled" ELSE "none"

(* Mutant: whatever the foreground reports, an ended scope succeeds.       *)
ForegroundForgiven == IF cause = "ended" THEN "none" ELSE foreground

(* A foreground that was only interrupted by the end of the scope is fine. *)
Foreground == IF cause = "ended" /\ foreground = "canceled" THEN "none" ELSE foreground

(* joinBackgroundError and the status of the joined error.                 *)
Result ==
  IF Foreground \in {"failed", "refused"} \/ Background = "failed" THEN "failed"
  ELSE IF "canceled" \in {Foreground, Background} THEN "canceled" ELSE "succeeded"

Join ==
  /\ pc = "join"
  /\ \A s \in Services : job[s] \in {"none", "done"}
  /\ phase' = "joined"
  /\ result' = Result /\ reported' = Failures
  /\ pc' = "cleanup"
  /\ UNCHANGED <<options, cause, step, expired, handshake, jobs, foreground>>

(* Deferred steps, finally and managed resources.                          *)
CleanupReturns(failed) ==
  /\ pc = "cleanup"
  /\ \A s \in Services : step[s] \notin InCall
  /\ result' = IF failed THEN "failed" ELSE result
  /\ pc' = "done"
  /\ UNCHANGED <<options, phase, cause, step, expired, handshake, jobs, foreground, reported>>

(* The surrounding context ends: a signal, a timeout, an outer scope.      *)
ParentEnds(c) ==
  /\ ~Cancelled /\ pc # "done"
  /\ CancelScope(c)
  /\ UNCHANGED <<options, phase, step, expired, handshake, jobs, owner>>

Terminated == pc = "done" /\ UNCHANGED vars

-----------------------------------------------------------------------------
StepRuns(s) ==
  \/ StartService(s)
  \/ HearsReady(s) \/ Commits(s) \/ HearsFailure(s) \/ GivesUp(s)

JobRuns(s) ==
  \/ BecomesReady(s) \/ StartFails(s)
  \/ OfferTaken(s) \/ OfferWithdrawn(s) \/ Aborts(s)
  \/ Reacts(s) \/ StopsScope(s)

ServiceRuns(s) ==
  \E how \in {"ok", "failed", "canceled", "shutdownFailed"} : ServiceEnds(s, how)

Owns == Seal \/ Stop \/ Join \/ \E failed \in BOOLEAN : CleanupReturns(failed)

BodyRuns ==
  \E err \in {"none", "failed", "canceled", "refused"}, returned \in BOOLEAN :
    BodyReturns(err, returned)

Next ==
  \/ \E s \in Services : BeginStep(s) \/ StepRuns(s) \/ StepExpires(s)
  \/ \E s \in Services : JobRuns(s) \/ ServiceRuns(s)
  \/ BodyRuns \/ Owns
  \/ \E c \in ParentCauses : ParentEnds(c)
  \/ Terminated

Spec == Init /\ [][Next]_vars

(* Goroutines that can go on do.  The foreground returns and a service     *)
(* ends at the latest when its context is cancelled; otherwise they may    *)
(* run forever.  Startup always ends: probes and patterns have timeouts.   *)
FairSpec ==
  /\ Spec
  /\ WF_vars(Owns)
  /\ WF_vars(Cancelled /\ BodyRuns)
  /\ \A s \in Services :
       /\ WF_vars(StepRuns(s))
       /\ WF_vars(JobRuns(s))
       /\ WF_vars(JobCancelled(s) /\ ServiceRuns(s))

-----------------------------------------------------------------------------
TypeOK ==
  /\ options \in [Services -> Policies]
  /\ phase \in {"accepting", "sealed", "stopping", "joined"}
  /\ cause \in {"none", "stopped", "canceled", "ended", "foreign"} \cup Services
  /\ step \in [Services -> InCall \cup {"idle", "ready", "refused", "failed", "gaveUp"}]
  /\ ready \in [Services -> {"empty", "ready", "failure"}]
  /\ expired \subseteq Services /\ committed \subseteq Services /\ abandoned \subseteq Services
  /\ job \in [Services -> {"none", "starting", "offered", "aborting", "running", "returned",
                           "stopping", "done"}]
  /\ outcome \in [Services -> {"none", "ok", "failed", "canceled", "aborted", "shutdownFailed"}]
  /\ sealedOff \subseteq Services
  /\ pc \in {"body", "seal", "sealAndStop", "stop", "join", "cleanup", "done"}
  /\ foreground \in {"none", "failed", "canceled", "refused"}
  /\ result \in {"none", "succeeded", "canceled", "failed"}
  /\ reported \subseteq Services

(* Cleanup never races with a service: when it begins every service has    *)
(* returned, and none is started after that (engine.go:335-347).           *)
JoinedBeforeCleanup ==
  pc \in {"cleanup", "done"} => \A s \in Services : job[s] \in {"none", "done"}

(* A service's failure decides the result and is named in it, whether it   *)
(* came before the end of the foreground, cancelled it or followed it.     *)
FailuresReported ==
  pc = "done" => \A s \in Services : Failed(s) => s \in reported /\ result = "failed"

(* A scope succeeds although its foreground was interrupted only when a    *)
(* service has ended it, and never when it was cancelled from outside.     *)
SuccessIsEarned ==
  result = "succeeded" =>
    /\ foreground \in {"none", "canceled"}
    /\ foreground = "canceled" => cause = "ended"

(* A cancellation from outside that came before the join is not mistaken   *)
(* for a success.                                                          *)
CancellationShows ==
  [][pc = "join" /\ pc' = "cleanup" /\ cause = "canceled" => result' # "succeeded"]_vars

(* A service that never took part is its step's failure: its step does not *)
(* report it ready while the scope lives.                                  *)
AbortedIsNotReady ==
  \A s \in Services : outcome[s] = "aborted" /\ step[s] = "ready" => Cancelled \/ s \in sealedOff

(* The safety of a scope: types, services joined before cleanup, failures  *)
(* reported, success earned, the handshake agreed.                         *)
Safety == TypeOK /\ JoinedBeforeCleanup /\ FailuresReported /\ SuccessIsEarned /\ AbortedIsNotReady

(* Ending a service by the lifecycle is no exit: only a service that ended *)
(* while its own context was alive gives the scope the cause "ended".      *)
OnlyExitsEnd ==
  [][\A s \in Services :
       job[s] = "returned" /\ job'[s] = "stopping" /\ outcome[s] = "ok" => ~JobCancelled(s)]_vars

(* The inductive invariant behind them: what Join found stays true, and    *)
(* the two sides of a handshake know of each other.                        *)
Over == pc \in {"cleanup", "done"}

Settled ==
  /\ ~Over => result = "none"
  /\ Over => /\ phase = "joined"
             /\ \A s \in Services : job[s] \in {"none", "done"}
             /\ reported = Failures
             /\ Failures # {} => result = "failed"

Handshake ==
  \A s \in Services :
    /\ step[s] \in {"idle", "calling"} => job[s] = "none"
    /\ job[s] \in {"none", "starting"} =>
         outcome[s] = "none" /\ ready[s] = "empty" /\ step[s] \notin {"committing", "ready"}
    /\ s \in abandoned => step[s] \in {"failed", "gaveUp"}
    /\ job[s] = "aborting" => s \in abandoned \/ JobCancelled(s)
    /\ outcome[s] = "aborted" /\ (ready[s] = "ready" \/ step[s] \in {"committing", "ready"})
         => s \in abandoned \/ JobCancelled(s)

SealedOnce == pc \in {"body", "seal", "sealAndStop"} => sealedOff = {}

ScopeInv == TypeOK /\ Settled /\ SuccessIsEarned /\ Handshake /\ SealedOnce

(* A scope that is cancelled, by whatever cause, gets to its end, and one  *)
(* without keep_alive services does when its foreground is over.           *)
ScopeReturns ==
  /\ Cancelled ~> pc = "done"
  /\ (pc = "join" /\ \A s \in Services : "keep_alive" \notin options[s]) ~> pc = "done"

(* A fail-fast service that fails on its own ends the scope.               *)
FailFastEnds ==
  \A s \in Services :
    (outcome[s] = "failed" /\ "exit_on_failure" \in options[s]) ~> pc = "done"

(* A service whose step went away while it was becoming ready is released, *)
(* even when the scope lives on (process.go:334-336).                      *)
GaveUpIsReleased == \A s \in Services : step[s] = "gaveUp" ~> job[s] = "done"

(* A scope returns, a fail-fast failure ends it, and a step that gave up   *)
(* releases its service.                                                   *)
ScopeEnds == ScopeReturns /\ FailFastEnds /\ GaveUpIsReleased

(* What the documentation says of exit_on_end (steps-automation.md:562):   *)
(* it "ends the scope successfully".  The foreground may be between its    *)
(* own look at the context and StartService, which then refuses with an    *)
(* error that is no cancellation (background.go:77-88).                    *)
EndedScopeSucceeds ==
  pc = "cleanup" /\ cause = "ended" /\ Failures = {} /\ foreground # "failed"
    => result = "succeeded"

(* What the documentation says of shutdown (steps-automation.md:210): it   *)
(* "never triggers a restart or exit policy".  A shutdown command that     *)
(* fails is a failure like any other to the supervisor (background.go:106).*)
ShutdownTriggersNoPolicy == \A s \in Services : cause = s => outcome[s] # "shutdownFailed"
=============================================================================
