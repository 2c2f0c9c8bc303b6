--------------------------- MODULE ManagedProcess ----------------------------
(***************************************************************************)
(* runLifecycle of steps/process/lifecycle.go, the goroutine behind one    *)
(* process step: it launches an instance, waits until it is ready, agrees  *)
(* with the step that it is wanted (the handshake of process.go), watches  *)
(* it, stops it and replaces it as the restart policy says.                *)
(*                                                                         *)
(* pc is the lifecycle's program counter; "settle" follows every shutdown  *)
(* and stopProcess and goes where goal says: "abort" and "stop" return,    *)
(* "replace" asks the restart policy.  attempt counts launches.            *)
(*                                                                         *)
(* executor is the goroutine launch starts for the current instance:       *)
(*   "spawning" -> "attached" -> "finished" (the flag is set) -> "sent"    *)
(* and exit, sent say what it returns and whether the channel still has it.*)
(* alive[i] says whether anything instance i started still runs: the       *)
(* program itself or, for a detached launcher, the child it leaves behind. *)
(* An executor may be one that cannot stop a program by cancellation       *)
(* (conf.stops is FALSE): its Run then returns while the program runs on.  *)
(***************************************************************************)
EXTENDS Naturals, FiniteSets

CONSTANTS Configs,           \* the configurations of the step
          MaxLaunches,       \* bound: launches of one run
          SuccessThreshold, FailureThreshold

Attempts == 1..MaxLaunches

(* What Validate and process.go leave, and checkRestartSupport.    *)
Supported(c) == c.policy = "never" \/ c.command \/ c.stops

Valid(c) == (c.detached => c.command /\ ~c.rpc) /\ Supported(c)

Configurations ==
  [detached : BOOLEAN, command : BOOLEAN, stops : BOOLEAN, rpc : BOOLEAN, liveness : BOOLEAN,
   readiness : {"none", "log", "probe"}, policy : {"never", "on_failure", "always"},
   max : Nat]

ASSUME LifecycleAssumption ==
  /\ Configs \subseteq {c \in Configurations : Valid(c)}
  /\ MaxLaunches \in Nat \ {0}
  /\ SuccessThreshold \in Nat \ {0} /\ FailureThreshold \in Nat \ {0}

VARIABLES conf,
          ctx,                \* the service's context has ended
          step, expired, ready,         \* the process step, its context, its channel
          pc, goal, attempt, restarts, failure, result,
          successes, failures,          \* of the running probe series
          executor, started, cancelled, exit, sent, matched, protocol, session,
          alive, commanded, unstopped   \* instances: running, sent the shutdown command,
                                        \* left by a failed one

scope == <<conf, ctx>>
caller == <<step, expired, ready>>
loop == <<pc, goal, attempt, restarts, failure, result>>
probes == <<successes, failures>>
channels == <<executor, started, cancelled, exit, sent, matched, protocol, session>>
world == <<alive, commanded, unstopped>>
instance == <<channels, world>>
vars == <<scope, caller, loop, probes, channels, world>>

Init ==
  /\ conf \in Configs /\ ctx = FALSE
  /\ step = "waiting" /\ expired = FALSE /\ ready = "empty"
  /\ pc = "launch" /\ goal = "none" /\ attempt = 0 /\ restarts = 0
  /\ failure = "none" /\ result = "none"
  /\ successes = 0 /\ failures = 0
  /\ executor = "none" /\ started = FALSE /\ cancelled = FALSE /\ exit = "none" /\ sent = FALSE
  /\ matched = FALSE /\ protocol = FALSE /\ session = "none"
  /\ alive = [i \in Attempts |-> FALSE] /\ commanded = {} /\ unstopped = {}

-----------------------------------------------------------------------------
Finished == executor \in {"finished", "sent"}

(* The first instance is announced to the step, later ones are not.        *)
Announced == attempt > 1

(* The error of the iteration so far: a cancellation does not outweigh it. *)
Joined(err) == IF "failed" \in {failure, err} THEN "failed"
               ELSE IF "canceled" \in {failure, err} THEN "canceled" ELSE "none"

Goto(label) == pc' = label /\ UNCHANGED <<goal, attempt, restarts, failure, result>>

(* shutdown: an attached instance that is over has nothing to shut down.   *)
(* Mutant: the configured command is not run.                              *)
ShutdownWithoutCommand == IF ~conf.detached /\ Finished THEN "settle" ELSE "stop"

ShutdownStart ==
  IF ~conf.detached /\ Finished THEN "settle" ELSE IF conf.command THEN "command" ELSE "stop"

(* abortLaunch: only a detached launcher gets the shutdown command.        *)
AbortStart == IF conf.detached /\ conf.command THEN ShutdownStart ELSE "stop"

StopFor(g, start, err) ==
  /\ pc' = start /\ goal' = g /\ failure' = Joined(err)
  /\ UNCHANGED <<attempt, restarts, result>>

(* Probes in a row that settle the matter.                                 *)
(* Mutant: one failure more is let pass.                                   *)
TooManyMore(n) == n > FailureThreshold

TooMany(n) == n >= FailureThreshold

(* Mutant: one restart more than configured.                               *)
RestartsOneMore(err) ==
  /\ conf.policy # "never" /\ (conf.policy = "on_failure" => err # "none")
  /\ conf.max = 0 \/ restarts <= conf.max

ShouldRestart(err) ==
  /\ conf.policy # "never" /\ (conf.policy = "on_failure" => err # "none")
  /\ conf.max = 0 \/ restarts < conf.max

Return(err) == pc' = "returned" /\ result' = err /\ UNCHANGED <<goal, attempt, restarts, failure>>

(* The restart decision at the end of an iteration.                        *)
Decide(err) ==
  IF ShouldRestart(err)
  THEN /\ pc' = "backoff" /\ restarts' = restarts + 1
       /\ UNCHANGED <<goal, attempt, failure, result>>
  ELSE Return(err)

-----------------------------------------------------------------------------
(* launch: channels, a session and a goroutine of its own per instance.    *)
Launch ==
  /\ pc = "launch" /\ attempt < MaxLaunches
  /\ pc' = "starting" /\ attempt' = attempt + 1 /\ goal' = "none" /\ failure' = "none"
  /\ successes' = 0 /\ failures' = 0
  /\ executor' = "spawning" /\ started' = FALSE /\ cancelled' = FALSE
  /\ exit' = "none" /\ sent' = FALSE /\ matched' = FALSE /\ protocol' = FALSE
  /\ session' = IF conf.rpc THEN "pending" ELSE "none"
  /\ UNCHANGED <<scope, caller, restarts, result, world>>

(* startInstance fails.  Before the announcement that is the end; after    *)
(* it, the end of the scope is no failure, anything else is.               *)
StartFails(err) ==
  IF ~Announced THEN StopFor("abort", AbortStart, err)
  ELSE IF ctx THEN StopFor("stop", ShutdownStart, "none")
  ELSE StopFor("replace", ShutdownStart, err)

StartContextDone == IF Announced THEN ctx ELSE expired \/ ctx

SeesStarted ==
  /\ pc = "starting" /\ started
  /\ \/ conf.readiness = "none" /\ Goto("activate")
     \/ conf.readiness = "log" /\ Goto("waitLog")
     \/ conf.readiness = "probe" /\ (Goto("probing") \/ Goto("probeWait"))
  /\ UNCHANGED <<scope, caller, probes, instance>>

(* The instance is over before it was ready.  Spawning and a log match     *)
(* that are known already win, and a detached launcher may end.            *)
ExitsEarly ==
  /\ sent
  /\ \/ pc = "starting" /\ ~started
     \/ pc = "waitLog" /\ ~matched /\ ~conf.detached
     \/ pc = "probeWait" /\ ~conf.detached
  /\ sent' = FALSE
  /\ StartFails("failed")
  /\ UNCHANGED <<scope, caller, probes, executor, started, cancelled, exit, matched, protocol, session, world>>

FailsProtocol ==
  /\ pc \in {"starting", "waitLog", "probeWait"} /\ protocol
  /\ protocol' = FALSE
  /\ StartFails("failed")
  /\ UNCHANGED <<scope, caller, probes, executor, started, cancelled, exit, sent, matched, session, world>>

StartCancelled ==
  /\ pc \in {"starting", "waitLog", "probeWait"} /\ StartContextDone
  /\ StartFails("canceled")
  /\ UNCHANGED <<scope, caller, probes, instance>>

LogTimesOut ==
  /\ pc = "waitLog"
  /\ StartFails("failed")
  /\ UNCHANGED <<scope, caller, probes, instance>>

SeesMatch ==
  /\ pc = "waitLog" /\ matched
  /\ Goto("activate")
  /\ UNCHANGED <<scope, caller, probes, instance>>

(* runProbeUntil: one probe.  A probe under an ended context fails.        *)
ReadinessProbe(ok) ==
  /\ pc = "probing" /\ (ok => ~StartContextDone)
  /\ successes' = IF ok THEN successes + 1 ELSE 0
  /\ failures' = IF ok THEN 0 ELSE failures + 1
  /\ IF successes' >= SuccessThreshold THEN Goto("activate")
     ELSE IF TooMany(failures')
          THEN StartFails(IF StartContextDone THEN "canceled" ELSE "failed")
          ELSE Goto("probeWait")
  /\ UNCHANGED <<scope, caller, instance>>

NextReadinessProbe ==
  /\ pc = "probeWait" /\ Goto("probing")
  /\ UNCHANGED <<scope, caller, probes, instance>>

(* activate: the session is published now, unless it is closed already.    *)
Activate ==
  /\ pc = "activate"
  /\ IF session = "closed"
     THEN StartFails("failed") /\ UNCHANGED <<ready, session, probes>>
     ELSE /\ session' = IF conf.rpc THEN "published" ELSE session
          /\ successes' = 0 /\ failures' = 0
          /\ IF Announced THEN Goto(IF conf.detached THEN "launcher" ELSE "running") /\ UNCHANGED ready
                          ELSE Goto("offered") /\ ready' = "ready"
  /\ UNCHANGED <<scope, step, expired, executor, started, cancelled, exit, sent, matched, protocol, world>>

-----------------------------------------------------------------------------
(* The handshake: the step commits, it has gone, or the scope ends.        *)
(* Mutant: only the end of the scope withdraws the offer.                  *)
OfferWithdrawnByScope ==
  /\ pc = "offered" /\ ctx
  /\ StopFor("abort", AbortStart, "canceled")
  /\ UNCHANGED <<scope, caller, probes, instance>>

OfferWithdrawn ==
  /\ pc = "offered" /\ (step \in {"gaveUp", "failed"} \/ ctx)
  /\ StopFor("abort", AbortStart, IF ctx THEN "canceled" ELSE "none")
  /\ UNCHANGED <<scope, caller, probes, instance>>

OfferTaken ==
  /\ pc = "offered" /\ step = "ready"
  /\ Goto(IF conf.detached THEN "launcher" ELSE "running")
  /\ UNCHANGED <<scope, caller, probes, instance>>

-----------------------------------------------------------------------------
(* waitRunning, and the launcher of a detached service.  The select takes  *)
(* whichever is ready: an exit, a protocol error, the end of the scope.    *)
ExitError == IF exit = "ok" THEN "none" ELSE "failed"

Exits ==
  /\ pc \in {"running", "launcher"} /\ sent
  /\ sent' = FALSE
  /\ IF pc = "launcher" /\ exit = "ok" THEN Goto("watching") ELSE Decide(ExitError)
  /\ UNCHANGED <<scope, caller, probes, executor, started, cancelled, exit, matched, protocol, session, world>>

BreaksProtocol ==
  /\ pc = "running" /\ protocol
  /\ protocol' = FALSE
  /\ StopFor("replace", ShutdownStart, "failed")
  /\ UNCHANGED <<scope, caller, probes, executor, started, cancelled, exit, sent, matched, session, world>>

StopsWithScope ==
  /\ pc \in {"running", "launcher", "watching"} /\ ctx
  /\ StopFor("stop", ShutdownStart, "none")
  /\ UNCHANGED <<scope, caller, probes, instance>>

(* Liveness probes: an attached instance is looked at before each, a       *)
(* detached one has no exit left.  Too many in a row fail the service.     *)
BeginProbe ==
  /\ conf.liveness
  /\ \/ pc = "running" /\ ~sent /\ ~protocol /\ ~ctx /\ Goto("probe")
     \/ pc = "watching" /\ Goto("watchProbe")
  /\ UNCHANGED <<scope, caller, probes, instance>>

LivenessProbe(ok) ==
  /\ pc \in {"probe", "watchProbe"} /\ (ok => ~ctx)
  /\ failures' = IF ok THEN 0 ELSE failures + 1
  /\ IF TooMany(failures')
     THEN StopFor("replace", ShutdownStart, IF ctx THEN "canceled" ELSE "failed")
     ELSE Goto(IF pc = "probe" THEN "running" ELSE "watching")
  /\ UNCHANGED <<scope, caller, successes, instance>>

-----------------------------------------------------------------------------
(* Mutant: the error of the command is not kept.                           *)
ShutdownCommandForgets(ok) ==
  /\ pc = "command"
  /\ commanded' = commanded \cup {attempt}
  /\ unstopped' = IF ok THEN unstopped ELSE unstopped \cup {attempt}
  /\ Goto(IF ok /\ ~conf.detached THEN "commandWait" ELSE "stop")
  /\ UNCHANGED <<scope, caller, probes, channels, alive>>

(* The shutdown command.  It may fail, and one that succeeds may only have *)
(* asked the instance to go, which then goes sooner or later, or not.      *)
ShutdownCommand(ok) ==
  /\ pc = "command"
  /\ commanded' = commanded \cup {attempt}
  /\ IF ok THEN /\ Goto(IF conf.detached THEN "stop" ELSE "commandWait")
                /\ UNCHANGED unstopped
           ELSE /\ StopFor(goal, "stop", "failed")
                /\ unstopped' = unstopped \cup {attempt}
  /\ UNCHANGED <<scope, caller, probes, channels, alive>>

ExitsAfterCommand ==
  /\ pc = "commandWait" /\ sent
  /\ sent' = FALSE
  /\ Goto("settle")
  /\ UNCHANGED <<scope, caller, probes, executor, started, cancelled, exit, matched, protocol, session, world>>

CommandWaitTimesOut ==
  /\ pc = "commandWait" /\ Goto("stop")
  /\ UNCHANGED <<scope, caller, probes, instance>>

(* stopProcess: cancel, and wait for the exit unless the instance is over, *)
(* because somebody may have taken the exit already.                       *)
StopProcess ==
  /\ pc = "stop"
  /\ cancelled' = TRUE
  /\ Goto(IF Finished THEN "settle" ELSE "awaitExit")
  /\ UNCHANGED <<scope, caller, probes, executor, started, exit, sent, matched, protocol, session, world>>

AwaitExit ==
  /\ pc = "awaitExit" /\ sent
  /\ sent' = FALSE
  /\ Goto("settle")
  /\ UNCHANGED <<scope, caller, probes, executor, started, cancelled, exit, matched, protocol, session, world>>

Settle ==
  /\ pc = "settle"
  /\ IF goal = "replace" THEN Decide(failure) ELSE Return(failure)
  /\ UNCHANGED <<scope, caller, probes, instance>>

(* Between two instances: the end of the scope is looked for, and may be   *)
(* missed only when the timer fires at the same time.                      *)
BackoffElapses ==
  /\ pc = "backoff" /\ attempt < MaxLaunches
  /\ Goto("launch")
  /\ UNCHANGED <<scope, caller, probes, instance>>

BackoffCut ==
  /\ pc = "backoff" /\ ctx
  /\ Return("canceled")
  /\ UNCHANGED <<scope, caller, probes, instance>>

(* The end of the job in process.go: without a commitment the failure is   *)
(* the step's, and the scope hears of a service that never took part.      *)
Report ==
  /\ pc = "returned"
  /\ pc' = "done"
  /\ result' = IF step = "ready" THEN result ELSE "aborted"
  /\ ready' = IF step # "ready" /\ result # "none" /\ ready = "empty" THEN "failure" ELSE ready
  /\ UNCHANGED <<scope, step, expired, goal, attempt, restarts, failure, probes, instance>>

-----------------------------------------------------------------------------
(* The instance's goroutine.  A cancelled start fails; otherwise the       *)
(* program runs, or, for a detached service, the launcher does.            *)
Spawn ==
  /\ executor = "spawning"
  /\ executor' = "attached" /\ started' = TRUE
  /\ alive' = [alive EXCEPT ![attempt] = ~conf.detached]
  /\ UNCHANGED <<scope, caller, loop, probes, cancelled, exit, sent, matched, protocol, session,
                 commanded, unstopped>>

LeaveChild ==
  /\ executor = "attached" /\ conf.detached /\ ~alive[attempt]
  /\ alive' = [alive EXCEPT ![attempt] = TRUE]
  /\ UNCHANGED <<scope, caller, loop, probes, channels, commanded, unstopped>>

(* Run returns: the session is closed, then the flag set.                  *)
ExecutorReturns(code) ==
  /\ executor' = "finished" /\ exit' = code
  /\ session' = IF conf.rpc THEN "closed" ELSE session
  /\ UNCHANGED <<scope, caller, loop, probes, started, cancelled, sent, matched, protocol,
                 commanded, unstopped>>

SpawnFails ==
  /\ executor = "spawning" /\ ExecutorReturns("failed") /\ UNCHANGED alive

(* A program ends; a launcher ends, and one that fails leaves nothing.     *)
ProgramEnds(code) ==
  /\ executor = "attached"
  /\ conf.detached /\ code = "ok" => alive[attempt]
  /\ ExecutorReturns(code)
  /\ alive' = IF conf.detached /\ code = "ok" THEN alive ELSE [alive EXCEPT ![attempt] = FALSE]

(* Cancellation: the program is stopped, or only left.                     *)
ExecutorGivesUp ==
  /\ executor = "attached" /\ cancelled
  /\ ExecutorReturns("failed")
  /\ alive' = IF conf.stops /\ ~conf.detached THEN [alive EXCEPT ![attempt] = FALSE] ELSE alive

(* The session of a cancelled instance is closed by its watcher.           *)
CloseSession ==
  /\ cancelled /\ session \in {"pending", "published"}
  /\ session' = "closed"
  /\ UNCHANGED <<scope, caller, loop, probes, executor, started, cancelled, exit, sent, matched, protocol, world>>

SendExit ==
  /\ executor = "finished"
  /\ executor' = "sent" /\ sent' = TRUE
  /\ UNCHANGED <<scope, caller, loop, probes, started, cancelled, exit, matched, protocol, session, world>>

LogMatches ==
  /\ executor = "attached" /\ conf.readiness = "log" /\ ~matched
  /\ matched' = TRUE
  /\ UNCHANGED <<scope, caller, loop, probes, executor, started, cancelled, exit, sent, protocol, session, world>>

(* A malformed line: the session detaches and reports it once.             *)
ProtocolError ==
  /\ executor = "attached" /\ session \in {"pending", "published"}
  /\ session' = "closed" /\ protocol' = TRUE
  /\ UNCHANGED <<scope, caller, loop, probes, executor, started, cancelled, exit, sent, matched, world>>

ChildDies ==
  /\ \E i \in Attempts : alive[i] /\ (i < attempt \/ Finished)
                          /\ alive' = [alive EXCEPT ![i] = FALSE]
  /\ UNCHANGED <<scope, caller, loop, probes, channels, commanded, unstopped>>

-----------------------------------------------------------------------------
(* The step that started the service, and the scope it belongs to.         *)
HearsReady ==
  /\ step = "waiting" /\ ready = "ready"
  /\ step' = "committing" /\ ready' = "empty"
  /\ UNCHANGED <<scope, expired, loop, probes, instance>>

Commits ==
  /\ step = "committing" /\ step' = "ready"
  /\ UNCHANGED <<scope, expired, ready, loop, probes, instance>>

HearsFailure ==
  /\ step = "waiting" /\ ready = "failure"
  /\ step' = "failed" /\ ready' = "empty"
  /\ UNCHANGED <<scope, expired, loop, probes, instance>>

GivesUp ==
  /\ step = "waiting" /\ (expired \/ ctx)
  /\ step' = "gaveUp"
  /\ UNCHANGED <<scope, expired, ready, loop, probes, instance>>

StepExpires ==
  /\ step = "waiting" /\ ~expired
  /\ expired' = TRUE
  /\ UNCHANGED <<scope, step, ready, loop, probes, instance>>

ScopeEnds ==
  /\ ~ctx /\ pc # "done"
  /\ ctx' = TRUE
  /\ UNCHANGED <<conf, caller, loop, probes, instance>>

Terminated == pc = "done" /\ step # "waiting" /\ step # "committing" /\ UNCHANGED vars

-----------------------------------------------------------------------------
Starting ==
  \/ Launch \/ SeesStarted \/ ExitsEarly \/ FailsProtocol \/ StartCancelled
  \/ LogTimesOut \/ SeesMatch \/ NextReadinessProbe \/ Activate
  \/ \E ok \in BOOLEAN : ReadinessProbe(ok)

Watching ==
  \/ OfferWithdrawn \/ OfferTaken \/ Exits \/ BreaksProtocol \/ StopsWithScope
  \/ BeginProbe \/ \E ok \in BOOLEAN : LivenessProbe(ok)

Stopping ==
  \/ \E ok \in BOOLEAN : ShutdownCommand(ok)
  \/ ExitsAfterCommand \/ CommandWaitTimesOut \/ StopProcess \/ AwaitExit \/ Settle
  \/ BackoffElapses \/ BackoffCut \/ Report

Executing == Spawn \/ SpawnFails \/ ExecutorGivesUp \/ SendExit \/ CloseSession

Happens ==
  \/ LeaveChild \/ LogMatches \/ ProtocolError \/ ChildDies
  \/ \E code \in {"ok", "failed"} : ProgramEnds(code)

Stepping == HearsReady \/ Commits \/ HearsFailure \/ GivesUp

Next ==
  \/ Starting \/ Watching \/ Stopping \/ Executing \/ Happens
  \/ Stepping \/ StepExpires \/ ScopeEnds \/ Terminated

Spec == Init /\ [][Next]_vars

(* The lifecycle's goroutine runs, its timers fire and probes and commands *)
(* return by their timeouts.  An executor returns once it is cancelled.  A *)
(* program need not do anything.                                           *)
FairSpec ==
  /\ Spec
  /\ WF_vars(Starting) /\ WF_vars(Watching) /\ WF_vars(Stopping)
  /\ WF_vars(Executing) /\ WF_vars(Stepping)

-----------------------------------------------------------------------------
TypeOK ==
  /\ conf \in Configs /\ ctx \in BOOLEAN
  /\ step \in {"waiting", "committing", "ready", "failed", "gaveUp"}
  /\ expired \in BOOLEAN /\ ready \in {"empty", "ready", "failure"}
  /\ pc \in {"launch", "starting", "waitLog", "probing", "probeWait", "activate", "offered",
             "running", "launcher", "watching", "probe", "watchProbe", "command", "commandWait",
             "stop", "awaitExit", "settle", "backoff", "returned", "done"}
  /\ goal \in {"none", "abort", "stop", "replace"}
  /\ attempt \in 0..MaxLaunches /\ restarts \in Nat
  /\ failure \in {"none", "canceled", "failed"}
  /\ result \in {"none", "canceled", "failed", "aborted"}
  /\ successes \in 0..SuccessThreshold /\ failures \in 0..FailureThreshold
  /\ executor \in {"none", "spawning", "attached", "finished", "sent"}
  /\ started \in BOOLEAN /\ cancelled \in BOOLEAN
  /\ exit \in {"none", "ok", "failed"} /\ sent \in BOOLEAN
  /\ matched \in BOOLEAN /\ protocol \in BOOLEAN
  /\ session \in {"none", "pending", "published", "closed"}
  /\ alive \in [Attempts -> BOOLEAN]
  /\ commanded \subseteq Attempts /\ unstopped \subseteq Attempts

Over == pc \in {"returned", "done"}

(* What cancellation cannot stop: a detached child, or a program under an  *)
(* executor that only leaves it.                                           *)
OutOfReach == conf.detached \/ ~conf.stops

(* No instance is stacked on another: when a replacement is launched, or   *)
(* the lifecycle has returned, what an earlier instance started runs on    *)
(* only where cancellation does not reach it, and a replacement comes only *)
(* after the shutdown command has been run for it (process.go:404-406).    *)
NoStacking ==
  \A i \in Attempts :
    alive[i] /\ (i < attempt \/ Over) => OutOfReach /\ (i < attempt => i \in commanded)

(* What the documentation says of an executor that cannot stop a program   *)
(* (steps-automation.md:226): it is stopped "only with shutdown.command",  *)
(* so no end of the lifecycle leaves a program without having run it.      *)
CommandRunsFirst == \A i \in Attempts : Over /\ alive[i] /\ conf.command => i \in commanded

(* Restarts happen under the policy only, within max_restarts, and only to *)
(* a service its step has committed to (steps-automation.md:210).          *)
RestartsJustified ==
  attempt > 1 =>
    /\ step = "ready" /\ conf.policy # "never"
    /\ conf.max # 0 => attempt - 1 <= conf.max

(* Types, and restarts only as the policy and the step allow.              *)
Safety == TypeOK /\ RestartsJustified

(* The lifecycle's result is about the service: a service the scope ended  *)
(* is no failure unless shutting it down was one, an exit nobody asked for *)
(* that the policy does not replace is what its code says, and a failed    *)
(* shutdown is reported unless the instance was replaced.                  *)
ResultHonest ==
  pc = "returned" =>
    /\ result = "none" => ctx \/ exit = "ok" \/ step \in {"gaveUp", "failed"}
    /\ attempt \in unstopped /\ restarts < attempt => result = "failed"

(* Once the scope ends, or the step goes away, the lifecycle returns.      *)
LifecycleReturns == (ctx \/ step = "gaveUp") ~> pc = "done"
=============================================================================
