-------------------------- MODULE ObserveScheduler --------------------------
(***************************************************************************)
(* An observer in the background (observe/scheduler.go run by              *)
(* runBackgroundProgram of engine/background_control.go): a pump goroutine *)
(* reads the source, the loop coalesces its observations and decides when  *)
(* the body runs, one goroutine per iteration runs it.                     *)
(*                                                                         *)
(* The world the source watches goes through the versions 1..MaxVersions.  *)
(* A polling source (keep = "latest") observes the version it finds; a     *)
(* pushing one (keep = "all") delivers each version once, in order.  A     *)
(* batch is a set of versions.                                             *)
(*                                                                         *)
(* stage is the loop: "open", "loop", then "stopping" (stopBody waits for  *)
(* the body), "joining" (the pump is told to stop and waited for),         *)
(* "returned" and "closed" (the source too).                               *)
(***************************************************************************)
EXTENDS Naturals

CONSTANTS Configs,             \* the declared observers
          MaxVersions,         \* bound: changes of the world
          FailureWindow        \* failureWindowPaces

Versions == 1..MaxVersions

Configurations ==
  [change : {"restart", "queue", "skip"}, tolerant : BOOLEAN, debounce : BOOLEAN,
   keep : {"latest", "all"}, trigger : {"change", "always"},
   endless : BOOLEAN,          \* a body that runs until it is cancelled
   faulty : BOOLEAN]           \* a source that may fail or panic

ASSUME ObserveAssumption ==
  /\ Configs \subseteq {c \in Configurations : c.keep = "all" => c.trigger = "change"}
  /\ MaxVersions \in Nat /\ FailureWindow \in Nat \ {0}

VARIABLES conf, ctx, world,
          pump, baseline, churn, held,     \* the pump, and the observation it sends
          channel,                         \* observations, of capacity 1
          stage, runError, stopped,        \* the loop, its error, stopPump
          pending, queued, timer,          \* the batches and timerC
          body, cancelled, batch,          \* the active iteration and its binding
          resources, open,                 \* what it holds; iterations not yet reported
          accepted, handled                \* history: observations kept, and given to bodies

environment == <<conf, ctx, world>>
source == <<pump, baseline, churn, held>>
loop == <<stage, runError, stopped>>
batches == <<pending, queued, timer>>
iteration == <<body, cancelled, batch, resources>>
history == <<open, accepted, handled>>
observer == <<environment, source, channel, loop, batches, iteration, history>>

Nothing == [kind |-> "none", version |-> 0, fatal |-> FALSE]
Event(v) == [kind |-> "event", version |-> v, fatal |-> FALSE]
Failure(fatal) == [kind |-> "error", version |-> 0, fatal |-> fatal]
Observations == [kind : {"none", "event", "error"}, version : 0..MaxVersions, fatal : BOOLEAN]

(* latestBatch.Merge and filesystemBatch.Merge; Add merges one event.      *)
Merge(older, newer) ==
  IF conf.keep = "all" THEN older \cup newer ELSE IF newer = {} THEN older ELSE newer

ObserverInit ==
  /\ conf \in Configs /\ ctx = FALSE /\ world = 0
  /\ pump = "none" /\ baseline = 0 /\ churn = 0 /\ held = Nothing /\ channel = Nothing
  /\ stage = "open" /\ runError = "none" /\ stopped = FALSE
  /\ pending = {} /\ queued = {} /\ timer = "off"
  /\ body = "none" /\ cancelled = FALSE /\ batch = {} /\ resources = FALSE
  /\ open = 0 /\ accepted = {} /\ handled = {}

-----------------------------------------------------------------------------
(* The pump.                                                               *)
PumpContextDone == ctx \/ stopped

Hold(observation) == pump' = "send" /\ held' = observation

(* Next returns an observation.  A polling source compares the version it  *)
(* finds with the one it observed last, whatever became of that.           *)
Observes ==
  /\ pump = "next"
  /\ \/ conf.keep = "latest" /\ (conf.trigger = "always" \/ world # baseline)
        /\ baseline' = world
     \/ conf.keep = "all" /\ baseline < world /\ baseline' = baseline + 1
  /\ Hold(Event(baseline')) /\ churn' = 0
  /\ UNCHANGED <<environment, channel, loop, batches, iteration, history>>

(* Next fails, at once or after some work; or because its context ended.   *)
(* Mutants: the count starts over at each failure; it runs past the window.*)
ChurnStartsOver(instant) ==
  IF instant THEN [count |-> 1, broken |-> FALSE] ELSE [count |-> 0, broken |-> FALSE]

ChurnOneMore(instant) ==
  IF ~instant THEN [count |-> 0, broken |-> FALSE]
  ELSE IF churn > FailureWindow THEN [count |-> churn, broken |-> TRUE]
  ELSE [count |-> churn + 1, broken |-> FALSE]

Churn(instant) ==
  IF ~instant THEN [count |-> 0, broken |-> FALSE]
  ELSE IF churn >= FailureWindow THEN [count |-> churn, broken |-> TRUE]
  ELSE [count |-> churn + 1, broken |-> FALSE]

Fails(instant) ==
  /\ pump = "next" /\ (conf.faulty \/ PumpContextDone)
  /\ churn' = Churn(instant).count
  /\ Hold(Failure(~conf.tolerant \/ Churn(instant).broken))
  /\ UNCHANGED <<environment, baseline, channel, loop, batches, iteration, history>>

SourcePanics ==
  /\ pump = "next" /\ conf.faulty /\ Hold(Failure(TRUE))
  /\ UNCHANGED <<environment, baseline, churn, channel, loop, batches, iteration, history>>

(* The select between the channel and the pump's context; a failure that   *)
(* came at once is paced before the next read.                             *)
Send ==
  /\ pump = "send" /\ channel.kind = "none"
  /\ channel' = held /\ held' = Nothing
  /\ pump' = IF held.fatal THEN "done"
             ELSE IF held.kind = "error" /\ churn > 0 THEN "pace" ELSE "next"
  /\ UNCHANGED <<environment, baseline, churn, loop, batches, iteration, history>>

PumpStops ==
  /\ pump \in {"send", "pace"} /\ PumpContextDone
  /\ pump' = "done" /\ held' = Nothing
  /\ UNCHANGED <<environment, baseline, churn, channel, loop, batches, iteration, history>>

Paced ==
  /\ pump = "pace" /\ pump' = "next"
  /\ UNCHANGED <<environment, baseline, churn, held, channel, loop, batches, iteration, history>>

-----------------------------------------------------------------------------
(* An iteration: executeSequence, then the cleanup of what it acquired,    *)
(* whether or not it was cancelled.                                        *)
Acquire ==
  /\ body = "running" /\ ~resources /\ resources' = TRUE
  /\ UNCHANGED <<environment, source, channel, loop, batches, body, cancelled, batch, history>>

BodyEnds ==
  /\ body = "running" /\ (conf.endless => cancelled \/ ctx)
  /\ body' = "cleaning"
  /\ UNCHANGED <<environment, source, channel, loop, batches, cancelled, batch, resources, history>>

CleansUp ==
  /\ body = "cleaning" /\ body' = "finished" /\ resources' = FALSE
  /\ UNCHANGED <<environment, source, channel, loop, batches, cancelled, batch, history>>

-----------------------------------------------------------------------------
(* startBody: binding the batch comes before anything is published.        *)
StartBody(binding) ==
  /\ body' = "running" /\ cancelled' = FALSE /\ batch' = binding
  /\ open' = open + 1 /\ handled' = handled \cup binding
  /\ UNCHANGED <<resources, accepted>>

(* What ends the loop: stopBody, then the deferred stopPump and join.      *)
Leave(err) ==
  /\ runError' = err /\ stage' = "stopping" /\ UNCHANGED stopped
  /\ cancelled' = (body # "none") /\ UNCHANGED <<body, batch, resources, history>>

(* Run reads the first observation before there is a pump.                 *)
Opens ==
  /\ stage = "open" /\ stage' = "loop" /\ pump' = "next" /\ StartBody({})
  /\ UNCHANGED <<environment, baseline, churn, held, channel, runError, stopped, batches>>

InitialPanics ==
  /\ stage = "open" /\ conf.faulty /\ stage' = "returned" /\ runError' = "failed"
  /\ UNCHANGED <<environment, source, channel, stopped, batches, iteration, history>>

ContextDone ==
  /\ stage = "loop" /\ ctx /\ Leave("canceled")
  /\ UNCHANGED <<environment, source, channel, batches>>

Receives(kind) == stage = "loop" /\ channel.kind = kind /\ channel' = Nothing

SourceFails ==
  /\ Receives("error")
  /\ IF ctx \/ (conf.tolerant /\ ~channel.fatal)
     THEN UNCHANGED <<loop, iteration, history>>
     ELSE Leave("failed")
  /\ UNCHANGED <<environment, source, batches>>

(* on_change: skip drops an observation while a body is active.            *)
(* Mutant: so does restart.                                                *)
DropsUnlessQueued == conf.change # "queue" /\ body # "none"

Drops == conf.change = "skip" /\ body # "none"

Skips ==
  /\ Receives("event") /\ Drops
  /\ UNCHANGED <<environment, source, loop, batches, iteration, history>>

(* The observation joins the pending batch and (re)starts the debounce.    *)
KeepsObservation ==
  /\ Receives("event") /\ ~Drops
  /\ pending' = Merge(pending, {channel.version}) /\ accepted' = accepted \cup {channel.version}
  /\ timer' = IF conf.debounce THEN "set" ELSE "fired"
  /\ UNCHANGED <<environment, source, loop, queued, iteration, open, handled>>

BatchPanics ==
  /\ Receives("event") /\ ~Drops /\ conf.faulty /\ Leave("failed")
  /\ UNCHANGED <<environment, source, batches>>

(* No iteration whose result has not been received.                        *)
(* Mutant: or whose result nobody has received yet.                        *)
IdleOrFinished == body \in {"none", "finished"}

Idle == body = "none"

(* Quiet for long enough: the pending batch is due.                        *)
Due == stage = "loop" /\ timer = "fired" /\ timer' = "off" /\ pending' = {}

Triggers ==
  /\ Due /\ Idle
  /\ queued' = {} /\ StartBody(Merge(queued, pending))
  /\ UNCHANGED <<environment, source, channel, loop>>

(* A body is active: the batch is queued for its successor, under restart  *)
(* the body is cancelled as well.                                          *)
CancelsForRestart == conf.change = "restart"

TriggersWhileActive ==
  /\ Due /\ ~Idle
  /\ queued' = Merge(queued, pending) /\ cancelled' = (cancelled \/ CancelsForRestart)
  /\ UNCHANGED <<environment, source, channel, loop, body, batch, resources, history>>

(* A finished iteration is reported; what is queued waits for the debounce *)
(* of what is pending.                                                     *)
(* Mutant: it does not wait.                                               *)
StartsAtOnce == queued # {}

StartsQueued == queued # {} /\ timer = "off"

BodyDone ==
  /\ stage = "loop" /\ body = "finished"
  /\ IF StartsQueued
     THEN /\ queued' = {} /\ body' = "running" /\ cancelled' = FALSE /\ batch' = queued
          /\ handled' = handled \cup queued /\ UNCHANGED open
     ELSE /\ body' = "none" /\ cancelled' = FALSE /\ batch' = {} /\ open' = open - 1
          /\ UNCHANGED <<queued, handled>>
  /\ UNCHANGED <<environment, source, channel, loop, pending, timer, resources, accepted>>

BindingPanics ==
  /\ conf.faulty /\ stage = "loop"
  /\ \/ timer = "fired" /\ body = "none" /\ UNCHANGED open
     \/ body = "finished" /\ StartsQueued /\ open' = open - 1
  /\ stage' = "stopping" /\ runError' = "failed"
  /\ body' = "none" /\ cancelled' = FALSE /\ batch' = {}
  /\ UNCHANGED <<environment, source, channel, stopped, batches, resources, accepted, handled>>

(* stopBody has cancelled the body and waits to report it.                 *)
BodyJoined == body \in {"none", "finished"}

StopsBody ==
  /\ stage = "stopping" /\ BodyJoined
  /\ stage' = "joining" /\ stopped' = TRUE
  /\ body' = "none" /\ cancelled' = FALSE /\ batch' = {}
  /\ open' = IF body = "none" THEN open ELSE open - 1
  /\ UNCHANGED <<environment, source, channel, runError, batches, resources, accepted, handled>>

PumpJoined == pump = "done"

RunReturns ==
  /\ stage = "joining" /\ PumpJoined /\ stage' = "returned"
  /\ UNCHANGED <<environment, source, channel, runError, stopped, batches, iteration, history>>

ClosesSource ==
  /\ stage = "returned" /\ stage' = "closed"
  /\ UNCHANGED <<environment, source, channel, runError, stopped, batches, iteration, history>>

-----------------------------------------------------------------------------
(* The environment: the world, the debounce timer, the observer's scope.   *)
WorldChanges ==
  /\ world < MaxVersions /\ world' = world + 1
  /\ UNCHANGED <<conf, ctx, source, channel, loop, batches, iteration, history>>

TimerExpires ==
  /\ timer = "set" /\ timer' = "fired"
  /\ UNCHANGED <<environment, source, channel, loop, pending, queued, iteration, history>>

ContextEnds ==
  /\ ~ctx /\ ctx' = TRUE
  /\ UNCHANGED <<conf, world, source, channel, loop, batches, iteration, history>>

Finished == stage = "closed" /\ UNCHANGED observer

Pumping == Observes \/ PumpStops \/ Send \/ Paced \/ (PumpContextDone /\ Fails(FALSE))
Iterating == BodyEnds \/ CleansUp
Looping ==
  \/ Opens \/ ContextDone \/ SourceFails \/ Skips \/ KeepsObservation \/ Triggers
  \/ TriggersWhileActive \/ BodyDone \/ StopsBody \/ RunReturns \/ ClosesSource

ObserverNext ==
  \/ Pumping \/ (\E instant \in BOOLEAN : Fails(instant)) \/ SourcePanics
  \/ Acquire \/ Iterating
  \/ Looping \/ InitialPanics \/ BatchPanics \/ BindingPanics
  \/ WorldChanges \/ TimerExpires \/ ContextEnds \/ Finished

ObserverSpec == ObserverInit /\ [][ObserverNext]_observer

(* A select picks among its ready cases at random, bodies end or heed      *)
(* their context, Next returns once its context ends.                      *)
ObserverFairSpec ==
  /\ ObserverSpec
  /\ WF_observer(Pumping) /\ WF_observer(Iterating) /\ WF_observer(Looping)
  /\ WF_observer(TimerExpires) /\ WF_observer(Triggers \/ TriggersWhileActive)
  /\ WF_observer(BodyDone) /\ WF_observer(ContextDone)
  /\ WF_observer(SourceFails) /\ WF_observer(PumpStops)

-----------------------------------------------------------------------------
(* Every variable keeps to its range.                                      *)
ObserverTypeOK ==
  /\ conf \in Configs /\ ctx \in BOOLEAN /\ world \in 0..MaxVersions
  /\ pump \in {"none", "next", "send", "pace", "done"} /\ baseline \in 0..world
  /\ churn \in 0..FailureWindow /\ held \in Observations /\ channel \in Observations
  /\ stage \in {"open", "loop", "stopping", "joining", "returned", "closed"}
  /\ runError \in {"none", "failed", "canceled"} /\ stopped \in BOOLEAN
  /\ pending \subseteq 0..MaxVersions /\ queued \subseteq 0..MaxVersions
  /\ batch \subseteq 0..MaxVersions
  /\ accepted \subseteq 0..MaxVersions /\ handled \subseteq 0..MaxVersions
  /\ timer \in {"off", "set", "fired"}
  /\ body \in {"none", "running", "cleaning", "finished"}
  /\ cancelled \in BOOLEAN /\ resources \in BOOLEAN /\ open \in 0..1

(* Iterations do not overlap, each is reported once, each has released     *)
(* what it acquired before its successor starts; and Run leaves neither an *)
(* iteration nor a reader of the source behind when the source is closed.  *)
IterationsPaired ==
  /\ open = IF body = "none" THEN 0 ELSE 1
  /\ resources => body \in {"running", "cleaning"}
  /\ stage \in {"joining", "returned", "closed"} => body = "none"
  /\ stage \in {"returned", "closed"} => pump \in {"none", "done"}

(* Types, and every iteration begun is finished before the next.           *)
ObserverSafety == ObserverTypeOK /\ IterationsPaired

(* The newest version of a set is what a polling source's batch keeps.     *)
Covered(v, given) == v \in given \/ (conf.keep = "latest" /\ \E w \in given : w >= v)

(* A body that starts is given everything observed and kept so far that no *)
(* body before it was given, and of a polling source nothing but the       *)
(* newest: a change never overtakes a later one.                           *)
NewestFirst ==
  [][handled' # handled \/ (batch # batch' /\ batch' # {})
       => /\ \A v \in accepted : Covered(v, handled')
          /\ conf.keep = "latest" => \A v \in accepted : \A w \in batch' : w >= v]_observer

(* Under restart and queue what the source has reported reaches a body,    *)
(* unless the observer ends; under skip it does so if the source reports   *)
(* its state time and again.                                               *)
Converging == conf.change # "skip" \/ (conf.trigger = "always" /\ ~conf.faulty)

Converges ==
  \A v \in Versions :
    Converging /\ baseline >= v
      ~> Covered(v, handled) \/ stage \in {"stopping", "joining", "returned", "closed"}

(* The observer returns once its scope ends, and once its source does      *)
(* nothing but fail at once.                                               *)
ObserverEnds ==
  /\ ctx ~> stage = "closed"
  /\ (<>[](churn > 0) /\ []<>(pump = "pace")) => <>(stage = "closed")
=============================================================================
