------------------------------- MODULE FanOut --------------------------------
(***************************************************************************)
(* control/fanout.go and Run of control/control.go, as executeControl of   *)
(* engine/control.go uses them: batch, foreach and matrix run N iterations *)
(* with at most policy.limit of them at a time, collect their results and  *)
(* commit them as one.                                                     *)
(*                                                                         *)
(* it[i]: "queued" -> "admitted" (its goroutine holds a slot) ->           *)
(*   "entering" (the context was alive when it looked) -> "body" ->        *)
(*   "leaving" (outcome recorded) -> "ended".                              *)
(* pc, the caller: "loop" -> "acquire" -> "loop" ... -> "wait" ->          *)
(*   "collect" -> "committed", or "failed".                                *)
(***************************************************************************)
EXTENDS Naturals, FiniteSets

CONSTANTS N, Limits

ASSUME FanOutAssumption == N \in Nat /\ Limits \subseteq Nat \ {0}

Iterations == 1..N

(* collect: whether the control evaluates a collect expression.            *)
Policies == [limit : Limits, failFast : BOOLEAN, timeout : BOOLEAN, collect : BOOLEAN]

VARIABLES policy, pc,
          next,        \* the iteration the loop admits next
          it, outcome,
          cancelled,   \* the errgroup's context, with failFast
          deadline,    \* the control's own timeout
          parentDone,  \* the surrounding context
          verdict, reported

contexts == <<cancelled, deadline, parentDone>>

fanOut == <<policy, pc, next, it, outcome, contexts, verdict, reported>>

FanOutInit ==
  /\ policy \in Policies
  /\ pc = "loop" /\ next = 1
  /\ it = [i \in Iterations |-> "queued"]
  /\ outcome = [i \in Iterations |-> "none"]
  /\ cancelled = FALSE /\ deadline = FALSE /\ parentDone = FALSE
  /\ verdict = "none" /\ reported = {}

RunDone == cancelled \/ deadline \/ parentDone

Active == {i \in Iterations : it[i] \in {"admitted", "entering", "body", "leaving"}}

Move(i, label) == it' = [it EXCEPT ![i] = label]

-----------------------------------------------------------------------------
(* The admission loop: a look at the context, then a wait for a slot that  *)
(* no cancellation interrupts.                                             *)
(* Mutant: one index past the last is admitted.                            *)
MoreToAdmitPastEnd == next <= N + 1

MoreToAdmit == next <= N

LoopContinues ==
  /\ pc = "loop" /\ MoreToAdmit /\ ~RunDone
  /\ pc' = "acquire"
  /\ UNCHANGED <<policy, next, it, outcome, contexts, verdict, reported>>

AdmissionEnds ==
  /\ pc = "loop" /\ (~MoreToAdmit \/ RunDone)
  /\ pc' = "wait"
  /\ UNCHANGED <<policy, next, it, outcome, contexts, verdict, reported>>

(* Mutant: a slot is free while the limit is not exceeded.                 *)
SlotFreeAtLimit == Cardinality(Active) <= policy.limit

SlotFree == Cardinality(Active) < policy.limit

Admit ==
  /\ pc = "acquire" /\ SlotFree
  /\ Move(next, "admitted")
  /\ next' = next + 1
  /\ pc' = "loop"
  /\ UNCHANGED <<policy, outcome, contexts, verdict, reported>>

-----------------------------------------------------------------------------
(* The goroutine of iteration i.  FanOut and runOne each look at the       *)
(* context with nothing between, then the outcome is marked started.       *)
(* Mutant: an iteration that finds the context done keeps its slot.        *)
EnterKeepsSlot(i) ==
  /\ it[i] = "admitted"
  /\ ~RunDone
  /\ Move(i, "entering")
  /\ UNCHANGED <<policy, pc, next, outcome, contexts, verdict, reported>>

Enter(i) ==
  /\ it[i] = "admitted"
  /\ Move(i, IF RunDone THEN "ended" ELSE "entering")
  /\ UNCHANGED <<policy, pc, next, outcome, contexts, verdict, reported>>

Start(i) ==
  /\ it[i] = "entering"
  /\ Move(i, "body")
  /\ UNCHANGED <<policy, pc, next, outcome, contexts, verdict, reported>>

(* A panic is an error of the iteration.  A body may report a cancellation *)
(* of its own.                                                             *)
Finish(i, how) ==
  /\ it[i] = "body"
  /\ Move(i, "leaving")
  /\ outcome' = [outcome EXCEPT ![i] = how]
  /\ UNCHANGED <<policy, pc, next, contexts, verdict, reported>>

(* Mutant: an error cancels the siblings whatever the policy says.         *)
CancelsAlways(i) == outcome[i] # "ok"

CancelsSiblings(i) == policy.failFast /\ outcome[i] # "ok"

Leave(i) ==
  /\ it[i] = "leaving"
  /\ Move(i, "ended")
  /\ cancelled' = (cancelled \/ CancelsSiblings(i))
  /\ UNCHANGED <<policy, pc, next, outcome, deadline, parentDone, verdict, reported>>

-----------------------------------------------------------------------------
AllSucceeded == \A i \in Iterations : outcome[i] = "ok"

TimedOut == deadline /\ ~AllSucceeded

Failed == {i \in Iterations : outcome[i] \in {"error", "canceled"}}

(* Mutant: with failFast a cancelled iteration is never an error.          *)
ReportedFailFast ==
  IF policy.failFast THEN {i \in Failed : outcome[i] # "canceled"} ELSE Failed

(* Mutant: the iterations that failFast cancelled are named as well.       *)
ReportedAll == Failed

(* With failFast cancelled siblings are left out, unless nothing else      *)
(* failed.                                                                 *)
Reported ==
  LET own == {i \in Failed : ~(policy.failFast /\ outcome[i] = "canceled")}
  IN  IF own = {} THEN Failed ELSE own

Evaluate ==
  /\ pc = "wait" /\ Active = {}
  /\ IF parentDone THEN verdict' = "canceled" /\ reported' = {}
     ELSE IF TimedOut THEN verdict' = "timedOut" /\ reported' = {}
     ELSE verdict' = (IF Reported = {} THEN "ok" ELSE "failed") /\ reported' = Reported
  /\ pc' = IF verdict' = "ok" THEN "collect" ELSE "failed"
  /\ UNCHANGED <<policy, next, it, outcome, contexts>>

(* A collect expression is evaluated over every iteration's state; the     *)
(* context is looked at before and after each, and any may fail itself.    *)
CollectResults ==
  /\ pc = "collect"
  /\ \E ok \in BOOLEAN :
       /\ ~policy.collect => ok
       /\ policy.collect /\ parentDone /\ N > 0 => ~ok
       /\ pc' = IF ok THEN "committed" ELSE "failed"
  /\ UNCHANGED <<policy, next, it, outcome, contexts, verdict, reported>>

(* The timeout belongs to the context around the errgroup's, so it may     *)
(* still fire when failFast has cancelled the iterations.                  *)
DeadlineFires ==
  /\ policy.timeout /\ ~deadline /\ ~parentDone /\ verdict = "none"
  /\ deadline' = TRUE
  /\ UNCHANGED <<policy, pc, next, it, outcome, cancelled, parentDone, verdict, reported>>

ParentEnds ==
  /\ ~parentDone /\ pc \notin {"committed", "failed"}
  /\ parentDone' = TRUE
  /\ UNCHANGED <<policy, pc, next, it, outcome, cancelled, deadline, verdict, reported>>

Over == pc \in {"committed", "failed"}

Terminated == Over /\ UNCHANGED fanOut

Caller == LoopContinues \/ AdmissionEnds \/ Admit \/ Evaluate \/ CollectResults

Goroutine(i) ==
  \/ Enter(i) \/ Start(i) \/ Leave(i)
  \/ \E how \in {"ok", "error", "canceled"} : Finish(i, how)

FanOutNext ==
  \/ Caller
  \/ \E i \in Iterations : Goroutine(i)
  \/ DeadlineFires \/ ParentEnds
  \/ Terminated

FanOutSpec == FanOutInit /\ [][FanOutNext]_fanOut

(* The caller and the goroutines run; bodies end by themselves or by their *)
(* context.                                                                *)
FairFanOut == FanOutSpec /\ WF_fanOut(Caller) /\ \A i \in Iterations : WF_fanOut(Goroutine(i))

-----------------------------------------------------------------------------
FanOutTypeOK ==
  /\ policy \in Policies
  /\ pc \in {"loop", "acquire", "wait", "collect", "committed", "failed"}
  /\ next \in 1..(N + 1)
  /\ it \in [Iterations -> {"queued", "admitted", "entering", "body", "leaving", "ended"}]
  /\ outcome \in [Iterations -> {"none", "ok", "error", "canceled"}]
  /\ {cancelled, deadline, parentDone} \subseteq BOOLEAN
  /\ verdict \in {"none", "ok", "failed", "timedOut", "canceled"}
  /\ reported \subseteq Iterations

(* max_concurrency bounds the bodies that run at a time (fanout.go:32).    *)
Bounded == Cardinality({i \in Iterations : it[i] = "body"}) <= policy.limit

(* Run returns no error only when every iteration ran and succeeded: the   *)
(* caller reads the state of each of them (engine/control.go:204).  And a  *)
(* timeout that fires after the last success changes nothing.              *)
FanOutHonest ==
  /\ verdict = "ok" => AllSucceeded
  /\ verdict = "timedOut" => ~AllSucceeded

(* A failure that is no cancellation is named, unless the context or the   *)
(* timeout speak for the whole control, and then the cancelled siblings of *)
(* failFast are not.                                                       *)
FailuresNamed ==
  verdict = "failed" =>
    /\ reported # {}
    /\ \A i \in Iterations : outcome[i] = "error" => i \in reported
    /\ policy.failFast /\ (\E i \in Iterations : outcome[i] = "error")
         => \A i \in reported : outcome[i] = "error"

(* Without failFast the failure of one keeps nobody from running.          *)
RunsEverything ==
  pc \notin {"loop", "acquire"} /\ ~policy.failFast /\ ~deadline /\ ~parentDone
    => \A i \in Iterations : it[i] # "queued"

(* The safety of a fan-out: types, the bound, an honest outcome, failures  *)
(* named by their causes, everything admitted.                             *)
FanOutSafety == FanOutTypeOK /\ Bounded /\ FanOutHonest /\ FailuresNamed /\ RunsEverything

(* What the loop and the goroutines know of each other.                    *)
Bookkeeping ==
  /\ \A i \in Iterations :
       /\ it[i] = "queued" <=> i >= next
       /\ it[i] \in {"queued", "admitted", "entering", "body"} => outcome[i] = "none"
       /\ it[i] = "leaving" => outcome[i] # "none"
       /\ it[i] = "ended" /\ outcome[i] = "none" => RunDone
  /\ pc = "acquire" => next <= N
  /\ pc \notin {"loop", "acquire"} => next > N \/ RunDone
  /\ cancelled => policy.failFast /\ Failed # {}

(* The errgroup's semaphore: an iteration holds its slot until it is over. *)
SlotsHeld == Cardinality(Active) <= policy.limit

(* The result is made once, when nothing runs any more.                    *)
Concluded ==
  /\ pc \in {"loop", "acquire", "wait"} <=> verdict = "none"
  /\ verdict # "none" => Active = {}
  /\ pc \in {"collect", "committed"} => verdict = "ok"

(* The inductive invariant of the proofs: an iteration that is over        *)
(* without an outcome, or never admitted, is owed to a context that is     *)
(* done, and a cancelled errgroup to a failure (fanout.go:34, 38).         *)
FanOutInv ==
  /\ FanOutTypeOK /\ Bookkeeping /\ SlotsHeld /\ Concluded
  /\ FanOutHonest /\ FailuresNamed

(* The control returns as long as its bodies do, cancelled admissions and  *)
(* full slots included.                                                    *)
FanOutReturns == <>Over
=============================================================================
