--------------------------- MODULE BackgroundProofs ---------------------------
(***************************************************************************)
(* The safety of what runs in the background of a scope: of the scope that *)
(* owns its services, and of an observer among them, for any services,     *)
(* policies and observers.                                                 *)
(*                                                                         *)
(* ScopeInv is inductive: no service is accepted once the scope is joined, *)
(* so what Join found stays; a startup that was aborted either was         *)
(* abandoned by its step or had its context cancelled.                     *)
(*                                                                         *)
(* ObserverInv is inductive: a polling source hands its versions over in   *)
(* order through the pump and the channel, so what the scheduler accepts   *)
(* last is the newest; a version that was accepted and no body has had is  *)
(* in the batch that is queued or in the one that waits for its debounce.  *)
(***************************************************************************)
EXTENDS ServiceScope, ObserveScheduler, TLAPS

USE ScopeAssumption

(* A scope begins with nothing to join and nothing decided.                *)
LEMMA InitScopeInv == Init => ScopeInv
  BY DEF Init, ScopeInv, TypeOK, Settled, SuccessIsEarned, Handshake, SealedOnce,
         Over, Failures, Failed, JobCancelled, Cancelled, InCall, Options

(* Every step of a scope, its services and its steps keeps ScopeInv.       *)
LEMMA NextScopeInv == ScopeInv /\ [Next]_vars => ScopeInv'
<1> SUFFICES ASSUME ScopeInv, [Next]_vars PROVE ScopeInv'
  OBVIOUS
<1> USE DEF ScopeInv, Settled, SuccessIsEarned, Handshake, SealedOnce, Over, Failures, Failed,
            JobCancelled, Cancelled, MoveStep, MoveJob, handshake, jobs, owner
<1>1. ASSUME NEW s \in Services, BeginStep(s) PROVE ScopeInv'
  BY <1>1 DEF BeginStep, TypeOK, InCall
<1>2. ASSUME NEW s \in Services, StartService(s) PROVE ScopeInv'
  BY <1>2 DEF StartService, Accepts, TypeOK, InCall
<1>3. ASSUME NEW s \in Services, HearsReady(s) PROVE ScopeInv'
  BY <1>3 DEF HearsReady, TypeOK, InCall
<1>4. ASSUME NEW s \in Services, Commits(s) PROVE ScopeInv'
  BY <1>4 DEF Commits, TypeOK, InCall
<1>5. ASSUME NEW s \in Services, HearsFailure(s) PROVE ScopeInv'
  BY <1>5 DEF HearsFailure, TypeOK, InCall
<1>6. ASSUME NEW s \in Services, GivesUp(s) PROVE ScopeInv'
  BY <1>6 DEF GivesUp, StepCancelled, TypeOK, InCall
<1>7. ASSUME NEW s \in Services, StepExpires(s) PROVE ScopeInv'
  BY <1>7 DEF StepExpires, TypeOK, InCall
<1>8. ASSUME NEW s \in Services, BecomesReady(s) PROVE ScopeInv'
  BY <1>8 DEF BecomesReady, TypeOK, InCall
<1>9. ASSUME NEW s \in Services, StartFails(s) PROVE ScopeInv'
  BY <1>9 DEF StartFails, Returns, TypeOK, InCall
<1>10. ASSUME NEW s \in Services, OfferTaken(s) PROVE ScopeInv'
  BY <1>10 DEF OfferTaken, TypeOK, InCall
<1>11. ASSUME NEW s \in Services, OfferWithdrawn(s) PROVE ScopeInv'
  BY <1>11 DEF OfferWithdrawn, TypeOK, InCall
<1>12. ASSUME NEW s \in Services, Aborts(s) PROVE ScopeInv'
  BY <1>12 DEF Aborts, Returns, TypeOK, InCall
<1>13. ASSUME NEW s \in Services, Reacts(s) PROVE ScopeInv'
  BY <1>13 DEF Reacts, EnterStopping, FailsFast, EndsScope, TypeOK, InCall
<1>14. ASSUME NEW s \in Services, StopsScope(s) PROVE ScopeInv'
  BY <1>14 DEF StopsScope, CancelScope, TypeOK, InCall
<1>15. ASSUME NEW s \in Services, NEW how \in {"ok", "failed", "canceled", "shutdownFailed"},
              ServiceEnds(s, how)
       PROVE ScopeInv'
  BY <1>15 DEF ServiceEnds, Returns, TypeOK, InCall
<1>16. ASSUME BodyRuns PROVE ScopeInv'
  BY <1>16 DEF BodyRuns, BodyReturns, TypeOK, InCall
<1>17. ASSUME Seal PROVE ScopeInv'
  BY <1>17 DEF Seal, TypeOK, InCall
<1>18. ASSUME Stop PROVE ScopeInv'
  BY <1>18 DEF Stop, EnterStopping, CancelScope, TypeOK, InCall
<1>19. ASSUME Join PROVE ScopeInv'
  BY <1>19 DEF Join, Result, Foreground, Background, TypeOK, InCall
<1>20. ASSUME NEW failed \in BOOLEAN, CleanupReturns(failed) PROVE ScopeInv'
  BY <1>20 DEF CleanupReturns, TypeOK, InCall
<1>21. ASSUME NEW c \in ParentCauses, ParentEnds(c) PROVE ScopeInv'
  BY <1>21 DEF ParentEnds, CancelScope, TypeOK, InCall
<1>22. ASSUME UNCHANGED vars PROVE ScopeInv'
  BY <1>22 DEF vars, TypeOK, InCall
<1> HIDE DEF ScopeInv
<1> QED
  BY <1>1, <1>2, <1>3, <1>4, <1>5, <1>6, <1>7, <1>8, <1>9, <1>10, <1>11, <1>12, <1>13, <1>14,
     <1>15, <1>16, <1>17, <1>18, <1>19, <1>20, <1>21, <1>22
     DEF Next, StepRuns, JobRuns, ServiceRuns, Owns, Terminated

(* ScopeInv holds in every reachable state, for any services and policies. *)
THEOREM Invariance == Spec => []ScopeInv
  BY InitScopeInv, NextScopeInv, PTL DEF Spec

(* Every reachable state is typed.                                         *)
THEOREM TypeCorrect == Spec => []TypeOK
<1>1. ScopeInv => TypeOK
  BY DEF ScopeInv
<1> QED BY <1>1, Invariance, PTL

(* Deferred steps and finally never run beside a service of their scope    *)
(* (engine.go:335-347): nothing is left to join, nothing is accepted.      *)
THEOREM CleanupAlone == Spec => []JoinedBeforeCleanup
<1>1. ScopeInv => JoinedBeforeCleanup
  BY DEF ScopeInv, Settled, Over, JoinedBeforeCleanup
<1> QED BY <1>1, Invariance, PTL

(* wait and joinBackgroundError lose no failure of a service.              *)
THEOREM NoFailureLost == Spec => []FailuresReported
<1>1. ScopeInv => FailuresReported
  BY DEF ScopeInv, Settled, Over, FailuresReported, Failures
<1> QED BY <1>1, Invariance, PTL

(* A success is never a cancellation or a failure in disguise.             *)
THEOREM SuccessEarned == Spec => []SuccessIsEarned
<1>1. ScopeInv => SuccessIsEarned
  BY DEF ScopeInv
<1> QED BY <1>1, Invariance, PTL

(* The two sides of the startup handshake agree (process.go:347-385).      *)
THEOREM HandshakeAgrees == Spec => []AbortedIsNotReady
<1>1. ScopeInv => AbortedIsNotReady
  BY DEF ScopeInv, Handshake, AbortedIsNotReady, JobCancelled
<1> QED BY <1>1, Invariance, PTL

(* What no step may do, proved action by action: only Reacts takes a       *)
(* service's end for an exit, only Join decides the result.                *)
LEMMA StepsKeepPromises ==
  ASSUME TypeOK, [Next]_vars
  PROVE  /\ \A s \in Services :
              job[s] = "returned" /\ job'[s] = "stopping" /\ outcome[s] = "ok" => ~JobCancelled(s)
         /\ pc = "join" /\ pc' = "cleanup" /\ cause = "canceled" => result' # "succeeded"
<1> USE DEF TypeOK, MoveStep, MoveJob, handshake, jobs, owner
<1>1. ASSUME NEW t \in Services, BeginStep(t) \/ StepRuns(t) \/ StepExpires(t)
      PROVE  UNCHANGED pc /\ \A s \in Services : job'[s] # "stopping" \/ job'[s] = job[s]
  BY <1>1 DEF BeginStep, StepRuns, StartService, HearsReady, Commits, HearsFailure, GivesUp, StepExpires
<1>2. ASSUME NEW t \in Services,
             \/ BecomesReady(t) \/ StartFails(t) \/ OfferTaken(t) \/ OfferWithdrawn(t) \/ Aborts(t)
             \/ StopsScope(t) \/ ServiceRuns(t)
      PROVE  UNCHANGED pc /\ \A s \in Services : job'[s] # "stopping" \/ job'[s] = job[s]
  BY <1>2 DEF BecomesReady, StartFails, OfferTaken, OfferWithdrawn, Aborts, StopsScope, ServiceRuns,
              ServiceEnds, Returns
<1>3. ASSUME NEW t \in Services, Reacts(t)
      PROVE  /\ UNCHANGED pc
             /\ \A s \in Services :
                  job'[s] = "stopping" /\ outcome[s] = "ok" => job'[s] = job[s] \/ ~JobCancelled(s)
  BY <1>3 DEF Reacts, FailsFast, EndsScope, Failed
<1>4. ASSUME BodyRuns \/ Seal \/ Stop \/ \E failed \in BOOLEAN : CleanupReturns(failed)
      PROVE  UNCHANGED job /\ ~(pc = "join" /\ pc' = "cleanup")
  BY <1>4 DEF BodyRuns, BodyReturns, Seal, Stop, CleanupReturns
<1>5. ASSUME Join
      PROVE  UNCHANGED job /\ (cause = "canceled" => result' # "succeeded")
  BY <1>5 DEF Join, Result, Foreground, Background
<1>6. ASSUME NEW c \in ParentCauses, ParentEnds(c)
      PROVE  UNCHANGED <<pc, job>>
  BY <1>6 DEF ParentEnds
<1>7. ASSUME UNCHANGED vars
      PROVE  UNCHANGED <<pc, job>>
  BY <1>7 DEF vars
<1> QED
  BY <1>1, <1>2, <1>3, <1>4, <1>5, <1>6, <1>7 DEF Next, JobRuns, Owns, Terminated

(* A service the lifecycle shut down never ends its scope.                 *)
THEOREM ExitsEnd == Spec => OnlyExitsEnd
<1>1. TypeOK /\ [Next]_vars => [\A s \in Services :
        job[s] = "returned" /\ job'[s] = "stopping" /\ outcome[s] = "ok" => ~JobCancelled(s)]_vars
  BY StepsKeepPromises
<1> QED BY <1>1, TypeCorrect, PTL DEF Spec, OnlyExitsEnd

(* A cancelled scope is never joined as a success.                         *)
THEOREM CancellationSeen == Spec => CancellationShows
<1>1. TypeOK /\ [Next]_vars
        => [pc = "join" /\ pc' = "cleanup" /\ cause = "canceled" => result' # "succeeded"]_vars
  BY StepsKeepPromises
<1> QED BY <1>1, TypeCorrect, PTL DEF Spec, CancellationShows

(* All of a scope's safety, for any services and policies.                 *)
THEOREM SafeAlways == Spec => []Safety
  BY TypeCorrect, CleanupAlone, NoFailureLost, SuccessEarned, HandshakeAgrees, PTL DEF Safety
HIDE ScopeAssumption

-----------------------------------------------------------------------------
(* Where the observer is in its life: before it has opened nothing runs.   *)
Unopened == stage = "open" => body = "none" /\ pump = "none"

(* A batch is due only if there is one.                                    *)
DueInv == pending = {} <=> timer = "off"

(* Versions come out of a polling source in order: what is held, what is   *)
(* in the channel, what was accepted.                                      *)
Ordered ==
  /\ held.kind = "event" => held.version <= baseline
  /\ channel.kind = "event" => channel.version <= baseline
  /\ held.kind = "event" /\ channel.kind = "event" => channel.version <= held.version
  /\ \A v \in accepted :
       /\ v <= baseline
       /\ held.kind = "event" => v <= held.version
       /\ channel.kind = "event" => v <= channel.version

(* What was kept is with a body or waits for one: every version of a       *)
(* pushing source; of a polling one the newest.                            *)
Newest(given) == \A v \in accepted : \A w \in given : v <= w

KeptInv ==
  /\ conf.keep = "all" => accepted \subseteq handled \cup queued \cup pending
  /\ conf.keep = "latest" =>
       /\ Newest(pending)
       /\ pending = {} => Newest(queued)
       /\ pending = {} /\ queued = {} => \A v \in accepted : \E w \in handled : v <= w

ObserverInv == ObserverTypeOK /\ IterationsPaired /\ Unopened /\ DueInv /\ Ordered /\ KeptInv

(* The types of what is given to bodies, and of the rest.                  *)
BatchTypes ==
  /\ pending \subseteq 0..MaxVersions /\ queued \subseteq 0..MaxVersions
  /\ batch \subseteq 0..MaxVersions
  /\ accepted \subseteq 0..MaxVersions /\ handled \subseteq 0..MaxVersions

CountTypes ==
  /\ world \in 0..MaxVersions /\ baseline \in 0..world /\ churn \in 0..FailureWindow
  /\ open \in 0..1 /\ held \in Observations /\ channel \in Observations

LabelTypes ==
  /\ conf \in Configs /\ ctx \in BOOLEAN /\ stopped \in BOOLEAN
  /\ cancelled \in BOOLEAN /\ resources \in BOOLEAN
  /\ pump \in {"none", "next", "send", "pace", "done"}
  /\ stage \in {"open", "loop", "stopping", "joining", "returned", "closed"}
  /\ runError \in {"none", "failed", "canceled"}
  /\ timer \in {"off", "set", "fired"}
  /\ body \in {"none", "running", "cleaning", "finished"}

(* An observer begins with no iteration and nothing observed.              *)
LEMMA InitObserverInv == ObserverInit => ObserverInv
<1> SUFFICES ASSUME ObserverInit PROVE ObserverInv
  OBVIOUS
<1>0. MaxVersions \in Nat /\ FailureWindow \in Nat
  BY ObserveAssumption
<1>1. Nothing \in Observations
  BY <1>0 DEF Nothing, Observations
<1>2. BatchTypes /\ LabelTypes
  BY DEF ObserverInit, BatchTypes, LabelTypes
<1>3. CountTypes
  BY <1>0, <1>1 DEF ObserverInit, CountTypes
<1>4. ObserverTypeOK
  BY <1>2, <1>3 DEF BatchTypes, CountTypes, LabelTypes, ObserverTypeOK
<1>5. IterationsPaired /\ Unopened /\ DueInv /\ Ordered /\ KeptInv
  BY DEF ObserverInit, IterationsPaired, Unopened, DueInv, Ordered, KeptInv, Newest, Nothing
<1> QED BY <1>4, <1>5 DEF ObserverInv

(* Every step of the pump, the scheduler loop and the body keeps           *)
(* ObserverInv.                                                            *)
LEMMA NextObserverInv == ObserverInv /\ [ObserverNext]_observer => ObserverInv'
<1> SUFFICES ASSUME ObserverInv, [ObserverNext]_observer PROVE ObserverInv'
  OBVIOUS
<1>0. MaxVersions \in Nat /\ FailureWindow \in Nat
  BY ObserveAssumption
<1> USE <1>0
    DEF ObserverInv, environment, source, loop, batches, iteration, history
<1>1. CASE Observes
  <2>1. ObserverTypeOK'
    BY <1>1 DEF ObserverTypeOK, IterationsPaired, Unopened, Observations, Observes, Hold, Event
  <2>2. IterationsPaired' /\ Unopened'
    BY <1>1 DEF ObserverTypeOK, IterationsPaired, Unopened, Observes, Hold, Event
  <2>3. DueInv'
    BY <1>1 DEF ObserverTypeOK, DueInv, Observes, Hold, Event
  <2>4. Ordered'
    BY <1>1 DEF ObserverTypeOK, Observations, Ordered, Observes, Hold, Event
  <2>5. KeptInv'
    BY <1>1 DEF ObserverTypeOK, DueInv, Ordered, KeptInv, Newest, Observes, Hold, Event
  <2> QED BY <2>1, <2>2, <2>3, <2>4, <2>5
<1>2. ASSUME NEW instant \in BOOLEAN, Fails(instant) PROVE ObserverInv'
  <2>1. ObserverTypeOK'
    BY <1>2 DEF ObserverTypeOK, IterationsPaired, Unopened, Observations, Fails, Hold, Failure, Churn
  <2>2. IterationsPaired' /\ Unopened'
    BY <1>2 DEF ObserverTypeOK, IterationsPaired, Unopened, Fails, Hold, Failure, Churn
  <2>3. DueInv'
    BY <1>2 DEF ObserverTypeOK, DueInv, Fails, Hold, Failure, Churn
  <2>4. Ordered'
    BY <1>2 DEF ObserverTypeOK, Observations, Ordered, Fails, Hold, Failure, Churn
  <2>5. KeptInv'
    BY <1>2 DEF ObserverTypeOK, DueInv, Ordered, KeptInv, Newest, Fails, Hold, Failure, Churn
  <2> QED BY <2>1, <2>2, <2>3, <2>4, <2>5
<1>3. CASE SourcePanics
  <2>1. ObserverTypeOK'
    BY <1>3 DEF ObserverTypeOK, IterationsPaired, Unopened, Observations, SourcePanics, Hold, Failure
  <2>2. IterationsPaired' /\ Unopened'
    BY <1>3 DEF ObserverTypeOK, IterationsPaired, Unopened, SourcePanics, Hold, Failure
  <2>3. DueInv'
    BY <1>3 DEF ObserverTypeOK, DueInv, SourcePanics, Hold, Failure
  <2>4. Ordered'
    BY <1>3 DEF ObserverTypeOK, Observations, Ordered, SourcePanics, Hold, Failure
  <2>5. KeptInv'
    BY <1>3 DEF ObserverTypeOK, DueInv, Ordered, KeptInv, Newest, SourcePanics, Hold, Failure
  <2> QED BY <2>1, <2>2, <2>3, <2>4, <2>5
<1>4. CASE Send
  <2>1. ObserverTypeOK'
    BY <1>4 DEF ObserverTypeOK, IterationsPaired, Unopened, Observations, Send, Nothing
  <2>2. IterationsPaired' /\ Unopened'
    BY <1>4 DEF ObserverTypeOK, IterationsPaired, Unopened, Send, Nothing
  <2>3. DueInv'
    BY <1>4 DEF ObserverTypeOK, DueInv, Send, Nothing
  <2>4. Ordered'
    BY <1>4 DEF ObserverTypeOK, Observations, Ordered, Send, Nothing
  <2>5. KeptInv'
    BY <1>4 DEF ObserverTypeOK, DueInv, Ordered, KeptInv, Newest, Send, Nothing
  <2> QED BY <2>1, <2>2, <2>3, <2>4, <2>5
<1>5. CASE PumpStops
  <2>1. ObserverTypeOK'
    BY <1>5 DEF ObserverTypeOK, IterationsPaired, Unopened, Observations, PumpStops, Nothing
  <2>2. IterationsPaired' /\ Unopened'
    BY <1>5 DEF ObserverTypeOK, IterationsPaired, Unopened, PumpStops, Nothing
  <2>3. DueInv'
    BY <1>5 DEF ObserverTypeOK, DueInv, PumpStops, Nothing
  <2>4. Ordered'
    BY <1>5 DEF ObserverTypeOK, Observations, Ordered, PumpStops, Nothing
  <2>5. KeptInv'
    BY <1>5 DEF ObserverTypeOK, DueInv, Ordered, KeptInv, Newest, PumpStops, Nothing
  <2> QED BY <2>1, <2>2, <2>3, <2>4, <2>5
<1>6. CASE Paced
  <2>1. ObserverTypeOK'
    BY <1>6 DEF ObserverTypeOK, IterationsPaired, Unopened, Observations, Paced
  <2>2. IterationsPaired' /\ Unopened'
    BY <1>6 DEF ObserverTypeOK, IterationsPaired, Unopened, Paced
  <2>3. DueInv'
    BY <1>6 DEF ObserverTypeOK, DueInv, Paced
  <2>4. Ordered'
    BY <1>6 DEF ObserverTypeOK, Observations, Ordered, Paced
  <2>5. KeptInv'
    BY <1>6 DEF ObserverTypeOK, DueInv, Ordered, KeptInv, Newest, Paced
  <2> QED BY <2>1, <2>2, <2>3, <2>4, <2>5
<1>7. CASE Acquire
  <2>1. ObserverTypeOK'
    BY <1>7 DEF ObserverTypeOK, IterationsPaired, Unopened, Observations, Acquire
  <2>2. IterationsPaired' /\ Unopened'
    BY <1>7 DEF ObserverTypeOK, IterationsPaired, Unopened, Acquire
  <2>3. DueInv'
    BY <1>7 DEF ObserverTypeOK, DueInv, Acquire
  <2>4. Ordered'
    BY <1>7 DEF ObserverTypeOK, Observations, Ordered, Acquire
  <2>5. KeptInv'
    BY <1>7 DEF ObserverTypeOK, DueInv, Ordered, KeptInv, Newest, Acquire
  <2> QED BY <2>1, <2>2, <2>3, <2>4, <2>5
<1>8. CASE Iterating
  <2>1. ObserverTypeOK'
    <3>1. BatchTypes'
      BY <1>8 DEF ObserverTypeOK, BatchTypes, Iterating, BodyEnds, CleansUp
    <3>2. CountTypes'
      BY <1>8 DEF ObserverTypeOK, CountTypes, IterationsPaired, Unopened, Iterating, BodyEnds, CleansUp
    <3>3. LabelTypes'
      BY <1>8 DEF ObserverTypeOK, LabelTypes, Iterating, BodyEnds, CleansUp
    <3> QED BY <3>1, <3>2, <3>3 DEF BatchTypes, CountTypes, LabelTypes, ObserverTypeOK
  <2>2. IterationsPaired' /\ Unopened'
    BY <1>8 DEF ObserverTypeOK, IterationsPaired, Unopened, Iterating, BodyEnds, CleansUp
  <2>3. DueInv'
    BY <1>8 DEF ObserverTypeOK, DueInv, Iterating, BodyEnds, CleansUp
  <2>4. Ordered'
    BY <1>8 DEF ObserverTypeOK, Ordered, Iterating, BodyEnds, CleansUp
  <2>5. KeptInv'
    BY <1>8 DEF ObserverTypeOK, DueInv, Ordered, KeptInv, Newest, Iterating, BodyEnds, CleansUp
  <2> QED BY <2>1, <2>2, <2>3, <2>4, <2>5
<1>9. CASE Opens
  <2>1. ObserverTypeOK'
    <3>1. BatchTypes'
      BY <1>9 DEF ObserverTypeOK, BatchTypes, Opens, StartBody
    <3>2. CountTypes'
      BY <1>9 DEF ObserverTypeOK, CountTypes, IterationsPaired, Unopened, Opens, StartBody
    <3>3. LabelTypes'
      BY <1>9 DEF ObserverTypeOK, LabelTypes, Opens, StartBody
    <3> QED BY <3>1, <3>2, <3>3 DEF BatchTypes, CountTypes, LabelTypes, ObserverTypeOK
  <2>2. IterationsPaired' /\ Unopened'
    BY <1>9 DEF ObserverTypeOK, IterationsPaired, Unopened, Opens, StartBody
  <2>3. DueInv'
    BY <1>9 DEF ObserverTypeOK, DueInv, Opens, StartBody
  <2>4. Ordered'
    BY <1>9 DEF ObserverTypeOK, Ordered, Opens, StartBody
  <2>5. KeptInv'
    BY <1>9 DEF ObserverTypeOK, DueInv, Ordered, KeptInv, Newest, Opens, StartBody
  <2> QED BY <2>1, <2>2, <2>3, <2>4, <2>5
<1>10. CASE InitialPanics
  <2>1. ObserverTypeOK'
    BY <1>10 DEF ObserverTypeOK, IterationsPaired, Unopened, Observations, InitialPanics
  <2>2. IterationsPaired' /\ Unopened'
    BY <1>10 DEF ObserverTypeOK, IterationsPaired, Unopened, InitialPanics
  <2>3. DueInv'
    BY <1>10 DEF ObserverTypeOK, DueInv, InitialPanics
  <2>4. Ordered'
    BY <1>10 DEF ObserverTypeOK, Observations, Ordered, InitialPanics
  <2>5. KeptInv'
    BY <1>10 DEF ObserverTypeOK, DueInv, Ordered, KeptInv, Newest, InitialPanics
  <2> QED BY <2>1, <2>2, <2>3, <2>4, <2>5
<1>11. CASE ContextDone
  <2>1. ObserverTypeOK'
    BY <1>11 DEF ObserverTypeOK, IterationsPaired, Unopened, Observations, ContextDone, Leave
  <2>2. IterationsPaired' /\ Unopened'
    BY <1>11 DEF ObserverTypeOK, IterationsPaired, Unopened, ContextDone, Leave
  <2>3. DueInv'
    BY <1>11 DEF ObserverTypeOK, DueInv, ContextDone, Leave
  <2>4. Ordered'
    BY <1>11 DEF ObserverTypeOK, Observations, Ordered, ContextDone, Leave
  <2>5. KeptInv'
    BY <1>11 DEF ObserverTypeOK, DueInv, Ordered, KeptInv, Newest, ContextDone, Leave
  <2> QED BY <2>1, <2>2, <2>3, <2>4, <2>5
<1>12. CASE SourceFails
  <2>1. ObserverTypeOK'
    <3>1. BatchTypes'
      BY <1>12 DEF ObserverTypeOK, BatchTypes, SourceFails, Receives, Nothing, Leave
    <3>2. CountTypes'
      BY <1>12 DEF ObserverTypeOK, CountTypes, IterationsPaired, Unopened, Observations, SourceFails, Receives, Nothing, Leave
    <3>3. LabelTypes'
      <4>1. CASE UNCHANGED <<loop, iteration, history>>
        BY <1>12, <4>1 DEF ObserverTypeOK, LabelTypes, SourceFails, Receives
      <4>2. CASE Leave("failed")
        BY <1>12, <4>2 DEF ObserverTypeOK, LabelTypes, SourceFails, Receives, Leave
      <4> QED BY <1>12, <4>1, <4>2 DEF SourceFails
    <3> QED BY <3>1, <3>2, <3>3 DEF BatchTypes, CountTypes, LabelTypes, ObserverTypeOK
  <2>2. IterationsPaired' /\ Unopened'
    BY <1>12 DEF ObserverTypeOK, IterationsPaired, Unopened, SourceFails, Receives, Nothing, Leave
  <2>3. DueInv'
    BY <1>12 DEF ObserverTypeOK, DueInv, SourceFails, Receives, Nothing, Leave
  <2>4. Ordered'
    BY <1>12 DEF ObserverTypeOK, Observations, Ordered, SourceFails, Receives, Nothing, Leave
  <2>5. KeptInv'
    BY <1>12 DEF ObserverTypeOK, DueInv, Ordered, KeptInv, Newest, SourceFails, Receives, Nothing, Leave
  <2> QED BY <2>1, <2>2, <2>3, <2>4, <2>5
<1>13. CASE Skips
  <2>1. ObserverTypeOK'
    BY <1>13 DEF ObserverTypeOK, IterationsPaired, Unopened, Observations, Skips, Receives, Nothing
  <2>2. IterationsPaired' /\ Unopened'
    BY <1>13 DEF ObserverTypeOK, IterationsPaired, Unopened, Skips, Receives, Nothing
  <2>3. DueInv'
    BY <1>13 DEF ObserverTypeOK, DueInv, Skips, Receives, Nothing
  <2>4. Ordered'
    BY <1>13 DEF ObserverTypeOK, Observations, Ordered, Skips, Receives, Nothing
  <2>5. KeptInv'
    BY <1>13 DEF ObserverTypeOK, DueInv, Ordered, KeptInv, Newest, Skips, Receives, Nothing
  <2> QED BY <2>1, <2>2, <2>3, <2>4, <2>5
<1>14. CASE KeepsObservation
  <2>1. ObserverTypeOK'
    <3>1. BatchTypes'
      BY <1>14 DEF ObserverTypeOK, BatchTypes, Observations, KeepsObservation, Receives, Nothing, Merge
    <3>2. CountTypes'
      BY <1>14 DEF ObserverTypeOK, CountTypes, IterationsPaired, Unopened, Observations, KeepsObservation, Receives, Nothing, Merge
    <3>3. LabelTypes'
      BY <1>14 DEF ObserverTypeOK, LabelTypes, KeepsObservation, Receives, Nothing, Merge
    <3> QED BY <3>1, <3>2, <3>3 DEF BatchTypes, CountTypes, LabelTypes, ObserverTypeOK
  <2>2. IterationsPaired' /\ Unopened'
    BY <1>14 DEF ObserverTypeOK, IterationsPaired, Unopened, KeepsObservation, Receives, Nothing, Merge
  <2>3. DueInv'
    BY <1>14 DEF ObserverTypeOK, DueInv, KeepsObservation, Receives, Nothing, Merge
  <2>4. Ordered'
    BY <1>14 DEF ObserverTypeOK, Observations, Ordered, KeepsObservation, Receives, Nothing, Merge
  <2>5. KeptInv'
    <3>1. /\ accepted' = accepted \cup {channel.version} /\ pending' = Merge(pending, {channel.version})
          /\ channel.kind = "event" /\ UNCHANGED <<conf, queued, handled>>
      BY <1>14 DEF KeepsObservation, Receives
    <3>2. conf'.keep = "all" => accepted' \subseteq handled' \cup queued' \cup pending'
      BY <3>1 DEF KeptInv, Merge
    <3>3. ASSUME conf.keep = "latest"
          PROVE  pending' = {channel.version} /\ \A v \in accepted' : v <= channel.version
      <4>1. pending' = {channel.version}
        BY <3>1, <3>3 DEF Merge
      <4>2. channel.version \in Nat
        BY DEF ObserverTypeOK, Observations
      <4> QED BY <3>1, <4>1, <4>2 DEF Ordered
    <3>4. conf'.keep = "latest" => KeptInv'
      BY <3>1, <3>3 DEF KeptInv, Newest
    <3> QED BY <3>1, <3>2, <3>4 DEF KeptInv
  <2> QED BY <2>1, <2>2, <2>3, <2>4, <2>5
<1>15. CASE BatchPanics
  <2>1. ObserverTypeOK'
    BY <1>15 DEF ObserverTypeOK, IterationsPaired, Unopened, Observations, BatchPanics, Receives, Nothing, Leave
  <2>2. IterationsPaired' /\ Unopened'
    BY <1>15 DEF ObserverTypeOK, IterationsPaired, Unopened, BatchPanics, Receives, Nothing, Leave
  <2>3. DueInv'
    BY <1>15 DEF ObserverTypeOK, DueInv, BatchPanics, Receives, Nothing, Leave
  <2>4. Ordered'
    BY <1>15 DEF ObserverTypeOK, Observations, Ordered, BatchPanics, Receives, Nothing, Leave
  <2>5. KeptInv'
    BY <1>15 DEF ObserverTypeOK, DueInv, Ordered, KeptInv, Newest, BatchPanics, Receives, Nothing, Leave
  <2> QED BY <2>1, <2>2, <2>3, <2>4, <2>5
<1>16. CASE Triggers
  <2>1. ObserverTypeOK'
    <3>1. BatchTypes'
      BY <1>16 DEF ObserverTypeOK, BatchTypes, Triggers, Due, Idle, StartBody, Merge
    <3>2. CountTypes'
      BY <1>16 DEF ObserverTypeOK, CountTypes, IterationsPaired, Unopened, Triggers, Due, Idle, StartBody, Merge
    <3>3. LabelTypes'
      BY <1>16 DEF ObserverTypeOK, LabelTypes, Triggers, Due, Idle, StartBody, Merge
    <3> QED BY <3>1, <3>2, <3>3 DEF BatchTypes, CountTypes, LabelTypes, ObserverTypeOK
  <2>2. IterationsPaired' /\ Unopened'
    BY <1>16 DEF ObserverTypeOK, IterationsPaired, Unopened, Triggers, Due, Idle, StartBody, Merge
  <2>3. DueInv'
    BY <1>16 DEF ObserverTypeOK, DueInv, Triggers, Due, Idle, StartBody, Merge
  <2>4. Ordered'
    BY <1>16 DEF ObserverTypeOK, Ordered, Triggers, Due, Idle, StartBody, Merge
  <2>5. KeptInv'
    BY <1>16 DEF ObserverTypeOK, DueInv, Ordered, KeptInv, Newest, Triggers, Due, Idle, StartBody, Merge
  <2> QED BY <2>1, <2>2, <2>3, <2>4, <2>5
<1>17. CASE TriggersWhileActive
  <2>1. ObserverTypeOK'
    BY <1>17 DEF ObserverTypeOK, IterationsPaired, Unopened, Observations, TriggersWhileActive, Due, Idle, Merge
  <2>2. IterationsPaired' /\ Unopened'
    BY <1>17 DEF ObserverTypeOK, IterationsPaired, Unopened, TriggersWhileActive, Due, Idle, Merge
  <2>3. DueInv'
    BY <1>17 DEF ObserverTypeOK, DueInv, TriggersWhileActive, Due, Idle, Merge
  <2>4. Ordered'
    BY <1>17 DEF ObserverTypeOK, Observations, Ordered, TriggersWhileActive, Due, Idle, Merge
  <2>5. KeptInv'
    BY <1>17 DEF ObserverTypeOK, DueInv, Ordered, KeptInv, Newest, TriggersWhileActive, Due, Idle, Merge
  <2> QED BY <2>1, <2>2, <2>3, <2>4, <2>5
<1>18. CASE BodyDone
  <2>1. ObserverTypeOK'
    <3>1. BatchTypes'
      BY <1>18 DEF ObserverTypeOK, BatchTypes, BodyDone, StartsQueued
    <3>2. CountTypes'
      BY <1>18 DEF ObserverTypeOK, CountTypes, IterationsPaired, Unopened, BodyDone, StartsQueued
    <3>3. LabelTypes'
      BY <1>18 DEF ObserverTypeOK, LabelTypes, BodyDone, StartsQueued
    <3> QED BY <3>1, <3>2, <3>3 DEF BatchTypes, CountTypes, LabelTypes, ObserverTypeOK
  <2>2. IterationsPaired' /\ Unopened'
    BY <1>18 DEF ObserverTypeOK, IterationsPaired, Unopened, BodyDone, StartsQueued
  <2>3. DueInv'
    BY <1>18 DEF ObserverTypeOK, DueInv, BodyDone, StartsQueued
  <2>4. Ordered'
    BY <1>18 DEF ObserverTypeOK, Ordered, BodyDone, StartsQueued
  <2>5. KeptInv'
    BY <1>18 DEF ObserverTypeOK, DueInv, Ordered, KeptInv, Newest, BodyDone, StartsQueued
  <2> QED BY <2>1, <2>2, <2>3, <2>4, <2>5
<1>19. CASE BindingPanics
  <2>1. ObserverTypeOK'
    <3>1. BatchTypes'
      BY <1>19 DEF ObserverTypeOK, BatchTypes, BindingPanics, StartsQueued
    <3>2. CountTypes'
      BY <1>19 DEF ObserverTypeOK, CountTypes, IterationsPaired, Unopened, BindingPanics, StartsQueued
    <3>3. LabelTypes'
      BY <1>19 DEF ObserverTypeOK, LabelTypes, BindingPanics, StartsQueued
    <3> QED BY <3>1, <3>2, <3>3 DEF BatchTypes, CountTypes, LabelTypes, ObserverTypeOK
  <2>2. IterationsPaired' /\ Unopened'
    BY <1>19 DEF ObserverTypeOK, IterationsPaired, Unopened, BindingPanics, StartsQueued
  <2>3. DueInv'
    BY <1>19 DEF ObserverTypeOK, DueInv, BindingPanics, StartsQueued
  <2>4. Ordered'
    BY <1>19 DEF ObserverTypeOK, Ordered, BindingPanics, StartsQueued
  <2>5. KeptInv'
    BY <1>19 DEF ObserverTypeOK, DueInv, Ordered, KeptInv, Newest, BindingPanics, StartsQueued
  <2> QED BY <2>1, <2>2, <2>3, <2>4, <2>5
<1>20. CASE StopsBody
  <2>1. ObserverTypeOK'
    <3>1. BatchTypes'
      BY <1>20 DEF ObserverTypeOK, BatchTypes, StopsBody, BodyJoined
    <3>2. CountTypes'
      BY <1>20 DEF ObserverTypeOK, CountTypes, IterationsPaired, Unopened, StopsBody, BodyJoined
    <3>3. LabelTypes'
      BY <1>20 DEF ObserverTypeOK, LabelTypes, StopsBody, BodyJoined
    <3> QED BY <3>1, <3>2, <3>3 DEF BatchTypes, CountTypes, LabelTypes, ObserverTypeOK
  <2>2. IterationsPaired' /\ Unopened'
    BY <1>20 DEF ObserverTypeOK, IterationsPaired, Unopened, StopsBody, BodyJoined
  <2>3. DueInv'
    BY <1>20 DEF ObserverTypeOK, DueInv, StopsBody, BodyJoined
  <2>4. Ordered'
    BY <1>20 DEF ObserverTypeOK, Ordered, StopsBody, BodyJoined
  <2>5. KeptInv'
    BY <1>20 DEF ObserverTypeOK, DueInv, Ordered, KeptInv, Newest, StopsBody, BodyJoined
  <2> QED BY <2>1, <2>2, <2>3, <2>4, <2>5
<1>21. CASE RunReturns \/ ClosesSource
  <2>1. ObserverTypeOK'
    BY <1>21 DEF ObserverTypeOK, IterationsPaired, Unopened, RunReturns, ClosesSource, PumpJoined
  <2>2. IterationsPaired' /\ Unopened'
    BY <1>21 DEF ObserverTypeOK, IterationsPaired, Unopened, RunReturns, ClosesSource, PumpJoined
  <2>3. DueInv'
    BY <1>21 DEF ObserverTypeOK, DueInv, RunReturns, ClosesSource, PumpJoined
  <2>4. Ordered'
    BY <1>21 DEF ObserverTypeOK, Observations, Ordered, RunReturns, ClosesSource, PumpJoined
  <2>5. KeptInv'
    BY <1>21 DEF ObserverTypeOK, DueInv, Ordered, KeptInv, Newest, RunReturns, ClosesSource, PumpJoined
  <2> QED BY <2>1, <2>2, <2>3, <2>4, <2>5
<1>22. CASE WorldChanges \/ TimerExpires \/ ContextEnds
  <2>1. ObserverTypeOK'
    <3>1. BatchTypes'
      BY <1>22 DEF ObserverTypeOK, BatchTypes, WorldChanges, TimerExpires, ContextEnds
    <3>2. CountTypes'
      BY <1>22 DEF ObserverTypeOK, CountTypes, IterationsPaired, Unopened, WorldChanges, TimerExpires, ContextEnds
    <3>3. LabelTypes'
      <4>1. CASE WorldChanges
        BY <4>1 DEF ObserverTypeOK, LabelTypes, WorldChanges
      <4>2. CASE TimerExpires
        BY <4>2 DEF ObserverTypeOK, LabelTypes, TimerExpires
      <4>3. CASE ContextEnds
        BY <4>3 DEF ObserverTypeOK, LabelTypes, ContextEnds
      <4> QED BY <1>22, <4>1, <4>2, <4>3
    <3> QED BY <3>1, <3>2, <3>3 DEF BatchTypes, CountTypes, LabelTypes, ObserverTypeOK
  <2>2. IterationsPaired' /\ Unopened'
    BY <1>22 DEF ObserverTypeOK, IterationsPaired, Unopened, WorldChanges, TimerExpires, ContextEnds
  <2>3. DueInv'
    BY <1>22 DEF ObserverTypeOK, DueInv, WorldChanges, TimerExpires, ContextEnds
  <2>4. Ordered'
    BY <1>22 DEF ObserverTypeOK, Ordered, WorldChanges, TimerExpires, ContextEnds
  <2>5. KeptInv'
    BY <1>22 DEF ObserverTypeOK, DueInv, Ordered, KeptInv, Newest, WorldChanges, TimerExpires, ContextEnds
  <2> QED BY <2>1, <2>2, <2>3, <2>4, <2>5
<1>23. CASE UNCHANGED observer
  <2>1. ObserverTypeOK'
    BY <1>23 DEF ObserverTypeOK, IterationsPaired, Unopened, Observations, observer
  <2>2. IterationsPaired' /\ Unopened'
    BY <1>23 DEF ObserverTypeOK, IterationsPaired, Unopened, observer
  <2>3. DueInv'
    BY <1>23 DEF ObserverTypeOK, DueInv, observer
  <2>4. Ordered'
    BY <1>23 DEF ObserverTypeOK, Observations, Ordered, observer
  <2>5. KeptInv'
    BY <1>23 DEF ObserverTypeOK, DueInv, Ordered, KeptInv, Newest, observer
  <2> QED BY <2>1, <2>2, <2>3, <2>4, <2>5
<1> HIDE DEF ObserverInv
<1> QED
  BY <1>1, <1>2, <1>3, <1>4, <1>5, <1>6, <1>7, <1>8, <1>9, <1>10, <1>11, <1>12, <1>13, <1>14,
     <1>15, <1>16, <1>17, <1>18, <1>19, <1>20, <1>21, <1>22, <1>23
     DEF ObserverNext, Pumping, Looping, Finished

-----------------------------------------------------------------------------
(* The observer's invariant holds of every declared observer, however      *)
(* often the world changes and whatever its source does.                   *)
THEOREM ObserverInvariance == ObserverSpec => []ObserverInv
  BY InitObserverInv, NextObserverInv, PTL DEF ObserverSpec

(* Every variable of the scheduler keeps to its range.                     *)
THEOREM ObserverTypeCorrect == ObserverSpec => []ObserverTypeOK
<1>1. ObserverInv => ObserverTypeOK
  BY DEF ObserverInv
<1> QED BY <1>1, ObserverInvariance, PTL

(* startBody and stopBody pair up: iterations neither overlap nor stay.    *)
THEOREM ObserverSafeAlways == ObserverSpec => []ObserverSafety
<1>1. ObserverInv => ObserverSafety
  BY DEF ObserverInv, ObserverSafety
<1> QED BY <1>1, ObserverInvariance, PTL

(* Only the two ways to start a body with a batch give it anything, and    *)
(* what they give is the newest.                                           *)
ServesNewest ==
  handled' # handled \/ (batch # batch' /\ batch' # {})
    => /\ \A v \in accepted : Covered(v, handled')
       /\ conf.keep = "latest" => \A v \in accepted : \A w \in batch' : w >= v

(* Only StartsQueued and a due trigger start a body with a batch.          *)
LEMMA StepsServeNewest == ObserverInv /\ [ObserverNext]_observer => [ServesNewest]_observer
<1> SUFFICES ASSUME ObserverInv, [ObserverNext]_observer PROVE ServesNewest
  OBVIOUS
<1> USE DEF environment, source, loop, batches, iteration, history
<1>0. /\ pending \subseteq Nat /\ queued \subseteq Nat /\ accepted \subseteq Nat
      /\ handled \subseteq Nat /\ conf.keep \in {"all", "latest"}
  BY ObserveAssumption DEF ObserverInv, ObserverTypeOK, Configurations
<1>1. ASSUME handled' = handled, batch' = batch \/ batch' = {} PROVE ServesNewest
  BY <1>1 DEF ServesNewest
<1>2. CASE Triggers
  <2>1. /\ pending # {} /\ UNCHANGED <<conf, accepted>>
        /\ batch' = Merge(queued, pending) /\ handled' = handled \cup batch'
    BY <1>2 DEF Triggers, Due, StartBody, ObserverInv, DueInv
  <2>2. CASE conf.keep = "all"
    BY <2>1, <2>2 DEF ObserverInv, KeptInv, Merge, ServesNewest, Covered
  <2>3. CASE conf.keep = "latest"
    <3>1. batch' = pending /\ \A v \in accepted : \A w \in pending : w >= v
      BY <1>0, <2>1, <2>3 DEF ObserverInv, KeptInv, Newest, Merge
    <3> QED BY <2>1, <2>3, <3>1 DEF ServesNewest, Covered
  <2> QED BY <1>0, <2>2, <2>3
<1>3. CASE BodyDone
  <2>1. CASE ~StartsQueued
    BY <1>1, <1>3, <2>1 DEF BodyDone
  <2>2. CASE StartsQueued
    <3>1. /\ pending = {} /\ queued # {} /\ UNCHANGED <<conf, accepted>>
          /\ batch' = queued /\ handled' = handled \cup batch'
      BY <1>3, <2>2 DEF BodyDone, StartsQueued, ObserverInv, DueInv
    <3>2. CASE conf.keep = "all"
      BY <3>1, <3>2 DEF ObserverInv, KeptInv, ServesNewest, Covered
    <3>3. CASE conf.keep = "latest"
      <4>1. \A v \in accepted : \A w \in queued : w >= v
        BY <1>0, <3>1, <3>3 DEF ObserverInv, KeptInv, Newest
      <4> QED BY <3>1, <3>3, <4>1 DEF ServesNewest, Covered
    <3> QED BY <1>0, <3>2, <3>3
  <2> QED BY <2>1, <2>2
<1>4. ASSUME \/ Pumping \/ (\E instant \in BOOLEAN : Fails(instant)) \/ SourcePanics
             \/ Acquire \/ Iterating \/ WorldChanges \/ TimerExpires \/ ContextEnds
             \/ UNCHANGED observer
      PROVE  handled' = handled /\ batch' = batch
  BY <1>4 DEF Pumping, Observes, PumpStops, Send, Paced, Fails, SourcePanics, Acquire, Iterating,
              BodyEnds, CleansUp, WorldChanges, TimerExpires, ContextEnds, observer
<1>5. ASSUME \/ Opens \/ ContextDone \/ SourceFails \/ Skips \/ KeepsObservation
             \/ TriggersWhileActive \/ StopsBody \/ RunReturns \/ ClosesSource
             \/ InitialPanics \/ BatchPanics \/ BindingPanics
      PROVE  handled' = handled /\ (batch' = batch \/ batch' = {})
  BY <1>5 DEF Opens, StartBody, ContextDone, SourceFails, Skips, KeepsObservation,
              TriggersWhileActive, StopsBody, RunReturns, ClosesSource, InitialPanics,
              BatchPanics, BindingPanics, Leave
<1> QED
  BY <1>1, <1>2, <1>3, <1>4, <1>5 DEF ObserverNext, Looping, Finished

(* A body that starts is given what no body before it was given, and of a  *)
(* polling source the newest: the debounce of a later batch holds back the *)
(* queued one (scheduler.go:252, 276).                                     *)
THEOREM NewestServed == ObserverSpec => NewestFirst
<1>1. ObserverInv /\ [ObserverNext]_observer => [ServesNewest]_observer
  BY StepsServeNewest
<1> QED BY <1>1, ObserverInvariance, PTL DEF ObserverSpec, NewestFirst, ServesNewest
=============================================================================
