------------------------ MODULE ManagedProcessProofs ------------------------
(***************************************************************************)
(* Theorems about ManagedProcess, for any configurations, thresholds and   *)
(* number of launches.  IInv is inductive.  Its parts: the probe series    *)
(* and the launches counted so far (Counted), what still runs of each      *)
(* instance (Contained) and what the lifecycle knows of its failures       *)
(* (Accounted).                                                            *)
(***************************************************************************)
EXTENDS ManagedProcess, TLAPS

Watched == {"running", "launcher", "watching", "probe", "watchProbe"}
Ending == {"command", "commandWait", "stop", "awaitExit", "settle"}
Between == {"backoff", "launch", "returned", "done"}

(* A series of probes ends at its threshold; attempt and restarts go       *)
(* together, and a restart needs the policy, the limit and the step.       *)
Counted ==
  /\ pc \in {"starting", "waitLog", "probing", "probeWait"} =>
       successes < SuccessThreshold /\ failures < FailureThreshold
  /\ pc \in Watched \cup {"offered"} => failures < FailureThreshold
  /\ attempt = 0 <=> executor = "none"
  /\ attempt = 0 => pc = "launch" /\ restarts = 0
  /\ pc \in {"backoff", "launch"} => restarts = attempt
  /\ attempt > 0 /\ pc \notin Between => restarts = attempt - 1
  /\ attempt > 0 => restarts \in {attempt - 1, attempt}
  /\ restarts > 0 => /\ step = "ready" /\ conf.policy # "never"
                     /\ conf.max # 0 => restarts <= conf.max
  /\ pc \in Watched => step = "ready"
  /\ pc \in Ending => goal # "none"
  /\ goal = "replace" => step = "ready"

(* Who may still run.  The current instance is out of the lifecycle's      *)
(* hands only between two instances, and then it is over; an instance that *)
(* is over leaves something running only out of cancellation's reach.      *)
Contained ==
  /\ commanded \subseteq 1..attempt
  /\ sent => executor = "sent"
  /\ cancelled => pc \in {"awaitExit", "settle"} \cup Between
  /\ pc \in {"settle"} \cup Between /\ attempt > 0 => Finished
  /\ pc \in {"running", "probe"} => ~conf.detached
  /\ pc \in {"launcher", "watching", "watchProbe"} => conf.detached
  /\ \A i \in Attempts : alive[i] => i <= attempt
  /\ \A i \in Attempts : alive[i] /\ i < attempt => OutOfReach /\ i \in commanded
  /\ executor = "spawning" => ~alive[attempt]
  /\ Finished /\ alive[attempt] =>
       OutOfReach /\ (cancelled \/ (conf.detached /\ exit = "ok"))
  /\ pc \in {"commandWait", "stop", "awaitExit", "settle"} /\ goal = "replace" =>
       attempt \in commanded \/ ~conf.command \/ (Finished /\ ~alive[attempt])
  /\ pc \in {"backoff", "launch"} /\ attempt > 0 /\ alive[attempt] => attempt \in commanded

(* A lifecycle that is ending without an error was told to end, and an     *)
(* instance its command could not stop makes it fail.                      *)
Accounted ==
  /\ pc \notin Ending \cup Between => failure = "none"
  /\ pc \in Ending /\ failure = "none" => goal # "replace" /\ (ctx \/ step \in {"gaveUp", "failed"})
  /\ unstopped \subseteq 1..attempt
  /\ attempt \in unstopped =>
       failure = "failed" /\ pc \in {"stop", "awaitExit", "settle"} \cup Between
  /\ ResultHonest

IInv == TypeOK /\ Counted /\ Contained /\ Accounted

(* A lifecycle about to launch its first instance satisfies IInv.          *)
LEMMA InitInv == Init => IInv
<1> SUFFICES ASSUME Init PROVE IInv
  OBVIOUS
<1>1. TypeOK
  <2>1. ctx \in BOOLEAN /\ expired \in BOOLEAN /\ started \in BOOLEAN /\ cancelled \in BOOLEAN
        /\ sent \in BOOLEAN /\ matched \in BOOLEAN /\ protocol \in BOOLEAN
    BY Zenon DEF Init
  <2> QED
    BY <2>1, LifecycleAssumption DEF Init, TypeOK, Attempts
<1> QED
  BY <1>1, LifecycleAssumption DEF Init, IInv, TypeOK, Counted, Contained, Accounted, ResultHonest,
     Watched, Ending, Between, Finished, OutOfReach, Attempts

(* Every step of the lifecycle, its step, its executor, its programs and   *)
(* its scope preserves IInv.                                               *)
LEMMA NextInv == IInv /\ [Next]_vars => IInv'
<1> SUFFICES ASSUME IInv, [Next]_vars PROVE IInv'
  OBVIOUS
<1>c. conf \in Configurations /\ Valid(conf)
  BY LifecycleAssumption DEF IInv, TypeOK
<1> USE <1>c, LifecycleAssumption
    DEF IInv, TypeOK, Counted, Contained, Accounted, ResultHonest, Watched, Ending, Between,
       Finished,
        OutOfReach, Attempts, Valid, Supported, Configurations,
        scope, caller, loop, probes, channels, world, instance
<1>1. ASSUME Launch PROVE IInv'
  <2>1. started' \in BOOLEAN /\ cancelled' \in BOOLEAN /\ sent' \in BOOLEAN /\ matched' \in
        BOOLEAN /\ protocol' \in BOOLEAN
    BY <1>1, Zenon DEF Launch
  <2> QED
    BY <1>1, <2>1 DEF Launch
<1>2. ASSUME SeesStarted PROVE IInv'
  BY <1>2 DEF SeesStarted, Goto
<1>3. ASSUME ExitsEarly PROVE IInv'
  <2>1. sent' \in BOOLEAN
    BY <1>3, Zenon DEF ExitsEarly
  <2> QED
    BY <1>3, <2>1 DEF ExitsEarly, StartFails, StopFor, AbortStart, ShutdownStart, Joined,
       Announced, StartContextDone, Goto
<1>4. ASSUME FailsProtocol PROVE IInv'
  <2>1. protocol' \in BOOLEAN
    BY <1>4, Zenon DEF FailsProtocol
  <2> QED
    BY <1>4, <2>1 DEF FailsProtocol, StartFails, StopFor, AbortStart, ShutdownStart, Joined,
       Announced, StartContextDone, Goto
<1>5. ASSUME StartCancelled PROVE IInv'
  BY <1>5 DEF StartCancelled, StartFails, StopFor, AbortStart, ShutdownStart, Joined, Announced,
     StartContextDone, Goto
<1>6. ASSUME LogTimesOut PROVE IInv'
  BY <1>6 DEF LogTimesOut, StartFails, StopFor, AbortStart, ShutdownStart, Joined, Announced,
     StartContextDone, Goto
<1>7. ASSUME SeesMatch PROVE IInv'
  BY <1>7 DEF SeesMatch, Goto
<1>8. ASSUME NextReadinessProbe PROVE IInv'
  BY <1>8 DEF NextReadinessProbe, Goto
<1>9. ASSUME Activate PROVE IInv'
  BY <1>9 DEF Activate, StartFails, StopFor, AbortStart, ShutdownStart, Joined, Announced,
     StartContextDone, Goto
<1>10. ASSUME NEW ok \in BOOLEAN, ReadinessProbe(ok) PROVE IInv'
  BY <1>10 DEF ReadinessProbe, StartFails, StopFor, AbortStart, ShutdownStart, Joined,
     Announced, StartContextDone, TooMany, Goto
<1>11. ASSUME OfferWithdrawn PROVE IInv'
  BY <1>11 DEF OfferWithdrawn, StopFor, AbortStart, ShutdownStart, Joined
<1>12. ASSUME OfferTaken PROVE IInv'
  BY <1>12 DEF OfferTaken, Goto
<1>13. ASSUME Exits PROVE IInv'
  <2>1. sent' \in BOOLEAN
    BY <1>13, Zenon DEF Exits
  <2> QED
    BY <1>13, <2>1 DEF Exits, Goto, Decide, ShouldRestart, Return, ExitError
<1>14. ASSUME BreaksProtocol PROVE IInv'
  <2>1. protocol' \in BOOLEAN
    BY <1>14, Zenon DEF BreaksProtocol
  <2> QED
    BY <1>14, <2>1 DEF BreaksProtocol, StopFor, ShutdownStart, Joined
<1>15. ASSUME StopsWithScope PROVE IInv'
  BY <1>15 DEF StopsWithScope, StopFor, ShutdownStart, Joined
<1>16. ASSUME BeginProbe PROVE IInv'
  BY <1>16 DEF BeginProbe, Goto
<1>17. ASSUME NEW ok \in BOOLEAN, LivenessProbe(ok) PROVE IInv'
  BY <1>17 DEF LivenessProbe, TooMany, StopFor, ShutdownStart, Joined, Goto
<1>18. ASSUME NEW ok \in BOOLEAN, ShutdownCommand(ok) PROVE IInv'
  <2>1. attempt \in Attempts
    BY <1>18 DEF ShutdownCommand
  <2>2. /\ pc' \in {"commandWait", "stop"} /\ failure' \in {failure, "failed"}
        /\ unstopped' \subseteq unstopped \cup {attempt}
        /\ commanded' = commanded \cup {attempt}
        /\ attempt \in unstopped' => failure' = "failed" /\ pc' = "stop"
        /\ failure' = "none" => failure = "none"
        /\ UNCHANGED <<goal, attempt, restarts, result>>
    BY <1>18 DEF ShutdownCommand, Goto, StopFor, Joined
  <2>3. UNCHANGED <<scope, caller, probes, channels, alive>> /\ pc = "command"
    BY <1>18 DEF ShutdownCommand
  <2> QED
    BY <2>1, <2>2, <2>3
<1>19. ASSUME ExitsAfterCommand PROVE IInv'
  <2>1. sent' \in BOOLEAN
    BY <1>19, Zenon DEF ExitsAfterCommand
  <2> QED
    BY <1>19, <2>1 DEF ExitsAfterCommand, Goto
<1>20. ASSUME CommandWaitTimesOut PROVE IInv'
  BY <1>20 DEF CommandWaitTimesOut, Goto
<1>21. ASSUME StopProcess PROVE IInv'
  BY <1>21 DEF StopProcess, Goto
<1>22. ASSUME AwaitExit PROVE IInv'
  <2>1. sent' \in BOOLEAN
    BY <1>22, Zenon DEF AwaitExit
  <2> QED
    BY <1>22, <2>1 DEF AwaitExit, Goto
<1>23. ASSUME Settle PROVE IInv'
  BY <1>23 DEF Settle, Decide, ShouldRestart, Return
<1>24. ASSUME BackoffElapses PROVE IInv'
  BY <1>24 DEF BackoffElapses, Goto
<1>25. ASSUME BackoffCut PROVE IInv'
  BY <1>25 DEF BackoffCut, Return
<1>26. ASSUME Report PROVE IInv'
  BY <1>26 DEF Report
<1>27. ASSUME Spawn PROVE IInv'
  BY <1>27 DEF Spawn
<1>28. ASSUME SpawnFails PROVE IInv'
  BY <1>28 DEF SpawnFails, ExecutorReturns
<1>29. ASSUME ExecutorGivesUp PROVE IInv'
  BY <1>29 DEF ExecutorGivesUp, ExecutorReturns
<1>30. ASSUME SendExit PROVE IInv'
  BY <1>30 DEF SendExit
<1>31. ASSUME CloseSession PROVE IInv'
  BY <1>31 DEF CloseSession
<1>32. ASSUME LeaveChild PROVE IInv'
  BY <1>32 DEF LeaveChild
<1>33. ASSUME LogMatches PROVE IInv'
  BY <1>33 DEF LogMatches
<1>34. ASSUME ProtocolError PROVE IInv'
  BY <1>34 DEF ProtocolError
<1>35. ASSUME ChildDies PROVE IInv'
  BY <1>35 DEF ChildDies
<1>36. ASSUME NEW code \in {"ok", "failed"}, ProgramEnds(code) PROVE IInv'
  BY <1>36 DEF ProgramEnds, ExecutorReturns
<1>37. ASSUME HearsReady PROVE IInv'
  BY <1>37 DEF HearsReady
<1>38. ASSUME Commits PROVE IInv'
  BY <1>38 DEF Commits
<1>39. ASSUME HearsFailure PROVE IInv'
  BY <1>39 DEF HearsFailure
<1>40. ASSUME GivesUp PROVE IInv'
  BY <1>40 DEF GivesUp
<1>41. ASSUME StepExpires PROVE IInv'
  BY <1>41 DEF StepExpires
<1>42. ASSUME ScopeEnds PROVE IInv'
  BY <1>42 DEF ScopeEnds
<1>43. ASSUME UNCHANGED vars PROVE IInv'
  BY <1>43 DEF vars
<1> HIDE DEF IInv
<1> QED
  BY <1>1, <1>2, <1>3, <1>4, <1>5, <1>6, <1>7, <1>8, <1>9, <1>10, <1>11, <1>12, <1>13, <1>14,
     <1>15, <1>16, <1>17, <1>18, <1>19, <1>20, <1>21, <1>22, <1>23, <1>24, <1>25, <1>26, <1>27,
     <1>28, <1>29, <1>30, <1>31, <1>32, <1>33, <1>34, <1>35, <1>36, <1>37, <1>38, <1>39, <1>40,
     <1>41, <1>42, <1>43
     DEF Next, Starting, Watching, Stopping, Executing, Happens, Stepping, Terminated

(* IInv holds of every state a lifecycle reaches (runLifecycle).           *)
THEOREM Invariance == Spec => []IInv
  BY InitInv, NextInv, PTL DEF Spec

(* Every reachable state is typed, whatever probes, programs and the scope *)
(* do.                                                                     *)
THEOREM TypeCorrect == Spec => []TypeOK
<1>1. IInv => TypeOK
  BY DEF IInv
<1> QED BY <1>1, Invariance, PTL

(* A service is launched again only under its policy, within max_restarts  *)
(* and after its step committed to it (lifecycle.go, shouldRestart).       *)
THEOREM RestartsEarned == Spec => []RestartsJustified
<1>1. IInv => RestartsJustified
  BY LifecycleAssumption DEF IInv, TypeOK, Counted, RestartsJustified, Configurations
<1> QED BY <1>1, Invariance, PTL

(* No launch, and no return, leaves an instance behind that cancellation   *)
(* would have reached, and none is replaced before its shutdown command    *)
(* was run (stopProcess, shutdown).                                        *)
THEOREM NoInstanceStacked == Spec => []NoStacking
<1>1. IInv => NoStacking
  <2> SUFFICES ASSUME IInv, NEW i \in Attempts, alive[i], i < attempt \/ Over
               PROVE  OutOfReach /\ (i < attempt => i \in commanded)
    BY DEF NoStacking
  <2>1. CASE i < attempt
    BY <2>1 DEF IInv, Contained
  <2>2. CASE i = attempt /\ Over
    BY <2>2 DEF IInv, TypeOK, Contained, Over, Between, Attempts
  <2> QED
    BY <2>1, <2>2 DEF IInv, TypeOK, Contained, Attempts
<1> QED BY <1>1, Invariance, PTL

(* What the lifecycle returns is what happened to the service.             *)
THEOREM ResultTold == Spec => []ResultHonest
<1>1. IInv => ResultHonest
  BY DEF IInv, Accounted
<1> QED BY <1>1, Invariance, PTL

(* All of a lifecycle's safety.                                            *)
THEOREM SafeAlways == Spec => []Safety
  BY TypeCorrect, RestartsEarned, PTL DEF Safety
=============================================================================
