--------------------------- MODULE ConcurrentGraph ---------------------------
(***************************************************************************)
(* engine/concurrent.go: a concurrent group as a graph of steps.  The      *)
(* scheduler (one goroutine) starts ready steps, receives completions from *)
(* a buffered channel, skips what needs a failed step and admits what an   *)
(* ended step ordered.  Each started step is a goroutine of its own.       *)
(*                                                                         *)
(* The declaration of the group is chosen once, at the start, among all    *)
(* those validation accepts.                                               *)
(***************************************************************************)
EXTENDS Naturals, FiniteSets

CONSTANTS N,          \* steps of the group, in declaration order
          Limits,     \* values of max_concurrency
          Variables   \* workflow variables the steps may write

ASSUME GroupAssumption ==
  /\ N \in Nat \ {0}
  /\ Limits \subseteq Nat \ {0}

Steps == 1..N

VARIABLES group,      \* the declaration
          status,     \* the scheduler's view of each step
          remaining,  \* edges of a pending step not satisfied yet
          ready,      \* pending steps without unsatisfied edges
          branch,     \* where the goroutine of a started step is
          outcome,    \* what it sent, or the skip the scheduler recorded
          stopAdmission,
          cancelled, deadline, parentDone,   \* the ends of the run context
          pc,         \* "schedule", "settle", then "committed" or "failed"
          committed   \* steps whose results reached the surrounding state

vars == <<group, status, remaining, ready, branch, outcome, stopAdmission,
          cancelled, deadline, parentDone, pc, committed>>

contexts == <<cancelled, deadline, parentDone>>

-----------------------------------------------------------------------------
(* Every one of these steps waits for another of them.                     *)
WaitAmongThemselves(g, steps) == \A s \in steps : (g.needs[s] \cup g.after[s]) \cap steps # {}

(* validateConcurrentNeeds: no step names another in both lists, and       *)
(* taking away the steps that wait for nothing, time and again, leaves no  *)
(* step over.  What it leaves is the largest set of the above kind.        *)
Valid(g) ==
  /\ \A s \in Steps : g.needs[s] \cap g.after[s] = {}
  /\ \A steps \in SUBSET Steps : WaitAmongThemselves(g, steps) => steps = {}

Groups ==
  [needs : [Steps -> SUBSET Steps], after : [Steps -> SUBSET Steps],
   limit : Limits, failFast : BOOLEAN, timeout : BOOLEAN]

NoOutcome == [started |-> FALSE, err |-> "none", writes |-> {}]

(* Mutant: the edges of after are not counted.                             *)
InitCountsNeeds ==
  /\ group \in {g \in Groups : Valid(g)}
  /\ status = [s \in Steps |-> "pending"]
  /\ remaining = [s \in Steps |-> Cardinality(group.needs[s])]
  /\ ready = {s \in Steps : group.needs[s] = {} /\ group.after[s] = {}}
  /\ branch = [s \in Steps |-> "none"]
  /\ outcome = [s \in Steps |-> NoOutcome]
  /\ stopAdmission = FALSE
  /\ cancelled = FALSE /\ deadline = FALSE /\ parentDone = FALSE
  /\ pc = "schedule"
  /\ committed = {}

Init ==
  /\ group \in {g \in Groups : Valid(g)}
  /\ status = [s \in Steps |-> "pending"]
  /\ remaining = [s \in Steps |-> Cardinality(group.needs[s]) + Cardinality(group.after[s])]
  /\ ready = {s \in Steps : group.needs[s] = {} /\ group.after[s] = {}}
  /\ branch = [s \in Steps |-> "none"]
  /\ outcome = [s \in Steps |-> NoOutcome]
  /\ stopAdmission = FALSE
  /\ cancelled = FALSE /\ deadline = FALSE /\ parentDone = FALSE
  /\ pc = "schedule"
  /\ committed = {}

Running == {s \in Steps : status[s] = "running"}

RunDone == cancelled \/ deadline \/ parentDone

-----------------------------------------------------------------------------
(* The inner loop: start ready steps in declaration order while there is   *)
(* room, admission is open and the run context is alive.                   *)
(* Mutant: room for one goroutine too many.                                *)
MayStartOneMore ==
  /\ Cardinality(Running) <= group.limit
  /\ ready # {}
  /\ ~stopAdmission
  /\ ~RunDone

(* Mutant: a failure or a context that is done does not close admission.   *)
MayStartRegardless ==
  /\ Cardinality(Running) < group.limit
  /\ ready # {}

MayStart ==
  /\ Cardinality(Running) < group.limit
  /\ ready # {}
  /\ ~stopAdmission
  /\ ~RunDone

Start ==
  /\ pc = "schedule"
  /\ MayStart
  /\ \E s \in ready :
       /\ \A r \in ready : s <= r
       /\ ready' = ready \ {s}
       /\ status' = [status EXCEPT ![s] = "running"]
       /\ branch' = [branch EXCEPT ![s] = "spawned"]
  /\ UNCHANGED <<group, remaining, outcome, stopAdmission, contexts, pc, committed>>

(* The goroutine of s: it gives up before its step when the run context is *)
(* done already, and sends an outcome that is neither started nor failed.  *)
(* Mutant: a branch that finds the context done sends no completion.       *)
BranchBeginsSilently(s) ==
  /\ branch[s] = "spawned"
  /\ branch' = [branch EXCEPT ![s] = IF RunDone THEN "none" ELSE "body"]
  /\ UNCHANGED <<group, status, remaining, ready, outcome, stopAdmission, contexts, pc, committed>>

BranchBegins(s) ==
  /\ branch[s] = "spawned"
  /\ branch' = [branch EXCEPT ![s] = IF RunDone THEN "sent" ELSE "body"]
  /\ UNCHANGED <<group, status, remaining, ready, outcome, stopAdmission, contexts, pc, committed>>

BranchEnds(s, err, writes) ==
  /\ branch[s] = "body"
  /\ err = "cancelled" => RunDone
  /\ err # "none" => writes = {}
  /\ branch' = [branch EXCEPT ![s] = "sent"]
  /\ outcome' = [outcome EXCEPT ![s] = [started |-> TRUE, err |-> err, writes |-> writes]]
  /\ UNCHANGED <<group, status, remaining, ready, stopAdmission, contexts, pc, committed>>

(* Mutant: only the steps that name s are skipped.                         *)
SkippedDirectly(s) ==
  IF outcome[s].err = "none" THEN {}
  ELSE {d \in Steps : status[d] = "pending" /\ s \in group.needs[d]}

(* skipConcurrentDescendants: the pending steps that need the failed s,    *)
(* directly or through other pending steps.  They are the fewest that any  *)
(* pending step needing s or one of them is among.                         *)
Pending == {d \in Steps : status[d] = "pending"}

ClosedFrom(s, steps) == \A d \in Pending : group.needs[d] \cap ({s} \cup steps) # {} => d \in steps

Skipped(s) ==
  IF outcome[s].err = "none" THEN {}
  ELSE {d \in Pending : \A steps \in SUBSET Pending : ClosedFrom(s, steps) => d \in steps}

(* Mutant: one satisfied edge stands for all of them.                      *)
SatisfiesEverything(s, d) == group.after[d] \cup group.needs[d]

(* The edges of a pending step d that the end of s satisfies: s itself,    *)
(* when d is after it or needs it and it did not fail, and the steps       *)
(* skipped with it that d is after.                                        *)
Satisfied(s, d) ==
  (group.after[d] \cap ({s} \cup Skipped(s))) \cup
    (IF outcome[s].err = "none" THEN group.needs[d] \cap {s} ELSE {})

Admits(s, d) == status[d] = "pending" /\ d \notin Skipped(s)

Receive(s) ==
  /\ pc = "schedule"
  /\ ~MayStart
  /\ status[s] = "running" /\ branch[s] = "sent"
  /\ status' = [d \in Steps |->
       IF d = s THEN "finished" ELSE IF d \in Skipped(s) THEN "skipped" ELSE status[d]]
  /\ remaining' = [d \in Steps |->
       IF Admits(s, d) THEN remaining[d] - Cardinality(Satisfied(s, d)) ELSE remaining[d]]
  /\ ready' = ready \cup
       {d \in Steps : Admits(s, d) /\ remaining[d] > 0 /\ remaining'[d] = 0}
  /\ IF outcome[s].err # "none" /\ group.failFast
     THEN stopAdmission' = TRUE /\ cancelled' = TRUE
     ELSE UNCHANGED <<stopAdmission, cancelled>>
  /\ UNCHANGED <<group, branch, outcome, deadline, parentDone, pc, committed>>

(* All steps are terminal, or nothing runs and nothing may start.          *)
LoopEnds ==
  /\ pc = "schedule"
  /\ Running = {}
  /\ ~MayStart
  /\ pc' = "settle"
  /\ UNCHANGED <<group, status, remaining, ready, branch, outcome, stopAdmission, contexts, committed>>

-----------------------------------------------------------------------------
AllCompleted == \A s \in Steps : outcome[s].started /\ outcome[s].err = "none"

(* Mutant: a timeout counts only when some branch reported an error.       *)
ExecutionFailedByBranches ==
  \/ parentDone
  \/ \E s \in Steps : outcome[s].err # "none"

ExecutionFailed ==
  \/ parentDone
  \/ deadline /\ ~AllCompleted
  \/ \E s \in Steps : outcome[s].err # "none"

(* Two started steps wrote the same variable.                              *)
Conflict ==
  \E s, t \in Steps : s # t /\ outcome[s].writes \cap outcome[t].writes # {}

(* concurrentExecutionError, then commitConcurrentBranches.                *)
Settle ==
  /\ pc = "settle"
  /\ IF ExecutionFailed \/ Conflict
     THEN pc' = "failed" /\ UNCHANGED committed
     ELSE pc' = "committed" /\ committed' = {s \in Steps : outcome[s].started}
  /\ UNCHANGED <<group, status, remaining, ready, branch, outcome, stopAdmission, contexts>>

(* The group's own timeout and the end of the surrounding context.         *)
DeadlineFires ==
  /\ pc \in {"schedule", "settle"}
  /\ group.timeout /\ ~deadline /\ ~parentDone
  /\ deadline' = TRUE
  /\ UNCHANGED <<group, status, remaining, ready, branch, outcome, stopAdmission,
                 cancelled, parentDone, pc, committed>>

ParentEnds ==
  /\ pc \in {"schedule", "settle"}
  /\ ~parentDone
  /\ parentDone' = TRUE
  /\ UNCHANGED <<group, status, remaining, ready, branch, outcome, stopAdmission,
                 cancelled, deadline, pc, committed>>

Over == pc \in {"committed", "failed"}

Terminated == Over /\ UNCHANGED vars

Schedule == Start \/ (\E s \in Steps : Receive(s)) \/ LoopEnds \/ Settle

BranchRuns(s) ==
  \/ BranchBegins(s)
  \/ \E err \in {"none", "error", "cancelled"}, w \in SUBSET Variables : BranchEnds(s, err, w)

Next ==
  \/ Schedule
  \/ \E s \in Steps : BranchRuns(s)
  \/ DeadlineFires \/ ParentEnds
  \/ Terminated

Spec == Init /\ [][Next]_vars

(* The scheduler goroutine runs, and a branch's step ends by itself or by  *)
(* its context.  No context has to end.                                    *)
FairSpec == Spec /\ WF_vars(Schedule) /\ \A s \in Steps : WF_vars(BranchRuns(s))

-----------------------------------------------------------------------------
TypeOK ==
  /\ group \in Groups
  /\ status \in [Steps -> {"pending", "running", "finished", "skipped"}]
  /\ remaining \in [Steps -> 0..(2 * N)]
  /\ ready \subseteq Steps
  /\ branch \in [Steps -> {"none", "spawned", "body", "sent"}]
  /\ outcome \in [Steps -> [started : BOOLEAN, err : {"none", "error", "cancelled"},
                             writes : SUBSET Variables]]
  /\ {stopAdmission, cancelled, deadline, parentDone} \subseteq BOOLEAN
  /\ pc \in {"schedule", "settle", "committed", "failed"}
  /\ committed \subseteq Steps

(* max_concurrency bounds the goroutines that exist, cancelled ones that   *)
(* have not reported yet included.                                         *)
Bounded == Cardinality({s \in Steps : branch[s] # "none" /\ status[s] # "finished"}) <= group.limit

(* A step's body begins only when everything it needs has really run       *)
(* without error, and everything it is after has ended in some way: its    *)
(* snapshot is built from final outcomes (concurrent.go:137).  A step is   *)
(* skipped exactly when something it needs failed or was skipped.          *)
EdgesRespected ==
  \A s \in Steps :
    /\ branch[s] = "body" =>
         /\ \A d \in group.needs[s] :
              status[d] = "finished" /\ outcome[d].started /\ outcome[d].err = "none"
         /\ \A d \in group.after[s] : status[d] \in {"finished", "skipped"}
    /\ status[s] = "skipped" <=>
         \E d \in group.needs[s] :
           \/ status[d] = "skipped"
           \/ status[d] = "finished" /\ outcome[d].err # "none"

(* The loop ends with steps still pending only when a context ended: the   *)
(* scheduler never runs out of running steps with one it forgot to admit,  *)
(* which the group would not notice.                                       *)
NobodyForgotten ==
  pc # "schedule" /\ ~RunDone => \A s \in Steps : status[s] \in {"finished", "skipped"}

(* Results reach the surrounding state only when every step of the group   *)
(* ran and none failed, and then all of them do.                           *)
AllOrNothing ==
  committed # {} => committed = Steps /\ AllCompleted

(* The safety of a group: types, the bound, the order of its edges, no     *)
(* branch forgotten, and no partial success.                               *)
Safety == TypeOK /\ Bounded /\ EdgesRespected /\ NobodyForgotten /\ AllOrNothing

(* With fail_fast nothing starts after a failure was received.             *)
NothingStartsAfterFailure ==
  [][(\E s \in Steps : status[s] = "finished" /\ outcome[s].err # "none") /\ group.failFast
       => \A s \in Steps : branch[s] = "none" => branch'[s] = "none"]_vars

(* The group returns as long as its steps do: no completion is lost and    *)
(* the scheduler never waits for a branch that does not report.            *)
Returns == <>Over
=============================================================================
