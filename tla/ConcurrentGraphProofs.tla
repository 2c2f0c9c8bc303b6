------------------------ MODULE ConcurrentGraphProofs ------------------------
(***************************************************************************)
(* The safety of concurrent groups of any size.  The scheduler only counts *)
(* down edges; GroupInv says that a count is the number of edges that are  *)
(* not satisfied (Counted), so that a step which becomes ready may begin   *)
(* (Ordered).  When the loop is left with nothing running, each pending    *)
(* step would wait for another pending one, which validation has excluded: *)
(* the two lemmas about sets of steps that wait for one another carry the  *)
(* argument that nobody is forgotten and nobody is skipped for nothing.    *)
(***************************************************************************)
EXTENDS ConcurrentGraph, FiniteSetTheorems, TLAPS

(* A goroutine exists from the start of its step on and has sent when the  *)
(* scheduler counts the step as finished; only what was sent is an outcome,*)
(* and it is empty only when the run context was done.                     *)
Reporting ==
  \A s \in Steps :
    /\ branch[s] = "none" <=> status[s] \in {"pending", "skipped"}
    /\ status[s] = "finished" => branch[s] = "sent"
    /\ outcome[s].started => branch[s] = "sent"
    /\ ~outcome[s].started => outcome[s] = NoOutcome
    /\ branch[s] = "sent" /\ ~outcome[s].started => RunDone

(* What the step d may begin on: its needs ran, what it is after is over.  *)
MayBegin(d) ==
  /\ \A e \in group.needs[d] : status[e] = "finished" /\ outcome[e].started /\ outcome[e].err = "none"
  /\ \A e \in group.after[d] : status[e] \in {"finished", "skipped"}

(* Something the step d needs did not succeed.                             *)
Broken(d) ==
  \E e \in group.needs[d] :
    status[e] = "skipped" \/ (status[e] = "finished" /\ outcome[e].err # "none")

(* Steps run only on what they may begin on, and are skipped exactly when  *)
(* something they need did not succeed.                                    *)
Ordered ==
  \A d \in Steps :
    /\ status[d] \in {"running", "finished"} => MayBegin(d)
    /\ status[d] = "skipped" <=> Broken(d)

(* The edges of d that are not satisfied yet.                              *)
Waits(d) ==
  {e \in group.needs[d] : ~(status[e] = "finished" /\ outcome[e].err = "none")}
    \cup {e \in group.after[d] : status[e] \notin {"finished", "skipped"}}

(* The scheduler's counts are the edges left, and nobody ready is missing. *)
Counted ==
  /\ \A d \in Pending : remaining[d] = Cardinality(Waits(d))
  /\ ready = {d \in Pending : remaining[d] = 0}

(* The scheduler stops admission for a failure, and then cancels.          *)
Failing == {s \in Steps : status[s] = "finished" /\ outcome[s].err # "none"}

Closing ==
  /\ stopAdmission <=> cancelled
  /\ cancelled => Failing # {}
  /\ group.failFast /\ Failing # {} => stopAdmission

(* The loop is left with nobody running, and the group committed once.     *)
Ending ==
  /\ pc # "schedule" => Running = {}
  /\ pc # "committed" => committed = {}
  /\ NobodyForgotten /\ AllOrNothing

(* max_concurrency bounds the running steps.                               *)
Room == Cardinality(Running) <= group.limit

(* The inductive invariant.                                                *)
GroupInv ==
  /\ TypeOK /\ Valid(group)
  /\ Reporting /\ Ordered /\ Counted /\ Closing /\ Ending /\ Room

-----------------------------------------------------------------------------
(* Every set of steps is finite, so that edges can be counted.             *)
LEMMA StepsFinite ==
  /\ IsFiniteSet(Steps)
  /\ \A S \in SUBSET Steps : IsFiniteSet(S) /\ Cardinality(S) \in 0..N
<1>1. IsFiniteSet(Steps) /\ Cardinality(Steps) = N /\ N \in Nat
  BY GroupAssumption, FS_Interval DEF Steps
<1>2. ASSUME NEW S \in SUBSET Steps PROVE IsFiniteSet(S) /\ Cardinality(S) \in 0..N
  BY <1>1, FS_Subset, FS_CardinalityType
<1> QED BY <1>1, <1>2

(* skipConcurrentDescendants skips pending steps only; every pending step  *)
(* that needs the failed one or a skipped one; and no other.               *)
LEMMA SkippedSteps ==
  ASSUME NEW s \in Steps
  PROVE  /\ Skipped(s) \subseteq Pending
         /\ outcome[s].err = "none" => Skipped(s) = {}
         /\ outcome[s].err # "none" => ClosedFrom(s, Skipped(s))
         /\ \A d \in Skipped(s) : group.needs[d] \cap ({s} \cup Skipped(s)) # {}
<1>1. Skipped(s) \subseteq Pending /\ (outcome[s].err = "none" => Skipped(s) = {})
  BY DEF Skipped
<1>2. ASSUME outcome[s].err # "none" PROVE ClosedFrom(s, Skipped(s))
  <2> SUFFICES ASSUME NEW d \in Pending, NEW x \in group.needs[d], x = s \/ x \in Skipped(s),
                      NEW steps \in SUBSET Pending, ClosedFrom(s, steps)
               PROVE  d \in steps
    BY <1>2 DEF ClosedFrom, Skipped
  <2>1. x \in {s} \cup steps
    BY <1>2 DEF Skipped
  <2> QED BY <2>1 DEF ClosedFrom
<1>3. ASSUME NEW d \in Skipped(s), group.needs[d] \cap ({s} \cup Skipped(s)) = {} PROVE FALSE
  <2> DEFINE others == Skipped(s) \ {d}
  <2>1. outcome[s].err # "none" /\ others \in SUBSET Pending
    BY <1>1
  <2>2. ClosedFrom(s, others)
    BY <1>2, <1>3, <2>1 DEF ClosedFrom
  <2>3. d \in others
    BY <1>3, <2>1, <2>2 DEF Skipped
  <2> QED BY <2>3
<1> QED BY <1>1, <1>2, <1>3

(* The steps whose admission failed would have to wait for one another.    *)
LEMMA NobodyWaitsForever ==
  ASSUME GroupInv, NEW steps \in SUBSET Steps, WaitAmongThemselves(group, steps)
  PROVE  steps = {}
  BY DEF GroupInv, Valid

(* The scheduler starts with all edges counted.                            *)
LEMMA InitGroupInv == Init => GroupInv
<1> SUFFICES ASSUME Init PROVE GroupInv
  OBVIOUS
<1>1. group \in Groups /\ Valid(group) /\ group.limit \in Nat \ {0}
  BY GroupAssumption DEF Init, Groups
<1>2. \A d \in Steps : group.needs[d] \subseteq Steps /\ group.after[d] \subseteq Steps
  BY <1>1 DEF Groups
<1>3. Pending = Steps /\ Running = {}
  BY DEF Init, Pending, Running
<1>4. ASSUME NEW d \in Steps
      PROVE  /\ Waits(d) = group.needs[d] \cup group.after[d]
             /\ remaining[d] = Cardinality(Waits(d))
             /\ remaining[d] \in 0..(2 * N)
             /\ remaining[d] = 0 <=> (group.needs[d] = {} /\ group.after[d] = {})
  <2>1. Waits(d) = group.needs[d] \cup group.after[d]
    BY <1>2 DEF Init, Waits
  <2>2. group.needs[d] \cap group.after[d] = {}
    BY <1>1 DEF Valid
  <2>3. /\ IsFiniteSet(group.needs[d]) /\ IsFiniteSet(group.after[d])
        /\ Cardinality(group.needs[d]) \in 0..N /\ Cardinality(group.after[d]) \in 0..N
    BY <1>2, StepsFinite
  <2>4. Cardinality(Waits(d)) = Cardinality(group.needs[d]) + Cardinality(group.after[d])
    <3>1. Cardinality(group.needs[d] \cap group.after[d]) = 0
      BY <2>2, FS_EmptySet
    <3>2. Cardinality(group.needs[d] \cup group.after[d])
            = Cardinality(group.needs[d]) + Cardinality(group.after[d])
                - Cardinality(group.needs[d] \cap group.after[d])
      BY <2>3, FS_Union
    <3> QED BY <2>1, <2>3, <3>1, <3>2
  <2>5. remaining[d] = Cardinality(group.needs[d]) + Cardinality(group.after[d])
    BY DEF Init
  <2>6. remaining[d] = 0 <=> (group.needs[d] = {} /\ group.after[d] = {})
    BY <2>3, <2>5, FS_EmptySet
  <2> QED BY <2>1, <2>3, <2>4, <2>5, <2>6, GroupAssumption
<1>5. TypeOK
  BY <1>1, <1>4 DEF Init, TypeOK, NoOutcome
<1>6. Reporting /\ Closing /\ Ending
  BY <1>3 DEF Init, Reporting, Closing, Failing, Ending, NobodyForgotten, AllOrNothing, NoOutcome
<1>9. Ordered
  BY <1>2 DEF Init, Ordered, MayBegin, Broken
<1>7. Counted
  BY <1>3, <1>4 DEF Init, Counted
<1>8. Room
  BY <1>1, <1>3, FS_EmptySet DEF Room
<1> QED BY <1>1, <1>5, <1>6, <1>7, <1>8, <1>9 DEF GroupInv

-----------------------------------------------------------------------------
(* A ready step may begin, and there is room for it.                       *)
LEMMA StartKeeps == GroupInv /\ Start => GroupInv'
<1> SUFFICES ASSUME GroupInv, Start PROVE GroupInv'
  OBVIOUS
<1> USE DEF GroupInv, contexts
<1>0. PICK s \in ready : /\ ready' = ready \ {s}
                         /\ status' = [status EXCEPT ![s] = "running"]
                         /\ branch' = [branch EXCEPT ![s] = "spawned"]
  BY DEF Start
<1>1. /\ s \in Steps /\ status[s] = "pending" /\ remaining[s] = 0
      /\ UNCHANGED <<group, remaining, outcome, stopAdmission, contexts, pc, committed>>
      /\ ~RunDone /\ pc = "schedule" /\ Cardinality(Running) < group.limit
  BY <1>0 DEF Start, MayStart, Counted, Pending
<1>2. Waits(s) = {}
  <2>1. Waits(s) \in SUBSET Steps
    BY <1>1 DEF Waits, TypeOK, Groups
  <2> QED BY <1>1, <2>1, StepsFinite, FS_EmptySet DEF Counted, Pending
<1>3. MayBegin(s)
  BY <1>1, <1>2 DEF MayBegin, Waits, Reporting, TypeOK, Groups, NoOutcome
<1>4. TypeOK' /\ Valid(group)'
  BY <1>0, <1>1 DEF TypeOK
<1>5. Reporting'
  BY <1>0, <1>1 DEF Reporting, TypeOK, RunDone
<1>6. Ordered'
  BY <1>0, <1>1, <1>3 DEF Ordered, MayBegin, Broken, TypeOK, Groups
<1>7. Counted'
  <2>1. Pending' = Pending \ {s}
    BY <1>0, <1>1 DEF Pending, TypeOK
  <2>2. ASSUME NEW d \in Steps PROVE Waits(d)' = Waits(d)
    BY <1>0, <1>1 DEF Waits, TypeOK, Groups
  <2> QED BY <1>0, <1>1, <2>1, <2>2 DEF Counted, Pending
<1>8. Closing'
  BY <1>0, <1>1 DEF Closing, Failing, TypeOK
<1>9. Ending'
  BY <1>0, <1>1 DEF Ending, NobodyForgotten, AllOrNothing, AllCompleted, TypeOK
<1>10. Room'
  <2>1. Running' = Running \cup {s} /\ Running \in SUBSET Steps
    BY <1>0, <1>1 DEF Running, TypeOK
  <2>2. IsFiniteSet(Running) /\ Cardinality(Running) \in Nat
    BY <2>1, StepsFinite
  <2>3. /\ IsFiniteSet(Running \cup {s})
        /\ Cardinality(Running \cup {s}) = IF s \in Running THEN Cardinality(Running)
                                                            ELSE Cardinality(Running) + 1
    BY <2>2, FS_AddElement
  <2>4. group.limit \in Nat /\ group' = group
    BY <1>1, GroupAssumption DEF TypeOK, Groups
  <2> QED BY <1>1, <2>1, <2>2, <2>3, <2>4 DEF Room
<1> QED BY <1>4, <1>5, <1>6, <1>7, <1>8, <1>9, <1>10

(* What neither starts nor ends a step leaves the scheduler's books alone. *)
LEMMA SameBooks ==
  ASSUME GroupInv, UNCHANGED <<group, status, remaining, ready>>,
         \A s \in Steps : status[s] = "finished" => outcome'[s] = outcome[s]
  PROVE  Ordered' /\ Counted' /\ Room' /\ Failing' = Failing /\ Running' = Running
<1> USE DEF GroupInv
<1>1. \A d \in Steps : group.needs[d] \subseteq Steps /\ group.after[d] \subseteq Steps
  BY DEF TypeOK, Groups
<1>2. Ordered'
  BY <1>1 DEF Ordered, MayBegin, Broken
<1>3. Counted'
  <2>1. ASSUME NEW d \in Steps PROVE Waits(d)' = Waits(d)
    BY <1>1 DEF Waits
  <2> QED BY <2>1 DEF Counted, Pending
<1>4. Room' /\ Failing' = Failing /\ Running' = Running
  BY DEF Room, Failing, Running
<1> QED BY <1>2, <1>3, <1>4

(* A goroutine that finds the context done sends an empty outcome.         *)
LEMMA BranchBeginsKeeps == ASSUME NEW s \in Steps, GroupInv, BranchBegins(s) PROVE GroupInv'
<1> USE DEF GroupInv, contexts
<1>1. TypeOK' /\ Valid(group)'
  BY DEF BranchBegins, TypeOK
<1>2. Reporting'
  BY DEF BranchBegins, Reporting, TypeOK, RunDone
<1>3. Ordered' /\ Counted' /\ Room' /\ Failing' = Failing /\ Running' = Running
  BY SameBooks DEF BranchBegins
<1>4. Closing' /\ Ending'
  BY <1>3 DEF BranchBegins, Closing, Ending, NobodyForgotten, AllOrNothing, AllCompleted, RunDone
<1> QED BY <1>1, <1>2, <1>3, <1>4

(* A goroutine sends its outcome, once.                                    *)
LEMMA BranchEndsKeeps ==
  ASSUME NEW s \in Steps, NEW err \in {"none", "error", "cancelled"}, NEW w \in SUBSET Variables,
         GroupInv, BranchEnds(s, err, w)
  PROVE  GroupInv'
<1> USE DEF GroupInv, contexts
<1>1. TypeOK' /\ Valid(group)'
  BY DEF BranchEnds, TypeOK
<1>2. Reporting'
  BY DEF BranchEnds, Reporting, TypeOK, RunDone
<1>3. status[s] = "running" /\ pc = "schedule"
  BY DEF BranchEnds, Reporting, TypeOK, Ending, Running
<1>4. Ordered' /\ Counted' /\ Room' /\ Failing' = Failing /\ Running' = Running
  <2>1. \A d \in Steps : status[d] = "finished" => outcome'[d] = outcome[d]
    BY <1>3 DEF BranchEnds, TypeOK
  <2> QED BY <2>1, SameBooks DEF BranchEnds
<1>5. Closing' /\ Ending'
  BY <1>3, <1>4 DEF BranchEnds, Closing, Ending, NobodyForgotten, AllOrNothing
<1> QED BY <1>1, <1>2, <1>4, <1>5

(* A context that ends touches nothing the scheduler has decided.          *)
LEMMA ContextEndKeeps == GroupInv /\ (DeadlineFires \/ ParentEnds) => GroupInv'
<1> SUFFICES ASSUME GroupInv, DeadlineFires \/ ParentEnds PROVE GroupInv'
  OBVIOUS
<1> USE DEF GroupInv
<1>1. TypeOK' /\ Valid(group)'
  BY DEF DeadlineFires, ParentEnds, TypeOK
<1>2. Reporting'
  BY DEF DeadlineFires, ParentEnds, Reporting, RunDone
<1>3. Ordered' /\ Counted' /\ Room' /\ Failing' = Failing /\ Running' = Running
  BY SameBooks DEF DeadlineFires, ParentEnds
<1>4. Closing' /\ Ending'
  BY <1>3 DEF DeadlineFires, ParentEnds, Closing, Ending, NobodyForgotten, AllOrNothing,
              AllCompleted, RunDone
<1> QED BY <1>1, <1>2, <1>3, <1>4

-----------------------------------------------------------------------------
(* What a received completion makes of the steps and their edges.          *)
LEMMA ReceiveEffect ==
  ASSUME NEW s \in Steps, GroupInv, Receive(s)
  PROVE  /\ UNCHANGED <<group, branch, outcome, deadline, parentDone, pc, committed>>
         /\ status[s] = "running" /\ branch[s] = "sent" /\ pc = "schedule"
         /\ s \notin Pending /\ Skipped(s) \subseteq Pending /\ Pending \subseteq Steps
         /\ \A d \in Steps :
              status'[d] = IF d = s THEN "finished"
                           ELSE IF d \in Skipped(s) THEN "skipped" ELSE status[d]
         /\ Pending' = Pending \ Skipped(s)
         /\ Running' = Running \ {s}
         /\ Failing' = IF outcome[s].err # "none" THEN Failing \cup {s} ELSE Failing
<1> USE DEF GroupInv, Receive, TypeOK
<1>1. Skipped(s) \subseteq Pending /\ Pending \subseteq Steps /\ s \notin Pending
  BY SkippedSteps DEF Pending
<1>2. \A d \in Steps :
        status'[d] = IF d = s THEN "finished"
                     ELSE IF d \in Skipped(s) THEN "skipped" ELSE status[d]
  OBVIOUS
<1>3. Pending' = Pending \ Skipped(s)
  BY <1>1, <1>2 DEF Pending
<1>4. Running' = Running \ {s}
  BY <1>1, <1>2 DEF Running, Pending
<1>5. Failing' = IF outcome[s].err # "none" THEN Failing \cup {s} ELSE Failing
  <2>1. \A d \in Steps : status'[d] = "finished" <=> d = s \/ status[d] = "finished"
    BY <1>1, <1>2 DEF Pending
  <2> QED BY <2>1 DEF Failing
<1> QED BY <1>1, <1>2, <1>3, <1>4, <1>5

(* A completion satisfies edges; it takes nothing back.                    *)
LEMMA ReceiveKeepsOrder == ASSUME NEW s \in Steps, GroupInv, Receive(s) PROVE Ordered'
<1> USE DEF GroupInv
<1>1. \A d \in Steps : group.needs[d] \subseteq Steps /\ group.after[d] \subseteq Steps
  BY DEF TypeOK, Groups
<1> USE ReceiveEffect, SkippedSteps
<1>2. ASSUME NEW d \in Steps, status'[d] \in {"running", "finished"} PROVE MayBegin(d)'
  <2>1. MayBegin(d)
    BY <1>2 DEF Ordered
  <2> QED BY <1>1, <2>1 DEF MayBegin, Pending
<1>3. ASSUME NEW d \in Steps, status'[d] = "skipped" PROVE Broken(d)'
  <2>1. CASE d \in Skipped(s)
    <3>1. PICK e \in group.needs[d] : e = s \/ e \in Skipped(s)
      BY <2>1
    <3>2. outcome[s].err # "none" /\ e \in Steps
      BY <1>1, <2>1, <3>1
    <3> QED BY <3>1, <3>2 DEF Broken, Pending
  <2>2. CASE d \notin Skipped(s)
    <3>1. Broken(d)
      BY <1>3, <2>2 DEF Ordered
    <3> QED BY <1>1, <3>1 DEF Broken, Pending
  <2> QED BY <2>1, <2>2
<1>4. ASSUME NEW d \in Steps, Broken(d)' PROVE status'[d] = "skipped"
  <2>1. PICK e \in group.needs[d] :
          status'[e] = "skipped" \/ (status'[e] = "finished" /\ outcome[e].err # "none")
    BY <1>4 DEF Broken
  <2>2. e \in Steps
    BY <1>1
  <2>3. CASE status[e] = status'[e]
    BY <1>1, <2>1, <2>3 DEF Ordered, Broken, Pending
  <2>4. CASE e = s \/ e \in Skipped(s)
    <3>1. outcome[s].err # "none"
      BY <2>1, <2>2, <2>4 DEF Pending
    <3>2. ~MayBegin(d)
      BY <2>2, <2>4 DEF MayBegin, Pending
    <3>3. status[d] = "pending" \/ status[d] = "skipped"
      BY <3>2 DEF Ordered, TypeOK
    <3>4. CASE status[d] = "pending"
      BY <2>4, <3>1, <3>4 DEF ClosedFrom, Pending
    <3>5. CASE status[d] = "skipped"
      BY <3>5 DEF Pending
    <3> QED BY <3>3, <3>4, <3>5
  <2> QED BY <2>2, <2>3, <2>4
<1> QED BY <1>2, <1>3, <1>4 DEF Ordered

(* The edges that a completion satisfies are edges not satisfied before,   *)
(* and counting them down counts what is left.                             *)
LEMMA ReceiveKeepsCount == ASSUME NEW s \in Steps, GroupInv, Receive(s) PROVE Counted'
<1> USE DEF GroupInv
<1>1. \A d \in Steps : group.needs[d] \subseteq Steps /\ group.after[d] \subseteq Steps
  BY DEF TypeOK, Groups
<1> USE ReceiveEffect, SkippedSteps
<1>2. ASSUME NEW d \in Pending, d \notin Skipped(s)
      PROVE  /\ Satisfied(s, d) \subseteq Waits(d)
             /\ Waits(d)' = Waits(d) \ Satisfied(s, d)
             /\ remaining'[d] = remaining[d] - Cardinality(Satisfied(s, d))
  <2>1. \A e \in Skipped(s) \cup {s} : e \notin group.needs[d] \/ (e = s /\ outcome[s].err = "none")
    BY <1>2 DEF ClosedFrom
  <2>2. group.needs[d] \cap group.after[d] = {}
    BY DEF Valid
  <2>3. Satisfied(s, d) \subseteq Waits(d)
    BY DEF Satisfied, Waits, Pending
  <2>4. Waits(d)' \subseteq Waits(d) \ Satisfied(s, d)
    BY <1>1, <2>1, <2>2 DEF Satisfied, Waits, Pending
  <2>5. Waits(d) \ Satisfied(s, d) \subseteq Waits(d)'
    BY <1>1, <2>1, <2>2 DEF Satisfied, Waits, Pending
  <2>6. remaining'[d] = remaining[d] - Cardinality(Satisfied(s, d))
    BY <1>2 DEF Receive, Admits, Pending
  <2> QED BY <2>3, <2>4, <2>5, <2>6
<1>3. ASSUME NEW d \in Pending, d \notin Skipped(s) PROVE remaining'[d] = Cardinality(Waits(d)')
  <2>1. Waits(d) \in SUBSET Steps
    BY <1>1 DEF Waits
  <2>2. Waits(d) \cap Satisfied(s, d) = Satisfied(s, d)
    BY <1>2, <1>3
  <2>3. Cardinality(Waits(d) \ Satisfied(s, d))
          = Cardinality(Waits(d)) - Cardinality(Waits(d) \cap Satisfied(s, d))
    BY <2>1, StepsFinite, FS_Difference
  <2> QED BY <1>2, <1>3, <2>2, <2>3 DEF Counted
<1>4. ready' = {d \in Pending' : remaining'[d] = 0}
  <2>1. ASSUME NEW d \in ready PROVE d \in Pending' /\ remaining'[d] = 0
    <3>1. d \in Pending /\ remaining[d] = 0 /\ Waits(d) \in SUBSET Steps
      BY <1>1 DEF Counted, Waits
    <3>2. Waits(d) = {}
      BY <3>1, StepsFinite, FS_EmptySet DEF Counted
    <3>3. d \notin Skipped(s)
      BY <1>1, <3>1, <3>2 DEF Waits, Pending
    <3>4. Waits(d)' = {}
      BY <1>2, <3>1, <3>2, <3>3
    <3> QED BY <1>3, <3>1, <3>3, <3>4, FS_EmptySet
  <2>2. ASSUME NEW d \in Pending', remaining'[d] = 0, d \notin ready
        PROVE  Admits(s, d) /\ remaining[d] > 0
    <3>1. d \in Pending /\ d \notin Skipped(s) /\ remaining[d] \in Nat
      BY DEF TypeOK
    <3> QED BY <2>2, <3>1 DEF Admits, Counted, Pending
  <2>3. ready' = ready \cup {d \in Steps : Admits(s, d) /\ remaining[d] > 0 /\ remaining'[d] = 0}
    BY DEF Receive
  <2>4. \A d \in Steps : Admits(s, d) => d \in Pending'
    BY DEF Admits, Pending
  <2> QED BY <2>1, <2>2, <2>3, <2>4
<1> QED BY <1>3, <1>4 DEF Counted

(* A completion, all parts of the invariant together.                      *)
LEMMA ReceiveKeeps == ASSUME NEW s \in Steps, GroupInv, Receive(s) PROVE GroupInv'
<1> USE ReceiveEffect DEF GroupInv
<1>1. Counted' /\ Ordered'
  BY ReceiveKeepsCount, ReceiveKeepsOrder
<1>2. TypeOK' /\ Valid(group)'
  <2>1. status' \in [Steps -> {"pending", "running", "finished", "skipped"}]
    BY DEF Receive, TypeOK
  <2>2. remaining' \in [Steps -> 0..(2 * N)]
    <3> SUFFICES ASSUME NEW d \in Steps PROVE remaining'[d] \in 0..(2 * N)
      BY DEF Receive
    <3>1. CASE Admits(s, d)
      <4>1. d \in Pending'
        BY <3>1 DEF Admits, Pending
      <4>2. Waits(d)' \in SUBSET Steps
        BY DEF Waits, TypeOK, Groups
      <4>3. Cardinality(Waits(d)') \in 0..N
        BY <4>2, StepsFinite
      <4> QED BY <1>1, <4>1, <4>3, GroupAssumption DEF Counted
    <3>2. CASE ~Admits(s, d)
      BY <3>2 DEF Receive, TypeOK
    <3> QED BY <3>1, <3>2
  <2>3. ready' \subseteq Steps
    BY DEF Receive, TypeOK
  <2>4. stopAdmission' \in BOOLEAN /\ cancelled' \in BOOLEAN
    BY DEF Receive, TypeOK
  <2> QED BY <2>1, <2>2, <2>3, <2>4 DEF TypeOK
<1>3. RunDone => RunDone'
  BY DEF Receive, RunDone
<1>4. Reporting'
  BY <1>3 DEF Reporting, TypeOK, Pending
<1>5. Closing'
  BY DEF Receive, Closing, TypeOK
<1>6. Ending'
  BY DEF Ending, NobodyForgotten, AllOrNothing
<1>7. Room'
  <2>1. Running \in SUBSET Steps /\ group.limit \in Nat
    BY GroupAssumption DEF Running, TypeOK, Groups
  <2>2. IsFiniteSet(Running) /\ Cardinality(Running) \in Nat
    BY <2>1, StepsFinite
  <2>3. Running \ {s} \in SUBSET Running
    OBVIOUS
  <2>4. Cardinality(Running \ {s}) <= Cardinality(Running) /\ Cardinality(Running \ {s}) \in Nat
    BY <2>2, <2>3, FS_Subset, FS_CardinalityType
  <2>5. Running' = Running \ {s} /\ group' = group
    OBVIOUS
  <2> HIDE ReceiveEffect
  <2> QED BY <2>1, <2>2, <2>3, <2>4, <2>5 DEF Room
<1> QED BY <1>1, <1>2, <1>4, <1>5, <1>6, <1>7

-----------------------------------------------------------------------------
(* When nothing runs, nothing is ready and the run context is alive, a     *)
(* pending step would wait for another pending one, and no group that was  *)
(* accepted has a set of steps that wait for one another.                  *)
LEMMA NobodyLeft ==
  ASSUME GroupInv, Running = {}, ready = {}
  PROVE  \A s \in Steps : status[s] \in {"finished", "skipped"}
<1> USE DEF GroupInv
<1>1. \A d \in Steps : group.needs[d] \subseteq Steps /\ group.after[d] \subseteq Steps
  BY DEF TypeOK, Groups
<1>2. \A d \in Steps : status[d] \in {"pending", "finished", "skipped"}
  BY DEF Running, TypeOK
<1>3. ASSUME NEW d \in Pending PROVE (group.needs[d] \cup group.after[d]) \cap Pending # {}
  <2>1. d \in Steps /\ status[d] = "pending" /\ remaining[d] # 0
    BY <1>3 DEF Counted, Pending
  <2>2. Waits(d) # {}
    BY <1>3, <2>1, FS_EmptySet DEF Counted
  <2>3. PICK e \in Waits(d) : TRUE
    BY <2>2
  <2>4. e \in Steps /\ e \in group.needs[d] \cup group.after[d]
    BY <1>1, <2>1 DEF Waits
  <2>5. CASE e \in group.after[d] /\ status[e] \notin {"finished", "skipped"}
    BY <1>2, <2>4, <2>5 DEF Pending
  <2>6. CASE e \in group.needs[d] /\ ~(status[e] = "finished" /\ outcome[e].err = "none")
    <3>1. ~Broken(d)
      BY <2>1 DEF Ordered
    <3>2. status[e] = "pending"
      BY <1>2, <2>4, <2>6, <3>1 DEF Broken
    <3> QED BY <2>4, <3>2 DEF Pending
  <2> QED BY <2>5, <2>6 DEF Waits
<1>4. Pending \in SUBSET Steps /\ WaitAmongThemselves(group, Pending)
  BY <1>3 DEF Pending, WaitAmongThemselves
<1>5. Pending = {}
  BY <1>4, NobodyWaitsForever
<1> QED BY <1>2, <1>5 DEF Pending

(* The scheduler stops only when nobody is left or a context ended.        *)
LEMMA LoopEndsKeeps == GroupInv /\ LoopEnds => GroupInv'
<1> SUFFICES ASSUME GroupInv, LoopEnds PROVE GroupInv'
  OBVIOUS
<1> USE DEF GroupInv, contexts
<1>1. TypeOK' /\ Valid(group)'
  BY DEF LoopEnds, TypeOK
<1>2. Reporting'
  BY DEF LoopEnds, Reporting, RunDone
<1>3. Ordered' /\ Counted' /\ Room' /\ Failing' = Failing /\ Running' = Running
  BY SameBooks DEF LoopEnds
<1>4. ASSUME ~RunDone PROVE \A s \in Steps : status[s] \in {"finished", "skipped"}
  <2>1. ~stopAdmission /\ Running = {}
    BY <1>4 DEF LoopEnds, Closing, RunDone
  <2>2. group.limit \in Nat \ {0}
    BY GroupAssumption DEF TypeOK, Groups
  <2>3. Cardinality(Running) < group.limit
    BY <2>1, <2>2, FS_EmptySet
  <2>4. ready = {}
    BY <1>4, <2>1, <2>3 DEF LoopEnds, MayStart
  <2> QED BY <2>1, <2>4, NobodyLeft
<1>5. Ending'
  BY <1>3, <1>4 DEF LoopEnds, Ending, NobodyForgotten, AllOrNothing, AllCompleted, RunDone
<1>6. Closing'
  BY <1>3 DEF LoopEnds, Closing
<1> QED BY <1>1, <1>2, <1>3, <1>5, <1>6

(* Without a failure no step is skipped: each skipped one would need       *)
(* another.                                                                *)
LEMMA NobodySkippedForNothing ==
  ASSUME GroupInv, Failing = {}
  PROVE  \A s \in Steps : status[s] # "skipped"
<1> USE DEF GroupInv
<1> DEFINE skipped == {s \in Steps : status[s] = "skipped"}
<1>1. ASSUME NEW d \in skipped PROVE group.needs[d] \cap skipped # {}
  <2>1. PICK e \in group.needs[d] :
          status[e] = "skipped" \/ (status[e] = "finished" /\ outcome[e].err # "none")
    BY <1>1 DEF Ordered, Broken
  <2>2. e \in Steps
    BY <1>1 DEF TypeOK, Groups
  <2> QED BY <2>1, <2>2 DEF Failing
<1>2. skipped \in SUBSET Steps /\ WaitAmongThemselves(group, skipped)
  BY <1>1 DEF WaitAmongThemselves
<1>3. skipped = {}
  BY <1>2, NobodyWaitsForever
<1> QED BY <1>3

(* The commit takes all outcomes or none.                                  *)
LEMMA SettleKeeps == GroupInv /\ Settle => GroupInv'
<1> SUFFICES ASSUME GroupInv, Settle PROVE GroupInv'
  OBVIOUS
<1> USE DEF GroupInv, contexts
<1>1. TypeOK' /\ Valid(group)'
  BY DEF Settle, TypeOK
<1>2. Reporting'
  BY DEF Settle, Reporting, RunDone
<1>3. Ordered' /\ Counted' /\ Room' /\ Failing' = Failing /\ Running' = Running
  BY SameBooks DEF Settle
<1>4. Closing'
  BY <1>3 DEF Settle, Closing
<1>5. committed = {} /\ pc = "settle"
  BY DEF Settle, Ending
<1>6. ASSUME ~ExecutionFailed PROVE AllCompleted
  <2>1. CASE deadline
    BY <1>6, <2>1 DEF ExecutionFailed
  <2>2. CASE ~deadline
    <3>1. \A s \in Steps : outcome[s].err = "none"
      BY <1>6 DEF ExecutionFailed
    <3>2. Failing = {} /\ ~RunDone
      BY <1>6, <2>2, <3>1 DEF ExecutionFailed, Failing, Closing, RunDone
    <3>3. \A s \in Steps : status[s] = "finished"
      BY <1>5, <3>2, NobodySkippedForNothing DEF Ending, NobodyForgotten
    <3> QED BY <3>1, <3>2, <3>3 DEF AllCompleted, Reporting
  <2> QED BY <2>1, <2>2
<1>7. AllOrNothing'
  <2>1. CASE ExecutionFailed \/ Conflict
    BY <1>5, <2>1 DEF Settle, AllOrNothing
  <2>2. CASE ~(ExecutionFailed \/ Conflict)
    BY <1>6, <2>2 DEF Settle, AllOrNothing, AllCompleted
  <2> QED BY <2>1, <2>2
<1>8. Ending'
  BY <1>3, <1>5, <1>7 DEF Settle, Ending, NobodyForgotten, RunDone
<1> QED BY <1>1, <1>2, <1>3, <1>4, <1>8

(* The invariant is inductive.                                             *)
LEMMA NextGroupInv == GroupInv /\ [Next]_vars => GroupInv'
<1> SUFFICES ASSUME GroupInv, [Next]_vars PROVE GroupInv'
  OBVIOUS
<1>1. CASE UNCHANGED vars
  <2> USE <1>1 DEF vars, GroupInv
  <2>1. Ordered' /\ Counted' /\ Room' /\ Failing' = Failing /\ Running' = Running
    BY SameBooks
  <2>2. TypeOK' /\ Valid(group)' /\ Reporting'
    BY DEF TypeOK, Reporting, RunDone
  <2>3. Closing' /\ Ending'
    BY <2>1 DEF Closing, Ending, NobodyForgotten, AllOrNothing, AllCompleted, RunDone
  <2> QED BY <2>1, <2>2, <2>3
<1>2. ASSUME NEW s \in Steps, BranchRuns(s) PROVE GroupInv'
  BY <1>2, BranchBeginsKeeps, BranchEndsKeeps DEF BranchRuns
<1>3. CASE Schedule
  BY <1>3, StartKeeps, ReceiveKeeps, LoopEndsKeeps, SettleKeeps DEF Schedule
<1> QED BY <1>1, <1>2, <1>3, ContextEndKeeps DEF Next, Terminated

-----------------------------------------------------------------------------
(* The invariant holds of every valid group of any size, for every limit,  *)
(* and however its steps, its timeout and its surroundings end.            *)
THEOREM Invariance == Spec => []GroupInv
  BY InitGroupInv, NextGroupInv, PTL DEF Spec

(* Every variable of runConcurrentGraph keeps its type: above all the      *)
(* count of unsatisfied edges never falls below zero.                      *)
THEOREM TypeCorrect == Spec => []TypeOK
<1>1. GroupInv => TypeOK
  BY DEF GroupInv
<1> QED BY <1>1, Invariance, PTL

(* What the invariant says of the properties that are checked.             *)
LEMMA SafetyFollows == GroupInv => Safety
<1> SUFFICES ASSUME GroupInv PROVE Safety
  OBVIOUS
<1> USE DEF GroupInv
<1>1. Bounded
  <2>1. {s \in Steps : branch[s] # "none" /\ status[s] # "finished"} = Running
    BY DEF Reporting, Running, TypeOK
  <2> QED BY <2>1 DEF Bounded, Room
<1>2. EdgesRespected
  BY DEF EdgesRespected, Ordered, MayBegin, Broken, Reporting, TypeOK
<1>3. NobodyForgotten /\ AllOrNothing
  BY DEF Ending
<1> QED BY <1>1, <1>2, <1>3 DEF Safety

(* max_concurrency bounds, edges order and skip, no branch is forgotten,   *)
(* and no group commits in part.                                           *)
THEOREM SafeAlways == Spec => []Safety
  BY SafetyFollows, Invariance, PTL

(* Only Start makes a goroutine, and admission is closed by then.          *)
LEMMA StartsOnlyUnlessClosed ==
  ASSUME GroupInv, [Next]_vars, Failing # {}, group.failFast, NEW s \in Steps, branch[s] = "none"
  PROVE  branch'[s] = "none"
<1> USE DEF GroupInv
<1>1. ~Start
  BY DEF Start, MayStart, Closing
<1>2. ASSUME NEW t \in Steps, BranchBegins(t) PROVE branch'[s] = "none"
  BY <1>2 DEF BranchBegins, TypeOK
<1>3. ASSUME NEW t \in Steps, NEW err, NEW w, BranchEnds(t, err, w) PROVE branch'[s] = "none"
  BY <1>3 DEF BranchEnds, TypeOK
<1>4. ASSUME NEW t \in Steps, Receive(t) PROVE branch' = branch
  BY <1>4 DEF Receive
<1>5. ASSUME LoopEnds \/ Settle \/ DeadlineFires \/ ParentEnds \/ UNCHANGED vars
      PROVE  branch' = branch
  BY <1>5 DEF LoopEnds, Settle, DeadlineFires, ParentEnds, vars
<1> QED BY <1>1, <1>2, <1>3, <1>4, <1>5 DEF Next, Schedule, BranchRuns, Terminated

(* With fail_fast no goroutine is created once a failure was received      *)
(* (concurrent.go:167-174).                                                *)
THEOREM FailFastCloses == Spec => NothingStartsAfterFailure
<1> DEFINE Kept == (\E s \in Steps : status[s] = "finished" /\ outcome[s].err # "none") /\ group.failFast
                     => \A s \in Steps : branch[s] = "none" => branch'[s] = "none"
<1>1. GroupInv /\ [Next]_vars => [Kept]_vars
  BY StartsOnlyUnlessClosed DEF Failing
<1> QED BY <1>1, Invariance, PTL DEF Spec, NothingStartsAfterFailure
=============================================================================
