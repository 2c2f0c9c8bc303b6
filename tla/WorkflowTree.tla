---------------------------- MODULE WorkflowTree ----------------------------
(***************************************************************************)
(* Declared workflows as trees of steps, what validation accepts of them   *)
(* (workflow/structure_validation.go), and which scope each step's cleanup *)
(* belongs to (deferStack.collect of engine/defer.go).  ControlFlow runs   *)
(* them.                                                                   *)
(*                                                                         *)
(* A node is a step:                                                       *)
(*   run       a workflow: its steps and its finally                       *)
(*   step      an ordinary step; it may declare defers                     *)
(*   return    an early return                                             *)
(*   block     an env, wd or if block, transparent to everything here      *)
(*   executor  steps and finally against an open session                   *)
(*   worktree  steps in a temporary worktree                               *)
(*   try       try and catch steps                                         *)
(*   attempt   a retried or polled body; it may declare defers             *)
(*   loop      a body repeated in place                                    *)
(*   race      a cancel_on: branches, the first of them its body           *)
(*   branch    a participant of a race                                     *)
(* main is its body, rest the finally or the catch, defers the cleanup     *)
(* attached to it, max its max_attempts or max_iterations, and traits what *)
(* may happen to it.                                                       *)
(***************************************************************************)
EXTENDS Naturals, SequencesExt

CONSTANTS Tree,                \* every node of every workflow, by name
          Roots                \* the workflows: nodes of kind "run"

Nodes == DOMAIN Tree

Kinds == {"run", "step", "return", "block", "executor", "worktree", "try", "attempt",
          "loop", "race", "branch"}

Traits == {"fails", "skips", "acquires", "timeout", "elapsed", "until", "when"}

Kind(n) == Tree[n].kind
Has(n, trait) == trait \in Tree[n].traits

Children(n) == UNION {Range(Tree[n][part]) : part \in {"main", "rest", "defers"}}
Declarer(n) == CHOOSE m \in Nodes : n \in Children(m)

(* run, executeExecutorBlock, executeWorktreeBlock and executeTryCatch     *)
(* each make a deferStack.                                                 *)
OwnsDefers(n) == Kind(n) \in {"run", "executor", "worktree", "try"}

Scope[n \in Nodes] == IF OwnsDefers(n) THEN n ELSE Scope[Declarer(n)]

(* A node and the nodes it is declared in.                                 *)
Around[n \in Nodes] == {n} \cup IF n \in Roots THEN {} ELSE Around[Declarer(n)]

(* The handler a node returns to: the cleanup attached to a step is run by *)
(* the scope the step stands in.                                           *)
Parent == [n \in Nodes \ Roots |->
             IF n \in Range(Tree[Declarer(n)].defers) THEN Scope[Declarer(n)] ELSE Declarer(n)]

(* A node and everything it stands in.                                     *)
Within[n \in Nodes] == {n} \cup IF n \in Roots THEN {} ELSE Within[Parent[n]]
Under == [n \in Nodes |-> {m \in Nodes : n \in Within[m]}]

(* The deferStack of a scope: its owners in declaration order.  collect    *)
(* descends into transparent blocks only.                                  *)
Collect[n \in Nodes] ==
  IF Kind(n) = "block"
  THEN FlattenSeq([i \in DOMAIN Tree[n].main |-> Collect[Tree[n].main[i]]])
  ELSE IF Kind(n) \in {"executor", "worktree"} \/ Tree[n].defers = <<>> THEN <<>> ELSE <<n>>

Stack(s) ==
  LET steps == Tree[s].main \o (IF Kind(s) = "try" THEN Tree[s].rest ELSE <<>>)
  IN  FlattenSeq([i \in DOMAIN steps |-> Collect[steps[i]]])

(* The cleanupScope managed resources are registered with: an attempt has  *)
(* one for each pass.                                                      *)
Keeper == [n \in Nodes |->
             CHOOSE m \in Within[n] :
               /\ Kind(m) \in {"run", "attempt"} /\ (m # n \/ n \in Roots)
               /\ \A other \in Within[n] \ {n} :
                    Kind(other) \in {"run", "attempt"} => other \in Within[m]]

-----------------------------------------------------------------------------
(* Validation: the scopes of validateSteps, without the concurrent one.    *)
StepScopes == {"top", "control", "finally", "defer", "executor", "executorControl",
               "executorFinally", "executorDefer"}
Cleanup == {"finally", "defer", "executorFinally", "executorDefer"}
InExecutor == {"executor", "executorControl", "executorFinally", "executorDefer"}

(* What stands below a node outside any cleanup (tryCatchContainsForbidden *)
(* and attemptContainsReturn skip it).                                     *)
Body[n \in Nodes] ==
  LET next == Range(Tree[n].main) \cup (IF Kind(n) = "try" THEN Range(Tree[n].rest) ELSE {})
  IN  next \cup UNION {Body[m] : m \in next}

Proper(n) == Under[n] \ {n}
Declares(nodes) == \E m \in nodes : Tree[m].defers # <<>>

(* What a step asks of the scope it stands in and of the steps in it.      *)
Accepts(n, scope, below) ==
  LET All(steps, inner) == \A i \in DOMAIN steps : below[steps[i]][inner]
  IN CASE Kind(n) = "run" -> All(Tree[n].main, "top") /\ All(Tree[n].rest, "finally")
       [] Kind(n) = "return" -> scope \in {"top", "executor"}
       [] Kind(n) \in {"block", "branch", "worktree"} -> All(Tree[n].main, scope)
       [] Kind(n) = "executor" ->
            scope = "top" /\ All(Tree[n].main, "executor") /\ All(Tree[n].rest, "executorFinally")
       [] Kind(n) = "try" ->
            /\ scope \notin Cleanup /\ Tree[n].rest # <<>>
            /\ \A m \in Body[n] : Kind(m) \notin {"try", "return"}
            /\ All(Tree[n].main, scope) /\ All(Tree[n].rest, scope)
       [] Kind(n) = "race" ->
            /\ scope \notin InExecutor /\ ~Declares(Proper(n))
            /\ \A m \in Proper(n) : Kind(m) \notin {"race", "try", "return"}
            /\ All(Tree[n].main, scope)
       [] Kind(n) = "loop" ->
            /\ scope \in {"top", "executor"}
            /\ All(Tree[n].main, IF scope = "top" THEN "control" ELSE "executorControl")
       [] Kind(n) = "attempt" ->        \* its own defers are not looked at
            /\ ~Declares(UNION {Under[m] : m \in Range(Tree[n].main)})
            /\ \A m \in Body[n] : Kind(m) # "return"
            /\ All(Tree[n].main, scope)
       [] Kind(n) = "step" ->
            Tree[n].defers # <<>> =>
              /\ scope \in {"top", "executor"}
              /\ All(Tree[n].defers, IF scope = "top" THEN "defer" ELSE "executorDefer")

Accepted[n \in Nodes] == [scope \in StepScopes |-> Accepts(n, scope, Accepted)]

ASSUME TreeAssumption ==
  /\ \A n \in Nodes : /\ Kind(n) \in Kinds /\ Tree[n].traits \subseteq Traits
                      /\ Tree[n].max \in Nat \ {0}
                      /\ Kind(n) \in {"step", "attempt"} \/ Tree[n].defers = <<>>
  /\ Roots = {n \in Nodes : Kind(n) = "run"}
  /\ \A r \in Roots : Accepted[r]["top"]

(* No return stands in the defers of an attempt, where validation does not *)
(* look for it.                                                            *)
NoReturnDeferred ==
  \A n \in Nodes : Kind(n) = "return" =>
    \A a \in Around[n] : Kind(a) = "attempt" => Range(Tree[a].defers) \cap Around[n] = {}

(* A workflow is a finite tree: a step is declared at one place, not       *)
(* within itself, and only blocks have bodies.                             *)
ASSUME TreeShape ==
  /\ IsFiniteSet(Nodes)
  /\ \A n \in Nodes :
       /\ {Tree[n].main, Tree[n].rest, Tree[n].defers} \subseteq Seq(Nodes \ Roots)
       /\ IsInjective(Tree[n].main \o Tree[n].rest \o Tree[n].defers)
       /\ Kind(n) \in {"step", "return"} => Tree[n].main = <<>>
       /\ Tree[n].rest # <<>> => Kind(n) \in {"run", "executor", "try"}
       /\ \A m \in Children(n) :
            Kind(m) = "branch" <=> Kind(n) = "race" /\ m \in Range(Tree[n].main)
  /\ \A n \in Nodes \ Roots :
       /\ \E m \in Nodes : n \in Children(m)
       /\ n \notin Around[Declarer(n)]
  /\ \A n, m \in Nodes : n # m => Children(n) \cap Children(m) = {}
=============================================================================
