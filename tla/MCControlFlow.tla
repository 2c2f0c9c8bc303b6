--------------------------- MODULE MCControlFlow ----------------------------
(***************************************************************************)
(* Six workflows: blocks, an early return inside an executor; a try with   *)
(* cleanup; a try in a loop; a race in an attempt; a polled attempt and    *)
(* one that bounds a cleanup step; an attempt in a loop, whose iterations  *)
(* hold the same resource.  What a node does not declare is that of a      *)
(* plain step.                                                             *)
(***************************************************************************)
EXTENDS ControlFlow

Plain == [kind |-> "step", main |-> <<>>, rest |-> <<>>, defers |-> <<>>, max |-> 1, traits |-> {}]
Complete(tree) == [n \in DOMAIN tree |-> tree[n] @@ Plain]

Executing ==
  [run1 |-> [kind |-> "run", main |-> <<"a1", "ex1", "z1">>, rest |-> <<"f1">>],
   a1 |-> [defers |-> <<"da1", "db1">>, traits |-> {"fails", "acquires"}],
   da1 |-> [traits |-> {"fails"}], db1 |-> [kind |-> "step"],
   ex1 |-> [kind |-> "executor", main |-> <<"x1", "if1", "y1">>, rest |-> <<"fin1">>,
            traits |-> {"fails"}],
   x1 |-> [defers |-> <<"dx1">>, traits |-> {"fails", "skips"}], dx1 |-> [kind |-> "step"],
   if1 |-> [kind |-> "block", main |-> <<"w1", "ret1">>, traits |-> {"skips"}],
   w1 |-> [defers |-> <<"dw1">>], dw1 |-> [traits |-> {"fails"}],
   ret1 |-> [kind |-> "return", traits |-> {"skips"}], y1 |-> [kind |-> "step"],
   fin1 |-> [kind |-> "block", main |-> <<"g1", "h1">>], g1 |-> [kind |-> "step"], h1 |-> [kind |-> "step"],
   z1 |-> [traits |-> {"acquires"}], f1 |-> [traits |-> {"fails"}]]

Catching ==
  [run2 |-> [kind |-> "run", main |-> <<"try2", "z2">>, rest |-> <<"f2">>],
   try2 |-> [kind |-> "try", main |-> <<"t2", "u2">>, rest |-> <<"c2", "e2">>, traits |-> {"skips"}],
   t2 |-> [defers |-> <<"dt2">>, traits |-> {"acquires"}], dt2 |-> [traits |-> {"fails"}],
   u2 |-> [traits |-> {"fails"}],
   c2 |-> [defers |-> <<"dc2">>, traits |-> {"fails", "skips"}], dc2 |-> [kind |-> "step"],
   e2 |-> [traits |-> {"skips"}], z2 |-> [traits |-> {"fails"}], f2 |-> [kind |-> "step"]]

Looping ==
  [run3 |-> [kind |-> "run", main |-> <<"a3", "loop3">>, rest |-> <<"att3">>],
   a3 |-> [defers |-> <<"da3">>, traits |-> {"acquires", "fails"}], da3 |-> [kind |-> "step"],
   loop3 |-> [kind |-> "loop", main |-> <<"try3", "b3">>, max |-> 2, traits |-> {"timeout"}],
   try3 |-> [kind |-> "try", main |-> <<"t3">>, rest |-> <<"c3">>],
   t3 |-> [traits |-> {"fails", "acquires"}], c3 |-> [traits |-> {"skips"}],
   b3 |-> [traits |-> {"fails"}],
   att3 |-> [kind |-> "attempt", main |-> <<"p3">>, max |-> 2, traits |-> {"timeout"}],
   p3 |-> [traits |-> {"fails"}]]

Racing ==
  [run4 |-> [kind |-> "run", main |-> <<"att4", "z4">>, rest |-> <<"f4">>],
   att4 |-> [kind |-> "attempt", main |-> <<"a4", "race4">>, defers |-> <<"d4">>, max |-> 2,
             traits |-> {"timeout", "elapsed"}],
   a4 |-> [traits |-> {"acquires", "fails"}], d4 |-> [kind |-> "step"],
   race4 |-> [kind |-> "race", main |-> <<"body4", "mon4">>, traits |-> {"fails"}],
   body4 |-> [kind |-> "branch", main |-> <<"b4", "e4">>, traits |-> {"fails"}],
   b4 |-> [traits |-> {"acquires"}], e4 |-> [kind |-> "step"],
   mon4 |-> [kind |-> "branch", main |-> <<"m4">>],
   m4 |-> [traits |-> {"acquires", "skips", "fails"}],
   z4 |-> [kind |-> "step"], f4 |-> [kind |-> "step"]]

Polling ==
  [run5 |-> [kind |-> "run", main |-> <<"wt5", "z5">>],
   wt5 |-> [kind |-> "worktree", main |-> <<"att5">>, traits |-> {"fails"}],
   att5 |-> [kind |-> "attempt", main |-> <<"inner5", "q5">>, defers |-> <<"d5">>, max |-> 2,
             traits |-> {"until", "elapsed", "when", "fails", "timeout"}],
   inner5 |-> [kind |-> "attempt", main |-> <<"p5">>, max |-> 2, traits |-> {"timeout"}],
   p5 |-> [traits |-> {"acquires", "fails"}], q5 |-> [traits |-> {"acquires"}],
   d5 |-> [kind |-> "step"], z5 |-> [kind |-> "step"]]

Repeating ==
  [run7 |-> [kind |-> "run", main |-> <<"a7", "loop7">>],
   a7 |-> [traits |-> {"acquires"}],
   loop7 |-> [kind |-> "loop", main |-> <<"att7">>, max |-> 2],
   att7 |-> [kind |-> "attempt", main |-> <<"p7", "q7">>, max |-> 2],
   p7 |-> [traits |-> {"acquires"}], q7 |-> [traits |-> {"fails"}]]

Workflows == Complete(Executing @@ Catching @@ Looping @@ Racing @@ Polling @@ Repeating)
Runs == {"run1", "run2", "run3", "run4", "run5", "run7"}

(* An attempt with cleanup of its own, inside a loop.                      *)
Dropping ==
  Complete([run6 |-> [kind |-> "run", main |-> <<"loop6">>],
            loop6 |-> [kind |-> "loop", main |-> <<"att6">>],
            att6 |-> [kind |-> "attempt", main |-> <<"p6">>, defers |-> <<"d6">>, max |-> 2],
            p6 |-> [traits |-> {"fails"}], d6 |-> [kind |-> "step"]])
DroppingRun == {"run6"}

(* An attempt in an executor, with a return in cleanup of its own, as the  *)
(* validation of attempts lets it stand.                                   *)
Returning ==
  Complete([run8 |-> [kind |-> "run", main |-> <<"ex8", "z8">>],
            ex8 |-> [kind |-> "executor", main |-> <<"att8">>],
            att8 |-> [kind |-> "attempt", main |-> <<"p8">>, defers |-> <<"ret8">>],
            p8 |-> [kind |-> "step"], ret8 |-> [kind |-> "return"], z8 |-> [kind |-> "step"]])
ReturningRun == {"run8"}

(* What the proof of OnlyCleanupStarts asks of a workflow holds of the six.*)
ASSUME ReturnsInTheOpen == Tree = Workflows => NoReturnDeferred
=============================================================================
