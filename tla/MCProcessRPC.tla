---------------------------- MODULE MCProcessRPC -----------------------------
(* One call to a worker that restarts once, and one to a pool of that      *)
(* worker and another.                                                     *)
EXTENDS ProcessRPC, TLC

CONSTANTS c1, c2, w1, w2

SinglesAndPool == (c1 :> <<w1>>) @@ (c2 :> <<w2, w1>>)
OneRestart == (w1 :> 2) @@ (w2 :> 1)
=============================================================================
