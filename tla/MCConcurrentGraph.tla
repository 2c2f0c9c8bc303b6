-------------------------- MODULE MCConcurrentGraph --------------------------
(***************************************************************************)
(* Every valid group of N steps: all acyclic combinations of needs and     *)
(* after edges, forward references included, with and without fail_fast    *)
(* and timeout.                                                            *)
(***************************************************************************)
EXTENDS ConcurrentGraph
=============================================================================
