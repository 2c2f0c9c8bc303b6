--------------------------- MODULE MCKeyValueStore ---------------------------
(***************************************************************************)
(* Two clients on two keys with two values, which Update swaps: a lost     *)
(* update leaves the value as it was and a List of a half-written map      *)
(* would show.                                                             *)
(***************************************************************************)
EXTENDS KeyValueStore

CONSTANTS v1, v2

MCValues == {v1, v2}

MCMutate(v) == IF v = v2 THEN v1 ELSE v2
=============================================================================
