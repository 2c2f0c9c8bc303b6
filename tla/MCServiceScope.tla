--------------------------- MODULE MCServiceScope ----------------------------
(***************************************************************************)
(* Two services in a scope that may be cancelled from outside, ended by    *)
(* itself or by an outer scope, or hit by the failure of an outer one's    *)
(* service.                                                                *)
(***************************************************************************)
EXTENDS ServiceScope

(* A fail-fast service that seal ends with the foreground, and one that    *)
(* holds its scope open and ends it by exiting.                            *)
TwoPolicies == {{"exit_on_failure"}, {"keep_alive", "exit_on_end"}}
=============================================================================
