-------------------------- MODULE MCManagedProcess ---------------------------
(***************************************************************************)
(* Services that differ in what stops them and in what replaces them.      *)
(***************************************************************************)
EXTENDS ManagedProcess

Configuration(detached, command, stops, rpc, liveness, readiness, policy, max) ==
  [detached |-> detached, command |-> command, stops |-> stops, rpc |-> rpc, liveness |-> liveness,
   readiness |-> readiness, policy |-> policy, max |-> max]

Services ==
  { Configuration(FALSE, FALSE, TRUE,  TRUE,  FALSE, "log",   "always",     1),
    Configuration(FALSE, TRUE,  TRUE,  FALSE, TRUE,  "probe", "on_failure", 0),
    Configuration(FALSE, TRUE,  FALSE, FALSE, TRUE,  "none",  "on_failure", 1),
    Configuration(FALSE, FALSE, FALSE, FALSE, FALSE, "log",   "never",      0),
    Configuration(TRUE,  TRUE,  TRUE,  FALSE, TRUE,  "probe", "on_failure", 1),
    Configuration(TRUE,  TRUE,  FALSE, FALSE, FALSE, "log",   "always",     1) }
=============================================================================
