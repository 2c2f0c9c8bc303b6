------------------------- MODULE MCObserveScheduler -------------------------
(***************************************************************************)
(* Observers that differ in their policy, their source and their body.     *)
(***************************************************************************)
EXTENDS ObserveScheduler

Observer(change, tolerant, debounce, keep, trigger, endless, faulty) ==
  [change |-> change, tolerant |-> tolerant, debounce |-> debounce, keep |-> keep,
   trigger |-> trigger, endless |-> endless, faulty |-> faulty]

Observers ==
  { Observer("restart", FALSE, TRUE,  "all",    "change", TRUE,  FALSE),
    Observer("restart", TRUE,  FALSE, "latest", "change", TRUE,  TRUE),
    Observer("queue",   TRUE,  TRUE,  "latest", "change", FALSE, TRUE),
    Observer("queue",   FALSE, TRUE,  "all",    "change", FALSE, TRUE),
    Observer("queue",   FALSE, FALSE, "latest", "always", FALSE, FALSE),
    Observer("skip",    FALSE, TRUE,  "all",    "change", FALSE, FALSE),
    Observer("skip",    FALSE, FALSE, "latest", "always", FALSE, FALSE) }
=============================================================================
