--------------------------- MODULE ExclusiveLock ---------------------------
(***************************************************************************)
(* What internal/filelock promises its callers: at any time at most one    *)
(* acquirer is inside the section between a successful acquire and the     *)
(* first effect of Release (or the crash that ends it).                    *)
(***************************************************************************)
CONSTANTS Procs, Nobody

VARIABLE holder

Init == holder = Nobody

Take(p) == holder = Nobody /\ holder' = p

Drop(p) == holder = p /\ holder' = Nobody

Next == \E p \in Procs : Take(p) \/ Drop(p)

Spec == Init /\ [][Next]_holder
=============================================================================
