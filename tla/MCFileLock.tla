----------------------------- MODULE MCFileLock -----------------------------
(***************************************************************************)
(* Two callers, each of which may call, crash and call again: a caller     *)
(* that comes back plays the third one, who creates and locks a new file   *)
(* while the other still waits on the deleted one.  Inodes are as many as  *)
(* Procs: a caller about to create the file has none open and the path     *)
(* names none, so a fresh one is left even when every other caller keeps   *)
(* an unlinked one.                                                        *)
(***************************************************************************)
EXTENDS FileLock

InodesSuffice == Cardinality(Inodes) >= Cardinality(Procs)

ASSUME InodesSuffice
=============================================================================
