------------------------------ MODULE MCFanOut -------------------------------
(***************************************************************************)
(* Three iterations with one or two slots: every policy, every way for the *)
(* bodies to end, and both contexts ending at every moment.                *)
(***************************************************************************)
EXTENDS FanOut
=============================================================================
