------------------------------- MODULE MCSmp -------------------------------
(***************************************************************************)
(* Model-checking instances of Smp: stacks of two pages.                   *)
(***************************************************************************)
EXTENDS Smp
=============================================================================
