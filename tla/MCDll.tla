------------------------------- MODULE MCDll -------------------------------
(***************************************************************************)
(* Model-checking instances of Dll.                                        *)
(***************************************************************************)
EXTENDS Dll, TLC

\* Nodes and lists are told apart by nothing but their identity.
Symmetry == Permutations(Nodes) \cup Permutations(Lists)
=============================================================================
