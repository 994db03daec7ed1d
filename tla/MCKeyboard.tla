----------------------------- MODULE MCKeyboard -----------------------------
(***************************************************************************)
(* Model-checking instances of Keyboard.                                   *)
(***************************************************************************)
EXTENDS Keyboard
=============================================================================
