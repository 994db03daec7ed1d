------------------------------- MODULE MCPgm -------------------------------
(***************************************************************************)
(* Model-checking instances of Pgm.  Scale: a word of 4 bits, a page of 4  *)
(* words, a header of one word.                                            *)
(***************************************************************************)
EXTENDS Pgm
=============================================================================
