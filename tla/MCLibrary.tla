----------------------------- MODULE MCLibrary -----------------------------
(***************************************************************************)
(* Model-checking instance of Library: two letters, integers of 4 and 6    *)
(* bits, two buses of two devices with three functions each.               *)
(***************************************************************************)
EXTENDS Library

MCLetters == {2, 3}
MCMagnitudes == {0, 1, 7, 8, 9, 15, 31, 32, 33, 35, 63, 64, 65, 130}
MCWidths == {NULL, 0, 2, 5}
MCSlotBuses == {0, 1}
MCBarValues == 0..63
=============================================================================
