------------------------------ MODULE BitScan ------------------------------
(***************************************************************************)
(* pgm_first_one of kernel/mem/pgm.c: the position of the lowest one bit   *)
(* of a 64-bit word, found by halving.  A word is the set of the positions *)
(* of its one bits, so that x & mask is an intersection and x >> k moves   *)
(* every position down by k and drops the ones that fall off.              *)
(***************************************************************************)
EXTENDS Integers

\* The positions of the bits of a uint64_t.
Bits64 == 0..63

\* x >> k
ShiftRight(x, k) == {b - k : b \in {c \in x : c >= k}}

(***************************************************************************)
(* One "if (!(x & low half)) { x = x >> k; i += k; }" of the function.     *)
(***************************************************************************)
Halve(s, k) ==
  IF s.x \cap 0..(k - 1) = {}
    THEN [x |-> ShiftRight(s.x, k), i |-> s.i + k]
    ELSE s

\* The state of the two locals after the six halvings.
Halved(x) ==
  Halve(Halve(Halve(Halve(Halve(Halve([x |-> x, i |-> 0],
    32), 16), 8), 4), 2), 1)

\* Mutant: the highest one bit.
pgm_first_one_Last(x) == CHOOSE b \in x : \A c \in x : c <= b

pgm_first_one(x) == IF Halved(x).x # {} THEN Halved(x).i ELSE -1
=============================================================================
