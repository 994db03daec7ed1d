------------------------------ MODULE MCMemMap ------------------------------
(***************************************************************************)
(* Model-checking instances of MemMap: maps with a gap, with two ranges    *)
(* that touch, and with none.                                              *)
(***************************************************************************)
EXTENDS MemMap

BootRange(a, n) == [addr |-> a, size |-> n, type |-> Boot]

MCBootMaps == {<<>>,
               <<BootRange(1, 3)>>,
               <<BootRange(0, 2), BootRange(2, 2)>>,
               <<BootRange(0, 1), BootRange(3, 2)>>}
=============================================================================
