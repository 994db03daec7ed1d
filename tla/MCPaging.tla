------------------------------ MODULE MCPaging ------------------------------
(***************************************************************************)
(* Model-checking instance of Paging.  Low memory is the first 2M page,    *)
(* where main memory begins as well; one device has the second, others 4K  *)
(* pages in the third; a range of two pages gets all of the fourth, over a *)
(* 4K page in it; the heap and the stacks have the fifth and the seventh,  *)
(* under another entry of the topmost table.                               *)
(***************************************************************************)
EXTENDS Paging

MCRanges4k == {<<2, 1>>, <<2 * PT, 2>>, <<3 * PT, 1>>}
MCRanges2m == {<<PT, PT>>, <<3 * PT, 2>>}
MCAllocated == {<<6 * PT, 2>>}
MCFaulting == {4 * PT, 4 * PT + 1, 6 * PT + 1, 6 * PT + 2}
=============================================================================
