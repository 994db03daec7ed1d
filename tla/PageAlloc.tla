----------------------------- MODULE PageAlloc -----------------------------
(***************************************************************************)
(* What the page manager promises its clients (mem.c and the tests): a     *)
(* pool of pages from which a page is lent to one client at a time, the    *)
(* lowest free one first, and "no page" only when every page is lent out.  *)
(***************************************************************************)
EXTENDS Integers

CONSTANTS Pages,    \* the pages the manager was given, numbered from 0
          NoPage    \* the answer when none is free

VARIABLES avail,    \* pages not lent out
          answer    \* the last answer of the manager

Init == /\ avail = Pages
        /\ answer = NoPage

\* Lend the lowest free page.
Lend == \E p \in avail : /\ \A q \in avail : p <= q
                         /\ avail' = avail \ {p}
                         /\ answer' = p

\* Every page is lent: the answer is NoPage.
Refuse == /\ avail = {}
          /\ answer' = NoPage
          /\ UNCHANGED avail

\* A client gives a page back.
GiveBack == \E p \in Pages \ avail : /\ avail' = avail \cup {p}
                                     /\ UNCHANGED answer

Next == Lend \/ Refuse \/ GiveBack

Spec == Init /\ [][Next]_<<avail, answer>>
=============================================================================
