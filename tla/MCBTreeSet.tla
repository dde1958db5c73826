----------------------------- MODULE MCBTreeSet -----------------------------
(***************************************************************************)
(* BTreeSet of order 4 around trees of one, two and three levels.  17 is   *)
(* the least number of values of a third level.                            *)
(***************************************************************************)
EXTENDS BTreeSet

\* Handle h has key h; the last handle has the key of another one, 9.
MCHandles == 1..24

MCKey == [h \in MCHandles |-> IF h = 24 THEN 9 ELSE h]

Up(n) == [i \in 1..n |-> i]
Down(n) == [i \in 1..n |-> 24 - i]

MCSepts == 1..16

\* From both ends towards the middle.
Inward(n) == [i \in 1..n |-> IF i % 2 = 1 THEN (i + 1) \div 2 ELSE 24 - i \div 2]

MCLoads == {Up(n) : n \in {3, 17, 22}} \cup {Down(n) : n \in {5, 9, 21}}
           \cup {Inward(n) : n \in {11, 19}}
=============================================================================
