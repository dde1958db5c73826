----------------------------- MODULE MCDaryHeap -----------------------------
(* A heap with a small fan-out and as many handles as give it three levels.*)
EXTENDS DaryHeap, TLC

CONSTANTS h1, h2, h3, h4, h5, h6

SixHandles   == {h1, h2, h3, h4, h5, h6}
ThreeHandles == {h1, h2, h3}
ThreePrios   == 1..3

HandleSymmetry == Permutations(Handles)
=============================================================================
