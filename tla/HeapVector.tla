----------------------------- MODULE HeapVector -----------------------------
(***************************************************************************)
(* The vector of a dary_heap (include/dasynq/daryheap.h): how nodes are    *)
(* stored, moved and found again through their handles.  A heap is here a  *)
(* value, the vector and the positions that the handles remember; DaryHeap *)
(* adds the handles' allocation, and Timers keeps its queue in one.        *)
(*                                                                         *)
(* Positions are 1..Len(v), one more than in the code.                     *)
(***************************************************************************)
EXTENDS Integers, Sequences

CONSTANTS
    N,          \* fan-out factor
    Handles,
    Prios       \* a set of numbers; smaller is more urgent

NotQueued == -1

parent(pos) == (pos - 2) \div N + 1

lchild(pos) == (pos - 1) * N + 2

lt(a, b) == a < b

lesser(a, b) == IF b < a THEN b ELSE a

-----------------------------------------------------------------------------
(* Moving a node to its place: the vector and the positions that result    *)
(* from storing node at pos of v or further down or up.                    *)

\* Mutant: the handles of displaced nodes are not updated.
bubble_down_unindexed(v, idx, at, node) ==
    LET down[pos \in 1..Len(v)] ==
          IF pos = 1 \/ ~lt(node.prio, v[parent(pos)].prio)
          THEN [vec |-> [v EXCEPT ![pos] = node], idx |-> [idx EXCEPT ![node.hnd] = pos]]
          ELSE LET r == down[parent(pos)] IN
               [r EXCEPT !.vec[pos] = v[parent(pos)]]
    IN  down[at]

\* Mutant: a displaced node is overwritten.
bubble_down_overwrites(v, idx, at, node) ==
    LET down[pos \in 1..Len(v)] ==
          IF pos = 1 \/ ~lt(node.prio, v[parent(pos)].prio)
          THEN [vec |-> [v EXCEPT ![pos] = node], idx |-> [idx EXCEPT ![node.hnd] = pos]]
          ELSE down[parent(pos)]
    IN  down[at]

\* Towards the root: parents with a larger priority value move out of the way.
bubble_down(v, idx, at, node) ==
    LET down[pos \in 1..Len(v)] ==
          IF pos = 1 \/ ~lt(node.prio, v[parent(pos)].prio)
          THEN [vec |-> [v EXCEPT ![pos] = node], idx |-> [idx EXCEPT ![node.hnd] = pos]]
          ELSE LET r == down[parent(pos)] IN
               [vec |-> [r.vec EXCEPT ![pos] = v[parent(pos)]],
                idx |-> [r.idx EXCEPT ![v[parent(pos)].hnd] = pos]]
    IN  down[at]

\* Mutant: the first child moves up, whatever the others are.
selchild_first(v, pos) == lchild(pos)

\* The child that moves up: the first or a later one with a smaller value.
\* The last position of the vector is looked at only as a first child.
selchild(v, pos) ==
    LET range == lchild(pos) .. (lesser(lchild(pos) + N, Len(v)) - 1) \cup {lchild(pos)}
    IN  CHOOSE c \in range :
            /\ \A d \in range : ~lt(v[d].prio, v[c].prio)
            /\ \A d \in range : d < c => lt(v[c].prio, v[d].prio)

\* Away from the root: smaller children move up.
bubble_up(v, idx, at, node) ==
    LET up[pos \in 1..Len(v)] ==
          IF lchild(pos) > Len(v) \/ ~lt(v[selchild(v, pos)].prio, node.prio)
          THEN [vec |-> [v EXCEPT ![pos] = node], idx |-> [idx EXCEPT ![node.hnd] = pos]]
          ELSE LET c == selchild(v, pos)
                   r == up[c]
               IN  [vec |-> [r.vec EXCEPT ![pos] = v[c]],
                    idx |-> [r.idx EXCEPT ![v[c].hnd] = pos]]
    IN  up[at]

-----------------------------------------------------------------------------
(* The operations, as the vector and the positions that they leave.        *)

\* insert() of handle h with priority p.
inserted(v, idx, h, p) ==
    LET node == [prio |-> p, hnd |-> h]
    IN  bubble_down(Append(v, node), idx, Len(v) + 1, node)

\* remove_h(): the last node takes the place of the removed one and moves away
\* from the root as far as necessary.
removed_h(v, idx, pos) ==
    LET idx0 == [idx EXCEPT ![v[pos].hnd] = NotQueued]
        r    == bubble_up(v, idx0, pos, v[Len(v)])
    IN  IF pos = Len(v)
        THEN [vec |-> SubSeq(v, 1, Len(v) - 1), idx |-> idx0]
        ELSE [vec |-> SubSeq(r.vec, 1, Len(v) - 1), idx |-> r.idx]

\* set_priority() of a queued handle.
prioritised(v, idx, h, p) ==
    LET pos  == idx[h]
        node == [prio |-> p, hnd |-> h]
        w    == [v EXCEPT ![pos] = node]
    IN  IF lt(v[pos].prio, p) THEN bubble_up(w, idx, pos, node)
                              ELSE bubble_down(w, idx, pos, node)

\* The handles' positions idx are right for the first m nodes of v.
Accurate(v, idx, m) ==
    /\ \A q \in 1..m : idx[v[q].hnd] = q
    /\ \A h \in Handles : idx[h] # NotQueued => idx[h] \in 1..m /\ v[idx[h]].hnd = h

\* No node is more urgent than its parent.
Ordered(v) == \A pos \in 2..Len(v) : ~lt(v[pos].prio, v[parent(pos)].prio)
=============================================================================
