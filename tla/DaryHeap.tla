------------------------------ MODULE DaryHeap ------------------------------
(***************************************************************************)
(* dary_heap (include/dasynq/daryheap.h), the priority queue behind the    *)
(* event queue and the timer queues, on the vector svector                 *)
(* (include/dasynq/svec.h).  A handle is allocated, which reserves room in *)
(* the vector, and then inserted and removed any number of times without   *)
(* allocating.  What becomes of the vector is in HeapVector.               *)
(***************************************************************************)
EXTENDS HeapVector, FiniteSets

CONSTANT
    MaxSize     \* hvec.max_size()

ASSUME HeapAssumption ==
    /\ N \in Nat \ {0} /\ MaxSize \in Nat \ {0}
    /\ Prios \subseteq Int /\ IsFiniteSet(Handles)

VARIABLES
    hvec,           \* sequence of [prio, hnd]: the heap
    heap_index,     \* [Handles -> position, or NotQueued]
    allocated,      \* SUBSET Handles: between allocate() and deallocate()
    num_nodes,      \* count of allocated handles
    capacity        \* hvec.capacity()

heapVars == <<hvec, heap_index, allocated, num_nodes, capacity>>

HeapInit ==
    /\ hvec = << >>
    /\ heap_index = [h \in Handles |-> NotQueued]
    /\ allocated = {}
    /\ num_nodes = 0
    /\ capacity = 0

-----------------------------------------------------------------------------
(* Handles.                                                                *)

\* The capacity after allocate() has made room for n nodes: unchanged if it is
\* enough, else what is asked for first or, if the memory for that cannot be
\* had, just n.
reserved(n) ==
    IF capacity >= n THEN {capacity}
    ELSE {IF n < MaxSize \div 2 THEN n * 2 ELSE MaxSize, n}

\* When neither can be had, bad_alloc is thrown and nothing has changed.
allocate(h) ==
    /\ h \notin allocated
    /\ num_nodes # MaxSize
    /\ num_nodes' = num_nodes + 1
    /\ capacity' \in reserved(num_nodes + 1)
    /\ allocated' = allocated \cup {h}
    /\ heap_index' = [heap_index EXCEPT ![h] = NotQueued]
    /\ UNCHANGED hvec

\* Mutant: the vector is shrunk to half the nodes instead of twice their number.
shrunk_too_far(n) == IF n < capacity \div 4 THEN {n \div 2, capacity} ELSE {capacity}

\* The capacity after deallocate(): shrinking may fail for want of memory.
shrunk(n) == IF n < capacity \div 4 THEN {n * 2, capacity} ELSE {capacity}

deallocate(h) ==
    /\ h \in allocated /\ heap_index[h] = NotQueued
    /\ num_nodes' = num_nodes - 1
    /\ capacity' \in shrunk(num_nodes - 1)
    /\ allocated' = allocated \ {h}
    /\ UNCHANGED <<hvec, heap_index>>

-----------------------------------------------------------------------------
(* The heap.  Clients insert only allocated handles that are not queued.   *)

insert(h, p) ==
    LET r == inserted(hvec, heap_index, h, p) IN
    /\ h \in allocated /\ heap_index[h] = NotQueued
    /\ hvec' = r.vec
    /\ heap_index' = r.idx
    /\ UNCHANGED <<allocated, num_nodes, capacity>>

remove_h(pos) ==
    LET r == removed_h(hvec, heap_index, pos) IN
    hvec' = r.vec /\ heap_index' = r.idx

pull_root ==
    /\ hvec # << >>
    /\ remove_h(1)
    /\ UNCHANGED <<allocated, num_nodes, capacity>>

remove(h) ==
    /\ h \in allocated /\ heap_index[h] # NotQueued
    /\ remove_h(heap_index[h])
    /\ UNCHANGED <<allocated, num_nodes, capacity>>

set_priority(h, p) ==
    LET r == prioritised(hvec, heap_index, h, p) IN
    /\ h \in allocated /\ heap_index[h] # NotQueued
    /\ hvec' = r.vec
    /\ heap_index' = r.idx
    /\ UNCHANGED <<allocated, num_nodes, capacity>>

HeapNext ==
    \/ \E h \in Handles : allocate(h) \/ deallocate(h) \/ remove(h)
    \/ \E h \in Handles, p \in Prios : insert(h, p) \/ set_priority(h, p)
    \/ pull_root

HeapSpec == HeapInit /\ [][HeapNext]_heapVars

-----------------------------------------------------------------------------
\* Type invariant of the heap.
HeapTypeOK ==
    /\ hvec \in Seq([prio : Prios, hnd : Handles])
    /\ heap_index \in [Handles -> Nat \cup {NotQueued}]
    /\ allocated \in SUBSET Handles
    /\ num_nodes \in Nat /\ capacity \in Nat

\* A handle knows its position, so that remove() and set_priority() act on the
\* right node, and is_queued() tells the truth.
IndexAccurate ==
    /\ \A pos \in 1..Len(hvec) : heap_index[hvec[pos].hnd] = pos
    /\ \A h \in Handles :
          heap_index[h] # NotQueued =>
              heap_index[h] \in 1..Len(hvec) /\ hvec[heap_index[h]].hnd = h

\* insert() is noexcept: every allocated handle has room in the vector, over
\* any history of growing, shrinking and failed allocations.
RoomReserved == Len(hvec) <= num_nodes /\ num_nodes <= capacity

\* Only allocated handles are queued; they are counted, and fit.
QueuedIsAllocated == \A h \in Handles : heap_index[h] # NotQueued => h \in allocated

NodesCounted ==
    /\ num_nodes = Cardinality(allocated)
    /\ num_nodes <= capacity /\ num_nodes <= MaxSize

\* The inductive invariant behind IndexAccurate and RoomReserved.
HeapInv == HeapTypeOK /\ IndexAccurate /\ QueuedIsAllocated /\ NodesCounted

\* No node is more urgent than its parent.
HeapOrder == Ordered(hvec)

\* A priority changed to one that is not less urgent.
advance(h, p) == set_priority(h, p) /\ ~lt(hvec[heap_index[h]].prio, p)

\* insert() and pull_root() keep the heap in order, and so does set_priority() when
\* it makes a node more urgent.
OrderKept ==
    [][HeapOrder /\ (pull_root \/ \E h \in Handles, p \in Prios : insert(h, p) \/ advance(h, p))
        => HeapOrder']_heapVars

\* "the last node [is] bubbled up to the correct position": the root, which is
\* what the clients of the queue take next, is a most urgent node.
RootIsMinimum ==
    \A pos \in 1..Len(hvec) : ~lt(hvec[pos].prio, hvec[1].prio)

Queue == INSTANCE PrioQueue WITH
    entries <- {<<hvec[pos].hnd, hvec[pos].prio>> : pos \in 1..Len(hvec)}

\* However nodes are moved about, the heap holds what was inserted and not yet
\* removed, each handle once and with its priority.
ImplementsPrioQueue == Queue!Spec
=============================================================================
