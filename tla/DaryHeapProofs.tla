--------------------------- MODULE DaryHeapProofs ---------------------------
(***************************************************************************)
(* Proofs about the d-ary heap, for any fan-out, any handles and           *)
(* priorities and any largest size.  What bubble_down() and bubble_up() do *)
(* is proved by induction along the nodes that they move.  The induction   *)
(* theorems of the library cannot be used for it, since they take an       *)
(* operator as parameter; LeastNat, which is about sets, takes their place.*)
(***************************************************************************)
EXTENDS DaryHeap, FiniteSetTheorems, FunctionTheorems, SequenceTheorems,
        WellFoundedInduction, TLAPS

-----------------------------------------------------------------------------
(* Induction.                                                              *)

\* A set of numbers has a least member.
LEMMA LeastNat ==
    ASSUME NEW T \in SUBSET Nat, T # {}
    PROVE  \E x \in T : \A y \in T : x <= y
<1>1. PICK R : R = OpToRel(<, Nat)
  OBVIOUS
<1>2. IsWellFoundedOn(R, Nat)
  BY <1>1, NatLessThanWellFounded
<1>3. PICK x \in T : \A y \in T : ~(<<y, x>> \in R)
  BY <1>2, WFMin
<1>4. \A i, j \in Nat : i < j => <<i, j>> \in R
  BY <1>1 DEF OpToRel
<1>5. \A y \in T : ~(y < x)
  BY <1>3, <1>4
<1>6. \A y \in T : x \in Nat /\ y \in Nat
  OBVIOUS
<1> QED BY <1>3, <1>5, <1>6

\* Strong induction over the numbers.
LEMMA StrongInduction ==
    ASSUME NEW S, \A n \in Nat : (\A k \in Nat : k < n => k \in S) => n \in S
    PROVE  \A n \in Nat : n \in S
<1> SUFFICES ASSUME NEW bad \in Nat, bad \notin S PROVE FALSE
  OBVIOUS
<1>1. PICK T : T = Nat \ S
  OBVIOUS
<1>2. PICK x \in T : \A y \in T : x <= y
  BY <1>1, LeastNat
<1>3. \A k \in Nat : k < x => k \in S
  BY <1>1, <1>2
<1> QED BY <1>1, <1>2, <1>3

-----------------------------------------------------------------------------
(* Moving nodes.  Both directions follow a path: while pos is not in stop, *)
(* the node at nxt[pos] moves to pos and leaves the hole behind; where the *)
(* path stops, the node is put.                                            *)

Placed(v, idx, node, pos) ==
    [vec |-> [v EXCEPT ![pos] = node], idx |-> [idx EXCEPT ![node.hnd] = pos]]

Pulled(r, v, pos, from) ==
    [vec |-> [r.vec EXCEPT ![pos] = v[from]], idx |-> [r.idx EXCEPT ![v[from].hnd] = pos]]

Moves(f, v, idx, node, nxt, stop) ==
    f = [pos \in 1..Len(v) |->
           IF pos \in stop THEN Placed(v, idx, node, pos)
           ELSE Pulled(f[nxt[pos]], v, pos, nxt[pos])]

\* A path that goes down in some numbering ends, so that the recursion defines a function.
LEMMA MovesExist ==
    ASSUME NEW v, NEW idx, NEW node, NEW stop, NEW bound \in Nat,
           NEW nxt \in [1..Len(v) -> 1..Len(v)], NEW rank \in [1..Len(v) -> Nat],
           \A p \in 1..Len(v) : rank[p] < bound,
           \A p \in 1..Len(v) : p \notin stop => rank[nxt[p]] < rank[p]
    PROVE  \E f : Moves(f, v, idx, node, nxt, stop)
<1> DEFINE D == 1..Len(v)
           B(p) == Placed(v, idx, node, p)
           P(r, p) == Pulled(r, v, p, nxt[p])
           Dn(n) == {q \in D : rank[q] < n}
           Body(g, p) == IF p \in stop THEN B(p) ELSE P(g[nxt[p]], p)
           S == {n \in Nat : \E g : g = [p \in Dn(n) |-> Body(g, p)]}
<1>0. /\ nxt \in [D -> D] /\ rank \in [D -> Nat] /\ \A p \in D : rank[p] < bound
      /\ \A p \in D : p \notin stop => rank[nxt[p]] < rank[p]
  OBVIOUS
<1>1. ASSUME NEW n \in Nat, \A k \in Nat : k < n => k \in S
      PROVE  n \in S
  <2> HIDE DEF D, B, P
  <2>1. CASE n = 0
    <3>1. Dn(0) = {}
      BY <1>0
    <3>2. PICK g : g = [p \in {} |-> 0]
      OBVIOUS
    <3>3. g = [p \in Dn(0) |-> Body(g, p)]
      BY <3>1, <3>2
    <3> QED BY <2>1, <3>3
  <2>2. CASE n # 0
    <3>1. n - 1 \in S
      <4> HIDE DEF S
      <4>1. n - 1 \in Nat /\ n - 1 < n
        BY <2>2
      <4> QED BY <1>1, <4>1
    <3>2. PICK g0 : g0 = [p \in Dn(n - 1) |-> Body(g0, p)]
      BY <3>1
    <3>3. PICK g : g = [p \in Dn(n) |-> IF rank[p] < n - 1 THEN g0[p] ELSE Body(g0, p)]
      OBVIOUS
    <3>4. ASSUME NEW p \in Dn(n - 1) PROVE g[p] = g0[p] /\ g0[p] = Body(g0, p)
      <4>1. p \in Dn(n) /\ rank[p] < n - 1
        BY <1>0
      <4>2. g[p] = g0[p]
        BY <3>3, <4>1
      <4> HIDE DEF Dn, Body
      <4>3. g0[p] = Body(g0, p)
        BY <3>2, Zenon
      <4> QED BY <4>2, <4>3
    <3>5. ASSUME NEW p \in Dn(n) PROVE g[p] = Body(g, p)
      <4>1. p \in stop \/ g[nxt[p]] = g0[nxt[p]]
        BY <1>0, <3>4, SMTT(30)
      <4>2. Body(g, p) = Body(g0, p)
        BY <4>1
      <4>3. CASE rank[p] < n - 1
        BY <3>4, <4>2, <4>3
      <4>4. CASE ~(rank[p] < n - 1)
        BY <3>3, <4>2, <4>4
      <4> QED BY <4>3, <4>4
    <3>6. g = [p \in Dn(n) |-> Body(g, p)]
      BY <3>3, <3>5
    <3> QED BY <3>6
  <2> QED BY <2>1, <2>2
<1>2. bound \in S
  <2> HIDE DEF S
  <2>1. \A n \in Nat : (\A k \in Nat : k < n => k \in S) => n \in S
    BY <1>1
  <2> QED BY <2>1, StrongInduction
<1>3. PICK f : f = [p \in Dn(bound) |-> Body(f, p)]
  BY <1>2
<1>4. Dn(bound) = D
  BY <1>0
<1> QED BY <1>3, <1>4 DEF Moves

Node == [prio : Prios, hnd : Handles]

\* The positions of D beyond p along the path's numbering.
Beyond(rank, D, p) == {q \in D : rank[q] < rank[p]}

\* What has been done to the vector v and the handles' positions idx when the hole at p
\* has been filled: nodes have moved among p and what is beyond, the node has been added
\* to them, and their handles know where they are.
Filled(r, v, idx, node, rank, D, p) ==
    /\ r.vec \in [1..Len(v) -> Node] /\ r.idx \in [Handles -> Int]
    /\ \A q \in 1..Len(v) : q \notin Beyond(rank, D, p) \cup {p} => r.vec[q] = v[q]
    /\ \A q \in Beyond(rank, D, p) \cup {p} :
         /\ r.idx[r.vec[q].hnd] = q
         /\ r.vec[q] = node \/ \E k \in Beyond(rank, D, p) : r.vec[q] = v[k]
    /\ \A k \in Beyond(rank, D, p) : \E q \in Beyond(rank, D, p) \cup {p} : r.vec[q] = v[k]
    /\ \E q \in Beyond(rank, D, p) \cup {p} : r.vec[q] = node
    /\ \A h \in Handles \ {node.hnd} :
         (\A k \in Beyond(rank, D, p) : v[k].hnd # h) => r.idx[h] = idx[h]

\* The positions of the nodes beyond p are known, and the node is not among them.
Indexed(v, idx, node, rank, D, p) ==
    \A q \in Beyond(rank, D, p) : idx[v[q].hnd] = q /\ v[q].hnd # node.hnd

\* Filling the hole where the path stops.
LEMMA PlacedFilled ==
    ASSUME NEW v \in Seq(Node), NEW idx \in [Handles -> Int], NEW node \in Node,
           NEW rank \in [1..Len(v) -> Nat], NEW D \in SUBSET (1..Len(v)), NEW p \in D,
           Indexed(v, idx, node, rank, D, p)
    PROVE  Filled(Placed(v, idx, node, p), v, idx, node, rank, D, p)
<1> DEFINE r == Placed(v, idx, node, p)
           W == Beyond(rank, D, p)
<1>a. v \in [1..Len(v) -> Node] /\ Len(v) \in Nat
  OBVIOUS
<1>b. p \in 1..Len(v)
  OBVIOUS
<1>0. W \subseteq 1..Len(v) /\ p \in 1..Len(v) /\ p \in Int /\ node.hnd \in Handles
  <2>1. W \subseteq D
    BY DEF Beyond
  <2>2. node.hnd \in Handles
    BY DEF Node
  <2>3. W \subseteq 1..Len(v)
    BY <2>1, Zenon
  <2>4. p \in Int
    BY <1>a, <1>b
  <2> QED BY <1>b, <2>2, <2>3, <2>4, Zenon
<1>1. r.vec = [v EXCEPT ![p] = node] /\ r.idx = [idx EXCEPT ![node.hnd] = p]
  BY DEF Placed
<1>2. \A q \in W : idx[v[q].hnd] = q /\ v[q].hnd # node.hnd /\ v[q].hnd \in Handles
  BY <1>0, <1>a DEF Indexed, Node
<1>3. r.vec[p] = node /\ r.idx[node.hnd] = p
  BY <1>0, <1>1, <1>a
<1>4. \A q \in 1..Len(v) : q # p => r.vec[q] = v[q]
  BY <1>1, <1>a
<1>5. \A h \in Handles \ {node.hnd} : r.idx[h] = idx[h]
  BY <1>1
<1>6. r.vec \in [1..Len(v) -> Node] /\ r.idx \in [Handles -> Int]
  BY <1>0, <1>1, <1>a
<1>7. p \notin W
  <2>1. rank[p] \in Nat
    BY <1>b
  <2> QED BY <2>1 DEF Beyond
<1> HIDE DEF r, W
<1>8. \A q \in W \cup {p} : r.idx[r.vec[q].hnd] = q
  BY <1>0, <1>2, <1>3, <1>4, <1>5, <1>7
<1>9. \A q \in W \cup {p} : r.vec[q] = node \/ \E k \in W : r.vec[q] = v[k]
  BY <1>0, <1>3, <1>4
<1>10. \A k \in W : \E q \in W \cup {p} : r.vec[q] = v[k]
  BY <1>0, <1>4, <1>7
<1> QED BY <1>3, <1>4, <1>5, <1>6, <1>8, <1>9, <1>10 DEF Filled, r, W

\* Filling the hole at p from n, when the hole that this leaves at n is filled.
LEMMA PulledFilled ==
    ASSUME NEW v \in Seq(Node), NEW idx \in [Handles -> Int], NEW node \in Node,
           NEW rank \in [1..Len(v) -> Nat], NEW D \in SUBSET (1..Len(v)), NEW p \in D,
           NEW n \in D, rank[n] < rank[p], Indexed(v, idx, node, rank, D, p),
           NEW r0, Filled(r0, v, idx, node, rank, D, n)
    PROVE  Filled(Pulled(r0, v, p, n), v, idx, node, rank, D, p)
<1> DEFINE r == Pulled(r0, v, p, n)
           W == Beyond(rank, D, p)
           W0 == Beyond(rank, D, n)
<1>1. /\ v \in [1..Len(v) -> Node] /\ Len(v) \in Nat
      /\ p \in 1..Len(v) /\ n \in 1..Len(v)
  OBVIOUS
<1>2. p \in Int /\ n \in Int /\ rank[p] \in Nat /\ rank[n] \in Nat
  BY <1>1
<1>3. W \subseteq 1..Len(v) /\ W0 \subseteq W /\ n \in W /\ p \notin W /\ n \notin W0
  <2>1. W \subseteq D
    BY DEF Beyond
  <2>2. W \subseteq 1..Len(v)
    BY <2>1, Zenon
  <2>3. \A q \in D : rank[q] \in Nat
    OBVIOUS
  <2>5. n \in W /\ p \notin W /\ n \notin W0
    BY <1>2 DEF Beyond
  <2>6. ASSUME NEW q \in W0 PROVE q \in W
    <3>1. q \in D /\ rank[q] < rank[n]
      BY DEF Beyond
    <3>2. rank[q] < rank[p]
      BY <1>2, <2>3, <3>1
    <3> QED BY <3>1, <3>2 DEF Beyond
  <2>4. W0 \subseteq W /\ n \in W /\ p \notin W /\ n \notin W0
    BY <2>5, <2>6
  <2> QED BY <2>2, <2>4
<1>4. \A q \in W : /\ idx[v[q].hnd] = q /\ v[q].hnd # node.hnd
                   /\ v[q] \in Node /\ v[q].hnd \in Handles
  BY <1>1, <1>3 DEF Indexed, Node
<1>5. \A k, l \in W : v[k].hnd = v[l].hnd => k = l
  <2> HIDE DEF W
  <2> QED BY <1>4
<1>6. r.vec = [r0.vec EXCEPT ![p] = v[n]] /\ r.idx = [r0.idx EXCEPT ![v[n].hnd] = p]
  BY DEF Pulled
<1>7. /\ r0.vec \in [1..Len(v) -> Node] /\ r0.idx \in [Handles -> Int]
      /\ \A q \in 1..Len(v) : q \notin W0 \cup {n} => r0.vec[q] = v[q]
      /\ \A q \in W0 \cup {n} :
           /\ r0.idx[r0.vec[q].hnd] = q
           /\ r0.vec[q] = node \/ \E k \in W0 : r0.vec[q] = v[k]
      /\ \A k \in W0 : \E q \in W0 \cup {n} : r0.vec[q] = v[k]
      /\ \E q \in W0 \cup {n} : r0.vec[q] = node
      /\ \A h \in Handles \ {node.hnd} :
           (\A k \in W0 : v[k].hnd # h) => r0.idx[h] = idx[h]
  BY DEF Filled
<1>8. /\ r.vec \in [1..Len(v) -> Node] /\ r.idx \in [Handles -> Int]
      /\ r.vec[p] = v[n] /\ r.idx[v[n].hnd] = p
      /\ \A q \in 1..Len(v) : q # p => r.vec[q] = r0.vec[q]
      /\ \A h \in Handles : h # v[n].hnd => r.idx[h] = r0.idx[h]
  <2> HIDE DEF r, W, W0
  <2> QED BY <1>1, <1>2, <1>3, <1>4, <1>6, <1>7
<1> HIDE DEF r, W, W0
<1>9. \A q \in 1..Len(v) : q \notin W \cup {p} => r.vec[q] = v[q]
  BY <1>3, <1>7, <1>8
<1>10. ASSUME NEW q \in W \cup {p}
       PROVE  /\ r.idx[r.vec[q].hnd] = q
              /\ r.vec[q] = node \/ \E k \in W : r.vec[q] = v[k]
  <2>1. CASE q = p
    BY <1>3, <1>8, <2>1
  <2>2. CASE q \in W0 \cup {n}
    <3>1. q \in 1..Len(v) /\ r.vec[q] = r0.vec[q] /\ r0.vec[q] \in Node
      <4>1. q \in W /\ q \in 1..Len(v) /\ q # p
        BY <1>3, <2>2
      <4> QED BY <1>7, <1>8, <4>1
    <3>2. r0.vec[q] = node \/ \E k \in W0 : r0.vec[q] = v[k]
      BY <1>7, <2>2
    <3>3. r0.vec[q].hnd # v[n].hnd /\ r0.vec[q].hnd \in Handles
      BY <1>3, <1>4, <1>5, <3>1, <3>2, SMTT(30) DEF Node
    <3>4. r.idx[r.vec[q].hnd] = q
      BY <1>7, <1>8, <2>2, <3>1, <3>3
    <3> QED BY <1>3, <3>1, <3>2, <3>4
  <2>3. CASE q \in W /\ q \notin W0 \cup {n}
    <3>1. r.vec[q] = v[q]
      BY <1>3, <1>7, <1>8, <2>3
    <3>2. v[q].hnd \in Handles \ {node.hnd} /\ v[q].hnd # v[n].hnd
      BY <1>3, <1>4, <1>5, <2>3
    <3>3. \A k \in W0 : v[k].hnd # v[q].hnd
      BY <1>3, <1>5, <2>3
    <3>4. r.idx[v[q].hnd] = idx[v[q].hnd]
      BY <1>7, <1>8, <3>2, <3>3
    <3> QED BY <1>4, <2>3, <3>1, <3>4
  <2> QED BY <2>1, <2>2, <2>3
<1>11. ASSUME NEW k \in W PROVE \E q \in W \cup {p} : r.vec[q] = v[k]
  <2>1. CASE k = n
    BY <1>8, <2>1
  <2>2. CASE k \in W0
    <3>1. PICK q \in W0 \cup {n} : r0.vec[q] = v[k]
      BY <1>7, <2>2
    <3>2. q \in W /\ r.vec[q] = r0.vec[q]
      BY <1>3, <1>8, <3>1
    <3> QED BY <3>1, <3>2
  <2>3. CASE k \notin W0 \cup {n}
    BY <1>3, <1>7, <1>8, <2>3
  <2> QED BY <2>1, <2>2, <2>3
<1>12. \E q \in W \cup {p} : r.vec[q] = node
  <2>1. PICK q \in W0 \cup {n} : r0.vec[q] = node
    BY <1>7
  <2>2. q \in W /\ r.vec[q] = r0.vec[q]
    BY <1>3, <1>8, <2>1
  <2> QED BY <2>1, <2>2
<1>13. \A h \in Handles \ {node.hnd} : (\A k \in W : v[k].hnd # h) => r.idx[h] = idx[h]
  BY <1>3, <1>7, <1>8
<1> QED BY <1>8, <1>9, <1>10, <1>11, <1>12, <1>13 DEF Filled, r, W

\* The result of a path: by induction along it.
LEMMA MovesFill ==
    ASSUME NEW v \in Seq(Node), NEW idx \in [Handles -> Int], NEW node \in Node,
           NEW rank \in [1..Len(v) -> Nat], NEW D \in SUBSET (1..Len(v)), NEW at \in D,
           NEW nxt, NEW stop, NEW f, Moves(f, v, idx, node, nxt, stop),
           \A p \in D : p \notin stop => nxt[p] \in D /\ rank[nxt[p]] < rank[p],
           Indexed(v, idx, node, rank, D, at)
    PROVE  Filled(f[at], v, idx, node, rank, D, at)
<1> DEFINE S == {p \in D : Indexed(v, idx, node, rank, D, p) =>
                              Filled(f[p], v, idx, node, rank, D, p)}
<1>0. \A p \in D : p \in 1..Len(v) /\ rank[p] \in Nat
  OBVIOUS
<1>1. ASSUME NEW p \in D, \A q \in D : rank[q] < rank[p] => q \in S,
             Indexed(v, idx, node, rank, D, p)
      PROVE  Filled(f[p], v, idx, node, rank, D, p)
  <2>1. f[p] = IF p \in stop THEN Placed(v, idx, node, p)
               ELSE Pulled(f[nxt[p]], v, p, nxt[p])
    BY <1>0 DEF Moves
  <2>2. CASE p \in stop
    BY <1>1, <2>1, <2>2, PlacedFilled
  <2>3. CASE p \notin stop
    <3>1. PICK n \in D : n = nxt[p] /\ rank[n] < rank[p]
      BY <2>3
    <3>2. Indexed(v, idx, node, rank, D, n)
      BY <1>0, <1>1, <3>1 DEF Indexed, Beyond
    <3>3. Filled(f[n], v, idx, node, rank, D, n)
      BY <1>1, <3>1, <3>2
    <3>4. f[p] = Pulled(f[n], v, p, n)
      BY <2>1, <2>3, <3>1
    <3>5. Filled(Pulled(f[n], v, p, n), v, idx, node, rank, D, p)
      BY <1>1, <3>1, <3>3, PulledFilled, Zenon
    <3> QED BY <3>4, <3>5
  <2> QED BY <2>2, <2>3
<1>2. \A p \in D : (\A q \in D : rank[q] < rank[p] => q \in S) => p \in S
  BY <1>1
<1> HIDE DEF S
<1>3. PICK T : T = {n \in Nat : \A p \in D : rank[p] = n => p \in S}
  OBVIOUS
<1>4. \A n \in Nat : (\A k \in Nat : k < n => k \in T) => n \in T
  BY <1>0, <1>2, <1>3
<1>5. \A n \in Nat : n \in T
  BY <1>4, StrongInduction
<1>6. at \in S
  BY <1>0, <1>3, <1>5
<1> QED BY <1>6 DEF S

-----------------------------------------------------------------------------
(* The two directions.                                                     *)

\* Parents come before their children.
LEMMA ParentBefore ==
    ASSUME NEW p \in Nat, p > 1
    PROVE  parent(p) \in Nat /\ 1 <= parent(p) /\ parent(p) < p
BY HeapAssumption DEF parent

\* And children after their parents.
LEMMA ChildAfter ==
    ASSUME NEW p \in Nat, p >= 1
    PROVE  lchild(p) \in Nat /\ lchild(p) > p
BY HeapAssumption DEF lchild

ParentOf(v) == [p \in 1..Len(v) |-> IF p = 1 THEN 1 ELSE parent(p)]

DownStop(v, node) == {p \in 1..Len(v) : p = 1 \/ ~lt(node.prio, v[parent(p)].prio)}

\* bubble_down() is a path along the parents.
LEMMA DownMoves ==
    ASSUME NEW v \in Seq(Node), NEW idx, NEW node
    PROVE  \E f : /\ Moves(f, v, idx, node, ParentOf(v), DownStop(v, node))
                  /\ \A at \in 1..Len(v) : bubble_down(v, idx, at, node) = f[at]
<1> DEFINE Eq(f) ==
             f = [pos \in 1..Len(v) |->
                    IF pos = 1 \/ ~lt(node.prio, v[parent(pos)].prio)
                    THEN [vec |-> [v EXCEPT ![pos] = node],
                          idx |-> [idx EXCEPT ![node.hnd] = pos]]
                    ELSE LET r == f[parent(pos)] IN
                         [vec |-> [r.vec EXCEPT ![pos] = v[parent(pos)]],
                          idx |-> [r.idx EXCEPT ![v[parent(pos)].hnd] = pos]]]
<1>1. Len(v) \in Nat /\ \A p \in 1..Len(v) : p \in Nat /\ (p # 1 => p > 1)
  OBVIOUS
<1>2. ASSUME NEW f PROVE Eq(f) <=> Moves(f, v, idx, node, ParentOf(v), DownStop(v, node))
  <2>1. ASSUME NEW p \in 1..Len(v), p # 1 PROVE ParentOf(v)[p] = parent(p)
    BY <2>1 DEF ParentOf
  <2>2. \A p \in 1..Len(v) :
          p \in DownStop(v, node) <=> (p = 1 \/ ~lt(node.prio, v[parent(p)].prio))
    BY DEF DownStop
  <2>3. \A p \in 1..Len(v) \ DownStop(v, node) : ParentOf(v)[p] = parent(p)
    BY <2>1, <2>2
  <2> QED BY <2>2, <2>3 DEF Moves, Placed, Pulled
<1>3. \E f : Moves(f, v, idx, node, ParentOf(v), DownStop(v, node))
  <2>1. ParentOf(v) \in [1..Len(v) -> 1..Len(v)]
    BY <1>1, ParentBefore DEF ParentOf
  <2>2. PICK rank : rank = [p \in 1..Len(v) |-> p]
    OBVIOUS
  <2>3. /\ rank \in [1..Len(v) -> Nat] /\ Len(v) + 1 \in Nat
        /\ \A p \in 1..Len(v) : rank[p] < Len(v) + 1
    BY <1>1, <2>2
  <2>4. \A p \in 1..Len(v) : p \notin DownStop(v, node) => rank[ParentOf(v)[p]] < rank[p]
    BY <1>1, <2>2, ParentBefore DEF DownStop, ParentOf
  <2> QED BY <2>1, <2>3, <2>4, MovesExist
<1>4. PICK f : f = CHOOSE g : Eq(g)
  OBVIOUS
<1>5. Eq(f)
  <2> HIDE DEF Eq
  <2>1. \E g : Eq(g)
    BY <1>2, <1>3
  <2> QED BY <1>4, <2>1
<1>6. \A at \in 1..Len(v) : bubble_down(v, idx, at, node) = f[at]
  BY <1>4, Zenon DEF bubble_down
<1> QED BY <1>2, <1>5, <1>6

\* Priorities can be compared.
LEMMA PriosAreNumbers ==
    ASSUME NEW v \in Seq(Node)
    PROVE  Len(v) \in Nat /\ \A d \in 1..Len(v) : v[d].prio \in Int
<1>1. Len(v) \in Nat /\ \A d \in 1..Len(v) : v[d] \in Node
  OBVIOUS
<1>2. \A x \in Node : x.prio \in Int
  BY HeapAssumption DEF Node
<1> QED BY <1>1, <1>2

\* A smallest, and among those the first, of n + 1 nodes from a.
LEMMA FirstSmallest ==
    ASSUME NEW v \in Seq(Node), NEW a \in Nat, a >= 1
    PROVE  \A n \in Nat : a + n <= Len(v) =>
             \E c \in a..(a + n) :
               /\ \A d \in a..(a + n) : ~lt(v[d].prio, v[c].prio)
               /\ \A d \in a..(a + n) : d < c => lt(v[c].prio, v[d].prio)
<1> DEFINE Q(n, c) == /\ \A d \in a..(a + n) : ~lt(v[d].prio, v[c].prio)
                      /\ \A d \in a..(a + n) : d < c => lt(v[c].prio, v[d].prio)
           S == {n \in Nat : a + n <= Len(v) => \E c \in a..(a + n) : Q(n, c)}
<1>0. Len(v) \in Nat /\ \A d \in 1..Len(v) : v[d].prio \in Int
  BY PriosAreNumbers
<1>1. ASSUME NEW n \in Nat, \A k \in Nat : k < n => k \in S
      PROVE  n \in S
  <2> SUFFICES ASSUME a + n <= Len(v) PROVE \E c \in a..(a + n) : Q(n, c)
    OBVIOUS
  <2>1. CASE n = 0
    <3>1. \A d \in a..(a + n) : d = a
      BY <2>1
    <3>2. Q(n, a)
      BY <1>0, <3>1 DEF lt
    <3> QED BY <3>2
  <2>2. CASE n # 0
    <3>1. n - 1 \in Nat /\ n - 1 < n /\ a + (n - 1) <= Len(v)
      BY <1>0, <2>2
    <3>2. PICK c \in a..(a + (n - 1)) : Q(n - 1, c)
      BY <1>1, <3>1
    <3>3. PICK x : x = a + n
      OBVIOUS
    <3>4. \A d \in a..(a + n) : d = x \/ d \in a..(a + (n - 1))
      BY <3>3
    <3>5. \A d \in a..(a + n) : v[d].prio \in Int
      BY <1>0
    <3>6. c \in a..(a + n) /\ x \in a..(a + n) /\ c < x
      BY <3>3, <2>2
    <3>7. CASE lt(v[x].prio, v[c].prio)
      <4>1. Q(n, x)
        BY <3>2, <3>4, <3>5, <3>6, <3>7 DEF lt
      <4> QED BY <3>6, <4>1
    <3>8. CASE ~lt(v[x].prio, v[c].prio)
      <4>1. Q(n, c)
        <5>1. \A d \in a..(a + n) : ~lt(v[d].prio, v[c].prio)
          BY <3>2, <3>4, <3>8
        <5>2. \A d \in a..(a + n) : d < c => lt(v[c].prio, v[d].prio)
          BY <3>2, <3>3, <3>4, <3>6
        <5> QED BY <5>1, <5>2
      <4> QED BY <3>6, <4>1
    <3> QED BY <3>7, <3>8
  <2> QED BY <2>1, <2>2
<1>2. \A n \in Nat : n \in S
  <2> HIDE DEF S
  <2> QED BY <1>1, StrongInduction
<1> QED BY <1>2

\* The child that moves up is after its parent and the smallest of the children, the last
\* position of the vector apart; that one is taken only as a first child.
LEMMA SelChild ==
    ASSUME NEW v \in Seq(Node), NEW p \in 1..Len(v), lchild(p) <= Len(v)
    PROVE  /\ selchild(v, p) \in 1..Len(v) /\ selchild(v, p) > p
           /\ lchild(p) <= selchild(v, p) /\ selchild(v, p) < lchild(p) + N
           /\ selchild(v, p) = Len(v) => lchild(p) = Len(v)
           /\ \A d \in 1..Len(v) : lchild(p) <= d /\ d < lchild(p) + N /\ d < Len(v)
                => ~lt(v[d].prio, v[selchild(v, p)].prio)
<1>1. Len(v) \in Nat /\ p \in Nat /\ p >= 1 /\ N \in Nat \ {0}
  BY HeapAssumption
<1>2. PICK a \in Nat : a = lchild(p) /\ a > p /\ a >= 1
  BY <1>1, ChildAfter
<1>3. PICK range : range = a .. (lesser(a + N, Len(v)) - 1) \cup {a}
  OBVIOUS
<1>4. PICK n \in Nat : range = a..(a + n) /\ a + n <= Len(v) /\ n < N
                      /\ (a + n < Len(v) \/ n = 0)
                      /\ \A d \in Nat : a <= d /\ d < a + N /\ d < Len(v) => d <= a + n
  <2>1. CASE a + N <= Len(v)
    <3>1. lesser(a + N, Len(v)) = a + N
      BY <1>1, <2>1 DEF lesser
    <3>2. N - 1 \in Nat /\ range = a..(a + (N - 1))
      BY <1>1, <1>3, <3>1
    <3> QED BY <1>1, <2>1, <3>2
  <2>2. CASE a + N > Len(v) /\ a < Len(v)
    <3>1. lesser(a + N, Len(v)) = Len(v)
      BY <1>1, <2>2 DEF lesser
    <3>a. Len(v) - 1 - a \in Nat
      BY <1>1, <2>2
    <3>2. PICK n \in Nat : n = Len(v) - 1 - a
      BY <3>a
    <3>3. range = a..(a + n)
      BY <1>1, <1>3, <2>2, <3>1, <3>2
    <3> QED BY <1>1, <2>2, <3>2, <3>3
  <2>3. CASE a = Len(v)
    <3>1. lesser(a + N, Len(v)) = Len(v)
      BY <1>1, <2>3 DEF lesser
    <3>2. range = a..(a + 0)
      BY <1>1, <1>3, <2>3, <3>1
    <3>3. /\ a + 0 <= Len(v) /\ 0 < N
          /\ \A d \in Nat : a <= d /\ d < a + N /\ d < Len(v) => d <= a + 0
      BY <1>1, <2>3
    <3>4. 0 \in Nat
      OBVIOUS
    <3> QED BY <3>2, <3>3, <3>4
  <2> QED BY <1>1, <1>2, <2>1, <2>2, <2>3
<1>5. PICK c : c = selchild(v, p)
  OBVIOUS
<1> DEFINE First(x) == /\ \A d \in range : ~lt(v[d].prio, v[x].prio)
                       /\ \A d \in range : d < x => lt(v[x].prio, v[d].prio)
<1>6. \E x \in range : First(x)
  BY <1>2, <1>4, FirstSmallest
<1>7. c = CHOOSE x \in range : First(x)
  BY <1>2, <1>3, <1>5, Zenon DEF selchild
<1>8. c \in range /\ First(c)
  BY <1>6, <1>7
<1>9. c \in 1..Len(v) /\ c > p /\ a <= c /\ c < a + N /\ (c = Len(v) => a = Len(v))
  BY <1>1, <1>2, <1>4, <1>8
<1>10. ASSUME NEW d \in 1..Len(v), a <= d, d < a + N, d < Len(v)
       PROVE  ~lt(v[d].prio, v[c].prio)
  <2>1. d \in range
    BY <1>1, <1>4, <1>10
  <2> QED BY <1>8, <2>1
<1> QED BY <1>2, <1>5, <1>9, <1>10

ChildOf(v) == [p \in 1..Len(v) |-> IF lchild(p) > Len(v) THEN p ELSE selchild(v, p)]

UpStop(v, node) ==
    {p \in 1..Len(v) : lchild(p) > Len(v) \/ ~lt(v[selchild(v, p)].prio, node.prio)}

\* Away from the root, positions count backwards.
UpRank(v) == [p \in 1..Len(v) |-> Len(v) - p]

\* Where the path goes on, it goes to the chosen child.
LEMMA UpNext ==
    ASSUME NEW v \in Seq(Node), NEW node, NEW p \in 1..Len(v), p \notin UpStop(v, node)
    PROVE  /\ lchild(p) <= Len(v) /\ ChildOf(v)[p] = selchild(v, p)
           /\ lt(v[selchild(v, p)].prio, node.prio)
           /\ selchild(v, p) \in 1..Len(v) /\ selchild(v, p) > p
           /\ UpRank(v)[ChildOf(v)[p]] < UpRank(v)[p]
<1>1. Len(v) \in Nat /\ p \in Nat /\ p >= 1 /\ lchild(p) \in Nat
  BY ChildAfter
<1>2. lchild(p) <= Len(v) /\ lt(v[selchild(v, p)].prio, node.prio)
  BY <1>1 DEF UpStop
<1>3. ChildOf(v)[p] = selchild(v, p)
  BY <1>1, <1>2 DEF ChildOf
<1>4. selchild(v, p) \in 1..Len(v) /\ selchild(v, p) > p
  BY <1>2, SelChild
<1>5. UpRank(v)[selchild(v, p)] < UpRank(v)[p]
  BY <1>1, <1>4 DEF UpRank
<1> QED BY <1>2, <1>3, <1>4, <1>5

\* bubble_up() is a path along the chosen children.
LEMMA UpMoves ==
    ASSUME NEW v \in Seq(Node), NEW idx, NEW node
    PROVE  \E f : /\ Moves(f, v, idx, node, ChildOf(v), UpStop(v, node))
                  /\ \A at \in 1..Len(v) : bubble_up(v, idx, at, node) = f[at]
<1> DEFINE Eq(f) ==
             f = [pos \in 1..Len(v) |->
                    IF lchild(pos) > Len(v) \/ ~lt(v[selchild(v, pos)].prio, node.prio)
                    THEN [vec |-> [v EXCEPT ![pos] = node],
                          idx |-> [idx EXCEPT ![node.hnd] = pos]]
                    ELSE LET c == selchild(v, pos)
                             r == f[c]
                         IN  [vec |-> [r.vec EXCEPT ![pos] = v[c]],
                              idx |-> [r.idx EXCEPT ![v[c].hnd] = pos]]]
<1>1. Len(v) \in Nat /\ \A p \in 1..Len(v) : p \in Nat /\ p >= 1 /\ lchild(p) \in Nat
  BY ChildAfter
<1>2. ASSUME NEW f PROVE Eq(f) <=> Moves(f, v, idx, node, ChildOf(v), UpStop(v, node))
  <2>1. \A p \in 1..Len(v) :
          p \in UpStop(v, node)
            <=> (lchild(p) > Len(v) \/ ~lt(v[selchild(v, p)].prio, node.prio))
    BY DEF UpStop
  <2>2. \A p \in 1..Len(v) \ UpStop(v, node) : ChildOf(v)[p] = selchild(v, p)
    BY UpNext
  <2> QED BY <2>1, <2>2 DEF Moves, Placed, Pulled
<1>3. \E f : Moves(f, v, idx, node, ChildOf(v), UpStop(v, node))
  <2>1. ChildOf(v) \in [1..Len(v) -> 1..Len(v)]
    BY <1>1, SelChild DEF ChildOf
  <2>2. /\ UpRank(v) \in [1..Len(v) -> Nat] /\ Len(v) + 1 \in Nat
        /\ \A p \in 1..Len(v) : UpRank(v)[p] < Len(v) + 1
    BY <1>1 DEF UpRank
  <2>3. \A p \in 1..Len(v) : p \notin UpStop(v, node)
          => UpRank(v)[ChildOf(v)[p]] < UpRank(v)[p]
    BY UpNext
  <2> QED BY <2>1, <2>2, <2>3, MovesExist
<1>4. PICK f : f = CHOOSE g : Eq(g)
  OBVIOUS
<1>5. Eq(f)
  <2> HIDE DEF Eq
  <2>1. \E g : Eq(g)
    BY <1>2, <1>3
  <2> QED BY <1>4, <2>1
<1>6. \A at \in 1..Len(v) : bubble_up(v, idx, at, node) = f[at]
  BY <1>4, Zenon DEF bubble_up
<1> QED BY <1>2, <1>5, <1>6

-----------------------------------------------------------------------------
(* What the two directions do to a heap with a hole.                       *)

\* The handles' positions idx are right for the first m nodes of v, but for a hole at p where the node is to go or may be moved from.
Hole(v, idx, node, m, p) ==
    /\ \A q \in (1..m) \ {p} : idx[v[q].hnd] = q /\ v[q].hnd # node.hnd
    /\ \A h \in Handles \ {node.hnd} :
         idx[h] # NotQueued => \E q \in (1..m) \ {p} : v[q].hnd = h

\* The hole has been filled: the node is in the heap, and nothing has been lost.
Refilled(r, v, node, m, p) ==
    /\ r.vec \in [1..Len(v) -> Node] /\ r.idx \in [Handles -> Int]
    /\ Accurate(r.vec, r.idx, m)
    /\ \A q \in 1..m : r.vec[q] = node \/ \E k \in (1..m) \ {p} : r.vec[q] = v[k]
    /\ \A k \in (1..m) \ {p} : \E q \in 1..m : r.vec[q] = v[k]
    /\ \E q \in 1..m : r.vec[q] = node

\* Filling what is beyond p fills the hole.
LEMMA FilledRefilled ==
    ASSUME NEW v \in Seq(Node), NEW idx \in [Handles -> Int], NEW node \in Node,
           NEW rank \in [1..Len(v) -> Nat], NEW m \in 0..Len(v), NEW p \in 1..m,
           Hole(v, idx, node, m, p), NEW r, Filled(r, v, idx, node, rank, 1..m, p)
    PROVE  Refilled(r, v, node, m, p)
<1> DEFINE W == Beyond(rank, 1..m, p)
<1>1. v \in [1..Len(v) -> Node] /\ Len(v) \in Nat /\ m \in Nat /\ p \in 1..Len(v)
  OBVIOUS
<1>2. \A q \in 1..m : q \in 1..Len(v)
  BY <1>1
<1>3. W \subseteq (1..m) \ {p}
  <2>1. rank[p] \in Nat
    BY <1>1
  <2> QED BY <2>1 DEF Beyond
<1>4. /\ r.vec \in [1..Len(v) -> Node] /\ r.idx \in [Handles -> Int]
      /\ \A q \in 1..Len(v) : q \notin W \cup {p} => r.vec[q] = v[q]
      /\ \A q \in W \cup {p} :
           /\ r.idx[r.vec[q].hnd] = q
           /\ r.vec[q] = node \/ \E k \in W : r.vec[q] = v[k]
      /\ \A k \in W : \E q \in W \cup {p} : r.vec[q] = v[k]
      /\ \E q \in W \cup {p} : r.vec[q] = node
      /\ \A h \in Handles \ {node.hnd} :
           (\A k \in W : v[k].hnd # h) => r.idx[h] = idx[h]
  BY DEF Filled
<1> HIDE DEF W
<1>5. /\ \A q \in (1..m) \ {p} : /\ idx[v[q].hnd] = q /\ v[q].hnd # node.hnd
                                 /\ v[q] \in Node /\ v[q].hnd \in Handles
      /\ \A h \in Handles \ {node.hnd} :
           idx[h] # NotQueued => \E q \in (1..m) \ {p} : v[q].hnd = h
  BY <1>1, <1>2 DEF Hole, Node
<1>6. \A q \in 1..m : q \notin W \cup {p} => r.vec[q] = v[q] /\ r.idx[v[q].hnd] = q
  <2> SUFFICES ASSUME NEW q \in 1..m, q \notin W \cup {p}
               PROVE  r.vec[q] = v[q] /\ r.idx[v[q].hnd] = q
    OBVIOUS
  <2>1. \A k \in W : v[k].hnd # v[q].hnd
    BY <1>3, <1>5
  <2> QED BY <1>2, <1>4, <1>5, <2>1
<1>7. \A q \in 1..m : r.idx[r.vec[q].hnd] = q
  BY <1>4, <1>6
<1>8. \A q \in 1..m : r.vec[q] = node \/ \E k \in (1..m) \ {p} : r.vec[q] = v[k]
  BY <1>3, <1>4, <1>6
<1>9. \A k \in (1..m) \ {p} : \E q \in 1..m : r.vec[q] = v[k]
  BY <1>3, <1>4, <1>6
<1>10. \E q \in 1..m : r.vec[q] = node
  BY <1>3, <1>4
<1>11. ASSUME NEW h \in Handles, r.idx[h] # NotQueued
       PROVE  r.idx[h] \in 1..m /\ r.vec[r.idx[h]].hnd = h
  <2>1. \E q \in 1..m : r.vec[q].hnd = h
    <3>1. CASE h = node.hnd
      BY <1>10, <3>1
    <3>2. CASE \E k \in W : v[k].hnd = h
      BY <1>3, <1>9, <3>2
    <3>3. CASE h # node.hnd /\ \A k \in W : v[k].hnd # h
      <4>1. r.idx[h] = idx[h]
        BY <1>4, <3>3
      <4>2. PICK q \in (1..m) \ {p} : v[q].hnd = h
        BY <1>5, <1>11, <3>3, <4>1
      <4> QED BY <1>9, <4>2
    <3> QED BY <3>1, <3>2, <3>3
  <2> QED BY <1>7, <2>1
<1> QED BY <1>4, <1>7, <1>8, <1>9, <1>10, <1>11 DEF Refilled, Accurate

\* bubble_down() fills the hole.
LEMMA DownRefills ==
    ASSUME NEW v \in Seq(Node), NEW idx \in [Handles -> Int], NEW node \in Node,
           NEW at \in 1..Len(v), Hole(v, idx, node, Len(v), at)
    PROVE  Refilled(bubble_down(v, idx, at, node), v, node, Len(v), at)
<1>1. PICK f : /\ Moves(f, v, idx, node, ParentOf(v), DownStop(v, node))
               /\ \A p \in 1..Len(v) : bubble_down(v, idx, p, node) = f[p]
  BY DownMoves
<1>2. PICK rank : rank = [p \in 1..Len(v) |-> p]
  OBVIOUS
<1>3. Len(v) \in Nat /\ rank \in [1..Len(v) -> Nat] /\ Len(v) \in 0..Len(v)
  BY <1>2
<1>4. \A p \in 1..Len(v) : p \notin DownStop(v, node)
        => ParentOf(v)[p] \in 1..Len(v) /\ rank[ParentOf(v)[p]] < rank[p]
  BY <1>2, <1>3, ParentBefore DEF DownStop, ParentOf
<1>5. Indexed(v, idx, node, rank, 1..Len(v), at)
  BY <1>2, <1>3 DEF Indexed, Beyond, Hole
<1>6. (1..Len(v)) \in SUBSET (1..Len(v))
  OBVIOUS
<1>7. Filled(f[at], v, idx, node, rank, 1..Len(v), at)
  BY <1>1, <1>3, <1>4, <1>5, <1>6, MovesFill
<1>8. Refilled(f[at], v, node, Len(v), at)
  BY <1>3, <1>7, FilledRefilled
<1> QED BY <1>1, <1>8

\* bubble_up() fills the hole, also when the node is the last of the vector and the heap
\* is to end before it.
LEMMA UpRefills ==
    ASSUME NEW v \in Seq(Node), NEW idx \in [Handles -> Int], NEW node \in Node,
           NEW m \in 1..Len(v), NEW at \in 1..m, Hole(v, idx, node, m, at),
           m = Len(v) \/ (m = Len(v) - 1 /\ node = v[Len(v)])
    PROVE  Refilled(bubble_up(v, idx, at, node), v, node, m, at)
<1>1. PICK f : /\ Moves(f, v, idx, node, ChildOf(v), UpStop(v, node))
               /\ \A p \in 1..Len(v) : bubble_up(v, idx, p, node) = f[p]
  BY UpMoves
<1>2. PICK rank : rank = UpRank(v)
  OBVIOUS
<1>3. Len(v) \in Nat /\ rank \in [1..Len(v) -> Nat] /\ m \in 0..Len(v) /\ m \in Nat
  BY <1>2 DEF UpRank
<1>4. \A p \in 1..m : p \in 1..Len(v)
  BY <1>3
<1>5. ASSUME NEW p \in 1..m, p \notin UpStop(v, node)
      PROVE  ChildOf(v)[p] \in 1..m /\ rank[ChildOf(v)[p]] < rank[p]
  <2>1. /\ lchild(p) <= Len(v) /\ ChildOf(v)[p] = selchild(v, p)
        /\ lt(v[selchild(v, p)].prio, node.prio)
        /\ selchild(v, p) \in 1..Len(v)
        /\ rank[ChildOf(v)[p]] < rank[p]
    BY <1>2, <1>4, <1>5, UpNext
  <2>2. selchild(v, p) \in 1..m
    <3>1. CASE m = Len(v)
      BY <2>1, <3>1
    <3>2. CASE m = Len(v) - 1 /\ node = v[Len(v)]
      <4>1. node.prio \in Int
        BY HeapAssumption DEF Node
      <4>2. selchild(v, p) # Len(v)
        BY <2>1, <3>2, <4>1 DEF lt
      <4> QED BY <1>3, <2>1, <3>2, <4>2
    <3> QED BY <3>1, <3>2
  <2> QED BY <2>1, <2>2
<1>6. Indexed(v, idx, node, rank, 1..m, at)
  <2>1. \A q \in Beyond(rank, 1..m, at) : q \in (1..m) \ {at}
    BY <1>3, <1>4 DEF Beyond
  <2> QED BY <2>1 DEF Indexed, Hole
<1>7. (1..m) \in SUBSET (1..Len(v))
  BY <1>4
<1>8. Filled(f[at], v, idx, node, rank, 1..m, at)
  BY <1>1, <1>3, <1>5, <1>6, <1>7, MovesFill
<1>9. Refilled(f[at], v, node, m, at)
  BY <1>3, <1>8, FilledRefilled
<1> QED BY <1>1, <1>4, <1>9

-----------------------------------------------------------------------------
(* The operations.                                                         *)

Held(v) == {v[q] : q \in 1..Len(v)}

Sound(v, idx) == v \in Seq(Node) /\ idx \in [Handles -> Int] /\ Accurate(v, idx, Len(v))

\* The invariant in these terms.
LEMMA InvSound ==
    ASSUME HeapInv
    PROVE  Sound(hvec, heap_index)
<1>1. hvec \in Seq(Node) /\ heap_index \in [Handles -> Int]
  BY DEF HeapInv, HeapTypeOK, Node, NotQueued
<1> QED BY <1>1 DEF HeapInv, IndexAccurate, Sound, Accurate

\* A vector that has been refilled as a whole is sound.
LEMMA RefilledWhole ==
    ASSUME NEW v \in Seq(Node), NEW node \in Node, NEW p \in 1..Len(v), NEW r,
           Refilled(r, v, node, Len(v), p)
    PROVE  /\ Sound(r.vec, r.idx) /\ Len(r.vec) = Len(v)
           /\ Held(r.vec) = {v[k] : k \in (1..Len(v)) \ {p}} \cup {node}
<1>1. Len(v) \in Nat /\ r.vec \in [1..Len(v) -> Node]
  BY DEF Refilled
<1>2. r.vec \in Seq(Node) /\ Len(r.vec) = Len(v)
  BY <1>1
<1>3. Sound(r.vec, r.idx)
  BY <1>2 DEF Refilled, Sound
<1>4. Held(r.vec) = {v[k] : k \in (1..Len(v)) \ {p}} \cup {node}
  <2>1. Held(r.vec) = {r.vec[q] : q \in 1..Len(v)}
    BY <1>2 DEF Held
  <2>2. \A x \in Held(r.vec) : x = node \/ \E k \in (1..Len(v)) \ {p} : x = v[k]
    BY <2>1 DEF Refilled
  <2>3. node \in Held(r.vec) /\ \A k \in (1..Len(v)) \ {p} : v[k] \in Held(r.vec)
    BY <2>1 DEF Refilled
  <2> QED BY <2>2, <2>3
<1> QED BY <1>2, <1>3, <1>4

\* insert() adds its node.
LEMMA InsertAdds ==
    ASSUME NEW hv, NEW hi, Sound(hv, hi), NEW h \in Handles, NEW p \in Prios,
           hi[h] = NotQueued, NEW res, res = inserted(hv, hi, h, p)
    PROVE  /\ Sound(res.vec, res.idx)
           /\ Held(res.vec) = Held(hv) \cup {[prio |-> p, hnd |-> h]}
<1>1. PICK node \in Node : node = [prio |-> p, hnd |-> h]
  BY DEF Node
<1>a. Append(hv, node) \in Seq(Node)
  BY DEF Sound
<1>2. PICK v \in Seq(Node) : v = Append(hv, node)
  BY <1>a
<1>3. PICK at : at = Len(hv) + 1
  OBVIOUS
<1>4. /\ hv \in Seq(Node) /\ Len(v) = at /\ at \in 1..Len(v) /\ v[at] = node
      /\ Len(hv) \in Nat /\ (1..Len(v)) \ {at} = 1..Len(hv)
      /\ \A q \in 1..Len(hv) : v[q] = hv[q]
  BY <1>2, <1>3 DEF Sound
<1>5. hi[h] = NotQueued /\ node.hnd = h
  BY <1>1
<1>6. Hole(v, hi, node, Len(v), at)
  <2>1. \A q \in 1..Len(hv) : hi[hv[q].hnd] = q /\ q # NotQueued
    BY <1>4 DEF Sound, Accurate, NotQueued
  <2>2. \A q \in 1..Len(hv) : hi[v[q].hnd] = q /\ v[q].hnd # node.hnd
    BY <1>4, <1>5, <2>1
  <2>3. \A g \in Handles : hi[g] # NotQueued =>
          \E q \in 1..Len(hv) : v[q].hnd = g
    BY <1>4 DEF Sound, Accurate
  <2> QED BY <1>4, <2>2, <2>3 DEF Hole
<1>7. PICK r : r = bubble_down(v, hi, at, node)
  OBVIOUS
<1>8. Refilled(r, v, node, Len(v), at)
  BY <1>4, <1>6, <1>7, DownRefills DEF Sound
<1>9. res.vec = r.vec /\ res.idx = r.idx
  BY <1>1, <1>2, <1>3, <1>7, Zenon DEF inserted
<1>10. /\ Sound(res.vec, res.idx)
       /\ Held(res.vec) = {v[k] : k \in (1..Len(v)) \ {at}} \cup {node}
  <2>1. at \in 1..Len(v)
    BY <1>4
  <2>2. /\ Sound(r.vec, r.idx)
        /\ Held(r.vec) = {v[k] : k \in (1..Len(v)) \ {at}} \cup {node}
    BY <1>8, <2>1, RefilledWhole, Zenon
  <2> QED BY <1>9, <2>2
<1>11. {v[k] : k \in (1..Len(v)) \ {at}} = Held(hv)
  BY <1>4 DEF Held
<1> QED BY <1>1, <1>10, <1>11

\* set_priority() replaces the handle's node.
LEMMA SetPriorityReplaces ==
    ASSUME NEW hv, NEW hi, Sound(hv, hi), NEW h \in Handles, NEW p \in Prios,
           hi[h] # NotQueued, NEW res, res = prioritised(hv, hi, h, p)
    PROVE  /\ Sound(res.vec, res.idx)
           /\ hi[h] \in 1..Len(hv) /\ hv[hi[h]].hnd = h
           /\ Held(res.vec) = {hv[k] : k \in (1..Len(hv)) \ {hi[h]}}
                             \cup {[prio |-> p, hnd |-> h]}
<1>1. PICK node \in Node : node = [prio |-> p, hnd |-> h]
  BY DEF Node
<1>2. PICK pos : pos = hi[h]
  OBVIOUS
<1>3. pos \in 1..Len(hv) /\ hv[pos].hnd = h
  BY <1>2 DEF Sound, Accurate
<1>4. PICK v : v = [hv EXCEPT ![pos] = node]
  OBVIOUS
<1>5. /\ v \in Seq(Node) /\ Len(v) = Len(hv) /\ Len(v) \in Nat /\ hv \in Seq(Node)
      /\ \A q \in (1..Len(v)) \ {pos} : v[q] = hv[q]
  BY <1>3, <1>4 DEF Sound
<1>6. Hole(v, hi, node, Len(v), pos)
  <2>1. node.hnd = h
    BY <1>1
  <2>2. \A q \in (1..Len(v)) \ {pos} : hi[v[q].hnd] = q /\ v[q].hnd # h
    BY <1>2, <1>3, <1>5 DEF Sound, Accurate
  <2>3. \A g \in Handles \ {h} : hi[g] # NotQueued =>
          \E q \in (1..Len(v)) \ {pos} : v[q].hnd = g
    BY <1>3, <1>5 DEF Sound, Accurate
  <2> QED BY <2>1, <2>2, <2>3 DEF Hole
<1>7. PICK r : /\ r = IF lt(hv[pos].prio, p) THEN bubble_up(v, hi, pos, node)
                                               ELSE bubble_down(v, hi, pos, node)
               /\ res.vec = r.vec /\ res.idx = r.idx
  BY <1>1, <1>2, <1>4, Zenon DEF prioritised
<1>8. Refilled(r, v, node, Len(v), pos)
  <2>1. Refilled(bubble_down(v, hi, pos, node), v, node, Len(v), pos)
    BY <1>3, <1>5, <1>6, DownRefills DEF Sound
  <2>2. Len(v) \in 1..Len(v)
    BY <1>3, <1>5
  <2>3. Refilled(bubble_up(v, hi, pos, node), v, node, Len(v), pos)
    BY <1>3, <1>5, <1>6, <2>2, UpRefills DEF Sound
  <2> QED BY <1>7, <2>1, <2>3
<1>9. /\ Sound(res.vec, res.idx)
      /\ Held(res.vec) = {v[k] : k \in (1..Len(v)) \ {pos}} \cup {node}
  <2>1. pos \in 1..Len(v)
    BY <1>3, <1>5
  <2>2. /\ Sound(r.vec, r.idx)
        /\ Held(r.vec) = {v[k] : k \in (1..Len(v)) \ {pos}} \cup {node}
    BY <1>5, <1>8, <2>1, RefilledWhole, Zenon
  <2> QED BY <1>7, <2>2, Zenon
<1>10. {v[k] : k \in (1..Len(v)) \ {pos}} = {hv[k] : k \in (1..Len(hv)) \ {pos}}
  BY <1>5
<1>11. Held(res.vec) = {hv[k] : k \in (1..Len(hv)) \ {hi[h]}} \cup {[prio |-> p, hnd |-> h]}
  BY <1>1, <1>2, <1>9, <1>10, Zenon
<1> QED BY <1>2, <1>3, <1>9, <1>11, Zenon

\* The parts of a heap that an operation gives.
LEMMA Parts ==
    ASSUME NEW res, NEW v, NEW idx, res = [vec |-> v, idx |-> idx]
    PROVE  res.vec = v /\ res.idx = idx
OBVIOUS

\* The vector without its last node, and the positions without that of the node at pos.
Shortened(v) == SubSeq(v, 1, Len(v) - 1)

Dropped(hv, hi, pos) == [hi EXCEPT ![hv[pos].hnd] = NotQueued]

\* remove_h() of the last node: the others stay where they are.
LEMMA RemovedLast ==
    ASSUME NEW hv, NEW hi, NEW pos, pos = Len(hv)
    PROVE  /\ removed_h(hv, hi, pos).vec = Shortened(hv)
           /\ removed_h(hv, hi, pos).idx = Dropped(hv, hi, pos)
<1>1. removed_h(hv, hi, pos) = [vec |-> Shortened(hv), idx |-> Dropped(hv, hi, pos)]
  BY Zenon DEF removed_h, Shortened, Dropped
<1> QED BY <1>1, Parts, Zenon

\* remove_h() of another one: the last node is moved from its position.
LEMMA RemovedInner ==
    ASSUME NEW hv, NEW hi, NEW pos, pos # Len(hv)
    PROVE  /\ removed_h(hv, hi, pos).vec
                = SubSeq(bubble_up(hv, Dropped(hv, hi, pos), pos, hv[Len(hv)]).vec, 1, Len(hv) - 1)
           /\ removed_h(hv, hi, pos).idx
                = bubble_up(hv, Dropped(hv, hi, pos), pos, hv[Len(hv)]).idx
<1>1. PICK r : r = bubble_up(hv, Dropped(hv, hi, pos), pos, hv[Len(hv)])
  OBVIOUS
<1>2. PICK s : s = SubSeq(r.vec, 1, Len(hv) - 1)
  OBVIOUS
<1>3. PICK res : res = removed_h(hv, hi, pos)
  OBVIOUS
<1>4. res = [vec |-> s, idx |-> r.idx]
  BY <1>1, <1>2, <1>3, Zenon DEF removed_h, Dropped
<1>5. res.vec = s /\ res.idx = r.idx
  BY <1>4, Parts, Zenon
<1> QED BY <1>1, <1>2, <1>3, <1>5, Zenon

\* remove_h() takes the node at its position out.
LEMMA RemoveTakesOut ==
    ASSUME NEW hv, NEW hi, Sound(hv, hi), NEW pos \in 1..Len(hv),
           NEW res, res = removed_h(hv, hi, pos)
    PROVE  /\ Sound(res.vec, res.idx)
           /\ Held(res.vec) = {hv[k] : k \in (1..Len(hv)) \ {pos}}
<1>1. PICK L : L = Len(hv)
  OBVIOUS
<1>2. /\ L \in Nat /\ L >= 1 /\ hv \in Seq(Node) /\ hv \in [1..L -> Node]
      /\ hi \in [Handles -> Int] /\ pos \in 1..L /\ L \in 1..L
  BY <1>1 DEF Sound
<1>3. PICK idx : idx = Dropped(hv, hi, pos)
  OBVIOUS
<1>4. PICK last \in Node : last = hv[L]
  BY <1>2
<1>5. /\ \A q \in 1..L : hi[hv[q].hnd] = q /\ hv[q].hnd \in Handles
      /\ \A g \in Handles : hi[g] # NotQueued =>
           hi[g] \in 1..L /\ hv[hi[g]].hnd = g
  BY <1>1, <1>2 DEF Sound, Accurate, Node
<1>6. /\ idx \in [Handles -> Int]
      /\ idx[hv[pos].hnd] = NotQueued
      /\ \A g \in Handles : g # hv[pos].hnd => idx[g] = hi[g]
  BY <1>2, <1>3, <1>5 DEF NotQueued, Dropped
<1>7. /\ \A q \in (1..L) \ {pos} : idx[hv[q].hnd] = q
      /\ \A g \in Handles : idx[g] # NotQueued =>
           idx[g] \in (1..L) \ {pos} /\ hv[idx[g]].hnd = g
  <2>1. ASSUME NEW q \in (1..L) \ {pos} PROVE idx[hv[q].hnd] = q
    <3>1. hv[q].hnd \in Handles /\ hi[hv[q].hnd] = q
      BY <1>5
    <3>2. hv[q].hnd # hv[pos].hnd
      BY <1>2, <1>5, <3>1
    <3> QED BY <1>6, <3>1, <3>2
  <2>2. ASSUME NEW g \in Handles, idx[g] # NotQueued
        PROVE  idx[g] \in (1..L) \ {pos} /\ hv[idx[g]].hnd = g
    <3>1. g # hv[pos].hnd /\ idx[g] = hi[g]
      BY <1>6, <2>2
    <3>2. idx[g] \in 1..L /\ hv[idx[g]].hnd = g
      BY <1>5, <2>2, <3>1
    <3> QED BY <3>1, <3>2
  <2> QED BY <2>1, <2>2
<1>8. CASE pos = L
  <2>1. res.vec = SubSeq(hv, 1, L - 1) /\ res.idx = idx
    <3>1. removed_h(hv, hi, pos).vec = Shortened(hv) /\ removed_h(hv, hi, pos).idx = idx
      BY <1>1, <1>3, <1>8, RemovedLast
    <3> QED BY <1>1, <3>1, Zenon DEF Shortened
  <2>2. /\ res.vec \in Seq(Node) /\ Len(res.vec) = L - 1
        /\ \A q \in 1..(L - 1) : res.vec[q] = hv[q]
    BY <1>1, <1>2, <2>1
  <2>3. (1..L) \ {pos} = 1..(L - 1)
    BY <1>2, <1>8
  <2>4. Accurate(res.vec, res.idx, L - 1)
    <3>1. ASSUME NEW q \in 1..(L - 1) PROVE res.idx[res.vec[q].hnd] = q
      <4>1. res.vec[q] = hv[q] /\ res.idx = idx
        BY <2>1, <2>2, Zenon
      <4>2. q \in (1..L) \ {pos}
        BY <2>3
      <4> QED BY <1>7, <4>1, <4>2
    <3>2. ASSUME NEW g \in Handles, res.idx[g] # NotQueued
          PROVE  res.idx[g] \in 1..(L - 1) /\ res.vec[res.idx[g]].hnd = g
      <4>1. res.idx = idx
        BY <2>1
      <4>2. idx[g] \in 1..(L - 1) /\ hv[idx[g]].hnd = g
        BY <1>7, <2>3, <3>2, <4>1
      <4> QED BY <2>2, <4>1, <4>2
    <3> QED BY <3>1, <3>2, Zenon DEF Accurate
  <2>5. Held(res.vec) = {hv[k] : k \in (1..L) \ {pos}}
    BY <2>2, <2>3 DEF Held
  <2> QED BY <1>1, <1>6, <2>1, <2>2, <2>4, <2>5 DEF Sound
<1>9. CASE pos # L
  <2>1. PICK r : r = bubble_up(hv, idx, pos, last)
    OBVIOUS
  <2>2. res.vec = SubSeq(r.vec, 1, L - 1) /\ res.idx = r.idx
    <3>1. pos # Len(hv)
      BY <1>1, <1>9
    <3> QED BY <1>1, <1>3, <1>4, <2>1, <3>1, RemovedInner
  <2>3. PICK m : m = L - 1
    OBVIOUS
  <2>4. m \in 1..L /\ m \in Nat /\ pos \in 1..m /\ L \notin 1..m /\ L # pos
    BY <1>2, <1>9, <2>3
  <2>5. \A q \in 1..L : q \in 1..m \/ q = L
    BY <1>2, <2>3
  <2>6. \A q \in 1..m : q \in 1..L
    BY <1>2, <2>3
  <2>7. Hole(hv, idx, last, m, pos)
    <3>1. \A q \in (1..m) \ {pos} : hv[q].hnd # last.hnd
      BY <1>2, <1>4, <1>5, <2>4, <2>6
    <3>2. \A q \in (1..m) \ {pos} : idx[hv[q].hnd] = q
      BY <1>7, <2>6
    <3>3. \A g \in Handles \ {last.hnd} : idx[g] # NotQueued =>
            \E q \in (1..m) \ {pos} : hv[q].hnd = g
      BY <1>4, <1>7, <2>5
    <3> QED BY <3>1, <3>2, <3>3 DEF Hole
  <2>8. Refilled(r, hv, last, m, pos)
    BY <1>1, <1>2, <1>4, <1>6, <2>1, <2>3, <2>4, <2>7, UpRefills
  <2>9. r.vec \in [1..L -> Node] /\ r.idx \in [Handles -> Int] /\ Accurate(r.vec, r.idx, m)
    BY <1>1, <2>8 DEF Refilled
  <2>10. /\ res.vec \in Seq(Node) /\ Len(res.vec) = m
         /\ \A q \in 1..m : res.vec[q] = r.vec[q]
    <3>1. \A i \in 1..m : r.vec[i] \in Node
      BY <2>6, <2>9
    <3> QED BY <2>2, <2>3, <2>4, <3>1, SubSeqProperties
  <2>11. Accurate(res.vec, res.idx, m)
    BY <2>2, <2>9, <2>10 DEF Accurate
  <2>12. Held(res.vec) = {hv[k] : k \in (1..L) \ {pos}}
    <3>a. \A q \in 1..m : r.vec[q] = last \/ \E k \in (1..m) \ {pos} : r.vec[q] = hv[k]
      BY <2>8 DEF Refilled
    <3>b. \A k \in (1..m) \ {pos} : \E q \in 1..m : r.vec[q] = hv[k]
      BY <2>8 DEF Refilled
    <3>c. \E q \in 1..m : r.vec[q] = last
      BY <2>8 DEF Refilled
    <3>d. L \in (1..L) \ {pos}
      BY <1>2, <2>4
    <3>1. ASSUME NEW q \in 1..m PROVE \E k \in (1..L) \ {pos} : res.vec[q] = hv[k]
      <4>1. res.vec[q] = r.vec[q]
        BY <2>10
      <4>2. CASE r.vec[q] = last
        BY <1>4, <3>d, <4>1, <4>2, Zenon
      <4>3. CASE \E k \in (1..m) \ {pos} : r.vec[q] = hv[k]
        <5>1. PICK k \in (1..m) \ {pos} : r.vec[q] = hv[k]
          BY <4>3
        <5>2. k \in (1..L) \ {pos}
          BY <2>6
        <5> QED BY <4>1, <5>1, <5>2, Zenon
      <4> QED BY <3>a, <4>2, <4>3
    <3>2. ASSUME NEW k \in (1..L) \ {pos} PROVE \E q \in 1..m : res.vec[q] = hv[k]
      <4>1. \E q \in 1..m : r.vec[q] = hv[k]
        BY <1>4, <2>5, <3>b, <3>c
      <4>2. PICK q \in 1..m : r.vec[q] = hv[k]
        BY <4>1
      <4>3. res.vec[q] = r.vec[q]
        BY <2>10
      <4> QED BY <4>2, <4>3, Zenon
    <3>3. Held(res.vec) = {res.vec[q] : q \in 1..m}
      BY <2>10 DEF Held
    <3>4. \A x \in Held(res.vec) : \E k \in (1..L) \ {pos} : x = hv[k]
      BY <3>1, <3>3
    <3>5. \A k \in (1..L) \ {pos} : hv[k] \in Held(res.vec)
      BY <3>2, <3>3
    <3> QED BY <3>4, <3>5
  <2> QED BY <1>1, <2>2, <2>9, <2>10, <2>11, <2>12 DEF Sound
<1> QED BY <1>8, <1>9

-----------------------------------------------------------------------------
(* The inductive invariant.                                                *)

\* The nodes held belong to allocated handles.
LEMMA HeldIsAllocated ==
    ASSUME HeapInv
    PROVE  \A x \in Held(hvec) : x \in Node /\ x.hnd \in allocated
<1>1. hvec \in Seq(Node)
  BY DEF HeapInv, HeapTypeOK, Node
<1>2. \A q \in 1..Len(hvec) : /\ hvec[q] \in Node /\ hvec[q].hnd \in Handles
                             /\ heap_index[hvec[q].hnd] = q /\ q # NotQueued
  <2>1. \A q \in 1..Len(hvec) : hvec[q] \in Node /\ q # NotQueued
    BY <1>1 DEF NotQueued
  <2>2. \A x \in Node : x.hnd \in Handles
    BY DEF Node
  <2>3. \A q \in 1..Len(hvec) : heap_index[hvec[q].hnd] = q
    BY DEF HeapInv, IndexAccurate
  <2> QED BY <2>1, <2>2, <2>3
<1> QED BY <1>2 DEF Held, HeapInv, QueuedIsAllocated

\* A step that leaves a sound heap of allocated handles keeps the invariant.
LEMMA SoundKeepsInv ==
    ASSUME HeapInv, Sound(hvec', heap_index'), UNCHANGED <<allocated, num_nodes, capacity>>,
           \A x \in Held(hvec') : x.hnd \in allocated
    PROVE  HeapInv'
<1>1. hvec' \in Seq([prio : Prios, hnd : Handles]) /\ heap_index' \in [Handles -> Int]
  BY DEF Sound, Node
<1>2. /\ \A q \in 1..Len(hvec') : heap_index'[hvec'[q].hnd] = q
      /\ \A h \in Handles : heap_index'[h] # NotQueued =>
           heap_index'[h] \in 1..Len(hvec') /\ hvec'[heap_index'[h]].hnd = h
  BY DEF Sound, Accurate
<1>3. Len(hvec') \in Nat
  BY <1>1
<1>4. \A h \in Handles : heap_index'[h] \in Nat \cup {NotQueued}
  BY <1>2, <1>3
<1>5. HeapTypeOK'
  BY <1>1, <1>4 DEF HeapInv, HeapTypeOK
<1>6. QueuedIsAllocated'
  BY <1>2 DEF QueuedIsAllocated, Held
<1>7. IndexAccurate'
  BY <1>2 DEF IndexAccurate
<1>8. NodesCounted'
  BY DEF HeapInv, NodesCounted
<1> QED BY <1>5, <1>6, <1>7, <1>8 DEF HeapInv

\* allocate() keeps count of the handles and makes room for one more.
LEMMA AllocateKeepsInv ==
    ASSUME HeapInv, NEW h \in Handles, allocate(h)
    PROVE  HeapInv'
<1>1. /\ num_nodes \in Nat /\ capacity \in Nat /\ MaxSize \in Nat \ {0}
      /\ num_nodes <= capacity /\ num_nodes < MaxSize /\ num_nodes = Cardinality(allocated)
  BY HeapAssumption DEF HeapInv, HeapTypeOK, NodesCounted, allocate
<1>2. h \notin allocated /\ heap_index[h] = NotQueued
  BY DEF HeapInv, QueuedIsAllocated, allocate
<1>3. heap_index' = heap_index /\ hvec' = hvec /\ allocated' = allocated \cup {h}
  BY <1>2 DEF allocate, HeapInv, HeapTypeOK
<1>4. num_nodes' = num_nodes + 1 /\ capacity' \in reserved(num_nodes + 1)
  BY DEF allocate
<1>5. capacity' \in Nat /\ num_nodes' <= capacity' /\ num_nodes' <= MaxSize
  <2>1. CASE capacity >= num_nodes + 1
    BY <1>1, <1>4, <2>1 DEF reserved
  <2>2. CASE ~(capacity >= num_nodes + 1)
    BY <1>1, <1>4, <2>2 DEF reserved
  <2> QED BY <2>1, <2>2
<1>6. num_nodes' = Cardinality(allocated')
  <2>1. IsFiniteSet(allocated)
    BY HeapAssumption, FS_Subset DEF HeapInv, HeapTypeOK
  <2> QED BY <1>1, <1>2, <1>3, <1>4, <2>1, FS_AddElement
<1>7. HeapTypeOK'
  BY <1>1, <1>3, <1>4, <1>5 DEF HeapInv, HeapTypeOK
<1>8. IndexAccurate' /\ QueuedIsAllocated'
  BY <1>3 DEF HeapInv, IndexAccurate, QueuedIsAllocated
<1>9. NodesCounted'
  BY <1>5, <1>6 DEF NodesCounted
<1> QED BY <1>7, <1>8, <1>9 DEF HeapInv

\* Freeing a handle keeps enough capacity for the others.
LEMMA DeallocateKeepsInv ==
    ASSUME HeapInv, NEW h \in Handles, deallocate(h)
    PROVE  HeapInv'
<1>1. /\ num_nodes \in Nat /\ capacity \in Nat /\ MaxSize \in Nat \ {0}
      /\ num_nodes <= capacity /\ num_nodes <= MaxSize /\ num_nodes = Cardinality(allocated)
  BY HeapAssumption DEF HeapInv, HeapTypeOK, NodesCounted
<1>2. h \in allocated /\ heap_index[h] = NotQueued
  BY DEF deallocate
<1>3. heap_index' = heap_index /\ hvec' = hvec /\ allocated' = allocated \ {h}
  BY DEF deallocate
<1>4. num_nodes' = num_nodes - 1 /\ capacity' \in shrunk(num_nodes - 1)
  BY DEF deallocate
<1>5. IsFiniteSet(allocated) /\ Cardinality(allocated \ {h}) = Cardinality(allocated) - 1
  <2>1. IsFiniteSet(allocated)
    BY HeapAssumption, FS_Subset DEF HeapInv, HeapTypeOK
  <2> QED BY <1>2, <2>1, FS_RemoveElement
<1>6. num_nodes' \in Nat /\ num_nodes' = Cardinality(allocated')
  <2>1. Cardinality(allocated \ {h}) \in Nat
    BY <1>5, FS_RemoveElement, FS_CardinalityType
  <2> QED BY <1>1, <1>3, <1>4, <1>5, <2>1
<1>7. capacity' \in Nat /\ num_nodes' <= capacity' /\ num_nodes' <= MaxSize
  BY <1>1, <1>4, <1>6 DEF shrunk
<1>8. HeapTypeOK'
  BY <1>3, <1>6, <1>7 DEF HeapInv, HeapTypeOK
<1>9. IndexAccurate' /\ QueuedIsAllocated'
  BY <1>2, <1>3 DEF HeapInv, IndexAccurate, QueuedIsAllocated
<1>10. NodesCounted'
  BY <1>6, <1>7 DEF NodesCounted
<1> QED BY <1>8, <1>9, <1>10 DEF HeapInv

\* insert() as a step of the heap.
LEMMA InsertContents ==
    ASSUME HeapInv, NEW h \in Handles, NEW p \in Prios, insert(h, p)
    PROVE  /\ Sound(hvec', heap_index')
           /\ Held(hvec') = Held(hvec) \cup {[prio |-> p, hnd |-> h]}
<1>1. PICK res : res = inserted(hvec, heap_index, h, p)
  OBVIOUS
<1>2. heap_index[h] = NotQueued /\ hvec' = res.vec /\ heap_index' = res.idx
  BY <1>1 DEF insert
<1> QED BY <1>1, <1>2, InvSound, InsertAdds

\* set_priority() as a step of the heap.
LEMMA SetPriorityContents ==
    ASSUME HeapInv, NEW h \in Handles, NEW p \in Prios, set_priority(h, p)
    PROVE  /\ Sound(hvec', heap_index')
           /\ heap_index[h] \in 1..Len(hvec) /\ hvec[heap_index[h]].hnd = h
           /\ Held(hvec') = {hvec[k] : k \in (1..Len(hvec)) \ {heap_index[h]}}
                             \cup {[prio |-> p, hnd |-> h]}
<1>1. PICK res : res = prioritised(hvec, heap_index, h, p)
  OBVIOUS
<1>2. heap_index[h] # NotQueued /\ hvec' = res.vec /\ heap_index' = res.idx
  BY <1>1 DEF set_priority
<1>3. Sound(hvec, heap_index)
  BY InvSound
<1>4. /\ Sound(res.vec, res.idx)
      /\ heap_index[h] \in 1..Len(hvec) /\ hvec[heap_index[h]].hnd = h
      /\ Held(res.vec) = {hvec[k] : k \in (1..Len(hvec)) \ {heap_index[h]}}
                             \cup {[prio |-> p, hnd |-> h]}
  BY <1>1, <1>2, <1>3, SetPriorityReplaces
<1> QED BY <1>2, <1>4

\* remove_h() as a step of the heap.
LEMMA RemoveHContents ==
    ASSUME HeapInv, NEW pos \in 1..Len(hvec), remove_h(pos)
    PROVE  /\ Sound(hvec', heap_index')
           /\ Held(hvec') = {hvec[k] : k \in (1..Len(hvec)) \ {pos}}
<1>1. PICK res : res = removed_h(hvec, heap_index, pos)
  OBVIOUS
<1>2. hvec' = res.vec /\ heap_index' = res.idx
  BY <1>1 DEF remove_h
<1>3. Sound(hvec, heap_index)
  BY InvSound
<1>4. Sound(res.vec, res.idx) /\ Held(res.vec) = {hvec[k] : k \in (1..Len(hvec)) \ {pos}}
  BY <1>1, <1>3, RemoveTakesOut
<1> QED BY <1>2, <1>4

\* remove() takes out the handle's node.
LEMMA RemoveContents ==
    ASSUME HeapInv, NEW h \in Handles, remove(h)
    PROVE  /\ Sound(hvec', heap_index')
           /\ heap_index[h] \in 1..Len(hvec) /\ hvec[heap_index[h]].hnd = h
           /\ Held(hvec') = {hvec[k] : k \in (1..Len(hvec)) \ {heap_index[h]}}
<1>1. heap_index[h] \in 1..Len(hvec) /\ hvec[heap_index[h]].hnd = h
  BY DEF HeapInv, IndexAccurate, remove
<1>2. remove_h(heap_index[h])
  BY DEF remove
<1> QED BY <1>1, <1>2, RemoveHContents

\* pull_root() takes out the node at the root.
LEMMA PullContents ==
    ASSUME HeapInv, pull_root
    PROVE  /\ Sound(hvec', heap_index')
           /\ 1 \in 1..Len(hvec)
           /\ Held(hvec') = {hvec[k] : k \in (1..Len(hvec)) \ {1}}
<1>1. 1 \in 1..Len(hvec)
  BY DEF HeapInv, HeapTypeOK, pull_root
<1>2. remove_h(1)
  BY DEF pull_root
<1> QED BY <1>1, <1>2, RemoveHContents

\* The heap is empty at first.
LEMMA HeapInitHolds ==
    HeapInit => HeapInv
<1> SUFFICES ASSUME HeapInit PROVE HeapInv
  OBVIOUS
<1>1. HeapTypeOK
  BY DEF HeapInit, HeapTypeOK
<1>2. IndexAccurate /\ QueuedIsAllocated
  BY DEF HeapInit, IndexAccurate, QueuedIsAllocated
<1>3. NodesCounted
  BY HeapAssumption, FS_EmptySet DEF HeapInit, NodesCounted
<1> QED BY <1>1, <1>2, <1>3 DEF HeapInv

\* Every step keeps the invariant.
LEMMA HeapStep ==
    HeapInv /\ [HeapNext]_heapVars => HeapInv'
<1> SUFFICES ASSUME HeapInv, [HeapNext]_heapVars PROVE HeapInv'
  OBVIOUS
<1>1. ASSUME NEW h \in Handles, allocate(h) PROVE HeapInv'
  BY <1>1, AllocateKeepsInv
<1>2. ASSUME NEW h \in Handles, deallocate(h) PROVE HeapInv'
  BY <1>2, DeallocateKeepsInv
<1>3. ASSUME NEW h \in Handles, remove(h) PROVE HeapInv'
  <2>1. \A x \in Held(hvec') : x \in Held(hvec)
    BY <1>3, RemoveContents DEF Held
  <2>2. \A x \in Held(hvec') : x.hnd \in allocated
    BY <2>1, HeldIsAllocated
  <2>3. UNCHANGED <<allocated, num_nodes, capacity>>
    BY <1>3 DEF remove
  <2> QED BY <1>3, <2>2, <2>3, RemoveContents, SoundKeepsInv
<1>4. ASSUME NEW h \in Handles, NEW p \in Prios, insert(h, p) PROVE HeapInv'
  <2>1. PICK node : node = [prio |-> p, hnd |-> h]
    OBVIOUS
  <2>2. Sound(hvec', heap_index') /\ Held(hvec') = Held(hvec) \cup {node}
    BY <1>4, <2>1, InsertContents
  <2>3. node.hnd \in allocated /\ UNCHANGED <<allocated, num_nodes, capacity>>
    BY <1>4, <2>1 DEF insert
  <2>4. \A x \in Held(hvec') : x.hnd \in allocated
    BY <2>2, <2>3, HeldIsAllocated
  <2> QED BY <2>2, <2>3, <2>4, SoundKeepsInv
<1>5. ASSUME NEW h \in Handles, NEW p \in Prios, set_priority(h, p) PROVE HeapInv'
  <2>1. PICK node : node = [prio |-> p, hnd |-> h]
    OBVIOUS
  <2>2. /\ Sound(hvec', heap_index')
        /\ Held(hvec') = {hvec[k] : k \in (1..Len(hvec)) \ {heap_index[h]}} \cup {node}
    BY <1>5, <2>1, SetPriorityContents
  <2>3. node.hnd \in allocated /\ UNCHANGED <<allocated, num_nodes, capacity>>
    BY <1>5, <2>1 DEF set_priority
  <2>4. \A x \in Held(hvec') : x = node \/ x \in Held(hvec)
    BY <2>2 DEF Held
  <2>5. \A x \in Held(hvec') : x.hnd \in allocated
    BY <2>3, <2>4, HeldIsAllocated
  <2> QED BY <2>2, <2>3, <2>5, SoundKeepsInv
<1>6. ASSUME pull_root PROVE HeapInv'
  <2>1. \A x \in Held(hvec') : x \in Held(hvec)
    BY <1>6, PullContents DEF Held
  <2>2. \A x \in Held(hvec') : x.hnd \in allocated
    BY <2>1, HeldIsAllocated
  <2>3. UNCHANGED <<allocated, num_nodes, capacity>>
    BY <1>6 DEF pull_root
  <2> QED BY <1>6, <2>2, <2>3, PullContents, SoundKeepsInv
<1>7. ASSUME UNCHANGED heapVars PROVE HeapInv'
  BY <1>7 DEF heapVars, HeapInv, HeapTypeOK, IndexAccurate, QueuedIsAllocated, NodesCounted
<1> QED BY <1>1, <1>2, <1>3, <1>4, <1>5, <1>6, <1>7 DEF HeapNext

\* The heap's inductive invariant: its types, the handles' positions, and the count of
\* the handles and the room for them, for any fan-out, handles, priorities and largest size.
THEOREM HeapInvariant == HeapSpec => []HeapInv
<1>1. HeapInv /\ [HeapNext]_heapVars => HeapInv'
  BY HeapStep
<1> QED BY <1>1, HeapInitHolds, PTL DEF HeapSpec

\* A handle knows its position, whatever bubble_down() and bubble_up() have moved.
THEOREM HeapIndexAccurate == HeapSpec => []IndexAccurate
<1>1. HeapInv => IndexAccurate
  BY DEF HeapInv
<1> QED BY <1>1, HeapInvariant, PTL

\* insert() never needs memory: the handles queued are among the allocated ones, each in
\* one position, and the vector has room for as many.
THEOREM HeapRoomReserved == HeapSpec => []RoomReserved
<1>1. HeapInv => RoomReserved
  <2> SUFFICES ASSUME HeapInv PROVE RoomReserved
    OBVIOUS
  <2>1. hvec \in Seq(Node) /\ Len(hvec) \in Nat
    BY DEF HeapInv, HeapTypeOK, Node
  <2>2. PICK f : f = [q \in 1..Len(hvec) |-> hvec[q].hnd]
    OBVIOUS
  <2>3. \A q \in 1..Len(hvec) : f[q] \in allocated /\ heap_index[f[q]] = q
    BY <2>2, HeldIsAllocated DEF HeapInv, IndexAccurate, Held
  <2>4. f \in [1..Len(hvec) -> allocated] /\ \A a, b \in 1..Len(hvec) : f[a] = f[b] => a = b
    BY <2>2, <2>3
  <2>5. f \in Injection(1..Len(hvec), allocated)
    BY <2>4, Fun_IsInj
  <2>6. IsFiniteSet(allocated)
    BY HeapAssumption, FS_Subset DEF HeapInv, HeapTypeOK
  <2>7. Cardinality(1..Len(hvec)) <= Cardinality(allocated)
    BY <2>5, <2>6, FS_Injection
  <2>8. Cardinality(1..Len(hvec)) = Len(hvec)
    BY <2>1, FS_Interval, SMTT(30)
  <2> QED BY <2>7, <2>8 DEF HeapInv, NodesCounted, RoomReserved
<1> QED BY <1>1, HeapInvariant, PTL

-----------------------------------------------------------------------------
(* The heap implements the queue of PrioQueue.                             *)

Entry(x) == <<x.hnd, x.prio>>

Entries(v) == {<<v[pos].hnd, v[pos].prio>> : pos \in 1..Len(v)}

\* The entries are those of the nodes held.
LEMMA EntriesOfHeld ==
    ASSUME NEW v
    PROVE  Entries(v) = {Entry(x) : x \in Held(v)}
BY DEF Entries, Held, Entry

\* A handle is queued in the abstract if its index says so.
LEMMA QueuedByIndex ==
    ASSUME HeapInv, NEW h \in Handles
    PROVE  Queue!Queued(h) <=> heap_index[h] # NotQueued
<1>1. hvec \in Seq(Node) /\ Len(hvec) \in Nat
  BY DEF HeapInv, HeapTypeOK, Node
<1>2. \A q \in 1..Len(hvec) : /\ hvec[q].hnd \in Handles /\ hvec[q].prio \in Prios
                             /\ heap_index[hvec[q].hnd] = q /\ q # NotQueued
  <2>1. \A q \in 1..Len(hvec) : hvec[q] \in Node /\ q # NotQueued
    BY <1>1 DEF NotQueued
  <2>2. \A x \in Node : x.hnd \in Handles /\ x.prio \in Prios
    BY DEF Node
  <2>3. \A q \in 1..Len(hvec) : heap_index[hvec[q].hnd] = q
    BY DEF HeapInv, IndexAccurate
  <2> QED BY <2>1, <2>2, <2>3
<1>3. Queue!Queued(h) <=>
        \E p \in Prios : \E q \in 1..Len(hvec) : <<h, p>> = <<hvec[q].hnd, hvec[q].prio>>
  BY DEF Queue!Queued
<1>4. Queue!Queued(h) <=> \E q \in 1..Len(hvec) : hvec[q].hnd = h
  BY <1>2, <1>3
<1>5. (\E q \in 1..Len(hvec) : hvec[q].hnd = h) <=> heap_index[h] # NotQueued
  BY <1>2 DEF HeapInv, IndexAccurate
<1> QED BY <1>4, <1>5

\* The other nodes than the one at pos are those with another handle.
LEMMA OtherEntries ==
    ASSUME HeapInv, NEW pos \in 1..Len(hvec), NEW h, h = hvec[pos].hnd
    PROVE  {Entry(x) : x \in {hvec[k] : k \in (1..Len(hvec)) \ {pos}}}
             = {e \in Entries(hvec) : e[1] # h}
<1>1. \A k \in 1..Len(hvec) : hvec[k].hnd = h <=> k = pos
  BY DEF HeapInv, IndexAccurate
<1>2. ASSUME NEW k \in (1..Len(hvec)) \ {pos}
      PROVE  Entry(hvec[k]) \in {e \in Entries(hvec) : e[1] # h}
  BY <1>1 DEF Entry, Entries
<1>3. ASSUME NEW e \in Entries(hvec), e[1] # h
      PROVE  \E k \in (1..Len(hvec)) \ {pos} : e = Entry(hvec[k])
  BY <1>1, <1>3 DEF Entry, Entries
<1> QED BY <1>2, <1>3

\* Taking a node out is the abstract Remove.
LEMMA TakingOutRemoves ==
    ASSUME HeapInv, NEW pos \in 1..Len(hvec), NEW h \in Handles, h = hvec[pos].hnd,
           Held(hvec') = {hvec[k] : k \in (1..Len(hvec)) \ {pos}}
    PROVE  Queue!Remove(h)
<1>2. heap_index[h] # NotQueued
  BY DEF HeapInv, HeapTypeOK, IndexAccurate, NotQueued
<1>3. Queue!Queued(h)
  BY <1>2, QueuedByIndex
<1>4. Entries(hvec') = {e \in Entries(hvec) : e[1] # h}
  BY EntriesOfHeld, OtherEntries
<1> QED BY <1>3, <1>4 DEF Queue!Remove, Entries

\* The heap keeps what is inserted until it is removed, each handle once and with the
\* priority it was last given: each step is a step of PrioQueue, or leaves the contents.
THEOREM HeapRefinement == HeapSpec => ImplementsPrioQueue
<1>1. HeapInit => Queue!Init
  BY DEF HeapInit, Queue!Init
<1>2. HeapInv /\ [HeapNext]_heapVars => [Queue!Next]_(Entries(hvec))
  <2> SUFFICES ASSUME HeapInv, [HeapNext]_heapVars
               PROVE  Queue!Next \/ Entries(hvec') = Entries(hvec)
    BY DEF Entries
  <2>1. ASSUME NEW h \in Handles, allocate(h) \/ deallocate(h)
        PROVE  Entries(hvec') = Entries(hvec)
    BY <2>1 DEF allocate, deallocate
  <2>2. ASSUME NEW h \in Handles, remove(h) PROVE Queue!Next
    <3>1. PICK pos \in 1..Len(hvec) :
            hvec[pos].hnd = h /\ Held(hvec') = {hvec[k] : k \in (1..Len(hvec)) \ {pos}}
      BY <2>2, RemoveContents
    <3>2. Queue!Remove(h)
      BY <3>1, TakingOutRemoves
    <3> QED BY <3>2 DEF Queue!Next
  <2>3. ASSUME NEW h \in Handles, NEW p \in Prios, insert(h, p) PROVE Queue!Next
    <3>0. PICK node : node = [prio |-> p, hnd |-> h]
      OBVIOUS
    <3>1. node = [prio |-> p, hnd |-> h] /\ Entry(node) = <<h, p>>
      BY <3>0 DEF Entry
    <3>2. Held(hvec') = Held(hvec) \cup {node}
      BY <2>3, <3>1, InsertContents
    <3>3. Entries(hvec') = Entries(hvec) \cup {<<h, p>>}
      BY <3>1, <3>2, EntriesOfHeld
    <3>4. ~Queue!Queued(h)
      BY <2>3, QueuedByIndex DEF insert
    <3>5. Queue!Insert(h, p)
      BY <3>3, <3>4 DEF Queue!Insert, Entries
    <3> QED BY <3>5 DEF Queue!Next
  <2>4. ASSUME NEW h \in Handles, NEW p \in Prios, set_priority(h, p) PROVE Queue!Next
    <3>0. PICK node : node = [prio |-> p, hnd |-> h]
      OBVIOUS
    <3>1. node = [prio |-> p, hnd |-> h] /\ Entry(node) = <<h, p>>
      BY <3>0 DEF Entry
    <3>2. PICK pos \in 1..Len(hvec) :
            /\ hvec[pos].hnd = h
            /\ Held(hvec') = {hvec[k] : k \in (1..Len(hvec)) \ {pos}} \cup {node}
      BY <2>4, <3>1, SetPriorityContents
    <3>3. Entries(hvec') =
            {Entry(x) : x \in {hvec[k] : k \in (1..Len(hvec)) \ {pos}}} \cup {<<h, p>>}
      BY <3>1, <3>2, EntriesOfHeld
    <3>4. Entries(hvec') = {e \in Entries(hvec) : e[1] # h} \cup {<<h, p>>}
      BY <3>2, <3>3, OtherEntries
    <3>5. Queue!Queued(h)
      BY <2>4, QueuedByIndex DEF set_priority
    <3>6. Queue!Change(h, p)
      BY <3>4, <3>5 DEF Queue!Change, Entries
    <3> QED BY <3>6 DEF Queue!Next
  <2>5. ASSUME pull_root PROVE Queue!Next
    <3>1. 1 \in 1..Len(hvec) /\ Held(hvec') = {hvec[k] : k \in (1..Len(hvec)) \ {1}}
      BY <2>5, PullContents
    <3>2. PICK h : h = hvec[1].hnd
      OBVIOUS
    <3>3. hvec[1] \in Node
      BY <3>1, HeldIsAllocated DEF Held
    <3>4. h \in Handles
      BY <3>2, <3>3 DEF Node
    <3>5. Queue!Remove(h)
      BY <3>1, <3>2, <3>4, TakingOutRemoves
    <3> QED BY <3>4, <3>5 DEF Queue!Next
  <2>6. ASSUME UNCHANGED heapVars PROVE Entries(hvec') = Entries(hvec)
    BY <2>6 DEF heapVars
  <2> QED BY <2>1, <2>2, <2>3, <2>4, <2>5, <2>6 DEF HeapNext
<1>3. HeapInv /\ [HeapNext]_heapVars =>
        [Queue!Next]_({<<hvec[pos].hnd, hvec[pos].prio>> : pos \in 1..Len(hvec)})
  BY <1>2 DEF Entries
<1> QED BY <1>1, <1>3, HeapInvariant, PTL DEF HeapSpec, ImplementsPrioQueue, Queue!Spec

-----------------------------------------------------------------------------
(* Order.                                                                  *)

\* The children of pos are the N positions from lchild(pos).
LEMMA ChildrenOf ==
    ASSUME NEW q \in Nat, q >= 2, NEW pos \in Nat, pos >= 1
    PROVE  parent(q) = pos <=> lchild(pos) <= q /\ q < lchild(pos) + N
<1>1. N \in Nat /\ N >= 1
  BY HeapAssumption
<1>2. PICK d \in Int : d = (q - 2) \div N
  BY <1>1
<1>3. d * N <= q - 2 /\ q - 2 < d * N + N
  BY <1>1, <1>2
<1>4. PICK e \in Int : e = pos - 1
  OBVIOUS
<1>5. parent(q) = pos <=> d = e
  BY <1>2, <1>4 DEF parent
<1>6. lchild(pos) = e * N + 2
  BY <1>4 DEF lchild
<1>7. CASE d = e
  BY <1>1, <1>3, <1>5, <1>6, <1>7
<1>8. CASE d < e
  <2>1. d * N + N <= e * N
    BY <1>1, <1>8
  <2> QED BY <1>1, <1>3, <1>5, <1>6, <1>8, <2>1
<1>9. CASE d > e
  <2>1. e * N + N <= d * N
    BY <1>1, <1>9
  <2> QED BY <1>1, <1>3, <1>5, <1>6, <1>9, <2>1
<1> QED BY <1>7, <1>8, <1>9

\* Between the root and p the nodes are in order when the hole at p has been filled
\* towards the root: none has become less urgent.
DownOrdered(r, v, node, p) ==
    /\ r \in [1..Len(v) -> Node]
    /\ \A q \in 2..p : r[parent(q)].prio <= r[q].prio
    /\ \A q \in 1..(p - 1) : r[q].prio <= v[q].prio
    /\ \A q \in (p + 1)..Len(v) : r[q] = v[q]
    /\ r[p] = node \/ (p > 1 /\ r[p] = v[parent(p)])

\* bubble_down() keeps the nodes before the hole in order: by induction along the path.
LEMMA DownOrder ==
    ASSUME NEW v \in Seq(Node), NEW idx, NEW node \in Node, NEW f,
           Moves(f, v, idx, node, ParentOf(v), DownStop(v, node)), NEW at \in 1..Len(v),
           \A q \in 2..(at - 1) : v[parent(q)].prio <= v[q].prio
    PROVE  DownOrdered(f[at].vec, v, node, at)
<1>0. /\ Len(v) \in Nat /\ at \in Nat /\ at <= Len(v)
      /\ v \in [1..Len(v) -> Node] /\ \A x \in Node : x.prio \in Int
  <2>1. \A x \in Node : x.prio \in Int
    BY HeapAssumption DEF Node
  <2>2. /\ Len(v) \in Nat /\ at \in Nat /\ at <= Len(v)
        /\ v \in [1..Len(v) -> Node]
    OBVIOUS
  <2> QED BY <2>1, <2>2
<1>1. \A q \in Nat : q > 1 => parent(q) \in Nat /\ 1 <= parent(q) /\ parent(q) < q
  BY ParentBefore
<1> DEFINE S == {p \in Nat : p \in 1..at => DownOrdered(f[p].vec, v, node, p)}
<1>2. ASSUME NEW p \in Nat, p \in 1..at, \A k \in Nat : k < p => k \in S
      PROVE  DownOrdered(f[p].vec, v, node, p)
  <2>1. p \in 1..Len(v) /\ p >= 1
    BY <1>0, <1>2
  <2>2. f[p] = IF p \in DownStop(v, node) THEN Placed(v, idx, node, p)
               ELSE Pulled(f[ParentOf(v)[p]], v, p, ParentOf(v)[p])
    BY <2>1 DEF Moves
  <2>3. CASE p \in DownStop(v, node)
    <3>1. PICK r : r = f[p].vec
      OBVIOUS
    <3>2. r = [v EXCEPT ![p] = node]
      BY <2>2, <2>3, <3>1 DEF Placed
    <3>3. /\ r \in [1..Len(v) -> Node] /\ r[p] = node
          /\ \A q \in 1..Len(v) : q # p => r[q] = v[q]
      BY <1>0, <2>1, <3>2
    <3>4. p = 1 \/ v[parent(p)].prio <= node.prio
      <4>1. p = 1 \/ ~(node.prio < v[parent(p)].prio)
        BY <2>3 DEF DownStop, lt
      <4>2. p = 1 \/ v[parent(p)] \in Node
        BY <1>0, <1>1, <2>1
      <4> QED BY <1>0, <4>1, <4>2
    <3>5. ASSUME NEW q \in 2..p PROVE r[parent(q)].prio <= r[q].prio
      <4>1. /\ q \in Nat /\ q > 1 /\ parent(q) \in 1..Len(v) /\ parent(q) # p
            /\ q \in 1..Len(v)
        BY <1>0, <1>1, <2>1
      <4>2. CASE q = p
        BY <3>3, <3>4, <4>1, <4>2
      <4>3. CASE q # p
        <5>1. q \in 2..(at - 1)
          BY <1>0, <1>2, <4>3
        <5> QED BY <3>3, <4>1, <4>3, <5>1
      <4> QED BY <4>2, <4>3
    <3>6. \A q \in 1..(p - 1) : r[q].prio <= v[q].prio
      <4>1. \A q \in 1..(p - 1) : q \in 1..Len(v) /\ q # p
        BY <1>0, <2>1
      <4>2. \A q \in 1..(p - 1) : r[q] = v[q] /\ v[q].prio \in Int
        BY <1>0, <3>3, <4>1
      <4> QED BY <4>2
    <3>7. \A q \in (p + 1)..Len(v) : r[q] = v[q]
      BY <1>0, <2>1, <3>3
    <3> QED BY <3>1, <3>3, <3>5, <3>6, <3>7 DEF DownOrdered
  <2>4. CASE p \notin DownStop(v, node)
    <3>1. p > 1 /\ node.prio < v[parent(p)].prio
      BY <2>1, <2>4 DEF DownStop, lt
    <3>2. PICK n \in Nat : n = parent(p) /\ 1 <= n /\ n < p /\ n \in 1..Len(v) /\ n \in 1..at
      BY <1>0, <1>1, <1>2, <2>1, <3>1
    <3>3. ParentOf(v)[p] = n
      BY <2>1, <3>1, <3>2 DEF ParentOf
    <3>4. PICK r0 : r0 = f[n].vec
      OBVIOUS
    <3>5. DownOrdered(r0, v, node, n)
      BY <1>2, <3>2, <3>4
    <3>6. PICK r : r = f[p].vec
      OBVIOUS
    <3>7. r = [r0 EXCEPT ![p] = v[n]]
      BY <2>2, <2>4, <3>3, <3>4, <3>6 DEF Pulled
    <3>8. /\ r0 \in [1..Len(v) -> Node]
          /\ \A q \in 2..n : r0[parent(q)].prio <= r0[q].prio
          /\ \A q \in 1..(n - 1) : r0[q].prio <= v[q].prio
          /\ \A q \in (n + 1)..Len(v) : r0[q] = v[q]
          /\ r0[n] = node \/ (n > 1 /\ r0[n] = v[parent(n)])
      BY <3>5 DEF DownOrdered
    <3>9. /\ r \in [1..Len(v) -> Node] /\ r[p] = v[n]
          /\ \A q \in 1..Len(v) : q # p => r[q] = r0[q]
      BY <1>0, <2>1, <3>2, <3>7, <3>8
    <3>10. \A q \in 1..Len(v) : v[q].prio \in Int /\ r0[q].prio \in Int /\ r[q].prio \in Int
      BY <1>0, <3>8, <3>9
    <3>11. r0[n].prio <= v[n].prio
      <4>1. CASE r0[n] = node
        BY <1>0, <3>1, <3>2, <3>10, <4>1
      <4>2. CASE n > 1 /\ r0[n] = v[parent(n)]
        <5>1. n \in 2..(at - 1)
          BY <1>0, <1>2, <3>2, <4>2
        <5> QED BY <4>2, <5>1
      <4> QED BY <3>8, <4>1, <4>2
    <3>12. \A q \in 1..(p - 1) : r[q].prio <= v[q].prio
      <4> SUFFICES ASSUME NEW q \in 1..(p - 1) PROVE r[q].prio <= v[q].prio
        OBVIOUS
      <4>0. q \in 1..Len(v) /\ q # p
        BY <1>0, <2>1
      <4>1. q \in 1..Len(v) /\ r[q] = r0[q]
        BY <3>9, <4>0
      <4>2. q \in 1..(n - 1) \/ q = n \/ q \in (n + 1)..Len(v)
        BY <3>2, <4>1
      <4> QED BY <3>8, <3>10, <3>11, <4>1, <4>2
    <3>13. ASSUME NEW q \in 2..p PROVE r[parent(q)].prio <= r[q].prio
      <4>1. /\ q \in Nat /\ q > 1 /\ parent(q) \in 1..(p - 1) /\ parent(q) \in 1..Len(v)
            /\ q \in 1..Len(v) /\ r[parent(q)] = r0[parent(q)]
        BY <1>0, <1>1, <2>1, <3>9
      <4>2. CASE q = p
        BY <3>2, <3>9, <3>11, <4>1, <4>2
      <4>3. CASE q # p /\ q <= n
        <5>1. q \in 2..n
          BY <3>2, <4>3
        <5> QED BY <3>8, <3>9, <4>1, <4>3, <5>1
      <4>4. CASE q # p /\ q > n
        <5>1. r[q] = v[q]
          BY <1>0, <3>2, <3>8, <3>9, <4>1, <4>4
        <5>2. r[parent(q)].prio <= v[parent(q)].prio
          BY <3>12, <4>1
        <5>3. v[parent(q)].prio <= v[q].prio
          <6>1. q \in 2..(at - 1)
            BY <1>0, <1>2, <4>4
          <6> QED BY <6>1
        <5> QED BY <3>10, <4>1, <5>1, <5>2, <5>3, SMTT(30)
      <4> QED BY <3>2, <4>1, <4>2, <4>3, <4>4
    <3>14. \A q \in (p + 1)..Len(v) : r[q] = v[q]
      <4>1. \A q \in (p + 1)..Len(v) : q \in 1..Len(v) /\ q # p /\ q \in (n + 1)..Len(v)
        BY <1>0, <2>1, <3>2
      <4> QED BY <3>8, <3>9, <4>1
    <3>15. p > 1 /\ r[p] = v[parent(p)]
      BY <3>1, <3>2, <3>9
    <3> QED BY <3>6, <3>9, <3>12, <3>13, <3>14, <3>15 DEF DownOrdered
  <2> QED BY <2>3, <2>4
<1>3. \A p \in Nat : (\A k \in Nat : k < p => k \in S) => p \in S
  BY <1>2
<1> HIDE DEF S
<1>4. at \in S
  BY <1>0, <1>3, StrongInduction
<1> QED BY <1>0, <1>4 DEF S

\* Beyond p the first m nodes are in order when the hole at p has been filled away from
\* the root: none has become more urgent.
UpOrdered(r, v, node, m, p) ==
    /\ r \in [1..Len(v) -> Node]
    /\ \A q \in 2..m : parent(q) >= p => r[parent(q)].prio <= r[q].prio
    /\ \A q \in (p + 1)..m : v[q].prio <= r[q].prio
    /\ \A q \in 1..(p - 1) : r[q] = v[q]
    /\ r[p] = node \/ (lchild(p) <= Len(v) /\ r[p] = v[selchild(v, p)])

\* bubble_up() with the last node of an ordered heap keeps the others in order beyond the
\* hole: by induction along the path.
LEMMA UpOrder ==
    ASSUME NEW v \in Seq(Node), NEW idx, NEW node \in Node, NEW f,
           Moves(f, v, idx, node, ChildOf(v), UpStop(v, node)),
           NEW m \in Nat, m = Len(v) - 1, node = v[Len(v)], NEW at \in 1..m,
           \A q \in 2..Len(v) : v[parent(q)].prio <= v[q].prio
    PROVE  UpOrdered(f[at].vec, v, node, m, at)
<1>0. /\ Len(v) \in Nat /\ m < Len(v) /\ Len(v) >= 2
      /\ v \in [1..Len(v) -> Node] /\ \A x \in Node : x.prio \in Int
  <2>1. \A x \in Node : x.prio \in Int
    BY HeapAssumption DEF Node
  <2>2. Len(v) \in Nat /\ m < Len(v) /\ Len(v) >= 2 /\ v \in [1..Len(v) -> Node]
    OBVIOUS
  <2> QED BY <2>1, <2>2
<1>1. \A q \in Nat : q > 1 => parent(q) \in Nat /\ 1 <= parent(q) /\ parent(q) < q
  BY ParentBefore
<1>2. \A q \in 1..m : q \in Nat /\ q \in 1..Len(v) /\ q < Len(v) /\ q >= 1
  BY <1>0
<1> DEFINE S == {n \in Nat : \A p \in 1..m : Len(v) - p = n => UpOrdered(f[p].vec, v, node, m, p)}
<1>3. ASSUME NEW p \in 1..m, \A k \in 1..m : k > p => UpOrdered(f[k].vec, v, node, m, k)
      PROVE  UpOrdered(f[p].vec, v, node, m, p)
  <2>1. f[p] = IF p \in UpStop(v, node) THEN Placed(v, idx, node, p)
               ELSE Pulled(f[ChildOf(v)[p]], v, p, ChildOf(v)[p])
    BY <1>2 DEF Moves
  <2>2. \A q \in 2..m : /\ q \in Nat /\ q >= 2 /\ q \in 1..m /\ q \in 1..Len(v)
                        /\ q \in 2..Len(v)
                        /\ parent(q) \in 1..m /\ parent(q) \in 1..Len(v) /\ parent(q) < q
    BY <1>0, <1>1
  <2>3. \A q \in 2..m : parent(q) = p => lchild(p) <= q /\ q < lchild(p) + N
    BY <1>2, <2>2, ChildrenOf
  <2>4. lchild(p) \in Nat /\ lchild(p) > p /\ N \in Nat
    BY <1>2, ChildAfter, HeapAssumption
  <2>5. CASE p \in UpStop(v, node)
    <3>1. PICK r : r = f[p].vec
      OBVIOUS
    <3>2. r = [v EXCEPT ![p] = node]
      BY <2>1, <2>5, <3>1 DEF Placed
    <3>3. /\ r \in [1..Len(v) -> Node] /\ r[p] = node
          /\ \A q \in 1..Len(v) : q # p => r[q] = v[q]
      BY <1>0, <1>2, <3>2
    <3>4. \A q \in 1..Len(v) : v[q].prio \in Int /\ r[q].prio \in Int
      BY <1>0, <3>3
    <3>5. ASSUME NEW q \in 2..m, parent(q) >= p PROVE r[parent(q)].prio <= r[q].prio
      <4>1. q # p /\ r[q] = v[q]
        BY <1>2, <2>2, <3>3, <3>5
      <4>2. CASE parent(q) # p
        BY <2>2, <3>3, <4>1, <4>2
      <4>3. CASE parent(q) = p
        <5>1. lchild(p) <= q /\ q < lchild(p) + N /\ q < Len(v) /\ lchild(p) <= Len(v)
          BY <1>0, <2>2, <2>3, <2>4, <4>3
        <5>2. PICK c \in 1..Len(v) : c = selchild(v, p) /\ ~lt(v[q].prio, v[c].prio)
          BY <1>2, <2>2, <5>1, SelChild
        <5>3. ~lt(v[c].prio, node.prio)
          BY <2>4, <2>5, <5>1, <5>2, <1>0 DEF UpStop
        <5>4. node.prio <= v[q].prio
          <6>1. node.prio \in Int /\ v[q].prio \in Int /\ v[c].prio \in Int
            BY <1>0, <2>2, <3>4
          <6> QED BY <5>2, <5>3, <6>1 DEF lt
        <5> QED BY <3>3, <4>1, <4>3, <5>4
      <4> QED BY <4>2, <4>3
    <3>6. \A q \in (p + 1)..m : v[q].prio <= r[q].prio
      <4>1. \A q \in (p + 1)..m : q \in 1..Len(v) /\ q # p
        BY <1>0, <1>2
      <4>2. \A q \in (p + 1)..m : r[q] = v[q] /\ v[q].prio \in Int
        BY <3>3, <3>4, <4>1
      <4> QED BY <4>2
    <3>7. \A q \in 1..(p - 1) : r[q] = v[q]
      <4>1. \A q \in 1..(p - 1) : q \in 1..Len(v) /\ q # p
        BY <1>0, <1>2
      <4> QED BY <3>3, <4>1
    <3> QED BY <3>1, <3>3, <3>5, <3>6, <3>7 DEF UpOrdered
  <2>6. CASE p \notin UpStop(v, node)
    <3>1. PICK c \in 1..Len(v) : /\ c = selchild(v, p) /\ ChildOf(v)[p] = c
                                /\ lchild(p) <= Len(v) /\ c > p
                                /\ lt(v[c].prio, node.prio)
      BY <1>2, <2>6, UpNext
    <3>2. lchild(p) <= c /\ c < lchild(p) + N
      BY <1>2, <3>1, SelChild
    <3>3. v[c].prio < node.prio /\ v[c].prio \in Int /\ node.prio \in Int
      BY <1>0, <3>1 DEF lt
    <3>4. c # Len(v) /\ c \in 1..m /\ c \in Nat /\ c \in 2..m
      <4>1. c # Len(v)
        BY <3>3
      <4> QED BY <1>0, <1>2, <3>1, <4>1
    <3>5. parent(c) = p
      BY <1>2, <3>2, <3>4, ChildrenOf
    <3>6. PICK r0 : r0 = f[c].vec
      OBVIOUS
    <3>7. UpOrdered(r0, v, node, m, c)
      <4>1. c \in 1..m /\ c > p
        BY <3>1, <3>4
      <4>2. UpOrdered(f[c].vec, v, node, m, c)
        BY <1>3, <4>1, Zenon
      <4> QED BY <3>6, <4>2, Zenon
    <3>8. PICK r : r = f[p].vec
      OBVIOUS
    <3>9. r = [r0 EXCEPT ![p] = v[c]]
      <4>1. f[p] = Pulled(f[c], v, p, c)
        BY <2>1, <2>6, <3>1
      <4>2. Pulled(f[c], v, p, c).vec = [f[c].vec EXCEPT ![p] = v[c]]
        BY DEF Pulled
      <4> QED BY <3>6, <3>8, <4>1, <4>2
    <3>10. /\ r0 \in [1..Len(v) -> Node]
           /\ \A q \in 2..m : parent(q) >= c => r0[parent(q)].prio <= r0[q].prio
           /\ \A q \in (c + 1)..m : v[q].prio <= r0[q].prio
           /\ \A q \in 1..(c - 1) : r0[q] = v[q]
           /\ r0[c] = node \/ (lchild(c) <= Len(v) /\ r0[c] = v[selchild(v, c)])
      BY <3>7 DEF UpOrdered
    <3>11. /\ r \in [1..Len(v) -> Node] /\ r[p] = v[c]
           /\ \A q \in 1..Len(v) : q # p => r[q] = r0[q]
      BY <1>0, <1>2, <3>1, <3>9, <3>10
    <3>12. \A q \in 1..Len(v) : v[q].prio \in Int /\ r0[q].prio \in Int /\ r[q].prio \in Int
      BY <1>0, <3>10, <3>11
    <3>13. v[c].prio <= r0[c].prio
      <4>1. CASE r0[c] = node
        BY <3>3, <4>1
      <4>2. CASE lchild(c) <= Len(v) /\ r0[c] = v[selchild(v, c)]
        <5>1. PICK d \in 1..Len(v) : /\ d = selchild(v, c) /\ d > c
                                    /\ lchild(c) <= d /\ d < lchild(c) + N
          BY <3>1, <4>2, SelChild
        <5>2. parent(d) = c /\ d \in 2..Len(v)
          BY <1>0, <3>4, <5>1, ChildrenOf
        <5> QED BY <4>2, <5>1, <5>2
      <4> QED BY <3>10, <4>1, <4>2
    <3>14. \A q \in (p + 1)..m : v[q].prio <= r[q].prio
      <4> SUFFICES ASSUME NEW q \in (p + 1)..m PROVE v[q].prio <= r[q].prio
        OBVIOUS
      <4>0. q \in 1..Len(v) /\ q # p
        BY <1>0, <1>2
      <4>1. r[q] = r0[q]
        BY <3>11, <4>0
      <4>2. q \in 1..(c - 1) \/ q = c \/ q \in (c + 1)..m
        BY <1>2, <3>4, <4>0
      <4> QED BY <3>10, <3>12, <3>13, <4>0, <4>1, <4>2
    <3>15. ASSUME NEW q \in 2..m, parent(q) >= p PROVE r[parent(q)].prio <= r[q].prio
      <4>0. q \in (p + 1)..m /\ q # p /\ q \in 1..Len(v) /\ parent(q) \in 1..Len(v)
        BY <1>2, <2>2, <3>15
      <4>1. v[q].prio <= r[q].prio /\ r[q] = r0[q]
        BY <3>11, <3>14, <4>0
      <4>2. CASE parent(q) = p
        <5>1. lchild(p) <= q /\ q < lchild(p) + N /\ q < Len(v)
          BY <1>2, <2>2, <2>3, <4>2
        <5>2. ~lt(v[q].prio, v[c].prio)
          BY <1>2, <3>1, <4>0, <5>1, SelChild
        <5>3. v[c].prio <= v[q].prio
          BY <3>1, <3>12, <4>0, <5>2 DEF lt
        <5> QED BY <3>1, <3>11, <3>12, <4>0, <4>1, <4>2, <5>3
      <4>3. CASE parent(q) # p /\ parent(q) < c
        <5>1. parent(q) \in 1..(c - 1)
          BY <3>4, <2>2, <4>3
        <5>2. r[parent(q)] = v[parent(q)]
          BY <3>10, <3>11, <4>0, <4>3, <5>1
        <5>3. v[parent(q)].prio <= v[q].prio
          BY <2>2
        <5>4. v[parent(q)].prio \in Int /\ v[q].prio \in Int /\ r[q].prio \in Int
          BY <3>12, <4>0
        <5>5. v[parent(q)].prio <= r[q].prio
          BY <4>1, <5>3, <5>4
        <5> QED BY <5>2, <5>5
      <4>4. CASE parent(q) # p /\ parent(q) >= c
        BY <3>10, <3>11, <4>0, <4>1, <4>4
      <4> QED BY <2>2, <3>4, <4>2, <4>3, <4>4
    <3>16. \A q \in 1..(p - 1) : r[q] = v[q]
      <4>1. \A q \in 1..(p - 1) : q \in 1..Len(v) /\ q # p /\ q \in 1..(c - 1)
        BY <1>0, <1>2, <3>1, <3>4
      <4> QED BY <3>10, <3>11, <4>1
    <3> QED BY <3>1, <3>8, <3>11, <3>14, <3>15, <3>16 DEF UpOrdered
  <2> QED BY <2>5, <2>6
<1>4. ASSUME NEW n \in Nat, \A k \in Nat : k < n => k \in S PROVE n \in S
  <2> SUFFICES ASSUME NEW p \in 1..m, Len(v) - p = n PROVE UpOrdered(f[p].vec, v, node, m, p)
    OBVIOUS
  <2>1. ASSUME NEW k \in 1..m, k > p PROVE UpOrdered(f[k].vec, v, node, m, k)
    <3>1. Len(v) - k \in Nat /\ Len(v) - k < n
      BY <1>0, <1>2, <2>1
    <3> QED BY <1>4, <3>1
  <2> QED BY <1>3, <2>1
<1>5. Len(v) - at \in S
  <2> HIDE DEF S
  <2>1. \A n \in Nat : n \in S
    BY <1>4, StrongInduction
  <2>2. Len(v) - at \in Nat
    BY <1>0, <1>2
  <2> QED BY <2>1, <2>2
<1> QED BY <1>5

\* insert() keeps the heap in order.
LEMMA InsertOrdered ==
    ASSUME NEW hv, NEW hi, Sound(hv, hi), Ordered(hv), NEW h \in Handles, NEW p \in Prios,
           NEW res, res = inserted(hv, hi, h, p)
    PROVE  Ordered(res.vec)
<1>1. PICK node \in Node : node = [prio |-> p, hnd |-> h]
  BY DEF Node
<1>a. hv \in Seq(Node) /\ Append(hv, node) \in Seq(Node)
  BY DEF Sound
<1>2. PICK v \in Seq(Node) : v = Append(hv, node)
  BY <1>a
<1>3. PICK at : at = Len(hv) + 1
  OBVIOUS
<1>4. /\ Len(v) = at /\ at \in 1..Len(v) /\ Len(v) \in Nat
      /\ Len(hv) \in Nat /\ at - 1 = Len(hv)
      /\ \A q \in 1..Len(hv) : v[q] = hv[q]
  BY <1>a, <1>2, <1>3
<1>5. \A q \in 1..Len(hv) : hv[q].prio \in Int
  BY <1>a, PriosAreNumbers
<1>6. \A q \in 2..(at - 1) : v[parent(q)].prio <= v[q].prio
  <2> SUFFICES ASSUME NEW q \in 2..Len(hv) PROVE v[parent(q)].prio <= v[q].prio
    BY <1>4
  <2>1. q \in 1..Len(hv) /\ parent(q) \in 1..Len(hv)
    BY <1>4, ParentBefore
  <2>2. ~lt(hv[q].prio, hv[parent(q)].prio)
    BY DEF Ordered
  <2> QED BY <1>4, <1>5, <2>1, <2>2 DEF lt
<1>7. PICK f : /\ Moves(f, v, hi, node, ParentOf(v), DownStop(v, node))
               /\ \A q \in 1..Len(v) : bubble_down(v, hi, q, node) = f[q]
  BY DownMoves
<1>8. at \in 1..Len(v)
  BY <1>4
<1>9. DownOrdered(f[at].vec, v, node, at)
  BY <1>6, <1>7, <1>8, DownOrder
<1>10. res.vec = bubble_down(v, hi, at, node).vec
  BY <1>1, <1>2, <1>3, Zenon DEF inserted
<1>11. res.vec = f[at].vec
  BY <1>7, <1>8, <1>10
<1>12. /\ res.vec \in [1..Len(v) -> Node]
       /\ \A q \in 2..Len(v) : res.vec[parent(q)].prio <= res.vec[q].prio
  BY <1>4, <1>9, <1>11 DEF DownOrdered
<1>13. res.vec \in Seq(Node) /\ Len(res.vec) = Len(v)
  BY <1>4, <1>12
<1>14. \A q \in 1..Len(v) : res.vec[q].prio \in Int
  BY <1>13, PriosAreNumbers
<1>15. \A q \in 2..Len(v) : q \in 1..Len(v) /\ parent(q) \in 1..Len(v)
  BY <1>4, ParentBefore
<1>16. \A q \in 2..Len(v) : ~lt(res.vec[q].prio, res.vec[parent(q)].prio)
  BY <1>12, <1>14, <1>15 DEF lt
<1> QED BY <1>13, <1>16 DEF Ordered

\* remove_h() keeps the heap in order where the last node, which takes the place of the
\* removed one, is not more urgent than the parent there.
LEMMA RemoveOrdered ==
    ASSUME NEW hv, NEW hi, Sound(hv, hi), Ordered(hv), NEW pos \in 1..Len(hv),
           pos = 1 \/ hv[parent(pos)].prio <= hv[Len(hv)].prio,
           NEW res, res = removed_h(hv, hi, pos)
    PROVE  Ordered(res.vec)
<1>1. PICK L : L = Len(hv)
  OBVIOUS
<1>2. L \in Nat /\ L >= 1 /\ hv \in Seq(Node) /\ hv \in [1..L -> Node] /\ pos \in 1..L
  BY <1>1 DEF Sound
<1>3. \A q \in 1..L : hv[q].prio \in Int
  BY <1>1, <1>2, PriosAreNumbers
<1>4. \A q \in 2..L : /\ q \in 1..L /\ q \in Nat /\ parent(q) \in 1..L /\ parent(q) \in Nat
                      /\ 1 <= parent(q) /\ parent(q) < q
  BY <1>2, ParentBefore
<1>5. \A q \in 2..L : hv[parent(q)].prio <= hv[q].prio
  BY <1>1, <1>3, <1>4 DEF Ordered, lt
<1>6. CASE pos = L
  <2>3. res.vec = SubSeq(hv, 1, L - 1)
    <3>1. removed_h(hv, hi, pos).vec = Shortened(hv)
      BY <1>1, <1>6, RemovedLast
    <3> QED BY <1>1, <3>1, Zenon DEF Shortened
  <2>4. Len(res.vec) = L - 1 /\ \A q \in 1..(L - 1) : res.vec[q] = hv[q]
    BY <1>1, <1>2, <2>3
  <2>5. \A q \in 2..(L - 1) : q \in 2..L /\ q \in 1..(L - 1) /\ parent(q) \in 1..(L - 1)
    BY <1>2, <1>4
  <2> QED BY <1>1, <2>4, <2>5 DEF Ordered
<1>7. CASE pos # L
  <2>1. PICK m \in Nat : m = L - 1 /\ pos \in 1..m /\ m < L
    <3>1. L - 1 \in Nat /\ pos <= L - 1
      BY <1>2, <1>7
    <3> QED BY <1>2, <3>1
  <2>2. PICK idx : idx = Dropped(hv, hi, pos)
    OBVIOUS
  <2>3. PICK node \in Node : node = hv[L]
    BY <1>2
  <2>4. PICK f : /\ Moves(f, hv, idx, node, ChildOf(hv), UpStop(hv, node))
                 /\ \A q \in 1..Len(hv) : bubble_up(hv, idx, q, node) = f[q]
    BY <1>2, UpMoves
  <2>5. UpOrdered(f[pos].vec, hv, node, m, pos)
    BY <1>1, <1>2, <1>5, <2>1, <2>3, <2>4, UpOrder
  <2>6. res.vec = SubSeq(bubble_up(hv, idx, pos, node).vec, 1, L - 1)
    <3>1. pos # Len(hv)
      BY <1>1, <1>7
    <3> QED BY <1>1, <2>2, <2>3, <3>1, RemovedInner
  <2>7. PICK r : r = f[pos].vec
    OBVIOUS
  <2>8. res.vec = SubSeq(r, 1, m)
    BY <1>1, <2>1, <2>4, <2>6, <2>7
  <2>9. /\ r \in [1..L -> Node]
        /\ \A q \in 2..m : parent(q) >= pos => r[parent(q)].prio <= r[q].prio
        /\ \A q \in (pos + 1)..m : hv[q].prio <= r[q].prio
        /\ \A q \in 1..(pos - 1) : r[q] = hv[q]
        /\ r[pos] = node \/ (lchild(pos) <= L /\ r[pos] = hv[selchild(hv, pos)])
    BY <1>1, <2>5, <2>7 DEF UpOrdered
  <2>10. /\ res.vec \in Seq(Node) /\ Len(res.vec) = m
         /\ \A q \in 1..m : res.vec[q] = r[q]
    <3>1. \A i \in 1..m : r[i] \in Node
      BY <1>2, <2>1, <2>9
    <3> QED BY <2>1, <2>8, <3>1, SubSeqProperties
  <2>11. \A q \in 1..m : r[q].prio \in Int
    <3>1. \A q \in 1..m : res.vec[q].prio \in Int
      BY <2>10, PriosAreNumbers
    <3> QED BY <2>10, <3>1
  <2>12. \A q \in 2..m : q \in 2..L /\ q \in 1..m /\ parent(q) \in 1..m
    BY <1>2, <1>4, <2>1
  <2>13. pos # 1 => hv[parent(pos)].prio <= r[pos].prio
    <3> SUFFICES ASSUME pos # 1 PROVE hv[parent(pos)].prio <= r[pos].prio
      OBVIOUS
    <3>1. pos \in 2..L /\ parent(pos) \in 1..L
      BY <1>2, <1>4
    <3>2. CASE r[pos] = node
      BY <1>1, <2>3, <3>2
    <3>3. CASE lchild(pos) <= L /\ r[pos] = hv[selchild(hv, pos)]
      <4>1. PICK c : c = selchild(hv, pos)
        OBVIOUS
      <4>2. c \in 1..L /\ c > pos /\ lchild(pos) <= c /\ c < lchild(pos) + N
        BY <1>1, <1>2, <3>3, <4>1, SelChild
      <4>3. c \in 2..L /\ c \in Nat /\ c >= 2 /\ pos \in Nat /\ pos >= 1
        BY <1>2, <4>2
      <4>4. parent(c) = pos
        BY <4>2, <4>3, ChildrenOf
      <4>5. hv[pos].prio <= hv[c].prio /\ hv[parent(pos)].prio <= hv[pos].prio
        BY <1>5, <3>1, <4>3, <4>4
      <4> QED BY <1>2, <1>3, <3>1, <3>3, <4>1, <4>2, <4>5
    <3> QED BY <2>9, <3>2, <3>3
  <2>14. ASSUME NEW q \in 2..m PROVE r[parent(q)].prio <= r[q].prio
    <3>1. CASE parent(q) >= pos
      BY <2>9, <3>1
    <3>2. CASE parent(q) < pos
      <4>1. parent(q) \in 1..(pos - 1) /\ r[parent(q)] = hv[parent(q)]
        BY <1>2, <1>4, <2>9, <2>12, <3>2
      <4>2. CASE q = pos
        BY <2>13, <4>1, <4>2
      <4>3. CASE q < pos
        <5>1. q \in 1..(pos - 1)
          BY <1>2, <4>3
        <5> QED BY <1>5, <2>9, <2>12, <4>1, <5>1
      <4>4. CASE q > pos
        <5>1. q \in (pos + 1)..m
          BY <1>2, <4>4
        <5>2. hv[q].prio <= r[q].prio /\ hv[parent(q)].prio <= hv[q].prio
          BY <1>5, <2>9, <2>12, <5>1
        <5> QED BY <1>3, <1>4, <2>11, <2>12, <4>1, <5>2
      <4> QED BY <1>2, <4>2, <4>3, <4>4
    <3> QED BY <1>2, <1>4, <2>12, <3>1, <3>2
  <2>15. \A q \in 2..m : ~lt(res.vec[q].prio, res.vec[parent(q)].prio)
    BY <2>10, <2>11, <2>12, <2>14 DEF lt
  <2> QED BY <2>10, <2>15 DEF Ordered
<1> QED BY <1>6, <1>7

\* set_priority() with a larger value keeps the heap in order if only the last node, or
\* none, is below the one that it changes.
LEMMA PostponeOrdered ==
    ASSUME NEW hv, NEW hi, Sound(hv, hi), Ordered(hv), NEW h \in Handles, NEW p \in Prios,
           hi[h] # NotQueued, lt(hv[hi[h]].prio, p), lchild(hi[h]) >= Len(hv),
           NEW res, res = prioritised(hv, hi, h, p)
    PROVE  Ordered(res.vec)
<1>1. PICK node \in Node : node = [prio |-> p, hnd |-> h]
  BY DEF Node
<1>2. PICK pos : pos = hi[h]
  OBVIOUS
<1>3. hv \in Seq(Node) /\ Len(hv) \in Nat /\ pos \in 1..Len(hv) /\ pos \in Nat /\ pos >= 1
  BY <1>2 DEF Sound, Accurate
<1>4. PICK v : v = [hv EXCEPT ![pos] = node]
  OBVIOUS
<1>5. PICK L \in Nat : L = Len(hv)
  BY <1>3
<1>6. /\ v \in Seq(Node) /\ Len(v) = L /\ v \in [1..L -> Node] /\ v[pos] = node
      /\ \A q \in 1..L : q # pos => v[q] = hv[q]
  BY <1>3, <1>4, <1>5
<1>7. /\ \A q \in 1..L : hv[q].prio \in Int /\ v[q].prio \in Int
      /\ \A q \in 2..L : /\ q \in 1..L /\ q \in Nat
                          /\ parent(q) \in 1..L /\ parent(q) < q
  <2>1. \A q \in 1..L : hv[q].prio \in Int
    BY <1>3, <1>5, PriosAreNumbers
  <2>2. \A q \in 1..L : v[q].prio \in Int
    BY <1>6, PriosAreNumbers
  <2>3. \A q \in 2..L : /\ q \in 1..L /\ q \in Nat
                         /\ parent(q) \in 1..L /\ parent(q) < q
    BY ParentBefore
  <2> QED BY <2>1, <2>2, <2>3
<1>8. \A q \in 2..L : hv[parent(q)].prio <= hv[q].prio
  BY <1>5, <1>7 DEF Ordered, lt
<1>9. hv[pos].prio <= node.prio /\ node.prio \in Int
  <2>1. node.prio = p /\ node.prio \in Int
    BY <1>1, <1>3, <1>5, <1>6, <1>7
  <2> QED BY <1>2, <1>3, <1>5, <1>7, <2>1 DEF lt
<1>10. \A q \in 2..L : parent(q) = pos => q = L /\ lchild(pos) = L
  <2> SUFFICES ASSUME NEW q \in 2..L, parent(q) = pos PROVE q = L /\ lchild(pos) = L
    OBVIOUS
  <2>1. q \in Nat /\ q >= 2 /\ lchild(pos) \in Nat
    BY <1>3, ChildAfter
  <2>2. lchild(pos) <= q
    BY <1>3, <2>1, ChildrenOf
  <2> QED BY <1>2, <1>5, <2>1, <2>2
<1>11. PICK f : /\ Moves(f, v, hi, node, ChildOf(v), UpStop(v, node))
                /\ \A q \in 1..Len(v) : bubble_up(v, hi, q, node) = f[q]
  BY <1>6, UpMoves
<1>12. res.vec = f[pos].vec
  <2>1. res = bubble_up(v, hi, pos, node)
    BY <1>1, <1>2, <1>4, Zenon DEF prioritised
  <2> QED BY <1>3, <1>5, <1>6, <1>11, <2>1
<1>13. CASE pos \in UpStop(v, node)
  <2>1. f[pos] = Placed(v, hi, node, pos)
    BY <1>3, <1>5, <1>6, <1>11, <1>13 DEF Moves
  <2>2. res.vec = v
    BY <1>3, <1>5, <1>6, <1>12, <2>1 DEF Placed
  <2>3. ASSUME NEW q \in 2..L PROVE v[parent(q)].prio <= v[q].prio
    <3>1. CASE parent(q) = pos
      <4>1. q = L /\ lchild(pos) = L /\ q # pos
        BY <1>7, <1>10, <3>1
      <4>2. ~lt(v[selchild(v, pos)].prio, node.prio)
        BY <1>3, <1>5, <1>6, <1>7, <1>13, <4>1 DEF UpStop
      <4>3. selchild(v, pos) = L
        <5>1. pos \in 1..Len(v) /\ lchild(pos) <= Len(v)
          BY <1>3, <1>5, <1>6, <1>7, <4>1
        <5> QED BY <1>6, <4>1, <5>1, SelChild
      <4> QED BY <1>6, <1>7, <1>9, <3>1, <4>1, <4>2, <4>3 DEF lt
    <3>2. CASE parent(q) # pos
      <4>1. CASE q = pos
        BY <1>6, <1>7, <1>8, <1>9, <3>2, <4>1
      <4>2. CASE q # pos
        BY <1>6, <1>7, <1>8, <3>2, <4>2
      <4> QED BY <4>1, <4>2
    <3> QED BY <3>1, <3>2
  <2> QED BY <1>6, <1>7, <2>2, <2>3 DEF Ordered, lt
<1>14. CASE pos \notin UpStop(v, node)
  <2>1. /\ lchild(pos) <= L /\ ChildOf(v)[pos] = selchild(v, pos)
        /\ lt(v[selchild(v, pos)].prio, node.prio) /\ selchild(v, pos) \in 1..L
        /\ selchild(v, pos) > pos /\ selchild(v, pos) >= lchild(pos)
    BY <1>3, <1>5, <1>6, <1>14, UpNext, SelChild
  <2>2. lchild(pos) = L /\ selchild(v, pos) = L /\ L > pos /\ L \in 1..L
    BY <1>2, <1>3, <1>5, <2>1, ChildAfter
  <2>3. L \in UpStop(v, node)
    <3>1. lchild(L) > L
      BY <2>2, ChildAfter
    <3> QED BY <1>6, <2>2, <3>1 DEF UpStop
  <2>4. f[L] = Placed(v, hi, node, L) /\ f[pos] = Pulled(f[L], v, pos, L)
    BY <1>3, <1>5, <1>6, <1>11, <1>14, <2>1, <2>2, <2>3 DEF Moves
  <2>5. res.vec = [[v EXCEPT ![L] = node] EXCEPT ![pos] = v[L]]
    BY <1>12, <2>4 DEF Placed, Pulled
  <2>6. /\ res.vec \in [1..L -> Node] /\ res.vec[L] = node /\ res.vec[pos] = v[L]
        /\ \A q \in 1..L : q # L /\ q # pos => res.vec[q] = v[q]
    BY <1>3, <1>5, <1>6, <2>2, <2>5
  <2>7. res.vec \in Seq(Node) /\ Len(res.vec) = L
    BY <2>6
  <2>8. v[L] = hv[L] /\ v[L].prio <= node.prio /\ v[L].prio \in Int
    BY <1>6, <1>7, <1>9, <2>1, <2>2 DEF lt
  <2>9. parent(L) = pos /\ L \in 2..L
    <3>1. L \in Nat /\ L >= 2 /\ N >= 1 /\ N \in Nat
      BY <1>3, <2>2, HeapAssumption
    <3> QED BY <1>3, <2>2, <3>1, ChildrenOf
  <2>10. ASSUME NEW q \in 2..L PROVE res.vec[parent(q)].prio <= res.vec[q].prio
    <3>1. CASE q = L
      BY <2>6, <2>8, <2>9, <3>1
    <3>2. CASE q = pos
      <4>1. parent(q) # pos /\ parent(q) # L /\ parent(q) \in 1..L
        BY <1>7, <2>2, <3>2
      <4>2. hv[parent(q)].prio <= hv[pos].prio /\ hv[pos].prio <= hv[L].prio
        BY <1>8, <2>9, <3>2
      <4>3. res.vec[parent(q)] = hv[parent(q)] /\ res.vec[q] = hv[L]
        BY <1>6, <2>6, <2>8, <3>2, <4>1
      <4> QED BY <1>3, <1>5, <1>7, <2>2, <4>1, <4>2, <4>3
    <3>3. CASE q # L /\ q # pos
      <4>1. parent(q) # pos /\ parent(q) # L /\ parent(q) \in 1..L /\ q \in 1..L
        BY <1>7, <1>10, <3>3
      <4> QED BY <1>6, <1>8, <2>6, <3>3, <4>1
    <3> QED BY <3>1, <3>2, <3>3
  <2>11. \A q \in 1..L : res.vec[q].prio \in Int
    BY <2>7, PriosAreNumbers
  <2>12. ASSUME NEW q \in 2..L PROVE ~(res.vec[q].prio < res.vec[parent(q)].prio)
    <3>1. res.vec[q].prio \in Int /\ res.vec[parent(q)].prio \in Int
      BY <1>7, <2>11
    <3>2. res.vec[parent(q)].prio <= res.vec[q].prio
      BY <2>10
    <3> QED BY <3>1, <3>2
  <2> QED BY <2>7, <2>12 DEF Ordered, lt
<1> QED BY <1>13, <1>14

\* set_priority() with a value that is not larger keeps the heap in order.
LEMMA AdvanceOrdered ==
    ASSUME NEW hv, NEW hi, Sound(hv, hi), Ordered(hv), NEW h \in Handles, NEW p \in Prios,
           hi[h] # NotQueued, ~lt(hv[hi[h]].prio, p), NEW res, res = prioritised(hv, hi, h, p)
    PROVE  Ordered(res.vec)
<1>1. PICK node \in Node : node = [prio |-> p, hnd |-> h]
  BY DEF Node
<1>2. PICK pos : pos = hi[h]
  OBVIOUS
<1>3. ~lt(hv[pos].prio, p)
  BY <1>2
<1>4. hv \in Seq(Node) /\ Len(hv) \in Nat /\ pos \in 1..Len(hv)
  BY <1>2 DEF Sound, Accurate
<1>5. PICK v : v = [hv EXCEPT ![pos] = node]
  OBVIOUS
<1>6. /\ v \in Seq(Node) /\ Len(v) = Len(hv) /\ v[pos] = node
      /\ \A q \in 1..Len(hv) : q # pos => v[q] = hv[q]
  BY <1>4, <1>5
<1>7. /\ \A q \in 1..Len(hv) : hv[q].prio \in Int /\ v[q].prio \in Int
      /\ \A q \in 2..Len(hv) : /\ q \in 1..Len(hv) /\ q \in Nat
                                /\ parent(q) \in 1..Len(hv) /\ parent(q) < q
  <2>1. \A q \in 1..Len(hv) : hv[q].prio \in Int
    BY <1>4, PriosAreNumbers
  <2>2. \A q \in 1..Len(hv) : v[q].prio \in Int
    BY <1>6, PriosAreNumbers
  <2>3. \A q \in 2..Len(hv) : /\ q \in 1..Len(hv) /\ q \in Nat
                                /\ parent(q) \in 1..Len(hv) /\ parent(q) < q
    BY <1>4, ParentBefore
  <2> QED BY <2>1, <2>2, <2>3
<1>8. \A q \in 2..Len(hv) : hv[parent(q)].prio <= hv[q].prio
  BY <1>7 DEF Ordered, lt
<1>9. node.prio <= hv[pos].prio
  <2>1. node.prio = p /\ node.prio \in Int
    BY <1>1, <1>4, <1>6, <1>7
  <2> QED BY <1>3, <1>4, <1>7, <2>1 DEF lt
<1>10. \A q \in 2..(pos - 1) : v[parent(q)].prio <= v[q].prio
  <2>1. \A q \in 2..(pos - 1) : q \in 2..Len(hv) /\ q # pos /\ parent(q) # pos
    BY <1>4, <1>7
  <2> QED BY <1>6, <1>7, <1>8, <2>1
<1>11. PICK f : /\ Moves(f, v, hi, node, ParentOf(v), DownStop(v, node))
                /\ \A q \in 1..Len(v) : bubble_down(v, hi, q, node) = f[q]
  BY <1>6, DownMoves
<1>12. pos \in 1..Len(v)
  BY <1>4, <1>6
<1>13. res.vec = bubble_down(v, hi, pos, node).vec
  <2>1. prioritised(hv, hi, h, p) = IF lt(hv[pos].prio, p) THEN bubble_up(v, hi, pos, node)
                                                           ELSE bubble_down(v, hi, pos, node)
    BY <1>1, <1>2, <1>5, Zenon DEF prioritised
  <2> QED BY <1>3, <2>1
<1>14. DownOrdered(res.vec, v, node, pos)
  <2>1. res.vec = f[pos].vec
    BY <1>11, <1>12, <1>13
  <2>2. DownOrdered(f[pos].vec, v, node, pos)
    BY <1>6, <1>10, <1>11, <1>12, DownOrder
  <2> QED BY <2>1, <2>2
<1>15. /\ res.vec \in [1..Len(hv) -> Node]
       /\ \A q \in 2..pos : res.vec[parent(q)].prio <= res.vec[q].prio
       /\ \A q \in 1..(pos - 1) : res.vec[q].prio <= v[q].prio
       /\ \A q \in (pos + 1)..Len(hv) : res.vec[q] = v[q]
       /\ res.vec[pos] = node \/ (pos > 1 /\ res.vec[pos] = v[parent(pos)])
  BY <1>6, <1>14 DEF DownOrdered
<1>16. res.vec \in Seq(Node) /\ Len(res.vec) = Len(hv)
  <2>1. res.vec \in [1..Len(hv) -> Node] /\ Len(hv) \in Nat
    BY <1>4, <1>15
  <2> QED BY <2>1
<1>17. \A q \in 1..Len(hv) : res.vec[q].prio \in Int
  BY <1>16, PriosAreNumbers
<1>18. res.vec[pos].prio <= hv[pos].prio
  <2>1. CASE res.vec[pos] = node
    BY <1>9, <2>1
  <2>2. CASE pos > 1 /\ res.vec[pos] = v[parent(pos)]
    <3>1. pos \in 2..Len(hv) /\ parent(pos) # pos
      BY <1>4, <1>7, <2>2
    <3>2. v[parent(pos)] = hv[parent(pos)]
      BY <1>6, <1>7, <3>1
    <3> QED BY <1>8, <2>2, <3>1, <3>2
  <2> QED BY <1>15, <2>1, <2>2
<1>19. \A q \in 1..Len(hv) : q <= pos => res.vec[q].prio <= hv[q].prio
  <2>1. \A q \in 1..Len(hv) : q <= pos => q = pos \/ (q \in 1..(pos - 1) /\ q # pos)
    BY <1>4
  <2> QED BY <1>6, <1>15, <1>18, <2>1
<1>20. ASSUME NEW q \in 2..Len(hv) PROVE res.vec[parent(q)].prio <= res.vec[q].prio
  <2>1. CASE q <= pos
    BY <1>4, <1>15, <2>1
  <2>2. CASE q > pos
    <3>1. res.vec[q] = hv[q]
      BY <1>4, <1>6, <1>7, <1>15, <2>2
    <3>2. res.vec[parent(q)].prio <= hv[parent(q)].prio
      <4>1. CASE parent(q) <= pos
        BY <1>7, <1>19, <4>1
      <4>2. CASE parent(q) > pos
        <5>1. parent(q) \in (pos + 1)..Len(hv) /\ parent(q) # pos
          BY <1>4, <1>7, <4>2
        <5>2. res.vec[parent(q)] = hv[parent(q)]
          BY <1>6, <1>7, <1>15, <5>1
        <5> QED BY <1>7, <5>2
      <4> QED BY <1>4, <1>7, <4>1, <4>2
    <3> QED BY <1>7, <1>8, <1>17, <3>1, <3>2
  <2> QED BY <1>4, <1>7, <2>1, <2>2
<1>21. \A q \in 2..Len(hv) : ~lt(res.vec[q].prio, res.vec[parent(q)].prio)
  BY <1>7, <1>17, <1>20 DEF lt
<1> QED BY <1>16, <1>21 DEF Ordered

\* insert() and pull_root(), the operations that the event loop's queues live on, and a
\* set_priority() to a smaller value keep the heap in order, for any fan-out and size.
THEOREM HeapOrderKept == HeapSpec => OrderKept
<1>1. HeapInv /\ [HeapNext]_heapVars =>
        [HeapOrder /\ (\/ pull_root
                       \/ \E h \in Handles, p \in Prios : insert(h, p) \/ advance(h, p))
           => HeapOrder']_heapVars
  <2> SUFFICES ASSUME HeapInv, HeapOrder PROVE
          pull_root \/ (\E h \in Handles, p \in Prios : insert(h, p) \/ advance(h, p)) => HeapOrder'
    OBVIOUS
  <2>1. Sound(hvec, heap_index) /\ Ordered(hvec)
    BY InvSound DEF HeapOrder
  <2>2. ASSUME NEW h \in Handles, NEW p \in Prios, insert(h, p) PROVE HeapOrder'
    BY <2>1, <2>2, InsertOrdered DEF insert, HeapOrder
  <2>3. ASSUME NEW h \in Handles, NEW p \in Prios, advance(h, p) PROVE HeapOrder'
    BY <2>1, <2>3, AdvanceOrdered DEF advance, set_priority, HeapOrder
  <2>4. ASSUME pull_root PROVE HeapOrder'
    <3>1. 1 \in 1..Len(hvec)
      BY <2>1, <2>4 DEF pull_root, Sound
    <3> QED BY <2>1, <2>4, <3>1, RemoveOrdered DEF pull_root, remove_h, HeapOrder
  <2> QED BY <2>2, <2>3, <2>4
<1> QED BY <1>1, HeapInvariant, PTL DEF HeapSpec, OrderKept

\* In a heap that is in order the root is a most urgent node: by induction along the
\* parents.
LEMMA OrderedRoot ==
    ASSUME NEW v \in Seq(Node), Ordered(v)
    PROVE  \A q \in 1..Len(v) : v[1].prio <= v[q].prio
<1>1. Len(v) \in Nat /\ \A q \in 1..Len(v) : v[q].prio \in Int
  BY PriosAreNumbers
<1> DEFINE S == {q \in Nat : q \in 1..Len(v) => v[1].prio <= v[q].prio}
<1>2. ASSUME NEW q \in Nat, q \in 1..Len(v), \A k \in Nat : k < q => k \in S
      PROVE  v[1].prio <= v[q].prio
  <2>1. CASE q = 1
    BY <1>1, <1>2, <2>1
  <2>2. CASE q # 1
    <3>1. /\ q \in 2..Len(v) /\ parent(q) \in Nat /\ parent(q) < q
          /\ parent(q) \in 1..Len(v) /\ 1 \in 1..Len(v)
      BY <1>1, <1>2, <2>2, ParentBefore
    <3>2. v[1].prio <= v[parent(q)].prio
      BY <1>2, <3>1
    <3>3. ~lt(v[q].prio, v[parent(q)].prio)
      BY <3>1 DEF Ordered
    <3> QED BY <1>1, <1>2, <3>1, <3>2, <3>3 DEF lt
  <2> QED BY <2>1, <2>2
<1>3. \A q \in Nat : (\A k \in Nat : k < q => k \in S) => q \in S
  BY <1>2
<1>4. \A q \in Nat : q \in S
  <2> HIDE DEF S
  <2> QED BY <1>3, StrongInduction
<1> QED BY <1>1, <1>4

\* The root, which is what get_root() and pull_root() give, is a most urgent node while the
\* heap is in order.
THEOREM OrderedRootIsMinimum == HeapSpec => [](HeapOrder => RootIsMinimum)
<1>1. HeapInv => (HeapOrder => RootIsMinimum)
  <2> SUFFICES ASSUME HeapInv, HeapOrder PROVE RootIsMinimum
    OBVIOUS
  <2>1. hvec \in Seq(Node)
    BY InvSound DEF Sound
  <2>2. Len(hvec) \in Nat /\ \A q \in 1..Len(hvec) : hvec[q].prio \in Int
    BY <2>1, PriosAreNumbers
  <2>3. \A q \in 1..Len(hvec) : hvec[1].prio <= hvec[q].prio /\ 1 \in 1..Len(hvec)
    BY <2>1, <2>2, OrderedRoot DEF HeapOrder
  <2> QED BY <2>2, <2>3 DEF RootIsMinimum, lt
<1> QED BY <1>1, HeapInvariant, PTL

-----------------------------------------------------------------------------
(* Small heaps.                                                            *)

\* Every node of the heap has a handle of its own.
LEMMA LengthBound ==
    ASSUME NEW v, NEW idx, Sound(v, idx)
    PROVE  Len(v) <= Cardinality(Handles)
<1>1. v \in Seq(Node) /\ Len(v) \in Nat
  BY DEF Sound
<1>2. PICK f : f = [q \in 1..Len(v) |-> v[q].hnd]
  OBVIOUS
<1>3. \A q \in 1..Len(v) : f[q] \in Handles /\ idx[f[q]] = q
  <2>1. \A q \in 1..Len(v) : v[q] \in Node
    BY <1>1
  <2>2. \A x \in Node : x.hnd \in Handles
    BY DEF Node
  <2> QED BY <1>2, <2>1, <2>2 DEF Sound, Accurate
<1>4. f \in [1..Len(v) -> Handles] /\ \A a, b \in 1..Len(v) : f[a] = f[b] => a = b
  BY <1>2, <1>3
<1>5. f \in Injection(1..Len(v), Handles)
  BY <1>4, Fun_IsInj
<1>6. Cardinality(1..Len(v)) <= Cardinality(Handles)
  BY <1>5, HeapAssumption, FS_Injection
<1>7. Cardinality(1..Len(v)) = Len(v)
  BY <1>1, FS_Interval, SMTT(30)
<1> QED BY <1>6, <1>7

\* In a heap of at most 2N + 1 nodes the parent of any node but the root is the root or the
\* parent of the last node, so that remove_h() keeps the order.
LEMMA SmallRemoveOrdered ==
    ASSUME NEW hv, NEW hi, Sound(hv, hi), Ordered(hv), Len(hv) <= 2 * N + 1,
           NEW pos \in 1..Len(hv), NEW res, res = removed_h(hv, hi, pos)
    PROVE  Ordered(res.vec)
<1>1. PICK L \in Nat : L = Len(hv)
  BY DEF Sound
<1>2. hv \in Seq(Node) /\ pos \in 1..L /\ pos \in Nat /\ L >= 1
  BY <1>1 DEF Sound
<1>3. \A q \in 1..L : hv[1].prio <= hv[q].prio /\ hv[q].prio \in Int
  BY <1>1, <1>2, OrderedRoot, PriosAreNumbers
<1>4. N \in Nat /\ N >= 1
  BY HeapAssumption
<1>5. CASE pos = 1
  BY <1>5, RemoveOrdered
<1>6. CASE pos # 1 /\ pos < 2 + N
  <2>1. lchild(1) = 2
    BY <1>4 DEF lchild
  <2>2. parent(pos) = 1
    BY <1>2, <1>4, <1>6, <2>1, ChildrenOf
  <2> QED BY <1>1, <1>2, <1>3, <2>2, RemoveOrdered
<1>7. CASE pos >= 2 + N
  <2>1. lchild(2) = 2 + N
    BY <1>4 DEF lchild
  <2>2. L >= 2 + N /\ L < 2 + N + N /\ pos < 2 + N + N
    BY <1>1, <1>2, <1>4, <1>7
  <2>3. parent(pos) = 2 /\ parent(L) = 2
    BY <1>2, <1>4, <1>7, <2>1, <2>2, ChildrenOf
  <2>4. hv[2].prio <= hv[L].prio
    <3>1. L \in 2..L /\ L \in 1..L /\ 2 \in 1..L
      BY <1>4, <2>2
    <3> QED BY <1>1, <1>3, <2>3, <3>1 DEF Ordered, lt
  <2> QED BY <1>1, <2>3, <2>4, RemoveOrdered
<1> QED BY <1>2, <1>4, <1>5, <1>6, <1>7
=============================================================================
