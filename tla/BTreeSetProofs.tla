--------------------------- MODULE BTreeSetProofs ---------------------------
(***************************************************************************)
(* Proofs about the B-tree, for any order that is even and at least 4, any *)
(* handles and keys and any number of septs: it stays a B-tree, its        *)
(* reserve suffices, and it is the set that KeyedSet says.                 *)
(*                                                                         *)
(* The argument is about one step of an operation at a time.  The values   *)
(* left and right of a sept (lo, hi) do not change when it is split,       *)
(* merged or gets a value from a sibling, except for the septs at hand; so *)
(* the order of the tree follows from that of each sept.                   *)
(***************************************************************************)
EXTENDS BTreeSet, FiniteSetTheorems, SequenceTheorems, WellFoundedInduction, TLAPS

-----------------------------------------------------------------------------
(* What holds at every step of an operation: the inductive invariant.      *)

PCs == {"idle", "insert", "search", "up", "remove", "succ", "repop", "find", "found"}

TypeOK ==
    /\ hn \in [Addresses -> Seq(Handles)] /\ kid \in [Addresses -> Seq(Septs)]
    /\ parent \in [Addresses -> Septs \cup {Null}] /\ hp \in [Handles -> Septs \cup {Null}]
    /\ root_sept \in Septs \cup {Null} /\ left_sept \in Septs \cup {Null}
    /\ used \subseteq Septs /\ sn_reserve \subseteq Septs
    /\ counts \in [alloced : Nat, septs : Nat, needed : Nat, next : Nat]
    /\ slots \subseteq Handles
    /\ pc \in PCs /\ sept \in Septs \cup {Null} /\ hndl_p \in Handles \cup {NoHandle}
    /\ pval \in Int /\ min \in Int /\ max \in Int
    /\ left_down \in Septs \cup {Null} /\ right_down \in Septs \cup {Null}
    /\ load \in Seq(Handles) /\ ops \in Nat /\ stage \in {"live", "dying", "gone"}
    /\ lo \in [Addresses -> Handles \cup {NoHandle}] /\ hi \in [Addresses -> Handles \cup {NoHandle}]
    /\ height \in [Addresses -> Nat]

\* The septs are counted, and there are as many as the slots can need.
SlotsInv ==
    /\ IsFiniteSet(slots) /\ IsFiniteSet(used) /\ IsFiniteSet(sn_reserve)
    /\ used \cap sn_reserve = {} /\ Cardinality(Live) = counts.septs
    /\ counts.alloced = Cardinality(slots)
    /\ stage = "gone" => pc = "idle" /\ used = {}
    /\ stage # "gone" =>
         /\ counts.needed <= counts.septs
         /\ counts.next = 1 + counts.needed * Half
         /\ counts.next - Half <= counts.alloced /\ counts.alloced < counts.next
    /\ Elements \subseteq slots

\* The septs are linked as a tree, but for the right half of a split.
ShapeInv ==
    /\ RootAgrees
    /\ \A s \in used :
         /\ SeptInOrder(s) /\ ChildrenAgree(s)
         /\ s # root_sept => (Linking /\ s = right_down) \/ ParentAgrees(s)

\* The sept at hand may have too few values, before the first one is put into the
\* root and when it has to be repopulated.
FillInv ==
    \A s \in used :
      \/ Filled(s)
      \/ pc = "repop" /\ s = sept /\ (s = root_sept \/ num_vals(s) = Half - 1)
           /\ num_vals(s) < Half /\ (num_vals(s) = 0 => is_leaf(s))
      \/ pc \in {"search", "up"} /\ s = sept /\ s = root_sept /\ is_leaf(s) /\ left_down = Null

\* The handle to be inserted belongs in the part of the tree that is searched.
SearchInv ==
    pc = "search" =>
      /\ sept \in used /\ After(lo[sept], hndl_p) /\ Before(hndl_p, hi[sept])
      /\ 0 <= min /\ min <= num_vals(sept) /\ min <= max + 1 /\ max < N
      /\ is_leaf(sept) => max < num_vals(sept)
      /\ \A j \in 1..num_vals(sept) :
           /\ j <= min => Key[hn[sept][j]] < Key[hndl_p]
           /\ j > max + 1 => Key[hndl_p] < Key[hn[sept][j]]

\* It belongs at position p of sept s.
Place(s, p) ==
    /\ p \in 1..(num_vals(s) + 1)
    /\ \A j \in 1..num_vals(s) : IF j < p THEN Key[hn[s][j]] < Key[hndl_p]
                                 ELSE Key[hndl_p] < Key[hn[s][j]]
    /\ After(lo[s], hndl_p) /\ Before(hndl_p, hi[s])

\* A new value goes to a leaf, and the value between two halves to their parent.
UpInv ==
    pc = "up" =>
      /\ hndl_p \notin Members
      /\ left_down = Null =>
           sept \in used /\ is_leaf(sept) /\ \E p \in 1..(num_vals(sept) + 1) : Place(sept, p)
      /\ left_down # Null =>
           /\ left_down \in used /\ right_down \in used /\ left_down # right_down
           /\ height[left_down] = height[right_down]
           /\ parent[left_down] = sept /\ parent[right_down] = sept
           /\ hi[left_down] = hndl_p /\ lo[right_down] = hndl_p
           /\ After(lo[left_down], hndl_p) /\ Before(hndl_p, hi[right_down])
           /\ num_vals(left_down) = Half /\ num_vals(right_down) = Half
           /\ right_down # root_sept
           /\ \A s \in used : \A i \in 1..Len(kid[s]) : kid[s][i] # right_down
           /\ IF sept = Null THEN left_down = root_sept ELSE sept \in used

\* The successor is to be found down the left side of the sept.
SuccInv ==
    pc = "succ" =>
      /\ hndl_p \in Handles /\ hp[hndl_p] \in used /\ ~is_leaf(hp[hndl_p])
      /\ \E i \in 1..num_vals(hp[hndl_p]) : hn[hp[hndl_p]][i] = hndl_p
      /\ sept \in used /\ lo[sept] = hndl_p /\ height[sept] < height[hp[hndl_p]]

\* The key, if it is in the tree, is in the part of it that is searched.
FindInv ==
    pc = "find" =>
      IF sept = Null THEN used = {}
      ELSE /\ sept \in used
           /\ lo[sept] = NoHandle \/ Key[lo[sept]] < pval
           /\ hi[sept] = NoHandle \/ pval < Key[hi[sept]]

OpInv ==
    /\ pc \in {"insert", "search", "up", "remove", "succ"} => hndl_p \in Handles
    /\ pc \in {"insert", "search"} => hndl_p \in slots \ Members
    /\ pc = "repop" => sept \in used /\ num_vals(sept) < Half
    /\ pc # "up" => left_down = Null
    /\ SearchInv /\ UpInv /\ SuccInv /\ FindInv /\ FindsMembers

TreeInv == TypeOK /\ SlotsInv /\ ShapeInv /\ FillInv /\ OpInv

-----------------------------------------------------------------------------
(* Numbers and sequences.                                                  *)

LEMMA HalfFacts == Half \in Nat /\ Half >= 2 /\ N = 2 * Half /\ N \in Nat
BY OrderAssumption DEF Half

\* A set of numbers has a least member.
LEMMA LeastNat ==
    ASSUME NEW T \in SUBSET Nat, T # {}
    PROVE  \E x \in T : \A y \in T : x <= y
<1>1. PICK R : R = OpToRel(<, Nat)
  OBVIOUS
<1>2. PICK x \in T : \A y \in T : ~(<<y, x>> \in R)
  BY <1>1, NatLessThanWellFounded, WFMin
<1>3. \A i, j \in Nat : i < j => <<i, j>> \in R
  BY <1>1 DEF OpToRel
<1>4. \A y \in T : x \in Nat /\ y \in Nat /\ ~(y < x)
  BY <1>2, <1>3
<1> QED
  BY <1>4

LEMMA SubSeqFacts ==
    ASSUME NEW S, NEW s \in Seq(S), NEW m \in 1..(Len(s) + 1), NEW n \in 0..Len(s), m <= n + 1
    PROVE  /\ SubSeq(s, m, n) \in Seq(S)
           /\ Len(SubSeq(s, m, n)) = n - m + 1
           /\ \A j \in 1..(n - m + 1) : SubSeq(s, m, n)[j] = s[m + j - 1]
OBVIOUS

LEMMA ConcatFacts ==
    ASSUME NEW S, NEW s \in Seq(S), NEW t \in Seq(S)
    PROVE  /\ s \o t \in Seq(S) /\ Len(s \o t) = Len(s) + Len(t)
           /\ \A j \in 1..Len(s) : (s \o t)[j] = s[j]
           /\ \A j \in 1..Len(t) : (s \o t)[Len(s) + j] = t[j]
OBVIOUS

LEMMA InsertAtFacts ==
    ASSUME NEW S, NEW s \in Seq(S), NEW i \in 1..(Len(s) + 1), NEW e \in S
    PROVE  /\ InsertAt(s, i, e) \in Seq(S)
           /\ Len(InsertAt(s, i, e)) = Len(s) + 1
           /\ \A j \in 1..(Len(s) + 1) :
                InsertAt(s, i, e)[j] = IF j < i THEN s[j] ELSE IF j = i THEN e ELSE s[j - 1]
<1> DEFINE a == SubSeq(s, 1, i - 1)
           b == SubSeq(s, i, Len(s))
           ae == a \o <<e>>
<1>1. /\ a \in Seq(S) /\ Len(a) = i - 1 /\ \A j \in 1..(i - 1) : a[j] = s[j]
      /\ b \in Seq(S) /\ Len(b) = Len(s) - i + 1 /\ \A j \in 1..(Len(s) - i + 1) : b[j] = s[i + j - 1]
  BY SubSeqFacts
<1>2. <<e>> \in Seq(S) /\ Len(<<e>>) = 1 /\ <<e>>[1] = e
  OBVIOUS
<1> HIDE DEF a, b
<1>3. /\ ae \in Seq(S) /\ Len(ae) = i /\ ae[i] = e
      /\ \A j \in 1..(i - 1) : ae[j] = a[j]
  BY <1>1, <1>2, ConcatFacts
<1> HIDE DEF ae
<1>4. /\ ae \o b \in Seq(S) /\ Len(ae \o b) = Len(s) + 1
      /\ \A j \in 1..i : (ae \o b)[j] = ae[j]
      /\ \A j \in 1..(Len(s) - i + 1) : (ae \o b)[i + j] = b[j]
  BY <1>1, <1>3, ConcatFacts
<1>5. ASSUME NEW j \in (i + 1)..(Len(s) + 1) PROVE (ae \o b)[j] = s[j - 1]
  <2>1. j - i \in 1..(Len(s) - i + 1) /\ i + (j - i) = j /\ i + (j - i) - 1 = j - 1
    OBVIOUS
  <2>2. (ae \o b)[i + (j - i)] = b[j - i] /\ b[j - i] = s[i + (j - i) - 1]
    BY ONLY <1>1, <1>4, <2>1
  <2> QED BY ONLY <2>1, <2>2
<1>6. InsertAt(s, i, e) = ae \o b
  BY DEF InsertAt, a, b, ae
<1> QED
  BY <1>1, <1>3, <1>4, <1>5, <1>6

LEMMA RemoveAtFacts ==
    ASSUME NEW S, NEW s \in Seq(S), NEW i \in 1..Len(s)
    PROVE  /\ RemoveAt(s, i) \in Seq(S)
           /\ Len(RemoveAt(s, i)) = Len(s) - 1
           /\ \A j \in 1..(Len(s) - 1) :
                RemoveAt(s, i)[j] = IF j < i THEN s[j] ELSE s[j + 1]
<1> DEFINE a == SubSeq(s, 1, i - 1)
           b == SubSeq(s, i + 1, Len(s))
<1>1. /\ a \in Seq(S) /\ Len(a) = i - 1 /\ \A j \in 1..(i - 1) : a[j] = s[j]
      /\ b \in Seq(S) /\ Len(b) = Len(s) - i /\ \A j \in 1..(Len(s) - i) : b[j] = s[i + j]
  <2>1. i + 1 \in 1..(Len(s) + 1) /\ Len(s) \in 0..Len(s) /\ i - 1 \in 0..Len(s)
        /\ Len(s) - (i + 1) + 1 = Len(s) - i
    OBVIOUS
  <2>2. \A j \in 1..(Len(s) - i) : (i + 1) + j - 1 = i + j
    OBVIOUS
  <2>3. /\ a \in Seq(S) /\ Len(a) = (i - 1) - 1 + 1 /\ \A j \in 1..((i - 1) - 1 + 1) : a[j] = s[1 + j - 1]
    BY <2>1, SubSeqFacts
  <2>4. /\ b \in Seq(S) /\ Len(b) = Len(s) - (i + 1) + 1
        /\ \A j \in 1..(Len(s) - (i + 1) + 1) : b[j] = s[(i + 1) + j - 1]
    BY <2>1, SubSeqFacts
  <2> HIDE DEF a, b
  <2> QED
    BY <2>1, <2>2, <2>3, <2>4, SMTT(30)
<1> HIDE DEF a, b
<1>2. Len(s) \in Nat /\ i \in Nat /\ 1 <= i /\ i <= Len(s)
  OBVIOUS
<1>3. /\ a \o b \in Seq(S) /\ Len(a \o b) = Len(a) + Len(b)
      /\ \A j \in 1..Len(a) : (a \o b)[j] = a[j]
      /\ \A j \in 1..Len(b) : (a \o b)[Len(a) + j] = b[j]
  <2>1. a \in Seq(S) /\ b \in Seq(S)
    BY <1>1
  <2> QED BY ONLY <2>1, ConcatFacts
<1> DEFINE c == a \o b
<1> HIDE DEF c
<1>4. ASSUME NEW j \in 1..(Len(s) - 1) PROVE c[j] = IF j < i THEN s[j] ELSE s[j + 1]
  <2>1. CASE j < i
    <3>1. j \in 1..Len(a) /\ j \in 1..(i - 1)
      BY <1>1, <1>2, <2>1
    <3> QED BY <1>1, <1>3, <2>1, <3>1 DEF c
  <2>2. CASE ~(j < i)
    <3>1. j + 1 - i \in 1..Len(b) /\ j + 1 - i \in 1..(Len(s) - i)
          /\ Len(a) + (j + 1 - i) = j /\ i + (j + 1 - i) = j + 1
      BY <1>1, <1>2, <2>2
    <3>2. c[j] = b[j + 1 - i] /\ b[j + 1 - i] = s[j + 1]
      BY <1>1, <1>3, <3>1 DEF c
    <3> QED BY <2>2, <3>2
  <2> QED BY <2>1, <2>2
<1>5. RemoveAt(s, i) = c
  BY DEF RemoveAt, a, b, c
<1>6. Len(c) = Len(s) - 1 /\ c \in Seq(S)
  BY <1>1, <1>2, <1>3 DEF c
<1> QED
  BY <1>4, <1>5, <1>6

LEMMA RangeFacts ==
    ASSUME NEW S, NEW s \in Seq(S)
    PROVE  /\ Range(s) \subseteq S
           /\ \A i \in 1..Len(s) : s[i] \in Range(s)
           /\ \A x \in Range(s) : \E i \in 1..Len(s) : s[i] = x
BY DEF Range

-----------------------------------------------------------------------------
(* The tree.                                                               *)

\* What the definitions say of a sept, one fact at a time.
LEMMA SeptFacts ==
    ASSUME TypeOK, ShapeInv, NEW s \in used
    PROVE  /\ s \in Septs /\ s \in Addresses /\ s # Null
           /\ hn[s] \in Seq(Handles) /\ Len(hn[s]) \in Nat /\ Len(hn[s]) <= N
           /\ kid[s] \in Seq(Septs) /\ Len(kid[s]) \in Nat
           /\ lo[s] \in Handles \cup {NoHandle} /\ hi[s] \in Handles \cup {NoHandle}
           /\ height[s] \in Nat /\ parent[s] \in Septs \cup {Null}
           /\ kid[s] = << >> <=> height[s] = 0
           /\ Len(kid[s]) = 0 <=> height[s] = 0
           /\ height[s] # 0 => Len(kid[s]) = Len(hn[s]) + 1
<1>1. s \in Septs /\ s \in Addresses /\ s # Null
  BY OrderAssumption DEF TypeOK, Addresses
<1>2. /\ hn[s] \in Seq(Handles) /\ kid[s] \in Seq(Septs)
      /\ lo[s] \in Handles \cup {NoHandle} /\ hi[s] \in Handles \cup {NoHandle}
      /\ height[s] \in Nat /\ parent[s] \in Septs \cup {Null}
  BY <1>1 DEF TypeOK
<1>3. Len(hn[s]) \in Nat /\ Len(kid[s]) \in Nat /\ (Len(kid[s]) = 0 <=> kid[s] = << >>)
  BY <1>2
<1>4. Len(hn[s]) <= N /\ (kid[s] = << >> <=> height[s] = 0)
      /\ (kid[s] # << >> => Len(kid[s]) = Len(hn[s]) + 1)
  BY DEF ShapeInv, SeptInOrder, ChildrenAgree, is_leaf, num_vals
<1> QED
  BY <1>1, <1>2, <1>3, <1>4

LEMMA ValueFacts ==
    ASSUME TypeOK, ShapeInv, NEW s \in used, NEW i \in 1..Len(hn[s])
    PROVE  /\ hn[s][i] \in Handles /\ Key[hn[s][i]] \in Int
           /\ After(lo[s], hn[s][i]) /\ Before(hn[s][i], hi[s]) /\ hp[hn[s][i]] = s
           /\ \A j \in 1..Len(hn[s]) : i < j => Key[hn[s][i]] < Key[hn[s][j]]
<1>1. hn[s] \in Seq(Handles)
  BY SeptFacts
<1>2. hn[s][i] \in Handles
  BY <1>1
<1> QED
  BY <1>2, OrderAssumption DEF ShapeInv, SeptInOrder, num_vals

LEMMA KidFacts ==
    ASSUME TypeOK, ShapeInv, NEW s \in used, NEW i \in 1..Len(kid[s])
    PROVE  /\ kid[s][i] \in used /\ parent[kid[s][i]] = s
           /\ height[s] = height[kid[s][i]] + 1 /\ Len(kid[s]) = Len(hn[s]) + 1
           /\ lo[kid[s][i]] = LeftOf(s, i) /\ hi[UpTo(kid[s][i])] = RightOf(s, i)
<1>1. /\ kid[s][i] \in used /\ parent[kid[s][i]] = s
      /\ height[kid[s][i]] = height[s] - 1
      /\ lo[kid[s][i]] = LeftOf(s, i) /\ hi[UpTo(kid[s][i])] = RightOf(s, i)
  BY DEF ShapeInv, ChildrenAgree
<1>2. height[s] \in Nat /\ Len(kid[s]) # 0
  BY SeptFacts
<1> QED
  BY <1>1, <1>2, SeptFacts

LEMMA KidsDistinct ==
    ASSUME TypeOK, ShapeInv, NEW s \in used,
           NEW i \in 1..Len(kid[s]), NEW j \in 1..Len(kid[s]), i < j
    PROVE  kid[s][i] # kid[s][j]
<1>1. lo[kid[s][i]] = LeftOf(s, i) /\ lo[kid[s][j]] = hn[s][j - 1]
      /\ Len(kid[s]) = Len(hn[s]) + 1 /\ Len(hn[s]) \in Nat
  BY KidFacts, SeptFacts DEF LeftOf
<1>2. j - 1 \in 1..Len(hn[s]) /\ (i # 1 => i - 1 \in 1..Len(hn[s]))
  BY <1>1
<1>3. hn[s][j - 1] \in Handles /\ Key[hn[s][j - 1]] \in Int /\ After(lo[s], hn[s][j - 1])
  BY <1>2, ValueFacts
<1>4. CASE i = 1
  BY <1>1, <1>3, <1>4, OrderAssumption, SMTT(30) DEF LeftOf, After
<1>5. CASE i # 1
  <2>1. Key[hn[s][i - 1]] < Key[hn[s][j - 1]]
    BY <1>2, <1>5, ValueFacts
  <2>2. hn[s][i - 1] # hn[s][j - 1]
    BY ONLY <1>3, <2>1
  <2>3. LeftOf(s, i) = hn[s][i - 1]
    BY ONLY <1>5 DEF LeftOf
  <2> QED BY ONLY <1>1, <2>2, <2>3
<1> QED BY <1>4, <1>5

\* A sept and its place among the children of its parent.
LEMMA ParentFacts ==
    ASSUME TypeOK, ShapeInv, NEW s \in used, s # root_sept, ~(Linking /\ s = right_down)
    PROVE  /\ parent[s] \in used /\ height[parent[s]] = height[s] + 1
           /\ height[s] < height[root_sept]
           /\ Len(kid[parent[s]]) = Len(hn[parent[s]]) + 1
           /\ \E i \in 1..Len(kid[parent[s]]) :
                /\ kid[parent[s]][i] = s
                /\ lo[s] = LeftOf(parent[s], i) /\ hi[UpTo(s)] = RightOf(parent[s], i)
<1>1. /\ parent[s] \in used /\ height[s] < height[root_sept]
      /\ \E i \in 1..Len(kid[parent[s]]) : kid[parent[s]][i] = s
  BY DEF ShapeInv, ParentAgrees
<1> QED
  BY <1>1, KidFacts

\* Of two neighbours, one ends before the other begins.
Ends(a, b) == a # NoHandle /\ b # NoHandle /\ Key[a] <= Key[b]

Within(s, p) == (lo[p] = NoHandle \/ Ends(lo[p], lo[s])) /\ (hi[p] = NoHandle \/ Ends(hi[s], hi[p]))

Apart(s, q) == Ends(hi[s], lo[q]) \/ Ends(hi[q], lo[s])

LEMMA WithinParent ==
    ASSUME TypeOK, ShapeInv, ~Linking, NEW s \in used, s # root_sept
    PROVE  Within(s, parent[s])
<1> DEFINE p == parent[s]
<1>1. /\ p \in used /\ Len(kid[p]) = Len(hn[p]) + 1
  BY ParentFacts
<1>2. PICK i \in 1..Len(kid[p]) : lo[s] = LeftOf(p, i) /\ hi[s] = RightOf(p, i)
  BY ParentFacts DEF UpTo
<1> HIDE DEF p
<1>3. Len(hn[p]) \in Nat /\ lo[p] \in Handles \cup {NoHandle} /\ hi[p] \in Handles \cup {NoHandle}
  BY <1>1, SeptFacts
<1>4. lo[p] = NoHandle \/ Ends(lo[p], lo[s])
  <2>1. CASE i = 1
    BY <1>2, <1>3, <2>1, OrderAssumption DEF LeftOf, Ends
  <2>2. CASE i # 1
    <3>1. i - 1 \in 1..Len(hn[p]) /\ lo[s] = hn[p][i - 1]
      BY <1>1, <1>2, <1>3, <2>2 DEF LeftOf
    <3>2. hn[p][i - 1] \in Handles /\ Key[hn[p][i - 1]] \in Int /\ After(lo[p], hn[p][i - 1])
      BY <1>1, <3>1, ValueFacts
    <3>3. hn[p][i - 1] # NoHandle /\ (lo[p] # NoHandle => Key[lo[p]] \in Int)
      BY <1>3, <3>2, OrderAssumption
    <3> QED BY ONLY <3>1, <3>2, <3>3 DEF After, Ends
  <2> QED BY <2>1, <2>2
<1>5. hi[p] = NoHandle \/ Ends(hi[s], hi[p])
  <2>1. CASE i = Len(kid[p])
    BY <1>2, <1>3, <2>1, OrderAssumption DEF RightOf, Ends
  <2>2. CASE i # Len(kid[p])
    <3>1. i \in 1..Len(hn[p]) /\ hi[s] = hn[p][i]
      BY <1>1, <1>2, <1>3, <2>2 DEF RightOf
    <3> QED BY <1>1, <1>3, <3>1, ValueFacts, OrderAssumption DEF Before, Ends
  <2> QED BY <2>1, <2>2
<1> QED BY <1>4, <1>5 DEF Within, p

\* Septs of the same height stand apart.
LEMMA SameHeightApart ==
    ASSUME TypeOK, ShapeInv, ~Linking, NEW s \in used, NEW q \in used, s # q,
           height[s] = height[q]
    PROVE  Apart(s, q)
<1> DEFINE Bad == {n \in Nat : \E a, b \in used : /\ a # b /\ height[a] = height[b] /\ ~Apart(a, b)
                                                /\ n = height[root_sept] - height[a]}
<1> SUFFICES ASSUME ~Apart(s, q) PROVE FALSE
  OBVIOUS
<1>1. \A a \in used : /\ height[a] \in Nat /\ height[root_sept] \in Nat
                      /\ height[a] <= height[root_sept]
                      /\ a # root_sept => height[a] < height[root_sept]
  <2>1. root_sept \in used
    BY DEF ShapeInv, RootAgrees
  <2> QED BY <2>1, SeptFacts, ParentFacts
<1>2. height[root_sept] - height[s] \in Bad
  BY <1>1
<1>3. PICK n \in Bad : \A m \in Bad : n <= m
  BY <1>2, LeastNat
<1>4. PICK a \in used, b \in used : /\ a # b /\ height[a] = height[b] /\ ~Apart(a, b)
                                    /\ n = height[root_sept] - height[a]
  BY <1>3
<1>5. a # root_sept /\ b # root_sept
  BY <1>1, <1>4
<1> DEFINE pa == parent[a]
           pb == parent[b]
<1>6. /\ pa \in used /\ pb \in used /\ height[pa] = height[a] + 1 /\ height[pb] = height[b] + 1
  BY <1>5, ParentFacts
<1>7. Within(a, pa) /\ Within(b, pb)
  BY <1>5, WithinParent
<1>8. CASE pa # pb
  <2>1. Apart(pa, pb)
    <3>1. n \in Nat /\ n = height[root_sept] - height[a]
      BY <1>3, <1>4
    <3>2. height[root_sept] - height[pa] \in Nat /\ ~(n <= height[root_sept] - height[pa])
      BY <1>1, <1>6, <3>1
    <3>3. height[root_sept] - height[pa] \notin Bad
      BY <1>3, <3>2
    <3>4. height[pa] = height[pb]
      BY <1>4, <1>6
    <3> HIDE DEF pa, pb
    <3> QED BY <1>6, <1>8, <3>2, <3>3, <3>4
  <2>2. /\ lo[a] \in Handles \cup {NoHandle} /\ hi[a] \in Handles \cup {NoHandle}
        /\ lo[b] \in Handles \cup {NoHandle} /\ hi[b] \in Handles \cup {NoHandle}
        /\ lo[pa] \in Handles \cup {NoHandle} /\ hi[pa] \in Handles \cup {NoHandle}
        /\ lo[pb] \in Handles \cup {NoHandle} /\ hi[pb] \in Handles \cup {NoHandle}
    BY <1>6, SeptFacts
  <2>3. \A x \in Handles : Key[x] \in Int
    BY OrderAssumption
  <2> HIDE DEF pa, pb
  <2> QED BY <1>4, <1>7, <2>1, <2>2, <2>3 DEF Apart, Within, Ends
<1>9. CASE pa = pb
  <2>1. PICK i \in 1..Len(kid[pa]) : /\ kid[pa][i] = a /\ lo[a] = LeftOf(pa, i)
                                     /\ hi[a] = RightOf(pa, i)
    BY <1>5, ParentFacts DEF UpTo
  <2>2. PICK j \in 1..Len(kid[pa]) : /\ kid[pa][j] = b /\ lo[b] = LeftOf(pa, j)
                                     /\ hi[b] = RightOf(pa, j)
    BY <1>5, <1>9, ParentFacts DEF UpTo
  <2>3. Len(kid[pa]) = Len(hn[pa]) + 1 /\ Len(hn[pa]) \in Nat
    BY <1>5, <1>6, ParentFacts, SeptFacts
  <2>4. ASSUME NEW x \in 1..Len(kid[pa]), NEW y \in 1..Len(kid[pa]), x < y
        PROVE  Ends(RightOf(pa, x), LeftOf(pa, y))
    <3>1. x \in 1..Len(hn[pa]) /\ y - 1 \in 1..Len(hn[pa]) /\ x <= y - 1
      BY <2>3, <2>4
    <3>2. RightOf(pa, x) = hn[pa][x] /\ LeftOf(pa, y) = hn[pa][y - 1]
      BY <2>3, <2>4, <3>1 DEF RightOf, LeftOf
    <3>3. hn[pa][x] \in Handles /\ hn[pa][y - 1] \in Handles /\ Key[hn[pa][x]] <= Key[hn[pa][y - 1]]
      <4>1. CASE x = y - 1
        BY <1>6, <3>1, <4>1, ValueFacts
      <4>2. CASE x < y - 1
        <5>1. /\ hn[pa][x] \in Handles /\ Key[hn[pa][x]] \in Int
              /\ \A c \in 1..Len(hn[pa]) : x < c => Key[hn[pa][x]] < Key[hn[pa][c]]
          BY <1>6, <3>1, ValueFacts
        <5>2. hn[pa][y - 1] \in Handles /\ Key[hn[pa][y - 1]] \in Int
          BY <1>6, <3>1, ValueFacts
        <5> QED BY ONLY <3>1, <4>2, <5>1, <5>2, SMTT(30)
      <4> QED BY ONLY <2>3, <2>4, <3>1, <4>1, <4>2
    <3> QED BY <3>2, <3>3, OrderAssumption DEF Ends
  <2>5. i < j \/ j < i
    BY <1>4, <2>1, <2>2
  <2> QED BY <1>4, <2>1, <2>2, <2>4, <2>5 DEF Apart
<1> QED BY <1>8, <1>9

\* The order of the tree: a value between the neighbours of a sept is in it or below.
LEMMA Separation ==
    ASSUME TypeOK, ShapeInv, ~Linking, NEW s \in used, NEW q \in used, s # q,
           NEW j \in 1..Len(hn[q]),
           After(lo[s], hn[q][j]), Before(hn[q][j], hi[s])
    PROVE  height[q] < height[s]
<1> DEFINE In(h, a) == After(lo[a], h) /\ Before(h, hi[a])
           Bad == {n \in Nat : \E a \in used : /\ a # q /\ height[a] <= height[q] /\ In(hn[q][j], a)
                                             /\ n = height[root_sept] - height[a]}
<1>1. \A a \in used : /\ height[a] \in Nat /\ height[root_sept] \in Nat
                      /\ height[a] <= height[root_sept]
                      /\ a # root_sept => height[a] < height[root_sept]
  <2>1. root_sept \in used
    BY DEF ShapeInv, RootAgrees
  <2> QED BY <2>1, SeptFacts, ParentFacts
<1> SUFFICES ASSUME ~(height[q] < height[s]) PROVE FALSE
  OBVIOUS
<1>2. height[root_sept] - height[s] \in Bad
  BY <1>1
<1>3. PICK n \in Bad : \A m \in Bad : n <= m
  BY <1>2, LeastNat
<1>4. PICK a \in used : /\ a # q /\ height[a] <= height[q] /\ In(hn[q][j], a)
                        /\ n = height[root_sept] - height[a]
  BY <1>3
<1>5. a # root_sept
  BY <1>1, <1>4
<1> DEFINE p == parent[a]
<1>6. p \in used /\ height[p] = height[a] + 1 /\ Within(a, p)
  BY <1>5, ParentFacts, WithinParent
<1>7. hn[q][j] \in Handles /\ In(hn[q][j], q)
  BY ValueFacts
<1>8. /\ lo[a] \in Handles \cup {NoHandle} /\ hi[a] \in Handles \cup {NoHandle}
      /\ lo[p] \in Handles \cup {NoHandle} /\ hi[p] \in Handles \cup {NoHandle}
      /\ lo[q] \in Handles \cup {NoHandle} /\ hi[q] \in Handles \cup {NoHandle}
  BY <1>6, SeptFacts
<1>9. \A x \in Handles : Key[x] \in Int
  BY OrderAssumption
<1>10. CASE height[a] = height[q]
  <2>1. Apart(a, q)
    BY <1>4, <1>10, SameHeightApart
  <2> QED BY <1>4, <1>7, <1>8, <1>9, <2>1 DEF Apart, Ends, After, Before
<1>11. CASE height[a] # height[q] /\ p # q
  <2>1. In(hn[q][j], p)
    BY <1>4, <1>6, <1>7, <1>8, <1>9 DEF Within, Ends, After, Before
  <2>2. height[p] <= height[q] /\ height[root_sept] - height[p] \in Nat
        /\ ~(n <= height[root_sept] - height[p])
    <3>1. /\ height[a] \in Nat /\ height[q] \in Nat /\ height[p] \in Nat
          /\ height[root_sept] \in Nat /\ height[p] <= height[root_sept]
      BY <1>1, <1>6
    <3>2. n = height[root_sept] - height[a] /\ height[a] <= height[q] /\ height[a] # height[q]
      BY <1>4, <1>11
    <3> HIDE DEF p, Bad
    <3> QED BY <1>6, <3>1, <3>2
  <2>3. height[root_sept] - height[p] \in Bad
    <3> HIDE DEF p, In
    <3> QED BY <1>6, <1>11, <2>1, <2>2
  <2> QED BY <1>3, <2>2, <2>3
<1>12. CASE p = q
  <2>1. PICK i \in 1..Len(kid[q]) : lo[a] = LeftOf(q, i) /\ hi[a] = RightOf(q, i)
    BY <1>5, <1>12, ParentFacts DEF UpTo
  <2>2. Len(kid[q]) = Len(hn[q]) + 1 /\ Len(hn[q]) \in Nat
    BY <1>5, <1>12, ParentFacts, SeptFacts
  <2>3. CASE j < i
    <3>1. i - 1 \in 1..Len(hn[q]) /\ lo[a] = hn[q][i - 1] /\ j <= i - 1
      BY <2>1, <2>2, <2>3 DEF LeftOf
    <3>2. hn[q][i - 1] \in Handles /\ Key[hn[q][j]] <= Key[hn[q][i - 1]]
      <4>1. CASE j = i - 1
        BY <1>9, <3>1, <4>1, ValueFacts
      <4>2. CASE j < i - 1
        BY <3>1, <4>2, ValueFacts
      <4> QED BY <3>1, <4>1, <4>2
    <3> QED BY <1>4, <1>7, <1>9, <3>1, <3>2, OrderAssumption DEF After
  <2>4. CASE ~(j < i)
    <3>1. i \in 1..Len(hn[q]) /\ hi[a] = hn[q][i]
      BY <2>1, <2>2, <2>4 DEF RightOf
    <3>2. hn[q][i] \in Handles /\ Key[hn[q][i]] <= Key[hn[q][j]]
      <4>1. CASE j = i
        BY <1>9, <3>1, <4>1, ValueFacts
      <4>2. CASE i < j
        BY <3>1, <4>2, ValueFacts
      <4> QED BY <2>4, <3>1, <4>1, <4>2
    <3> QED BY <1>4, <1>7, <1>9, <3>1, <3>2, OrderAssumption DEF Before
  <2> QED BY <2>3, <2>4
<1> QED BY <1>10, <1>11, <1>12

-----------------------------------------------------------------------------
(* Counting.                                                               *)

ValuesOf(T) == UNION {Range(hn[s]) : s \in T}

\* What it is to be among the values of some septs.
LEMMA ValuesFacts ==
    ASSUME NEW f \in [Addresses -> Seq(Handles)], NEW T \in SUBSET Addresses
    PROVE  /\ UNION {Range(f[s]) : s \in T} \subseteq Handles
           /\ \A h : h \in UNION {Range(f[s]) : s \in T}
                       <=> \E s \in T : \E i \in 1..Len(f[s]) : f[s][i] = h
<1>1. \A s \in T : f[s] \in Seq(Handles)
  OBVIOUS
<1>2. \A s \in T : /\ Range(f[s]) \subseteq Handles
                   /\ \A h : h \in Range(f[s]) <=> \E i \in 1..Len(f[s]) : f[s][i] = h
  BY <1>1, RangeFacts
<1>3. UNION {Range(f[s]) : s \in T} \subseteq Handles
  <2>1. \A s \in T : Range(f[s]) \subseteq Handles
    BY <1>2
  <2>2. ASSUME NEW h \in UNION {Range(f[s]) : s \in T} PROVE h \in Handles
    <3>1. PICK s \in T : h \in Range(f[s])
      OBVIOUS
    <3> QED BY ONLY <2>1, <3>1
  <2> QED BY <2>2
<1>4. ASSUME NEW h
      PROVE  h \in UNION {Range(f[s]) : s \in T} <=> \E s \in T : h \in Range(f[s])
  BY Zenon
<1>5. ASSUME NEW h
      PROVE  (\E s \in T : h \in Range(f[s])) <=> \E s \in T : \E i \in 1..Len(f[s]) : f[s][i] = h
  BY <1>2, Zenon
<1> QED BY <1>3, <1>4, <1>5, Zenon

LEMMA MemberFacts ==
    ASSUME TypeOK
    PROVE  /\ Members \subseteq Handles
           /\ \A h : h \in Members <=> \E s \in used : \E i \in 1..Len(hn[s]) : hn[s][i] = h
<1>1. hn \in [Addresses -> Seq(Handles)] /\ used \in SUBSET Addresses
  BY DEF TypeOK, Addresses
<1> QED BY <1>1, ValuesFacts DEF Members

\* Each sept holds as many values as it has slots filled.
LEMMA OwnValues ==
    ASSUME TypeOK, ShapeInv, NEW s \in used
    PROVE  IsFiniteSet(Range(hn[s])) /\ Cardinality(Range(hn[s])) = Len(hn[s])
<1>1. hn[s] \in Seq(Handles) /\ Len(hn[s]) \in Nat
  BY SeptFacts
<1>2. \A i, j \in 1..Len(hn[s]) : hn[s][i] = hn[s][j] => i = j
  <2> SUFFICES ASSUME NEW i \in 1..Len(hn[s]), NEW j \in 1..Len(hn[s]), hn[s][i] = hn[s][j], i # j
               PROVE  FALSE
    OBVIOUS
  <2>1. Key[hn[s][i]] \in Int /\ Key[hn[s][j]] \in Int
    BY ValueFacts
  <2>2. CASE i < j
    BY <2>1, <2>2, ValueFacts
  <2>3. CASE j < i
    BY <2>1, <2>3, ValueFacts
  <2> QED BY <2>2, <2>3
<1>3. hn[s] \in [1..Len(hn[s]) -> Range(hn[s])] /\ \A x \in Range(hn[s]) : \E i \in 1..Len(hn[s]) : hn[s][i] = x
  BY <1>1, RangeFacts DEF Range
<1>4. hn[s] \in Bijection(1..Len(hn[s]), Range(hn[s]))
  BY <1>2, <1>3 DEF Bijection, Injection, Surjection, IsInjective
<1>5. IsFiniteSet(1..Len(hn[s])) /\ Cardinality(1..Len(hn[s])) = Len(hn[s])
  BY <1>1, FS_Interval
<1>6. ExistsBijection(1..Len(hn[s]), Range(hn[s]))
  BY <1>4 DEF ExistsBijection
<1> QED BY <1>5, <1>6, FS_Bijection

LEMMA Packing ==
    ASSUME TypeOK, ShapeInv, NEW T \in SUBSET used, IsFiniteSet(T), NEW m \in Nat,
           \A s \in T : Len(hn[s]) >= m
    PROVE  IsFiniteSet(ValuesOf(T)) /\ Cardinality(ValuesOf(T)) >= m * Cardinality(T)
<1> DEFINE Good(U) == IsFiniteSet(ValuesOf(U)) /\ Cardinality(ValuesOf(U)) >= m * Cardinality(U)
           Bad == {n \in Nat : \E U \in SUBSET T : Cardinality(U) = n /\ ~Good(U)}
<1> SUFFICES ASSUME ~Good(T) PROVE FALSE
  OBVIOUS
<1>0. \A U \in SUBSET T : IsFiniteSet(U) /\ Cardinality(U) \in Nat
  BY FS_Subset, FS_CardinalityType
<1>1. Cardinality(T) \in Bad
  BY <1>0
<1>2. PICK n \in Bad : \A k \in Bad : n <= k
  BY <1>1, LeastNat
<1>3. PICK U \in SUBSET T : Cardinality(U) = n /\ ~Good(U)
  BY <1>2
<1>4. n \in Nat /\ IsFiniteSet(U)
  BY <1>0, <1>2
<1>5. CASE U = {}
  <2>1. ValuesOf(U) = {}
    BY <1>5 DEF ValuesOf
  <2>2. Cardinality(U) = 0 /\ IsFiniteSet({}) /\ Cardinality({}) = 0
    BY <1>5, FS_EmptySet
  <2> QED BY <1>3, <2>1, <2>2
<1>6. CASE U # {}
  <2>1. PICK s \in U : TRUE
    BY <1>6
  <2> DEFINE V == U \ {s}
  <2>2. IsFiniteSet(V) /\ Cardinality(V) = n - 1
    BY <1>3, <1>4, <2>1, FS_RemoveElement
  <2>3. Good(V)
    <3>1. n - 1 \in Nat /\ ~(n <= n - 1)
      BY <1>0, <1>4, <2>2
    <3>2. n - 1 \notin Bad
      BY <1>2, <3>1
    <3> HIDE DEF Good
    <3> QED BY <2>2, <3>1, <3>2
  <2>4. s \in used /\ V \subseteq used
    BY <2>1
  <2>5. ValuesOf(U) = ValuesOf(V) \cup Range(hn[s])
    BY <2>1 DEF ValuesOf
  <2>6. ValuesOf(V) \cap Range(hn[s]) = {}
    <3> SUFFICES ASSUME NEW h \in Range(hn[s]), NEW q \in V, h \in Range(hn[q]) PROVE FALSE
      BY DEF ValuesOf
    <3>1. hn[s] \in Seq(Handles) /\ hn[q] \in Seq(Handles)
      BY <2>4, SeptFacts
    <3>2. (\E i \in 1..Len(hn[s]) : hn[s][i] = h) /\ (\E i \in 1..Len(hn[q]) : hn[q][i] = h)
      BY <3>1, RangeFacts
    <3>3. hp[h] = s /\ hp[h] = q
      BY <2>4, <3>2, ValueFacts
    <3> QED BY <3>3
  <2>7. IsFiniteSet(Range(hn[s])) /\ Cardinality(Range(hn[s])) = Len(hn[s]) /\ Len(hn[s]) >= m
        /\ Len(hn[s]) \in Nat
    BY <2>1, <2>4, OwnValues, SeptFacts
  <2>8. /\ IsFiniteSet(ValuesOf(U))
        /\ Cardinality(ValuesOf(U)) = Cardinality(ValuesOf(V)) + Len(hn[s]) - Cardinality({})
    <3>1. IsFiniteSet(ValuesOf(V)) /\ IsFiniteSet(Range(hn[s]))
      BY <2>3, <2>7
    <3>2. Cardinality(ValuesOf(V) \cup Range(hn[s]))
            = Cardinality(ValuesOf(V)) + Cardinality(Range(hn[s]))
              - Cardinality(ValuesOf(V) \cap Range(hn[s]))
          /\ IsFiniteSet(ValuesOf(V) \cup Range(hn[s]))
      BY ONLY <3>1, FS_Union
    <3> QED BY <2>5, <2>6, <2>7, <3>2, Zenon
  <2>9. Cardinality({}) = 0 /\ Cardinality(ValuesOf(V)) \in Nat
    BY <2>3, FS_EmptySet, FS_CardinalityType
  <2>10. m * (n - 1) + m = m * n
    BY <1>4
  <2>11. Cardinality(ValuesOf(V)) >= m * (n - 1)
    BY <2>2, <2>3
  <2>12. Cardinality(ValuesOf(U)) >= m * n
    <3>1. m * (n - 1) \in Int /\ m * n \in Int
      BY <1>4
    <3> QED BY <2>7, <2>8, <2>9, <2>10, <2>11, <3>1
  <2> QED BY <1>3, <2>8, <2>12
<1> QED BY <1>5, <1>6

LEMMA PackingWith ==
    ASSUME TypeOK, ShapeInv, NEW s \in used, NEW T \in SUBSET (used \ {s}), IsFiniteSet(T),
           \A q \in T : Len(hn[q]) >= Half
    PROVE  /\ IsFiniteSet(ValuesOf(T \cup {s}))
           /\ Cardinality(ValuesOf(T \cup {s})) >= Half * Cardinality(T) + Len(hn[s])
<1> DEFINE A == ValuesOf(T)
           B == Range(hn[s])
<1>1. Half \in Nat /\ T \in SUBSET used
  BY HalfFacts
<1>2. IsFiniteSet(A) /\ Cardinality(A) >= Half * Cardinality(T)
  BY <1>1, Packing
<1>3. IsFiniteSet(B) /\ Cardinality(B) = Len(hn[s]) /\ Len(hn[s]) \in Nat
  BY OwnValues, SeptFacts
<1>4. A \cap B = {}
  <2> SUFFICES ASSUME NEW h \in Range(hn[s]), NEW q \in T, h \in Range(hn[q]) PROVE FALSE
    BY DEF ValuesOf
  <2>1. hn[s] \in Seq(Handles) /\ hn[q] \in Seq(Handles) /\ q \in used /\ q # s
    BY SeptFacts
  <2>2. (\E i \in 1..Len(hn[s]) : hn[s][i] = h) /\ (\E i \in 1..Len(hn[q]) : hn[q][i] = h)
    BY <2>1, RangeFacts
  <2>3. hp[h] = s /\ hp[h] = q
    BY <2>1, <2>2, ValueFacts
  <2> QED BY <2>1, <2>3
<1>5. ValuesOf(T \cup {s}) = A \cup B
  BY DEF ValuesOf
<1> HIDE DEF A, B
<1>6. IsFiniteSet(A \cup B) /\ Cardinality(A \cup B) = Cardinality(A) + Cardinality(B) - Cardinality(A \cap B)
  BY ONLY <1>2, <1>3, FS_Union
<1>7. Cardinality(A \cap B) = 0 /\ Cardinality(A) \in Nat /\ Cardinality(T) \in Nat
  BY <1>2, <1>4, FS_EmptySet, FS_CardinalityType
<1>8. PICK n \in Int : n = Half * Cardinality(T)
  BY <1>1, <1>7
<1>9. PICK a \in Nat : a = Cardinality(A)
  BY <1>7
<1>10. PICK c \in Nat : c = Cardinality(A \cup B)
  BY <1>6, FS_CardinalityType
<1>11. c = a + Len(hn[s]) - 0 /\ a >= n /\ Len(hn[s]) \in Nat
  BY <1>2, <1>3, <1>6, <1>7, <1>8, <1>9, <1>10, Zenon
<1>12. c >= n + Len(hn[s])
  BY ONLY <1>11, n \in Int
<1> QED BY <1>5, <1>6, <1>8, <1>10, <1>12

LEMMA MoreHalves ==
    ASSUME NEW a \in Nat, NEW b \in Nat, 1 + b * Half <= a * Half
    PROVE  b + 1 <= a
<1> SUFFICES ASSUME a <= b PROVE FALSE
  OBVIOUS
<1>1. PICK c \in Nat : b = a + c
  <2>1. b - a \in Nat /\ b = a + (b - a)
    OBVIOUS
  <2> QED BY <2>1
<1>2. Half \in Nat /\ c * Half >= 0
  BY HalfFacts
<1>3. b * Half = a * Half + c * Half
  BY <1>1, <1>2
<1> QED BY <1>2, <1>3

\* allocate() has provided for the septs that so many members need.
LEMMA Provision ==
    ASSUME TypeOK, SlotsInv, stage # "gone", NEW m \in Nat, NEW E \in SUBSET slots,
           Cardinality(E) >= 1 + m * Half
    PROVE  counts.septs >= m + 1 /\ counts.needed >= m + 1
<1>1. IsFiniteSet(slots) /\ counts.alloced = Cardinality(slots)
      /\ counts.needed <= counts.septs /\ counts.next = 1 + counts.needed * Half
      /\ counts.alloced < counts.next
  BY DEF SlotsInv
<1>2. Cardinality(E) <= Cardinality(slots) /\ IsFiniteSet(E)
  BY <1>1, FS_Subset
<1>3. counts.needed \in Nat /\ counts.septs \in Nat /\ counts.alloced \in Nat /\ Cardinality(E) \in Nat
  BY <1>2, FS_CardinalityType DEF TypeOK
<1>4. Half \in Nat /\ m * Half \in Nat /\ counts.needed * Half \in Nat
  BY <1>3, HalfFacts
<1>5. 1 + m * Half <= counts.needed * Half
  BY <1>1, <1>2, <1>3, <1>4
<1>6. m + 1 <= counts.needed
  BY <1>3, <1>5, MoreHalves
<1> QED BY <1>1, <1>3, <1>6

\* A sept is in reserve if fewer are in the tree than there are.
LEMMA InReserve ==
    ASSUME TypeOK, SlotsInv, Cardinality(used) < counts.septs
    PROVE  NextSept \in sn_reserve /\ NextSept \in Septs /\ NextSept \notin used
<1>1. used \cap sn_reserve = {} /\ Cardinality(used \cup sn_reserve) = counts.septs
  BY DEF SlotsInv, Live
<1>2. sn_reserve # {}
  <2> SUFFICES ASSUME sn_reserve = {} PROVE FALSE
    OBVIOUS
  <2>1. used \cup sn_reserve = used /\ Cardinality(used) = counts.septs /\ counts.septs \in Nat
    BY <1>1 DEF TypeOK
  <2> QED BY <2>1
<1>3. NextSept \in sn_reserve
  BY <1>2 DEF NextSept
<1> QED BY <1>1, <1>3 DEF TypeOK

\* The tree is a packing of its members.
LEMMA TreePacked ==
    ASSUME TypeOK, SlotsInv, ShapeInv, FillInv, pc = "idle", used # {}
    PROVE  /\ IsFiniteSet(Members) /\ Cardinality(used) \in Nat /\ Cardinality(used) >= 1
           /\ Cardinality(Members) >= 1 + (Cardinality(used) - 1) * Half
<1> DEFINE T == used \ {root_sept}
<1>1. root_sept \in used /\ IsFiniteSet(used)
  BY DEF ShapeInv, RootAgrees, SlotsInv
<1>2. IsFiniteSet(T) /\ Cardinality(T) = Cardinality(used) - 1 /\ T \in SUBSET (used \ {root_sept})
      /\ Cardinality(T) \in Nat /\ Cardinality(used) \in Nat
  BY <1>1, FS_RemoveElement, FS_CardinalityType
<1>3. \A q \in T : Len(hn[q]) >= Half
  BY DEF FillInv, Filled, num_vals
<1>4. Len(hn[root_sept]) >= 1 /\ Len(hn[root_sept]) \in Nat
  BY <1>1, SeptFacts DEF FillInv, Filled, num_vals
<1>5. /\ IsFiniteSet(ValuesOf(T \cup {root_sept}))
      /\ Cardinality(ValuesOf(T \cup {root_sept})) >= Half * Cardinality(T) + Len(hn[root_sept])
  BY <1>1, <1>2, <1>3, PackingWith
<1>6. T \cup {root_sept} = used
  BY <1>1
<1>7. Members = ValuesOf(used)
  BY DEF Members, ValuesOf
<1>8. Half * Cardinality(T) = (Cardinality(used) - 1) * Half /\ Half * Cardinality(T) \in Nat
  BY <1>2, HalfFacts
<1>9. Cardinality(Members) \in Nat
  BY <1>5, <1>6, <1>7, FS_CardinalityType
<1>10. PICK n \in Nat : n = Half * Cardinality(T)
  BY <1>8
<1>11. Cardinality(Members) >= n + Len(hn[root_sept])
  BY <1>5, <1>6, <1>7, <1>10
<1>12. Cardinality(Members) >= 1 + n
  BY ONLY <1>4, <1>9, <1>11, n \in Nat
<1>13. Cardinality(used) >= 1
  BY <1>2
<1> QED BY <1>2, <1>5, <1>6, <1>7, <1>8, <1>10, <1>12, <1>13

\* On the way up, the pending value counts as well.
LEMMA PendingCounts ==
    ASSUME TypeOK, SlotsInv, ShapeInv, OpInv, pc = "up", NEW T \in SUBSET used, NEW n \in Nat,
           IsFiniteSet(ValuesOf(T)), Cardinality(ValuesOf(T)) >= n * Half
    PROVE  counts.septs >= n + 1
<1> DEFINE E == ValuesOf(T) \cup {hndl_p}
<1>1. hndl_p \notin ValuesOf(T) /\ E \subseteq slots
  BY DEF OpInv, UpInv, SlotsInv, Elements, Members, ValuesOf
<1>2. Cardinality(E) = Cardinality(ValuesOf(T)) + 1 /\ Cardinality(ValuesOf(T)) \in Nat
  BY <1>1, FS_AddElement, FS_CardinalityType
<1>3. n * Half \in Nat
  BY HalfFacts
<1>4. Cardinality(E) >= 1 + n * Half
  BY <1>2, <1>3
<1>5. stage # "gone"
  BY DEF SlotsInv
<1> QED BY <1>1, <1>4, <1>5, Provision

LEMMA ReserveForSplit ==
    ASSUME TreeInv, pc = "up", sept # Null, num_vals(sept) = N
    PROVE  NextSept \in sn_reserve /\ NextSept \in Septs /\ NextSept \notin used
<1> USE DEF TreeInv
<1> DEFINE T == used \ {sept, root_sept}
           k == Cardinality(used)
<1>1. sept \in used /\ IsFiniteSet(used) /\ root_sept \in used
  BY DEF OpInv, UpInv, SlotsInv, ShapeInv, RootAgrees
<1>2. IsFiniteSet(T) /\ T \in SUBSET (used \ {sept}) /\ k \in Nat /\ Cardinality(T) \in Nat
  BY <1>1, FS_Subset, FS_CardinalityType
<1>3. \A q \in T : Len(hn[q]) >= Half
  BY DEF FillInv, Filled, num_vals
<1>4. /\ IsFiniteSet(ValuesOf(T \cup {sept}))
      /\ Cardinality(ValuesOf(T \cup {sept})) >= Half * Cardinality(T) + N
  BY <1>1, <1>2, <1>3, PackingWith DEF num_vals
<1>5. Cardinality(T) >= k - 2
  <2>1. IsFiniteSet(used \ {sept}) /\ Cardinality(used \ {sept}) = k - 1
    BY <1>1, FS_RemoveElement
  <2>2. T = (used \ {sept}) \ {root_sept}
    OBVIOUS
  <2>3. CASE root_sept \in used \ {sept}
    BY <1>2, <2>1, <2>2, <2>3, FS_RemoveElement
  <2>4. CASE root_sept \notin used \ {sept}
    <3>1. T = used \ {sept}
      BY <2>4
    <3> QED BY <1>2, <2>1, <3>1
  <2> QED BY <2>3, <2>4
<1> HIDE DEF T, k
<1>6. Half * Cardinality(T) + N = (Cardinality(T) + 2) * Half
  BY <1>2, HalfFacts
<1>7. counts.septs >= (Cardinality(T) + 2) + 1 /\ counts.septs \in Nat
  <2>1. T \cup {sept} \in SUBSET used /\ Cardinality(T) + 2 \in Nat
    BY <1>1, <1>2
  <2>2. Cardinality(ValuesOf(T \cup {sept})) >= (Cardinality(T) + 2) * Half
    BY <1>4, <1>6
  <2> QED BY <1>4, <2>1, <2>2, PendingCounts DEF TypeOK
<1>8. Cardinality(used) < counts.septs
  BY <1>2, <1>5, <1>7 DEF k
<1> QED BY <1>8, InReserve

LEMMA ReserveForNewRoot ==
    ASSUME TreeInv, pc = "up", sept = Null
    PROVE  NextSept \in sn_reserve /\ NextSept \in Septs /\ NextSept \notin used
<1> USE DEF TreeInv
<1>1. IsFiniteSet(used) /\ Cardinality(used) \in Nat /\ Half \in Nat
  BY FS_CardinalityType, HalfFacts DEF SlotsInv
<1>2. left_down # Null /\ left_down = root_sept /\ num_vals(left_down) = Half
  BY OrderAssumption DEF OpInv, UpInv, TypeOK
<1>3. \A q \in used : Len(hn[q]) >= Half
  BY <1>1, <1>2 DEF FillInv, Filled, num_vals
<1>4. IsFiniteSet(ValuesOf(used)) /\ Cardinality(ValuesOf(used)) >= Half * Cardinality(used)
  BY <1>1, <1>3, Packing
<1>5. Half * Cardinality(used) = Cardinality(used) * Half
  BY <1>1
<1>6. counts.septs >= Cardinality(used) + 1 /\ counts.septs \in Nat
  BY <1>1, <1>4, <1>5, PendingCounts DEF TypeOK
<1>7. Cardinality(used) < counts.septs
  BY <1>1, <1>6
<1> QED BY <1>7, InReserve

LEMMA ReserveForRoot ==
    ASSUME TreeInv, pc = "insert", root_sept = Null
    PROVE  NextSept \in sn_reserve /\ NextSept \in Septs /\ NextSept \notin used
<1> USE DEF TreeInv
<1>1. used = {} /\ hndl_p \in slots /\ stage # "gone"
  BY DEF ShapeInv, RootAgrees, OpInv, SlotsInv
<1>2. Cardinality({hndl_p}) = 1 /\ Cardinality({}) = 0
  BY FS_Singleton, FS_EmptySet
<1>3. 1 >= 1 + 0 * Half
  BY HalfFacts
<1>4. counts.septs >= 0 + 1
  BY <1>1, <1>2, <1>3, Provision
<1>5. Cardinality(used) < counts.septs
  BY <1>1, <1>2, <1>4 DEF TypeOK
<1> QED BY <1>5, InReserve

-----------------------------------------------------------------------------
(* Steps that leave the tree alone.                                        *)

LEMMA SameTree ==
    ASSUME ShapeInv, ~Linking, ~Linking', UNCHANGED <<septVars, root_sept, left_sept>>
    PROVE  ShapeInv' /\ Members' = Members /\ (\A s \in used : Filled(s)' <=> Filled(s))
<1>1. /\ hn' = hn /\ kid' = kid /\ parent' = parent /\ hp' = hp /\ used' = used
      /\ lo' = lo /\ hi' = hi /\ height' = height
      /\ root_sept' = root_sept /\ left_sept' = left_sept
  BY DEF septVars
<1>2. \A k : UpTo(k)' = UpTo(k)
  BY DEF UpTo
<1>3. RootAgrees'
  BY <1>1, <1>2 DEF ShapeInv, RootAgrees, is_leaf
<1>4. ASSUME NEW s \in used PROVE SeptInOrder(s)' /\ ChildrenAgree(s)'
  <2>1. SeptInOrder(s)'
    BY <1>1 DEF ShapeInv, SeptInOrder, num_vals, After, Before
  <2>2. ChildrenAgree(s)'
    BY <1>1, <1>2 DEF ShapeInv, ChildrenAgree, num_vals, is_leaf, LeftOf, RightOf
  <2> QED BY <2>1, <2>2
<1>5. ASSUME NEW s \in used, s # root_sept PROVE ParentAgrees(s)'
  BY <1>1, <1>5 DEF ShapeInv, ParentAgrees
<1>6. Members' = Members
  BY <1>1 DEF Members
<1>7. \A s \in used : Filled(s)' <=> Filled(s)
  BY <1>1 DEF Filled, num_vals
<1>8. ShapeInv'
  BY <1>1, <1>3, <1>4, <1>5 DEF ShapeInv
<1> QED BY <1>6, <1>7, <1>8

\* Two steps of an operation, with the same septs and slots.
LEMMA SameSlots ==
    ASSUME SlotsInv, UNCHANGED <<used, sn_reserve, counts, slots>>, stage # "gone", stage' # "gone",
           Elements' \subseteq slots
    PROVE  SlotsInv'
BY DEF SlotsInv, Live

LEMMA IdleOp ==
    ASSUME pc' = "idle", left_down' = Null
    PROVE  OpInv' /\ ~Linking' /\ Elements' = Members'
BY DEF OpInv, SearchInv, UpInv, SuccInv, FindInv, FindsMembers, Linking, Elements

LEMMA NotGone ==
    ASSUME SlotsInv, pc # "idle"
    PROVE  stage # "gone"
BY DEF SlotsInv

\* The reserve after alloc_slot().
LEMMA SlotTaken ==
    ASSUME TypeOK, SlotsInv, stage = "live", alloc_slot, NEW h \in Handles, h \notin slots,
           slots' = slots \cup {h}, UNCHANGED <<used, hn, stage>>, pc = "idle", pc' # "up"
    PROVE  /\ sn_reserve' \subseteq Septs /\ counts' \in [alloced : Nat, septs : Nat, needed : Nat, next : Nat]
           /\ SlotsInv'
<1>1. /\ IsFiniteSet(slots) /\ IsFiniteSet(used) /\ IsFiniteSet(sn_reserve)
      /\ used \cap sn_reserve = {} /\ Cardinality(used \cup sn_reserve) = counts.septs
      /\ counts.alloced = Cardinality(slots)
      /\ counts.needed <= counts.septs
      /\ counts.next = 1 + counts.needed * Half
      /\ counts.next - Half <= counts.alloced /\ counts.alloced < counts.next
      /\ Members \subseteq slots
  BY DEF SlotsInv, Live, Elements
<1>2. counts \in [alloced : Nat, septs : Nat, needed : Nat, next : Nat] /\ sn_reserve \subseteq Septs
      /\ used \subseteq Septs
  BY DEF TypeOK
<1>3. Half \in Nat /\ Half >= 2 /\ (counts.needed + 1) * Half = counts.needed * Half + Half
      /\ counts.needed * Half \in Nat
  BY <1>2, HalfFacts
<1>4. IsFiniteSet(slots') /\ Cardinality(slots') = Cardinality(slots) + 1
  BY <1>1, FS_AddElement
<1>5. counts'.septs = (IF NeedsSept THEN counts.septs + 1 ELSE counts.septs)
  BY <1>2 DEF alloc_slot, NeedsSept
<1>6. /\ sn_reserve' \subseteq Septs /\ IsFiniteSet(sn_reserve') /\ used \cap sn_reserve' = {}
      /\ Cardinality(used \cup sn_reserve') = counts'.septs
  <2>1. CASE ~NeedsSept
    BY <1>1, <1>2, <1>5, <2>1 DEF alloc_slot
  <2>2. CASE NeedsSept
    <3>1. sn_reserve' = sn_reserve \cup {Fresh} /\ Septs \ Live # {}
      BY <2>2 DEF alloc_slot
    <3>2. Fresh \in Septs /\ Fresh \notin used \cup sn_reserve
      BY <3>1 DEF Fresh, Live
    <3>3. IsFiniteSet(used \cup sn_reserve) /\ IsFiniteSet(sn_reserve')
      BY <1>1, <3>1, FS_Union, FS_AddElement
    <3>4. Cardinality((used \cup sn_reserve) \cup {Fresh}) = counts.septs + 1
      BY <1>1, <3>2, <3>3, FS_AddElement
    <3>5. (used \cup sn_reserve) \cup {Fresh} = used \cup sn_reserve'
      BY <3>1
    <3> QED BY <1>1, <1>2, <1>5, <2>2, <3>1, <3>2, <3>3, <3>4, <3>5
  <2> QED BY <2>1, <2>2
<1>7. /\ counts' \in [alloced : Nat, septs : Nat, needed : Nat, next : Nat]
      /\ counts'.alloced = counts.alloced + 1 /\ counts'.needed <= counts'.septs
      /\ counts'.next = 1 + counts'.needed * Half
      /\ counts'.next - Half <= counts'.alloced /\ counts'.alloced < counts'.next
  <2>1. CASE counts.alloced + 1 # counts.next
    <3>1. counts' = [counts EXCEPT !.alloced = @ + 1]
      BY <2>1 DEF alloc_slot
    <3>2. /\ counts'.alloced = counts.alloced + 1 /\ counts'.next = counts.next
          /\ counts'.needed = counts.needed /\ counts'.septs = counts.septs
          /\ counts' \in [alloced : Nat, septs : Nat, needed : Nat, next : Nat]
      BY <1>2, <3>1
    <3>3. counts.alloced + 1 < counts.next
      <4>1. counts.next \in Nat /\ counts.alloced \in Nat
        BY <1>2
      <4> QED BY <1>1, <2>1, <4>1
    <3>4. counts.next - Half <= counts.alloced + 1
      BY <1>1, <1>2, <1>3
    <3> QED BY <1>1, <3>2, <3>3, <3>4
  <2>2. CASE counts.alloced + 1 = counts.next
    <3>1. counts' = [alloced |-> counts.alloced + 1, needed |-> counts.needed + 1,
                       next |-> counts.next + Half,
                       septs |-> IF NeedsSept THEN counts.septs + 1 ELSE counts.septs]
      BY <2>2 DEF alloc_slot
    <3>2. counts'.needed <= counts'.septs
      BY <1>1, <1>2, <2>2, <3>1 DEF NeedsSept
    <3>3. PICK n \in Nat : n = counts.needed * Half
      BY <1>3
    <3>4. counts'.needed * Half = n + Half /\ counts.next = 1 + n
      BY <1>1, <1>3, <3>1, <3>3
    <3>5. /\ counts'.alloced = counts.alloced + 1 /\ counts'.next = counts.next + Half
          /\ counts' \in [alloced : Nat, septs : Nat, needed : Nat, next : Nat]
      BY <1>2, <1>3, <3>1
    <3> QED BY <1>2, <1>3, <2>2, <3>2, <3>4, <3>5
  <2> QED BY <2>1, <2>2
<1>8. Elements' \subseteq slots'
  BY <1>1 DEF Elements, Members
<1>9. counts'.alloced = Cardinality(slots')
  BY <1>1, <1>4, <1>7
<1> QED BY <1>1, <1>4, <1>6, <1>7, <1>8, <1>9 DEF SlotsInv, Live

\* The reserve after release_slot(): a sept that it deletes is a spare one.
LEMMA SlotReturned ==
    ASSUME TypeOK, SlotsInv, ShapeInv, FillInv, stage = "live", release_slot,
           NEW h \in slots, h \notin Members,
           slots' = slots \ {h}, UNCHANGED <<used, hn, stage>>, pc = "idle", pc' # "up"
    PROVE  /\ sn_reserve' \subseteq Septs /\ counts' \in [alloced : Nat, septs : Nat, needed : Nat, next : Nat]
           /\ SlotsInv'
<1> DEFINE n == counts.alloced - 1
           need == counts.needed - 1
           drop == need < counts.septs - 1
<1>1. /\ IsFiniteSet(slots) /\ IsFiniteSet(used) /\ IsFiniteSet(sn_reserve)
      /\ used \cap sn_reserve = {} /\ Cardinality(used \cup sn_reserve) = counts.septs
      /\ counts.alloced = Cardinality(slots)
      /\ counts.needed <= counts.septs
      /\ counts.next = 1 + counts.needed * Half
      /\ counts.next - Half <= counts.alloced /\ counts.alloced < counts.next
      /\ Members \subseteq slots
  BY DEF SlotsInv, Live, Elements
<1>2. counts \in [alloced : Nat, septs : Nat, needed : Nat, next : Nat] /\ sn_reserve \subseteq Septs
      /\ used \subseteq Septs
  BY DEF TypeOK
<1>3. /\ counts.alloced \in Nat /\ counts.needed \in Nat /\ counts.septs \in Nat /\ counts.next \in Nat
      /\ Half \in Nat /\ Half >= 2 /\ counts.needed * Half \in Nat
      /\ (counts.needed - 1) * Half = counts.needed * Half - Half
  BY <1>2, HalfFacts
<1>4. IsFiniteSet(slots') /\ Cardinality(slots') = Cardinality(slots) - 1 /\ Cardinality(slots') \in Nat
  BY <1>1, FS_RemoveElement, FS_CardinalityType
<1>5. n \in Nat /\ counts.alloced = n + 1 /\ n = Cardinality(slots')
  BY <1>1, <1>3, <1>4
<1>6. need \in Nat
  <2>1. CASE counts.needed = 0
    <3>1. counts.next = 1
      BY <1>1, <1>3, <2>1
    <3> QED BY <1>1, <1>3, <1>5, <3>1
  <2> QED BY <1>3, <2>1
<1> HIDE DEF n, need, drop
<1>7. Elements' \subseteq slots'
  BY <1>1 DEF Elements, Members
<1>8. CASE n >= counts.next - Half
  <2>1. counts' = [counts EXCEPT !.alloced = n] /\ sn_reserve' = sn_reserve
    BY <1>8 DEF release_slot, n
  <2>2. /\ counts'.alloced = n /\ counts'.next = counts.next
        /\ counts'.needed = counts.needed /\ counts'.septs = counts.septs
        /\ counts' \in [alloced : Nat, septs : Nat, needed : Nat, next : Nat]
    BY <1>2, <1>5, <2>1
  <2>3. n < counts.next
    BY <1>1, <1>3, <1>5
  <2> QED BY <1>1, <1>2, <1>4, <1>5, <1>7, <1>8, <2>1, <2>2, <2>3 DEF SlotsInv, Live
<1>9. CASE ~(n >= counts.next - Half)
  <2>1. /\ counts' = [alloced |-> n, needed |-> need, next |-> counts.next - Half,
                      septs |-> IF drop THEN counts.septs - 1 ELSE counts.septs]
        /\ sn_reserve' = IF drop THEN sn_reserve \ {NextSept} ELSE sn_reserve
    BY <1>9 DEF release_slot, n, need, drop
  <2>2. counts'.alloced = n /\ counts'.needed = need /\ counts'.next = counts.next - Half
        /\ counts'.septs = (IF drop THEN counts.septs - 1 ELSE counts.septs)
    BY <2>1
  <2>3. PICK k \in Nat : k = counts.needed * Half
    BY <1>3
  <2>4. /\ counts.next = 1 + k /\ need * Half = k - Half /\ counts'.next = 1 + need * Half
        /\ n < counts'.next /\ counts'.next - Half <= n /\ counts'.next \in Nat
    <3>1. counts.next = 1 + k /\ need * Half = k - Half
      BY <1>1, <1>3, <2>3 DEF need
    <3>2. need * Half \in Nat
      BY <1>3, <1>6
    <3>3. n = counts.next - Half - 1
      BY <1>1, <1>3, <1>5, <1>9
    <3> QED BY <1>3, <1>5, <2>2, <3>1, <3>2, <3>3
  <2>5. CASE ~drop
    <3>1. counts' \in [alloced : Nat, septs : Nat, needed : Nat, next : Nat]
      BY <1>3, <1>5, <1>6, <2>1, <2>2, <2>4, <2>5
    <3>2. need <= counts.septs
      BY <1>1, <1>3 DEF need
    <3> QED BY <1>1, <1>2, <1>4, <1>5, <1>7, <2>1, <2>2, <2>4, <2>5, <3>1, <3>2 DEF SlotsInv, Live
  <2>6. CASE drop
    <3>1. counts.needed < counts.septs
      BY <1>3, <2>6 DEF drop, need
    <3>2. Cardinality(used) < counts.septs
      <4>1. CASE used = {}
        <5>1. Cardinality(used) = 0
          BY <4>1, FS_EmptySet
        <5> QED BY <1>3, <3>1, <5>1
      <4>2. CASE used # {}
        <5>1. Cardinality(used) - 1 \in Nat /\ Cardinality(Members) >= 1 + (Cardinality(used) - 1) * Half
          BY <4>2, TreePacked
        <5>2. counts.needed >= (Cardinality(used) - 1) + 1
          BY <1>1, <5>1, Provision
        <5>3. Cardinality(used) - 1 \in Int /\ Cardinality(used) = (Cardinality(used) - 1) + 1
          BY <4>2, TreePacked
        <5> QED BY <1>3, <3>1, <5>1, <5>2, <5>3
      <4> QED BY <4>1, <4>2
    <3>3. NextSept \in sn_reserve /\ NextSept \notin used
      BY <3>2, InReserve
    <3>4. IsFiniteSet(used \cup sn_reserve) /\ IsFiniteSet(sn_reserve \ {NextSept})
      BY <1>1, <3>3, FS_Union, FS_RemoveElement
    <3>5. Cardinality((used \cup sn_reserve) \ {NextSept}) = counts.septs - 1
      BY <1>1, <3>3, <3>4, FS_RemoveElement
    <3>6. (used \cup sn_reserve) \ {NextSept} = used \cup sn_reserve' /\ sn_reserve' = sn_reserve \ {NextSept}
      BY <2>1, <2>6, <3>3
    <3>7. counts'.septs = counts.septs - 1 /\ counts.septs - 1 \in Nat /\ need <= counts.septs - 1
      BY <1>3, <2>2, <2>6, <3>1 DEF need
    <3>8. counts' \in [alloced : Nat, septs : Nat, needed : Nat, next : Nat]
      BY <1>5, <1>6, <2>1, <2>4, <2>6, <3>7
    <3>9. used \cap sn_reserve' = {} /\ sn_reserve' \subseteq Septs /\ IsFiniteSet(sn_reserve')
      BY <1>1, <1>2, <3>4, <3>6
    <3> QED BY <1>1, <1>4, <1>5, <1>7, <2>2, <2>4, <3>5, <3>6, <3>7, <3>8, <3>9 DEF SlotsInv, Live
  <2> QED BY <2>5, <2>6
<1> QED BY <1>8, <1>9

LEMMA SameFill ==
    ASSUME FillInv, UNCHANGED <<hn, used, root_sept>>, pc \notin {"repop", "search", "up"}
    PROVE  FillInv'
BY DEF FillInv, Filled, num_vals

\* Types when the tree stays as it is.
LEMMA SameTypes ==
    ASSUME TypeOK, UNCHANGED <<septVars, root_sept, left_sept>>, sn_reserve' \subseteq Septs,
           counts' \in [alloced : Nat, septs : Nat, needed : Nat, next : Nat], slots' \subseteq Handles,
           pc' \in PCs, sept' \in Septs \cup {Null}, hndl_p' \in Handles \cup {NoHandle},
           pval' \in Int, min' \in Int, max' \in Int,
           UNCHANGED <<left_down, right_down>> \/ (left_down' = Null /\ right_down' = Null),
           load' \in Seq(Handles), ops' \in Nat, stage' \in {"live", "dying", "gone"}
    PROVE  TypeOK'
<1>1. /\ hn' = hn /\ kid' = kid /\ parent' = parent /\ hp' = hp /\ used' = used
      /\ lo' = lo /\ hi' = hi /\ height' = height
      /\ root_sept' = root_sept /\ left_sept' = left_sept
  BY DEF septVars
<1>2. left_down' \in Septs \cup {Null} /\ right_down' \in Septs \cup {Null}
  BY DEF TypeOK
<1> QED BY <1>1, <1>2 DEF TypeOK

LEMMA AddStep == ASSUME TreeInv, Add PROVE TreeInv'
<1> USE DEF TreeInv
<1> DEFINE h == Head(load)
<1>1. /\ pc = "idle" /\ stage = "live" /\ load # << >> /\ h \notin slots
      /\ load' = Tail(load) /\ slots' = slots \cup {h} /\ alloc_slot
      /\ pc' = "insert" /\ sept' = Null /\ hndl_p' = h /\ pval' = pval
      /\ min' = min /\ max' = max /\ left_down' = left_down /\ right_down' = right_down
      /\ UNCHANGED <<septVars, root_sept, left_sept, ops, stage>>
  BY DEF Add, Registers, NoSearch
<1>2. load \in Seq(Handles) /\ h \in Handles /\ load' \in Seq(Handles)
  <2>1. load \in Seq(Handles)
    BY DEF TypeOK
  <2> QED BY <1>1, <2>1
<1> HIDE DEF h
<1>3. UNCHANGED <<used, hn, root_sept>>
  BY <1>1 DEF septVars
<1>4. /\ sn_reserve' \subseteq Septs /\ counts' \in [alloced : Nat, septs : Nat, needed : Nat, next : Nat]
      /\ SlotsInv'
  BY <1>1, <1>2, <1>3, SlotTaken
<1>5. TypeOK'
  <2>1. /\ slots' \subseteq Handles /\ pc' \in PCs /\ sept' \in Septs \cup {Null}
        /\ hndl_p' \in Handles \cup {NoHandle} /\ pval' \in Int /\ min' \in Int /\ max' \in Int
        /\ ops' \in Nat /\ stage' \in {"live", "dying", "gone"}
    BY <1>1, <1>2 DEF TypeOK, PCs
  <2> QED BY <1>1, <1>2, <1>4, <2>1, SameTypes
<1>6. ShapeInv' /\ Members' = Members
  BY <1>1, SameTree DEF Linking
<1>7. FillInv'
  BY <1>1, <1>3, SameFill
<1>8. OpInv'
  <2>1. h \notin Members
    BY <1>1 DEF SlotsInv, Elements
  <2> QED BY <1>1, <1>2, <1>6, <2>1 DEF OpInv, SearchInv, UpInv, SuccInv, FindInv, FindsMembers
<1> QED BY <1>4, <1>5, <1>6, <1>7, <1>8

LEMMA StepFacts ==
    ASSUME TreeInv, Step
    PROVE  /\ pc = "idle" /\ stage = "live" /\ left_down = Null
           /\ load' = load /\ stage' = stage /\ load' \in Seq(Handles) /\ ops' \in Nat
           /\ stage' \in {"live", "dying", "gone"}
           /\ UNCHANGED <<septVars, root_sept, left_sept>> /\ UNCHANGED <<used, hn, root_sept>>
BY DEF TreeInv, Step, TypeOK, septVars, OpInv

\* What the operations before the first step of the tree leave as it was.
LEMMA IdleStep ==
    ASSUME TreeInv, Step, UNCHANGED opVars,
           sn_reserve' \subseteq Septs, slots' \subseteq Handles,
           counts' \in [alloced : Nat, septs : Nat, needed : Nat, next : Nat], SlotsInv'
    PROVE  TreeInv'
<1> USE DEF TreeInv
<1>1. /\ pc = "idle" /\ left_down = Null /\ UNCHANGED <<septVars, root_sept, left_sept>>
      /\ UNCHANGED <<used, hn, root_sept>>
      /\ load' \in Seq(Handles) /\ ops' \in Nat /\ stage' \in {"live", "dying", "gone"}
  BY StepFacts
<1>2. /\ pc' = pc /\ sept' = sept /\ hndl_p' = hndl_p /\ pval' = pval /\ min' = min /\ max' = max
      /\ left_down' = left_down /\ right_down' = right_down
  BY DEF opVars
<1>3. TypeOK'
  <2>1. /\ pc' \in PCs /\ sept' \in Septs \cup {Null} /\ hndl_p' \in Handles \cup {NoHandle}
        /\ pval' \in Int /\ min' \in Int /\ max' \in Int
    BY <1>2 DEF TypeOK
  <2> QED BY <1>1, <1>2, <2>1, SameTypes
<1>4. ShapeInv' /\ FillInv'
  BY <1>1, <1>2, SameTree, SameFill DEF Linking
<1>5. OpInv'
  BY <1>1, <1>2, IdleOp
<1> QED BY <1>3, <1>4, <1>5

LEMMA AllocateStep == ASSUME TreeInv, NEW h \in Handles, Allocate(h) PROVE TreeInv'
<1>1. /\ Step /\ h \notin slots /\ slots' = slots \cup {h} /\ alloc_slot /\ UNCHANGED opVars
  BY DEF Allocate
<1>2. /\ pc = "idle" /\ stage = "live" /\ UNCHANGED <<used, hn, stage>> /\ pc' # "up"
  BY <1>1, StepFacts DEF opVars
<1>3. /\ sn_reserve' \subseteq Septs /\ counts' \in [alloced : Nat, septs : Nat, needed : Nat, next : Nat]
      /\ SlotsInv'
  BY <1>1, <1>2, SlotTaken DEF TreeInv
<1>4. slots' \subseteq Handles
  BY <1>1 DEF TreeInv, TypeOK
<1> QED BY <1>1, <1>3, <1>4, IdleStep

LEMMA AllocateFailsStep == ASSUME TreeInv, NEW h \in Handles, AllocateFails(h) PROVE TreeInv'
<1>1. Step /\ UNCHANGED <<sn_reserve, counts, slots>> /\ UNCHANGED opVars
  BY DEF AllocateFails, slotVars
<1>2. pc = "idle" /\ stage = "live" /\ UNCHANGED <<used, hn, stage>> /\ pc' = pc
  BY <1>1, StepFacts DEF opVars
<1>3. Elements' \subseteq slots
  BY <1>2 DEF TreeInv, SlotsInv, Elements, Members
<1>4. SlotsInv'
  BY <1>1, <1>2, <1>3, SameSlots DEF TreeInv
<1>5. /\ sn_reserve' \subseteq Septs /\ counts' \in [alloced : Nat, septs : Nat, needed : Nat, next : Nat]
      /\ slots' \subseteq Handles
  BY <1>1 DEF TreeInv, TypeOK
<1> QED BY <1>1, <1>4, <1>5, IdleStep

LEMMA DeallocateStep == ASSUME TreeInv, NEW h \in Handles, Deallocate(h) PROVE TreeInv'
<1>1. /\ Step /\ h \in slots /\ h \notin Members /\ slots' = slots \ {h} /\ release_slot
      /\ UNCHANGED opVars
  BY DEF Deallocate
<1>2. /\ pc = "idle" /\ stage = "live" /\ UNCHANGED <<used, hn, stage>> /\ pc' # "up"
  BY <1>1, StepFacts DEF opVars
<1>3. /\ sn_reserve' \subseteq Septs /\ counts' \in [alloced : Nat, septs : Nat, needed : Nat, next : Nat]
      /\ SlotsInv'
  BY <1>1, <1>2, SlotReturned DEF TreeInv
<1>4. slots' \subseteq Handles
  BY <1>1 DEF TreeInv, TypeOK
<1> QED BY <1>1, <1>3, <1>4, IdleStep

\* A step that leaves the tree as it is.
LEMMA QuietStep ==
    ASSUME TreeInv, UNCHANGED treeVars, UNCHANGED slotVars, stage # "gone", pc # "up" \/ left_down = Null,
           pc' # "up" \/ left_down' = Null,
           pc' \in PCs, sept' \in Septs \cup {Null}, hndl_p' \in Handles \cup {NoHandle},
           pval' \in Int, min' \in Int, max' \in Int,
           UNCHANGED <<left_down, right_down>> \/ (left_down' = Null /\ right_down' = Null),
           load' \in Seq(Handles), ops' \in Nat, stage' \in {"live", "dying"},
           pc' = "up" => hndl_p' \in slots, FillInv', OpInv'
    PROVE  TreeInv'
<1> USE DEF TreeInv
<1>1. /\ UNCHANGED <<septVars, root_sept, left_sept>> /\ used' = used /\ hn' = hn
      /\ sn_reserve' = sn_reserve /\ counts' = counts /\ slots' = slots
  BY DEF treeVars, slotVars, septVars
<1>2. TypeOK'
  <2>1. /\ sn_reserve' \subseteq Septs /\ slots' \subseteq Handles
        /\ counts' \in [alloced : Nat, septs : Nat, needed : Nat, next : Nat]
    BY <1>1 DEF TypeOK
  <2> QED BY <1>1, <2>1, SameTypes
<1>3. ShapeInv' /\ Members' = Members
  BY <1>1, SameTree DEF Linking
<1>4. Members \subseteq slots
  BY DEF SlotsInv, Elements
<1>5. SlotsInv'
  <2>1. Elements' \subseteq slots
    BY <1>3, <1>4 DEF Elements
  <2> QED BY <1>1, <2>1, SameSlots
<1> QED BY <1>2, <1>3, <1>5

LEMMA InsertHandleStep == ASSUME TreeInv, NEW h \in Handles, InsertHandle(h) PROVE TreeInv'
<1>1. /\ Step /\ h \in slots \ Members /\ pc' = "insert" /\ sept' = Null /\ hndl_p' = h
      /\ pval' = pval /\ UNCHANGED <<min, max, left_down, right_down>>
      /\ UNCHANGED sn_reserve /\ UNCHANGED slotVars
  BY DEF InsertHandle, Registers, NoSearch, slotVars
<1>2. /\ pc = "idle" /\ stage = "live" /\ left_down = Null /\ stage' = stage
      /\ load' \in Seq(Handles) /\ ops' \in Nat
      /\ UNCHANGED <<septVars, root_sept, left_sept>> /\ UNCHANGED <<used, hn, root_sept>>
  BY <1>1, StepFacts
<1>3. UNCHANGED treeVars
  BY <1>1, <1>2 DEF treeVars
<1>4. FillInv'
  BY <1>2, SameFill DEF TreeInv
<1>5. Members' = Members /\ slots' = slots
  BY <1>1, <1>2 DEF Members, slotVars
<1>6. OpInv'
  BY <1>1, <1>2, <1>5 DEF OpInv, SearchInv, UpInv, SuccInv, FindInv, FindsMembers
<1>7. pval' \in Int /\ min' \in Int /\ max' \in Int
  BY <1>1 DEF TreeInv, TypeOK
<1> QED BY <1>1, <1>2, <1>3, <1>4, <1>6, <1>7, QuietStep DEF PCs

LEMMA RemoveHandleStep == ASSUME TreeInv, NEW h \in Handles, RemoveHandle(h) PROVE TreeInv'
<1>1. Step /\ UNCHANGED sn_reserve /\ UNCHANGED slotVars
  BY DEF RemoveHandle, slotVars
<1>2. /\ pc = "idle" /\ stage = "live" /\ left_down = Null /\ stage' = stage
      /\ load' \in Seq(Handles) /\ ops' \in Nat
      /\ UNCHANGED <<septVars, root_sept, left_sept>> /\ UNCHANGED <<used, hn, root_sept>>
  BY <1>1, StepFacts
<1>3. UNCHANGED treeVars
  BY <1>1, <1>2 DEF treeVars
<1>4. FillInv'
  BY <1>2, SameFill DEF TreeInv
<1>5. /\ pc' \in {"idle", "remove"} /\ (pc' = "remove" => hndl_p' = h)
      /\ sept' \in Septs \cup {Null} /\ hndl_p' \in Handles \cup {NoHandle}
      /\ pval' \in Int /\ min' \in Int /\ max' \in Int /\ UNCHANGED <<left_down, right_down>>
  <2>1. CASE is_queued(h)
    <3>1. pc' = "remove" /\ sept' = Null /\ hndl_p' = h /\ pval' = pval
          /\ UNCHANGED <<min, max, left_down, right_down>>
      BY <2>1 DEF RemoveHandle, Registers, NoSearch
    <3> QED BY <3>1 DEF TreeInv, TypeOK
  <2>2. CASE ~is_queued(h)
    <3>1. UNCHANGED opVars
      BY <2>2 DEF RemoveHandle
    <3> QED BY <1>2, <3>1 DEF opVars, TreeInv, TypeOK
  <2> QED BY <2>1, <2>2
<1>6. OpInv'
  BY <1>2, <1>5 DEF OpInv, SearchInv, UpInv, SuccInv, FindInv, FindsMembers
<1> QED BY <1>1, <1>2, <1>3, <1>4, <1>5, <1>6, QuietStep DEF PCs

LEMMA FindKeyStep == ASSUME TreeInv, NEW key \in Range(Key), FindKey(key) PROVE TreeInv'
<1>1. /\ Step /\ pc' = "find" /\ sept' = root_sept /\ hndl_p' = NoHandle
      /\ pval' = key /\ UNCHANGED <<min, max, left_down, right_down>>
      /\ UNCHANGED sn_reserve /\ UNCHANGED slotVars
  BY DEF FindKey, NoSearch, slotVars
<1>2. /\ pc = "idle" /\ stage = "live" /\ left_down = Null /\ stage' = stage
      /\ load' \in Seq(Handles) /\ ops' \in Nat
      /\ UNCHANGED <<septVars, root_sept, left_sept>> /\ UNCHANGED <<used, hn, root_sept>>
  BY <1>1, StepFacts
<1>3. UNCHANGED treeVars
  BY <1>1, <1>2 DEF treeVars
<1>4. FillInv'
  BY <1>2, SameFill DEF TreeInv
<1>5. IF root_sept = Null THEN used = {}
      ELSE root_sept \in used /\ lo[root_sept] = NoHandle /\ hi[root_sept] = NoHandle
  <2>1. UpTo(root_sept) = root_sept
    BY <1>2 DEF UpTo, Linking
  <2> QED BY <2>1 DEF TreeInv, ShapeInv, RootAgrees
<1>6. lo' = lo /\ hi' = hi /\ used' = used
  BY <1>2 DEF septVars
<1>7. OpInv'
  <2>1. FindInv'
    BY <1>1, <1>5, <1>6 DEF FindInv
  <2> QED BY <1>1, <1>2, <2>1 DEF OpInv, SearchInv, UpInv, SuccInv, FindsMembers
<1>8. pval' \in Int
  BY <1>1, OrderAssumption DEF Range
<1>9. min' \in Int /\ max' \in Int /\ sept' \in Septs \cup {Null}
  BY <1>1 DEF TreeInv, TypeOK
<1> QED BY <1>1, <1>2, <1>3, <1>4, <1>7, <1>8, <1>9, QuietStep DEF PCs

LEMMA DestroyStep == ASSUME TreeInv, Destroy PROVE TreeInv'
<1> USE DEF TreeInv
<1>1. /\ pc = "idle" /\ stage # "gone" /\ UNCHANGED <<slots, load, ops, septVars, root_sept, left_sept>>
  BY DEF Destroy
<1>2. load' \in Seq(Handles) /\ ops' \in Nat /\ left_down = Null /\ UNCHANGED <<used, hn, root_sept>>
  BY <1>1 DEF TypeOK, septVars, OpInv
<1>3. FillInv'
  BY <1>1, <1>2, SameFill
<1>4. CASE left_sept # Null
  <2>1. /\ pc' = "remove" /\ sept' = Null /\ hndl_p' = hn[left_sept][1] /\ pval' = pval
        /\ UNCHANGED <<min, max, left_down, right_down>> /\ stage' = "dying"
        /\ counts' = counts /\ sn_reserve' = sn_reserve
    BY <1>4 DEF Destroy, Registers, NoSearch
  <2>2. UNCHANGED treeVars /\ UNCHANGED slotVars
    BY <1>1, <2>1 DEF treeVars, slotVars
  <2>3. hndl_p' \in Handles
    <3>1. left_sept \in used
      BY <1>4 DEF ShapeInv, RootAgrees
    <3>2. Len(hn[left_sept]) \in Nat /\ Len(hn[left_sept]) >= 1
      BY <1>1, <3>1, HalfFacts, SeptFacts DEF FillInv, Filled, num_vals
    <3> QED BY <2>1, <3>1, <3>2, ValueFacts
  <2>4. OpInv'
    BY <1>2, <2>1, <2>3 DEF OpInv, SearchInv, UpInv, SuccInv, FindInv, FindsMembers
  <2>5. pval' \in Int /\ min' \in Int /\ max' \in Int
    BY <2>1 DEF TypeOK
  <2> QED BY <1>1, <1>2, <1>3, <2>1, <2>2, <2>3, <2>4, <2>5, QuietStep DEF PCs
<1>5. CASE left_sept = Null
  <2>1. /\ sn_reserve' = {} /\ counts' = [counts EXCEPT !.septs = 0] /\ stage' = "gone"
        /\ UNCHANGED opVars
    BY <1>5 DEF Destroy
  <2>2. /\ pc' = pc /\ sept' = sept /\ hndl_p' = hndl_p /\ pval' = pval /\ min' = min /\ max' = max
        /\ left_down' = left_down /\ right_down' = right_down
    BY <2>1 DEF opVars
  <2>3. used = {} /\ used' = {} /\ Elements' = {}
    <3>1. used = {}
      BY <1>5 DEF ShapeInv, RootAgrees
    <3>2. used' = {}
      BY <1>2, <3>1
    <3>3. Members' = {}
      BY <3>2 DEF Members
    <3> QED BY <1>1, <2>2, <3>1, <3>2, <3>3 DEF Elements
  <2>4. /\ counts' \in [alloced : Nat, septs : Nat, needed : Nat, next : Nat]
        /\ counts'.septs = 0 /\ counts'.alloced = counts.alloced
    BY <2>1 DEF TypeOK
  <2>5. TypeOK'
    <3>1. /\ pc' \in PCs /\ sept' \in Septs \cup {Null} /\ hndl_p' \in Handles \cup {NoHandle}
          /\ pval' \in Int /\ min' \in Int /\ max' \in Int /\ slots' \subseteq Handles
          /\ sn_reserve' \subseteq Septs
      BY <1>1, <2>1, <2>2 DEF TypeOK
    <3> QED BY <1>1, <1>2, <2>1, <2>2, <2>4, <3>1, SameTypes
  <2>6. SlotsInv'
    <3>1. IsFiniteSet({}) /\ Cardinality({}) = 0 /\ IsFiniteSet(slots)
          /\ counts.alloced = Cardinality(slots)
      BY FS_EmptySet DEF SlotsInv
    <3> QED BY <1>1, <2>1, <2>2, <2>3, <2>4, <3>1 DEF SlotsInv, Live
  <2>7. ShapeInv'
    BY <1>1, <2>2, SameTree DEF Linking
  <2>8. OpInv'
    BY <1>1, <1>2, <2>2, IdleOp
  <2> QED BY <1>3, <2>5, <2>6, <2>7, <2>8
<1> QED BY <1>4, <1>5

-----------------------------------------------------------------------------
(* Insertion: the way down.                                                *)

\* A sept moves between the tree and the reserve.
LEMMA AllocSept ==
    ASSUME TypeOK, SlotsInv, alloc_sept, NextSept \in sn_reserve, UNCHANGED <<counts, slots>>,
           stage # "gone", stage' # "gone", Elements' \subseteq slots
    PROVE  /\ SlotsInv' /\ used' \subseteq Septs /\ sn_reserve' \subseteq Septs
           /\ used' = used \cup {NextSept}
<1> DEFINE r == NextSept
<1>1. used' = used \cup {r} /\ sn_reserve' = sn_reserve \ {r} /\ r \in sn_reserve
  BY DEF alloc_sept
<1> HIDE DEF r
<1>2. /\ IsFiniteSet(used) /\ IsFiniteSet(sn_reserve) /\ used \cap sn_reserve = {}
      /\ used \subseteq Septs /\ sn_reserve \subseteq Septs
  BY DEF SlotsInv, TypeOK
<1>3. used' \cup sn_reserve' = used \cup sn_reserve /\ used' \cap sn_reserve' = {}
  BY <1>1, <1>2
<1>4. IsFiniteSet(used') /\ IsFiniteSet(sn_reserve')
  BY <1>1, <1>2, FS_AddElement, FS_RemoveElement
<1>5. SlotsInv'
  BY <1>3, <1>4 DEF SlotsInv, Live
<1> QED BY <1>1, <1>2, <1>5 DEF r

LEMMA ReleaseSepts ==
    ASSUME TypeOK, SlotsInv, NEW S \in SUBSET used, release_septs(S), UNCHANGED <<counts, slots>>,
           stage # "gone", stage' # "gone", Elements' \subseteq slots
    PROVE  SlotsInv' /\ used' \subseteq Septs /\ sn_reserve' \subseteq Septs /\ used' = used \ S
<1>1. used' = used \ S /\ sn_reserve' = sn_reserve \cup S
  BY DEF release_septs
<1>2. /\ IsFiniteSet(used) /\ IsFiniteSet(sn_reserve) /\ used \cap sn_reserve = {}
      /\ used \subseteq Septs /\ sn_reserve \subseteq Septs
  BY DEF SlotsInv, TypeOK
<1>3. used' \cup sn_reserve' = used \cup sn_reserve /\ used' \cap sn_reserve' = {}
      /\ used' \subseteq Septs /\ sn_reserve' \subseteq Septs
  BY <1>1, <1>2
<1>4. IsFiniteSet(S) /\ IsFiniteSet(used')
  BY <1>1, <1>2, FS_Subset
<1>5. IsFiniteSet(sn_reserve')
  BY ONLY <1>1, <1>2, <1>4, FS_Union
<1>6. SlotsInv'
  BY <1>3, <1>4, <1>5 DEF SlotsInv, Live
<1> QED BY <1>1, <1>3, <1>6

LEMMA AddressFacts ==
    ASSUME TypeOK
    PROVE  \A s \in Septs : /\ s \in Addresses /\ s # Null
                            /\ hn[s] \in Seq(Handles) /\ kid[s] \in Seq(Septs)
                            /\ lo[s] \in Handles \cup {NoHandle} /\ hi[s] \in Handles \cup {NoHandle}
                            /\ height[s] \in Nat /\ parent[s] \in Septs \cup {Null}
BY OrderAssumption DEF TypeOK, Addresses

LEMMA InsertQuiet == ASSUME TreeInv, insert, root_sept # Null PROVE TreeInv'
<1> USE DEF TreeInv
<1>1. /\ pc = "insert" /\ UNCHANGED slotVars /\ UNCHANGED <<load, ops, stage>>
      /\ pc' = "search" /\ sept' = root_sept /\ hndl_p' = hndl_p /\ pval' = pval
      /\ min' = 0 /\ max' = last_slot(root_sept) /\ UNCHANGED <<left_down, right_down>>
      /\ UNCHANGED treeVars
  BY DEF insert, At, envVars, SearchFrom, Registers
<1>2. left_down = Null /\ hndl_p \in slots \ Members /\ hndl_p \in Handles /\ stage # "gone"
  BY <1>1, NotGone DEF OpInv
<1>3. root_sept \in used /\ lo[root_sept] = NoHandle /\ hi[root_sept] = NoHandle
  <2>1. UpTo(root_sept) = root_sept
    BY <1>2 DEF UpTo, Linking
  <2> QED BY <2>1 DEF TreeInv, ShapeInv, RootAgrees
<1>4. Len(hn[root_sept]) \in Nat /\ Len(hn[root_sept]) <= N /\ N \in Nat
      /\ (is_leaf(root_sept) => max' = Len(hn[root_sept]) - 1)
      /\ (~is_leaf(root_sept) => max' = N - 1)
  BY <1>1, <1>3, SeptFacts, HalfFacts DEF last_slot, num_vals
<1>5. max' \in Int /\ UNCHANGED <<hn, lo, hi, kid, used, root_sept>> /\ slots' = slots /\ Members' = Members
  BY <1>1, <1>4 DEF treeVars, septVars, slotVars, Members
<1>6. SearchInv'
  BY <1>1, <1>2, <1>3, <1>4, <1>5, HalfFacts DEF SearchInv, After, Before, num_vals, is_leaf
<1>7. OpInv'
  BY <1>1, <1>2, <1>5, <1>6 DEF OpInv, UpInv, SuccInv, FindInv, FindsMembers
<1>8. FillInv'
  BY <1>1, <1>5, SameFill
<1>9. /\ load' \in Seq(Handles) /\ ops' \in Nat /\ stage' \in {"live", "dying"} /\ pval' \in Int
      /\ min' \in Int /\ sept' \in Septs \cup {Null} /\ hndl_p' \in Handles \cup {NoHandle}
  BY <1>1, <1>2 DEF TypeOK
<1> QED BY <1>1, <1>2, <1>5, <1>7, <1>8, <1>9, QuietStep DEF PCs

LEMMA InsertRoot == ASSUME TreeInv, insert, root_sept = Null PROVE TreeInv'
<1> USE DEF TreeInv
<1> DEFINE r == NextSept
<1>1. /\ pc = "insert" /\ UNCHANGED <<counts, slots>> /\ UNCHANGED <<load, ops, stage>>
      /\ pc' = "search" /\ sept' = r /\ hndl_p' = hndl_p /\ pval' = pval
      /\ min' = 0 /\ max' = -1 /\ UNCHANGED <<left_down, right_down>>
      /\ alloc_sept
      /\ hn' = [hn EXCEPT ![r] = << >>] /\ kid' = [kid EXCEPT ![r] = << >>]
      /\ parent' = [parent EXCEPT ![r] = Null]
      /\ root_sept' = r /\ left_sept' = r
      /\ lo' = [lo EXCEPT ![r] = NoHandle] /\ hi' = [hi EXCEPT ![r] = NoHandle]
      /\ height' = [height EXCEPT ![r] = 0] /\ hp' = hp
  BY DEF insert, At, envVars, slotVars, SearchFrom, Registers
<1>2. left_down = Null /\ hndl_p \in slots /\ hndl_p \in Handles /\ stage # "gone"
  BY <1>1, NotGone DEF OpInv
<1>3. r \in sn_reserve /\ r \in Septs /\ r \in Addresses /\ r # Null
  BY <1>1, ReserveForRoot, AddressFacts
<1> HIDE DEF r
<1>4. used = {} /\ used' = {r}
  <2>1. used = {}
    BY DEF ShapeInv, RootAgrees
  <2> QED BY <1>1, <2>1 DEF alloc_sept, r
<1>5. /\ hn'[r] = << >> /\ kid'[r] = << >> /\ parent'[r] = Null /\ lo'[r] = NoHandle
      /\ hi'[r] = NoHandle /\ height'[r] = 0
  BY <1>1, <1>3 DEF TypeOK
<1>6. Members' = {}
  BY <1>4, <1>5 DEF Members, Range
<1>7. SlotsInv' /\ sn_reserve' \subseteq Septs
  <2>1. Elements' \subseteq slots
    BY <1>1, <1>6 DEF Elements
  <2> QED BY <1>1, <1>2, <1>3, <2>1, AllocSept DEF r
<1>8. TypeOK'
  <2>1. /\ hn' \in [Addresses -> Seq(Handles)] /\ kid' \in [Addresses -> Seq(Septs)]
        /\ parent' \in [Addresses -> Septs \cup {Null}]
        /\ lo' \in [Addresses -> Handles \cup {NoHandle}] /\ hi' \in [Addresses -> Handles \cup {NoHandle}]
        /\ height' \in [Addresses -> Nat]
    BY <1>1, <1>3 DEF TypeOK
  <2> QED BY <1>1, <1>2, <1>3, <1>4, <1>7, <2>1 DEF TypeOK, PCs
<1>9. ~Linking'
  BY <1>1 DEF Linking
<1>10. ShapeInv'
  <2>1. RootAgrees'
    BY <1>1, <1>3, <1>4, <1>5, <1>9 DEF RootAgrees, UpTo, is_leaf
  <2>2. ASSUME NEW s \in used'
        PROVE  SeptInOrder(s)' /\ ChildrenAgree(s)' /\ s = root_sept'
    <3>1. hn'[s] = << >> /\ kid'[s] = << >> /\ height'[s] = 0 /\ s = root_sept'
      BY <1>1, <1>4, <1>5
    <3> QED BY <3>1, HalfFacts DEF SeptInOrder, ChildrenAgree, num_vals, is_leaf
  <2> QED BY <2>1, <2>2 DEF ShapeInv
<1>11. FillInv'
  BY <1>1, <1>2, <1>4, <1>5 DEF FillInv, is_leaf
<1>12. OpInv'
  <2>1. SearchInv'
    <3>1. /\ sept' \in used' /\ lo'[sept'] = NoHandle /\ hi'[sept'] = NoHandle /\ hn'[sept'] = << >>
          /\ min' = 0 /\ max' = -1
      BY <1>1, <1>4, <1>5
    <3>2. Len(hn'[sept']) = 0
      BY <3>1
    <3> QED BY <3>1, <3>2, HalfFacts DEF SearchInv, After, Before, num_vals
  <2> QED BY <1>1, <1>2, <1>6, <2>1 DEF OpInv, UpInv, SuccInv, FindInv, FindsMembers
<1> QED BY <1>7, <1>8, <1>10, <1>11, <1>12

\* Of an operation that goes on without changing anything but where it is.
LEMMA MoveStep ==
    ASSUME TreeInv, UNCHANGED treeVars, UNCHANGED slotVars, UNCHANGED envVars,
           pc \notin {"idle", "up"}, left_down' = Null, UNCHANGED right_down \/ right_down' = Null,
           pc' \in PCs, sept' \in Septs \cup {Null}, hndl_p' \in Handles \cup {NoHandle},
           pval' \in Int, min' \in Int, max' \in Int,
           pc' = "up" => hndl_p' \in slots, FillInv', OpInv'
    PROVE  TreeInv'
<1>1. load' = load /\ ops' = ops /\ stage' = stage /\ stage # "gone" /\ left_down = Null
  BY NotGone DEF envVars, TreeInv, OpInv
<1>2. load' \in Seq(Handles) /\ ops' \in Nat /\ stage' \in {"live", "dying"}
  BY <1>1 DEF TreeInv, TypeOK
<1>3. UNCHANGED <<left_down, right_down>> \/ (left_down' = Null /\ right_down' = Null)
  BY <1>1
<1> QED BY <1>1, <1>2, <1>3, QuietStep

LEMMA SearchStep == ASSUME TreeInv, search PROVE TreeInv'
<1> USE DEF TreeInv
<1> DEFINE i == (min + max) \div 2
           hs == hn[sept]
           key == Key[hndl_p]
           Higher == i >= Len(hs) \/ (i < Len(hs) /\ key < Key[hs[i + 1]])
<1>1. /\ pc = "search" /\ min <= max /\ UNCHANGED treeVars /\ UNCHANGED slotVars /\ UNCHANGED envVars
      /\ IF Higher
         THEN SearchFrom(sept, min, i - 1) /\ UNCHANGED <<left_down, right_down>>
         ELSE IF Key[hs[i + 1]] = key THEN Done
         ELSE SearchFrom(sept, i + 1, max) /\ UNCHANGED <<left_down, right_down>>
  BY DEF search, At
<1>2. /\ hndl_p \in Handles /\ hndl_p \in slots /\ hndl_p \notin Members /\ left_down = Null
      /\ sept \in used /\ After(lo[sept], hndl_p) /\ Before(hndl_p, hi[sept])
      /\ 0 <= min /\ min <= num_vals(sept) /\ min <= max + 1 /\ max < N
      /\ is_leaf(sept) => max < num_vals(sept)
      /\ \A j \in 1..num_vals(sept) :
           /\ j <= min => Key[hn[sept][j]] < Key[hndl_p]
           /\ j > max + 1 => Key[hndl_p] < Key[hn[sept][j]]
  BY <1>1 DEF OpInv, SearchInv
<1>3. min \in Int /\ max \in Int /\ pval \in Int /\ sept \in Septs \cup {Null} /\ key \in Int /\ N \in Nat
  BY <1>2, HalfFacts, OrderAssumption DEF TypeOK
<1>4. i \in Int /\ min <= i /\ i <= max
  BY <1>1, <1>3
<1>5. hs \in Seq(Handles) /\ Len(hs) \in Nat /\ Len(hs) <= N /\ num_vals(sept) = Len(hs)
  BY <1>2, SeptFacts DEF num_vals
<1>6. \A j \in 1..Len(hs) : hs[j] \in Handles /\ Key[hs[j]] \in Int
  BY <1>2, ValueFacts
<1>7. \A j, k \in 1..Len(hs) : j < k => Key[hs[j]] < Key[hs[k]]
  BY <1>2, ValueFacts
<1> HIDE DEF i, hs, key, Higher
<1>8. /\ UNCHANGED <<hn, lo, hi, kid, used, root_sept>> /\ slots' = slots
      /\ Members' = Members
  BY <1>1 DEF treeVars, septVars, slotVars, Members
<1>9. CASE Higher
  <2>1. /\ pc' = "search" /\ sept' = sept /\ hndl_p' = hndl_p /\ pval' = pval
        /\ min' = min /\ max' = i - 1 /\ UNCHANGED <<left_down, right_down>>
    BY <1>1, <1>9 DEF SearchFrom, Registers
  <2>2. ASSUME NEW j \in 1..Len(hs), j > (i - 1) + 1 PROVE key < Key[hs[j]]
    <3>1. i < Len(hs) /\ j >= i + 1 /\ i + 1 \in 1..Len(hs)
      BY <1>2, <1>3, <1>4, <1>5, <2>2
    <3>2. key < Key[hs[i + 1]]
      BY <1>4, <1>5, <1>9, <3>1 DEF Higher
    <3>3. CASE j = i + 1
      BY <3>2, <3>3
    <3>4. CASE j > i + 1
      BY <1>3, <1>6, <1>7, <3>1, <3>2, <3>4
    <3> QED BY <1>4, <3>1, <3>3, <3>4
  <2>3. min <= (i - 1) + 1 /\ i - 1 < N /\ (is_leaf(sept) => i - 1 < num_vals(sept))
    BY <1>2, <1>3, <1>4, <1>5
  <2>4. SearchInv'
    BY <1>2, <1>5, <1>8, <2>1, <2>2, <2>3 DEF SearchInv, After, Before, num_vals, is_leaf, hs, key
  <2>5. OpInv'
    BY <1>2, <1>8, <2>1, <2>4 DEF OpInv, UpInv, SuccInv, FindInv, FindsMembers
  <2>6. FillInv'
    BY <1>1, <1>2, <1>8, <2>1 DEF FillInv, Filled, num_vals, is_leaf
  <2> QED BY <1>1, <1>2, <1>3, <1>4, <2>1, <2>5, <2>6, MoveStep DEF PCs
<1>10. CASE ~Higher /\ Key[hs[i + 1]] = key
  <2>1. /\ pc' = "idle" /\ sept' = Null /\ hndl_p' = NoHandle /\ pval' = 0
        /\ min' = 0 /\ max' = 0 /\ left_down' = Null /\ right_down' = Null
    BY <1>1, <1>10 DEF Done
  <2>2. Len(hs) >= 1
    BY <1>2, <1>3, <1>4, <1>5, <1>10 DEF Higher
  <2>3. FillInv'
    <3>1. ASSUME NEW s \in used PROVE Filled(s)
      <4>1. Filled(s) \/ (s = sept /\ s = root_sept)
        BY <1>1 DEF FillInv
      <4> QED BY <1>5, <2>2, <4>1 DEF Filled
    <3>2. \A s \in used : Filled(s)' <=> Filled(s)
      BY <1>8 DEF Filled, num_vals
    <3> QED BY <1>8, <3>1, <3>2 DEF FillInv
  <2> QED BY <1>1, <2>1, <2>3, IdleOp, MoveStep DEF PCs
<1>11. CASE ~Higher /\ Key[hs[i + 1]] # key
  <2>1. /\ pc' = "search" /\ sept' = sept /\ hndl_p' = hndl_p /\ pval' = pval
        /\ min' = i + 1 /\ max' = max /\ UNCHANGED <<left_down, right_down>>
    BY <1>1, <1>11 DEF SearchFrom, Registers
  <2>2. i < Len(hs) /\ i + 1 \in 1..Len(hs)
    BY <1>2, <1>3, <1>4, <1>5, <1>11 DEF Higher
  <2>3. Key[hs[i + 1]] < key
    BY <1>3, <1>6, <1>11, <2>2 DEF Higher
  <2>4. ASSUME NEW j \in 1..Len(hs), j <= i + 1 PROVE Key[hs[j]] < key
    <3>1. CASE j = i + 1
      BY <2>3, <3>1
    <3>2. CASE j < i + 1
      BY <1>3, <1>6, <1>7, <2>2, <2>3, <3>2
    <3> QED BY <1>4, <2>4, <3>1, <3>2
  <2>5. 0 <= i + 1 /\ i + 1 <= num_vals(sept) /\ i + 1 <= max + 1
    BY <1>2, <1>3, <1>4, <1>5, <2>2
  <2>6. SearchInv'
    BY <1>2, <1>5, <1>8, <2>1, <2>4, <2>5 DEF SearchInv, After, Before, num_vals, is_leaf, hs, key
  <2>7. OpInv'
    BY <1>2, <1>8, <2>1, <2>6 DEF OpInv, UpInv, SuccInv, FindInv, FindsMembers
  <2>8. FillInv'
    BY <1>1, <1>2, <1>8, <2>1 DEF FillInv, Filled, num_vals, is_leaf
  <2> QED BY <1>1, <1>2, <1>3, <1>4, <2>1, <2>7, <2>8, MoveStep DEF PCs
<1> QED BY <1>9, <1>10, <1>11

LEMMA DescendStep == ASSUME TreeInv, descend PROVE TreeInv'
<1> USE DEF TreeInv
<1>1. /\ pc = "search" /\ min > max /\ UNCHANGED treeVars /\ UNCHANGED slotVars /\ UNCHANGED envVars
      /\ UNCHANGED <<left_down, right_down>>
  BY DEF descend, At
<1>2. /\ hndl_p \in Handles /\ hndl_p \in slots /\ hndl_p \notin Members /\ left_down = Null
      /\ sept \in used /\ After(lo[sept], hndl_p) /\ Before(hndl_p, hi[sept])
      /\ 0 <= min /\ min <= num_vals(sept) /\ min <= max + 1 /\ max < N
      /\ is_leaf(sept) => max < num_vals(sept)
      /\ \A j \in 1..num_vals(sept) :
           /\ j <= min => Key[hn[sept][j]] < Key[hndl_p]
           /\ j > max + 1 => Key[hndl_p] < Key[hn[sept][j]]
  BY <1>1 DEF OpInv, SearchInv
<1>3. min \in Int /\ max \in Int /\ pval \in Int /\ sept \in Septs /\ N \in Nat
  BY <1>2, HalfFacts, SeptFacts DEF TypeOK
<1>4. Len(hn[sept]) \in Nat /\ Len(hn[sept]) <= N /\ num_vals(sept) = Len(hn[sept])
  BY <1>2, SeptFacts DEF num_vals
<1>5. min = max + 1 /\ max + 2 = min + 1 /\ min + 1 \in 1..(num_vals(sept) + 1)
  BY <1>1, <1>2, <1>3, <1>4
<1>6. /\ UNCHANGED <<hn, lo, hi, kid, used, root_sept>> /\ slots' = slots
      /\ Members' = Members
  BY <1>1 DEF treeVars, septVars, slotVars, Members
<1>7. CASE is_leaf(sept)
  <2>1. /\ pc' = "up" /\ sept' = sept /\ hndl_p' = hndl_p /\ pval' = pval /\ min' = 0 /\ max' = 0
    BY <1>7 DEF descend, Registers
  <2>2. ASSUME NEW j \in 1..num_vals(sept)
        PROVE  IF j < min + 1 THEN Key[hn[sept][j]] < Key[hndl_p]
                              ELSE Key[hndl_p] < Key[hn[sept][j]]
    BY <1>2, <1>3, <1>4, <1>5
  <2>3. Place(sept, min + 1)
    BY <1>2, <1>5, <2>2 DEF Place
  <2>4. UpInv'
    <3>1. PICK p \in 1..(num_vals(sept) + 1) : Place(sept, p)
      BY <1>5, <2>3
    <3>2. hn' = hn /\ lo' = lo /\ hi' = hi /\ sept' = sept /\ hndl_p' = hndl_p /\ kid' = kid
          /\ used' = used
      BY <1>6, <2>1
    <3>3. Place(sept, p)' /\ p \in 1..(num_vals(sept)' + 1)
      BY <3>1, <3>2 DEF Place, num_vals, After, Before
    <3> QED BY <1>1, <1>2, <1>6, <1>7, <2>1, <3>2, <3>3 DEF UpInv, is_leaf, num_vals
  <2>5. OpInv'
    BY <1>2, <1>6, <2>1, <2>4 DEF OpInv, SearchInv, SuccInv, FindInv, FindsMembers
  <2>6. FillInv'
    BY <1>1, <1>2, <1>6, <2>1 DEF FillInv, Filled, num_vals, is_leaf
  <2> QED BY <1>1, <1>2, <1>3, <2>1, <2>5, <2>6, MoveStep DEF PCs
<1>8. CASE ~is_leaf(sept)
  <2> DEFINE k == kid[sept][min + 1]
  <2>1. /\ pc' = "search" /\ sept' = k /\ hndl_p' = hndl_p /\ pval' = pval
        /\ min' = 0 /\ max' = last_slot(k)
    BY <1>5, <1>8 DEF descend, SearchFrom, Registers
  <2>2. Len(kid[sept]) = Len(hn[sept]) + 1 /\ min + 1 \in 1..Len(kid[sept])
    BY <1>2, <1>4, <1>5, <1>8, SeptFacts DEF is_leaf
  <2>3. k \in used /\ lo[k] = LeftOf(sept, min + 1) /\ hi[k] = RightOf(sept, min + 1)
    <3>1. UpTo(k) = k
      BY <1>1 DEF UpTo, Linking
    <3> QED BY <1>2, <2>2, <3>1, KidFacts
  <2> HIDE DEF k
  <2>4. Len(hn[k]) \in Nat /\ Len(hn[k]) <= N /\ k \in Septs
        /\ (is_leaf(k) => max' = Len(hn[k]) - 1) /\ (~is_leaf(k) => max' = N - 1)
    BY <1>3, <2>1, <2>3, SeptFacts DEF last_slot, num_vals
  <2>5. After(lo[k], hndl_p)
    <3>1. CASE min = 0
      BY <1>2, <2>3, <3>1 DEF LeftOf
    <3>2. CASE min # 0
      <4>1. min \in 1..num_vals(sept) /\ lo[k] = hn[sept][min]
        BY <1>2, <1>3, <1>4, <2>3, <3>2 DEF LeftOf
      <4> QED BY <1>2, <1>3, <4>1 DEF After
    <3> QED BY <3>1, <3>2
  <2>6. Before(hndl_p, hi[k])
    <3>1. CASE min = num_vals(sept)
      BY <1>2, <1>4, <2>2, <2>3, <3>1 DEF RightOf
    <3>2. CASE min # num_vals(sept)
      <4>1. min + 1 \in 1..num_vals(sept) /\ hi[k] = hn[sept][min + 1] /\ min + 1 > max + 1
        BY <1>1, <1>2, <1>3, <1>4, <2>2, <2>3, <3>2 DEF RightOf
      <4> QED BY <1>2, <4>1 DEF Before
    <3> QED BY <3>1, <3>2
  <2>7. SearchInv'
    BY <1>2, <1>3, <1>6, <2>1, <2>3, <2>4, <2>5, <2>6
    DEF SearchInv, After, Before, num_vals, is_leaf
  <2>8. OpInv'
    BY <1>1, <1>2, <1>6, <2>1, <2>7 DEF OpInv, UpInv, SuccInv, FindInv, FindsMembers
  <2>9. FillInv'
    BY <1>1, <1>6, <1>8 DEF FillInv, Filled, num_vals, is_leaf
  <2> QED BY <1>1, <1>2, <1>3, <2>1, <2>4, <2>8, <2>9, MoveStep DEF PCs
<1> QED BY <1>7, <1>8

-----------------------------------------------------------------------------
(* Finding, and the way to a successor.                                    *)

LEMMA PositionFacts ==
    ASSUME NEW seq, NEW x, \E i \in 1..Len(seq) : seq[i] = x
    PROVE  Position(seq, x) \in 1..Len(seq) /\ seq[Position(seq, x)] = x
BY DEF Position

LEMMA FirstFromFacts ==
    ASSUME NEW hs \in Seq(Handles), NEW key \in Int
    PROVE  /\ FirstFrom(hs, key) \in 1..(Len(hs) + 1)
           /\ FirstFrom(hs, key) <= Len(hs) => Key[hs[FirstFrom(hs, key)]] >= key
           /\ \A k \in 1..(FirstFrom(hs, key) - 1) : Key[hs[k]] < key
<1> DEFINE T == {j \in 1..(Len(hs) + 1) : j <= Len(hs) => Key[hs[j]] >= key}
<1>1. Len(hs) \in Nat /\ \A k \in 1..Len(hs) : Key[hs[k]] \in Int
  BY OrderAssumption
<1>2. Len(hs) + 1 \in T /\ T \subseteq Nat
  BY <1>1
<1>3. PICK i \in T : \A j \in T : i <= j
  BY <1>2, LeastNat
<1>4. ASSUME NEW k \in 1..(i - 1) PROVE Key[hs[k]] < key
  <2>1. i \in 1..(Len(hs) + 1)
    BY <1>3
  <2>2. k \in 1..Len(hs) /\ k \in 1..(Len(hs) + 1) /\ ~(i <= k)
    BY <1>1, <2>1
  <2>3. k \notin T
    BY <1>3, <2>2
  <2> QED BY <1>1, <2>2, <2>3
<1>5. \E j \in 1..(Len(hs) + 1) :
        /\ j <= Len(hs) => Key[hs[j]] >= key
        /\ \A k \in 1..(j - 1) : Key[hs[k]] < key
  BY <1>3, <1>4
<1> QED BY <1>5 DEF FirstFrom

\* Where a member is.
LEMMA MemberSept ==
    ASSUME TypeOK, ShapeInv, NEW h \in Members
    PROVE  /\ hp[h] \in used /\ h \in Handles
           /\ Position(hn[hp[h]], h) \in 1..Len(hn[hp[h]])
           /\ hn[hp[h]][Position(hn[hp[h]], h)] = h
<1>1. PICK s \in used : \E i \in 1..Len(hn[s]) : hn[s][i] = h
  BY MemberFacts
<1>2. PICK i \in 1..Len(hn[s]) : hn[s][i] = h
  BY <1>1
<1>3. hp[h] = s /\ h \in Handles
  BY <1>2, ValueFacts
<1> QED BY <1>1, <1>3, PositionFacts

\* No two members have the same key.
LEMMA UniqueKeys ==
    ASSUME TypeOK, ShapeInv, ~Linking, NEW a \in Members, NEW b \in Members, Key[a] = Key[b]
    PROVE  a = b
<1> DEFINE s == hp[a]
           q == hp[b]
           i == Position(hn[s], a)
           j == Position(hn[q], b)
<1>1. /\ s \in used /\ i \in 1..Len(hn[s]) /\ hn[s][i] = a /\ a \in Handles
      /\ q \in used /\ j \in 1..Len(hn[q]) /\ hn[q][j] = b /\ b \in Handles
  BY MemberSept
<1> HIDE DEF s, q, i, j
<1>2. /\ After(lo[s], a) /\ Before(a, hi[s]) /\ After(lo[q], b) /\ Before(b, hi[q])
      /\ Key[a] \in Int
  BY <1>1, ValueFacts
<1>3. CASE s # q
  <2>1. height[q] < height[s]
    BY <1>1, <1>2, <1>3, Separation DEF After, Before
  <2>2. height[s] < height[q]
    BY <1>1, <1>2, <1>3, Separation DEF After, Before
  <2>3. height[s] \in Nat /\ height[q] \in Nat
    BY <1>1, SeptFacts
  <2> QED BY <2>1, <2>2, <2>3
<1>4. CASE s = q /\ i # j
  <2>1. \A k \in 1..Len(hn[s]) : (i < k => Key[a] < Key[hn[s][k]]) /\ (k < i => Key[hn[s][k]] < Key[a])
    BY <1>1, ValueFacts
  <2>2. i < j \/ j < i
    BY <1>1, <1>4
  <2> QED BY <1>1, <1>2, <1>4, <2>1, <2>2
<1> QED BY <1>1, <1>3, <1>4

LEMMA FindStep == ASSUME TreeInv, find PROVE TreeInv'
<1> USE DEF TreeInv
<1> DEFINE hs == hn[sept]
           i == FirstFrom(hs, pval)
<1>1. /\ pc = "find" /\ UNCHANGED slotVars /\ UNCHANGED envVars
      /\ UNCHANGED <<min, max, left_down, right_down>> /\ UNCHANGED treeVars
  BY DEF find, At, NoSearch
<1>2. /\ UNCHANGED <<hn, lo, hi, kid, used, root_sept>> /\ slots' = slots
      /\ Members' = Members /\ ~Linking /\ left_down = Null
  BY <1>1 DEF treeVars, septVars, slotVars, Members, Linking, OpInv
<1>3. FillInv'
  BY <1>1, <1>2, SameFill
<1>4. pval \in Int /\ min \in Int /\ max \in Int
  BY DEF TypeOK
<1>5. ASSUME pc' = "found", sept' = Null, hndl_p' \in Handles \cup {NoHandle}, pval' = pval,
             {h \in Members : Key[h] = pval} = {hndl_p'} \ {NoHandle}
      PROVE  TreeInv'
  <2>1. OpInv'
    BY <1>1, <1>2, <1>5 DEF OpInv, SearchInv, UpInv, SuccInv, FindInv, FindsMembers
  <2> QED BY <1>1, <1>2, <1>3, <1>4, <1>5, <2>1, MoveStep DEF PCs
<1>6. CASE sept = Null
  <2>1. pc' = "found" /\ sept' = Null /\ hndl_p' = NoHandle /\ pval' = pval
    BY <1>6 DEF find, Registers
  <2>2. Members = {}
    BY <1>1, <1>6 DEF OpInv, FindInv, Members
  <2> QED BY <1>5, <2>1, <2>2
<1>7. CASE sept # Null
  <2>1. /\ sept \in used
        /\ lo[sept] = NoHandle \/ Key[lo[sept]] < pval
        /\ hi[sept] = NoHandle \/ pval < Key[hi[sept]]
    BY <1>1, <1>7 DEF OpInv, FindInv
  <2>2. hs \in Seq(Handles) /\ Len(hs) \in Nat
    BY <2>1, SeptFacts
  <2>3. /\ i \in 1..(Len(hs) + 1) /\ (i <= Len(hs) => Key[hs[i]] >= pval)
        /\ \A k \in 1..(i - 1) : Key[hs[k]] < pval
    BY <1>4, <2>2, FirstFromFacts
  <2> HIDE DEF i
  <2>4. CASE i <= Len(hs) /\ Key[hs[i]] = pval
    <3>1. pc' = "found" /\ sept' = Null /\ hndl_p' = hs[i] /\ pval' = pval
      BY <1>7, <2>4 DEF find, Registers, i
    <3>2. i \in 1..Len(hs) /\ hs[i] \in Members /\ hs[i] \in Handles /\ hs[i] # NoHandle
      BY <2>1, <2>3, <2>4, MemberFacts, ValueFacts, OrderAssumption
    <3>3. {h \in Members : Key[h] = pval} = {hs[i]}
      BY <1>2, <2>4, <3>2, UniqueKeys
    <3> QED BY <1>5, <3>1, <3>2, <3>3
  <2>5. CASE ~(i <= Len(hs) /\ Key[hs[i]] = pval) /\ is_leaf(sept)
    <3>1. pc' = "found" /\ sept' = Null /\ hndl_p' = NoHandle /\ pval' = pval
      BY <1>7, <2>5 DEF find, Registers, i
    <3>2. ASSUME NEW h \in Members, Key[h] = pval PROVE FALSE
      <4>1. PICK q \in used : \E j \in 1..Len(hn[q]) : hn[q][j] = h
        BY MemberFacts
      <4>2. PICK j \in 1..Len(hn[q]) : hn[q][j] = h
        BY <4>1
      <4>3. CASE q # sept
        <5>1. After(lo[sept], h) /\ Before(h, hi[sept])
          BY <2>1, <3>2 DEF After, Before
        <5>2. height[q] < height[sept]
          BY <1>2, <2>1, <4>2, <4>3, <5>1, Separation
        <5> QED BY <2>1, <2>5, <5>2, SeptFacts DEF is_leaf
      <4>4. CASE q = sept
        <5>1. j \in 1..Len(hs) /\ Key[hs[j]] = pval
          BY <3>2, <4>2, <4>4
        <5>2. ~(j < i)
          BY <1>4, <2>3, <5>1
        <5>3. i < j
          BY <2>3, <2>5, <5>1, <5>2
        <5>4. i \in 1..Len(hs) /\ Key[hs[i]] < Key[hs[j]]
          BY <2>1, <2>3, <5>1, <5>3, ValueFacts
        <5>5. Key[hs[i]] \in Int
          BY <2>1, <5>4, ValueFacts
        <5> QED BY <1>4, <2>3, <5>1, <5>4, <5>5
      <4> QED BY <4>3, <4>4
    <3>3. {h \in Members : Key[h] = pval} = {}
      BY <3>2
    <3> QED BY <1>5, <3>1, <3>3
  <2>6. CASE ~(i <= Len(hs) /\ Key[hs[i]] = pval) /\ ~is_leaf(sept)
    <3> DEFINE k == kid[sept][i]
    <3>1. pc' = "find" /\ sept' = k /\ hndl_p' = NoHandle /\ pval' = pval
      BY <1>7, <2>6 DEF find, Registers, i
    <3>2. Len(kid[sept]) = Len(hs) + 1
      BY <2>1, <2>6, SeptFacts DEF is_leaf
    <3>3. k \in used /\ lo[k] = LeftOf(sept, i) /\ hi[k] = RightOf(sept, i)
      <4>1. UpTo(k) = k
        BY <1>2 DEF UpTo
      <4> QED BY <2>1, <2>3, <3>2, <4>1, KidFacts
    <3> HIDE DEF k
    <3>4. lo[k] = NoHandle \/ Key[lo[k]] < pval
      <4>1. CASE i = 1
        BY <2>1, <3>3, <4>1 DEF LeftOf
      <4>2. CASE i # 1
        <5>1. i - 1 \in 1..(i - 1)
          BY <2>3, <4>2
        <5> QED BY <2>3, <3>3, <4>2, <5>1 DEF LeftOf
      <4> QED BY <4>1, <4>2
    <3>5. hi[k] = NoHandle \/ pval < Key[hi[k]]
      <4>1. CASE i = Len(hs) + 1
        BY <2>1, <3>2, <3>3, <4>1 DEF RightOf
      <4>2. CASE i # Len(hs) + 1
        <5>1. i \in 1..Len(hs) /\ hi[k] = hs[i]
          BY <2>2, <2>3, <3>2, <3>3, <4>2 DEF RightOf
        <5>2. Key[hs[i]] \in Int
          BY <2>1, <5>1, ValueFacts
        <5> QED BY <1>4, <2>3, <2>6, <5>1, <5>2
      <4> QED BY <4>1, <4>2
    <3>6. k \in Septs /\ k # Null
      BY <3>3, SeptFacts
    <3>7. FindInv'
      BY <1>2, <3>1, <3>3, <3>4, <3>5, <3>6 DEF FindInv
    <3>8. OpInv'
      BY <1>1, <1>2, <3>1, <3>7 DEF OpInv, SearchInv, UpInv, SuccInv, FindsMembers
    <3> QED BY <1>1, <1>2, <1>3, <1>4, <3>1, <3>6, <3>8, MoveStep DEF PCs
  <2> QED BY <2>4, <2>5, <2>6
<1> QED BY <1>6, <1>7

LEMMA FoundGetStep == ASSUME TreeInv, found_get PROVE TreeInv'
<1> USE DEF TreeInv
<1>1. /\ pc = "found" /\ UNCHANGED slotVars /\ UNCHANGED envVars /\ UNCHANGED treeVars
      /\ pc' = "idle" /\ sept' = Null /\ hndl_p' = NoHandle /\ pval' = 0
      /\ min' = 0 /\ max' = 0 /\ left_down' = Null /\ right_down' = Null
  BY DEF found_get, At, Done
<1>2. FillInv'
  BY <1>1, SameFill DEF treeVars, septVars
<1> QED BY <1>1, <1>2, IdleOp, MoveStep DEF PCs

LEMMA FoundRemoveStep == ASSUME TreeInv, found_remove PROVE TreeInv'
<1> USE DEF TreeInv
<1>1. /\ pc = "found" /\ UNCHANGED slotVars /\ UNCHANGED envVars /\ UNCHANGED treeVars
      /\ pc' = "remove" /\ sept' = Null /\ hndl_p' = hndl_p /\ pval' = pval
      /\ UNCHANGED <<min, max, left_down, right_down>> /\ hndl_p # NoHandle
  BY DEF found_remove, At, Registers, NoSearch
<1>2. FillInv'
  BY <1>1, SameFill DEF treeVars, septVars
<1>3. hndl_p' \in Handles /\ pval' \in Int /\ min' \in Int /\ max' \in Int /\ left_down' = Null
  BY <1>1 DEF TypeOK, OpInv
<1>4. OpInv'
  BY <1>1, <1>3 DEF OpInv, SearchInv, UpInv, SuccInv, FindInv, FindsMembers
<1> QED BY <1>1, <1>2, <1>3, <1>4, MoveStep DEF PCs

LEMMA SuccDownStep == ASSUME TreeInv, succ_down PROVE TreeInv'
<1> USE DEF TreeInv
<1> DEFINE k == kid[sept][1]
<1>1. /\ pc = "succ" /\ UNCHANGED slotVars /\ UNCHANGED envVars /\ UNCHANGED treeVars
      /\ ~is_leaf(sept)
      /\ pc' = "succ" /\ sept' = k /\ hndl_p' = hndl_p /\ pval' = pval
      /\ UNCHANGED <<min, max, left_down, right_down>>
  BY DEF succ_down, At, Registers, NoSearch
<1>2. FillInv'
  BY <1>1, SameFill DEF treeVars, septVars
<1>3. /\ hndl_p \in Handles /\ hp[hndl_p] \in used /\ ~is_leaf(hp[hndl_p])
      /\ \E i \in 1..num_vals(hp[hndl_p]) : hn[hp[hndl_p]][i] = hndl_p
      /\ sept \in used /\ lo[sept] = hndl_p /\ height[sept] < height[hp[hndl_p]]
  BY <1>1 DEF OpInv, SuccInv
<1>4. 1 \in 1..Len(kid[sept])
  BY <1>1, <1>3, SeptFacts DEF is_leaf
<1>5. k \in used /\ lo[k] = lo[sept] /\ height[sept] = height[k] + 1
  BY <1>3, <1>4, KidFacts DEF LeftOf
<1> HIDE DEF k
<1>6. height[k] < height[hp[hndl_p]] /\ k \in Septs
  <2>1. height[k] \in Nat /\ height[hp[hndl_p]] \in Nat /\ k \in Septs
    BY <1>3, <1>5, SeptFacts
  <2> QED BY <1>3, <1>5, <2>1
<1>7. /\ hn' = hn /\ hp' = hp /\ kid' = kid /\ lo' = lo /\ height' = height /\ used' = used
  BY <1>1 DEF treeVars, septVars
<1>8. SuccInv'
  BY <1>1, <1>3, <1>5, <1>6, <1>7 DEF SuccInv, is_leaf, num_vals
<1>9. pval' \in Int /\ min' \in Int /\ max' \in Int /\ left_down' = Null
  BY <1>1 DEF TypeOK, OpInv
<1>10. OpInv'
  BY <1>1, <1>3, <1>8, <1>9 DEF OpInv, SearchInv, UpInv, FindInv, FindsMembers
<1> QED BY <1>1, <1>2, <1>3, <1>6, <1>9, <1>10, MoveStep DEF PCs

\* remove() of a handle that is no member, or of one that an inner sept holds.
LEMMA RemoveQuiet ==
    ASSUME TreeInv, remove, hndl_p \notin Members \/ ~is_leaf(hp[hndl_p])
    PROVE  TreeInv'
<1> USE DEF TreeInv
<1>1. pc = "remove" /\ UNCHANGED slotVars /\ UNCHANGED envVars
  BY DEF remove, At
<1>2. CASE hndl_p \notin Members
  <2>1. /\ pc' = "idle" /\ sept' = Null /\ hndl_p' = NoHandle /\ pval' = 0
        /\ min' = 0 /\ max' = 0 /\ left_down' = Null /\ right_down' = Null /\ UNCHANGED treeVars
    BY <1>2 DEF remove, Done
  <2>2. FillInv'
    BY <1>1, <2>1, SameFill DEF treeVars, septVars
  <2> QED BY <1>1, <2>1, <2>2, IdleOp, MoveStep DEF PCs
<1>3. CASE hndl_p \in Members /\ ~is_leaf(hp[hndl_p])
  <2> DEFINE s == hp[hndl_p]
             i == Position(hn[s], hndl_p)
             k == kid[s][i + 1]
  <2>1. /\ pc' = "succ" /\ sept' = k /\ hndl_p' = hndl_p /\ pval' = pval
        /\ UNCHANGED <<min, max, left_down, right_down>> /\ UNCHANGED treeVars
    BY <1>3 DEF remove, Registers, NoSearch
  <2>2. FillInv'
    BY <1>1, <2>1, SameFill DEF treeVars, septVars
  <2>3. s \in used /\ hndl_p \in Handles /\ i \in 1..Len(hn[s]) /\ hn[s][i] = hndl_p
    BY <1>3, MemberSept
  <2>4. ~is_leaf(s)
    BY <1>3
  <2> HIDE DEF i, s
  <2>5. Len(kid[s]) = Len(hn[s]) + 1 /\ Len(hn[s]) \in Nat
    BY <2>3, <2>4, SeptFacts DEF is_leaf
  <2>6. i + 1 \in 1..Len(kid[s]) /\ (i + 1) - 1 = i /\ i + 1 # 1
    BY <2>3, <2>5
  <2>7. k \in used /\ lo[k] = hndl_p /\ height[s] = height[k] + 1
    BY <2>3, <2>6, KidFacts DEF LeftOf
  <2> HIDE DEF k
  <2>8. k \in Septs /\ height[k] < height[s]
    BY <2>7, SeptFacts
  <2>9. /\ hn' = hn /\ hp' = hp /\ kid' = kid /\ lo' = lo /\ height' = height /\ used' = used
    BY <2>1 DEF treeVars, septVars
  <2>10. SuccInv'
    BY <2>1, <2>3, <2>4, <2>7, <2>8, <2>9 DEF SuccInv, is_leaf, num_vals, s
  <2>11. pval' \in Int /\ min' \in Int /\ max' \in Int /\ left_down' = Null
    BY <1>1, <2>1 DEF TypeOK, OpInv
  <2>12. OpInv'
    BY <2>1, <2>3, <2>10, <2>11 DEF OpInv, SearchInv, UpInv, FindInv, FindsMembers
  <2> QED BY <1>1, <2>1, <2>2, <2>3, <2>8, <2>11, <2>12, MoveStep DEF PCs
<1> QED BY <1>2, <1>3

\* repop_node() at a root that is not empty.
LEMMA RepopRootQuiet == ASSUME TreeInv, repop_root, hn[sept] # << >> PROVE TreeInv'
<1> USE DEF TreeInv
<1>1. /\ pc = "repop" /\ parent[sept] = Null /\ UNCHANGED slotVars /\ UNCHANGED envVars
      /\ UNCHANGED treeVars
      /\ pc' = "idle" /\ sept' = Null /\ hndl_p' = NoHandle /\ pval' = 0
      /\ min' = 0 /\ max' = 0 /\ left_down' = Null /\ right_down' = Null
  BY DEF repop_root, At, Done
<1>2. sept \in used /\ sept = root_sept
  <2>1. sept \in used /\ ~Linking
    BY <1>1 DEF OpInv, Linking
  <2>2. Null \notin used
    BY SeptFacts
  <2> QED BY <1>1, <2>1, <2>2, ParentFacts
<1>3. Len(hn[sept]) \in Nat /\ Len(hn[sept]) # 0
  BY <1>2, SeptFacts
<1>4. FillInv'
  <2>1. ASSUME NEW s \in used PROVE Filled(s)
    <3>1. Filled(s) \/ s = sept
      BY <1>1 DEF FillInv
    <3> QED BY <1>2, <1>3, <3>1 DEF Filled, num_vals
  <2>2. /\ used' = used /\ \A s \in used : Filled(s)' <=> Filled(s)
    BY <1>1 DEF treeVars, septVars, Filled, num_vals
  <2> QED BY <2>1, <2>2 DEF FillInv
<1> QED BY <1>1, <1>4, IdleOp, MoveStep DEF PCs

-----------------------------------------------------------------------------
(* Values with children between them.                                      *)

\* The values H are in order, between a and b.
Between(H, a, b) ==
    /\ \A i, j \in 1..Len(H) : i < j => Key[H[i]] < Key[H[j]]
    /\ \A i \in 1..Len(H) : After(a, H[i]) /\ Before(H[i], b)

\* The children K stand between them, at height ht - 1.
Spans(H, K, a, b, ht) ==
    /\ Between(H, a, b)
    /\ ht = 0 => K = << >>
    /\ ht # 0 =>
         /\ Len(K) = Len(H) + 1
         /\ \A j \in 1..Len(K) :
              /\ K[j] \in used /\ height[K[j]] = ht - 1
              /\ lo[K[j]] = (IF j = 1 THEN a ELSE H[j - 1])
              /\ hi[K[j]] = (IF j = Len(K) THEN b ELSE H[j])

\* The part of C up to its value at t, and the part after it.
IsLow(H, K, C, CK, t, ht) ==
    /\ H \in Seq(Handles) /\ K \in Seq(Septs)
    /\ Len(H) = t - 1 /\ \A j \in 1..(t - 1) : H[j] = C[j]
    /\ ht = 0 => K = << >>
    /\ ht # 0 => Len(K) = t /\ \A j \in 1..t : K[j] = CK[j]

IsHigh(H, K, C, CK, t, ht) ==
    /\ H \in Seq(Handles) /\ K \in Seq(Septs)
    /\ Len(H) = Len(C) - t /\ \A j \in 1..(Len(C) - t) : H[j] = C[t + j]
    /\ ht = 0 => K = << >>
    /\ ht # 0 => Len(K) = Len(CK) - t /\ \A j \in 1..(Len(CK) - t) : K[j] = CK[t + j]

LEMMA LowSpan ==
    ASSUME NEW C \in Seq(Handles), NEW CK \in Seq(Septs), NEW a, NEW b, NEW ht,
           Spans(C, CK, a, b, ht), NEW t \in 1..Len(C), NEW H, NEW K,
           IsLow(H, K, C, CK, t, ht)
    PROVE  Spans(H, K, a, C[t], ht)
<1>1. /\ H \in Seq(Handles) /\ K \in Seq(Septs) /\ Len(C) \in Nat /\ Len(CK) \in Nat
      /\ Len(H) = t - 1 /\ \A j \in 1..(t - 1) : H[j] = C[j]
      /\ ht = 0 => K = << >>
      /\ ht # 0 => Len(K) = t /\ \A j \in 1..t : K[j] = CK[j]
  BY DEF IsLow
<1>2. C[t] \in Handles /\ C[t] # NoHandle
  BY OrderAssumption
<1>3. Between(C, a, b)
  BY DEF Spans
<1>4. Between(H, a, C[t])
  <2>1. ASSUME NEW i \in 1..Len(H), NEW j \in 1..Len(H), i < j PROVE Key[H[i]] < Key[H[j]]
    <3>1. i \in 1..Len(C) /\ j \in 1..Len(C) /\ H[i] = C[i] /\ H[j] = C[j]
      BY <1>1
    <3> QED BY <1>3, <2>1, <3>1 DEF Between
  <2>2. ASSUME NEW i \in 1..Len(H) PROVE After(a, H[i]) /\ Before(H[i], C[t])
    <3>1. i \in 1..Len(C) /\ i < t /\ H[i] = C[i]
      BY <1>1
    <3> QED BY <1>3, <3>1 DEF Between, Before
  <2> QED BY <2>1, <2>2 DEF Between
<1>5. ASSUME ht # 0, NEW j \in 1..Len(K)
      PROVE  /\ K[j] \in used /\ height[K[j]] = ht - 1
             /\ lo[K[j]] = (IF j = 1 THEN a ELSE H[j - 1])
             /\ hi[K[j]] = (IF j = Len(K) THEN C[t] ELSE H[j])
  <2>1. Len(CK) = Len(C) + 1 /\ j \in 1..t /\ j \in 1..Len(CK) /\ j # Len(CK) /\ K[j] = CK[j] /\ Len(K) = t
    BY <1>1, <1>5 DEF Spans
  <2>2. /\ K[j] \in used /\ height[K[j]] = ht - 1
        /\ lo[K[j]] = (IF j = 1 THEN a ELSE C[j - 1]) /\ hi[K[j]] = C[j]
    BY <1>5, <2>1 DEF Spans
  <2>3. j # 1 => j - 1 \in 1..(t - 1)
    BY <2>1
  <2>4. j # t => j \in 1..(t - 1)
    BY <2>1
  <2> QED BY <1>1, <2>1, <2>2, <2>3, <2>4
<1>6. ht # 0 => Len(K) = Len(H) + 1
  BY <1>1
<1> QED BY <1>1, <1>4, <1>5, <1>6 DEF Spans

LEMMA HighSpan ==
    ASSUME NEW C \in Seq(Handles), NEW CK \in Seq(Septs), NEW a, NEW b, NEW ht,
           Spans(C, CK, a, b, ht), NEW t \in 1..Len(C), NEW H, NEW K,
           IsHigh(H, K, C, CK, t, ht)
    PROVE  Spans(H, K, C[t], b, ht)
<1>1. /\ H \in Seq(Handles) /\ K \in Seq(Septs) /\ Len(C) \in Nat /\ Len(CK) \in Nat
      /\ Len(H) = Len(C) - t /\ \A j \in 1..(Len(C) - t) : H[j] = C[t + j]
      /\ ht = 0 => K = << >>
      /\ ht # 0 => Len(K) = Len(CK) - t /\ \A j \in 1..(Len(CK) - t) : K[j] = CK[t + j]
  BY DEF IsHigh
<1>2. C[t] \in Handles /\ C[t] # NoHandle
  BY OrderAssumption
<1>3. Between(C, a, b)
  BY DEF Spans
<1>4. Between(H, C[t], b)
  <2>1. ASSUME NEW i \in 1..Len(H), NEW j \in 1..Len(H), i < j PROVE Key[H[i]] < Key[H[j]]
    <3>1. t + i \in 1..Len(C) /\ t + j \in 1..Len(C) /\ t + i < t + j /\ H[i] = C[t + i] /\ H[j] = C[t + j]
      BY <1>1, <2>1
    <3> QED BY <1>3, <3>1 DEF Between
  <2>2. ASSUME NEW i \in 1..Len(H) PROVE After(C[t], H[i]) /\ Before(H[i], b)
    <3>1. t + i \in 1..Len(C) /\ t < t + i /\ H[i] = C[t + i]
      BY <1>1
    <3> QED BY <1>3, <3>1 DEF Between, After
  <2> QED BY <2>1, <2>2 DEF Between
<1>5. ASSUME ht # 0, NEW j \in 1..Len(K)
      PROVE  /\ K[j] \in used /\ height[K[j]] = ht - 1
             /\ lo[K[j]] = (IF j = 1 THEN C[t] ELSE H[j - 1])
             /\ hi[K[j]] = (IF j = Len(K) THEN b ELSE H[j])
  <2>1. Len(CK) = Len(C) + 1 /\ t + j \in 1..Len(CK) /\ t + j # 1 /\ K[j] = CK[t + j]
        /\ (t + j = Len(CK) <=> j = Len(K)) /\ (t + j) - 1 = t + (j - 1)
    <3>1. Len(CK) = Len(C) + 1
      BY <1>5 DEF Spans
    <3>2. Len(K) = Len(CK) - t /\ Len(CK) \in Nat /\ t \in Nat /\ t >= 1 /\ j \in 1..Len(K)
      BY <1>1, <1>5
    <3>3. /\ t + j \in 1..Len(CK) /\ t + j # 1 /\ (t + j = Len(CK) <=> j = Len(K))
          /\ (t + j) - 1 = t + (j - 1)
      BY ONLY <3>2
    <3>4. K[j] = CK[t + j]
      BY ONLY <1>1, <1>5, <3>2
    <3> QED BY ONLY <3>1, <3>3, <3>4
  <2>2. /\ K[j] \in used /\ height[K[j]] = ht - 1
        /\ lo[K[j]] = C[t + (j - 1)]
        /\ hi[K[j]] = (IF t + j = Len(CK) THEN b ELSE C[t + j])
    <3>1. PICK c \in 1..Len(CK) : c = t + j
      BY ONLY <2>1
    <3>2. /\ CK[c] \in used /\ height[CK[c]] = ht - 1
          /\ lo[CK[c]] = (IF c = 1 THEN a ELSE C[c - 1])
          /\ hi[CK[c]] = (IF c = Len(CK) THEN b ELSE C[c])
      BY <1>5 DEF Spans
    <3> QED BY ONLY <2>1, <3>1, <3>2
  <2>3. j # 1 => j - 1 \in 1..(Len(C) - t)
    BY <1>1, <2>1
  <2>4. j # Len(K) => j \in 1..(Len(C) - t)
    BY <1>1, <2>1
  <2>5. j = 1 => t + (j - 1) = t
    BY <2>1
  <2> QED BY <1>1, <2>1, <2>2, <2>3, <2>4, <2>5
<1>6. ht # 0 => Len(K) = Len(H) + 1
  <2>1. ht # 0 => Len(CK) = Len(C) + 1
    BY DEF Spans
  <2>2. /\ Len(C) \in Nat /\ t \in Nat /\ Len(H) = Len(C) - t
        /\ ht # 0 => Len(K) = Len(CK) - t
    BY <1>1
  <2> QED BY ONLY <2>1, <2>2
<1> QED BY <1>1, <1>4, <1>5, <1>6 DEF Spans

\* Two neighbours and the value between them.
LEMMA JoinSpan ==
    ASSUME NEW H \in Seq(Handles), NEW K \in Seq(Septs), NEW G \in Seq(Handles), NEW L \in Seq(Septs),
           NEW a \in Handles \cup {NoHandle}, NEW b \in Handles \cup {NoHandle},
           NEW m \in Handles, NEW ht, After(a, m), Before(m, b),
           Spans(H, K, a, m, ht), Spans(G, L, m, b, ht)
    PROVE  Spans(H \o (<<m>> \o G), K \o L, a, b, ht)
<1> DEFINE C == H \o (<<m>> \o G)
           n == Len(H)
<1>1. n \in Nat /\ Len(G) \in Nat /\ Len(K) \in Nat /\ Len(L) \in Nat
      /\ Key[m] \in Int /\ m # NoHandle
      /\ (\A j \in 1..n : H[j] \in Handles /\ Key[H[j]] \in Int)
      /\ (\A j \in 1..Len(G) : G[j] \in Handles /\ Key[G[j]] \in Int)
      /\ (a # NoHandle => Key[a] < Key[m]) /\ (b # NoHandle => Key[m] < Key[b])
  BY OrderAssumption DEF After, Before
<1>2. <<m>> \in Seq(Handles) /\ Len(<<m>>) = 1 /\ <<m>>[1] = m
  OBVIOUS
<1> DEFINE mG == <<m>> \o G
<1>3. /\ mG \in Seq(Handles) /\ Len(mG) = 1 + Len(G) /\ mG[1] = m
      /\ \A j \in 1..Len(G) : mG[1 + j] = G[j]
  <2> HIDE DEF mG
  <2>1. /\ mG \in Seq(Handles) /\ Len(mG) = Len(<<m>>) + Len(G)
        /\ (\A j \in 1..Len(<<m>>) : mG[j] = <<m>>[j])
        /\ \A j \in 1..Len(G) : mG[Len(<<m>>) + j] = G[j]
    BY <1>2, ConcatFacts DEF mG
  <2> QED BY <1>2, <2>1
<1> HIDE DEF mG
<1>4. /\ C \in Seq(Handles) /\ Len(C) = n + 1 + Len(G) /\ C[n + 1] = m
      /\ (\A j \in 1..n : C[j] = H[j]) /\ \A j \in 1..Len(G) : C[n + 1 + j] = G[j]
  <2>1. /\ C \in Seq(Handles) /\ Len(C) = n + Len(mG)
        /\ (\A j \in 1..n : C[j] = H[j]) /\ \A j \in 1..Len(mG) : C[n + j] = mG[j]
    BY <1>3, ConcatFacts DEF mG
  <2> HIDE DEF C
  <2>2. C[n + 1] = m
    BY <1>1, <1>3, <2>1
  <2>3. ASSUME NEW j \in 1..Len(G) PROVE C[n + 1 + j] = G[j]
    <3>1. 1 + j \in 1..Len(mG) /\ n + (1 + j) = n + 1 + j
      BY <1>1, <1>3
    <3> QED BY <1>3, <2>1, <3>1
  <2> QED BY <1>1, <1>3, <2>1, <2>2, <2>3
<1> HIDE DEF C
<1>5. Between(H, a, m) /\ Between(G, m, b)
  BY DEF Spans
<1> HIDE DEF n
<1>6. ASSUME NEW j \in 1..Len(C)
      PROVE  \/ j \in 1..n /\ C[j] = H[j] /\ Key[C[j]] < Key[m]
             \/ j = n + 1 /\ C[j] = m
             \/ j - (n + 1) \in 1..Len(G) /\ C[j] = G[j - (n + 1)] /\ Key[m] < Key[C[j]]
  <2>1. CASE j <= n
    BY <1>1, <1>4, <1>5, <2>1 DEF Between, Before, n
  <2>2. CASE j = n + 1
    BY <1>4, <2>2
  <2>3. CASE j > n + 1
    <3>1. j - (n + 1) \in 1..Len(G) /\ n + 1 + (j - (n + 1)) = j
      BY <1>1, <1>4, <2>3
    <3>2. C[j] = G[j - (n + 1)]
      BY <1>4, <3>1
    <3> QED BY <1>1, <1>5, <3>1, <3>2 DEF Between, After
  <2> QED BY <1>1, <1>4, <2>1, <2>2, <2>3
<1>7. Between(C, a, b)
  <2>1. ASSUME NEW i \in 1..Len(C), NEW j \in 1..Len(C), i < j PROVE Key[C[i]] < Key[C[j]]
    <3>1. CASE i \in 1..n /\ C[i] = H[i] /\ j \in 1..n /\ C[j] = H[j]
      BY <1>5, <2>1, <3>1 DEF Between, n
    <3>2. CASE i - (n + 1) \in 1..Len(G) /\ C[i] = G[i - (n + 1)]
                 /\ j - (n + 1) \in 1..Len(G) /\ C[j] = G[j - (n + 1)]
      <4>1. i - (n + 1) < j - (n + 1)
        BY <1>1, <2>1
      <4> QED BY <1>5, <3>2, <4>1 DEF Between
    <3>3. Key[C[i]] \in Int /\ Key[C[j]] \in Int /\ Key[m] \in Int /\ n \in Nat /\ Len(G) \in Nat
      BY <1>1, <1>6, OrderAssumption DEF n
    <3>4. \/ i \in 1..n /\ C[i] = H[i] /\ Key[C[i]] < Key[m]
          \/ i = n + 1 /\ C[i] = m
          \/ i - (n + 1) \in 1..Len(G) /\ C[i] = G[i - (n + 1)] /\ Key[m] < Key[C[i]]
      BY ONLY <1>6
    <3>5. \/ j \in 1..n /\ C[j] = H[j] /\ Key[C[j]] < Key[m]
          \/ j = n + 1 /\ C[j] = m
          \/ j - (n + 1) \in 1..Len(G) /\ C[j] = G[j - (n + 1)] /\ Key[m] < Key[C[j]]
      BY ONLY <1>6
    <3>6. CASE j = n + 1 \/ i = n + 1
      BY ONLY <2>1, <3>3, <3>4, <3>5, <3>6
    <3>7. CASE j \in 1..n
      BY ONLY <2>1, <3>1, <3>3, <3>4, <3>5, <3>7
    <3>8. CASE j - (n + 1) \in 1..Len(G) /\ i # n + 1
      BY ONLY <2>1, <3>2, <3>3, <3>4, <3>5, <3>8, SMTT(30)
    <3> QED BY ONLY <3>5, <3>6, <3>7, <3>8
  <2>2. ASSUME NEW i \in 1..Len(C) PROVE After(a, C[i]) /\ Before(C[i], b)
    <3>1. Key[C[i]] \in Int /\ (a # NoHandle => Key[a] \in Int) /\ (b # NoHandle => Key[b] \in Int)
      BY <1>1, <1>6, OrderAssumption
    <3>0. Key[m] \in Int
      BY <1>1, OrderAssumption
    <3>2. CASE i \in 1..n /\ C[i] = H[i] /\ Key[C[i]] < Key[m]
      <4>1. After(a, H[i])
        BY <1>5, <3>2 DEF Between, n
      <4>2. Before(m, b)
        BY <1>1
      <4> QED BY ONLY <3>0, <3>1, <3>2, <4>1, <4>2 DEF After, Before
    <3>3. CASE i - (n + 1) \in 1..Len(G) /\ C[i] = G[i - (n + 1)] /\ Key[m] < Key[C[i]]
      <4>1. Before(G[i - (n + 1)], b)
        BY ONLY <1>5, <3>3 DEF Between
      <4>2. After(a, m)
        BY <1>1
      <4> QED BY ONLY <3>0, <3>1, <3>3, <4>1, <4>2 DEF After, Before
    <3>4. CASE C[i] = m
      BY <3>4
    <3> QED BY <1>6, <3>2, <3>3, <3>4
  <2> QED BY <2>1, <2>2 DEF Between
<1> DEFINE D == K \o L
<1>8. ASSUME ht # 0
      PROVE  /\ Len(D) = Len(C) + 1
             /\ \A j \in 1..Len(D) :
                  /\ D[j] \in used /\ height[D[j]] = ht - 1
                  /\ lo[D[j]] = (IF j = 1 THEN a ELSE C[j - 1])
                  /\ hi[D[j]] = (IF j = Len(D) THEN b ELSE C[j])
  <2>1. Len(K) = n + 1 /\ Len(L) = Len(G) + 1
    BY <1>8 DEF Spans, n
  <2>2. /\ Len(D) = Len(K) + Len(L) /\ (\A j \in 1..Len(K) : D[j] = K[j])
        /\ \A j \in 1..Len(L) : D[Len(K) + j] = L[j]
    BY ConcatFacts
  <2> HIDE DEF D
  <2>3. Len(D) = n + Len(G) + 2
    BY <1>1, <2>1, <2>2
  <2>4. ASSUME NEW j \in 1..Len(D)
        PROVE  /\ D[j] \in used /\ height[D[j]] = ht - 1
               /\ lo[D[j]] = (IF j = 1 THEN a ELSE C[j - 1])
               /\ hi[D[j]] = (IF j = Len(D) THEN b ELSE C[j])
    <3>1. CASE j <= n + 1
      <4>1. j \in 1..Len(K) /\ D[j] = K[j] /\ j # Len(D)
        BY <1>1, <2>1, <2>2, <2>3, <3>1
      <4>2. /\ K[j] \in used /\ height[K[j]] = ht - 1
            /\ lo[K[j]] = (IF j = 1 THEN a ELSE H[j - 1])
            /\ hi[K[j]] = (IF j = Len(K) THEN m ELSE H[j])
        BY <1>8, <4>1 DEF Spans
      <4>3. j # 1 => j - 1 \in 1..n
        BY <1>1, <3>1
      <4>4. j # Len(K) => j \in 1..n
        BY <1>1, <2>1, <3>1
      <4> QED BY <1>4, <2>1, <4>1, <4>2, <4>3, <4>4
    <3>2. CASE ~(j <= n + 1)
      <4> DEFINE x == j - (n + 1)
      <4>1. x \in 1..Len(L) /\ Len(K) + x = j /\ j = n + 1 + x /\ j - 1 = n + 1 + (x - 1)
            /\ (x = Len(L) <=> j = Len(D)) /\ (x = 1 <=> j - 1 = n + 1) /\ j # 1
        <5>1. x \in Int /\ j = n + 1 + x /\ x >= 1 /\ x <= Len(G) + 1
          BY <1>1, <2>3, <3>2
        <5> HIDE DEF x
        <5>2. Len(K) + x = j /\ j - 1 = n + 1 + (x - 1) /\ j # 1 /\ x \in 1..Len(L)
          BY <1>1, <2>1, <5>1
        <5>3. (x = Len(L) <=> j = Len(D)) /\ (x = 1 <=> j - 1 = n + 1)
          <6>1. x \in Int /\ j \in Int /\ n \in Int /\ Len(G) \in Int /\ j = n + 1 + x
            BY <1>1, <5>1
          <6>2. Len(L) = Len(G) + 1 /\ Len(D) = n + Len(G) + 2
            BY <2>1, <2>3
          <6>3. x = Len(L) <=> j = Len(D)
            BY ONLY <6>1, <6>2
          <6> QED BY ONLY <6>1, <6>3
        <5> QED BY <5>1, <5>2, <5>3
      <4> HIDE DEF x
      <4>2. D[j] = L[x]
        BY <2>2, <4>1
      <4>3. /\ L[x] \in used /\ height[L[x]] = ht - 1
            /\ lo[L[x]] = (IF x = 1 THEN m ELSE G[x - 1])
            /\ hi[L[x]] = (IF x = Len(L) THEN b ELSE G[x])
        BY <1>8, <4>1 DEF Spans
      <4>4. x # 1 => x - 1 \in 1..Len(G) /\ C[n + 1 + (x - 1)] = G[x - 1]
        <5>1. x # 1 => x - 1 \in 1..Len(G)
          BY <1>1, <2>1, <4>1
        <5> QED BY <1>4, <5>1
      <4>5. x # Len(L) => x \in 1..Len(G) /\ C[n + 1 + x] = G[x]
        <5>1. x # Len(L) => x \in 1..Len(G)
          BY <1>1, <2>1, <4>1
        <5> QED BY <1>4, <5>1
      <4> QED BY <1>4, <4>1, <4>2, <4>3, <4>4, <4>5
    <3> QED BY <3>1, <3>2
  <2> QED BY <1>1, <1>4, <2>1, <2>3, <2>4
<1>9. ht = 0 => D = << >>
  <2>1. ht = 0 => K = << >> /\ L = << >>
    BY DEF Spans
  <2> QED BY <2>1
<1> QED BY <1>7, <1>8, <1>9 DEF Spans, C

\* A sept that is not the parent of halves still to be linked.
LEMMA OwnSpan ==
    ASSUME TypeOK, ShapeInv, NEW s \in used, ~(Linking /\ parent[left_down] = s)
    PROVE  Spans(hn[s], kid[s], lo[s], hi[s], height[s])
<1>1. Between(hn[s], lo[s], hi[s])
  BY ValueFacts DEF Between
<1>2. ASSUME NEW j \in 1..Len(kid[s])
      PROVE  /\ kid[s][j] \in used /\ height[kid[s][j]] = height[s] - 1
             /\ lo[kid[s][j]] = (IF j = 1 THEN lo[s] ELSE hn[s][j - 1])
             /\ hi[kid[s][j]] = (IF j = Len(kid[s]) THEN hi[s] ELSE hn[s][j])
  <2>1. /\ kid[s][j] \in used /\ parent[kid[s][j]] = s
        /\ height[s] = height[kid[s][j]] + 1
        /\ lo[kid[s][j]] = LeftOf(s, j) /\ hi[UpTo(kid[s][j])] = RightOf(s, j)
    BY KidFacts
  <2>2. UpTo(kid[s][j]) = kid[s][j]
    BY <2>1 DEF UpTo
  <2>3. height[kid[s][j]] \in Nat
    BY <2>1, SeptFacts
  <2> QED BY <2>1, <2>2, <2>3 DEF LeftOf, RightOf
<1> QED BY <1>1, <1>2, SeptFacts DEF Spans

\* What a step makes of sept s.
LEMMA Becomes ==
    ASSUME NEW s, hn'[s] \in Seq(Handles), kid'[s] \in Seq(Septs),
           Between(hn'[s], lo'[s], hi'[s]), Len(hn'[s]) <= N,
           height'[s] = 0 <=> kid'[s] = << >>, height'[s] # 0 => Len(kid'[s]) = Len(hn'[s]) + 1,
           \A j \in 1..Len(hn'[s]) : hp'[hn'[s][j]] = s,
           \A j \in 1..Len(kid'[s]) :
             /\ kid'[s][j] \in used' /\ parent'[kid'[s][j]] = s /\ height'[kid'[s][j]] = height'[s] - 1
             /\ lo'[kid'[s][j]] = (IF j = 1 THEN lo'[s] ELSE hn'[s][j - 1])
             /\ hi'[IF Linking' /\ kid'[s][j] = left_down' THEN right_down' ELSE kid'[s][j]]
                  = (IF j = Len(kid'[s]) THEN hi'[s] ELSE hn'[s][j])
    PROVE  SeptInOrder(s)' /\ ChildrenAgree(s)'
<1>1. SeptInOrder(s)'
  BY DEF SeptInOrder, Between, num_vals, After, Before
<1>2. ASSUME NEW j \in 1..Len(kid'[s])
      PROVE  /\ kid'[s][j] \in used' /\ parent'[kid'[s][j]] = s
             /\ height'[kid'[s][j]] = height'[s] - 1
             /\ lo'[kid'[s][j]] = LeftOf(s, j)' /\ hi'[UpTo(kid[s][j])'] = RightOf(s, j)'
  BY DEF LeftOf, RightOf, UpTo
<1>3. ChildrenAgree(s)'
  BY <1>2 DEF ChildrenAgree, is_leaf, num_vals
<1> QED BY <1>1, <1>3

-----------------------------------------------------------------------------
(* Insertion: the way up.                                                  *)

\* The place of the pending value in the sept at hand.
UpPlace(p) ==
    /\ Place(sept, p)
    /\ left_down # Null => p \in 1..Len(kid[sept]) /\ kid[sept][p] = left_down

LEMMA UpFacts ==
    ASSUME TreeInv, pc = "up"
    PROVE  /\ hndl_p \in Handles /\ hndl_p \notin Members /\ stage # "gone"
           /\ left_down = Null => sept \in used /\ is_leaf(sept) /\ sept # Null
           /\ left_down # Null =>
                /\ left_down \in used /\ right_down \in used /\ left_down # right_down
                /\ height[left_down] = height[right_down]
                /\ parent[left_down] = sept /\ parent[right_down] = sept
                /\ hi[left_down] = hndl_p /\ lo[right_down] = hndl_p
                /\ After(lo[left_down], hndl_p) /\ Before(hndl_p, hi[right_down])
                /\ num_vals(left_down) = Half /\ num_vals(right_down) = Half
                /\ right_down # root_sept
                /\ \A s \in used : \A i \in 1..Len(kid[s]) : kid[s][i] # right_down
                /\ IF sept = Null THEN left_down = root_sept ELSE sept \in used
BY SeptFacts, NotGone DEF TreeInv, OpInv, UpInv

\* The parent of the halves of a split.
LEMMA UpParent ==
    ASSUME TreeInv, pc = "up", left_down # Null, sept # Null
    PROVE  /\ height[sept] = height[left_down] + 1 /\ height[left_down] < height[root_sept]
           /\ Len(kid[sept]) = Len(hn[sept]) + 1 /\ left_down # root_sept
           /\ \E i \in 1..Len(kid[sept]) :
                /\ kid[sept][i] = left_down
                /\ lo[left_down] = LeftOf(sept, i) /\ hi[right_down] = RightOf(sept, i)
<1>1. left_down \in used /\ left_down # right_down /\ parent[left_down] = sept
  BY UpFacts
<1>2. left_down # root_sept
  BY <1>1 DEF TreeInv, ShapeInv, RootAgrees
<1>3. UpTo(left_down) = right_down
  BY DEF UpTo, Linking
<1> QED BY <1>1, <1>2, <1>3, ParentFacts DEF TreeInv

LEMMA HasUpPlace ==
    ASSUME TreeInv, pc = "up", sept # Null
    PROVE  \E p \in 1..(num_vals(sept) + 1) : UpPlace(p)
<1> USE DEF TreeInv
<1>1. CASE left_down = Null
  BY <1>1 DEF OpInv, UpInv, UpPlace
<1>2. CASE left_down # Null
  <2>1. /\ sept \in used /\ hndl_p \in Handles /\ Len(hn[sept]) \in Nat
        /\ After(lo[left_down], hndl_p) /\ Before(hndl_p, hi[right_down])
    BY <1>2, UpFacts, SeptFacts
  <2>2. Len(kid[sept]) = Len(hn[sept]) + 1
    BY <1>2, UpParent
  <2>3. PICK p \in 1..Len(kid[sept]) :
          kid[sept][p] = left_down /\ lo[left_down] = LeftOf(sept, p) /\ hi[right_down] = RightOf(sept, p)
    BY <1>2, UpParent
  <2>4. \A j \in 1..Len(hn[sept]) : /\ hn[sept][j] \in Handles /\ Key[hn[sept][j]] \in Int
                                    /\ After(lo[sept], hn[sept][j]) /\ Before(hn[sept][j], hi[sept])
    BY <2>1, ValueFacts
  <2>5. \A j, k \in 1..Len(hn[sept]) : j < k => Key[hn[sept][j]] < Key[hn[sept][k]]
    BY <2>1, ValueFacts
  <2>6. /\ lo[sept] \in Handles \cup {NoHandle} /\ hi[sept] \in Handles \cup {NoHandle}
        /\ \A x \in Handles : Key[x] \in Int /\ x # NoHandle
    BY <2>1, SeptFacts, OrderAssumption
  <2>7. p # 1 => p - 1 \in 1..Len(hn[sept]) /\ Key[hn[sept][p - 1]] < Key[hndl_p]
    BY <2>1, <2>2, <2>3, <2>4, <2>6 DEF LeftOf, After
  <2>8. p # Len(kid[sept]) => p \in 1..Len(hn[sept]) /\ Key[hndl_p] < Key[hn[sept][p]]
    BY <2>1, <2>2, <2>3, <2>4, <2>6 DEF RightOf, Before
  <2>9. ASSUME NEW j \in 1..Len(hn[sept])
        PROVE  IF j < p THEN Key[hn[sept][j]] < Key[hndl_p] ELSE Key[hndl_p] < Key[hn[sept][j]]
    <3>1. CASE j < p
      <4>1. p # 1 /\ (j = p - 1 \/ j < p - 1) /\ p - 1 \in 1..Len(hn[sept])
        BY <2>7, <3>1
      <4>2. Key[hn[sept][j]] <= Key[hn[sept][p - 1]]
        BY <2>4, <2>5, <4>1
      <4>3. Key[hn[sept][j]] \in Int /\ Key[hn[sept][p - 1]] \in Int /\ Key[hndl_p] \in Int
            /\ Key[hn[sept][p - 1]] < Key[hndl_p]
        BY ONLY <2>1, <2>4, <2>6, <2>7, <4>1
      <4> QED BY ONLY <3>1, <4>2, <4>3
    <3>2. CASE ~(j < p)
      <4>1. p # Len(kid[sept]) /\ (j = p \/ p < j) /\ p \in 1..Len(hn[sept])
        BY <2>1, <2>2, <2>8, <3>2
      <4>2. Key[hn[sept][p]] <= Key[hn[sept][j]]
        BY <2>4, <2>5, <4>1
      <4>3. Key[hn[sept][j]] \in Int /\ Key[hn[sept][p]] \in Int /\ Key[hndl_p] \in Int
            /\ Key[hndl_p] < Key[hn[sept][p]]
        BY ONLY <2>1, <2>4, <2>6, <2>8, <4>1
      <4> QED BY ONLY <3>2, <4>2, <4>3
    <3> QED BY <3>1, <3>2
  <2>10. After(lo[sept], hndl_p)
    BY <2>1, <2>3, <2>4, <2>6, <2>7 DEF LeftOf, After
  <2>11. Before(hndl_p, hi[sept])
    BY <2>1, <2>3, <2>4, <2>6, <2>8 DEF RightOf, Before
  <2>12. p \in 1..(num_vals(sept) + 1)
    BY <2>2 DEF num_vals
  <2> QED BY <2>3, <2>9, <2>10, <2>11, <2>12 DEF Place, UpPlace, num_vals
<1> QED BY <1>1, <1>2

\* The place that insert_here() finds.
LEMMA PlaceOfIs ==
    ASSUME NEW hs \in Seq(Handles), NEW h \in Handles, NEW p \in 1..(Len(hs) + 1),
           \A j \in 1..Len(hs) : IF j < p THEN Key[hs[j]] < Key[h] ELSE Key[h] < Key[hs[j]]
    PROVE  PlaceOf(hs, h) = p
<1>1. Len(hs) \in Nat /\ Key[h] \in Int /\ \A j \in 1..Len(hs) : Key[hs[j]] \in Int
  BY OrderAssumption
<1>2. ASSUME NEW i \in 1..Len(hs) PROVE Key[hs[i]] < Key[h] <=> i < p
  BY <1>1
<1>3. {i \in 1..Len(hs) : Key[hs[i]] < Key[h]} = 1..(p - 1)
  BY <1>1, <1>2
<1>4. Cardinality(1..(p - 1)) = p - 1
  <2>1. p - 1 \in Int /\ 1 \in Int /\ p - 1 >= 0
    OBVIOUS
  <2> QED BY <2>1, FS_Interval
<1>5. PlaceOf(hs, h) = Cardinality(1..(p - 1)) + 1
  BY <1>3, Zenon DEF PlaceOf
<1> QED BY <1>4, <1>5

\* The children of the sept at hand, or part of them, with the two halves.
LEMMA WithKidsFacts ==
    ASSUME TypeOK, left_down \in Septs, right_down \in Septs, left_down # Null,
           NEW ks \in Seq(Septs), NEW p \in 1..Len(ks)
    PROVE  /\ WithKids(ks, p) \in Seq(Septs) /\ Len(WithKids(ks, p)) = Len(ks) + 1
           /\ \A j \in 1..(Len(ks) + 1) :
                WithKids(ks, p)[j] = IF j < p THEN ks[j] ELSE IF j = p THEN left_down
                                     ELSE IF j = p + 1 THEN right_down ELSE ks[j - 1]
<1> DEFINE ls == [ks EXCEPT ![p] = left_down]
<1>1. ls \in Seq(Septs) /\ Len(ls) = Len(ks) /\ Len(ks) \in Nat
      /\ \A j \in 1..Len(ks) : ls[j] = IF j = p THEN left_down ELSE ks[j]
  OBVIOUS
<1> HIDE DEF ls
<1>2. p + 1 \in 1..(Len(ls) + 1)
  BY <1>1
<1>3. /\ InsertAt(ls, p + 1, right_down) \in Seq(Septs)
      /\ Len(InsertAt(ls, p + 1, right_down)) = Len(ls) + 1
      /\ \A j \in 1..(Len(ls) + 1) :
           InsertAt(ls, p + 1, right_down)[j]
             = IF j < p + 1 THEN ls[j] ELSE IF j = p + 1 THEN right_down ELSE ls[j - 1]
  <2>1. PICK i \in 1..(Len(ls) + 1) : i = p + 1
    BY <1>2
  <2>2. ls \in Seq(Septs) /\ right_down \in Septs
    BY <1>1
  <2>3. /\ InsertAt(ls, i, right_down) \in Seq(Septs)
        /\ Len(InsertAt(ls, i, right_down)) = Len(ls) + 1
        /\ \A j \in 1..(Len(ls) + 1) :
             InsertAt(ls, i, right_down)[j]
               = IF j < i THEN ls[j] ELSE IF j = i THEN right_down ELSE ls[j - 1]
    BY <2>2, InsertAtFacts
  <2> QED BY <2>1, <2>3
<1>4. WithKids(ks, p) = InsertAt(ls, p + 1, right_down)
  BY DEF WithKids, ls
<1>5. ASSUME NEW j \in 1..(Len(ks) + 1)
      PROVE  WithKids(ks, p)[j] = IF j < p THEN ks[j] ELSE IF j = p THEN left_down
                                  ELSE IF j = p + 1 THEN right_down ELSE ks[j - 1]
  <2>1. CASE j < p + 1
    BY <1>1, <1>3, <1>4, <2>1
  <2>2. CASE j = p + 1
    BY <1>1, <1>3, <1>4, <2>2
  <2>3. CASE j > p + 1
    <3>1. j - 1 \in 1..Len(ks) /\ j - 1 # p /\ j \in 1..(Len(ls) + 1) /\ ~(j < p) /\ j # p /\ j # p + 1
          /\ ~(j < p + 1)
      BY <1>1, <2>3
    <3>2. InsertAt(ls, p + 1, right_down)[j] = ls[j - 1] /\ ls[j - 1] = ks[j - 1]
      BY ONLY <1>1, <1>3, <3>1
    <3> QED BY ONLY <1>4, <3>1, <3>2
  <2> QED BY <2>1, <2>2, <2>3
<1> QED BY <1>1, <1>3, <1>4, <1>5

\* t is hs with the handle h put in at position i.
IsInsert(t, hs, i, h) ==
    /\ t \in Seq(Handles) /\ Len(t) = Len(hs) + 1
    /\ \A j \in 1..(Len(hs) + 1) : t[j] = IF j < i THEN hs[j] ELSE IF j = i THEN h ELSE hs[j - 1]

LEMMA InsertIs ==
    ASSUME NEW hs \in Seq(Handles), NEW i \in 1..(Len(hs) + 1), NEW h \in Handles
    PROVE  IsInsert(InsertAt(hs, i, h), hs, i, h)
<1>1. InsertAt(hs, i, h) \in Seq(Handles) /\ Len(InsertAt(hs, i, h)) = Len(hs) + 1
  BY InsertAtFacts
<1>2. ASSUME NEW j \in 1..(Len(hs) + 1)
      PROVE  InsertAt(hs, i, h)[j] = IF j < i THEN hs[j] ELSE IF j = i THEN h ELSE hs[j - 1]
  BY InsertAtFacts
<1> QED BY ONLY <1>1, <1>2, Zenon DEF IsInsert

\* The sept's values and children with the pending ones, before it is split.
AllVals(p) == InsertAt(hn[sept], p, hndl_p)
AllKids(p) == WithKids(kid[sept], p)

LEMMA AllValsFacts ==
    ASSUME TreeInv, pc = "up", sept # Null, NEW p, UpPlace(p)
    PROVE  /\ sept \in used /\ hndl_p \in Handles /\ p \in 1..(Len(hn[sept]) + 1)
           /\ hn[sept] \in Seq(Handles) /\ Len(hn[sept]) \in Nat
           /\ AllVals(p) \in Seq(Handles) /\ Len(AllVals(p)) = Len(hn[sept]) + 1
           /\ \A j \in 1..(Len(hn[sept]) + 1) :
                AllVals(p)[j] = IF j < p THEN hn[sept][j] ELSE IF j = p THEN hndl_p ELSE hn[sept][j - 1]
           /\ Between(AllVals(p), lo[sept], hi[sept])
<1> USE DEF TreeInv
<1> DEFINE hs == hn[sept]
           C == AllVals(p)
<1>1. sept \in used /\ hndl_p \in Handles
  <2>1. left_down # Null => sept \in used
    BY UpFacts
  <2>2. left_down = Null => sept \in used
    BY UpFacts
  <2> QED BY <2>1, <2>2, UpFacts
<1>2. hs \in Seq(Handles) /\ Len(hs) \in Nat
  BY <1>1, SeptFacts
<1>3. /\ p \in 1..(Len(hs) + 1)
      /\ \A j \in 1..Len(hs) : IF j < p THEN Key[hs[j]] < Key[hndl_p] ELSE Key[hndl_p] < Key[hs[j]]
      /\ After(lo[sept], hndl_p) /\ Before(hndl_p, hi[sept])
  BY DEF UpPlace, Place, num_vals
<1>4. /\ C \in Seq(Handles) /\ Len(C) = Len(hs) + 1
      /\ \A j \in 1..(Len(hs) + 1) : C[j] = IF j < p THEN hs[j] ELSE IF j = p THEN hndl_p ELSE hs[j - 1]
  <2>1. PICK q \in Seq(Handles) : q = hs
    BY <1>2
  <2>2. PICK g \in Handles : g = hndl_p
    BY <1>1
  <2>3. p \in 1..(Len(q) + 1)
    BY <1>3, <2>1
  <2>4. IsInsert(InsertAt(q, p, g), q, p, g)
    BY ONLY <2>3, InsertIs
  <2>5. C = InsertAt(q, p, g)
    BY <2>1, <2>2 DEF AllVals
  <2> HIDE DEF C
  <2> QED BY ONLY <2>1, <2>2, <2>4, <2>5 DEF IsInsert
<1>5. \A j \in 1..Len(hs) : /\ hs[j] \in Handles /\ Key[hs[j]] \in Int
                            /\ After(lo[sept], hs[j]) /\ Before(hs[j], hi[sept])
  BY <1>1, ValueFacts
<1>6. \A j, k \in 1..Len(hs) : j < k => Key[hs[j]] < Key[hs[k]]
  BY <1>1, ValueFacts
<1> HIDE DEF hs, C
<1>7. ASSUME NEW j \in 1..Len(C)
      PROVE  \/ j < p /\ j \in 1..Len(hs) /\ C[j] = hs[j]
             \/ j = p /\ C[j] = hndl_p
             \/ j > p /\ j - 1 \in 1..Len(hs) /\ C[j] = hs[j - 1]
  BY <1>2, <1>3, <1>4
<1>8. ASSUME NEW i \in 1..Len(C), NEW j \in 1..Len(C), i < j PROVE Key[C[i]] < Key[C[j]]
  <2>1. CASE j < p
    <3>1. C[i] = hs[i] /\ C[j] = hs[j] /\ i \in 1..Len(hs) /\ j \in 1..Len(hs)
      BY <1>2, <1>3, <1>4, <1>7, <1>8, <2>1
    <3> QED BY <1>6, <1>8, <3>1
  <2>2. CASE j = p
    <3>1. C[i] = hs[i] /\ i \in 1..Len(hs) /\ i < p /\ C[j] = hndl_p
      BY <1>2, <1>3, <1>4, <1>8, <2>2
    <3> QED BY <1>3, <3>1
  <2>3. CASE j > p /\ i < p
    <3>1. C[i] = hs[i] /\ i \in 1..Len(hs) /\ C[j] = hs[j - 1] /\ j - 1 \in 1..Len(hs) /\ ~(j - 1 < p)
      BY <1>2, <1>3, <1>4, <2>3
    <3> QED BY <1>1, <1>3, <1>5, <2>3, <3>1, OrderAssumption
  <2>4. CASE j > p /\ i = p
    <3>1. C[i] = hndl_p /\ C[j] = hs[j - 1] /\ j - 1 \in 1..Len(hs) /\ ~(j - 1 < p)
      BY <1>2, <1>3, <1>4, <2>4
    <3> QED BY <1>3, <3>1
  <2>5. CASE j > p /\ i > p
    <3>1. C[i] = hs[i - 1] /\ i - 1 \in 1..Len(hs) /\ C[j] = hs[j - 1] /\ j - 1 \in 1..Len(hs)
          /\ i - 1 < j - 1
      BY <1>2, <1>3, <1>4, <1>8, <2>5
    <3> QED BY <1>6, <3>1
  <2> QED BY <1>3, <2>1, <2>2, <2>3, <2>4, <2>5
<1>9. ASSUME NEW j \in 1..Len(C) PROVE After(lo[sept], C[j]) /\ Before(C[j], hi[sept])
  BY <1>3, <1>5, <1>7
<1>10. Between(C, lo[sept], hi[sept])
  BY <1>8, <1>9 DEF Between
<1> QED BY <1>1, <1>2, <1>3, <1>4, <1>10 DEF hs, C

\* They are the sept's own and the pending one.
LEMMA AllValsMembers ==
    ASSUME TreeInv, pc = "up", sept # Null, NEW p, UpPlace(p)
    PROVE  \A h : (\E j \in 1..Len(AllVals(p)) : AllVals(p)[j] = h)
                    <=> h = hndl_p \/ \E i \in 1..Len(hn[sept]) : hn[sept][i] = h
<1> DEFINE hs == hn[sept]
           C == AllVals(p)
<1>1. /\ p \in 1..(Len(hs) + 1) /\ Len(hs) \in Nat /\ Len(C) = Len(hs) + 1
      /\ \A j \in 1..(Len(hs) + 1) : C[j] = IF j < p THEN hs[j] ELSE IF j = p THEN hndl_p ELSE hs[j - 1]
  BY AllValsFacts
<1> HIDE DEF hs, C
<1>2. ASSUME NEW j \in 1..Len(C) PROVE C[j] = hndl_p \/ \E i \in 1..Len(hs) : hs[i] = C[j]
  <2>1. CASE j < p
    BY <1>1, <2>1
  <2>2. CASE j > p
    <3>1. j - 1 \in 1..Len(hs) /\ C[j] = hs[j - 1]
      BY <1>1, <2>2
    <3> QED BY <3>1
  <2> QED BY <1>1, <2>1, <2>2
<1>3. \E j \in 1..Len(C) : C[j] = hndl_p
  BY <1>1
<1>4. ASSUME NEW i \in 1..Len(hs) PROVE \E j \in 1..Len(C) : C[j] = hs[i]
  <2>1. CASE i < p
    BY <1>1, <2>1
  <2>2. CASE ~(i < p)
    <3>1. i + 1 \in 1..Len(C) /\ i + 1 > p /\ (i + 1) - 1 = i
      BY <1>1, <2>2
    <3>2. C[i + 1] = hs[i]
      BY <1>1, <3>1
    <3> QED BY <3>1, <3>2
  <2> QED BY <2>1, <2>2
<1> QED BY <1>2, <1>3, <1>4 DEF hs, C

LEMMA AllKidsFacts ==
    ASSUME TreeInv, pc = "up", sept # Null, NEW p, UpPlace(p)
    PROVE  /\ AllKids(p) \in Seq(Septs) /\ UpTo(sept) = sept /\ (left_down # Null => sept # right_down)
           /\ Spans(AllVals(p), AllKids(p), lo[sept], hi[sept], height[sept])
           /\ height[sept] = 0 <=> left_down = Null
           /\ left_down = Null => AllKids(p) = << >> /\ kid[sept] = << >>
           /\ \A j \in 1..Len(AllKids(p)) : AllKids(p)[j] \in used /\ parent[AllKids(p)[j]] = sept
                                            /\ AllKids(p)[j] # sept
           /\ \A i \in 1..Len(kid[sept]) : \E j \in 1..Len(AllKids(p)) : AllKids(p)[j] = kid[sept][i]
           /\ left_down # Null => /\ p \in 1..Len(kid[sept]) /\ Len(kid[sept]) = Len(hn[sept]) + 1
                                  /\ Len(AllKids(p)) = Len(kid[sept]) + 1
                                  /\ AllKids(p)[p + 1] = right_down
                                  /\ \A j \in 1..(Len(kid[sept]) + 1) :
                                       AllKids(p)[j] = IF j <= p THEN kid[sept][j] ELSE IF j = p + 1 THEN right_down
                                                       ELSE kid[sept][j - 1]
<1> USE DEF TreeInv
<1> DEFINE hs == hn[sept]
           C == AllVals(p)
           ks == kid[sept]
           D == AllKids(p)
<1>1. /\ sept \in used /\ hndl_p \in Handles /\ p \in 1..(Len(hs) + 1) /\ Len(hs) \in Nat /\ Len(C) = Len(hs) + 1
      /\ \A j \in 1..(Len(hs) + 1) : C[j] = IF j < p THEN hs[j] ELSE IF j = p THEN hndl_p ELSE hs[j - 1]
      /\ Between(C, lo[sept], hi[sept])
  BY AllValsFacts
<1>2. height[sept] \in Nat
  BY <1>1, SeptFacts
<1>3. CASE left_down = Null
  <2>1. height[sept] = 0 /\ ks = << >> /\ D = << >>
    BY <1>1, <1>3, UpFacts, SeptFacts DEF is_leaf, AllKids, WithKids
  <2>2. UpTo(sept) = sept
    BY <1>3 DEF UpTo, Linking
  <2>3. D \in Seq(Septs) /\ Len(D) = 0 /\ Len(ks) = 0
    BY <2>1
  <2>4. Spans(C, D, lo[sept], hi[sept], height[sept])
    BY <1>1, <2>1 DEF Spans
  <2> HIDE DEF D, ks, C
  <2> QED BY <1>3, <2>1, <2>2, <2>3, <2>4 DEF D, ks, C
<1>4. CASE left_down # Null
  <2>1. /\ left_down \in used /\ right_down \in used /\ height[left_down] = height[right_down]
        /\ parent[left_down] = sept /\ parent[right_down] = sept
        /\ hi[left_down] = hndl_p /\ lo[right_down] = hndl_p
    BY <1>4, UpFacts
  <2>2. height[sept] = height[left_down] + 1 /\ Len(ks) = Len(hs) + 1
    BY <1>4, UpParent
  <2>3. left_down \in Septs /\ right_down \in Septs /\ ks \in Seq(Septs)
        /\ height[left_down] \in Nat
    BY <1>1, <2>1, SeptFacts
  <2>4. p \in 1..Len(ks) /\ ks[p] = left_down
    BY <1>4 DEF UpPlace
  <2>5. /\ D \in Seq(Septs) /\ Len(D) = Len(ks) + 1
        /\ \A j \in 1..(Len(ks) + 1) : D[j] = IF j < p THEN ks[j] ELSE IF j = p THEN left_down
                                              ELSE IF j = p + 1 THEN right_down ELSE ks[j - 1]
    BY <1>4, <2>3, <2>4, WithKidsFacts DEF AllKids
  <2>6. /\ lo[left_down] = LeftOf(sept, p) /\ hi[right_down] = RightOf(sept, p)
    <3>1. PICK i \in 1..Len(ks) : /\ ks[i] = left_down
                                  /\ lo[left_down] = LeftOf(sept, i) /\ hi[right_down] = RightOf(sept, i)
      BY <1>4, UpParent
    <3>2. i = p
      BY <1>1, <2>4, <3>1, KidsDistinct
    <3> QED BY <3>1, <3>2
  <2>7. ASSUME NEW i \in 1..Len(ks), i # p
        PROVE  /\ ks[i] \in used /\ parent[ks[i]] = sept /\ height[ks[i]] = height[sept] - 1
               /\ lo[ks[i]] = LeftOf(sept, i) /\ hi[ks[i]] = RightOf(sept, i)
    <3>1. ks[i] # left_down
      BY <1>1, <2>4, <2>7, KidsDistinct
    <3>2. UpTo(ks[i]) = ks[i]
      BY <3>1 DEF UpTo
    <3>3. /\ ks[i] \in used /\ parent[ks[i]] = sept /\ height[ks[i]] = height[sept] - 1
          /\ lo[ks[i]] = LeftOf(sept, i) /\ hi[UpTo(ks[i])] = RightOf(sept, i)
      <4>1. /\ ks[i] \in used /\ parent[ks[i]] = sept /\ height[sept] = height[ks[i]] + 1
            /\ lo[ks[i]] = LeftOf(sept, i) /\ hi[UpTo(ks[i])] = RightOf(sept, i)
        BY <1>1, KidFacts
      <4>2. height[ks[i]] \in Nat
        BY <4>1, SeptFacts
      <4> HIDE DEF ks
      <4> QED BY ONLY <4>1, <4>2
    <3> HIDE DEF ks
    <3> QED BY ONLY <3>2, <3>3
  <2> HIDE DEF hs, C, ks, D
  <2>8. ASSUME NEW j \in 1..Len(D)
        PROVE  /\ D[j] \in used /\ parent[D[j]] = sept /\ height[D[j]] = height[sept] - 1
               /\ lo[D[j]] = (IF j = 1 THEN lo[sept] ELSE C[j - 1])
               /\ hi[D[j]] = (IF j = Len(D) THEN hi[sept] ELSE C[j])
    <3>1. Len(D) = Len(hs) + 2 /\ Len(ks) = Len(hs) + 1
      BY <1>1, <2>2, <2>5
    <3>2. CASE j < p
      <4>1. j \in 1..Len(ks) /\ j # p /\ D[j] = ks[j] /\ j # Len(ks) /\ j # Len(D) /\ C[j] = hs[j]
            /\ (j # 1 => C[j - 1] = hs[j - 1])
        BY <1>1, <2>5, <3>1, <3>2
      <4> QED BY <2>7, <4>1 DEF LeftOf, RightOf, hs, ks
    <3>3. CASE j = p
      <4>1. D[j] = left_down /\ j # Len(D) /\ C[j] = hndl_p /\ (j # 1 => C[j - 1] = hs[j - 1])
        BY <1>1, <2>4, <2>5, <3>1, <3>3
      <4>2. height[left_down] = height[sept] - 1
        BY <2>2, <2>3
      <4> QED BY <2>1, <2>6, <3>3, <4>1, <4>2 DEF LeftOf, hs
    <3>4. CASE j = p + 1
      <4>1. D[j] = right_down /\ j # 1 /\ C[j - 1] = hndl_p /\ (j = Len(D) <=> p = Len(ks))
            /\ (j # Len(D) => C[j] = hs[p])
        BY <1>1, <2>4, <2>5, <3>1, <3>4
      <4>2. height[right_down] = height[sept] - 1
        BY <2>1, <2>2, <2>3
      <4> QED BY <2>1, <2>6, <4>1, <4>2 DEF RightOf, hs, ks
    <3>5. CASE j > p + 1
      <4>1. j - 1 \in 1..Len(ks) /\ j - 1 # p /\ D[j] = ks[j - 1] /\ (j = Len(D) <=> j - 1 = Len(ks))
            /\ j # 1 /\ j - 1 # 1 /\ C[j - 1] = hs[(j - 1) - 1] /\ (j # Len(D) => C[j] = hs[j - 1])
        BY <1>1, <2>4, <2>5, <3>1, <3>5
      <4>2. /\ ks[j - 1] \in used /\ parent[ks[j - 1]] = sept /\ height[ks[j - 1]] = height[sept] - 1
            /\ lo[ks[j - 1]] = LeftOf(sept, j - 1) /\ hi[ks[j - 1]] = RightOf(sept, j - 1)
        BY <2>7, <4>1
      <4> QED BY <4>1, <4>2 DEF LeftOf, RightOf, hs, ks
    <3> QED BY <1>1, <3>2, <3>3, <3>4, <3>5
  <2>9. height[sept] # 0
    BY <2>2, <2>3
  <2>10. Len(D) = Len(C) + 1
    BY <1>1, <2>2, <2>5
  <2>11. Spans(C, D, lo[sept], hi[sept], height[sept])
    BY <1>1, <2>8, <2>9, <2>10 DEF Spans
  <2>12. sept # left_down /\ sept # right_down /\ \A j \in 1..Len(D) : D[j] # sept
    BY <1>2, <2>1, <2>2, <2>3, <2>8
  <2>13. UpTo(sept) = sept
    BY <2>12 DEF UpTo
  <2>14. ASSUME NEW i \in 1..Len(ks) PROVE \E j \in 1..Len(D) : D[j] = ks[i]
    <3>1. CASE i <= p
      <4>1. i \in 1..Len(D) /\ D[i] = ks[i]
        BY <2>4, <2>5, <3>1
      <4> QED BY <4>1
    <3>2. CASE i > p
      <4>1. i + 1 \in 1..Len(D) /\ D[i + 1] = ks[i]
        <5>1. i + 1 \in 1..(Len(ks) + 1) /\ ~(i + 1 < p) /\ i + 1 # p /\ i + 1 # p + 1 /\ (i + 1) - 1 = i
          BY <2>4, <2>5, <3>2
        <5> QED BY <2>5, <5>1
      <4> QED BY <4>1
    <3> QED BY <2>4, <3>1, <3>2
  <2>15. D[p + 1] = right_down /\ \A j \in 1..(Len(ks) + 1) :
               D[j] = IF j <= p THEN ks[j] ELSE IF j = p + 1 THEN right_down ELSE ks[j - 1]
    BY <2>2, <2>4, <2>5
  <2> QED
    BY <1>4, <2>2, <2>4, <2>5, <2>8, <2>9, <2>11, <2>12, <2>13, <2>14, <2>15 DEF hs, C, ks, D
<1> QED BY <1>3, <1>4

LEMMA MemberFactsPrime ==
    ASSUME TypeOK'
    PROVE  \A h : h \in Members' <=> \E s \in used' : \E i \in 1..Len(hn'[s]) : hn'[s][i] = h
<1>1. hn' \in [Addresses -> Seq(Handles)] /\ used' \in SUBSET Addresses
  BY DEF TypeOK, Addresses
<1> QED BY <1>1, ValuesFacts DEF Members

\* Sept s gets the values H and the children K, whose order is known from the state
\* before, and which are as they were but for the links to s.
Receives(s, H, K, a, b, ht) ==
    /\ H \in Seq(Handles) /\ K \in Seq(Septs) /\ ht \in Nat /\ Spans(H, K, a, b, ht) /\ Len(H) <= N
    /\ hn'[s] = H /\ kid'[s] = K /\ lo'[s] = a /\ hi'[s] = b /\ height'[s] = ht
    /\ \A j \in 1..Len(H) : hp'[H[j]] = s
    /\ \A j \in 1..Len(K) :
         /\ K[j] \in used' /\ parent'[K[j]] = s /\ height'[K[j]] = height[K[j]]
         /\ lo'[K[j]] = lo[K[j]]
         /\ hi'[IF Linking' /\ K[j] = left_down' THEN right_down' ELSE K[j]] = hi[K[j]]

LEMMA Installed ==
    ASSUME NEW s, NEW H, NEW K, NEW a, NEW b, NEW ht, Receives(s, H, K, a, b, ht)
    PROVE  SeptInOrder(s)' /\ ChildrenAgree(s)'
<1> USE DEF Receives
<1>1. /\ Between(H, a, b) /\ (ht = 0 => K = << >>) /\ (ht # 0 => Len(K) = Len(H) + 1)
      /\ (ht = 0 <=> K = << >>)
  <2>1. Between(H, a, b) /\ (ht = 0 => K = << >>) /\ (ht # 0 => Len(K) = Len(H) + 1)
    BY DEF Spans
  <2>2. Len(H) \in Nat
    OBVIOUS
  <2>3. K = << >> => Len(K) = 0
    OBVIOUS
  <2> QED BY <2>1, <2>2, <2>3
<1>2. \A j \in 1..Len(K) : /\ height[K[j]] = ht - 1
                           /\ lo[K[j]] = (IF j = 1 THEN a ELSE H[j - 1])
                           /\ hi[K[j]] = (IF j = Len(K) THEN b ELSE H[j])
  <2>1. CASE ht = 0
    <3>1. Len(K) = 0
      BY <1>1, <2>1
    <3> QED BY <3>1
  <2>2. CASE ht # 0
    BY <2>2 DEF Spans
  <2> QED BY <2>1, <2>2
<1>3. \A j \in 1..Len(kid'[s]) :
        /\ kid'[s][j] \in used' /\ parent'[kid'[s][j]] = s /\ height'[kid'[s][j]] = height'[s] - 1
        /\ lo'[kid'[s][j]] = (IF j = 1 THEN lo'[s] ELSE hn'[s][j - 1])
        /\ hi'[IF Linking' /\ kid'[s][j] = left_down' THEN right_down' ELSE kid'[s][j]]
             = (IF j = Len(kid'[s]) THEN hi'[s] ELSE hn'[s][j])
  BY <1>2
<1>4. /\ hn'[s] \in Seq(Handles) /\ kid'[s] \in Seq(Septs) /\ Len(hn'[s]) <= N
      /\ Between(hn'[s], lo'[s], hi'[s])
      /\ (height'[s] = 0 <=> kid'[s] = << >>) /\ (height'[s] # 0 => Len(kid'[s]) = Len(hn'[s]) + 1)
      /\ \A j \in 1..Len(hn'[s]) : hp'[hn'[s][j]] = s
  BY <1>1
<1> QED BY <1>3, <1>4, Becomes

LEMMA PutStep == ASSUME TreeInv, put PROVE TreeInv' /\ Elements' = Elements
<1> USE DEF TreeInv
<1>1. /\ pc = "up" /\ sept # Null /\ num_vals(sept) < N
      /\ UNCHANGED <<counts, slots>> /\ UNCHANGED <<load, ops, stage>>
      /\ hn' = [hn EXCEPT ![sept] = WithVal(@, hndl_p)]
      /\ kid' = [kid EXCEPT ![sept] = WithKids(@, PlaceOf(hn[sept], hndl_p))]
      /\ hp' = [hp EXCEPT ![hndl_p] = sept]
      /\ pc' = "idle" /\ sept' = Null /\ hndl_p' = NoHandle /\ pval' = 0
      /\ min' = 0 /\ max' = 0 /\ left_down' = Null /\ right_down' = Null
      /\ UNCHANGED <<parent, used, lo, hi, height, root_sept, left_sept, sn_reserve>>
  BY DEF put, At, slotVars, envVars, Done
<1>2. PICK p \in 1..(num_vals(sept) + 1) : UpPlace(p)
  BY <1>1, HasUpPlace
<1> DEFINE C == AllVals(p)
           D == AllKids(p)
           hs == hn[sept]
<1>3. /\ sept \in used /\ hndl_p \in Handles /\ hs \in Seq(Handles) /\ Len(hs) \in Nat
      /\ C \in Seq(Handles) /\ Len(C) = Len(hs) + 1 /\ Between(C, lo[sept], hi[sept])
  BY <1>1, <1>2, AllValsFacts
<1>4. /\ D \in Seq(Septs) /\ UpTo(sept) = sept
      /\ Spans(C, D, lo[sept], hi[sept], height[sept])
      /\ height[sept] = 0 <=> left_down = Null
      /\ left_down = Null => D = << >> /\ kid[sept] = << >>
      /\ \A j \in 1..Len(D) : D[j] \in used /\ parent[D[j]] = sept /\ D[j] # sept
      /\ \A i \in 1..Len(kid[sept]) : \E j \in 1..Len(D) : D[j] = kid[sept][i]
      /\ left_down # Null => Len(D) = Len(kid[sept]) + 1 /\ p \in 1..Len(kid[sept]) /\ D[p + 1] = right_down
  BY <1>1, <1>2, AllKidsFacts
<1>5. \A h : (\E j \in 1..Len(C) : C[j] = h) <=> h = hndl_p \/ \E i \in 1..Len(hs) : hs[i] = h
  BY <1>1, <1>2, AllValsMembers
<1>6. PlaceOf(hs, hndl_p) = p
  <2>1. \A j \in 1..Len(hs) : IF j < p THEN Key[hs[j]] < Key[hndl_p] ELSE Key[hndl_p] < Key[hs[j]]
    BY <1>2 DEF UpPlace, Place, num_vals
  <2>2. p \in 1..(Len(hs) + 1)
    BY DEF num_vals
  <2> QED BY <1>3, <2>1, <2>2, PlaceOfIs
<1> DEFINE s0 == sept
<1>7. /\ sept \in Addresses /\ sept \in Septs /\ hn \in [Addresses -> Seq(Handles)]
      /\ kid \in [Addresses -> Seq(Septs)] /\ hp \in [Handles -> Septs \cup {Null}]
  BY <1>3, SeptFacts DEF TypeOK
<1>8. hn' = [hn EXCEPT ![sept] = C] /\ kid' = [kid EXCEPT ![sept] = D]
  <2>1. C = WithVal(hs, hndl_p) /\ D = WithKids(kid[sept], PlaceOf(hs, hndl_p))
    BY <1>6 DEF WithVal, AllVals, AllKids
  <2> QED BY <1>1, <2>1
<1> HIDE DEF C, D
<1>9. /\ hn'[sept] = C /\ kid'[sept] = D /\ hp'[hndl_p] = sept
      /\ \A q \in used : q # sept => hn'[q] = hn[q] /\ kid'[q] = kid[q]
      /\ \A g \in Members : g # hndl_p => hp'[g] = hp[g]
  <2>1. hn'[sept] = C /\ kid'[sept] = D /\ hp'[hndl_p] = sept
    BY <1>1, <1>3, <1>7, <1>8
  <2>2. ASSUME NEW q \in used, q # sept PROVE hn'[q] = hn[q] /\ kid'[q] = kid[q]
    <3>1. q \in Addresses
      BY SeptFacts
    <3> QED BY <1>7, <1>8, <2>2, <3>1
  <2>3. ASSUME NEW g \in Members, g # hndl_p PROVE hp'[g] = hp[g]
    <3>1. g \in Handles
      BY MemberFacts
    <3> QED BY <1>1, <1>7, <2>3, <3>1
  <2> QED BY <2>1, <2>2, <2>3
<1>10. ~Linking'
  BY <1>1 DEF Linking
<1>11. hndl_p \notin Members /\ stage # "gone"
  BY <1>1, UpFacts
<1>12. TypeOK'
  <2>1. hn' \in [Addresses -> Seq(Handles)] /\ kid' \in [Addresses -> Seq(Septs)]
    BY <1>3, <1>4, <1>7, <1>8
  <2>2. hp' \in [Handles -> Septs \cup {Null}]
    BY <1>1, <1>3, <1>7
  <2> QED BY <1>1, <2>1, <2>2 DEF TypeOK, PCs
<1>13. Members' = Members \cup {hndl_p}
  <2>1. \A h : h \in Members' <=> \E s \in used : \E i \in 1..Len(hn'[s]) : hn'[s][i] = h
    BY <1>1, <1>12, MemberFactsPrime
  <2>2. \A h : h \in Members <=> \E s \in used : \E i \in 1..Len(hn[s]) : hn[s][i] = h
    BY MemberFacts
  <2>3. ASSUME NEW h PROVE h \in Members' <=> h \in Members \/ h = hndl_p
    <3>1. ASSUME h \in Members' PROVE h \in Members \/ h = hndl_p
      <4>1. PICK s \in used : \E i \in 1..Len(hn'[s]) : hn'[s][i] = h
        BY <2>1, <3>1
      <4>2. CASE s = sept
        <5>1. \E i \in 1..Len(C) : C[i] = h
          BY ONLY <1>9, <4>1, <4>2
        <5>2. h = hndl_p \/ \E i \in 1..Len(hn[sept]) : hn[sept][i] = h
          BY ONLY <1>5, <5>1
        <5> QED BY ONLY <1>3, <2>2, <5>2
      <4>3. CASE s # sept
        BY ONLY <1>9, <2>2, <4>1, <4>3, s \in used
      <4> QED BY <4>2, <4>3
    <3>2. ASSUME h \in Members \/ h = hndl_p PROVE h \in Members'
      <4>1. CASE \E j \in 1..Len(C) : C[j] = h
        BY <1>3, <1>9, <2>1, <4>1
      <4>2. CASE ~\E j \in 1..Len(C) : C[j] = h
        <5>1. PICK s \in used : \E i \in 1..Len(hn[s]) : hn[s][i] = h
          BY <1>5, <2>2, <3>2, <4>2
        <5>2. s # sept
          BY <1>5, <4>2, <5>1
        <5> QED BY <1>9, <2>1, <5>1, <5>2
      <4> QED BY <4>1, <4>2
    <3> QED BY <3>1, <3>2
  <2> QED BY <2>3
<1>14. Elements' = Elements
  BY <1>1, <1>13 DEF Elements
<1>15. SlotsInv'
  <2>1. Elements' \subseteq slots
    BY <1>14 DEF SlotsInv
  <2> QED BY <1>1, <1>11, <2>1, SameSlots
<1>16. ASSUME NEW s \in used, s # sept PROVE SeptInOrder(s)' /\ ChildrenAgree(s)'
  <2>1. /\ hn[s] \in Seq(Handles) /\ kid[s] \in Seq(Septs) /\ Len(hn[s]) <= N
        /\ (height[s] = 0 <=> kid[s] = << >>) /\ (height[s] # 0 => Len(kid[s]) = Len(hn[s]) + 1)
    BY SeptFacts
  <2>2. Spans(hn[s], kid[s], lo[s], hi[s], height[s])
    <3>1. ~(Linking /\ parent[left_down] = s)
      BY <1>1, <1>16, UpFacts DEF Linking
    <3> QED BY <3>1, OwnSpan
  <2>3. \A j \in 1..Len(hn[s]) : hp'[hn[s][j]] = s
    <3> SUFFICES ASSUME NEW j \in 1..Len(hn[s]) PROVE hp'[hn[s][j]] = s
      OBVIOUS
    <3>1. hn[s][j] \in Members
      BY MemberFacts
    <3> QED BY <1>9, <1>11, <3>1, ValueFacts
  <2>4. \A j \in 1..Len(kid[s]) :
          /\ kid[s][j] \in used /\ parent[kid[s][j]] = s /\ height[kid[s][j]] = height[s] - 1
          /\ lo[kid[s][j]] = (IF j = 1 THEN lo[s] ELSE hn[s][j - 1])
          /\ hi[kid[s][j]] = (IF j = Len(kid[s]) THEN hi[s] ELSE hn[s][j])
    BY <2>1, <2>2, KidFacts DEF Spans
  <2>5. Between(hn[s], lo[s], hi[s])
    BY <2>2 DEF Spans
  <2>6. /\ hn'[s] = hn[s] /\ kid'[s] = kid[s] /\ lo'[s] = lo[s] /\ hi'[s] = hi[s]
        /\ height'[s] = height[s]
    BY <1>1, <1>9, <1>16
  <2>7. Receives(s, hn[s], kid[s], lo[s], hi[s], height[s])
    <3>1. \A j \in 1..Len(kid[s]) :
            /\ kid[s][j] \in used' /\ parent'[kid[s][j]] = s /\ height'[kid[s][j]] = height[kid[s][j]]
            /\ lo'[kid[s][j]] = lo[kid[s][j]]
            /\ hi'[IF Linking' /\ kid[s][j] = left_down' THEN right_down' ELSE kid[s][j]] = hi[kid[s][j]]
      BY ONLY <1>1, <1>10, <2>4
    <3> QED BY <2>1, <2>2, <2>3, <2>6, <3>1, SeptFacts DEF Receives
  <2> QED BY ONLY <2>7, Installed
<1>17. ASSUME NEW s \in used, s = sept PROVE SeptInOrder(s)' /\ ChildrenAgree(s)'
  <2>1. Len(C) <= N
    <3>1. N \in Nat /\ Len(hs) < N
      BY <1>1, HalfFacts DEF num_vals
    <3> QED BY <1>3, <3>1
  <2>2. \A j \in 1..Len(C) : hp'[C[j]] = s
    <3> SUFFICES ASSUME NEW j \in 1..Len(C) PROVE hp'[C[j]] = s
      OBVIOUS
    <3>1. CASE C[j] = hndl_p
      BY <1>9, <1>17, <3>1
    <3>2. CASE C[j] # hndl_p
      <4>1. PICK i \in 1..Len(hs) : hs[i] = C[j]
        BY <1>5, <3>2
      <4>2. hp[C[j]] = sept
        BY <1>3, <4>1, ValueFacts
      <4>3. C[j] \in Members
        BY <1>3, <4>1, MemberFacts
      <4> QED BY <1>9, <1>17, <3>2, <4>2, <4>3
    <3> QED BY <3>1, <3>2
  <2>3. \A j \in 1..Len(D) :
          /\ D[j] \in used /\ parent[D[j]] = s /\ height[D[j]] = height[s] - 1
          /\ lo[D[j]] = (IF j = 1 THEN lo[s] ELSE C[j - 1])
          /\ hi[D[j]] = (IF j = Len(D) THEN hi[s] ELSE C[j])
    <3>1. CASE height[s] = 0
      <4>1. Len(D) = 0
        BY <1>4, <1>17, <3>1
      <4> QED BY <4>1
    <3>2. CASE height[s] # 0
      BY <1>4, <1>17, <3>2 DEF Spans
    <3> QED BY <3>1, <3>2
  <2>4. /\ (height[s] = 0 <=> D = << >>) /\ (height[s] # 0 => Len(D) = Len(C) + 1)
    <3>1. height[s] # 0 => Len(D) = Len(C) + 1 /\ Len(D) # 0
      BY <1>3, <1>4, <1>17 DEF Spans
    <3>2. height[s] = 0 => D = << >>
      BY <1>4, <1>17
    <3> QED BY <1>4, <3>1, <3>2
  <2>5. Between(C, lo[s], hi[s])
    BY <1>3, <1>17
  <2>6. /\ hn'[s] = C /\ kid'[s] = D /\ lo'[s] = lo[s] /\ hi'[s] = hi[s]
        /\ height'[s] = height[s]
    BY <1>1, <1>9, <1>17
  <2>7. \A j \in 1..Len(D) :
          /\ D[j] \in used' /\ parent'[D[j]] = s /\ height'[D[j]] = height'[s] - 1
          /\ lo'[D[j]] = (IF j = 1 THEN lo'[s] ELSE C[j - 1])
          /\ hi'[D[j]] = (IF j = Len(D) THEN hi'[s] ELSE C[j])
    BY <1>1, <2>3, <2>6
  <2>8. C \in Seq(Handles) /\ D \in Seq(Septs)
    BY <1>3, <1>4
  <2>9. Between(C, lo'[s], hi'[s])
    BY <2>5, <2>6
  <2>10. \A j \in 1..Len(kid'[s]) :
          /\ kid'[s][j] \in used' /\ parent'[kid'[s][j]] = s /\ height'[kid'[s][j]] = height'[s] - 1
          /\ lo'[kid'[s][j]] = (IF j = 1 THEN lo'[s] ELSE hn'[s][j - 1])
          /\ hi'[kid'[s][j]] = (IF j = Len(kid'[s]) THEN hi'[s] ELSE hn'[s][j])
    BY <2>6, <2>7
  <2>11. /\ hn'[s] \in Seq(Handles) /\ kid'[s] \in Seq(Septs) /\ Len(hn'[s]) <= N
         /\ Between(hn'[s], lo'[s], hi'[s])
         /\ (height'[s] = 0 <=> kid'[s] = << >>) /\ (height'[s] # 0 => Len(kid'[s]) = Len(hn'[s]) + 1)
         /\ \A j \in 1..Len(hn'[s]) : hp'[hn'[s][j]] = s
    BY <2>1, <2>2, <2>4, <2>6, <2>8, <2>9
  <2> QED BY <1>10, <2>10, <2>11, Becomes
<1>18. ASSUME NEW s \in used, s # root_sept PROVE ParentAgrees(s)'
  <2>1. ~(left_down # Null /\ s = right_down) => ParentAgrees(s)
    BY <1>1, <1>18 DEF ShapeInv, Linking
  <2>2. parent[s] \in used /\ height[s] < height[root_sept]
    <3>1. CASE left_down # Null /\ s = right_down
      BY <1>1, <3>1, UpFacts, UpParent
    <3>2. CASE ~(left_down # Null /\ s = right_down)
      BY <2>1, <3>2 DEF ParentAgrees
    <3> QED BY <3>1, <3>2
  <2>3. \E j \in 1..Len(kid'[parent[s]]) : kid'[parent[s]][j] = s
    <3>1. CASE left_down # Null /\ s = right_down
      <4>1. p + 1 \in 1..Len(D) /\ D[p + 1] = s /\ parent[s] = sept
        <5>1. Len(kid[sept]) \in Nat /\ parent[s] = sept
          BY <1>1, <1>3, <3>1, UpFacts, SeptFacts
        <5> QED BY <1>4, <3>1, <5>1
      <4> QED BY <1>9, <4>1
    <3>2. CASE ~(left_down # Null /\ s = right_down)
      <4>1. PICK i \in 1..Len(kid[parent[s]]) : kid[parent[s]][i] = s
        BY <2>1, <3>2 DEF ParentAgrees
      <4>2. CASE parent[s] = sept
        <5>1. \E j \in 1..Len(D) : D[j] = s
          <6>1. i \in 1..Len(kid[sept]) /\ kid[sept][i] = s
            BY <4>1, <4>2
          <6> QED BY <1>4, <6>1
        <5> QED BY <1>9, <4>2, <5>1
      <4>3. CASE parent[s] # sept
        BY <1>9, <2>2, <4>1, <4>3
      <4> QED BY <4>2, <4>3
    <3> QED BY <3>1, <3>2
  <2> QED BY <1>1, <2>2, <2>3 DEF ParentAgrees
<1>19. RootAgrees'
  <2>1. root_sept # Null => UpTo(root_sept) = root_sept
    <3>1. left_down # Null => left_down # root_sept
      BY <1>1, UpParent
    <3> QED BY <3>1 DEF UpTo, Linking
  <2>2. left_sept \in used /\ is_leaf(left_sept) => kid'[left_sept] = << >>
    <3>1. CASE left_sept = sept
      BY <1>3, <1>4, <1>9, <3>1, SeptFacts DEF is_leaf
    <3>2. CASE left_sept # sept
      BY <1>9, <3>2 DEF is_leaf
    <3> QED BY <3>1, <3>2
  <2>3. ASSUME root_sept # Null
        PROVE  /\ root_sept \in used /\ parent[root_sept] = Null
               /\ lo[root_sept] = NoHandle /\ hi[root_sept] = NoHandle
               /\ left_sept \in used /\ kid'[left_sept] = << >> /\ lo[left_sept] = NoHandle
    BY <2>1, <2>2, <2>3 DEF ShapeInv, RootAgrees
  <2>4. (root_sept = Null <=> used = {}) /\ (root_sept = Null <=> left_sept = Null)
    BY DEF ShapeInv, RootAgrees
  <2> QED BY <1>1, <1>10, <2>3, <2>4 DEF RootAgrees, is_leaf, UpTo
<1>20. ShapeInv'
  BY <1>1, <1>16, <1>17, <1>18, <1>19 DEF ShapeInv
<1>21. FillInv'
  <2>1. ASSUME NEW s \in used PROVE Filled(s)'
    <3>1. CASE s = sept
      <4>1. s # root_sept => Len(hs) >= Half
        BY <1>1, <3>1 DEF FillInv, Filled, num_vals
      <4> QED BY <1>1, <1>3, <1>9, <3>1, <4>1, HalfFacts DEF Filled, num_vals
    <3>2. CASE s # sept
      BY <1>1, <1>9, <3>2 DEF FillInv, Filled, num_vals
    <3> QED BY <3>1, <3>2
  <2> QED BY <1>1, <2>1 DEF FillInv
<1>22. OpInv'
  BY <1>1, IdleOp
<1> QED BY <1>12, <1>14, <1>15, <1>20, <1>21, <1>22
\* A split: sept keeps the values and children before up, its new sibling gets those
\* after up, and up goes on to the parent.
SplitAs(p, r, up, lowH, lowK, highH, highK) ==
    /\ pc = "up" /\ sept # Null /\ num_vals(sept) = N /\ UpPlace(p) /\ r = NextSept
    /\ up = AllVals(p)[Half + 1]
    /\ IsLow(lowH, lowK, AllVals(p), AllKids(p), Half + 1, height[sept])
    /\ IsHigh(highH, highK, AllVals(p), AllKids(p), Half + 1, height[sept])
    /\ split(r, up, lowH, lowK, highH, highK) /\ MoveKids(r, Range(highK))
    /\ UNCHANGED <<counts, slots>> /\ UNCHANGED <<load, ops, stage>>
    /\ hp' \in [Handles -> Septs \cup {Null}]
    /\ \A j \in 1..Half : hp'[lowH[j]] = sept
    /\ \A j \in 1..Half : hp'[highH[j]] = r
    /\ \A g \in Members : g # hndl_p /\ (\A i \in 1..N : hn[sept][i] # g) => hp'[g] = hp[g]

LEMMA SplitCore ==
    ASSUME TreeInv, NEW p, NEW r, NEW up, NEW lowH, NEW lowK, NEW highH, NEW highK,
           SplitAs(p, r, up, lowH, lowK, highH, highK)
    PROVE  TreeInv' /\ Elements' = Elements
<1>0. /\ pc = "up" /\ sept # Null /\ num_vals(sept) = N /\ UpPlace(p) /\ r = NextSept
      /\ up = AllVals(p)[Half + 1]
      /\ IsLow(lowH, lowK, AllVals(p), AllKids(p), Half + 1, height[sept])
      /\ IsHigh(highH, highK, AllVals(p), AllKids(p), Half + 1, height[sept])
      /\ split(r, up, lowH, lowK, highH, highK) /\ MoveKids(r, Range(highK))
      /\ UNCHANGED <<counts, slots>> /\ UNCHANGED <<load, ops, stage>>
      /\ hp' \in [Handles -> Septs \cup {Null}]
      /\ \A j \in 1..Half : hp'[lowH[j]] = sept
      /\ \A j \in 1..Half : hp'[highH[j]] = r
      /\ \A g \in Members : g # hndl_p /\ (\A i \in 1..N : hn[sept][i] # g) => hp'[g] = hp[g]
  BY DEF SplitAs
<1> USE <1>0
<1> USE DEF TreeInv
<1> DEFINE C == AllVals(p)
           D == AllKids(p)
<1>1. /\ sept \in used /\ hndl_p \in Handles /\ hn[sept] \in Seq(Handles) /\ Len(hn[sept]) = N
      /\ C \in Seq(Handles) /\ Len(C) = N + 1 /\ Between(C, lo[sept], hi[sept])
  BY AllValsFacts DEF num_vals
<1>2. /\ D \in Seq(Septs) /\ UpTo(sept) = sept /\ (left_down # Null => sept # right_down)
      /\ Spans(C, D, lo[sept], hi[sept], height[sept])
      /\ height[sept] = 0 <=> left_down = Null
      /\ left_down = Null => D = << >> /\ kid[sept] = << >>
      /\ \A j \in 1..Len(D) : D[j] \in used /\ parent[D[j]] = sept /\ D[j] # sept
      /\ \A i \in 1..Len(kid[sept]) : \E j \in 1..Len(D) : D[j] = kid[sept][i]
      /\ left_down # Null => Len(D) = Len(kid[sept]) + 1 /\ p \in 1..Len(kid[sept]) /\ D[p + 1] = right_down
      /\ left_down # Null => Len(kid[sept]) = N + 1
  BY <1>1, AllKidsFacts
<1>3. \A h : (\E j \in 1..Len(C) : C[j] = h) <=> h = hndl_p \/ \E i \in 1..N : hn[sept][i] = h
  <2>1. \A h : (\E j \in 1..Len(C) : C[j] = h) <=> h = hndl_p \/ \E i \in 1..Len(hn[sept]) : hn[sept][i] = h
    BY AllValsMembers
  <2> HIDE DEF C
  <2> QED BY <1>1, <2>1
<1>4. IsLow(lowH, lowK, C, D, Half + 1, height[sept]) /\ IsHigh(highH, highK, C, D, Half + 1, height[sept])
      /\ up = C[Half + 1]
  OBVIOUS
<1> HIDE DEF C, D
<1>5. /\ Half \in Nat /\ Half >= 2 /\ N = 2 * Half /\ N \in Nat /\ Half + 1 \in 1..Len(C)
      /\ Len(C) - (Half + 1) = Half /\ Len(C) = 2 * Half + 1
  <2>1. Len(C) = N + 1
    BY <1>1
  <2> QED BY ONLY <2>1, HalfFacts
<1>6. /\ lowH \in Seq(Handles) /\ lowK \in Seq(Septs) /\ Len(lowH) = Half
      /\ \A j \in 1..Half : lowH[j] = C[j]
      /\ highH \in Seq(Handles) /\ highK \in Seq(Septs) /\ Len(highH) = Half
      /\ \A j \in 1..Half : highH[j] = C[Half + 1 + j]
  <2>1. (Half + 1) - 1 = Half /\ 1..((Half + 1) - 1) = 1..Half
    BY ONLY <1>5
  <2> QED BY ONLY <1>4, <1>5, <2>1 DEF IsLow, IsHigh
<1>7. /\ Spans(lowH, lowK, lo[sept], up, height[sept]) /\ Spans(highH, highK, up, hi[sept], height[sept])
      /\ up \in Handles
  <2>1. /\ C \in Seq(Handles) /\ D \in Seq(Septs) /\ Spans(C, D, lo[sept], hi[sept], height[sept])
        /\ Half + 1 \in 1..Len(C)
    BY <1>1, <1>2, <1>5
  <2>2. Spans(lowH, lowK, lo[sept], C[Half + 1], height[sept])
    BY ONLY <1>4, <2>1, LowSpan
  <2>3. Spans(highH, highK, C[Half + 1], hi[sept], height[sept])
    BY ONLY <1>4, <2>1, HighSpan
  <2>4. C[Half + 1] \in Handles
    BY ONLY <2>1
  <2> QED BY ONLY <1>4, <2>2, <2>3, <2>4
<1>8. /\ \A j \in 1..Len(lowK) : \E k \in 1..Len(D) : lowK[j] = D[k]
      /\ \A j \in 1..Len(highK) : \E k \in 1..Len(D) : highK[j] = D[k]
      /\ \A k \in 1..Len(D) : (\E j \in 1..Len(lowK) : lowK[j] = D[k]) \/ (\E j \in 1..Len(highK) : highK[j] = D[k])
  <2>1. CASE height[sept] = 0
    <3>1. Len(lowK) = 0 /\ Len(highK) = 0 /\ Len(D) = 0
      BY <1>2, <1>4, <2>1 DEF IsLow, IsHigh
    <3> QED BY <3>1
  <2>2. CASE height[sept] # 0
    <3>1. /\ Len(D) = N + 2 /\ Len(lowK) = Half + 1 /\ \A j \in 1..(Half + 1) : lowK[j] = D[j]
          /\ Len(highK) = Len(D) - (Half + 1) /\ \A j \in 1..(Len(D) - (Half + 1)) : highK[j] = D[Half + 1 + j]
      BY <1>2, <1>4, <1>5, <2>2, SMTT(30) DEF IsLow, IsHigh
    <3>2. Len(highK) = Half + 1 /\ \A j \in 1..(Half + 1) : highK[j] = D[Half + 1 + j] /\ Half + 1 + j \in 1..Len(D)
      <4>1. Len(D) = N + 2
        BY ONLY <3>1
      <4>2. Len(D) - (Half + 1) = Half + 1 /\ \A j \in 1..(Half + 1) : Half + 1 + j \in 1..Len(D)
        BY ONLY <1>5, <4>1
      <4> QED BY ONLY <3>1, <4>2
    <3>3. \A k \in 1..Len(D) : k \in 1..(Half + 1) \/ (k - (Half + 1) \in 1..(Half + 1) /\ (Half + 1) + (k - (Half + 1)) = k)
      <4>1. Len(D) = 2 * Half + 2 /\ Half \in Nat
        BY ONLY <1>5, <3>1
      <4> QED BY ONLY <4>1
    <3>4. ASSUME NEW k \in 1..Len(D)
          PROVE  (\E j \in 1..Len(lowK) : lowK[j] = D[k]) \/ (\E j \in 1..Len(highK) : highK[j] = D[k])
      BY <3>1, <3>2, <3>3
    <3>5. \A j \in 1..Len(lowK) : j \in 1..Len(D)
      <4>1. Len(D) = 2 * Half + 2 /\ Half \in Nat /\ Len(lowK) = Half + 1
        BY ONLY <1>5, <3>1
      <4> QED BY ONLY <4>1
    <3> QED BY <3>1, <3>2, <3>4, <3>5
  <2> QED BY <2>1, <2>2
<1>9. r \in sn_reserve /\ r \in Septs /\ r \notin used /\ r \in Addresses /\ r # Null
  <2>1. r \in sn_reserve /\ r \in Septs /\ r \notin used
    BY ReserveForSplit
  <2> QED BY <2>1, AddressFacts
<1>10. /\ alloc_sept /\ hn' = [hn EXCEPT ![sept] = lowH, ![r] = highH]
       /\ kid' = [kid EXCEPT ![sept] = lowK, ![r] = highK]
       /\ pc' = "up" /\ sept' = parent[sept] /\ hndl_p' = up
       /\ left_down' = sept /\ right_down' = r
       /\ lo' = [lo EXCEPT ![r] = up] /\ hi' = [hi EXCEPT ![sept] = up, ![r] = hi[sept]]
       /\ height' = [height EXCEPT ![r] = height[sept]]
       /\ UNCHANGED <<root_sept, left_sept, pval, min, max>>
       /\ parent' = [q \in Addresses |-> IF q = r THEN parent[sept]
                                   ELSE IF q \in Range(highK) THEN r ELSE parent[q]]
  BY DEF split, MoveKids
<1>11. /\ sept \in Addresses /\ sept \in Septs /\ sept # r
       /\ hn \in [Addresses -> Seq(Handles)] /\ kid \in [Addresses -> Seq(Septs)]
       /\ lo \in [Addresses -> Handles \cup {NoHandle}] /\ hi \in [Addresses -> Handles \cup {NoHandle}]
       /\ height \in [Addresses -> Nat] /\ parent \in [Addresses -> Septs \cup {Null}]
  BY <1>1, <1>9, SeptFacts DEF TypeOK
<1>12. /\ hn'[sept] = lowH /\ hn'[r] = highH /\ kid'[sept] = lowK /\ kid'[r] = highK
       /\ lo'[sept] = lo[sept] /\ lo'[r] = up /\ hi'[sept] = up /\ hi'[r] = hi[sept]
       /\ height'[sept] = height[sept] /\ height'[r] = height[sept] /\ parent'[r] = parent[sept]
  <2>1. hn'[sept] = lowH /\ hn'[r] = highH /\ kid'[sept] = lowK /\ kid'[r] = highK
    BY <1>9, <1>10, <1>11
  <2>2. lo'[sept] = lo[sept] /\ lo'[r] = up /\ hi'[sept] = up /\ hi'[r] = hi[sept]
    BY <1>9, <1>10, <1>11
  <2>3. height'[sept] = height[sept] /\ height'[r] = height[sept] /\ parent'[r] = parent[sept]
    BY <1>9, <1>10, <1>11
  <2> QED BY <2>1, <2>2, <2>3
<1>13. \A q \in used :
         /\ q # sept => hn'[q] = hn[q] /\ kid'[q] = kid[q] /\ hi'[q] = hi[q]
         /\ lo'[q] = lo[q] /\ height'[q] = height[q]
         /\ parent'[q] = IF q \in Range(highK) THEN r ELSE parent[q]
         /\ q \in Addresses /\ q # r /\ q # Null
  <2> SUFFICES ASSUME NEW q \in used
               PROVE  /\ q # sept => hn'[q] = hn[q] /\ kid'[q] = kid[q] /\ hi'[q] = hi[q]
                      /\ lo'[q] = lo[q] /\ height'[q] = height[q]
                      /\ parent'[q] = IF q \in Range(highK) THEN r ELSE parent[q]
                      /\ q \in Addresses /\ q # r /\ q # Null
    OBVIOUS
  <2>1. q \in Addresses /\ q # r /\ q # Null
    BY <1>9, SeptFacts
  <2>2. q # sept => hn'[q] = hn[q] /\ kid'[q] = kid[q]
    BY <1>10, <1>11, <2>1
  <2>3. q # sept => hi'[q] = hi[q]
    BY <1>10, <1>11, <2>1
  <2>4. lo'[q] = lo[q] /\ height'[q] = height[q]
    BY <1>10, <1>11, <2>1
  <2>5. parent'[q] = IF q \in Range(highK) THEN r ELSE parent[q]
    BY <1>10, <2>1
  <2> QED BY <2>1, <2>2, <2>3, <2>4, <2>5
<1>14. /\ \A q \in Range(highK) : q \in used /\ parent[q] = sept /\ q # sept
       /\ \A j \in 1..Len(highK) : highK[j] \in Range(highK)
       /\ \A q \in Range(highK) : \E j \in 1..Len(highK) : highK[j] = q
  <2>1. /\ \A j \in 1..Len(highK) : highK[j] \in Range(highK)
        /\ \A q \in Range(highK) : \E j \in 1..Len(highK) : highK[j] = q
    BY <1>6, RangeFacts
  <2>2. ASSUME NEW q \in Range(highK) PROVE q \in used /\ parent[q] = sept /\ q # sept
    <3>1. PICK j \in 1..Len(highK) : highK[j] = q
      BY ONLY <2>1
    <3>2. PICK k \in 1..Len(D) : q = D[k]
      BY ONLY <1>8, <3>1
    <3> QED BY ONLY <1>2, <3>2
  <2> QED BY ONLY <2>1, <2>2
<1>15. Linking' /\ left_down' = sept /\ right_down' = r
  BY <1>1, <1>10, SeptFacts DEF Linking
<1>16. used' = used \cup {r}
  BY <1>10 DEF alloc_sept
<1>17. TypeOK'
  <2>1. hn' \in [Addresses -> Seq(Handles)] /\ kid' \in [Addresses -> Seq(Septs)]
    BY <1>6, <1>10, <1>11
  <2>2. lo' \in [Addresses -> Handles \cup {NoHandle}]
    BY <1>7, <1>10, <1>11
  <2>3. hi' \in [Addresses -> Handles \cup {NoHandle}]
    BY <1>7, <1>10, <1>11
  <2>4. height' \in [Addresses -> Nat]
    BY <1>10, <1>11
  <2>5. parent' \in [Addresses -> Septs \cup {Null}] /\ sept' \in Septs \cup {Null}
    BY <1>9, <1>10, <1>11
  <2>6. used' \subseteq Septs /\ sn_reserve' \subseteq Septs
    BY <1>9, <1>10 DEF TypeOK, alloc_sept
  <2> QED BY <1>7, <1>9, <1>10, <1>11, <2>1, <2>2, <2>3, <2>4, <2>5, <2>6 DEF TypeOK, PCs
<1>18. \A h : h \in Members' <=>
                \/ \E j \in 1..Len(C) : j # Half + 1 /\ C[j] = h
                \/ \E s \in used : s # sept /\ \E i \in 1..Len(hn[s]) : hn[s][i] = h
  <2>1. \A h : h \in Members' <=> \E s \in used' : \E i \in 1..Len(hn'[s]) : hn'[s][i] = h
    BY <1>17, MemberFactsPrime
  <2> SUFFICES ASSUME NEW h
               PROVE  h \in Members' <=>
                        \/ \E j \in 1..Len(C) : j # Half + 1 /\ C[j] = h
                        \/ \E s \in used : s # sept /\ \E i \in 1..Len(hn[s]) : hn[s][i] = h
    OBVIOUS
  <2>2. (\E j \in 1..Len(C) : j # Half + 1 /\ C[j] = h)
          <=> (\E i \in 1..Half : lowH[i] = h) \/ (\E i \in 1..Half : highH[i] = h)
    <3>1. \A i \in 1..Half : /\ i \in 1..Len(C) /\ i # Half + 1
                             /\ Half + 1 + i \in 1..Len(C) /\ Half + 1 + i # Half + 1
      BY ONLY <1>5
    <3>2. \A j \in 1..Len(C) : j # Half + 1 => j \in 1..Half \/ (j - (Half + 1) \in 1..Half /\ Half + 1 + (j - (Half + 1)) = j)
      BY ONLY <1>5
    <3>3. ASSUME NEW j \in 1..Len(C), j # Half + 1, C[j] = h
          PROVE  (\E i \in 1..Half : lowH[i] = h) \/ (\E i \in 1..Half : highH[i] = h)
      BY <1>6, <3>2, <3>3
    <3> QED BY <1>6, <3>1, <3>3
  <2>3. h \in Members' => \/ \E i \in 1..Half : lowH[i] = h
                          \/ \E i \in 1..Half : highH[i] = h
                          \/ \E s \in used : s # sept /\ \E i \in 1..Len(hn[s]) : hn[s][i] = h
    <3> SUFFICES ASSUME h \in Members'
                 PROVE  \/ \E i \in 1..Half : lowH[i] = h
                        \/ \E i \in 1..Half : highH[i] = h
                        \/ \E s \in used : s # sept /\ \E i \in 1..Len(hn[s]) : hn[s][i] = h
      OBVIOUS
    <3>1. PICK s \in used' : \E i \in 1..Len(hn'[s]) : hn'[s][i] = h
      BY <2>1
    <3>2. CASE s = sept
      BY <1>6, <1>12, <3>1, <3>2
    <3>3. CASE s = r
      BY <1>6, <1>12, <3>1, <3>3
    <3>4. CASE s # sept /\ s # r
      BY <1>13, <1>16, <3>1, <3>4
    <3> QED BY <3>2, <3>3, <3>4
  <2>4. (\E i \in 1..Half : lowH[i] = h) => h \in Members'
    BY <1>1, <1>6, <1>12, <1>16, <2>1
  <2>5. (\E i \in 1..Half : highH[i] = h) => h \in Members'
    BY <1>1, <1>6, <1>12, <1>16, <2>1
  <2>6. (\E s \in used : s # sept /\ \E i \in 1..Len(hn[s]) : hn[s][i] = h) => h \in Members'
    BY <1>13, <1>16, <2>1
  <2> QED BY <2>2, <2>3, <2>4, <2>5, <2>6
<1>19. \A h : h \in Members <=> \E s \in used : \E i \in 1..Len(hn[s]) : hn[s][i] = h
  BY MemberFacts
<1>20. up \notin Members'
  <2>1. ASSUME NEW j \in 1..Len(C), j # Half + 1 PROVE C[j] # up
    <3>1. \A i, k \in 1..Len(C) : i < k => Key[C[i]] < Key[C[k]]
      BY <1>1 DEF Between
    <3>2. Key[C[j]] \in Int /\ Key[up] \in Int
      BY <1>1, <1>7, OrderAssumption
    <3>3. j < Half + 1 \/ Half + 1 < j
      BY ONLY <1>5, <2>1
    <3>4. Half + 1 \in 1..Len(C) /\ C[Half + 1] = up
      BY ONLY <1>4, <1>5
    <3>5. Key[C[j]] < Key[up] \/ Key[up] < Key[C[j]]
      BY ONLY <3>1, <3>3, <3>4
    <3> QED BY ONLY <3>2, <3>5
  <2>2. ASSUME NEW s \in used, s # sept, NEW i \in 1..Len(hn[s]), hn[s][i] = up PROVE FALSE
    <3>1. up \in Members /\ hp[up] = s
      BY <1>19, <2>2, ValueFacts
    <3>2. \E k \in 1..N : hn[sept][k] = up
      BY <1>3, <1>4, <1>5, <3>1, UpFacts
    <3>3. hp[up] = sept
      BY <1>1, <3>2, ValueFacts
    <3> QED BY <2>2, <3>1, <3>3
  <2> QED BY <1>18, <2>1, <2>2
<1>21. Elements' = Elements
  <2>1. ASSUME NEW h PROVE h \in Members' \/ h = up <=> h \in Members \/ h = hndl_p
    <3>1. h \in Members' \/ h = up <=>
                \/ \E j \in 1..Len(C) : C[j] = h
                \/ \E s \in used : s # sept /\ \E i \in 1..Len(hn[s]) : hn[s][i] = h
      BY <1>4, <1>5, <1>18
    <3>2. h \in Members <=> \/ \E i \in 1..N : hn[sept][i] = h
                            \/ \E s \in used : s # sept /\ \E i \in 1..Len(hn[s]) : hn[s][i] = h
      BY <1>1, <1>19
    <3> QED BY <1>3, <3>1, <3>2
  <2>2. Members' \cup {up} = Members \cup {hndl_p}
    BY <2>1
  <2> QED BY <1>10, <2>2 DEF Elements
<1>22. SlotsInv'
  <2>1. Elements' \subseteq slots /\ stage # "gone" /\ stage' # "gone"
    BY <1>21, UpFacts DEF SlotsInv
  <2> QED BY <1>9, <1>10, <2>1, AllocSept
<1>23. \A q \in used : (IF Linking' /\ q = left_down' THEN right_down' ELSE q) = (IF q = sept THEN r ELSE q)
  BY <1>15
<1>24. ASSUME NEW s \in used, s = sept PROVE SeptInOrder(s)' /\ ChildrenAgree(s)'
  <2>1. \A j \in 1..Len(lowH) : hp'[lowH[j]] = s
    BY <1>6, <1>24
  <2>2. ASSUME NEW j \in 1..Len(lowK)
        PROVE  /\ lowK[j] \in used' /\ parent'[lowK[j]] = s /\ height'[lowK[j]] = height[lowK[j]]
               /\ lo'[lowK[j]] = lo[lowK[j]]
               /\ hi'[IF Linking' /\ lowK[j] = left_down' THEN right_down' ELSE lowK[j]] = hi[lowK[j]]
    <3>1. lowK[j] \in used /\ parent[lowK[j]] = sept /\ lowK[j] # sept
      BY <1>2, <1>8
    <3>2. lowK[j] \notin Range(highK)
      <4>1. ASSUME NEW k \in 1..Len(highK), highK[k] = lowK[j] PROVE FALSE
        <5>1. height[sept] # 0
          <6>1. height[sept] = 0 => Len(lowK) = 0
            BY <1>4 DEF IsLow
          <6> QED BY <6>1
        <5>2. /\ Len(lowK) = Half + 1 /\ Len(highK) = Half + 1
              /\ hi[lowK[j]] = (IF j = Half + 1 THEN up ELSE lowH[j])
              /\ hi[highK[k]] = (IF k = Half + 1 THEN hi[sept] ELSE highH[k])
          <6>1. Len(lowK) = Half + 1 /\ hi[lowK[j]] = (IF j = Len(lowK) THEN up ELSE lowH[j])
            BY ONLY <1>6, <1>7, <5>1, j \in 1..Len(lowK) DEF Spans
          <6>2. Len(highK) = Half + 1 /\ hi[highK[k]] = (IF k = Len(highK) THEN hi[sept] ELSE highH[k])
            BY ONLY <1>6, <1>7, <5>1, k \in 1..Len(highK) DEF Spans
          <6> QED BY ONLY <6>1, <6>2
        <5>3. j \in 1..(Half + 1) /\ k \in 1..(Half + 1)
          BY <5>2
        <5>4. \A i, m \in 1..Len(C) : i < m => Key[C[i]] < Key[C[m]]
          BY <1>1 DEF Between
        <5>5. PICK x \in 1..(Half + 1) : hi[lowK[j]] = C[x]
          <6>1. CASE j = Half + 1
            BY ONLY <1>4, <1>5, <5>2, <6>1
          <6>2. CASE j # Half + 1
            <7>1. j \in 1..Half /\ j \in 1..(Half + 1)
              BY ONLY <1>5, <5>3, <6>2
            <7> QED BY <1>6, <5>2, <6>2, <7>1
          <6> QED BY <6>1, <6>2
        <5>6. x \in 1..Len(C) /\ Before(C[x], hi[sept]) /\ C[x] \in Handles /\ Key[C[x]] \in Int
          BY <1>1, <1>5, <5>5, OrderAssumption, SMTT(30) DEF Between
        <5>7. CASE k = Half + 1
          BY <4>1, <5>2, <5>5, <5>6, <5>7, OrderAssumption DEF Before
        <5>8. CASE k # Half + 1
          <6>1. k \in 1..Half /\ Half + 1 + k \in 1..Len(C) /\ x < Half + 1 + k
            BY ONLY <1>5, <5>3, <5>8
          <6>2. highH[k] = C[Half + 1 + k] /\ Key[C[x]] < Key[C[Half + 1 + k]]
            BY <1>6, <5>4, <5>6, <6>1
          <6> QED BY <4>1, <5>2, <5>5, <5>6, <5>8, <6>2
        <5> QED BY <5>7, <5>8
      <4> QED BY <1>14, <4>1
    <3> QED BY <1>13, <1>16, <1>23, <1>24, <3>1, <3>2
  <2>3. hn'[s] = lowH /\ kid'[s] = lowK /\ lo'[s] = lo[s] /\ hi'[s] = up /\ height'[s] = height[s]
    BY <1>12, <1>24
  <2>4. Spans(lowH, lowK, lo[s], up, height[s]) /\ height[s] \in Nat /\ Len(lowH) <= N
    <3>1. Half <= N /\ Len(lowH) = Half
      BY ONLY <1>5, <1>6
    <3>2. Spans(lowH, lowK, lo[s], up, height[s])
      BY ONLY <1>7, <1>24
    <3>3. height[s] \in Nat
      BY SeptFacts
    <3> QED BY ONLY <3>1, <3>2, <3>3
  <2>5. Receives(s, lowH, lowK, lo[s], up, height[s])
    BY ONLY <1>6, <2>1, <2>2, <2>3, <2>4 DEF Receives
  <2> QED BY <2>5, Installed
<1>25. SeptInOrder(r)' /\ ChildrenAgree(r)'
  <2>1. \A j \in 1..Len(highH) : hp'[highH[j]] = r
    BY <1>6
  <2>2. ASSUME NEW j \in 1..Len(highK)
        PROVE  /\ highK[j] \in used' /\ parent'[highK[j]] = r /\ height'[highK[j]] = height[highK[j]]
               /\ lo'[highK[j]] = lo[highK[j]]
               /\ hi'[IF Linking' /\ highK[j] = left_down' THEN right_down' ELSE highK[j]] = hi[highK[j]]
    BY <1>13, <1>14, <1>16, <1>23
  <2>3. Spans(highH, highK, up, hi[sept], height[sept]) /\ height[sept] \in Nat /\ Len(highH) <= N
    BY <1>1, <1>5, <1>6, <1>7, SeptFacts
  <2>4. Receives(r, highH, highK, up, hi[sept], height[sept])
    BY ONLY <1>6, <1>12, <2>1, <2>2, <2>3 DEF Receives
  <2> QED BY <2>4, Installed
<1>26. ASSUME NEW s \in used, s # sept PROVE SeptInOrder(s)' /\ ChildrenAgree(s)'
  <2>1. /\ hn[s] \in Seq(Handles) /\ kid[s] \in Seq(Septs) /\ Len(hn[s]) <= N /\ height[s] \in Nat
    BY SeptFacts
  <2>2. Spans(hn[s], kid[s], lo[s], hi[s], height[s])
    <3>1. ~(Linking /\ parent[left_down] = s)
      BY <1>26, UpFacts DEF Linking
    <3> QED BY <3>1, OwnSpan
  <2>3. \A j \in 1..Len(hn[s]) : hp'[hn[s][j]] = s
    <3> SUFFICES ASSUME NEW j \in 1..Len(hn[s]) PROVE hp'[hn[s][j]] = s
      OBVIOUS
    <3>1. hn[s][j] \in Members /\ hn[s][j] # hndl_p /\ hp[hn[s][j]] = s
      BY <1>19, UpFacts, ValueFacts
    <3>2. \A i \in 1..N : hn[sept][i] # hn[s][j]
      BY <1>1, <1>26, <3>1, ValueFacts
    <3> QED BY <3>1, <3>2
  <2>4. ASSUME NEW j \in 1..Len(kid[s])
        PROVE  /\ kid[s][j] \in used' /\ parent'[kid[s][j]] = s /\ height'[kid[s][j]] = height[kid[s][j]]
               /\ lo'[kid[s][j]] = lo[kid[s][j]]
               /\ hi'[IF Linking' /\ kid[s][j] = left_down' THEN right_down' ELSE kid[s][j]] = hi[kid[s][j]]
    <3>1. kid[s][j] \in used /\ parent[kid[s][j]] = s
      BY KidFacts
    <3>2. kid[s][j] \notin Range(highK)
      BY <1>14, <1>26, <3>1
    <3> QED BY <1>12, <1>13, <1>16, <1>23, <3>1, <3>2
  <2>5. hn'[s] = hn[s] /\ kid'[s] = kid[s] /\ lo'[s] = lo[s] /\ hi'[s] = hi[s] /\ height'[s] = height[s]
    BY <1>13, <1>26
  <2>6. Receives(s, hn[s], kid[s], lo[s], hi[s], height[s])
    BY ONLY <2>1, <2>2, <2>3, <2>4, <2>5 DEF Receives
  <2> QED BY <2>6, Installed
<1>27. ASSUME NEW s \in used, s # root_sept PROVE ParentAgrees(s)'
  <2>1. ~(left_down # Null /\ s = right_down) => ParentAgrees(s)
    BY <1>27 DEF ShapeInv, Linking
  <2>2. parent[s] \in used /\ height[s] < height[root_sept]
    <3>1. CASE left_down # Null /\ s = right_down
      BY <3>1, UpFacts, UpParent
    <3>2. CASE ~(left_down # Null /\ s = right_down)
      BY <2>1, <3>2 DEF ParentAgrees
    <3> QED BY <3>1, <3>2
  <2>3. parent'[s] \in used' /\ \E j \in 1..Len(kid'[parent'[s]]) : kid'[parent'[s]][j] = s
    <3>1. CASE s \in Range(highK)
      BY <1>12, <1>13, <1>14, <1>16, <3>1
    <3>2. CASE s \notin Range(highK) /\ parent[s] = sept
      <4>1. \E k \in 1..Len(D) : D[k] = s
        <5>1. CASE left_down # Null /\ s = right_down
          <6>1. Len(kid[sept]) \in Nat
            BY <1>1, SeptFacts
          <6> QED BY <1>2, <5>1, <6>1
        <5>2. CASE ~(left_down # Null /\ s = right_down)
          <6>1. PICK i \in 1..Len(kid[parent[s]]) : kid[parent[s]][i] = s
            BY <2>1, <5>2 DEF ParentAgrees
          <6>2. i \in 1..Len(kid[sept]) /\ kid[sept][i] = s
            BY <3>2, <6>1
          <6> QED BY ONLY <1>2, <6>2
        <5> QED BY <5>1, <5>2
      <4>2. \E j \in 1..Len(lowK) : lowK[j] = s
        BY <1>8, <1>14, <3>2, <4>1
      <4> QED BY <1>1, <1>12, <1>13, <1>16, <3>2, <4>2
    <3>3. CASE s \notin Range(highK) /\ parent[s] # sept
      <4>1. ~(left_down # Null /\ s = right_down)
        BY <3>3, UpFacts
      <4>2. PICK i \in 1..Len(kid[parent[s]]) : kid[parent[s]][i] = s
        BY <2>1, <4>1 DEF ParentAgrees
      <4> QED BY <1>13, <1>16, <2>2, <3>3, <4>2
    <3> QED BY <3>1, <3>2, <3>3
  <2>4. root_sept \in used
    BY DEF ShapeInv, RootAgrees
  <2>5. height'[s] < height'[root_sept']
    BY <1>10, <1>13, <2>2, <2>4
  <2> QED BY <2>3, <2>5 DEF ParentAgrees
<1>28. RootAgrees'
  <2>1. root_sept # Null => UpTo(root_sept) = root_sept
    <3>1. left_down # Null => left_down # root_sept
      BY UpParent
    <3> QED BY <3>1 DEF UpTo, Linking
  <2>2. /\ root_sept \in used /\ parent[root_sept] = Null /\ root_sept # Null /\ left_sept # Null
        /\ lo[root_sept] = NoHandle /\ hi[root_sept] = NoHandle
        /\ left_sept \in used /\ kid[left_sept] = << >> /\ lo[left_sept] = NoHandle
    BY <1>1, <2>1 DEF ShapeInv, RootAgrees, is_leaf
  <2>3. kid'[left_sept] = << >>
    <3>1. CASE left_sept = sept
      <4>1. height[sept] = 0
        BY <1>1, <2>2, <3>1, SeptFacts
      <4> QED BY <1>4, <1>12, <3>1, <4>1 DEF IsLow
    <3>2. CASE left_sept # sept
      BY <1>13, <2>2, <3>2
    <3> QED BY <3>1, <3>2
  <2>4. hi'[UpTo(root_sept)'] = NoHandle
    <3>1. UpTo(root_sept)' = IF root_sept = sept THEN r ELSE root_sept
      BY <1>10, <1>15 DEF UpTo
    <3> QED BY <1>12, <1>13, <2>2, <3>1
  <2>5. parent'[root_sept] = Null /\ lo'[root_sept] = NoHandle /\ lo'[left_sept] = NoHandle
    <3>1. root_sept \notin Range(highK)
      BY <1>14, <2>2
    <3> QED BY <1>13, <2>2, <3>1
  <2>6. used' # {}
    BY <1>1, <1>16
  <2> QED BY <1>10, <1>16, <2>2, <2>3, <2>4, <2>5, <2>6 DEF RootAgrees, is_leaf
<1>29. ShapeInv'
  <2>1. ASSUME NEW s \in used'
        PROVE  /\ SeptInOrder(s)' /\ ChildrenAgree(s)'
               /\ s # root_sept' => (Linking /\ s = right_down)' \/ ParentAgrees(s)'
    <3>1. CASE s = r
      BY <1>15, <1>25, <3>1
    <3>2. CASE s # r
      <4>1. s \in used
        BY <1>16, <3>2
      <4> QED BY <1>10, <1>24, <1>26, <1>27, <4>1
    <3> QED BY <3>1, <3>2
  <2> QED BY <1>28, <2>1 DEF ShapeInv
<1>30. FillInv'
  <2>1. ASSUME NEW s \in used' PROVE Filled(s)'
    <3>1. CASE s = sept
      BY <1>5, <1>6, <1>12, <3>1 DEF Filled, num_vals
    <3>2. CASE s = r
      BY <1>5, <1>6, <1>12, <3>2 DEF Filled, num_vals
    <3>3. CASE s # r /\ s # sept
      <4>1. s \in used
        BY <1>16, <3>3
      <4>2. Filled(s)
        BY <3>3, <4>1 DEF FillInv
      <4> QED BY <1>10, <1>13, <3>3, <4>1, <4>2 DEF Filled, num_vals
    <3> QED BY <3>1, <3>2, <3>3
  <2> QED BY <2>1 DEF FillInv
<1>31. UpInv'
  <2>1. parent'[sept] = parent[sept]
    BY <1>1, <1>13, <1>14
  <2>2. After(lo[sept], up) /\ Before(up, hi[sept])
    BY <1>1, <1>4, <1>5 DEF Between
  <2>3. r # root_sept
    BY <1>1, <1>9 DEF ShapeInv, RootAgrees
  <2>4. ASSUME NEW s \in used', NEW i \in 1..Len(kid'[s]) PROVE kid'[s][i] # r
    <3>1. CASE s = sept
      <4>1. i \in 1..Len(lowK) /\ kid'[s][i] = lowK[i]
        BY <1>12, <3>1
      <4>2. PICK k \in 1..Len(D) : lowK[i] = D[k]
        BY ONLY <1>8, <4>1
      <4> QED BY ONLY <1>2, <1>9, <4>1, <4>2
    <3>2. CASE s = r
      <4>1. i \in 1..Len(highK) /\ kid'[s][i] = highK[i]
        BY <1>12, <3>2
      <4>2. PICK k \in 1..Len(D) : highK[i] = D[k]
        BY ONLY <1>8, <4>1
      <4> QED BY ONLY <1>2, <1>9, <4>1, <4>2
    <3>3. CASE s # r /\ s # sept
      <4>1. s \in used /\ kid'[s] = kid[s]
        BY <1>13, <1>16, <3>3
      <4>2. kid[s][i] \in used
        BY <2>4, <4>1, KidFacts
      <4> QED BY <1>9, <4>1, <4>2
    <3> QED BY <3>1, <3>2, <3>3
  <2>5. IF parent[sept] = Null THEN sept = root_sept ELSE parent[sept] \in used
    <3>1. sept # root_sept => ParentAgrees(sept)
      BY <1>1, <1>2 DEF ShapeInv, Linking
    <3>2. sept # root_sept => parent[sept] \in used /\ parent[sept] # Null
      BY <3>1, SeptFacts DEF ParentAgrees
    <3>3. sept = root_sept => parent[sept] = Null
      BY <1>1, SeptFacts DEF ShapeInv, RootAgrees
    <3> QED BY <3>2, <3>3
  <2>7. Len(hn'[left_down']) = Half /\ Len(hn'[right_down']) = Half
    BY <1>6, <1>12, <1>15
  <2>8. left_down' # Null /\ left_down' \in used' /\ right_down' \in used' /\ left_down' # right_down'
    BY <1>1, <1>11, <1>13, <1>15, <1>16
  <2>9. /\ height'[left_down'] = height'[right_down']
        /\ parent'[left_down'] = sept' /\ parent'[right_down'] = sept'
        /\ hi'[left_down'] = hndl_p' /\ lo'[right_down'] = hndl_p'
    BY <1>10, <1>12, <1>15, <2>1
  <2>10. After(lo'[left_down'], hndl_p') /\ Before(hndl_p', hi'[right_down'])
    BY <1>10, <1>12, <1>15, <2>2
  <2>11. /\ right_down' # root_sept'
         /\ \A s \in used' : \A i \in 1..Len(kid'[s]) : kid'[s][i] # right_down'
         /\ IF sept' = Null THEN left_down' = root_sept' ELSE sept' \in used'
    <3>1. right_down' = r /\ root_sept' = root_sept /\ left_down' = sept /\ sept' = parent[sept]
      BY ONLY <1>10, <1>15
    <3>2. parent[sept] \in used => parent[sept] \in used'
      BY ONLY <1>16
    <3> QED BY ONLY <2>3, <2>4, <2>5, <3>1, <3>2
  <2>12. hndl_p' \notin Members'
    BY <1>10, <1>20
  <2>13. After(lo[left_down], hndl_p)' /\ Before(hndl_p, hi[right_down])'
    BY <2>10 DEF After, Before
  <2> QED BY <2>7, <2>8, <2>9, <2>11, <2>12, <2>13 DEF UpInv, num_vals
<1>32. OpInv'
  BY <1>7, <1>10, <1>31 DEF OpInv, SearchInv, SuccInv, FindInv, FindsMembers
<1> QED BY <1>17, <1>21, <1>22, <1>29, <1>30, <1>32

LEMMA HalvesFacts ==
    ASSUME TreeInv, pc = "up", sept # Null, num_vals(sept) = N
    PROVE  /\ sept \in used /\ hn[sept] \in Seq(Handles) /\ Len(hn[sept]) = N
           /\ low_half(hn[sept]) \in Seq(Handles) /\ Len(low_half(hn[sept])) = Half
           /\ \A j \in 1..Half : low_half(hn[sept])[j] = hn[sept][j]
           /\ high_half(hn[sept]) \in Seq(Handles) /\ Len(high_half(hn[sept])) = Half
           /\ \A j \in 1..Half : high_half(hn[sept])[j] = hn[sept][Half + j]
<1> USE DEF TreeInv
<1>1. sept \in used /\ hn[sept] \in Seq(Handles) /\ Len(hn[sept]) = N
  <2>1. sept \in used
    BY UpFacts
  <2> QED BY <2>1, SeptFacts DEF num_vals
<1>2. PICK hs \in Seq(Handles) : hs = hn[sept] /\ Len(hs) = N
  BY <1>1
<1>3. /\ 1 \in 1..(Len(hs) + 1) /\ Half \in 0..Len(hs) /\ 1 <= Half + 1 /\ Half - 1 + 1 = Half
      /\ Half + 1 \in 1..(Len(hs) + 1) /\ N \in 0..Len(hs) /\ Half + 1 <= N + 1 /\ N - (Half + 1) + 1 = Half
  BY ONLY <1>2, HalfFacts
<1>4. /\ SubSeq(hs, 1, Half) \in Seq(Handles) /\ Len(SubSeq(hs, 1, Half)) = Half - 1 + 1
      /\ \A j \in 1..(Half - 1 + 1) : SubSeq(hs, 1, Half)[j] = hs[1 + j - 1]
  BY ONLY <1>3, SubSeqFacts
<1>5. /\ SubSeq(hs, Half + 1, N) \in Seq(Handles) /\ Len(SubSeq(hs, Half + 1, N)) = N - (Half + 1) + 1
      /\ \A j \in 1..(N - (Half + 1) + 1) : SubSeq(hs, Half + 1, N)[j] = hs[(Half + 1) + j - 1]
  BY ONLY <1>3, SubSeqFacts
<1>6. \A j \in 1..Half : 1 + j - 1 = j /\ (Half + 1) + j - 1 = Half + j
  BY ONLY HalfFacts
<1>7. /\ SubSeq(hs, 1, Half) \in Seq(Handles) /\ Len(SubSeq(hs, 1, Half)) = Half
      /\ \A j \in 1..Half : SubSeq(hs, 1, Half)[j] = hs[j]
      /\ SubSeq(hs, Half + 1, N) \in Seq(Handles) /\ Len(SubSeq(hs, Half + 1, N)) = Half
      /\ \A j \in 1..Half : SubSeq(hs, Half + 1, N)[j] = hs[Half + j]
  BY ONLY <1>3, <1>4, <1>5, <1>6
<1> QED BY ONLY <1>1, <1>2, <1>7 DEF low_half, high_half

\* Which handles point to the new sibling after a split.
LEMMA SplitMoves ==
    ASSUME TreeInv, pc = "up", sept # Null, num_vals(sept) = N, NEW r \in Septs,
           NEW h \in {hndl_p, NoHandle}, NEW t \in Septs \cup {Null},
           MoveTo(r, Range(high_half(hn[sept])), h, t)
    PROVE  /\ hp' \in [Handles -> Septs \cup {Null}]
           /\ \A i \in 1..N : hp'[hn[sept][i]] = IF i <= Half THEN sept ELSE r
           /\ h = hndl_p => hp'[hndl_p] = t
           /\ \A g \in Members : g # hndl_p /\ (\A i \in 1..N : hn[sept][i] # g) => hp'[g] = hp[g]
<1> USE DEF TreeInv
<1>1. PICK hs, G : hs = hn[sept] /\ G = Range(high_half(hn[sept]))
  OBVIOUS
<1>2. hp' = [g \in Handles |-> IF g = h THEN t ELSE IF g \in G THEN r ELSE hp[g]]
  BY <1>1 DEF MoveTo
<1>3. /\ sept \in used /\ hs \in Seq(Handles) /\ Len(hs) = N /\ hndl_p \in Handles /\ hndl_p \notin Members
      /\ hp \in [Handles -> Septs \cup {Null}] /\ NoHandle \notin Handles
  BY <1>1, HalvesFacts, UpFacts, OrderAssumption DEF TypeOK
<1>4. /\ \A g \in G : \E i \in 1..Half : g = hs[Half + i]
      /\ \A i \in 1..Half : hs[Half + i] \in G
  <2>1. PICK high \in Seq(Handles) : high = high_half(hn[sept])
    BY HalvesFacts
  <2>2. Len(high) = Half /\ \A j \in 1..Half : high[j] = hs[Half + j]
    BY <1>1, <2>1, HalvesFacts
  <2>3. /\ \A i \in 1..Len(high) : high[i] \in Range(high)
        /\ \A x \in Range(high) : \E i \in 1..Len(high) : high[i] = x
    BY RangeFacts
  <2>4. G = Range(high)
    BY <1>1, <2>1
  <2> QED BY ONLY <2>2, <2>3, <2>4
<1>5. \A i \in 1..N : /\ hs[i] \in Handles /\ hs[i] # h /\ hs[i] \in Members /\ hp[hs[i]] = sept
                      /\ Key[hs[i]] \in Int
  <2> SUFFICES ASSUME NEW i \in 1..N
               PROVE  hs[i] \in Handles /\ hs[i] # h /\ hs[i] \in Members /\ hp[hs[i]] = sept /\ Key[hs[i]] \in Int
    OBVIOUS
  <2>1. hs[i] \in Members
    BY <1>1, <1>3, MemberFacts
  <2>2. hs[i] \in Handles /\ hp[hs[i]] = sept /\ Key[hs[i]] \in Int
    BY <1>1, <1>3, ValueFacts
  <2> QED BY <1>3, <2>1, <2>2
<1>6. \A i, j \in 1..N : i < j => Key[hs[i]] < Key[hs[j]]
  BY <1>1, <1>3, ValueFacts
<1>7. ASSUME NEW i \in 1..N PROVE hp'[hs[i]] = IF i <= Half THEN sept ELSE r
  <2>1. CASE i <= Half
    <3>1. hs[i] \notin G
      <4>1. ASSUME NEW k \in 1..Half, hs[i] = hs[Half + k] PROVE FALSE
        <5>1. Half + k \in 1..N /\ i < Half + k
          BY ONLY <2>1, HalfFacts
        <5> QED BY <1>5, <1>6, <4>1, <5>1
      <4> QED BY <1>4, <4>1
    <3> QED BY <1>2, <1>5, <2>1, <3>1
  <2>2. CASE ~(i <= Half)
    <3>1. i - Half \in 1..Half /\ Half + (i - Half) = i
      BY ONLY <2>2, HalfFacts
    <3>2. hs[i] \in G
      BY <1>4, <3>1
    <3> QED BY <1>2, <1>5, <2>2, <3>2
  <2> QED BY <2>1, <2>2
<1>8. hp' \in [Handles -> Septs \cup {Null}]
  BY <1>2, <1>3
<1>9. h = hndl_p => hp'[hndl_p] = t
  BY <1>2, <1>3
<1>10. ASSUME NEW g \in Members, g # hndl_p, \A i \in 1..N : hs[i] # g PROVE hp'[g] = hp[g]
  <2>1. g \in Handles /\ g # h
    <3>1. g \in Handles
      BY MemberFacts
    <3> QED BY <1>3, <1>10, <3>1
  <2>2. g \notin G
    <3>1. \A i \in 1..Half : Half + i \in 1..N
      BY ONLY HalfFacts
    <3> QED BY <1>4, <1>10, <3>1
  <2> QED BY <1>2, <2>1, <2>2
<1> QED BY <1>1, <1>7, <1>8, <1>9, <1>10

\* The values and children of a full sept, hs and ks, with the new ones at p.
FullAt(p, hs, ks) ==
    /\ UpPlace(p) /\ hs = hn[sept] /\ ks = kid[sept] /\ Len(hs) = N
    /\ \A j \in 1..N : IF j < p THEN Key[hs[j]] < Key[hndl_p] ELSE Key[hndl_p] < Key[hs[j]]
    /\ \A j \in 1..(N + 1) : /\ j < p => AllVals(p)[j] = hs[j]
                             /\ j = p => AllVals(p)[j] = hndl_p
                             /\ j > p => AllVals(p)[j] = hs[j - 1]
    /\ Len(AllVals(p)) = N + 1
    /\ height[sept] = 0 <=> left_down = Null
    /\ left_down # Null =>
         /\ left_down \in Septs /\ right_down \in Septs
         /\ Len(ks) = N + 1 /\ Len(AllKids(p)) = N + 2 /\ ks[p] = left_down
         /\ \A j \in 1..(N + 2) : /\ j <= p => AllKids(p)[j] = ks[j]
                                  /\ j = p + 1 => AllKids(p)[j] = right_down
                                  /\ j > p + 1 => AllKids(p)[j] = ks[j - 1]

LEMMA FullFacts ==
    ASSUME TreeInv, pc = "up", sept # Null, num_vals(sept) = N
    PROVE  \E p \in 1..(N + 1), hs \in Seq(Handles), ks \in Seq(Septs) : FullAt(p, hs, ks)
<1> USE DEF TreeInv
<1>1. PICK p \in 1..(num_vals(sept) + 1) : UpPlace(p)
  BY HasUpPlace
<1>2. PICK hs, ks : hs = hn[sept] /\ ks = kid[sept]
  OBVIOUS
<1>3. p \in 1..(N + 1) /\ N \in Nat
  BY HalfFacts
<1>4. /\ hs \in Seq(Handles) /\ Len(hs) = N /\ Len(AllVals(p)) = N + 1
      /\ \A j \in 1..(N + 1) : /\ j < p => AllVals(p)[j] = hs[j]
                               /\ j = p => AllVals(p)[j] = hndl_p
                               /\ j > p => AllVals(p)[j] = hs[j - 1]
  <2>1. /\ hs \in Seq(Handles) /\ Len(hs) = N /\ Len(AllVals(p)) = N + 1
        /\ \A j \in 1..(N + 1) : AllVals(p)[j] = IF j < p THEN hs[j] ELSE IF j = p THEN hndl_p ELSE hs[j - 1]
    BY <1>1, <1>2, AllValsFacts DEF num_vals
  <2>2. \A j \in 1..(N + 1) : (j = p => ~(j < p)) /\ (j > p => ~(j < p) /\ j # p)
    BY ONLY <1>3
  <2> QED BY ONLY <2>1, <2>2
<1>5. sept \in used /\ ks \in Seq(Septs)
  <2>1. sept \in used
    BY UpFacts
  <2> QED BY <1>2, <2>1, SeptFacts
<1>6. \A j \in 1..N : IF j < p THEN Key[hs[j]] < Key[hndl_p] ELSE Key[hndl_p] < Key[hs[j]]
  BY <1>1, <1>2 DEF UpPlace, Place
<1>7. height[sept] = 0 <=> left_down = Null
  BY <1>1, AllKidsFacts
<1>8. ASSUME left_down # Null
      PROVE  /\ left_down \in Septs /\ right_down \in Septs
             /\ Len(ks) = N + 1 /\ Len(AllKids(p)) = N + 2 /\ ks[p] = left_down
             /\ \A j \in 1..(N + 2) : /\ j <= p => AllKids(p)[j] = ks[j]
                                      /\ j = p + 1 => AllKids(p)[j] = right_down
                                      /\ j > p + 1 => AllKids(p)[j] = ks[j - 1]
  <2>1. left_down \in Septs /\ right_down \in Septs
    BY <1>8, UpFacts, SeptFacts
  <2>2. ks[p] = left_down
    BY <1>1, <1>2, <1>8 DEF UpPlace
  <2>3. /\ Len(ks) = Len(hs) + 1 /\ Len(AllKids(p)) = Len(ks) + 1
        /\ \A j \in 1..(Len(ks) + 1) : AllKids(p)[j] = IF j <= p THEN ks[j] ELSE IF j = p + 1 THEN right_down
                                                       ELSE ks[j - 1]
    BY <1>1, <1>2, <1>8, AllKidsFacts
  <2>4. Len(ks) = N + 1 /\ Len(ks) + 1 = N + 2
    BY ONLY <1>3, <1>4, <2>3
  <2>5. \A j \in 1..(N + 2) : (j = p + 1 => ~(j <= p)) /\ (j > p + 1 => ~(j <= p) /\ j # p + 1)
    BY ONLY <1>3
  <2> QED BY ONLY <2>1, <2>2, <2>3, <2>4, <2>5
<1>9. FullAt(p, hs, ks)
  BY <1>1, <1>2, <1>4, <1>6, <1>7, <1>8 DEF FullAt
<1> QED BY <1>3, <1>4, <1>5, <1>9

LEMMA SplitLowStep == ASSUME TreeInv, split_low PROVE TreeInv' /\ Elements' = Elements
<1>1. /\ pc = "up" /\ sept # Null /\ num_vals(sept) = N
      /\ UNCHANGED <<counts, slots>> /\ UNCHANGED <<load, ops, stage>>
  BY DEF split_low, Full, At, slotVars, envVars
<1>2. PICK p \in 1..(N + 1), hs \in Seq(Handles), ks \in Seq(Septs) : FullAt(p, hs, ks)
  BY <1>1, FullFacts
<1>3. /\ UpPlace(p) /\ hs = hn[sept] /\ ks = kid[sept] /\ Len(hs) = N
      /\ \A j \in 1..N : IF j < p THEN Key[hs[j]] < Key[hndl_p] ELSE Key[hndl_p] < Key[hs[j]]
      /\ \A j \in 1..(N + 1) : /\ j < p => AllVals(p)[j] = hs[j]
                               /\ j = p => AllVals(p)[j] = hndl_p
                               /\ j > p => AllVals(p)[j] = hs[j - 1]
      /\ Len(AllVals(p)) = N + 1
      /\ height[sept] = 0 <=> left_down = Null
      /\ left_down # Null =>
           /\ left_down \in Septs /\ right_down \in Septs
           /\ Len(ks) = N + 1 /\ Len(AllKids(p)) = N + 2 /\ ks[p] = left_down
           /\ \A j \in 1..(N + 2) : /\ j <= p => AllKids(p)[j] = ks[j]
                                    /\ j = p + 1 => AllKids(p)[j] = right_down
                                    /\ j > p + 1 => AllKids(p)[j] = ks[j - 1]
  BY <1>2 DEF FullAt
<1>4. PICK low \in Seq(Handles), high \in Seq(Handles) :
        /\ low = low_half(hn[sept]) /\ Len(low) = Half /\ \A j \in 1..Half : low[j] = hs[j]
        /\ high = high_half(hn[sept]) /\ Len(high) = Half /\ \A j \in 1..Half : high[j] = hs[Half + j]
  BY <1>1, <1>3, HalvesFacts
<1>5. PICK rest, r, up, lowH, lowK, moved :
        /\ rest = Front(low) /\ r = NextSept /\ up = low[Half] /\ lowH = WithVal(rest, hndl_p)
        /\ lowK = WithKids(SubSeq(ks, 1, Half), PlaceOf(rest, hndl_p))
        /\ moved = IF left_down = Null THEN << >> ELSE SubSeq(ks, Half + 1, N + 1)
  OBVIOUS
<1>6. /\ Key[hndl_p] < Key[low[Half]] /\ split(r, up, lowH, lowK, high, moved)
      /\ MoveTo(r, Range(high_half(hn[sept])), hndl_p, sept) /\ MoveKids(r, Range(moved))
  BY <1>3, <1>4, <1>5 DEF split_low
<1>7. Half \in Nat /\ Half >= 2 /\ N = 2 * Half /\ N \in Nat /\ p \in Nat /\ hndl_p \in Handles
  BY <1>1, HalfFacts, UpFacts
<1>8. p <= Half
  <2>1. Half \in 1..N /\ low[Half] = hs[Half] /\ hs[Half] \in Handles
    BY ONLY <1>3, <1>4, <1>7
  <2>2. Key[hs[Half]] \in Int /\ Key[hndl_p] \in Int
    BY <1>7, <2>1, OrderAssumption
  <2>3. ~(Half < p)
    BY ONLY <1>3, <1>6, <2>1, <2>2
  <2> QED BY ONLY <1>7, <2>3
<1>9. rest \in Seq(Handles) /\ Len(rest) = Half - 1 /\ \A j \in 1..(Half - 1) : rest[j] = hs[j]
  <2>1. /\ 1 \in 1..(Len(low) + 1) /\ Len(low) - 1 \in 0..Len(low) /\ 1 <= (Len(low) - 1) + 1
        /\ (Len(low) - 1) - 1 + 1 = Half - 1 /\ \A j \in 1..(Half - 1) : 1 + j - 1 = j /\ j \in 1..Half
    BY ONLY <1>4, <1>7
  <2>2. /\ SubSeq(low, 1, Len(low) - 1) \in Seq(Handles)
        /\ Len(SubSeq(low, 1, Len(low) - 1)) = (Len(low) - 1) - 1 + 1
        /\ \A j \in 1..((Len(low) - 1) - 1 + 1) : SubSeq(low, 1, Len(low) - 1)[j] = low[1 + j - 1]
    BY ONLY <2>1, SubSeqFacts, ZenonT(30)
  <2>3. rest = SubSeq(low, 1, Len(low) - 1)
    BY <1>5 DEF Front
  <2> QED BY ONLY <1>4, <2>1, <2>2, <2>3
<1>10. PlaceOf(rest, hndl_p) = p /\ p \in 1..(Len(rest) + 1)
  <2>1. p \in 1..(Len(rest) + 1)
    BY ONLY <1>2, <1>7, <1>8, <1>9
  <2>2. \A j \in 1..Len(rest) : IF j < p THEN Key[rest[j]] < Key[hndl_p] ELSE Key[hndl_p] < Key[rest[j]]
    <3>1. \A j \in 1..(Half - 1) : j \in 1..N
      BY ONLY <1>7
    <3> QED BY ONLY <1>3, <1>9, <3>1, ZenonT(30)
  <2> QED BY <1>7, <1>9, <2>1, <2>2, PlaceOfIs
<1>11. /\ lowH \in Seq(Handles) /\ Len(lowH) = Half
       /\ \A j \in 1..Half : lowH[j] = AllVals(p)[j]
  <2>1. Len(rest) + 1 = Half
    BY ONLY <1>7, <1>9
  <2>2. /\ InsertAt(rest, p, hndl_p) \in Seq(Handles) /\ Len(InsertAt(rest, p, hndl_p)) = Len(rest) + 1
        /\ \A j \in 1..(Len(rest) + 1) :
             InsertAt(rest, p, hndl_p)[j] = IF j < p THEN rest[j] ELSE IF j = p THEN hndl_p ELSE rest[j - 1]
    <3>1. PICK h \in Handles : h = hndl_p
      BY ONLY <1>7
    <3>2. PICK q \in Seq(Handles), i \in {p} : q = rest /\ i = p
      BY ONLY <1>9
    <3>3. i \in 1..(Len(q) + 1)
      BY ONLY <1>10, <3>2
    <3>4. IsInsert(InsertAt(q, i, h), q, i, h)
      BY ONLY <3>3, InsertIs
    <3> QED BY ONLY <3>1, <3>2, <3>4 DEF IsInsert
  <2>3. lowH = InsertAt(rest, p, hndl_p)
    BY <1>5, <1>10 DEF WithVal
  <2>4. ASSUME NEW j \in 1..Half PROVE lowH[j] = AllVals(p)[j]
    <3>1. j \in 1..(N + 1) /\ (j < p => j \in 1..(Half - 1)) /\ (j > p => j - 1 \in 1..(Half - 1))
      BY ONLY <1>2, <1>7, <1>8
    <3>2. lowH[j] = IF j < p THEN rest[j] ELSE IF j = p THEN hndl_p ELSE rest[j - 1]
      BY ONLY <2>1, <2>2, <2>3
    <3>3. CASE j < p
      BY ONLY <1>3, <1>9, <3>1, <3>2, <3>3
    <3>4. CASE j = p
      BY ONLY <1>3, <1>7, <3>1, <3>2, <3>4
    <3>5. CASE j > p
      <4>1. lowH[j] = rest[j - 1]
        BY ONLY <1>7, <3>2, <3>5
      <4> QED BY ONLY <1>3, <1>9, <3>1, <3>5, <4>1
    <3> QED BY ONLY <1>7, <3>3, <3>4, <3>5
  <2> QED BY ONLY <2>1, <2>2, <2>3, <2>4
<1>12. /\ high \in Seq(Handles) /\ Len(high) = Half
       /\ \A j \in 1..Half : high[j] = AllVals(p)[Half + 1 + j]
  <2>1. ASSUME NEW j \in 1..Half PROVE high[j] = AllVals(p)[Half + 1 + j]
    <3>1. PICK k : k = Half + 1 + j
      OBVIOUS
    <3>2. k \in 1..(N + 1) /\ k > p /\ k - 1 = Half + j
      BY ONLY <1>2, <1>7, <1>8, <3>1
    <3>3. AllVals(p)[k] = hs[k - 1]
      BY ONLY <1>3, <3>2
    <3> QED BY ONLY <1>4, <3>1, <3>2, <3>3
  <2> QED BY ONLY <1>4, <2>1
<1>13. up = AllVals(p)[Half + 1]
  <2>1. Half + 1 \in 1..(N + 1) /\ Half + 1 > p /\ Half + 1 - 1 = Half /\ Half \in 1..Half
    BY ONLY <1>2, <1>7, <1>8
  <2> QED BY ONLY <1>3, <1>4, <1>5, <2>1
<1>14. /\ lowK \in Seq(Septs) /\ (left_down = Null => lowK = << >>)
       /\ left_down # Null => Len(lowK) = Half + 1 /\ \A j \in 1..(Half + 1) : lowK[j] = AllKids(p)[j]
  <2>1. CASE left_down = Null
    BY <1>5, <2>1 DEF WithKids
  <2>2. CASE left_down # Null
    <3>1. PICK kk : kk = SubSeq(ks, 1, Half)
      OBVIOUS
    <3>2. /\ 1 \in 1..(Len(ks) + 1) /\ Half \in 0..Len(ks) /\ 1 <= Half + 1 /\ Half - 1 + 1 = Half
          /\ \A j \in 1..Half : 1 + j - 1 = j
      BY ONLY <1>3, <1>7, <2>2
    <3>3. kk \in Seq(Septs) /\ Len(kk) = Half /\ \A j \in 1..Half : kk[j] = ks[j]
      <4>1. /\ kk \in Seq(Septs) /\ Len(kk) = Half - 1 + 1
            /\ \A j \in 1..(Half - 1 + 1) : kk[j] = ks[1 + j - 1]
        BY ONLY <3>1, <3>2, SubSeqFacts
      <4> QED BY ONLY <3>2, <4>1
    <3>4. p \in 1..Len(kk)
      BY ONLY <1>2, <1>7, <1>8, <3>3
    <3>5. /\ WithKids(kk, p) \in Seq(Septs) /\ Len(WithKids(kk, p)) = Len(kk) + 1
          /\ \A j \in 1..(Len(kk) + 1) :
                WithKids(kk, p)[j] = IF j < p THEN kk[j] ELSE IF j = p THEN left_down
                                     ELSE IF j = p + 1 THEN right_down ELSE kk[j - 1]
      <4>1. TypeOK /\ left_down \in Septs /\ right_down \in Septs
        BY <1>3, <2>2 DEF TreeInv
      <4> QED BY ONLY <2>2, <3>3, <3>4, <4>1, WithKidsFacts
    <3>6. lowK = WithKids(kk, p)
      BY ONLY <1>5, <1>10, <3>1
    <3>7. ASSUME NEW j \in 1..(Half + 1) PROVE lowK[j] = AllKids(p)[j]
      <4>1. /\ j \in 1..(N + 2) /\ (j < p => j \in 1..Half) /\ (j > p + 1 => j - 1 \in 1..Half)
            /\ j \in 1..(Len(kk) + 1) /\ (j < p \/ j = p \/ j = p + 1 \/ j > p + 1)
        BY ONLY <1>2, <1>7, <1>8, <3>3
      <4>2. lowK[j] = IF j < p THEN kk[j] ELSE IF j = p THEN left_down
                       ELSE IF j = p + 1 THEN right_down ELSE kk[j - 1]
        BY ONLY <3>5, <3>6, <4>1
      <4>3. CASE j < p
        <5>1. j <= p
          BY ONLY <1>7, <4>3
        <5> QED BY ONLY <1>3, <2>2, <3>3, <4>1, <4>2, <4>3, <5>1, ZenonT(30)
      <4>4. CASE j = p
        <5>1. j <= p /\ ~(j < p)
          BY ONLY <1>7, <4>4
        <5> QED BY ONLY <1>3, <2>2, <4>1, <4>2, <4>4, <5>1
      <4>5. CASE j = p + 1
        <5>1. ~(j < p) /\ j # p
          BY ONLY <1>7, <4>5
        <5> QED BY ONLY <1>3, <2>2, <4>1, <4>2, <4>5, <5>1
      <4>6. CASE j > p + 1
        <5>1. ~(j < p) /\ j # p /\ j # p + 1
          BY ONLY <1>7, <4>6
        <5> QED BY ONLY <1>3, <2>2, <3>3, <4>1, <4>2, <4>6, <5>1
      <4> QED BY ONLY <4>1, <4>3, <4>4, <4>5, <4>6
    <3> QED BY ONLY <2>2, <3>3, <3>5, <3>6, <3>7
  <2> QED BY <2>1, <2>2
<1>15. /\ moved \in Seq(Septs) /\ (left_down = Null => moved = << >>)
       /\ left_down # Null => Len(moved) = Half + 1 /\ \A j \in 1..(Half + 1) : moved[j] = AllKids(p)[Half + 1 + j]
  <2>1. CASE left_down = Null
    BY <1>5, <2>1
  <2>2. CASE left_down # Null
    <3>1. moved = SubSeq(ks, Half + 1, N + 1)
      BY <1>5, <2>2
    <3>2. /\ Half + 1 \in 1..(Len(ks) + 1) /\ N + 1 \in 0..Len(ks) /\ Half + 1 <= (N + 1) + 1
          /\ (N + 1) - (Half + 1) + 1 = Half + 1
      <4>1. Len(ks) = N + 1
        BY ONLY <1>3, <2>2
      <4> QED BY ONLY <1>7, <4>1
    <3>3. /\ moved \in Seq(Septs) /\ Len(moved) = (N + 1) - (Half + 1) + 1
          /\ \A j \in 1..((N + 1) - (Half + 1) + 1) : moved[j] = ks[(Half + 1) + j - 1]
      BY ONLY <3>1, <3>2, SubSeqFacts
    <3>4. ASSUME NEW j \in 1..(Half + 1) PROVE moved[j] = AllKids(p)[Half + 1 + j]
      <4>1. PICK k : k = Half + 1 + j
        OBVIOUS
      <4>2. k \in 1..(N + 2) /\ k > p + 1 /\ k - 1 = (Half + 1) + j - 1
        BY ONLY <1>2, <1>7, <1>8, <4>1
      <4>3. AllKids(p)[k] = ks[k - 1]
        BY ONLY <1>3, <2>2, <4>2
      <4>4. moved[j] = ks[(Half + 1) + j - 1]
        BY ONLY <3>2, <3>3
      <4> QED BY ONLY <4>1, <4>2, <4>3, <4>4
    <3> QED BY ONLY <2>2, <3>2, <3>3, <3>4
  <2> QED BY <2>1, <2>2
<1>16. IsLow(lowH, lowK, AllVals(p), AllKids(p), Half + 1, height[sept])
  <2>1. (Half + 1) - 1 = Half
    BY ONLY <1>7
  <2> QED BY ONLY <1>3, <1>11, <1>14, <2>1 DEF IsLow
<1>17. IsHigh(high, moved, AllVals(p), AllKids(p), Half + 1, height[sept])
  <2>1. Len(AllVals(p)) - (Half + 1) = Half
    BY ONLY <1>3, <1>7
  <2>2. left_down # Null => Len(AllKids(p)) - (Half + 1) = Half + 1
    BY ONLY <1>3, <1>7
  <2> QED BY ONLY <1>3, <1>12, <1>15, <2>1, <2>2 DEF IsHigh
<1>18. /\ hp' \in [Handles -> Septs \cup {Null}]
       /\ \A i \in 1..N : hp'[hs[i]] = IF i <= Half THEN sept ELSE r
       /\ hp'[hndl_p] = sept
       /\ \A g \in Members : g # hndl_p /\ (\A i \in 1..N : hn[sept][i] # g) => hp'[g] = hp[g]
  <2>1. r \in Septs /\ sept \in Septs \cup {Null} /\ hndl_p \in {hndl_p, NoHandle}
    BY <1>1, <1>5, ReserveForSplit DEF TreeInv, TypeOK
  <2> QED BY <1>1, <1>3, <1>6, <2>1, SplitMoves, ZenonT(30)
<1>19. \A j \in 1..Half : hp'[lowH[j]] = sept /\ hp'[high[j]] = r
  <2> SUFFICES ASSUME NEW j \in 1..Half PROVE hp'[lowH[j]] = sept /\ hp'[high[j]] = r
    OBVIOUS
  <2>1. /\ j \in 1..(N + 1) /\ (j < p => j \in 1..N /\ j <= Half) /\ (j > p => j - 1 \in 1..N /\ j - 1 <= Half)
        /\ Half + j \in 1..N /\ ~(Half + j <= Half) /\ (j < p \/ j = p \/ j > p)
    BY ONLY <1>2, <1>7, <1>8
  <2>2. (j < p => lowH[j] = hs[j]) /\ (j = p => lowH[j] = hndl_p) /\ (j > p => lowH[j] = hs[j - 1])
    BY ONLY <1>3, <1>11, <2>1
  <2>3. hp'[lowH[j]] = sept
    BY ONLY <1>18, <2>1, <2>2
  <2> QED BY ONLY <1>4, <1>18, <2>1, <2>3, ZenonT(30)
<1>20. SplitAs(p, r, up, lowH, lowK, high, moved)
  BY ONLY <1>1, <1>3, <1>5, <1>6, <1>13, <1>16, <1>17, <1>18, <1>19 DEF SplitAs
<1> QED BY <1>20, SplitCore

LEMMA SplitMidStep == ASSUME TreeInv, split_mid PROVE TreeInv' /\ Elements' = Elements
<1>1. /\ pc = "up" /\ sept # Null /\ num_vals(sept) = N
      /\ UNCHANGED <<counts, slots>> /\ UNCHANGED <<load, ops, stage>>
  BY DEF split_mid, Full, At, slotVars, envVars
<1>2. PICK p \in 1..(N + 1), hs \in Seq(Handles), ks \in Seq(Septs) : FullAt(p, hs, ks)
  BY <1>1, FullFacts
<1>3. /\ UpPlace(p) /\ hs = hn[sept] /\ ks = kid[sept] /\ Len(hs) = N
      /\ \A j \in 1..N : IF j < p THEN Key[hs[j]] < Key[hndl_p] ELSE Key[hndl_p] < Key[hs[j]]
      /\ \A j \in 1..(N + 1) : /\ j < p => AllVals(p)[j] = hs[j]
                               /\ j = p => AllVals(p)[j] = hndl_p
                               /\ j > p => AllVals(p)[j] = hs[j - 1]
      /\ Len(AllVals(p)) = N + 1
      /\ height[sept] = 0 <=> left_down = Null
      /\ left_down # Null =>
           /\ left_down \in Septs /\ right_down \in Septs
           /\ Len(ks) = N + 1 /\ Len(AllKids(p)) = N + 2 /\ ks[p] = left_down
           /\ \A j \in 1..(N + 2) : /\ j <= p => AllKids(p)[j] = ks[j]
                                    /\ j = p + 1 => AllKids(p)[j] = right_down
                                    /\ j > p + 1 => AllKids(p)[j] = ks[j - 1]
  BY <1>2 DEF FullAt
<1>4. PICK low \in Seq(Handles), high \in Seq(Handles) :
        /\ low = low_half(hn[sept]) /\ Len(low) = Half /\ \A j \in 1..Half : low[j] = hs[j]
        /\ high = high_half(hn[sept]) /\ Len(high) = Half /\ \A j \in 1..Half : high[j] = hs[Half + j]
  BY <1>1, <1>3, HalvesFacts
<1>5. PICK r, up, lowK, highK :
        /\ r = NextSept /\ up = hndl_p
        /\ lowK = IF left_down = Null THEN << >> ELSE Append(SubSeq(ks, 1, Half), left_down)
        /\ highK = IF left_down = Null THEN << >> ELSE <<right_down>> \o high_kids(ks)
  OBVIOUS
<1>6. /\ Key[low[Half]] <= Key[hndl_p] /\ Key[hndl_p] < Key[high[1]]
      /\ split(r, up, low, lowK, high, highK)
      /\ MoveTo(r, Range(high_half(hn[sept])), NoHandle, Null) /\ MoveKids(r, Range(highK))
  BY <1>3, <1>4, <1>5 DEF split_mid
<1>7. Half \in Nat /\ Half >= 2 /\ N = 2 * Half /\ N \in Nat /\ p \in Nat /\ hndl_p \in Handles
  BY <1>1, HalfFacts, UpFacts
<1>8. p = Half + 1
  <2>1. /\ Half \in 1..N /\ low[Half] = hs[Half] /\ hs[Half] \in Handles
        /\ Half + 1 \in 1..N /\ high[1] = hs[Half + 1] /\ hs[Half + 1] \in Handles
    <3>1. Half \in 1..N /\ Half + 1 \in 1..N /\ Half \in 1..Half /\ 1 \in 1..Half
      BY ONLY <1>7
    <3>2. \A i \in 1..N : hs[i] \in Handles
      BY ONLY <1>3
    <3> QED BY ONLY <1>4, <3>1, <3>2
  <2>2. Key[hs[Half]] \in Int /\ Key[hs[Half + 1]] \in Int /\ Key[hndl_p] \in Int
    BY <1>7, <2>1, OrderAssumption
  <2>3. Half < p
    BY ONLY <1>3, <1>6, <2>1, <2>2, SMTT(30)
  <2>4. ~(Half + 1 < p)
    <3>1. Half + 1 < p => Key[hs[Half + 1]] < Key[hndl_p]
      BY ONLY <1>3, <2>1
    <3> QED BY ONLY <1>6, <2>1, <2>2, <3>1
  <2> QED BY ONLY <1>7, <2>3, <2>4
<1>11. /\ low \in Seq(Handles) /\ Len(low) = Half
       /\ \A j \in 1..Half : low[j] = AllVals(p)[j]
  <2>1. \A j \in 1..Half : j \in 1..(N + 1) /\ j < p
    BY ONLY <1>7, <1>8
  <2> QED BY ONLY <1>3, <1>4, <2>1, ZenonT(30)
<1>12. /\ high \in Seq(Handles) /\ Len(high) = Half
       /\ \A j \in 1..Half : high[j] = AllVals(p)[Half + 1 + j]
  <2>1. ASSUME NEW j \in 1..Half PROVE high[j] = AllVals(p)[Half + 1 + j]
    <3>1. PICK k : k = Half + 1 + j
      OBVIOUS
    <3>2. k \in 1..(N + 1) /\ k > p /\ k - 1 = Half + j
      BY ONLY <1>2, <1>7, <1>8, <3>1
    <3>3. AllVals(p)[k] = hs[k - 1]
      BY ONLY <1>3, <3>2
    <3> QED BY ONLY <1>4, <3>1, <3>2, <3>3
  <2> QED BY ONLY <1>4, <2>1
<1>13. up = AllVals(p)[Half + 1]
  <2>1. Half + 1 \in 1..(N + 1)
    BY ONLY <1>7
  <2> QED BY ONLY <1>3, <1>5, <1>8, <2>1
<1>14. /\ lowK \in Seq(Septs) /\ (left_down = Null => lowK = << >>)
       /\ left_down # Null => Len(lowK) = Half + 1 /\ \A j \in 1..(Half + 1) : lowK[j] = AllKids(p)[j]
  <2>1. CASE left_down = Null
    BY <1>5, <2>1
  <2>2. CASE left_down # Null
    <3>1. PICK kk : kk = SubSeq(ks, 1, Half)
      OBVIOUS
    <3>2. /\ 1 \in 1..(Len(ks) + 1) /\ Half \in 0..Len(ks) /\ 1 <= Half + 1 /\ Half - 1 + 1 = Half
          /\ \A j \in 1..Half : 1 + j - 1 = j
      BY ONLY <1>3, <1>7, <2>2
    <3>3. kk \in Seq(Septs) /\ Len(kk) = Half /\ \A j \in 1..Half : kk[j] = ks[j]
      <4>1. /\ kk \in Seq(Septs) /\ Len(kk) = Half - 1 + 1
            /\ \A j \in 1..(Half - 1 + 1) : kk[j] = ks[1 + j - 1]
        BY ONLY <3>1, <3>2, SubSeqFacts
      <4> QED BY ONLY <3>2, <4>1
    <3>4. PICK a \in Septs : a = left_down
      BY ONLY <1>3, <2>2
    <3>5. lowK = Append(kk, a)
      BY ONLY <1>5, <2>2, <3>1, <3>4
    <3>6. lowK \in Seq(Septs) /\ Len(lowK) = Half + 1
      BY ONLY <1>7, <3>3, <3>5
    <3>7. ASSUME NEW j \in 1..(Half + 1) PROVE lowK[j] = AllKids(p)[j]
      <4>1. j \in 1..(N + 2) /\ j <= p
        BY ONLY <1>7, <1>8
      <4>2. AllKids(p)[j] = ks[j]
        BY ONLY <1>3, <2>2, <4>1
      <4>3. CASE j = Half + 1
        <5>1. lowK[j] = a
          BY ONLY <1>7, <3>3, <3>5, <4>3
        <5> QED BY ONLY <1>3, <1>8, <2>2, <3>4, <4>2, <4>3, <5>1
      <4>4. CASE j # Half + 1
        <5>1. j \in 1..Half
          BY ONLY <1>7, <4>4
        <5>2. lowK[j] = kk[j]
          BY ONLY <1>7, <3>3, <3>5, <5>1
        <5> QED BY ONLY <3>3, <4>2, <5>1, <5>2
      <4> QED BY ONLY <4>3, <4>4
    <3> QED BY ONLY <2>2, <3>6, <3>7
  <2> QED BY <2>1, <2>2
<1>15. /\ highK \in Seq(Septs) /\ (left_down = Null => highK = << >>)
       /\ left_down # Null => Len(highK) = Half + 1 /\ \A j \in 1..(Half + 1) : highK[j] = AllKids(p)[Half + 1 + j]
  <2>1. CASE left_down = Null
    BY <1>5, <2>1
  <2>2. CASE left_down # Null
    <3>1. PICK kk : kk = SubSeq(ks, Half + 2, N + 1)
      OBVIOUS
    <3>2. /\ Half + 2 \in 1..(Len(ks) + 1) /\ N + 1 \in 0..Len(ks) /\ Half + 2 <= (N + 1) + 1
          /\ (N + 1) - (Half + 2) + 1 = Half
      <4>1. Len(ks) = N + 1
        BY ONLY <1>3, <2>2
      <4> QED BY ONLY <1>7, <4>1
    <3>3. /\ kk \in Seq(Septs) /\ Len(kk) = (N + 1) - (Half + 2) + 1
          /\ \A j \in 1..((N + 1) - (Half + 2) + 1) : kk[j] = ks[(Half + 2) + j - 1]
      BY ONLY <3>1, <3>2, SubSeqFacts
    <3>4. PICK b \in Septs : b = right_down
      BY ONLY <1>3, <2>2
    <3>5. highK = <<b>> \o kk
      BY ONLY <1>5, <2>2, <3>1, <3>4 DEF high_kids
    <3>6. /\ highK \in Seq(Septs) /\ Len(highK) = Half + 1 /\ highK[1] = b
          /\ \A i \in 1..Half : highK[1 + i] = kk[i]
      <4>1. <<b>> \in Seq(Septs) /\ Len(<<b>>) = 1 /\ <<b>>[1] = b /\ 1 \in 1..1
        OBVIOUS
      <4>2. PICK bb : bb = <<b>>
        OBVIOUS
      <4>3. /\ bb \o kk \in Seq(Septs) /\ Len(bb \o kk) = Len(bb) + Len(kk)
            /\ \A i \in 1..Len(bb) : (bb \o kk)[i] = bb[i]
            /\ \A i \in 1..Len(kk) : (bb \o kk)[Len(bb) + i] = kk[i]
        <5>1. bb \in Seq(Septs) /\ kk \in Seq(Septs)
          BY ONLY <3>3, <4>1, <4>2
        <5> QED BY ONLY <5>1, ConcatFacts
      <4>4. Len(kk) = Half /\ Len(bb) = 1 /\ bb[1] = b
        BY ONLY <3>2, <3>3, <4>1, <4>2
      <4>5. Len(bb) + Len(kk) = Half + 1
        BY ONLY <1>7, <4>4
      <4>6. highK = bb \o kk
        BY ONLY <3>5, <4>2
      <4> QED BY ONLY <4>1, <4>3, <4>4, <4>5, <4>6
    <3>7. ASSUME NEW j \in 1..(Half + 1) PROVE highK[j] = AllKids(p)[Half + 1 + j]
      <4>1. PICK k : k = Half + 1 + j
        OBVIOUS
      <4>2. CASE j = 1
        <5>1. k \in 1..(N + 2) /\ k = p + 1
          BY ONLY <1>7, <1>8, <4>1, <4>2
        <5>2. AllKids(p)[k] = right_down
          BY ONLY <1>3, <2>2, <5>1
        <5> QED BY ONLY <3>4, <3>6, <4>1, <4>2, <5>2
      <4>3. CASE j # 1
        <5>1. PICK i : i = j - 1
          OBVIOUS
        <5>2. /\ k \in 1..(N + 2) /\ k > p + 1 /\ i \in 1..Half /\ 1 + i = j /\ k - 1 = (Half + 2) + i - 1
          BY ONLY <1>7, <1>8, <4>1, <4>3, <5>1
        <5>3. AllKids(p)[k] = ks[k - 1]
          BY ONLY <1>3, <2>2, <5>2
        <5>4. highK[j] = kk[i] /\ kk[i] = ks[(Half + 2) + i - 1]
          BY ONLY <3>2, <3>3, <3>6, <5>2
        <5> QED BY ONLY <4>1, <5>2, <5>3, <5>4
      <4> QED BY ONLY <4>2, <4>3
    <3> QED BY ONLY <2>2, <3>6, <3>7
  <2> QED BY <2>1, <2>2
<1>16. IsLow(low, lowK, AllVals(p), AllKids(p), Half + 1, height[sept])
  <2>1. (Half + 1) - 1 = Half
    BY ONLY <1>7
  <2> QED BY ONLY <1>3, <1>11, <1>14, <2>1 DEF IsLow
<1>17. IsHigh(high, highK, AllVals(p), AllKids(p), Half + 1, height[sept])
  <2>1. Len(AllVals(p)) - (Half + 1) = Half
    BY ONLY <1>3, <1>7
  <2>2. left_down # Null => Len(AllKids(p)) - (Half + 1) = Half + 1
    BY ONLY <1>3, <1>7
  <2> QED BY ONLY <1>3, <1>12, <1>15, <2>1, <2>2 DEF IsHigh
<1>18. /\ hp' \in [Handles -> Septs \cup {Null}]
       /\ \A i \in 1..N : hp'[hs[i]] = IF i <= Half THEN sept ELSE r
       /\ \A g \in Members : g # hndl_p /\ (\A i \in 1..N : hn[sept][i] # g) => hp'[g] = hp[g]
  <2>1. r \in Septs /\ NoHandle \in {hndl_p, NoHandle} /\ Null \in Septs \cup {Null}
    BY <1>1, <1>5, ReserveForSplit DEF TreeInv, TypeOK
  <2> QED BY <1>1, <1>3, <1>6, <2>1, SplitMoves
<1>19. \A j \in 1..Half : hp'[low[j]] = sept /\ hp'[high[j]] = r
  <2> SUFFICES ASSUME NEW j \in 1..Half PROVE hp'[low[j]] = sept /\ hp'[high[j]] = r
    OBVIOUS
  <2>1. j \in 1..N /\ j <= Half /\ Half + j \in 1..N /\ ~(Half + j <= Half)
    BY ONLY <1>7
  <2> QED BY ONLY <1>4, <1>18, <2>1
<1>20. SplitAs(p, r, up, low, lowK, high, highK)
  BY ONLY <1>1, <1>3, <1>5, <1>6, <1>13, <1>16, <1>17, <1>18, <1>19 DEF SplitAs
<1> QED BY <1>20, SplitCore

LEMMA SplitHighStep == ASSUME TreeInv, split_high PROVE TreeInv' /\ Elements' = Elements
<1>1. /\ pc = "up" /\ sept # Null /\ num_vals(sept) = N
      /\ UNCHANGED <<counts, slots>> /\ UNCHANGED <<load, ops, stage>>
  BY DEF split_high, Full, At, slotVars, envVars
<1>2. PICK p \in 1..(N + 1), hs \in Seq(Handles), ks \in Seq(Septs) : FullAt(p, hs, ks)
  BY <1>1, FullFacts
<1>3. /\ UpPlace(p) /\ hs = hn[sept] /\ ks = kid[sept] /\ Len(hs) = N
      /\ \A j \in 1..N : IF j < p THEN Key[hs[j]] < Key[hndl_p] ELSE Key[hndl_p] < Key[hs[j]]
      /\ \A j \in 1..(N + 1) : /\ j < p => AllVals(p)[j] = hs[j]
                               /\ j = p => AllVals(p)[j] = hndl_p
                               /\ j > p => AllVals(p)[j] = hs[j - 1]
      /\ Len(AllVals(p)) = N + 1
      /\ height[sept] = 0 <=> left_down = Null
      /\ left_down # Null =>
           /\ left_down \in Septs /\ right_down \in Septs
           /\ Len(ks) = N + 1 /\ Len(AllKids(p)) = N + 2 /\ ks[p] = left_down
           /\ \A j \in 1..(N + 2) : /\ j <= p => AllKids(p)[j] = ks[j]
                                    /\ j = p + 1 => AllKids(p)[j] = right_down
                                    /\ j > p + 1 => AllKids(p)[j] = ks[j - 1]
  BY <1>2 DEF FullAt
<1>4. PICK low \in Seq(Handles), high \in Seq(Handles) :
        /\ low = low_half(hn[sept]) /\ Len(low) = Half /\ \A j \in 1..Half : low[j] = hs[j]
        /\ high = high_half(hn[sept]) /\ Len(high) = Half /\ \A j \in 1..Half : high[j] = hs[Half + j]
  BY <1>1, <1>3, HalvesFacts
<1>5. PICK rest, r, up, lowK, highH, highK, m :
        /\ rest = Tail(high) /\ r = NextSept /\ up = high[1] /\ m = p - (Half + 1)
        /\ lowK = IF left_down = Null THEN << >> ELSE low_kids(ks)
        /\ highH = WithVal(rest, hndl_p)
        /\ highK = WithKids(high_kids(ks), PlaceOf(rest, hndl_p))
  OBVIOUS
<1>6. /\ Key[high[1]] <= Key[hndl_p] /\ split(r, up, low, lowK, highH, highK)
      /\ MoveTo(r, Range(high_half(hn[sept])), hndl_p, r) /\ MoveKids(r, Range(highK))
  BY <1>3, <1>4, <1>5 DEF split_high
<1>7. Half \in Nat /\ Half >= 2 /\ N = 2 * Half /\ N \in Nat /\ p \in Nat /\ hndl_p \in Handles
  BY <1>1, HalfFacts, UpFacts
<1>8. Half + 1 < p
  <2>1. /\ Half + 1 \in 1..N /\ high[1] = hs[Half + 1] /\ hs[Half + 1] \in Handles
    <3>1. Half + 1 \in 1..N /\ 1 \in 1..Half
      BY ONLY <1>7
    <3>2. \A i \in 1..N : hs[i] \in Handles
      BY ONLY <1>3
    <3> QED BY ONLY <1>4, <3>1, <3>2
  <2>2. Key[hs[Half + 1]] \in Int /\ Key[hndl_p] \in Int
    BY <1>7, <2>1, OrderAssumption
  <2>3. ~(Half + 1 < p) => Key[hndl_p] < Key[hs[Half + 1]]
    BY ONLY <1>3, <2>1
  <2> QED BY ONLY <1>6, <2>1, <2>2, <2>3
<1>9. m \in 1..Half /\ m + (Half + 1) = p
  BY ONLY <1>2, <1>5, <1>7, <1>8
<1>10. rest \in Seq(Handles) /\ Len(rest) = Half - 1 /\ \A j \in 1..(Half - 1) : rest[j] = hs[Half + 1 + j]
  <2>1. high # << >> /\ Len(high) = Half
    <3>1. Len(high) # 0
      BY ONLY <1>4, <1>7
    <3> QED BY ONLY <1>4, <3>1
  <2>2. rest \in Seq(Handles) /\ Len(rest) = Half - 1 /\ \A j \in 1..(Half - 1) : rest[j] = high[j + 1]
    BY ONLY <1>5, <1>7, <2>1
  <2>3. \A j \in 1..(Half - 1) : j + 1 \in 1..Half /\ Half + (j + 1) = Half + 1 + j
    BY ONLY <1>7
  <2>4. ASSUME NEW j \in 1..(Half - 1) PROVE rest[j] = hs[Half + 1 + j]
    <3>1. high[j + 1] = hs[Half + (j + 1)]
      BY ONLY <1>4, <2>3
    <3> QED BY ONLY <2>2, <2>3, <3>1
  <2> QED BY ONLY <2>2, <2>4
<1>11. PlaceOf(rest, hndl_p) = m /\ m \in 1..(Len(rest) + 1)
  <2>1. m \in 1..(Len(rest) + 1)
    BY ONLY <1>7, <1>9, <1>10
  <2>2. ASSUME NEW j \in 1..Len(rest)
        PROVE  IF j < m THEN Key[rest[j]] < Key[hndl_p] ELSE Key[hndl_p] < Key[rest[j]]
    <3>1. PICK k : k = Half + 1 + j
      OBVIOUS
    <3>2. k \in 1..N /\ j \in 1..(Half - 1) /\ (j < m <=> k < p)
      BY ONLY <1>7, <1>9, <1>10, <3>1
    <3>3. rest[j] = hs[k]
      BY ONLY <1>10, <3>1, <3>2
    <3> QED BY ONLY <1>3, <3>2, <3>3
  <2>3. PICK q \in Seq(Handles), h \in Handles, i \in {m} : q = rest /\ h = hndl_p
    BY ONLY <1>7, <1>10
  <2>4. i \in 1..(Len(q) + 1) /\ \A j \in 1..Len(q) : IF j < i THEN Key[q[j]] < Key[h] ELSE Key[h] < Key[q[j]]
    BY ONLY <2>1, <2>2, <2>3
  <2>5. PlaceOf(q, h) = i
    BY ONLY <2>4, PlaceOfIs
  <2>6. i = m
    OBVIOUS
  <2> QED BY ONLY <2>1, <2>3, <2>5, <2>6
<1>12. /\ highH \in Seq(Handles) /\ Len(highH) = Half
       /\ \A j \in 1..Half : highH[j] = AllVals(p)[Half + 1 + j]
  <2>1. Len(rest) + 1 = Half
    BY ONLY <1>7, <1>10
  <2>2. /\ InsertAt(rest, m, hndl_p) \in Seq(Handles) /\ Len(InsertAt(rest, m, hndl_p)) = Len(rest) + 1
        /\ \A j \in 1..(Len(rest) + 1) :
             InsertAt(rest, m, hndl_p)[j] = IF j < m THEN rest[j] ELSE IF j = m THEN hndl_p ELSE rest[j - 1]
    <3>1. PICK h \in Handles : h = hndl_p
      BY ONLY <1>7
    <3>2. PICK q \in Seq(Handles), i \in {m} : q = rest /\ i = m
      BY ONLY <1>10
    <3>3. i \in 1..(Len(q) + 1)
      BY ONLY <1>11, <3>2
    <3>4. IsInsert(InsertAt(q, i, h), q, i, h)
      BY ONLY <3>3, InsertIs
    <3> QED BY ONLY <3>1, <3>2, <3>4 DEF IsInsert
  <2>3. highH = InsertAt(rest, m, hndl_p)
    BY <1>5, <1>11 DEF WithVal
  <2>4. ASSUME NEW j \in 1..Half PROVE highH[j] = AllVals(p)[Half + 1 + j]
    <3>1. PICK k : k = Half + 1 + j
      OBVIOUS
    <3>2. /\ k \in 1..(N + 1) /\ (j < m => j \in 1..(Half - 1) /\ k < p) /\ (j = m => k = p)
          /\ j > m => j - 1 \in 1..(Half - 1) /\ k > p /\ Half + 1 + (j - 1) = k - 1
      BY ONLY <1>7, <1>9, <3>1
    <3>3. highH[j] = IF j < m THEN rest[j] ELSE IF j = m THEN hndl_p ELSE rest[j - 1]
      BY ONLY <2>1, <2>2, <2>3
    <3>4. CASE j < m
      BY ONLY <1>3, <1>10, <3>1, <3>2, <3>3, <3>4
    <3>5. CASE j = m
      <4>1. ~(j < m)
        BY ONLY <1>9, <3>5
      <4> QED BY ONLY <1>3, <3>1, <3>2, <3>3, <3>5, <4>1
    <3>6. CASE j > m
      <4>1. highH[j] = rest[j - 1]
        BY ONLY <1>9, <3>3, <3>6
      <4>2. rest[j - 1] = hs[k - 1]
        BY ONLY <1>10, <3>2, <3>6
      <4> QED BY ONLY <1>3, <3>1, <3>2, <3>6, <4>1, <4>2
    <3> QED BY ONLY <1>9, <3>4, <3>5, <3>6
  <2> QED BY ONLY <2>1, <2>2, <2>3, <2>4
<1>121. /\ low \in Seq(Handles) /\ Len(low) = Half
        /\ \A j \in 1..Half : low[j] = AllVals(p)[j]
  <2>1. \A j \in 1..Half : j \in 1..(N + 1) /\ j < p
    BY ONLY <1>7, <1>8
  <2> QED BY ONLY <1>3, <1>4, <2>1, ZenonT(30)
<1>13. up = AllVals(p)[Half + 1]
  <2>1. Half + 1 \in 1..(N + 1) /\ 1 \in 1..Half
    BY ONLY <1>7
  <2> QED BY ONLY <1>3, <1>4, <1>5, <1>8, <2>1, SMTT(30)
<1>14. /\ lowK \in Seq(Septs) /\ (left_down = Null => lowK = << >>)
       /\ left_down # Null => Len(lowK) = Half + 1 /\ \A j \in 1..(Half + 1) : lowK[j] = AllKids(p)[j]
  <2>1. CASE left_down = Null
    BY <1>5, <2>1
  <2>2. CASE left_down # Null
    <3>1. lowK = SubSeq(ks, 1, Half + 1)
      BY ONLY <1>5, <2>2 DEF low_kids
    <3>2. /\ 1 \in 1..(Len(ks) + 1) /\ Half + 1 \in 0..Len(ks) /\ 1 <= (Half + 1) + 1 /\ (Half + 1) - 1 + 1 = Half + 1
          /\ \A j \in 1..(Half + 1) : 1 + j - 1 = j /\ j \in 1..(N + 2) /\ j <= p
      <4>1. Len(ks) = N + 1
        BY ONLY <1>3, <2>2
      <4> QED BY ONLY <1>7, <1>8, <4>1
    <3>3. /\ lowK \in Seq(Septs) /\ Len(lowK) = (Half + 1) - 1 + 1
          /\ \A j \in 1..((Half + 1) - 1 + 1) : lowK[j] = ks[1 + j - 1]
      BY ONLY <3>1, <3>2, SubSeqFacts
    <3>4. ASSUME NEW j \in 1..(Half + 1) PROVE lowK[j] = AllKids(p)[j]
      <4>1. lowK[j] = ks[j]
        BY ONLY <3>2, <3>3
      <4>2. AllKids(p)[j] = ks[j]
        BY ONLY <1>3, <2>2, <3>2
      <4> QED BY ONLY <4>1, <4>2
    <3> QED BY ONLY <2>2, <3>2, <3>3, <3>4
  <2> QED BY <2>1, <2>2
<1>15. /\ highK \in Seq(Septs) /\ (left_down = Null => highK = << >>)
       /\ left_down # Null => Len(highK) = Half + 1 /\ \A j \in 1..(Half + 1) : highK[j] = AllKids(p)[Half + 1 + j]
  <2>1. CASE left_down = Null
    BY <1>5, <2>1 DEF WithKids
  <2>2. CASE left_down # Null
    <3>1. PICK kk : kk = SubSeq(ks, Half + 2, N + 1)
      OBVIOUS
    <3>2. /\ Half + 2 \in 1..(Len(ks) + 1) /\ N + 1 \in 0..Len(ks) /\ Half + 2 <= (N + 1) + 1
          /\ (N + 1) - (Half + 2) + 1 = Half
      <4>1. Len(ks) = N + 1
        BY ONLY <1>3, <2>2
      <4> QED BY ONLY <1>7, <4>1
    <3>3. /\ kk \in Seq(Septs) /\ Len(kk) = (N + 1) - (Half + 2) + 1
          /\ \A j \in 1..((N + 1) - (Half + 2) + 1) : kk[j] = ks[(Half + 2) + j - 1]
      BY ONLY <3>1, <3>2, SubSeqFacts
    <3>4. m \in 1..Len(kk)
      BY ONLY <1>9, <3>2, <3>3
    <3>5. /\ WithKids(kk, m) \in Seq(Septs) /\ Len(WithKids(kk, m)) = Len(kk) + 1
          /\ \A j \in 1..(Len(kk) + 1) :
                WithKids(kk, m)[j] = IF j < m THEN kk[j] ELSE IF j = m THEN left_down
                                     ELSE IF j = m + 1 THEN right_down ELSE kk[j - 1]
      <4>1. TypeOK /\ left_down \in Septs /\ right_down \in Septs
        BY <1>3, <2>2 DEF TreeInv
      <4> QED BY ONLY <2>2, <3>3, <3>4, <4>1, WithKidsFacts
    <3>6. highK = WithKids(kk, m)
      BY ONLY <1>5, <1>11, <3>1 DEF high_kids
    <3>7. ASSUME NEW j \in 1..(Half + 1) PROVE highK[j] = AllKids(p)[Half + 1 + j]
      <4>1. PICK k : k = Half + 1 + j
        OBVIOUS
      <4>2. /\ k \in 1..(N + 2) /\ j \in 1..(Len(kk) + 1)
            /\ (j < m => j \in 1..Half /\ k <= p /\ k = (Half + 2) + j - 1)
            /\ (j = m => k <= p /\ k = p /\ ~(j < m))
            /\ (j = m + 1 => k = p + 1 /\ ~(j < m) /\ j # m)
            /\ (j > m + 1 => j - 1 \in 1..Half /\ k > p + 1 /\ k - 1 = (Half + 2) + (j - 1) - 1
                              /\ ~(j < m) /\ j # m /\ j # m + 1)
            /\ (j < m \/ j = m \/ j = m + 1 \/ j > m + 1)
        BY ONLY <1>7, <1>9, <3>2, <3>3, <4>1
      <4>3. highK[j] = IF j < m THEN kk[j] ELSE IF j = m THEN left_down
                       ELSE IF j = m + 1 THEN right_down ELSE kk[j - 1]
        BY ONLY <3>5, <3>6, <4>2
      <4>4. CASE j < m
        <5>1. kk[j] = ks[(Half + 2) + j - 1]
          BY ONLY <3>2, <3>3, <4>2, <4>4
        <5>2. AllKids(p)[k] = ks[k]
          BY ONLY <1>3, <2>2, <4>2, <4>4
        <5> QED BY ONLY <4>1, <4>2, <4>3, <4>4, <5>1, <5>2
      <4>5. CASE j = m
        <5>2. AllKids(p)[k] = ks[k]
          BY ONLY <1>3, <2>2, <4>2, <4>5
        <5> QED BY ONLY <1>3, <2>2, <4>1, <4>2, <4>3, <4>5, <5>2
      <4>6. CASE j = m + 1
        <5>2. AllKids(p)[k] = right_down
          BY ONLY <1>3, <2>2, <4>2, <4>6
        <5> QED BY ONLY <4>1, <4>2, <4>3, <4>6, <5>2
      <4>7. CASE j > m + 1
        <5>1. kk[j - 1] = ks[(Half + 2) + (j - 1) - 1]
          BY ONLY <3>2, <3>3, <4>2, <4>7
        <5>2. AllKids(p)[k] = ks[k - 1]
          BY ONLY <1>3, <2>2, <4>2, <4>7
        <5> QED BY ONLY <4>1, <4>2, <4>3, <4>7, <5>1, <5>2
      <4> QED BY ONLY <4>2, <4>4, <4>5, <4>6, <4>7
    <3> QED BY ONLY <2>2, <3>2, <3>3, <3>5, <3>6, <3>7
  <2> QED BY <2>1, <2>2
<1>16. IsLow(low, lowK, AllVals(p), AllKids(p), Half + 1, height[sept])
  <2>1. (Half + 1) - 1 = Half
    BY ONLY <1>7
  <2> QED BY ONLY <1>3, <1>121, <1>14, <2>1 DEF IsLow
<1>17. IsHigh(highH, highK, AllVals(p), AllKids(p), Half + 1, height[sept])
  <2>1. Len(AllVals(p)) - (Half + 1) = Half
    BY ONLY <1>3, <1>7
  <2>2. left_down # Null => Len(AllKids(p)) - (Half + 1) = Half + 1
    BY ONLY <1>3, <1>7
  <2> QED BY ONLY <1>3, <1>12, <1>15, <2>1, <2>2 DEF IsHigh
<1>18. /\ hp' \in [Handles -> Septs \cup {Null}]
       /\ \A i \in 1..N : hp'[hs[i]] = IF i <= Half THEN sept ELSE r
       /\ hp'[hndl_p] = r
       /\ \A g \in Members : g # hndl_p /\ (\A i \in 1..N : hn[sept][i] # g) => hp'[g] = hp[g]
  <2>1. r \in Septs /\ r \in Septs \cup {Null} /\ hndl_p \in {hndl_p, NoHandle}
    BY <1>1, <1>5, ReserveForSplit DEF TreeInv, TypeOK
  <2> QED BY <1>1, <1>3, <1>6, <2>1, SplitMoves
<1>19. \A j \in 1..Half : hp'[low[j]] = sept /\ hp'[highH[j]] = r
  <2> SUFFICES ASSUME NEW j \in 1..Half PROVE hp'[low[j]] = sept /\ hp'[highH[j]] = r
    OBVIOUS
  <2>1. j \in 1..N /\ j <= Half
    BY ONLY <1>7
  <2>2. PICK k : k = Half + 1 + j
    OBVIOUS
  <2>3. /\ k \in 1..(N + 1) /\ (k < p => k \in 1..N /\ ~(k <= Half)) /\ (k < p \/ k = p \/ k > p)
        /\ k > p => k - 1 \in 1..N /\ ~(k - 1 <= Half)
    BY ONLY <1>7, <1>8, <2>2
  <2>4. highH[j] = AllVals(p)[k]
    BY ONLY <1>12, <2>2
  <2>5. hp'[highH[j]] = r
    <3>1. CASE k < p
      BY ONLY <1>3, <1>18, <2>3, <2>4, <3>1, SMTT(30)
    <3>2. CASE k = p
      BY ONLY <1>3, <1>18, <2>3, <2>4, <3>2
    <3>3. CASE k > p
      <4>1. highH[j] = hs[k - 1]
        BY ONLY <1>3, <2>3, <2>4, <3>3
      <4>2. PICK i \in 1..N : i = k - 1 /\ ~(i <= Half)
        BY ONLY <2>3, <3>3
      <4>3. hp'[hs[i]] = r
        BY ONLY <1>18, <4>2
      <4> QED BY ONLY <4>1, <4>2, <4>3
    <3> QED BY ONLY <2>3, <3>1, <3>2, <3>3
  <2> QED BY ONLY <1>4, <1>18, <2>1, <2>5
<1>20. SplitAs(p, r, up, low, lowK, highH, highK)
  BY ONLY <1>1, <1>3, <1>5, <1>6, <1>13, <1>16, <1>17, <1>18, <1>19 DEF SplitAs
<1> QED BY <1>20, SplitCore

LEMMA NewRootStep == ASSUME TreeInv, new_root PROVE TreeInv' /\ Elements' = Elements
<1> USE DEF TreeInv
<1>1. PICK r, h, ld, rd : r = NextSept /\ h = hndl_p /\ ld = left_down /\ rd = right_down
  OBVIOUS
<1>2. /\ pc = "up" /\ sept = Null /\ UNCHANGED <<counts, slots>> /\ UNCHANGED <<load, ops, stage>>
      /\ alloc_sept /\ hn' = [hn EXCEPT ![r] = <<h>>] /\ kid' = [kid EXCEPT ![r] = <<ld, rd>>]
      /\ parent' = [parent EXCEPT ![r] = Null, ![ld] = r, ![rd] = r]
      /\ root_sept' = r /\ hp' = [hp EXCEPT ![h] = r]
      /\ pc' = "idle" /\ sept' = Null /\ hndl_p' = NoHandle /\ pval' = 0
      /\ min' = 0 /\ max' = 0 /\ left_down' = Null /\ right_down' = Null
      /\ lo' = [lo EXCEPT ![r] = NoHandle] /\ hi' = [hi EXCEPT ![r] = NoHandle]
      /\ height' = [height EXCEPT ![r] = height[ld] + 1] /\ left_sept' = left_sept
  BY <1>1 DEF new_root, At, slotVars, envVars, Done
<1>3. left_down # Null
  BY <1>2, UpFacts
<1>4. /\ h \in Handles /\ h \notin Members /\ stage # "gone"
      /\ ld \in used /\ rd \in used /\ ld # rd /\ height[ld] = height[rd]
      /\ parent[ld] = Null /\ parent[rd] = Null /\ hi[ld] = h /\ lo[rd] = h
      /\ Len(hn[ld]) = Half /\ Len(hn[rd]) = Half /\ rd # root_sept /\ ld = root_sept
      /\ \A s \in used : \A i \in 1..Len(kid[s]) : kid[s][i] # rd
  BY <1>1, <1>2, <1>3, UpFacts DEF num_vals
<1>5. r \in sn_reserve /\ r \in Septs /\ r \notin used /\ r \in Addresses /\ r # Null
  <2>1. r \in sn_reserve /\ r \in Septs /\ r \notin used
    BY <1>1, <1>2, ReserveForNewRoot
  <2> QED BY <2>1, AddressFacts
<1>6. Linking /\ ~Linking'
  BY <1>2, <1>3 DEF Linking
<1>7. /\ lo[ld] = NoHandle /\ hi[rd] = NoHandle /\ left_sept \in used /\ kid[left_sept] = << >>
      /\ lo[left_sept] = NoHandle /\ left_sept # Null
  <2>1. ld # Null /\ UpTo(root_sept) = rd
    BY <1>1, <1>3, <1>4, <1>6 DEF UpTo
  <2> QED BY <1>4, <2>1 DEF ShapeInv, RootAgrees, is_leaf
<1>8. /\ ld \in Addresses /\ rd \in Addresses /\ ld # r /\ rd # r /\ ld \in Septs /\ rd \in Septs
      /\ hn \in [Addresses -> Seq(Handles)] /\ kid \in [Addresses -> Seq(Septs)]
      /\ lo \in [Addresses -> Handles \cup {NoHandle}] /\ hi \in [Addresses -> Handles \cup {NoHandle}]
      /\ height \in [Addresses -> Nat] /\ parent \in [Addresses -> Septs \cup {Null}]
      /\ hp \in [Handles -> Septs \cup {Null}] /\ height[ld] \in Nat
  BY <1>4, <1>5, SeptFacts DEF TypeOK
<1>9. <<h>> \in Seq(Handles) /\ Len(<<h>>) = 1 /\ <<h>>[1] = h
  BY <1>4
<1>10. /\ <<ld, rd>> \in Seq(Septs) /\ Len(<<ld, rd>>) = 2 /\ <<ld, rd>>[1] = ld /\ <<ld, rd>>[2] = rd
       /\ <<ld, rd>> # << >>
  BY <1>8
<1>11. PICK H, K : H = <<h>> /\ K = <<ld, rd>>
  OBVIOUS
<1>12. /\ H \in Seq(Handles) /\ Len(H) = 1 /\ H[1] = h /\ K \in Seq(Septs) /\ Len(K) = 2
       /\ K[1] = ld /\ K[2] = rd /\ 1..1 = {1} /\ 1..2 = {1, 2} /\ K # << >>
  BY ONLY <1>9, <1>10, <1>11
<1>13. hn' = [hn EXCEPT ![r] = H] /\ kid' = [kid EXCEPT ![r] = K]
  BY ONLY <1>2, <1>11
<1>14. /\ hn'[r] = H /\ kid'[r] = K /\ lo'[r] = NoHandle /\ hi'[r] = NoHandle
       /\ height'[r] = height[ld] + 1 /\ parent'[r] = Null /\ hp'[h] = r
  <2>1. hn'[r] = H /\ kid'[r] = K
    BY ONLY <1>5, <1>8, <1>13
  <2>2. lo'[r] = NoHandle /\ hi'[r] = NoHandle /\ height'[r] = height[ld] + 1
    BY ONLY <1>2, <1>5, <1>8
  <2>3. parent'[r] = Null /\ hp'[h] = r
    BY ONLY <1>2, <1>4, <1>5, <1>8
  <2> QED BY ONLY <2>1, <2>2, <2>3
<1>15. \A q \in used : /\ hn'[q] = hn[q] /\ kid'[q] = kid[q] /\ lo'[q] = lo[q] /\ hi'[q] = hi[q]
                       /\ height'[q] = height[q] /\ q # r /\ q # Null
                       /\ parent'[q] = IF q \in {ld, rd} THEN r ELSE parent[q]
  <2> SUFFICES ASSUME NEW q \in used
               PROVE  /\ hn'[q] = hn[q] /\ kid'[q] = kid[q] /\ lo'[q] = lo[q] /\ hi'[q] = hi[q]
                      /\ height'[q] = height[q] /\ q # r /\ q # Null
                      /\ parent'[q] = IF q \in {ld, rd} THEN r ELSE parent[q]
    OBVIOUS
  <2>1. q \in Addresses /\ q # r /\ q # Null
    BY <1>5, SeptFacts
  <2>2. hn'[q] = hn[q] /\ kid'[q] = kid[q]
    BY ONLY <1>8, <1>13, <2>1
  <2>3. lo'[q] = lo[q] /\ hi'[q] = hi[q] /\ height'[q] = height[q]
    BY ONLY <1>2, <1>8, <2>1
  <2>4. parent'[q] = IF q \in {ld, rd} THEN r ELSE parent[q]
    BY ONLY <1>2, <1>4, <1>8, <2>1
  <2> QED BY ONLY <2>1, <2>2, <2>3, <2>4
<1>16. used' = used \cup {r}
  BY <1>1, <1>2 DEF alloc_sept
<1>17. TypeOK'
  <2>1. hn' \in [Addresses -> Seq(Handles)] /\ kid' \in [Addresses -> Seq(Septs)]
    BY ONLY <1>5, <1>8, <1>12, <1>13
  <2>2. /\ lo' \in [Addresses -> Handles \cup {NoHandle}] /\ hi' \in [Addresses -> Handles \cup {NoHandle}]
        /\ height' \in [Addresses -> Nat]
    BY ONLY <1>2, <1>5, <1>8
  <2>3. parent' \in [Addresses -> Septs \cup {Null}] /\ hp' \in [Handles -> Septs \cup {Null}]
    BY ONLY <1>2, <1>4, <1>5, <1>8
  <2>4. used' \subseteq Septs /\ sn_reserve' \subseteq Septs
    BY <1>2, <1>5, <1>16 DEF TypeOK, alloc_sept
  <2>5. /\ root_sept' \in Septs \cup {Null} /\ left_sept' \in Septs \cup {Null}
        /\ counts' \in [alloced : Nat, septs : Nat, needed : Nat, next : Nat] /\ slots' \subseteq Handles
        /\ load' \in Seq(Handles) /\ ops' \in Nat /\ stage' \in {"live", "dying", "gone"}
    BY <1>2, <1>5 DEF TypeOK
  <2>6. /\ pc' \in PCs /\ sept' \in Septs \cup {Null} /\ hndl_p' \in Handles \cup {NoHandle}
        /\ pval' \in Int /\ min' \in Int /\ max' \in Int
        /\ left_down' \in Septs \cup {Null} /\ right_down' \in Septs \cup {Null}
    BY ONLY <1>2 DEF PCs
  <2> QED BY ONLY <2>1, <2>2, <2>3, <2>4, <2>5, <2>6 DEF TypeOK
<1>18. Members' = Members \cup {h}
  <2>1. \A g : g \in Members' <=> \E s \in used' : \E i \in 1..Len(hn'[s]) : hn'[s][i] = g
    BY <1>17, MemberFactsPrime
  <2>2. \A g : g \in Members <=> \E s \in used : \E i \in 1..Len(hn[s]) : hn[s][i] = g
    BY MemberFacts
  <2>3. h \in Members'
    BY ONLY <1>12, <1>14, <1>16, <2>1
  <2>4. ASSUME NEW g \in Members PROVE g \in Members'
    BY ONLY <1>15, <1>16, <2>1, <2>2, <2>4
  <2>5. ASSUME NEW g \in Members' PROVE g \in Members \cup {h}
    <3>1. PICK s \in used' : \E i \in 1..Len(hn'[s]) : hn'[s][i] = g
      BY ONLY <2>1, <2>5
    <3>2. CASE s = r
      BY ONLY <1>12, <1>14, <3>1, <3>2
    <3>3. CASE s # r
      BY ONLY <1>15, <1>16, <2>2, <3>1, <3>3
    <3> QED BY ONLY <3>2, <3>3
  <2> QED BY <2>3, <2>4, <2>5
<1>19. Elements' = Elements
  BY <1>1, <1>2, <1>18 DEF Elements
<1>20. SlotsInv'
  <2>1. Elements' \subseteq slots /\ stage' # "gone"
    BY <1>2, <1>4, <1>19 DEF SlotsInv
  <2> QED BY <1>1, <1>2, <1>4, <1>5, <2>1, AllocSept
<1>21. SeptInOrder(r)' /\ ChildrenAgree(r)'
  <2>1. Spans(H, K, NoHandle, NoHandle, height[ld] + 1)
    <3>1. Between(H, NoHandle, NoHandle)
      BY ONLY <1>12 DEF Between, After, Before
    <3>2. height[ld] + 1 # 0 /\ (height[ld] + 1) - 1 = height[ld] /\ Len(K) = Len(H) + 1
      BY ONLY <1>8, <1>12
    <3>3. ASSUME NEW j \in 1..Len(K)
          PROVE  /\ K[j] \in used /\ height[K[j]] = (height[ld] + 1) - 1
                 /\ lo[K[j]] = (IF j = 1 THEN NoHandle ELSE H[j - 1])
                 /\ hi[K[j]] = (IF j = Len(K) THEN NoHandle ELSE H[j])
      <4>1. CASE j = 1
        BY ONLY <1>4, <1>7, <1>12, <3>2, <4>1
      <4>2. CASE j = 2
        <5>1. j - 1 = 1
          BY ONLY <4>2
        <5> QED BY ONLY <1>4, <1>7, <1>12, <3>2, <4>2, <5>1
      <4> QED BY ONLY <1>12, <4>1, <4>2
    <3> QED BY ONLY <3>1, <3>2, <3>3 DEF Spans
  <2>2. ASSUME NEW j \in 1..Len(K)
        PROVE  /\ K[j] \in used' /\ parent'[K[j]] = r /\ height'[K[j]] = height[K[j]]
               /\ lo'[K[j]] = lo[K[j]]
               /\ hi'[IF Linking' /\ K[j] = left_down' THEN right_down' ELSE K[j]] = hi[K[j]]
    <3>1. K[j] \in {ld, rd}
      BY ONLY <1>12
    <3> QED BY ONLY <1>4, <1>6, <1>15, <1>16, <3>1
  <2>3. Len(H) <= N /\ height[ld] + 1 \in Nat
    BY ONLY <1>8, <1>12, HalfFacts
  <2>4. \A j \in 1..Len(H) : hp'[H[j]] = r
    BY ONLY <1>12, <1>14
  <2>5. Receives(r, H, K, NoHandle, NoHandle, height[ld] + 1)
    BY ONLY <1>12, <1>14, <2>1, <2>2, <2>3, <2>4 DEF Receives
  <2> QED BY <2>5, Installed
<1>22. ASSUME NEW s \in used PROVE SeptInOrder(s)' /\ ChildrenAgree(s)'
  <2>1. /\ hn[s] \in Seq(Handles) /\ kid[s] \in Seq(Septs) /\ Len(hn[s]) <= N /\ height[s] \in Nat /\ s # Null
    BY SeptFacts
  <2>2. Spans(hn[s], kid[s], lo[s], hi[s], height[s])
    <3>1. parent[left_down] # s
      BY <1>1, <1>4, <2>1
    <3> QED BY <3>1, OwnSpan
  <2>3. \A j \in 1..Len(hn[s]) : hp'[hn[s][j]] = s
    <3> SUFFICES ASSUME NEW j \in 1..Len(hn[s]) PROVE hp'[hn[s][j]] = s
      OBVIOUS
    <3>1. hn[s][j] \in Members /\ hn[s][j] \in Handles /\ hp[hn[s][j]] = s
      BY MemberFacts, ValueFacts
    <3> QED BY <1>2, <1>4, <1>8, <3>1
  <2>4. ASSUME NEW j \in 1..Len(kid[s])
        PROVE  /\ kid[s][j] \in used' /\ parent'[kid[s][j]] = s /\ height'[kid[s][j]] = height[kid[s][j]]
               /\ lo'[kid[s][j]] = lo[kid[s][j]]
               /\ hi'[IF Linking' /\ kid[s][j] = left_down' THEN right_down' ELSE kid[s][j]] = hi[kid[s][j]]
    <3>1. kid[s][j] \in used /\ parent[kid[s][j]] = s
      BY KidFacts
    <3>2. kid[s][j] # ld /\ kid[s][j] # rd
      BY <1>4, <2>1, <3>1
    <3> QED BY ONLY <1>6, <1>15, <1>16, <3>1, <3>2
  <2>5. hn'[s] = hn[s] /\ kid'[s] = kid[s] /\ lo'[s] = lo[s] /\ hi'[s] = hi[s] /\ height'[s] = height[s]
    BY <1>15
  <2>6. Receives(s, hn[s], kid[s], lo[s], hi[s], height[s])
    BY ONLY <2>1, <2>2, <2>3, <2>4, <2>5 DEF Receives
  <2> QED BY <2>6, Installed
<1>23. ASSUME NEW s \in used PROVE ParentAgrees(s)'
  <2>1. CASE s \in {ld, rd}
    <3>1. parent'[s] = r /\ r \in used'
      BY ONLY <1>15, <1>16, <2>1
    <3>2. \E i \in 1..Len(kid'[parent'[s]]) : kid'[parent'[s]][i] = s
      BY ONLY <1>12, <1>14, <2>1, <3>1
    <3>3. height'[s] < height'[root_sept']
      BY ONLY <1>2, <1>4, <1>8, <1>14, <1>15, <2>1
    <3> QED BY <3>1, <3>2, <3>3 DEF ParentAgrees
  <2>2. CASE s \notin {ld, rd}
    <3>1. ParentAgrees(s)
      BY <1>1, <1>4, <2>2 DEF ShapeInv
    <3>2. parent'[s] = parent[s] /\ parent[s] \in used /\ height[s] < height[ld]
      BY <1>4, <1>15, <2>2, <3>1 DEF ParentAgrees
    <3>3. \E i \in 1..Len(kid'[parent'[s]]) : kid'[parent'[s]][i] = s
      BY <1>15, <3>1, <3>2 DEF ParentAgrees
    <3>4. height[s] \in Nat
      BY SeptFacts
    <3>5. height'[s] < height'[root_sept']
      BY ONLY <1>2, <1>8, <1>14, <1>15, <3>2, <3>4
    <3> QED BY <1>16, <3>2, <3>3, <3>5 DEF ParentAgrees
  <2> QED BY <2>1, <2>2
<1>24. RootAgrees'
  <2>1. UpTo(root_sept)' = r
    BY <1>2, <1>6 DEF UpTo
  <2>2. r \in used' /\ left_sept \in used' /\ kid'[left_sept] = << >> /\ lo'[left_sept] = NoHandle
    BY ONLY <1>7, <1>15, <1>16
  <2> QED BY <1>2, <1>5, <1>7, <1>14, <2>1, <2>2 DEF RootAgrees, is_leaf
<1>25. ShapeInv'
  BY <1>2, <1>16, <1>21, <1>22, <1>23, <1>24 DEF ShapeInv
<1>26. FillInv'
  <2>1. ASSUME NEW s \in used' PROVE Filled(s)'
    <3>1. CASE s = r
      <4>1. Len(hn'[s]) = 1 /\ s = root_sept'
        BY ONLY <1>2, <1>12, <1>14, <3>1
      <4> QED BY ONLY <4>1 DEF Filled, num_vals
    <3>2. CASE s # r
      <4>1. s \in used /\ hn'[s] = hn[s]
        BY <1>15, <1>16, <3>2
      <4>2. s # ld => Len(hn[s]) >= Half
        <5>1. s # sept
          BY <1>2, <4>1, SeptFacts
        <5> QED BY <1>2, <1>4, <4>1, <5>1 DEF FillInv, Filled, num_vals
      <4>3. Len(hn[s]) >= Half
        BY <1>4, <4>2, HalfFacts
      <4> QED BY <1>2, <3>2, <4>1, <4>3 DEF Filled, num_vals
    <3> QED BY <3>1, <3>2
  <2> QED BY <2>1 DEF FillInv
<1>27. OpInv'
  BY <1>2, IdleOp
<1> QED BY <1>17, <1>19, <1>20, <1>25, <1>26, <1>27

-----------------------------------------------------------------------------
(* Removal.                                                                *)

\* Values in order stay so when one of them is removed.
LEMMA RemoveBetween ==
    ASSUME NEW H \in Seq(Handles), NEW i \in 1..Len(H), NEW a, NEW b, Between(H, a, b)
    PROVE  /\ Between(RemoveAt(H, i), a, b)
           /\ \A h : (\E j \in 1..Len(RemoveAt(H, i)) : RemoveAt(H, i)[j] = h)
                       <=> \E j \in 1..Len(H) : j # i /\ H[j] = h
<1>1. PICK G : G = RemoveAt(H, i)
  OBVIOUS
<1>2. /\ G \in Seq(Handles) /\ Len(G) = Len(H) - 1
      /\ \A j \in 1..(Len(H) - 1) : G[j] = IF j < i THEN H[j] ELSE H[j + 1]
  BY <1>1, RemoveAtFacts
<1>3. Len(H) \in Nat /\ i \in Nat /\ 1 <= i /\ i <= Len(H)
  OBVIOUS
<1>4. /\ \A j, k \in 1..Len(H) : j < k => Key[H[j]] < Key[H[k]]
      /\ \A j \in 1..Len(H) : After(a, H[j]) /\ Before(H[j], b)
  BY DEF Between
<1>5. \A j \in 1..Len(G) : \E k \in 1..Len(H) : k # i /\ G[j] = H[k] /\ (k = IF j < i THEN j ELSE j + 1)
  <2> SUFFICES ASSUME NEW j \in 1..Len(G)
               PROVE  \E k \in 1..Len(H) : k # i /\ G[j] = H[k] /\ (k = IF j < i THEN j ELSE j + 1)
    OBVIOUS
  <2>1. PICK k : k = IF j < i THEN j ELSE j + 1
    OBVIOUS
  <2>2. k \in 1..Len(H) /\ k # i /\ j \in 1..(Len(H) - 1)
    BY ONLY <1>2, <1>3, <2>1
  <2>3. G[j] = H[k]
    BY ONLY <1>2, <2>1, <2>2
  <2> QED BY ONLY <2>1, <2>2, <2>3
<1>6. Between(G, a, b)
  <2>1. ASSUME NEW j \in 1..Len(G), NEW l \in 1..Len(G), j < l PROVE Key[G[j]] < Key[G[l]]
    <3>1. PICK k \in 1..Len(H) : G[j] = H[k] /\ (k = IF j < i THEN j ELSE j + 1)
      BY ONLY <1>5
    <3>2. PICK m \in 1..Len(H) : G[l] = H[m] /\ (m = IF l < i THEN l ELSE l + 1)
      BY ONLY <1>5
    <3>3. k < m
      BY ONLY <1>2, <1>3, <2>1, <3>1, <3>2
    <3> QED BY ONLY <1>4, <3>1, <3>2, <3>3
  <2>2. ASSUME NEW j \in 1..Len(G) PROVE After(a, G[j]) /\ Before(G[j], b)
    BY ONLY <1>4, <1>5
  <2> QED BY <2>1, <2>2 DEF Between
<1>7. ASSUME NEW h, NEW k \in 1..Len(H), k # i, H[k] = h PROVE \E j \in 1..Len(G) : G[j] = h
  <2>1. PICK j : j = IF k < i THEN k ELSE k - 1
    OBVIOUS
  <2>2. j \in 1..(Len(H) - 1) /\ j \in 1..Len(G) /\ (IF j < i THEN j ELSE j + 1) = k
    BY ONLY <1>2, <1>3, <1>7, <2>1
  <2>3. G[j] = H[k]
    BY ONLY <1>2, <2>2
  <2> QED BY ONLY <1>7, <2>2, <2>3
<1>8. ASSUME NEW h PROVE (\E j \in 1..Len(G) : G[j] = h) <=> \E j \in 1..Len(H) : j # i /\ H[j] = h
  <2>1. ASSUME NEW j \in 1..Len(G), G[j] = h PROVE \E k \in 1..Len(H) : k # i /\ H[k] = h
    BY ONLY <1>5, <2>1
  <2> QED BY ONLY <1>7, <2>1
<1> QED BY ONLY <1>1, <1>6, <1>8

\* A leaf without one of its values is repopulated if the others are too few.
LEMMA RemoveLeaf ==
    ASSUME TreeInv, remove, hndl_p \in Members, is_leaf(hp[hndl_p])
    PROVE  TreeInv' /\ Elements' = Elements \ {hndl_p}
<1> USE DEF TreeInv
<1>1. PICK h, s, i : h = hndl_p /\ s = hp[hndl_p] /\ i = Position(hn[s], hndl_p)
  OBVIOUS
<1>2. PICK H, G : H = hn[s] /\ G = RemoveAt(H, i)
  OBVIOUS
<1>3. /\ pc = "remove" /\ UNCHANGED <<counts, slots>> /\ UNCHANGED <<load, ops, stage>>
      /\ hn' = [hn EXCEPT ![s] = G] /\ repop_if(s, Len(H) - 1)
      /\ UNCHANGED <<kid, parent, hp, used, lo, hi, height, root_sept, left_sept, sn_reserve>>
  BY <1>1, <1>2 DEF remove, At, slotVars, envVars, num_vals
<1>4. /\ s \in used /\ h \in Handles /\ i \in 1..Len(H) /\ H[i] = h /\ H \in Seq(Handles) /\ Len(H) \in Nat
      /\ s \in Addresses /\ s \in Septs /\ kid[s] = << >> /\ height[s] = 0 /\ hn \in [Addresses -> Seq(Handles)]
      /\ Len(H) <= N
  <2>1. s \in used /\ h \in Handles /\ i \in 1..Len(H) /\ H[i] = h
    BY <1>1, <1>2, MemberSept
  <2> QED BY <1>1, <1>2, <2>1, SeptFacts DEF is_leaf, TypeOK
<1>5. left_down = Null /\ ~Linking /\ stage # "gone"
  BY <1>3, NotGone DEF OpInv, Linking
<1>6. /\ left_down' = Null /\ (right_down' = right_down \/ right_down' = Null)
      /\ \/ /\ Len(H) - 1 < Half /\ pc' = "repop" /\ sept' = s /\ hndl_p' = NoHandle
            /\ UNCHANGED <<pval, min, max>>
         \/ /\ ~(Len(H) - 1 < Half) /\ pc' = "idle" /\ sept' = Null /\ hndl_p' = NoHandle /\ pval' = 0
            /\ min' = 0 /\ max' = 0
  BY <1>3, <1>5 DEF repop_if, Registers, NoSearch, Done
<1>7. ~Linking' /\ pc' \in {"idle", "repop"}
  BY <1>6 DEF Linking
<1>8. G \in Seq(Handles) /\ Len(G) = Len(H) - 1
  BY <1>2, <1>4, RemoveAtFacts
<1>9. hn'[s] = G /\ \A q \in used : q # s => hn'[q] = hn[q]
  <2>1. hn'[s] = G
    BY ONLY <1>3, <1>4
  <2>2. ASSUME NEW q \in used, q # s PROVE hn'[q] = hn[q]
    <3>1. q \in Addresses
      BY SeptFacts
    <3> QED BY ONLY <1>3, <1>4, <2>2, <3>1
  <2> QED BY ONLY <2>1, <2>2
<1>10. Spans(H, kid[s], lo[s], hi[s], height[s])
  BY <1>2, <1>4, <1>5, OwnSpan
<1>11. /\ Between(G, lo[s], hi[s])
       /\ \A g : (\E j \in 1..Len(G) : G[j] = g) <=> \E j \in 1..Len(H) : j # i /\ H[j] = g
  <2>1. Between(H, lo[s], hi[s])
    BY <1>10 DEF Spans
  <2>2. PICK a, b : a = lo[s] /\ b = hi[s]
    OBVIOUS
  <2>3. Between(H, a, b)
    BY ONLY <2>1, <2>2
  <2>4. PICK q \in Seq(Handles) : q = H
    BY ONLY <1>4
  <2>5. i \in 1..Len(q) /\ Between(q, a, b)
    BY ONLY <1>4, <2>3, <2>4
  <2>6. /\ Between(RemoveAt(q, i), a, b)
        /\ \A g : (\E j \in 1..Len(RemoveAt(q, i)) : RemoveAt(q, i)[j] = g) <=> \E j \in 1..Len(q) : j # i /\ q[j] = g
    BY ONLY <2>5, RemoveBetween
  <2> QED BY ONLY <1>2, <2>2, <2>4, <2>6
<1>12. TypeOK'
  <2>1. hn' \in [Addresses -> Seq(Handles)]
    BY ONLY <1>3, <1>4, <1>8
  <2>2. /\ pc' \in PCs /\ sept' \in Septs \cup {Null} /\ hndl_p' \in Handles \cup {NoHandle}
        /\ pval' \in Int /\ min' \in Int /\ max' \in Int
        /\ left_down' \in Septs \cup {Null} /\ right_down' \in Septs \cup {Null}
    <3>1. pval \in Int /\ min \in Int /\ max \in Int /\ right_down \in Septs \cup {Null}
      BY DEF TypeOK
    <3> QED BY ONLY <1>4, <1>6, <3>1 DEF PCs
  <2> QED BY <1>3, <2>1, <2>2 DEF TypeOK
<1>13. Members' = Members \ {h}
  <2>1. \A g : g \in Members' <=> \E q \in used : \E j \in 1..Len(hn'[q]) : hn'[q][j] = g
    BY <1>3, <1>12, MemberFactsPrime
  <2>2. \A g : g \in Members <=> \E q \in used : \E j \in 1..Len(hn[q]) : hn[q][j] = g
    BY MemberFacts
  <2>3. ASSUME NEW g \in Members', g \notin Members \/ g = h PROVE FALSE
    <3>0. PICK q \in used : \E j \in 1..Len(hn'[q]) : hn'[q][j] = g
      BY ONLY <2>1, <2>3
    <3>1. PICK j \in 1..Len(hn'[q]) : hn'[q][j] = g
      BY ONLY <3>0
    <3>2. CASE q = s
      <4>1. PICK k \in 1..Len(H) : k # i /\ H[k] = g
        BY ONLY <1>9, <1>11, <3>1, <3>2
      <4>2. g \in Members
        BY ONLY <1>2, <1>4, <2>2, <4>1
      <4>3. Key[H[k]] # Key[H[i]]
        <5>1. \A x, y \in 1..Len(H) : x < y => Key[H[x]] < Key[H[y]]
          BY <1>10 DEF Spans, Between
        <5>2. Key[H[k]] \in Int /\ Key[H[i]] \in Int
          BY <1>4, <4>1, OrderAssumption
        <5>3. k < i \/ i < k
          BY ONLY <1>4, <4>1
        <5> QED BY ONLY <1>4, <5>1, <5>2, <5>3
      <4> QED BY ONLY <1>4, <2>3, <4>1, <4>2, <4>3
    <3>3. CASE q # s
      <4>1. hn'[q] = hn[q] /\ g \in Members /\ j \in 1..Len(hn[q]) /\ hn[q][j] = g
        BY ONLY <1>9, <2>2, <3>1, <3>3
      <4>2. hp[g] = q
        BY <4>1, ValueFacts
      <4> QED BY <1>1, <2>3, <3>3, <4>1, <4>2
    <3> QED BY ONLY <3>2, <3>3
  <2>4. ASSUME NEW g \in Members, g # h PROVE g \in Members'
    <3>0. PICK q \in used : \E j \in 1..Len(hn[q]) : hn[q][j] = g
      BY ONLY <2>2, <2>4
    <3>1. PICK j \in 1..Len(hn[q]) : hn[q][j] = g
      BY ONLY <3>0
    <3>2. CASE q = s
      <4>1. \E k \in 1..Len(G) : G[k] = g
        BY ONLY <1>2, <1>4, <1>11, <2>4, <3>1, <3>2
      <4> QED BY ONLY <1>4, <1>9, <2>1, <4>1
    <3>3. CASE q # s
      BY ONLY <1>9, <2>1, <3>1, <3>3
    <3> QED BY ONLY <3>2, <3>3
  <2> QED BY <2>3, <2>4
<1>14. Elements' = Elements \ {hndl_p}
  BY <1>1, <1>3, <1>6, <1>13 DEF Elements
<1>15. SlotsInv'
  <2>1. Elements' \subseteq slots /\ stage' # "gone"
    BY <1>3, <1>5, <1>14 DEF SlotsInv
  <2> QED BY <1>3, <1>5, <2>1, SameSlots
<1>16. ASSUME NEW q \in used PROVE SeptInOrder(q)' /\ ChildrenAgree(q)'
  <2>1. /\ hn[q] \in Seq(Handles) /\ kid[q] \in Seq(Septs) /\ Len(hn[q]) <= N /\ height[q] \in Nat
    BY SeptFacts
  <2>2. Spans(hn[q], kid[q], lo[q], hi[q], height[q])
    BY <1>5, OwnSpan
  <2>3. \A j \in 1..Len(hn[q]) : hp'[hn[q][j]] = q
    BY <1>3, ValueFacts
  <2>4. \A j \in 1..Len(kid[q]) :
               /\ kid[q][j] \in used' /\ parent'[kid[q][j]] = q /\ height'[kid[q][j]] = height[kid[q][j]]
               /\ lo'[kid[q][j]] = lo[kid[q][j]]
               /\ hi'[IF Linking' /\ kid[q][j] = left_down' THEN right_down' ELSE kid[q][j]] = hi[kid[q][j]]
    BY <1>3, <1>7, KidFacts
  <2>5. kid'[q] = kid[q] /\ lo'[q] = lo[q] /\ hi'[q] = hi[q] /\ height'[q] = height[q]
    BY <1>3
  <2>6. CASE q # s
    <3>1. Receives(q, hn[q], kid[q], lo[q], hi[q], height[q])
      BY ONLY <1>9, <2>1, <2>2, <2>3, <2>4, <2>5, <2>6 DEF Receives
    <3> QED BY <3>1, Installed
  <2>7. CASE q = s
    <3>1. Spans(G, kid[q], lo[q], hi[q], height[q])
      BY ONLY <1>4, <1>11, <2>7 DEF Spans
    <3>2. \A j \in 1..Len(G) : hp'[G[j]] = q
      BY ONLY <1>2, <1>11, <2>3, <2>7, SMTT(30)
    <3>3. Len(G) <= N
      BY <1>4, <1>8, HalfFacts
    <3>4. Receives(q, G, kid[q], lo[q], hi[q], height[q])
      BY ONLY <1>8, <1>9, <2>1, <2>4, <2>5, <2>7, <3>1, <3>2, <3>3 DEF Receives
    <3> QED BY <3>4, Installed
  <2> QED BY <2>6, <2>7
<1>17. ASSUME NEW q \in used, q # root_sept PROVE ParentAgrees(q)'
  BY <1>3, <1>5, <1>17 DEF ShapeInv, ParentAgrees
<1>18. RootAgrees'
  BY <1>3, <1>5, <1>7 DEF ShapeInv, RootAgrees, UpTo, is_leaf
<1>19. ShapeInv'
  BY <1>3, <1>16, <1>17, <1>18 DEF ShapeInv
<1>20. FillInv'
  <2> SUFFICES ASSUME NEW q \in used
               PROVE  \/ Filled(q)'
                      \/ /\ pc' = "repop" /\ q = sept' /\ (q = root_sept' \/ Len(hn'[q]) = Half - 1)
                         /\ Len(hn'[q]) < Half /\ (Len(hn'[q]) = 0 => kid'[q] = << >>)
    BY <1>3 DEF FillInv, num_vals, is_leaf
  <2>1. Len(hn[q]) >= (IF q = root_sept THEN 1 ELSE Half)
    BY <1>3 DEF FillInv, Filled, num_vals
  <2>2. CASE q # s
    BY <1>3, <1>9, <2>1, <2>2 DEF Filled, num_vals
  <2>3. CASE q = s /\ Len(H) - 1 < Half
    BY <1>2, <1>3, <1>4, <1>6, <1>8, <1>9, <2>1, <2>3, HalfFacts
  <2>4. CASE q = s /\ ~(Len(H) - 1 < Half)
    BY <1>3, <1>4, <1>8, <1>9, <2>4, HalfFacts DEF Filled, num_vals
  <2> QED BY <2>2, <2>3, <2>4
<1>21. OpInv'
  <2>1. pc' = "repop" => sept' \in used' /\ num_vals(sept)' < Half
    BY <1>3, <1>4, <1>6, <1>8, <1>9 DEF num_vals
  <2> QED BY <1>6, <1>7, <2>1 DEF OpInv, SearchInv, UpInv, SuccInv, FindInv, FindsMembers
<1> QED BY <1>12, <1>14, <1>15, <1>19, <1>20, <1>21

\* Of two septs, the lower one lies within the bounds of the other or outside them.
LEMMA Laminar ==
    ASSUME TypeOK, ShapeInv, ~Linking, NEW a \in used, NEW b \in used, a # b, height[a] <= height[b]
    PROVE  Apart(a, b) \/ Within(a, b)
<1> DEFINE Bad(x) == x # b /\ height[x] <= height[b] /\ ~(Apart(x, b) \/ Within(x, b))
           T == {height[b] - height[x] : x \in {y \in used : Bad(y)}}
<1>1. \A x \in used : height[x] \in Nat /\ lo[x] \in Handles \cup {NoHandle} /\ hi[x] \in Handles \cup {NoHandle}
  BY SeptFacts
<1>2. \A g \in Handles : Key[g] \in Int
  BY OrderAssumption
<1> SUFFICES ASSUME Bad(a) PROVE FALSE
  BY DEF Bad
<1>3. T \subseteq Nat /\ T # {}
  BY <1>1
<1>4. PICK d \in T : \A e \in T : d <= e
  BY <1>3, LeastNat
<1>5. PICK x \in used : Bad(x) /\ d = height[b] - height[x]
  OBVIOUS
<1>6. \A y \in used : Bad(y) => height[x] >= height[y]
  <2> SUFFICES ASSUME NEW y \in used, Bad(y) PROVE height[x] >= height[y]
    OBVIOUS
  <2>1. d <= height[b] - height[y]
    BY <1>4
  <2> QED BY <1>1, <1>5, <2>1
<1> HIDE DEF T
<1>7. height[x] < height[b]
  <2>1. height[x] # height[b]
    BY <1>5, SameHeightApart DEF Bad
  <2> QED BY <1>1, <1>5, <2>1 DEF Bad
<1>8. x # root_sept
  <2>1. b # root_sept => height[b] < height[root_sept]
    BY ParentFacts
  <2>2. root_sept \in used
    BY DEF ShapeInv, RootAgrees
  <2> QED BY <1>1, <1>7, <2>1, <2>2
<1>9. PICK p \in used : p = parent[x] /\ height[p] = height[x] + 1
  BY <1>8, ParentFacts
<1>10. Within(x, p)
  BY <1>8, <1>9, WithinParent
<1>11. p # b
  BY <1>5, <1>10 DEF Bad
<1>12. Apart(p, b) \/ Within(p, b)
  <2>1. ~(height[x] >= height[p]) /\ height[p] <= height[b]
    BY <1>1, <1>7, <1>9
  <2>2. ~Bad(p)
    BY <1>6, <2>1
  <2> QED BY <1>11, <2>1, <2>2 DEF Bad
<1>13. ASSUME NEW u \in Handles \cup {NoHandle}, NEW v \in Handles \cup {NoHandle}, NEW w \in Handles \cup {NoHandle},
              Ends(u, v), Ends(v, w)
       PROVE  Ends(u, w)
  BY <1>2, <1>13 DEF Ends
<1>14. CASE Apart(p, b)
  <2>1. CASE Ends(hi[p], lo[b])
    <3>1. Ends(hi[x], hi[p])
      BY <1>10, <2>1 DEF Within, Ends
    <3>2. Ends(hi[x], lo[b])
      BY ONLY <1>1, <1>13, <2>1, <3>1
    <3> QED BY <1>5, <3>2 DEF Bad, Apart
  <2>2. CASE Ends(hi[b], lo[p])
    <3>1. Ends(lo[p], lo[x])
      BY <1>10, <2>2 DEF Within, Ends
    <3>2. Ends(hi[b], lo[x])
      BY ONLY <1>1, <1>13, <2>2, <3>1
    <3> QED BY <1>5, <3>2 DEF Bad, Apart
  <2> QED BY <1>14, <2>1, <2>2 DEF Apart
<1>15. CASE Within(p, b)
  <2>1. lo[b] = NoHandle \/ Ends(lo[b], lo[x])
    <3> SUFFICES ASSUME lo[b] # NoHandle PROVE Ends(lo[b], lo[x])
      OBVIOUS
    <3>1. Ends(lo[b], lo[p])
      BY <1>15 DEF Within
    <3>2. Ends(lo[p], lo[x])
      BY <1>10, <3>1 DEF Within, Ends
    <3> QED BY ONLY <1>1, <1>13, <3>1, <3>2
  <2>2. hi[b] = NoHandle \/ Ends(hi[x], hi[b])
    <3> SUFFICES ASSUME hi[b] # NoHandle PROVE Ends(hi[x], hi[b])
      OBVIOUS
    <3>1. Ends(hi[p], hi[b])
      BY <1>15 DEF Within
    <3>2. Ends(hi[x], hi[p])
      BY <1>10, <3>1 DEF Within, Ends
    <3> QED BY ONLY <1>1, <1>13, <3>1, <3>2
  <2> QED BY <1>5, <2>1, <2>2 DEF Bad, Within
<1> QED BY <1>12, <1>14, <1>15

\* The first value of the leaf that a removal has come to is the next one after the
\* value that is removed: no value stands between them, and it fits where that stood.
LEMMA SuccFacts ==
    ASSUME TreeInv, pc = "succ", is_leaf(sept), NEW h, NEW S, NEW L, NEW n,
           h = hndl_p, S = hp[h], L = sept, n = hn[L][1]
    PROVE  /\ S \in used /\ L \in used /\ L # S /\ L # root_sept /\ height[L] = 0 /\ kid[L] = << >>
           /\ h \in Handles /\ h \in Members /\ n \in Handles /\ n \in Members /\ n # h /\ hp[n] = L
           /\ Len(hn[L]) \in Nat /\ Len(hn[L]) >= Half /\ Len(hn[L]) <= N
           /\ lo[L] = h /\ hi[L] # h /\ lo[S] # h /\ hi[S] # h
           /\ Key[h] < Key[n] /\ Before(n, hi[S])
           /\ \A v \in Members : v # n /\ Key[h] < Key[v] => Key[n] < Key[v]
<1> USE DEF TreeInv
<1>1. /\ h \in Handles /\ S \in used /\ ~is_leaf(S) /\ L \in used /\ lo[L] = h /\ height[L] < height[S]
      /\ \E i \in 1..num_vals(S) : hn[S][i] = h
  BY DEF OpInv, SuccInv
<1>2. PICK i \in 1..Len(hn[S]) : hn[S][i] = h
  BY <1>1 DEF num_vals
<1>3. left_down = Null /\ ~Linking
  BY DEF OpInv, Linking
<1>4. kid[L] = << >> /\ height[L] = 0 /\ height[S] \in Nat /\ hn[L] \in Seq(Handles) /\ Len(hn[L]) \in Nat
      /\ Len(hn[L]) <= N /\ hi[L] \in Handles \cup {NoHandle} /\ lo[S] \in Handles \cup {NoHandle}
      /\ hi[S] \in Handles \cup {NoHandle}
  BY <1>1, SeptFacts DEF is_leaf
<1>5. L # S
  BY <1>1, <1>4
<1>6. h # NoHandle
  BY <1>1, OrderAssumption
<1>7. L # root_sept
  <2>1. root_sept # Null => lo[root_sept] = NoHandle
    BY DEF ShapeInv, RootAgrees
  <2>2. L # Null
    BY <1>1, SeptFacts
  <2> QED BY <1>1, <1>6, <2>1, <2>2
<1>8. Len(hn[L]) >= Half
  BY <1>1, <1>7 DEF FillInv, Filled, num_vals
<1>9. 1 \in 1..Len(hn[L])
  BY ONLY <1>4, <1>8, HalfFacts
<1>10. n \in Handles /\ After(h, n) /\ Before(n, hi[L]) /\ hp[n] = L
  BY <1>1, <1>9, ValueFacts
<1>11. \A g \in Handles : Key[g] \in Int
  BY OrderAssumption
<1>12. Key[h] < Key[n] /\ n # h
  BY <1>1, <1>6, <1>10, <1>11 DEF After
<1>13. h \in Members /\ n \in Members
  BY <1>1, <1>2, <1>9, MemberFacts
<1>14. After(lo[S], h) /\ Before(h, hi[S])
  BY <1>1, <1>2, ValueFacts
<1>15. lo[S] # h /\ hi[S] # h /\ hi[L] # h
  <2>1. ~(Key[h] < Key[h]) /\ ~(Key[n] < Key[h])
    BY ONLY <1>1, <1>10, <1>11, <1>12
  <2> QED BY ONLY <1>6, <1>10, <1>14, <2>1 DEF After, Before
<1>16. Before(n, hi[S])
  <2>1. height[L] <= height[S]
    BY ONLY <1>1, <1>4
  <2>2. Apart(L, S) \/ Within(L, S)
    BY <1>1, <1>3, <1>5, <2>1, Laminar
  <2>3. CASE Ends(hi[L], lo[S])
    <3>1. Key[n] < Key[hi[L]] /\ Key[hi[L]] <= Key[lo[S]] /\ Key[lo[S]] < Key[h]
      BY ONLY <1>10, <1>14, <2>3 DEF Ends, After, Before
    <3>2. hi[L] \in Handles /\ lo[S] \in Handles
      BY ONLY <1>4, <2>3 DEF Ends
    <3> QED BY ONLY <1>1, <1>10, <1>11, <1>12, <3>1, <3>2
  <2>4. CASE Ends(hi[S], lo[L])
    <3>1. Key[hi[S]] <= Key[h] /\ Key[h] < Key[hi[S]]
      BY ONLY <1>1, <1>14, <2>4 DEF Ends, Before
    <3>2. hi[S] \in Handles
      BY ONLY <1>4, <2>4 DEF Ends
    <3> QED BY ONLY <1>1, <1>11, <3>1, <3>2
  <2>5. CASE Within(L, S)
    <3>1. hi[S] = NoHandle \/ Ends(hi[L], hi[S])
      BY ONLY <2>5 DEF Within
    <3>2. CASE Ends(hi[L], hi[S])
      <4>1. Key[n] < Key[hi[L]] /\ Key[hi[L]] <= Key[hi[S]]
        BY ONLY <1>10, <3>2 DEF Ends, Before
      <4>2. hi[L] \in Handles /\ hi[S] \in Handles
        BY ONLY <1>4, <3>2 DEF Ends
      <4> QED BY ONLY <1>10, <1>11, <4>1, <4>2 DEF Before
    <3> QED BY ONLY <3>1, <3>2 DEF Before
  <2> QED BY ONLY <2>2, <2>3, <2>4, <2>5 DEF Apart
<1>17. ASSUME NEW v \in Members, v # n, Key[h] < Key[v] PROVE Key[n] < Key[v]
  <2>1. v \in Handles /\ hp[v] \in used
    BY MemberSept
  <2>2. PICK q, j : q = hp[v] /\ j = Position(hn[q], v)
    OBVIOUS
  <2>3. q \in used /\ j \in 1..Len(hn[q]) /\ hn[q][j] = v
    BY <2>2, MemberSept
  <2>4. CASE q = L
    <3>1. 1 < j
      BY ONLY <1>9, <1>17, <2>3, <2>4, n = hn[L][1]
    <3>2. \A k \in 1..Len(hn[L]) : 1 < k => Key[hn[L][1]] < Key[hn[L][k]]
      BY <1>1, <1>9, ValueFacts
    <3> QED BY ONLY <2>3, <2>4, <3>1, <3>2, n = hn[L][1]
  <2>5. CASE q # L
    <3> SUFFICES ASSUME ~(Key[n] < Key[v]) PROVE FALSE
      OBVIOUS
    <3>1. Key[v] # Key[n]
      BY <1>3, <1>13, <1>17, UniqueKeys
    <3>2. Key[v] < Key[n]
      BY <1>10, <1>11, <2>1, <3>1
    <3>3. After(lo[L], v) /\ Before(v, hi[L])
      <4>1. After(lo[L], v)
        BY ONLY <1>1, <1>17 DEF After
      <4>2. hi[L] # NoHandle => Key[v] < Key[hi[L]]
        BY ONLY <1>4, <1>10, <1>11, <2>1, <3>2 DEF Before
      <4> QED BY <4>1, <4>2 DEF Before
    <3>4. height[q] < height[L]
      BY <1>1, <1>3, <2>3, <2>5, <3>3, Separation
    <3> QED BY <1>4, <2>3, <3>4, SeptFacts
  <2> QED BY ONLY <2>4, <2>5
<1> QED BY ONLY <1>1, <1>4, <1>5, <1>7, <1>8, <1>10, <1>12, <1>13, <1>15, <1>16, <1>17

\* The successor takes the place of the removed value, also as the bound of the septs on
\* either side of it, and its leaf is repopulated if the others are too few.
LEMMA TakeSuccStep == ASSUME TreeInv, take_succ PROVE TreeInv' /\ Elements' = Elements \ {hndl_p}
<1> USE DEF TreeInv
<1>1. PICK h, L : h = hndl_p /\ L = sept
  OBVIOUS
<1>2. PICK S, n : S = hp[h] /\ n = hn[L][1]
  OBVIOUS
<1>3. PICK i, H, T : i = Position(hn[S], h) /\ H = hn[S] /\ T = hn[L]
  OBVIOUS
<1>4. /\ pc = "succ" /\ is_leaf(sept) /\ UNCHANGED <<counts, slots>> /\ UNCHANGED <<load, ops, stage>>
      /\ hn' = [hn EXCEPT ![S] = [@ EXCEPT ![i] = n], ![L] = Tail(@)]
      /\ hp' = [hp EXCEPT ![n] = S]
      /\ repop_if(L, Len(T) - 1)
      /\ lo' = [q \in Addresses |-> IF lo[q] = h THEN n ELSE lo[q]]
      /\ hi' = [q \in Addresses |-> IF hi[q] = h THEN n ELSE hi[q]]
      /\ UNCHANGED <<kid, parent, used, height, root_sept, left_sept, sn_reserve>>
  BY <1>1, <1>2, <1>3 DEF take_succ, At, slotVars, envVars, num_vals
<1>5. /\ S \in used /\ L \in used /\ L # S /\ L # root_sept /\ height[L] = 0 /\ kid[L] = << >>
      /\ h \in Handles /\ h \in Members /\ n \in Handles /\ n \in Members /\ n # h /\ hp[n] = L
      /\ Len(T) \in Nat /\ Len(T) >= Half /\ Len(T) <= N
      /\ lo[L] = h /\ hi[L] # h /\ lo[S] # h /\ hi[S] # h
      /\ Key[h] < Key[n] /\ Before(n, hi[S])
      /\ \A v \in Members : v # n /\ Key[h] < Key[v] => Key[n] < Key[v]
  BY <1>1, <1>2, <1>3, <1>4, SuccFacts
<1>6. /\ i \in 1..Len(H) /\ H[i] = h /\ H \in Seq(Handles) /\ T \in Seq(Handles) /\ Len(H) \in Nat /\ Len(H) <= N
      /\ S \in Addresses /\ L \in Addresses /\ L \in Septs /\ S \in Septs /\ T[1] = n
      /\ hn \in [Addresses -> Seq(Handles)] /\ hp \in [Handles -> Septs \cup {Null}]
  <2>1. i \in 1..Len(H) /\ H[i] = h
    BY <1>1, <1>2, <1>3, <1>5, MemberSept
  <2> QED BY <1>2, <1>3, <1>5, <2>1, SeptFacts DEF TypeOK
<1>7. left_down = Null /\ ~Linking /\ stage # "gone"
  BY <1>4, NotGone DEF OpInv, Linking
<1>8. /\ left_down' = Null /\ (right_down' = right_down \/ right_down' = Null)
      /\ \/ /\ Len(T) - 1 < Half /\ pc' = "repop" /\ sept' = L /\ hndl_p' = NoHandle
            /\ UNCHANGED <<pval, min, max>>
         \/ /\ ~(Len(T) - 1 < Half) /\ pc' = "idle" /\ sept' = Null /\ hndl_p' = NoHandle /\ pval' = 0
            /\ min' = 0 /\ max' = 0
  BY <1>4, <1>7 DEF repop_if, Registers, NoSearch, Done
<1>9. ~Linking' /\ pc' \in {"idle", "repop"}
  BY <1>8 DEF Linking
<1>10. PICK G, U : G = [H EXCEPT ![i] = n] /\ U = Tail(T)
  OBVIOUS
<1>11. G \in Seq(Handles) /\ Len(G) = Len(H) /\ \A j \in 1..Len(H) : G[j] = IF j = i THEN n ELSE H[j]
  BY ONLY <1>5, <1>6, <1>10
<1>12. U \in Seq(Handles) /\ Len(U) = Len(T) - 1 /\ \A j \in 1..(Len(T) - 1) : U[j] = T[j + 1]
  <2>1. T # << >>
    BY ONLY <1>5, <1>6, HalfFacts
  <2> QED BY ONLY <1>6, <1>10, <2>1
<1>13. hn'[S] = G /\ hn'[L] = U /\ \A q \in used : q # S /\ q # L => hn'[q] = hn[q]
  <2>1. hn' = [hn EXCEPT ![S] = G, ![L] = U]
    BY ONLY <1>3, <1>4, <1>5, <1>6, <1>10
  <2>2. hn'[S] = G /\ hn'[L] = U
    BY ONLY <1>5, <1>6, <2>1
  <2>3. ASSUME NEW q \in used, q # S, q # L PROVE hn'[q] = hn[q]
    <3>1. q \in Addresses
      BY SeptFacts
    <3> QED BY ONLY <1>6, <2>1, <2>3, <3>1
  <2> QED BY ONLY <2>2, <2>3
<1>14. ASSUME NEW q \in used, q # L
       PROVE  /\ Len(hn'[q]) = Len(hn[q]) /\ hn'[q] \in Seq(Handles)
              /\ \A j \in 1..Len(hn[q]) : hn'[q][j] = IF hn[q][j] = h THEN n ELSE hn[q][j]
              /\ \A j \in 1..Len(hn[q]) : hn[q][j] = h => q = S
              /\ \A j \in 1..Len(hn[q]) : hn[q][j] # n
  <2>1. \A j \in 1..Len(hn[q]) : hp[hn[q][j]] = q
    BY ValueFacts
  <2>2. \A j \in 1..Len(hn[q]) : (hn[q][j] = h => q = S) /\ hn[q][j] # n
    BY ONLY <1>2, <1>5, <1>14, <2>1
  <2>3. CASE q = S
    <3>1. ASSUME NEW j \in 1..Len(H), H[j] = h PROVE j = i
      <4>1. \A x, y \in 1..Len(H) : x < y => Key[H[x]] < Key[H[y]]
        BY <1>3, <1>5, ValueFacts
      <4>2. Key[h] \in Int /\ (j < i \/ i < j \/ j = i)
        BY <1>5, <1>6, OrderAssumption
      <4> QED BY ONLY <1>6, <3>1, <4>1, <4>2
    <3> QED BY ONLY <1>3, <1>6, <1>11, <1>13, <2>2, <2>3, <3>1
  <2>4. CASE q # S
    <3>1. hn[q] \in Seq(Handles)
      BY SeptFacts
    <3> QED BY ONLY <1>13, <1>14, <2>2, <2>4, <3>1
  <2> QED BY ONLY <2>3, <2>4
<1>15. TypeOK'
  <2>1. hn' \in [Addresses -> Seq(Handles)]
    BY ONLY <1>3, <1>4, <1>5, <1>6, <1>10, <1>11, <1>12
  <2>2. hp' \in [Handles -> Septs \cup {Null}]
    BY ONLY <1>4, <1>5, <1>6
  <2>3. /\ lo' \in [Addresses -> Handles \cup {NoHandle}] /\ hi' \in [Addresses -> Handles \cup {NoHandle}]
    <3>1. /\ lo \in [Addresses -> Handles \cup {NoHandle}] /\ hi \in [Addresses -> Handles \cup {NoHandle}]
      BY DEF TypeOK
    <3> QED BY ONLY <1>4, <1>5, <3>1
  <2>4. /\ pc' \in PCs /\ sept' \in Septs \cup {Null} /\ hndl_p' \in Handles \cup {NoHandle}
        /\ pval' \in Int /\ min' \in Int /\ max' \in Int
        /\ left_down' \in Septs \cup {Null} /\ right_down' \in Septs \cup {Null}
    <3>1. pval \in Int /\ min \in Int /\ max \in Int /\ right_down \in Septs \cup {Null}
      BY DEF TypeOK
    <3> QED BY ONLY <1>6, <1>8, <3>1 DEF PCs
  <2> QED BY <1>4, <2>1, <2>2, <2>3, <2>4 DEF TypeOK
<1>16. Members' = Members \ {h}
  <2>1. \A g : g \in Members' <=> \E q \in used : \E j \in 1..Len(hn'[q]) : hn'[q][j] = g
    BY <1>4, <1>15, MemberFactsPrime
  <2>2. \A g : g \in Members <=> \E q \in used : \E j \in 1..Len(hn[q]) : hn[q][j] = g
    BY MemberFacts
  <2>3. ASSUME NEW g \in Members', g \notin Members \/ g = h PROVE FALSE
    <3>0. PICK q \in used : \E j \in 1..Len(hn'[q]) : hn'[q][j] = g
      BY ONLY <2>1, <2>3
    <3>1. PICK j \in 1..Len(hn'[q]) : hn'[q][j] = g
      BY ONLY <3>0
    <3>2. CASE q = L
      <4>1. PICK k : k = j + 1
        OBVIOUS
      <4>2. k \in 1..Len(T) /\ g = T[k]
        BY ONLY <1>5, <1>12, <1>13, <3>1, <3>2, <4>1
      <4>3. hp[g] = L /\ g \in Members
        BY <1>3, <1>5, <2>2, <4>2, ValueFacts
      <4> QED BY ONLY <1>2, <1>5, <2>3, <4>3
    <3>3. CASE q # L
      <4>1. j \in 1..Len(hn[q]) /\ g = IF hn[q][j] = h THEN n ELSE hn[q][j]
        BY ONLY <1>14, <3>1, <3>3
      <4>2. hn[q][j] \in Members
        BY ONLY <2>2, <4>1
      <4> QED BY ONLY <1>5, <2>3, <4>1, <4>2
    <3> QED BY ONLY <3>2, <3>3
  <2>4. ASSUME NEW g \in Members, g # h PROVE g \in Members'
    <3>0. PICK q \in used : \E j \in 1..Len(hn[q]) : hn[q][j] = g
      BY ONLY <2>2, <2>4
    <3>1. PICK j \in 1..Len(hn[q]) : hn[q][j] = g
      BY ONLY <3>0
    <3>2. CASE q = L /\ j = 1
      <4>1. g = n /\ hn'[S][i] = n /\ i \in 1..Len(hn'[S])
        BY ONLY <1>2, <1>6, <1>11, <1>13, <3>1, <3>2
      <4> QED BY ONLY <1>5, <2>1, <4>1
    <3>3. CASE q = L /\ j # 1
      <4>1. PICK k : k = j - 1
        OBVIOUS
      <4>2. k \in 1..(Len(T) - 1) /\ k + 1 = j
        BY ONLY <1>3, <1>5, <3>1, <3>3, <4>1
      <4>3. k \in 1..Len(hn'[L]) /\ hn'[L][k] = g
        BY ONLY <1>3, <1>12, <1>13, <3>1, <3>3, <4>2
      <4> QED BY ONLY <1>5, <2>1, <4>3
    <3>4. CASE q # L
      <4>1. j \in 1..Len(hn'[q]) /\ hn'[q][j] = g
        BY ONLY <1>14, <2>4, <3>1, <3>4
      <4> QED BY ONLY <2>1, <4>1
    <3> QED BY ONLY <3>2, <3>3, <3>4
  <2> QED BY <2>3, <2>4
<1>17. Elements' = Elements \ {hndl_p}
  BY <1>1, <1>4, <1>9, <1>16 DEF Elements
<1>18. SlotsInv'
  <2>1. Elements' \subseteq slots /\ stage' # "gone"
    BY <1>4, <1>7, <1>17 DEF SlotsInv
  <2> QED BY <1>4, <1>7, <2>1, SameSlots
<1>19. ASSUME NEW q \in used
       PROVE  /\ lo'[q] = (IF lo[q] = h THEN n ELSE lo[q]) /\ hi'[q] = (IF hi[q] = h THEN n ELSE hi[q])
              /\ lo[q] \in Handles \cup {NoHandle} /\ hi[q] \in Handles \cup {NoHandle}
  <2>1. q \in Addresses /\ lo[q] \in Handles \cup {NoHandle} /\ hi[q] \in Handles \cup {NoHandle}
    BY SeptFacts
  <2> QED BY ONLY <1>4, <2>1
<1>20. h # NoHandle /\ n # NoHandle /\ \A g \in Handles : Key[g] \in Int
  BY <1>5, OrderAssumption
<1>21. ASSUME NEW q \in used, NEW j \in 1..Len(hn[q]), hn[q][j] # n, hn[q][j] # h
       PROVE  After(lo'[q], hn[q][j]) /\ Before(hn[q][j], hi'[q])
  <2>1. PICK v : v = hn[q][j]
    OBVIOUS
  <2>2. v \in Handles /\ After(lo[q], v) /\ Before(v, hi[q])
    BY <2>1, ValueFacts
  <2>3. v \in Members
    BY <2>1, MemberFacts
  <2>4. After(lo'[q], v)
    <3>1. CASE lo[q] = h
      <4>1. Key[h] < Key[v]
        BY ONLY <1>20, <2>2, <3>1 DEF After
      <4> QED BY ONLY <1>5, <1>19, <1>21, <2>1, <2>3, <3>1, <4>1 DEF After
    <3>2. CASE lo[q] # h
      BY ONLY <1>19, <2>2, <3>2
    <3> QED BY ONLY <3>1, <3>2
  <2>5. Before(v, hi'[q])
    <3>1. CASE hi[q] = h
      <4>1. Key[v] < Key[h]
        BY ONLY <1>20, <2>2, <3>1 DEF Before
      <4>2. Key[v] < Key[n]
        BY ONLY <1>5, <1>20, <2>2, <4>1
      <4> QED BY ONLY <1>19, <3>1, <4>2 DEF Before
    <3>2. CASE hi[q] # h
      BY ONLY <1>19, <2>2, <3>2
    <3> QED BY ONLY <3>1, <3>2
  <2> QED BY ONLY <2>1, <2>4, <2>5
<1>22. After(lo'[S], n) /\ Before(n, hi'[S])
  <2>1. After(lo[S], h) /\ lo'[S] = lo[S] /\ hi'[S] = hi[S] /\ lo[S] \in Handles \cup {NoHandle}
    BY <1>3, <1>5, <1>6, <1>19, ValueFacts
  <2>2. lo[S] # NoHandle => Key[lo[S]] < Key[n]
    BY ONLY <1>5, <1>20, <2>1 DEF After
  <2> QED BY ONLY <1>5, <2>1, <2>2 DEF After
<1>23. ASSUME NEW q \in used PROVE Between(hn'[q], lo'[q], hi'[q])
  <2>1. \A x, y \in 1..Len(hn[q]) : x < y => Key[hn[q][x]] < Key[hn[q][y]]
    BY ValueFacts
  <2>2. CASE q = L
    <3>1. ASSUME NEW j \in 1..Len(U)
          PROVE  \E k \in 1..Len(T) : k = j + 1 /\ U[j] = T[k] /\ T[k] # n /\ T[k] # h
      <4>1. PICK k : k = j + 1
        OBVIOUS
      <4>2. k \in 1..Len(T) /\ U[j] = T[k] /\ 1 < k /\ 1 \in 1..Len(T)
        BY ONLY <1>5, <1>12, <4>1
      <4>3. Key[T[1]] < Key[T[k]]
        BY ONLY <1>3, <2>1, <2>2, <4>2
      <4>4. T[k] # n
        BY ONLY <1>5, <1>6, <1>20, <4>3
      <4>5. hp[T[k]] = L
        BY <1>3, <1>5, <4>2, ValueFacts
      <4> QED BY ONLY <1>2, <1>5, <4>1, <4>2, <4>4, <4>5
    <3>2. ASSUME NEW x \in 1..Len(U), NEW y \in 1..Len(U), x < y PROVE Key[U[x]] < Key[U[y]]
      <4>1. PICK k \in 1..Len(T) : k = x + 1 /\ U[x] = T[k]
        BY ONLY <3>1
      <4>2. PICK m \in 1..Len(T) : m = y + 1 /\ U[y] = T[m]
        BY ONLY <3>1
      <4>3. k < m
        BY ONLY <3>2, <4>1, <4>2, <1>12, <1>5
      <4> QED BY ONLY <1>3, <2>1, <2>2, <4>1, <4>2, <4>3
    <3>3. ASSUME NEW x \in 1..Len(U) PROVE After(lo'[q], U[x]) /\ Before(U[x], hi'[q])
      BY ONLY <1>3, <1>21, <2>2, <3>1, q \in used
    <3> QED BY ONLY <1>13, <2>2, <3>2, <3>3 DEF Between
  <2>3. CASE q # L
    <3>1. /\ Len(hn'[q]) = Len(hn[q]) /\ Len(hn[q]) \in Nat
          /\ \A j \in 1..Len(hn[q]) : hn'[q][j] = IF hn[q][j] = h THEN n ELSE hn[q][j]
          /\ \A j \in 1..Len(hn[q]) : hn[q][j] = h => q = S
          /\ \A j \in 1..Len(hn[q]) : hn[q][j] # n
      BY <1>14, <2>3, SeptFacts
    <3>2. \A j \in 1..Len(hn[q]) : hn[q][j] \in Members /\ hn[q][j] \in Handles
      BY MemberFacts, ValueFacts
    <3>3. ASSUME NEW x \in 1..Len(hn[q]), NEW y \in 1..Len(hn[q]), x < y PROVE Key[hn'[q][x]] < Key[hn'[q][y]]
      <4>1. PICK v, w : v = hn[q][x] /\ w = hn[q][y]
        OBVIOUS
      <4>2. v \in Members /\ w \in Members /\ v \in Handles /\ w \in Handles /\ v # n /\ w # n /\ Key[v] < Key[w]
        BY ONLY <2>1, <3>1, <3>2, <3>3, <4>1
      <4>3. hn'[q][x] = (IF v = h THEN n ELSE v) /\ hn'[q][y] = (IF w = h THEN n ELSE w)
        BY ONLY <3>1, <4>1
      <4>4. Key[IF v = h THEN n ELSE v] < Key[IF w = h THEN n ELSE w]
        BY ONLY <1>5, <1>20, <4>2
      <4> QED BY ONLY <4>3, <4>4
    <3>4. ASSUME NEW x \in 1..Len(hn[q]) PROVE After(lo'[q], hn'[q][x]) /\ Before(hn'[q][x], hi'[q])
      <4>1. CASE hn[q][x] = h
        BY ONLY <1>22, <3>1, <4>1
      <4>2. CASE hn[q][x] # h
        BY ONLY <1>21, <3>1, <4>2, q \in used
      <4> QED BY ONLY <4>1, <4>2
    <3> QED BY ONLY <3>1, <3>3, <3>4 DEF Between
  <2> QED BY ONLY <2>2, <2>3
<1>24. ASSUME NEW q \in used, NEW j \in 1..Len(hn'[q]) PROVE hp'[hn'[q][j]] = q
  <2>1. ASSUME NEW g \in Handles, g # n PROVE hp'[g] = hp[g]
    BY ONLY <1>4, <1>5, <1>6, <2>1
  <2>2. hp'[n] = S
    BY ONLY <1>4, <1>5, <1>6
  <2>3. CASE q = L
    <3>1. PICK k : k = j + 1
      OBVIOUS
    <3>2. k \in 1..Len(T) /\ U[j] = T[k] /\ 1 < k /\ 1 \in 1..Len(T) /\ hn'[q][j] = U[j]
      BY ONLY <1>5, <1>12, <1>13, <1>24, <2>3, <3>1
    <3>3. T[k] \in Handles /\ hp[T[k]] = L /\ Key[T[1]] < Key[T[k]]
      BY <1>3, <1>5, <3>2, ValueFacts
    <3>4. T[k] # n
      BY ONLY <1>5, <1>6, <1>20, <3>3
    <3> QED BY ONLY <2>1, <2>3, <3>2, <3>3, <3>4
  <2>4. CASE q # L
    <3>1. /\ j \in 1..Len(hn[q]) /\ hn[q][j] # n /\ (hn[q][j] = h => q = S)
          /\ hn'[q][j] = IF hn[q][j] = h THEN n ELSE hn[q][j]
      BY ONLY <1>14, <1>24, <2>4
    <3>2. hn[q][j] \in Handles /\ hp[hn[q][j]] = q
      BY <3>1, ValueFacts
    <3> QED BY ONLY <2>1, <2>2, <3>1, <3>2
  <2> QED BY ONLY <2>3, <2>4
<1>25. ASSUME NEW q \in used PROVE SeptInOrder(q)' /\ ChildrenAgree(q)'
  <2>1. /\ hn[q] \in Seq(Handles) /\ kid[q] \in Seq(Septs) /\ Len(hn[q]) <= N /\ height[q] \in Nat /\ Len(hn[q]) \in Nat
        /\ (kid[q] = << >> <=> height[q] = 0) /\ (height[q] # 0 => Len(kid[q]) = Len(hn[q]) + 1) /\ Len(kid[q]) \in Nat
    BY SeptFacts
  <2>2. hn'[q] \in Seq(Handles) /\ kid'[q] = kid[q] /\ height'[q] = height[q]
    BY <1>4, <1>12, <1>13, <1>14
  <2>3. Len(hn'[q]) <= N
    <3>1. q # L => Len(hn'[q]) = Len(hn[q])
      BY ONLY <1>14, q \in used
    <3>2. N \in Nat
      BY HalfFacts
    <3> QED BY ONLY <1>5, <1>12, <1>13, <2>1, <3>1, <3>2
  <2>4. height'[q] = 0 <=> kid'[q] = << >>
    BY ONLY <2>1, <2>2
  <2>5. height'[q] # 0 => Len(kid'[q]) = Len(hn'[q]) + 1
    <3>1. q # L => Len(hn'[q]) = Len(hn[q])
      BY ONLY <1>14, q \in used
    <3> QED BY ONLY <1>5, <2>1, <2>2, <3>1
  <2>6. ASSUME NEW j \in 1..Len(kid'[q])
        PROVE  /\ kid'[q][j] \in used' /\ parent'[kid'[q][j]] = q /\ height'[kid'[q][j]] = height'[q] - 1
               /\ lo'[kid'[q][j]] = (IF j = 1 THEN lo'[q] ELSE hn'[q][j - 1])
               /\ hi'[IF Linking' /\ kid'[q][j] = left_down' THEN right_down' ELSE kid'[q][j]]
                    = (IF j = Len(kid'[q]) THEN hi'[q] ELSE hn'[q][j])
    <3>1. PICK k : k = kid[q][j]
      OBVIOUS
    <3>2. /\ k \in used /\ parent[k] = q /\ height[q] = height[k] + 1 /\ Len(kid[q]) = Len(hn[q]) + 1
          /\ lo[k] = (IF j = 1 THEN lo[q] ELSE hn[q][j - 1]) /\ hi[k] = (IF j = Len(kid[q]) THEN hi[q] ELSE hn[q][j])
      BY <1>7, <2>2, <2>6, <3>1, KidFacts DEF LeftOf, RightOf, UpTo
    <3>3. q # L /\ height[k] \in Nat
      BY <1>5, <3>2, SeptFacts
    <3>4. \A x \in 1..Len(hn[q]) : hn'[q][x] = IF hn[q][x] = h THEN n ELSE hn[q][x]
      BY ONLY <1>14, <3>3, q \in used
    <3>5. lo'[k] = (IF j = 1 THEN lo'[q] ELSE hn'[q][j - 1])
      <4>1. j # 1 => j - 1 \in 1..Len(hn[q])
        BY ONLY <2>1, <2>2, <2>6, <3>2
      <4> QED BY ONLY <1>19, <3>2, <3>4, <4>1, q \in used
    <3>6. hi'[k] = (IF j = Len(kid'[q]) THEN hi'[q] ELSE hn'[q][j])
      <4>1. j # Len(kid[q]) => j \in 1..Len(hn[q])
        BY ONLY <2>1, <2>2, <2>6, <3>2
      <4> QED BY ONLY <1>19, <2>2, <3>2, <3>4, <4>1, q \in used
    <3>7. height'[k] = height'[q] - 1
      BY ONLY <1>4, <3>2, <3>3
    <3>8. kid'[q][j] = k /\ k \in used' /\ parent'[k] = q
      BY ONLY <1>4, <2>2, <3>1, <3>2
    <3> QED BY ONLY <1>9, <3>5, <3>6, <3>7, <3>8
  <2>7. \A j \in 1..Len(hn'[q]) : hp'[hn'[q][j]] = q
    BY ONLY <1>24, q \in used
  <2>8. Between(hn'[q], lo'[q], hi'[q])
    BY ONLY <1>23, q \in used
  <2>9. kid'[q] \in Seq(Septs)
    BY ONLY <2>1, <2>2
  <2> QED BY ONLY <2>2, <2>3, <2>4, <2>5, <2>6, <2>7, <2>8, <2>9, Becomes
<1>26. ASSUME NEW q \in used, q # root_sept PROVE ParentAgrees(q)'
  BY <1>4, <1>7, <1>26 DEF ShapeInv, ParentAgrees
<1>27. RootAgrees'
  <2>1. RootAgrees /\ UpTo(root_sept) = root_sept /\ UpTo(root_sept)' = root_sept'
    BY <1>7, <1>9 DEF ShapeInv, UpTo
  <2>2. CASE root_sept # Null
    <3>1. /\ lo[root_sept] = NoHandle /\ hi[root_sept] = NoHandle /\ lo[left_sept] = NoHandle
          /\ root_sept \in used /\ left_sept \in used
      BY <2>1, <2>2 DEF RootAgrees
    <3>2. lo'[root_sept] = NoHandle /\ hi'[root_sept] = NoHandle /\ lo'[left_sept] = NoHandle
      BY ONLY <1>19, <1>20, <3>1
    <3> QED BY <1>4, <2>1, <2>2, <3>1, <3>2 DEF RootAgrees, is_leaf
  <2>3. CASE root_sept = Null
    BY <1>4, <2>1, <2>3 DEF RootAgrees
  <2> QED BY <2>2, <2>3
<1>28. ShapeInv'
  BY <1>4, <1>25, <1>26, <1>27 DEF ShapeInv
<1>29. FillInv'
  <2> SUFFICES ASSUME NEW q \in used
               PROVE  \/ Filled(q)'
                      \/ /\ pc' = "repop" /\ q = sept' /\ (q = root_sept' \/ Len(hn'[q]) = Half - 1)
                         /\ Len(hn'[q]) < Half /\ (Len(hn'[q]) = 0 => kid'[q] = << >>)
    BY <1>4 DEF FillInv, num_vals, is_leaf
  <2>1. Len(hn[q]) >= (IF q = root_sept THEN 1 ELSE Half)
    BY <1>4 DEF FillInv, Filled, num_vals
  <2>2. CASE q # L
    <3>1. Len(hn'[q]) = Len(hn[q])
      BY ONLY <1>14, <2>2, q \in used
    <3> QED BY <1>4, <2>1, <3>1 DEF Filled, num_vals
  <2>3. CASE q = L /\ Len(T) - 1 < Half
    <3>1. Len(hn'[q]) = Half - 1 /\ Len(hn'[q]) < Half /\ kid'[q] = << >>
      <4>1. hn'[q] = U /\ kid'[q] = kid[L]
        BY ONLY <1>4, <1>13, <2>3
      <4>2. Half \in Nat
        BY HalfFacts
      <4> QED BY ONLY <1>5, <1>12, <2>3, <4>1, <4>2
    <3> QED BY ONLY <1>8, <2>3, <3>1
  <2>4. CASE q = L /\ ~(Len(T) - 1 < Half)
    <3>1. Len(hn'[q]) >= Half /\ q # root_sept'
      <4>1. hn'[q] = U /\ root_sept' = root_sept
        BY ONLY <1>4, <1>13, <2>4
      <4>2. Half \in Nat
        BY HalfFacts
      <4> QED BY ONLY <1>5, <1>12, <2>4, <4>1, <4>2
    <3> QED BY <3>1 DEF Filled, num_vals
  <2> QED BY <2>2, <2>3, <2>4
<1>30. OpInv'
  <2>1. pc' = "repop" => sept' \in used' /\ num_vals(sept)' < Half
    BY <1>4, <1>5, <1>8, <1>12, <1>13 DEF num_vals
  <2> QED BY <1>8, <1>9, <2>1 DEF OpInv, SearchInv, UpInv, SuccInv, FindInv, FindsMembers
<1> QED BY <1>15, <1>17, <1>18, <1>28, <1>29, <1>30

\* An empty root is the last sept.
LEMMA RepopRootRelease ==
    ASSUME TreeInv, repop_root, hn[sept] = << >>
    PROVE  TreeInv' /\ Elements' = Elements
<1> USE DEF TreeInv
<1>1. /\ pc = "repop" /\ parent[sept] = Null /\ UNCHANGED <<counts, slots>> /\ UNCHANGED <<load, ops, stage>>
      /\ release_septs({sept}) /\ root_sept' = Null /\ left_sept' = Null /\ Done
      /\ UNCHANGED <<hn, kid, parent, hp, lo, hi, height>>
  BY DEF repop_root, At, slotVars, envVars
<1>2. /\ pc' = "idle" /\ sept' = Null /\ hndl_p' = NoHandle /\ pval' = 0
      /\ min' = 0 /\ max' = 0 /\ left_down' = Null /\ right_down' = Null
  BY <1>1 DEF Done
<1>3. left_down = Null /\ ~Linking /\ stage # "gone" /\ sept \in used
  BY <1>1, NotGone DEF OpInv, Linking
<1>4. sept = root_sept
  <2>1. sept # root_sept => parent[sept] \in used
    BY <1>3, ParentFacts
  <2> QED BY <1>1, <2>1, SeptFacts
<1>5. height[sept] = 0
  <2>1. Len(hn[sept]) = 0
    OBVIOUS
  <2>2. ~Filled(sept)
    BY <2>1, HalfFacts DEF Filled, num_vals
  <2>3. is_leaf(sept)
    BY <1>1, <1>3, <2>1, <2>2 DEF FillInv, num_vals
  <2> QED BY <1>3, <2>3, SeptFacts DEF is_leaf
<1>6. used = {sept}
  <2> SUFFICES ASSUME NEW q \in used, q # sept PROVE FALSE
    BY <1>3
  <2>1. height[q] < height[root_sept] /\ height[q] \in Nat
    BY <1>3, <1>4, ParentFacts, SeptFacts
  <2> QED BY <1>4, <1>5, <2>1
<1>7. used' = {}
  BY <1>1, <1>6 DEF release_septs
<1>8. Members = {} /\ Members' = {}
  <2>1. \A h : h \notin Members
    <3> SUFFICES ASSUME NEW h \in Members PROVE FALSE
      OBVIOUS
    <3>1. \E i \in 1..Len(hn[sept]) : hn[sept][i] = h
      BY <1>6, MemberFacts
    <3> QED BY <3>1
  <2> QED BY <1>7, <2>1 DEF Members
<1>9. Elements' = Elements
  BY <1>1, <1>2, <1>8 DEF Elements
<1>10. SlotsInv' /\ used' \subseteq Septs /\ sn_reserve' \subseteq Septs
  <2>1. Elements' \subseteq slots /\ stage' # "gone" /\ {sept} \subseteq used
    BY <1>1, <1>3, <1>9 DEF SlotsInv
  <2> QED BY <1>1, <1>3, <2>1, ReleaseSepts
<1>11. TypeOK'
  <2>1. /\ pc' \in PCs /\ sept' \in Septs \cup {Null} /\ hndl_p' \in Handles \cup {NoHandle}
        /\ pval' \in Int /\ min' \in Int /\ max' \in Int
        /\ left_down' \in Septs \cup {Null} /\ right_down' \in Septs \cup {Null}
    BY ONLY <1>2 DEF PCs
  <2> QED BY <1>1, <1>10, <2>1 DEF TypeOK
<1>12. ShapeInv'
  BY <1>1, <1>7 DEF ShapeInv, RootAgrees
<1>13. FillInv'
  BY <1>7 DEF FillInv
<1>14. OpInv'
  BY <1>2, IdleOp
<1> QED BY <1>9, <1>10, <1>11, <1>12, <1>13, <1>14

\* Two children next to each other, and the value between them.
LEMMA Siblings ==
    ASSUME TypeOK, ShapeInv, ~Linking, NEW p \in used, NEW x \in 1..Len(hn[p]),
           Len(kid[p]) = Len(hn[p]) + 1, NEW l, NEW r, l = kid[p][x], r = kid[p][x + 1]
    PROVE  /\ l \in used /\ r \in used /\ l # r /\ l # p /\ r # p /\ l # root_sept /\ r # root_sept
           /\ parent[l] = p /\ parent[r] = p /\ height[l] \in Nat /\ height[r] = height[l] /\ height[p] = height[l] + 1
           /\ hn[p][x] \in Handles /\ hp[hn[p][x]] = p /\ After(lo[l], hn[p][x]) /\ Before(hn[p][x], hi[r])
           /\ lo[l] = (IF x = 1 THEN lo[p] ELSE hn[p][x - 1]) /\ hi[l] = hn[p][x]
           /\ lo[r] = hn[p][x] /\ hi[r] = (IF x + 1 = Len(kid[p]) THEN hi[p] ELSE hn[p][x + 1])
<1>1. x \in 1..Len(kid[p]) /\ x + 1 \in 1..Len(kid[p]) /\ x # Len(kid[p]) /\ x + 1 # 1 /\ (x + 1) - 1 = x
      /\ (x # 1 => x - 1 \in 1..Len(hn[p]) /\ x - 1 < x)
      /\ (x + 1 # Len(kid[p]) => x + 1 \in 1..Len(hn[p]) /\ x < x + 1) /\ x < x + 1
  <2>1. Len(hn[p]) \in Nat
    BY SeptFacts
  <2> QED BY <2>1
<1>2. /\ l \in used /\ parent[l] = p /\ height[p] = height[l] + 1
      /\ lo[l] = LeftOf(p, x) /\ hi[UpTo(l)] = RightOf(p, x)
  BY <1>1, KidFacts
<1>3. /\ r \in used /\ parent[r] = p /\ height[p] = height[r] + 1
      /\ lo[r] = LeftOf(p, x + 1) /\ hi[UpTo(r)] = RightOf(p, x + 1)
  BY <1>1, KidFacts
<1>4. height[l] \in Nat /\ height[r] \in Nat /\ p # Null
  BY <1>2, <1>3, SeptFacts
<1>5. l # r
  BY <1>1, KidsDistinct
<1>6. l # p /\ r # p /\ height[r] = height[l]
  BY ONLY <1>2, <1>3, <1>4
<1>7. l # root_sept /\ r # root_sept
  <2>1. root_sept # Null => parent[root_sept] = Null
    BY DEF ShapeInv, RootAgrees
  <2>2. l # Null /\ r # Null
    BY <1>2, <1>3, SeptFacts
  <2> QED BY ONLY <1>2, <1>3, <1>4, <2>1, <2>2
<1>8. /\ lo[l] = (IF x = 1 THEN lo[p] ELSE hn[p][x - 1]) /\ hi[l] = hn[p][x]
      /\ lo[r] = hn[p][x] /\ hi[r] = (IF x + 1 = Len(kid[p]) THEN hi[p] ELSE hn[p][x + 1])
  BY <1>1, <1>2, <1>3 DEF UpTo, LeftOf, RightOf
<1>9. /\ hn[p][x] \in Handles /\ hp[hn[p][x]] = p /\ After(lo[p], hn[p][x]) /\ Before(hn[p][x], hi[p])
      /\ \A j \in 1..Len(hn[p]) : x < j => Key[hn[p][x]] < Key[hn[p][j]]
  BY ValueFacts
<1>10. After(lo[l], hn[p][x])
  <2>1. x # 1 => Key[hn[p][x - 1]] < Key[hn[p][x]]
    BY <1>1, ValueFacts
  <2> QED BY ONLY <1>8, <1>9, <2>1 DEF After
<1>11. Before(hn[p][x], hi[r])
  <2>1. x + 1 # Len(kid[p]) => Key[hn[p][x]] < Key[hn[p][x + 1]]
    BY ONLY <1>1, <1>9
  <2> QED BY ONLY <1>8, <1>9, <2>1 DEF Before
<1> QED BY ONLY <1>2, <1>3, <1>4, <1>5, <1>6, <1>7, <1>8, <1>9, <1>10, <1>11

\* The sept that is repopulated has a sibling, which is not short of values.
LEMMA RepopFacts ==
    ASSUME TreeInv, pc = "repop", parent[sept] # Null
    PROVE  /\ sept \in used /\ sept # root_sept /\ Len(hn[sept]) = Half - 1 /\ left_down = Null /\ ~Linking
           /\ stage # "gone" /\ parent[sept] \in used /\ Len(kid[parent[sept]]) = Len(hn[parent[sept]]) + 1
           /\ \E i \in 1..Len(kid[parent[sept]]) : kid[parent[sept]][i] = sept
           /\ \A q \in used : q # sept => Len(hn[q]) >= (IF q = root_sept THEN 1 ELSE Half)
           /\ Len(hn[parent[sept]]) >= 1 /\ Len(kid[parent[sept]]) >= 2
<1> USE DEF TreeInv
<1>1. sept \in used /\ left_down = Null /\ ~Linking /\ stage # "gone" /\ Len(hn[sept]) < Half
  BY NotGone DEF OpInv, Linking, num_vals
<1>2. sept # root_sept
  BY <1>1, SeptFacts DEF ShapeInv, RootAgrees
<1>3. \A q \in used : q # sept => Len(hn[q]) >= (IF q = root_sept THEN 1 ELSE Half)
  BY DEF FillInv, Filled, num_vals
<1>4. Len(hn[sept]) = Half - 1
  <2>1. ~Filled(sept)
    BY <1>1, <1>2, HalfFacts, SeptFacts DEF Filled, num_vals
  <2> QED BY <1>1, <1>2, <2>1 DEF FillInv, num_vals
<1>5. /\ parent[sept] \in used /\ Len(kid[parent[sept]]) = Len(hn[parent[sept]]) + 1
      /\ height[parent[sept]] = height[sept] + 1
      /\ \E i \in 1..Len(kid[parent[sept]]) : kid[parent[sept]][i] = sept
  BY <1>1, <1>2, ParentFacts
<1>6. parent[sept] # sept
  BY <1>1, <1>5, SeptFacts
<1>7. Len(hn[parent[sept]]) \in Nat /\ Half \in Nat /\ Half >= 2
  BY <1>5, HalfFacts, SeptFacts
<1>8. Len(hn[parent[sept]]) >= 1
  BY ONLY <1>3, <1>5, <1>6, <1>7
<1> QED BY ONLY <1>1, <1>2, <1>3, <1>4, <1>5, <1>7, <1>8

\* The children at x and x + 1 of p are merged, one of them the sept with too few values.
MergeAs(p, x, l, r) ==
    /\ pc = "repop" /\ parent[sept] # Null /\ p \in used /\ x \in 1..Len(hn[p])
    /\ Len(kid[p]) = Len(hn[p]) + 1 /\ l = kid[p][x] /\ r = kid[p][x + 1] /\ sept \in {l, r}
    /\ Len(hn[l]) + Len(hn[r]) + 1 <= N /\ merge(l, r, x)
    /\ UNCHANGED <<counts, slots>> /\ UNCHANGED <<load, ops, stage>>

LEMMA MergeCore ==
    ASSUME TreeInv, NEW p, NEW x, NEW l, NEW r, MergeAs(p, x, l, r)
    PROVE  TreeInv' /\ Elements' = Elements
<1> USE DEF TreeInv
<1>1. PICK m, H, K : m = hn[p][x] /\ H = hn[p] /\ K = kid[p]
  OBVIOUS
<1>2. PICK A, B, AK, BK : A = hn[l] /\ B = hn[r] /\ AK = kid[l] /\ BK = kid[r]
  OBVIOUS
<1>3. PICK J, hs : hs = <<m>> \o B /\ J = A \o (<<m>> \o B)
  OBVIOUS
<1>4. /\ pc = "repop" /\ parent[sept] # Null /\ p \in used /\ x \in 1..Len(H) /\ Len(K) = Len(H) + 1
      /\ l = K[x] /\ r = K[x + 1] /\ sept \in {l, r} /\ Len(A) + Len(B) + 1 <= N
      /\ UNCHANGED <<counts, slots>> /\ UNCHANGED <<load, ops, stage>>
  BY <1>1, <1>2 DEF MergeAs
<1>5. /\ sept \in used /\ Len(hn[sept]) = Half - 1 /\ left_down = Null /\ ~Linking /\ stage # "gone"
      /\ \A q \in used : q # sept => Len(hn[q]) >= (IF q = root_sept THEN 1 ELSE Half)
  BY <1>4, RepopFacts
<1>6. /\ l \in used /\ r \in used /\ l # r /\ l # p /\ r # p /\ l # root_sept /\ r # root_sept
      /\ parent[l] = p /\ parent[r] = p /\ height[l] \in Nat /\ height[r] = height[l] /\ height[p] = height[l] + 1
      /\ m \in Handles /\ hp[m] = p /\ After(lo[l], m) /\ Before(m, hi[r])
      /\ lo[l] = (IF x = 1 THEN lo[p] ELSE H[x - 1]) /\ hi[l] = m
      /\ lo[r] = m /\ hi[r] = (IF x + 1 = Len(K) THEN hi[p] ELSE H[x + 1])
  BY <1>1, <1>4, <1>5, Siblings
<1>7. PICK emptied \in BOOLEAN : emptied <=> Len(H) = 1
  OBVIOUS
<1>8. /\ hn' = [hn EXCEPT ![l] = J, ![p] = RemoveAt(H, x)]
      /\ kid' = [kid EXCEPT ![l] = AK \o BK, ![p] = RemoveAt(K, x + 1)]
      /\ parent' = [q \in Addresses |->
                      IF q \in Range(BK) THEN l ELSE IF q = l /\ emptied THEN Null ELSE parent[q]]
      /\ hp' = [h \in Handles |-> IF h \in Range(hs) THEN l ELSE hp[h]]
      /\ release_septs(IF emptied THEN {r, p} ELSE {r})
      /\ root_sept' = (IF emptied THEN l ELSE root_sept)
      /\ (IF emptied THEN Done ELSE repop_if(p, Len(H) - 1))
      /\ hi' = [hi EXCEPT ![l] = hi[r]]
      /\ UNCHANGED <<lo, height, left_sept>>
  <2>1. merge(l, r, x)
    BY DEF MergeAs
  <2>2. hn[l] = A /\ hn[r] = B /\ kid[l] = AK /\ kid[r] = BK /\ hn[p] = H /\ kid[p] = K /\ parent[l] = p
        /\ H[x] = m /\ l # p
    BY ONLY <1>1, <1>2, <1>6
  <2> QED BY ONLY <1>3, <1>7, <2>1, <2>2 DEF merge, after_merge
<1>9. /\ l \in Addresses /\ r \in Addresses /\ p \in Addresses /\ l \in Septs /\ r \in Septs /\ p \in Septs
      /\ A \in Seq(Handles) /\ B \in Seq(Handles) /\ H \in Seq(Handles) /\ Len(H) \in Nat /\ Len(H) <= N
      /\ AK \in Seq(Septs) /\ BK \in Seq(Septs) /\ K \in Seq(Septs) /\ Len(A) \in Nat /\ Len(B) \in Nat
      /\ (AK = << >> <=> height[l] = 0) /\ (BK = << >> <=> height[l] = 0)
  <2>1. /\ l \in Addresses /\ l \in Septs /\ A \in Seq(Handles) /\ AK \in Seq(Septs) /\ Len(A) \in Nat
        /\ (AK = << >> <=> height[l] = 0)
    BY <1>2, <1>6, SeptFacts
  <2>2. /\ r \in Addresses /\ r \in Septs /\ B \in Seq(Handles) /\ BK \in Seq(Septs) /\ Len(B) \in Nat
        /\ (BK = << >> <=> height[l] = 0)
    BY <1>2, <1>6, SeptFacts
  <2>3. /\ p \in Addresses /\ p \in Septs /\ H \in Seq(Handles) /\ K \in Seq(Septs) /\ Len(H) \in Nat /\ Len(H) <= N
    BY <1>1, <1>4, SeptFacts
  <2> QED BY ONLY <2>1, <2>2, <2>3
<1>10. /\ hs \in Seq(Handles) /\ Len(hs) = Len(B) + 1 /\ hs[1] = m /\ \A j \in 1..Len(B) : hs[j + 1] = B[j]
  BY ONLY <1>3, <1>6, <1>9
<1>11. /\ J \in Seq(Handles) /\ Len(J) = Len(A) + Len(B) + 1 /\ Len(J) <= N
       /\ \A j \in 1..Len(A) : J[j] = A[j]
       /\ \A j \in 1..Len(hs) : J[Len(A) + j] = hs[j]
  <2>0. A \in Seq(Handles) /\ hs \in Seq(Handles)
    BY ONLY <1>9, <1>10
  <2>1. J = A \o hs
    BY ONLY <1>3
  <2>2. /\ A \o hs \in Seq(Handles) /\ Len(A \o hs) = Len(A) + Len(hs)
        /\ \A j \in 1..Len(A) : (A \o hs)[j] = A[j]
        /\ \A j \in 1..Len(hs) : (A \o hs)[Len(A) + j] = hs[j]
    BY ONLY <2>0, ConcatFacts
  <2>3. Len(A) + Len(hs) = Len(A) + Len(B) + 1
    BY ONLY <1>9, <1>10
  <2> QED BY ONLY <1>4, <2>1, <2>2, <2>3
<1>12. PICK G, GK, JK : G = RemoveAt(H, x) /\ GK = RemoveAt(K, x + 1) /\ JK = AK \o BK
  OBVIOUS
<1>13. /\ G \in Seq(Handles) /\ Len(G) = Len(H) - 1
       /\ \A j \in 1..(Len(H) - 1) : G[j] = IF j < x THEN H[j] ELSE H[j + 1]
  BY ONLY <1>4, <1>9, <1>12, RemoveAtFacts
<1>14. /\ GK \in Seq(Septs) /\ Len(GK) = Len(H)
       /\ \A j \in 1..Len(H) : GK[j] = IF j < x + 1 THEN K[j] ELSE K[j + 1]
  <2>1. PICK y : y = x + 1
    OBVIOUS
  <2>2. y \in 1..Len(K) /\ Len(K) - 1 = Len(H)
    BY ONLY <1>4, <1>9, <2>1
  <2>3. K \in Seq(Septs)
    BY ONLY <1>9
  <2>4. /\ RemoveAt(K, y) \in Seq(Septs) /\ Len(RemoveAt(K, y)) = Len(K) - 1
        /\ \A j \in 1..(Len(K) - 1) : RemoveAt(K, y)[j] = IF j < y THEN K[j] ELSE K[j + 1]
    BY ONLY <2>2, <2>3, RemoveAtFacts
  <2> QED BY ONLY <1>12, <2>1, <2>2, <2>4
<1>15. /\ JK \in Seq(Septs) /\ Len(JK) = Len(AK) + Len(BK)
       /\ \A j \in 1..Len(AK) : JK[j] = AK[j]
       /\ \A j \in 1..Len(BK) : JK[Len(AK) + j] = BK[j]
  BY ONLY <1>9, <1>12, ConcatFacts
<1>16. /\ hn \in [Addresses -> Seq(Handles)] /\ kid \in [Addresses -> Seq(Septs)]
       /\ parent \in [Addresses -> Septs \cup {Null}] /\ hp \in [Handles -> Septs \cup {Null}]
       /\ hi \in [Addresses -> Handles \cup {NoHandle}] /\ root_sept \in Septs \cup {Null}
  BY DEF TypeOK
<1>17. /\ hn'[l] = J /\ hn'[p] = G /\ kid'[l] = JK /\ kid'[p] = GK /\ hi'[l] = hi[r] /\ hi'[p] = hi[p]
       /\ \A q \in used : q # l /\ q # p => hn'[q] = hn[q] /\ kid'[q] = kid[q] /\ hi'[q] = hi[q]
  <2>1. \A q \in used : q \in Addresses
    BY SeptFacts
  <2>2. hn' = [hn EXCEPT ![l] = J, ![p] = G] /\ kid' = [kid EXCEPT ![l] = JK, ![p] = GK]
    BY ONLY <1>8, <1>12
  <2>3. /\ hn'[l] = J /\ hn'[p] = G /\ \A q \in used : q # l /\ q # p => hn'[q] = hn[q]
    BY ONLY <1>6, <1>9, <1>16, <2>1, <2>2
  <2>4. /\ kid'[l] = JK /\ kid'[p] = GK /\ \A q \in used : q # l /\ q # p => kid'[q] = kid[q]
    BY ONLY <1>6, <1>9, <1>16, <2>1, <2>2
  <2>5. /\ hi'[l] = hi[r] /\ hi'[p] = hi[p] /\ \A q \in used : q # l /\ q # p => hi'[q] = hi[q]
    BY ONLY <1>6, <1>8, <1>9, <1>16, <2>1
  <2> QED BY ONLY <2>3, <2>4, <2>5
<1>18. ~Linking' /\ left_down' = Null /\ pc' \in {"idle", "repop"} /\ (pc' = "repop" => ~emptied /\ sept' = p /\ Len(H) - 1 < Half)
       /\ (pc' = "idle" => emptied \/ ~(Len(H) - 1 < Half))
  BY <1>5, <1>8 DEF Linking, Done, repop_if, Registers, NoSearch
<1>19. TypeOK'
  <2>1. hn' \in [Addresses -> Seq(Handles)]
    BY ONLY <1>8, <1>9, <1>11, <1>12, <1>13, <1>16
  <2>2. kid' \in [Addresses -> Seq(Septs)]
    BY ONLY <1>8, <1>9, <1>12, <1>14, <1>15, <1>16
  <2>3. parent' \in [Addresses -> Septs \cup {Null}] /\ hp' \in [Handles -> Septs \cup {Null}]
    BY ONLY <1>8, <1>9, <1>16
  <2>4. hi' \in [Addresses -> Handles \cup {NoHandle}] /\ root_sept' \in Septs \cup {Null}
    BY ONLY <1>8, <1>9, <1>16
  <2>5. /\ pc' \in PCs /\ sept' \in Septs \cup {Null} /\ hndl_p' \in Handles \cup {NoHandle}
        /\ pval' \in Int /\ min' \in Int /\ max' \in Int
        /\ left_down' \in Septs \cup {Null} /\ right_down' \in Septs \cup {Null}
    <3>1. pval \in Int /\ min \in Int /\ max \in Int /\ right_down \in Septs \cup {Null} /\ left_down \in Septs \cup {Null}
      BY DEF TypeOK
    <3>2. CASE emptied
      BY ONLY <1>8, <3>2 DEF PCs, Done
    <3>3. CASE ~emptied
      BY ONLY <1>8, <1>9, <3>1, <3>3 DEF PCs, Done, repop_if, Registers, NoSearch
    <3> QED BY ONLY <3>2, <3>3
  <2>6. used' \subseteq Septs /\ sn_reserve' \subseteq Septs
    <3>1. used \subseteq Septs /\ sn_reserve \subseteq Septs
      BY DEF TypeOK
    <3> QED BY ONLY <1>8, <1>9, <3>1 DEF release_septs
  <2> QED BY <1>4, <1>8, <2>1, <2>2, <2>3, <2>4, <2>5, <2>6 DEF TypeOK
<1>20. /\ used' \subseteq used /\ l \in used' /\ r \notin used' /\ (p \in used' <=> ~emptied)
       /\ \A q \in used : q # r /\ q # p => q \in used'
  BY ONLY <1>4, <1>6, <1>8 DEF release_septs
<1>21. p # sept /\ (emptied => p = root_sept /\ x = 1 /\ Len(K) = 2)
  <2>1. Half \in Nat /\ Half >= 2
    BY HalfFacts
  <2>2. p # sept
    BY ONLY <1>4, <1>6
  <2>3. Len(hn[p]) >= (IF p = root_sept THEN 1 ELSE Half)
    BY ONLY <1>4, <1>5, <2>2
  <2>4. ASSUME emptied PROVE p = root_sept /\ x = 1 /\ Len(K) = 2
    <3>1. Len(H) = 1
      BY ONLY <1>7, <2>4
    <3>2. x = 1 /\ Len(K) = 2
      BY ONLY <1>4, <3>1
    <3>3. p = root_sept
      BY ONLY <1>1, <2>1, <2>3, <3>1
    <3> QED BY ONLY <3>2, <3>3
  <2> QED BY ONLY <2>2, <2>4
<1>22. /\ \A j \in 1..Len(BK) : BK[j] \in used /\ parent'[BK[j]] = l /\ height[r] = height[BK[j]] + 1
       /\ \A q \in used : q # l /\ (parent[q] # r \/ \A j \in 1..Len(BK) : BK[j] # q) => parent'[q] = parent[q]
       /\ parent'[l] = (IF emptied THEN Null ELSE p)
  <2>1. \A j \in 1..Len(BK) : BK[j] \in used /\ parent[BK[j]] = r /\ height[r] = height[BK[j]] + 1
    BY <1>2, <1>6, KidFacts
  <2>2. /\ \A j \in 1..Len(BK) : BK[j] \in Range(BK)
        /\ \A q \in Range(BK) : \E j \in 1..Len(BK) : BK[j] = q
    <3>1. BK \in Seq(Septs)
      BY ONLY <1>9
    <3> QED BY ONLY <3>1, RangeFacts
  <2>3. \A q \in used : q \in Addresses
    BY SeptFacts
  <2>4. \A q \in used : parent'[q] = IF q \in Range(BK) THEN l ELSE IF q = l /\ emptied THEN Null ELSE parent[q]
    BY ONLY <1>8, <2>3
  <2>5. \A j \in 1..Len(BK) : parent'[BK[j]] = l
    BY ONLY <2>1, <2>2, <2>4
  <2>6. \A q \in used : q # l /\ (parent[q] # r \/ \A j \in 1..Len(BK) : BK[j] # q) => parent'[q] = parent[q]
    BY ONLY <2>1, <2>2, <2>4
  <2>7. l \notin Range(BK)
    BY ONLY <1>6, <2>1, <2>2
  <2>8. parent'[l] = (IF emptied THEN Null ELSE p)
    BY ONLY <1>6, <2>4, <2>7
  <2> QED BY ONLY <2>1, <2>5, <2>6, <2>8
<1>23. /\ \A j \in 1..Len(hs) : hp'[hs[j]] = l
       /\ \A g \in Handles : hp[g] # r /\ g # m => hp'[g] = hp[g]
  <2>1. \A j \in 1..Len(B) : hp[B[j]] = r
    BY <1>2, <1>6, ValueFacts
  <2>2. /\ \A j \in 1..Len(hs) : hs[j] \in Range(hs) /\ hs[j] \in Handles
        /\ \A g \in Range(hs) : \E j \in 1..Len(hs) : hs[j] = g
    <3>1. hs \in Seq(Handles)
      BY ONLY <1>10
    <3> QED BY ONLY <3>1, RangeFacts
  <2>3. ASSUME NEW g \in Range(hs) PROVE g = m \/ hp[g] = r
    <3>1. PICK j \in 1..Len(hs) : hs[j] = g
      BY ONLY <2>2
    <3>2. CASE j = 1
      BY ONLY <1>10, <3>1, <3>2
    <3>3. CASE j # 1
      <4>1. PICK k : k = j - 1
        OBVIOUS
      <4>2. k \in 1..Len(B) /\ k + 1 = j
        BY ONLY <1>9, <1>10, <3>1, <3>3, <4>1
      <4> QED BY ONLY <1>10, <2>1, <3>1, <4>2
    <3> QED BY ONLY <3>2, <3>3
  <2>4. \A g \in Handles : hp'[g] = IF g \in Range(hs) THEN l ELSE hp[g]
    BY ONLY <1>8
  <2>5. \A j \in 1..Len(hs) : hp'[hs[j]] = l
    BY ONLY <2>2, <2>4
  <2> QED BY ONLY <2>3, <2>4, <2>5
<1>24. \A j \in 1..Len(J) : hp'[J[j]] = l
  <2> SUFFICES ASSUME NEW j \in 1..Len(J) PROVE hp'[J[j]] = l
    OBVIOUS
  <2>1. CASE j <= Len(A)
    <3>1. j \in 1..Len(A)
      BY ONLY <1>9, <1>11, <2>1
    <3>2. A[j] \in Handles /\ hp[A[j]] = l
      BY <1>2, <1>6, <3>1, ValueFacts
    <3> QED BY ONLY <1>6, <1>11, <1>23, <3>1, <3>2
  <2>2. CASE j > Len(A)
    <3>1. PICK k : k = j - Len(A)
      OBVIOUS
    <3>2. k \in 1..Len(hs) /\ Len(A) + k = j
      BY ONLY <1>9, <1>10, <1>11, <2>2, <3>1
    <3> QED BY ONLY <1>11, <1>23, <3>2
  <2>3. j <= Len(A) \/ j > Len(A)
    BY ONLY <1>9, <1>11
  <2> QED BY ONLY <2>1, <2>2, <2>3
<1>25. Spans(J, JK, lo[l], hi[r], height[l])
  <2>1. Spans(A, AK, lo[l], m, height[l])
    BY <1>2, <1>5, <1>6, OwnSpan
  <2>2. Spans(B, BK, m, hi[r], height[l])
    BY <1>2, <1>5, <1>6, OwnSpan
  <2>3. lo[l] \in Handles \cup {NoHandle} /\ hi[r] \in Handles \cup {NoHandle}
    BY <1>6, SeptFacts
  <2>4. PICK a, b \in Handles \cup {NoHandle} : a = lo[l] /\ b = hi[r]
    BY ONLY <2>3
  <2>5. PICK ht : ht = height[l]
    OBVIOUS
  <2>6. /\ A \in Seq(Handles) /\ AK \in Seq(Septs) /\ B \in Seq(Handles) /\ BK \in Seq(Septs) /\ m \in Handles
        /\ After(a, m) /\ Before(m, b) /\ Spans(A, AK, a, m, ht) /\ Spans(B, BK, m, b, ht)
    BY ONLY <1>6, <1>9, <2>1, <2>2, <2>4, <2>5
  <2>7. Spans(A \o (<<m>> \o B), AK \o BK, a, b, ht)
    BY ONLY <2>4, <2>6, JoinSpan
  <2> QED BY ONLY <1>3, <1>12, <2>4, <2>5, <2>7
<1>26. ASSUME NEW j \in 1..Len(JK)
       PROVE  /\ JK[j] \in used' /\ parent'[JK[j]] = l /\ height'[JK[j]] = height[JK[j]]
              /\ lo'[JK[j]] = lo[JK[j]] /\ hi'[JK[j]] = hi[JK[j]]
  <2>1. PICK k : k = JK[j]
    OBVIOUS
  <2>2. Len(AK) \in Nat /\ Len(BK) \in Nat
    BY ONLY <1>9
  <2>3. k \in used /\ height[l] = height[k] + 1 /\ parent'[k] = l
    <3>1. CASE j <= Len(AK)
      <4>1. j \in 1..Len(AK) /\ k = AK[j]
        BY ONLY <1>15, <2>1, <2>2, <3>1
      <4>2. k \in used /\ parent[k] = l /\ height[l] = height[k] + 1
        BY <1>2, <1>6, <4>1, KidFacts
      <4>3. height[k] \in Nat
        BY <4>2, SeptFacts
      <4>4. k # l
        BY ONLY <4>2, <4>3
      <4> QED BY ONLY <1>6, <1>22, <4>2, <4>4
    <3>2. CASE j > Len(AK)
      <4>1. PICK i : i = j - Len(AK)
        OBVIOUS
      <4>2. i \in 1..Len(BK) /\ Len(AK) + i = j
        BY ONLY <1>15, <2>2, <3>2, <4>1
      <4> QED BY ONLY <1>6, <1>15, <1>22, <2>1, <4>2
    <3>3. j <= Len(AK) \/ j > Len(AK)
      BY ONLY <1>15, <2>2
    <3> QED BY ONLY <3>1, <3>2, <3>3
  <2>4. height[k] \in Nat
    BY <2>3, SeptFacts
  <2>5. k # l /\ k # r /\ k # p
    BY ONLY <1>6, <2>3, <2>4
  <2>6. k \in used' /\ hi'[k] = hi[k] /\ height' = height /\ lo' = lo
    BY ONLY <1>8, <1>17, <1>20, <2>3, <2>5
  <2> QED BY ONLY <2>1, <2>3, <2>6
<1>27. SeptInOrder(l)' /\ ChildrenAgree(l)'
  <2>1. \A j \in 1..Len(JK) : hi'[IF Linking' /\ JK[j] = left_down' THEN right_down' ELSE JK[j]] = hi[JK[j]]
    BY ONLY <1>18, <1>26
  <2>2. Receives(l, J, JK, lo[l], hi[r], height[l])
    BY ONLY <1>6, <1>8, <1>11, <1>15, <1>17, <1>24, <1>25, <1>26, <2>1 DEF Receives
  <2> QED BY <2>2, Installed
<1>28. ASSUME NEW q \in used, q # l, q # p, q # r, q \in used' PROVE SeptInOrder(q)' /\ ChildrenAgree(q)'
  <2>1. /\ hn[q] \in Seq(Handles) /\ kid[q] \in Seq(Septs) /\ Len(hn[q]) <= N /\ height[q] \in Nat
    BY SeptFacts
  <2>2. Spans(hn[q], kid[q], lo[q], hi[q], height[q])
    BY <1>5, OwnSpan
  <2>3. \A j \in 1..Len(hn[q]) : hp'[hn[q][j]] = q
    <3>1. \A j \in 1..Len(hn[q]) : hn[q][j] \in Handles /\ hp[hn[q][j]] = q
      BY ValueFacts
    <3> QED BY ONLY <1>6, <1>23, <1>28, <3>1
  <2>4. ASSUME NEW j \in 1..Len(kid[q])
        PROVE  /\ kid[q][j] \in used' /\ parent'[kid[q][j]] = q /\ height'[kid[q][j]] = height[kid[q][j]]
               /\ lo'[kid[q][j]] = lo[kid[q][j]]
               /\ hi'[IF Linking' /\ kid[q][j] = left_down' THEN right_down' ELSE kid[q][j]] = hi[kid[q][j]]
    <3>1. PICK k : k = kid[q][j]
      OBVIOUS
    <3>2. k \in used /\ parent[k] = q
      BY <3>1, KidFacts
    <3>3. k # l /\ k # r /\ parent'[k] = q
      BY ONLY <1>6, <1>22, <1>28, <3>2
    <3>4. k \in used'
      <4>1. CASE k = p
        <5>1. p # root_sept
          <6>1. root_sept # Null => parent[root_sept] = Null
            BY DEF ShapeInv, RootAgrees
          <6>2. q # Null /\ p # Null
            BY <1>4, SeptFacts
          <6> QED BY ONLY <3>2, <4>1, <6>1, <6>2
        <5> QED BY ONLY <1>20, <1>21, <4>1, <5>1
      <4>2. CASE k # p
        BY ONLY <1>20, <3>2, <3>3, <4>2
      <4> QED BY ONLY <4>1, <4>2
    <3>5. hi'[k] = hi[k]
      BY ONLY <1>17, <3>2, <3>3
    <3> QED BY ONLY <1>8, <1>18, <3>1, <3>3, <3>4, <3>5
  <2>5. hn'[q] = hn[q] /\ kid'[q] = kid[q] /\ lo'[q] = lo[q] /\ hi'[q] = hi[q] /\ height'[q] = height[q]
    BY ONLY <1>8, <1>17, <1>28
  <2>6. Receives(q, hn[q], kid[q], lo[q], hi[q], height[q])
    BY ONLY <2>1, <2>2, <2>3, <2>4, <2>5 DEF Receives
  <2> QED BY <2>6, Installed
<1>29. /\ Between(G, lo[p], hi[p])
       /\ \A g : (\E j \in 1..Len(G) : G[j] = g) <=> \E j \in 1..Len(H) : j # x /\ H[j] = g
  <2>1. Between(H, lo[p], hi[p])
    BY <1>1, <1>4, <1>5, OwnSpan DEF Spans
  <2>2. PICK a, b : a = lo[p] /\ b = hi[p]
    OBVIOUS
  <2>3. H \in Seq(Handles) /\ x \in 1..Len(H) /\ Between(H, a, b)
    BY ONLY <1>4, <1>9, <2>1, <2>2
  <2>4. /\ Between(RemoveAt(H, x), a, b)
        /\ \A g : (\E j \in 1..Len(RemoveAt(H, x)) : RemoveAt(H, x)[j] = g) <=> \E j \in 1..Len(H) : j # x /\ H[j] = g
    BY ONLY <2>3, RemoveBetween
  <2> QED BY ONLY <1>12, <2>2, <2>4
<1>30. \A j \in 1..Len(H) : H[j] \in Handles /\ hp[H[j]] = p /\ (j # x => H[j] # m)
  <2>1. \A j \in 1..Len(H) : /\ H[j] \in Handles /\ Key[H[j]] \in Int /\ hp[H[j]] = p
                             /\ \A k \in 1..Len(H) : j < k => Key[H[j]] < Key[H[k]]
    BY <1>1, <1>4, ValueFacts
  <2>2. \A j \in 1..Len(H) : j # x => j < x \/ x < j
    BY ONLY <1>4, <1>9
  <2>3. H[x] = m
    BY ONLY <1>1
  <2> QED BY ONLY <1>4, <2>1, <2>2, <2>3
<1>31. \A j \in 1..Len(K) : /\ K[j] \in used /\ parent[K[j]] = p /\ height[p] = height[K[j]] + 1
                            /\ lo[K[j]] = (IF j = 1 THEN lo[p] ELSE H[j - 1])
                            /\ hi[K[j]] = (IF j = Len(K) THEN hi[p] ELSE H[j])
                            /\ (j # x => K[j] # l) /\ (j # x + 1 => K[j] # r)
  <2> SUFFICES ASSUME NEW j \in 1..Len(K)
               PROVE  /\ K[j] \in used /\ parent[K[j]] = p /\ height[p] = height[K[j]] + 1
                      /\ lo[K[j]] = (IF j = 1 THEN lo[p] ELSE H[j - 1])
                      /\ hi[K[j]] = (IF j = Len(K) THEN hi[p] ELSE H[j])
                      /\ (j # x => K[j] # l) /\ (j # x + 1 => K[j] # r)
    OBVIOUS
  <2>1. /\ K[j] \in used /\ parent[K[j]] = p /\ height[p] = height[K[j]] + 1
        /\ lo[K[j]] = LeftOf(p, j) /\ hi[UpTo(K[j])] = RightOf(p, j)
    BY <1>1, <1>4, KidFacts
  <2>2. /\ lo[K[j]] = (IF j = 1 THEN lo[p] ELSE H[j - 1])
        /\ hi[K[j]] = (IF j = Len(K) THEN hi[p] ELSE H[j])
    BY ONLY <1>1, <1>5, <2>1 DEF LeftOf, RightOf, UpTo
  <2>3. \A i, k \in 1..Len(K) : i < k => K[i] # K[k]
    BY <1>1, <1>4, KidsDistinct
  <2>4. PICK y : y = x + 1
    OBVIOUS
  <2>5. x \in 1..Len(K) /\ y \in 1..Len(K) /\ (j # x => j < x \/ x < j) /\ (j # y => j < y \/ y < j)
    BY ONLY <1>4, <1>9, <2>4
  <2>6. (j # x => K[j] # l) /\ (j # y => K[j] # r)
    BY ONLY <1>4, <2>3, <2>4, <2>5
  <2> QED BY ONLY <2>1, <2>2, <2>4, <2>6
<1>32. ASSUME ~emptied PROVE SeptInOrder(p)' /\ ChildrenAgree(p)'
  <2>1. /\ hn'[p] = G /\ kid'[p] = GK /\ lo'[p] = lo[p] /\ hi'[p] = hi[p] /\ height'[p] = height[p]
    BY ONLY <1>8, <1>17
  <2>2. Len(H) # 1 /\ Len(H) >= 1
    BY ONLY <1>4, <1>7, <1>9, <1>32
  <2>3. Len(G) <= N
    <3>1. N \in Nat
      BY HalfFacts
    <3> QED BY ONLY <1>9, <1>13, <3>1
  <2>4. height[p] # 0 /\ Len(GK) = Len(G) + 1 /\ GK # << >>
    BY ONLY <1>6, <1>9, <1>13, <1>14, <2>2
  <2>5. \A j \in 1..Len(G) : hp'[G[j]] = p
    <3>1. ASSUME NEW j \in 1..Len(G) PROVE hp'[G[j]] = p
      <4>1. PICK k \in 1..Len(H) : k # x /\ H[k] = G[j]
        BY ONLY <1>29
      <4> QED BY ONLY <1>6, <1>23, <1>30, <4>1
    <3> QED BY ONLY <3>1
  <2>6. ASSUME NEW j \in 1..Len(GK)
        PROVE  /\ GK[j] \in used' /\ parent'[GK[j]] = p /\ height'[GK[j]] = height'[p] - 1
               /\ lo'[GK[j]] = (IF j = 1 THEN lo'[p] ELSE G[j - 1])
               /\ hi'[IF Linking' /\ GK[j] = left_down' THEN right_down' ELSE GK[j]]
                    = (IF j = Len(GK) THEN hi'[p] ELSE G[j])
    <3>1. PICK i : i = IF j < x + 1 THEN j ELSE j + 1
      OBVIOUS
    <3>2. PICK k : k = GK[j]
      OBVIOUS
    <3>3. i \in 1..Len(K) /\ i # x + 1 /\ k = K[i] /\ j \in 1..Len(H) /\ i \in Nat
      BY ONLY <1>4, <1>9, <1>14, <2>6, <3>1, <3>2
    <3>4. /\ k \in used /\ parent[k] = p /\ height[p] = height[k] + 1 /\ k # r /\ (i # x => k # l)
          /\ lo[k] = (IF i = 1 THEN lo[p] ELSE H[i - 1]) /\ hi[k] = (IF i = Len(K) THEN hi[p] ELSE H[i])
      BY ONLY <1>31, <3>3
    <3>5. height[k] \in Nat
      BY <3>4, SeptFacts
    <3>6. k # p /\ k \in used' /\ parent'[k] = p
      <4>1. k # p
        BY ONLY <3>4, <3>5
      <4>2. parent'[k] = p
        BY ONLY <1>6, <1>22, <1>32, <3>4
      <4> QED BY ONLY <1>20, <3>4, <4>1, <4>2
    <3>7. lo'[k] = (IF j = 1 THEN lo'[p] ELSE G[j - 1])
      <4>1. j = 1 => i = 1
        BY ONLY <1>4, <3>1
      <4>2. j # 1 => i # 1 /\ j - 1 \in 1..(Len(H) - 1) /\ i - 1 = IF j - 1 < x THEN j - 1 ELSE (j - 1) + 1
        BY ONLY <1>4, <1>9, <3>1, <3>3
      <4>3. j # 1 => G[j - 1] = H[i - 1]
        BY ONLY <1>13, <4>2
      <4> QED BY ONLY <1>8, <3>4, <4>1, <4>2, <4>3
    <3>8. hi'[k] = (IF j = Len(GK) THEN hi'[p] ELSE G[j])
      <4>1. CASE i = x
        <5>1. k = l /\ j = x
          BY ONLY <1>4, <3>1, <3>3, <4>1
        <5>2. hi'[k] = (IF x + 1 = Len(K) THEN hi[p] ELSE H[x + 1])
          BY ONLY <1>6, <1>17, <5>1
        <5>3. x + 1 = Len(K) <=> j = Len(GK)
          BY ONLY <1>4, <1>9, <1>14, <5>1
        <5>4. j # Len(GK) => G[j] = H[x + 1]
          <6>1. j # Len(GK) => j \in 1..(Len(H) - 1) /\ ~(j < x)
            BY ONLY <1>4, <1>9, <1>14, <3>3, <5>1
          <6> QED BY ONLY <1>13, <5>1, <6>1
        <5> QED BY ONLY <1>17, <5>2, <5>3, <5>4
      <4>2. CASE i # x
        <5>1. hi'[k] = hi[k]
          BY ONLY <1>17, <3>4, <3>6, <4>2
        <5>2. i = Len(K) <=> j = Len(GK)
          <6>1. x \in 1..Len(H) /\ Len(K) = Len(H) + 1 /\ Len(GK) = Len(H) /\ Len(H) \in Nat /\ j \in 1..Len(H)
            BY ONLY <1>4, <1>9, <1>14, <3>3
          <6> QED BY ONLY <3>1, <4>2, <6>1
        <5>3. j # Len(GK) => G[j] = H[i]
          <6>1. j # Len(GK) => j \in 1..(Len(H) - 1) /\ i = IF j < x THEN j ELSE j + 1
            BY ONLY <1>4, <1>9, <1>14, <3>1, <3>3, <4>2
          <6> QED BY ONLY <1>13, <6>1
        <5> QED BY ONLY <1>17, <3>4, <5>1, <5>2, <5>3
      <4> QED BY ONLY <4>1, <4>2
    <3>9. height'[k] = height'[p] - 1
      BY ONLY <1>8, <3>4, <3>5
    <3> QED BY ONLY <1>18, <3>2, <3>6, <3>7, <3>8, <3>9
  <2>7. /\ hn'[p] \in Seq(Handles) /\ kid'[p] \in Seq(Septs) /\ Between(hn'[p], lo'[p], hi'[p]) /\ Len(hn'[p]) <= N
        /\ (height'[p] = 0 <=> kid'[p] = << >>) /\ (height'[p] # 0 => Len(kid'[p]) = Len(hn'[p]) + 1)
    BY ONLY <1>13, <1>14, <1>29, <2>1, <2>3, <2>4
  <2>8. \A j \in 1..Len(hn'[p]) : hp'[hn'[p][j]] = p
    BY ONLY <2>1, <2>5
  <2>9. \A j \in 1..Len(kid'[p]) :
          /\ kid'[p][j] \in used' /\ parent'[kid'[p][j]] = p /\ height'[kid'[p][j]] = height'[p] - 1
          /\ lo'[kid'[p][j]] = (IF j = 1 THEN lo'[p] ELSE hn'[p][j - 1])
          /\ hi'[IF Linking' /\ kid'[p][j] = left_down' THEN right_down' ELSE kid'[p][j]]
               = (IF j = Len(kid'[p]) THEN hi'[p] ELSE hn'[p][j])
    BY ONLY <2>1, <2>6
  <2> QED BY ONLY <2>7, <2>8, <2>9, Becomes
<1>33. ASSUME NEW q \in used' PROVE SeptInOrder(q)' /\ ChildrenAgree(q)'
  <2>1. q \in used /\ q # r /\ (q = p => ~emptied)
    BY ONLY <1>20, <1>33
  <2>2. CASE q = l
    BY ONLY <1>27, <2>2
  <2>3. CASE q = p
    BY ONLY <1>32, <2>1, <2>3
  <2>4. CASE q # l /\ q # p
    BY ONLY <1>28, <1>33, <2>1, <2>4
  <2> QED BY ONLY <2>2, <2>3, <2>4
<1>34. ASSUME NEW q \in used', q # root_sept'
       PROVE  /\ parent'[q] \in used' /\ height[q] < height[root_sept']
              /\ \E i \in 1..Len(kid'[parent'[q]]) : kid'[parent'[q]][i] = q
  <2>1. q \in used /\ q # r /\ (q = p => ~emptied)
    BY ONLY <1>20, <1>34
  <2>2. q # root_sept
    BY ONLY <1>8, <1>21, <1>34, <2>1
  <2>3. PICK y : y = parent[q]
    OBVIOUS
  <2>4. /\ y \in used /\ height[y] = height[q] + 1 /\ height[q] < height[root_sept]
        /\ \E i \in 1..Len(kid[y]) : kid[y][i] = q
    BY <1>5, <2>1, <2>2, <2>3, ParentFacts
  <2>5. PICK i \in 1..Len(kid[y]) : kid[y][i] = q
    BY ONLY <2>4
  <2>6. y = p => q = l \/ ((\E j \in 1..Len(GK) : GK[j] = q) /\ ~emptied)
    <3> SUFFICES ASSUME y = p, q # l PROVE (\E j \in 1..Len(GK) : GK[j] = q) /\ ~emptied
      OBVIOUS
    <3>1. i \in 1..Len(K) /\ K[i] = q /\ i # x /\ i # x + 1
      BY ONLY <1>1, <1>4, <2>1, <2>5, y = p, q # l
    <3>2. PICK j : j = IF i < x + 1 THEN i ELSE i - 1
      OBVIOUS
    <3>3. x \in 1..Len(H) /\ Len(K) = Len(H) + 1 /\ Len(H) \in Nat
      BY ONLY <1>4, <1>9
    <3>4. j \in 1..Len(H) /\ i = (IF j < x + 1 THEN j ELSE j + 1)
      BY ONLY <3>1, <3>2, <3>3
    <3>5. GK[j] = q /\ j \in 1..Len(GK)
      BY ONLY <1>14, <3>1, <3>4
    <3>6. ~emptied
      <4>1. emptied => x = 1 /\ Len(K) = 2
        BY ONLY <1>21
      <4> QED BY ONLY <3>1, <4>1
    <3> QED BY ONLY <3>5, <3>6
  <2>7. q = l => y = p /\ ~emptied
    BY ONLY <1>6, <1>8, <1>34, <2>3
  <2>8. height[q] < height[root_sept']
    <3>1. CASE ~emptied
      BY ONLY <1>8, <2>4, <3>1
    <3>2. CASE emptied
      <4>1. y # p
        BY ONLY <2>6, <2>7, <3>2
      <4>2. y # root_sept
        BY ONLY <1>21, <3>2, <4>1
      <4>3. height[y] < height[p]
        BY <1>5, <1>21, <2>4, <3>2, <4>2, ParentFacts
      <4>4. height[q] \in Nat
        BY <2>1, SeptFacts
      <4>5. height[q] < height[l]
        BY ONLY <1>6, <2>4, <4>3, <4>4
      <4> QED BY ONLY <1>8, <3>2, <4>5
    <3> QED BY ONLY <3>1, <3>2
  <2>9. CASE y = r
    <3>1. i \in 1..Len(BK) /\ BK[i] = q
      BY ONLY <1>2, <2>5, <2>9
    <3>2. parent'[q] = l
      BY ONLY <1>22, <3>1
    <3>3. PICK j : j = Len(AK) + i
      OBVIOUS
    <3>4. Len(AK) \in Nat /\ Len(BK) \in Nat
      BY ONLY <1>9
    <3>5. j \in 1..Len(JK) /\ JK[j] = q
      BY ONLY <1>15, <3>1, <3>3, <3>4
    <3> QED BY ONLY <1>17, <1>20, <2>8, <3>2, <3>5
  <2>10. CASE y # r
    <3>1. parent'[q] = y
      BY ONLY <1>6, <1>22, <2>1, <2>3, <2>7, <2>10
    <3>2. CASE y = p
      <4>1. ~emptied /\ \E j \in 1..Len(GK) : GK[j] = q
        <5>1. CASE q = l
          <6>1. x \in 1..Len(GK) /\ x < x + 1
            BY ONLY <1>4, <1>9, <1>14
          <6>2. GK[x] = l
            BY ONLY <1>4, <1>14, <6>1
          <6> QED BY ONLY <2>7, <5>1, <6>1, <6>2
        <5> QED BY ONLY <2>6, <3>2, <5>1
      <4> QED BY ONLY <1>17, <1>20, <2>8, <3>1, <3>2, <4>1
    <3>3. CASE y = l
      <4>1. i \in 1..Len(AK) /\ AK[i] = q /\ Len(AK) \in Nat /\ Len(BK) \in Nat
        BY ONLY <1>2, <1>9, <2>5, <3>3
      <4>2. i \in 1..Len(JK) /\ JK[i] = q
        BY ONLY <1>15, <4>1
      <4> QED BY ONLY <1>17, <1>20, <2>8, <3>1, <3>3, <4>2
    <3>4. CASE y # p /\ y # l
      <4>1. kid'[y] = kid[y] /\ y \in used'
        BY ONLY <1>17, <1>20, <2>4, <2>10, <3>4
      <4> QED BY ONLY <2>4, <2>8, <3>1, <4>1
    <3> QED BY ONLY <3>2, <3>3, <3>4
  <2> QED BY ONLY <2>9, <2>10
<1>35. /\ root_sept \in used /\ root_sept # Null /\ parent[root_sept] = Null /\ lo[root_sept] = NoHandle
       /\ hi[root_sept] = NoHandle
       /\ left_sept # Null /\ left_sept \in used /\ kid[left_sept] = << >> /\ lo[left_sept] = NoHandle
  <2>1. used # {} /\ RootAgrees /\ UpTo(root_sept) = root_sept
    BY <1>4, <1>5 DEF ShapeInv, UpTo
  <2> QED BY <2>1 DEF RootAgrees, is_leaf
<1>36. /\ root_sept' \in used' /\ root_sept' # Null /\ parent'[root_sept'] = Null /\ lo'[root_sept'] = NoHandle
       /\ hi'[root_sept'] = NoHandle
  <2>1. CASE emptied
    <3>1. root_sept' = l /\ lo'[l] = NoHandle /\ hi'[l] = NoHandle
      BY ONLY <1>6, <1>8, <1>17, <1>21, <1>35, <2>1
    <3>2. l # Null
      BY <1>6, SeptFacts
    <3> QED BY ONLY <1>20, <1>22, <2>1, <3>1, <3>2
  <2>2. CASE ~emptied
    <3>1. root_sept' = root_sept /\ root_sept \in used'
      BY ONLY <1>6, <1>8, <1>20, <1>35, <2>2
    <3>2. hi'[root_sept] = hi[root_sept]
      BY ONLY <1>6, <1>17, <1>35
    <3>3. parent'[root_sept] = parent[root_sept]
      <4>1. r # Null
        BY <1>6, SeptFacts
      <4> QED BY ONLY <1>6, <1>22, <1>35, <4>1
    <3> QED BY ONLY <1>8, <1>35, <3>1, <3>2, <3>3
  <2> QED BY ONLY <2>1, <2>2
<1>37. left_sept' = left_sept /\ left_sept \in used' /\ kid'[left_sept] = << >> /\ lo'[left_sept] = NoHandle
  <2>1. m # NoHandle
    BY <1>6, OrderAssumption
  <2>2. height[left_sept] = 0
    BY <1>35, SeptFacts
  <2>3. left_sept # r /\ left_sept # p
    BY ONLY <1>6, <1>35, <2>1, <2>2
  <2>4. left_sept \in used' /\ height'[left_sept] = 0
    BY ONLY <1>8, <1>20, <1>35, <2>2, <2>3
  <2>5. ChildrenAgree(left_sept)'
    BY <1>8, <1>33, <2>4
  <2>6. kid'[left_sept] = << >>
    <3>1. CASE left_sept = l
      <4>1. AK = << >> /\ BK = << >> /\ JK = AK \o BK
        BY ONLY <1>9, <1>12, <2>2, <3>1
      <4>2. JK = << >>
        BY ONLY <4>1
      <4> QED BY ONLY <1>17, <3>1, <4>2
    <3>2. CASE left_sept # l
      BY ONLY <1>17, <1>35, <2>3, <3>2
    <3> QED BY ONLY <3>1, <3>2
  <2> QED BY ONLY <1>8, <1>35, <2>4, <2>6
<1>38. ShapeInv'
  <2>1. RootAgrees'
    <3>1. UpTo(root_sept)' = root_sept'
      BY ONLY <1>18 DEF UpTo
    <3>2. left_sept' # Null
      BY ONLY <1>35, <1>37
    <3> QED BY ONLY <1>36, <1>37, <3>1, <3>2 DEF RootAgrees, is_leaf
  <2>2. ASSUME NEW q \in used', q # root_sept' PROVE ParentAgrees(q)'
    BY ONLY <1>8, <1>34, <2>2 DEF ParentAgrees
  <2> QED BY ONLY <1>33, <2>1, <2>2 DEF ShapeInv
<1>39. Members' = Members
  <2>1. \A g : g \in Members' <=> \E q \in used' : \E j \in 1..Len(hn'[q]) : hn'[q][j] = g
    BY <1>19, MemberFactsPrime
  <2>2. \A g : g \in Members <=> \E q \in used : \E j \in 1..Len(hn[q]) : hn[q][j] = g
    BY MemberFacts
  <2>3. ASSUME NEW g, NEW j \in 1..Len(hs), hs[j] = g PROVE g \in Members /\ g \in Members'
    <3>1. PICK k : k = Len(A) + j
      OBVIOUS
    <3>2. k \in 1..Len(J) /\ J[k] = g
      <4>1. Len(A) \in Nat /\ Len(B) \in Nat /\ j \in 1..(Len(B) + 1) /\ Len(J) = Len(A) + Len(B) + 1
        BY ONLY <1>9, <1>10, <1>11
      <4>2. k \in 1..Len(J)
        BY ONLY <3>1, <4>1
      <4> QED BY ONLY <1>11, <2>3, <3>1, <4>2
    <3>3. g \in Members'
      BY ONLY <1>17, <1>20, <2>1, <3>2
    <3>4. CASE j = 1
      <4>1. g = H[x]
        BY ONLY <1>1, <1>10, <2>3, <3>4
      <4> QED BY ONLY <1>1, <1>4, <2>2, <3>3, <4>1
    <3>5. CASE j # 1
      <4>1. PICK i : i = j - 1
        OBVIOUS
      <4>2. i \in 1..Len(B) /\ i + 1 = j
        BY ONLY <1>9, <1>10, <2>3, <3>5, <4>1
      <4>3. B[i] = g
        BY ONLY <1>10, <2>3, <4>2
      <4> QED BY ONLY <1>2, <1>6, <2>2, <3>3, <4>2, <4>3
    <3> QED BY ONLY <3>4, <3>5
  <2>4. ASSUME NEW g \in Members' PROVE g \in Members
    <3>0. PICK q \in used' : \E j \in 1..Len(hn'[q]) : hn'[q][j] = g
      BY ONLY <2>1, <2>4
    <3>1. PICK j \in 1..Len(hn'[q]) : hn'[q][j] = g
      BY ONLY <3>0
    <3>2. CASE q = l
      <4>1. j \in 1..Len(J) /\ J[j] = g
        BY ONLY <1>17, <3>1, <3>2
      <4>2. CASE j <= Len(A)
        <5>1. j \in 1..Len(A) /\ A[j] = g
          BY ONLY <1>9, <1>11, <4>1, <4>2
        <5> QED BY ONLY <1>2, <1>6, <2>2, <5>1
      <4>3. CASE ~(j <= Len(A))
        <5>1. PICK k : k = j - Len(A)
          OBVIOUS
        <5>2. k \in 1..Len(hs) /\ Len(A) + k = j
          BY ONLY <1>9, <1>10, <1>11, <4>1, <4>3, <5>1
        <5> QED BY ONLY <1>11, <2>3, <4>1, <5>2
      <4> QED BY ONLY <4>2, <4>3
    <3>3. CASE q = p
      <4>1. PICK k \in 1..Len(H) : H[k] = g
        BY ONLY <1>17, <1>29, <3>1, <3>3
      <4> QED BY ONLY <1>1, <1>4, <2>2, <4>1
    <3>4. CASE q # l /\ q # p
      BY ONLY <1>17, <1>20, <2>2, <3>1, <3>4
    <3> QED BY ONLY <3>2, <3>3, <3>4
  <2>5. ASSUME NEW g \in Members PROVE g \in Members'
    <3>0. PICK q \in used : \E j \in 1..Len(hn[q]) : hn[q][j] = g
      BY ONLY <2>2, <2>5
    <3>1. PICK j \in 1..Len(hn[q]) : hn[q][j] = g
      BY ONLY <3>0
    <3>2. CASE q = l
      <4>0. Len(A) \in Nat /\ Len(B) \in Nat /\ Len(J) = Len(A) + Len(B) + 1 /\ j \in 1..Len(A)
        BY ONLY <1>2, <1>9, <1>11, <3>1, <3>2
      <4>1. j \in 1..Len(A) /\ A[j] = g /\ j \in 1..Len(J)
        <5>1. j \in 1..Len(J)
          BY ONLY <4>0
        <5> QED BY ONLY <1>2, <3>1, <3>2, <4>0, <5>1
      <4>2. J[j] = g
        BY ONLY <1>11, <4>1
      <4> QED BY ONLY <1>17, <1>20, <2>1, <4>1, <4>2
    <3>3. CASE q = r
      <4>1. PICK k : k = j + 1
        OBVIOUS
      <4>2. j \in 1..Len(B) /\ B[j] = g /\ k \in 1..Len(hs)
        BY ONLY <1>2, <1>9, <1>10, <3>1, <3>3, <4>1
      <4>3. hs[k] = g
        BY ONLY <1>10, <4>1, <4>2
      <4> QED BY ONLY <2>3, <4>2, <4>3
    <3>4. CASE q = p /\ j = x
      <4>1. hs[1] = g /\ 1 \in 1..Len(hs)
        BY ONLY <1>1, <1>9, <1>10, <3>1, <3>4
      <4> QED BY ONLY <2>3, <4>1
    <3>5. CASE q = p /\ j # x
      <4>1. j \in 1..Len(H) /\ H[j] = g
        BY ONLY <1>1, <3>1, <3>5
      <4>2. PICK k \in 1..Len(G) : G[k] = g
        BY ONLY <1>29, <3>5, <4>1
      <4>3. ~emptied
        <5>1. x \in 1..Len(H) /\ j \in 1..Len(H) /\ j # x /\ Len(H) \in Nat
          BY ONLY <1>4, <1>9, <3>5, <4>1
        <5>2. x \in 1..1 /\ j \in 1..1 => x = j
          OBVIOUS
        <5>3. Len(H) # 1
          BY ONLY <5>1, <5>2
        <5> QED BY ONLY <1>7, <5>3
      <4> QED BY ONLY <1>17, <1>20, <2>1, <4>2, <4>3
    <3>6. CASE q # l /\ q # r /\ q # p
      BY ONLY <1>17, <1>20, <2>1, <3>1, <3>6
    <3> QED BY ONLY <3>2, <3>3, <3>4, <3>5, <3>6
  <2> QED BY <2>4, <2>5
<1>40. Elements' = Elements
  BY <1>4, <1>18, <1>39 DEF Elements
<1>41. SlotsInv'
  <2>1. Elements' \subseteq slots /\ stage' # "gone"
    BY <1>4, <1>5, <1>40 DEF SlotsInv
  <2>2. PICK T \in SUBSET used : T = IF emptied THEN {r, p} ELSE {r}
    BY ONLY <1>4, <1>6
  <2>3. release_septs(T)
    BY ONLY <1>8, <2>2
  <2> QED BY <1>4, <1>5, <2>1, <2>3, ReleaseSepts
<1>42. FillInv'
  <2> SUFFICES ASSUME NEW q \in used'
               PROVE  \/ Filled(q)'
                      \/ /\ pc' = "repop" /\ q = sept' /\ (q = root_sept' \/ Len(hn'[q]) = Half - 1)
                         /\ Len(hn'[q]) < Half /\ (Len(hn'[q]) = 0 => kid'[q] = << >>)
    BY DEF FillInv, num_vals, is_leaf
  <2>1. Half \in Nat /\ Half >= 2
    BY HalfFacts
  <2>2. CASE q = l
    <3>1. Len(A) >= Half \/ Len(B) >= Half
      BY ONLY <1>2, <1>4, <1>5, <1>6
    <3>2. Len(hn'[q]) >= Half /\ Len(hn'[q]) >= 1
      <4>1. Len(hn'[q]) = Len(A) + Len(B) + 1
        BY ONLY <1>11, <1>17, <2>2
      <4> QED BY ONLY <1>9, <2>1, <3>1, <4>1
    <3> QED BY <3>2 DEF Filled, num_vals
  <2>3. CASE q = p
    <3>1. ~emptied /\ hn'[q] = G /\ root_sept' = root_sept
      BY ONLY <1>8, <1>17, <1>20, <2>3
    <3>2. Len(H) # 1 /\ Len(H) >= (IF p = root_sept THEN 1 ELSE Half)
      BY ONLY <1>1, <1>4, <1>5, <1>7, <1>21, <3>1
    <3>3. CASE pc' = "repop"
      <4>1. sept' = p /\ Len(H) - 1 < Half
        BY ONLY <1>18, <3>3
      <4>2. (p = root_sept \/ Len(G) = Half - 1) /\ Len(G) < Half /\ Len(G) # 0
        BY ONLY <1>9, <1>13, <2>1, <3>2, <4>1
      <4> QED BY ONLY <2>3, <3>1, <3>3, <4>1, <4>2
    <3>4. CASE pc' # "repop"
      <4>1. ~(Len(H) - 1 < Half)
        BY ONLY <1>18, <3>1, <3>4
      <4>2. Len(G) >= Half /\ Len(G) >= 1
        BY ONLY <1>9, <1>13, <2>1, <4>1
      <4> QED BY <3>1, <4>2 DEF Filled, num_vals
    <3> QED BY ONLY <3>3, <3>4
  <2>4. CASE q # l /\ q # p
    <3>1. q \in used /\ q # r /\ hn'[q] = hn[q]
      BY ONLY <1>17, <1>20, <2>4
    <3>2. Len(hn[q]) >= (IF q = root_sept THEN 1 ELSE Half)
      BY ONLY <1>4, <1>5, <2>4, <3>1
    <3>3. q = root_sept => q = root_sept'
      BY ONLY <1>8, <1>21, <2>4
    <3>4. q = root_sept' => q = root_sept
      BY ONLY <1>8, <2>4
    <3> QED BY <3>1, <3>2, <3>3, <3>4 DEF Filled, num_vals
  <2> QED BY ONLY <2>2, <2>3, <2>4
<1>43. OpInv'
  <2>1. pc' = "repop" => sept' \in used' /\ num_vals(sept)' < Half
    <3> SUFFICES ASSUME pc' = "repop" PROVE p \in used' /\ Len(hn'[p]) < Half /\ sept' = p
      BY DEF num_vals
    <3> QED BY ONLY <1>13, <1>17, <1>18, <1>20, pc' = "repop"
  <2> QED BY <1>18, <2>1 DEF OpInv, SearchInv, UpInv, SuccInv, FindInv, FindsMembers
<1> QED BY <1>19, <1>38, <1>40, <1>41, <1>42, <1>43

\* The place of the sept to be repopulated among its siblings.
LEMMA RepopPlace ==
    ASSUME TreeInv, pc = "repop", parent[sept] # Null, NEW p, NEW i, p = parent[sept], i = Index
    PROVE  /\ p \in used /\ Len(hn[p]) \in Nat /\ Len(kid[p]) = Len(hn[p]) + 1 /\ Len(hn[p]) >= 1
           /\ i \in 1..Len(kid[p]) /\ kid[p][i] = sept
           /\ IsFirst => kid[p][1] = sept /\ 1 \in 1..Len(hn[p])
           /\ ~IsFirst => i - 1 \in 1..Len(hn[p]) /\ (i - 1) + 1 = i /\ kid[p][(i - 1) + 1] = sept
<1> USE DEF TreeInv
<1>1. /\ p \in used /\ Len(kid[p]) = Len(hn[p]) + 1 /\ Len(hn[p]) >= 1
      /\ \E j \in 1..Len(kid[p]) : kid[p][j] = sept
  BY RepopFacts
<1>2. Len(hn[p]) \in Nat
  BY <1>1, SeptFacts
<1>3. i \in 1..Len(kid[p]) /\ kid[p][i] = sept
  BY <1>1, PositionFacts DEF Index
<1>4. IsFirst => kid[p][1] = sept
  BY DEF IsFirst
<1>5. ~IsFirst => i # 1
  BY <1>3 DEF IsFirst
<1>6. i # 1 => i - 1 \in 1..Len(hn[p]) /\ (i - 1) + 1 = i
  BY ONLY <1>1, <1>2, <1>3
<1>7. 1 \in 1..Len(hn[p])
  BY ONLY <1>1, <1>2
<1> QED BY ONLY <1>1, <1>2, <1>3, <1>4, <1>5, <1>6, <1>7

LEMMA MergeRightStep == ASSUME TreeInv, merge_right PROVE TreeInv' /\ Elements' = Elements
<1>1. PICK p, r, i : p = parent[sept] /\ r = kid[parent[sept]][2] /\ i = Index
  OBVIOUS
<1>2. /\ pc = "repop" /\ parent[sept] # Null /\ IsFirst /\ Len(hn[sept]) + Len(hn[r]) + 1 <= N
      /\ merge(sept, r, 1) /\ UNCHANGED <<counts, slots>> /\ UNCHANGED <<load, ops, stage>>
  BY <1>1 DEF merge_right, Underfull, At, slotVars, envVars, Fits, rsibling, num_vals
<1>3. /\ p \in used /\ Len(kid[p]) = Len(hn[p]) + 1 /\ kid[p][1] = sept /\ 1 \in 1..Len(hn[p])
  BY <1>1, <1>2, RepopPlace
<1>4. r = kid[p][1 + 1]
  BY <1>1
<1>5. MergeAs(p, 1, sept, r)
  BY ONLY <1>2, <1>3, <1>4 DEF MergeAs
<1> QED BY <1>5, MergeCore

LEMMA MergeLeftStep == ASSUME TreeInv, merge_left PROVE TreeInv' /\ Elements' = Elements
<1>1. PICK p, i : p = parent[sept] /\ i = Index
  OBVIOUS
<1>2. PICK x, l : x = i - 1 /\ l = kid[p][i - 1]
  OBVIOUS
<1>3. /\ pc = "repop" /\ parent[sept] # Null /\ ~IsFirst /\ Len(hn[l]) + Len(hn[sept]) + 1 <= N
      /\ merge(l, sept, x) /\ UNCHANGED <<counts, slots>> /\ UNCHANGED <<load, ops, stage>>
  BY <1>1, <1>2 DEF merge_left, Underfull, At, slotVars, envVars, Fits, lsibling, num_vals
<1>4. /\ p \in used /\ Len(kid[p]) = Len(hn[p]) + 1
      /\ i - 1 \in 1..Len(hn[p]) /\ kid[p][(i - 1) + 1] = sept
  BY <1>1, <1>3, RepopPlace
<1>5. MergeAs(p, x, l, sept)
  BY ONLY <1>2, <1>3, <1>4 DEF MergeAs
<1> QED BY <1>5, MergeCore

\* C and CK are the values and children of two siblings, with the value between them.
Joined(p, x, l, r, m, C, CK) ==
    /\ p \in used /\ x \in 1..Len(hn[p]) /\ Len(kid[p]) = Len(hn[p]) + 1
    /\ l = kid[p][x] /\ r = kid[p][x + 1] /\ m = hn[p][x]
    /\ C = hn[l] \o (<<m>> \o hn[r]) /\ CK = kid[l] \o kid[r]

LEMMA JoinedFacts ==
    ASSUME TypeOK, ShapeInv, ~Linking, NEW p, NEW x, NEW l, NEW r, NEW m, NEW C, NEW CK,
           Joined(p, x, l, r, m, C, CK)
    PROVE  /\ C \in Seq(Handles) /\ Len(C) = Len(hn[l]) + Len(hn[r]) + 1
           /\ Len(hn[l]) \in Nat /\ Len(hn[r]) \in Nat
           /\ \A j \in 1..Len(hn[l]) : C[j] = hn[l][j]
           /\ C[Len(hn[l]) + 1] = m
           /\ \A j \in 1..Len(hn[r]) : C[Len(hn[l]) + 1 + j] = hn[r][j]
           /\ CK \in Seq(Septs) /\ Len(CK) = Len(kid[l]) + Len(kid[r])
           /\ Len(kid[l]) \in Nat /\ Len(kid[r]) \in Nat
           /\ \A j \in 1..Len(kid[l]) : CK[j] = kid[l][j]
           /\ \A j \in 1..Len(kid[r]) : CK[Len(kid[l]) + j] = kid[r][j]
           /\ Spans(C, CK, lo[l], hi[r], height[l])
<1>1. PICK A, B, AK, BK : A = hn[l] /\ B = hn[r] /\ AK = kid[l] /\ BK = kid[r]
  OBVIOUS
<1>2. /\ p \in used /\ x \in 1..Len(hn[p]) /\ Len(kid[p]) = Len(hn[p]) + 1
      /\ l = kid[p][x] /\ r = kid[p][x + 1] /\ m = hn[p][x] /\ C = A \o (<<m>> \o B) /\ CK = AK \o BK
  BY <1>1 DEF Joined
<1>3. /\ l \in used /\ r \in used /\ l # r /\ height[r] = height[l]
      /\ m \in Handles /\ After(lo[l], m) /\ Before(m, hi[r]) /\ hi[l] = m /\ lo[r] = m
  BY <1>2, Siblings
<1>4. /\ A \in Seq(Handles) /\ AK \in Seq(Septs) /\ Len(A) \in Nat /\ Len(AK) \in Nat /\ lo[l] \in Handles \cup {NoHandle}
  BY <1>1, <1>3, SeptFacts
<1>5. /\ B \in Seq(Handles) /\ BK \in Seq(Septs) /\ Len(B) \in Nat /\ Len(BK) \in Nat /\ hi[r] \in Handles \cup {NoHandle}
  BY <1>1, <1>3, SeptFacts
<1>6. PICK hs : hs = <<m>> \o B
  OBVIOUS
<1>7. /\ hs \in Seq(Handles) /\ Len(hs) = Len(B) + 1 /\ hs[1] = m /\ \A j \in 1..Len(B) : hs[1 + j] = B[j]
  BY ONLY <1>3, <1>5, <1>6
<1>8. /\ A \in Seq(Handles) /\ hs \in Seq(Handles) /\ C = A \o hs
  BY ONLY <1>2, <1>4, <1>6, <1>7
<1>9. /\ C \in Seq(Handles) /\ Len(C) = Len(A) + Len(hs)
      /\ \A j \in 1..Len(A) : C[j] = A[j] /\ \A k \in 1..Len(hs) : C[Len(A) + k] = hs[k]
  BY ONLY <1>8, ConcatFacts
<1>10. \A k \in 1..Len(hs) : C[Len(A) + k] = hs[k]
  BY ONLY <1>8, ConcatFacts
<1>11. C[Len(A) + 1] = m
  <2>1. 1 \in 1..Len(hs)
    BY ONLY <1>5, <1>7
  <2> QED BY ONLY <1>7, <1>10, <2>1
<1>12. ASSUME NEW j \in 1..Len(B) PROVE C[Len(A) + 1 + j] = B[j]
  <2>1. PICK k : k = 1 + j
    OBVIOUS
  <2>2. k \in 1..Len(hs) /\ Len(A) + k = Len(A) + 1 + j
    BY ONLY <1>4, <1>5, <1>7, <2>1
  <2> QED BY ONLY <1>7, <1>10, <2>1, <2>2
<1>13. Len(C) = Len(A) + Len(B) + 1
  BY ONLY <1>4, <1>5, <1>7, <1>9
<1>14. AK \in Seq(Septs) /\ BK \in Seq(Septs) /\ CK = AK \o BK
  BY ONLY <1>2, <1>4, <1>5
<1>15. /\ CK \in Seq(Septs) /\ Len(CK) = Len(AK) + Len(BK)
       /\ \A j \in 1..Len(AK) : CK[j] = AK[j]
       /\ \A j \in 1..Len(BK) : CK[Len(AK) + j] = BK[j]
  BY ONLY <1>14, ConcatFacts
<1>16. Spans(C, CK, lo[l], hi[r], height[l])
  <2>1. Spans(A, AK, lo[l], m, height[l])
    BY <1>1, <1>3, OwnSpan
  <2>2. Spans(B, BK, m, hi[r], height[l])
    BY <1>1, <1>3, OwnSpan
  <2>3. PICK a, b \in Handles \cup {NoHandle} : a = lo[l] /\ b = hi[r]
    BY ONLY <1>4, <1>5
  <2>4. PICK ht : ht = height[l]
    OBVIOUS
  <2>5. /\ A \in Seq(Handles) /\ AK \in Seq(Septs) /\ B \in Seq(Handles) /\ BK \in Seq(Septs) /\ m \in Handles
        /\ After(a, m) /\ Before(m, b) /\ Spans(A, AK, a, m, ht) /\ Spans(B, BK, m, b, ht)
    BY ONLY <1>3, <1>4, <1>5, <2>1, <2>2, <2>3, <2>4
  <2>6. Spans(A \o (<<m>> \o B), AK \o BK, a, b, ht)
    BY ONLY <2>3, <2>5, JoinSpan
  <2> QED BY ONLY <1>2, <2>3, <2>4, <2>6
<1>17. \A j \in 1..Len(A) : C[j] = A[j]
  BY ONLY <1>8, ConcatFacts
<1> QED BY ONLY <1>1, <1>4, <1>5, <1>9, <1>11, <1>12, <1>13, <1>15, <1>16, <1>17

\* What the two siblings hold is what the joined sequences hold.
Holding(l, r, m, C, CK) ==
    /\ \A g : (\E c \in 1..Len(C) : C[c] = g)
                <=> \/ g = m \/ (\E i \in 1..Len(hn[l]) : hn[l][i] = g)
                    \/ \E i \in 1..Len(hn[r]) : hn[r][i] = g
    /\ \A q : (\E i \in 1..Len(kid[l]) : kid[l][i] = q) \/ (\E i \in 1..Len(kid[r]) : kid[r][i] = q)
                => \E c \in 1..Len(CK) : CK[c] = q

LEMMA JoinedHolds ==
    ASSUME TypeOK, ShapeInv, ~Linking, NEW p, NEW x, NEW l, NEW r, NEW m, NEW C, NEW CK,
           Joined(p, x, l, r, m, C, CK)
    PROVE  Holding(l, r, m, C, CK)
<1>1. PICK A, B, AK, BK : A = hn[l] /\ B = hn[r] /\ AK = kid[l] /\ BK = kid[r]
  OBVIOUS
<1>0. /\ C \in Seq(Handles) /\ Len(C) = Len(hn[l]) + Len(hn[r]) + 1
      /\ Len(hn[l]) \in Nat /\ Len(hn[r]) \in Nat
      /\ \A j \in 1..Len(hn[l]) : C[j] = hn[l][j]
      /\ C[Len(hn[l]) + 1] = m
      /\ \A j \in 1..Len(hn[r]) : C[Len(hn[l]) + 1 + j] = hn[r][j]
      /\ CK \in Seq(Septs) /\ Len(CK) = Len(kid[l]) + Len(kid[r])
      /\ Len(kid[l]) \in Nat /\ Len(kid[r]) \in Nat
      /\ \A j \in 1..Len(kid[l]) : CK[j] = kid[l][j]
      /\ \A j \in 1..Len(kid[r]) : CK[Len(kid[l]) + j] = kid[r][j]
      /\ Spans(C, CK, lo[l], hi[r], height[l])
  BY JoinedFacts, Zenon
<1>2. /\ Len(C) = Len(A) + Len(B) + 1 /\ Len(A) \in Nat /\ Len(B) \in Nat /\ Len(AK) \in Nat /\ Len(BK) \in Nat
      /\ Len(CK) = Len(AK) + Len(BK)
  BY ONLY <1>0, <1>1
<1>3. \A j \in 1..Len(A) : C[j] = A[j]
  BY ONLY <1>0, <1>1
<1>4. C[Len(A) + 1] = m /\ \A j \in 1..Len(B) : C[Len(A) + 1 + j] = B[j]
  BY ONLY <1>0, <1>1
<1>5. /\ \A j \in 1..Len(AK) : CK[j] = AK[j]
      /\ \A j \in 1..Len(BK) : CK[Len(AK) + j] = BK[j]
  BY ONLY <1>0, <1>1
<1>6. ASSUME NEW g, NEW c \in 1..Len(C), C[c] = g
      PROVE  \/ g = m \/ (\E i \in 1..Len(A) : A[i] = g) \/ \E i \in 1..Len(B) : B[i] = g
  <2>1. c <= Len(A) \/ c = Len(A) + 1 \/ c > Len(A) + 1
    BY ONLY <1>2
  <2>2. CASE c <= Len(A)
    <3>1. c \in 1..Len(A)
      BY ONLY <1>2, <2>2
    <3> QED BY ONLY <1>3, <1>6, <3>1
  <2>3. CASE c = Len(A) + 1
    BY ONLY <1>4, <1>6, <2>3
  <2>4. CASE c > Len(A) + 1
    <3>1. PICK i : i = c - Len(A) - 1
      OBVIOUS
    <3>2. i \in 1..Len(B) /\ Len(A) + 1 + i = c
      BY ONLY <1>2, <2>4, <3>1
    <3> QED BY ONLY <1>4, <1>6, <3>2
  <2> QED BY ONLY <2>1, <2>2, <2>3, <2>4
<1>7. ASSUME NEW g, \/ g = m \/ (\E i \in 1..Len(A) : A[i] = g) \/ \E i \in 1..Len(B) : B[i] = g
      PROVE  \E c \in 1..Len(C) : C[c] = g
  <2>1. CASE g = m
    <3>1. Len(A) + 1 \in 1..Len(C)
      BY ONLY <1>2
    <3> QED BY ONLY <1>4, <2>1, <3>1
  <2>2. CASE \E i \in 1..Len(A) : A[i] = g
    <3>1. PICK i \in 1..Len(A) : A[i] = g
      BY ONLY <2>2
    <3>2. i \in 1..Len(C)
      BY ONLY <1>2
    <3> QED BY ONLY <1>3, <3>1, <3>2
  <2>3. CASE \E i \in 1..Len(B) : B[i] = g
    <3>1. PICK i \in 1..Len(B) : B[i] = g
      BY ONLY <2>3
    <3>2. Len(A) + 1 + i \in 1..Len(C)
      BY ONLY <1>2
    <3> QED BY ONLY <1>4, <3>1, <3>2
  <2> QED BY ONLY <1>7, <2>1, <2>2, <2>3
<1>8. ASSUME NEW q, NEW i \in 1..Len(AK), AK[i] = q PROVE \E c \in 1..Len(CK) : CK[c] = q
  <2>1. i \in 1..Len(CK)
    BY ONLY <1>2
  <2> QED BY ONLY <1>5, <1>8, <2>1
<1>9. ASSUME NEW q, NEW i \in 1..Len(BK), BK[i] = q PROVE \E c \in 1..Len(CK) : CK[c] = q
  <2>1. Len(AK) + i \in 1..Len(CK)
    BY ONLY <1>2
  <2> QED BY ONLY <1>5, <1>9, <2>1
<1>10. \A g : (\E c \in 1..Len(C) : C[c] = g)
                <=> \/ g = m \/ (\E i \in 1..Len(A) : A[i] = g) \/ \E i \in 1..Len(B) : B[i] = g
  BY ONLY <1>6, <1>7
<1>11. \A q : (\E i \in 1..Len(AK) : AK[i] = q) \/ (\E i \in 1..Len(BK) : BK[i] = q)
                => \E c \in 1..Len(CK) : CK[c] = q
  BY ONLY <1>8, <1>9
<1> QED BY ONLY <1>1, <1>10, <1>11 DEF Holding

\* What two siblings hold with the value m between them, C and CK, is divided anew at t:
\* A and AK remain on the left, B and BK on the right, and up goes between them.
BorrowAs(p, x, l, r, m, C, CK, t, up, A, AK, B, BK) ==
    /\ pc = "repop" /\ parent[sept] # Null /\ sept \in {l, r} /\ Joined(p, x, l, r, m, C, CK)
    /\ t \in 1..Len(C) /\ up = C[t] /\ up # m
    /\ IsLow(A, AK, C, CK, t, height[l]) /\ IsHigh(B, BK, C, CK, t, height[l])
    /\ Len(A) >= Half /\ Len(A) <= N /\ Len(B) >= Half /\ Len(B) <= N
    /\ hn' \in [Addresses -> Seq(Handles)] /\ kid' \in [Addresses -> Seq(Septs)]
    /\ hn'[l] = A /\ hn'[r] = B /\ hn'[p] = [hn[p] EXCEPT ![x] = up] /\ kid'[l] = AK /\ kid'[r] = BK
    /\ \A q \in used : q \notin {l, r} => (q # p => hn'[q] = hn[q]) /\ kid'[q] = kid[q]
    /\ hp' = [hp EXCEPT ![m] = sept, ![up] = p]
    /\ parent' \in [Addresses -> Septs \cup {Null}]
    /\ \A j \in 1..Len(AK) : parent'[AK[j]] = l
    /\ \A j \in 1..Len(BK) : parent'[BK[j]] = r
    /\ \A q \in used : parent[q] \notin {l, r} => parent'[q] = parent[q]
    /\ lo' = [lo EXCEPT ![r] = up] /\ hi' = [hi EXCEPT ![l] = up]
    /\ (\A j \in 1..Len(A) : hp'[A[j]] = l) /\ \A j \in 1..Len(B) : hp'[B[j]] = r
    /\ Done /\ UNCHANGED <<used, height, root_sept, left_sept, sn_reserve>>
    /\ UNCHANGED <<counts, slots>> /\ UNCHANGED <<load, ops, stage>>

LEMMA BorrowCore ==
    ASSUME TreeInv, NEW p, NEW x, NEW l, NEW r, NEW m, NEW C, NEW CK, NEW t, NEW up,
           NEW A, NEW AK, NEW B, NEW BK, BorrowAs(p, x, l, r, m, C, CK, t, up, A, AK, B, BK)
    PROVE  TreeInv' /\ Elements' = Elements
<1> USE DEF TreeInv
<1>1. PICK H, K : H = hn[p] /\ K = kid[p]
  OBVIOUS
<1>2. /\ pc = "repop" /\ parent[sept] # Null /\ sept \in {l, r} /\ Joined(p, x, l, r, m, C, CK)
      /\ t \in 1..Len(C) /\ up = C[t] /\ up # m
      /\ IsLow(A, AK, C, CK, t, height[l]) /\ IsHigh(B, BK, C, CK, t, height[l])
      /\ Len(A) >= Half /\ Len(A) <= N /\ Len(B) >= Half /\ Len(B) <= N
  BY DEF BorrowAs
<1>3. /\ hn' \in [Addresses -> Seq(Handles)] /\ kid' \in [Addresses -> Seq(Septs)]
      /\ hn'[l] = A /\ hn'[r] = B /\ hn'[p] = [H EXCEPT ![x] = up] /\ kid'[l] = AK /\ kid'[r] = BK
      /\ \A q \in used : q \notin {l, r} => (q # p => hn'[q] = hn[q]) /\ kid'[q] = kid[q]
  BY <1>1 DEF BorrowAs
<1>4. /\ hp' = [hp EXCEPT ![m] = sept, ![up] = p]
      /\ parent' \in [Addresses -> Septs \cup {Null}]
      /\ \A j \in 1..Len(AK) : parent'[AK[j]] = l
      /\ \A j \in 1..Len(BK) : parent'[BK[j]] = r
      /\ \A q \in used : parent[q] \notin {l, r} => parent'[q] = parent[q]
      /\ lo' = [lo EXCEPT ![r] = up] /\ hi' = [hi EXCEPT ![l] = up]
      /\ (\A j \in 1..Len(A) : hp'[A[j]] = l) /\ \A j \in 1..Len(B) : hp'[B[j]] = r
  BY DEF BorrowAs
<1>5. /\ UNCHANGED <<used, height, root_sept, left_sept, sn_reserve>>
      /\ UNCHANGED <<counts, slots>> /\ UNCHANGED <<load, ops, stage>>
      /\ pc' = "idle" /\ sept' = Null /\ hndl_p' = NoHandle /\ pval' = 0
      /\ min' = 0 /\ max' = 0 /\ left_down' = Null /\ right_down' = Null
  BY DEF BorrowAs, Done
<1>6. /\ sept \in used /\ left_down = Null /\ ~Linking /\ stage # "gone"
      /\ \A q \in used : q # sept => Len(hn[q]) >= (IF q = root_sept THEN 1 ELSE Half)
  BY <1>2, RepopFacts
<1>7. /\ p \in used /\ x \in 1..Len(H) /\ Len(K) = Len(H) + 1 /\ l = K[x] /\ r = K[x + 1] /\ m = H[x]
  BY <1>1, <1>2 DEF Joined
<1>8. /\ l \in used /\ r \in used /\ l # r /\ l # p /\ r # p /\ l # root_sept /\ r # root_sept
      /\ parent[l] = p /\ parent[r] = p /\ height[l] \in Nat /\ height[r] = height[l] /\ height[p] = height[l] + 1
      /\ m \in Handles /\ hp[m] = p
      /\ lo[l] = (IF x = 1 THEN lo[p] ELSE H[x - 1]) /\ hi[l] = m
      /\ lo[r] = m /\ hi[r] = (IF x + 1 = Len(K) THEN hi[p] ELSE H[x + 1])
  BY <1>1, <1>6, <1>7, Siblings
<1>9. C \in Seq(Handles) /\ CK \in Seq(Septs) /\ Spans(C, CK, lo[l], hi[r], height[l]) /\ Len(C) \in Nat
  <2>1. C \in Seq(Handles) /\ CK \in Seq(Septs) /\ Spans(C, CK, lo[l], hi[r], height[l])
    BY <1>2, <1>6, JoinedFacts
  <2> QED BY ONLY <2>1
<1>10. /\ \A g : (\E c \in 1..Len(C) : C[c] = g)
                   <=> \/ g = m \/ (\E i \in 1..Len(hn[l]) : hn[l][i] = g)
                       \/ \E i \in 1..Len(hn[r]) : hn[r][i] = g
       /\ \A q : (\E i \in 1..Len(kid[l]) : kid[l][i] = q) \/ (\E i \in 1..Len(kid[r]) : kid[r][i] = q)
                   => \E c \in 1..Len(CK) : CK[c] = q
  <2>1. TypeOK /\ ShapeInv /\ ~Linking /\ Joined(p, x, l, r, m, C, CK)
    BY <1>2, <1>6
  <2>2. Holding(l, r, m, C, CK)
    BY ONLY <2>1, JoinedHolds
  <2> QED BY ONLY <2>2 DEF Holding
<1>11. /\ A \in Seq(Handles) /\ AK \in Seq(Septs) /\ Len(A) = t - 1 /\ \A j \in 1..(t - 1) : A[j] = C[j]
       /\ (height[l] = 0 => AK = << >>) /\ (height[l] # 0 => Len(AK) = t /\ \A j \in 1..t : AK[j] = CK[j])
  BY ONLY <1>2 DEF IsLow
<1>12. /\ B \in Seq(Handles) /\ BK \in Seq(Septs) /\ Len(B) = Len(C) - t /\ \A j \in 1..(Len(C) - t) : B[j] = C[t + j]
       /\ (height[l] = 0 => BK = << >>)
       /\ (height[l] # 0 => Len(BK) = Len(CK) - t /\ \A j \in 1..(Len(CK) - t) : BK[j] = CK[t + j])
  BY ONLY <1>2 DEF IsHigh
<1>13. Spans(A, AK, lo[l], up, height[l]) /\ Spans(B, BK, up, hi[r], height[l])
  <2>1. PICK a, b, ht : a = lo[l] /\ b = hi[r] /\ ht = height[l]
    OBVIOUS
  <2>2. /\ C \in Seq(Handles) /\ CK \in Seq(Septs) /\ Spans(C, CK, a, b, ht) /\ t \in 1..Len(C)
        /\ IsLow(A, AK, C, CK, t, ht) /\ IsHigh(B, BK, C, CK, t, ht)
    BY ONLY <1>2, <1>9, <2>1
  <2>3. Spans(A, AK, a, C[t], ht)
    BY ONLY <2>2, LowSpan
  <2>4. Spans(B, BK, C[t], b, ht)
    BY ONLY <2>2, HighSpan
  <2> QED BY ONLY <1>2, <2>1, <2>3, <2>4
<1>14. up \in Handles /\ After(lo[l], up) /\ Before(up, hi[r])
  <2>1. up \in Handles
    BY ONLY <1>2, <1>9
  <2>2. \A c \in 1..Len(C) : After(lo[l], C[c]) /\ Before(C[c], hi[r])
    BY ONLY <1>9 DEF Spans, Between
  <2> QED BY ONLY <1>2, <2>1, <2>2
<1>15. /\ H \in Seq(Handles) /\ K \in Seq(Septs) /\ Len(H) \in Nat /\ Len(H) <= N
       /\ p \in Septs /\ l \in Septs /\ r \in Septs /\ p \in Addresses /\ l \in Addresses /\ r \in Addresses
       /\ lo[p] \in Handles \cup {NoHandle} /\ hi[p] \in Handles \cup {NoHandle}
  <2>1. l \in Septs /\ l \in Addresses /\ r \in Septs /\ r \in Addresses
    BY <1>8, SeptFacts
  <2> QED BY <1>1, <1>7, <2>1, SeptFacts
<1>16. hp[up] \in {l, r} /\ up \in Members
  <2>1. \/ \E i \in 1..Len(hn[l]) : hn[l][i] = up
        \/ \E i \in 1..Len(hn[r]) : hn[r][i] = up
    BY ONLY <1>2, <1>10
  <2>2. up \in Members
    BY <1>8, <2>1, MemberFacts
  <2>3. \A i \in 1..Len(hn[l]) : hp[hn[l][i]] = l
    BY <1>8, ValueFacts
  <2>4. \A i \in 1..Len(hn[r]) : hp[hn[r][i]] = r
    BY <1>8, ValueFacts
  <2> QED BY ONLY <2>1, <2>2, <2>3, <2>4
<1>17. /\ hp \in [Handles -> Septs \cup {Null}] /\ lo \in [Addresses -> Handles \cup {NoHandle}]
       /\ hi \in [Addresses -> Handles \cup {NoHandle}] /\ sept \in Septs
  BY <1>6, SeptFacts DEF TypeOK
<1>18. /\ hp'[m] = sept /\ hp'[up] = p /\ \A g \in Handles : g # m /\ g # up => hp'[g] = hp[g]
  BY ONLY <1>2, <1>4, <1>8, <1>14, <1>17
<1>19. /\ lo'[r] = up /\ hi'[l] = up /\ (\A q \in used : q # r => lo'[q] = lo[q])
       /\ \A q \in used : q # l => hi'[q] = hi[q]
  <2>1. \A q \in used : q \in Addresses
    BY SeptFacts
  <2> QED BY ONLY <1>4, <1>15, <1>17, <2>1
<1>20. PICK G : G = [H EXCEPT ![x] = up]
  OBVIOUS
<1>21. G \in Seq(Handles) /\ Len(G) = Len(H) /\ hn'[p] = G /\ \A j \in 1..Len(H) : G[j] = IF j = x THEN up ELSE H[j]
  BY ONLY <1>3, <1>7, <1>14, <1>15, <1>20
<1>22. TypeOK'
  <2>1. hp' \in [Handles -> Septs \cup {Null}]
    BY ONLY <1>4, <1>15, <1>17
  <2>2. lo' \in [Addresses -> Handles \cup {NoHandle}] /\ hi' \in [Addresses -> Handles \cup {NoHandle}]
    BY ONLY <1>4, <1>14, <1>17
  <2>3. /\ pc' \in PCs /\ sept' \in Septs \cup {Null} /\ hndl_p' \in Handles \cup {NoHandle}
        /\ pval' \in Int /\ min' \in Int /\ max' \in Int
        /\ left_down' \in Septs \cup {Null} /\ right_down' \in Septs \cup {Null}
    BY ONLY <1>5 DEF PCs
  <2> QED BY <1>3, <1>4, <1>5, <2>1, <2>2, <2>3 DEF TypeOK
<1>23. ~Linking'
  BY ONLY <1>5 DEF Linking
<1>24. ASSUME NEW k \in used, height[l] = height[k] + 1
       PROVE  /\ k \notin {l, r, p} /\ k \in used' /\ lo'[k] = lo[k] /\ hi'[k] = hi[k] /\ height'[k] = height[k]
              /\ hi'[IF Linking' /\ k = left_down' THEN right_down' ELSE k] = hi[k]
  <2>1. height[k] \in Nat
    BY SeptFacts
  <2>2. k \notin {l, r, p}
    BY ONLY <1>8, <1>24, <2>1
  <2> QED BY ONLY <1>5, <1>19, <1>23, <2>2, k \in used
<1>25. ASSUME NEW j \in 1..Len(AK) PROVE AK[j] \in used /\ height[l] = height[AK[j]] + 1
  <2>1. height[l] # 0
    BY ONLY <1>11, <1>25
  <2>2. \A i \in 1..Len(AK) : AK[i] \in used /\ height[AK[i]] = height[l] - 1
    BY ONLY <1>13, <2>1 DEF Spans
  <2>3. height[AK[j]] = height[l] - 1 => height[l] = height[AK[j]] + 1
    BY ONLY <1>8
  <2> QED BY ONLY <1>25, <2>2, <2>3
<1>26. ASSUME NEW j \in 1..Len(BK) PROVE BK[j] \in used /\ height[l] = height[BK[j]] + 1
  <2>1. height[l] # 0
    BY ONLY <1>12, <1>26
  <2>2. \A i \in 1..Len(BK) : BK[i] \in used /\ height[BK[i]] = height[l] - 1
    BY ONLY <1>13, <2>1 DEF Spans
  <2>3. height[BK[j]] = height[l] - 1 => height[l] = height[BK[j]] + 1
    BY ONLY <1>8
  <2> QED BY ONLY <1>26, <2>2, <2>3
<1>27. SeptInOrder(l)' /\ ChildrenAgree(l)'
  <2>1. \A j \in 1..Len(AK) :
         /\ AK[j] \in used' /\ parent'[AK[j]] = l /\ height'[AK[j]] = height[AK[j]]
         /\ lo'[AK[j]] = lo[AK[j]]
         /\ hi'[IF Linking' /\ AK[j] = left_down' THEN right_down' ELSE AK[j]] = hi[AK[j]]
    BY ONLY <1>4, <1>24, <1>25
  <2>2. lo'[l] = lo[l] /\ hi'[l] = up /\ height'[l] = height[l]
    BY ONLY <1>5, <1>8, <1>19
  <2>3. Receives(l, A, AK, lo[l], up, height[l])
    BY ONLY <1>2, <1>3, <1>4, <1>8, <1>11, <1>13, <2>1, <2>2 DEF Receives
  <2> QED BY <2>3, Installed
<1>28. SeptInOrder(r)' /\ ChildrenAgree(r)'
  <2>1. \A j \in 1..Len(BK) :
         /\ BK[j] \in used' /\ parent'[BK[j]] = r /\ height'[BK[j]] = height[BK[j]]
         /\ lo'[BK[j]] = lo[BK[j]]
         /\ hi'[IF Linking' /\ BK[j] = left_down' THEN right_down' ELSE BK[j]] = hi[BK[j]]
    BY ONLY <1>4, <1>24, <1>26
  <2>2. lo'[r] = up /\ hi'[r] = hi[r] /\ height'[r] = height[l]
    BY ONLY <1>5, <1>8, <1>19
  <2>3. Receives(r, B, BK, up, hi[r], height[l])
    BY ONLY <1>2, <1>3, <1>4, <1>8, <1>12, <1>13, <2>1, <2>2 DEF Receives
  <2> QED BY <2>3, Installed
<1>29. ASSUME NEW q \in used, q # l, q # p, q # r PROVE SeptInOrder(q)' /\ ChildrenAgree(q)'
  <2>1. /\ hn[q] \in Seq(Handles) /\ kid[q] \in Seq(Septs) /\ Len(hn[q]) <= N /\ height[q] \in Nat
    BY SeptFacts
  <2>2. Spans(hn[q], kid[q], lo[q], hi[q], height[q])
    BY <1>6, OwnSpan
  <2>3. \A j \in 1..Len(hn[q]) : hp'[hn[q][j]] = q
    <3>1. \A j \in 1..Len(hn[q]) : hn[q][j] \in Handles /\ hp[hn[q][j]] = q
      BY ValueFacts
    <3> QED BY ONLY <1>8, <1>16, <1>18, <1>29, <3>1
  <2>4. ASSUME NEW j \in 1..Len(kid[q])
        PROVE  /\ kid[q][j] \in used' /\ parent'[kid[q][j]] = q /\ height'[kid[q][j]] = height[kid[q][j]]
               /\ lo'[kid[q][j]] = lo[kid[q][j]]
               /\ hi'[IF Linking' /\ kid[q][j] = left_down' THEN right_down' ELSE kid[q][j]] = hi[kid[q][j]]
    <3>1. PICK k : k = kid[q][j]
      OBVIOUS
    <3>2. k \in used /\ parent[k] = q
      BY <3>1, KidFacts
    <3>3. k # l /\ k # r /\ parent'[k] = q
      BY ONLY <1>4, <1>8, <1>29, <3>2
    <3> QED BY ONLY <1>5, <1>19, <1>23, <3>1, <3>2, <3>3
  <2>5. hn'[q] = hn[q] /\ kid'[q] = kid[q] /\ lo'[q] = lo[q] /\ hi'[q] = hi[q] /\ height'[q] = height[q]
    BY ONLY <1>3, <1>5, <1>19, <1>29
  <2>6. Receives(q, hn[q], kid[q], lo[q], hi[q], height[q])
    BY ONLY <2>1, <2>2, <2>3, <2>4, <2>5 DEF Receives
  <2> QED BY <2>6, Installed
<1>30. /\ \A j \in 1..Len(H) : H[j] \in Handles /\ Key[H[j]] \in Int /\ hp[H[j]] = p /\ After(lo[p], H[j]) /\ Before(H[j], hi[p])
       /\ \A i, j \in 1..Len(H) : i < j => Key[H[i]] < Key[H[j]]
  BY <1>1, <1>7, ValueFacts
<1>31. Key[up] \in Int /\ \A g \in Handles : Key[g] \in Int
  BY <1>14, OrderAssumption
<1>32. \A j \in 1..Len(H) : (j < x => Key[H[j]] < Key[up]) /\ (x < j => Key[up] < Key[H[j]])
  <2>1. NoHandle \notin Handles
    BY OrderAssumption
  <2> SUFFICES ASSUME NEW j \in 1..Len(H)
               PROVE  (j < x => Key[H[j]] < Key[up]) /\ (x < j => Key[up] < Key[H[j]])
    OBVIOUS
  <2>2. ASSUME j < x PROVE Key[H[j]] < Key[up]
    <3>1. PICK y : y = x - 1
      OBVIOUS
    <3>2. y \in 1..Len(H) /\ x # 1 /\ (j = y \/ j < y)
      BY ONLY <1>7, <1>15, <2>2, <3>1
    <3>3. lo[l] = H[y]
      BY ONLY <1>8, <3>1, <3>2
    <3>4. Key[H[y]] < Key[up]
      BY ONLY <1>14, <1>30, <2>1, <3>2, <3>3 DEF After
    <3>5. j < y => Key[H[j]] < Key[H[y]]
      BY ONLY <1>30, <3>2
    <3>6. Key[H[j]] \in Int /\ Key[H[y]] \in Int
      BY ONLY <1>30, <3>2
    <3> QED BY ONLY <1>31, <3>2, <3>4, <3>5, <3>6
  <2>3. ASSUME x < j PROVE Key[up] < Key[H[j]]
    <3>1. PICK y : y = x + 1
      OBVIOUS
    <3>2. y \in 1..Len(H) /\ x + 1 # Len(K) /\ (j = y \/ y < j)
      BY ONLY <1>7, <1>15, <2>3, <3>1
    <3>3. hi[r] = H[y]
      BY ONLY <1>8, <3>1, <3>2
    <3>4. Key[up] < Key[H[y]]
      BY ONLY <1>14, <1>30, <2>1, <3>2, <3>3 DEF Before
    <3>5. y < j => Key[H[y]] < Key[H[j]]
      BY ONLY <1>30, <3>2
    <3>6. Key[H[j]] \in Int /\ Key[H[y]] \in Int
      BY ONLY <1>30, <3>2
    <3> QED BY ONLY <1>31, <3>2, <3>4, <3>5, <3>6
  <2> QED BY ONLY <2>2, <2>3
<1>33. After(lo[p], up) /\ Before(up, hi[p])
  <2>1. After(lo[p], up)
    <3>1. CASE x = 1
      BY ONLY <1>8, <1>14, <3>1
    <3>2. CASE x # 1
      <4>1. 1 \in 1..Len(H) /\ 1 < x
        BY ONLY <1>7, <1>15, <3>2
      <4>2. After(lo[p], H[1]) /\ Key[H[1]] < Key[up] /\ Key[H[1]] \in Int
        BY ONLY <1>30, <1>32, <4>1
      <4>3. lo[p] # NoHandle => Key[lo[p]] < Key[up]
        BY ONLY <1>15, <1>31, <4>2 DEF After
      <4> QED BY ONLY <4>3 DEF After
    <3> QED BY ONLY <3>1, <3>2
  <2>2. Before(up, hi[p])
    <3>1. CASE x + 1 = Len(K)
      BY ONLY <1>8, <1>14, <3>1
    <3>2. CASE x + 1 # Len(K)
      <4>1. PICK y : y = Len(H)
        OBVIOUS
      <4>2. y \in 1..Len(H) /\ x < y
        BY ONLY <1>7, <1>15, <3>2, <4>1
      <4>3. Before(H[y], hi[p]) /\ Key[up] < Key[H[y]] /\ Key[H[y]] \in Int
        BY ONLY <1>30, <1>32, <4>2
      <4>4. hi[p] # NoHandle => Key[up] < Key[hi[p]]
        BY ONLY <1>15, <1>31, <4>3 DEF Before
      <4> QED BY ONLY <4>4 DEF Before
    <3> QED BY ONLY <3>1, <3>2
  <2> QED BY ONLY <2>1, <2>2
<1>34. Between(G, lo[p], hi[p])
  <2>1. ASSUME NEW i \in 1..Len(H), NEW j \in 1..Len(H), i < j PROVE Key[G[i]] < Key[G[j]]
    <3>1. CASE i = x
      <4>1. G[i] = up /\ G[j] = H[j] /\ x < j
        BY ONLY <1>21, <2>1, <3>1
      <4> QED BY ONLY <1>32, <4>1
    <3>2. CASE j = x
      <4>1. G[i] = H[i] /\ G[j] = up /\ i < x
        BY ONLY <1>21, <2>1, <3>2
      <4> QED BY ONLY <1>32, <4>1
    <3>3. CASE i # x /\ j # x
      BY ONLY <1>21, <1>30, <2>1, <3>3
    <3> QED BY ONLY <3>1, <3>2, <3>3
  <2>2. ASSUME NEW i \in 1..Len(H) PROVE After(lo[p], G[i]) /\ Before(G[i], hi[p])
    BY ONLY <1>21, <1>30, <1>33
  <2> QED BY ONLY <1>21, <2>1, <2>2 DEF Between
<1>35. \A j \in 1..Len(K) : /\ K[j] \in used /\ parent[K[j]] = p /\ height[p] = height[K[j]] + 1
                            /\ lo[K[j]] = (IF j = 1 THEN lo[p] ELSE H[j - 1])
                            /\ hi[K[j]] = (IF j = Len(K) THEN hi[p] ELSE H[j])
                            /\ (j # x => K[j] # l) /\ (j # x + 1 => K[j] # r)
  <2> SUFFICES ASSUME NEW j \in 1..Len(K)
               PROVE  /\ K[j] \in used /\ parent[K[j]] = p /\ height[p] = height[K[j]] + 1
                      /\ lo[K[j]] = (IF j = 1 THEN lo[p] ELSE H[j - 1])
                      /\ hi[K[j]] = (IF j = Len(K) THEN hi[p] ELSE H[j])
                      /\ (j # x => K[j] # l) /\ (j # x + 1 => K[j] # r)
    OBVIOUS
  <2>1. /\ K[j] \in used /\ parent[K[j]] = p /\ height[p] = height[K[j]] + 1
        /\ lo[K[j]] = LeftOf(p, j) /\ hi[UpTo(K[j])] = RightOf(p, j)
    BY <1>1, <1>7, KidFacts
  <2>2. /\ lo[K[j]] = (IF j = 1 THEN lo[p] ELSE H[j - 1])
        /\ hi[K[j]] = (IF j = Len(K) THEN hi[p] ELSE H[j])
    BY ONLY <1>1, <1>6, <2>1 DEF LeftOf, RightOf, UpTo
  <2>3. \A i, k \in 1..Len(K) : i < k => K[i] # K[k]
    BY <1>1, <1>7, KidsDistinct
  <2>4. PICK y : y = x + 1
    OBVIOUS
  <2>5. x \in 1..Len(K) /\ y \in 1..Len(K) /\ (j # x => j < x \/ x < j) /\ (j # y => j < y \/ y < j)
    BY ONLY <1>7, <1>15, <2>4
  <2>6. (j # x => K[j] # l) /\ (j # y => K[j] # r)
    BY ONLY <1>7, <2>3, <2>4, <2>5
  <2> QED BY ONLY <2>1, <2>2, <2>4, <2>6
<1>36. SeptInOrder(p)' /\ ChildrenAgree(p)'
  <2>1. hn'[p] = G /\ kid'[p] = K /\ lo'[p] = lo[p] /\ hi'[p] = hi[p] /\ height'[p] = height[p]
    BY ONLY <1>1, <1>3, <1>5, <1>7, <1>8, <1>19, <1>21
  <2>2. \A j \in 1..Len(G) : hp'[G[j]] = p
    <3>1. ASSUME NEW j \in 1..Len(H) PROVE hp'[G[j]] = p
      <4>1. CASE j = x
        BY ONLY <1>18, <1>21, <4>1
      <4>2. CASE j # x
        <5>1. j < x \/ x < j
          BY ONLY <1>7, <4>2, <1>15
        <5>2. H[j] # m
          BY ONLY <1>7, <1>30, <5>1
        <5>3. H[j] # up
          BY ONLY <1>8, <1>16, <1>30
        <5> QED BY ONLY <1>18, <1>21, <1>30, <4>2, <5>2, <5>3
      <4> QED BY ONLY <4>1, <4>2
    <3> QED BY ONLY <1>21, <3>1
  <2>3. ASSUME NEW j \in 1..Len(K)
        PROVE  /\ K[j] \in used' /\ parent'[K[j]] = p /\ height'[K[j]] = height'[p] - 1
               /\ lo'[K[j]] = (IF j = 1 THEN lo'[p] ELSE G[j - 1])
               /\ hi'[IF Linking' /\ K[j] = left_down' THEN right_down' ELSE K[j]]
                    = (IF j = Len(K) THEN hi'[p] ELSE G[j])
    <3>1. PICK k : k = K[j]
      OBVIOUS
    <3>2. /\ k \in used /\ parent[k] = p /\ height[p] = height[k] + 1
          /\ lo[k] = (IF j = 1 THEN lo[p] ELSE H[j - 1]) /\ hi[k] = (IF j = Len(K) THEN hi[p] ELSE H[j])
          /\ (j # x => k # l) /\ (j # x + 1 => k # r)
      BY ONLY <1>35, <3>1
    <3>3. height[k] \in Nat
      BY <3>2, SeptFacts
    <3>4. parent'[k] = p /\ height'[k] = height'[p] - 1 /\ k \in used'
      <4>1. parent'[k] = p
        BY ONLY <1>4, <1>8, <3>2
      <4> QED BY ONLY <1>5, <3>2, <3>3, <4>1
    <3>5. lo'[k] = (IF j = 1 THEN lo'[p] ELSE G[j - 1])
      <4>1. CASE j = x + 1
        <5>1. j # 1 /\ j - 1 = x /\ k = r
          BY ONLY <1>7, <3>1, <4>1
        <5>2. G[x] = up
          BY ONLY <1>7, <1>21
        <5> QED BY ONLY <1>19, <5>1, <5>2
      <4>2. CASE j # x + 1
        <5>1. j # 1 => j - 1 \in 1..Len(H) /\ j - 1 # x
          BY ONLY <1>7, <1>15, <4>2
        <5>2. j # 1 => G[j - 1] = H[j - 1]
          BY ONLY <1>21, <5>1
        <5> QED BY ONLY <1>19, <2>1, <3>2, <4>2, <5>2
      <4> QED BY ONLY <4>1, <4>2
    <3>6. hi'[k] = (IF j = Len(K) THEN hi'[p] ELSE G[j])
      <4>1. CASE j = x
        <5>1. j # Len(K) /\ k = l
          BY ONLY <1>7, <1>15, <3>1, <4>1
        <5>2. G[x] = up
          BY ONLY <1>7, <1>21
        <5> QED BY ONLY <1>19, <4>1, <5>1, <5>2
      <4>2. CASE j # x
        <5>1. j # Len(K) => j \in 1..Len(H)
          BY ONLY <1>7, <1>15
        <5>2. j # Len(K) => G[j] = H[j]
          BY ONLY <1>21, <4>2, <5>1
        <5> QED BY ONLY <1>19, <2>1, <3>2, <4>2, <5>2
      <4> QED BY ONLY <4>1, <4>2
    <3> QED BY ONLY <1>23, <3>1, <3>4, <3>5, <3>6
  <2>4. height[p] # 0 /\ Len(K) # 0
    BY ONLY <1>7, <1>8, <1>15
  <2>5. /\ hn'[p] \in Seq(Handles) /\ kid'[p] \in Seq(Septs) /\ Between(hn'[p], lo'[p], hi'[p]) /\ Len(hn'[p]) <= N
        /\ (height'[p] = 0 <=> kid'[p] = << >>) /\ (height'[p] # 0 => Len(kid'[p]) = Len(hn'[p]) + 1)
    BY ONLY <1>7, <1>15, <1>21, <1>34, <2>1, <2>4
  <2>6. \A j \in 1..Len(hn'[p]) : hp'[hn'[p][j]] = p
    BY ONLY <2>1, <2>2
  <2>7. \A j \in 1..Len(kid'[p]) :
          /\ kid'[p][j] \in used' /\ parent'[kid'[p][j]] = p /\ height'[kid'[p][j]] = height'[p] - 1
          /\ lo'[kid'[p][j]] = (IF j = 1 THEN lo'[p] ELSE hn'[p][j - 1])
          /\ hi'[IF Linking' /\ kid'[p][j] = left_down' THEN right_down' ELSE kid'[p][j]]
               = (IF j = Len(kid'[p]) THEN hi'[p] ELSE hn'[p][j])
    BY ONLY <2>1, <2>3
  <2> QED BY ONLY <2>5, <2>6, <2>7, Becomes
<1>37. ASSUME NEW q \in used PROVE SeptInOrder(q)' /\ ChildrenAgree(q)'
  BY ONLY <1>27, <1>28, <1>29, <1>36, <1>37
<1>38. ASSUME NEW q \in used, q # root_sept
       PROVE  /\ parent'[q] \in used' /\ height[q] < height[root_sept]
              /\ \E i \in 1..Len(kid'[parent'[q]]) : kid'[parent'[q]][i] = q
  <2>1. PICK y : y = parent[q]
    OBVIOUS
  <2>2. /\ y \in used /\ height[q] < height[root_sept] /\ height[y] = height[q] + 1
        /\ \E i \in 1..Len(kid[y]) : kid[y][i] = q
    BY <1>6, <1>38, <2>1, ParentFacts
  <2>3. CASE y \notin {l, r}
    <3>1. parent'[q] = y /\ kid'[y] = kid[y]
      BY ONLY <1>3, <1>4, <2>1, <2>2, <2>3, q \in used
    <3> QED BY ONLY <1>5, <2>2, <3>1
  <2>4. CASE y \in {l, r}
    <3>1. PICK c \in 1..Len(CK) : CK[c] = q
      BY ONLY <1>10, <2>2, <2>4
    <3>2. height[l] # 0 /\ Len(CK) \in Nat
      <4>1. height[q] \in Nat
        BY SeptFacts
      <4> QED BY ONLY <1>8, <1>9, <2>2, <2>4, <4>1
    <3>3. CASE c <= t
      <4>1. c \in 1..t
        BY ONLY <1>2, <3>1, <3>3, <3>2
      <4>2. c \in 1..Len(AK) /\ AK[c] = q
        BY ONLY <1>11, <3>1, <3>2, <4>1
      <4>3. parent'[q] = l
        BY ONLY <1>4, <4>2
      <4> QED BY ONLY <1>3, <1>5, <1>8, <2>2, <4>2, <4>3
    <3>4. CASE ~(c <= t)
      <4>1. PICK j : j = c - t
        OBVIOUS
      <4>2. t \in Nat
        BY ONLY <1>2, <1>9
      <4>3. j \in 1..(Len(CK) - t) /\ t + j = c
        BY ONLY <3>1, <3>2, <3>4, <4>1, <4>2
      <4>4. j \in 1..Len(BK) /\ BK[j] = q
        BY ONLY <1>12, <3>1, <3>2, <4>3
      <4>5. parent'[q] = r
        BY ONLY <1>4, <4>4
      <4> QED BY ONLY <1>3, <1>5, <1>8, <2>2, <4>4, <4>5
    <3> QED BY ONLY <3>3, <3>4
  <2> QED BY ONLY <2>3, <2>4
<1>39. ShapeInv'
  <2>1. /\ root_sept \in used /\ root_sept # Null /\ parent[root_sept] = Null /\ lo[root_sept] = NoHandle
        /\ hi[root_sept] = NoHandle
        /\ left_sept # Null /\ left_sept \in used /\ kid[left_sept] = << >> /\ lo[left_sept] = NoHandle
    <3>1. used # {} /\ RootAgrees /\ UpTo(root_sept) = root_sept
      BY <1>6, <1>7 DEF ShapeInv, UpTo
    <3> QED BY <3>1 DEF RootAgrees, is_leaf
  <2>2. l # Null /\ r # Null
    BY <1>8, SeptFacts
  <2>3. m # NoHandle
    BY <1>8, OrderAssumption
  <2>4. parent'[root_sept] = Null /\ lo'[root_sept] = NoHandle /\ hi'[root_sept] = NoHandle
    BY ONLY <1>4, <1>8, <1>19, <2>1, <2>2
  <2>5. left_sept # r /\ lo'[left_sept] = NoHandle
    BY ONLY <1>8, <1>19, <2>1, <2>3
  <2>6. kid'[left_sept] = << >>
    <3>1. height[left_sept] = 0
      BY <2>1, SeptFacts
    <3> QED BY ONLY <1>3, <1>11, <2>1, <2>5, <3>1
  <2>7. RootAgrees'
    <3>1. UpTo(root_sept)' = root_sept'
      BY ONLY <1>23 DEF UpTo
    <3> QED BY ONLY <1>5, <2>1, <2>4, <2>5, <2>6, <3>1 DEF RootAgrees, is_leaf
  <2>8. ASSUME NEW q \in used', q # root_sept' PROVE ParentAgrees(q)'
    BY ONLY <1>5, <1>38, <2>8 DEF ParentAgrees
  <2>9. \A q \in used' : SeptInOrder(q)' /\ ChildrenAgree(q)'
    BY ONLY <1>5, <1>37
  <2> QED BY ONLY <2>7, <2>8, <2>9 DEF ShapeInv
<1>40. ASSUME NEW g
       PROVE  (\E j \in 1..Len(A) : A[j] = g) \/ (\E j \in 1..Len(B) : B[j] = g) \/ g = up
                <=> \E c \in 1..Len(C) : C[c] = g
  <2>1. ASSUME NEW j \in 1..Len(A), A[j] = g PROVE \E c \in 1..Len(C) : C[c] = g
    <3>1. j \in 1..(t - 1) /\ j \in 1..Len(C)
      BY ONLY <1>2, <1>9, <1>11
    <3> QED BY ONLY <1>11, <2>1, <3>1
  <2>2. ASSUME NEW j \in 1..Len(B), B[j] = g PROVE \E c \in 1..Len(C) : C[c] = g
    <3>1. j \in 1..(Len(C) - t) /\ t + j \in 1..Len(C)
      BY ONLY <1>2, <1>9, <1>12
    <3> QED BY ONLY <1>12, <2>2, <3>1
  <2>3. ASSUME NEW c \in 1..Len(C), C[c] = g
        PROVE  (\E j \in 1..Len(A) : A[j] = g) \/ (\E j \in 1..Len(B) : B[j] = g) \/ g = up
    <3>1. CASE c < t
      <4>1. c \in 1..(t - 1) /\ c \in 1..Len(A)
        BY ONLY <1>2, <1>9, <1>11, <3>1
      <4> QED BY ONLY <1>11, <2>3, <4>1
    <3>2. CASE c = t
      BY ONLY <1>2, <2>3, <3>2
    <3>3. CASE c > t
      <4>1. PICK j : j = c - t
        OBVIOUS
      <4>2. j \in 1..(Len(C) - t) /\ t + j = c
        BY ONLY <1>2, <1>9, <3>3, <4>1
      <4> QED BY ONLY <1>12, <2>3, <4>2
    <3>4. c < t \/ c = t \/ c > t
      BY ONLY <1>2, <1>9
    <3> QED BY ONLY <3>1, <3>2, <3>3, <3>4
  <2> QED BY ONLY <1>2, <2>1, <2>2, <2>3
<1>41. Members' = Members
  <2>1. \A g : g \in Members' <=> \E q \in used : \E j \in 1..Len(hn'[q]) : hn'[q][j] = g
    BY <1>5, <1>22, MemberFactsPrime
  <2>2. \A g : g \in Members <=> \E q \in used : \E j \in 1..Len(hn[q]) : hn[q][j] = g
    BY MemberFacts
  <2>3. hn'[p][x] = up /\ x \in 1..Len(hn'[p]) /\ hn[p][x] = m /\ x \in 1..Len(hn[p])
    BY ONLY <1>1, <1>7, <1>21
  <2>4. ASSUME NEW g, \E c \in 1..Len(C) : C[c] = g PROVE g \in Members /\ g \in Members'
    <3>1. g \in Members
      <4>1. \/ g = m \/ (\E i \in 1..Len(hn[l]) : hn[l][i] = g)
            \/ \E i \in 1..Len(hn[r]) : hn[r][i] = g
        BY ONLY <1>10, <2>4
      <4>2. g = m => g \in Members
        BY ONLY <1>7, <2>2, <2>3
      <4>3. (\E i \in 1..Len(hn[l]) : hn[l][i] = g) => g \in Members
        BY ONLY <1>8, <2>2
      <4>4. (\E i \in 1..Len(hn[r]) : hn[r][i] = g) => g \in Members
        BY ONLY <1>8, <2>2
      <4> QED BY ONLY <4>1, <4>2, <4>3, <4>4
    <3>2. g \in Members'
      <4>1. (\E j \in 1..Len(A) : A[j] = g) \/ (\E j \in 1..Len(B) : B[j] = g) \/ g = up
        BY ONLY <1>40, <2>4
      <4>2. g = up => g \in Members'
        BY ONLY <1>7, <2>1, <2>3
      <4>3. (\E j \in 1..Len(A) : A[j] = g) => g \in Members'
        BY ONLY <1>3, <1>8, <2>1
      <4>4. (\E j \in 1..Len(B) : B[j] = g) => g \in Members'
        BY ONLY <1>3, <1>8, <2>1
      <4> QED BY ONLY <4>1, <4>2, <4>3, <4>4
    <3> QED BY ONLY <3>1, <3>2
  <2>5. ASSUME NEW g, NEW q \in used, NEW j \in 1..Len(hn[q]), hn[q][j] = g PROVE g \in Members'
    <3>1. CASE q \in {l, r}
      BY ONLY <1>10, <2>4, <2>5, <3>1
    <3>2. CASE q = p
      <4>1. CASE j = x
        BY ONLY <1>10, <2>3, <2>4, <2>5, <3>2, <4>1
      <4>2. CASE j # x
        <5>1. j \in 1..Len(hn'[p]) /\ hn'[p][j] = g
          BY ONLY <1>1, <1>21, <2>5, <3>2, <4>2
        <5> QED BY ONLY <1>7, <2>1, <5>1
      <4> QED BY ONLY <4>1, <4>2
    <3>3. CASE q \notin {l, r, p}
      BY ONLY <1>3, <2>1, <2>5, <3>3
    <3> QED BY ONLY <3>1, <3>2, <3>3
  <2>6. ASSUME NEW g, NEW q \in used, NEW j \in 1..Len(hn'[q]), hn'[q][j] = g PROVE g \in Members
    <3>1. CASE q \in {l, r}
      BY ONLY <1>3, <1>40, <2>4, <2>6, <3>1
    <3>2. CASE q = p
      <4>1. CASE j = x
        BY ONLY <1>40, <2>3, <2>4, <2>6, <3>2, <4>1
      <4>2. CASE j # x
        <5>1. j \in 1..Len(hn[p]) /\ hn[p][j] = g
          BY ONLY <1>1, <1>21, <2>6, <3>2, <4>2
        <5> QED BY ONLY <1>7, <2>2, <5>1
      <4> QED BY ONLY <4>1, <4>2
    <3>3. CASE q \notin {l, r, p}
      BY ONLY <1>3, <2>2, <2>6, <3>3
    <3> QED BY ONLY <3>1, <3>2, <3>3
  <2>7. \A g : g \in Members' <=> g \in Members
    BY ONLY <2>1, <2>2, <2>5, <2>6
  <2> QED BY <2>7
<1>42. Elements' = Elements
  BY <1>2, <1>5, <1>41 DEF Elements
<1>43. SlotsInv'
  <2>1. Elements' \subseteq slots /\ stage' # "gone"
    BY <1>5, <1>6, <1>42 DEF SlotsInv
  <2> QED BY <1>5, <1>6, <2>1, SameSlots
<1>44. FillInv'
  <2> SUFFICES ASSUME NEW q \in used PROVE Filled(q)'
    BY <1>5 DEF FillInv
  <2>1. Half \in Nat /\ Half >= 2
    BY HalfFacts
  <2>2. CASE q \in {l, r}
    <3>1. Len(hn'[q]) >= Half /\ q # root_sept'
      BY ONLY <1>2, <1>3, <1>5, <1>8, <2>2
    <3> QED BY <3>1 DEF Filled, num_vals
  <2>3. CASE q \notin {l, r}
    <3>1. Len(hn'[q]) = Len(hn[q])
      BY ONLY <1>1, <1>3, <1>21, <2>3, q \in used
    <3>2. Len(hn[q]) >= (IF q = root_sept THEN 1 ELSE Half)
      BY ONLY <1>2, <1>6, <2>3, q \in used
    <3> QED BY <1>5, <3>1, <3>2 DEF Filled, num_vals
  <2> QED BY ONLY <2>2, <2>3
<1>45. OpInv'
  BY <1>5, IdleOp
<1> QED BY <1>22, <1>39, <1>42, <1>43, <1>44, <1>45

\* What the provers need to know of two siblings when a value is borrowed.
SiblingsAt(p, x, l, r, A, AK, B, BK) ==
    /\ p \in used /\ l \in used /\ r \in used /\ p \in Addresses /\ l \in Addresses /\ r \in Addresses
    /\ l # r /\ l # p /\ r # p /\ p \in Septs /\ l \in Septs /\ r \in Septs
    /\ x \in 1..Len(hn[p]) /\ Len(kid[p]) = Len(hn[p]) + 1 /\ l = kid[p][x] /\ r = kid[p][x + 1]
    /\ A = hn[l] /\ AK = kid[l] /\ B = hn[r] /\ BK = kid[r] /\ parent[l] = p /\ parent[r] = p
    /\ A \in Seq(Handles) /\ B \in Seq(Handles) /\ AK \in Seq(Septs) /\ BK \in Seq(Septs)
    /\ Len(A) \in Nat /\ Len(B) \in Nat /\ height[l] \in Nat
    /\ hn[p] \in Seq(Handles) /\ hn[p][x] \in Handles /\ hp[hn[p][x]] = p
    /\ (height[l] = 0 => AK = << >> /\ BK = << >>)
    /\ (height[l] # 0 => AK # << >> /\ BK # << >> /\ Len(AK) = Len(A) + 1 /\ Len(BK) = Len(B) + 1)
    /\ \A j \in 1..Len(A) : A[j] \in Handles /\ hp[A[j]] = l
    /\ \A j \in 1..Len(B) : B[j] \in Handles /\ hp[B[j]] = r
    /\ \A i, j \in 1..Len(A) : i < j => A[i] # A[j]
    /\ \A i, j \in 1..Len(B) : i < j => B[i] # B[j]
    /\ \A j \in 1..Len(AK) : AK[j] \in used /\ parent[AK[j]] = l
    /\ \A j \in 1..Len(BK) : BK[j] \in used /\ parent[BK[j]] = r
    /\ \A i, j \in 1..Len(AK) : i < j => AK[i] # AK[j]
    /\ \A i, j \in 1..Len(BK) : i < j => BK[i] # BK[j]

LEMMA SiblingsAtFacts ==
    ASSUME TypeOK, ShapeInv, ~Linking, NEW p \in used, NEW x \in 1..Len(hn[p]),
           Len(kid[p]) = Len(hn[p]) + 1, NEW l, NEW r, l = kid[p][x], r = kid[p][x + 1]
    PROVE  SiblingsAt(p, x, l, r, hn[l], kid[l], hn[r], kid[r])
<1>1. /\ l \in used /\ r \in used /\ l # r /\ l # p /\ r # p
      /\ parent[l] = p /\ parent[r] = p /\ height[l] \in Nat /\ height[r] = height[l]
      /\ hn[p][x] \in Handles /\ hp[hn[p][x]] = p
  BY Siblings
<1>2. /\ l \in Addresses /\ l \in Septs /\ hn[l] \in Seq(Handles) /\ kid[l] \in Seq(Septs) /\ Len(hn[l]) \in Nat
      /\ (kid[l] = << >> <=> height[l] = 0) /\ (height[l] # 0 => Len(kid[l]) = Len(hn[l]) + 1)
  BY <1>1, SeptFacts
<1>3. /\ r \in Addresses /\ r \in Septs /\ hn[r] \in Seq(Handles) /\ kid[r] \in Seq(Septs) /\ Len(hn[r]) \in Nat
      /\ (kid[r] = << >> <=> height[l] = 0) /\ (height[l] # 0 => Len(kid[r]) = Len(hn[r]) + 1)
  BY <1>1, SeptFacts
<1>4. p \in Addresses /\ p \in Septs /\ hn[p] \in Seq(Handles)
  BY SeptFacts
<1>5. ASSUME NEW s \in used
      PROVE  /\ \A j \in 1..Len(hn[s]) : hn[s][j] \in Handles /\ hp[hn[s][j]] = s
             /\ \A i, j \in 1..Len(hn[s]) : i < j => hn[s][i] # hn[s][j]
             /\ \A j \in 1..Len(kid[s]) : kid[s][j] \in used /\ parent[kid[s][j]] = s
             /\ \A i, j \in 1..Len(kid[s]) : i < j => kid[s][i] # kid[s][j]
  <2>1. \A j \in 1..Len(hn[s]) : /\ hn[s][j] \in Handles /\ Key[hn[s][j]] \in Int /\ hp[hn[s][j]] = s
                                 /\ \A i \in 1..Len(hn[s]) : j < i => Key[hn[s][j]] < Key[hn[s][i]]
    BY ValueFacts
  <2>2. \A i, j \in 1..Len(hn[s]) : i < j => hn[s][i] # hn[s][j]
    BY ONLY <2>1
  <2>3. \A j \in 1..Len(kid[s]) : kid[s][j] \in used /\ parent[kid[s][j]] = s
    BY KidFacts
  <2>4. \A i, j \in 1..Len(kid[s]) : i < j => kid[s][i] # kid[s][j]
    BY KidsDistinct
  <2> QED BY ONLY <2>1, <2>2, <2>3, <2>4
<1>6. /\ \A j \in 1..Len(hn[l]) : hn[l][j] \in Handles /\ hp[hn[l][j]] = l
      /\ \A i, j \in 1..Len(hn[l]) : i < j => hn[l][i] # hn[l][j]
      /\ \A j \in 1..Len(kid[l]) : kid[l][j] \in used /\ parent[kid[l][j]] = l
      /\ \A i, j \in 1..Len(kid[l]) : i < j => kid[l][i] # kid[l][j]
  BY ONLY <1>1, <1>5
<1>7. /\ \A j \in 1..Len(hn[r]) : hn[r][j] \in Handles /\ hp[hn[r][j]] = r
      /\ \A i, j \in 1..Len(hn[r]) : i < j => hn[r][i] # hn[r][j]
      /\ \A j \in 1..Len(kid[r]) : kid[r][j] \in used /\ parent[kid[r][j]] = r
      /\ \A i, j \in 1..Len(kid[r]) : i < j => kid[r][i] # kid[r][j]
  BY ONLY <1>1, <1>5
<1> QED BY <1>1, <1>2, <1>3, <1>4, <1>6, <1>7 DEF SiblingsAt

LEMMA BorrowRightStep == ASSUME TreeInv, borrow_right PROVE TreeInv' /\ Elements' = Elements
<1> USE DEF TreeInv
<1>1. PICK p, l, i : p = parent[sept] /\ l = sept /\ i = Index
  OBVIOUS
<1>2. PICK r : r = kid[p][2]
  OBVIOUS
<1>3. PICK A, AK, B, BK : A = hn[l] /\ AK = kid[l] /\ B = hn[r] /\ BK = kid[r]
  OBVIOUS
<1>4. PICK m, up : m = hn[p][1] /\ up = B[1]
  OBVIOUS
<1>5. PICK k : k = IF BK = << >> THEN << >> ELSE <<BK[1]>>
  OBVIOUS
<1>6. /\ pc = "repop" /\ parent[sept] # Null /\ IsFirst /\ ~(Len(A) + Len(B) + 1 <= N)
      /\ UNCHANGED <<counts, slots>> /\ UNCHANGED <<load, ops, stage>>
      /\ hn' = [hn EXCEPT ![l] = Append(@, m), ![r] = Tail(@), ![p] = [@ EXCEPT ![1] = up]]
      /\ kid' = [kid EXCEPT ![l] = @ \o k, ![r] = IF BK = << >> THEN @ ELSE Tail(@)]
      /\ hp' = [hp EXCEPT ![m] = sept, ![up] = p]
      /\ parent' = [q \in Addresses |-> IF q \in Range(k) THEN l ELSE parent[q]]
      /\ Done /\ UNCHANGED <<used, height, root_sept, left_sept, sn_reserve>>
      /\ lo' = [lo EXCEPT ![r] = up] /\ hi' = [hi EXCEPT ![l] = up]
  BY <1>1, <1>2, <1>3, <1>4, <1>5
     DEF borrow_right, borrow, passed_down, Underfull, At, slotVars, envVars, Fits, rsibling, num_vals, is_leaf
<1>7. /\ p \in used /\ Len(kid[p]) = Len(hn[p]) + 1 /\ kid[p][1] = l /\ 1 \in 1..Len(hn[p]) /\ r = kid[p][1 + 1]
  BY <1>1, <1>2, <1>6, RepopPlace
<1>8. Len(A) = Half - 1 /\ left_down = Null /\ ~Linking
  BY <1>1, <1>3, <1>6, RepopFacts
<1>9. SiblingsAt(p, 1, l, r, A, AK, B, BK)
  BY <1>3, <1>7, <1>8, SiblingsAtFacts
<1>10. /\ p \in used /\ l \in used /\ r \in used /\ p \in Addresses /\ l \in Addresses /\ r \in Addresses
       /\ l # r /\ l # p /\ r # p /\ p \in Septs /\ l \in Septs /\ r \in Septs
       /\ parent[l] = p /\ parent[r] = p
       /\ A \in Seq(Handles) /\ B \in Seq(Handles) /\ AK \in Seq(Septs) /\ BK \in Seq(Septs)
       /\ Len(A) \in Nat /\ Len(B) \in Nat /\ height[l] \in Nat
       /\ hn[p] \in Seq(Handles) /\ m \in Handles /\ hp[m] = p
       /\ (height[l] = 0 => AK = << >> /\ BK = << >>)
       /\ (height[l] # 0 => AK # << >> /\ BK # << >> /\ Len(AK) = Len(A) + 1 /\ Len(BK) = Len(B) + 1)
  BY ONLY <1>4, <1>9 DEF SiblingsAt
<1>11. /\ \A j \in 1..Len(A) : A[j] \in Handles /\ hp[A[j]] = l
       /\ \A j \in 1..Len(B) : B[j] \in Handles /\ hp[B[j]] = r
       /\ \A j, c \in 1..Len(B) : j < c => B[j] # B[c]
       /\ \A j \in 1..Len(AK) : AK[j] \in used /\ parent[AK[j]] = l
       /\ \A j \in 1..Len(BK) : BK[j] \in used /\ parent[BK[j]] = r
       /\ \A j, c \in 1..Len(BK) : j < c => BK[j] # BK[c]
  BY ONLY <1>9 DEF SiblingsAt
<1>12. Half \in Nat /\ Half >= 2 /\ N = 2 * Half /\ N \in Nat
  BY HalfFacts
<1>13. Len(B) > Half /\ Len(B) <= N /\ 1 \in 1..Len(B)
  <2>1. Len(B) <= N
    BY <1>3, <1>10, SeptFacts
  <2> QED BY ONLY <1>6, <1>8, <1>10, <1>12, <2>1, SMTT(30)
<1>14. up \in Handles /\ hp[up] = r /\ up # m
  BY ONLY <1>4, <1>10, <1>11, <1>13
<1>15. PICK C, CK : C = A \o (<<m>> \o B) /\ CK = AK \o BK
  OBVIOUS
<1>16. Joined(p, 1, l, r, m, C, CK)
  BY ONLY <1>3, <1>4, <1>7, <1>15 DEF Joined
<1>17. /\ C \in Seq(Handles) /\ Len(C) = Len(A) + Len(B) + 1
       /\ \A j \in 1..Len(A) : C[j] = A[j]
       /\ C[Len(A) + 1] = m
       /\ \A j \in 1..Len(B) : C[Len(A) + 1 + j] = B[j]
       /\ CK \in Seq(Septs) /\ Len(CK) = Len(AK) + Len(BK)
       /\ \A j \in 1..Len(AK) : CK[j] = AK[j]
       /\ \A j \in 1..Len(BK) : CK[Len(AK) + j] = BK[j]
  <2>1. /\ C \in Seq(Handles) /\ Len(C) = Len(hn[l]) + Len(hn[r]) + 1
        /\ Len(hn[l]) \in Nat /\ Len(hn[r]) \in Nat
        /\ \A j \in 1..Len(hn[l]) : C[j] = hn[l][j]
        /\ C[Len(hn[l]) + 1] = m
        /\ \A j \in 1..Len(hn[r]) : C[Len(hn[l]) + 1 + j] = hn[r][j]
        /\ CK \in Seq(Septs) /\ Len(CK) = Len(kid[l]) + Len(kid[r])
        /\ Len(kid[l]) \in Nat /\ Len(kid[r]) \in Nat
        /\ \A j \in 1..Len(kid[l]) : CK[j] = kid[l][j]
        /\ \A j \in 1..Len(kid[r]) : CK[Len(kid[l]) + j] = kid[r][j]
        /\ Spans(C, CK, lo[l], hi[r], height[l])
    <3>1. TypeOK /\ ShapeInv
      OBVIOUS
    <3> QED BY ONLY <1>8, <1>16, <3>1, JoinedFacts, Zenon
  <2> QED BY ONLY <1>3, <2>1
<1>18. PICK t, A2, B2 : t = Len(A) + 2 /\ A2 = Append(A, m) /\ B2 = Tail(B)
  OBVIOUS
<1>19. PICK AK2, BK2 : AK2 = AK \o k /\ BK2 = IF BK = << >> THEN BK ELSE Tail(BK)
  OBVIOUS
<1>20. t \in 1..Len(C) /\ C[t] = up /\ t \in Nat
  <2>1. t = Len(A) + 1 + 1 /\ t \in 1..Len(C) /\ t \in Nat
    BY ONLY <1>10, <1>13, <1>17, <1>18, SMTT(30)
  <2> QED BY ONLY <1>4, <1>13, <1>17, <2>1
<1>21. /\ A2 \in Seq(Handles) /\ Len(A2) = t - 1 /\ Len(A2) = Half
       /\ \A j \in 1..Len(A) : A2[j] = A[j]
       /\ A2[Len(A) + 1] = m
  <2>1. /\ A2 \in Seq(Handles) /\ Len(A2) = Len(A) + 1
        /\ (\A j \in 1..Len(A) : A2[j] = A[j]) /\ A2[Len(A) + 1] = m
    BY ONLY <1>10, <1>18
  <2> QED BY ONLY <1>8, <1>10, <1>12, <1>18, <2>1
<1>22. /\ B2 \in Seq(Handles) /\ Len(B2) = Len(B) - 1 /\ Len(B2) = Len(C) - t /\ Len(B2) >= Half /\ Len(B2) <= N
       /\ \A j \in 1..Len(B2) : B2[j] = B[j + 1]
  <2>1. B # << >>
    BY ONLY <1>10, <1>13
  <2>2. /\ B2 \in Seq(Handles) /\ Len(B2) = Len(B) - 1 /\ \A j \in 1..(Len(B) - 1) : B2[j] = B[j + 1]
    BY ONLY <1>10, <1>18, <2>1
  <2>3. Len(A) \in Nat /\ Len(B) \in Nat /\ Len(C) = Len(A) + Len(B) + 1
    BY ONLY <1>10, <1>17
  <2>4. Len(B) - 1 = Len(C) - t /\ Len(B) - 1 >= Half /\ Len(B) - 1 <= N
    BY ONLY <1>12, <1>13, <1>18, <2>3
  <2> QED BY ONLY <2>2, <2>4
<1>23. \A j \in 1..Len(A2) : j \in 1..Len(A) \/ j = Len(A) + 1
  BY ONLY <1>10, <1>18, <1>21
<1>24. \A j \in 1..(t - 1) : A2[j] = C[j]
  BY ONLY <1>17, <1>21, <1>23
<1>25. \A j \in 1..(Len(C) - t) : B2[j] = C[t + j]
  <2> SUFFICES ASSUME NEW j \in 1..(Len(C) - t) PROVE B2[j] = C[t + j]
    OBVIOUS
  <2>1. PICK c : c = j + 1
    OBVIOUS
  <2>2. c \in 1..Len(B) /\ Len(A) + 1 + c = t + j /\ j \in 1..Len(B2)
    BY ONLY <1>10, <1>17, <1>18, <1>22, <2>1
  <2> QED BY ONLY <1>17, <1>22, <2>1, <2>2
<1>26. ASSUME height[l] # 0
       PROVE  /\ AK2 \in Seq(Septs) /\ BK2 \in Seq(Septs)
              /\ IsLow(A2, AK2, C, CK, t, height[l]) /\ IsHigh(B2, BK2, C, CK, t, height[l])
              /\ \A j \in 1..Len(AK2) : parent'[AK2[j]] = l
              /\ \A j \in 1..Len(BK2) : parent'[BK2[j]] = r
              /\ \A q \in used : parent[q] \notin {l, r} => parent'[q] = parent[q]
  <2>1. k = <<BK[1]>> /\ BK[1] \in Septs /\ Len(AK) = Len(A) + 1 /\ Len(BK) = Len(B) + 1 /\ BK # << >>
        /\ Len(AK) = t - 1 /\ 1 \in 1..Len(BK)
    <3>1. Len(AK) = Len(A) + 1 /\ Len(BK) = Len(B) + 1 /\ BK # << >>
      BY ONLY <1>10, <1>26
    <3>2. 1 \in 1..Len(BK) /\ Len(AK) = t - 1
      BY ONLY <1>10, <1>18, <3>1
    <3> QED BY ONLY <1>5, <1>10, <3>1, <3>2
  <2>2. /\ AK2 \in Seq(Septs) /\ Len(AK2) = t
        /\ (\A j \in 1..(t - 1) : AK2[j] = AK[j]) /\ AK2[t] = BK[1]
    <3>1. AK2 = Append(AK, BK[1])
      BY ONLY <1>10, <1>19, <2>1
    <3>2. /\ AK2 \in Seq(Septs) /\ Len(AK2) = Len(AK) + 1
          /\ (\A j \in 1..Len(AK) : AK2[j] = AK[j]) /\ AK2[Len(AK) + 1] = BK[1]
      BY ONLY <1>10, <2>1, <3>1
    <3>3. Len(AK) + 1 = t
      BY ONLY <1>20, <2>1
    <3> QED BY ONLY <2>1, <3>2, <3>3
  <2>3. \A j \in 1..t : AK2[j] = CK[j]
    <3>1. ASSUME NEW j \in 1..t PROVE AK2[j] = CK[j]
      <4>1. CASE j = t
        <5>1. CK[Len(AK) + 1] = BK[1] /\ Len(AK) + 1 = t
          BY ONLY <1>17, <1>20, <2>1
        <5> QED BY ONLY <2>2, <4>1, <5>1
      <4>2. CASE j # t
        <5>1. j \in 1..(t - 1)
          BY ONLY <1>20, <4>2
        <5> QED BY ONLY <1>17, <2>1, <2>2, <5>1
      <4> QED BY ONLY <4>1, <4>2
    <3> QED BY ONLY <3>1
  <2>4. /\ BK2 \in Seq(Septs) /\ Len(BK2) = Len(BK) - 1 /\ Len(BK2) = Len(CK) - t
        /\ \A j \in 1..Len(BK2) : BK2[j] = BK[j + 1]
    <3>1. /\ BK2 \in Seq(Septs) /\ Len(BK2) = Len(BK) - 1 /\ \A j \in 1..(Len(BK) - 1) : BK2[j] = BK[j + 1]
      BY ONLY <1>10, <1>19, <2>1
    <3>2. Len(BK) - 1 = Len(CK) - t
      BY ONLY <1>10, <1>17, <1>18, <2>1
    <3> QED BY ONLY <3>1, <3>2
  <2>5. \A j \in 1..(Len(CK) - t) : BK2[j] = CK[t + j]
    <3> SUFFICES ASSUME NEW j \in 1..(Len(CK) - t) PROVE BK2[j] = CK[t + j]
      OBVIOUS
    <3>1. PICK c : c = j + 1
      OBVIOUS
    <3>2. c \in 1..Len(BK) /\ Len(AK) + c = t + j /\ j \in 1..Len(BK2)
      BY ONLY <1>10, <1>17, <1>18, <2>1, <2>4, <3>1
    <3> QED BY ONLY <1>17, <2>4, <3>1, <3>2
  <2>6. /\ IsLow(A2, AK2, C, CK, t, height[l]) /\ IsHigh(B2, BK2, C, CK, t, height[l])
    BY ONLY <1>21, <1>22, <1>24, <1>25, <1>26, <2>2, <2>3, <2>4, <2>5 DEF IsLow, IsHigh
  <2>7. \A q : q \in Range(k) <=> q = BK[1]
    BY ONLY <2>1 DEF Range
  <2>8. \A q \in used : parent'[q] = IF q = BK[1] THEN l ELSE parent[q]
    <3>1. \A q \in used : q \in Addresses
      BY SeptFacts
    <3> QED BY ONLY <1>6, <2>7, <3>1
  <2>9. \A j \in 1..Len(AK2) : parent'[AK2[j]] = l
    <3> SUFFICES ASSUME NEW j \in 1..Len(AK2) PROVE parent'[AK2[j]] = l
      OBVIOUS
    <3>1. CASE j = t
      BY ONLY <1>11, <2>1, <2>2, <2>8, <3>1
    <3>2. CASE j # t
      <4>1. j \in 1..(t - 1)
        BY ONLY <1>20, <2>2, <3>2
      <4> QED BY ONLY <1>11, <2>1, <2>2, <2>8, <4>1
    <3> QED BY ONLY <3>1, <3>2
  <2>10. \A j \in 1..Len(BK2) : parent'[BK2[j]] = r
    <3> SUFFICES ASSUME NEW j \in 1..Len(BK2) PROVE parent'[BK2[j]] = r
      OBVIOUS
    <3>1. PICK c : c = j + 1
      OBVIOUS
    <3>2. c \in 1..Len(BK) /\ 1 < c
      BY ONLY <1>10, <2>1, <2>4, <3>1
    <3>3. BK2[j] = BK[c] /\ BK[c] # BK[1]
      BY ONLY <1>11, <2>1, <2>4, <3>1, <3>2
    <3> QED BY ONLY <1>11, <2>8, <3>2, <3>3
  <2>11. \A q \in used : parent[q] \notin {l, r} => parent'[q] = parent[q]
    BY ONLY <1>11, <2>1, <2>8
  <2> QED BY ONLY <2>2, <2>4, <2>6, <2>9, <2>10, <2>11
<1>27. ASSUME height[l] = 0
       PROVE  /\ AK2 \in Seq(Septs) /\ BK2 \in Seq(Septs)
              /\ IsLow(A2, AK2, C, CK, t, height[l]) /\ IsHigh(B2, BK2, C, CK, t, height[l])
              /\ \A j \in 1..Len(AK2) : parent'[AK2[j]] = l
              /\ \A j \in 1..Len(BK2) : parent'[BK2[j]] = r
              /\ \A q \in used : parent[q] \notin {l, r} => parent'[q] = parent[q]
  <2>1. AK = << >> /\ BK = << >> /\ k = << >>
    BY ONLY <1>5, <1>10, <1>27
  <2>2. AK2 = << >> /\ BK2 = << >>
    BY ONLY <1>19, <2>1
  <2>3. AK2 \in Seq(Septs) /\ BK2 \in Seq(Septs) /\ Len(AK2) = 0 /\ Len(BK2) = 0
    BY ONLY <2>2
  <2>4. IsLow(A2, AK2, C, CK, t, height[l])
    BY ONLY <1>21, <1>24, <1>27, <2>2, <2>3 DEF IsLow
  <2>5. IsHigh(B2, BK2, C, CK, t, height[l])
    BY ONLY <1>22, <1>25, <1>27, <2>2, <2>3 DEF IsHigh
  <2>6. \A q : q \notin Range(k)
    BY ONLY <2>1 DEF Range
  <2>7. \A q \in used : parent'[q] = parent[q]
    <3>1. \A q \in used : q \in Addresses
      BY SeptFacts
    <3> QED BY ONLY <1>6, <2>6, <3>1
  <2> QED BY ONLY <2>3, <2>4, <2>5, <2>7
<1>28. /\ AK2 \in Seq(Septs) /\ BK2 \in Seq(Septs)
       /\ IsLow(A2, AK2, C, CK, t, height[l]) /\ IsHigh(B2, BK2, C, CK, t, height[l])
       /\ \A j \in 1..Len(AK2) : parent'[AK2[j]] = l
       /\ \A j \in 1..Len(BK2) : parent'[BK2[j]] = r
       /\ \A q \in used : parent[q] \notin {l, r} => parent'[q] = parent[q]
  BY ONLY <1>26, <1>27
<1>29. /\ hn' \in [Addresses -> Seq(Handles)]
       /\ hn'[l] = A2 /\ hn'[r] = B2 /\ hn'[p] = [hn[p] EXCEPT ![1] = up]
       /\ \A q \in used : q \notin {l, r} => (q # p => hn'[q] = hn[q])
  <2>1. hn \in [Addresses -> Seq(Handles)] /\ \A q \in used : q \in Addresses
    BY SeptFacts DEF TypeOK
  <2>2. [hn[p] EXCEPT ![1] = up] \in Seq(Handles)
    BY ONLY <1>7, <1>10, <1>14, ExceptSeq
  <2>3. hn' = [hn EXCEPT ![l] = A2, ![r] = B2, ![p] = [hn[p] EXCEPT ![1] = up]]
    BY ONLY <1>3, <1>6, <1>10, <1>18, <2>1
  <2>4. PICK P : P = [hn[p] EXCEPT ![1] = up]
    OBVIOUS
  <2> QED BY ONLY <1>10, <1>21, <1>22, <2>1, <2>2, <2>3, <2>4
<1>30. /\ kid' \in [Addresses -> Seq(Septs)]
       /\ kid'[l] = AK2 /\ kid'[r] = BK2 /\ \A q \in used : q \notin {l, r} => kid'[q] = kid[q]
  <2>1. kid \in [Addresses -> Seq(Septs)] /\ \A q \in used : q \in Addresses
    BY SeptFacts DEF TypeOK
  <2>2. kid' = [kid EXCEPT ![l] = AK2, ![r] = BK2]
    BY ONLY <1>3, <1>6, <1>10, <1>19, <2>1
  <2> QED BY ONLY <1>10, <1>28, <2>1, <2>2
<1>31. parent' \in [Addresses -> Septs \cup {Null}]
  <2>1. parent \in [Addresses -> Septs \cup {Null}]
    BY DEF TypeOK
  <2> QED BY ONLY <1>6, <1>10, <2>1
<1>32. \A g \in Handles : hp'[g] = IF g = up THEN p ELSE IF g = m THEN l ELSE hp[g]
  <2>1. hp \in [Handles -> Septs \cup {Null}]
    BY DEF TypeOK
  <2> QED BY ONLY <1>1, <1>6, <1>10, <1>14, <2>1
<1>33. \A j \in 1..Len(A2) : hp'[A2[j]] = l
  <2> SUFFICES ASSUME NEW j \in 1..Len(A2) PROVE hp'[A2[j]] = l
    OBVIOUS
  <2>1. CASE j \in 1..Len(A)
    BY ONLY <1>10, <1>11, <1>14, <1>21, <1>32, <2>1, SMTT(30)
  <2>2. CASE j = Len(A) + 1
    BY ONLY <1>10, <1>14, <1>21, <1>32, <2>2
  <2> QED BY ONLY <1>23, <2>1, <2>2
<1>34. \A j \in 1..Len(B2) : hp'[B2[j]] = r
  <2> SUFFICES ASSUME NEW j \in 1..Len(B2) PROVE hp'[B2[j]] = r
    OBVIOUS
  <2>1. PICK c : c = j + 1
    OBVIOUS
  <2>2. c \in 1..Len(B) /\ 1 < c
    BY ONLY <1>10, <1>22, <2>1
  <2>3. B2[j] = B[c] /\ B[c] # up
    BY ONLY <1>4, <1>11, <1>13, <1>22, <2>1, <2>2
  <2> QED BY ONLY <1>10, <1>11, <1>32, <2>2, <2>3
<1>35. BorrowAs(p, 1, l, r, m, C, CK, t, up, A2, AK2, B2, BK2)
  <2>1. Len(A2) >= Half /\ Len(A2) <= N
    BY ONLY <1>12, <1>21
  <2> QED BY ONLY <1>1, <1>6, <1>14, <1>16, <1>20, <1>22, <1>28, <1>29, <1>30, <1>31, <1>33, <1>34, <2>1 DEF BorrowAs
<1> QED BY <1>35, BorrowCore


LEMMA FrontFacts ==
    ASSUME NEW S, NEW s \in Seq(S), s # << >>
    PROVE  /\ Front(s) \in Seq(S) /\ Len(Front(s)) = Len(s) - 1 /\ Len(s) \in 1..Len(s)
           /\ \A j \in 1..(Len(s) - 1) : Front(s)[j] = s[j]
           /\ Last(s) = s[Len(s)] /\ Last(s) \in S
<1>1. Len(s) \in Nat /\ Len(s) >= 1 /\ Len(s) \in 1..Len(s)
  OBVIOUS
<1>2. Front(s) = SubSeq(s, 1, Len(s) - 1)
  BY DEF Front
<1>3. /\ Front(s) \in Seq(S) /\ Len(Front(s)) = (Len(s) - 1) - 1 + 1
      /\ \A j \in 1..((Len(s) - 1) - 1 + 1) : Front(s)[j] = s[1 + j - 1]
  <2>1. 1 \in 1..(Len(s) + 1) /\ Len(s) - 1 \in 0..Len(s) /\ 1 <= (Len(s) - 1) + 1
    BY ONLY <1>1
  <2>2. PICK n : n = Len(s) - 1
    OBVIOUS
  <2> QED BY <1>2, <2>1, <2>2, SubSeqFacts
<1>4. /\ Front(s) \in Seq(S) /\ Len(Front(s)) = Len(s) - 1
      /\ \A j \in 1..(Len(s) - 1) : Front(s)[j] = s[j]
  BY ONLY <1>1, <1>3
<1>5. Last(s) = s[Len(s)] /\ Last(s) \in S
  BY <1>1 DEF Last
<1> QED BY <1>1, <1>4, <1>5

LEMMA BorrowLeftStep == ASSUME TreeInv, borrow_left PROVE TreeInv' /\ Elements' = Elements
<1> USE DEF TreeInv
<1>1. PICK p, r, i : p = parent[sept] /\ r = sept /\ i = Index
  OBVIOUS
<1>2. PICK l, x : l = kid[p][i - 1] /\ x = i - 1
  OBVIOUS
<1>3. PICK A, AK, B, BK : A = hn[l] /\ AK = kid[l] /\ B = hn[r] /\ BK = kid[r]
  OBVIOUS
<1>4. PICK m, up : m = hn[p][x] /\ up = Last(A)
  OBVIOUS
<1>5. PICK k : k = IF AK = << >> THEN << >> ELSE <<Last(AK)>>
  OBVIOUS
<1>6. /\ pc = "repop" /\ parent[sept] # Null /\ ~IsFirst /\ ~(Len(A) + Len(B) + 1 <= N)
      /\ UNCHANGED <<counts, slots>> /\ UNCHANGED <<load, ops, stage>>
      /\ hn' = [hn EXCEPT ![r] = <<m>> \o @, ![l] = Front(@), ![p] = [@ EXCEPT ![x] = up]]
      /\ kid' = [kid EXCEPT ![r] = k \o @, ![l] = IF AK = << >> THEN @ ELSE Front(@)]
      /\ hp' = [hp EXCEPT ![m] = sept, ![up] = p]
      /\ parent' = [q \in Addresses |-> IF q \in Range(k) THEN r ELSE parent[q]]
      /\ Done /\ UNCHANGED <<used, height, root_sept, left_sept, sn_reserve>>
      /\ lo' = [lo EXCEPT ![r] = up] /\ hi' = [hi EXCEPT ![l] = up]
  BY <1>1, <1>2, <1>3, <1>4, <1>5
     DEF borrow_left, borrow, passed_down, Underfull, At, slotVars, envVars, Fits, lsibling, num_vals, is_leaf
<1>7. /\ p \in used /\ Len(kid[p]) = Len(hn[p]) + 1 /\ x \in 1..Len(hn[p])
      /\ l = kid[p][x] /\ r = kid[p][x + 1]
  <2>1. /\ p \in used /\ Len(kid[p]) = Len(hn[p]) + 1 /\ i - 1 \in 1..Len(hn[p]) /\ kid[p][(i - 1) + 1] = sept
    BY <1>1, <1>6, RepopPlace
  <2> QED BY ONLY <1>1, <1>2, <2>1
<1>8. Len(B) = Half - 1 /\ left_down = Null /\ ~Linking
  BY <1>1, <1>3, <1>6, RepopFacts
<1>9. SiblingsAt(p, x, l, r, A, AK, B, BK)
  BY <1>3, <1>7, <1>8, SiblingsAtFacts
<1>10. /\ p \in used /\ l \in used /\ r \in used /\ p \in Addresses /\ l \in Addresses /\ r \in Addresses
       /\ l # r /\ l # p /\ r # p /\ p \in Septs /\ l \in Septs /\ r \in Septs
       /\ parent[l] = p /\ parent[r] = p
       /\ A \in Seq(Handles) /\ B \in Seq(Handles) /\ AK \in Seq(Septs) /\ BK \in Seq(Septs)
       /\ Len(A) \in Nat /\ Len(B) \in Nat /\ height[l] \in Nat
       /\ hn[p] \in Seq(Handles) /\ m \in Handles /\ hp[m] = p
       /\ (height[l] = 0 => AK = << >> /\ BK = << >>)
       /\ (height[l] # 0 => AK # << >> /\ BK # << >> /\ Len(AK) = Len(A) + 1 /\ Len(BK) = Len(B) + 1)
  BY ONLY <1>4, <1>9 DEF SiblingsAt
<1>11. /\ \A j \in 1..Len(A) : A[j] \in Handles /\ hp[A[j]] = l
       /\ \A j \in 1..Len(B) : B[j] \in Handles /\ hp[B[j]] = r
       /\ \A j, c \in 1..Len(A) : j < c => A[j] # A[c]
       /\ \A j \in 1..Len(AK) : AK[j] \in used /\ parent[AK[j]] = l
       /\ \A j \in 1..Len(BK) : BK[j] \in used /\ parent[BK[j]] = r
       /\ \A j, c \in 1..Len(AK) : j < c => AK[j] # AK[c]
  BY ONLY <1>9 DEF SiblingsAt
<1>12. Half \in Nat /\ Half >= 2 /\ N = 2 * Half /\ N \in Nat
  BY HalfFacts
<1>13. Len(A) > Half /\ Len(A) <= N /\ Len(A) \in 1..Len(A) /\ A # << >>
  <2>1. Len(A) <= N
    BY <1>3, <1>10, SeptFacts
  <2>2. Len(A) > Half
    BY ONLY <1>6, <1>8, <1>10, <1>12
  <2>3. A # << >>
    BY ONLY <1>10, <1>12, <2>2
  <2> QED BY ONLY <1>10, <1>12, <2>1, <2>2, <2>3
<1>14. up \in Handles /\ hp[up] = l /\ up # m /\ up = A[Len(A)]
  <2>1. Last(A) = A[Len(A)]
    BY ONLY <1>10, <1>13, FrontFacts
  <2> QED BY ONLY <1>4, <1>10, <1>11, <1>13, <2>1, SMTT(30)
<1>15. PICK C, CK : C = A \o (<<m>> \o B) /\ CK = AK \o BK
  OBVIOUS
<1>16. Joined(p, x, l, r, m, C, CK)
  BY ONLY <1>3, <1>4, <1>7, <1>15 DEF Joined
<1>17. /\ C \in Seq(Handles) /\ Len(C) = Len(A) + Len(B) + 1
       /\ \A j \in 1..Len(A) : C[j] = A[j]
       /\ C[Len(A) + 1] = m
       /\ \A j \in 1..Len(B) : C[Len(A) + 1 + j] = B[j]
       /\ CK \in Seq(Septs) /\ Len(CK) = Len(AK) + Len(BK)
       /\ \A j \in 1..Len(AK) : CK[j] = AK[j]
       /\ \A j \in 1..Len(BK) : CK[Len(AK) + j] = BK[j]
  <2>1. /\ C \in Seq(Handles) /\ Len(C) = Len(hn[l]) + Len(hn[r]) + 1
        /\ Len(hn[l]) \in Nat /\ Len(hn[r]) \in Nat
        /\ \A j \in 1..Len(hn[l]) : C[j] = hn[l][j]
        /\ C[Len(hn[l]) + 1] = m
        /\ \A j \in 1..Len(hn[r]) : C[Len(hn[l]) + 1 + j] = hn[r][j]
        /\ CK \in Seq(Septs) /\ Len(CK) = Len(kid[l]) + Len(kid[r])
        /\ Len(kid[l]) \in Nat /\ Len(kid[r]) \in Nat
        /\ \A j \in 1..Len(kid[l]) : CK[j] = kid[l][j]
        /\ \A j \in 1..Len(kid[r]) : CK[Len(kid[l]) + j] = kid[r][j]
        /\ Spans(C, CK, lo[l], hi[r], height[l])
    <3>1. TypeOK /\ ShapeInv
      OBVIOUS
    <3> QED BY ONLY <1>8, <1>16, <3>1, JoinedFacts, Zenon
  <2> QED BY ONLY <1>3, <2>1
<1>18. PICK t, A2, B2 : t = Len(A) /\ A2 = Front(A) /\ B2 = <<m>> \o B
  OBVIOUS
<1>19. PICK AK2, BK2 : AK2 = (IF AK = << >> THEN AK ELSE Front(AK)) /\ BK2 = k \o BK
  OBVIOUS
<1>20. t \in 1..Len(C) /\ C[t] = up /\ t \in Nat
  <2>1. t \in 1..Len(C) /\ t \in Nat /\ t \in 1..Len(A)
    BY ONLY <1>10, <1>13, <1>17, <1>18
  <2> QED BY ONLY <1>14, <1>17, <1>18, <2>1
<1>21. /\ A2 \in Seq(Handles) /\ Len(A2) = t - 1 /\ Len(A2) >= Half /\ Len(A2) <= N
       /\ \A j \in 1..(t - 1) : A2[j] = A[j]
  <2>1. /\ A2 \in Seq(Handles) /\ Len(A2) = Len(A) - 1
        /\ \A j \in 1..(Len(A) - 1) : A2[j] = A[j]
    BY ONLY <1>10, <1>13, <1>18, FrontFacts
  <2>2. Len(A) \in Nat /\ Len(A) - 1 >= Half /\ Len(A) - 1 <= N
    BY ONLY <1>10, <1>12, <1>13
  <2> QED BY ONLY <1>18, <2>1, <2>2
<1>22. /\ B2 \in Seq(Handles) /\ Len(B2) = Len(B) + 1 /\ Len(B2) = Len(C) - t /\ Len(B2) = Half
       /\ B2[1] = m /\ \A j \in 1..Len(B) : B2[j + 1] = B[j]
  <2>1. /\ B2 \in Seq(Handles) /\ Len(B2) = Len(B) + 1
        /\ B2[1] = m /\ \A j \in 1..Len(B) : B2[j + 1] = B[j]
    BY ONLY <1>10, <1>18
  <2>2. Len(A) \in Nat /\ Len(B) \in Nat /\ Len(C) = Len(A) + Len(B) + 1
    BY ONLY <1>10, <1>17
  <2>3. Len(B) + 1 = Len(C) - t /\ Len(B) + 1 = Half
    BY ONLY <1>8, <1>12, <1>18, <2>2
  <2> QED BY ONLY <2>1, <2>3
<1>23. \A j \in 1..Len(B2) : j = 1 \/ (j - 1 \in 1..Len(B) /\ (j - 1) + 1 = j)
  BY ONLY <1>10, <1>22
<1>24. \A j \in 1..(t - 1) : A2[j] = C[j]
  <2>1. \A j \in 1..(t - 1) : j \in 1..Len(A)
    BY ONLY <1>10, <1>18
  <2> QED BY ONLY <1>17, <1>21, <2>1
<1>25. \A j \in 1..(Len(C) - t) : B2[j] = C[t + j]
  <2> SUFFICES ASSUME NEW j \in 1..(Len(C) - t) PROVE B2[j] = C[t + j]
    OBVIOUS
  <2>1. PICK c : c = j - 1
    OBVIOUS
  <2>2. CASE j = 1
    BY ONLY <1>17, <1>18, <1>22, <2>2
  <2>3. CASE j # 1
    <3>1. c \in 1..Len(B) /\ c + 1 = j
      BY ONLY <1>22, <1>23, <2>1, <2>3
    <3>2. Len(A) + 1 + c = t + j
      <4>1. Len(A) \in Nat /\ t = Len(A)
        BY ONLY <1>10, <1>18
      <4>2. c \in Nat /\ j = c + 1
        BY ONLY <1>10, <3>1
      <4> QED BY ONLY <4>1, <4>2
    <3> QED BY ONLY <1>17, <1>22, <3>1, <3>2
  <2> QED BY ONLY <2>2, <2>3
<1>26. ASSUME height[l] # 0
       PROVE  /\ AK2 \in Seq(Septs) /\ BK2 \in Seq(Septs)
              /\ IsLow(A2, AK2, C, CK, t, height[l]) /\ IsHigh(B2, BK2, C, CK, t, height[l])
              /\ \A j \in 1..Len(AK2) : parent'[AK2[j]] = l
              /\ \A j \in 1..Len(BK2) : parent'[BK2[j]] = r
              /\ \A q \in used : parent[q] \notin {l, r} => parent'[q] = parent[q]
  <2>1. PICK e : e = AK[Len(AK)]
    OBVIOUS
  <2>2. /\ k = <<e>> /\ e \in Septs /\ Len(AK) = Len(A) + 1 /\ AK # << >>
        /\ Len(AK) = t + 1 /\ t + 1 \in 1..Len(AK) /\ e = AK[t + 1] /\ Len(BK) \in Nat
    <3>1. Len(AK) = Len(A) + 1 /\ AK # << >>
      BY ONLY <1>10, <1>26
    <3>2. Last(AK) = e /\ e \in Septs
      BY ONLY <1>10, <2>1, <3>1, FrontFacts
    <3>3. t + 1 \in 1..Len(AK) /\ Len(AK) = t + 1
      BY ONLY <1>10, <1>18, <3>1
    <3>4. Len(BK) \in Nat
      BY ONLY <1>10
    <3> QED BY ONLY <1>5, <2>1, <3>1, <3>2, <3>3, <3>4
  <2>3. /\ AK2 \in Seq(Septs) /\ Len(AK2) = t
        /\ \A j \in 1..t : AK2[j] = AK[j]
    <3>1. /\ AK2 \in Seq(Septs) /\ Len(AK2) = Len(AK) - 1
          /\ \A j \in 1..(Len(AK) - 1) : AK2[j] = AK[j]
      BY ONLY <1>10, <1>19, <2>2, FrontFacts
    <3>2. Len(AK) - 1 = t
      BY ONLY <1>20, <2>2
    <3> QED BY ONLY <3>1, <3>2
  <2>4. \A j \in 1..t : j \in 1..Len(AK) /\ j < t + 1
    BY ONLY <1>20, <2>2
  <2>5. \A j \in 1..t : AK2[j] = CK[j]
    BY ONLY <1>17, <2>3, <2>4
  <2>6. /\ BK2 \in Seq(Septs) /\ Len(BK2) = Len(BK) + 1 /\ Len(BK2) = Len(CK) - t
        /\ BK2[1] = e /\ \A j \in 1..Len(BK) : BK2[j + 1] = BK[j]
    <3>1. BK2 \in Seq(Septs) /\ Len(BK2) = Len(BK) + 1
          /\ BK2[1] = e /\ \A j \in 1..Len(BK) : BK2[j + 1] = BK[j]
      BY ONLY <1>10, <1>19, <2>2
    <3>2. Len(BK) + 1 = Len(CK) - t
      BY ONLY <1>17, <1>20, <2>2
    <3> QED BY ONLY <3>1, <3>2
  <2>7. \A j \in 1..Len(BK2) : j = 1 \/ (j - 1 \in 1..Len(BK) /\ (j - 1) + 1 = j)
    BY ONLY <2>2, <2>6
  <2>8. \A j \in 1..(Len(CK) - t) : BK2[j] = CK[t + j]
    <3> SUFFICES ASSUME NEW j \in 1..(Len(CK) - t) PROVE BK2[j] = CK[t + j]
      OBVIOUS
    <3>1. PICK c : c = j - 1
      OBVIOUS
    <3>2. CASE j = 1
      BY ONLY <1>17, <2>2, <2>6, <3>2
    <3>3. CASE j # 1
      <4>1. c \in 1..Len(BK) /\ c + 1 = j
        BY ONLY <2>6, <2>7, <3>1, <3>3
      <4>2. Len(AK) + c = t + j
        BY ONLY <1>20, <2>2, <4>1
      <4> QED BY ONLY <1>17, <2>6, <4>1, <4>2
    <3> QED BY ONLY <3>2, <3>3
  <2>9. /\ IsLow(A2, AK2, C, CK, t, height[l]) /\ IsHigh(B2, BK2, C, CK, t, height[l])
    BY ONLY <1>21, <1>22, <1>24, <1>25, <1>26, <2>3, <2>5, <2>6, <2>8 DEF IsLow, IsHigh
  <2>10. \A q : q \in Range(k) <=> q = e
    BY ONLY <2>2 DEF Range
  <2>11. \A q \in used : parent'[q] = IF q = e THEN r ELSE parent[q]
    <3>1. \A q \in used : q \in Addresses
      BY SeptFacts
    <3> QED BY ONLY <1>6, <2>10, <3>1
  <2>12. e \in used /\ parent[e] = l
    BY ONLY <1>11, <2>2
  <2>13. \A j \in 1..Len(AK2) : parent'[AK2[j]] = l
    <3> SUFFICES ASSUME NEW j \in 1..Len(AK2) PROVE parent'[AK2[j]] = l
      OBVIOUS
    <3>1. AK2[j] = AK[j] /\ j \in 1..Len(AK) /\ j < t + 1
      BY ONLY <2>3, <2>4
    <3>2. AK[j] # e /\ AK[j] \in used /\ parent[AK[j]] = l
      BY ONLY <1>11, <2>2, <3>1
    <3> QED BY ONLY <2>11, <3>1, <3>2
  <2>14. \A j \in 1..Len(BK2) : parent'[BK2[j]] = r
    <3> SUFFICES ASSUME NEW j \in 1..Len(BK2) PROVE parent'[BK2[j]] = r
      OBVIOUS
    <3>1. PICK c : c = j - 1
      OBVIOUS
    <3>2. CASE j = 1
      BY ONLY <2>6, <2>11, <2>12, <3>2
    <3>3. CASE j # 1
      <4>1. c \in 1..Len(BK) /\ c + 1 = j
        BY ONLY <2>7, <3>1, <3>3
      <4>2. BK2[j] = BK[c] /\ BK[c] \in used /\ parent[BK[c]] = r
        BY ONLY <1>11, <2>6, <4>1
      <4> QED BY ONLY <1>10, <2>11, <2>12, <4>2
    <3> QED BY ONLY <3>2, <3>3
  <2>15. \A q \in used : parent[q] \notin {l, r} => parent'[q] = parent[q]
    BY ONLY <2>11, <2>12
  <2> QED BY ONLY <2>3, <2>6, <2>9, <2>13, <2>14, <2>15
<1>27. ASSUME height[l] = 0
       PROVE  /\ AK2 \in Seq(Septs) /\ BK2 \in Seq(Septs)
              /\ IsLow(A2, AK2, C, CK, t, height[l]) /\ IsHigh(B2, BK2, C, CK, t, height[l])
              /\ \A j \in 1..Len(AK2) : parent'[AK2[j]] = l
              /\ \A j \in 1..Len(BK2) : parent'[BK2[j]] = r
              /\ \A q \in used : parent[q] \notin {l, r} => parent'[q] = parent[q]
  <2>1. AK = << >> /\ BK = << >> /\ k = << >>
    BY ONLY <1>5, <1>10, <1>27
  <2>2. AK2 = << >> /\ BK2 = << >>
    BY ONLY <1>19, <2>1
  <2>3. AK2 \in Seq(Septs) /\ BK2 \in Seq(Septs) /\ Len(AK2) = 0 /\ Len(BK2) = 0
    BY ONLY <2>2
  <2>4. IsLow(A2, AK2, C, CK, t, height[l])
    BY ONLY <1>21, <1>24, <1>27, <2>2, <2>3 DEF IsLow
  <2>5. IsHigh(B2, BK2, C, CK, t, height[l])
    BY ONLY <1>22, <1>25, <1>27, <2>2, <2>3 DEF IsHigh
  <2>6. \A q : q \notin Range(k)
    BY ONLY <2>1 DEF Range
  <2>7. \A q \in used : parent'[q] = parent[q]
    <3>1. \A q \in used : q \in Addresses
      BY SeptFacts
    <3> QED BY ONLY <1>6, <2>6, <3>1
  <2> QED BY ONLY <2>3, <2>4, <2>5, <2>7
<1>28. /\ AK2 \in Seq(Septs) /\ BK2 \in Seq(Septs)
       /\ IsLow(A2, AK2, C, CK, t, height[l]) /\ IsHigh(B2, BK2, C, CK, t, height[l])
       /\ \A j \in 1..Len(AK2) : parent'[AK2[j]] = l
       /\ \A j \in 1..Len(BK2) : parent'[BK2[j]] = r
       /\ \A q \in used : parent[q] \notin {l, r} => parent'[q] = parent[q]
  BY ONLY <1>26, <1>27
<1>29. /\ hn' \in [Addresses -> Seq(Handles)]
       /\ hn'[l] = A2 /\ hn'[r] = B2 /\ hn'[p] = [hn[p] EXCEPT ![x] = up]
       /\ \A q \in used : q \notin {l, r} => (q # p => hn'[q] = hn[q])
  <2>1. hn \in [Addresses -> Seq(Handles)] /\ \A q \in used : q \in Addresses
    BY SeptFacts DEF TypeOK
  <2>2. [hn[p] EXCEPT ![x] = up] \in Seq(Handles)
    BY ONLY <1>7, <1>10, <1>14, ExceptSeq
  <2>3. hn' = [hn EXCEPT ![r] = B2, ![l] = A2, ![p] = [hn[p] EXCEPT ![x] = up]]
    BY ONLY <1>3, <1>6, <1>10, <1>18, <2>1
  <2>4. PICK P : P = [hn[p] EXCEPT ![x] = up]
    OBVIOUS
  <2> QED BY ONLY <1>10, <1>21, <1>22, <2>1, <2>2, <2>3, <2>4
<1>30. /\ kid' \in [Addresses -> Seq(Septs)]
       /\ kid'[l] = AK2 /\ kid'[r] = BK2 /\ \A q \in used : q \notin {l, r} => kid'[q] = kid[q]
  <2>1. kid \in [Addresses -> Seq(Septs)] /\ \A q \in used : q \in Addresses
    BY SeptFacts DEF TypeOK
  <2>2. kid' = [kid EXCEPT ![r] = BK2, ![l] = AK2]
    BY ONLY <1>3, <1>6, <1>10, <1>19, <2>1
  <2> QED BY ONLY <1>10, <1>28, <2>1, <2>2
<1>31. parent' \in [Addresses -> Septs \cup {Null}]
  <2>1. parent \in [Addresses -> Septs \cup {Null}]
    BY DEF TypeOK
  <2> QED BY ONLY <1>6, <1>10, <2>1
<1>32. \A g \in Handles : hp'[g] = IF g = up THEN p ELSE IF g = m THEN r ELSE hp[g]
  <2>1. hp \in [Handles -> Septs \cup {Null}]
    BY DEF TypeOK
  <2> QED BY ONLY <1>1, <1>6, <1>10, <1>14, <2>1
<1>33. \A j \in 1..Len(A2) : hp'[A2[j]] = l
  <2> SUFFICES ASSUME NEW j \in 1..Len(A2) PROVE hp'[A2[j]] = l
    OBVIOUS
  <2>1. j \in 1..Len(A) /\ j < Len(A) /\ A2[j] = A[j]
    BY ONLY <1>10, <1>18, <1>21
  <2>2. A[j] # up /\ A[j] # m /\ A[j] \in Handles /\ hp[A[j]] = l
    BY ONLY <1>10, <1>11, <1>13, <1>14, <2>1
  <2> QED BY ONLY <1>32, <2>1, <2>2
<1>34. \A j \in 1..Len(B2) : hp'[B2[j]] = r
  <2> SUFFICES ASSUME NEW j \in 1..Len(B2) PROVE hp'[B2[j]] = r
    OBVIOUS
  <2>1. PICK c : c = j - 1
    OBVIOUS
  <2>2. CASE j = 1
    BY ONLY <1>10, <1>14, <1>22, <1>32, <2>2
  <2>3. CASE j # 1
    <3>1. c \in 1..Len(B) /\ c + 1 = j
      BY ONLY <1>23, <2>1, <2>3
    <3>2. B2[j] = B[c] /\ B[c] \in Handles /\ hp[B[c]] = r
      BY ONLY <1>11, <1>22, <3>1
    <3> QED BY ONLY <1>10, <1>14, <1>32, <3>2
  <2> QED BY ONLY <2>2, <2>3
<1>35. BorrowAs(p, x, l, r, m, C, CK, t, up, A2, AK2, B2, BK2)
  <2>1. Len(B2) >= Half /\ Len(B2) <= N
    BY ONLY <1>12, <1>22
  <2> QED BY ONLY <1>1, <1>6, <1>14, <1>16, <1>20, <1>21, <1>28, <1>29, <1>30, <1>31, <1>33, <1>34, <2>1 DEF BorrowAs
<1> QED BY <1>35, BorrowCore

-----------------------------------------------------------------------------
(* The theorems.                                                           *)

LEMMA InitInv == Init => TreeInv
<1> SUFFICES ASSUME Init PROVE TreeInv
  OBVIOUS
<1>1. used = {} /\ sn_reserve = {} /\ slots = {} /\ pc = "idle" /\ root_sept = Null /\ left_sept = Null
      /\ left_down = Null /\ stage = "live"
      /\ counts = [alloced |-> 0, septs |-> 0, needed |-> 0, next |-> 1]
  BY DEF Init
<1>2. Half \in Nat /\ Half >= 2
  BY HalfFacts
<1>3. TypeOK
  BY OrderAssumption DEF Init, TypeOK, PCs
<1>4. SlotsInv
  <2>1. Members = {} /\ Elements = {} /\ Live = {}
    BY <1>1 DEF Elements, Members, Live
  <2>2. IsFiniteSet({}) /\ Cardinality({}) = 0
    BY FS_EmptySet
  <2>3. counts.alloced = 0 /\ counts.septs = 0 /\ counts.needed = 0 /\ counts.next = 1
    BY <1>1
  <2> QED BY <1>1, <1>2, <2>1, <2>2, <2>3 DEF SlotsInv
<1>5. ShapeInv
  BY <1>1 DEF ShapeInv, RootAgrees
<1>6. FillInv
  BY <1>1 DEF FillInv
<1>7. OpInv
  BY <1>1 DEF OpInv, SearchInv, UpInv, SuccInv, FindInv, FindsMembers
<1> QED BY <1>3, <1>4, <1>5, <1>6, <1>7 DEF TreeInv

LEMMA StutterInv == ASSUME TreeInv, UNCHANGED vars PROVE TreeInv'
<1> USE DEF vars, treeVars, septVars, slotVars, opVars, envVars
<1>1. TypeOK'
  BY DEF TreeInv, TypeOK
<1>2. Members' = Members /\ Elements' = Elements /\ Live' = Live
  BY DEF Members, Elements, Live
<1>3. SlotsInv'
  BY <1>2 DEF TreeInv, SlotsInv
<1>4. ShapeInv'
  BY DEF TreeInv, ShapeInv, RootAgrees, UpTo, Linking, is_leaf, num_vals, SeptInOrder, ChildrenAgree,
         ParentAgrees, LeftOf, RightOf, After, Before
<1>5. FillInv'
  BY DEF TreeInv, FillInv, Filled, num_vals, is_leaf
<1>6. OpInv'
  BY <1>2 DEF TreeInv, OpInv, SearchInv, UpInv, SuccInv, FindInv, FindsMembers, Place, After, Before, num_vals, is_leaf
<1> QED BY <1>1, <1>3, <1>4, <1>5, <1>6 DEF TreeInv

LEMMA NextInv == TreeInv /\ [Next]_vars => TreeInv'
<1> SUFFICES ASSUME TreeInv, [Next]_vars PROVE TreeInv'
  OBVIOUS
<1>1. CASE Add
  BY <1>1, AddStep
<1>2. ASSUME NEW h \in Handles, Allocate(h) \/ AllocateFails(h) \/ Deallocate(h) \/ InsertHandle(h) \/ RemoveHandle(h)
      PROVE  TreeInv'
  BY <1>2, AllocateStep, AllocateFailsStep, DeallocateStep, InsertHandleStep, RemoveHandleStep
<1>3. ASSUME NEW key \in Range(Key), FindKey(key) PROVE TreeInv'
  BY <1>3, FindKeyStep
<1>4. CASE Destroy
  BY <1>4, DestroyStep
<1>5. CASE insert
  BY <1>5, InsertQuiet, InsertRoot
<1>6. CASE search \/ descend
  BY <1>6, SearchStep, DescendStep
<1>7. CASE put \/ split_low \/ split_mid \/ split_high \/ new_root
  BY <1>7, PutStep, SplitLowStep, SplitMidStep, SplitHighStep, NewRootStep
<1>8. CASE remove
  BY <1>8, RemoveQuiet, RemoveLeaf
<1>9. CASE succ_down \/ take_succ
  BY <1>9, SuccDownStep, TakeSuccStep
<1>10. CASE repop_root
  BY <1>10, RepopRootQuiet, RepopRootRelease
<1>11. CASE merge_right \/ merge_left \/ borrow_right \/ borrow_left
  BY <1>11, MergeRightStep, MergeLeftStep, BorrowRightStep, BorrowLeftStep
<1>12. CASE find \/ found_get \/ found_remove
  BY <1>12, FindStep, FoundGetStep, FoundRemoveStep
<1>13. CASE UNCHANGED vars
  BY <1>13, StutterInv
<1> QED BY <1>1, <1>2, <1>3, <1>4, <1>5, <1>6, <1>7, <1>8, <1>9, <1>10, <1>11, <1>12, <1>13 DEF Next

\* The inductive invariant holds at every step of every operation of the B-tree: the septs
\* are linked as a tree but for the two halves of a split that are on their way up, only the
\* sept at hand may have too few values, and each loop of insert(), remove() and find() is in
\* the part of the tree where what it looks for must be.
THEOREM TreeInvariant == Spec => []TreeInv
BY InitInv, NextInv, PTL DEF Spec

\* Whatever is inserted and removed in whatever order, the splits of insert() and the merges
\* and borrowing of repop_node() leave a B-tree, in order, filled and balanced, with its parent
\* pointers, its members' pointers and left_sept right.
THEOREM TreeIsWellFormed == Spec => []WellFormed
<1>1. TreeInv => WellFormed
  <2> SUFFICES ASSUME TreeInv, pc = "idle"
               PROVE  /\ RootAgrees
                      /\ \A s \in used : /\ SeptInOrder(s) /\ ChildrenAgree(s) /\ Filled(s)
                                         /\ s # root_sept => ParentAgrees(s)
    BY DEF WellFormed
  <2>1. \A s \in used : Filled(s)
    BY DEF TreeInv, FillInv
  <2>2. RootAgrees /\ \A s \in used : /\ SeptInOrder(s) /\ ChildrenAgree(s)
                                      /\ s # root_sept => ParentAgrees(s)
    BY DEF TreeInv, ShapeInv, Linking
  <2> QED BY <2>1, <2>2
<1> QED BY <1>1, TreeInvariant, PTL

\* The septs that alloc_slot() has counted for the slots are enough for every split that
\* insert() makes: alloc_sept() is never called with an empty reserve.
THEOREM ReserveIsEnough == Spec => []ReserveSuffices
<1>1. TreeInv => ReserveSuffices
  <2> SUFFICES ASSUME TreeInv PROVE ReserveSuffices
    OBVIOUS
  <2>1. Wild \notin used
    BY OrderAssumption DEF TreeInv, TypeOK
  <2> QED BY <2>1 DEF TreeInv, SlotsInv, ReserveSuffices
<1> QED BY <1>1, TreeInvariant, PTL

\* find() returns the handle with the key it is given if there is one in the tree, in whichever
\* sept it is, and null if there is none.
THEOREM FindIsExact == Spec => []FindsMembers
<1>1. TreeInv => FindsMembers
  BY DEF TreeInv, OpInv
<1> QED BY <1>1, TreeInvariant, PTL

-----------------------------------------------------------------------------
(* The tree implements the set of KeyedSet.                                *)

\* Before a value goes up, and unless one is taken away, the elements are the tree's values.
LEMMA SameElements ==
    ASSUME pc # "up", pc' # "up", UNCHANGED <<hn, used>>
    PROVE  Elements' = Elements
BY DEF Elements, Members

\* A step of which the set shows nothing.
Unmoved == Elements' = Elements /\ Pending' = Pending

\* Before and after the effect of a call.
LEMMA PendingFacts ==
    /\ pc \in {"insert", "search"} => Pending = <<"insert", hndl_p>>
    /\ pc \in {"remove", "succ"} => Pending = <<"remove", hndl_p>>
    /\ pc \in {"idle", "up", "repop", "find", "found"} => Pending = << >>
BY DEF Pending

LEMMA PendingFactsPrime ==
    /\ pc' \in {"insert", "search"} => Pending' = <<"insert", hndl_p'>>
    /\ pc' \in {"remove", "succ"} => Pending' = <<"remove", hndl_p'>>
    /\ pc' \in {"idle", "up", "repop", "find", "found"} => Pending' = << >>
BY DEF Pending

\* A call is made while none is in progress.
LEMMA Calls ==
    ASSUME pc \in {"idle", "found"}, pc' \in {"insert", "remove"}, hndl_p' \in Handles,
           Elements' = Elements
    PROVE  Abstract!Next
<1>1. Pending = << >>
  BY PendingFacts
<1>2. CASE pc' = "insert"
  <2>1. Pending' = <<"insert", hndl_p'>>
    BY <1>2, PendingFactsPrime
  <2> QED BY <1>1, <2>1 DEF Abstract!Next, Abstract!Call
<1>3. CASE pc' = "remove"
  <2>1. Pending' = <<"remove", hndl_p'>>
    BY <1>3, PendingFactsPrime
  <2> QED BY <1>1, <2>1 DEF Abstract!Next, Abstract!Call
<1> QED BY <1>2, <1>3

\* When the search ends in a leaf, the key of the handle to be inserted is not in the tree.
LEMMA KeyIsFree ==
    ASSUME TreeInv, descend, is_leaf(sept), NEW g \in Members
    PROVE  Key[g] # Key[hndl_p]
<1> USE DEF TreeInv
<1>1. pc = "search" /\ min > max
  BY DEF descend, At
<1>2. /\ sept \in used /\ After(lo[sept], hndl_p) /\ Before(hndl_p, hi[sept])
      /\ min <= max + 1 /\ hndl_p \in Handles
      /\ \A j \in 1..num_vals(sept) :
           /\ j <= min => Key[hn[sept][j]] < Key[hndl_p]
           /\ j > max + 1 => Key[hndl_p] < Key[hn[sept][j]]
  BY <1>1 DEF OpInv, SearchInv
<1>3. min \in Int /\ max \in Int /\ ~Linking /\ Key[hndl_p] \in Int
  BY <1>1, <1>2, OrderAssumption DEF TypeOK, Linking
<1>4. PICK q \in used : \E j \in 1..Len(hn[q]) : hn[q][j] = g
  BY MemberFacts
<1>5. PICK j \in 1..Len(hn[q]) : hn[q][j] = g
  BY <1>4
<1>6. g \in Handles /\ Key[g] \in Int /\ Len(hn[q]) \in Nat
  BY <1>5, ValueFacts, SeptFacts
<1>7. CASE q = sept
  <2>1. j <= min \/ j > max + 1
    BY <1>1, <1>2, <1>3, <1>6
  <2> QED BY <1>2, <1>3, <1>5, <1>6, <1>7, <2>1 DEF num_vals
<1>8. CASE q # sept
  <2> SUFFICES ASSUME Key[g] = Key[hndl_p] PROVE FALSE
    OBVIOUS
  <2>1. After(lo[sept], hn[q][j]) /\ Before(hn[q][j], hi[sept])
    BY <1>2, <1>5 DEF After, Before
  <2>2. height[q] < height[sept]
    BY <1>2, <1>3, <1>8, <2>1, Separation
  <2>3. height[q] \in Nat /\ height[sept] = 0
    BY <1>2, SeptFacts DEF is_leaf
  <2> QED BY <2>2, <2>3
<1> QED BY <1>7, <1>8

LEMMA DescendSet == ASSUME TreeInv, descend PROVE Abstract!Next \/ Unmoved
<1>1. /\ pc = "search" /\ UNCHANGED <<hn, used>>
  BY DEF descend, At, treeVars, septVars
<1>2. CASE is_leaf(sept)
  <2>1. pc' = "up" /\ hndl_p' = hndl_p /\ Members' = Members
    BY <1>1, <1>2 DEF descend, Registers, Members
  <2>2. Elements = Members /\ Elements' = Members \cup {hndl_p}
    BY <1>1, <2>1 DEF Elements
  <2>3. \A g \in Members : Key[g] # Key[hndl_p]
    BY <1>2, KeyIsFree
  <2>4. hndl_p \in Handles
    BY <1>1 DEF TreeInv, OpInv
  <2>5. Pending = <<"insert", hndl_p>> /\ Pending' = << >>
    BY <1>1, <2>1, PendingFacts, PendingFactsPrime
  <2>6. Abstract!Insert(hndl_p)
    BY <2>2, <2>3, <2>5 DEF Abstract!Insert, Abstract!Taken
  <2> QED BY <2>4, <2>6 DEF Abstract!Next
<1>3. CASE ~is_leaf(sept)
  <2>1. pc' = "search" /\ hndl_p' = hndl_p
    BY <1>3 DEF descend, SearchFrom, Registers
  <2>2. Elements' = Elements
    BY <1>1, <2>1, SameElements
  <2> QED BY <1>1, <2>1, <2>2, PendingFacts, PendingFactsPrime DEF Unmoved
<1> QED BY <1>2, <1>3

\* The search meets the key: it is taken, and the call has no effect.
LEMMA SearchSet == ASSUME TreeInv, search PROVE Abstract!Next \/ Unmoved
<1> USE DEF TreeInv
<1> DEFINE i == (min + max) \div 2
           hs == hn[sept]
<1>1. /\ pc = "search" /\ min <= max /\ UNCHANGED <<hn, used>>
      /\ IF i >= Len(hs) \/ (i < Len(hs) /\ Key[hndl_p] < Key[hs[i + 1]])
         THEN SearchFrom(sept, min, i - 1)
         ELSE IF Key[hs[i + 1]] = Key[hndl_p] THEN Done
         ELSE SearchFrom(sept, i + 1, max)
  BY DEF search, At, treeVars, septVars
<1> HIDE DEF i, hs
<1>2. CASE pc' = "search" /\ hndl_p' = hndl_p
  <2>1. Elements' = Elements
    BY <1>1, <1>2, SameElements
  <2> QED BY <1>1, <1>2, <2>1, PendingFacts, PendingFactsPrime DEF Unmoved
<1>3. CASE ~(i >= Len(hs)) /\ Key[hs[i + 1]] = Key[hndl_p] /\ pc' = "idle"
  <2>1. sept \in used /\ 0 <= min /\ min \in Int /\ max \in Int /\ hndl_p \in Handles
    BY <1>1 DEF OpInv, SearchInv, TypeOK
  <2>2. i \in Int /\ 0 <= i
    BY ONLY <1>1, <2>1 DEF i
  <2>3. Len(hs) \in Nat
    BY <2>1, SeptFacts DEF hs
  <2>4. i + 1 \in 1..Len(hs)
    BY ONLY <1>3, <2>2, <2>3
  <2>5. hs[i + 1] \in Members
    BY <2>1, <2>4, MemberFacts DEF hs
  <2>6. Elements = Members /\ Elements' = Elements
    BY <1>1, <1>3, SameElements DEF Elements
  <2>7. Pending = <<"insert", hndl_p>> /\ Pending' = << >>
    BY <1>1, <1>3, PendingFacts, PendingFactsPrime
  <2>8. \E g \in Elements : Key[g] = Key[hndl_p]
    BY ONLY <1>3, <2>5, <2>6
  <2>9. Abstract!Insert(hndl_p)
    BY ONLY <2>6, <2>7, <2>8 DEF Abstract!Insert, Abstract!Taken
  <2> QED BY <2>1, <2>9 DEF Abstract!Next
<1> QED BY <1>1, <1>2, <1>3 DEF SearchFrom, Registers, Done

\* The first sept of the tree holds nothing yet.
LEMMA InsertSet == ASSUME TreeInv, insert PROVE Unmoved
<1> USE DEF TreeInv
<1>1. pc = "insert" /\ pc' = "search" /\ hndl_p' = hndl_p
  BY DEF insert, At, SearchFrom, Registers
<1>2. Pending' = Pending
  BY <1>1, PendingFacts, PendingFactsPrime
<1>3. CASE root_sept # Null
  <2>1. Elements' = Elements
    BY <1>1, <1>3, SameElements DEF insert, treeVars, septVars
  <2> QED BY <1>2, <2>1 DEF Unmoved
<1>4. CASE root_sept = Null
  <2>1. PICK r : r = NextSept
    OBVIOUS
  <2>2. used' = used \cup {r} /\ hn' = [hn EXCEPT ![r] = << >>]
    BY <1>4, <2>1 DEF insert, alloc_sept
  <2>3. used = {}
    BY <1>4 DEF ShapeInv, RootAgrees
  <2>4. TreeInv'
    BY <1>4, InsertRoot
  <2>5. hn \in [Addresses -> Seq(Handles)] /\ r \in Addresses
    BY <2>2, <2>4 DEF TypeOK, Addresses
  <2>6. hn'[r] = << >>
    BY <2>2, <2>5
  <2>7. Members = {}
    BY <2>3 DEF Members
  <2>8. \A h : h \notin Members'
    <3>1. \A h : h \in Members' <=> \E s \in used' : \E i \in 1..Len(hn'[s]) : hn'[s][i] = h
      BY <2>4, MemberFactsPrime
    <3> QED BY <2>2, <2>3, <2>6, <3>1
  <2>9. Elements' = Elements
    BY <1>1, <2>7, <2>8 DEF Elements
  <2> QED BY <1>2, <2>9 DEF Unmoved
<1> QED BY <1>3, <1>4

LEMMA RemovesElement ==
    ASSUME pc \in {"remove", "succ"}, pc' \in {"idle", "repop"}, hndl_p \in Handles,
           Elements' = Elements \ {hndl_p}
    PROVE  Abstract!Next
<1>1. Pending = <<"remove", hndl_p>> /\ Pending' = << >>
  BY PendingFacts, PendingFactsPrime
<1>2. Abstract!Remove(hndl_p)
  BY ONLY <1>1, Elements' = Elements \ {hndl_p} DEF Abstract!Remove
<1> QED BY <1>2 DEF Abstract!Next

LEMMA RemoveSet == ASSUME TreeInv, remove PROVE Abstract!Next \/ Unmoved
<1>1. pc = "remove" /\ hndl_p \in Handles /\ Elements = Members
  BY DEF remove, At, TreeInv, OpInv, Elements
<1>2. CASE hndl_p \in Members /\ is_leaf(hp[hndl_p])
  <2>1. pc' \in {"idle", "repop"}
    BY <1>2 DEF remove, repop_if, Registers, Done
  <2>2. Elements' = Elements \ {hndl_p}
    BY <1>1, <1>2, RemoveLeaf
  <2> QED BY <1>1, <2>1, <2>2, RemovesElement
<1>3. CASE hndl_p \notin Members
  <2>1. pc' = "idle" /\ UNCHANGED <<hn, used>>
    BY <1>3 DEF remove, Done, treeVars, septVars
  <2>2. Elements' = Elements
    BY <1>1, <2>1, SameElements
  <2>3. Elements' = Elements \ {hndl_p}
    BY <1>1, <1>3, <2>2
  <2> QED BY <1>1, <2>1, <2>3, RemovesElement
<1>4. CASE hndl_p \in Members /\ ~is_leaf(hp[hndl_p])
  <2>1. pc' = "succ" /\ hndl_p' = hndl_p /\ UNCHANGED <<hn, used>>
    BY <1>4 DEF remove, Registers, treeVars, septVars
  <2>2. Elements' = Elements
    BY <1>1, <2>1, SameElements
  <2> QED BY <1>1, <2>1, <2>2, PendingFacts, PendingFactsPrime DEF Unmoved
<1> QED BY <1>2, <1>3, <1>4

LEMMA TakeSuccSet == ASSUME TreeInv, take_succ PROVE Abstract!Next
<1>1. pc = "succ" /\ pc' \in {"idle", "repop"}
  BY DEF take_succ, At, repop_if, Registers, Done
<1>2. hndl_p \in Handles
  BY <1>1 DEF TreeInv, OpInv
<1> QED BY <1>1, <1>2, TakeSuccStep, RemovesElement

\* Splits, merges and borrowing come after the effect of the call.
LEMMA RebalanceSet ==
    ASSUME TreeInv,
           \/ put \/ split_low \/ split_mid \/ split_high \/ new_root
           \/ repop_root \/ merge_right \/ merge_left \/ borrow_right \/ borrow_left
    PROVE  Unmoved
<1>1. CASE put \/ split_low \/ split_mid \/ split_high \/ new_root
  <2>1. Elements' = Elements
    BY <1>1, PutStep, SplitLowStep, SplitMidStep, SplitHighStep, NewRootStep
  <2>2. pc = "up"
    BY <1>1 DEF put, split_low, split_mid, split_high, new_root, Full, At
  <2>3. pc' \in {"up", "idle"}
    BY <1>1 DEF put, split_low, split_mid, split_high, new_root, split, Done
  <2> QED BY <2>1, <2>2, <2>3, PendingFacts, PendingFactsPrime DEF Unmoved
<1>2. CASE merge_right \/ merge_left \/ borrow_right \/ borrow_left
  <2>1. Elements' = Elements
    BY <1>2, MergeRightStep, MergeLeftStep, BorrowRightStep, BorrowLeftStep
  <2>2. pc = "repop"
    BY <1>2 DEF merge_right, merge_left, borrow_right, borrow_left, Underfull, At
  <2>3. pc' \in {"repop", "idle"}
    BY <1>2 DEF merge_right, merge_left, borrow_right, borrow_left, merge, borrow, after_merge,
                repop_if, Registers, Done
  <2> QED BY <2>1, <2>2, <2>3, PendingFacts, PendingFactsPrime DEF Unmoved
<1>3. CASE repop_root
  <2>1. pc = "repop" /\ pc' = "idle"
    BY <1>3 DEF repop_root, At, Done
  <2>2. Elements' = Elements
    <3>1. CASE hn[sept] = << >>
      BY <1>3, <3>1, RepopRootRelease
    <3>2. CASE hn[sept] # << >>
      BY <1>3, <2>1, <3>2, SameElements DEF repop_root, treeVars, septVars
    <3> QED BY <3>1, <3>2
  <2> QED BY <2>1, <2>2, PendingFacts, PendingFactsPrime DEF Unmoved
<1> QED BY <1>1, <1>2, <1>3

\* A call begins, which it does while none is in progress.
LEMMA CallSet ==
    ASSUME TreeInv, TreeInv',
           \/ Add \/ Destroy \/ found_remove
           \/ \E h \in Handles : InsertHandle(h) \/ RemoveHandle(h)
    PROVE  Abstract!Next \/ Unmoved
<1> USE DEF treeVars, septVars
<1>1. /\ pc \in {"idle", "found"} /\ UNCHANGED <<hn, used>>
      /\ pc' \in {"insert", "remove"} \/ (pc = "idle" /\ pc' = "idle")
  <2>1. CASE Add
    BY <2>1 DEF Add, Registers
  <2>2. CASE Destroy
    BY <2>2 DEF Destroy, Registers, opVars
  <2>3. CASE found_remove
    BY <2>3 DEF found_remove, At, Registers
  <2>4. ASSUME NEW h \in Handles, InsertHandle(h)
        PROVE  pc = "idle" /\ pc' = "insert" /\ UNCHANGED <<hn, used>>
    BY <2>4 DEF InsertHandle, Step, Registers
  <2>5. ASSUME NEW h \in Handles, RemoveHandle(h)
        PROVE  pc = "idle" /\ pc' \in {"idle", "remove"} /\ UNCHANGED <<hn, used>>
    BY <2>5 DEF RemoveHandle, Step, Registers, opVars
  <2> QED BY <2>1, <2>2, <2>3, <2>4, <2>5
<1>2. Elements' = Elements
  BY <1>1, SameElements
<1>3. CASE pc' \in {"insert", "remove"}
  <2>1. hndl_p' \in Handles
    BY <1>3 DEF TreeInv, OpInv
  <2> QED BY <1>1, <1>2, <1>3, <2>1, Calls
<1>4. CASE pc = "idle" /\ pc' = "idle"
  BY <1>2, <1>4, PendingFacts, PendingFactsPrime DEF Unmoved
<1> QED BY <1>1, <1>3, <1>4

LEMMA QuietSet ==
    ASSUME \/ succ_down \/ find \/ found_get
           \/ \E h \in Handles : Allocate(h) \/ AllocateFails(h) \/ Deallocate(h)
           \/ \E key \in Range(Key) : FindKey(key)
    PROVE  Unmoved
<1> USE DEF treeVars, septVars
<1>1. CASE succ_down
  <2>1. pc = "succ" /\ pc' = "succ" /\ hndl_p' = hndl_p /\ UNCHANGED <<hn, used>>
    BY <1>1 DEF succ_down, At, Registers
  <2>2. Elements' = Elements
    BY <2>1, SameElements
  <2> QED BY <2>1, <2>2, PendingFacts, PendingFactsPrime DEF Unmoved
<1>2. ASSUME pc \in {"idle", "find", "found"}, pc' \in {"idle", "find", "found"}, UNCHANGED <<hn, used>>
      PROVE  Unmoved
  <2>1. Elements' = Elements
    BY <1>2, SameElements
  <2> QED BY <1>2, <2>1, PendingFacts, PendingFactsPrime DEF Unmoved
<1>3. CASE find \/ found_get
  BY <1>2, <1>3 DEF find, found_get, At, Registers, Done
<1>4. ASSUME NEW h \in Handles, Allocate(h) \/ AllocateFails(h) \/ Deallocate(h)
      PROVE  Unmoved
  BY <1>2, <1>4 DEF Allocate, AllocateFails, Deallocate, Step, opVars
<1>5. ASSUME NEW key \in Range(Key), FindKey(key) PROVE Unmoved
  BY <1>2, <1>5 DEF FindKey, Step
<1> QED BY <1>1, <1>3, <1>4, <1>5

\* The B-tree is the set of KeyedSet.  A call of insert() adds its handle at one step if the
\* key is free, and nothing if it is taken; a call of remove() takes its handle away at one
\* step; and every other step, the splits, merges and borrowing that come before and after,
\* leaves the elements as they are.
THEOREM TreeRefinement == Spec => ImplementsSet
<1>1. Init => Abstract!Init
  BY DEF Init, Abstract!Init, Elements, Members, Pending
<1>2. TreeInv /\ TreeInv' /\ [Next]_vars => [Abstract!Next]_<<Elements, Pending>>
  <2> SUFFICES ASSUME TreeInv, TreeInv', [Next]_vars PROVE Abstract!Next \/ Unmoved
    BY DEF Unmoved
  <2>1. CASE insert
    BY <2>1, InsertSet
  <2>2. CASE search
    BY <2>2, SearchSet
  <2>3. CASE descend
    BY <2>3, DescendSet
  <2>4. CASE remove
    BY <2>4, RemoveSet
  <2>5. CASE take_succ
    BY <2>5, TakeSuccSet
  <2>6. CASE \/ put \/ split_low \/ split_mid \/ split_high \/ new_root
             \/ repop_root \/ merge_right \/ merge_left \/ borrow_right \/ borrow_left
    BY <2>6, RebalanceSet
  <2>7. CASE \/ Add \/ Destroy \/ found_remove
             \/ \E h \in Handles : InsertHandle(h) \/ RemoveHandle(h)
    BY <2>7, CallSet
  <2>8. CASE UNCHANGED vars
    BY <2>8 DEF vars, treeVars, septVars, opVars, Elements, Members, Pending, Unmoved
  <2> QED BY <2>1, <2>2, <2>3, <2>4, <2>5, <2>6, <2>7, <2>8, QuietSet DEF Next
<1> QED BY <1>1, <1>2, TreeInvariant, PTL DEF Spec, ImplementsSet, Abstract!Spec
=============================================================================
