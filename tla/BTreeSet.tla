------------------------------ MODULE BTreeSet ------------------------------
(***************************************************************************)
(* btree_set (include/dasynq/btree_set.h), the map from process ids to     *)
(* child watchers: a B-tree whose nodes ("septs") come from a reserve that *)
(* allocate() fills, so that insert() cannot fail.  A handle points to the *)
(* sept that holds it.                                                     *)
(*                                                                         *)
(* Each iteration of a loop (the binary search in a sept, the way down,    *)
(* the splits on the way up, the repopulation after a removal) is a step   *)
(* of its own, so that what holds on the way can be stated; no operation   *)
(* begins before the one in progress has ended.                            *)
(*                                                                         *)
(* A sept's arrays, filled up to num_vals(), are sequences: hn the handles *)
(* (with their keys) and kid the children, empty in a leaf.  Positions     *)
(* start at 1.  The reserve is a set: which spare sept is used next makes  *)
(* no difference.                                                          *)
(***************************************************************************)
EXTENDS Integers, Sequences, SequencesExt

CONSTANTS
    N,          \* values in a sept (template parameter, 8 by default)
    Handles,
    Key,        \* [Handles -> Int]: the value each handle is inserted with
    Septs,      \* the addresses that new can return
    Null, Wild, \* no sept, and the one "at" a null sn_reserve
    NoHandle,
    Loads,      \* sequences of handles to add before anything else
    MaxOps      \* bound on the operations after that

\* The code is correct for these orders only: the split leaves an odd order's
\* right half unsorted, and for N = 2 an empty parent need not be the root.
ASSUME OrderAssumption ==
    /\ N \in Nat /\ N >= 4 /\ N % 2 = 0
    /\ Key \in [Handles -> Int] /\ NoHandle \notin Handles
    /\ Null \notin Septs \cup {Wild} /\ Wild \notin Septs
    /\ Loads \subseteq Seq(Handles) /\ MaxOps \in Nat

VARIABLES
    hn, kid, parent,            \* septnode: functions of the sept's address
    hp,                         \* heapnode::parent: [Handles -> sept]
    root_sept, left_sept,
    used, sn_reserve,           \* the septs in the tree and those in reserve
    counts,     \* [alloced, septs, needed, next]: num_alloced, num_septs, ...
    slots,      \* SUBSET Handles: between allocate() and deallocate()
    pc,         \* where the operation in progress is, "idle" for none
    sept,       \* srch_sept, cursept, prev, sept: the sept it is at
    hndl_p,     \* the handle it inserts or removes, or has found
    pval,       \* the key it is looking for
    min, max,   \* the binary search's bounds
    left_down, right_down,      \* the two halves of a split, on the way up
    load,       \* handles still to be added first
    ops,        \* operations since
    stage,      \* "live", "dying" in the destructor, "gone"
    lo, hi,     \* auxiliary: the values of the tree left and right of a sept,
    height      \* and its distance from the leaves

septVars == <<hn, kid, parent, hp, used, lo, hi, height>>
treeVars == <<septVars, root_sept, left_sept, sn_reserve>>
slotVars == <<counts, slots>>
opVars   == <<pc, sept, hndl_p, pval, min, max, left_down, right_down>>
envVars  == <<load, ops, stage>>
vars == <<treeVars, slotVars, opVars, envVars>>

Half == N \div 2

Addresses == Septs \cup {Wild}

num_vals(s) == Len(hn[s])

is_leaf(s) == kid[s] = << >>

Live == used \cup sn_reserve

Members == UNION {Range(hn[s]) : s \in used}

-----------------------------------------------------------------------------
(* The operation in progress.                                              *)

At(p) == pc = p /\ UNCHANGED <<slotVars, envVars>>

Registers(p, s, h) ==
    /\ pc' = p /\ sept' = s /\ hndl_p' = h
    /\ UNCHANGED pval

SearchFrom(s, from, to) == Registers("search", s, hndl_p) /\ min' = from /\ max' = to

Done ==
    /\ pc' = "idle" /\ sept' = Null /\ hndl_p' = NoHandle /\ pval' = 0
    /\ min' = 0 /\ max' = 0 /\ left_down' = Null /\ right_down' = Null

NoSearch == UNCHANGED <<min, max, left_down, right_down>>

-----------------------------------------------------------------------------
(* Septs and slots.                                                        *)

\* The sept that alloc_sept() returns.
NextSept == IF sn_reserve = {} THEN Wild ELSE CHOOSE s \in sn_reserve : TRUE

alloc_sept == used' = used \cup {NextSept} /\ sn_reserve' = sn_reserve \ {NextSept}

release_septs(S) == used' = used \ S /\ sn_reserve' = sn_reserve \cup S

\* Whether alloc_slot() needs another sept, which new provides.
NeedsSept == counts.alloced + 1 = counts.next /\ counts.needed + 1 > counts.septs

Fresh == CHOOSE s \in Septs : s \notin Live

\* Mutant: one reserve node too few, as if up to N + 1 handles needed one sept.
alloc_slot_late ==
    /\ NeedsSept => Septs \ Live # {}
    /\ sn_reserve' = IF NeedsSept THEN sn_reserve \cup {Fresh} ELSE sn_reserve
    /\ counts' = IF counts.alloced + 1 # counts.next
                 THEN [counts EXCEPT !.alloced = @ + 1]
                 ELSE [alloced |-> counts.alloced + 1, needed |-> counts.needed + 1,
                       next |-> counts.next + Half + 1,
                       septs |-> IF NeedsSept THEN counts.septs + 1 ELSE counts.septs]

\* A slot, with another sept in reserve where the number of slots calls for it.
alloc_slot ==
    /\ NeedsSept => Septs \ Live # {}
    /\ sn_reserve' = IF NeedsSept THEN sn_reserve \cup {Fresh} ELSE sn_reserve
    /\ counts' = IF counts.alloced + 1 # counts.next
                 THEN [counts EXCEPT !.alloced = @ + 1]
                 ELSE [alloced |-> counts.alloced + 1, needed |-> counts.needed + 1,
                       next |-> counts.next + Half,
                       septs |-> IF NeedsSept THEN counts.septs + 1 ELSE counts.septs]

\* The slot given back; a spare sept is deleted, with a margin of one.
release_slot ==
    LET n == counts.alloced - 1
        need == counts.needed - 1
        drop == need < counts.septs - 1
    IN  IF n >= counts.next - Half
        THEN counts' = [counts EXCEPT !.alloced = n] /\ UNCHANGED sn_reserve
        ELSE /\ counts' = [alloced |-> n, needed |-> need, next |-> counts.next - Half,
                           septs |-> IF drop THEN counts.septs - 1 ELSE counts.septs]
             /\ sn_reserve' = IF drop THEN sn_reserve \ {NextSept} ELSE sn_reserve

-----------------------------------------------------------------------------
(* Inserting.                                                              *)

\* The last slot that the binary search in sept s takes into account (from 0).
last_slot(s) == IF is_leaf(s) THEN num_vals(s) - 1 ELSE N - 1

\* The beginning of insert(): an empty tree gets a root.
insert ==
    /\ At("insert")
    /\ LET r == NextSept IN
       IF root_sept # Null
       THEN /\ SearchFrom(root_sept, 0, last_slot(root_sept))
            /\ UNCHANGED treeVars
       ELSE /\ alloc_sept
            /\ hn' = [hn EXCEPT ![r] = << >>] /\ kid' = [kid EXCEPT ![r] = << >>]
            /\ parent' = [parent EXCEPT ![r] = Null]
            /\ root_sept' = r /\ left_sept' = r
            /\ SearchFrom(r, 0, -1)
            /\ lo' = [lo EXCEPT ![r] = NoHandle] /\ hi' = [hi EXCEPT ![r] = NoHandle]
            /\ height' = [height EXCEPT ![r] = 0]
            /\ UNCHANGED hp
    /\ UNCHANGED <<left_down, right_down>>

\* One iteration of the binary search; insert() returns if it meets the key.
search ==
    LET i == (min + max) \div 2
        hs == hn[sept]
        key == Key[hndl_p]
    IN
    /\ At("search") /\ min <= max
    /\ IF i >= Len(hs) \/ (i < Len(hs) /\ key < Key[hs[i + 1]])
       THEN SearchFrom(sept, min, i - 1) /\ UNCHANGED <<left_down, right_down>>
       ELSE IF Key[hs[i + 1]] = key THEN Done
       ELSE SearchFrom(sept, i + 1, max) /\ UNCHANGED <<left_down, right_down>>
    /\ UNCHANGED treeVars

\* The key is not in this sept: down to the child between the bounds.
descend ==
    /\ At("search") /\ min > max
    /\ IF is_leaf(sept)
       THEN Registers("up", sept, hndl_p) /\ min' = 0 /\ max' = 0
       ELSE LET k == kid[sept][max + 2] IN SearchFrom(k, 0, last_slot(k))
    /\ UNCHANGED <<treeVars, left_down, right_down>>

\* h put in the place where its key belongs among hs, and the children left and
\* right of it in place of the child that was there.
PlaceOf(hs, h) == Cardinality({i \in 1..Len(hs) : Key[hs[i]] < Key[h]}) + 1

WithVal(hs, h) == InsertAt(hs, PlaceOf(hs, h), h)

WithKids(ks, p) ==
    IF left_down = Null THEN << >>
    ELSE InsertAt([ks EXCEPT ![p] = left_down], p + 1, right_down)

\* Insertion into a sept with room.
put ==
    /\ At("up") /\ sept # Null /\ num_vals(sept) < N
    /\ hn' = [hn EXCEPT ![sept] = WithVal(@, hndl_p)]
    /\ kid' = [kid EXCEPT ![sept] = WithKids(@, PlaceOf(hn[sept], hndl_p))]
    /\ hp' = [hp EXCEPT ![hndl_p] = sept]
    /\ Done
    /\ UNCHANGED <<parent, used, lo, hi, height, root_sept, left_sept, sn_reserve>>

\* The upper half of a full sept goes to a new right sibling r, and the value up on
\* to the parent, between the two.
split(r, up, lowH, lowK, highH, highK) ==
    /\ alloc_sept
    /\ hn' = [hn EXCEPT ![sept] = lowH, ![r] = highH]
    /\ kid' = [kid EXCEPT ![sept] = lowK, ![r] = highK]
    /\ pc' = "up" /\ sept' = parent[sept] /\ hndl_p' = up
    /\ left_down' = sept /\ right_down' = r
    /\ lo' = [lo EXCEPT ![r] = up] /\ hi' = [hi EXCEPT ![sept] = up, ![r] = hi[sept]]
    /\ height' = [height EXCEPT ![r] = height[sept]]
    /\ UNCHANGED <<root_sept, left_sept, pval, min, max>>

MoveTo(r, H, h, s) == hp' = [g \in Handles |-> IF g = h THEN s ELSE IF g \in H THEN r ELSE hp[g]]

MoveKids(r, K) ==
    parent' = [q \in Addresses |-> IF q = r THEN parent[sept]
                                   ELSE IF q \in K THEN r ELSE parent[q]]

low_half(seq) == SubSeq(seq, 1, Half)
high_half(seq) == SubSeq(seq, Half + 1, N)
low_kids(seq) == SubSeq(seq, 1, Half + 1)
high_kids(seq) == SubSeq(seq, Half + 2, N + 1)

Full == At("up") /\ sept # Null /\ num_vals(sept) = N

\* h belongs in the lower half, whose last value goes up; the child between that
\* one and the upper half becomes the first of the sibling.
split_low ==
    LET r == NextSept
        low == low_half(hn[sept])
        high == high_half(hn[sept])
        rest == Front(low)
        ks == kid[sept]
        moved == IF left_down = Null THEN << >> ELSE SubSeq(ks, Half + 1, N + 1)
    IN
    /\ Full /\ Key[hndl_p] < Key[low[Half]]
    /\ split(r, low[Half], WithVal(rest, hndl_p),
             WithKids(SubSeq(ks, 1, Half), PlaceOf(rest, hndl_p)), high, moved)
    /\ MoveTo(r, Range(high), hndl_p, sept)
    /\ MoveKids(r, Range(moved))

\* h belongs between the halves and goes up itself.
split_mid ==
    LET r == NextSept
        low == low_half(hn[sept])
        high == high_half(hn[sept])
        ks == kid[sept]
        lowK == IF left_down = Null THEN << >> ELSE Append(SubSeq(ks, 1, Half), left_down)
        highK == IF left_down = Null THEN << >> ELSE <<right_down>> \o high_kids(ks)
    IN
    /\ Full /\ Key[low[Half]] <= Key[hndl_p] /\ Key[hndl_p] < Key[high[1]]
    /\ split(r, hndl_p, low, lowK, high, highK)
    /\ MoveTo(r, Range(high), NoHandle, Null)
    /\ MoveKids(r, Range(highK))

\* h belongs in the upper half, whose first value goes up.
split_high ==
    LET r == NextSept
        low == low_half(hn[sept])
        high == high_half(hn[sept])
        ks == kid[sept]
        lowK == IF left_down = Null THEN << >> ELSE low_kids(ks)
        highK == WithKids(high_kids(ks), PlaceOf(Tail(high), hndl_p))
    IN
    /\ Full /\ Key[low[Half]] <= Key[hndl_p] /\ Key[high[1]] <= Key[hndl_p]
    /\ split(r, high[1], low, lowK, WithVal(Tail(high), hndl_p), highK)
    /\ MoveTo(r, Range(high), hndl_p, r)
    /\ MoveKids(r, Range(highK))

\* The root has been split: a new one above the halves.
new_root ==
    LET r == NextSept IN
    /\ At("up") /\ sept = Null
    /\ alloc_sept
    /\ hn' = [hn EXCEPT ![r] = <<hndl_p>>]
    /\ kid' = [kid EXCEPT ![r] = <<left_down, right_down>>]
    /\ parent' = [parent EXCEPT ![r] = Null, ![left_down] = r, ![right_down] = r]
    /\ root_sept' = r
    /\ hp' = [hp EXCEPT ![hndl_p] = r]
    /\ Done
    /\ lo' = [lo EXCEPT ![r] = NoHandle] /\ hi' = [hi EXCEPT ![r] = NoHandle]
    /\ height' = [height EXCEPT ![r] = height[left_down] + 1]
    /\ UNCHANGED left_sept

-----------------------------------------------------------------------------
(* Removing.                                                               *)

Position(seq, x) == CHOOSE i \in 1..Len(seq) : seq[i] = x

is_queued(h) == hp[h] # Null

\* A leaf left with n values: repopulated if those are too few.
repop_if(s, n) == IF n < Half THEN Registers("repop", s, NoHandle) /\ NoSearch ELSE Done

\* remove(): from a leaf; an internal sept's value is replaced by its successor, the
\* first one of a leaf.  The handle's own pointer stays as it was, so that is_queued()
\* stays true; the sept that it leads to after a removal does not hold the handle.
remove ==
    LET s == hp[hndl_p]
        i == Position(hn[s], hndl_p)
    IN
    /\ At("remove")
    /\ IF hndl_p \notin Members THEN Done /\ UNCHANGED treeVars
       ELSE IF is_leaf(s)
       THEN /\ hn' = [hn EXCEPT ![s] = RemoveAt(@, i)]
            /\ repop_if(s, num_vals(s) - 1)
            /\ UNCHANGED <<kid, parent, hp, used, lo, hi, height, root_sept, left_sept,
                           sn_reserve>>
       ELSE /\ Registers("succ", kid[s][i + 1], hndl_p)
            /\ NoSearch /\ UNCHANGED treeVars

\* As far as possible to the left.
succ_down ==
    /\ At("succ") /\ ~is_leaf(sept)
    /\ Registers("succ", kid[sept][1], hndl_p)
    /\ NoSearch /\ UNCHANGED treeVars

take_succ ==
    LET s == hp[hndl_p]
        i == Position(hn[s], hndl_p)
        next == hn[sept][1]
    IN
    /\ At("succ") /\ is_leaf(sept)
    /\ hn' = [hn EXCEPT ![s] = [@ EXCEPT ![i] = next], ![sept] = Tail(@)]
    /\ hp' = [hp EXCEPT ![next] = s]
    /\ repop_if(sept, num_vals(sept) - 1)
    /\ lo' = [q \in Addresses |-> IF lo[q] = hndl_p THEN next ELSE lo[q]]
    /\ hi' = [q \in Addresses |-> IF hi[q] = hndl_p THEN next ELSE hi[q]]
    /\ UNCHANGED <<kid, parent, used, height, root_sept, left_sept, sn_reserve>>

\* repop_node() at the root: released if empty.
repop_root ==
    /\ At("repop") /\ parent[sept] = Null
    /\ IF hn[sept] # << >> THEN UNCHANGED treeVars
       ELSE /\ release_septs({sept})
            /\ root_sept' = Null /\ left_sept' = Null
            /\ UNCHANGED <<hn, kid, parent, hp, lo, hi, height>>
    /\ Done

\* Mutant: a parent left with too few values by a merge is not repopulated.
after_merge_once(p) == Done

\* After a merge repop_node() goes on with the parent if that has too few values.
after_merge(p) == IF Len(hn[p]) = 1 THEN Done ELSE repop_if(p, Len(hn[p]) - 1)

\* rsibling r and the value at index of the parent p are merged into lsibling l.  An
\* emptied parent "must be root".
merge(l, r, index) ==
    LET p == parent[l]
        hs == <<hn[p][index]>> \o hn[r]
        emptied == Len(hn[p]) = 1
    IN
    /\ hn' = [hn EXCEPT ![l] = @ \o hs, ![p] = RemoveAt(@, index)]
    /\ kid' = [kid EXCEPT ![l] = @ \o kid[r], ![p] = RemoveAt(@, index + 1)]
    /\ parent' = [q \in Addresses |->
                    IF q \in Range(kid[r]) THEN l
                    ELSE IF q = l /\ emptied THEN Null ELSE parent[q]]
    /\ hp' = [h \in Handles |-> IF h \in Range(hs) THEN l ELSE hp[h]]
    /\ release_septs(IF emptied THEN {r, p} ELSE {r})
    /\ root_sept' = IF emptied THEN l ELSE root_sept
    /\ after_merge(p)
    /\ hi' = [hi EXCEPT ![l] = hi[r]]
    /\ UNCHANGED <<lo, height, left_sept>>

Fits(a, b) == num_vals(a) + num_vals(b) + 1 <= N

\* The index of sept in its parent, and its siblings.
IsFirst  == kid[parent[sept]][1] = sept
Index    == Position(kid[parent[sept]], sept)
rsibling == kid[parent[sept]][2]
lsibling == kid[parent[sept]][Index - 1]

Underfull == At("repop") /\ parent[sept] # Null

merge_right == Underfull /\ IsFirst /\ Fits(sept, rsibling) /\ merge(sept, rsibling, 1)

merge_left ==
    Underfull /\ ~IsFirst /\ Fits(lsibling, sept) /\ merge(lsibling, sept, Index - 1)

\* Mutant: the parent's value is overwritten before it is passed on.
passed_down_late(i, up) == up

\* What sept gets from the parent when up takes its place there.
passed_down(i, up) == hn[parent[sept]][i]

\* The pointers when a value moves from a sibling through index i of the parent to
\* sept, and with it the child k (a sequence of at most one).
borrow(i, k, up) ==
    /\ hp' = [hp EXCEPT ![passed_down(i, up)] = sept, ![up] = parent[sept]]
    /\ parent' = [q \in Addresses |-> IF q \in Range(k) THEN sept ELSE parent[q]]
    /\ Done
    /\ UNCHANGED <<used, height, root_sept, left_sept, sn_reserve>>

borrow_right ==
    LET p == parent[sept]
        r == rsibling
        k == IF is_leaf(r) THEN << >> ELSE <<kid[r][1]>>
        up == hn[r][1]
    IN
    /\ Underfull /\ IsFirst /\ ~Fits(sept, r)
    /\ hn' = [hn EXCEPT ![sept] = Append(@, passed_down(1, up)), ![r] = Tail(@),
                        ![p] = [@ EXCEPT ![1] = up]]
    /\ kid' = [kid EXCEPT ![sept] = @ \o k, ![r] = IF is_leaf(r) THEN @ ELSE Tail(@)]
    /\ borrow(1, k, up)
    /\ lo' = [lo EXCEPT ![r] = up] /\ hi' = [hi EXCEPT ![sept] = up]

borrow_left ==
    LET p == parent[sept]
        l == lsibling
        i == Index - 1
        k == IF is_leaf(l) THEN << >> ELSE <<Last(kid[l])>>
        up == Last(hn[l])
    IN
    /\ Underfull /\ ~IsFirst /\ ~Fits(l, sept)
    /\ hn' = [hn EXCEPT ![sept] = <<passed_down(i, up)>> \o @, ![l] = Front(@),
                        ![p] = [@ EXCEPT ![i] = up]]
    /\ kid' = [kid EXCEPT ![sept] = k \o @, ![l] = IF is_leaf(l) THEN @ ELSE Front(@)]
    /\ borrow(i, k, up)
    /\ lo' = [lo EXCEPT ![sept] = up] /\ hi' = [hi EXCEPT ![l] = up]

-----------------------------------------------------------------------------
(* Finding.                                                                *)

\* The first position among hs whose key is not less.
FirstFrom(hs, key) ==
    CHOOSE j \in 1..(Len(hs) + 1) :
      /\ j <= Len(hs) => Key[hs[j]] >= key
      /\ \A k \in 1..(j - 1) : Key[hs[k]] < key

\* Mutant: only leaves are searched.
find_in_leaves ==
    LET hs == hn[sept]
        i == FirstFrom(hs, pval)
    IN
    /\ At("find")
    /\ IF sept = Null THEN Registers("found", Null, NoHandle)
       ELSE IF i <= Len(hs) /\ (i <= Len(hs) => Key[hs[i]] = pval) /\ is_leaf(sept)
       THEN Registers("found", Null, hs[i])
       ELSE IF is_leaf(sept) THEN Registers("found", Null, NoHandle)
       ELSE Registers("find", kid[sept][i], NoHandle)
    /\ NoSearch /\ UNCHANGED treeVars

\* One iteration of the loop of find().
find ==
    LET hs == hn[sept]
        i == FirstFrom(hs, pval)
    IN
    /\ At("find")
    /\ IF sept = Null THEN Registers("found", Null, NoHandle)
       ELSE IF i <= Len(hs) /\ (i <= Len(hs) => Key[hs[i]] = pval)
       THEN Registers("found", Null, hs[i])
       ELSE IF is_leaf(sept) THEN Registers("found", Null, NoHandle)
       ELSE Registers("find", kid[sept][i], NoHandle)
    /\ NoSearch /\ UNCHANGED treeVars

\* pid_map::get(), and remove() of a key that is not there.
found_get == At("found") /\ Done /\ UNCHANGED treeVars

\* pid_map::remove() of a key.
found_remove ==
    /\ At("found") /\ hndl_p # NoHandle
    /\ Registers("remove", Null, hndl_p)
    /\ NoSearch /\ UNCHANGED treeVars

-----------------------------------------------------------------------------
(* The operations.                                                         *)

Init ==
    /\ hn = [s \in Addresses |-> << >>] /\ kid = [s \in Addresses |-> << >>]
    /\ parent = [s \in Addresses |-> Null]
    /\ hp = [h \in Handles |-> Null]
    /\ root_sept = Null /\ left_sept = Null
    /\ used = {} /\ sn_reserve = {}
    /\ counts = [alloced |-> 0, septs |-> 0, needed |-> 0, next |-> 1]
    /\ slots = {}
    /\ pc = "idle" /\ sept = Null /\ hndl_p = NoHandle /\ pval = 0
    /\ min = 0 /\ max = 0 /\ left_down = Null /\ right_down = Null
    /\ load \in Loads /\ ops = 0 /\ stage = "live"
    /\ lo = [s \in Addresses |-> NoHandle] /\ hi = [s \in Addresses |-> NoHandle]
    /\ height = [s \in Addresses |-> 0]

\* pid_map::add(): allocate() and insert().
Add ==
    /\ pc = "idle" /\ stage = "live" /\ load # << >> /\ Head(load) \notin slots
    /\ load' = Tail(load)
    /\ slots' = slots \cup {Head(load)}
    /\ alloc_slot
    /\ Registers("insert", Null, Head(load)) /\ NoSearch
    /\ UNCHANGED <<septVars, root_sept, left_sept, ops, stage>>

Step ==
    /\ pc = "idle" /\ stage = "live" /\ load = << >>
    /\ ops < MaxOps /\ ops' = ops + 1
    /\ UNCHANGED <<load, stage, septVars, root_sept, left_sept>>

Allocate(h) ==
    /\ Step
    /\ h \notin slots
    /\ slots' = slots \cup {h}
    /\ alloc_slot
    /\ UNCHANGED opVars

\* A sept is needed and new throws: the counts are put back.
AllocateFails(h) ==
    /\ Step
    /\ h \notin slots
    /\ NeedsSept
    /\ UNCHANGED <<sn_reserve, slotVars, opVars>>

Deallocate(h) ==
    /\ Step
    /\ h \in slots \ Members
    /\ slots' = slots \ {h}
    /\ release_slot
    /\ UNCHANGED opVars

InsertHandle(h) ==
    /\ Step
    /\ h \in slots \ Members
    /\ Registers("insert", Null, h)
    /\ NoSearch /\ UNCHANGED <<sn_reserve, slotVars>>

\* pid_map::remove() of a handle.
RemoveHandle(h) ==
    /\ Step
    /\ h \in slots
    /\ IF is_queued(h) THEN Registers("remove", Null, h) /\ NoSearch ELSE UNCHANGED opVars
    /\ UNCHANGED <<sn_reserve, slotVars>>

FindKey(key) ==
    /\ Step
    /\ pc' = "find" /\ sept' = root_sept /\ hndl_p' = NoHandle /\ pval' = key
    /\ NoSearch /\ UNCHANGED <<sn_reserve, slotVars>>

\* ~btree_set(): the first value of left_sept is removed until there is none, then
\* the reserve is deleted.  (Started after at most one operation: a bound.)
Destroy ==
    /\ pc = "idle" /\ load = << >> /\ stage # "gone" /\ (stage = "live" => ops <= 1)
    /\ IF left_sept # Null
       THEN /\ Registers("remove", Null, hn[left_sept][1]) /\ NoSearch
            /\ stage' = "dying"
            /\ UNCHANGED <<counts, sn_reserve>>
       ELSE /\ sn_reserve' = {}
            /\ counts' = [counts EXCEPT !.septs = 0]
            /\ stage' = "gone"
            /\ UNCHANGED opVars
    /\ UNCHANGED <<slots, load, ops, septVars, root_sept, left_sept>>

Next ==
    \/ Add
    \/ \E h \in Handles : Allocate(h) \/ AllocateFails(h) \/ Deallocate(h)
                           \/ InsertHandle(h) \/ RemoveHandle(h)
    \/ \E key \in Range(Key) : FindKey(key)
    \/ Destroy
    \/ insert \/ search \/ descend \/ put \/ split_low \/ split_mid \/ split_high \/ new_root
    \/ remove \/ succ_down \/ take_succ
    \/ repop_root \/ merge_right \/ merge_left \/ borrow_right \/ borrow_left
    \/ find \/ found_get \/ found_remove

Spec == Init /\ [][Next]_vars

-----------------------------------------------------------------------------
(* Properties.                                                             *)

\* Whether h is on the right side of a neighbour; NoHandle is none.
After(a, h)  == a = NoHandle \/ Key[a] < Key[h]
Before(h, b) == b = NoHandle \/ Key[h] < Key[b]

\* The values on either side of child i of sept s.
LeftOf(s, i)  == IF i = 1 THEN lo[s] ELSE hn[s][i - 1]
RightOf(s, i) == IF i = Len(kid[s]) THEN hi[s] ELSE hn[s][i]

\* The halves of a split are still to be linked to the parent.
Linking == pc = "up" /\ left_down # Null

\* Where k is child of a sept, the sept up to which its place extends.
UpTo(k) == IF Linking /\ k = left_down THEN right_down ELSE k

\* A sept's values are in order and between its neighbours, and know where they are.
SeptInOrder(s) ==
    /\ num_vals(s) <= N
    /\ \A i, j \in 1..num_vals(s) : i < j => Key[hn[s][i]] < Key[hn[s][j]]
    /\ \A i \in 1..num_vals(s) :
         After(lo[s], hn[s][i]) /\ Before(hn[s][i], hi[s]) /\ hp[hn[s][i]] = s

\* Its children, one more than values unless it is a leaf, stand between them.
ChildrenAgree(s) ==
    /\ is_leaf(s) <=> height[s] = 0
    /\ ~is_leaf(s) => Len(kid[s]) = num_vals(s) + 1
    /\ \A i \in 1..Len(kid[s]) :
         LET k == kid[s][i] IN
         /\ k \in used /\ parent[k] = s /\ height[k] = height[s] - 1
         /\ lo[k] = LeftOf(s, i) /\ hi[UpTo(k)] = RightOf(s, i)

\* It is a child of its parent.
ParentAgrees(s) ==
    /\ parent[s] \in used /\ height[s] < height[root_sept]
    /\ \E i \in 1..Len(kid[parent[s]]) : kid[parent[s]][i] = s

\* Its fill: at least half, but for the root.
Filled(s) == num_vals(s) >= (IF s = root_sept THEN 1 ELSE Half)

RootAgrees ==
    /\ root_sept = Null <=> used = {}
    /\ root_sept = Null <=> left_sept = Null
    /\ root_sept # Null =>
         /\ root_sept \in used /\ parent[root_sept] = Null
         /\ lo[root_sept] = NoHandle /\ hi[UpTo(root_sept)] = NoHandle
         /\ left_sept \in used /\ is_leaf(left_sept) /\ lo[left_sept] = NoHandle

\* Through any run of splits, merges and borrowing (insert, remove, repop_node, merge)
\* the septs form a B-tree: values in order, every sept but the root at least half
\* full and none overfull, all leaves equally deep.  The pointers kept beside it agree
\* with it: each sept's parent, each member's sept (which remove() starts from), and
\* left_sept, the first leaf, which the destructor empties the tree from.
WellFormed ==
    pc = "idle" =>
      /\ RootAgrees
      /\ \A s \in used :
           /\ SeptInOrder(s) /\ ChildrenAgree(s) /\ Filled(s)
           /\ s # root_sept => ParentAgrees(s)

\* insert() never finds the reserve empty, although it may split a sept at each
\* level: allocate() has counted enough septs, and deallocate() keeps them.
ReserveSuffices ==
    /\ Wild \notin used
    /\ Cardinality(Live) = counts.septs
    /\ counts.alloced = Cardinality(slots)

\* find() finds a handle by its key exactly if it is a member.
FindsMembers ==
    pc = "found" => {h \in Members : Key[h] = pval} = {hndl_p} \ {NoHandle}

\* The members, with the value that a split has taken out to put into the parent.
Elements == IF pc = "up" THEN Members \cup {hndl_p} ELSE Members

\* The call whose effect on them is still to come.
Pending == IF pc \in {"insert", "search"} THEN <<"insert", hndl_p>>
           ELSE IF pc \in {"remove", "succ"} THEN <<"remove", hndl_p>>
           ELSE << >>

Abstract == INSTANCE KeyedSet WITH members <- Elements, call <- Pending

\* The tree is a set of handles with unique keys: insert() adds its handle or notices
\* that the key is taken, remove() takes away its handle, and no split, merge or
\* borrowing on the way loses another or brings one back.
ImplementsSet == Abstract!Spec
=============================================================================
