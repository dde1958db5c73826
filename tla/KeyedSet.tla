------------------------------ MODULE KeyedSet ------------------------------
(***************************************************************************)
(* What btree_set promises about its contents: a set of handles with at    *)
(* most one handle for each key.  Each call has its effect once, at one    *)
(* step, and nothing but the effect of a call changes the set: insert()    *)
(* makes its handle a member unless the key is taken, and remove() takes   *)
(* its handle away and no other.                                           *)
(***************************************************************************)
CONSTANTS Handles, Key

VARIABLES
    members,
    call        \* <<operation, handle>> of a call without effect yet, or << >>

Init == members = {} /\ call = << >>

Call(op, h) == call = << >> /\ call' = <<op, h>> /\ UNCHANGED members

Taken(h) == \E g \in members : Key[g] = Key[h]

Insert(h) ==
    /\ call = <<"insert", h>> /\ call' = << >>
    /\ members' = IF Taken(h) THEN members ELSE members \cup {h}

Remove(h) ==
    /\ call = <<"remove", h>> /\ call' = << >>
    /\ members' = members \ {h}

Next == \E h \in Handles : Call("insert", h) \/ Call("remove", h) \/ Insert(h) \/ Remove(h)

Spec == Init /\ [][Next]_<<members, call>>
=============================================================================
