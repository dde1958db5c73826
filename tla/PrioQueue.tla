----------------------------- MODULE PrioQueue ------------------------------
(***************************************************************************)
(* What a heap promises about its contents, whatever order it keeps them   *)
(* in: a handle is queued once, with the priority it was last given, from  *)
(* insert() until it is removed or pulled.                                 *)
(***************************************************************************)
CONSTANTS Handles, Prios

VARIABLE entries        \* {<<handle, priority>>}

Init == entries = {}

Queued(h) == \E p \in Prios : <<h, p>> \in entries

Insert(h, p) ==
    /\ ~Queued(h)
    /\ entries' = entries \cup {<<h, p>>}

Remove(h) ==
    /\ Queued(h)
    /\ entries' = {e \in entries : e[1] # h}

Change(h, p) ==
    /\ Queued(h)
    /\ entries' = {e \in entries : e[1] # h} \cup {<<h, p>>}

Next == \E h \in Handles :
    Remove(h) \/ \E p \in Prios : Insert(h, p) \/ Change(h, p)

Spec == Init /\ [][Next]_entries
=============================================================================
