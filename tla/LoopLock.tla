------------------------------ MODULE LoopLock ------------------------------
(***************************************************************************)
(* What event_loop's poll-wait/attention lock promises, without queues,    *)
(* condition variables or interrupts: a mutual-exclusion lock with two     *)
(* classes of claimants.  Threads that want attention (deregistration,     *)
(* poll()) are served before threads that want to wait for events (run()), *)
(* whenever the lock changes hands.                                        *)
(***************************************************************************)
CONSTANT Threads

VARIABLES
    holder,     \* {} or {t}: the thread that owns the lock
    busy,       \* {} or {t}: the owner, once it knows and acts on it
    urgent,     \* threads waiting for attention
    patient     \* threads waiting to poll

lockVars == <<holder, busy, urgent, patient>>

Init == holder = {} /\ busy = {} /\ urgent = {} /\ patient = {}

Claimable(t) == t \notin holder \cup urgent \cup patient

Claim(t) ==
    /\ holder = {} /\ Claimable(t)
    /\ holder' = {t} /\ busy' = {t}
    /\ UNCHANGED <<urgent, patient>>

WaitUrgently(t) ==
    /\ holder # {} /\ Claimable(t)
    /\ urgent' = urgent \cup {t}
    /\ UNCHANGED <<holder, busy, patient>>

WaitPatiently(t) ==
    /\ holder # {} /\ Claimable(t)
    /\ patient' = patient \cup {t}
    /\ UNCHANGED <<holder, busy, urgent>>

\* The new owner of a lock that was handed over starts to use it.
Begin(t) ==
    /\ holder = {t} /\ busy = {}
    /\ busy' = {t}
    /\ UNCHANGED <<holder, urgent, patient>>

\* The owner gives the lock to an urgent claimant, to a patient one only if
\* there is no urgent one, and to nobody only if there is no claimant.
Release(t) ==
    /\ busy = {t} /\ holder = {t}
    /\ busy' = {}
    /\ \/ \E u \in urgent :
            holder' = {u} /\ urgent' = urgent \ {u} /\ UNCHANGED patient
       \/ \E u \in patient :
            urgent = {} /\ holder' = {u} /\ patient' = patient \ {u} /\ UNCHANGED urgent
       \/ urgent = {} /\ patient = {} /\ holder' = {} /\ UNCHANGED <<urgent, patient>>

Next == \E t \in Threads :
    Claim(t) \/ WaitUrgently(t) \/ WaitPatiently(t) \/ Begin(t) \/ Release(t)

Spec == Init /\ [][Next]_lockVars
=============================================================================
