---------------------------- MODULE TimersProofs ----------------------------
(***************************************************************************)
(* Proofs about the timers, for any bounds and any fan-out of the heap.    *)
(*                                                                         *)
(* What the heap operations do to the queue comes from DaryHeapProofs,     *)
(* whose lemmas are about any vector and positions.  That module also      *)
(* brings the variables of DaryHeap, of which the timers' specification    *)
(* says nothing.                                                           *)
(***************************************************************************)
EXTENDS Timers, DaryHeapProofs

-----------------------------------------------------------------------------
(* The queue as a function from timers to times.                           *)

\* The positions of queue q are right, and when its timers expire.
GoodQueue(q) == Sound(q.vec, q.idx)

Expiry(q) ==
    [w \in Handles |-> IF q.idx[w] # NotQueued THEN q.vec[q.idx[w]].prio ELSE NotQueued]

\* What the heap's lemmas need to know of the constants.
LEMMA HeapOfTimers == Prios = Nat /\ Handles = Timers /\ N \in Nat \ {0}
BY TimersAssumption DEF Timers

\* Each node gives the expiry of its timer, and each timer that has one has a node.
LEMMA ExpiryHeld ==
    ASSUME NEW q, GoodQueue(q)
    PROVE  /\ \A n \in Held(q.vec) : n.hnd \in Handles /\ q.idx[n.hnd] # NotQueued
                                     /\ Expiry(q)[n.hnd] = n.prio /\ n.prio \in Nat
           /\ \A w \in Handles : q.idx[w] # NotQueued => \E n \in Held(q.vec) : n.hnd = w
           /\ Expiry(q) \in [Handles -> Nat \cup {NotQueued}]
           /\ \A w \in Handles : q.idx[w] = NotQueued <=> Expiry(q)[w] = NotQueued
<1> DEFINE v == q.vec
           idx == q.idx
<1>1. /\ v \in Seq(Node) /\ idx \in [Handles -> Int] /\ Len(v) \in Nat
      /\ \A k \in 1..Len(v) : idx[v[k].hnd] = k /\ v[k].hnd \in Handles /\ v[k].prio \in Nat
      /\ \A w \in Handles : idx[w] # NotQueued => idx[w] \in 1..Len(v) /\ v[idx[w]].hnd = w
  <2>1. /\ v \in Seq(Node) /\ idx \in [Handles -> Int] /\ Len(v) \in Nat
        /\ \A k \in 1..Len(v) : idx[v[k].hnd] = k
        /\ \A w \in Handles : idx[w] # NotQueued => idx[w] \in 1..Len(v) /\ v[idx[w]].hnd = w
    BY DEF GoodQueue, Sound, Accurate
  <2>2. \A k \in 1..Len(v) : v[k] \in Node
    BY <2>1
  <2> QED BY <2>1, <2>2, HeapOfTimers DEF Node
<1>2. ASSUME NEW k \in 1..Len(v)
      PROVE  /\ v[k].hnd \in Handles /\ idx[v[k].hnd] # NotQueued
             /\ Expiry(q)[v[k].hnd] = v[k].prio /\ v[k].prio \in Nat
  <2>1. idx[v[k].hnd] = k /\ v[k].hnd \in Handles /\ v[k].prio \in Nat /\ k # NotQueued
    BY <1>1 DEF NotQueued
  <2> QED BY <2>1 DEF Expiry
<1>3. ASSUME NEW w \in Handles, idx[w] # NotQueued
      PROVE  v[idx[w]] \in Held(v) /\ v[idx[w]].hnd = w /\ Expiry(q)[w] = v[idx[w]].prio
             /\ v[idx[w]].prio \in Nat
  BY <1>1, <1>3 DEF Held, Expiry
<1>4. \A w \in Handles : Expiry(q)[w] = NotQueued \/ Expiry(q)[w] \in Nat
  <2>1. ASSUME NEW w \in Handles, idx[w] = NotQueued PROVE Expiry(q)[w] = NotQueued
    BY <2>1 DEF Expiry
  <2> QED BY <1>3, <2>1
<1>5. Expiry(q) \in [Handles -> Nat \cup {NotQueued}]
  BY <1>4 DEF Expiry
<1>6. \A w \in Handles : idx[w] = NotQueued <=> Expiry(q)[w] = NotQueued
  BY <1>3 DEF Expiry, NotQueued
<1>7. \A n \in Held(v) : \E k \in 1..Len(v) : n = v[k]
  BY DEF Held
<1> QED BY <1>2, <1>3, <1>5, <1>6, <1>7

\* A heap that holds the nodes of another one, but for that of h, and a node for h.
LEMMA ExpiryChanged ==
    ASSUME NEW q, GoodQueue(q), NEW u, GoodQueue(u),
           NEW h \in Handles, NEW p \in Nat,
           \E n \in Held(u.vec) : n.hnd = h /\ n.prio = p,
           \A n \in Held(q.vec) : n.hnd # h => n \in Held(u.vec),
           \A n \in Held(u.vec) : n.hnd # h => n \in Held(q.vec)
    PROVE  Expiry(u) = [Expiry(q) EXCEPT ![h] = p]
<1>1. Expiry(u)[h] = p
  <2>1. PICK n \in Held(u.vec) : n.hnd = h /\ n.prio = p
    OBVIOUS
  <2> QED BY <2>1, ExpiryHeld
<1>2. ASSUME NEW w \in Handles, w # h PROVE Expiry(u)[w] = Expiry(q)[w]
  <2>1. CASE u.idx[w] # NotQueued
    <3>1. PICK n \in Held(u.vec) : n.hnd = w
      BY <2>1, ExpiryHeld
    <3>2. n \in Held(q.vec)
      BY <1>2, <3>1
    <3> QED BY <3>1, <3>2, ExpiryHeld
  <2>2. CASE q.idx[w] # NotQueued
    <3>1. PICK n \in Held(q.vec) : n.hnd = w
      BY <2>2, ExpiryHeld
    <3>2. n \in Held(u.vec)
      BY <1>2, <3>1
    <3> QED BY <3>1, <3>2, ExpiryHeld
  <2>3. CASE u.idx[w] = NotQueued /\ q.idx[w] = NotQueued
    BY <2>3 DEF Expiry
  <2> QED BY <2>1, <2>2, <2>3
<1>3. /\ Expiry(u) \in [Handles -> Nat \cup {NotQueued}]
      /\ Expiry(q) \in [Handles -> Nat \cup {NotQueued}]
  BY ExpiryHeld
<1> QED BY <1>1, <1>2, <1>3

\* A heap that holds the nodes of another one, but for that of h.
LEMMA ExpiryDropped ==
    ASSUME NEW q, GoodQueue(q), NEW u, GoodQueue(u), NEW h \in Handles,
           \A n \in Held(q.vec) : n.hnd # h => n \in Held(u.vec),
           \A n \in Held(u.vec) : n.hnd # h /\ n \in Held(q.vec)
    PROVE  Expiry(u) = [Expiry(q) EXCEPT ![h] = NotQueued]
<1>1. Expiry(u)[h] = NotQueued
  BY ExpiryHeld
<1>2. ASSUME NEW w \in Handles, w # h PROVE Expiry(u)[w] = Expiry(q)[w]
  <2>1. CASE u.idx[w] # NotQueued
    <3>1. PICK n \in Held(u.vec) : n.hnd = w
      BY <2>1, ExpiryHeld
    <3> QED BY <3>1, ExpiryHeld
  <2>2. CASE q.idx[w] # NotQueued
    <3>1. PICK n \in Held(q.vec) : n.hnd = w
      BY <2>2, ExpiryHeld
    <3>2. n \in Held(u.vec)
      BY <1>2, <3>1
    <3> QED BY <3>1, <3>2, ExpiryHeld
  <2>3. CASE u.idx[w] = NotQueued /\ q.idx[w] = NotQueued
    BY <2>3 DEF Expiry
  <2> QED BY <2>1, <2>2, <2>3
<1>3. /\ Expiry(u) \in [Handles -> Nat \cup {NotQueued}]
      /\ Expiry(q) \in [Handles -> Nat \cup {NotQueued}]
  BY ExpiryHeld
<1> QED BY <1>1, <1>2, <1>3

\* insert() arms a timer.
LEMMA InsertArms ==
    ASSUME NEW q, GoodQueue(q), NEW h \in Handles, NEW p \in Nat,
           q.idx[h] = NotQueued, NEW res, res = inserted(q.vec, q.idx, h, p)
    PROVE  GoodQueue(res) /\ Expiry(res) = [Expiry(q) EXCEPT ![h] = p]
<1>1. /\ GoodQueue(res)
      /\ Held(res.vec) = Held(q.vec) \cup {[prio |-> p, hnd |-> h]}
  <2>1. p \in Prios
    BY HeapOfTimers
  <2> QED BY <2>1, InsertAdds DEF GoodQueue
<1>2. \A n \in Held(res.vec) : n.hnd # h => n \in Held(q.vec)
  BY <1>1
<1>3. /\ \E n \in Held(res.vec) : n.hnd = h /\ n.prio = p
      /\ \A n \in Held(q.vec) : n.hnd # h => n \in Held(res.vec)
  <2>1. [prio |-> p, hnd |-> h] \in Held(res.vec)
    BY <1>1, Zenon
  <2> QED BY <1>1, <2>1
<1>4. Expiry(res) = [Expiry(q) EXCEPT ![h] = p]
  BY <1>1, <1>2, <1>3, ExpiryChanged
<1> QED BY <1>1, <1>4, Zenon

\* set_priority() arms a timer again.
LEMMA PrioritiseArms ==
    ASSUME NEW q, GoodQueue(q), NEW h \in Handles, NEW p \in Nat,
           q.idx[h] # NotQueued, NEW res, res = prioritised(q.vec, q.idx, h, p)
    PROVE  GoodQueue(res) /\ Expiry(res) = [Expiry(q) EXCEPT ![h] = p]
<1>1. /\ GoodQueue(res)
      /\ q.idx[h] \in 1..Len(q.vec) /\ q.vec[q.idx[h]].hnd = h
      /\ Held(res.vec) = {q.vec[k] : k \in (1..Len(q.vec)) \ {q.idx[h]}}
                          \cup {[prio |-> p, hnd |-> h]}
  <2>1. p \in Prios
    BY HeapOfTimers
  <2>2. Sound(q.vec, q.idx)
    BY DEF GoodQueue
  <2>3. /\ Sound(res.vec, res.idx)
        /\ q.idx[h] \in 1..Len(q.vec) /\ q.vec[q.idx[h]].hnd = h
        /\ Held(res.vec) = {q.vec[k] : k \in (1..Len(q.vec)) \ {q.idx[h]}}
                            \cup {[prio |-> p, hnd |-> h]}
    <3> DEFINE v == q.vec
               idx == q.idx
    <3>1. Sound(v, idx) /\ idx[h] # NotQueued /\ res = prioritised(v, idx, h, p)
      BY <2>2
    <3> HIDE DEF v, idx
    <3>2. /\ Sound(res.vec, res.idx) /\ idx[h] \in 1..Len(v) /\ v[idx[h]].hnd = h
          /\ Held(res.vec) = {v[k] : k \in (1..Len(v)) \ {idx[h]}} \cup {[prio |-> p, hnd |-> h]}
      BY <2>1, <3>1, SetPriorityReplaces
    <3> QED BY <3>2, Zenon DEF v, idx
  <2> QED BY <2>3, Zenon DEF GoodQueue
<1>2. \A n \in Held(res.vec) : n.hnd # h => n \in Held(q.vec)
  <2>1. \A n \in {q.vec[k] : k \in (1..Len(q.vec)) \ {q.idx[h]}} : n \in Held(q.vec)
    BY DEF Held
  <2>2. [prio |-> p, hnd |-> h].hnd = h
    OBVIOUS
  <2> QED BY <1>1, <2>1, <2>2, Zenon
<1>3. /\ \E n \in Held(res.vec) : n.hnd = h /\ n.prio = p
      /\ \A n \in Held(q.vec) : n.hnd # h => n \in Held(res.vec)
  <2>1. \E n \in Held(res.vec) : n.hnd = h /\ n.prio = p
    <3>1. [prio |-> p, hnd |-> h] \in Held(res.vec)
      BY <1>1, Zenon
    <3> QED BY <3>1
  <2>2. ASSUME NEW n \in Held(q.vec), n.hnd # h PROVE n \in Held(res.vec)
    <3>1. PICK k \in 1..Len(q.vec) : n = q.vec[k]
      BY DEF Held
    <3>2. k # q.idx[h]
      BY <1>1, <2>2, <3>1
    <3> QED BY <1>1, <3>1, <3>2, Zenon
  <2> QED BY <2>1, <2>2
<1>4. Expiry(res) = [Expiry(q) EXCEPT ![h] = p]
  BY <1>1, <1>2, <1>3, ExpiryChanged
<1> QED BY <1>1, <1>4, Zenon

\* remove_h() takes a timer out.
LEMMA RemoveDisarms ==
    ASSUME NEW q, GoodQueue(q), NEW h \in Handles, q.idx[h] # NotQueued,
           NEW res, res = removed_h(q.vec, q.idx, q.idx[h])
    PROVE  /\ GoodQueue(res)
           /\ Expiry(res) = [Expiry(q) EXCEPT ![h] = NotQueued]
           /\ res.idx[h] = NotQueued
<1>1. /\ q.idx[h] \in 1..Len(q.vec) /\ q.vec[q.idx[h]].hnd = h
      /\ \A k \in 1..Len(q.vec) : q.idx[q.vec[k].hnd] = k
  BY DEF GoodQueue, Sound, Accurate
<1>2. /\ GoodQueue(res)
      /\ Held(res.vec) = {q.vec[k] : k \in (1..Len(q.vec)) \ {q.idx[h]}}
  <2>1. Sound(q.vec, q.idx)
    BY DEF GoodQueue
  <2>2. /\ Sound(res.vec, res.idx)
        /\ Held(res.vec) = {q.vec[k] : k \in (1..Len(q.vec)) \ {q.idx[h]}}
    <3> DEFINE v == q.vec
               idx == q.idx
               pos == idx[h]
    <3>1. Sound(v, idx) /\ pos \in 1..Len(v) /\ res = removed_h(v, idx, pos)
      BY <1>1, <2>1
    <3> HIDE DEF v, idx, pos
    <3>2. Sound(res.vec, res.idx) /\ Held(res.vec) = {v[k] : k \in (1..Len(v)) \ {pos}}
      BY <3>1, RemoveTakesOut
    <3> QED BY <3>2, Zenon DEF v, idx, pos
  <2> QED BY <2>2, Zenon DEF GoodQueue
<1>3. ASSUME NEW n \in Held(res.vec) PROVE n.hnd # h /\ n \in Held(q.vec)
  <2>1. PICK k \in (1..Len(q.vec)) \ {q.idx[h]} : n = q.vec[k]
    BY <1>2, Zenon
  <2> QED BY <1>1, <2>1 DEF Held
<1>4. ASSUME NEW n \in Held(q.vec), n.hnd # h PROVE n \in Held(res.vec)
  <2>1. PICK k \in 1..Len(q.vec) : n = q.vec[k]
    BY DEF Held
  <2>2. k # q.idx[h]
    BY <1>1, <1>4, <2>1
  <2> QED BY <1>2, <2>1, <2>2, Zenon
<1>5. Expiry(res) = [Expiry(q) EXCEPT ![h] = NotQueued]
  BY <1>2, <1>3, <1>4, ExpiryDropped, Zenon
<1>6. Expiry(q) \in [Handles -> Nat \cup {NotQueued}]
  BY ExpiryHeld
<1>7. res.idx[h] = NotQueued
  BY <1>2, <1>5, <1>6, ExpiryHeld
<1> QED BY <1>2, <1>5, <1>7

-----------------------------------------------------------------------------
(* What an operation does to the queue of the timers.                      *)

USE DEF Timers

\* The queue in these terms.
LEMMA QueueBefore ==
    ASSUME TypeOK, QueueAccurate
    PROVE  /\ GoodQueue(timer_queue) /\ expires = Expiry(timer_queue)
           /\ expires \in [Timers -> Nat \cup {NotQueued}]
           /\ \A w \in Timers : w \in queued <=> expires[w] # NotQueued
<1>1. GoodQueue(timer_queue)
  BY HeapOfTimers DEF TypeOK, QueueAccurate, GoodQueue, Sound, Node
<1>2. expires = Expiry(timer_queue)
  BY DEF expires, Expiry, queued
<1>3. \A w \in Timers : w \in queued <=> timer_queue.idx[w] # NotQueued
  BY DEF queued
<1> QED BY <1>1, <1>2, <1>3, ExpiryHeld

\* The queue after a step.
LEMMA QueueAfter ==
    ASSUME GoodQueue(timer_queue')
    PROVE  /\ timer_queue'.vec \in Seq([prio : Nat, hnd : Timers])
           /\ timer_queue'.idx \in [Timers -> Int]
           /\ QueueAccurate' /\ expires' = Expiry(timer_queue')
           /\ \A w \in Timers : w \in queued' <=> expires'[w] # NotQueued
<1>1. /\ timer_queue'.vec \in Seq([prio : Nat, hnd : Timers])
      /\ timer_queue'.idx \in [Timers -> Int] /\ QueueAccurate'
  BY HeapOfTimers DEF QueueAccurate, GoodQueue, Sound, Node
<1>2. expires' = Expiry(timer_queue')
  BY DEF expires, Expiry, queued
<1>3. \A w \in Timers : w \in queued' <=> timer_queue'.idx[w] # NotQueued
  BY DEF queued
<1> QED BY <1>1, <1>2, <1>3, ExpiryHeld

\* A step that leaves the queue alone.
LEMMA QueueStays ==
    ASSUME timer_queue' = timer_queue
    PROVE  /\ queued' = queued /\ expires' = expires
           /\ (QueueAccurate => QueueAccurate') /\ (QueueOrdered => QueueOrdered')
BY DEF queued, expires, QueueAccurate, QueueOrdered

\* A timer that is armed, armed again, or renewed.
LEMMA QueueArmed ==
    ASSUME TypeOK, QueueAccurate, NEW w \in Timers, NEW to \in Nat,
           \/ /\ w \in queued
              /\ timer_queue' = prioritised(timer_queue.vec, timer_queue.idx, w, to)
           \/ /\ w \notin queued
              /\ timer_queue' = inserted(timer_queue.vec, timer_queue.idx, w, to)
           \/ /\ w \in queued
              /\ timer_queue' = inserted(removed(w).vec, removed(w).idx, w, to)
    PROVE  /\ GoodQueue(timer_queue') /\ expires' = [expires EXCEPT ![w] = to]
           /\ queued' = queued \cup {w}
<1>1. /\ GoodQueue(timer_queue) /\ expires = Expiry(timer_queue)
      /\ expires \in [Timers -> Nat \cup {NotQueued}]
      /\ \A v \in Timers : v \in queued <=> expires[v] # NotQueued
      /\ (w \in queued <=> timer_queue.idx[w] # NotQueued)
  BY QueueBefore DEF queued
<1>2. GoodQueue(timer_queue') /\ Expiry(timer_queue') = [Expiry(timer_queue) EXCEPT ![w] = to]
  <2>1. CASE /\ w \in queued
             /\ timer_queue' = prioritised(timer_queue.vec, timer_queue.idx, w, to)
    BY <1>1, <2>1, PrioritiseArms
  <2>2. CASE /\ w \notin queued
             /\ timer_queue' = inserted(timer_queue.vec, timer_queue.idx, w, to)
    BY <1>1, <2>2, InsertArms
  <2>3. CASE /\ w \in queued
             /\ timer_queue' = inserted(removed(w).vec, removed(w).idx, w, to)
    <3>1. PICK q : q = removed(w)
      OBVIOUS
    <3>2. /\ GoodQueue(q) /\ Expiry(q) = [Expiry(timer_queue) EXCEPT ![w] = NotQueued]
          /\ q.idx[w] = NotQueued
      BY <1>1, <2>3, <3>1, RemoveDisarms DEF removed
    <3>3. timer_queue' = inserted(q.vec, q.idx, w, to)
      BY <2>3, <3>1
    <3>4. GoodQueue(timer_queue') /\ Expiry(timer_queue') = [Expiry(q) EXCEPT ![w] = to]
      <4>1. GoodQueue(q) /\ q.idx[w] = NotQueued
        BY <3>2
      <4> QED BY <3>3, <4>1, InsertArms
    <3> QED BY <1>1, <3>2, <3>4
  <2> QED BY <2>1, <2>2, <2>3
<1>3. expires' = [expires EXCEPT ![w] = to]
  BY <1>1, <1>2, QueueAfter
<1>4. \A v \in Timers : v \in queued' <=> v = w \/ v \in queued
  <2>1. \A v \in Timers : v \in queued' <=> expires'[v] # NotQueued
    BY <1>2, QueueAfter
  <2> QED BY <1>1, <1>3, <2>1 DEF NotQueued
<1>5. queued' = queued \cup {w}
  <2>1. queued \subseteq Timers /\ queued' \subseteq Timers
    BY DEF queued
  <2> QED BY <1>4, <2>1
<1> QED BY <1>2, <1>3, <1>5

\* A timer that is taken out.
LEMMA QueueDropped ==
    ASSUME TypeOK, QueueAccurate, NEW w \in Timers, w \in queued, timer_queue' = removed(w)
    PROVE  /\ GoodQueue(timer_queue') /\ expires' = [expires EXCEPT ![w] = NotQueued]
           /\ queued' = queued \ {w}
<1>1. /\ GoodQueue(timer_queue) /\ expires = Expiry(timer_queue)
      /\ expires \in [Timers -> Nat \cup {NotQueued}]
      /\ \A v \in Timers : v \in queued <=> expires[v] # NotQueued
      /\ timer_queue.idx[w] # NotQueued
  BY QueueBefore DEF queued
<1>2. /\ GoodQueue(timer_queue')
      /\ Expiry(timer_queue') = [Expiry(timer_queue) EXCEPT ![w] = NotQueued]
  BY <1>1, RemoveDisarms DEF removed
<1>3. expires' = [expires EXCEPT ![w] = NotQueued]
  BY <1>1, <1>2, QueueAfter
<1>4. \A v \in Timers : v \in queued' <=> v # w /\ v \in queued
  <2>1. \A v \in Timers : v \in queued' <=> expires'[v] # NotQueued
    BY <1>2, QueueAfter
  <2> QED BY <1>1, <1>3, <2>1
<1>5. queued' = queued \ {w}
  <2>1. queued \subseteq Timers /\ queued' \subseteq Timers
    BY DEF queued
  <2> QED BY <1>4, <2>1
<1> QED BY <1>2, <1>3, <1>5

\* remove_timer_nolock() leaves the queue alone if the timer is not in it.
LEMMA QueueRemoved ==
    ASSUME TypeOK, QueueAccurate, NEW w \in Timers, remove_timer_nolock(w)
    PROVE  /\ GoodQueue(timer_queue') /\ expires' = [expires EXCEPT ![w] = NotQueued]
           /\ queued' = queued \ {w} /\ num_timers' \in Int
<1>1. num_timers' \in Int
  BY DEF remove_timer_nolock, TypeOK
<1>2. CASE w \in queued
  BY <1>1, <1>2, QueueDropped DEF remove_timer_nolock
<1>3. CASE w \notin queued
  <2>1. timer_queue' = timer_queue
    BY <1>3 DEF remove_timer_nolock
  <2>2. /\ GoodQueue(timer_queue) /\ expires \in [Timers -> Nat \cup {NotQueued}]
        /\ expires[w] = NotQueued
    BY <1>3, QueueBefore
  <2>3. expires' = [expires EXCEPT ![w] = NotQueued] /\ queued' = queued \ {w}
    BY <1>3, <2>1, <2>2, QueueStays
  <2> QED BY <1>1, <2>1, <2>2, <2>3
<1> QED BY <1>2, <1>3

\* The root of a queue.
LEMMA RootTime ==
    ASSUME NEW q, GoodQueue(q), q.vec # << >>
    PROVE  q.vec[1].prio \in Nat /\ q.vec[1].hnd \in Timers /\ 1 \in 1..Len(q.vec)
<1>1. q.vec \in Seq(Node) /\ Len(q.vec) \in Nat /\ Len(q.vec) # 0
  BY DEF GoodQueue, Sound
<1>2. 1 \in 1..Len(q.vec)
  BY <1>1
<1>3. q.vec[1] \in Node
  BY <1>1, <1>2
<1> QED BY <1>2, <1>3, HeapOfTimers DEF Node

\* The timerfd is set for a time or disarmed.
LEMMA TimerfdFromQueue ==
    ASSUME NEW q, GoodQueue(q)
    PROVE  set_timer_from_queue(q) \in Nat \cup {Disarmed}
BY RootTime DEF set_timer_from_queue

\* The overrun of an expired timer is computed from a time.
LEMMA TimeoutRead ==
    ASSUME TypeOK, QueueAccurate, NEW w \in Timers, w \in queued
    PROVE  timeout_read(w) \in Nat
<1>1. GoodQueue(timer_queue) /\ expires[w] \in Nat /\ timer_queue.idx[w] # NotQueued
  BY QueueBefore DEF queued
<1>2. GoodQueue(removed(w))
  BY <1>1, RemoveDisarms DEF removed
<1> QED BY <1>1, <1>2, RootTime DEF timeout_read

\* What divide_timespec() yields is in range.
LEMMA DivideRange ==
    ASSUME NEW n \in Int, NEW d \in Nat, d # 0
    PROVE  divide(n, d) \in Nat /\ rem(n, d) \in Int /\ rem(n, d) <= n
<1>1. divide(n, d) \in Nat
  <2>1. n >= d => n \div d \in Nat
    OBVIOUS
  <2> QED BY <2>1 DEF divide
<1>2. d * divide(n, d) \in Nat
  BY <1>1
<1> QED BY <1>1, <1>2 DEF rem

-----------------------------------------------------------------------------
(* Each action keeps the types and the positions in the queue.             *)

USE DEF NotRunning, Disarmed

\* What every other part rests on.
Base == TypeOK /\ QueueAccurate

\* There are no timers at first.
LEMMA InitHolds == Init => TimersInv /\ CoverInv
<1> SUFFICES ASSUME Init PROVE TimersInv /\ CoverInv
  OBVIOUS
<1>1. timer_queue.vec = << >> /\ timer_queue.idx = [w \in Timers |-> NotQueued]
  BY DEF Init
<1>2. TypeOK
  <2>1. timer_queue.vec \in Seq([prio : Nat, hnd : Timers]) /\ timer_queue.idx \in [Timers -> Int]
    BY <1>1 DEF NotQueued
  <2> QED BY <2>1 DEF Init, TypeOK
<1>3. queued = {}
  BY <1>1 DEF queued
<1>4. QueueAccurate /\ QueueOrdered
  BY <1>1 DEF QueueAccurate, QueueOrdered, Accurate, Ordered
<1>5. Lifecycle /\ CountedIsDisabled /\ OneOutstanding /\ TimerfdCovers
  BY <1>3 DEF Init, Lifecycle, CountedIsDisabled, OneOutstanding, TimerfdCovers
<1> QED BY <1>2, <1>4, <1>5 DEF TimersInv, CoverInv

\* Enabling or disabling a timer.
LEMMA EnableTypes ==
    ASSUME TypeOK, NEW w \in Timers, NEW b \in BOOLEAN, enable_timer_nolock(w, b)
    PROVE  /\ enabled' \in [Timers -> BOOLEAN] /\ expiry_count' \in [Timers -> Nat]
           /\ intervals' \in [Timers -> Nat] /\ event_queue' \in [Timers -> Nat]
<1>1. enabled' \in [Timers -> BOOLEAN]
  BY DEF enable_timer_nolock, TypeOK
<1>2. /\ expiry_count \in [Timers -> Nat] /\ intervals \in [Timers -> Nat]
      /\ event_queue \in [Timers -> Nat]
  BY DEF TypeOK
<1>3. /\ expiry_count' \in [Timers -> Nat] /\ intervals' \in [Timers -> Nat]
      /\ event_queue' \in [Timers -> Nat]
  BY <1>2 DEF enable_timer_nolock, receive_timer_expiry
<1> QED BY <1>1, <1>3

\* A timer that expires is reported at least once, and renewed for a time.
LEMMA ExpiryTypes ==
    ASSUME Base, NEW w \in Timers, process_timer_queue(w)
    PROVE  /\ w \in queued /\ curtime \in Nat /\ curtime' = curtime
           /\ \E n \in Nat : n # 0 /\ expired(w, n)
           /\ (interval[w] # 0 => renewed(w) \in Nat)
<1> USE DEF Base
<1>1. w \in queued /\ curtime \in Nat /\ curtime' = curtime
  <2>1. timer_queue.idx[w] # NotQueued
    BY DEF process_timer_queue, NotQueued
  <2> QED BY <2>1 DEF process_timer_queue, clockVars, TypeOK, queued
<1>2. timeout_read(w) \in Nat /\ interval[w] \in Nat /\ expiry_count[w] \in Nat
  BY <1>1, TimeoutRead DEF TypeOK
<1>3. CASE interval[w] = 0
  <2>1. expiry_count[w] + 1 \in Nat /\ expiry_count[w] + 1 # 0
    BY <1>2
  <2>2. expired(w, expiry_count[w] + 1)
    BY <1>3 DEF process_timer_queue
  <2> QED BY <1>1, <1>3, <2>1, <2>2
<1>4. CASE interval[w] # 0
  <2> DEFINE o == curtime - timeout_read(w)
  <2>1. o \in Int
    BY <1>1, <1>2
  <2>2. /\ divide(o, interval[w]) \in Nat /\ rem(o, interval[w]) \in Int
        /\ rem(o, interval[w]) <= o
    <3> HIDE DEF o
    <3> QED BY <1>2, <1>4, <2>1, DivideRange
  <2>3. renewed(w) \in Nat
    BY <1>1, <1>2, <2>2 DEF renewed
  <2>4. PICK n \in Nat : n = expiry_count[w] + 1 + divide(o, interval[w]) /\ n # 0
    BY <1>2, <2>2
  <2>5. expired(w, n)
    BY <1>4, <2>4 DEF process_timer_queue
  <2> QED BY <1>1, <2>3, <2>4, <2>5
<1> QED BY <1>3, <1>4

\* Times and intervals that timers are armed with.
LEMMA ArmTypes == \A w \in Timers : \A arm \in Arms[w] : arm[1] \in Nat /\ arm[2] \in Nat
BY TimersAssumption

\* Every step.
LEMMA BaseStep ==
    ASSUME Base, Next
    PROVE  Base'
<1> USE DEF Base
<1>0. GoodQueue(timer_queue)
  BY QueueBefore
<1>1. CASE Tick
  BY <1>1, QueueStays DEF Tick, TypeOK, dataVars, watcherVars, history
<1>2. CASE process_timer
  BY <1>2, QueueStays DEF TypeOK, process_timer, dataVars, watcherVars, history
<1>3. CASE process_timer_done
  <2>1. timerfd' \in Nat \cup {Disarmed}
    BY <1>0, <1>3, TimerfdFromQueue DEF process_timer_done
  <2> QED BY <1>3, <2>1, QueueStays DEF TypeOK, process_timer_done, dataVars, watcherVars, history
<1>4. ASSUME NEW w \in Timers, process_timer_queue(w) PROVE Base'
  <2>1. /\ w \in queued /\ curtime' = curtime /\ (interval[w] # 0 => renewed(w) \in Nat)
        /\ UNCHANGED <<now, num_timers, interval, timerfd, first, reported>>
        /\ UNCHANGED <<reg, active, running, deleteme, dereg>>
    BY <1>4, ExpiryTypes DEF process_timer_queue, clockVars, watcherVars, history
  <2>2. PICK n \in Nat : expired(w, n)
    BY <1>4, ExpiryTypes
  <2>3. GoodQueue(timer_queue')
    <3>1. CASE interval[w] = 0
      BY <1>4, <2>1, <3>1, QueueDropped DEF process_timer_queue
    <3>2. CASE interval[w] # 0
      BY <1>4, <2>1, <3>2, QueueArmed DEF process_timer_queue
    <3> QED BY <3>1, <3>2
  <2>4. enabled' \in [Timers -> BOOLEAN]
    BY <2>2 DEF expired, TypeOK
  <2>5. /\ expiry_count' \in [Timers -> Nat] /\ intervals' \in [Timers -> Nat]
        /\ event_queue' \in [Timers -> Nat]
    <3>1. /\ expiry_count \in [Timers -> Nat] /\ intervals \in [Timers -> Nat]
          /\ event_queue \in [Timers -> Nat]
      BY DEF TypeOK
    <3> QED BY <2>2, <3>1 DEF expired, receive_timer_expiry
  <2> QED BY <2>1, <2>3, <2>4, <2>5, QueueAfter DEF TypeOK
<1>5. ASSUME NEW w \in Timers, add_timer(w) PROVE Base'
  <2>1. enabled' \in [Timers -> BOOLEAN]
    BY <1>5 DEF add_timer, TypeOK
  <2> QED BY <1>5, <2>1, QueueStays DEF add_timer, TypeOK, clockVars, history
<1>6. ASSUME NEW w \in Timers, NEW to \in Nat, NEW iv \in Nat, set_timer(w, to, iv) PROVE Base'
  <2>1. GoodQueue(timer_queue')
    BY <1>6, QueueArmed DEF set_timer
  <2>2. timerfd' \in Nat \cup {Disarmed}
    <3>1. set_timer_from_queue(timer_queue') \in Nat \cup {Disarmed}
      BY <2>1, TimerfdFromQueue
    <3>2. timerfd' = set_timer_from_queue(timer_queue') \/ timerfd' = timerfd
      BY <1>6 DEF set_timer
    <3> QED BY <3>1, <3>2 DEF TypeOK
  <2>3. enabled' \in [Timers -> BOOLEAN]
    BY <1>6 DEF set_timer, TypeOK
  <2>4. /\ interval' \in [Timers -> Nat] /\ expiry_count' \in [Timers -> Nat]
        /\ first' \in [Timers -> Nat] /\ reported' \in [Timers -> Int]
    BY <1>6 DEF set_timer, TypeOK
  <2>5. UNCHANGED <<now, curtime, num_timers, intervals, event_queue>> /\ UNCHANGED watcherVars
    BY <1>6 DEF set_timer, clockVars
  <2> QED BY <2>1, <2>2, <2>3, <2>4, <2>5, QueueAfter DEF TypeOK, watcherVars
<1>7. ASSUME NEW w \in Timers, stop_timer(w) PROVE Base'
  <2>1. GoodQueue(timer_queue')
    BY <1>7, QueueDropped DEF stop_timer
  <2>2. timerfd' \in Nat \cup {Disarmed}
    <3>1. set_timer_from_queue(timer_queue') \in Nat \cup {Disarmed}
      BY <2>1, TimerfdFromQueue
    <3> QED BY <1>7, <3>1 DEF stop_timer, TypeOK
  <2>3. /\ UNCHANGED <<clockVars, num_timers, dataVars, intervals, event_queue>>
        /\ UNCHANGED <<watcherVars, history>>
    BY <1>7 DEF stop_timer
  <2> QED
    BY <2>1, <2>2, <2>3, QueueAfter DEF TypeOK, clockVars, dataVars, watcherVars, history
<1>8. ASSUME NEW w \in Timers, NEW b \in BOOLEAN, set_enabled(w, b) PROVE Base'
  <2>1. /\ enabled' \in [Timers -> BOOLEAN] /\ expiry_count' \in [Timers -> Nat]
        /\ intervals' \in [Timers -> Nat] /\ event_queue' \in [Timers -> Nat]
    <3>1. CASE b
      BY <1>8, <3>1, EnableTypes DEF set_enabled
    <3>2. CASE ~b
      <4>1. enabled' \in [Timers -> BOOLEAN]
        BY <1>8, <3>2 DEF set_enabled, TypeOK
      <4>2. event_queue \in [Timers -> Nat]
        BY DEF TypeOK
      <4>3. event_queue' \in [Timers -> Nat]
        BY <1>8, <3>2, <4>2 DEF set_enabled, dequeue_watcher
      <4> QED BY <1>8, <3>2, <4>1, <4>3 DEF set_enabled, TypeOK
    <3> QED BY <3>1, <3>2
  <2> QED BY <1>8, <2>1, QueueStays DEF set_enabled, TypeOK, clockVars, watcherVars, history
<1>9. ASSUME NEW w \in Timers, deregister(w) PROVE Base'
  <2>1. GoodQueue(timer_queue') /\ num_timers' \in Int
    BY <1>9, QueueRemoved DEF deregister
  <2> QED BY <1>9, <2>1, QueueAfter DEF deregister, TypeOK, clockVars, dataVars, history
<1>10. ASSUME NEW w \in Timers, issue_delete(w) PROVE Base'
  <2>1. event_queue \in [Timers -> Nat]
    BY DEF TypeOK
  <2>2. event_queue' \in [Timers -> Nat]
    BY <1>10, <2>1 DEF issue_delete, dequeue_watcher
  <2> QED BY <1>10, <2>2, QueueStays DEF issue_delete, TypeOK, clockVars, dataVars, history
<1>11. ASSUME NEW w \in Timers, dispatch(w) PROVE Base'
  BY <1>11, QueueStays DEF dispatch, TypeOK, clockVars, dataVars, history
<1>12. ASSUME NEW w \in Timers, timer_expiry(w) PROVE Base'
  BY <1>12, QueueStays DEF timer_expiry, TypeOK, clockVars, dataVars
<1>13. ASSUME NEW w \in Timers, NEW r \in Rearms, callback_returns(w, r) PROVE Base'
  <2>1. PICK e \in Rearms : e = rearm_type(w, r)
    BY DEF rearm_type, Rearms
  <2>2. /\ active' = active \ {w} /\ running' = running \ {w}
        /\ UNCHANGED <<now, curtime, interval, timerfd, deleteme, dereg, first, reported>>
    BY <1>13 DEF callback_returns, clockVars, history
  <2>3. CASE e \in {"REARM", "DISARM"}
    <3>1. PICK b \in BOOLEAN : enable_timer_nolock(w, b)
      BY <1>13, <2>1, <2>3 DEF callback_returns
    <3>2. UNCHANGED <<timer_queue, num_timers, reg>>
      BY <1>13, <2>1, <2>3 DEF callback_returns
    <3> QED BY <2>2, <3>1, <3>2, EnableTypes, QueueStays DEF TypeOK
  <2>4. CASE e = "NOOP"
    <3>1. UNCHANGED <<enabled, expiry_count, intervals, event_queue, timer_queue, num_timers, reg>>
      BY <1>13, <2>1, <2>4 DEF callback_returns
    <3> QED BY <2>2, <3>1, QueueStays DEF TypeOK
  <2>5. CASE e = "REQUEUE"
    <3>1. /\ UNCHANGED <<enabled, expiry_count, timer_queue, num_timers, reg>>
          /\ receive_timer_expiry(w, 0)
      BY <1>13, <2>1, <2>5 DEF callback_returns
    <3>2. intervals' \in [Timers -> Nat] /\ event_queue' \in [Timers -> Nat]
      BY <3>1 DEF receive_timer_expiry, TypeOK
    <3> QED BY <2>2, <3>1, <3>2, QueueStays DEF TypeOK
  <2>6. CASE e = "REMOVE"
    <3>1. /\ remove_timer_nolock(w) /\ reg' = [reg EXCEPT ![w] = "none"]
          /\ UNCHANGED <<enabled, expiry_count, intervals, event_queue>>
      BY <1>13, <2>1, <2>6 DEF callback_returns
    <3>2. GoodQueue(timer_queue') /\ num_timers' \in Int
      BY <3>1, QueueRemoved
    <3> QED BY <2>2, <3>1, <3>2, QueueAfter DEF TypeOK
  <2> QED BY <2>3, <2>4, <2>5, <2>6 DEF Rearms
<1> QED
  BY <1>1, <1>2, <1>3, <1>4, <1>5, <1>6, <1>7, <1>8, <1>9, <1>10, <1>11, <1>12, <1>13, ArmTypes
     DEF Next, Polling, ClientCall, Handling

-----------------------------------------------------------------------------
(* Each action keeps the life cycle of the timers and of their events.     *)

Life == Lifecycle /\ CountedIsDisabled /\ OneOutstanding

\* The types of what these are about.
LEMMA LifeTypes ==
    ASSUME TimersInv
    PROVE  /\ Base /\ Life
           /\ expiry_count \in [Timers -> Nat] /\ event_queue \in [Timers -> Nat]
           /\ enabled \in [Timers -> BOOLEAN] /\ reg \in [Timers -> {"none", "live", "dying"}]
           /\ active \in SUBSET Timers /\ running \in SUBSET active
           /\ deleteme \in SUBSET Timers /\ dereg \in SUBSET Timers
           /\ queued \in SUBSET Timers
BY DEF TimersInv, Base, Life, TypeOK, queued

\* add_timer() registers a timer that is not armed.
LEMMA AddStep ==
    ASSUME TimersInv, NEW w \in Timers, add_timer(w)
    PROVE  Life'
<1> USE LifeTypes DEF add_timer, Life
<1>1. queued' = queued
  BY QueueStays
<1>2. Lifecycle'
  BY <1>1 DEF Lifecycle
<1>3. CountedIsDisabled'
  BY DEF CountedIsDisabled
<1>4. OneOutstanding'
  BY <1>1 DEF OneOutstanding, Lifecycle
<1> QED BY <1>2, <1>3, <1>4

\* set_timer() enables a timer whose handler does not run.
LEMMA SetStep ==
    ASSUME TimersInv, Threads # 1,
           NEW w \in Timers, NEW to \in Nat, NEW iv \in Nat, set_timer(w, to, iv)
    PROVE  Life'
<1> USE LifeTypes DEF Life
<1>1. queued' = queued \cup {w}
  BY QueueArmed DEF set_timer, Base
<1>2. Lifecycle'
  BY <1>1 DEF Lifecycle, set_timer, watcherVars
<1>3. CountedIsDisabled'
  BY DEF CountedIsDisabled, set_timer
<1>4. OneOutstanding'
  BY <1>1 DEF OneOutstanding, set_timer, watcherVars, MayEnable
<1> QED BY <1>2, <1>3, <1>4

\* stop_timer() takes the timer out of the queue.
LEMMA StopStep ==
    ASSUME TimersInv, NEW w \in Timers, stop_timer(w)
    PROVE  Life'
<1>1. queued' = queued \ {w}
  BY LifeTypes, QueueDropped DEF stop_timer, Base
<1> QED
  BY <1>1, LifeTypes DEF Life, Lifecycle, CountedIsDisabled, OneOutstanding, stop_timer, dataVars,
                         watcherVars

\* set_enabled(): enabling with a count queues the event, and the timer is then not enabled.
LEMMA SetEnabledStep ==
    ASSUME TimersInv, Threads # 1, NEW w \in Timers, NEW b \in BOOLEAN, set_enabled(w, b)
    PROVE  Life'
<1> USE LifeTypes DEF Life, set_enabled, enable_timer_nolock, receive_timer_expiry, dequeue_watcher
<1>1. queued' = queued
  BY QueueStays
<1>2. Lifecycle'
  BY <1>1 DEF Lifecycle, watcherVars
<1>3. CountedIsDisabled'
  BY DEF CountedIsDisabled
<1>4. OneOutstanding'
  BY <1>1 DEF OneOutstanding, CountedIsDisabled, MayEnable, watcherVars
<1> QED BY <1>2, <1>3, <1>4

\* The first part of deregister() takes the timer out of the timer queue.
LEMMA DeregisterStep ==
    ASSUME TimersInv, NEW w \in Timers, deregister(w)
    PROVE  Life'
<1> USE LifeTypes DEF Life
<1>1. queued' = queued \ {w}
  BY QueueRemoved DEF deregister, Base
<1>2. Lifecycle'
  BY <1>1 DEF Lifecycle, deregister
<1>3. CountedIsDisabled' /\ OneOutstanding'
  BY <1>1 DEF CountedIsDisabled, OneOutstanding, deregister, dataVars
<1> QED BY <1>2, <1>3

\* issue_delete() takes the timer out of the event queue, or leaves it to the handler.
LEMMA IssueDeleteStep ==
    ASSUME TimersInv, NEW w \in Timers, issue_delete(w)
    PROVE  Life'
<1> USE LifeTypes DEF Life, issue_delete, dequeue_watcher
<1>1. queued' = queued
  BY QueueStays
<1>2. Lifecycle'
  BY <1>1 DEF Lifecycle, OneOutstanding
<1>3. CountedIsDisabled' /\ OneOutstanding'
  BY <1>1 DEF CountedIsDisabled, OneOutstanding, dataVars
<1> QED BY <1>2, <1>3

\* An expired timer is reported, or counted if it is disabled.
LEMMA ProcessQueueStep ==
    ASSUME TimersInv, NEW w \in Timers, process_timer_queue(w)
    PROVE  Life'
<1> USE LifeTypes DEF Life
<1>1. /\ w \in queued /\ (interval[w] # 0 => renewed(w) \in Nat)
      /\ UNCHANGED <<reg, active, deleteme, dereg>>
  BY ExpiryTypes DEF process_timer_queue, watcherVars
<1>2. PICK n \in Nat : n # 0 /\ expired(w, n)
  BY ExpiryTypes
<1>3. queued' \subseteq queued
  <2>1. CASE interval[w] = 0
    BY <1>1, <2>1, QueueDropped DEF process_timer_queue, Base
  <2>2. CASE interval[w] # 0
    BY <1>1, <2>2, QueueArmed DEF process_timer_queue, Base
  <2> QED BY <2>1, <2>2
<1>4. Lifecycle'
  BY <1>1, <1>2, <1>3 DEF Lifecycle, expired, receive_timer_expiry
<1>5. CountedIsDisabled'
  BY <1>2 DEF CountedIsDisabled, expired
<1>6. OneOutstanding'
  BY <1>1, <1>2, <1>3 DEF OneOutstanding, expired, receive_timer_expiry
<1> QED BY <1>4, <1>5, <1>6

\* Steps of the clock and of the poller that leave the timers alone.
LEMMA IdleStep ==
    ASSUME TimersInv, Tick \/ process_timer \/ process_timer_done
    PROVE  Life'
<1>1. queued' = queued
  BY QueueStays DEF Tick, process_timer, process_timer_done
<1>2. UNCHANGED <<expiry_count, enabled, event_queue, reg, active, deleteme, dereg>>
  BY DEF Tick, process_timer, process_timer_done, dataVars, watcherVars
<1> QED BY <1>1, <1>2, LifeTypes DEF Life, Lifecycle, CountedIsDisabled, OneOutstanding

\* The event goes to the handler.
LEMMA DispatchStep ==
    ASSUME TimersInv, NEW w \in Timers, dispatch(w)
    PROVE  Life'
<1> USE LifeTypes DEF Life, dispatch
<1>1. queued' = queued
  BY QueueStays
<1>2. Lifecycle'
  BY <1>1 DEF Lifecycle
<1>3. CountedIsDisabled' /\ OneOutstanding'
  BY <1>1 DEF CountedIsDisabled, OneOutstanding, dataVars
<1> QED BY <1>2, <1>3

\* timer_expiry() is called with the count, which starts again.
LEMMA ExpiryStep ==
    ASSUME TimersInv, NEW w \in Timers, timer_expiry(w)
    PROVE  Life'
<1>1. queued' = queued
  BY QueueStays DEF timer_expiry
<1> QED
  BY <1>1, LifeTypes DEF Life, Lifecycle, CountedIsDisabled, OneOutstanding, timer_expiry, dataVars

\* While the handler runs, its timer is not both queued and enabled: whatever the handler
\* returns, it is not afterwards unless its event has gone.
LEMMA ReturnStep ==
    ASSUME TimersInv, NEW w \in Timers, NEW r \in Rearms, callback_returns(w, r)
    PROVE  Life'
<1> USE LifeTypes DEF Life
<1>1. PICK e \in Rearms : e = rearm_type(w, r)
  BY DEF rearm_type, Rearms
<1>2. /\ w \in active /\ reg[w] # "none" /\ event_queue[w] = 0
      /\ ~ (enabled[w] /\ w \in queued)
      /\ active' = active \ {w} /\ UNCHANGED <<deleteme, dereg>>
  BY DEF callback_returns, OneOutstanding, Lifecycle
<1>3. CASE e \in {"REARM", "DISARM"}
  <2>1. PICK b \in BOOLEAN : enable_timer_nolock(w, b)
    BY <1>1, <1>3 DEF callback_returns
  <2>2. timer_queue' = timer_queue /\ reg' = reg
    BY <1>1, <1>3 DEF callback_returns
  <2>3. queued' = queued
    BY <2>2, QueueStays
  <2>4. Lifecycle'
    BY <1>2, <2>1, <2>2, <2>3 DEF Lifecycle, enable_timer_nolock, receive_timer_expiry
  <2>5. CountedIsDisabled'
    BY <2>1 DEF CountedIsDisabled, enable_timer_nolock
  <2>6. OneOutstanding'
    BY <1>2, <2>1, <2>3 DEF OneOutstanding, CountedIsDisabled, enable_timer_nolock,
                            receive_timer_expiry
  <2> QED BY <2>4, <2>5, <2>6
<1>4. CASE e \in {"NOOP", "REQUEUE"}
  <2>1. /\ UNCHANGED <<enabled, expiry_count, timer_queue, reg>>
        /\ event_queue' = event_queue \/ event_queue' = [event_queue EXCEPT ![w] = @ + 1]
    <3>1. CASE e = "NOOP"
      BY <1>1, <3>1 DEF callback_returns
    <3>2. CASE e = "REQUEUE"
      BY <1>1, <3>2 DEF callback_returns, receive_timer_expiry
    <3> QED BY <1>4, <3>1, <3>2
  <2>2. queued' = queued
    BY <2>1, QueueStays
  <2>3. Lifecycle'
    BY <1>2, <2>1, <2>2 DEF Lifecycle
  <2>4. CountedIsDisabled' /\ OneOutstanding'
    BY <1>2, <2>1, <2>2 DEF CountedIsDisabled, OneOutstanding
  <2> QED BY <2>3, <2>4
<1>5. CASE e = "REMOVE"
  <2>1. /\ remove_timer_nolock(w) /\ reg' = [reg EXCEPT ![w] = "none"]
        /\ UNCHANGED <<enabled, expiry_count, event_queue>>
    BY <1>1, <1>5 DEF callback_returns
  <2>2. queued' = queued \ {w}
    BY <2>1, QueueRemoved DEF Base
  <2>3. w \notin dereg
    BY <1>1, <1>5 DEF callback_returns, Lifecycle, rearm_type
  <2>4. CountedIsDisabled' /\ OneOutstanding'
    BY <1>2, <2>1, <2>2 DEF CountedIsDisabled, OneOutstanding
  <2>5. Lifecycle'
    BY <1>2, <2>1, <2>2, <2>3 DEF Lifecycle
  <2> QED BY <2>4, <2>5
<1> QED BY <1>3, <1>4, <1>5 DEF Rearms

-----------------------------------------------------------------------------
(* MayEnable() lets the handler of a single-threaded loop arm its own      *)
(* timer, which may then be enabled while it is active: the theorems about *)
(* the life cycle are about loops that several threads use.                *)

\* Other steps do not touch the timers.
LEMMA StutterHolds ==
    ASSUME UNCHANGED vars
    PROVE  (TimersInv => TimersInv') /\ (CoverInv => CoverInv')
<1>1. queued' = queued /\ expires' = expires
  BY QueueStays DEF vars
<1> QED
  BY <1>1 DEF vars, clockVars, dataVars, watcherVars, history, TimersInv, CoverInv, TypeOK,
              QueueAccurate, QueueOrdered, TimerfdCovers, Lifecycle, CountedIsDisabled,
              OneOutstanding

\* Every step keeps the invariant.
LEMMA NextHolds ==
    ASSUME Threads # 1, TimersInv, Next
    PROVE  TimersInv'
<1>1. ASSUME Tick PROVE Life'
  BY <1>1, IdleStep
<1>2. ASSUME Polling PROVE Life'
  BY <1>2, IdleStep, ProcessQueueStep DEF Polling
<1>3. ASSUME NEW w \in Timers, ClientCall(w) PROVE Life'
  BY <1>3, AddStep, SetStep, StopStep, SetEnabledStep, DeregisterStep, IssueDeleteStep, ArmTypes
     DEF ClientCall
<1>4. ASSUME NEW w \in Timers, Handling(w) PROVE Life'
  BY <1>4, DispatchStep, ExpiryStep, ReturnStep DEF Handling
<1>5. Life'
  BY <1>1, <1>2, <1>3, <1>4 DEF Next
<1>6. Base'
  BY BaseStep, LifeTypes
<1> QED BY <1>5, <1>6 DEF TimersInv, Base, Life

\* TimersInv is an invariant of the timers of a loop that several threads use,
\* whichever timers there are and however the client arms and postpones them.
THEOREM TimersInvariant ==
    ASSUME Threads # 1
    PROVE  Spec => []TimersInv
<1>1. TimersInv /\ [Next]_vars => TimersInv'
  BY NextHolds, StutterHolds
<1> QED BY <1>1, InitHolds, PTL DEF Spec

\* A timer is queued for its handler at most once, and not while the handler
\* runs.
THEOREM TimerQueuedOnce ==
    ASSUME Threads # 1
    PROVE  Spec => []OneOutstanding
<1>1. TimersInv => OneOutstanding
  BY DEF TimersInv
<1> QED BY <1>1, TimersInvariant, PTL

\* Nothing refers to a timer whose watch_removed() has been called.
THEOREM RemovedTimerIsGone ==
    ASSUME Threads # 1
    PROVE  Spec => []RemovedIsGone
<1>1. TimersInv => RemovedIsGone
  BY DEF TimersInv, Lifecycle, RemovedIsGone
<1> QED BY <1>1, TimersInvariant, PTL

-----------------------------------------------------------------------------
(* The timerfd is set from the root of the heap, which is the earliest     *)
(* timer where the heap is in order.  It stays in order with at most       *)
(* 2N + 1 timers, of which only the root and its first child have timers   *)
(* below them, for a client that does not postpone a timer above several.  *)

\* The timerfd is set for a time that no timer of the queue precedes.
LEMMA RootCovers ==
    ASSUME NEW q, GoodQueue(q), Ordered(q.vec), NEW w \in Timers, Expiry(q)[w] # NotQueued
    PROVE  /\ q.vec # << >> /\ set_timer_from_queue(q) = q.vec[1].prio
           /\ set_timer_from_queue(q) \in Nat /\ set_timer_from_queue(q) <= Expiry(q)[w]
<1>1. PICK n \in Held(q.vec) : n.hnd = w /\ Expiry(q)[w] = n.prio
  BY ExpiryHeld
<1>2. PICK k \in 1..Len(q.vec) : n = q.vec[k]
  BY DEF Held
<1>3. q.vec \in Seq(Node)
  BY DEF GoodQueue, Sound
<1>4. q.vec # << >>
  BY <1>2, <1>3
<1>5. q.vec[1].prio <= n.prio
  BY <1>2, <1>3, OrderedRoot
<1> QED BY <1>1, <1>4, <1>5, RootTime DEF set_timer_from_queue

\* Taking a timer out keeps a small heap in order.
LEMMA RemovalOrdered ==
    ASSUME Cardinality(Timers) <= 2 * N + 1, Base, QueueOrdered, NEW w \in Timers, w \in queued
    PROVE  GoodQueue(removed(w)) /\ Ordered(removed(w).vec)
<1> DEFINE v == timer_queue.vec
           idx == timer_queue.idx
           pos == idx[w]
<1>1. GoodQueue(timer_queue) /\ idx[w] # NotQueued
  BY QueueBefore DEF Base, queued
<1>2. Sound(v, idx) /\ pos \in 1..Len(v)
  BY <1>1 DEF GoodQueue, Sound, Accurate
<1>3. Len(v) <= 2 * N + 1
  <2>1. Len(v) <= Cardinality(Handles)
    BY <1>2, LengthBound
  <2>2. Len(v) \in Nat /\ Cardinality(Handles) \in Nat /\ 2 * N + 1 \in Nat
    BY <1>2, TimersAssumption, FS_CardinalityType DEF Sound
  <2> QED BY <2>1, <2>2
<1>4. Ordered(v)
  BY DEF QueueOrdered
<1>5. PICK res : res = removed_h(v, idx, pos)
  OBVIOUS
<1>6. GoodQueue(res)
  BY <1>1, <1>5, RemoveDisarms
<1>7. Ordered(res.vec)
  <2> HIDE DEF v, idx, pos
  <2> QED BY <1>2, <1>3, <1>4, <1>5, SmallRemoveOrdered
<1> QED BY <1>5, <1>6, <1>7 DEF removed

\* set_timer() keeps it in order, unless the client postpones a timer above several.
LEMMA ArmedOrdered ==
    ASSUME "postpone" \notin Client, Base, QueueOrdered,
           NEW w \in Timers, NEW to \in Nat, NEW iv \in Nat, set_timer(w, to, iv)
    PROVE  QueueOrdered'
<1> DEFINE v == timer_queue.vec
           idx == timer_queue.idx
<1>1. /\ Sound(v, idx) /\ Ordered(v) /\ to \in Prios
      /\ (w \in queued <=> idx[w] # NotQueued)
  BY QueueBefore, HeapOfTimers DEF Base, queued, QueueOrdered, GoodQueue
<1>2. PICK res : res = timer_queue'
  OBVIOUS
<1>3. CASE w \notin queued
  <2>1. res = inserted(v, idx, w, to)
    BY <1>2, <1>3 DEF set_timer
  <2>2. Ordered(res.vec)
    <3> HIDE DEF v, idx
    <3> QED BY <1>1, <2>1, InsertOrdered
  <2> QED BY <1>2, <2>2 DEF QueueOrdered
<1>4. CASE w \in queued
  <2>1. res = prioritised(v, idx, w, to) /\ idx[w] # NotQueued
    BY <1>1, <1>2, <1>4 DEF set_timer
  <2>2. lt(v[idx[w]].prio, to) => lchild(idx[w]) >= Len(v)
    BY <1>4 DEF set_timer, expires, OneBelow
  <2>3. Ordered(res.vec)
    <3> HIDE DEF v, idx
    <3>1. CASE lt(v[idx[w]].prio, to)
      BY <1>1, <2>1, <2>2, <3>1, PostponeOrdered
    <3>2. CASE ~lt(v[idx[w]].prio, to)
      BY <1>1, <2>1, <3>2, AdvanceOrdered
    <3> QED BY <3>1, <3>2
  <2> QED BY <1>2, <2>3 DEF QueueOrdered
<1> QED BY <1>3, <1>4

\* If the timerfd is not set again, either another timer is at the root and precedes the
\* armed one, or the armed one has moved back.
LEMMA ArmedCovers ==
    ASSUME "postpone" \notin Client, CoverInv,
           NEW w \in Timers, NEW to \in Nat, NEW iv \in Nat, set_timer(w, to, iv)
    PROVE  QueueOrdered' /\ TimerfdCovers'
<1>1. /\ Base /\ QueueOrdered /\ TimerfdCovers /\ curtime' = curtime /\ curtime = NotRunning
      /\ timerfd \in Nat \cup {Disarmed}
  BY DEF CoverInv, Base, set_timer, clockVars, BaseLockFree, TypeOK
<1>2. QueueOrdered' /\ Ordered(timer_queue'.vec)
  BY <1>1, ArmedOrdered DEF QueueOrdered
<1>3. /\ GoodQueue(timer_queue') /\ expires' = [expires EXCEPT ![w] = to]
      /\ queued' = queued \cup {w} /\ expires' = Expiry(timer_queue')
      /\ expires \in [Timers -> Nat \cup {NotQueued}]
      /\ \A v \in Timers : v \in queued <=> expires[v] # NotQueued
      /\ \A v \in Timers : v \in queued' <=> expires'[v] # NotQueued
  <2>1. /\ GoodQueue(timer_queue') /\ expires' = [expires EXCEPT ![w] = to]
        /\ queued' = queued \cup {w}
    BY <1>1, QueueArmed DEF set_timer, Base
  <2> QED BY <1>1, <2>1, QueueBefore, QueueAfter DEF Base
<1>4. \A v \in queued : timerfd \in Nat /\ timerfd <= expires[v]
  BY <1>1 DEF TimerfdCovers
<1>5. SUFFICES ASSUME NEW v \in queued' PROVE timerfd' # Disarmed /\ timerfd' <= expires'[v]
  BY <1>2 DEF TimerfdCovers
<1>6. v \in Timers /\ expires'[v] \in Nat
  BY <1>3, <1>5 DEF queued
<1>7. CASE timerfd' = set_timer_from_queue(timer_queue')
  BY <1>2, <1>3, <1>5, <1>6, <1>7, RootCovers
<1>8. CASE timerfd' = timerfd /\ w \in queued /\ lt(expires[w], to)
  BY <1>3, <1>4, <1>5, <1>6, <1>8 DEF lt
<1>9. CASE timerfd' = timerfd /\ timer_queue'.idx[w] # 1
  <2>1. /\ timer_queue'.vec # << >> /\ timer_queue'.vec[1].prio \in Nat
        /\ timer_queue'.vec[1].prio <= expires'[v]
    BY <1>2, <1>3, <1>5, <1>6, RootCovers
  <2>2. PICK u \in Timers : u = timer_queue'.vec[1].hnd /\ timer_queue'.idx[u] = 1
    <3>1. timer_queue'.vec[1].hnd \in Timers /\ 1 \in 1..Len(timer_queue'.vec)
      BY <1>3, <2>1, RootTime
    <3> QED BY <1>3, <3>1 DEF GoodQueue, Sound, Accurate
  <2>3. u # w /\ timer_queue'.idx[u] # NotQueued
    BY <1>9, <2>2 DEF NotQueued
  <2>4. expires'[u] = timer_queue'.vec[1].prio
    BY <1>3, <2>2, <2>3 DEF Expiry
  <2>5. u \in queued /\ expires[u] = expires'[u]
    BY <1>3, <2>1, <2>3, <2>4 DEF NotQueued
  <2>6. timerfd \in Nat /\ timerfd <= expires[u]
    BY <1>4, <2>5
  <2> QED BY <1>6, <1>9, <2>1, <2>4, <2>5, <2>6
<1> QED BY <1>7, <1>8, <1>9 DEF set_timer

\* Timers that are taken out leave the others covered.
LEMMA FewerCovered ==
    ASSUME TimerfdCovers, curtime = NotRunning, timerfd' = timerfd,
           queued' \subseteq queued, \A v \in queued' : expires'[v] = expires[v]
    PROVE  TimerfdCovers'
BY DEF TimerfdCovers

\* Every step keeps the heap in order and every queued timer covered.
LEMMA CoverStep ==
    ASSUME Cardinality(Timers) <= 2 * N + 1, "postpone" \notin Client, CoverInv, Next
    PROVE  CoverInv'
<1>1. Base /\ QueueOrdered /\ TimerfdCovers /\ GoodQueue(timer_queue)
  BY QueueBefore DEF CoverInv, Base
<1>2. Base'
  BY <1>1, BaseStep
<1>3. SUFFICES QueueOrdered' /\ TimerfdCovers'
  BY <1>2 DEF Base, CoverInv
<1>4. ASSUME NEW w \in Timers, \E arm \in Arms[w] : set_timer(w, arm[1], arm[2])
      PROVE  QueueOrdered' /\ TimerfdCovers'
  BY <1>4, ArmedCovers, ArmTypes
<1>5. ASSUME NEW w \in Timers, w \in queued, timer_queue' = removed(w),
             curtime = NotRunning, curtime' = curtime,
             timerfd' = timerfd \/ timerfd' = set_timer_from_queue(timer_queue')
      PROVE  QueueOrdered' /\ TimerfdCovers'
  <2>1. QueueOrdered' /\ Ordered(timer_queue'.vec)
    BY <1>1, <1>5, RemovalOrdered DEF QueueOrdered
  <2>2. /\ GoodQueue(timer_queue') /\ expires' = [expires EXCEPT ![w] = NotQueued]
        /\ queued' = queued \ {w} /\ expires' = Expiry(timer_queue')
        /\ \A v \in Timers : v \in queued' <=> expires'[v] # NotQueued
        /\ expires \in [Timers -> Nat \cup {NotQueued}]
    <3>1. /\ GoodQueue(timer_queue') /\ expires' = [expires EXCEPT ![w] = NotQueued]
          /\ queued' = queued \ {w}
      BY <1>1, <1>5, QueueDropped DEF Base
    <3> QED BY <1>1, <3>1, QueueBefore, QueueAfter DEF Base
  <2>3. CASE timerfd' = timerfd
    <3>1. \A v \in queued' : expires'[v] = expires[v]
      BY <2>2 DEF queued
    <3> QED BY <1>1, <1>5, <2>1, <2>2, <2>3, <3>1, FewerCovered
  <2>4. CASE timerfd' = set_timer_from_queue(timer_queue')
    <3>1. ASSUME NEW v \in queued' PROVE timerfd' # Disarmed /\ timerfd' <= expires'[v]
      <4>1. v \in Timers /\ Expiry(timer_queue')[v] # NotQueued
        BY <2>2, <3>1 DEF queued
      <4> QED BY <2>1, <2>2, <2>4, <4>1, RootCovers
    <3> QED BY <2>1, <3>1 DEF TimerfdCovers
  <2> QED BY <1>5, <2>3, <2>4
<1>6. ASSUME timer_queue' = timer_queue, timerfd' = timerfd,
             curtime' = curtime \/ curtime' # NotRunning
      PROVE  QueueOrdered' /\ TimerfdCovers'
  BY <1>1, <1>6, QueueStays DEF TimerfdCovers
<1>7. ASSUME NEW w \in Timers, remove_timer_nolock(w), curtime = NotRunning,
             curtime' = curtime, timerfd' = timerfd
      PROVE  QueueOrdered' /\ TimerfdCovers'
  BY <1>5, <1>6, <1>7 DEF remove_timer_nolock
<1>8. CASE process_timer_done
  <2>1. QueueOrdered' /\ queued' = queued /\ expires' = expires
    BY <1>1, <1>8, QueueStays DEF process_timer_done
  <2>2. ASSUME NEW v \in queued PROVE timerfd' # Disarmed /\ timerfd' <= expires[v]
    <3>1. v \in Timers /\ Expiry(timer_queue)[v] # NotQueued /\ expires = Expiry(timer_queue)
      BY <1>1, <2>2, QueueBefore DEF Base, queued
    <3>2. timerfd' = set_timer_from_queue(timer_queue) /\ Ordered(timer_queue.vec)
      BY <1>1, <1>8 DEF process_timer_done, QueueOrdered
    <3> QED BY <1>1, <3>1, <3>2, RootCovers
  <2> QED BY <2>1, <2>2 DEF TimerfdCovers
<1>9. ASSUME NEW w \in Timers, process_timer_queue(w)
      PROVE  QueueOrdered' /\ TimerfdCovers'
  <2>1. /\ w \in queued /\ curtime' = curtime /\ curtime # NotRunning
        /\ (interval[w] # 0 => renewed(w) \in Nat)
    BY <1>1, <1>9, ExpiryTypes DEF process_timer_queue
  <2>2. GoodQueue(removed(w)) /\ Ordered(removed(w).vec)
    BY <1>1, <2>1, RemovalOrdered
  <2>3. CASE interval[w] = 0
    BY <1>9, <2>1, <2>2, <2>3 DEF process_timer_queue, QueueOrdered, TimerfdCovers
  <2>4. CASE interval[w] # 0
    <3>1. PICK q : q = removed(w)
      OBVIOUS
    <3>2. PICK p \in Prios : p = renewed(w)
      BY <2>1, <2>4, HeapOfTimers
    <3>3. PICK res : res = timer_queue' /\ res = inserted(q.vec, q.idx, w, p)
      BY <1>9, <2>4, <3>1, <3>2 DEF process_timer_queue
    <3>4. Sound(q.vec, q.idx) /\ Ordered(q.vec)
      BY <2>2, <3>1 DEF GoodQueue
    <3>5. Ordered(res.vec)
      BY <3>3, <3>4, InsertOrdered
    <3> QED BY <2>1, <3>3, <3>5 DEF QueueOrdered, TimerfdCovers
  <2> QED BY <2>3, <2>4
<1>10. CASE Tick \/ process_timer
  BY <1>1, <1>6, <1>10 DEF Tick, process_timer, Base, TypeOK
<1>11. ASSUME NEW w \in Timers,
              \/ add_timer(w) \/ issue_delete(w) \/ dispatch(w) \/ timer_expiry(w)
              \/ \E b \in BOOLEAN : set_enabled(w, b)
       PROVE  QueueOrdered' /\ TimerfdCovers'
  BY <1>6, <1>11 DEF add_timer, issue_delete, dispatch, timer_expiry, set_enabled, clockVars
<1>12. ASSUME NEW w \in Timers, stop_timer(w) PROVE QueueOrdered' /\ TimerfdCovers'
  <2>1. timerfd' = timerfd \/ timerfd' = set_timer_from_queue(timer_queue')
    BY <1>12 DEF stop_timer
  <2> QED BY <1>5, <1>12, <2>1 DEF stop_timer, clockVars, BaseLockFree
<1>13. ASSUME NEW w \in Timers, deregister(w) PROVE QueueOrdered' /\ TimerfdCovers'
  BY <1>7, <1>13 DEF deregister, clockVars, BaseLockFree
<1>14. ASSUME NEW w \in Timers, NEW r \in Rearms, callback_returns(w, r)
       PROVE  QueueOrdered' /\ TimerfdCovers'
  <2>1. rearm_type(w, r) \in Rearms
    BY DEF rearm_type, Rearms
  <2>2. curtime = NotRunning /\ curtime' = curtime /\ timerfd' = timerfd
    BY <1>14 DEF callback_returns, clockVars, BaseLockFree
  <2>3. remove_timer_nolock(w) \/ timer_queue' = timer_queue
    BY <1>14, <2>1 DEF callback_returns, Rearms
  <2> QED BY <1>6, <1>7, <2>2, <2>3
<1> QED
  BY <1>4, <1>8, <1>9, <1>10, <1>11, <1>12, <1>13, <1>14 DEF Next, Polling, ClientCall, Handling

\* No timeout is slept through, whichever timers are armed, re-armed, stopped, removed
\* or renewed, and although the timerfd is set from the heap's root: the timerfd is set for
\* the earliest timer or before.  There are at most 2N + 1 timers, and no timer is
\* postponed that is above more than the last node of the heap.
THEOREM NoTimeoutMissed ==
    ASSUME Cardinality(Timers) <= 2 * N + 1, "postpone" \notin Client
    PROVE  Spec => []TimerfdCovers
<1>1. CoverInv /\ [Next]_vars => CoverInv'
  BY CoverStep, StutterHolds
<1>2. CoverInv => TimerfdCovers
  BY DEF CoverInv
<1> QED BY <1>1, <1>2, InitHolds, PTL DEF Spec

-----------------------------------------------------------------------------
(* The schedule of a periodic timer.                                       *)

\* The intervals of a timer that its handler has been or will be told of.
Told(w) == reported[w] + intervals[w] + expiry_count[w]

\* Quotient and remainder make up the overrun.
LEMMA DivideExact ==
    ASSUME NEW n \in Nat, NEW d \in Nat, d # 0
    PROVE  n - rem(n, d) = d * divide(n, d)
<1>1. d * divide(n, d) \in Int
  BY DivideRange
<1> QED BY <1>1 DEF rem

\* A timer that is alone is renewed for as many intervals as are counted.
LEMMA RenewedAlone ==
    ASSUME Base, NEW w \in Timers, queued = {w}, curtime \in Nat,
           expires[w] <= curtime, interval[w] # 0
    PROVE  LET n == divide(curtime - timeout_read(w), interval[w])
           IN  n \in Nat /\ renewed(w) = expires[w] + interval[w] * (1 + n)
<1> DEFINE o == curtime - expires[w]
           d == interval[w]
           n == divide(o, d)
<1>1. timeout_read(w) = expires[w] /\ expires[w] \in Nat /\ o \in Nat /\ d \in Nat
  <2>1. /\ GoodQueue(timer_queue) /\ expires = Expiry(timer_queue) /\ expires[w] \in Nat
        /\ timer_queue.idx[w] # NotQueued
        /\ \A v \in Timers : v # w => expires[v] = NotQueued
        /\ expires \in [Timers -> Nat \cup {NotQueued}]
    BY QueueBefore DEF Base, queued
  <2>2. PICK q : q = removed(w)
    OBVIOUS
  <2>3. GoodQueue(q) /\ Expiry(q) = [Expiry(timer_queue) EXCEPT ![w] = NotQueued]
    BY <2>1, <2>2, RemoveDisarms DEF removed
  <2>4. \A v \in Timers : Expiry(q)[v] = NotQueued
    BY <2>1, <2>3
  <2>5. q.vec = << >>
    <3> SUFFICES ASSUME q.vec # << >> PROVE FALSE
      OBVIOUS
    <3>1. q.vec[1] \in Held(q.vec)
      BY <2>3, RootTime DEF Held
    <3>2. \A nd \in Held(q.vec) : nd.hnd \in Timers /\ q.idx[nd.hnd] # NotQueued
      BY <2>3, ExpiryHeld
    <3>3. \A v \in Timers : q.idx[v] = NotQueued
      BY <2>3, <2>4, ExpiryHeld
    <3> QED BY <3>1, <3>2, <3>3
  <2>6. timeout_read(w) = expires[w]
    BY <2>2, <2>5 DEF timeout_read
  <2> QED BY <2>1, <2>6 DEF Base, TypeOK
<1>2. n \in Nat /\ rem(o, d) \in Int
  BY <1>1, DivideRange
<1>3. o - rem(o, d) = d * n
  BY <1>1, DivideExact
<1>4. renewed(w) = curtime + d - rem(o, d)
  BY <1>1 DEF renewed
<1>5. d * (1 + n) = d + d * n /\ d * n \in Int
  BY <1>1, <1>2
<1>6. curtime + d - rem(o, d) = expires[w] + (d + (o - rem(o, d)))
  BY <1>1, <1>2
<1> QED BY <1>1, <1>2, <1>3, <1>4, <1>5, <1>6

\* Told intervals keep their number unless the timer expires or is armed.
LEMMA ScheduleStep ==
    ASSUME TimersInv, Next, NEW w \in Timers, OnSchedule(w), queued = {w}
    PROVE  OnSchedule(w)'
<1>0. /\ Base /\ expires \in [Timers -> Nat \cup {NotQueued}] /\ expires[w] \in Nat
      /\ interval \in [Timers -> Nat] /\ expiry_count \in [Timers -> Nat]
      /\ intervals \in [Timers -> Nat] /\ first \in [Timers -> Nat]
      /\ reported \in [Timers -> Int] /\ enabled \in [Timers -> BOOLEAN]
  BY QueueBefore DEF TimersInv, Base, TypeOK
<1>1. ASSUME NEW v \in Timers, process_timer_queue(v) PROVE OnSchedule(w)'
  <2>1. /\ v = w /\ curtime \in Nat /\ expires[w] <= curtime
        /\ (interval[w] # 0 => renewed(w) \in Nat)
    BY <1>0, <1>1, ExpiryTypes DEF process_timer_queue
  <2>2. CASE interval[w] = 0
    BY <1>1, <2>1, <2>2 DEF process_timer_queue, OnSchedule
  <2>3. CASE interval[w] # 0
    <3> DEFINE n == divide(curtime - timeout_read(w), interval[w])
               d == interval[w]
    <3>1. n \in Nat /\ renewed(w) = expires[w] + d * (1 + n)
      BY <1>0, <2>1, <2>3, RenewedAlone
    <3>2. /\ expires'[w] = renewed(w)
          /\ expired(w, expiry_count[w] + 1 + n)
          /\ UNCHANGED <<interval, first, reported>>
      <4>1. expires' = [expires EXCEPT ![w] = renewed(w)]
        BY <1>0, <1>1, <2>1, <2>3, QueueArmed DEF process_timer_queue, Base
      <4>2. expires'[w] = renewed(w)
        BY <1>0, <4>1
      <4>3. UNCHANGED <<interval, first, reported>>
        BY <1>1 DEF process_timer_queue, history
      <4>4. expired(w, expiry_count[w] + 1 + n)
        BY <1>1, <2>1, <2>3 DEF process_timer_queue
      <4> QED BY <4>2, <4>3, <4>4
    <3>3. intervals'[w] + expiry_count'[w] = intervals[w] + expiry_count[w] + (1 + n)
      BY <1>0, <3>1, <3>2 DEF expired, receive_timer_expiry
    <3>4. /\ Told(w)' = Told(w) + (1 + n)
          /\ Told(w) \in Int /\ 1 + n \in Int /\ d \in Int /\ first[w] \in Int
      <4>1. intervals'[w] \in Int /\ expiry_count'[w] \in Int
        BY <1>0, <3>1, <3>2 DEF expired, receive_timer_expiry
      <4>2. /\ reported'[w] = reported[w] /\ reported[w] \in Int /\ first[w] \in Int
            /\ intervals[w] \in Int /\ expiry_count[w] \in Int /\ d \in Int
        BY <1>0, <3>2
      <4> HIDE DEF n, d
      <4>3. n \in Nat
        BY <3>1
      <4>4. Told(w)' = reported'[w] + intervals'[w] + expiry_count'[w]
        BY DEF Told
      <4> QED BY <3>3, <4>1, <4>2, <4>3, <4>4 DEF Told
    <3>5. expires[w] = first[w] + d * Told(w)
      BY <2>1, <2>3 DEF OnSchedule, Told
    <3> HIDE DEF n, d
    <3>6. d * (Told(w) + (1 + n)) = d * Told(w) + d * (1 + n)
          /\ d * Told(w) \in Int /\ d * (1 + n) \in Int
      BY <3>4
    <3>7. expires'[w] = first[w] + d * Told(w)'
      BY <1>0, <3>1, <3>2, <3>4, <3>5, <3>6
    <3> QED BY <3>2, <3>7 DEF OnSchedule, Told, d
  <2> QED BY <2>2, <2>3
<1>2. ASSUME NEW v \in Timers, NEW to \in Nat, NEW iv \in Nat, set_timer(v, to, iv)
      PROVE  OnSchedule(w)'
  <2>0. expires' = [expires EXCEPT ![v] = to] /\ queued' = queued \cup {v}
    BY <1>0, <1>2, QueueArmed DEF set_timer, Base
  <2>1. CASE v = w
    <3>1. CASE iv = 0
      BY <1>0, <1>2, <2>1, <3>1 DEF set_timer, OnSchedule
    <3>2. CASE iv # 0
      <4>1. /\ expires'[w] = to /\ first'[w] = to /\ to \in Nat
            /\ Told(w)' = 0 /\ interval'[w] \in Nat
        BY <1>0, <1>2, <2>0, <2>1, <3>2 DEF set_timer, Told
      <4> QED BY <4>1 DEF OnSchedule, Told
    <3> QED BY <3>1, <3>2
  <2>2. CASE v # w
    BY <1>0, <1>2, <2>0, <2>2 DEF set_timer, OnSchedule
  <2> QED BY <2>1, <2>2
<1>3. ASSUME NEW v \in Timers, enable_timer_nolock(v, TRUE) \/ enable_timer_nolock(v, FALSE),
             UNCHANGED <<timer_queue, interval, first, reported>>
      PROVE  OnSchedule(w)'
  <2>1. intervals'[w] + expiry_count'[w] = intervals[w] + expiry_count[w]
        /\ intervals'[w] \in Int /\ expiry_count'[w] \in Int
    BY <1>0, <1>3 DEF enable_timer_nolock, receive_timer_expiry
  <2>2. Told(w)' = Told(w)
    BY <1>0, <1>3, <2>1 DEF Told
  <2>3. queued' = queued /\ expires' = expires
    BY <1>3, QueueStays
  <2> QED BY <1>3, <2>2, <2>3 DEF OnSchedule, Told
<1>4. ASSUME NEW v \in Timers, timer_expiry(v) PROVE OnSchedule(w)'
  <2>1. queued' = queued /\ expires' = expires /\ interval' = interval /\ first' = first
    BY <1>4, QueueStays DEF timer_expiry, dataVars
  <2>2. CASE interval[w] = 0
    BY <2>1, <2>2 DEF OnSchedule
  <2>3. CASE interval[w] # 0
    <3>1. Told(w)' = Told(w)
      BY <1>0, <1>4, <2>3 DEF timer_expiry, Told, dataVars
    <3> QED BY <2>1, <3>1 DEF OnSchedule, Told
  <2> QED BY <2>2, <2>3
<1>5. ASSUME NEW v \in Timers, add_timer(v) PROVE OnSchedule(w)'
  <2>1. v # w
    BY <1>5 DEF add_timer, TimersInv, Lifecycle
  <2>2. queued' = queued /\ expires' = expires
    BY <1>5, QueueStays DEF add_timer
  <2> QED BY <1>0, <1>5, <2>1, <2>2 DEF add_timer, OnSchedule, history
<1>6. ASSUME UNCHANGED <<interval, expiry_count, intervals, first, reported>>,
             w \in queued' => expires'[w] = expires[w]
      PROVE  OnSchedule(w)'
  BY <1>6 DEF OnSchedule
<1>7. ASSUME NEW v \in Timers, NEW b \in BOOLEAN, set_enabled(v, b) PROVE OnSchedule(w)'
  <2>1. CASE b
    BY <1>3, <1>7, <2>1 DEF set_enabled, history
  <2>2. CASE ~b
    BY <1>6, <1>7, <2>2, QueueStays DEF set_enabled, history
  <2> QED BY <2>1, <2>2
<1>8. ASSUME NEW v \in Timers, NEW r \in Rearms, callback_returns(v, r) PROVE OnSchedule(w)'
  <2>1. PICK e \in Rearms : e = rearm_type(v, r)
    BY DEF rearm_type, Rearms
  <2>2. UNCHANGED <<interval, first, reported>>
    BY <1>8 DEF callback_returns, history
  <2>3. CASE e \in {"REARM", "DISARM"}
    BY <1>3, <1>8, <2>1, <2>2, <2>3 DEF callback_returns
  <2>4. CASE e = "NOOP"
    <3>1. UNCHANGED <<expiry_count, intervals, timer_queue>>
      BY <1>8, <2>1, <2>4 DEF callback_returns
    <3> QED BY <1>6, <2>2, <3>1, QueueStays
  <2>5. CASE e = "REQUEUE"
    <3>1. UNCHANGED <<expiry_count, timer_queue>> /\ receive_timer_expiry(v, 0)
      BY <1>8, <2>1, <2>5 DEF callback_returns
    <3>2. intervals'[w] = intervals[w]
      BY <1>0, <3>1 DEF receive_timer_expiry
    <3>3. queued' = queued /\ expires' = expires
      BY <3>1, QueueStays
    <3> QED BY <2>2, <3>1, <3>2, <3>3 DEF OnSchedule
  <2>6. CASE e = "REMOVE"
    <3>1. UNCHANGED <<expiry_count, intervals>> /\ remove_timer_nolock(v)
      BY <1>8, <2>1, <2>6 DEF callback_returns
    <3>2. expires' = [expires EXCEPT ![v] = NotQueued] /\ queued' = queued \ {v}
      BY <1>0, <3>1, QueueRemoved DEF Base
    <3> QED BY <1>0, <1>6, <2>2, <3>1, <3>2
  <2> QED BY <2>3, <2>4, <2>5, <2>6 DEF Rearms
<1>9. CASE Tick \/ process_timer \/ process_timer_done
  BY <1>6, <1>9, QueueStays DEF Tick, process_timer, process_timer_done, dataVars, history
<1>10. ASSUME NEW v \in Timers, stop_timer(v) \/ deregister(v)
       PROVE  OnSchedule(w)'
  <2>1. expires' = [expires EXCEPT ![v] = NotQueued] /\ queued' = queued \ {v}
    BY <1>0, <1>10, QueueRemoved, QueueDropped DEF Base, stop_timer, deregister
  <2>2. UNCHANGED <<interval, expiry_count, intervals, first, reported>>
    BY <1>10 DEF stop_timer, deregister, dataVars, history
  <2> QED BY <1>0, <1>6, <2>1, <2>2
<1>11. ASSUME NEW v \in Timers, issue_delete(v) \/ dispatch(v) PROVE OnSchedule(w)'
  BY <1>6, <1>11, QueueStays DEF issue_delete, dispatch, dataVars, history
<1> QED
  BY <1>1, <1>2, <1>4, <1>5, <1>7, <1>8, <1>9, <1>10, <1>11, ArmTypes
     DEF Next, Polling, ClientCall, Handling

\* A periodic timer that is alone in its queue stays on schedule: the intervals
\* it reports add up to the time that has passed, whatever the delays.
THEOREM PeriodIsKept ==
    ASSUME Threads # 1
    PROVE  Spec => PeriodKept
<1>1. TimersInv /\ [Next]_vars =>
          [\A w \in Timers : OnSchedule(w) /\ queued = {w} => OnSchedule(w)']_vars
  BY ScheduleStep
<1> QED BY <1>1, TimersInvariant, PTL DEF Spec, PeriodKept

-----------------------------------------------------------------------------
(* Refinement.                                                             *)

registeredTimers == {w \in Timers : reg[w] # "none"}

\* A step that neither registers, removes nor calls anything is a stutter.
LEMMA ContractStutter ==
    ASSUME registeredTimers' = registeredTimers, running' = running
    PROVE  [Contract!Next]_(Contract!contractVars)
BY DEF Contract!contractVars, registeredTimers

\* Every step is a step of the contract, or none of its business.
LEMMA ContractStep ==
    ASSUME TimersInv, Next
    PROVE  [Contract!Next]_(Contract!contractVars)
<1>0. /\ Lifecycle /\ reg \in [Timers -> {"none", "live", "dying"}]
      /\ active \in SUBSET Timers /\ running \in SUBSET active
  BY DEF TimersInv, TypeOK
<1> USE <1>0 DEF registeredTimers
<1>1. ASSUME NEW w \in Timers, add_timer(w) PROVE Contract!Register(w)
  BY <1>1 DEF add_timer, Contract!Register
<1>2. ASSUME NEW w \in Timers, timer_expiry(w) PROVE Contract!HandlerStarts(w)
  BY <1>2 DEF timer_expiry, Contract!HandlerStarts, Lifecycle
<1>3. ASSUME NEW w \in Timers, issue_delete(w)
      PROVE  Contract!Removed(w) \/ (registeredTimers' = registeredTimers /\ running' = running)
  <2>1. CASE w \in active
    BY <1>3, <2>1 DEF issue_delete
  <2>2. CASE w \notin active
    BY <1>3, <2>2 DEF issue_delete, Contract!Removed, Lifecycle
  <2> QED BY <2>1, <2>2
<1>4. ASSUME NEW w \in Timers, NEW r \in Rearms, callback_returns(w, r)
      PROVE  Contract!HandlerReturns(w) \/ Contract!DeletedByHandler(w)
  <2>1. w \in running /\ running' = running \ {w} /\ reg[w] # "none"
    BY <1>4 DEF callback_returns, Lifecycle
  <2>2. CASE rearm_type(w, r) = "REMOVE"
    <3>1. reg' = [reg EXCEPT ![w] = "none"]
      BY <1>4, <2>2 DEF callback_returns
    <3> QED BY <2>1, <3>1 DEF Contract!DeletedByHandler
  <2>3. CASE rearm_type(w, r) # "REMOVE"
    <3>1. reg' = reg
      BY <1>4, <2>3 DEF callback_returns, rearm_type, Rearms
    <3> QED BY <2>1, <3>1 DEF Contract!HandlerReturns
  <2> QED BY <2>2, <2>3
<1>5. ASSUME NEW w \in Timers, deregister(w)
      PROVE  registeredTimers' = registeredTimers /\ running' = running
  BY <1>5 DEF deregister
<1>6. ASSUME NEW w \in Timers,
             \/ \E arm \in Arms[w] : set_timer(w, arm[1], arm[2])
             \/ stop_timer(w) \/ \E b \in BOOLEAN : set_enabled(w, b)
             \/ dispatch(w) \/ process_timer_queue(w)
      PROVE  registeredTimers' = registeredTimers /\ running' = running
  BY <1>6 DEF set_timer, stop_timer, set_enabled, dispatch, process_timer_queue, watcherVars
<1>7. CASE Tick \/ process_timer \/ process_timer_done
  BY <1>7, ContractStutter DEF Tick, process_timer, process_timer_done, watcherVars
<1>8. ASSUME NEW w \in Timers,
             \/ Contract!Register(w) \/ Contract!HandlerStarts(w) \/ Contract!Removed(w)
             \/ Contract!HandlerReturns(w) \/ Contract!DeletedByHandler(w)
      PROVE  Contract!Next
  BY <1>8 DEF Contract!Next
<1> QED
  BY <1>1, <1>2, <1>3, <1>4, <1>5, <1>6, <1>7, <1>8, ContractStutter
     DEF Next, Polling, ClientCall, Handling

\* Timers keep the contract of WatcherContract.
THEOREM TimersRefinement ==
    ASSUME Threads # 1
    PROVE  Spec => ImplementsContract
<1>1. Init => Contract!Init
  BY DEF Init, Contract!Init
<1>2. TimersInv /\ [Next]_vars => [Contract!Next]_(Contract!contractVars)
  <2>1. ASSUME UNCHANGED vars PROVE UNCHANGED Contract!contractVars
    BY <2>1 DEF vars, watcherVars, Contract!contractVars
  <2> QED BY <2>1, ContractStep
<1> QED BY <1>1, <1>2, TimersInvariant, PTL DEF Spec, ImplementsContract, Contract!Spec
=============================================================================
