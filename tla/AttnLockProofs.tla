--------------------------- MODULE AttnLockProofs ---------------------------
(***************************************************************************)
(* Proofs about the attention lock, for any finite set of threads.         *)
(*                                                                         *)
(* LockInv is inductive: PollExclusion, PollerInterrupted, OwnerAwake and  *)
(* NoPollBehindLongPoll follow from it.  Each action is proved to preserve *)
(* it in a lemma of its own; what an action does to a queue is first put   *)
(* into facts about lengths and elements.                                  *)
(***************************************************************************)
EXTENDS AttnLock, SequenceTheorems, TLAPS

USE DEF LockStates, Pulling, Inside, RunModes, Modes

\* What Append does to the nodes of a wait queue.
LEMMA AppendNode ==
    ASSUME NEW q \in Seq(Threads), NEW t \in Threads
    PROVE  /\ Append(q, t) \in Seq(Threads)
           /\ Append(q, t) # << >>
           /\ Len(Append(q, t)) = Len(q) + 1
           /\ DOMAIN Append(q, t) = 1..(Len(q) + 1)
           /\ \A i \in 1..Len(q) : Append(q, t)[i] = q[i]
           /\ Append(q, t)[Len(q) + 1] = t
OBVIOUS

\* What removing the head does to the nodes of a wait queue.
LEMMA UnqueueNode ==
    ASSUME NEW q \in Seq(Threads), q # << >>
    PROVE  /\ Head(q) = q[1]
           /\ Head(q) \in Threads
           /\ Tail(q) \in Seq(Threads)
           /\ Len(Tail(q)) = Len(q) - 1
           /\ DOMAIN Tail(q) = 1..(Len(q) - 1)
           /\ \A i \in 1..(Len(q) - 1) : Tail(q)[i] = q[i + 1]
           /\ Tail(q) = << >> <=> Len(q) = 1
<1>1. /\ Head(q) \in Threads
      /\ Tail(q) \in Seq(Threads)
      /\ Len(Tail(q)) = Len(q) - 1
      /\ \A i \in 1..Len(Tail(q)) : Tail(q)[i] = q[i + 1]
  BY HeadTailProperties
<1>2. Head(q) = q[1]
  OBVIOUS
<1>3. DOMAIN Tail(q) = 1..(Len(q) - 1)
  BY <1>1, LenProperties
<1>4. Len(q) \in Nat
  BY LenProperties
<1>5. Tail(q) = << >> <=> Len(Tail(q)) = 0
  BY <1>1, EmptySeq
<1> QED BY <1>1, <1>2, <1>3, <1>4, <1>5

\* The nodes that stay are the old ones, still distinct and without the head.
LEMMA UnqueueDistinct ==
    ASSUME NEW q \in Seq(Threads), q # << >>,
           \A i, j \in DOMAIN q : q[i] = q[j] => i = j
    PROVE  /\ \A i, j \in DOMAIN Tail(q) : Tail(q)[i] = Tail(q)[j] => i = j
           /\ \A i \in DOMAIN Tail(q) :
                 i + 1 \in DOMAIN q /\ Tail(q)[i] = q[i + 1] /\ Tail(q)[i] # q[1]
<1>1. Len(q) \in Nat /\ DOMAIN q = 1..Len(q)
  BY LenProperties
<1>2. \A i \in DOMAIN Tail(q) : i \in 1..(Len(q) - 1) /\ Tail(q)[i] = q[i + 1]
  BY UnqueueNode
<1>3. \A i \in DOMAIN Tail(q) : i + 1 \in DOMAIN q /\ i + 1 # 1 /\ 1 \in DOMAIN q /\ i \in Nat
  BY <1>1, <1>2
<1>4. ASSUME NEW i \in DOMAIN Tail(q), NEW j \in DOMAIN Tail(q), Tail(q)[i] = Tail(q)[j]
      PROVE  i = j
  <2>1. i + 1 = j + 1
    BY <1>2, <1>3, <1>4
  <2> QED BY <2>1, <1>3
<1>5. \A i \in DOMAIN Tail(q) : Tail(q)[i] # q[1]
  BY <1>2, <1>3
<1> QED BY <1>2, <1>3, <1>4, <1>5

\* Elementary facts about a queue of threads.
LEMMA QueueFacts ==
    ASSUME NEW q \in Seq(Threads)
    PROVE  /\ Len(q) \in Nat
           /\ DOMAIN q = 1..Len(q)
           /\ \A i \in 1..Len(q) : q[i] \in Threads
           /\ q = << >> <=> Len(q) = 0
OBVIOUS

\* A one-node queue.
LEMMA SingleNode ==
    ASSUME NEW t \in Threads
    PROVE  /\ <<t>> \in Seq(Threads)
           /\ <<t>> # << >>
           /\ Len(<<t>>) = 1
           /\ DOMAIN <<t>> = 1..1
           /\ <<t>>[1] = t
           /\ <<t>> \o << >> = <<t>>
           /\ Head(<<t>>) = t
OBVIOUS

\* Nothing in front of a queue leaves the queue.
LEMMA EmptyPrefix ==
    ASSUME NEW q \in Seq(Threads)
    PROVE  << >> \o q = q
OBVIOUS

\* Initially nobody holds or wants the lock.
LEMMA InitLockInv == Init => LockInv
<1> SUFFICES ASSUME Init PROVE LockInv
  OBVIOUS
<1>1. TypeOK
  <2>1. NodesDistinct
    BY DEF Init, NodesDistinct
  <2>2. attn_waitqueue \in Seq(Threads) /\ wait_waitqueue \in Seq(Threads)
    BY EmptySeq DEF Init
  <2> QED BY <2>1, <2>2 DEF Init, TypeOK
<1>2. QueuedThreadsWait /\ HeadHoldsLock /\ LongPollAccurate
  BY DEF Init, QueuedThreadsWait, HeadHoldsLock, LongPollAccurate
<1>3. InterruptPending /\ NoPollBehindLongPoll
  BY DEF Init, InterruptPending, NoPollBehindLongPoll
<1> QED BY <1>1, <1>2, <1>3 DEF LockInv

-----------------------------------------------------------------------------
\* Queueing for attention, by get_attn_lock() or poll_attn_lock(), in terms of
\* the nodes of the queue.
LEMMA QueueForAttentionNodes ==
    ASSUME LockInv, NEW t \in Threads, NEW m \in {"attn", "poll"},
           lk[t] = "out", QueueForAttention(t, m)
    PROVE  /\ attn_waitqueue' \in Seq(Threads)
           /\ Len(attn_waitqueue') = Len(attn_waitqueue) + 1
           /\ DOMAIN attn_waitqueue' = 1..(Len(attn_waitqueue) + 1)
           /\ \A i \in 1..Len(attn_waitqueue) : attn_waitqueue'[i] = attn_waitqueue[i]
           /\ attn_waitqueue'[Len(attn_waitqueue) + 1] = t
           /\ attn_waitqueue' # << >>
           /\ \A i \in DOMAIN attn_waitqueue : attn_waitqueue[i] # t
           /\ \A i \in DOMAIN wait_waitqueue : wait_waitqueue[i] # t
           /\ lk' \in [Threads -> LockStates] /\ mode' \in [Threads -> Modes]
           /\ asleep' \in SUBSET Threads
           /\ \A u \in Threads : u # t => lk'[u] = lk[u] /\ mode'[u] = mode[u]
           /\ mode'[t] = m
           /\ attn_waitqueue = << >> =>
                 lk'[t] = Entered(m) /\ lk'[t] \in {"hold", "pull"} /\ asleep' = asleep
           /\ attn_waitqueue # << >> => lk'[t] = "wait" /\ asleep' = asleep \cup {t}
<1> USE DEF LockInv, TypeOK, QueuedThreadsWait, HeadHoldsLock
<1>1. /\ Len(attn_waitqueue') = Len(attn_waitqueue) + 1
      /\ attn_waitqueue' \in Seq(Threads)
      /\ DOMAIN attn_waitqueue' = 1..(Len(attn_waitqueue) + 1)
      /\ \A i \in 1..Len(attn_waitqueue) : attn_waitqueue'[i] = attn_waitqueue[i]
      /\ attn_waitqueue'[Len(attn_waitqueue) + 1] = t
      /\ attn_waitqueue' # << >>
  BY AppendNode DEF QueueForAttention
<1>2. \A i \in DOMAIN attn_waitqueue : attn_waitqueue[i] # t
  BY QueueFacts
<1>3. \A i \in DOMAIN wait_waitqueue : wait_waitqueue[i] # t
  BY QueueFacts
<1>4. Entered(m) \in {"hold", "pull"}
  BY DEF Entered
<1>5. /\ lk' \in [Threads -> LockStates] /\ mode' \in [Threads -> Modes]
      /\ asleep' \in SUBSET Threads
      /\ \A u \in Threads : u # t => lk'[u] = lk[u] /\ mode'[u] = mode[u]
      /\ mode'[t] = m
      /\ attn_waitqueue = << >> =>
            lk'[t] = Entered(m) /\ lk'[t] \in {"hold", "pull"} /\ asleep' = asleep
      /\ attn_waitqueue # << >> => lk'[t] = "wait" /\ asleep' = asleep \cup {t}
  BY <1>4 DEF QueueForAttention
<1> QED BY <1>1, <1>2, <1>3, <1>5

\* A claim for attention preserves the invariant: the claimant is waiting at the
\* end of the queue or, if the queue was empty, holds the lock; if it has become
\* second behind a long poll, it has interrupted the poll.
LEMMA AttentionClaimInv ==
    ASSUME LockInv, NEW t \in Threads, NEW m \in {"attn", "poll"},
           lk[t] = "out",
           QueueForAttention(t, m),
           UNCHANGED <<wait_waitqueue, long_poll_running, batch_intr, notifying>>,
           intr' \in BOOLEAN, intr => intr',
           long_poll_running /\ Len(attn_waitqueue) = 1 => intr',
           m = "poll" => ~long_poll_running
    PROVE  LockInv'
<1> DEFINE q == attn_waitqueue
           n == Len(attn_waitqueue)
<1>0. lk[t] = "out"
  OBVIOUS
<1>1. /\ q' \in Seq(Threads) /\ Len(q') = n + 1 /\ DOMAIN q' = 1..(n + 1)
      /\ \A i \in 1..n : q'[i] = q[i]
      /\ q'[n + 1] = t /\ q' # << >>
      /\ \A i \in DOMAIN q : q[i] # t
      /\ \A i \in DOMAIN wait_waitqueue : wait_waitqueue[i] # t
      /\ lk' \in [Threads -> LockStates] /\ mode' \in [Threads -> Modes]
      /\ asleep' \in SUBSET Threads
      /\ \A u \in Threads : u # t => lk'[u] = lk[u] /\ mode'[u] = mode[u]
      /\ mode'[t] = m
      /\ q = << >> => lk'[t] \in {"hold", "pull"} /\ asleep' = asleep
      /\ q # << >> => lk'[t] = "wait" /\ asleep' = asleep \cup {t}
  BY <1>0, QueueForAttentionNodes
<1>2. /\ n \in Nat /\ DOMAIN q = 1..n /\ (q = << >> <=> n = 0)
      /\ \A i \in 1..n : q[i] \in Threads
      /\ DOMAIN wait_waitqueue = 1..Len(wait_waitqueue)
      /\ \A i \in DOMAIN wait_waitqueue : wait_waitqueue[i] \in Threads
  BY QueueFacts DEF LockInv, TypeOK
<1>3. /\ UNCHANGED <<wait_waitqueue, long_poll_running, batch_intr, notifying>>
      /\ intr => intr'
      /\ long_poll_running /\ n = 1 => intr'
  OBVIOUS
<1> HIDE DEF q, n
<1>4. TypeOK'
  <2>1. \A i, j \in DOMAIN q' : q'[i] = q'[j] => i = j
    BY <1>1, <1>2 DEF LockInv, TypeOK, NodesDistinct, q
  <2>2. \A i \in DOMAIN q', j \in DOMAIN wait_waitqueue : q'[i] # wait_waitqueue[j]
    BY <1>1, <1>2 DEF LockInv, TypeOK, NodesDistinct, q
  <2>3. NodesDistinct'
    BY <1>3, <2>1, <2>2 DEF LockInv, TypeOK, NodesDistinct, q
  <2> QED BY <1>1, <1>3, <2>3 DEF LockInv, TypeOK, q, n
<1>5. QueuedThreadsWait'
  <2>1. \A i \in DOMAIN q' : i > 1 => lk'[q'[i]] = "wait" /\ mode'[q'[i]] \notin RunModes
    BY <1>1, <1>2 DEF LockInv, QueuedThreadsWait, q
  <2>2. \A i \in DOMAIN wait_waitqueue :
           lk'[wait_waitqueue[i]] = "wait" /\ mode'[wait_waitqueue[i]] \in RunModes
    BY <1>1, <1>2 DEF LockInv, QueuedThreadsWait, q
  <2>3. \A u \in asleep' : lk'[u] = "wait"
    BY <1>0, <1>1, <1>2 DEF LockInv, QueuedThreadsWait, TypeOK, q
  <2> QED BY <1>1, <1>3, <2>1, <2>2, <2>3 DEF QueuedThreadsWait, q
<1>6. HeadHoldsLock'
  <2>1. lk'[q'[1]] # "out" /\ q'[1] \notin asleep'
    BY <1>0, <1>1, <1>2 DEF LockInv, QueuedThreadsWait, HeadHoldsLock, TypeOK, q
  <2>2. \A u \in Threads : lk'[u] \in Inside => q'[1] = u
    BY <1>1, <1>2 DEF LockInv, HeadHoldsLock, q
  <2> QED BY <1>1, <2>1, <2>2 DEF HeadHoldsLock, q
<1>7. LongPollAccurate'
  BY <1>1, <1>2, <1>3 DEF LockInv, LongPollAccurate, TypeOK, q, n
<1>8. InterruptPending'
  BY <1>1, <1>2, <1>3 DEF LockInv, LongPollAccurate, InterruptPending, TypeOK, q, n
<1>9. NoPollBehindLongPoll'
  BY <1>1, <1>2, <1>3 DEF LockInv, LongPollAccurate, NoPollBehindLongPoll, TypeOK, q, n
<1> QED BY <1>4, <1>5, <1>6, <1>7, <1>8, <1>9 DEF LockInv

\* get_attn_lock() is a claim of the attention queue.
LEMMA GetAttnLockInv ==
    ASSUME LockInv, NEW t \in Threads, get_attn_lock(t)
    PROVE  LockInv'
<1>1. intr' \in BOOLEAN
  BY DEF get_attn_lock, LockInv, TypeOK
<1> QED BY <1>1, AttentionClaimInv, "attn" \in {"attn", "poll"} DEF get_attn_lock

\* So is poll_attn_lock() where nobody stands in its way.
LEMMA PollAttnLockInv ==
    ASSUME LockInv, NEW t \in Threads, poll_attn_lock(t)
    PROVE  LockInv'
<1>1. intr' \in BOOLEAN
  BY DEF poll_attn_lock, LockInv, TypeOK
<1> QED BY <1>1, AttentionClaimInv DEF poll_attn_lock

-----------------------------------------------------------------------------
\* A run() caller takes a free lock, or waits at the end of the wait queue.
LEMMA GetPollwaitLockInv ==
    ASSUME LockInv, NEW t \in Threads, NEW m \in RunModes, get_pollwait_lock(t, m)
    PROVE  LockInv'
<1>0. /\ lk[t] = "out"
      /\ UNCHANGED <<intr, batch_intr, notifying>>
      /\ mode' = [mode EXCEPT ![t] = m]
  BY DEF get_pollwait_lock
<1>1. /\ \A i \in DOMAIN attn_waitqueue : attn_waitqueue[i] # t
      /\ \A i \in DOMAIN wait_waitqueue : wait_waitqueue[i] # t
      /\ t \notin asleep
      /\ DOMAIN attn_waitqueue = 1..Len(attn_waitqueue) /\ Len(attn_waitqueue) \in Nat
      /\ DOMAIN wait_waitqueue = 1..Len(wait_waitqueue) /\ Len(wait_waitqueue) \in Nat
      /\ \A i \in DOMAIN attn_waitqueue : attn_waitqueue[i] \in Threads
      /\ \A i \in DOMAIN wait_waitqueue : wait_waitqueue[i] \in Threads
      /\ attn_waitqueue = << >> <=> Len(attn_waitqueue) = 0
  BY <1>0, QueueFacts DEF LockInv, TypeOK, QueuedThreadsWait, HeadHoldsLock
<1>2. CASE attn_waitqueue = << >>
  <2>1. /\ attn_waitqueue' = <<t>> /\ long_poll_running' = TRUE
        /\ lk' = [lk EXCEPT ![t] = "pull"]
        /\ UNCHANGED <<wait_waitqueue, asleep>>
    BY <1>2 DEF get_pollwait_lock
  <2>2. /\ attn_waitqueue' \in Seq(Threads) /\ attn_waitqueue' # << >>
        /\ DOMAIN attn_waitqueue' = 1..1 /\ attn_waitqueue'[1] = t
        /\ Len(attn_waitqueue') = 1
    BY <2>1, SingleNode
  <2>3. wait_waitqueue = << >>
    BY <1>2 DEF LockInv, QueuedThreadsWait
  <2>4. DOMAIN wait_waitqueue = {}
    BY <2>3
  <2>5. TypeOK'
    <3>1. NodesDistinct'
      BY <2>1, <2>2, <2>4 DEF NodesDistinct
    <3> QED BY <1>0, <2>1, <2>2, <3>1 DEF LockInv, TypeOK
  <2>6. QueuedThreadsWait'
    BY <1>1, <2>1, <2>2, <2>4 DEF LockInv, TypeOK, QueuedThreadsWait
  <2>7. HeadHoldsLock'
    BY <1>1, <1>2, <2>1, <2>2 DEF LockInv, TypeOK, HeadHoldsLock
  <2>8. LongPollAccurate' /\ InterruptPending' /\ NoPollBehindLongPoll'
    BY <1>0, <2>1, <2>2 DEF LockInv, TypeOK, LongPollAccurate, InterruptPending, NoPollBehindLongPoll
  <2> QED BY <2>5, <2>6, <2>7, <2>8 DEF LockInv
<1>3. CASE attn_waitqueue # << >>
  <2>1. /\ wait_waitqueue' = Append(wait_waitqueue, t)
        /\ lk' = [lk EXCEPT ![t] = "wait"]
        /\ asleep' = asleep \cup {t}
        /\ UNCHANGED <<attn_waitqueue, long_poll_running>>
    BY <1>3 DEF get_pollwait_lock
  <2>2. /\ wait_waitqueue' \in Seq(Threads)
        /\ DOMAIN wait_waitqueue' = 1..(Len(wait_waitqueue) + 1)
        /\ \A i \in 1..Len(wait_waitqueue) : wait_waitqueue'[i] = wait_waitqueue[i]
        /\ wait_waitqueue'[Len(wait_waitqueue) + 1] = t
    BY <2>1, AppendNode DEF LockInv, TypeOK
  <2>3. /\ lk' \in [Threads -> LockStates] /\ mode' \in [Threads -> Modes]
        /\ \A u \in Threads : u # t => lk'[u] = lk[u] /\ mode'[u] = mode[u]
        /\ lk'[t] = "wait" /\ mode'[t] \in RunModes
    BY <1>0, <2>1 DEF LockInv, TypeOK
  <2>4. TypeOK'
    <3>1. \A i, j \in DOMAIN wait_waitqueue' : wait_waitqueue'[i] = wait_waitqueue'[j] => i = j
      BY <1>1, <2>2 DEF LockInv, TypeOK, NodesDistinct
    <3>2. \A i \in DOMAIN attn_waitqueue, j \in DOMAIN wait_waitqueue' :
             attn_waitqueue[i] # wait_waitqueue'[j]
      BY <1>1, <2>2 DEF LockInv, TypeOK, NodesDistinct
    <3>3. NodesDistinct'
      BY <2>1, <3>1, <3>2 DEF LockInv, TypeOK, NodesDistinct
    <3> QED BY <1>0, <2>1, <2>2, <2>3, <3>3 DEF LockInv, TypeOK
  <2>5. QueuedThreadsWait'
    <3>1. \A i \in DOMAIN attn_waitqueue : i > 1 =>
             lk'[attn_waitqueue[i]] = "wait" /\ mode'[attn_waitqueue[i]] \notin RunModes
      BY <1>1, <2>3 DEF LockInv, QueuedThreadsWait
    <3>2. \A i \in DOMAIN wait_waitqueue' :
             lk'[wait_waitqueue'[i]] = "wait" /\ mode'[wait_waitqueue'[i]] \in RunModes
      BY <1>1, <2>2, <2>3 DEF LockInv, QueuedThreadsWait
    <3>3. \A u \in asleep' : lk'[u] = "wait"
      BY <2>1, <2>3 DEF LockInv, TypeOK, QueuedThreadsWait
    <3> QED BY <1>3, <2>1, <3>1, <3>2, <3>3 DEF QueuedThreadsWait
  <2>6. attn_waitqueue[1] \in Threads /\ attn_waitqueue[1] # t
    BY <1>1, <1>3
  <2>7. HeadHoldsLock'
    BY <1>3, <2>1, <2>3, <2>6 DEF LockInv, HeadHoldsLock
  <2>8. LongPollAccurate' /\ InterruptPending'
    BY <1>0, <1>3, <2>1, <2>3, <2>6 DEF LockInv, LongPollAccurate, InterruptPending
  <2>9. NoPollBehindLongPoll'
    BY <1>1, <2>1, <2>3, <2>6 DEF LockInv, NoPollBehindLongPoll
  <2> QED BY <2>4, <2>5, <2>7, <2>8, <2>9 DEF LockInv
<1> QED BY <1>2, <1>3

\* Waking up changes no queue: the head starts to use its lock, anyone else goes
\* back to sleep.
LEMMA RecheckInv ==
    ASSUME LockInv, NEW t \in Threads, Recheck(t)
    PROVE  LockInv'
<1>0. /\ lk[t] = "wait" /\ t \notin asleep
      /\ UNCHANGED <<attn_waitqueue, wait_waitqueue, mode, intr, batch_intr, notifying>>
  BY DEF Recheck
<1>1. /\ DOMAIN attn_waitqueue = 1..Len(attn_waitqueue) /\ Len(attn_waitqueue) \in Nat
      /\ \A i \in DOMAIN attn_waitqueue : attn_waitqueue[i] \in Threads
      /\ \A i \in DOMAIN wait_waitqueue : wait_waitqueue[i] \in Threads
      /\ attn_waitqueue = << >> <=> Len(attn_waitqueue) = 0
      /\ attn_waitqueue # << >> => Head(attn_waitqueue) = attn_waitqueue[1]
  BY QueueFacts, UnqueueNode DEF LockInv, TypeOK
<1>2. NodesDistinct' /\ NoPollBehindLongPoll'
  BY <1>0 DEF LockInv, TypeOK, NodesDistinct, NoPollBehindLongPoll
<1>3. CASE check_head(t)
  <2>1. attn_waitqueue # << >> /\ attn_waitqueue[1] = t
    BY <1>1, <1>3 DEF check_head
  <2>2. /\ lk' = [lk EXCEPT ![t] = Entered(mode[t])]
        /\ long_poll_running' = (long_poll_running \/ mode[t] \in RunModes)
        /\ asleep' = asleep
    BY <1>3 DEF Recheck
  <2>3. /\ Entered(mode[t]) \in {"hold", "pull"}
        /\ mode[t] \in RunModes => Entered(mode[t]) = "pull"
    BY DEF Entered, LockInv, TypeOK
  <2>4. /\ lk' \in [Threads -> LockStates]
        /\ lk'[t] \in {"hold", "pull"}
        /\ \A u \in Threads : u # t => lk'[u] = lk[u]
    BY <2>2, <2>3 DEF LockInv, TypeOK
  <2>5. long_poll_running' = long_poll_running
    BY <2>1, <2>2 DEF LockInv, LongPollAccurate, TypeOK
  <2>6. TypeOK'
    BY <1>0, <1>2, <2>2, <2>4, <2>5 DEF LockInv, TypeOK
  <2>7. QueuedThreadsWait'
    <3>1. \A i \in DOMAIN attn_waitqueue : i > 1 =>
             lk'[attn_waitqueue[i]] = "wait" /\ mode[attn_waitqueue[i]] \notin RunModes
      BY <1>1, <2>1, <2>4 DEF LockInv, TypeOK, NodesDistinct, QueuedThreadsWait
    <3>2. \A i \in DOMAIN wait_waitqueue :
             lk'[wait_waitqueue[i]] = "wait" /\ mode[wait_waitqueue[i]] \in RunModes
      BY <1>1, <2>1, <2>4 DEF LockInv, TypeOK, NodesDistinct, QueuedThreadsWait
    <3>3. \A u \in asleep : lk'[u] = "wait"
      BY <1>0, <2>4 DEF LockInv, TypeOK, QueuedThreadsWait
    <3> QED BY <1>0, <2>1, <2>2, <3>1, <3>2, <3>3 DEF QueuedThreadsWait
  <2>8. HeadHoldsLock'
    BY <1>0, <2>1, <2>2, <2>4 DEF LockInv, HeadHoldsLock
  <2>9. LongPollAccurate'
    BY <1>0, <2>5 DEF LockInv, LongPollAccurate
  <2>10. InterruptPending'
    BY <1>0, <2>1, <2>4 DEF LockInv, InterruptPending
  <2> QED BY <1>2, <2>6, <2>7, <2>8, <2>9, <2>10 DEF LockInv
<1>4. CASE ~check_head(t)
  <2>1. asleep' = asleep \cup {t} /\ UNCHANGED <<lk, long_poll_running>>
    BY <1>4 DEF Recheck
  <2>2. attn_waitqueue # << >> => attn_waitqueue[1] # t
    BY <1>1, <1>4 DEF check_head
  <2>3. TypeOK'
    BY <1>0, <1>2, <2>1 DEF LockInv, TypeOK
  <2>4. QueuedThreadsWait' /\ HeadHoldsLock'
    BY <1>0, <2>1, <2>2 DEF LockInv, QueuedThreadsWait, HeadHoldsLock
  <2>5. LongPollAccurate' /\ InterruptPending'
    BY <1>0, <2>1 DEF LockInv, LongPollAccurate, InterruptPending
  <2> QED BY <1>2, <2>3, <2>4, <2>5 DEF LockInv
<1> QED BY <1>3, <1>4

\* A thread that wakes up for no reason finds its place in the queue unchanged.
LEMMA SpuriousWakeupInv ==
    ASSUME LockInv, NEW t \in Threads, SpuriousWakeup(t)
    PROVE  LockInv'
<1>0. /\ asleep' = asleep \ {t}
      /\ UNCHANGED <<attn_waitqueue, wait_waitqueue, long_poll_running, lk, mode,
                     intr, batch_intr, notifying>>
  BY DEF SpuriousWakeup
<1>1. TypeOK'
  BY <1>0 DEF LockInv, TypeOK, NodesDistinct
<1>2. QueuedThreadsWait' /\ HeadHoldsLock'
  BY <1>0 DEF LockInv, QueuedThreadsWait, HeadHoldsLock
<1>3. LongPollAccurate' /\ InterruptPending' /\ NoPollBehindLongPoll'
  BY <1>0 DEF LockInv, LongPollAccurate, InterruptPending, NoPollBehindLongPoll
<1> QED BY <1>1, <1>2, <1>3 DEF LockInv

-----------------------------------------------------------------------------
\* The queues after release_lock(): either the first poll-waiter alone owns the
\* lock, or the attention queue has merely lost its head.
LEMMA ReleaseQueues ==
    ASSUME LockInv, NEW t \in Threads, release_lock(t)
    PROVE  /\ attn_waitqueue # << >> /\ attn_waitqueue[1] = t
           /\ \/ /\ promotes /\ Len(attn_waitqueue) = 1 /\ wait_waitqueue # << >>
                 /\ attn_waitqueue' = <<wait_waitqueue[1]>>
                 /\ wait_waitqueue' = Tail(wait_waitqueue)
                 /\ long_poll_running' = TRUE
                 /\ asleep' = asleep \ {wait_waitqueue[1]}
              \/ /\ ~promotes
                 /\ Tail(attn_waitqueue) # << >> \/ wait_waitqueue = << >>
                 /\ attn_waitqueue' = Tail(attn_waitqueue)
                 /\ wait_waitqueue' = wait_waitqueue
                 /\ long_poll_running' = FALSE
                 /\ asleep' = IF Tail(attn_waitqueue) # << >>
                              THEN asleep \ {attn_waitqueue[2]} ELSE asleep
<1> USE DEF LockInv, TypeOK
<1>1. attn_waitqueue # << >> /\ attn_waitqueue[1] = t
  BY DEF release_lock, HeadHoldsLock
<1>2. /\ Tail(attn_waitqueue) \in Seq(Threads)
      /\ Tail(attn_waitqueue) = << >> <=> Len(attn_waitqueue) = 1
      /\ Len(attn_waitqueue) \in Nat /\ Len(Tail(attn_waitqueue)) = Len(attn_waitqueue) - 1
      /\ \A i \in 1..(Len(attn_waitqueue) - 1) : Tail(attn_waitqueue)[i] = attn_waitqueue[i + 1]
  BY <1>1, UnqueueNode, QueueFacts
<1>3. CASE promotes
  <2>1. Tail(attn_waitqueue) = << >> /\ wait_waitqueue # << >>
    BY <1>3 DEF promotes
  <2>2. Head(wait_waitqueue) = wait_waitqueue[1] /\ wait_waitqueue[1] \in Threads
    BY <2>1, UnqueueNode
  <2>3. attn_after_release = <<wait_waitqueue[1]>>
    BY <1>3, <2>1, <2>2, SingleNode DEF attn_after_release
  <2>4. signalled = {wait_waitqueue[1]}
    BY <2>2, <2>3, SingleNode DEF signalled
  <2> QED BY <1>1, <1>2, <1>3, <2>1, <2>3, <2>4
          DEF release_lock, wait_after_release, long_poll_after_release
<1>4. CASE ~promotes
  <2>1. Tail(attn_waitqueue) # << >> \/ wait_waitqueue = << >>
    BY <1>4 DEF promotes
  <2>2. attn_after_release = Tail(attn_waitqueue)
    BY <1>2, <1>4, EmptyPrefix DEF attn_after_release
  <2>3. Tail(attn_waitqueue) # << >> => Head(Tail(attn_waitqueue)) = attn_waitqueue[2]
    <3> SUFFICES ASSUME Tail(attn_waitqueue) # << >>
                 PROVE  Head(Tail(attn_waitqueue)) = attn_waitqueue[2]
      OBVIOUS
    <3>1. Head(Tail(attn_waitqueue)) = Tail(attn_waitqueue)[1]
      BY <1>2, UnqueueNode
    <3>2. Len(attn_waitqueue) > 1
      BY <1>1, <1>2, QueueFacts
    <3> QED BY <1>2, <3>1, <3>2
  <2>4. signalled = IF Tail(attn_waitqueue) # << >> THEN {attn_waitqueue[2]} ELSE {}
    BY <2>2, <2>3 DEF signalled
  <2> QED BY <1>1, <1>4, <2>1, <2>2, <2>4
          DEF release_lock, wait_after_release, long_poll_after_release
<1> QED BY <1>3, <1>4

\* Whoever comes to own the lock has been notified, and long_poll_running says
\* whether it is a run() caller.
LEMMA ReleaseLockInv ==
    ASSUME LockInv, NEW t \in Threads, release_lock(t)
    PROVE  LockInv'
<1> DEFINE n == Len(attn_waitqueue)
           k == Len(wait_waitqueue)
<1>0. /\ attn_waitqueue # << >> /\ attn_waitqueue[1] = t
      /\ lk' = [lk EXCEPT ![t] = "out"]
      /\ lk[t] \in {"hold", "pulled"}
      /\ UNCHANGED <<mode, intr, batch_intr, notifying>>
  BY ReleaseQueues DEF release_lock
<1>1. /\ DOMAIN attn_waitqueue = 1..n /\ n \in Nat /\ n > 0
      /\ DOMAIN wait_waitqueue = 1..k /\ k \in Nat
      /\ \A i \in DOMAIN attn_waitqueue : attn_waitqueue[i] \in Threads
      /\ \A i \in DOMAIN wait_waitqueue : wait_waitqueue[i] \in Threads
  BY <1>0, QueueFacts DEF LockInv, TypeOK
<1>2. /\ lk' \in [Threads -> LockStates] /\ lk'[t] = "out"
      /\ \A u \in Threads : u # t => lk'[u] = lk[u] /\ lk[u] \notin Inside
  BY <1>0 DEF LockInv, TypeOK, HeadHoldsLock
<1>3. /\ \A i \in DOMAIN wait_waitqueue : wait_waitqueue[i] # t
      /\ \A i \in DOMAIN attn_waitqueue : i > 1 => attn_waitqueue[i] # t
      /\ t \notin asleep
  BY <1>0, <1>1 DEF LockInv, QueuedThreadsWait
<1>4. CASE promotes
  <2>1. /\ n = 1 /\ wait_waitqueue # << >>
        /\ attn_waitqueue' = <<wait_waitqueue[1]>>
        /\ wait_waitqueue' = Tail(wait_waitqueue)
        /\ long_poll_running' = TRUE
        /\ asleep' = asleep \ {wait_waitqueue[1]}
    BY <1>4, ReleaseQueues
  <2>2. /\ wait_waitqueue' \in Seq(Threads) /\ k > 0
        /\ DOMAIN wait_waitqueue' = 1..(k - 1)
        /\ \A i \in 1..(k - 1) : wait_waitqueue'[i] = wait_waitqueue[i + 1]
    BY <2>1, UnqueueNode, QueueFacts DEF LockInv, TypeOK
  <2>3. /\ attn_waitqueue' \in Seq(Threads) /\ attn_waitqueue' # << >>
        /\ DOMAIN attn_waitqueue' = 1..1 /\ Len(attn_waitqueue') = 1
        /\ attn_waitqueue'[1] = wait_waitqueue[1]
        /\ wait_waitqueue[1] \in Threads /\ wait_waitqueue[1] # t
    BY <1>1, <1>3, <2>1, <2>2, SingleNode
  <2>4. TypeOK'
    <3>1. /\ \A i, j \in DOMAIN wait_waitqueue' :
                wait_waitqueue'[i] = wait_waitqueue'[j] => i = j
          /\ \A i \in DOMAIN wait_waitqueue' : wait_waitqueue'[i] # wait_waitqueue[1]
      BY <2>1, UnqueueDistinct DEF LockInv, TypeOK, NodesDistinct
    <3>2. NodesDistinct'
      BY <2>3, <3>1 DEF NodesDistinct
    <3> QED BY <1>0, <1>2, <2>1, <2>2, <2>3, <3>2 DEF LockInv, TypeOK
  <2>5. QueuedThreadsWait'
    <3>1. \A i \in DOMAIN wait_waitqueue' :
             lk'[wait_waitqueue'[i]] = "wait" /\ mode'[wait_waitqueue'[i]] \in RunModes
      <4> SUFFICES ASSUME NEW i \in 1..(k - 1)
                   PROVE  /\ lk'[wait_waitqueue'[i]] = "wait"
                          /\ mode'[wait_waitqueue'[i]] \in RunModes
        BY <2>2
      <4>1. i + 1 \in DOMAIN wait_waitqueue /\ wait_waitqueue'[i] = wait_waitqueue[i + 1]
        BY <1>1, <2>2
      <4>2. lk[wait_waitqueue[i + 1]] = "wait" /\ mode[wait_waitqueue[i + 1]] \in RunModes
        BY <4>1 DEF LockInv, QueuedThreadsWait
      <4>3. wait_waitqueue[i + 1] # t /\ wait_waitqueue[i + 1] \in Threads
        BY <1>1, <1>3, <4>1
      <4> QED BY <1>0, <1>2, <4>1, <4>2, <4>3
    <3>2. \A u \in asleep' : lk'[u] = "wait"
      BY <1>2, <1>3, <2>1 DEF LockInv, TypeOK, QueuedThreadsWait
    <3> QED BY <2>3, <3>1, <3>2 DEF QueuedThreadsWait
  <2>6. lk[wait_waitqueue[1]] = "wait" /\ mode[wait_waitqueue[1]] \in RunModes
    BY <1>1, <2>2 DEF LockInv, QueuedThreadsWait
  <2>7. HeadHoldsLock'
    BY <1>2, <2>1, <2>3, <2>6 DEF HeadHoldsLock
  <2>8. LongPollAccurate' /\ InterruptPending' /\ NoPollBehindLongPoll'
    BY <1>0, <2>1, <2>3, <2>6 DEF LongPollAccurate, InterruptPending, NoPollBehindLongPoll
  <2> QED BY <2>4, <2>5, <2>7, <2>8 DEF LockInv
<1>5. CASE ~promotes
  <2>1. /\ Tail(attn_waitqueue) # << >> \/ wait_waitqueue = << >>
        /\ attn_waitqueue' = Tail(attn_waitqueue)
        /\ wait_waitqueue' = wait_waitqueue
        /\ long_poll_running' = FALSE
        /\ asleep' = IF Tail(attn_waitqueue) # << >>
                     THEN asleep \ {attn_waitqueue[2]} ELSE asleep
    BY <1>5, ReleaseQueues
  <2>2. /\ attn_waitqueue' \in Seq(Threads)
        /\ Len(attn_waitqueue') = n - 1
        /\ DOMAIN attn_waitqueue' = 1..(n - 1)
        /\ \A i \in 1..(n - 1) : attn_waitqueue'[i] = attn_waitqueue[i + 1]
        /\ attn_waitqueue' = << >> <=> n = 1
    BY <1>0, <2>1, UnqueueNode DEF LockInv, TypeOK
  <2>3. \A i \in 1..(n - 1) :
           /\ lk'[attn_waitqueue'[i]] = "wait" /\ attn_waitqueue'[i] \in Threads
           /\ mode'[attn_waitqueue'[i]] \notin RunModes
    BY <1>0, <1>1, <1>2, <1>3, <2>2 DEF LockInv, QueuedThreadsWait
  <2>4. TypeOK'
    <3>1. /\ \A i, j \in DOMAIN attn_waitqueue' :
                attn_waitqueue'[i] = attn_waitqueue'[j] => i = j
          /\ \A i \in DOMAIN attn_waitqueue' :
                i + 1 \in DOMAIN attn_waitqueue /\ attn_waitqueue'[i] = attn_waitqueue[i + 1]
      BY <1>0, <2>1, UnqueueDistinct DEF LockInv, TypeOK, NodesDistinct
    <3>2. \A i \in DOMAIN attn_waitqueue', j \in DOMAIN wait_waitqueue :
             attn_waitqueue'[i] # wait_waitqueue[j]
      BY <3>1 DEF LockInv, TypeOK, NodesDistinct
    <3>3. NodesDistinct'
      BY <2>1, <3>1, <3>2 DEF LockInv, TypeOK, NodesDistinct
    <3>4. asleep' \in SUBSET Threads
      BY <2>1 DEF LockInv, TypeOK
    <3> QED BY <1>0, <1>2, <2>1, <2>2, <3>3, <3>4 DEF LockInv, TypeOK
  <2>5. QueuedThreadsWait'
    <3>1. \A i \in DOMAIN wait_waitqueue :
             lk'[wait_waitqueue[i]] = "wait" /\ mode'[wait_waitqueue[i]] \in RunModes
      BY <1>0, <1>1, <1>2, <1>3 DEF LockInv, QueuedThreadsWait
    <3>2. \A u \in asleep' : lk'[u] = "wait"
      BY <1>2, <1>3, <2>1 DEF LockInv, TypeOK, QueuedThreadsWait
    <3> QED BY <2>1, <2>2, <2>3, <3>1, <3>2 DEF QueuedThreadsWait
  <2>6. attn_waitqueue' # << >> => /\ 1 \in 1..(n - 1) /\ attn_waitqueue'[1] = attn_waitqueue[2]
                                   /\ attn_waitqueue'[1] \notin asleep'
    BY <1>1, <2>1, <2>2
  <2>7. HeadHoldsLock'
    BY <1>2, <2>3, <2>6 DEF HeadHoldsLock
  <2>8. attn_waitqueue' # << >> => mode'[attn_waitqueue'[1]] \notin RunModes
    BY <2>3, <2>6
  <2>9. LongPollAccurate'
    BY <2>1, <2>8 DEF LongPollAccurate
  <2>10. InterruptPending'
    <3>1. Len(attn_waitqueue') > 1 => attn_waitqueue' # << >>
      BY <1>1, <2>2
    <3> QED BY <2>8, <3>1 DEF InterruptPending
  <2>11. NoPollBehindLongPoll'
    BY <1>1, <2>2, <2>3 DEF NoPollBehindLongPoll
  <2> QED BY <2>4, <2>5, <2>7, <2>9, <2>10, <2>11 DEF LockInv
<1> QED BY <1>4, <1>5

-----------------------------------------------------------------------------
\* The steps of pull_events() stay inside the lock and change neither queue; only
\* a poller that has returned from its wait clears the event fd.
LEMMA PullStepInv ==
    ASSUME LockInv, NEW t \in Threads, NEW s \in {"batch", "again", "pulled"},
           lk[t] \in Pulling,
           lk' = [lk EXCEPT ![t] = s],
           UNCHANGED <<attn_waitqueue, wait_waitqueue, long_poll_running, mode, asleep,
                       notifying>>,
           intr' \in BOOLEAN, batch_intr' \in BOOLEAN
    PROVE  LockInv'
<1>1. attn_waitqueue # << >> /\ attn_waitqueue[1] = t
  BY DEF LockInv, HeadHoldsLock
<1>2. /\ lk' \in [Threads -> LockStates] /\ lk'[t] = s
      /\ \A u \in Threads : u # t => lk'[u] = lk[u]
  BY DEF LockInv, TypeOK
<1>3. /\ \A i \in DOMAIN attn_waitqueue : attn_waitqueue[i] \in Threads
      /\ \A i \in DOMAIN wait_waitqueue : wait_waitqueue[i] \in Threads
  BY QueueFacts DEF LockInv, TypeOK
<1>4. TypeOK'
  BY <1>2 DEF LockInv, TypeOK, NodesDistinct
<1>5. QueuedThreadsWait'
  BY <1>2, <1>3 DEF LockInv, TypeOK, QueuedThreadsWait
<1>6. HeadHoldsLock'
  BY <1>1, <1>2 DEF LockInv, HeadHoldsLock
<1>7. LongPollAccurate' /\ NoPollBehindLongPoll'
  BY DEF LockInv, LongPollAccurate, NoPollBehindLongPoll
<1>8. InterruptPending'
  BY <1>1, <1>2 DEF InterruptPending
<1> QED BY <1>4, <1>5, <1>6, <1>7, <1>8 DEF LockInv

\* interrupt_if_necessary() only makes the event fd readable.
LEMMA InterruptInv ==
    ASSUME LockInv, NEW t \in Threads, interrupt_check(t) \/ interrupt_wait(t)
    PROVE  LockInv'
<1>1. /\ UNCHANGED <<attn_waitqueue, wait_waitqueue, long_poll_running, lk, mode, asleep,
                     batch_intr>>
      /\ intr' \in BOOLEAN
      /\ intr => intr'
      /\ notifying' \in SUBSET Threads
  BY DEF interrupt_check, interrupt_wait, LockInv, TypeOK
<1>2. TypeOK'
  BY <1>1 DEF LockInv, TypeOK, NodesDistinct
<1>3. QueuedThreadsWait' /\ HeadHoldsLock'
  BY <1>1 DEF LockInv, QueuedThreadsWait, HeadHoldsLock
<1>4. LongPollAccurate' /\ InterruptPending' /\ NoPollBehindLongPoll'
  BY <1>1 DEF LockInv, LongPollAccurate, InterruptPending, NoPollBehindLongPoll
<1> QED BY <1>2, <1>3, <1>4 DEF LockInv

\* Every step of the lock preserves its invariant.
LEMMA NextLockInv == LockInv /\ [Next]_vars => LockInv'
<1> SUFFICES ASSUME LockInv, [Next]_vars PROVE LockInv'
  OBVIOUS
<1>1. CASE UNCHANGED vars
  <2>1. TypeOK'
    BY <1>1 DEF LockInv, TypeOK, NodesDistinct, vars
  <2>2. QueuedThreadsWait' /\ HeadHoldsLock'
    BY <1>1 DEF LockInv, QueuedThreadsWait, HeadHoldsLock, vars
  <2>3. LongPollAccurate' /\ InterruptPending' /\ NoPollBehindLongPoll'
    BY <1>1 DEF LockInv, LongPollAccurate, InterruptPending, NoPollBehindLongPoll, vars
  <2> QED BY <2>1, <2>2, <2>3 DEF LockInv
<1>2. ASSUME NEW t \in Threads, ThreadStep(t) PROVE LockInv'
  <2>1. CASE get_attn_lock(t)
    BY <2>1, GetAttnLockInv
  <2>2. CASE poll_attn_lock(t)
    BY <2>2, PollAttnLockInv
  <2>3. ASSUME NEW m \in RunModes, get_pollwait_lock(t, m) PROVE LockInv'
    BY <2>3, GetPollwaitLockInv
  <2>4. CASE Recheck(t)
    BY <2>4, RecheckInv
  <2>5. CASE SpuriousWakeup(t)
    BY <2>5, SpuriousWakeupInv
  <2>6. CASE release_lock(t)
    BY <2>6, ReleaseLockInv
  <2>7. ASSUME NEW ev \in BOOLEAN, NEW gi \in BOOLEAN, epoll_wait_events(t, ev, gi)
        PROVE  LockInv'
    <3>1. intr' \in BOOLEAN /\ batch_intr' \in BOOLEAN
      BY <2>7 DEF epoll_wait_events, LockInv, TypeOK
    <3> QED BY <2>7, <3>1, PullStepInv DEF epoll_wait_events
  <2>8. CASE epoll_wait_none(t)
    <3>1. intr' \in BOOLEAN /\ batch_intr' \in BOOLEAN
      BY <2>8 DEF epoll_wait_none, LockInv, TypeOK
    <3> QED BY <2>8, <3>1, PullStepInv DEF epoll_wait_none
  <2>9. CASE process_batch(t)
    <3>1. intr' \in BOOLEAN /\ batch_intr' \in BOOLEAN
      BY <2>9 DEF process_batch, LockInv, TypeOK
    <3> QED BY <2>9, <3>1, PullStepInv DEF process_batch
  <2>10. CASE interrupt_check(t) \/ interrupt_wait(t)
    BY <2>10, InterruptInv
  <2> QED BY <1>2, <2>1, <2>2, <2>3, <2>4, <2>5, <2>6, <2>7, <2>8, <2>9, <2>10 DEF ThreadStep
<1> QED BY <1>1, <1>2 DEF Next

-----------------------------------------------------------------------------
\* The lock's invariant holds in every reachable state, whatever the number of
\* threads.
THEOREM LockInvariant == Spec => []LockInv
<1>1. Init => LockInv
  BY InitLockInv
<1>2. LockInv /\ [Next]_vars => LockInv'
  BY NextLockInv
<1> QED BY <1>1, <1>2, PTL DEF Spec

\* Type correctness: in particular the intrusive queues never hold a node twice.
THEOREM LockTypeOK == Spec => []TypeOK
<1>1. LockInv => TypeOK
  BY DEF LockInv
<1> QED BY <1>1, LockInvariant, PTL

\* At most one thread polls or deregisters at a time.
THEOREM LockExclusion == Spec => []PollExclusion
<1>1. LockInv => PollExclusion
  BY DEF LockInv, HeadHoldsLock, PollExclusion
<1> QED BY <1>1, LockInvariant, PTL

\* A poller blocked in front of somebody always has an interrupt pending.
THEOREM NoLostInterrupt == Spec => []PollerInterrupted
<1>1. LockInv => PollerInterrupted
  BY DEF LockInv, HeadHoldsLock, InterruptPending, PollerInterrupted
<1> QED BY <1>1, LockInvariant, PTL

\* The owner of the lock is never left asleep.
THEOREM NoLostNotification == Spec => []OwnerAwake
<1>1. LockInv => OwnerAwake
  BY UnqueueNode DEF LockInv, TypeOK, HeadHoldsLock, OwnerAwake
<1> QED BY <1>1, LockInvariant, PTL

\* poll() never waits for a long poll.
THEOREM PollDoesNotWait == Spec => []NoPollBehindLongPoll
<1>1. LockInv => NoPollBehindLongPoll
  BY DEF LockInv
<1> QED BY <1>1, LockInvariant, PTL

-----------------------------------------------------------------------------
(* Refinement of LoopLock.                                                 *)

\* The first element of a queue, the rest of it, and all of it, as sets.
LEMMA QueueSets ==
    ASSUME NEW q \in Seq(Threads)
    PROVE  /\ q = << >> => {q[i] : i \in {j \in DOMAIN q : j = 1}} = {}
           /\ q = << >> => {q[i] : i \in {j \in DOMAIN q : j > 1}} = {}
           /\ q # << >> => {q[i] : i \in {j \in DOMAIN q : j = 1}} = {q[1]}
<1>1. DOMAIN q = 1..Len(q) /\ Len(q) \in Nat /\ (q = << >> <=> Len(q) = 0)
  BY QueueFacts
<1>2. CASE q = << >>
  BY <1>1, <1>2
<1>3. CASE q # << >>
  <2>1. {j \in DOMAIN q : j = 1} = {1}
    BY <1>1, <1>3
  <2> QED BY <1>3, <2>1
<1> QED BY <1>2, <1>3

\* The holder of the abstract lock is the head of the attention queue.
LEMMA HolderIsHead ==
    ASSUME TypeOK
    PROVE  /\ attn_waitqueue = << >> => holderSet = {} /\ urgentSet = {}
           /\ attn_waitqueue # << >> => holderSet = {attn_waitqueue[1]}
           /\ \A u : u \in urgentSet <=> \E i \in DOMAIN attn_waitqueue : i > 1 /\ u = attn_waitqueue[i]
           /\ \A u : u \in patientSet <=> \E i \in DOMAIN wait_waitqueue : u = wait_waitqueue[i]
<1>1. attn_waitqueue \in Seq(Threads)
  BY DEF TypeOK
<1> QED BY <1>1, QueueSets DEF holderSet, urgentSet, patientSet

\* The same after a step.
LEMMA NextHolderIsHead ==
    ASSUME TypeOK'
    PROVE  /\ attn_waitqueue' = << >> => holderSet' = {} /\ urgentSet' = {}
           /\ attn_waitqueue' # << >> => holderSet' = {attn_waitqueue'[1]}
           /\ \A u : u \in urgentSet' <=> \E i \in DOMAIN attn_waitqueue' : i > 1 /\ u = attn_waitqueue'[i]
           /\ \A u : u \in patientSet' <=> \E i \in DOMAIN wait_waitqueue' : u = wait_waitqueue'[i]
<1>1. attn_waitqueue' \in Seq(Threads)
  BY DEF TypeOK
<1> QED BY <1>1, QueueSets DEF holderSet, urgentSet, patientSet

\* A thread outside the lock is in none of the abstract sets.
LEMMA OutIsClaimable ==
    ASSUME LockInv, NEW t \in Threads, lk[t] = "out"
    PROVE  Abstract!Claimable(t)
<1>1. t \notin holderSet
  BY HolderIsHead DEF LockInv, HeadHoldsLock
<1>2. t \notin urgentSet
  BY HolderIsHead DEF LockInv, QueuedThreadsWait
<1>3. t \notin patientSet
  BY HolderIsHead DEF LockInv, QueuedThreadsWait
<1> QED BY <1>1, <1>2, <1>3 DEF Abstract!Claimable

\* A claim for attention is Claim on a free lock and WaitUrgently otherwise.
LEMMA AttentionClaimRefines ==
    ASSUME LockInv, LockInv', NEW t \in Threads, NEW m \in {"attn", "poll"},
           lk[t] = "out", QueueForAttention(t, m), UNCHANGED wait_waitqueue
    PROVE  Abstract!Next
<1>1. /\ Len(attn_waitqueue') = Len(attn_waitqueue) + 1
      /\ DOMAIN attn_waitqueue' = 1..(Len(attn_waitqueue) + 1)
      /\ \A i \in 1..Len(attn_waitqueue) : attn_waitqueue'[i] = attn_waitqueue[i]
      /\ attn_waitqueue'[Len(attn_waitqueue) + 1] = t
      /\ attn_waitqueue' # << >>
      /\ \A u \in Threads : u # t => lk'[u] = lk[u]
      /\ attn_waitqueue = << >> => lk'[t] \in {"hold", "pull"}
      /\ attn_waitqueue # << >> => lk'[t] = "wait"
  BY QueueForAttentionNodes
<1>2. /\ Len(attn_waitqueue) \in Nat /\ DOMAIN attn_waitqueue = 1..Len(attn_waitqueue)
      /\ attn_waitqueue = << >> <=> Len(attn_waitqueue) = 0
  BY QueueFacts DEF LockInv, TypeOK
<1>3. TypeOK /\ TypeOK' /\ Abstract!Claimable(t)
  BY OutIsClaimable DEF LockInv
<1>4. patientSet' = patientSet
  BY DEF patientSet
<1>5. holderSet' = {attn_waitqueue'[1]}
  BY <1>1, <1>3, NextHolderIsHead
<1>6. CASE attn_waitqueue = << >>
  <2>1. holderSet = {} /\ holderSet' = {t}
    BY <1>1, <1>2, <1>3, <1>5, <1>6, HolderIsHead
  <2>2. busySet' = {t}
    BY <1>1, <1>6 DEF busySet, LockInv, HeadHoldsLock
  <2>3. urgentSet' = urgentSet
    BY <1>1, <1>2, <1>6 DEF urgentSet
  <2>4. Abstract!Claim(t)
    BY <1>3, <1>4, <2>1, <2>2, <2>3 DEF Abstract!Claim
  <2> QED BY <2>4 DEF Abstract!Next
<1>7. CASE attn_waitqueue # << >>
  <2>1. holderSet # {} /\ holderSet' = holderSet
    BY <1>1, <1>2, <1>3, <1>5, <1>7, HolderIsHead, SMTT(30)
  <2>2. busySet' = busySet
    BY <1>1, <1>7 DEF busySet
  <2>3. urgentSet' = urgentSet \cup {t}
    <3>1. \A u : u \in urgentSet' <=> u \in urgentSet \/ u = t
      BY <1>1, <1>2, <1>3, <1>7, HolderIsHead, NextHolderIsHead
    <3> QED BY <3>1
  <2>4. Abstract!WaitUrgently(t)
    BY <1>3, <1>4, <2>1, <2>2, <2>3 DEF Abstract!WaitUrgently
  <2> QED BY <2>4 DEF Abstract!Next
<1> QED BY <1>6, <1>7

\* A run() caller's claim is Claim on a free lock and WaitPatiently otherwise.
LEMMA PollwaitRefines ==
    ASSUME LockInv, LockInv', NEW t \in Threads, NEW m \in RunModes, get_pollwait_lock(t, m)
    PROVE  Abstract!Next
<1>1. lk[t] = "out" /\ TypeOK /\ TypeOK' /\ Abstract!Claimable(t)
  BY OutIsClaimable DEF get_pollwait_lock, LockInv
<1>2. CASE attn_waitqueue = << >>
  <2>1. attn_waitqueue' = <<t>> /\ lk' = [lk EXCEPT ![t] = "pull"] /\ wait_waitqueue' = wait_waitqueue
    BY <1>2 DEF get_pollwait_lock
  <2>2. holderSet = {} /\ urgentSet = {}
    BY <1>1, <1>2, HolderIsHead
  <2>3. /\ DOMAIN attn_waitqueue' = 1..1 /\ attn_waitqueue'[1] = t /\ attn_waitqueue' # << >>
    BY <2>1, SingleNode
  <2>4. holderSet' = {t}
    BY <1>1, <2>3, NextHolderIsHead
  <2>5. urgentSet' = {}
    BY <2>3 DEF urgentSet
  <2>6. busySet' = {t}
    BY <1>1, <1>2, <2>1 DEF busySet, LockInv, HeadHoldsLock, TypeOK
  <2>7. patientSet' = patientSet
    BY <2>1 DEF patientSet
  <2>8. Abstract!Claim(t)
    BY <1>1, <2>2, <2>4, <2>5, <2>6, <2>7 DEF Abstract!Claim
  <2> QED BY <2>8 DEF Abstract!Next
<1>3. CASE attn_waitqueue # << >>
  <2>1. /\ wait_waitqueue' = Append(wait_waitqueue, t)
        /\ lk' = [lk EXCEPT ![t] = "wait"] /\ attn_waitqueue' = attn_waitqueue
    BY <1>3 DEF get_pollwait_lock
  <2>2. /\ DOMAIN wait_waitqueue' = 1..(Len(wait_waitqueue) + 1)
        /\ \A i \in 1..Len(wait_waitqueue) : wait_waitqueue'[i] = wait_waitqueue[i]
        /\ wait_waitqueue'[Len(wait_waitqueue) + 1] = t
        /\ DOMAIN wait_waitqueue = 1..Len(wait_waitqueue) /\ Len(wait_waitqueue) \in Nat
    BY <2>1, AppendNode, QueueFacts DEF LockInv, TypeOK
  <2>3. holderSet # {} /\ holderSet' = holderSet /\ urgentSet' = urgentSet
    BY <1>1, <1>3, <2>1, HolderIsHead DEF holderSet, urgentSet
  <2>4. busySet' = busySet
    BY <1>1, <2>1 DEF busySet, LockInv, TypeOK
  <2>5. patientSet' = patientSet \cup {t}
    <3>1. \A u : u \in patientSet' <=> u \in patientSet \/ u = t
      BY <1>1, <2>2, HolderIsHead, NextHolderIsHead
    <3> QED BY <3>1
  <2>6. Abstract!WaitPatiently(t)
    BY <1>1, <2>3, <2>4, <2>5 DEF Abstract!WaitPatiently
  <2> QED BY <2>6 DEF Abstract!Next
<1> QED BY <1>2, <1>3

\* A thread that finds itself at the head begins to use the lock.
LEMMA RecheckRefines ==
    ASSUME LockInv, LockInv', NEW t \in Threads, Recheck(t)
    PROVE  Abstract!Next \/ UNCHANGED Abstract!lockVars
<1>1. /\ holderSet' = holderSet /\ urgentSet' = urgentSet /\ patientSet' = patientSet
      /\ lk[t] = "wait" /\ TypeOK
  BY DEF Recheck, holderSet, urgentSet, patientSet, LockInv
<1>2. CASE check_head(t)
  <2>1. attn_waitqueue # << >> /\ attn_waitqueue[1] = t
    BY <1>1, <1>2, UnqueueNode DEF check_head, TypeOK
  <2>2. holderSet = {t}
    BY <1>1, <2>1, HolderIsHead
  <2>3. busySet = {}
    BY <1>1, <2>1 DEF busySet, LockInv, HeadHoldsLock
  <2>4. lk' = [lk EXCEPT ![t] = Entered(mode[t])] /\ Entered(mode[t]) \in Inside
    BY <1>2 DEF Recheck, Entered
  <2>5. busySet' = {t}
    BY <1>1, <2>3, <2>4 DEF busySet, TypeOK
  <2>6. Abstract!Begin(t)
    BY <1>1, <2>2, <2>3, <2>5 DEF Abstract!Begin
  <2> QED BY <2>6 DEF Abstract!Next
<1>3. CASE ~check_head(t)
  <2>1. busySet' = busySet
    BY <1>3 DEF Recheck, busySet
  <2> QED BY <1>1, <2>1 DEF Abstract!lockVars
<1> QED BY <1>2, <1>3

\* release_lock() hands over to the second attention node, else to the first
\* poll-waiter, else frees the lock.
LEMMA ReleaseRefines ==
    ASSUME LockInv, LockInv', NEW t \in Threads, release_lock(t)
    PROVE  Abstract!Next
<1>1. /\ attn_waitqueue # << >> /\ attn_waitqueue[1] = t /\ TypeOK /\ TypeOK'
      /\ lk' = [lk EXCEPT ![t] = "out"] /\ lk[t] \in Inside
  BY ReleaseQueues DEF release_lock, LockInv
<1>2. /\ DOMAIN attn_waitqueue = 1..Len(attn_waitqueue) /\ Len(attn_waitqueue) \in Nat
      /\ DOMAIN wait_waitqueue = 1..Len(wait_waitqueue) /\ Len(wait_waitqueue) \in Nat
      /\ Len(attn_waitqueue) > 0 /\ t \in Threads
  BY <1>1, QueueFacts DEF LockInv, TypeOK
<1>3. holderSet = {t} /\ busySet = {t} /\ busySet' = {}
  BY <1>1, HolderIsHead DEF busySet, LockInv, HeadHoldsLock, TypeOK
<1>4. SUFFICES /\ \/ \E u \in urgentSet :
                       holderSet' = {u} /\ urgentSet' = urgentSet \ {u} /\ patientSet' = patientSet
                  \/ \E u \in patientSet :
                       /\ urgentSet = {} /\ holderSet' = {u}
                       /\ patientSet' = patientSet \ {u} /\ urgentSet' = urgentSet
                  \/ /\ urgentSet = {} /\ patientSet = {} /\ holderSet' = {}
                     /\ urgentSet' = urgentSet /\ patientSet' = patientSet
  <2>1. Abstract!Release(t)
    BY <1>3, <1>4 DEF Abstract!Release
  <2> QED BY <2>1 DEF Abstract!Next
<1>5. CASE promotes
  <2>1. /\ Len(attn_waitqueue) = 1 /\ wait_waitqueue # << >>
        /\ attn_waitqueue' = <<wait_waitqueue[1]>>
        /\ wait_waitqueue' = Tail(wait_waitqueue)
    BY <1>5, ReleaseQueues
  <2>2. wait_waitqueue[1] \in Threads /\ 1 \in DOMAIN wait_waitqueue
    BY <1>1, <1>2, <2>1, QueueFacts DEF TypeOK
  <2>3. urgentSet = {}
    BY <1>2, <2>1 DEF urgentSet
  <2>4. /\ DOMAIN attn_waitqueue' = 1..1 /\ attn_waitqueue' # << >>
        /\ attn_waitqueue'[1] = wait_waitqueue[1]
    BY <2>1, <2>2, SingleNode
  <2>5. holderSet' = {wait_waitqueue[1]} /\ urgentSet' = {}
    BY <1>1, <2>4, NextHolderIsHead DEF urgentSet
  <2>6. wait_waitqueue[1] \in patientSet
    BY <2>2 DEF patientSet
  <2>7. patientSet' = patientSet \ {wait_waitqueue[1]}
    <3>1. \A i \in DOMAIN wait_waitqueue' :
             /\ i + 1 \in DOMAIN wait_waitqueue
             /\ wait_waitqueue'[i] = wait_waitqueue[i + 1]
             /\ wait_waitqueue'[i] # wait_waitqueue[1]
      BY <1>1, <2>1, UnqueueDistinct DEF TypeOK, NodesDistinct
    <3>2. \A i \in DOMAIN wait_waitqueue : i # 1 =>
             i - 1 \in DOMAIN wait_waitqueue' /\ wait_waitqueue'[i - 1] = wait_waitqueue[i]
      BY <1>1, <1>2, <2>1, UnqueueNode DEF TypeOK
    <3>3. \A u : u \in patientSet' <=> u \in patientSet /\ u # wait_waitqueue[1]
      BY <1>1, <3>1, <3>2, HolderIsHead, NextHolderIsHead
    <3> QED BY <3>3
  <2> QED BY <2>3, <2>5, <2>6, <2>7
<1>6. CASE ~promotes
  <2>1. /\ Tail(attn_waitqueue) # << >> \/ wait_waitqueue = << >>
        /\ attn_waitqueue' = Tail(attn_waitqueue)
        /\ wait_waitqueue' = wait_waitqueue
    BY <1>6, ReleaseQueues
  <2>2. /\ DOMAIN attn_waitqueue' = 1..(Len(attn_waitqueue) - 1)
        /\ \A i \in 1..(Len(attn_waitqueue) - 1) : attn_waitqueue'[i] = attn_waitqueue[i + 1]
        /\ attn_waitqueue' = << >> <=> Len(attn_waitqueue) = 1
    BY <1>1, <2>1, UnqueueNode DEF TypeOK
  <2>3. patientSet' = patientSet
    BY <2>1 DEF patientSet
  <2>4. CASE attn_waitqueue' # << >>
    <3>1. /\ 2 \in DOMAIN attn_waitqueue /\ attn_waitqueue'[1] = attn_waitqueue[2]
          /\ 1 \in 1..(Len(attn_waitqueue) - 1)
      BY <1>2, <2>2, <2>4
    <3>2. holderSet' = {attn_waitqueue[2]}
      BY <1>1, <2>4, <3>1, NextHolderIsHead
    <3>3. attn_waitqueue[2] \in urgentSet
      BY <1>1, <3>1, HolderIsHead
    <3>4. urgentSet' = urgentSet \ {attn_waitqueue[2]}
      <4>1. \A i \in DOMAIN attn_waitqueue' : i > 1 =>
               /\ i + 1 \in DOMAIN attn_waitqueue /\ i + 1 > 1
               /\ attn_waitqueue'[i] = attn_waitqueue[i + 1]
               /\ attn_waitqueue[i + 1] # attn_waitqueue[2]
        BY <1>1, <1>2, <2>2, <3>1 DEF TypeOK, NodesDistinct
      <4>2. \A i \in DOMAIN attn_waitqueue : i > 1 /\ attn_waitqueue[i] # attn_waitqueue[2] =>
               /\ i - 1 \in DOMAIN attn_waitqueue' /\ i - 1 > 1
               /\ attn_waitqueue'[i - 1] = attn_waitqueue[i]
        BY <1>2, <2>2
      <4>3. \A u : u \in urgentSet' <=> u \in urgentSet /\ u # attn_waitqueue[2]
        BY <1>1, <4>1, <4>2, HolderIsHead, NextHolderIsHead
      <4> QED BY <4>3
    <3> QED BY <2>3, <3>2, <3>3, <3>4
  <2>5. CASE attn_waitqueue' = << >>
    <3>1. Len(attn_waitqueue) = 1 /\ wait_waitqueue = << >>
      BY <2>1, <2>2, <2>5
    <3>2. urgentSet = {} /\ patientSet = {}
      BY <1>2, <3>1 DEF urgentSet, patientSet
    <3>3. holderSet' = {} /\ urgentSet' = {}
      BY <1>1, <2>5, NextHolderIsHead
    <3> QED BY <2>3, <3>2, <3>3
  <2> QED BY <2>4, <2>5
<1> QED BY <1>5, <1>6

\* The remaining steps change nothing a claimant can see.
LEMMA OtherStepsRefine ==
    ASSUME LockInv, NEW t \in Threads,
           \/ SpuriousWakeup(t) \/ interrupt_check(t) \/ interrupt_wait(t)
           \/ epoll_wait_none(t) \/ process_batch(t)
           \/ \E ev, gi \in BOOLEAN : epoll_wait_events(t, ev, gi)
    PROVE  UNCHANGED Abstract!lockVars
<1>1. UNCHANGED <<attn_waitqueue, wait_waitqueue>>
  BY DEF SpuriousWakeup, interrupt_check, interrupt_wait, epoll_wait_none, process_batch,
         epoll_wait_events
<1>2. \/ lk' = lk
      \/ lk[t] \in Inside /\ \E s \in Inside : lk' = [lk EXCEPT ![t] = s]
  BY DEF SpuriousWakeup, interrupt_check, interrupt_wait, epoll_wait_none, process_batch,
         epoll_wait_events
<1>3. busySet' = busySet
  BY <1>2 DEF busySet, LockInv, TypeOK
<1> QED BY <1>1, <1>3 DEF Abstract!lockVars, holderSet, urgentSet, patientSet

\* The attention lock implements the two-class lock of LoopLock, for any number
\* of threads: exclusive, nobody lost, attention before polling.
THEOREM LockRefinement == Spec => ImplementsLoopLock
<1>1. Init => Abstract!Init
  <2> SUFFICES ASSUME Init PROVE Abstract!Init
    OBVIOUS
  <2>1. holderSet = {} /\ urgentSet = {} /\ patientSet = {}
    BY DEF Init, holderSet, urgentSet, patientSet
  <2>2. busySet = {}
    BY DEF Init, busySet
  <2> QED BY <2>1, <2>2 DEF Abstract!Init
<1>2. LockInv /\ LockInv' /\ [Next]_vars => [Abstract!Next]_(Abstract!lockVars)
  <2> SUFFICES ASSUME LockInv, LockInv', [Next]_vars
               PROVE  Abstract!Next \/ UNCHANGED Abstract!lockVars
    OBVIOUS
  <2>1. CASE UNCHANGED vars
    BY <2>1 DEF vars, Abstract!lockVars, holderSet, busySet, urgentSet, patientSet
  <2>2. ASSUME NEW t \in Threads, ThreadStep(t)
        PROVE  Abstract!Next \/ UNCHANGED Abstract!lockVars
    <3>1. CASE get_attn_lock(t)
      BY <3>1, AttentionClaimRefines DEF get_attn_lock
    <3>2. CASE poll_attn_lock(t)
      BY <3>2, AttentionClaimRefines DEF poll_attn_lock
    <3>3. ASSUME NEW m \in RunModes, get_pollwait_lock(t, m) PROVE Abstract!Next
      BY <3>3, PollwaitRefines
    <3>4. CASE Recheck(t)
      BY <3>4, RecheckRefines
    <3>5. CASE release_lock(t)
      BY <3>5, ReleaseRefines
    <3>6. CASE \/ SpuriousWakeup(t) \/ interrupt_check(t) \/ interrupt_wait(t)
               \/ epoll_wait_none(t) \/ process_batch(t)
               \/ \E ev, gi \in BOOLEAN : epoll_wait_events(t, ev, gi)
      BY <3>6, OtherStepsRefine
    <3> QED BY <2>2, <3>1, <3>2, <3>3, <3>4, <3>5, <3>6 DEF ThreadStep
  <2> QED BY <2>1, <2>2 DEF Next
<1> QED BY <1>1, <1>2, LockInvariant, PTL DEF Spec, ImplementsLoopLock, Abstract!Spec
=============================================================================
