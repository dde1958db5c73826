--------------------------- MODULE EventLoopProofs --------------------------
(***************************************************************************)
(* Proofs about the event loop, for any finite sets of threads and of      *)
(* watchers, any limit and any size of the queue.                          *)
(*                                                                         *)
(* The loop uses the attention lock through its operations only, so that   *)
(* what AttnLockProofs shows of the lock holds in the loop.  LoopInv adds  *)
(* what is true of watchers, and is inductive; that reported events and a  *)
(* deregistration exclude each other comes from the lock.                  *)
(***************************************************************************)
EXTENDS EventLoop, FiniteSetTheorems, TLAPS

LockProofs == INSTANCE AttnLockProofs

-----------------------------------------------------------------------------
(* The lock in the loop.                                                   *)

\* AttnLockProofs speaks of the lock that the loop uses.
LEMMA SameLock ==
    /\ Lock!Init <=> LockProofs!Init
    /\ Lock!LockInv <=> LockProofs!LockInv
    /\ Lock!LockInv' <=> LockProofs!LockInv'
    /\ Lock!Next <=> LockProofs!Next
    /\ lockVars = LockProofs!vars /\ lockVars' = LockProofs!vars'
<1>1. Lock!Init <=> LockProofs!Init
  BY DEF Lock!Init, LockProofs!Init
<1>2. Lock!LockInv <=> LockProofs!LockInv
  BY DEF Lock!LockInv, Lock!TypeOK, Lock!NodesDistinct, Lock!LockStates, Lock!Modes,
     Lock!RunModes, Lock!QueuedThreadsWait, Lock!HeadHoldsLock, Lock!LongPollAccurate,
     Lock!InterruptPending, Lock!NoPollBehindLongPoll, Lock!Inside, Lock!Pulling,
     LockProofs!LockInv, LockProofs!TypeOK, LockProofs!NodesDistinct, LockProofs!LockStates,
     LockProofs!Modes, LockProofs!RunModes, LockProofs!QueuedThreadsWait,
     LockProofs!HeadHoldsLock, LockProofs!LongPollAccurate, LockProofs!InterruptPending,
     LockProofs!NoPollBehindLongPoll, LockProofs!Inside, LockProofs!Pulling
<1>3. Lock!LockInv' <=> LockProofs!LockInv'
  BY DEF Lock!LockInv, Lock!TypeOK, Lock!NodesDistinct, Lock!LockStates, Lock!Modes,
     Lock!RunModes, Lock!QueuedThreadsWait, Lock!HeadHoldsLock, Lock!LongPollAccurate,
     Lock!InterruptPending, Lock!NoPollBehindLongPoll, Lock!Inside, Lock!Pulling,
     LockProofs!LockInv, LockProofs!TypeOK, LockProofs!NodesDistinct, LockProofs!LockStates,
     LockProofs!Modes, LockProofs!RunModes, LockProofs!QueuedThreadsWait,
     LockProofs!HeadHoldsLock, LockProofs!LongPollAccurate, LockProofs!InterruptPending,
     LockProofs!NoPollBehindLongPoll, LockProofs!Inside, LockProofs!Pulling
<1>4. Lock!Next <=> LockProofs!Next
  BY DEF Lock!Next, Lock!ThreadStep, Lock!get_attn_lock, Lock!poll_attn_lock,
     Lock!get_pollwait_lock, Lock!Recheck, Lock!SpuriousWakeup, Lock!release_lock,
     Lock!epoll_wait_events, Lock!epoll_wait_none, Lock!process_batch, Lock!interrupt_check,
     Lock!interrupt_wait, Lock!QueueForAttention, Lock!Entered, Lock!attn_after_release,
     Lock!wait_after_release, Lock!long_poll_after_release, Lock!signalled, Lock!promotes,
     Lock!check_head, Lock!RunModes,
     LockProofs!Next, LockProofs!ThreadStep, LockProofs!get_attn_lock,
     LockProofs!poll_attn_lock, LockProofs!get_pollwait_lock, LockProofs!Recheck,
     LockProofs!SpuriousWakeup, LockProofs!release_lock, LockProofs!epoll_wait_events,
     LockProofs!epoll_wait_none, LockProofs!process_batch, LockProofs!interrupt_check,
     LockProofs!interrupt_wait, LockProofs!QueueForAttention, LockProofs!Entered,
     LockProofs!attn_after_release, LockProofs!wait_after_release,
     LockProofs!long_poll_after_release, LockProofs!signalled, LockProofs!promotes,
     LockProofs!check_head, LockProofs!RunModes
<1>5. lockVars = LockProofs!vars /\ lockVars' = LockProofs!vars'
  BY DEF lockVars, LockProofs!vars
<1> QED BY <1>1, <1>2, <1>3, <1>4, <1>5

\* A step of the lock keeps the lock's invariant.
LEMMA LockStep ==
    ASSUME Lock!LockInv, Lock!Next \/ UNCHANGED lockVars
    PROVE  Lock!LockInv'
<1>1. LockProofs!IsFiniteSet(Threads)
  BY EventLoopAssumption DEF LockProofs!IsFiniteSet, IsFiniteSet
<1>2. LockProofs!LockInv /\ [LockProofs!Next]_(LockProofs!vars)
  BY SameLock
<1>3. LockProofs!LockInv'
  BY <1>1, <1>2, LockProofs!NextLockInv
<1> QED BY <1>3, SameLock

\* The loop changes the lock's state by the lock's operations only.
LEMMA LoopUsesLock ==
    ASSUME NEW t \in Threads,
           ClientCall(t) \/ Deregistration(t) \/ Polling(t) \/ Processing(t)
    PROVE  Lock!Next \/ UNCHANGED lockVars
<1> USE DEF Lock!Next, Lock!ThreadStep
<1>1. ASSUME NEW k, interrupt_if_necessary(t, k)
      PROVE  Lock!Next \/ UNCHANGED lockVars
  BY <1>1 DEF interrupt_if_necessary
<1>2. CASE ClientCall(t)
  <2>1. CASE run(t) \/ poll(t)
    BY <2>1 DEF run, poll, Lock!RunModes
  <2>2. CASE \E w \in Watchers, b \in BOOLEAN : register_fd(t, w, b)
    BY <1>1, <2>2 DEF register_fd
  <2>3. CASE \E w \in Watchers, b \in BOOLEAN : set_enabled(t, w, b)
    BY <1>1, <2>3 DEF set_enabled
  <2>4. CASE \E w \in Watchers : deregister(t, w) \/ deregister_emulated(t, w)
    BY <2>4 DEF deregister, deregister_emulated
  <2> QED BY <1>2, <2>1, <2>2, <2>3, <2>4 DEF ClientCall
<1>3. CASE Deregistration(t)
  BY <1>3 DEF Deregistration, deregister_lock, deregister_issue, deregister_unlock
<1>4. CASE Polling(t)
  <2>1. CASE \E gi \in BOOLEAN : epoll_wait_events(t, gi)
    BY <2>1 DEF epoll_wait_events
  <2>2. CASE run_again(t) \/ WaitForLock(t) \/ pull_done(t)
    BY <2>2 DEF run_again, WaitForLock, pull_done, Lock!RunModes
  <2>3. CASE epoll_wait_none(t) \/ receive_fd_events(t)
    BY <2>3 DEF epoll_wait_none, receive_fd_events
  <2> QED BY <1>4, <2>1, <2>2, <2>3 DEF Polling
<1>5. CASE Processing(t)
  <2>1. CASE \E r \in Rearms : callback_returns(t, r)
    BY <1>1, <2>1 DEF callback_returns
  <2>2. CASE \/ process_events(t) \/ process_events_return(t)
             \/ \E w \in Watchers : dispatch(t, w)
             \/ callback_returns_removed(t)
             \/ release_load(t) \/ release_store(t) \/ relock(t)
    BY <2>2 DEF process_events, process_events_return, dispatch, callback_returns_removed,
       release_load, release_store, relock
  <2>3. CASE interrupt_wait(t)
    BY <2>3 DEF interrupt_wait
  <2> QED BY <1>5, <2>1, <2>2, <2>3 DEF Processing
<1> QED BY <1>2, <1>3, <1>4, <1>5

-----------------------------------------------------------------------------
(* Each action keeps what is true of watchers.                             *)

USE EventLoopAssumption DEF EpollStates, ThreadStates, IndexRange, reportable, Pending

\* There are no watchers at first.
LEMMA InitWatchers == Init => WatchersInv
BY DEF Init, WatchersInv, StateOK, OnePlace, Dispatching, RemovedOnce, BatchHeld

\* What threads do between events: nothing is said of a watcher.
LEMMA ThreadsOnly ==
    ASSUME WatchersInv, StateOK',
           UNCHANGED <<event_queue, reg, epoll, active, deleteme, batch, cur, deregVars>>,
           \A u \in Threads : pc'[u] = pc[u] \/ {pc[u], pc'[u]} \cap {"cb", "release", "store"} = {},
           \A u \in Threads : lk[u] = "batch" => lk'[u] = "batch"
    PROVE  WatchersInv'
<1>0. \A u \in Threads : /\ pc'[u] = "cb" <=> pc[u] = "cb"
                         /\ pc'[u] = "release" <=> pc[u] = "release"
                         /\ pc'[u] = "store" <=> pc[u] = "store"
  OBVIOUS
<1>1. OnePlace'
  BY DEF WatchersInv, OnePlace
<1>2. Dispatching'
  BY <1>0 DEF WatchersInv, Dispatching
<1>3. RemovedOnce'
  BY <1>0 DEF WatchersInv, RemovedOnce, deregVars
<1>4. BatchHeld'
  BY DEF WatchersInv, BatchHeld, deregVars
<1> QED BY <1>1, <1>2, <1>3, <1>4 DEF WatchersInv

\* Reported events stay with the poller, whatever happens to the lock.
LEMMA PollerKeepsBatch ==
    ASSUME Lock!LockInv, NEW t \in Threads,
           \/ Lock!get_attn_lock(t) \/ Lock!poll_attn_lock(t)
           \/ \E m \in Lock!RunModes : Lock!get_pollwait_lock(t, m)
           \/ Lock!Recheck(t) \/ Lock!SpuriousWakeup(t) \/ Lock!release_lock(t)
           \/ Lock!epoll_wait_none(t) \/ Lock!interrupt_check(t) \/ Lock!interrupt_wait(t)
           \/ UNCHANGED lockVars
    PROVE  \A u \in Threads : lk[u] = "batch" => lk'[u] = "batch"
<1>1. lk \in [Threads -> Lock!LockStates]
  BY DEF Lock!LockInv, Lock!TypeOK
<1> QED
  BY <1>1 DEF Lock!LockStates, Lock!get_attn_lock, Lock!poll_attn_lock, Lock!get_pollwait_lock,
     Lock!QueueForAttention, Lock!Recheck, Lock!SpuriousWakeup, Lock!release_lock,
     Lock!epoll_wait_none, Lock!interrupt_check, Lock!interrupt_wait, lockVars

\* Entering run() or poll(), or going round again, touches no watcher.
LEMMA RunStep ==
    ASSUME LoopInv, NEW t \in Threads, run(t) \/ poll(t) \/ run_again(t)
    PROVE  WatchersInv'
<1> USE DEF LoopInv
<1>1. /\ UNCHANGED <<event_queue, reg, epoll, active, deleteme, batch, cur, deregVars>>
      /\ pc' = pc \/ \E s \in {"pull", "process"} : pc[t] = "idle" /\ pc' = [pc EXCEPT ![t] = s]
      /\ StateOK'
  <2>1. CASE run(t)
    BY <2>1 DEF run, WatchersInv, StateOK, queueVars, watcherVars, deregVars
  <2>2. CASE poll(t)
    BY <2>2 DEF poll, WatchersInv, StateOK, queueVars, watcherVars, deregVars
  <2>3. CASE run_again(t)
    BY <2>3 DEF run_again, WatchersInv, StateOK, queueVars, watcherVars, deregVars, threadVars
  <2> QED BY <2>1, <2>2, <2>3
<1>2. \A u \in Threads : lk[u] = "batch" => lk'[u] = "batch"
  BY PollerKeepsBatch DEF run, poll, run_again, Lock!RunModes
<1>3. \A u \in Threads : pc'[u] = pc[u] \/ {pc[u], pc'[u]} \cap {"cb", "release", "store"} = {}
  BY <1>1 DEF WatchersInv, StateOK
<1> QED BY <1>1, <1>2, <1>3, ThreadsOnly

\* Waiting for the lock, an empty poll and an interrupt touch no watcher.
LEMMA LockOnlyStep ==
    ASSUME LoopInv, NEW t \in Threads,
           deregister_lock(t) \/ WaitForLock(t) \/ epoll_wait_none(t) \/ interrupt_wait(t)
    PROVE  WatchersInv'
<1> USE DEF LoopInv
<1>1. /\ UNCHANGED <<event_queue, reg, epoll, active, deleteme, batch, cur, deregVars, pc>>
      /\ StateOK'
  BY DEF deregister_lock, WaitForLock, epoll_wait_none, interrupt_wait, WatchersInv, StateOK,
     queueVars, watcherVars, deregVars, threadVars
<1>2. \A u \in Threads : lk[u] = "batch" => lk'[u] = "batch"
  BY PollerKeepsBatch DEF deregister_lock, WaitForLock, epoll_wait_none, interrupt_wait
<1> QED BY <1>1, <1>2, ThreadsOnly

\* Leaving the poll and going about the queue without taking an event touch no watcher.
LEMMA LeavePollStep ==
    ASSUME LoopInv, NEW t \in Threads,
           pull_done(t) \/ process_events(t) \/ process_events_return(t) \/ relock(t)
    PROVE  WatchersInv'
<1> USE DEF LoopInv
<1>1. /\ UNCHANGED <<event_queue, reg, epoll, active, deleteme, batch, cur, deregVars>>
      /\ pc[t] \in {"pull", "process", "next", "relock"}
      /\ \E s \in {"process", "next", "pull", "idle"} : pc' = [pc EXCEPT ![t] = s]
      /\ StateOK'
  <2>1. CASE pull_done(t)
    BY <2>1 DEF pull_done, WatchersInv, StateOK, queueVars, watcherVars, deregVars
  <2>2. CASE process_events(t)
    BY <2>2 DEF process_events, AfterProcessing, WatchersInv, StateOK, queueVars, watcherVars,
       deregVars
  <2>3. CASE process_events_return(t)
    BY <2>3 DEF process_events_return, AfterProcessing, WatchersInv, StateOK, queueVars,
       watcherVars, deregVars
  <2>4. CASE relock(t)
    BY <2>4 DEF relock, WatchersInv, StateOK, queueVars, watcherVars, deregVars
  <2> QED BY <2>1, <2>2, <2>3, <2>4
<1>2. \A u \in Threads : lk[u] = "batch" => lk'[u] = "batch"
  BY PollerKeepsBatch DEF pull_done, process_events, process_events_return, relock
<1>3. \A u \in Threads : pc'[u] = pc[u] \/ {pc[u], pc'[u]} \cap {"cb", "release", "store"} = {}
  BY <1>1 DEF WatchersInv, StateOK
<1> QED BY <1>1, <1>2, <1>3, ThreadsOnly

\* Nothing of a watcher that is being registered is left over from before.
LEMMA RegisterStep ==
    ASSUME LoopInv, NEW t \in Threads, NEW w \in Watchers, NEW b \in BOOLEAN,
           register_fd(t, w, b)
    PROVE  WatchersInv'
<1> USE DEF LoopInv, WatchersInv
<1>1. /\ reg[w] = "none" /\ reg' = [reg EXCEPT ![w] = "live"]
      /\ active' = active \ {w} /\ deleteme' = deleteme \ {w}
      /\ UNCHANGED <<batch, pc, call, cur, any, loaded, dereg, issued>>
      /\ emulate_enabled' \in SUBSET Watchers
      /\ num_nodes' \in 0..(IndexRange - 1)
  BY DEF register_fd, threadVars, deregVars, StateOK
<1>2. event_queue[w] = 0 /\ w \notin batch /\ w \notin active /\ epoll[w] = "none"
  BY <1>1 DEF RemovedOnce
<1>3. /\ \/ event_queue' = event_queue
         \/ event_queue' = [event_queue EXCEPT ![w] = 1] /\ w \in Emulated
      /\ \/ epoll' = epoll
         \/ \E e \in {"armed", "quiet"} : epoll' = [epoll EXCEPT ![w] = e] /\ w \notin Emulated
      /\ base_lock' \in Threads \cup {NoThread}
  BY <1>2 DEF register_fd, queue_watcher, StateOK, interrupt_if_necessary
<1>4. \A u \in Threads : lk[u] = "batch" => lk'[u] = "batch"
  BY PollerKeepsBatch DEF register_fd, interrupt_if_necessary
<1>5. StateOK'
  BY <1>1, <1>3 DEF StateOK
<1>6. OnePlace'
  BY <1>1, <1>2, <1>3 DEF StateOK, OnePlace
<1>7. Dispatching'
  BY <1>1, <1>2 DEF Dispatching
<1>8. RemovedOnce'
  BY <1>1, <1>2, <1>3 DEF StateOK, RemovedOnce, Dispatching
<1>9. BatchHeld'
  BY <1>1, <1>4 DEF BatchHeld
<1> QED BY <1>5, <1>6, <1>7, <1>8, <1>9

\* Only the client's rule, not to enable a watcher that may be in use, keeps an enabled
\* watcher out of the other places.
LEMMA SetEnabledStep ==
    ASSUME LoopInv, "enable_active" \notin Client,
           NEW t \in Threads, NEW w \in Watchers, NEW b \in BOOLEAN, set_enabled(t, w, b)
    PROVE  WatchersInv'
<1> USE DEF LoopInv, WatchersInv
<1>1. /\ reg[w] = "live"
      /\ b => w \notin active /\ event_queue[w] = 0 /\ w \notin batch
      /\ UNCHANGED <<num_nodes, reg, active, deleteme, batch, pc, call, cur, any, loaded, dereg,
                     issued>>
      /\ emulate_enabled' \in SUBSET Watchers
  BY DEF set_enabled, MayEnable, threadVars, deregVars, StateOK
<1>2. /\ \/ event_queue' = event_queue
         \/ event_queue' = [event_queue EXCEPT ![w] = 0]
         \/ event_queue' = [event_queue EXCEPT ![w] = 1] /\ w \in Emulated /\ b
      /\ \/ epoll' = epoll
         \/ epoll' = [epoll EXCEPT ![w] = "armed"] /\ w \notin Emulated /\ b
         \/ epoll' = [epoll EXCEPT ![w] = "null"] /\ w \notin Emulated
      /\ base_lock' \in Threads \cup {NoThread}
  <2>1. event_queue[w] \in {0, 1}
    BY DEF StateOK, OnePlace
  <2> QED BY <1>1, <2>1 DEF set_enabled, queue_watcher, dequeue_watcher, epoll_mod, StateOK,
                          interrupt_if_necessary
<1>3. \A u \in Threads : lk[u] = "batch" => lk'[u] = "batch"
  BY PollerKeepsBatch DEF set_enabled, interrupt_if_necessary
<1>4. StateOK'
  BY <1>1, <1>2 DEF StateOK
<1>5. OnePlace'
  BY <1>1, <1>2 DEF StateOK, OnePlace, RemovedOnce
<1>6. Dispatching'
  BY <1>1 DEF Dispatching
<1>7. RemovedOnce'
  <2>1. \A v \in Watchers : reg[v] # "live" =>
          /\ epoll'[v] = epoll[v] /\ event_queue'[v] = event_queue[v]
    BY <1>1, <1>2 DEF StateOK
  <2>2. \A v \in Emulated : epoll'[v] = epoll[v]
    BY <1>2 DEF StateOK
  <2>3. \A u \in Threads : pc[u] \in {"release", "store"} => cur[u] \in Watchers
    BY DEF StateOK, Dispatching
  <2> QED BY <1>1, <2>1, <2>2, <2>3 DEF RemovedOnce
<1>8. BatchHeld'
  BY <1>1, <1>3 DEF BatchHeld
<1> QED BY <1>4, <1>5, <1>6, <1>7, <1>8

\* deregister() takes the watch out of the epoll set before anything else.
LEMMA DeregisterStep ==
    ASSUME LoopInv, NEW t \in Threads, NEW w \in Watchers, deregister(t, w)
    PROVE  WatchersInv'
<1> USE DEF LoopInv, WatchersInv
<1>1. /\ dereg[t] = NoWatcher /\ w \notin Emulated /\ reg[w] = "live"
      /\ reg' = [reg EXCEPT ![w] = "dying"] /\ epoll' = [epoll EXCEPT ![w] = "none"]
      /\ dereg' = [dereg EXCEPT ![t] = w]
      /\ UNCHANGED <<base_lock, event_queue, num_nodes, active, deleteme, emulate_enabled, batch,
                     pc, call, cur, any, loaded, issued, lk>>
  BY DEF deregister, InClient, queueVars, threadVars, lockVars
<1>2. StateOK'
  BY <1>1 DEF StateOK
<1>3. OnePlace'
  BY <1>1 DEF StateOK, OnePlace
<1>4. Dispatching'
  BY <1>1 DEF Dispatching
<1>5. RemovedOnce'
  <2>1. t \notin issued
    BY <1>1 DEF BatchHeld
  <2>2. \A u \in Threads : ~ Pending(u, w)
    BY <1>1 DEF RemovedOnce
  <2>3. \A u \in Threads : cur[u] = w => pc[u] = "cb"
    BY <1>1 DEF RemovedOnce, Dispatching, StateOK
  <2>4. ASSUME NEW u \in Threads, NEW v \in Watchers, Pending(u, v)'
        PROVE  (u = t /\ v = w) \/ (Pending(u, v) /\ v # w)
    BY <1>1, <2>2, <2>4 DEF StateOK
  <2>5. w \notin deleteme
    BY <1>1 DEF RemovedOnce
  <2>6. \A u \in Threads, v \in Watchers :
          Pending(u, v)' =>
            /\ reg'[v] = "dying" /\ v \notin deleteme' /\ v \notin Emulated
            /\ \A x \in Threads : Pending(x, v)' => u = x
            /\ \A x \in Threads : cur'[x] = v => pc'[x] = "cb"
    BY <1>1, <2>3, <2>4, <2>5 DEF StateOK, RemovedOnce
  <2>7. \A u \in Threads :
          pc'[u] \in {"release", "store"} =>
            /\ reg'[cur'[u]] = "dying"
            /\ event_queue'[cur'[u]] = 0 /\ cur'[u] \notin batch'
    BY <1>1, <2>3 DEF StateOK, RemovedOnce, Dispatching
  <2> QED BY <1>1, <2>6, <2>7 DEF StateOK, RemovedOnce
<1>6. BatchHeld'
  BY <1>1 DEF BatchHeld, StateOK
<1> QED BY <1>2, <1>3, <1>4, <1>5, <1>6

\* issue_delete() of a watcher that is not reported and that nobody else removes.
LEMMA DeleteStep ==
    ASSUME LoopInv, NEW w \in Watchers, issue_delete(w),
           reg[w] # "none", w \notin batch, epoll[w] = "none",
           \A u \in Threads : cur[u] = w => pc[u] = "cb",
           \A u \in Threads : ~ Pending(u, w)',
           UNCHANGED <<base_lock, epoll, active, emulate_enabled, batch, threadVars, dereg, lk>>,
           issued' \in SUBSET Threads, issued \subseteq issued',
           \A u \in issued' : dereg[u] # NoWatcher
    PROVE  WatchersInv'
<1> USE DEF LoopInv, WatchersInv
<1>1. /\ \A u \in Threads, v \in Watchers : Pending(u, v)' => Pending(u, v) /\ v # w
      /\ UNCHANGED <<pc, call, cur, any, loaded>>
  BY DEF threadVars
<1>2. BatchHeld'
  BY DEF BatchHeld
<1>3. Dispatching'
  BY <1>1 DEF Dispatching
<1>4. \A u \in Threads : pc[u] \in {"release", "store"} => cur[u] \in Watchers /\ cur[u] # w
  BY DEF StateOK, Dispatching
<1>5. CASE w \in active
  <2>1. /\ deleteme' = deleteme \cup {w} /\ reg' = [reg EXCEPT ![w] = "dying"]
        /\ UNCHANGED <<event_queue, num_nodes>>
    BY <1>5 DEF issue_delete, queueVars
  <2>2. StateOK'
    BY <1>1, <2>1 DEF StateOK
  <2>3. OnePlace'
    BY <2>1 DEF OnePlace
  <2>4. RemovedOnce'
    BY <1>1, <1>4, <1>5, <2>1 DEF StateOK, RemovedOnce
  <2> QED BY <1>2, <1>3, <2>2, <2>3, <2>4
<1>6. CASE w \notin active
  <2>1. /\ event_queue' = [event_queue EXCEPT ![w] = 0]
        /\ num_nodes' \in 0..(IndexRange - 1)
        /\ reg' = [reg EXCEPT ![w] = "none"] /\ deleteme' = deleteme
    <3>1. event_queue[w] \in {0, 1}
      BY DEF StateOK, OnePlace
    <3>2. num_nodes' \in 0..(IndexRange - 1)
      BY <1>6 DEF issue_delete, decremented, StateOK
    <3> QED BY <1>6, <3>1, <3>2 DEF issue_delete, dequeue_watcher, StateOK
  <2>2. StateOK'
    BY <1>1, <2>1 DEF StateOK
  <2>3. OnePlace'
    BY <2>1 DEF OnePlace, StateOK
  <2>4. RemovedOnce'
    BY <1>1, <1>4, <1>6, <2>1 DEF StateOK, RemovedOnce
  <2> QED BY <1>2, <1>3, <2>2, <2>3, <2>4
<1> QED BY <1>5, <1>6

\* An emulated watcher has no backend entry: its deregistration is issue_delete() alone.
LEMMA DeregisterEmulatedStep ==
    ASSUME LoopInv, NEW t \in Threads, NEW w \in Watchers, deregister_emulated(t, w)
    PROVE  WatchersInv'
<1> USE DEF LoopInv, WatchersInv
<1>1. /\ w \in Emulated /\ reg[w] = "live" /\ issue_delete(w)
      /\ UNCHANGED <<base_lock, epoll, active, emulate_enabled, batch, threadVars, dereg, issued,
                     lk>>
  BY DEF deregister_emulated, deregVars, lockVars
<1>2. w \notin batch /\ epoll[w] = "none"
  BY <1>1 DEF RemovedOnce
<1>3. \A u \in Threads : cur[u] = w => pc[u] = "cb"
  BY <1>1 DEF RemovedOnce, Dispatching, StateOK
<1>4. \A u \in Threads : ~ Pending(u, w)'
  BY <1>1 DEF RemovedOnce
<1>5. issued' \in SUBSET Threads /\ issued \subseteq issued' /\ \A u \in issued' : dereg[u] # NoWatcher
  BY <1>1 DEF StateOK, BatchHeld
<1> QED BY <1>1, <1>2, <1>3, <1>4, <1>5, DeleteStep

\* The attention lock keeps events from being in a poller's hands.
LEMMA DeregisterIssueStep ==
    ASSUME LoopInv, NEW t \in Threads, deregister_issue(t)
    PROVE  WatchersInv'
<1> USE DEF LoopInv, WatchersInv
<1> DEFINE w == dereg[t]
<1>1. /\ w # NoWatcher /\ t \notin issued /\ lk[t] = "hold" /\ issue_delete(w)
      /\ issued' = issued \cup {t}
      /\ UNCHANGED <<base_lock, epoll, active, emulate_enabled, batch, threadVars, dereg, lk>>
  BY DEF deregister_issue, lockVars
<1>2. w \in Watchers /\ Pending(t, w)
  BY <1>1 DEF StateOK
<1>3. batch = {}
  <2>1. \A u \in Threads : lk[u] = "batch" => u = t
    BY <1>1 DEF Lock!LockInv, Lock!HeadHoldsLock, Lock!Inside, Lock!Pulling
  <2> QED BY <1>1, <2>1 DEF BatchHeld
<1>4. reg[w] = "dying" /\ epoll[w] = "none" /\ \A u \in Threads : cur[u] = w => pc[u] = "cb"
  BY <1>2 DEF RemovedOnce
<1>5. \A u \in Threads : ~ Pending(u, w)'
  BY <1>1, <1>2 DEF RemovedOnce
<1>6. issued' \in SUBSET Threads /\ issued \subseteq issued' /\ \A u \in issued' : dereg[u] # NoWatcher
  BY <1>1 DEF StateOK, BatchHeld
<1> QED BY <1>1, <1>2, <1>3, <1>4, <1>5, <1>6, DeleteStep

\* The release of the attention lock ends a deregistration whose watcher is deleted.
LEMMA DeregisterUnlockStep ==
    ASSUME LoopInv, NEW t \in Threads, deregister_unlock(t)
    PROVE  WatchersInv'
<1> USE DEF LoopInv, WatchersInv
<1>1. /\ t \in issued /\ issued' = issued \ {t} /\ dereg' = [dereg EXCEPT ![t] = NoWatcher]
      /\ UNCHANGED <<base_lock, event_queue, num_nodes, reg, epoll, active, deleteme,
                     emulate_enabled, batch, pc, call, cur, any, loaded>>
  BY DEF deregister_unlock, queueVars, watcherVars, threadVars
<1>2. \A u \in Threads : lk[u] = "batch" => lk'[u] = "batch"
  BY PollerKeepsBatch DEF deregister_unlock
<1>3. \A u \in Threads, v \in Watchers : Pending(u, v)' => Pending(u, v)
  BY <1>1 DEF StateOK
<1>4. StateOK'
  BY <1>1 DEF StateOK
<1>5. OnePlace' /\ Dispatching'
  BY <1>1 DEF OnePlace, Dispatching
<1>6. RemovedOnce'
  BY <1>1, <1>3 DEF RemovedOnce
<1>7. BatchHeld'
  BY <1>1, <1>2 DEF BatchHeld, StateOK
<1> QED BY <1>4, <1>5, <1>6, <1>7

\* Being reported spends the entry.
LEMMA EventsStep ==
    ASSUME LoopInv, NEW t \in Threads, NEW gi \in BOOLEAN, epoll_wait_events(t, gi)
    PROVE  WatchersInv'
<1> USE DEF LoopInv, WatchersInv
<1>1. PICK evs \in SUBSET UNION {reports(w) : w \in Watchers} :
        /\ Lock!epoll_wait_events(t, evs # {}, gi)
        /\ batch' = evs
        /\ epoll' = [w \in Watchers |-> IF w \in evs THEN "spent" ELSE epoll[w]]
        /\ UNCHANGED <<base_lock, queueVars, reg, active, deleteme, emulate_enabled,
                       threadVars, deregVars>>
  BY DEF epoll_wait_events
<1>2. UNCHANGED <<base_lock, event_queue, num_nodes, reg, active, deleteme, emulate_enabled,
                  pc, call, cur, any, loaded, dereg, issued>>
  BY <1>1 DEF queueVars, threadVars, deregVars
<1>3. evs \subseteq reportable \cup {NoWatcher}
  BY <1>1 DEF reports
<1>4. batch = {}
  <2>1. lk[t] \in {"pull", "again"}
    BY <1>1 DEF Lock!epoll_wait_events
  <2>2. \A u \in Threads : lk[u] = "batch" => u = t
    BY <2>1 DEF Lock!LockInv, Lock!HeadHoldsLock, Lock!Inside, Lock!Pulling
  <2> QED BY <2>1, <2>2 DEF BatchHeld
<1>5. lk'[t] = "batch"
  BY <1>1 DEF Lock!epoll_wait_events, Lock!LockInv, Lock!TypeOK
<1>6. StateOK'
  BY <1>1, <1>2, <1>3 DEF StateOK
<1>7. OnePlace'
  BY <1>1, <1>2, <1>3, <1>4 DEF OnePlace
<1>8. Dispatching'
  BY <1>2 DEF Dispatching
<1>9. RemovedOnce'
  <2>1. \A w \in evs : w = NoWatcher \/ (w \in Watchers /\ reg[w] = "live" /\ w \notin Emulated)
    BY <1>3 DEF RemovedOnce, StateOK
  <2>2. \A w \in Watchers : epoll'[w] = IF w \in evs THEN "spent" ELSE epoll[w]
    BY <1>1
  <2>3. \A u \in Threads : pc[u] \in {"release", "store"} => cur[u] \in Watchers
    BY DEF StateOK, Dispatching
  <2> QED BY <1>1, <1>2, <2>1, <2>2, <2>3 DEF RemovedOnce
<1>10. BatchHeld'
  BY <1>2, <1>5 DEF BatchHeld
<1> QED BY <1>6, <1>7, <1>8, <1>9, <1>10

\* What the poller has in its buffer is queued; none of it has an event yet.
LEMMA ReceiveStep ==
    ASSUME LoopInv, NEW t \in Threads, receive_fd_events(t)
    PROVE  WatchersInv'
<1> USE DEF LoopInv, WatchersInv
<1>1. /\ event_queue' = [w \in Watchers |-> event_queue[w] + IF w \in batch THEN 1 ELSE 0]
      /\ batch' = {}
      /\ UNCHANGED <<base_lock, num_nodes, reg, epoll, active, deleteme, emulate_enabled,
                     pc, call, cur, any, loaded, dereg, issued>>
  BY DEF receive_fd_events, receive_fd_event, watcherVars, threadVars, deregVars
<1>2. StateOK'
  BY <1>1 DEF StateOK
<1>3. OnePlace'
  BY <1>1 DEF OnePlace, StateOK
<1>4. Dispatching'
  BY <1>1 DEF Dispatching
<1>5. RemovedOnce'
  <2>1. \A u \in Threads : pc[u] \in {"release", "store"} => cur[u] \in Watchers
    BY DEF StateOK, Dispatching
  <2>2. \A w \in Watchers : w \notin batch => event_queue'[w] = event_queue[w]
    BY <1>1 DEF StateOK
  <2> QED BY <1>1, <2>1, <2>2 DEF RemovedOnce
<1>6. BatchHeld'
  BY <1>1 DEF BatchHeld
<1> QED BY <1>2, <1>3, <1>4, <1>5, <1>6

\* A queued watcher is in no other place, so that no other thread has it.
LEMMA DispatchStep ==
    ASSUME LoopInv, NEW t \in Threads, NEW w \in Watchers, dispatch(t, w)
    PROVE  WatchersInv'
<1> USE DEF LoopInv, WatchersInv
<1>1. /\ pc[t] = "next" /\ event_queue[w] = 1
      /\ event_queue' = [event_queue EXCEPT ![w] = 0]
      /\ active' = active \cup {w} /\ emulate_enabled' = emulate_enabled \ {w}
      /\ base_lock' = NoThread
      /\ cur' = [cur EXCEPT ![t] = w] /\ any' = [any EXCEPT ![t] = TRUE]
      /\ pc' = [pc EXCEPT ![t] = "cb"]
      /\ UNCHANGED <<num_nodes, reg, epoll, deleteme, batch, call, loaded, dereg, issued, lk>>
  <2>1. event_queue[w] = 1
    BY DEF dispatch, StateOK, OnePlace
  <2> QED BY <2>1 DEF dispatch, lockVars, deregVars
<1>2. w \notin batch /\ w \notin active /\ w \notin reportable /\ reg[w] # "none"
  BY <1>1 DEF OnePlace, RemovedOnce
<1>3. \A u \in Threads : cur[u] # w
  BY <1>1, <1>2 DEF Dispatching, RemovedOnce
<1>4. StateOK'
  BY <1>1 DEF StateOK
<1>5. OnePlace'
  BY <1>1, <1>2 DEF OnePlace, StateOK
<1>6. Dispatching'
  BY <1>1, <1>3 DEF Dispatching, StateOK
<1>7. RemovedOnce'
  <2>1. w \notin deleteme \/ reg[w] = "dying"
    BY <1>2 DEF RemovedOnce, StateOK
  <2>2. \A u \in Threads : pc'[u] \in {"release", "store"} =>
          pc[u] = pc'[u] /\ cur'[u] = cur[u] /\ cur[u] \in Watchers /\ cur[u] # w
    BY <1>1, <1>3 DEF StateOK, Dispatching
  <2>3. \A u \in Threads, v \in Watchers : cur'[u] = v => pc'[u] = "cb" \/ (cur[u] = v /\ pc'[u] = pc[u])
    BY <1>1 DEF StateOK
  <2>4. \A u \in Threads : pc[u] = "cb" => pc'[u] = "cb"
    BY <1>1 DEF StateOK
  <2> QED BY <1>1, <1>2, <2>1, <2>2, <2>3, <2>4 DEF RemovedOnce, StateOK
<1>8. BatchHeld'
  BY <1>1 DEF BatchHeld
<1> QED BY <1>4, <1>5, <1>6, <1>7, <1>8

\* A watcher whose handler runs is in no other place.
LEMMA ActiveIsAlone ==
    ASSUME WatchersInv, NEW w \in active
    PROVE  event_queue[w] = 0 /\ w \notin batch /\ w \notin reportable /\ reg[w] # "none"
BY SMTT(30) DEF WatchersInv, OnePlace, StateOK, RemovedOnce

\* What a handler's return does, by the effect e of the rearm value.
LEMMA ReturnEffects ==
    ASSUME LoopInv, NEW t \in Threads, NEW r \in Rearms, callback_returns(t, r)
    PROVE  LET w == cur[t]
               e == process_rearm(w, r)
           IN  /\ w \in Watchers /\ w \in active /\ event_queue[w] = 0 /\ w \notin batch
               /\ w \notin reportable /\ reg[w] # "none" /\ pc[t] = "cb" /\ dereg[t] = NoWatcher
               /\ e = "REMOVE" <=> (w \in deleteme \/ r = "REMOVE")
               /\ r = "REMOVE" => reg[w] = "live"
               /\ active' = active \ {w}
               /\ e # "REMOVE" => UNCHANGED reg /\ cur' = [cur EXCEPT ![t] = NoWatcher]
                                  /\ pc' = [pc EXCEPT ![t] = "next"]
               /\ e = "REMOVE" => reg' = [reg EXCEPT ![w] = "dying"] /\ UNCHANGED cur
                                  /\ pc' = [pc EXCEPT ![t] = "release"]
               /\ UNCHANGED <<num_nodes, deleteme, batch, call, any, loaded, dereg, issued, lk>>
<1> USE DEF LoopInv, WatchersInv
<1>1. cur[t] \in Watchers /\ cur[t] \in active /\ pc[t] = "cb" /\ dereg[t] = NoWatcher
  BY DEF callback_returns, Dispatching, StateOK
<1>2. /\ event_queue[cur[t]] = 0 /\ cur[t] \notin batch /\ cur[t] \notin reportable
      /\ reg[cur[t]] # "none"
  BY <1>1, ActiveIsAlone
<1>3. process_rearm(cur[t], r) = "REMOVE" <=> (cur[t] \in deleteme \/ r = "REMOVE")
  BY DEF process_rearm, Rearms
<1>4. UNCHANGED lk
  BY DEF callback_returns, interrupt_if_necessary, Lock!interrupt_check, lockVars
<1> QED
  BY <1>1, <1>2, <1>3, <1>4 DEF callback_returns, deregVars, StateOK

\* A handler's return re-arms, queues or removes the watcher, or leaves it alone.
LEMMA ReturnStep ==
    ASSUME LoopInv, NEW t \in Threads, NEW r \in Rearms, callback_returns(t, r)
    PROVE  WatchersInv'
<1> USE DEF LoopInv, WatchersInv
<1> DEFINE w == cur[t]
           e == process_rearm(w, r)
<1>1. /\ w \in Watchers /\ w \in active /\ event_queue[w] = 0 /\ w \notin batch
      /\ w \notin reportable /\ reg[w] # "none" /\ pc[t] = "cb" /\ dereg[t] = NoWatcher
      /\ e = "REMOVE" <=> (w \in deleteme \/ r = "REMOVE")
      /\ r = "REMOVE" => reg[w] = "live"
      /\ active' = active \ {w}
      /\ e # "REMOVE" => UNCHANGED reg /\ cur' = [cur EXCEPT ![t] = NoWatcher]
                         /\ pc' = [pc EXCEPT ![t] = "next"]
      /\ e = "REMOVE" => reg' = [reg EXCEPT ![w] = "dying"] /\ UNCHANGED cur
                         /\ pc' = [pc EXCEPT ![t] = "release"]
      /\ UNCHANGED <<num_nodes, deleteme, batch, call, any, loaded, dereg, issued, lk>>
  BY ReturnEffects
<1>2. /\ e = "REQUEUE" => event_queue' = [event_queue EXCEPT ![w] = 1]
      /\ e # "REQUEUE" => UNCHANGED event_queue
      /\ base_lock' \in Threads \cup {NoThread}
  BY <1>1 DEF callback_returns, queue_watcher, interrupt_if_necessary, StateOK
<1>3. emulate_enabled' \in SUBSET Watchers
  BY <1>1 DEF callback_returns, StateOK
<1>4. \/ epoll' = epoll
      \/ /\ e = "REARM" /\ w \notin Emulated /\ epoll[w] # "none"
         /\ epoll' = [epoll EXCEPT ![w] = "armed"]
      \/ /\ e = "DISARM" /\ w \notin Emulated /\ epoll[w] # "none"
         /\ epoll' = [epoll EXCEPT ![w] = "null"]
      \/ e = "REMOVE" /\ w \notin Emulated /\ epoll' = [epoll EXCEPT ![w] = "none"]
  <2>1. epoll' = CASE w \in Emulated -> epoll
                   [] w \notin Emulated /\ e = "REARM"  -> epoll_mod(w, "armed")
                   [] w \notin Emulated /\ e = "DISARM" -> epoll_mod(w, "null")
                   [] w \notin Emulated /\ e = "REMOVE" -> [epoll EXCEPT ![w] = "none"]
                   [] OTHER -> epoll
    BY Zenon DEF callback_returns
  <2> HIDE DEF e
  <2>2. ASSUME NEW s \in {"armed", "null"}
        PROVE  \/ epoll_mod(w, s) = epoll
               \/ epoll[w] # "none" /\ epoll_mod(w, s) = [epoll EXCEPT ![w] = s]
    <3>1. [epoll EXCEPT ![w] = epoll[w]] = epoll
      <4> epoll \in [Watchers -> EpollStates]
        BY DEF StateOK
      <4> HIDE DEF w
      <4> QED
        BY <1>1, SMT
    <3>2. CASE epoll[w] = "none"
      <4>1. epoll_mod(w, s) = [epoll EXCEPT ![w] = epoll[w]]
        BY <3>2, Zenon DEF epoll_mod
      <4> QED
        BY <3>1, <4>1, Zenon
    <3>3. CASE epoll[w] # "none"
      BY <1>1, <3>3, Zenon DEF epoll_mod
    <3> QED
      BY <3>2, <3>3
  <2>3. \/ epoll' = epoll
        \/ w \notin Emulated /\ e = "REARM" /\ epoll' = epoll_mod(w, "armed")
        \/ w \notin Emulated /\ e = "DISARM" /\ epoll' = epoll_mod(w, "null")
        \/ w \notin Emulated /\ e = "REMOVE" /\ epoll' = [epoll EXCEPT ![w] = "none"]
    BY <2>1, SMT
  <2> QED
    BY <2>2, <2>3
<1>5. e = "REMOVE" => epoll'[w] = "none"
  BY <1>1, <1>4 DEF callback_returns, StateOK, RemovedOnce
<1> HIDE DEF e
<1>6. StateOK'
  BY <1>1, <1>2, <1>3, <1>4 DEF StateOK
<1>7. OnePlace'
  BY <1>1, <1>2, <1>4 DEF OnePlace, StateOK
<1>8. Dispatching'
  BY <1>1 DEF Dispatching, StateOK
<1>9. RemovedOnce'
  <2>1. \A u \in Threads : ~ Pending(u, w) \/ e # "REMOVE"
    BY <1>1 DEF RemovedOnce
  <2>2. \A v \in Watchers \ {w} : /\ reg'[v] = reg[v] /\ epoll'[v] = epoll[v]
                                 /\ event_queue'[v] = event_queue[v]
    BY <1>1, <1>2, <1>4 DEF StateOK
  <2>3. \A v \in Watchers : reg'[v] # "live" \/ v \in Emulated => epoll'[v] = "none"
    BY <1>1, <1>4, <1>5, <2>2 DEF RemovedOnce, StateOK
  <2>4. \A u \in Threads : u # t => pc'[u] = pc[u] /\ cur'[u] = cur[u]
    BY <1>1 DEF StateOK
  <2>5. \A u \in Threads, v \in Watchers :
          Pending(u, v)' =>
            /\ reg'[v] = "dying" /\ v \notin deleteme' /\ v \notin Emulated
            /\ \A x \in Threads : Pending(x, v)' => u = x
            /\ \A x \in Threads : cur'[x] = v => pc'[x] = "cb"
    BY <1>1, <2>1, <2>2, <2>4 DEF RemovedOnce, StateOK
  <2>6. ASSUME NEW u \in Threads, pc'[u] \in {"release", "store"}
        PROVE  reg'[cur'[u]] = "dying" /\ event_queue'[cur'[u]] = 0 /\ cur'[u] \notin batch'
    <3>1. CASE u = t
      BY <1>1, <1>2, <2>6, <3>1 DEF StateOK
    <3>2. CASE u # t
      <4>1. cur[u] \in Watchers /\ cur[u] # w
        BY <1>1, <2>4, <2>6, <3>2 DEF Dispatching, StateOK
      <4> QED BY <1>1, <2>2, <2>4, <2>6, <3>2, <4>1 DEF RemovedOnce
    <3> QED BY <3>1, <3>2
  <2>7. \A v \in Watchers : reg'[v] = "none" => v # w
    BY <1>1 DEF StateOK
  <2> QED BY <1>1, <2>2, <2>3, <2>5, <2>6, <2>7 DEF RemovedOnce, StateOK
<1>10. BatchHeld'
  BY <1>1 DEF BatchHeld
<1> QED BY <1>6, <1>7, <1>8, <1>9, <1>10

\* The handler has deleted its watcher: the loop has nothing of it.
LEMMA ReturnRemovedStep ==
    ASSUME LoopInv, NEW t \in Threads, callback_returns_removed(t)
    PROVE  WatchersInv'
<1> USE DEF LoopInv, WatchersInv
<1> DEFINE w == cur[t]
<1>1. /\ pc[t] = "cb" /\ w \in deleteme
      /\ reg' = [reg EXCEPT ![w] = "none"]
      /\ active' = active \ {w} /\ deleteme' = deleteme \ {w}
      /\ base_lock' = t
      /\ pc' = [pc EXCEPT ![t] = "next"] /\ cur' = [cur EXCEPT ![t] = NoWatcher]
      /\ UNCHANGED <<event_queue, num_nodes, epoll, emulate_enabled, batch, call, any, loaded,
                     dereg, issued, lk>>
  BY DEF callback_returns_removed, lockVars, queueVars, deregVars
<1>2. w \in Watchers /\ w \in active
  BY <1>1 DEF Dispatching, StateOK
<1>3. event_queue[w] = 0 /\ w \notin batch /\ epoll[w] = "none"
  <2>1. reg[w] = "dying"
    BY <1>1, <1>2 DEF RemovedOnce
  <2> QED BY <1>2, <2>1, ActiveIsAlone DEF RemovedOnce
<1>4. StateOK'
  BY <1>1 DEF StateOK
<1>5. OnePlace'
  BY <1>1 DEF OnePlace
<1>6. Dispatching'
  BY <1>1, <1>2 DEF Dispatching, StateOK
<1>7. RemovedOnce'
  <2>1. \A u \in Threads : u # t => pc'[u] = pc[u] /\ cur'[u] = cur[u] /\ cur[u] # w
    BY <1>1, <1>2 DEF StateOK, Dispatching
  <2>2. \A u \in Threads : ~ Pending(u, w)
    BY <1>1, <1>2 DEF RemovedOnce
  <2>3. \A u \in Threads : pc'[u] \in {"release", "store"} => u # t /\ cur[u] \in Watchers
    BY <1>1, <2>1 DEF StateOK, Dispatching
  <2>4. cur'[t] = NoWatcher
    BY <1>1 DEF StateOK
  <2> QED BY <1>1, <1>2, <1>3, <2>1, <2>2, <2>3, <2>4 DEF RemovedOnce, StateOK
<1>8. BatchHeld'
  BY <1>1 DEF BatchHeld
<1> QED BY <1>4, <1>5, <1>6, <1>7, <1>8

\* The unlocked read of the handle count.
LEMMA ReleaseLoadStep ==
    ASSUME LoopInv, NEW t \in Threads, release_load(t)
    PROVE  WatchersInv'
<1> USE DEF LoopInv, WatchersInv
<1>1. /\ pc[t] = "release" /\ pc' = [pc EXCEPT ![t] = "store"]
      /\ loaded' = [loaded EXCEPT ![t] = num_nodes]
      /\ UNCHANGED <<base_lock, event_queue, num_nodes, reg, epoll, active, deleteme,
                     emulate_enabled, batch, call, cur, any, dereg, issued, lk>>
  BY DEF release_load, lockVars, queueVars, watcherVars, deregVars
<1>2. StateOK'
  BY <1>1 DEF StateOK
<1>3. OnePlace'
  BY <1>1 DEF OnePlace
<1>4. Dispatching'
  BY <1>1 DEF Dispatching, StateOK
<1>5. RemovedOnce'
  BY <1>1 DEF RemovedOnce, StateOK
<1>6. BatchHeld'
  BY <1>1 DEF BatchHeld
<1> QED BY <1>2, <1>3, <1>4, <1>5, <1>6

\* The removal is complete.
LEMMA ReleaseStoreStep ==
    ASSUME LoopInv, NEW t \in Threads, release_store(t)
    PROVE  WatchersInv'
<1> USE DEF LoopInv, WatchersInv
<1> DEFINE w == cur[t]
<1>1. /\ pc[t] = "store" /\ pc' = [pc EXCEPT ![t] = "relock"]
      /\ reg' = [reg EXCEPT ![w] = "none"]
      /\ loaded' = [loaded EXCEPT ![t] = 0]
      /\ num_nodes' = decremented(loaded[t])
      /\ cur' = [cur EXCEPT ![t] = NoWatcher]
      /\ UNCHANGED <<base_lock, event_queue, epoll, active, deleteme, emulate_enabled, batch,
                     call, any, dereg, issued, lk>>
  BY DEF release_store, lockVars, deregVars
<1>2. w \in Watchers /\ reg[w] = "dying" /\ event_queue[w] = 0 /\ w \notin batch
  BY <1>1 DEF Dispatching, StateOK, RemovedOnce
<1>3. w \notin active /\ epoll[w] = "none"
  BY <1>1, <1>2 DEF Dispatching, RemovedOnce
<1>4. StateOK'
  <2>1. num_nodes' \in 0..(IndexRange - 1)
    BY <1>1 DEF decremented, StateOK
  <2>2. /\ reg' \in [Watchers -> {"none", "live", "dying"}] /\ pc' \in [Threads -> ThreadStates]
        /\ cur' \in [Threads -> Watchers \cup {NoWatcher}]
    BY <1>1 DEF StateOK
  <2>3. loaded' \in [Threads -> 0..(IndexRange - 1)]
    BY <1>1 DEF StateOK
  <2> QED BY <1>1, <2>1, <2>2, <2>3 DEF StateOK
<1>5. OnePlace'
  BY <1>1 DEF OnePlace
<1>6. Dispatching'
  BY <1>1, <1>2 DEF Dispatching, StateOK
<1>7. RemovedOnce'
  <2>1. \A u \in Threads : u # t => pc'[u] = pc[u] /\ cur'[u] = cur[u] /\ cur[u] # w
    BY <1>1, <1>2 DEF StateOK, Dispatching
  <2>2. \A u \in Threads : ~ Pending(u, w)
    BY <1>1, <1>2 DEF RemovedOnce
  <2>3. \A u \in Threads : pc'[u] \in {"release", "store"} => u # t /\ cur[u] \in Watchers
    BY <1>1, <2>1 DEF StateOK, Dispatching
  <2>4. cur'[t] = NoWatcher
    BY <1>1 DEF StateOK
  <2> QED BY <1>1, <1>2, <1>3, <2>1, <2>2, <2>3, <2>4 DEF RemovedOnce, StateOK
<1>8. BatchHeld'
  BY <1>1 DEF BatchHeld
<1> QED BY <1>4, <1>5, <1>6, <1>7, <1>8

-----------------------------------------------------------------------------
(* The theorems.                                                           *)

\* A step of any thread keeps LoopInv, if no client enables the watcher whose handler
\* it is in.
LEMMA LoopStep ==
    ASSUME LoopInv, "enable_active" \notin Client, [Next]_vars
    PROVE  LoopInv'
<1>1. CASE UNCHANGED vars
  <2>1. Lock!LockInv'
    BY <1>1, LockStep DEF LoopInv, vars
  <2>2. StateOK' /\ UNCHANGED <<event_queue, reg, epoll, active, deleteme, batch, cur, deregVars, pc, lk>>
    BY <1>1 DEF LoopInv, WatchersInv, StateOK, vars, lockVars, queueVars, watcherVars,
       threadVars, deregVars
  <2> QED BY <2>1, <2>2, ThreadsOnly DEF LoopInv
<1>2. CASE Next
  <2>1. PICK t \in Threads : ClientCall(t) \/ Deregistration(t) \/ Polling(t) \/ Processing(t)
    BY <1>2 DEF Next
  <2>2. Lock!LockInv'
    BY <2>1, LoopUsesLock, LockStep DEF LoopInv
  <2> SUFFICES WatchersInv'
    BY <2>2 DEF LoopInv
  <2>3. CASE ClientCall(t)
    BY <2>3, RunStep, RegisterStep, SetEnabledStep, DeregisterStep, DeregisterEmulatedStep
       DEF ClientCall
  <2>4. CASE Deregistration(t)
    BY <2>4, LockOnlyStep, DeregisterIssueStep, DeregisterUnlockStep DEF Deregistration
  <2>5. CASE Polling(t)
    BY <2>5, RunStep, LockOnlyStep, LeavePollStep, EventsStep, ReceiveStep DEF Polling
  <2>6. CASE Processing(t)
    BY <2>6, LeavePollStep, LockOnlyStep, DispatchStep, ReturnStep, ReturnRemovedStep,
       ReleaseLoadStep, ReleaseStoreStep DEF Processing
  <2> QED BY <2>1, <2>3, <2>4, <2>5, <2>6
<1> QED BY <1>1, <1>2

\* LoopInv holds of any number of threads, watchers and events, if no client enables a
\* watcher from its own handler.
THEOREM LoopInvariant == "enable_active" \notin Client /\ Spec => []LoopInv
<1> SUFFICES ASSUME "enable_active" \notin Client PROVE Spec => []LoopInv
  OBVIOUS
<1>1. Init => LoopInv
  <2>1. LockProofs!IsFiniteSet(Threads)
    BY DEF LockProofs!IsFiniteSet, IsFiniteSet
  <2>2. Init => Lock!LockInv
    BY <2>1, SameLock, LockProofs!InitLockInv DEF Init
  <2> QED BY <2>2, InitWatchers DEF LoopInv
<1>2. LoopInv /\ [Next]_vars => LoopInv'
  BY LoopStep
<1> QED BY <1>1, <1>2, PTL DEF Spec

\* The loop is a user of the attention lock that keeps to the lock's protocol, whatever
\* its clients do: every property of the lock holds in it.
THEOREM LoopKeepsLockProtocol == Spec => Lock!Spec
<1>1. Init => Lock!Init
  BY DEF Init
<1>2. [Next]_vars => [Lock!Next]_(Lock!vars)
  <2> SUFFICES ASSUME [Next]_vars PROVE [Lock!Next]_(Lock!vars)
    OBVIOUS
  <2>1. UNCHANGED lockVars => UNCHANGED Lock!vars
    BY DEF lockVars, Lock!vars
  <2>2. CASE Next
    BY <2>1, <2>2, LoopUsesLock DEF Next
  <2>3. CASE UNCHANGED vars
    BY <2>1, <2>3 DEF vars
  <2> QED BY <2>2, <2>3
<1> QED BY <1>1, <1>2, PTL DEF Spec, Lock!Spec

\* How Cardinality counts membership.
LEMMA CountsMembership ==
    ASSUME NEW S, NEW x
    PROVE  Cardinality({x} \cap S) = IF x \in S THEN 1 ELSE 0
<1>1. CASE x \in S
  <2>1. {x} \cap S = {x}
    BY <1>1
  <2> QED BY <1>1, <2>1, FS_Singleton
<1>2. CASE x \notin S
  <2>1. {x} \cap S = {}
    BY <1>2
  <2> QED BY <1>2, <2>1, FS_EmptySet
<1> QED BY <1>1, <1>2

\* What Outstanding(w) amounts to.
LEMMA OutstandingIs ==
    ASSUME NEW w \in Watchers
    PROVE  Outstanding(w) = event_queue[w] + (IF w \in batch THEN 1 ELSE 0)
                              + (IF w \in active THEN 1 ELSE 0)
                              + (IF epoll[w] = "armed" THEN 1 ELSE 0)
BY CountsMembership DEF Outstanding

\* A watcher has at most one event outstanding.
THEOREM LoopOneOutstanding == "enable_active" \notin Client /\ Spec => []OneOutstanding
<1>1. LoopInv => OneOutstanding
  <2> SUFFICES ASSUME LoopInv, NEW w \in Watchers PROVE Outstanding(w) <= 1
    BY DEF OneOutstanding
  <2>1. event_queue[w] \in {0, 1}
    BY DEF LoopInv, WatchersInv, StateOK, OnePlace
  <2> QED BY <2>1, OutstandingIs DEF LoopInv, WatchersInv, OnePlace
<1> QED BY <1>1, LoopInvariant, PTL

\* Nothing of the loop leads to a watcher once watch_removed() has been called.
THEOREM LoopRemovedIsGone == "enable_active" \notin Client /\ Spec => []RemovedIsGone
<1>1. LoopInv => RemovedIsGone
  <2> SUFFICES ASSUME LoopInv, NEW w \in Watchers, reg[w] = "none"
               PROVE  Outstanding(w) = 0 /\ \A t \in Threads : cur[t] # w
    BY DEF RemovedIsGone
  <2> USE DEF LoopInv, WatchersInv
  <2>1. event_queue[w] = 0 /\ w \notin batch /\ w \notin active /\ epoll[w] = "none"
    BY DEF RemovedOnce
  <2>2. \A t \in Threads : cur[t] # w
    BY <2>1 DEF Dispatching, RemovedOnce
  <2> QED BY <2>1, <2>2, OutstandingIs
<1> QED BY <1>1, LoopInvariant, PTL

-----------------------------------------------------------------------------
(* One thread does not wait while events are queued.                       *)

\* Each operation of the lock changes the state of its caller only.
LEMMA LockEffects ==
    ASSUME Lock!LockInv, NEW t \in Threads
    PROVE  /\ Lock!get_attn_lock(t) =>
                 /\ lk[t] = "out" /\ mode' = [mode EXCEPT ![t] = "attn"]
                 /\ \E s \in {"hold", "wait"} : lk' = [lk EXCEPT ![t] = s]
           /\ Lock!poll_attn_lock(t) =>
                 /\ lk[t] = "out" /\ mode' = [mode EXCEPT ![t] = "poll"]
                 /\ \E s \in {"pull", "wait"} : lk' = [lk EXCEPT ![t] = s]
           /\ \A m \in Lock!RunModes : Lock!get_pollwait_lock(t, m) =>
                 /\ lk[t] = "out" /\ mode' = [mode EXCEPT ![t] = m]
                 /\ \E s \in {"pull", "wait"} : lk' = [lk EXCEPT ![t] = s]
           /\ Lock!Recheck(t) \/ Lock!SpuriousWakeup(t) =>
                 /\ mode' = mode
                 /\ \/ lk' = lk
                    \/ /\ lk[t] = "wait"
                       /\ lk' = [lk EXCEPT ![t] = IF mode[t] = "attn" THEN "hold" ELSE "pull"]
           /\ Lock!release_lock(t) =>
                 lk[t] \in {"hold", "pulled"} /\ mode' = mode /\ lk' = [lk EXCEPT ![t] = "out"]
BY DEF Lock!get_attn_lock, Lock!poll_attn_lock, Lock!get_pollwait_lock, Lock!QueueForAttention,
   Lock!Entered, Lock!Recheck, Lock!SpuriousWakeup, Lock!release_lock

\* A thread that has returned from epoll_wait() has the lock for run() or poll().
LEMMA PullEffects ==
    ASSUME Lock!LockInv, NEW t \in Threads,
           \/ \E ev, gi \in BOOLEAN : Lock!epoll_wait_events(t, ev, gi)
           \/ Lock!epoll_wait_none(t) \/ Lock!process_batch(t)
    PROVE  /\ lk[t] \in {"pull", "again", "batch"} /\ mode' = mode
           /\ \E s \in {"batch", "again", "pulled"} : lk' = [lk EXCEPT ![t] = s]
BY DEF Lock!epoll_wait_events, Lock!epoll_wait_none, Lock!process_batch

\* interrupt_if_necessary() moves no thread in the lock.
LEMMA InterruptEffects ==
    ASSUME NEW t \in Threads, NEW k, interrupt_if_necessary(t, k)
    PROVE  lk' = lk /\ mode' = mode
BY DEF interrupt_if_necessary, Lock!interrupt_check, lockVars

\* A thread enters the lock protocol and leaves it as run(), poll() and deregister() do.
LEMMA LockUseStep ==
    ASSUME LoopInv, LockUse, NEW t \in Threads,
           ClientCall(t) \/ Deregistration(t) \/ Polling(t) \/ Processing(t)
    PROVE  LockUse'
<1> USE DEF LockUse
<1>0. /\ Lock!LockInv /\ lk \in [Threads -> Lock!LockStates] /\ mode \in [Threads -> Lock!Modes]
      /\ pc \in [Threads -> ThreadStates]
      /\ dereg \in [Threads -> Watchers \cup {NoWatcher}]
  BY DEF LoopInv, WatchersInv, StateOK, Lock!LockInv, Lock!TypeOK
<1> USE <1>0
<1>1. CASE run(t) \/ poll(t) \/ run_again(t)
  <2>1. /\ dereg' = dereg /\ dereg[t] = NoWatcher
        /\ \/ pc' = [pc EXCEPT ![t] = "pull"] /\ \E s \in {"pull", "wait"} : lk' = [lk EXCEPT ![t] = s]
           \/ \E s \in ThreadStates : pc' = [pc EXCEPT ![t] = s] /\ lk' = lk /\ lk[t] = "out"
        /\ \A u \in Threads : u # t => mode'[u] = mode[u]
    <3>1. CASE run(t)
      BY <3>1, LockEffects DEF run, deregVars, Lock!RunModes
    <3>2. CASE poll(t)
      BY <3>2, LockEffects DEF poll, deregVars, Lock!poll_attn_lock_fails, lockVars
    <3>3. CASE run_again(t)
      BY <3>3, LockEffects DEF run_again, deregVars, threadVars, Lock!RunModes
    <3> QED BY <1>1, <3>1, <3>2, <3>3
  <2> QED BY <2>1
<1>2. CASE \/ \E w \in Watchers, b \in BOOLEAN : register_fd(t, w, b)
           \/ \E w \in Watchers, b \in BOOLEAN : set_enabled(t, w, b)
           \/ \E w \in Watchers : deregister_emulated(t, w)
           \/ deregister_issue(t) \/ interrupt_wait(t)
  <2>1. UNCHANGED <<lk, mode, pc, dereg>>
    BY <1>2, InterruptEffects DEF register_fd, set_enabled, deregister_emulated, deregister_issue,
       interrupt_wait, Lock!interrupt_wait, lockVars, threadVars, deregVars
  <2> QED BY <2>1
<1>3. CASE \E w \in Watchers : deregister(t, w)
  <2>1. PICK w \in Watchers : deregister(t, w)
    BY <1>3
  <2>2. /\ pc[t] \in {"idle", "cb"} /\ dereg[t] = NoWatcher
        /\ dereg' = [dereg EXCEPT ![t] = w] /\ UNCHANGED <<lk, mode, pc>>
    BY <2>1 DEF deregister, InClient, lockVars, threadVars
  <2> QED BY <2>2
<1>4. CASE deregister_lock(t) \/ deregister_unlock(t)
  <2>1. CASE deregister_lock(t)
    <3>1. /\ dereg[t] # NoWatcher /\ UNCHANGED <<pc, dereg>>
          /\ mode' = [mode EXCEPT ![t] = "attn"]
          /\ \E s \in {"hold", "wait"} : lk' = [lk EXCEPT ![t] = s]
      BY <2>1, LockEffects DEF deregister_lock, threadVars, deregVars
    <3> QED BY <3>1
  <2>2. CASE deregister_unlock(t)
    <3>1. /\ dereg' = [dereg EXCEPT ![t] = NoWatcher] /\ UNCHANGED <<pc, mode>>
          /\ lk' = [lk EXCEPT ![t] = "out"]
      BY <2>2, LockEffects DEF deregister_unlock, threadVars
    <3> QED BY <3>1
  <2> QED BY <1>4, <2>1, <2>2
<1>5. CASE WaitForLock(t)
  <2>1. /\ UNCHANGED <<pc, dereg, mode>>
        /\ \/ lk' = lk
           \/ /\ lk[t] = "wait"
              /\ lk' = [lk EXCEPT ![t] = IF mode[t] = "attn" THEN "hold" ELSE "pull"]
    BY <1>5, LockEffects DEF WaitForLock, threadVars, deregVars
  <2> QED BY <2>1
<1>6. CASE pull_done(t)
  <2>1. /\ pc[t] = "pull" /\ pc' = [pc EXCEPT ![t] = "process"] /\ UNCHANGED <<dereg, mode>>
        /\ lk' = [lk EXCEPT ![t] = "out"]
    BY <1>6, LockEffects DEF pull_done, deregVars
  <2> QED BY <2>1
<1>7. CASE (\E gi \in BOOLEAN : epoll_wait_events(t, gi)) \/ epoll_wait_none(t) \/ receive_fd_events(t)
  <2>1. /\ \/ \E ev, gi \in BOOLEAN : Lock!epoll_wait_events(t, ev, gi)
           \/ Lock!epoll_wait_none(t) \/ Lock!process_batch(t)
        /\ UNCHANGED <<pc, dereg>>
    BY <1>7 DEF epoll_wait_events, epoll_wait_none, receive_fd_events, threadVars, deregVars
  <2>2. /\ lk[t] \in {"pull", "again", "batch"} /\ mode' = mode
        /\ \E s \in {"batch", "again", "pulled"} : lk' = [lk EXCEPT ![t] = s]
    BY <2>1, PullEffects
  <2> QED BY <2>1, <2>2
<1>8. CASE \/ process_events(t) \/ process_events_return(t) \/ \E w \in Watchers : dispatch(t, w)
           \/ \E r \in Rearms : callback_returns(t, r)
           \/ callback_returns_removed(t) \/ release_load(t) \/ release_store(t) \/ relock(t)
  <2>1. /\ dereg[t] = NoWatcher \/ pc[t] \notin {"idle", "cb"}
        /\ UNCHANGED <<lk, mode, dereg>> /\ \E s \in ThreadStates : pc' = [pc EXCEPT ![t] = s]
    <3>1. CASE \E r \in Rearms : callback_returns(t, r)
      BY <3>1, InterruptEffects DEF callback_returns, lockVars, deregVars
    <3>2. CASE \/ process_events(t) \/ process_events_return(t) \/ \E w \in Watchers : dispatch(t, w)
               \/ callback_returns_removed(t) \/ release_load(t) \/ release_store(t) \/ relock(t)
      BY <3>2 DEF process_events, process_events_return, AfterProcessing, dispatch,
         callback_returns_removed, release_load, release_store, relock, lockVars, deregVars
    <3> QED BY <1>8, <3>1, <3>2
  <2>2. pc[t] # "pull"
    BY <1>8 DEF process_events, process_events_return, dispatch, callback_returns,
       callback_returns_removed, release_load, release_store, relock
  <2>3. lk[t] = "out" /\ dereg[t] = NoWatcher
    BY <2>1, <2>2
  <2> QED BY <2>1, <2>3
<1> QED
  BY <1>1, <1>2, <1>3, <1>4, <1>5, <1>6, <1>7, <1>8 DEF ClientCall, Deregistration, Polling, Processing

\* The thread goes to wait only when it has found the queue empty, and nobody else
\* queues anything.
LEMMA WaitsOnEmptyStep ==
    ASSUME LoopInv, LockUse, WaitsOnEmptyQueue, Limit # 0, NEW t \in Threads, Threads = {t},
           ClientCall(t) \/ Deregistration(t) \/ Polling(t) \/ Processing(t)
    PROVE  WaitsOnEmptyQueue'
<1> USE DEF WaitsOnEmptyQueue, LockUse
<1>0. /\ Lock!LockInv /\ lk \in [Threads -> Lock!LockStates] /\ mode \in [Threads -> Lock!Modes]
      /\ pc \in [Threads -> ThreadStates] /\ any \in [Threads -> BOOLEAN]
      /\ dereg \in [Threads -> Watchers \cup {NoWatcher}]
  BY DEF LoopInv, WatchersInv, StateOK, Lock!LockInv, Lock!TypeOK
<1> USE <1>0
<1>1. CASE run(t) \/ poll(t)
  <2>1. \/ lk'[t] # "out" /\ mode'[t] \in {"poll", "run_nowait"}
        \/ pc'[t] = "process"
    BY <1>1, LockEffects DEF run, poll, Lock!RunModes
  <2> QED BY <2>1
<1>2. CASE run_again(t)
  BY <1>2 DEF run_again, queueVars, threadVars
<1>3. CASE \/ \E w \in Watchers, b \in BOOLEAN : register_fd(t, w, b)
           \/ \E w \in Watchers, b \in BOOLEAN : set_enabled(t, w, b)
           \/ \E w \in Watchers : deregister(t, w) \/ deregister_emulated(t, w)
           \/ deregister_lock(t) \/ deregister_issue(t) \/ deregister_unlock(t)
  <2>1. pc' = pc
    BY <1>3 DEF register_fd, set_enabled, deregister, deregister_emulated, deregister_lock,
       deregister_issue, deregister_unlock, threadVars
  <2>2. pc[t] # "pull"
    <3>1. t \in issued => dereg[t] # NoWatcher
      BY DEF LoopInv, WatchersInv, BatchHeld
    <3> QED BY <1>3, <3>1 DEF register_fd, set_enabled, deregister, deregister_emulated,
               deregister_lock, deregister_issue, deregister_unlock, InClient
  <2> QED BY <2>1, <2>2
<1>4. CASE WaitForLock(t) \/ interrupt_wait(t)
  <2>1. /\ UNCHANGED <<pc, event_queue, mode>>
        /\ lk' = lk \/ (lk[t] = "wait" /\ lk'[t] \in {"hold", "pull"})
    BY <1>4, LockEffects DEF WaitForLock, interrupt_wait, Lock!interrupt_wait, threadVars, queueVars
  <2> QED BY <2>1
<1>5. CASE (\E gi \in BOOLEAN : epoll_wait_events(t, gi)) \/ epoll_wait_none(t) \/ receive_fd_events(t)
  <2>1. \/ \E ev, gi \in BOOLEAN : Lock!epoll_wait_events(t, ev, gi)
        \/ Lock!epoll_wait_none(t) \/ Lock!process_batch(t)
    BY <1>5 DEF epoll_wait_events, epoll_wait_none, receive_fd_events
  <2>2. lk'[t] \in {"batch", "again", "pulled"}
    BY <2>1, PullEffects
  <2> QED BY <2>2
<1>6. CASE process_events_return(t)
  <2>1. pc'[t] = "pull" => ~ any[t]
    BY <1>6 DEF process_events_return, AfterProcessing
  <2>2. pc'[t] = "pull" => \A w \in Watchers : event_queue[w] = 0
    BY <1>6, <2>1 DEF process_events_return, LimitReached
  <2> QED BY <1>6, <2>2 DEF process_events_return, queueVars
<1>7. CASE \/ pull_done(t) \/ process_events(t) \/ \E w \in Watchers : dispatch(t, w)
           \/ \E r \in Rearms : callback_returns(t, r)
           \/ callback_returns_removed(t) \/ release_load(t) \/ release_store(t) \/ relock(t)
  <2>1. pc'[t] # "pull"
    BY <1>7 DEF pull_done, process_events, dispatch, callback_returns, callback_returns_removed,
       release_load, release_store, relock
  <2> QED BY <2>1
<1> QED
  BY <1>1, <1>2, <1>3, <1>4, <1>5, <1>6, <1>7 DEF ClientCall, Deregistration, Polling, Processing

\* A single thread never sleeps in epoll_wait() while an event is queued, for any
\* watchers and any limit but the 0 that leaves the base lock held.
THEOREM SingleThreadNotStranded ==
    /\ "enable_active" \notin Client /\ Limit # 0 /\ \E t : Threads = {t}
    /\ Spec
    => []NoStrandedEvent
<1> SUFFICES ASSUME "enable_active" \notin Client, Limit # 0, NEW t, Threads = {t}
             PROVE  Spec => []NoStrandedEvent
  OBVIOUS
<1> DEFINE SInv == LockUse /\ WaitsOnEmptyQueue
<1>1. Init => SInv
  BY DEF Init, Lock!Init, LockUse, WaitsOnEmptyQueue
<1>2. SInv /\ LoopInv /\ [Next]_vars => SInv'
  <2>1. CASE Next
    BY <2>1, LockUseStep, WaitsOnEmptyStep DEF Next
  <2>2. CASE UNCHANGED vars
    BY <2>2 DEF vars, lockVars, queueVars, threadVars, deregVars, LockUse, WaitsOnEmptyQueue
  <2> QED BY <2>1, <2>2
<1>3. SInv => NoStrandedEvent
  BY DEF LockUse, WaitsOnEmptyQueue, NoStrandedEvent
<1> QED BY <1>1, <1>2, <1>3, LoopInvariant, PTL DEF Spec

-----------------------------------------------------------------------------
(* Refinement of WatcherContract.                                          *)

\* The handlers that the contract sees running are those of active watchers.
LEMMA RunningIsActive ==
    /\ WatchersInv => {cur[t] : t \in {u \in Threads : pc[u] = "cb"}} = active
    /\ WatchersInv' => {cur'[t] : t \in {u \in Threads : pc'[u] = "cb"}} = active'
<1>1. ASSUME WatchersInv
      PROVE  {cur[t] : t \in {u \in Threads : pc[u] = "cb"}} = active
  <2>1. \A t \in Threads : pc[t] = "cb" => cur[t] \in Watchers
    BY <1>1 DEF WatchersInv, Dispatching, StateOK
  <2> QED BY <1>1, <2>1 DEF WatchersInv, Dispatching, StateOK
<1>2. ASSUME WatchersInv'
      PROVE  {cur'[t] : t \in {u \in Threads : pc'[u] = "cb"}} = active'
  <2>1. \A t \in Threads : pc'[t] = "cb" => cur'[t] \in Watchers
    BY <1>2 DEF WatchersInv, Dispatching, StateOK
  <2> QED BY <1>2, <2>1 DEF WatchersInv, Dispatching, StateOK
<1> QED BY <1>1, <1>2

\* An action that changes neither registrations nor running handlers is a stuttering
\* step of the contract.
LEMMA ContractStutters ==
    ASSUME WatchersInv, WatchersInv', active' = active,
           \A w \in Watchers : reg[w] = "none" <=> reg'[w] = "none"
    PROVE  UNCHANGED Contract!contractVars
<1>1. {w \in Watchers : reg[w] # "none"} = {w \in Watchers : reg'[w] # "none"}
  OBVIOUS
<1> QED BY <1>1, RunningIsActive DEF Contract!contractVars

\* issue_delete() removes the watcher or leaves that to its handler.
LEMMA DeleteRefines ==
    ASSUME WatchersInv, WatchersInv', NEW w \in Watchers, issue_delete(w), active' = active,
           reg[w] # "none"
    PROVE  [Contract!Next]_(Contract!contractVars)
<1>1. reg \in [Watchers -> {"none", "live", "dying"}]
  BY DEF WatchersInv, StateOK
<1>2. CASE w \in active
  <2>1. \A v \in Watchers : reg[v] = "none" <=> reg'[v] = "none"
    BY <1>1, <1>2 DEF issue_delete
  <2> QED BY <2>1, ContractStutters
<1>3. CASE w \notin active
  <2>1. {v \in Watchers : reg'[v] # "none"} = {v \in Watchers : reg[v] # "none"} \ {w}
    BY <1>1, <1>3 DEF issue_delete
  <2>2. Contract!Removed(w)
    BY <1>3, <2>1, RunningIsActive DEF Contract!Removed
  <2> QED BY <2>2 DEF Contract!Next
<1> QED BY <1>2, <1>3

\* add_watch() registers.
LEMMA RegisterRefines ==
    ASSUME WatchersInv, WatchersInv', NEW t \in Threads, NEW w \in Watchers,
           NEW b \in BOOLEAN, register_fd(t, w, b)
    PROVE  Contract!Next
<1>1. /\ reg \in [Watchers -> {"none", "live", "dying"}]
      /\ reg[w] = "none" /\ reg' = [reg EXCEPT ![w] = "live"] /\ active' = active \ {w}
  BY DEF WatchersInv, StateOK, register_fd
<1>2. w \notin active
  BY <1>1 DEF WatchersInv, RemovedOnce
<1>3. {v \in Watchers : reg'[v] # "none"} = {v \in Watchers : reg[v] # "none"} \cup {w}
  BY <1>1
<1>4. Contract!Register(w)
  BY <1>1, <1>2, <1>3, RunningIsActive DEF Contract!Register
<1> QED BY <1>4 DEF Contract!Next

\* A dispatch starts the handler.
LEMMA DispatchRefines ==
    ASSUME WatchersInv, WatchersInv', NEW t \in Threads, NEW w \in Watchers, dispatch(t, w)
    PROVE  Contract!Next
<1>1. active' = active \cup {w} /\ reg' = reg /\ event_queue[w] > 0
  BY DEF dispatch
<1>2. w \notin active /\ reg[w] # "none"
  BY <1>1, ActiveIsAlone DEF WatchersInv, RemovedOnce
<1>3. Contract!HandlerStarts(w)
  BY <1>1, <1>2, RunningIsActive DEF Contract!HandlerStarts
<1> QED BY <1>3 DEF Contract!Next

\* A handler's return ends the call; a removal because of it comes later.
LEMMA ReturnRefines ==
    ASSUME LoopInv, WatchersInv', NEW t \in Threads, NEW r \in Rearms, callback_returns(t, r)
    PROVE  Contract!Next
<1>0. PICK w : w = cur[t]
  OBVIOUS
<1>1. /\ w \in Watchers /\ w \in active /\ reg[w] # "none" /\ active' = active \ {w}
      /\ reg' = reg \/ reg' = [reg EXCEPT ![w] = "dying"]
  BY <1>0, ReturnEffects
<1>2. WatchersInv /\ reg \in [Watchers -> {"none", "live", "dying"}]
  BY DEF LoopInv, WatchersInv, StateOK
<1>3. {v \in Watchers : reg'[v] # "none"} = {v \in Watchers : reg[v] # "none"}
  BY <1>1, <1>2
<1>4. Contract!HandlerReturns(w)
  BY <1>1, <1>2, <1>3, RunningIsActive DEF Contract!HandlerReturns
<1> QED BY <1>1, <1>4 DEF Contract!Next

\* The handler that deleted its watcher ends it.
LEMMA ReturnRemovedRefines ==
    ASSUME WatchersInv, WatchersInv', NEW t \in Threads, callback_returns_removed(t)
    PROVE  Contract!Next
<1>0. PICK w : w = cur[t]
  OBVIOUS
<1>1. /\ pc[t] = "cb" /\ reg' = [reg EXCEPT ![w] = "none"] /\ active' = active \ {w}
      /\ reg \in [Watchers -> {"none", "live", "dying"}]
  BY <1>0 DEF callback_returns_removed, WatchersInv, StateOK
<1>2. w \in Watchers /\ w \in active /\ reg[w] # "none"
  BY <1>0, <1>1, ActiveIsAlone DEF WatchersInv, Dispatching, StateOK
<1>3. {v \in Watchers : reg'[v] # "none"} = {v \in Watchers : reg[v] # "none"} \ {w}
  BY <1>1
<1>4. Contract!DeletedByHandler(w)
  BY <1>1, <1>2, <1>3, RunningIsActive DEF Contract!DeletedByHandler
<1> QED BY <1>2, <1>4 DEF Contract!Next

\* The last step of post_dispatch() for a removal ends the registration.
LEMMA ReleaseStoreRefines ==
    ASSUME WatchersInv, WatchersInv', NEW t \in Threads, release_store(t)
    PROVE  Contract!Next
<1>0. PICK w : w = cur[t]
  OBVIOUS
<1>1. /\ pc[t] = "store" /\ reg' = [reg EXCEPT ![w] = "none"] /\ active' = active
      /\ reg \in [Watchers -> {"none", "live", "dying"}]
  BY <1>0 DEF release_store, WatchersInv, StateOK
<1>2. w \in Watchers /\ reg[w] = "dying"
  BY <1>0, <1>1 DEF WatchersInv, Dispatching, StateOK, RemovedOnce
<1>3. w \notin active
  BY <1>0, <1>1, <1>2 DEF WatchersInv, Dispatching
<1>4. {v \in Watchers : reg'[v] # "none"} = {v \in Watchers : reg[v] # "none"} \ {w}
  BY <1>1
<1>5. Contract!Removed(w)
  BY <1>1, <1>2, <1>3, <1>4, RunningIsActive DEF Contract!Removed
<1> QED BY <1>2, <1>5 DEF Contract!Next

\* Every other step leaves registrations and handlers as they are.
LEMMA OtherStepsRefine ==
    ASSUME WatchersInv, WatchersInv', NEW t \in Threads,
           \/ run(t) \/ poll(t) \/ deregister_lock(t) \/ deregister_unlock(t) \/ Polling(t)
           \/ process_events(t) \/ process_events_return(t) \/ release_load(t) \/ relock(t)
           \/ interrupt_wait(t)
           \/ \E w \in Watchers, b \in BOOLEAN : set_enabled(t, w, b)
           \/ \E w \in Watchers : deregister(t, w)
    PROVE  UNCHANGED Contract!contractVars
<1> SUFFICES active' = active /\ \A v \in Watchers : reg[v] = "none" <=> reg'[v] = "none"
  BY ContractStutters
<1>1. CASE \E w \in Watchers : deregister(t, w)
  BY <1>1 DEF deregister, WatchersInv, StateOK
<1>2. CASE Polling(t)
  BY <1>2 DEF Polling, run_again, WaitForLock, pull_done, epoll_wait_events, epoll_wait_none,
     receive_fd_events, watcherVars
<1>3. CASE \E w \in Watchers, b \in BOOLEAN : set_enabled(t, w, b)
  BY <1>3 DEF set_enabled
<1>4. CASE \/ run(t) \/ poll(t) \/ deregister_lock(t) \/ deregister_unlock(t)
           \/ process_events(t) \/ process_events_return(t) \/ release_load(t) \/ relock(t)
           \/ interrupt_wait(t)
  BY <1>4 DEF run, poll, deregister_lock, deregister_unlock, process_events,
     process_events_return, release_load, relock, interrupt_wait, watcherVars
<1> QED BY <1>1, <1>2, <1>3, <1>4

\* The event loop keeps the contract its clients program against: handlers run only for
\* registered watchers and never twice at a time, and a watcher is removed once and not
\* while its handler runs.
THEOREM LoopRefinement == "enable_active" \notin Client /\ Spec => ImplementsContract
<1> SUFFICES ASSUME "enable_active" \notin Client PROVE Spec => ImplementsContract
  OBVIOUS
<1>1. Init => Contract!Init
  BY DEF Init, Contract!Init
<1>2. LoopInv /\ LoopInv' /\ [Next]_vars => [Contract!Next]_(Contract!contractVars)
  <2> SUFFICES ASSUME LoopInv, LoopInv', [Next]_vars
               PROVE  [Contract!Next]_(Contract!contractVars)
    OBVIOUS
  <2>0. WatchersInv /\ WatchersInv'
    BY DEF LoopInv
  <2>1. CASE UNCHANGED vars
    BY <2>0, <2>1, ContractStutters DEF vars, watcherVars
  <2>2. CASE Next
    <3>1. PICK t \in Threads : ClientCall(t) \/ Deregistration(t) \/ Polling(t) \/ Processing(t)
      BY <2>2 DEF Next
    <3>2. CASE \E w \in Watchers : deregister_emulated(t, w)
      <4>1. PICK w \in Watchers : deregister_emulated(t, w)
        BY <3>2
      <4> QED BY <2>0, <4>1, DeleteRefines DEF deregister_emulated
    <3>3. CASE deregister_issue(t)
      <4>1. /\ dereg[t] \in Watchers /\ Pending(t, dereg[t])
            /\ issue_delete(dereg[t]) /\ active' = active
        BY <2>0, <3>3 DEF deregister_issue, WatchersInv, StateOK
      <4>2. reg[dereg[t]] # "none"
        BY <2>0, <4>1 DEF WatchersInv, RemovedOnce
      <4> QED BY <2>0, <4>1, <4>2, DeleteRefines
    <3>4. CASE \E w \in Watchers, b \in BOOLEAN : register_fd(t, w, b)
      BY <2>0, <3>4, RegisterRefines
    <3>5. CASE \/ \E w \in Watchers : dispatch(t, w)
               \/ \E r \in Rearms : callback_returns(t, r)
               \/ callback_returns_removed(t) \/ release_store(t)
      BY <2>0, <3>5, DispatchRefines, ReturnRefines, ReturnRemovedRefines, ReleaseStoreRefines
    <3>6. CASE \/ run(t) \/ poll(t) \/ deregister_lock(t) \/ deregister_unlock(t) \/ Polling(t)
               \/ process_events(t) \/ process_events_return(t) \/ release_load(t) \/ relock(t)
               \/ interrupt_wait(t)
               \/ \E w \in Watchers, b \in BOOLEAN : set_enabled(t, w, b)
               \/ \E w \in Watchers : deregister(t, w)
      BY <2>0, <3>6, OtherStepsRefine
    <3> QED BY <3>1, <3>2, <3>3, <3>4, <3>5, <3>6 DEF ClientCall, Deregistration, Processing
  <2> QED BY <2>1, <2>2
<1> QED BY <1>1, <1>2, LoopInvariant, PTL DEF Spec, ImplementsContract, Contract!Spec
=============================================================================
