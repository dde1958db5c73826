------------------------------ MODULE AttnLock ------------------------------
(***************************************************************************)
(* The poll-wait/attention lock of event_loop (include/dasynq.h): two FIFO *)
(* wait queues and the long_poll_running flag, all protected by wait_lock, *)
(* together with the interrupt channel (include/dasynq/interrupt.h) that   *)
(* makes a blocked poller give the lock up, and the control of the epoll   *)
(* backend's pull_events() (include/dasynq/epoll.h) run under the lock.    *)
(*                                                                         *)
(* Every critical section of wait_lock is one action: nothing inside one   *)
(* blocks, except the condition-variable wait that ends it and releases    *)
(* wait_lock.  The two halves of interrupt_if_necessary(), which looks at  *)
(* the queue under wait_lock and writes to the event fd after releasing    *)
(* it, are two actions.                                                    *)
(***************************************************************************)
EXTENDS Naturals, Sequences, FiniteSets

CONSTANT Threads     \* the threads that use one event loop

ASSUME ThreadsAssumption == IsFiniteSet(Threads)

VARIABLES
    attn_waitqueue,     \* Seq(Threads): head holds the lock
    wait_waitqueue,     \* Seq(Threads): poll-waiters
    long_poll_running,  \* BOOLEAN
    lk,                 \* [Threads -> LockStates]: where in the protocol a thread is
    mode,               \* [Threads -> Modes]: what it claims or claimed the lock for
    asleep,             \* SUBSET Threads: blocked in its queue node's condvar
    intr,               \* BOOLEAN: the interrupt event fd is readable
    batch_intr,         \* BOOLEAN: the poller's events[] holds the interrupt fd
    notifying           \* SUBSET Threads: saw a non-empty queue, write not yet done

vars == <<attn_waitqueue, wait_waitqueue, long_poll_running, lk, mode, asleep,
          intr, batch_intr, notifying>>

(* "wait": in one of the three check_head loops.  "hold": has the lock for *)
(* a deregistration.  "pull": has the lock, first epoll_wait() of          *)
(* pull_events().  "batch": epoll_wait() returned events not yet handed to *)
(* process_events().  "again": the epoll_wait(.., 0) of the loop.          *)
(* "pulled": pull_events() returned, release_lock() comes next.            *)
LockStates == {"out", "wait", "hold", "pull", "batch", "again", "pulled"}
Pulling    == {"pull", "batch", "again", "pulled"}
Inside     == Pulling \cup {"hold"}

(* "attn": get_attn_lock().  "poll": poll_attn_lock(), pull_events(false). *)
(* "run_nowait" and "run_wait": get_pollwait_lock(), then pull_events with *)
(* do_wait false (first poll of run()) or true.                            *)
RunModes == {"run_nowait", "run_wait"}
Modes    == {"attn", "poll"} \cup RunModes

Init ==
    /\ attn_waitqueue = << >>
    /\ wait_waitqueue = << >>
    /\ long_poll_running = FALSE
    /\ lk = [t \in Threads |-> "out"]
    /\ mode = [t \in Threads |-> "attn"]
    /\ asleep = {}
    /\ intr = FALSE
    /\ batch_intr = FALSE
    /\ notifying = {}

\* Mutant: "if" instead of "while" around the condition-variable wait.
check_head_once(t) == TRUE

check_head(t) == attn_waitqueue # << >> /\ Head(attn_waitqueue) = t

-----------------------------------------------------------------------------
(* Claiming the lock.                                                      *)

\* Where a thread that has just come to own the lock continues.
Entered(m) == IF m = "attn" THEN "hold" ELSE "pull"

\* Append the caller's node to the attention queue: it owns the lock if that
\* makes it the head, and otherwise waits on its condition variable.
QueueForAttention(t, m) ==
    /\ attn_waitqueue' = Append(attn_waitqueue, t)
    /\ mode' = [mode EXCEPT ![t] = m]
    /\ IF attn_waitqueue = << >>
       THEN /\ lk' = [lk EXCEPT ![t] = Entered(m)]
            /\ UNCHANGED asleep
       ELSE /\ lk' = [lk EXCEPT ![t] = "wait"]
            /\ asleep' = asleep \cup {t}

\* Mutant: the caller waits without interrupting a running poll.
get_attn_lock_silent(t) ==
    /\ lk[t] = "out" /\ t \notin notifying
    /\ QueueForAttention(t, "attn")
    /\ UNCHANGED <<wait_waitqueue, long_poll_running, intr, batch_intr, notifying>>

\* Becoming second behind a running poll interrupts that poll; anyone further
\* back relies on the second having done so.
get_attn_lock(t) ==
    /\ lk[t] = "out" /\ t \notin notifying
    /\ QueueForAttention(t, "attn")
    /\ intr' = (intr \/ (long_poll_running /\ Len(attn_waitqueue) = 1))
    /\ UNCHANGED <<wait_waitqueue, long_poll_running, batch_intr, notifying>>

\* poll(): bail out (return false) when a long poll is running...
poll_attn_lock_fails(t) ==
    /\ lk[t] = "out" /\ t \notin notifying
    /\ long_poll_running

\* ...and otherwise queue for attention without interrupting anyone.
poll_attn_lock(t) ==
    /\ lk[t] = "out" /\ t \notin notifying
    /\ ~long_poll_running
    /\ QueueForAttention(t, "poll")
    /\ UNCHANGED <<wait_waitqueue, long_poll_running, intr, batch_intr, notifying>>

\* run(): take the lock if nobody has or wants it, else queue as poll-waiter.
get_pollwait_lock(t, m) ==
    /\ lk[t] = "out" /\ t \notin notifying
    /\ mode' = [mode EXCEPT ![t] = m]
    /\ IF attn_waitqueue = << >>
       THEN /\ attn_waitqueue' = <<t>>
            /\ lk' = [lk EXCEPT ![t] = "pull"]
            /\ long_poll_running' = TRUE
            /\ UNCHANGED <<wait_waitqueue, asleep>>
       ELSE /\ wait_waitqueue' = Append(wait_waitqueue, t)
            /\ lk' = [lk EXCEPT ![t] = "wait"]
            /\ asleep' = asleep \cup {t}
            /\ UNCHANGED <<attn_waitqueue, long_poll_running>>
    /\ UNCHANGED <<intr, batch_intr, notifying>>

\* A thread whose condvar.wait() returned, notified or not, looks again at the
\* head of the queue: it owns the lock, or goes back to sleep.
Recheck(t) ==
    /\ lk[t] = "wait" /\ t \notin asleep
    /\ IF check_head(t)
       THEN /\ lk' = [lk EXCEPT ![t] = Entered(mode[t])]
            /\ long_poll_running' = (long_poll_running \/ mode[t] \in RunModes)
            /\ UNCHANGED asleep
       ELSE /\ asleep' = asleep \cup {t}
            /\ UNCHANGED <<lk, long_poll_running>>
    /\ UNCHANGED <<attn_waitqueue, wait_waitqueue, mode, intr, batch_intr, notifying>>

\* A condition variable may return without having been notified.
SpuriousWakeup(t) ==
    /\ t \in asleep
    /\ asleep' = asleep \ {t}
    /\ UNCHANGED <<attn_waitqueue, wait_waitqueue, long_poll_running, lk, mode,
                   intr, batch_intr, notifying>>

-----------------------------------------------------------------------------
(* Giving the lock up.  Ownership passes to the next attention node, else  *)
(* to the first poll-waiter; whoever gets it is notified.                  *)

\* Mutant: poll-waiters are promoted ahead of queued attention claims.
promotes_polls_first == wait_waitqueue # << >>

\* Nobody else wants attention and there is a poll-waiter to promote.
promotes == Tail(attn_waitqueue) = << >> /\ wait_waitqueue # << >>

attn_after_release ==
    (IF promotes THEN <<Head(wait_waitqueue)>> ELSE << >>) \o Tail(attn_waitqueue)

wait_after_release == IF promotes THEN Tail(wait_waitqueue) ELSE wait_waitqueue

\* Mutant: a promoted poll-waiter is not recorded as a running long poll.
long_poll_not_recorded == FALSE

long_poll_after_release == promotes

\* Mutant: a promoted poll-waiter is not notified.
signals_attention_only ==
    IF Tail(attn_waitqueue) # << >> THEN {Head(Tail(attn_waitqueue))} ELSE {}

\* nhead->signal(): the thread, if any, that now is at the head.
signalled == IF attn_after_release # << >> THEN {Head(attn_after_release)} ELSE {}

release_lock(t) ==
    /\ lk[t] \in {"hold", "pulled"} /\ t \notin notifying
    /\ attn_waitqueue' = attn_after_release
    /\ wait_waitqueue' = wait_after_release
    /\ long_poll_running' = long_poll_after_release
    /\ asleep' = asleep \ signalled
    /\ lk' = [lk EXCEPT ![t] = "out"]
    /\ UNCHANGED <<mode, intr, batch_intr, notifying>>

-----------------------------------------------------------------------------
(* pull_events() of the epoll backend, under the lock.  ev: a watch other  *)
(* than the interrupt channel is reported; gi: the interrupt channel is.   *)

\* epoll_wait() returns r > 0 events.
epoll_wait_events(t, ev, gi) ==
    /\ lk[t] \in {"pull", "again"}
    /\ ev \/ gi
    /\ gi => intr
    /\ batch_intr' = gi
    /\ lk' = [lk EXCEPT ![t] = "batch"]
    /\ UNCHANGED <<attn_waitqueue, wait_waitqueue, long_poll_running, mode, asleep,
                   intr, notifying>>

\* epoll_wait() returns 0 (only with a zero timeout and nothing ready), or -1
\* because a signal interrupted a wait without timeout.
epoll_wait_none(t) ==
    /\ \/ lk[t] = "pull" /\ mode[t] = "run_wait"
       \/ lk[t] = "pull" /\ mode[t] # "run_wait" /\ ~intr
       \/ lk[t] = "again" /\ ~intr
    /\ lk' = [lk EXCEPT ![t] = "pulled"]
    /\ UNCHANGED <<attn_waitqueue, wait_waitqueue, long_poll_running, mode, asleep,
                   intr, batch_intr, notifying>>

\* The backend's process_events(): reading the event fd clears it.
process_batch(t) ==
    /\ lk[t] = "batch"
    /\ intr' = (intr /\ ~batch_intr)
    /\ batch_intr' = FALSE
    /\ lk' = [lk EXCEPT ![t] = "again"]
    /\ UNCHANGED <<attn_waitqueue, wait_waitqueue, long_poll_running, mode, asleep,
                   notifying>>

-----------------------------------------------------------------------------
(* interrupt_if_necessary(), called by threads that queue a watcher: from  *)
(* outside the lock or, in a watch_removed() callback, while holding it.   *)
interrupt_check(t) ==
    /\ lk[t] \in {"out", "hold"} /\ t \notin notifying
    /\ attn_waitqueue # << >>
    /\ notifying' = notifying \cup {t}
    /\ UNCHANGED <<attn_waitqueue, wait_waitqueue, long_poll_running, lk, mode, asleep,
                   intr, batch_intr>>

interrupt_wait(t) ==
    /\ t \in notifying
    /\ intr' = TRUE
    /\ notifying' = notifying \ {t}
    /\ UNCHANGED <<attn_waitqueue, wait_waitqueue, long_poll_running, lk, mode, asleep,
                   batch_intr>>

-----------------------------------------------------------------------------
ThreadStep(t) ==
    \/ get_attn_lock(t)
    \/ poll_attn_lock(t)
    \/ \E m \in RunModes : get_pollwait_lock(t, m)
    \/ Recheck(t)
    \/ SpuriousWakeup(t)
    \/ release_lock(t)
    \/ \E ev, gi \in BOOLEAN : epoll_wait_events(t, ev, gi)
    \/ epoll_wait_none(t)
    \/ process_batch(t)
    \/ interrupt_check(t)
    \/ interrupt_wait(t)

Next == \E t \in Threads : ThreadStep(t)

Spec == Init /\ [][Next]_vars

(* What the operating system and the code guarantee of a thread that holds *)
(* or waits for the lock.  Runnable threads run; a readable event fd makes *)
(* epoll_wait() return and is reported sooner or later; one-shot watches   *)
(* run dry, so that a draining poller meets an empty epoll_wait() if it is *)
(* offered one again and again.  Nothing makes a thread claim the lock,    *)
(* makes an event arrive or a signal interrupt a wait.                     *)
PollerReturns(t) == \E ev \in BOOLEAN : epoll_wait_events(t, ev, TRUE)

Drained(t) == lk[t] = "again" /\ epoll_wait_none(t)

FirstPollEmpty(t) == mode[t] # "run_wait" /\ epoll_wait_none(t)

Fairness ==
    \A t \in Threads :
        /\ WF_vars(Recheck(t))
        /\ WF_vars(release_lock(t))
        /\ WF_vars(process_batch(t))
        /\ WF_vars(interrupt_wait(t))
        /\ WF_vars(FirstPollEmpty(t))
        /\ SF_vars(PollerReturns(t))
        /\ SF_vars(Drained(t))

FairSpec == Spec /\ Fairness

-----------------------------------------------------------------------------
\* Each call has its own queue node, so a thread is in at most one of the two
\* queues, once.
NodesDistinct ==
    /\ \A i, j \in DOMAIN attn_waitqueue :
          attn_waitqueue[i] = attn_waitqueue[j] => i = j
    /\ \A i, j \in DOMAIN wait_waitqueue :
          wait_waitqueue[i] = wait_waitqueue[j] => i = j
    /\ \A i \in DOMAIN attn_waitqueue, j \in DOMAIN wait_waitqueue :
          attn_waitqueue[i] # wait_waitqueue[j]

\* Type invariant of the lock's state, including that the intrusive queues hold
\* no node twice.
TypeOK ==
    /\ NodesDistinct
    /\ attn_waitqueue \in Seq(Threads)
    /\ wait_waitqueue \in Seq(Threads)
    /\ long_poll_running \in BOOLEAN
    /\ lk \in [Threads -> LockStates]
    /\ mode \in [Threads -> Modes]
    /\ asleep \in SUBSET Threads
    /\ intr \in BOOLEAN
    /\ batch_intr \in BOOLEAN
    /\ notifying \in SUBSET Threads

\* "allow only one thread to poll for events at a time" and "use the same lock
\* to prevent polling, if we want to unwatch an event source" (event_loop's
\* comment on the lock): no two threads are between obtaining the lock, by any
\* of the three entry points, and releasing it.
PollExclusion ==
    \A t, u \in Threads : lk[t] \in Inside /\ lk[u] \in Inside => t = u

\* No lost interrupt: while a poller sits in an epoll_wait() without timeout
\* and somebody is queued behind it, the event fd that ends its wait is
\* readable, although only the second in the queue ever writes to it.
PollerInterrupted ==
    \A t \in Threads :
        lk[t] = "pull" /\ mode[t] = "run_wait" /\ Len(attn_waitqueue) > 1 => intr

\* No lost notification: a thread that has come to own the lock (head of the
\* attention queue) is never left asleep on its condition variable.
OwnerAwake ==
    attn_waitqueue # << >> => Head(attn_waitqueue) \notin asleep

\* poll() does not wait for somebody else's long poll: whoever entered the
\* attention queue through poll_attn_lock() never has a run() caller in front.
NoPollBehindLongPoll ==
    \A i \in 2..Len(attn_waitqueue) :
        mode[attn_waitqueue[i]] = "poll" => mode[attn_waitqueue[1]] \notin RunModes

\* "we don't want a thread that is trying to unwatch a source being starved
\* while another thread polls the event source": a thread queued in
\* get_attn_lock() or poll_attn_lock() obtains the lock, even if no event ever
\* arrives, provided requeue interrupts do not come for ever.
AttentionGranted ==
    <>[](notifying = {}) =>
        \A t \in Threads :
            (lk[t] = "wait" /\ mode[t] \notin RunModes) ~> lk[t] \in Inside

(* The inductive invariant behind the properties above.                    *)

\* Nodes behind the head are attention claims whose threads wait; nodes of the
\* wait queue are run() callers that wait; nobody waits to poll a free lock.
QueuedThreadsWait ==
    /\ \A i \in DOMAIN attn_waitqueue :
          i > 1 => lk[attn_waitqueue[i]] = "wait" /\ mode[attn_waitqueue[i]] \notin RunModes
    /\ \A i \in DOMAIN wait_waitqueue :
          lk[wait_waitqueue[i]] = "wait" /\ mode[wait_waitqueue[i]] \in RunModes
    /\ attn_waitqueue = << >> => wait_waitqueue = << >>
    /\ \A t \in asleep : lk[t] = "wait"

\* "The head of the attn_waitqueue is always the holder of the lock."
HeadHoldsLock ==
    /\ attn_waitqueue # << >> => lk[attn_waitqueue[1]] # "out"
    /\ attn_waitqueue # << >> => attn_waitqueue[1] \notin asleep
    /\ \A t \in Threads :
          lk[t] \in Inside => attn_waitqueue # << >> /\ attn_waitqueue[1] = t

\* long_poll_running tells whether the lock belongs to a run() caller.
LongPollAccurate ==
    long_poll_running <=> /\ attn_waitqueue # << >>
                          /\ mode[attn_waitqueue[1]] \in RunModes

\* A run() caller that has not yet returned from its first epoll_wait() and has
\* somebody behind it finds the event fd readable.
InterruptPending ==
    /\ Len(attn_waitqueue) > 1
    /\ lk[attn_waitqueue[1]] \in {"wait", "pull"}
    /\ mode[attn_waitqueue[1]] \in RunModes
    => intr

LockInv ==
    /\ TypeOK
    /\ QueuedThreadsWait
    /\ HeadHoldsLock
    /\ LongPollAccurate
    /\ InterruptPending
    /\ NoPollBehindLongPoll

(* The lock as its claimants see it: the head of the attention queue owns  *)
(* it, the rest of that queue is urgent, poll-waiters are patient.         *)
holderSet  == {attn_waitqueue[i] : i \in {j \in DOMAIN attn_waitqueue : j = 1}}
busySet    == {t \in Threads : lk[t] \in Inside}
urgentSet  == {attn_waitqueue[i] : i \in {j \in DOMAIN attn_waitqueue : j > 1}}
patientSet == {wait_waitqueue[i] : i \in DOMAIN wait_waitqueue}

Abstract == INSTANCE LoopLock WITH
    holder <- holderSet, busy <- busySet, urgent <- urgentSet, patient <- patientSet

\* The two queues, the condition variables and the interrupts implement the
\* two-class lock of LoopLock: exclusion, no claimant lost or served twice,
\* and no poll-waiter served while somebody wants attention.
ImplementsLoopLock == Abstract!Spec
=============================================================================
