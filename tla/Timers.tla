------------------------------- MODULE Timers -------------------------------
(***************************************************************************)
(* Timers of one clock: timer_base (include/dasynq/timerbase.h) on the     *)
(* timerfd backend (include/dasynq/timerfd.h), with the timer watchers,    *)
(* their handlers and their deregistration (include/dasynq.h).             *)
(*                                                                         *)
(* Every operation runs under base_lock and is one action, except that     *)
(* process_timer() is one action per expired timer: curtime is set while   *)
(* it holds the lock.  The timer queue is a heap as in HeapVector, and its *)
(* root, whether or not it is the earliest timer, is what the timerfd is   *)
(* set for and what is taken from the queue next.  Time is counted in      *)
(* ticks, and divided by an interval as TimeDivision says.                 *)
(*                                                                         *)
(* What is left out is what a client does not do: a handler does not       *)
(* return REMOVE while another thread deregisters its timer (the watcher   *)
(* would be removed twice), and unless "postpone" is in Client no timer is *)
(* armed again for a later time where set_priority() overlooks a node.     *)
(***************************************************************************)
EXTENDS TimeDivision, HeapVector, FiniteSets

CONSTANTS
    Arms,           \* [Timers -> the (timeout, interval) that the client arms each with]
    Calls,          \* [Timers -> other calls that the client makes for each]
    Client,         \* habits of the client
    MaxTime,        \* bound: the clock stops here
    Horizon,        \* bound: no timer is armed while one is set for later than this
    MaxIntervals,   \* bound: unreported intervals of a timer that is disabled
    MaxLost,        \* bound: handles the timer queue has counted off more than once
    Threads         \* number of threads that poll and run handlers

\* A timer watcher is its handle in the timer queue.
Timers == Handles

\* What a client may do: postpone a timer whatever is below it in the heap.
Habits == {"postpone"}

ASSUME TimersAssumption ==
    /\ IsFiniteSet(Timers) /\ N \in Nat \ {0} /\ Prios = Nat
    /\ \A w \in Timers : Arms[w] \subseteq (Nat \ {0}) \X Nat
    /\ Client \subseteq Habits
    /\ MaxTime \in Nat /\ Horizon \in Nat /\ MaxIntervals \in Nat /\ MaxLost \in Nat
    /\ Threads \in Nat \ {0}

VARIABLES
    now,            \* the clock
    curtime,        \* the time process_timer() works with, or NotRunning
    timer_queue,    \* the heap: [vec, idx]
    num_timers,     \* its num_nodes: handles it believes to be allocated
    interval, expiry_count, enabled,    \* timer_data
    timerfd,        \* when the timerfd becomes readable, or Disarmed
    intervals,      \* [Timers -> Nat]: expiries to report with the queued event
    event_queue,    \* [Timers -> Nat]: entries in the event queue
    reg,            \* [Timers -> {"none", "live", "dying"}]
    active,         \* SUBSET Timers: dispatched
    running,        \* SUBSET Timers: of those, the ones in their handler
    deleteme,       \* SUBSET Timers
    dereg,          \* SUBSET Timers: deregister() is between its two steps
    first, reported \* history: timeout a periodic timer was last armed with, and
                    \* intervals reported since

clockVars   == <<now, curtime>>
dataVars    == <<interval, expiry_count, enabled>>
watcherVars == <<reg, active, running, deleteme, dereg>>
history     == <<first, reported>>
vars == <<clockVars, timer_queue, num_timers, dataVars, timerfd, intervals, event_queue,
          watcherVars, history>>

NotRunning == -1
Disarmed   == -1

Rearms == {"REARM", "DISARM", "NOOP", "REMOVE", "REQUEUE"}

Init ==
    /\ now = 1 /\ curtime = NotRunning
    /\ timer_queue = [vec |-> << >>, idx |-> [w \in Timers |-> NotQueued]]
    /\ num_timers = 0
    /\ interval = [w \in Timers |-> 0]
    /\ expiry_count = [w \in Timers |-> 0]
    /\ enabled = [w \in Timers |-> TRUE]
    /\ timerfd = Disarmed
    /\ intervals = [w \in Timers |-> 0]
    /\ event_queue = [w \in Timers |-> 0]
    /\ reg = [w \in Timers |-> "none"]
    /\ active = {} /\ running = {} /\ deleteme = {} /\ dereg = {}
    /\ first = [w \in Timers |-> 0]
    /\ reported = [w \in Timers |-> 0]

BaseLockFree == curtime = NotRunning

\* One thread polls or runs one handler at a time.
ThreadAvailable == Cardinality(active) < Threads

Tick ==
    /\ now < MaxTime
    /\ now' = now + 1
    /\ UNCHANGED <<curtime, timer_queue, num_timers, dataVars, timerfd, intervals,
                   event_queue, watcherVars, history>>

-----------------------------------------------------------------------------
(* The timer queue and the timerfd.                                        *)

queued == {w \in Timers : timer_queue.idx[w] # NotQueued}

\* When each timer expires, or NotQueued.
expires ==
    [w \in Timers |-> IF w \in queued THEN timer_queue.vec[timer_queue.idx[w]].prio
                                     ELSE NotQueued]

\* Mutant: the timerfd keeps the time it was set for.
settime_once(q) == timerfd

\* Arm the timerfd for the root of queue q, or disarm it.
set_timer_from_queue(q) == IF q.vec = << >> THEN Disarmed ELSE q.vec[1].prio

\* The queue without timer w.
removed(w) == removed_h(timer_queue.vec, timer_queue.idx, timer_queue.idx[w])

\* Not more than one node of the heap, the last, is below that of w: set_priority()
\* to a later time then compares it with all that there is.
OneBelow(w) == lchild(timer_queue.idx[w]) >= Len(timer_queue.vec)

dequeue_watcher(w) == [event_queue EXCEPT ![w] = IF @ > 0 THEN @ - 1 ELSE 0]

\* queue_watcher(), for n expiries.
receive_timer_expiry(w, n) ==
    /\ intervals' = [intervals EXCEPT ![w] = @ + n]
    /\ event_queue' = [event_queue EXCEPT ![w] = @ + 1]

\* Report expiries that were counted while the timer was disabled, or note
\* whether to report the next.
enable_timer_nolock(w, enable) ==
    IF expiry_count[w] # 0 /\ enable
    THEN /\ expiry_count' = [expiry_count EXCEPT ![w] = 0]
         /\ receive_timer_expiry(w, expiry_count[w])
         /\ UNCHANGED enabled
    ELSE /\ enabled' = [enabled EXCEPT ![w] = enable]
         /\ UNCHANGED <<expiry_count, intervals, event_queue>>

\* Take the timer from the queue; the timerfd may then fire early.
remove_timer_nolock(w) ==
    /\ timer_queue' = IF w \in queued THEN removed(w) ELSE timer_queue
    /\ num_timers' = num_timers - 1

-----------------------------------------------------------------------------
(* Client operations.                                                      *)

add_timer(w) ==
    /\ BaseLockFree
    /\ reg[w] = "none"
    /\ num_timers' = num_timers + 1
    /\ reg' = [reg EXCEPT ![w] = "live"]
    /\ deleteme' = deleteme \ {w}
    /\ interval' = [interval EXCEPT ![w] = 0]
    /\ expiry_count' = [expiry_count EXCEPT ![w] = 0]
    /\ enabled' = [enabled EXCEPT ![w] = TRUE]
    /\ intervals' = [intervals EXCEPT ![w] = 0]
    /\ UNCHANGED <<clockVars, timer_queue, timerfd, event_queue, active, running, dereg,
                   history>>

\* "You should not enable a watcher that might currently have its callback
\* running (unless the event loop is polled by only a single thread)."
MayEnable(w) ==
    event_queue[w] = 0 /\ (w \notin active \/ (Threads = 1 /\ w \in running))

\* set_timer(): the timerfd is set if insert() or set_priority() say that the
\* timer is the root; set_priority() does not say so of a later timeout.
set_timer(w, timeout, intv) ==
    LET later == w \in queued /\ lt(expires[w], timeout)
        q     == IF w \in queued
                 THEN prioritised(timer_queue.vec, timer_queue.idx, w, timeout)
                 ELSE inserted(timer_queue.vec, timer_queue.idx, w, timeout)
    IN
    /\ BaseLockFree
    /\ \A v \in queued : expires[v] <= Horizon
    /\ reg[w] = "live" /\ MayEnable(w)
    /\ later => OneBelow(w) \/ "postpone" \in Client
    /\ timer_queue' = q
    /\ interval' = [interval EXCEPT ![w] = intv]
    /\ expiry_count' = [expiry_count EXCEPT ![w] = 0]
    /\ enabled' = [enabled EXCEPT ![w] = TRUE]
    /\ timerfd' = IF ~later /\ q.idx[w] = 1 THEN set_timer_from_queue(q) ELSE timerfd
    /\ first' = [first EXCEPT ![w] = IF intv = 0 THEN 0 ELSE timeout]
    /\ reported' = [reported EXCEPT ![w] = IF intv = 0 THEN 0 ELSE -intervals[w]]
    /\ UNCHANGED <<clockVars, num_timers, intervals, event_queue, watcherVars>>

stop_timer(w) ==
    /\ BaseLockFree
    /\ reg[w] = "live" /\ w \in queued
    /\ timer_queue' = removed(w)
    /\ timerfd' = IF timer_queue.idx[w] = 1 THEN set_timer_from_queue(removed(w)) ELSE timerfd
    /\ UNCHANGED <<clockVars, num_timers, dataVars, intervals, event_queue, watcherVars, history>>

\* timer::set_enabled(); disabling takes back an event that is queued.
set_enabled(w, enable) ==
    /\ BaseLockFree
    /\ reg[w] = "live"
    /\ enable => MayEnable(w)
    /\ ~enable => intervals[w] < MaxIntervals
    /\ IF enable
       THEN enable_timer_nolock(w, TRUE)
       ELSE /\ enabled' = [enabled EXCEPT ![w] = FALSE]
            /\ event_queue' = dequeue_watcher(w)
            /\ UNCHANGED <<expiry_count, intervals>>
    /\ UNCHANGED <<clockVars, timer_queue, num_timers, interval, timerfd, watcherVars, history>>

\* deregister(): remove_timer()...
deregister(w) ==
    /\ BaseLockFree
    /\ num_timers > -MaxLost
    /\ reg[w] = "live"
    /\ reg' = [reg EXCEPT ![w] = "dying"]
    /\ dereg' = dereg \cup {w}
    /\ remove_timer_nolock(w)
    /\ UNCHANGED <<clockVars, dataVars, timerfd, intervals, event_queue, active, running,
                   deleteme, history>>

\* Mutant: the watcher is removed although its handler runs.
issue_delete_now(w) ==
    /\ BaseLockFree
    /\ w \in dereg
    /\ dereg' = dereg \ {w}
    /\ event_queue' = dequeue_watcher(w)
    /\ reg' = [reg EXCEPT ![w] = "none"]
    /\ UNCHANGED <<clockVars, timer_queue, num_timers, dataVars, timerfd, intervals, active,
                   running, deleteme, history>>

\* ...and, under the attention lock, issue_delete().
issue_delete(w) ==
    /\ BaseLockFree
    /\ w \in dereg
    /\ dereg' = dereg \ {w}
    /\ IF w \in active
       THEN deleteme' = deleteme \cup {w} /\ UNCHANGED <<event_queue, reg>>
       ELSE /\ event_queue' = dequeue_watcher(w)
            /\ reg' = [reg EXCEPT ![w] = "none"]
            /\ UNCHANGED deleteme
    /\ UNCHANGED <<clockVars, timer_queue, num_timers, dataVars, timerfd, intervals, active,
                   running, history>>

-----------------------------------------------------------------------------
(* The poller: the timerfd is readable.                                    *)

process_timer ==
    /\ BaseLockFree /\ ThreadAvailable
    /\ timerfd # Disarmed /\ timerfd <= now
    /\ curtime' = now
    /\ UNCHANGED <<now, timer_queue, num_timers, dataVars, timerfd, intervals, event_queue,
                   watcherVars, history>>

\* The timeout from which the overrun of the expired timer w is computed: the
\* pointer taken to the root's priority is used after the root was pulled, and
\* then leads to the next root, if there is one.
timeout_read(w) == IF removed(w).vec = << >> THEN expires[w] ELSE removed(w).vec[1].prio

\* Mutant: the remainder of the division is not taken off.
renewed_from_now(w) == curtime + interval[w]

\* When the periodic timer w expires next.
renewed(w) == curtime + interval[w] - rem(curtime - timeout_read(w), interval[w])

\* Mutant: an expired timer stays enabled.
expired_stays_enabled(w, count) ==
    IF enabled[w]
    THEN /\ expiry_count' = [expiry_count EXCEPT ![w] = 0]
         /\ receive_timer_expiry(w, count)
         /\ UNCHANGED enabled
    ELSE /\ expiry_count' = [expiry_count EXCEPT ![w] = count]
         /\ UNCHANGED <<enabled, intervals, event_queue>>

\* Report count expiries and disable the timer, or keep the count for later.
expired(w, count) ==
    IF enabled[w]
    THEN /\ enabled' = [enabled EXCEPT ![w] = FALSE]
         /\ expiry_count' = [expiry_count EXCEPT ![w] = 0]
         /\ receive_timer_expiry(w, count)
    ELSE /\ expiry_count' = [expiry_count EXCEPT ![w] = count]
         /\ UNCHANGED <<enabled, intervals, event_queue>>

\* One turn of process_timer_queue(), with w at the root.
process_timer_queue(w) ==
    /\ curtime # NotRunning
    /\ timer_queue.idx[w] = 1 /\ expires[w] <= curtime
    /\ IF interval[w] = 0
       THEN /\ expired(w, expiry_count[w] + 1)
            /\ timer_queue' = removed(w)
       ELSE /\ expired(w, expiry_count[w] + 1
                            + divide(curtime - timeout_read(w), interval[w]))
            /\ timer_queue' = inserted(removed(w).vec, removed(w).idx, w, renewed(w))
    /\ UNCHANGED <<clockVars, num_timers, interval, timerfd, watcherVars, history>>

process_timer_done ==
    /\ curtime # NotRunning
    /\ timer_queue.vec # << >> => timer_queue.vec[1].prio > curtime
    /\ timerfd' = set_timer_from_queue(timer_queue)
    /\ curtime' = NotRunning
    /\ UNCHANGED <<now, timer_queue, num_timers, dataVars, intervals, event_queue, watcherVars,
                   history>>

-----------------------------------------------------------------------------
(* Dispatch.                                                               *)

dispatch(w) ==
    /\ BaseLockFree /\ ThreadAvailable
    /\ event_queue[w] > 0
    /\ event_queue' = [event_queue EXCEPT ![w] = @ - 1]
    /\ active' = active \cup {w}
    /\ UNCHANGED <<clockVars, timer_queue, num_timers, dataVars, timerfd, intervals, reg,
                   running, deleteme, dereg, history>>

\* Without the lock: take the interval count and call the handler.
timer_expiry(w) ==
    /\ w \in active \ running
    /\ running' = running \cup {w}
    /\ reported' = [reported EXCEPT ![w] = IF interval[w] = 0 THEN 0 ELSE @ + intervals[w]]
    /\ intervals' = [intervals EXCEPT ![w] = 0]
    /\ UNCHANGED <<clockVars, timer_queue, num_timers, dataVars, timerfd, event_queue, reg,
                   active, deleteme, dereg, first>>

\* "We don't want a watch that is marked deleteme to re-arm itself."
rearm_type(w, r) == IF w \in deleteme THEN "REMOVE" ELSE r

\* The handler returns r: process_timer_rearm() and post_dispatch().  A client does
\* not return REMOVE for a timer that it also deregisters.
callback_returns(w, r) ==
    LET e == rearm_type(w, r) IN
    /\ BaseLockFree
    /\ w \in running
    /\ r = "REMOVE" => reg[w] = "live"
    /\ active' = active \ {w} /\ running' = running \ {w}
    /\ CASE e = "REARM"   -> enable_timer_nolock(w, TRUE) /\ UNCHANGED <<timer_queue, num_timers, reg>>
         [] e = "DISARM"  -> enable_timer_nolock(w, FALSE) /\ UNCHANGED <<timer_queue, num_timers, reg>>
         [] e = "NOOP"    -> UNCHANGED <<enabled, expiry_count, intervals, event_queue, timer_queue,
                                         num_timers, reg>>
         [] e = "REQUEUE" -> receive_timer_expiry(w, 0)
                             /\ UNCHANGED <<enabled, expiry_count, timer_queue, num_timers, reg>>
         [] e = "REMOVE"  -> remove_timer_nolock(w) /\ reg' = [reg EXCEPT ![w] = "none"]
                             /\ UNCHANGED <<enabled, expiry_count, intervals, event_queue>>
    /\ UNCHANGED <<clockVars, interval, timerfd, deleteme, dereg, history>>

-----------------------------------------------------------------------------
ClientCall(w) ==
    \/ add_timer(w)
    \/ \E arm \in Arms[w] : set_timer(w, arm[1], arm[2])
    \/ "stop_timer" \in Calls[w] /\ stop_timer(w)
    \/ "set_enabled" \in Calls[w] /\ \E b \in BOOLEAN : set_enabled(w, b)
    \/ "deregister" \in Calls[w] /\ deregister(w)
    \/ issue_delete(w)

Handling(w) ==
    dispatch(w) \/ timer_expiry(w) \/ \E r \in Rearms : callback_returns(w, r)

Polling == process_timer \/ process_timer_done \/ \E w \in Timers : process_timer_queue(w)

Next == Tick \/ Polling \/ \E w \in Timers : ClientCall(w) \/ Handling(w)

Spec == Init /\ [][Next]_vars

(* A thread that has work does it: it polls, dispatches and returns from   *)
(* handlers.  The clock and the clients need not move.  A thread is found  *)
(* for the poll although others keep dispatching (strong fairness): run()  *)
(* polls before each round of dispatching.                                 *)
Fairness ==
    /\ SF_vars(process_timer) /\ WF_vars(Polling)
    /\ \A w \in Timers : WF_vars(Handling(w)) /\ WF_vars(issue_delete(w))

FairSpec == Spec /\ Fairness

-----------------------------------------------------------------------------
\* Type invariant of the timers.
TypeOK ==
    /\ now \in Nat /\ curtime \in Nat \cup {NotRunning}
    /\ timer_queue.vec \in Seq([prio : Nat, hnd : Timers])
    /\ timer_queue.idx \in [Timers -> Int]
    /\ num_timers \in Int
    /\ interval \in [Timers -> Nat] /\ expiry_count \in [Timers -> Nat]
    /\ enabled \in [Timers -> BOOLEAN]
    /\ timerfd \in Nat \cup {Disarmed}
    /\ intervals \in [Timers -> Nat] /\ event_queue \in [Timers -> Nat]
    /\ reg \in [Timers -> {"none", "live", "dying"}]
    /\ active \in SUBSET Timers /\ running \in SUBSET active
    /\ deleteme \in SUBSET Timers /\ dereg \in SUBSET Timers
    /\ first \in [Timers -> Nat] /\ reported \in [Timers -> Int]

\* No timeout is slept through: unless process_timer() is at work, the timerfd
\* is set for a time no later than that of any queued timer, although it is set
\* from the heap's root and not again by every operation that changes the queue.
\* With more than 2N + 1 timers, or a client that postpones a timer above others,
\* the root need not be the earliest timer and this does not hold.
TimerfdCovers ==
    curtime = NotRunning =>
        \A w \in queued : timerfd # Disarmed /\ timerfd <= expires[w]

\* A timer that was armed once and not since is on schedule: its next timeout
\* is the first one plus as many intervals as its handler has been told of, or
\* will be told of.
OnSchedule(w) ==
    w \in queued /\ interval[w] # 0 =>
        expires[w] = first[w] + interval[w] * (reported[w] + intervals[w] + expiry_count[w])

\* A periodic timer that is alone in its queue keeps its schedule, however late
\* it is processed, however many intervals it misses meanwhile, and whether it
\* is disabled or waits for its handler.
PeriodKept == [][\A w \in Timers : OnSchedule(w) /\ queued = {w} => OnSchedule(w)']_vars

\* "Normally intervals == 1 to indicate no overrun", otherwise "the given number
\* of intervals have elapsed": so for every timer.
AllOnSchedule == \A w \in Timers : OnSchedule(w)

\* Between an expiry and the return of the handler a timer is disabled, so that
\* it is queued at most once and not queued while its handler runs.
OneOutstanding ==
    \A w \in Timers :
        event_queue[w] + (IF w \in active THEN 1 ELSE 0)
            + (IF enabled[w] /\ w \in queued THEN 1 ELSE 0) <= 1

\* A removed timer is in neither queue, and its handler does not run.
RemovedIsGone ==
    \A w \in Timers :
        reg[w] = "none" => w \notin queued /\ event_queue[w] = 0 /\ w \notin active

\* A timer whose time has come does not stay in the queue with that timeout.
DueIsProcessed ==
    \A w \in Timers :
        (w \in queued /\ expires[w] <= now) ~> (w \notin queued \/ expires[w] > now)

(* The inductive invariants: CoverInv behind TimerfdCovers, TimersInv behind *)
(* OneOutstanding and RemovedIsGone.                                       *)

\* The timers know where their nodes are in the heap.
QueueAccurate == Accurate(timer_queue.vec, timer_queue.idx, Len(timer_queue.vec))

\* No timer is above one that expires before it.
QueueOrdered == Ordered(timer_queue.vec)

CoverInv ==
    /\ TypeOK
    /\ QueueAccurate
    /\ QueueOrdered
    /\ TimerfdCovers

\* Only live timers are in the timer queue; deregistration leaves it at once.
Lifecycle ==
    \A w \in Timers :
        /\ reg[w] = "none" => event_queue[w] = 0 /\ w \notin active
        /\ w \in queued => reg[w] = "live"
        /\ w \in dereg => reg[w] = "dying"
        /\ w \in deleteme => reg[w] # "live" /\ w \notin dereg

\* Expiries are counted in the timer only while it is disabled.
CountedIsDisabled == \A w \in Timers : expiry_count[w] # 0 => ~enabled[w]

TimersInv ==
    /\ TypeOK
    /\ QueueAccurate
    /\ Lifecycle
    /\ CountedIsDisabled
    /\ OneOutstanding

Contract == INSTANCE WatcherContract WITH
    Watchers   <- Timers,
    registered <- {w \in Timers : reg[w] # "none"}

\* Timer handlers keep the contract that the handlers of all watchers keep: they
\* run only while registered, one at a time, and are not running when removed.
ImplementsContract == Contract!Spec
=============================================================================
