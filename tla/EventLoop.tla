----------------------------- MODULE EventLoop ------------------------------
(***************************************************************************)
(* event_loop (include/dasynq.h) with file descriptor watchers on the      *)
(* epoll backend (include/dasynq/epoll.h), used by several threads:        *)
(* registration, set_enabled(), deregistration, run() and poll(), the      *)
(* event queue, callbacks and their rearm values.                          *)
(*                                                                         *)
(* The poll-wait/attention lock is module AttnLock.  base_lock is          *)
(* loop_mech.lock: a critical section of it is one action guarded by       *)
(* base_lock = NoThread, unless it spans a callback boundary or an         *)
(* interrupt, in which case base_lock names its owner in between.  Queue   *)
(* order is left to the heap: here pull_queued_event() may return any      *)
(* queued watcher, and an entry count shows a watcher inserted twice.      *)
(*                                                                         *)
(* Failed registrations undo what they did and are not shown.  The client  *)
(* keeps the rules of doc/USAGE.md; those it may bend are in Client.  It   *)
(* does not remove a watcher twice: a handler does not return REMOVE while *)
(* a deregister() of its watcher has not come to issue_delete().           *)
(***************************************************************************)
EXTENDS Integers, Sequences, FiniteSets, FiniteSetsExt

CONSTANTS
    Threads,    \* threads that use the loop
    Watchers,   \* fd watchers, each for a file descriptor of its own
    Emulated,   \* those whose descriptor epoll refuses (regular files)
    Hangup,     \* those whose descriptor may report EPOLLHUP
    Limit,      \* the limit argument of run() and poll(), -1 for none
    MaxNodes,   \* bound: the queue's max_size(), less than its index type's range
    Client,     \* what this client does: subset of ClientHabits
    NoThread, NoWatcher

ClientHabits == {"enable_active", "removed"}

ASSUME EventLoopAssumption ==
    /\ IsFiniteSet(Threads) /\ NoThread \notin Threads
    /\ IsFiniteSet(Watchers) /\ NoWatcher \notin Watchers
    /\ Emulated \subseteq Watchers /\ Hangup \subseteq Watchers
    /\ Limit \in Int /\ Limit >= -1
    /\ MaxNodes \in Nat
    /\ Client \subseteq ClientHabits

VARIABLES attn_waitqueue, wait_waitqueue, long_poll_running, lk, mode, asleep,
          intr, batch_intr, notifying          \* see AttnLock

VARIABLES
    base_lock,        \* owner of loop_mech.lock across steps, or NoThread
    event_queue,      \* [Watchers -> Nat]: entries in the event queue
    num_nodes,        \* handles the queue believes to be allocated
    reg,              \* [Watchers -> {"none", "live", "dying"}]
    epoll,            \* [Watchers -> EpollStates]: the kernel's entry for the fd
    active,           \* SUBSET Watchers: "currently executing handler?"
    deleteme,         \* SUBSET Watchers: "delete when handler finished?"
    emulate_enabled,  \* SUBSET Watchers
    batch,            \* userdata in the poller's events[]; NoWatcher is nullptr
    pc,               \* [Threads -> ThreadStates]
    call,             \* [Threads -> {"run", "poll"}]: last entry point used
    cur,              \* [Threads -> watcher being dispatched, or NoWatcher]
    limit, any,       \* process_events(): events left, and its "active"
    loaded,           \* [Threads -> Nat]: num_nodes read without the lock
    dereg,            \* [Threads -> watcher the thread is deregistering]
    issued            \* SUBSET Threads: deregister() is past issue_delete()

Lock == INSTANCE AttnLock

lockVars    == <<attn_waitqueue, wait_waitqueue, long_poll_running, lk, mode, asleep,
                 intr, batch_intr, notifying>>
queueVars   == <<event_queue, num_nodes>>
watcherVars == <<reg, epoll, active, deleteme, emulate_enabled>>
threadVars  == <<pc, call, cur, limit, any, loaded>>
deregVars   == <<dereg, issued>>
vars == <<lockVars, base_lock, queueVars, watcherVars, batch, threadVars, deregVars>>

(* A watch's entry in the epoll set: absent, enabled one-shot, registered  *)
(* with no events but one-shot, reset by disable_fd_watch() (no events, no *)
(* one-shot, null user data), or spent by a one-shot event.                *)
EpollStates == {"none", "armed", "quiet", "null", "spent"}

(* "pull": inside the lock protocol of run()/poll().  "process": about to  *)
(* enter process_events().  "next": there, holding base_lock.  "cb": in    *)
(* the callback.  "release", "store", "relock": in post_dispatch() for a   *)
(* REMOVE, without base_lock.                                              *)
ThreadStates == {"idle", "pull", "process", "next", "cb", "release", "store", "relock"}

Rearms == {"REARM", "DISARM", "NOOP", "REMOVE", "REMOVED", "REQUEUE"}

Init ==
    /\ Lock!Init
    /\ base_lock = NoThread
    /\ event_queue = [w \in Watchers |-> 0]
    /\ num_nodes = 0
    /\ reg = [w \in Watchers |-> "none"]
    /\ epoll = [w \in Watchers |-> "none"]
    /\ active = {} /\ deleteme = {} /\ emulate_enabled = {} /\ batch = {}
    /\ pc = [t \in Threads |-> "idle"]
    /\ call = [t \in Threads |-> "run"]
    /\ cur = [t \in Threads |-> NoWatcher]
    /\ limit = [t \in Threads |-> 0]
    /\ any = [t \in Threads |-> FALSE]
    /\ loaded = [t \in Threads |-> 0]
    /\ dereg = [t \in Threads |-> NoWatcher]
    /\ issued = {}

-----------------------------------------------------------------------------
(* Pieces shared by the operations.                                        *)

\* t runs client code: outside the loop, or in a callback.
InClient(t) == pc[t] \in {"idle", "cb"} /\ dereg[t] = NoWatcher /\ t \notin notifying

BaseLockFree == base_lock = NoThread

num_queued_events == MapThenSumSet(LAMBDA w : event_queue[w], Watchers)

queue_watcher(w) == [event_queue EXCEPT ![w] = @ + 1]

dequeue_watcher(w) == [event_queue EXCEPT ![w] = IF @ > 0 THEN @ - 1 ELSE 0]

\* num_nodes is of an unsigned type that can count beyond MaxNodes.
IndexRange == MaxNodes + 2

decremented(n) == (n - 1) % IndexRange

\* Look at the attention queue and, if there is a poller, write to its event
\* fd in a further step; base_lock is kept until then, and afterwards too if
\* the caller goes on under it (keeper = t).
interrupt_if_necessary(t, keeper) ==
    IF attn_waitqueue # << >>
    THEN Lock!interrupt_check(t) /\ base_lock' = t
    ELSE UNCHANGED lockVars /\ base_lock' = keeper

interrupt_wait(t) ==
    /\ Lock!interrupt_wait(t)
    /\ base_lock' = IF pc[t] = "next" THEN t ELSE NoThread
    /\ UNCHANGED <<queueVars, watcherVars, batch, threadVars, deregVars>>

\* EPOLL_CTL_MOD fails on a descriptor that is no longer in the set.
epoll_mod(w, s) == [epoll EXCEPT ![w] = IF @ = "none" THEN @ ELSE s]

-----------------------------------------------------------------------------
(* Client operations.                                                      *)

register_fd(t, w, enabled) ==
    /\ InClient(t) /\ BaseLockFree
    /\ reg[w] = "none"
    /\ reg' = [reg EXCEPT ![w] = "live"]
    /\ num_nodes # MaxNodes     \* else allocate() throws bad_alloc
    /\ num_nodes' = (num_nodes + 1) % IndexRange
    /\ active' = active \ {w} /\ deleteme' = deleteme \ {w}
    /\ IF w \in Emulated
       THEN /\ UNCHANGED epoll
            /\ IF enabled
               THEN /\ emulate_enabled' = emulate_enabled \cup {w}
                    /\ event_queue' = queue_watcher(w)
                    /\ interrupt_if_necessary(t, NoThread)
               ELSE /\ emulate_enabled' = emulate_enabled \ {w}
                    /\ UNCHANGED <<event_queue, base_lock, lockVars>>
       ELSE /\ epoll' = [epoll EXCEPT ![w] = IF enabled THEN "armed" ELSE "quiet"]
            /\ emulate_enabled' = emulate_enabled \ {w}
            /\ UNCHANGED <<event_queue, base_lock, lockVars>>
    /\ UNCHANGED <<batch, threadVars, deregVars>>

\* "You should not enable a watcher that might currently have its callback
\* running (unless the event loop is polled by only a single thread)."
MayEnable(t, w) ==
    \/ w \notin active /\ event_queue[w] = 0 /\ w \notin batch
    \/ "enable_active" \in Client /\ cur[t] = w

set_enabled(t, w, enable) ==
    /\ InClient(t) /\ BaseLockFree
    /\ reg[w] = "live"
    /\ enable => MayEnable(t, w)
    /\ IF w \in Emulated
       THEN /\ UNCHANGED epoll
            /\ emulate_enabled' = IF enable THEN emulate_enabled \cup {w}
                                  ELSE emulate_enabled \ {w}
       ELSE /\ UNCHANGED emulate_enabled
            /\ epoll' = epoll_mod(w, IF enable THEN "armed" ELSE "null")
    /\ IF w \in Emulated /\ enable /\ w \notin emulate_enabled
       THEN event_queue' = queue_watcher(w) /\ interrupt_if_necessary(t, NoThread)
       ELSE /\ event_queue' = IF enable THEN event_queue ELSE dequeue_watcher(w)
            /\ UNCHANGED <<base_lock, lockVars>>
    /\ UNCHANGED <<num_nodes, reg, active, deleteme, batch, threadVars, deregVars>>

\* Mutant: the watcher is deleted even if its callback is running.
issue_delete_now(w) ==
    /\ event_queue' = dequeue_watcher(w)
    /\ num_nodes' = decremented(num_nodes)
    /\ reg' = [reg EXCEPT ![w] = "none"]
    /\ UNCHANGED deleteme

\* Leave the removal to the running callback, or remove the watcher now; the
\* watch_removed() callback is where reg becomes "none".
issue_delete(w) ==
    IF w \in active
    THEN /\ deleteme' = deleteme \cup {w}
         /\ reg' = [reg EXCEPT ![w] = "dying"]
         /\ UNCHANGED queueVars
    ELSE /\ event_queue' = dequeue_watcher(w)
         /\ num_nodes' = decremented(num_nodes)
         /\ reg' = [reg EXCEPT ![w] = "none"]
         /\ UNCHANGED deleteme

\* deregister() of an emulated watch needs no attention lock.
deregister_emulated(t, w) ==
    /\ InClient(t) /\ BaseLockFree
    /\ w \in Emulated /\ reg[w] = "live"
    /\ issue_delete(w)
    /\ UNCHANGED <<lockVars, base_lock, epoll, active, emulate_enabled, batch,
                   threadVars, deregVars>>

\* deregister(): remove_fd_watch(), which takes no lock at all...
deregister(t, w) ==
    /\ InClient(t)
    /\ w \notin Emulated /\ reg[w] = "live"
    /\ reg' = [reg EXCEPT ![w] = "dying"]
    /\ epoll' = [epoll EXCEPT ![w] = "none"]
    /\ dereg' = [dereg EXCEPT ![t] = w]
    /\ UNCHANGED <<lockVars, base_lock, queueVars, active, deleteme, emulate_enabled,
                   batch, threadVars, issued>>

\* ...then get_attn_lock()...
deregister_lock(t) ==
    /\ dereg[t] # NoWatcher /\ t \notin issued
    /\ Lock!get_attn_lock(t)
    /\ UNCHANGED <<base_lock, queueVars, watcherVars, batch, threadVars, deregVars>>

\* Mutant: deregister() does not wait for the lock.
deregister_issue_unlocked(t) ==
    /\ dereg[t] # NoWatcher /\ t \notin issued
    /\ BaseLockFree
    /\ issue_delete(dereg[t])
    /\ issued' = issued \cup {t}
    /\ UNCHANGED <<lockVars, base_lock, epoll, active, emulate_enabled, batch,
                   threadVars, dereg>>

\* ...issue_delete() under both locks...
deregister_issue(t) ==
    /\ dereg[t] # NoWatcher /\ t \notin issued
    /\ lk[t] = "hold" /\ BaseLockFree
    /\ issue_delete(dereg[t])
    /\ issued' = issued \cup {t}
    /\ UNCHANGED <<lockVars, base_lock, epoll, active, emulate_enabled, batch,
                   threadVars, dereg>>

\* ...and release_lock().
deregister_unlock(t) ==
    /\ t \in issued
    /\ Lock!release_lock(t)
    /\ issued' = issued \ {t}
    /\ dereg' = [dereg EXCEPT ![t] = NoWatcher]
    /\ UNCHANGED <<base_lock, queueVars, watcherVars, batch, threadVars>>

-----------------------------------------------------------------------------
(* run() and poll(): pulling events from the backend.                      *)

run(t) ==
    /\ pc[t] = "idle" /\ dereg[t] = NoWatcher
    /\ Lock!get_pollwait_lock(t, "run_nowait")
    /\ pc' = [pc EXCEPT ![t] = "pull"]
    /\ call' = [call EXCEPT ![t] = "run"]
    /\ UNCHANGED <<base_lock, queueVars, watcherVars, batch, cur, limit, any, loaded, deregVars>>

poll(t) ==
    /\ pc[t] = "idle" /\ dereg[t] = NoWatcher
    /\ \/ /\ Lock!poll_attn_lock(t)
          /\ pc' = [pc EXCEPT ![t] = "pull"]
       \/ /\ Lock!poll_attn_lock_fails(t)
          /\ pc' = [pc EXCEPT ![t] = "process"]
          /\ UNCHANGED lockVars
    /\ call' = [call EXCEPT ![t] = "poll"]
    /\ UNCHANGED <<base_lock, queueVars, watcherVars, batch, cur, limit, any, loaded, deregVars>>

\* run() found nothing to process and comes back to wait.
run_again(t) ==
    /\ pc[t] = "pull" /\ lk[t] = "out"
    /\ Lock!get_pollwait_lock(t, "run_wait")
    /\ UNCHANGED <<base_lock, queueVars, watcherVars, batch, threadVars, deregVars>>

WaitForLock(t) ==
    /\ Lock!Recheck(t) \/ Lock!SpuriousWakeup(t)
    /\ UNCHANGED <<base_lock, queueVars, watcherVars, batch, threadVars, deregVars>>

\* What epoll_wait() may report, as user data, for the entry of w.
reports(w) ==
    CASE epoll[w] = "armed"                 -> {w}
      [] epoll[w] = "quiet" /\ w \in Hangup -> {w}
      [] epoll[w] = "null" /\ w \in Hangup  -> {NoWatcher}
      [] OTHER                              -> {}

\* epoll_wait() reports some of the ready entries and, gi, the interrupt
\* channel; a one-shot entry is spent by being reported.
epoll_wait_events(t, gi) ==
    \E evs \in SUBSET UNION {reports(w) : w \in Watchers} :
        /\ Lock!epoll_wait_events(t, evs # {}, gi)
        /\ batch' = evs
        /\ epoll' = [w \in Watchers |-> IF w \in evs THEN "spent" ELSE epoll[w]]
        /\ UNCHANGED <<base_lock, queueVars, reg, active, deleteme, emulate_enabled,
                       threadVars, deregVars>>

epoll_wait_none(t) ==
    /\ Lock!epoll_wait_none(t)
    /\ UNCHANGED <<base_lock, queueVars, watcherVars, batch, threadVars, deregVars>>

\* Each reported watcher is queued; its watch is left disabled.
receive_fd_event(evs) ==
    [w \in Watchers |-> event_queue[w] + IF w \in evs THEN 1 ELSE 0]

\* Mutant: the watch is enabled again as soon as its event is queued.
receive_fd_events_rearming(t) ==
    /\ BaseLockFree
    /\ Lock!process_batch(t)
    /\ event_queue' = receive_fd_event(batch)
    /\ epoll' = [w \in Watchers |-> IF w \in batch /\ epoll[w] # "none" THEN "armed" ELSE epoll[w]]
    /\ batch' = {}
    /\ UNCHANGED <<base_lock, num_nodes, reg, active, deleteme, emulate_enabled, threadVars,
                   deregVars>>

\* The backend's process_events(), for the events of one epoll_wait().
receive_fd_events(t) ==
    /\ BaseLockFree
    /\ Lock!process_batch(t)
    /\ event_queue' = receive_fd_event(batch)
    /\ batch' = {}
    /\ UNCHANGED <<base_lock, num_nodes, watcherVars, threadVars, deregVars>>

pull_done(t) ==
    /\ pc[t] = "pull"
    /\ Lock!release_lock(t)
    /\ pc' = [pc EXCEPT ![t] = "process"]
    /\ UNCHANGED <<base_lock, queueVars, watcherVars, batch, call, cur, limit, any, loaded,
                   deregVars>>

-----------------------------------------------------------------------------
(* process_events(): dispatching queued watchers.                          *)

\* Mutant: run() waits again although it has processed an event.
AfterProcessingWait(t, processed) ==
    IF call[t] = "run" THEN "pull" ELSE "idle"

\* Where the caller of process_events() continues: run() goes back to wait if
\* nothing was processed.
AfterProcessing(t, processed) ==
    IF call[t] = "run" /\ ~processed THEN "pull" ELSE "idle"

\* Entry.  With a limit of 0 the function returns at once, lock and all.
process_events(t) ==
    /\ pc[t] = "process" /\ BaseLockFree
    /\ base_lock' = t
    /\ pc' = [pc EXCEPT ![t] = IF Limit = 0 THEN AfterProcessing(t, FALSE) ELSE "next"]
    /\ limit' = [limit EXCEPT ![t] =
                    IF Limit = -1 THEN num_queued_events ELSE Min({Limit, num_queued_events})]
    /\ any' = [any EXCEPT ![t] = FALSE]
    /\ UNCHANGED <<lockVars, queueVars, watcherVars, batch, call, cur, loaded, deregVars>>

LimitReached(t) == any[t] /\ limit[t] = 0

\* pull_queued_event() returns w; dispatch() marks an emulated watch disabled
\* and calls the handler without the lock.
dispatch(t, w) ==
    /\ pc[t] = "next" /\ base_lock = t /\ t \notin notifying
    /\ ~LimitReached(t)
    /\ event_queue[w] > 0
    /\ event_queue' = [event_queue EXCEPT ![w] = @ - 1]
    /\ active' = active \cup {w}
    /\ emulate_enabled' = emulate_enabled \ {w}
    /\ base_lock' = NoThread
    /\ cur' = [cur EXCEPT ![t] = w]
    /\ any' = [any EXCEPT ![t] = TRUE]
    /\ limit' = [limit EXCEPT ![t] = IF @ > 0 THEN @ - 1 ELSE @]
    /\ pc' = [pc EXCEPT ![t] = "cb"]
    /\ UNCHANGED <<lockVars, num_nodes, reg, epoll, deleteme, batch, call, loaded, deregVars>>

process_events_return(t) ==
    /\ pc[t] = "next" /\ base_lock = t /\ t \notin notifying
    /\ LimitReached(t) \/ \A w \in Watchers : event_queue[w] = 0
    /\ base_lock' = NoThread
    /\ pc' = [pc EXCEPT ![t] = AfterProcessing(t, any[t])]
    /\ limit' = [limit EXCEPT ![t] = 0]
    /\ any' = [any EXCEPT ![t] = FALSE]
    /\ UNCHANGED <<lockVars, queueVars, watcherVars, batch, call, cur, loaded, deregVars>>

\* Mutant: a watcher marked deleteme may rearm itself.
process_rearm_keeps(w, r) ==
    IF w \in Emulated /\ (r = "REARM" \/ (r = "NOOP" /\ w \in emulate_enabled))
    THEN "REQUEUE" ELSE r

\* What becomes of the returned rearm value: "we don't want a watch that is
\* marked deleteme to re-arm itself", and emulated watches are re-queued.
process_rearm(w, r) ==
    CASE w \in deleteme                        -> "REMOVE"
      [] w \notin deleteme /\ w \in Emulated /\
         (r = "REARM" \/ (r = "NOOP" /\ w \in emulate_enabled)) -> "REQUEUE"
      [] OTHER                                 -> r

\* The callback of the watcher that t dispatches returns r: process_fd_rearm()
\* and the part of post_dispatch() that runs under base_lock.  REMOVE is for live watchers:
\* during a deregister() it would remove the watcher a second time, and once that has
\* reached issue_delete() every r is taken for REMOVE, so that nothing more is left out.
callback_returns(t, r) ==
    LET w == cur[t]
        e == process_rearm(w, r)
    IN
    /\ pc[t] = "cb" /\ dereg[t] = NoWatcher /\ t \notin notifying /\ BaseLockFree
    /\ r # "REMOVED"
    /\ r = "REMOVE" => reg[w] = "live"
    /\ active' = active \ {w}
    /\ emulate_enabled' = CASE r = "REARM" /\ w \notin deleteme /\ w \in Emulated -> emulate_enabled \cup {w}
                            [] r = "DISARM" /\ w \notin deleteme -> emulate_enabled \ {w}
                            [] OTHER -> emulate_enabled
    /\ epoll' = CASE w \in Emulated -> epoll
                  [] w \notin Emulated /\ e = "REARM"  -> epoll_mod(w, "armed")
                  [] w \notin Emulated /\ e = "DISARM" -> epoll_mod(w, "null")
                  [] w \notin Emulated /\ e = "REMOVE" -> [epoll EXCEPT ![w] = "none"]
                  [] OTHER -> epoll
    /\ reg' = IF e = "REMOVE" THEN [reg EXCEPT ![w] = "dying"] ELSE reg
    /\ pc' = [pc EXCEPT ![t] = IF e = "REMOVE" THEN "release" ELSE "next"]
    /\ CASE e = "REQUEUE" -> event_queue' = queue_watcher(w) /\ interrupt_if_necessary(t, t)
         [] e = "REMOVE"  -> UNCHANGED <<event_queue, base_lock, lockVars>>
         [] OTHER         -> base_lock' = t /\ UNCHANGED <<event_queue, lockVars>>
    /\ cur' = [cur EXCEPT ![t] = IF e = "REMOVE" THEN w ELSE NoWatcher]
    /\ UNCHANGED <<num_nodes, deleteme, batch, call, limit, any, loaded, deregVars>>

\* REMOVED: the handler has deregistered its own watcher and deleted it, which
\* a single-threaded client may do; Dasynq does not touch it again.
callback_returns_removed(t) ==
    LET w == cur[t] IN
    /\ pc[t] = "cb" /\ dereg[t] = NoWatcher /\ t \notin notifying /\ BaseLockFree
    /\ "removed" \in Client /\ w \in deleteme
    /\ reg' = [reg EXCEPT ![w] = "none"]
    /\ active' = active \ {w} /\ deleteme' = deleteme \ {w}
    /\ base_lock' = t
    /\ pc' = [pc EXCEPT ![t] = "next"]
    /\ cur' = [cur EXCEPT ![t] = NoWatcher]
    /\ UNCHANGED <<lockVars, queueVars, epoll, emulate_enabled, batch, call, limit, any,
                   loaded, deregVars>>

\* post_dispatch() of a REMOVE: release_watcher() decrements num_nodes without
\* the lock, so that its read and its write are separate steps...
release_load(t) ==
    /\ pc[t] = "release"
    /\ loaded' = [loaded EXCEPT ![t] = num_nodes]
    /\ pc' = [pc EXCEPT ![t] = "store"]
    /\ UNCHANGED <<lockVars, base_lock, queueVars, watcherVars, batch, call, cur, limit, any,
                   deregVars>>

\* ...then watch_removed()...
release_store(t) ==
    /\ pc[t] = "store"
    /\ num_nodes' = decremented(loaded[t])
    /\ reg' = [reg EXCEPT ![cur[t]] = "none"]
    /\ loaded' = [loaded EXCEPT ![t] = 0]
    /\ cur' = [cur EXCEPT ![t] = NoWatcher]
    /\ pc' = [pc EXCEPT ![t] = "relock"]
    /\ UNCHANGED <<lockVars, base_lock, event_queue, epoll, active, deleteme, emulate_enabled,
                   batch, call, limit, any, deregVars>>

\* ...and back under the lock.
relock(t) ==
    /\ pc[t] = "relock" /\ BaseLockFree
    /\ base_lock' = t
    /\ pc' = [pc EXCEPT ![t] = "next"]
    /\ UNCHANGED <<lockVars, queueVars, watcherVars, batch, call, cur, limit, any, loaded,
                   deregVars>>

-----------------------------------------------------------------------------
ClientCall(t) ==
    \/ run(t) \/ poll(t)
    \/ \E w \in Watchers, b \in BOOLEAN : register_fd(t, w, b)
    \/ \E w \in Watchers, b \in BOOLEAN : set_enabled(t, w, b)
    \/ \E w \in Watchers : deregister(t, w) \/ deregister_emulated(t, w)

Deregistration(t) ==
    deregister_lock(t) \/ deregister_issue(t) \/ deregister_unlock(t)

Polling(t) ==
    \/ run_again(t) \/ WaitForLock(t) \/ pull_done(t)
    \/ \E gi \in BOOLEAN : epoll_wait_events(t, gi)
    \/ epoll_wait_none(t) \/ receive_fd_events(t)

Processing(t) ==
    \/ process_events(t) \/ process_events_return(t)
    \/ \E w \in Watchers : dispatch(t, w)
    \/ \E r \in Rearms : callback_returns(t, r)
    \/ callback_returns_removed(t)
    \/ release_load(t) \/ release_store(t) \/ relock(t)
    \/ interrupt_wait(t)

Next == \E t \in Threads :
    ClientCall(t) \/ Deregistration(t) \/ Polling(t) \/ Processing(t)

Spec == Init /\ [][Next]_vars

(* Scheduling: runnable threads run, a thread that waits for base_lock is  *)
(* not overtaken for ever, callbacks return, a readable event fd ends      *)
(* epoll_wait() and a drained epoll set is seen to be empty (see AttnLock).*)
(* Clients need not call anything.                                         *)
OwnSteps(t) ==
    \/ Lock!Recheck(t) /\ WaitForLock(t)
    \/ pull_done(t) \/ run_again(t) \/ deregister_lock(t) \/ deregister_unlock(t)
    \/ process_events_return(t) \/ \E w \in Watchers : dispatch(t, w)
    \/ release_load(t) \/ release_store(t) \/ interrupt_wait(t)

BaseLockSteps(t) ==
    \/ receive_fd_events(t) \/ process_events(t) \/ relock(t) \/ deregister_issue(t)
    \/ \E r \in Rearms : callback_returns(t, r)

PollEnds(t) ==
    \/ epoll_wait_events(t, TRUE)
    \/ (lk[t] = "again" \/ mode[t] # "run_wait") /\ epoll_wait_none(t)

Fairness ==
    \A t \in Threads :
        WF_vars(OwnSteps(t)) /\ SF_vars(BaseLockSteps(t)) /\ SF_vars(PollEnds(t))

FairSpec == Spec /\ Fairness

-----------------------------------------------------------------------------
\* Types of the loop's own state, but for the limits, which are sums over the queue.
StateOK ==
    /\ base_lock \in Threads \cup {NoThread}
    /\ event_queue \in [Watchers -> Nat]
    /\ num_nodes \in 0..(IndexRange - 1)
    /\ reg \in [Watchers -> {"none", "live", "dying"}]
    /\ epoll \in [Watchers -> EpollStates]
    /\ active \in SUBSET Watchers /\ deleteme \in SUBSET Watchers
    /\ emulate_enabled \in SUBSET Watchers
    /\ batch \in SUBSET (Watchers \cup {NoWatcher})
    /\ pc \in [Threads -> ThreadStates]
    /\ call \in [Threads -> {"run", "poll"}]
    /\ cur \in [Threads -> Watchers \cup {NoWatcher}]
    /\ any \in [Threads -> BOOLEAN]
    /\ loaded \in [Threads -> 0..(IndexRange - 1)]
    /\ dereg \in [Threads -> Watchers \cup {NoWatcher}]
    /\ issued \in SUBSET Threads

\* Type invariant of the loop.
TypeOK == Lock!TypeOK /\ StateOK /\ limit \in [Threads -> Nat]

\* What may still lead to a call of w's handler, or is one.
Outstanding(w) ==
    event_queue[w] + Cardinality({w} \cap batch) + Cardinality({w} \cap active)
    + IF epoll[w] = "armed" THEN 1 ELSE 0

\* "Event watchers are not re-entrant": one registration leads to one event at
\* a time.  A watcher is armed, reported, queued or being handled, never two of
\* these, and is in the queue at most once, whichever thread polls, dispatches,
\* enables, disables or re-arms it.
OneOutstanding == \A w \in Watchers : Outstanding(w) <= 1

\* watch_removed() is "guaranteed by the caller" to come when the dispatch
\* method is not running and will not be called: nothing refers to a removed
\* watcher, although its event may have been in a poller's buffer, in the queue
\* or in its handler on another thread when deregister() was called.
RemovedIsGone ==
    \A w \in Watchers :
        reg[w] = "none" => Outstanding(w) = 0 /\ \A t \in Threads : cur[t] # w

\* The event queue's num_nodes, by which it sizes its vector so that insertion
\* cannot fail, counts the watchers that hold a handle: whether a watcher is
\* removed by deregister(), by its handler's return value or by one thread
\* while another runs the handler, its handle is given back, and only once.
NodesCounted == num_nodes = Cardinality({w \in Watchers : reg[w] # "none"})

\* "poll and run will process queued events if there are any, and return
\* immediately in this case": a thread does not sit in epoll_wait() without
\* timeout and with nothing to end it while an event is queued and every other
\* thread is outside the loop or waits for the sleeper.
NoStrandedEvent ==
    ~ \E t \in Threads :
        /\ lk[t] = "pull" /\ mode[t] = "run_wait" /\ ~intr /\ notifying = {}
        /\ \E w \in Watchers : event_queue[w] > 0
        /\ \A u \in Threads \ {t} : \/ pc[u] = "idle" /\ dereg[u] = NoWatcher
                                    \/ lk[u] = "wait"

\* "Suspect it is really only the case if EPOLLIN is set": a disabled watch is
\* not reported, in particular not with the null user data it was given.
NoNullUserdata == NoWatcher \notin batch

\* Deregistration completes: watch_removed() is called sooner or later, even if
\* another thread polls without any event arriving, and whatever the handler
\* that may be running returns: anything but REMOVE, which a handler does not return
\* before deregister() has come to issue_delete() (see callback_returns).
DeregisterCompletes == \A w \in Watchers : reg[w] = "dying" ~> reg[w] = "none"

(* The inductive invariant behind OneOutstanding and RemovedIsGone.        *)

\* An entry of the epoll set that can be reported with its watcher as user data.
reportable == {w \in Watchers : epoll[w] \in {"armed", "quiet"}}

\* A watcher is in at most one of these places.
OnePlace ==
    \A w \in Watchers :
        /\ event_queue[w] <= 1
        /\ event_queue[w] = 1 => w \notin batch \cup active \cup reportable
        /\ w \in batch => w \notin active \cup reportable
        /\ w \in active => w \notin reportable

\* A thread knows the watcher it dispatches or removes, and no other thread does;
\* active are those being dispatched.
Dispatching ==
    /\ \A t \in Threads : cur[t] # NoWatcher <=> pc[t] \in {"cb", "release", "store"}
    /\ \A t, u \in Threads : cur[t] = cur[u] /\ cur[t] # NoWatcher => t = u
    /\ \A w \in Watchers : w \in active <=> \E t \in Threads : pc[t] = "cb" /\ cur[t] = w

\* t is between remove_fd_watch() and issue_delete() for w.
Pending(t, w) == dereg[t] = w /\ t \notin issued

\* A watcher whose removal has begun is not in the epoll set and is removed once: by
\* the one thread that deregisters it, by its handler's thread because of deleteme
\* or REMOVE, or by its deletion in the handler.
RemovedOnce ==
    /\ \A w \in Watchers : reg[w] # "live" \/ w \in Emulated => epoll[w] = "none"
    /\ \A w \in Emulated : w \notin batch
    /\ \A t \in Threads, w \in Watchers :
          Pending(t, w) =>
            /\ reg[w] = "dying" /\ w \notin deleteme /\ w \notin Emulated
            /\ \A u \in Threads : Pending(u, w) => t = u
            /\ \A u \in Threads : cur[u] = w => pc[u] = "cb"
    /\ \A t \in Threads :
          pc[t] \in {"release", "store"} =>
            /\ reg[cur[t]] = "dying"
            /\ event_queue[cur[t]] = 0 /\ cur[t] \notin batch
    /\ \A w \in deleteme \cap active : reg[w] = "dying"
    /\ \A w \in Watchers : reg[w] = "live" => w \notin deleteme
    /\ \A w \in Watchers :
          reg[w] = "none" => event_queue[w] = 0 /\ w \notin batch \cup active

\* Reported events are in the hands of the thread with the attention lock.
BatchHeld ==
    /\ batch # {} => \E t \in Threads : lk[t] = "batch"
    /\ \A t \in Threads : t \in issued => dereg[t] # NoWatcher

WatchersInv == StateOK /\ OnePlace /\ Dispatching /\ RemovedOnce /\ BatchHeld

LoopInv == Lock!LockInv /\ WatchersInv

(* What NoStrandedEvent rests on when one thread uses the loop.            *)

\* A thread is in the lock protocol because of run() or poll(), or to deregister.
LockUse ==
    \A t \in Threads :
        /\ lk[t] # "out" /\ dereg[t] = NoWatcher => pc[t] = "pull"
        /\ dereg[t] # NoWatcher =>
              /\ pc[t] \in {"idle", "cb"}
              /\ lk[t] \in {"out", "hold"} \/ (lk[t] = "wait" /\ mode[t] = "attn")

\* run() comes back to wait when it has found the event queue empty.
WaitsOnEmptyQueue ==
    \A t \in Threads :
        pc[t] = "pull" /\ (lk[t] = "out" \/ (lk[t] \in {"wait", "pull"} /\ mode[t] = "run_wait"))
            => \A w \in Watchers : event_queue[w] = 0

Contract == INSTANCE WatcherContract WITH
    registered <- {w \in Watchers : reg[w] # "none"},
    running    <- {cur[t] : t \in {u \in Threads : pc[u] = "cb"}}

\* The loop keeps the contract its clients program against.
ImplementsContract == Contract!Spec
=============================================================================
