# Dasynq in TLA+

Specifications of the Dasynq event loop library (`include/` of this repository),
model-checked with TLC and, in their safety properties, proved with TLAPS.

## 1. The system

Dasynq multiplexes events (file descriptors, signals, child processes, timers)
to callbacks. An `event_loop` may be polled by several threads at once, and
watchers may be enabled, disabled and removed from any thread and from inside
callbacks. The library is a stack of mixins:

    event_loop            client interface, the poll-wait/attention lock, dispatch
      epoll_loop / kqueue_loop / select_events / pselect_events      the backend
        interrupt_channel       event fd or pipe that ends a blocked poll
          timer_fd_events / posix_timer_events / itimer_events
            timer_base          timer queues, expiry, overrun
              child_proc_events reaping, child watches
                event_dispatch  event queue, receive_*(), issue_delete()

Two locks matter. The *base lock* (`loop_mech.lock`) protects the event queue,
the timer queues and the watchers' flags; it is released while a handler runs.
The *poll-wait/attention lock* is built from two wait queues: its holder is the
only thread that pulls events from the backend, and a thread that removes a
watcher takes it to be sure that no event of the watcher is in a poller's buffer.

### Inventory

| component | state | operations | hard part | correct when |
|---|---|---|---|---|
| poll-wait/attention lock | `attn_waitqueue`, `wait_waitqueue`, `long_poll_running` | `get_attn_lock`, `poll_attn_lock`, `get_pollwait_lock`, `release_lock` | wakeups, hand-over between queues, interrupting a blocked poll once | exclusion; no lost interrupt or notification; attention before polling; no starvation of attention |
| interrupt channel | event fd | `interrupt_wait`, read in `receive_fd_event` | check and write are not atomic | a pending interrupt is seen by the poller it is for |
| event queue, dispatch | `event_queue`, `num_nodes`; per watcher `active`, `deleteme` | `queue_watcher`, `dequeue_watcher`, `pull_queued_event`, `issue_delete`, `process_events`, `post_dispatch` | state changes while handlers run without the lock | handlers not re-entered; a removed watcher is gone; handles counted once |
| fd watchers | `emulatefd`, `emulate_enabled`, the backend's entry | `add_watch`, `set_enabled`, `deregister`, rearm values | deregistration against a poll, a queued event, a handler | as above; deregistration completes |
| epoll backend | epoll set | `add/remove/enable/disable_fd_watch`, `pull_events` | several batches per pull, one-shot entries, hang-ups | one event per arming |
| d-ary heap, vector | `hvec`, handle positions, `num_nodes`, capacity | `allocate`, `deallocate`, `insert`, `remove`, `pull_root`, `set_priority` | `insert` must not fail; positions kept through moves | contents, positions, order, reserved room |
| timers | `timer_queue`, `timer_data`, timerfd | `add_timer`, `arm_timer`, `stop_timer`, `set_enabled`, `deregister`, expiry | overrun, re-arming the timerfd, expiry against handler | no timeout missed; period kept; one event at a time |
| bidirectional watchers | two half-watchers, shared `watch_flags` and epoll entry, `read_removed`, `write_removed` | `set_in/out_watch_enabled`, `set_watches`, two dispatches, joint removal | halves on different threads; arming one writes the other's flags | one event at a time per half; removal after both; a removed half stays quiet |
| signal watchers | signal mask, `sigdataMap` or `sig_userdata`, installed handlers | `add_watch`, `deregister`, reports, rearm | the mask is changed at many places and given to the signalfd, or to the waiting thread, at some; a handler that jumps out of `select()` | one event at a time; no watched signal lost; nothing leads to a removed watcher; signals arrive only where they can be received |
| child watchers | `child_waiters`, reaper lock | `fork`, `add_watch`, `reserve_watch`, `add_reserved`, `unreserve`, `send_signal`, `stop_watch`, `deregister` | a child dies at any time, SIGCHLDs coalesce, process ids are used again | terminations reported, with the right status; signals reach the right process |
| b-tree set | septs, the reserve of septs and its counts, each handle's sept | `allocate`, `deallocate`, `insert`, `remove`, `find`, destruction | `insert` must not fail; rebalancing | a B-tree with consistent pointers; the reserve suffices; contents |
| time arithmetic | | `divide_timespec`, `time_val` operators | seconds and nanoseconds without a wide type | quotient and remainder make up the overrun; the remainder is less than the interval (it is not always) |
| select, pselect | `read_set`, `write_set`, user data, copies during a wait | as epoll | copies made before a wait that other threads do not see into | watches added during a wait are noticed; sets lead to registered watchers |
| kqueue, posix/interval timers | kernel queue | as epoll, timerfd | other platforms | not modelled |
| stable heap, heap experiments | | | | not modelled |

`PROJECT.json` lists the same components with their status, and the hazards of
the code at the line where each one bites.

## 2. The modules

| module | models | refines |
|---|---|---|
| `LoopLock` | a lock with an urgent and a patient class of claimants | |
| `AttnLock` | the lock of `event_loop`, interrupt channel, control of `pull_events()` | `LoopLock` |
| `WatcherContract` | what clients rely on: handlers only while registered, one at a time, removal only while not running | |
| `EventLoop` | fd watchers on epoll with any number of threads; contains an instance of `AttnLock` | `WatcherContract` |
| `BidiWatcher` | a bidirectional watcher on epoll, watched or emulated | `WatcherContract` |
| `PrioQueue` | a set of (handle, priority) entries | |
| `HeapVector` | the vector of a heap: how nodes are moved to their place and found again | |
| `DaryHeap` | `dary_heap` on `svector`: allocation and the operations, on `HeapVector` | `PrioQueue` |
| `TimeVal` | `divide_timespec()` and the operators of `time_val` it uses | (equals `TimeDivision`) |
| `TimeDivision` | what `divide_timespec()` yields, in ticks | |
| `Timers` | timers of one clock on timerfd; their queue is a heap of `HeapVector`, times are divided as in `TimeDivision` | `WatcherContract` |
| `KeyedSet` | a set of handles with unique keys, each call having its effect once and at one step | |
| `BTreeSet` | `btree_set` and `pid_map`, the map from process ids to watchers | `KeyedSet` |
| `SignalChild` | signal and child process watchers on epoll's signalfd | |
| `SelectLoop` | fd, bidirectional and signal watchers on `select()` and `pselect()` | |
| `AttnLockProofs`, `EventLoopProofs`, `TimersProofs`, `BidiWatcherProofs`, `SelectLoopProofs`, `SignalChildProofs`, `DaryHeapProofs`, `BTreeSetProofs` | theorems about the module named, see section 4 | |
| `MC*` | constants for TLC | |

Definitions have the names of the functions they model. A definition whose
comment starts with *Mutant* is not part of any specification: it is a plausible
mistake in the definition after it, used to see that a property can fail.

**AttnLock.** A thread's position in the protocol is `lk[t]`, and `mode[t]` tells
which entry point it used. A critical section of `wait_lock` is one action.
`asleep` is the set of threads blocked in their node's condition variable; a
thread leaves it by a notification or spuriously, and looks at the queue again
(`Recheck`). `interrupt_if_necessary()` looks under `wait_lock` and writes to the
event fd after it: two actions, with `notifying` in between. Which watches are
ready is left open (`ev`); `EventLoop` fills it in.

**EventLoop.** `base_lock` names an owner only where a critical section extends
over several actions. A thread runs `run()` or `poll()` through `pc`. `epoll[w]`
is the kernel's entry of a descriptor, `batch` the poller's buffer, `event_queue[w]`
the number of heap entries of `w` (a count, so that a double insertion shows).
`reg[w]` is `"live"` from `add_watch()`, `"dying"` once removal has begun and
`"none"` when `watch_removed()` has been called. `deregister()` is four steps:
the epoll entry, the attention lock, `issue_delete()`, release. A handler's return
is one step under the base lock and, for a removal, the unlocked remainder of
`post_dispatch()` in three more. `Client` says which uses, legal only with one
thread, a client makes of the interface.

**BidiWatcher.** One watcher with the halves `"in"` (the primary) and `"out"` (the
`out_watcher`); `watch_flags` includes `"multi"` for `multi_watch`, because code
tests it and, for errors, loses it. `entry` and `events` are the one epoll entry
that both share, `batch` the flags reported to the poller and not yet processed.
Each critical section of the base lock is one action; `deregister()` is two, with
the attention lock (here simply `polling`, as `LoopLock` promises) before the
second. `handles` counts prepared less released handles. Whether epoll refuses the
descriptor is chosen at registration. `DisablesInPoll` says whether clients disable
a half while a poller has events of the watcher in hand, `Hangup` whether the
descriptor reports hang-ups.

**HeapVector, DaryHeap.** The vector is a sequence; `bubble_down` and `bubble_up` are
recursive functions over positions that return the vector and the handles' positions.
`inserted`, `removed_h` and `prioritised` are the operations on such a heap, branch by
branch, with what they do wrong: `DaryHeap` makes its actions of them, and `Timers` its
queue. A failing allocation is the choice of capacity in `reserved` and `shrunk`.

**Timers.** Time is a number of ticks. `timer_queue` is a heap of `HeapVector`, a vector and
the timers' positions in it; the timerfd is set from its root, and expired timers are taken
from there, whether or not the root is the earliest timer. `process_timer()` is one action per expired
timer while `curtime` is set and the base lock is held; every other operation is
one action under the lock. `first` and `reported` are history: when the timer was
armed for, and how many intervals its handler has been told of. The pointer that
`process_timer_queue()` uses after `pull_root()` is modelled by `timeout_read`. A client
with the habit `postpone` arms any timer for a later time; without it only one above at
most one other in the heap, where `set_priority()` overlooks none (`OneBelow`).
Threads are counted: with one thread a handler may re-arm its own timer. The lock
protocol is `AttnLock`'s; here `issue_delete()` is a step of its own. Times are divided
as `TimeDivision` says, that is, as the code does it: with `Second` ticks to the second,
the quotient may fall short (section 3), and the loop then takes another turn.

**TimeVal.** A time is a record of seconds and (few) nanoseconds; the two loops of
`divide_timespec()` are recursive operators. The assumption `DividesAsDefined` ties the
result to `TimeDivision`; TLC evaluates it in the run `timers`. The quotient is taken to fit
an `int`.

**BTreeSet.** A sept's arrays are the sequences `hn` and `kid`; `hp` is the pointer
from a handle to its sept, which `remove()` starts from and never clears. Operations begin
when `pc` is `"idle"`, and each iteration of their loops is a step: `search` and `descend`
on the way down, the splits (`split_low`, `split_mid`, `split_high`) and `put` or `new_root`
on the way up, `succ_down` to a successor, one merge or borrowing of `repop_node()`, `find`
in one sept. Registers (`sept`, `hndl_p`, `min`, `max`, `left_down`, `right_down`) are the
code's local variables. Three variables are auxiliary, written and never read by the
actions except to carry them on: `lo` and `hi` are the values of the tree on either side of
a sept, `height` is its distance from the leaves. They make "in order" and "equally deep"
statements about a sept and its children instead of whole subtrees. `Wild` stands for the
sept that `alloc_sept()` would take from an empty reserve. The code is right for
even orders from 4 on (`OrderAssumption`; the library uses 8): the split of an odd
order leaves the wrong number of values on the right, and with order 2 a merge may
empty a parent that is not the root.

**SignalChild.** A signal watcher stands for its signal. Reading the signalfd is one
action per signal under the base lock (`poll = "reading"`), because the system goes on
raising signals meanwhile; `fdmask`, the signalfd's own mask, follows `sigmask` when the
code calls `signalfd()`. `reap` is the whole `waitid()` loop: it holds both locks.
Processes are told apart by `gen`, since `proc[p]` may be used again once reaped. The
map of process ids is a function here and a tree in `BTreeSet`. `reg[w]` follows the
client's view: `"out"`, `"reserved"`, `"live"`, `"disarmed"`, `"removing"` between the two
parts of `deregister()`, `"dying"` before `watch_removed()`.
`send_signal()` is two steps: the look at `child_termd`, and `kill`, with `sending` in
between. It locks a copy of the reaper lock, which excludes nothing, and so the steps have
nothing of a lock in them. What keeps a reap out is that the loop's one thread does not poll
while it sends; with the habit `signal_polling` another thread does.

**SelectLoop.** One descriptor with up to three watchers and two classes, chosen in
`Init`. `copied` and `unmasked` are what a wait knows of: copies of the sets and of the
signal mask. A poll goes through `"copied"`, `"waiting"`, possibly `"jumped"` (out of the
signal handler, back to before the wait), `"returned"` (with `select()`, signals are
still unmasked here), `"reporting"`. `leaked` is what a poll leaves unmasked in its
thread. `deregister()` is three steps: the backend, the claim of the attention lock,
`issue_delete()`. The lock itself is `AttnLock`'s.

In `EventLoop`, `Timers`, `SignalChild` and `SelectLoop` the constant `Client` lists habits of
the client and the system that the code does not stand (`Habits`). The passing runs have
none of them, or those that the documentation allows with one thread; with any of them
a property fails, and section 3 says which.

One thing no modelled client does: remove a watcher twice. While a `deregister()` of a
watcher has begun and not yet come to `issue_delete()`, a handler of it does not return
REMOVE, in `EventLoop`, `Timers`, `SignalChild` and `SelectLoop` (the guards on REMOVE in
`callback_returns` and `handler_return`); in the code both would go on to release the
handle and to call `watch_removed()`. In `BidiWatcher` a handler may return REMOVE then for
the first of the halves to be removed, but not for the second. From `issue_delete()` on
every return value is taken for REMOVE, and nothing is left out.

## 3. Runs

Passing:

| run | instance | question |
|---|---|---|
| `attn` | 3 threads, fairness | exclusion, interrupts, notifications, `AttentionGranted`, refinement of `LoopLock` |
| `loop_mt` | 2 threads, an fd and a regular file, no limit | one outstanding event per watcher, nothing left of removed watchers, refinement of `WatcherContract` |
| `loop_st` | 1 thread, limit 1, handlers that delete themselves | run() does not sleep on a queued event |
| `loop_live` | 2 threads, 1 fd, fairness | deregistration completes |
| `bidi` | 3 threads, watched or emulated, fairness; no hang-ups, halves are not disabled while a report is in the poller's buffer | one event per half, joint removal, a removed half stays quiet, refinement of `WatcherContract`, deregistration completes |
| `heap` | fan-out 2, 6 handles, 3 priorities, capacity up to 8 | positions, room, order, contents |
| `timers` | 3 timers in a heap of fan-out 4 (periodic; stopped; armed earlier and later), 2 threads, clock to 3, fairness | timerfd coverage, one event at a time, period, `DueIsProcessed` |
| `btree` | order 4, 24 handles, eight trees of one to three levels, any 3 operations after that, destruction | B-tree shape and pointers, the reserve suffices, `find`, refinement of `KeyedSet` |
| `child` | 1 signal, 1 child watcher, 2 process ids, 2 processes, fairness | one event at a time, removed watchers are quiet, status and signals (sent outside of polls) of the right process, terminations and signals are reported |
| `select` | both backends, 1 fd, 1 bidirectional and 1 signal watcher, other threads, fairness | no watch stranded behind a wait, sets lead to registered watchers, signals contained, what is watched is reported |

Expected violations, each a disagreement of the code with a document, a comment
or the interface's own rules (`PROJECT.json`, "findings", has the quotations):

| run | what TLC shows |
|---|---|
| `lost_wakeup` | a run() that found the queue empty and has not yet taken the poll lock is missed by the interrupt for a requeued watcher, and sleeps on it |
| `pselect_twice` | the mask of the pselect() that follows the receipt of a signal still lets it through: it is received and queued twice in one poll, with a single thread |

Findings without a run of their own, with the constants under which TLC shows them:

| constants | what fails |
|---|---|
| `EventLoop`, `Client <- EnablesItself` | `OneOutstanding`: enabling an emulated watch in its own handler and returning NOOP or REARM queues it twice |
| `EventLoop`, a watcher in `Hangup` | `NoNullUserdata`: a hang-up on a disabled watch is reported with null user data |
| `EventLoop`, two watchers | `NodesCounted`: handles are released without the base lock |
| `DaryHeap`, `N = 4` | `RootIsMinimum`: set_priority() ignores the last child |
| `TimeVal` | exact division: a second or more, divided by less than a third of a second, may leave more than the interval (1.0 s by 0.3 s gives 2; `FallsShort` in `TimeDivision`) |
| `Timers`, `Client <- Postpones` | `TimerfdCovers`: three timers are queued, the one at the root is armed for later, the second becomes the root though the third is due before, and the timerfd is set for the second |
| `Timers`, two periodic timers | `AllOnSchedule`: a periodic timer beside another loses its schedule |
| `BidiWatcher`, `DisablesInPoll = TRUE` | `HalfOnce`: disabling a direction while the other is in the poller's buffer arms the shared entry again |
| `BidiWatcher`, `Hangup = TRUE` | `HalfOnce`: a hang-up makes the primary be queued twice |
| `SignalChild`, `rearm_removing` | `RemovedIsQuiet`: REARM between the two parts of deregister() brings a removed watcher's signal back |
| `SignalChild`, `raise_reading` | `OneOutstanding`: a signal is read twice before the signalfd gets the reduced mask |
| `SignalChild`, `reuse_queued` | `StatusIsOwn`: stop_watch() leaves a queued event, which is then reported for the next child |
| `SignalChild`, `add_late` | `ForkedIsReported`: a stale map entry swallows a later fork()'s registration |
| `SignalChild`, `signal_polling` | `SignalsOwnChild`: another thread reaps the child between the look at `child_termd` and `kill()` |
| `SignalChild`, `RelockSafe = FALSE` | unreserve() waits for a lock its thread holds (`stuck`) |
| `SelectLoop`, `one_way` | `EnabledIsOwned`: a bidirectional watcher's second direction has no user data |
| `SelectLoop`, `rearm_removing` | `EnabledIsOwned`, `SignalsContained`: as in `SignalChild` |
| `SelectLoop`, `remove_polling` | `SignalsContained`: a signal's handler goes while another thread lets the signal through |
| `SelectLoop`, `add_disabled` | `NoStrandedWatch`: a watch added disabled is enabled, without an interrupt |

Further ones (handles released twice for timers, bidirectional and child watchers,
`process_events(0)`, `is_queued()`) are in `PROJECT.json`; the counts are in the models as
`num_timers`, `handles` and `slots`.

**Bounds.** Three threads are one more than any rule of the lock tells apart
(holder, second in the queue, further back); two threads suffice for a poller or
handler against a deregistration, and an fd and an emulated file are the two kinds
of fd watcher. For a bidirectional watcher, three threads are a poller and both
handlers at once, while clients call from outside. Six handles give a binary heap
three levels with both a full and a
partly filled last level; three priorities include equal ones. With a `MaxSize`
of 8 both the doubling and the maximum branch of `allocate` occur. Three timers
are the fewest whose heap can have a root that is not the earliest timer; in the run one is
periodic, one is stopped, and one is armed again for earlier and, where allowed, for later.
Timeouts 1 to 3, interval 2 and three clock ticks include late processing with missed
intervals and equal timeouts. Larger heaps, where the removal of an inner node matters, are
left to `NoTimeoutMissed` (section 4). The division
of times falls short only for an overrun of a second of at least three ticks,
which is not among them: that the period is kept then, too, is proved
(section 4). For the division itself, seven seconds of six ticks give up to
five doublings and odd seconds to halve. A B-tree of order 4
needs 17 values for a third level; the loads (`Loads`) lie just below and above the
sizes at which levels come and go, so that `MaxOps = 3` operations reach every split,
merge and borrowing, at two levels in one operation, and both ends of the count of the
reserve; a key that occurs twice is among the handles. Two process ids and `MaxForks = 2`
processes contain a watched and an unwatched child that end together, and one id used
twice. One descriptor with two directions suffices for `SelectLoop`, since nothing
there relates two descriptors; it is ready in both directions or in none. Bounds in
guards: `MaxNodes` (the queue's largest size; counters wrap modulo `IndexRange`
just beyond), `MaxTime`, `Horizon`, `MaxIntervals` and `MaxLost` in `Timers`, `MaxOps` in
`BTreeSet`, `MaxForks` in `SignalChild`.
Symmetry is used for safety and refinement only, where members are
interchangeable (handles, threads, timers).

**Deadlock** is checked in every run but `btree`, whose operations are bounded:
some client can always make a call, and no sequence of calls brings the loop to a state in which nobody can move.

**Fairness.** In the lock and the loop: a runnable thread runs, a thread waiting
for a mutex is not overtaken for ever (strong fairness of the steps that take
`base_lock`), handlers return, a readable event fd makes `epoll_wait()` return, and
a draining poller, whose watches are one-shot, finds the set empty sooner or
later. Clients need not call anything and no event need arrive. `AttentionGranted`
assumes that interrupts for requeued watchers do not come for ever, since each
prolongs the drain. `BidiWatcher` takes the grant of the attention lock from it
(strong fairness of `issue_delete` and of the end of a pull). In `Timers`: strong
fairness of polling because run() polls
before each round of dispatching. In `SignalChild`: a thread polls for ever, though it may
send signals before each poll (strong fairness of the poll's steps, weak of `kill`), a queued event is dispatched and a returning handler gets
the base lock in spite of others (strong fairness, as above). In `SelectLoop`: a poller
in `wait_waitqueue` gets the lock though deregistrations keep coming (strong fairness of
`Poll`), and begun polls and deregistrations go on (weak fairness). There a descriptor's
report is promised only if signals do not interrupt polls for ever, and a signal's only
for `select()`, since `pselect()` may report ready descriptors and leave signals pending.

## 4. Proofs

TLC checks instances; the theorems hold for all values of the constants.

`AttnLockProofs`, for any finite set of threads. The inductive invariant is
`LockInv`: types and distinct queue nodes; threads behind the head of the
attention queue, and in the wait queue, wait and are of the right class
(`QueuedThreadsWait`); whoever is inside is the head, and the head is not asleep
(`HeadHoldsLock`); `long_poll_running` is exactly "the head is a run() caller"
(`LongPollAccurate`); and a run() caller that has not returned from its first
`epoll_wait()` and has somebody behind it finds the event fd readable
(`InterruptPending`). The last is needed because only the second claimant writes
to the event fd: the proof shows that the first claim after a long poll began is
the one that finds a queue of length one. From it follow `LockExclusion`,
`NoLostInterrupt`, `NoLostNotification`, `PollDoesNotWait` and, with the mapping
(head, rest, wait queue) to (holder, urgent, patient), `LockRefinement`.

`TimersProofs`, for any timers, timeouts, intervals and fan-out. It extends
`DaryHeapProofs` for what the moves of nodes do, and has two inductive invariants.
`CoverInv` is behind `NoTimeoutMissed`: positions are right (`QueueAccurate`), no timer is above
one that expires before it (`QueueOrdered`), and the timerfd covers the queue. The order is
what the code does not keep in general, and so the theorem has hypotheses: no timer is
postponed above more than one other (no `postpone`), and there are at most `2 * N + 1` timers
(nine with the code's fan-out). `remove_h()` puts the last node in the place of the removed one
and only bubbles it away from the root, which is wrong if it is more urgent than the parent
there. With so few nodes it cannot be: that parent is the root, or the first child of the root,
which is then the last node's own parent (`SmallRemoveOrdered`). With `2 * N + 2` the order can
be lost. `TimersInv`, for more than one thread (`Threads # 1`: with one thread a handler may arm
its own timer while it runs, and then a timer is queued while active), does not mention the
order. It adds to types,
positions and `OneOutstanding`: only live timers are queued and deregistration is noted in
`reg`, `dereg` and `deleteme` consistently (`Lifecycle`), and expiries are counted
in the timer only while it is disabled (`CountedIsDisabled`), so that enabling
with a count cannot queue a timer that is still armed. `PeriodIsKept` is an action
property: its arithmetic rests on quotient and remainder making up the overrun, which they
do even where the division falls short.
`TimersRefinement` is the contract.

`EventLoopProofs`, for any finite sets of threads and watchers, any limit, queue size and
hang-ups, for clients that do not enable a watcher from its own handler. `LoopInv` joins
the lock's `LockInv`, which carries over because every action of the loop is an action of
`AttnLock` or leaves the lock alone (`LoopKeepsLockProtocol`), with `WatchersInv`: an
event of a watcher is in one of four places, the epoll set, the poller's buffer, the queue
and the handler (`OnePlace`); no two threads dispatch or remove the same one (`Dispatching`);
a removal that has begun has one thread to finish it (`RemovedOnce`); and reported events
are in the hands of the holder of the lock (`BatchHeld`). This last one links the two: a
deregistration, holding the lock, can rely on the buffer being empty. `NoStrandedEvent` is
proved for one thread (`SingleThreadNotStranded`); with two it is false, as the run
`lost_wakeup` shows. `Limit # 0` because a limit of 0 leaves the base lock held.

`BidiWatcherProofs`, for any number of threads, without hang-ups and without clients
that disable a half which a poller has reported: with either, `HalfOnce` fails
(section 3). `BidiInv` says where the event of each half can be (`OnePlace`), that what the
poller has in hand is still to be cleared in `watch_flags` (`BatchIsWatched`), that the
epoll entry is armed for watched directions only (`EntryIsWatched`), and who finishes a
removal (`RemovedOnce`).

`SelectLoopProofs`, for any watchers and readiness and both backends, with or without
other threads. `SelectInv` relates the sets, the user data and the masks to registrations:
units with events are registered (`UnitsRegistered`), a direction in a set has user data and a
watcher that is not removed (`FdOwned`), a signal in the mask has a handler installed and
a watcher (`SigOwned`), and what is enabled has no event (`EnabledIsIdle`). It excludes four
habits (`Careful`), each of which breaks a property. `NoStrandedWatch` needs only that no
watcher is added disabled; it is strengthened to hold from when the sets are copied
(`CopiesCurrent`).

`SignalChildProofs`, for any signals, watchers, process ids and number of processes.
`EventsInv` relates events, the two masks and the map of process ids to registrations
(`EventsRegistered`, `SignalsOwned`, `EntriesOwned`), for clients and a system without the
habits of `Tidy`. What belongs to which process is a second invariant: an entry of the map
is for the process that the watcher was last given (`StatusOwned`) and for one that has not
been reaped (`ForkedIsWatched`); it needs that nobody adds a watch for a child reaped
already (`add_late`). `SignalledInv` adds that the child which a signal is about to be sent to
stays unreaped until `kill()` (`TargetHeld`). That is so because no poll goes on (no
`signal_polling`) and would be false of the lock that the code takes.

`DaryHeapProofs`, for any fan-out, handles, priorities and largest size. The invariant
`HeapInv` is short (positions, allocated handles and their count); the work is in what
`bubble_down` and `bubble_up` compute, which takes induction along the nodes they move. The
induction theorems of the library take an operator as parameter, which the provers do not
instantiate; `StrongInduction` is derived instead from the existence of minimal elements
(`WFMin`), a statement about sets. Both directions are instances of one recursion (`Moves`):
that it defines a function (`MovesExist`) and what it does to contents and positions
(`MovesFill`) are proved once. Then `DownOrder` and `UpOrder` give `HeapOrderKept`: towards the root no
node becomes less urgent than it was at its position, away from the root none becomes more
urgent. In `UpOrder` the last node is not looked at among its siblings; the proof uses that it
is the node being moved, which is so in `pull_root()` and not in `set_priority()` to a larger
value, where the order is lost unless there is one child at most. `remove()` of an inner node
is not order-preserving in general either, but with up to `2 * N + 1` nodes
it is (`SmallRemoveOrdered`).

`BTreeSetProofs`, for any even order from 4, any handles, keys, septs, loads and number of
operations. The inductive invariant `TreeInv` holds at every step of an operation:

- `SlotsInv`: septs in the tree and in reserve are disjoint, their number is the one
  counted, `next` and `needed` follow the number of slots by the code's formula, and the
  elements have slots.
- `ShapeInv`: every sept is in order between `lo` and `hi`, its values point to it, its
  children stand between its values, are one level lower and point back; but for the right
  half of a split that is still to be linked (`Linking`), every sept is a child of its parent.
- `FillInv`: every sept is at least half full, except the root, and the one sept about to be
  repopulated, which lacks one value.
- `OpInv`: what the loops have established. The handle to be inserted belongs below the sept
  that is searched, and between the bounds of the binary search (`SearchInv`); it, or the
  value a split has taken out, belongs at the child that was split (`UpInv`); the sept reached
  for the successor is on the left edge below the value to be removed (`SuccInv`); a key that
  is looked for is below the sept reached, or nowhere (`FindInv`).

Nothing in `TreeInv` speaks of subtrees. Facts about the whole tree come from `lo` and `hi`
by induction over heights: two septs are nested or apart, so a value is in one place only
and a key that is not where the search ends is nowhere (`Within`, `Apart`). Splits, merges
and borrowing are all proved as one kind of change: the values and children of a sept, or of
two neighbours and the value between them, are divided anew between septs with the same ends
(`Spans`, `IsLow`, `IsHigh`). `ReserveIsEnough` counts: septs that are half full hold
`Half` values each, the tree's values have slots, and a slot in every `Half` brings a sept,
also in the middle of an insertion that splits at every level. From `TreeInv` follow
`TreeIsWellFormed`, `FindIsExact` and `TreeRefinement`: the elements of `KeyedSet` are the
members and, during the way up, the value in hand. An insertion has its effect when the
search reaches a leaf, or none when it meets the key, and only then; a removal when a leaf
loses the value or its successor. All rebalancing before and after changes nothing, so no
member is lost unless it is the one a call of `remove` named.

The habits and values that the theorems exclude are those of the findings; the instances
of the runs satisfy all the hypotheses but those of `lost_wakeup` and `pselect_twice`.

Only model-checked: the liveness properties (`AttentionGranted`, `DeregisterCompletes`,
`DueIsProcessed`, `ForkedIsReported`, `RaisedIsReported`, `WatchedIsReported`), because the
prover does not cover fairness and `ENABLED`; and `DividesAsDefined`, which takes induction
over the two loops of the division and powers of two. Type correctness is part of each
invariant above. That the operations of the b-tree end is not stated: each loop moves one
level up or down.

## 5. Not modelled

The kqueue backends and posix and interval timers (other platforms; alternative sources
of the same events); `select()`'s timeout for monotonic timers, its error set and
`FD_SETSIZE`; the stable heap (a counter beside the priority);
quotients of a division beyond an `int` (an interval of nanoseconds); exceptions out
of registrations (they undo what was done; a failure inside `allocate` is in `DaryHeap`
and in `BTreeSet`); a failing `fork()`, and `fork()` for backends without reservation, which
none is; loop construction and destruction; event masks, flags and the data of a signal;
what a client does in `watch_removed()`. Handlers do not return REMOVED in `Timers`,
`BidiWatcher` and `SelectLoop`, and `BidiWatcher` does not report the null user data of a
disabled entry (`EventLoop` does). `remove_bidi_fd_watch()` does not take the base lock; its
two stores are one step in `SelectLoop`.

## 6. Plan

1. *Done*: `AttnLock`, `EventLoop`, `DaryHeap`, `Timers`, `BidiWatcher`; proofs of the lock
   and the timers.
2. *Done*: signals and child processes (`SignalChild`), the select backends
   (`SelectLoop`), the b-tree set (`BTreeSet`).
3. *Done*: proofs of the safety properties of `EventLoop`, `BidiWatcher`, `SelectLoop`,
   `SignalChild`, `DaryHeap` and `BTreeSet`; `divide_timespec` on seconds and nanoseconds.
4. Left: a timeout of zero, which disarms the timerfd; divisions beyond an `int`; the kqueue
   backends' own mechanisms.
