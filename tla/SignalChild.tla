---------------------------- MODULE SignalChild -----------------------------
(***************************************************************************)
(* Signal watchers and child process watchers on the epoll backend:        *)
(* event_loop and the watcher classes (include/dasynq.h), child_proc_events *)
(* (include/dasynq/childproc.h) and the signalfd of epoll_loop              *)
(* (include/dasynq/epoll.h).  Watched signals are blocked and read from a   *)
(* signalfd; SIGCHLD is read likewise and makes the loop reap every        *)
(* terminated child.                                                       *)
(*                                                                         *)
(* One thread at a time polls; handlers run in any threads.  A step under  *)
(* the base lock is one action, but for the reading of the signalfd, which *)
(* goes on while the system raises signals and children terminate.  A      *)
(* deregistration waits for the attention lock, which excludes a poll      *)
(* (module AttnLock).  The map from process ids to watchers is a function  *)
(* (module BTreeSet).  A process id is used again once its process has     *)
(* been reaped; gen tells the processes apart.                             *)
(***************************************************************************)
EXTENDS Integers, FiniteSets

CONSTANTS
    SigWatchers,    \* signal watchers, each for a signal of its own
    ChildWatchers,
    Pids,
    MaxForks,       \* bound on the processes created
    RelockSafe,     \* may the base lock's holder lock it again?
    Client,         \* what client and system do: subset of Habits
    None

\* rearm_removing: a handler that runs while its watcher is being deregistered
\*     returns REARM;
\* raise_reading: a signal is raised again before the signalfd has been drained;
\* reuse_queued: a watcher is used for another child when stop_watch() has come
\*     too late to prevent the report of the first;
\* add_late: add_reserved() is called for a child that has been reaped meanwhile;
\* signal_polling: send_signal() is called while another thread polls.
Habits == {"rearm_removing", "raise_reading", "reuse_queued", "add_late",
           "signal_polling"}

ASSUME SignalChildAssumption ==
    /\ MaxForks \in Nat /\ RelockSafe \in BOOLEAN /\ Client \subseteq Habits
    /\ SigWatchers \cap ChildWatchers = {}
    /\ None \notin SigWatchers \cup ChildWatchers \cup Pids

Watchers == SigWatchers \cup ChildWatchers

VARIABLES
    pending,    \* signals pending for the process; a watcher stands for the signal
                \* that sigdataMap has it for
    sigmask,    \* epoll_loop::sigmask
    fdmask,     \* the mask of the signalfd
    poll,       \* "idle", "waiting" in epoll_wait(), "reading" with the base lock
    proc,       \* [Pids -> [st, gen]]: "none", "running" or "zombie"
    forks,      \* processes created so far
    watching,   \* [Pids -> ChildWatchers \cup {None}]: child_waiters
    slots,      \* child_waiters' count of reservations
    reg,        \* [Watchers -> state of the registration, see TypeOK]
    bw,         \* [Watchers -> [queued, active, deleteme]]: base_watcher
    cw,         \* [ChildWatchers -> [pid, gen, status, termd, own]]
    sending,    \* the watcher whose send_signal() is about to call kill(), or None
    stray,      \* a signal was sent to a process other than the watcher's own
    stuck       \* a thread waits for the base lock that it holds itself

sigVars   == <<pending, sigmask, fdmask>>
childVars == <<proc, forks, watching, slots, cw>>
sendVars  == <<sending, stray>>
vars == <<sigVars, childVars, poll, reg, bw, sendVars, stuck>>

SIGCHLD == None         \* the one signal without a signal watcher

Idle == [queued |-> 0, active |-> FALSE, deleteme |-> FALSE]

NoChild == [pid |-> None, gen |-> 0, status |-> 0, termd |-> FALSE, own |-> FALSE]

\* child_proc_events::init() has SIGCHLD watched from the start.
Init ==
    /\ pending = {} /\ sigmask = {SIGCHLD} /\ fdmask = {SIGCHLD}
    /\ poll = "idle"
    /\ proc = [p \in Pids |-> [st |-> "none", gen |-> 0]]
    /\ forks = 0
    /\ watching = [p \in Pids |-> None]
    /\ slots = 0
    /\ reg = [w \in Watchers |-> "out"]
    /\ bw = [w \in Watchers |-> Idle]
    /\ cw = [w \in ChildWatchers |-> NoChild]
    /\ sending = None /\ stray = FALSE /\ stuck = FALSE

BaseLockFree == poll # "reading" /\ ~stuck

-----------------------------------------------------------------------------
(* The system.                                                             *)

Raise(w) ==
    /\ w \notin pending
    /\ poll = "reading" /\ w \in fdmask \ sigmask => "raise_reading" \in Client
    /\ pending' = pending \cup {w}
    /\ UNCHANGED <<sigmask, fdmask, childVars, poll, reg, bw, sendVars, stuck>>

Exit(p) ==
    /\ proc[p].st = "running"
    /\ proc' = [proc EXCEPT ![p].st = "zombie"]
    /\ pending' = pending \cup {SIGCHLD}
    /\ UNCHANGED <<sigmask, fdmask, forks, watching, slots, cw, poll, reg, bw,
                   sendVars, stuck>>

-----------------------------------------------------------------------------
(* Signal watchers.                                                        *)

register_signal(w) ==
    /\ BaseLockFree /\ reg[w] = "out"
    /\ reg' = [reg EXCEPT ![w] = "live"]
    /\ bw' = [bw EXCEPT ![w] = Idle]
    /\ sigmask' = sigmask \cup {w}
    /\ fdmask' = sigmask'
    /\ UNCHANGED <<pending, childVars, poll, sendVars, stuck>>

\* remove_signal_watch() clears the mask and leaves the watcher in sigdataMap.
deregister_signal(w) ==
    /\ BaseLockFree /\ reg[w] = "live" /\ ~bw[w].deleteme
    /\ reg' = [reg EXCEPT ![w] = "removing"]
    /\ sigmask' = sigmask \ {w}
    /\ fdmask' = sigmask'
    /\ UNCHANGED <<pending, childVars, poll, bw, sendVars, stuck>>

\* Mutant: an event that is already queued stays in the queue.
issue_delete_queued(w) ==
    /\ BaseLockFree /\ poll = "idle" /\ reg[w] = "removing"
    /\ IF bw[w].active
       THEN /\ bw' = [bw EXCEPT ![w].deleteme = TRUE]
            /\ reg' = [reg EXCEPT ![w] = "live"]
       ELSE /\ reg' = [reg EXCEPT ![w] = "out"]
            /\ UNCHANGED bw
    /\ UNCHANGED <<sigVars, childVars, poll, sendVars, stuck>>

\* The rest of deregister(), with the attention lock: issue_delete().
issue_delete(w) ==
    /\ BaseLockFree /\ poll = "idle" /\ reg[w] = "removing"
    /\ IF bw[w].active
       THEN /\ bw' = [bw EXCEPT ![w].deleteme = TRUE]
            /\ reg' = [reg EXCEPT ![w] = "live"]
       ELSE /\ bw' = [bw EXCEPT ![w].queued = 0]
            /\ reg' = [reg EXCEPT ![w] = "out"]
    /\ UNCHANGED <<sigVars, childVars, poll, sendVars, stuck>>

\* What the handler's return value, or a deletion in the meantime, asks for.
EffectOf(w, r) == IF bw[w].deleteme THEN "REMOVE" ELSE r

\* Mutant: the new mask is not given to the signalfd.
signal_rearm_unset(w, e) ==
    /\ sigmask' = CASE e = "REARM"  -> sigmask \cup {w}
                    [] e = "REMOVE" -> sigmask \ {w}
                    [] OTHER        -> sigmask
    /\ UNCHANGED <<pending, fdmask, childVars>>

\* process_signal_rearm()
signal_rearm(w, e) ==
    /\ sigmask' = CASE e = "REARM"  -> sigmask \cup {w}
                    [] e = "REMOVE" -> sigmask \ {w}
                    [] OTHER        -> sigmask
    /\ fdmask' = IF e \in {"REARM", "REMOVE"} THEN sigmask' ELSE fdmask
    /\ UNCHANGED <<pending, childVars>>

-----------------------------------------------------------------------------
(* Child process watchers.                                                 *)

reserve_watch(w) ==
    /\ BaseLockFree /\ reg[w] = "out"
    /\ slots' = slots + 1
    /\ reg' = [reg EXCEPT ![w] = "reserved"]
    /\ bw' = [bw EXCEPT ![w] = Idle]
    /\ UNCHANGED <<sigVars, proc, forks, watching, cw, poll, sendVars, stuck>>

\* unreserve() locks the base lock and calls a function that locks it again.
unreserve(w) ==
    /\ BaseLockFree /\ reg[w] = "reserved" /\ bw[w].queued = 0 /\ ~bw[w].active
    /\ stuck' = ~RelockSafe
    /\ slots' = IF RelockSafe THEN slots - 1 ELSE slots
    /\ reg' = [reg EXCEPT ![w] = IF RelockSafe THEN "out" ELSE @]
    /\ UNCHANGED <<sigVars, proc, forks, watching, cw, poll, bw, sendVars>>

MayUse(w) ==
    /\ reg[w] = "reserved" /\ ~bw[w].active
    /\ bw[w].queued = 0 \/ "reuse_queued" \in Client

\* add_from_reserve(): without effect on the map if the id is there.
add_from_reserve(w, p) ==
    watching' = IF watching[p] = None THEN [watching EXCEPT ![p] = w] ELSE watching

\* fork() of a reserved watcher, or its second half otherwise: the child is created
\* and its watch is registered under one lock.
fork(w, p) ==
    /\ BaseLockFree /\ MayUse(w)
    /\ proc[p].st = "none" /\ forks < MaxForks
    /\ forks' = forks + 1
    /\ proc' = [proc EXCEPT ![p] = [st |-> "running", gen |-> forks + 1]]
    /\ cw' = [cw EXCEPT ![w].pid = p, ![w].gen = forks + 1, ![w].termd = FALSE,
                        ![w].own = TRUE]
    /\ bw' = [bw EXCEPT ![w].active = FALSE, ![w].deleteme = FALSE]
    /\ reg' = [reg EXCEPT ![w] = "live"]
    /\ add_from_reserve(w, p)
    /\ UNCHANGED <<sigVars, slots, poll, sendVars, stuck>>

\* A child that the client creates by itself.
Spawn(p) ==
    /\ proc[p].st = "none" /\ forks < MaxForks
    /\ forks' = forks + 1
    /\ proc' = [proc EXCEPT ![p] = [st |-> "running", gen |-> forks + 1]]
    /\ UNCHANGED <<sigVars, watching, slots, cw, poll, reg, bw, sendVars, stuck>>

\* The child with id p is given to w; it may be reaped already, and gen is then that
\* of the process that was last seen under the id.
watch_child(w, p) ==
    /\ proc[p].gen > 0 /\ watching[p] = None
    /\ proc[p].st # "none" \/ "add_late" \in Client
    /\ \A v \in ChildWatchers : cw[v].gen # proc[p].gen
    /\ cw' = [cw EXCEPT ![w].pid = p, ![w].gen = proc[p].gen, ![w].termd = FALSE,
                        ![w].own = FALSE]
    /\ bw' = [bw EXCEPT ![w].active = FALSE, ![w].deleteme = FALSE]
    /\ reg' = [reg EXCEPT ![w] = "live"]
    /\ add_from_reserve(w, p)
    /\ UNCHANGED <<sigVars, proc, forks, poll, sendVars, stuck>>

\* add_watch(), which reserves as well.
add_watch(w, p) ==
    /\ BaseLockFree /\ reg[w] = "out"
    /\ slots' = slots + 1
    /\ watch_child(w, p)

add_reserved(w, p) ==
    /\ BaseLockFree /\ MayUse(w)
    /\ watch_child(w, p)
    /\ UNCHANGED slots

Unwatched(w) == [p \in Pids |-> IF watching[p] = w THEN None ELSE watching[p]]

\* stop_watch(): an event that is queued already stays queued.
stop_watch(w) ==
    /\ BaseLockFree /\ reg[w] = "live" /\ ~bw[w].active
    /\ watching' = Unwatched(w)
    /\ cw' = [cw EXCEPT ![w].own = FALSE]
    /\ reg' = [reg EXCEPT ![w] = "reserved"]
    /\ UNCHANGED <<sigVars, proc, forks, slots, poll, bw, sendVars, stuck>>

\* deregister(): remove_child_watch() ends the watch and gives up the reservation.
deregister_child(w) ==
    /\ BaseLockFree /\ reg[w] \in {"live", "reserved", "disarmed"} /\ ~bw[w].deleteme
    /\ watching' = Unwatched(w)
    /\ slots' = slots - 1
    /\ cw' = [cw EXCEPT ![w].own = FALSE]
    /\ reg' = [reg EXCEPT ![w] = "removing"]
    /\ UNCHANGED <<sigVars, proc, forks, poll, bw, sendVars, stuck>>

\* send_signal(): nothing is sent once the termination has been seen.  The lock it takes
\* is a copy of the reaper lock and holds nobody up, so that the rest of the call, kill(),
\* is a step of its own.  A loop with a null_mutex has one thread, which does not poll
\* during the call; with a mutex type that can be copied (std::mutex can not, the function
\* does not compile with it) another thread may be polling: signal_polling.  One call is
\* in progress at a time; two do not concern each other.
send_signal(w) ==
    /\ sending = None
    /\ cw[w].own /\ reg[w] \in {"live", "reserved"}
    /\ ~cw[w].termd
    /\ poll = "idle" \/ "signal_polling" \in Client
    /\ sending' = w
    /\ UNCHANGED <<sigVars, childVars, poll, reg, bw, stray, stuck>>

\* The signal goes to the process that has the watcher's process id by now.
kill ==
    /\ sending # None
    /\ LET c == cw[sending] IN
         stray' = (stray \/ proc[c.pid].st = "none" \/ proc[c.pid].gen # c.gen)
    /\ sending' = None
    /\ UNCHANGED <<sigVars, childVars, poll, reg, bw, stuck>>

\* What reaping the zombies Z does to the watchers that are told of them.
Told(Z) == {w \in ChildWatchers : \E p \in Z : watching[p] = w}

ZombieOf(w, Z) == CHOOSE p \in Z : watching[p] = w

Zombies == {p \in Pids : proc[p].st = "zombie"}

Reaped(Z) == [p \in Pids |-> IF p \in Z THEN [proc[p] EXCEPT !.st = "none"] ELSE proc[p]]

\* Mutant: child_termd is not set.
receive_child_silent(Z) ==
    /\ cw' = [w \in ChildWatchers |->
                IF w \in Told(Z) THEN [cw[w] EXCEPT !.status = proc[ZombieOf(w, Z)].gen]
                ELSE cw[w]]
    /\ bw' = [w \in Watchers |-> IF w \in Told(Z) THEN [bw[w] EXCEPT !.queued = @ + 1]
                                 ELSE bw[w]]

\* receive_child_stat()
receive_child_stat(Z) ==
    /\ cw' = [w \in ChildWatchers |->
                IF w \in Told(Z)
                THEN [cw[w] EXCEPT !.status = proc[ZombieOf(w, Z)].gen, !.termd = TRUE]
                ELSE cw[w]]
    /\ bw' = [w \in Watchers |-> IF w \in Told(Z) THEN [bw[w] EXCEPT !.queued = @ + 1]
                                 ELSE bw[w]]

\* Mutant: one waitid() for each SIGCHLD.
reap_one ==
    \E Z \in SUBSET Zombies :
      /\ Cardinality(Z) <= 1 /\ (Z = {} => Zombies = {})
      /\ proc' = Reaped(Z)
      /\ watching' = [p \in Pids |-> IF p \in Z THEN None ELSE watching[p]]
      /\ receive_child_stat(Z)
      /\ UNCHANGED <<forks, slots>>

\* Mutant: the entry of a reaped child stays in the map.
reap_keeping ==
    /\ proc' = Reaped(Zombies)
    /\ receive_child_stat(Zombies)
    /\ UNCHANGED <<forks, slots, watching>>

\* receive_signal() of SIGCHLD: every zombie is reaped, and reported to the watcher
\* that the map has for it, whose entry goes.
reap ==
    /\ proc' = Reaped(Zombies)
    /\ watching' = [p \in Pids |-> IF p \in Zombies THEN None ELSE watching[p]]
    /\ receive_child_stat(Zombies)
    /\ UNCHANGED <<forks, slots>>

\* process_child_watch_rearm()
child_rearm(w, e) ==
    /\ slots' = IF e \in {"REMOVE", "DISARM"} THEN slots - 1 ELSE slots
    /\ UNCHANGED <<sigVars, proc, forks, watching, cw>>

-----------------------------------------------------------------------------
(* Polling and dispatch.                                                   *)

\* The one thread of a loop that signal_polling is not about does not poll while it sends.
PollStart ==
    /\ poll = "idle" /\ ~stuck
    /\ sending = None \/ "signal_polling" \in Client
    /\ poll' = "waiting"
    /\ UNCHANGED <<sigVars, childVars, reg, bw, sendVars, stuck>>

\* epoll_wait() returns, because of the signalfd or of something else.
PollReturn ==
    /\ poll = "waiting" /\ ~stuck
    /\ poll' = IF pending \cap fdmask # {} THEN "reading" ELSE "idle"
    /\ UNCHANGED <<sigVars, childVars, reg, bw, sendVars, stuck>>

\* Mutant: the signal's watch is left enabled.
read_signal_enabled(w) ==
    /\ poll = "reading" /\ w \in pending \cap fdmask
    /\ pending' = pending \ {w}
    /\ IF w = SIGCHLD THEN reap
       ELSE bw' = [bw EXCEPT ![w].queued = @ + 1] /\ UNCHANGED childVars
    /\ UNCHANGED <<sigmask, fdmask, poll, reg, sendVars, stuck>>

\* One read of the signalfd.
read_signal(w) ==
    /\ poll = "reading" /\ w \in pending \cap fdmask
    /\ pending' = pending \ {w}
    /\ IF w = SIGCHLD
       THEN reap /\ UNCHANGED sigmask
       ELSE /\ bw' = [bw EXCEPT ![w].queued = @ + 1]
            /\ sigmask' = sigmask \ {w}
            /\ UNCHANGED childVars
    /\ UNCHANGED <<fdmask, poll, reg, sendVars, stuck>>

\* The signalfd is drained and gets the new mask; pull_events() polls again.
read_done ==
    /\ poll = "reading" /\ pending \cap fdmask = {}
    /\ fdmask' = sigmask
    /\ poll' = "waiting"
    /\ UNCHANGED <<pending, sigmask, childVars, reg, bw, sendVars, stuck>>

dispatch(w) ==
    /\ BaseLockFree /\ bw[w].queued > 0
    /\ bw' = [bw EXCEPT ![w].queued = @ - 1, ![w].active = TRUE]
    /\ UNCHANGED <<sigVars, childVars, poll, reg, sendVars, stuck>>

Rearms == {"REARM", "NOOP", "DISARM", "REQUEUE", "REMOVE"}

\* The handler has returned: rearm and post_dispatch().  A handler does not remove a
\* watcher that is being deregistered.
handler_return(w, r) ==
    LET e == EffectOf(w, r) IN
    /\ BaseLockFree /\ bw[w].active
    /\ reg[w] = "removing" => /\ r \notin {"REMOVE", "DISARM"}
                              /\ r = "REARM" => "rearm_removing" \in Client
    /\ IF w \in SigWatchers THEN signal_rearm(w, e) ELSE child_rearm(w, e)
    /\ bw' = [bw EXCEPT ![w].active = FALSE,
                        ![w].queued = IF e = "REQUEUE" THEN @ + 1 ELSE @]
    /\ reg' = [reg EXCEPT ![w] =
                 CASE e = "REMOVE" -> "dying"
                   [] e # "REMOVE" /\ w \in ChildWatchers /\ @ # "removing" ->
                        IF e = "REQUEUE" THEN @
                        ELSE IF e = "DISARM" THEN "disarmed" ELSE "reserved"
                   [] OTHER -> @]
    /\ UNCHANGED <<poll, sendVars, stuck>>

\* The handler has deleted its watcher, after deregistering it: not touched again.
handler_deleted(w) ==
    /\ BaseLockFree /\ bw[w].active /\ bw[w].deleteme
    /\ bw' = [bw EXCEPT ![w] = Idle]
    /\ reg' = [reg EXCEPT ![w] = "out"]
    /\ UNCHANGED <<sigVars, childVars, poll, sendVars, stuck>>

\* The rest of post_dispatch() of a REMOVE, without the base lock.
watch_removed(w) ==
    /\ reg[w] = "dying"
    /\ reg' = [reg EXCEPT ![w] = "out"]
    /\ bw' = [bw EXCEPT ![w].deleteme = FALSE]
    /\ UNCHANGED <<sigVars, childVars, poll, sendVars, stuck>>

ReadSignal == \E w \in SigWatchers \cup {SIGCHLD} : read_signal(w)

HandlerReturn(w) == handler_deleted(w) \/ \E r \in Rearms : handler_return(w, r)

Next ==
    \/ PollStart \/ PollReturn \/ ReadSignal \/ read_done \/ kill
    \/ \E w \in SigWatchers : Raise(w) \/ register_signal(w) \/ deregister_signal(w)
    \/ \E w \in Watchers :
         issue_delete(w) \/ dispatch(w) \/ HandlerReturn(w) \/ watch_removed(w)
    \/ \E w \in ChildWatchers :
         \/ reserve_watch(w) \/ unreserve(w) \/ stop_watch(w) \/ deregister_child(w)
         \/ send_signal(w)
         \/ \E p \in Pids : fork(w, p) \/ add_watch(w, p) \/ add_reserved(w, p)
    \/ \E p \in Pids : Spawn(p) \/ Exit(p)

Spec == Init /\ [][Next]_vars

(* A thread polls and dispatches for ever, whatever signals it sends in    *)
(* between, and handlers return.  The base lock is granted to a thread     *)
(* that keeps asking for it, and a queued event is not for ever overtaken  *)
(* by events of higher priority.                                           *)
FairSpec ==
    /\ Spec
    /\ SF_vars(PollStart \/ PollReturn \/ ReadSignal \/ read_done) /\ WF_vars(kill)
    /\ \A w \in Watchers : SF_vars(dispatch(w)) /\ SF_vars(HandlerReturn(w))

-----------------------------------------------------------------------------
(* Properties.                                                             *)

BaseWatcher == [queued : Nat, active : BOOLEAN, deleteme : BOOLEAN]

ChildWatcher == [pid : Pids \cup {None}, gen : 0..MaxForks, status : 0..MaxForks,
                 termd : BOOLEAN, own : BOOLEAN]

\* The type invariant.
TypeOK ==
    /\ pending \in SUBSET (SigWatchers \cup {SIGCHLD})
    /\ sigmask \in SUBSET (SigWatchers \cup {SIGCHLD})
    /\ fdmask \in SUBSET (SigWatchers \cup {SIGCHLD})
    /\ poll \in {"idle", "waiting", "reading"}
    /\ proc \in [Pids -> [st : {"none", "running", "zombie"}, gen : 0..MaxForks]]
    /\ forks \in 0..MaxForks /\ slots \in Int
    /\ watching \in [Pids -> ChildWatchers \cup {None}]
    /\ reg \in [Watchers -> {"out", "reserved", "live", "disarmed", "removing", "dying"}]
    /\ bw \in [Watchers -> BaseWatcher]
    /\ cw \in [ChildWatchers -> ChildWatcher]
    /\ sending \in ChildWatchers \cup {None} /\ stray \in BOOLEAN /\ stuck \in BOOLEAN

\* A watcher has one event at a time, queued or with its handler: queue_watcher() puts
\* its one heap handle into the queue, and a second insertion would corrupt the heap.
OneOutstanding ==
    \A w \in Watchers : bw[w].queued + (IF bw[w].active THEN 1 ELSE 0) <= 1

\* Once watch_removed() is called, which allows the watcher to be deleted, nothing of
\* the loop leads to it: no queued event, no entry of the child map, and its signal is
\* not read, though sigdataMap keeps its address.
RemovedIsQuiet ==
    \A w \in Watchers : reg[w] = "out" =>
      /\ bw[w].queued = 0 /\ ~bw[w].active
      /\ w \notin sigmask \cup fdmask
      /\ \A p \in Pids : watching[p] # w

\* The status passed to status_change() is that of the process the watcher was last
\* given, also when process ids are used again and watches stop and start.
StatusIsOwn ==
    \A w \in ChildWatchers : bw[w].active => cw[w].status = cw[w].gen

\* send_signal() of a watcher that was started with fork() never reaches another
\* process: from the look at child_termd to kill() the child is unreaped, so that its id
\* is not in use again.  This is said of threads that do not signal during a poll: with
\* signal_polling in Client the copied lock lets the child be reaped, and its id be used
\* again, between the two.
SignalsOwnChild == ~stray

\* The termination of a child started with fork() is reported, unless the client ends
\* the watch: however SIGCHLDs coalesce and whenever the child ends, fork() having
\* registered the watch under the lock that reaping takes.
ForkedIsReported ==
    \A w \in ChildWatchers :
      (/\ reg[w] = "live" /\ cw[w].own /\ ~cw[w].termd
       /\ \E p \in Pids : p = cw[w].pid /\ proc[p].st # "running")
        ~> (bw[w].active \/ reg[w] # "live")

\* A signal that is raised while it is watched is reported to its watcher, unless that
\* is removed first: no mask change loses it.
RaisedIsReported ==
    \A w \in SigWatchers :
      (reg[w] = "live" /\ w \in pending \cap sigmask) ~> (bw[w].active \/ reg[w] # "live")

(* The inductive invariant behind the safety properties.                   *)

Unoccupied(w) == bw[w].queued = 0 /\ ~bw[w].active

\* Only registered watchers have events, and one that waits to be deleted by its handler
\* has its handler running until it is.
EventsRegistered ==
    /\ OneOutstanding
    /\ \A w \in Watchers :
         /\ ~Unoccupied(w) => reg[w] \in {"reserved", "live", "removing"}
         /\ bw[w].deleteme => reg[w] = "dying" \/ (reg[w] = "live" /\ bw[w].active)

\* A signal is read only for a watcher whose removal has not begun, and once at a time.
SignalsOwned ==
    /\ \A s \in SigWatchers :
         /\ reg[s] \notin {"reserved", "disarmed"}
         /\ s \in fdmask => reg[s] = "live" /\ ~bw[s].deleteme
         /\ s \in sigmask => s \in fdmask /\ Unoccupied(s)
         /\ poll = "reading" /\ s \in pending \cap fdmask => s \in sigmask
    /\ poll # "reading" => fdmask = sigmask

\* An entry of child_waiters leads to a watcher that has no event yet and is in use for
\* no other child.
EntriesOwned ==
    \A p \in Pids, w \in ChildWatchers : watching[p] = w =>
        reg[w] = "live" /\ ~bw[w].deleteme /\ Unoccupied(w) /\ cw[w].pid = p

EventsInv == TypeOK /\ EventsRegistered /\ SignalsOwned /\ EntriesOwned

\* The entry is for the process that the watcher was last given, and so is an event.
StatusOwned ==
    /\ \A p \in Pids, w \in ChildWatchers : watching[p] = w => cw[w].gen = proc[p].gen
    /\ \A w \in ChildWatchers : ~Unoccupied(w) => cw[w].status = cw[w].gen

\* Entries are for unreaped children, and a watcher started with fork() has one until the
\* termination has been seen.
ForkedIsWatched ==
    /\ \A p \in Pids : watching[p] # None => proc[p].st # "none"
    /\ \A w \in ChildWatchers : cw[w].own /\ ~cw[w].termd =>
         cw[w].pid \in Pids /\ watching[cw[w].pid] = w /\ cw[w].gen = proc[cw[w].pid].gen

\* No poll goes on while a signal is about to be sent, so that the child that was found
\* not to have been reaped stays so, whatever is done with the watcher meanwhile.
TargetHeld ==
    sending # None =>
      /\ poll = "idle"
      /\ LET c == cw[sending] IN
           c.pid \in Pids /\ proc[c.pid].st # "none" /\ proc[c.pid].gen = c.gen

SignalledInv == TypeOK /\ ForkedIsWatched /\ TargetHeld /\ SignalsOwnChild
=============================================================================
