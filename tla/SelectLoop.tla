----------------------------- MODULE SelectLoop -----------------------------
(***************************************************************************)
(* The select() and pselect() backends (include/dasynq/select.h, pselect.h) *)
(* and the POSIX signal mechanism they share (include/dasynq/signal.h),    *)
(* under event_loop (include/dasynq.h).                                    *)
(*                                                                         *)
(* The poller copies the descriptor sets under the base lock and then      *)
(* waits without it, with the watched signals unmasked.  The handler of    *)
(* such a signal jumps back to before the wait.  A watch that is added or  *)
(* re-armed during the wait is not in the copies, so the wait has to be    *)
(* interrupted.                                                            *)
(*                                                                         *)
(* One file descriptor is shown: it is in read_set or write_set if "in" or *)
(* "out" is in fdset.  It has a plain watcher for one direction, or two    *)
(* for different ones, or a bidirectional watcher.  A signal watcher       *)
(* stands for the signal it watches.  A step under the base lock is one    *)
(* action.  The two classes differ in how signals are unmasked; timers,    *)
(* which bound the wait, are left out (module Timers), and so is REMOVED   *)
(* (module EventLoop).                                                     *)
(***************************************************************************)
EXTENDS Integers, FiniteSets

CONSTANTS
    FdWatchers,
    BidiWatchers,
    SigWatchers,
    Backends,       \* subset of {"select", "pselect"}
    Readiness,      \* the sets of directions that the descriptor may be ready in
    MultiThreaded,  \* do other threads use the loop during a poll?
    Client,         \* what client and system do: subset of Habits
    None

\* rearm_removing: a handler that runs while its watcher is being deregistered
\*     returns REARM;
\* one_way: a bidirectional watcher is registered for one direction and the other is
\*     enabled later;
\* remove_polling: a signal watcher is removed while another thread's poll has its
\*     signal unmasked;
\* raise_again: a signal is raised again before the pselect() poll that received it ends;
\* add_disabled: a plain watcher is registered disabled.
Habits == {"rearm_removing", "one_way", "remove_polling", "raise_again", "add_disabled"}

ASSUME SelectLoopAssumption ==
    /\ Backends \subseteq {"select", "pselect"} /\ MultiThreaded \in BOOLEAN
    /\ Client \subseteq Habits /\ Readiness \subseteq SUBSET {"in", "out"}
    /\ FdWatchers \cap BidiWatchers = {}
    /\ (FdWatchers \cup BidiWatchers) \cap SigWatchers = {}
    /\ None \notin FdWatchers \cup BidiWatchers \cup SigWatchers
    /\ ((FdWatchers \cup BidiWatchers) \X {"in", "out"}) \cap SigWatchers = {}

Dirs == {"in", "out"}
Watched == FdWatchers \cup BidiWatchers
Watchers == Watched \cup SigWatchers
Units == (Watched \X Dirs) \cup SigWatchers     \* what has a place in the event queue

WatcherOf(u) == IF u \in SigWatchers THEN u ELSE u[1]

VARIABLES
    backend,        \* the class in use
    fdset,          \* directions whose set has the descriptor
    udata,          \* [Dirs -> Watched \cup {None}]: rd_udata, wr_udata
    active,         \* signals with an enabled watch, by active_sigmask
    handled,        \* signals whose handler is installed
    sig_userdata,   \* signals with a watcher
    poll,           \* where the poller is, see TypeOK
    do_wait,
    long_poll_running,
    copied,         \* read_set_c and write_set_c
    unmasked,       \* signals that the wait lets through (for pselect: poll_sigmask)
    leaked,         \* signals the polling thread has left unmasked after a poll
    cap,            \* the signal in siginfo_cap
    pipe,           \* the interrupt channel is readable
    piped,          \* and was found so
    raised,         \* pending signals
    ready,          \* directions in which the descriptor is ready
    reg,            \* [Watchers -> state of the registration, see TypeOK]
    units,          \* the units of registered watchers, but for removed halves
    queued,         \* [Units -> places in the event queue]
    running         \* units whose handler runs

fdVars   == <<fdset, udata>>
sigVars  == <<active, handled, sig_userdata>>
pollVars == <<poll, do_wait, long_poll_running, copied, unmasked, leaked, cap, piped>>
vars == <<backend, fdVars, sigVars, pollVars, pipe, raised, ready, reg, units, queued,
          running>>

Init ==
    /\ backend \in Backends
    /\ fdset = {} /\ udata = [d \in Dirs |-> None]
    /\ active = {} /\ handled = {} /\ sig_userdata = {}
    /\ poll = "idle" /\ do_wait = FALSE /\ long_poll_running = FALSE
    /\ copied = {} /\ unmasked = {} /\ leaked = {} /\ cap = None
    /\ pipe = FALSE /\ piped = FALSE
    /\ raised = {} /\ ready = {}
    /\ reg = [w \in Watchers |-> "out"]
    /\ units = {}
    /\ queued = [u \in Units |-> 0]
    /\ running = {}

-----------------------------------------------------------------------------
(* The system.                                                             *)

Raise(s) ==
    /\ s \notin raised
    /\ backend = "pselect" /\ s \in unmasked /\ (s \notin active \/ poll = "jumped")
         => "raise_again" \in Client
    /\ raised' = raised \cup {s}
    /\ UNCHANGED <<backend, fdVars, sigVars, pollVars, pipe, ready, reg, units, queued,
                   running>>

ReadyChange(R) ==
    /\ R # ready /\ ready' = R
    /\ UNCHANGED <<backend, fdVars, sigVars, pollVars, pipe, raised, reg, units, queued,
                   running>>

-----------------------------------------------------------------------------
(* Calls of the client and of handlers.                                    *)

InClient == MultiThreaded \/ poll = "idle"

AttentionClaimed == \E w \in Watchers : reg[w] = "attn"

\* Mutant: only a poll that still has to begin its wait is interrupted.
interrupt_before_wait ==
    pipe' = (pipe \/ (MultiThreaded /\ poll = "copied"))

\* interrupt_if_necessary(): written if any thread holds the poll-wait/attention lock.
interrupt_if_necessary ==
    pipe' = (pipe \/ (MultiThreaded /\ (poll # "idle" \/ AttentionClaimed)))

\* The client watches a direction of the descriptor once, and a bidirectional watcher
\* has it for itself.
MayRegister(w, D) ==
    \A v \in Watched : reg[v] # "out" =>
        v \notin BidiWatchers /\ w \notin BidiWatchers /\ \A d \in D : <<v, d>> \notin units

DirsOf(w) == IF w \in BidiWatchers
             THEN IF "one_way" \in Client THEN SUBSET Dirs \ {{}} ELSE {Dirs}
             ELSE {{d} : d \in Dirs}

\* register_fd() with add_fd_watch(), which enables the watch in any case, or
\* add_bidi_fd_watch().
register_fd(w, D, enabled) ==
    /\ InClient /\ reg[w] = "out" /\ D \in DirsOf(w) /\ MayRegister(w, D)
    /\ enabled \/ (w \in FdWatchers /\ "add_disabled" \in Client)
    /\ reg' = [reg EXCEPT ![w] = "live"]
    /\ units' = units \cup ({w} \X (IF w \in BidiWatchers THEN Dirs ELSE D))
    /\ fdset' = fdset \cup D
    /\ udata' = [d \in Dirs |-> IF d \in D THEN w ELSE udata[d]]
    /\ IF enabled THEN interrupt_if_necessary ELSE UNCHANGED pipe
    /\ UNCHANGED <<backend, sigVars, pollVars, raised, ready, queued, running>>

\* set_enabled(), set_in_watch_enabled() or set_out_watch_enabled().  A watch is not
\* enabled while its event is queued or handled.
set_enabled(w, d, enable) ==
    LET u == <<w, d>> IN
    /\ InClient /\ reg[w] = "live" /\ u \in units
    /\ enable => queued[u] = 0 /\ u \notin running
    /\ fdset' = IF enable THEN fdset \cup {d} ELSE fdset \ {d}
    /\ queued' = IF enable THEN queued ELSE [queued EXCEPT ![u] = 0]
    /\ IF enable THEN interrupt_if_necessary ELSE UNCHANGED pipe
    /\ UNCHANGED <<backend, udata, sigVars, pollVars, raised, ready, reg, units, running>>

\* Mutant: only the read watch of a bidirectional watcher is removed.
deregister_fd_half(w) ==
    LET D == {d \in Dirs : <<w, d>> \in units} IN
    /\ InClient /\ reg[w] = "live"
    /\ reg' = [reg EXCEPT ![w] = "removing"]
    /\ IF w \in BidiWatchers
       THEN fdset' = fdset \ {"in"} /\ UNCHANGED udata
       ELSE /\ fdset' = fdset \ D
            /\ udata' = [d \in Dirs |-> IF d \in D THEN None ELSE udata[d]]
    /\ UNCHANGED <<backend, sigVars, pollVars, pipe, raised, ready, units, queued, running>>

\* The first part of deregister(): remove_fd_watch(), or remove_bidi_fd_watch(), which
\* keeps the user data.
deregister_fd(w) ==
    LET D == {d \in Dirs : <<w, d>> \in units} IN
    /\ InClient /\ reg[w] = "live"
    /\ reg' = [reg EXCEPT ![w] = "removing"]
    /\ IF w \in BidiWatchers
       THEN fdset' = {} /\ UNCHANGED udata
       ELSE /\ fdset' = fdset \ D
            /\ udata' = [d \in Dirs |-> IF d \in D THEN None ELSE udata[d]]
    /\ UNCHANGED <<backend, sigVars, pollVars, pipe, raised, ready, units, queued, running>>

add_signal_watch(s) ==
    /\ InClient /\ reg[s] = "out"
    /\ reg' = [reg EXCEPT ![s] = "live"]
    /\ units' = units \cup {s}
    /\ active' = active \cup {s}
    /\ handled' = handled \cup {s}
    /\ sig_userdata' = sig_userdata \cup {s}
    /\ interrupt_if_necessary
    /\ UNCHANGED <<backend, fdVars, pollVars, raised, ready, queued, running>>

\* The first part of deregister(): remove_signal_watch().
deregister_signal(s) ==
    /\ InClient /\ reg[s] = "live"
    /\ s \in unmasked => "remove_polling" \in Client
    /\ reg' = [reg EXCEPT ![s] = "removing"]
    /\ active' = active \ {s}
    /\ handled' = handled \ {s}
    /\ sig_userdata' = sig_userdata \ {s}
    /\ UNCHANGED <<backend, fdVars, pollVars, pipe, raised, ready, units, queued, running>>

\* get_attn_lock(): the first claim behind a long poll interrupts it.
get_attn_lock(w) ==
    /\ reg[w] = "removing"
    /\ reg' = [reg EXCEPT ![w] = "attn"]
    /\ pipe' = (pipe \/ (long_poll_running /\ ~AttentionClaimed))
    /\ UNCHANGED <<backend, fdVars, sigVars, pollVars, raised, ready, units, queued, running>>

UnitsOf(w) == {u \in Units : WatcherOf(u) = w}

\* The last part, with the attention lock: issue_delete().  What a handler is running
\* for is left to that handler.
issue_delete(w) ==
    LET busy == UnitsOf(w) \cap running IN
    /\ poll = "idle" /\ reg[w] = "attn"
    /\ reg' = [reg EXCEPT ![w] = IF busy = {} THEN "out" ELSE "doomed"]
    /\ units' = (units \ UnitsOf(w)) \cup busy
    /\ queued' = [u \in Units |-> IF u \in UnitsOf(w) \ busy THEN 0 ELSE queued[u]]
    /\ UNCHANGED <<backend, fdVars, sigVars, pollVars, pipe, raised, ready, running>>

-----------------------------------------------------------------------------
(* Dispatch.                                                               *)

dispatch(u) ==
    /\ InClient /\ queued[u] > 0
    /\ queued' = [queued EXCEPT ![u] = @ - 1]
    /\ running' = running \cup {u}
    /\ UNCHANGED <<backend, fdVars, sigVars, pollVars, pipe, raised, ready, reg, units>>

Rearms == {"REARM", "NOOP", "DISARM", "REQUEUE", "REMOVE"}

\* process_fd_rearm(), process_primary_rearm(), process_secondary_rearm() on a backend
\* with separate read and write watches.
fd_rearm(d, e) ==
    /\ fdset' = CASE e = "REARM" -> fdset \cup {d}
                  [] e \in {"DISARM", "REMOVE"} -> fdset \ {d}
                  [] OTHER -> fdset
    /\ udata' = IF e = "REMOVE" THEN [udata EXCEPT ![d] = None] ELSE udata
    /\ UNCHANGED sigVars

\* process_signal_rearm(): rearm_signal_watch_nolock() installs no handler.
signal_rearm(s, e) ==
    /\ active' = CASE e = "REARM"  -> active \cup {s}
                   [] e = "REMOVE" -> active \ {s}
                   [] OTHER        -> active
    /\ sig_userdata' = CASE e = "REARM"  -> sig_userdata \cup {s}
                         [] e = "REMOVE" -> sig_userdata \ {s}
                         [] OTHER        -> sig_userdata
    /\ handled' = IF e = "REMOVE" THEN handled \ {s} ELSE handled
    /\ UNCHANGED fdVars

\* The handler has returned.  A handler does not remove a watcher that is being
\* deregistered.
handler_return(u, r) ==
    LET w == WatcherOf(u)
        e == IF reg[w] = "doomed" THEN "REMOVE" ELSE r
    IN
    /\ InClient /\ u \in running
    /\ reg[w] \in {"removing", "attn"} => /\ r # "REMOVE"
                                          /\ r = "REARM" => "rearm_removing" \in Client
    /\ e = "REMOVE" /\ u \in unmasked => "remove_polling" \in Client
    /\ running' = running \ {u}
    /\ IF u \in SigWatchers THEN signal_rearm(u, e) ELSE fd_rearm(u[2], e)
    /\ queued' = IF e = "REQUEUE" THEN [queued EXCEPT ![u] = @ + 1] ELSE queued
    /\ IF e \in {"REARM", "REQUEUE"} THEN interrupt_if_necessary ELSE UNCHANGED pipe
    /\ units' = IF e = "REMOVE" THEN units \ {u} ELSE units
    /\ reg' = IF UnitsOf(w) \cap units' = {} THEN [reg EXCEPT ![w] = "out"] ELSE reg
    /\ UNCHANGED <<backend, pollVars, raised, ready>>

-----------------------------------------------------------------------------
(* pull_events(), by the thread that has the poll-wait lock.               *)

\* The lock is taken, by run() to wait, by poll() not to; then, under the base lock, the
\* sets are copied, and for pselect() the signal mask as well.
pull_begin(wait) ==
    /\ poll = "idle" /\ ~AttentionClaimed
    /\ poll' = "copied" /\ do_wait' = wait /\ long_poll_running' = wait
    /\ copied' = fdset
    /\ unmasked' = IF backend = "pselect" THEN leaked \cup active ELSE unmasked
    /\ UNCHANGED <<backend, fdVars, sigVars, leaked, cap, piped, pipe, raised, ready, reg,
                   units, queued, running>>

\* The wait begins; for select() the signals are unmasked first.
wait_begin ==
    /\ poll = "copied" /\ poll' = "waiting"
    /\ unmasked' = IF backend = "select" THEN leaked \cup active ELSE unmasked
    /\ UNCHANGED <<backend, fdVars, sigVars, do_wait, long_poll_running, copied, leaked,
                   cap, piped, pipe, raised, ready, reg, units, queued, running>>

\* Where a signal may interrupt pull_events(): with select() also after the wait, when
\* the copies have been overwritten.
Landing == IF backend = "select" THEN {"waiting", "returned"} ELSE {"waiting"}

\* signal_handler(): siglongjmp() restores the mask that sigsetjmp() has saved.
signal_handler(s) ==
    /\ poll \in Landing /\ s \in raised \cap unmasked
    /\ raised' = raised \ {s}
    /\ cap' = s
    /\ poll' = "jumped"
    /\ unmasked' = IF backend = "select" THEN leaked ELSE unmasked
    /\ UNCHANGED <<backend, fdVars, sigVars, do_wait, long_poll_running, copied, leaked,
                   piped, pipe, ready, reg, units, queued, running>>

\* process_signal(): the watch is disabled, by active_sigmask; the mask of the pselect()
\* that follows keeps the signal unmasked, as sigdelset() is applied to it.
process_signal ==
    /\ poll = "jumped" /\ poll' = "copied"
    /\ do_wait' = FALSE
    /\ IF cap \in sig_userdata
       THEN /\ queued' = [queued EXCEPT ![cap] = @ + 1]
            /\ active' = active \ {cap}
       ELSE UNCHANGED <<queued, active>>
    /\ cap' = None
    /\ UNCHANGED <<backend, fdVars, handled, sig_userdata, long_poll_running, copied,
                   unmasked, leaked, piped, pipe, raised, ready, reg, units, running>>

\* select() or pselect() returns.  An unmasked pending signal comes first, unless
\* pselect() finds something ready.
wait_return ==
    LET found == copied \cap ready IN
    /\ poll = "waiting" /\ poll' = "returned"
    /\ found # {} \/ pipe \/ ~do_wait
    /\ raised \cap unmasked = {} \/ (backend = "pselect" /\ (found # {} \/ pipe))
    /\ copied' = found
    /\ piped' = pipe
    /\ UNCHANGED <<backend, fdVars, sigVars, do_wait, long_poll_running, unmasked, leaked,
                   cap, pipe, raised, ready, reg, units, queued, running>>

\* Mutant: the signals are not masked again after the wait.
mask_signals_not ==
    /\ poll = "returned" /\ poll' = "reporting"
    /\ leaked' = IF backend = "select" THEN unmasked ELSE leaked
    /\ unmasked' = {}
    /\ UNCHANGED <<backend, fdVars, sigVars, do_wait, long_poll_running, copied, cap,
                   piped, pipe, raised, ready, reg, units, queued, running>>

\* The signals are masked again: pselect() restores the mask, while SIG_BLOCK after
\* select() takes what active_sigmask is by now.
mask_signals ==
    /\ poll = "returned" /\ poll' = "reporting"
    /\ leaked' = IF backend = "select" THEN unmasked \ active ELSE leaked
    /\ unmasked' = {}
    /\ UNCHANGED <<backend, fdVars, sigVars, do_wait, long_poll_running, copied, cap,
                   piped, pipe, raised, ready, reg, units, queued, running>>

\* process_events(), if anything was found, and the release of the lock.
process_events ==
    LET D == {d \in copied \cap fdset : udata[d] # None} IN
    /\ poll = "reporting" /\ poll' = "idle" /\ long_poll_running' = FALSE
    /\ queued' = [u \in Units |->
                    IF u \in {<<udata[d], d>> : d \in D} THEN queued[u] + 1 ELSE queued[u]]
    /\ fdset' = fdset \ D
    /\ pipe' = (pipe /\ ~piped)
    /\ copied' = {} /\ piped' = FALSE /\ do_wait' = FALSE
    /\ UNCHANGED <<backend, udata, sigVars, unmasked, leaked, cap, raised, ready, reg, units,
                   running>>

Poll == \E wait \in BOOLEAN : pull_begin(wait)

PullStep ==
    \/ wait_begin \/ process_signal \/ wait_return \/ mask_signals
    \/ process_events
    \/ \E s \in SigWatchers : signal_handler(s)

Next ==
    \/ Poll \/ PullStep
    \/ \E R \in Readiness : ReadyChange(R)
    \/ \E w \in Watched :
         \/ \E D \in SUBSET Dirs, b \in BOOLEAN : register_fd(w, D, b)
         \/ \E d \in Dirs, b \in BOOLEAN : set_enabled(w, d, b)
         \/ deregister_fd(w)
    \/ \E s \in SigWatchers : Raise(s) \/ add_signal_watch(s) \/ deregister_signal(s)
    \/ \E w \in Watchers : get_attn_lock(w) \/ issue_delete(w)
    \/ \E u \in Units : dispatch(u) \/ \E r \in Rearms : handler_return(u, r)

Spec == Init /\ [][Next]_vars

(* Some thread polls for ever, and a deregistration that has begun goes on. *)
(* Deregistrations that never cease do not keep the poller out: it waits   *)
(* in wait_waitqueue and gets the lock when the attention queue is empty.  *)
FairSpec ==
    /\ Spec /\ SF_vars(Poll) /\ WF_vars(PullStep)
    /\ \A w \in Watchers : WF_vars(get_attn_lock(w)) /\ WF_vars(issue_delete(w))

-----------------------------------------------------------------------------
(* Properties.                                                             *)

\* The type invariant.
TypeOK ==
    /\ backend \in Backends
    /\ fdset \in SUBSET Dirs /\ udata \in [Dirs -> Watched \cup {None}]
    /\ active \in SUBSET SigWatchers /\ handled \in SUBSET SigWatchers
    /\ sig_userdata \in SUBSET SigWatchers
    /\ poll \in {"idle", "copied", "waiting", "jumped", "returned", "reporting"}
    /\ do_wait \in BOOLEAN /\ long_poll_running \in BOOLEAN /\ copied \in SUBSET Dirs
    /\ unmasked \in SUBSET SigWatchers /\ leaked \in SUBSET SigWatchers
    /\ cap \in SigWatchers \cup {None} /\ pipe \in BOOLEAN /\ piped \in BOOLEAN
    /\ raised \in SUBSET SigWatchers /\ ready \in SUBSET Dirs
    /\ reg \in [Watchers -> {"out", "live", "removing", "attn", "doomed"}]
    /\ units \in SUBSET Units /\ running \in SUBSET Units
    /\ queued \in [Units -> Nat]

\* A waiting poller does not know of every enabled watch, as its sets and its mask are
\* copies; if it does not, its wait is about to be interrupted.
NoStrandedWatch ==
    poll = "waiting" /\ do_wait =>
        pipe \/ (fdset \subseteq copied /\ active \subseteq unmasked)

\* A watcher has one event at a time, queued or with its handler: queue_watcher() puts
\* its one heap handle into the queue.
OneOutstanding ==
    \A u \in Units : queued[u] + (IF u \in running THEN 1 ELSE 0) <= 1

\* The sets lead to registered watchers only: an enabled direction has user data, and
\* that of a watcher which watch_removed() has not been called for.  Otherwise a deleted
\* watcher is queued, or select() returns at once for a descriptor nobody is told of.
EnabledIsOwned ==
    /\ \A d \in fdset : udata[d] # None /\ reg[udata[d]] # "out"
    /\ \A s \in active : reg[s] # "out"

Unmasked == IF poll \in Landing THEN unmasked ELSE leaked

\* A watched signal gets through only where pull_events() can receive it: elsewhere
\* signal_handler() jumps into a function that has returned, and without its handler
\* the signal terminates the process.
SignalsContained ==
    \A s \in Unmasked : poll \in Landing /\ s \in handled

\* A direction that is ready and enabled is found out, and so is a signal that is raised
\* while it is watched, whatever other threads add, enable, re-arm or remove during the
\* wait.  A poll does not end while signals keep arriving, and pselect() may prefer
\* descriptors to signals.
WatchedIsReported ==
    /\ []<>(poll = "jumped") \/ \A d \in Dirs : []<>(d \notin ready \cap fdset)
    /\ backend = "select" => \A s \in SigWatchers : []<>(s \notin raised \cap active)

(* The inductive invariant behind these properties.                        *)

\* Only what is registered is queued or handled; a signal watcher has one unit.
UnitsRegistered ==
    /\ \A u \in units : reg[WatcherOf(u)] # "out"
    /\ \A s \in SigWatchers : reg[s] # "out" => s \in units
    /\ \A u \in Units : queued[u] > 0 \/ u \in running => u \in units

\* A direction of the descriptor belongs to one watcher, to which the user data leads.
FdOwned ==
    /\ \A w, v \in Watched, d \in Dirs : <<w, d>> \in units /\ <<v, d>> \in units => v = w
    /\ \A b \in BidiWatchers, v \in Watched : reg[b] # "out" /\ reg[v] # "out" => v = b
    /\ \A w \in Watched, d \in Dirs : reg[w] = "live" /\ <<w, d>> \in units => udata[d] = w
    /\ \A d \in fdset : /\ udata[d] \in Watched /\ reg[udata[d]] = "live"
                        /\ <<udata[d], d>> \in units

\* A signal has user data and an installed handler while its watcher is registered and
\* its removal has not begun, and gets through only then.
SigOwned ==
    /\ sig_userdata = {s \in SigWatchers : reg[s] = "live"}
    /\ handled = sig_userdata /\ active \subseteq handled
    /\ leaked = {} /\ unmasked \subseteq handled
    /\ backend = "select" => /\ unmasked \subseteq active
                             /\ poll \notin Landing => unmasked = {}

Unoccupied(u) == queued[u] = 0 /\ u \notin running

\* What is enabled, or has just been received, is neither queued nor being handled.
EnabledIsIdle ==
    /\ OneOutstanding
    /\ \A d \in fdset : Unoccupied(<<udata[d], d>>)
    /\ \A s \in active : Unoccupied(s)
    /\ backend = "pselect" => raised \cap unmasked \subseteq active
    /\ poll = "jumped" => /\ cap \in SigWatchers /\ Unoccupied(cap)
                          /\ backend = "pselect" => cap \notin raised \cap unmasked

SelectInv == TypeOK /\ UnitsRegistered /\ FdOwned /\ SigOwned /\ EnabledIsIdle

\* NoStrandedWatch, from the time when the sets are copied.
CopiesCurrent ==
    poll \in {"copied", "waiting"} /\ do_wait =>
        \/ pipe
        \/ /\ fdset \subseteq copied
           /\ active \subseteq unmasked \/ (backend = "select" /\ poll = "copied")
=============================================================================
