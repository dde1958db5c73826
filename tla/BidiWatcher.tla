---------------------------- MODULE BidiWatcher -----------------------------
(***************************************************************************)
(* A bidirectional fd watcher (bidi_fd_watcher in include/dasynq.h) on the *)
(* epoll backend, where both directions share one entry of the epoll set.  *)
(* Its two halves, the primary "in" watcher and the secondary out_watcher, *)
(* are queued, dispatched and re-armed on their own, perhaps on different  *)
(* threads, and removed together.                                          *)
(*                                                                         *)
(* A critical section of the base lock is one action.  The poll-wait/      *)
(* attention lock is the mutual-exclusion lock that LoopLock promises.     *)
(* Interrupts to a sleeping poller are EventLoop's subject, and so is the  *)
(* null user data of a disabled entry: it is not reported here.  A client  *)
(* does not remove a watcher twice: see callback_returns.                  *)
(***************************************************************************)
EXTENDS Integers, FiniteSets

CONSTANTS
    Hangup,         \* the descriptor may report a hang-up alone
    DisablesInPoll, \* halves are disabled also while a poller has events in hand
    Threads         \* number of threads that poll and run handlers

ASSUME BidiAssumption ==
    /\ Hangup \in BOOLEAN /\ DisablesInPoll \in BOOLEAN
    /\ Threads \in Nat \ {0}

VARIABLES
    reg,            \* "none", "live" or, once its removal has begun, "dying"
    emulatefd,      \* epoll refused the descriptor (a regular file)
    watch_flags,    \* SUBSET (Halves \cup {"multi"}); "multi" is multi_watch
    entry, events,  \* the epoll entry, and what it is armed for while "set"
    batch,          \* flags reported to the poller and not yet processed
    polling,        \* a thread is in pull_events(), with the attention lock
    event_queue,    \* [Halves -> Nat]: entries in the event queue
    handles,        \* prepared less released handles, of the last registration
    active, deleteme,   \* SUBSET Halves
    removed,        \* SUBSET Halves: read_removed and write_removed
    dereg,          \* deregister() is before its issue_delete()
    removing        \* post_dispatch() is removing the watcher

epollVars   == <<entry, events>>
pollVars    == <<batch, polling>>
queueVars   == <<event_queue, handles>>
handlerVars == <<active, deleteme, removed, removing>>
vars == <<reg, emulatefd, watch_flags, epollVars, pollVars, queueVars, handlerVars, dereg>>

Halves == {"in", "out"}

Rearms == {"REARM", "DISARM", "NOOP", "REMOVE", "REQUEUE"}

Init ==
    /\ reg = "none"
    /\ emulatefd = FALSE /\ watch_flags = {}
    /\ entry = "none" /\ events = {}
    /\ batch = {} /\ polling = FALSE
    /\ event_queue = [h \in Halves |-> 0] /\ handles = 0
    /\ active = {} /\ deleteme = {} /\ removed = {}
    /\ dereg = FALSE /\ removing = FALSE

-----------------------------------------------------------------------------
(* Pieces shared by the operations.                                        *)

\* Threads at work: each polls, or runs one handler to its end.
Busy == Cardinality(active) + (IF polling THEN 1 ELSE 0) + (IF removing THEN 1 ELSE 0)

enqueue(hs) == [h \in Halves |-> event_queue[h] + IF h \in hs THEN 1 ELSE 0]

dequeue(hs) ==
    [h \in Halves |-> IF h \in hs /\ event_queue[h] > 0 THEN event_queue[h] - 1
                      ELSE event_queue[h]]

\* Change the entry to report evs once; no entry is created.
enable_fd_watch(evs) ==
    IF entry = "none" THEN UNCHANGED epollVars ELSE entry' = "set" /\ events' = evs

disable_fd_watch ==
    IF entry = "none" THEN UNCHANGED epollVars ELSE entry' = "null" /\ events' = {}

\* set_fd_enabled_nolock() with the directions in fl, disabled if there are none.
set_fd_enabled(fl) ==
    IF fl \cap Halves # {} THEN enable_fd_watch(fl \cap Halves) ELSE disable_fd_watch

\* Clients do not enable a half whose handler may be running or about to.
MayEnable(h) ==
    h \notin active /\ event_queue[h] = 0 /\ h \notin batch /\ h \notin removed

MayDisable == DisablesInPoll \/ batch = {}

-----------------------------------------------------------------------------
(* Client operations.                                                      *)

register_fd(flags, refused) ==
    /\ reg = "none"
    /\ reg' = "live"
    /\ emulatefd' = refused
    /\ handles' = 2
    /\ active' = {} /\ deleteme' = {} /\ removed' = {}
    /\ IF refused
       THEN /\ watch_flags' = {"multi"}
            /\ event_queue' = enqueue(flags)
            /\ UNCHANGED epollVars
       ELSE /\ watch_flags' = flags \cup {"multi"}
            /\ entry' = "set" /\ events' = flags
            /\ UNCHANGED event_queue
    /\ UNCHANGED <<pollVars, dereg, removing>>

\* set_in_watch_enabled() and set_out_watch_enabled().
set_watch_enabled(h, b) ==
    LET flags == IF b THEN watch_flags \cup {h} ELSE watch_flags \ {h} IN
    /\ reg = "live"
    /\ IF b THEN MayEnable(h) ELSE MayDisable
    /\ IF emulatefd
       THEN /\ watch_flags' = IF b THEN watch_flags ELSE flags
            /\ UNCHANGED epollVars
       ELSE watch_flags' = flags /\ set_fd_enabled(flags)
    /\ event_queue' = CASE ~b -> dequeue({h})
                        [] b /\ emulatefd /\ flags # watch_flags -> enqueue({h})
                        [] OTHER -> event_queue
    /\ UNCHANGED <<reg, emulatefd, pollVars, handles, handlerVars, dereg>>

\* For an entry in the epoll set, an event that is queued stays queued.
set_watches(new) ==
    /\ reg = "live"
    /\ \A h \in new : MayEnable(h)
    /\ new # Halves => MayDisable
    /\ IF emulatefd
       THEN /\ watch_flags' = watch_flags \cap (new \cup {"multi"})
            /\ event_queue' = [h \in Halves |->
                                  IF h \in new
                                  THEN (IF h \in watch_flags THEN event_queue ELSE enqueue({h}))[h]
                                  ELSE dequeue({h})[h]]
            /\ UNCHANGED epollVars
       ELSE /\ watch_flags' = (watch_flags \ Halves) \cup new
            /\ enable_fd_watch(new)
            /\ UNCHANGED event_queue
    /\ UNCHANGED <<reg, emulatefd, pollVars, handles, handlerVars, dereg>>

\* deregister(): remove_fd_watch(), without any lock...
deregister ==
    /\ reg = "live"
    /\ reg' = "dying"
    /\ entry' = "none" /\ events' = {}
    /\ dereg' = TRUE
    /\ UNCHANGED <<emulatefd, watch_flags, pollVars, queueVars, handlerVars>>

\* Mutant: only the primary's handler is waited for.
left_to_primary == active \cap {"in"}

\* The halves whose removal is left to their running handlers.
left_to_handlers == active

\* Mutant: deregistration does not wait for the attention lock.
issue_delete_unlocked ==
    /\ dereg
    /\ dereg' = FALSE
    /\ handles' = handles - 2
    /\ deleteme' = deleteme \cup left_to_handlers
    /\ event_queue' = dequeue(Halves \ left_to_handlers)
    /\ removed' = removed \cup (Halves \ left_to_handlers)
    /\ reg' = IF removed' = Halves THEN "none" ELSE reg
    /\ UNCHANGED <<emulatefd, watch_flags, epollVars, pollVars, active, removing>>

\* ...and, with the attention lock, issue_delete(), which releases the primary
\* watcher's handle for each half, whether or not a handler will do so again.
issue_delete ==
    /\ dereg /\ ~polling
    /\ dereg' = FALSE
    /\ handles' = handles - 2
    /\ deleteme' = deleteme \cup left_to_handlers
    /\ event_queue' = dequeue(Halves \ left_to_handlers)
    /\ removed' = removed \cup (Halves \ left_to_handlers)
    /\ reg' = IF removed' = Halves THEN "none" ELSE reg
    /\ UNCHANGED <<emulatefd, watch_flags, epollVars, pollVars, active, removing>>

-----------------------------------------------------------------------------
(* The poller.                                                             *)

\* What epoll_wait() may report.  Being reported spends the one-shot entry.
ready == IF entry = "set" THEN events \cup (IF Hangup THEN {"err"} ELSE {}) ELSE {}

epoll_wait_events ==
    /\ batch = {} /\ (polling \/ Busy < Threads)
    /\ \E evs \in SUBSET ready : evs # {} /\ batch' = evs
    /\ polling' = TRUE
    /\ entry' = "spent" /\ events' = {}
    /\ UNCHANGED <<reg, emulatefd, watch_flags, queueVars, handlerVars, dereg>>

\* Mutant: the reported directions remain watched.
flags_left_all(flags) == watch_flags

\* Clear the reported flags; ERR_EVENTS has the value of multi_watch.
flags_left(flags) ==
    watch_flags \ (flags \cup IF "err" \in flags THEN {"multi"} ELSE {})

\* Which halves are queued for reported flags: anything but a plain "out" event
\* goes to the primary.
queued_for(flags) ==
    IF "multi" \notin watch_flags THEN {"in"}
    ELSE IF "out" \in flags THEN flags \cap Halves ELSE {"in"}

\* process_events() with receive_fd_event(): the direction that was not reported
\* is enabled again.
receive_fd_event ==
    LET multi == "multi" \in watch_flags
        left  == IF multi THEN flags_left(batch) ELSE watch_flags
    IN
    /\ batch # {}
    /\ watch_flags' = left
    /\ event_queue' = enqueue(queued_for(batch))
    /\ IF multi /\ left \cap Halves # {} THEN enable_fd_watch(left \cap Halves)
                                         ELSE UNCHANGED epollVars
    /\ batch' = {}
    /\ UNCHANGED <<reg, emulatefd, polling, handles, handlerVars, dereg>>

pull_done ==
    /\ polling /\ batch = {}
    /\ polling' = FALSE
    /\ UNCHANGED <<reg, emulatefd, watch_flags, epollVars, batch, queueVars, handlerVars, dereg>>

-----------------------------------------------------------------------------
(* Handlers.                                                               *)

dispatch(h) ==
    /\ Busy < Threads
    /\ event_queue[h] > 0
    /\ event_queue' = [event_queue EXCEPT ![h] = @ - 1]
    /\ active' = active \cup {h}
    /\ UNCHANGED <<reg, emulatefd, watch_flags, epollVars, pollVars, handles, deleteme, removed,
                   removing, dereg>>

\* Mutant: only the primary's handler can complete the removal.
is_last_primary(h) == h = "in" /\ "out" \in removed

\* Both halves are then removed, and the watcher is.
is_last(h) == Halves \ {h} \subseteq removed

\* Mutant: a removed half stays enabled.
rearm_remove_armed(h) ==
    /\ watch_flags' = watch_flags \cup {h}
    /\ IF emulatefd THEN UNCHANGED epollVars
                   ELSE enable_fd_watch((watch_flags \cup {h}) \cap Halves)

\* REMOVE of the first of the halves: stop watching its direction.  The primary
\* disables the entry if no flag at all is left, the secondary never.
rearm_remove(h) ==
    LET left == watch_flags \ {h} IN
    /\ watch_flags' = left
    /\ CASE emulatefd \/ h \notin watch_flags -> UNCHANGED epollVars
         [] OTHER -> IF h = "in" /\ left = {} THEN disable_fd_watch
                                              ELSE enable_fd_watch(left \cap Halves)

\* DISARM; the secondary leaves an entry that is armed for nothing.
rearm_disarm(h) ==
    LET left == watch_flags \ {h} IN
    /\ watch_flags' = left
    /\ CASE emulatefd -> UNCHANGED epollVars
         [] ~emulatefd /\ h = "in"  -> set_fd_enabled(left)
         [] ~emulatefd /\ h = "out" -> enable_fd_watch(left \cap Halves)

\* An emulated half is queued again by REQUEUE, by REARM and, if it was enabled
\* in the meantime, by NOOP.
requeues(h, r) ==
    r = "REQUEUE" \/ (emulatefd /\ (r = "REARM" \/ (r = "NOOP" /\ h \in watch_flags)))

\* read_ready() or write_ready() returns r: process_primary_rearm() or
\* process_secondary_rearm(), and the part of post_dispatch() under the lock.  While a
\* deregister() has not come to issue_delete(), a handler may return REMOVE for its half
\* but not for the second of the halves: that would remove the watcher once more.
callback_returns(h, r) ==
    LET e == IF h \in deleteme THEN "REMOVE" ELSE r IN
    /\ h \in active
    /\ r = "REMOVE" => reg = "live" \/ ~is_last(h)
    /\ r = "DISARM" => MayDisable
    /\ active' = active \ {h}
    /\ removed' = IF e = "REMOVE" THEN removed \cup {h} ELSE removed
    /\ removing' = (removing \/ (e = "REMOVE" /\ is_last(h)))
    /\ reg' = IF e = "REMOVE" /\ is_last(h) THEN "dying" ELSE reg
    /\ event_queue' = IF requeues(h, e) THEN enqueue({h}) ELSE event_queue
    /\ CASE e = "REMOVE" /\ ~is_last(h) -> rearm_remove(h)
         [] e = "REMOVE" /\ is_last(h) ->
                /\ entry' = "none" /\ events' = {}
                /\ watch_flags' = watch_flags \ (IF emulatefd THEN {h} \cap {"out"} ELSE {})
         [] e = "DISARM" -> rearm_disarm(h)
         [] e = "REARM" /\ ~emulatefd ->
                watch_flags' = watch_flags \cup {h}
                /\ enable_fd_watch((watch_flags \cup {h}) \cap Halves)
         [] e \in {"REARM", "NOOP"} /\ emulatefd ->
                watch_flags' = watch_flags \ {h} /\ UNCHANGED epollVars
         [] OTHER -> UNCHANGED <<watch_flags, epollVars>>
    /\ UNCHANGED <<emulatefd, pollVars, handles, deleteme, dereg>>

\* The part of post_dispatch() without the lock: both handles are released and
\* watch_removed() is called.
post_dispatch ==
    /\ removing
    /\ removing' = FALSE
    /\ handles' = handles - 2
    /\ reg' = "none"
    /\ UNCHANGED <<emulatefd, watch_flags, epollVars, pollVars, event_queue, active, deleteme, removed,
                   dereg>>

-----------------------------------------------------------------------------
ClientCall ==
    \/ \E flags \in SUBSET Halves, b \in BOOLEAN : register_fd(flags, b)
    \/ \E flags \in SUBSET Halves : set_watches(flags)
    \/ \E h \in Halves, b \in BOOLEAN : set_watch_enabled(h, b)
    \/ deregister

Polling == epoll_wait_events \/ receive_fd_event \/ pull_done

Handling(h) == dispatch(h) \/ \E r \in Rearms : callback_returns(h, r)

Next == ClientCall \/ issue_delete \/ Polling \/ post_dispatch \/ \E h \in Halves : Handling(h)

Spec == Init /\ [][Next]_vars

(* Handlers return, removals in progress go on, a poller processes what it *)
(* was given and, one-shot entries being exhausted, finishes; the lock is  *)
(* then granted to a deregistration (AttentionGranted of AttnLock).        *)
Fairness ==
    /\ WF_vars(receive_fd_event) /\ SF_vars(pull_done) /\ SF_vars(issue_delete)
    /\ WF_vars(post_dispatch)
    /\ \A h \in Halves : WF_vars(\E r \in Rearms : callback_returns(h, r))

FairSpec == Spec /\ Fairness

-----------------------------------------------------------------------------
\* Type invariant of the bidirectional watcher.
TypeOK ==
    /\ reg \in {"none", "live", "dying"} /\ emulatefd \in BOOLEAN
    /\ watch_flags \in SUBSET (Halves \cup {"multi"})
    /\ entry \in {"none", "set", "spent", "null"} /\ events \in SUBSET Halves
    /\ batch \in SUBSET (Halves \cup {"err"}) /\ polling \in BOOLEAN
    /\ event_queue \in [Halves -> Nat] /\ handles \in Int
    /\ active \in SUBSET Halves /\ deleteme \in SUBSET Halves /\ removed \in SUBSET Halves
    /\ dereg \in BOOLEAN /\ removing \in BOOLEAN

\* "Event watchers are not re-entrant", for each half: it is reported, queued or
\* being handled, and only one of these, although the other half, sharing its
\* epoll entry, is armed and disarmed at any time on another thread.
HalfOnce ==
    \A h \in Halves :
        event_queue[h] + Cardinality({h} \cap batch) + Cardinality({h} \cap active) <= 1

\* When watch_removed() has been called, because deregister() or the handlers'
\* return values removed both halves, neither half is reported, queued or being
\* handled, and the descriptor is not in the epoll set.
RemovedIsGone ==
    reg = "none" =>
        /\ entry = "none" /\ batch = {} /\ active = {} /\ ~removing
        /\ \A h \in Halves : event_queue[h] = 0

\* A half whose handler returned REMOVE is not called again while the other goes
\* on using the descriptor.
RemovedHalfIsQuiet ==
    \A h \in removed :
        reg # "none" => event_queue[h] = 0 /\ h \notin active /\ h \notin batch

\* Deregistration completes, whichever handlers are running and in whichever
\* order they return.
DeregisterCompletes == reg = "dying" ~> reg = "none"

(* The inductive invariant behind the safety properties above, for a       *)
(* descriptor that reports no hang-up alone and clients that disable no    *)
(* half while a poller has events in hand.                                 *)

\* A half is in at most one of these places, and in none of them, but for the poller's
\* hands, while its direction is watched.
OnePlace ==
    \A h \in Halves :
        /\ event_queue[h] <= 1
        /\ event_queue[h] = 1 => h \notin batch \cup active
        /\ h \in batch => h \notin active
        /\ ~emulatefd /\ h \in watch_flags => event_queue[h] = 0 /\ h \notin active

\* What has been reported is still to be cleared in watch_flags, and the entry that has
\* been armed again meanwhile will be armed again then, without it.
BatchIsWatched ==
    /\ batch \subseteq watch_flags \cap Halves
    /\ batch # {} => /\ polling /\ ~emulatefd /\ reg # "none"
                     /\ entry = "set" => \E h \in Halves : h \in watch_flags /\ h \notin batch

\* The entry is armed for watched directions only.
EntryIsWatched ==
    /\ reg # "live" \/ emulatefd => entry = "none"
    /\ entry = "set" => events \subseteq watch_flags
    /\ reg # "none" => "multi" \in watch_flags

\* Halves are removed one by one or together, and the watcher with the last of them, by
\* the deregistration or by the handler that returns last.
RemovedOnce ==
    /\ reg = "live" => /\ ~dereg /\ ~removing /\ deleteme = {} /\ removed # Halves
                       /\ ~emulatefd => watch_flags \cap removed = {}
    /\ dereg => reg = "dying" /\ ~removing /\ deleteme = {} /\ removed # Halves
    /\ removing => reg = "dying" /\ removed = Halves
    /\ reg = "dying" /\ ~dereg => \A h \in Halves : h \in removed \cup (active \cap deleteme)

BidiInv ==
    /\ TypeOK /\ OnePlace /\ BatchIsWatched /\ EntryIsWatched /\ RemovedOnce
    /\ RemovedIsGone /\ RemovedHalfIsQuiet

Contract == INSTANCE WatcherContract WITH
    Watchers   <- {"bidi"},
    registered <- IF reg = "none" THEN {} ELSE {"bidi"},
    running    <- IF active = {} THEN {} ELSE {"bidi"}

\* The contract of all watchers, where the handler runs while either half's does:
\* watch_removed() comes once, after both.
ImplementsContract == Contract!Spec
=============================================================================
