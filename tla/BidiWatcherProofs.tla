-------------------------- MODULE BidiWatcherProofs -------------------------
(***************************************************************************)
(* Proofs about the bidirectional watcher, for any number of threads, for  *)
(* a descriptor that reports no hang-up alone and clients that disable no  *)
(* half while a poller has events in hand: BidiInv is inductive.  With     *)
(* either of the two the properties fail (a bit shared by two flags, and a *)
(* report processed after the direction it is for was disabled).           *)
(***************************************************************************)
EXTENDS BidiWatcher, FiniteSetTheorems, TLAPS

USE BidiAssumption DEF Halves

-----------------------------------------------------------------------------
(* The pieces shared by the operations.                                    *)

\* What the event queue holds after halves have been queued.
LEMMA EnqueueIs ==
    ASSUME TypeOK, NEW hs
    PROVE  /\ enqueue(hs) \in [Halves -> Nat]
           /\ \A h \in Halves : enqueue(hs)[h] = IF h \in hs THEN event_queue[h] + 1
                                                            ELSE event_queue[h]
BY DEF enqueue, TypeOK

\* A half that is queued once at most is out of the queue after it has been taken out.
LEMMA DequeueIs ==
    ASSUME TypeOK, OnePlace, NEW hs
    PROVE  /\ dequeue(hs) \in [Halves -> Nat]
           /\ \A h \in Halves : dequeue(hs)[h] = IF h \in hs THEN 0 ELSE event_queue[h]
<1>1. event_queue \in [Halves -> Nat] /\ \A h \in Halves : event_queue[h] <= 1
  BY DEF TypeOK, OnePlace
<1> QED BY <1>1 DEF dequeue

\* Arming and disarming leave an entry in the epoll set, and no entry outside it.
LEMMA ArmingEffects ==
    ASSUME NEW fl, set_fd_enabled(fl) \/ enable_fd_watch(fl \cap Halves) \/ disable_fd_watch
    PROVE  \/ entry = "none" /\ UNCHANGED epollVars
           \/ entry # "none" /\ entry' = "set" /\ events' = fl \cap Halves
           \/ entry # "none" /\ entry' = "null" /\ events' = {}
BY DEF set_fd_enabled, enable_fd_watch, disable_fd_watch

-----------------------------------------------------------------------------
(* Each action keeps BidiInv.                                              *)

\* There is no watcher at first.
LEMMA InitBidi == Init => BidiInv
<1> SUFFICES ASSUME Init PROVE BidiInv
  OBVIOUS
<1>1. event_queue \in [Halves -> Nat] /\ \A h \in Halves : event_queue[h] = 0
  BY DEF Init
<1>2. TypeOK
  <2>1. emulatefd \in BOOLEAN /\ polling \in BOOLEAN /\ dereg \in BOOLEAN /\ removing \in BOOLEAN
    BY DEF Init
  <2> QED BY <1>1, <2>1 DEF Init, TypeOK
<1>3. OnePlace /\ BatchIsWatched /\ EntryIsWatched
  BY <1>1 DEF Init, OnePlace, BatchIsWatched, EntryIsWatched
<1>4. RemovedOnce /\ RemovedIsGone /\ RemovedHalfIsQuiet
  BY <1>1 DEF Init, RemovedOnce, RemovedIsGone, RemovedHalfIsQuiet
<1> QED BY <1>2, <1>3, <1>4 DEF BidiInv

\* Nothing of an earlier registration is left in the queue, reported or being handled.
LEMMA RegisterStep ==
    ASSUME BidiInv, NEW flags \in SUBSET Halves, NEW refused \in BOOLEAN,
           register_fd(flags, refused)
    PROVE  BidiInv'
<1> USE DEF BidiInv, register_fd, pollVars, epollVars
<1>1. TypeOK'
  <2>1. event_queue' \in [Halves -> Nat]
    BY EnqueueIs DEF TypeOK
  <2>2. emulatefd' \in BOOLEAN /\ polling' \in BOOLEAN /\ dereg' \in BOOLEAN /\ removing' \in BOOLEAN
    BY Zenon DEF TypeOK
  <2>3. watch_flags' \in SUBSET (Halves \cup {"multi"}) /\ events' \in SUBSET Halves
    BY DEF TypeOK
  <2>4. entry' \in {"none", "set", "spent", "null"} /\ handles' = 2
    BY DEF TypeOK
  <2> QED BY <2>1, <2>2, <2>3, <2>4 DEF TypeOK
<1>2. /\ entry = "none" /\ batch = {} /\ active = {} /\ ~removing /\ ~dereg
      /\ \A h \in Halves : event_queue[h] = 0
  BY DEF RemovedIsGone, RemovedOnce, TypeOK
<1>3. \A h \in Halves : event_queue'[h] <= 1
  BY <1>2, EnqueueIs DEF TypeOK
<1>4. OnePlace'
  BY <1>1, <1>2, <1>3 DEF TypeOK, OnePlace
<1>5. BatchIsWatched' /\ EntryIsWatched'
  BY <1>2 DEF BatchIsWatched, EntryIsWatched, TypeOK
<1>6. RemovedOnce' /\ RemovedIsGone' /\ RemovedHalfIsQuiet'
  BY <1>2 DEF RemovedOnce, RemovedIsGone, RemovedHalfIsQuiet
<1> QED BY <1>1, <1>4, <1>5, <1>6

\* Enabling relies on the client's rule not to enable a half that may be in use, and
\* disabling on there being no report that would be processed afterwards.
LEMMA SetWatchEnabledStep ==
    ASSUME BidiInv, ~DisablesInPoll, NEW h \in Halves, NEW b \in BOOLEAN,
           set_watch_enabled(h, b)
    PROVE  BidiInv'
<1> USE DEF BidiInv
<1> DEFINE flags == IF b THEN watch_flags \cup {h} ELSE watch_flags \ {h}
<1>1. /\ reg = "live" /\ UNCHANGED <<reg, emulatefd, batch, polling, handles, active, deleteme,
                                     removed, removing, dereg>>
      /\ b => h \notin active /\ event_queue[h] = 0 /\ h \notin batch /\ h \notin removed
      /\ ~b => batch = {}
      /\ IF emulatefd THEN watch_flags' = (IF b THEN watch_flags ELSE flags) /\ UNCHANGED epollVars
                      ELSE watch_flags' = flags /\ set_fd_enabled(flags)
  BY DEF set_watch_enabled, pollVars, handlerVars, MayEnable, MayDisable
<1>2. \A k \in Halves : /\ event_queue'[k] \in {0, 1}
                        /\ event_queue'[k] = 1 => event_queue[k] = 1 \/ (k = h /\ b /\ emulatefd)
  <2>1. event_queue' \in {dequeue({h}), enqueue({h}), event_queue}
    BY DEF set_watch_enabled
  <2>2. event_queue' = enqueue({h}) => (b /\ emulatefd) \/ event_queue' \in {dequeue({h}), event_queue}
    BY DEF set_watch_enabled
  <2> QED BY <1>1, <2>1, <2>2, EnqueueIs, DequeueIs DEF TypeOK, OnePlace
<1>3. TypeOK'
  <2>1. event_queue' \in [Halves -> Nat]
    BY EnqueueIs, DequeueIs DEF set_watch_enabled, TypeOK
  <2> QED BY <1>1, <2>1, ArmingEffects, ZenonT(30) DEF TypeOK, epollVars
<1>4. OnePlace'
  BY <1>1, <1>2 DEF OnePlace, TypeOK
<1>5. BatchIsWatched'
  BY <1>1 DEF BatchIsWatched, TypeOK
<1>6. EntryIsWatched'
  BY <1>1, ArmingEffects DEF EntryIsWatched, TypeOK, epollVars
<1>7. RemovedOnce' /\ RemovedIsGone' /\ RemovedHalfIsQuiet'
  BY <1>1, <1>2, ZenonT(30) DEF RemovedOnce, RemovedIsGone, RemovedHalfIsQuiet, TypeOK
<1> QED BY <1>3, <1>4, <1>5, <1>6, <1>7

\* set_watches() leaves a queued event where it is, of which the client's rule says that
\* it is of a half that is not enabled.
LEMMA SetWatchesStep ==
    ASSUME BidiInv, ~DisablesInPoll, NEW new \in SUBSET Halves, set_watches(new)
    PROVE  BidiInv'
<1> USE DEF BidiInv
<1>1. /\ reg = "live" /\ UNCHANGED <<reg, emulatefd, batch, polling, handles, active, deleteme,
                                     removed, removing, dereg>>
      /\ \A h \in new : h \notin active /\ event_queue[h] = 0 /\ h \notin batch /\ h \notin removed
      /\ new # Halves => batch = {}
      /\ watch_flags' = IF emulatefd THEN watch_flags \cap (new \cup {"multi"})
                                     ELSE (watch_flags \ Halves) \cup new
  BY DEF set_watches, pollVars, handlerVars, MayEnable, MayDisable
<1>2. batch = {}
  BY <1>1 DEF TypeOK, BatchIsWatched
<1>0. IF emulatefd THEN UNCHANGED epollVars ELSE enable_fd_watch(new)
  BY DEF set_watches
<1>3. /\ event_queue' \in [Halves -> Nat]
      /\ \A k \in Halves : /\ event_queue'[k] \in {0, 1}
                           /\ event_queue'[k] = 1 => event_queue[k] = 1 \/ (k \in new /\ emulatefd)
  <2>1. CASE ~ emulatefd
    BY <2>1 DEF set_watches, TypeOK, OnePlace
  <2>2. CASE emulatefd
    <3>1. \A k \in Halves : event_queue'[k] = IF k \in new
               THEN (IF k \in watch_flags THEN event_queue[k] ELSE enqueue({k})[k])
               ELSE dequeue({k})[k]
      BY <2>2 DEF set_watches
    <3>2. \A k \in Halves : event_queue'[k] = IF k \in new
               THEN (IF k \in watch_flags THEN event_queue[k] ELSE event_queue[k] + 1) ELSE 0
      BY <3>1, EnqueueIs, DequeueIs
    <3>3. event_queue' = [k \in Halves |-> event_queue'[k]]
      BY <2>2 DEF set_watches
    <3> QED BY <1>1, <2>2, <3>2, <3>3 DEF TypeOK, OnePlace
  <2> QED BY <2>1, <2>2
<1>4. TypeOK'
  BY <1>0, <1>1, <1>3 DEF TypeOK, epollVars, enable_fd_watch
<1>5. OnePlace'
  <2>1. ASSUME NEW k \in Halves
        PROVE  /\ event_queue'[k] = 1 => k \notin active
               /\ ~emulatefd /\ k \in watch_flags' => event_queue'[k] = 0 /\ k \notin active
    <3>1. CASE k \in new
      <4>1. k \notin active /\ event_queue[k] = 0
        BY <1>1, <3>1
      <4>2. event_queue'[k] \in {0, 1} /\ (event_queue'[k] = 1 => event_queue[k] = 1 \/ emulatefd)
        BY <1>3
      <4> QED BY <4>1, <4>2
    <3>2. CASE k \notin new
      BY <1>1, <1>3, <3>2 DEF OnePlace, TypeOK
    <3> QED BY <3>1, <3>2
  <2>2. \A k \in Halves : event_queue'[k] <= 1
    BY <1>3
  <2> QED BY <1>1, <1>2, <2>1, <2>2 DEF OnePlace
<1>6. BatchIsWatched' /\ EntryIsWatched'
  BY <1>0, <1>1, <1>2 DEF BatchIsWatched, EntryIsWatched, TypeOK, epollVars, enable_fd_watch
<1>7. RemovedOnce'
  BY <1>1 DEF RemovedOnce, TypeOK
<1>8. RemovedIsGone' /\ RemovedHalfIsQuiet'
  <2>1. \A k \in removed : event_queue[k] = 0 /\ k \notin active /\ k \notin new /\ k \in Halves
    BY <1>1 DEF RemovedHalfIsQuiet, TypeOK
  <2>2. \A k \in removed : event_queue'[k] = 0
    BY <1>3, <2>1
  <2> QED BY <1>1, <1>2, <2>1, <2>2 DEF RemovedIsGone, RemovedHalfIsQuiet
<1> QED BY <1>4, <1>5, <1>6, <1>7, <1>8

\* deregister() takes the entry out of the epoll set, without waiting for a poller that
\* has events in hand.
LEMMA DeregisterStep ==
    ASSUME BidiInv, deregister
    PROVE  BidiInv'
<1> USE DEF BidiInv, deregister, pollVars, queueVars, handlerVars
<1>1. TypeOK' /\ OnePlace'
  BY DEF TypeOK, OnePlace
<1>2. BatchIsWatched' /\ EntryIsWatched'
  BY DEF BatchIsWatched, EntryIsWatched
<1>3. RemovedOnce' /\ RemovedIsGone' /\ RemovedHalfIsQuiet'
  BY DEF RemovedOnce, RemovedIsGone, RemovedHalfIsQuiet
<1> QED BY <1>1, <1>2, <1>3

\* issue_delete() runs with the attention lock, so that nothing is in a poller's hands.
LEMMA IssueDeleteStep ==
    ASSUME BidiInv, issue_delete
    PROVE  BidiInv'
<1> USE DEF BidiInv
<1>1. /\ reg = "dying" /\ dereg /\ batch = {} /\ ~removing /\ deleteme = {} /\ entry = "none"
      /\ dereg' = FALSE /\ deleteme' = active /\ removed' = removed \cup (Halves \ active)
      /\ event_queue' = dequeue(Halves \ active)
      /\ reg' = IF removed' = Halves THEN "none" ELSE "dying"
      /\ handles' = handles - 2
      /\ UNCHANGED <<emulatefd, watch_flags, entry, events, batch, polling, active, removing>>
  BY DEF issue_delete, left_to_handlers, epollVars, pollVars, RemovedOnce, EntryIsWatched,
     BatchIsWatched
<1>2. \A h \in Halves : event_queue'[h] = IF h \in active THEN event_queue[h] ELSE 0
  BY <1>1, DequeueIs
<1>3. \A h \in Halves : event_queue'[h] = 0
  BY <1>2 DEF OnePlace, TypeOK
<1>4. TypeOK'
  <2>1. event_queue' \in [Halves -> Nat]
    BY <1>1, DequeueIs
  <2>2. emulatefd' \in BOOLEAN /\ polling' \in BOOLEAN /\ dereg' \in BOOLEAN /\ removing' \in BOOLEAN
    BY <1>1, Zenon DEF TypeOK
  <2> QED BY <1>1, <2>1, <2>2 DEF TypeOK
<1>5. OnePlace' /\ BatchIsWatched' /\ EntryIsWatched'
  BY <1>1, <1>3 DEF OnePlace, BatchIsWatched, EntryIsWatched
<1>6. removed \cap active = {}
  BY <1>1 DEF RemovedHalfIsQuiet
<1>7. RemovedOnce'
  BY <1>1, <1>6 DEF RemovedOnce, TypeOK
<1>8. RemovedIsGone' /\ RemovedHalfIsQuiet'
  BY <1>1, <1>3, <1>6 DEF RemovedIsGone, RemovedHalfIsQuiet, TypeOK
<1> QED BY <1>4, <1>5, <1>7, <1>8

\* Only watched directions are reported, and these are neither queued nor being handled.
LEMMA PollStep ==
    ASSUME BidiInv, ~Hangup, epoll_wait_events
    PROVE  BidiInv'
<1> USE DEF BidiInv
<1>1. PICK evs \in SUBSET ready : evs # {} /\ batch' = evs
  BY DEF epoll_wait_events
<1>2. /\ entry = "set" /\ evs \subseteq events /\ evs # {} /\ batch' = evs /\ batch = {}
      /\ polling' = TRUE /\ entry' = "spent" /\ events' = {}
      /\ UNCHANGED <<reg, emulatefd, watch_flags, event_queue, handles, active, deleteme, removed,
                     removing, dereg>>
  BY <1>1 DEF epoll_wait_events, ready, queueVars, handlerVars
<1>3. reg = "live" /\ ~emulatefd /\ evs \subseteq watch_flags \cap Halves
  BY <1>2 DEF EntryIsWatched, TypeOK
<1>4. TypeOK' /\ OnePlace'
  BY <1>2, <1>3 DEF TypeOK, OnePlace
<1>5. BatchIsWatched' /\ EntryIsWatched'
  BY <1>2, <1>3 DEF BatchIsWatched, EntryIsWatched
<1>6. RemovedOnce' /\ RemovedIsGone' /\ RemovedHalfIsQuiet'
  BY <1>2, <1>3 DEF RemovedOnce, RemovedIsGone, RemovedHalfIsQuiet
<1> QED BY <1>4, <1>5, <1>6

\* A report queues the halves it is for, which are then no longer watched.
LEMMA ReceiveStep ==
    ASSUME BidiInv, receive_fd_event
    PROVE  BidiInv'
<1> USE DEF BidiInv
<1>1. /\ batch # {} /\ batch \subseteq watch_flags \cap Halves /\ "multi" \in watch_flags
      /\ polling /\ ~emulatefd /\ reg # "none"
  BY DEF receive_fd_event, BatchIsWatched, EntryIsWatched
<1>2. /\ watch_flags' = watch_flags \ batch /\ event_queue' = enqueue(batch) /\ batch' = {}
      /\ UNCHANGED <<reg, emulatefd, polling, handles, active, deleteme, removed, removing, dereg>>
  <2>1. flags_left(batch) = watch_flags \ batch /\ queued_for(batch) = batch
    BY <1>1 DEF flags_left, queued_for
  <2> QED BY <1>1, <2>1 DEF receive_fd_event, handlerVars
<1>3. \/ UNCHANGED <<entry, events>> /\ (entry = "none" \/ watch_flags' \cap Halves = {})
      \/ entry # "none" /\ entry' = "set" /\ events' = watch_flags' \cap Halves
  BY <1>1, <1>2 DEF receive_fd_event, enable_fd_watch, epollVars
<1>4. \A h \in Halves : event_queue'[h] = IF h \in batch THEN 1 ELSE event_queue[h]
  BY <1>1, <1>2, EnqueueIs DEF OnePlace, TypeOK
<1>5. TypeOK'
  <2>1. event_queue' \in [Halves -> Nat]
    BY <1>2, EnqueueIs
  <2> QED BY <1>2, <1>3, <2>1 DEF TypeOK
<1>6. OnePlace'
  BY <1>1, <1>2, <1>4 DEF TypeOK, OnePlace
<1>7. BatchIsWatched' /\ EntryIsWatched'
  BY <1>1, <1>2, <1>3 DEF BatchIsWatched, EntryIsWatched
<1>8. RemovedOnce'
  BY <1>1, <1>2 DEF RemovedOnce
<1>9. RemovedIsGone' /\ RemovedHalfIsQuiet'
  BY <1>1, <1>2, <1>4 DEF RemovedIsGone, RemovedHalfIsQuiet, TypeOK
<1> QED BY <1>5, <1>6, <1>7, <1>8, <1>9

\* A poller leaves with its buffer empty.
LEMMA PullDoneStep ==
    ASSUME BidiInv, pull_done
    PROVE  BidiInv'
BY DEF BidiInv, pull_done, epollVars, queueVars, handlerVars, TypeOK, OnePlace, BatchIsWatched,
   EntryIsWatched, RemovedOnce, RemovedIsGone, RemovedHalfIsQuiet

\* A queued half goes to its handler; it has no other event.
LEMMA DispatchStep ==
    ASSUME BidiInv, NEW h \in Halves, dispatch(h)
    PROVE  BidiInv'
<1> USE DEF BidiInv
<1>1. /\ event_queue[h] = 1 /\ event_queue' = [event_queue EXCEPT ![h] = 0] /\ active' = active \cup {h}
      /\ UNCHANGED <<reg, emulatefd, watch_flags, entry, events, batch, polling, handles, deleteme,
                     removed, removing, dereg>>
  <2>1. event_queue \in [Halves -> Nat] /\ event_queue[h] > 0 /\ event_queue[h] <= 1
    BY DEF dispatch, TypeOK, OnePlace
  <2>2. event_queue[h] = 1
    BY <2>1
  <2> QED BY <2>2 DEF dispatch, epollVars, pollVars
<1>2. reg # "none" /\ h \notin removed
  BY <1>1 DEF RemovedIsGone, RemovedHalfIsQuiet
<1>3. TypeOK' /\ OnePlace'
  BY <1>1 DEF TypeOK, OnePlace
<1>4. BatchIsWatched' /\ EntryIsWatched'
  BY <1>1 DEF BatchIsWatched, EntryIsWatched
<1>5. RemovedOnce' /\ RemovedIsGone' /\ RemovedHalfIsQuiet'
  BY <1>1, <1>2 DEF RemovedOnce, RemovedIsGone, RemovedHalfIsQuiet, TypeOK
<1> QED BY <1>3, <1>4, <1>5

\* The remainder of a removal comes when both halves are done.
LEMMA PostDispatchStep ==
    ASSUME BidiInv, post_dispatch
    PROVE  BidiInv'
<1> USE DEF BidiInv
<1>1. /\ removing /\ reg = "dying" /\ removed = Halves /\ ~dereg /\ entry = "none"
      /\ reg' = "none" /\ removing' = FALSE /\ handles' = handles - 2
      /\ UNCHANGED <<emulatefd, watch_flags, entry, events, batch, polling, event_queue, active,
                     deleteme, removed, dereg>>
  BY DEF post_dispatch, epollVars, pollVars, RemovedOnce, EntryIsWatched
<1>2. active = {} /\ batch = {} /\ \A h \in Halves : event_queue[h] = 0
  BY <1>1 DEF RemovedHalfIsQuiet, TypeOK, BatchIsWatched
<1>3. TypeOK' /\ OnePlace'
  <2>1. emulatefd' \in BOOLEAN /\ polling' \in BOOLEAN /\ dereg' \in BOOLEAN /\ removing' \in BOOLEAN
    BY <1>1, Zenon DEF TypeOK
  <2> QED BY <1>1, <1>2, <2>1 DEF TypeOK, OnePlace
<1>4. BatchIsWatched' /\ EntryIsWatched'
  BY <1>1, <1>2 DEF BatchIsWatched, EntryIsWatched
<1>5. RemovedOnce' /\ RemovedIsGone' /\ RemovedHalfIsQuiet'
  BY <1>1, <1>2 DEF RemovedOnce, RemovedIsGone, RemovedHalfIsQuiet, TypeOK
<1> QED BY <1>3, <1>4, <1>5

\* A half whose handler is running is nowhere else, not watched and not removed.
LEMMA ActiveIsAlone ==
    ASSUME BidiInv, NEW h \in active
    PROVE  /\ h \in Halves /\ h \notin batch /\ event_queue[h] = 0 /\ h \notin removed
           /\ reg # "none" /\ ~removing
           /\ ~emulatefd => h \notin watch_flags
<1>1. h \in Halves /\ reg # "none" /\ h \notin removed
  BY DEF BidiInv, TypeOK, RemovedIsGone, RemovedHalfIsQuiet
<1>2. event_queue[h] \in Nat /\ event_queue[h] <= 1 /\ event_queue[h] # 1
  BY <1>1 DEF BidiInv, TypeOK, OnePlace
<1>3. h \notin batch /\ (~emulatefd => h \notin watch_flags)
  BY <1>1 DEF BidiInv, OnePlace
<1>4. ~removing
  BY <1>1 DEF BidiInv, RemovedOnce
<1> QED BY <1>1, <1>2, <1>3, <1>4

\* REMOVE of the first of the halves, asked for by the handler or by deregister().
LEMMA ReturnRemoveStep ==
    ASSUME BidiInv, NEW h \in Halves, NEW r \in Rearms, callback_returns(h, r),
           h \in deleteme \/ r = "REMOVE", ~is_last(h)
    PROVE  BidiInv'
<1> USE DEF BidiInv
<1>1. h \in active
  BY DEF callback_returns
<1>2. /\ active' = active \ {h} /\ removed' = removed \cup {h} /\ event_queue' = event_queue
      /\ removing' = removing /\ reg' = reg /\ rearm_remove(h)
      /\ UNCHANGED <<emulatefd, batch, polling, handles, deleteme, dereg>>
  BY DEF callback_returns, requeues, pollVars, TypeOK
<1>3. watch_flags' = watch_flags \ {h} /\ UNCHANGED <<entry, events>>
  <2>1. emulatefd \/ h \notin watch_flags
    BY <1>1, ActiveIsAlone
  <2> QED BY <1>2, <2>1 DEF rearm_remove, epollVars
<1>4. removed' # Halves
  BY <1>2 DEF is_last
<1>5. TypeOK' /\ OnePlace'
  BY <1>2, <1>3 DEF TypeOK, OnePlace
<1>6. BatchIsWatched'
  BY <1>1, <1>2, <1>3, ActiveIsAlone DEF BatchIsWatched
<1>7. EntryIsWatched'
  <2>1. entry = "set" => ~emulatefd
    BY DEF EntryIsWatched
  <2> QED BY <1>1, <1>2, <1>3, <2>1, ActiveIsAlone DEF EntryIsWatched
<1>8. RemovedOnce'
  BY <1>1, <1>2, <1>3, <1>4, ActiveIsAlone DEF RemovedOnce, TypeOK
<1>9. RemovedIsGone' /\ RemovedHalfIsQuiet'
  BY <1>1, <1>2, <1>3, ActiveIsAlone DEF RemovedIsGone, RemovedHalfIsQuiet
<1> QED BY <1>5, <1>6, <1>7, <1>8, <1>9

\* The handler that returns last removes the watcher, whichever of the two it is.
LEMMA ReturnLastStep ==
    ASSUME BidiInv, NEW h \in Halves, NEW r \in Rearms, callback_returns(h, r),
           h \in deleteme \/ r = "REMOVE", is_last(h)
    PROVE  BidiInv'
<1> USE DEF BidiInv
<1>1. h \in active /\ (r = "REMOVE" => reg = "live")
  BY DEF callback_returns
<1>2. /\ active' = active \ {h} /\ removed' = removed \cup {h} /\ event_queue' = event_queue
      /\ removing' = TRUE /\ reg' = "dying" /\ entry' = "none" /\ events' = {}
      /\ watch_flags' = watch_flags \ (IF emulatefd THEN {h} \cap {"out"} ELSE {})
      /\ UNCHANGED <<emulatefd, batch, polling, handles, deleteme, dereg>>
  BY DEF callback_returns, requeues, pollVars
<1>3. /\ removed' = Halves /\ ~dereg /\ batch = {} /\ active' = {}
      /\ \A k \in Halves : event_queue[k] = 0
  <2>1. \A k \in Halves : k # h => k \in removed
    BY DEF is_last
  <2>2. \A k \in Halves : event_queue[k] = 0 /\ k \notin batch /\ k \notin active'
    BY <1>1, <1>2, <2>1, ActiveIsAlone DEF RemovedHalfIsQuiet
  <2>3. ~dereg
    BY <1>1 DEF RemovedOnce
  <2> QED BY <1>2, <2>1, <2>2, <2>3, ZenonT(30) DEF TypeOK, BatchIsWatched
<1>4. TypeOK'
  <2>1. removing' \in BOOLEAN
    BY <1>2
  <2> QED BY <1>2, <2>1 DEF TypeOK
<1>5. OnePlace' /\ BatchIsWatched'
  BY <1>2, <1>3 DEF OnePlace, BatchIsWatched
<1>6. EntryIsWatched'
  <2>1. "multi" \in watch_flags
    BY <1>1, ActiveIsAlone DEF EntryIsWatched
  <2> QED BY <1>2, <2>1 DEF EntryIsWatched
<1>7. RemovedOnce' /\ RemovedIsGone' /\ RemovedHalfIsQuiet'
  BY <1>2, <1>3 DEF RemovedOnce, RemovedIsGone, RemovedHalfIsQuiet
<1> QED BY <1>4, <1>5, <1>6, <1>7

\* A handler that leaves its half registered.
LEMMA ReturnKeepStep ==
    ASSUME BidiInv, ~DisablesInPoll, NEW h \in Halves, NEW r \in Rearms, callback_returns(h, r),
           h \notin deleteme, r # "REMOVE"
    PROVE  BidiInv'
<1> USE DEF BidiInv
<1>1. /\ h \in active /\ (r = "DISARM" => batch = {})
      /\ active' = active \ {h} /\ removed' = removed /\ removing' = removing /\ reg' = reg
      /\ UNCHANGED <<emulatefd, batch, polling, handles, deleteme, dereg>>
  BY DEF callback_returns, MayDisable, pollVars, TypeOK
<1>2. event_queue' \in {event_queue, enqueue({h})}
  BY DEF callback_returns
<1>3. \/ r = "DISARM" /\ watch_flags' = watch_flags \ {h} /\ ~emulatefd
         /\ (set_fd_enabled(watch_flags') \/ enable_fd_watch(watch_flags' \cap Halves))
      \/ /\ r = "REARM" /\ ~emulatefd /\ watch_flags' = watch_flags \cup {h}
         /\ enable_fd_watch(watch_flags' \cap Halves)
      \/ emulatefd /\ watch_flags' = watch_flags \ {h} /\ UNCHANGED epollVars
      \/ UNCHANGED <<watch_flags, epollVars>>
  BY DEF callback_returns, rearm_disarm, Rearms
<1>4. /\ h \in watch_flags' => r = "REARM" \/ emulatefd
      /\ "multi" \in watch_flags' /\ watch_flags' \in SUBSET (Halves \cup {"multi"})
      /\ watch_flags' \ {h} = watch_flags \ {h}
  BY <1>1, <1>3, ActiveIsAlone DEF EntryIsWatched, TypeOK
<1>5. /\ event_queue' \in [Halves -> Nat] /\ event_queue'[h] \in {0, 1}
      /\ r = "REARM" /\ ~emulatefd => event_queue'[h] = 0
      /\ \A k \in Halves : k # h => event_queue'[k] = event_queue[k]
  <2>1. event_queue[h] = 0
    BY <1>1, ActiveIsAlone
  <2>2. r = "REARM" /\ ~emulatefd => event_queue' = event_queue
    BY DEF callback_returns, requeues
  <2> QED BY <1>2, <2>1, <2>2, EnqueueIs DEF TypeOK
<1>6. \/ UNCHANGED <<entry, events>> /\ (entry = "none" \/ watch_flags' = watch_flags)
      \/ /\ entry # "none" /\ entry' = "set" /\ events' = watch_flags' \cap Halves
         /\ h \in watch_flags' \/ batch = {}
      \/ entry # "none" /\ entry' = "null" /\ events' = {}
  <2>1. emulatefd => entry = "none"
    BY DEF EntryIsWatched
  <2> QED BY <1>1, <1>3, <2>1, ArmingEffects DEF epollVars
<1>7. TypeOK'
  BY <1>1, <1>4, <1>5, <1>6 DEF TypeOK
<1>8. OnePlace'
  <2>1. ASSUME NEW k \in Halves, k # h
        PROVE  /\ event_queue'[k] <= 1
               /\ event_queue'[k] = 1 => k \notin batch \cup active'
               /\ k \in batch => k \notin active'
               /\ ~emulatefd /\ k \in watch_flags' => event_queue'[k] = 0 /\ k \notin active'
    BY <1>1, <1>4, <1>5, <2>1 DEF OnePlace
  <2>2. /\ event_queue'[h] <= 1 /\ h \notin batch \cup active'
        /\ ~emulatefd /\ h \in watch_flags' => event_queue'[h] = 0
    BY <1>1, <1>4, <1>5, ActiveIsAlone
  <2> QED BY <1>1, <2>1, <2>2 DEF OnePlace
<1>9. BatchIsWatched'
  <2>1. batch \subseteq watch_flags' \cap Halves /\ h \notin batch
    BY <1>1, <1>4, ActiveIsAlone DEF BatchIsWatched
  <2>2. batch # {} /\ entry' = "set" => \E k \in Halves : k \in watch_flags' /\ k \notin batch
    BY <1>6, <2>1 DEF BatchIsWatched
  <2> QED BY <1>1, <2>1, <2>2 DEF BatchIsWatched
<1>10. EntryIsWatched'
  BY <1>1, <1>4, <1>6 DEF EntryIsWatched
<1>11. RemovedOnce'
  BY <1>1, <1>4, ActiveIsAlone DEF RemovedOnce
<1>12. RemovedIsGone' /\ RemovedHalfIsQuiet'
  BY <1>1, <1>5, ActiveIsAlone DEF RemovedIsGone, RemovedHalfIsQuiet, TypeOK
<1> QED BY <1>7, <1>8, <1>9, <1>10, <1>11, <1>12

-----------------------------------------------------------------------------
(* The properties.                                                         *)

\* BidiInv holds for any number of threads.
THEOREM BidiInvariant == ~Hangup /\ ~DisablesInPoll /\ Spec => []BidiInv
<1> SUFFICES ASSUME ~Hangup, ~DisablesInPoll PROVE Spec => []BidiInv
  OBVIOUS
<1>1. BidiInv /\ [Next]_vars => BidiInv'
  <2> SUFFICES ASSUME BidiInv, [Next]_vars PROVE BidiInv'
    OBVIOUS
  <2>1. CASE ClientCall
    BY <2>1, RegisterStep, SetWatchesStep, SetWatchEnabledStep, DeregisterStep DEF ClientCall
  <2>2. CASE Polling
    BY <2>2, PollStep, ReceiveStep, PullDoneStep DEF Polling
  <2>3. CASE issue_delete \/ post_dispatch
    BY <2>3, IssueDeleteStep, PostDispatchStep
  <2>4. CASE \E h \in Halves : dispatch(h)
    BY <2>4, DispatchStep
  <2>5. CASE \E h \in Halves, r \in Rearms : callback_returns(h, r)
    BY <2>5, ReturnRemoveStep, ReturnLastStep, ReturnKeepStep
  <2>6. CASE UNCHANGED vars
    BY <2>6 DEF vars, epollVars, pollVars, queueVars, handlerVars, BidiInv, TypeOK, OnePlace,
       BatchIsWatched, EntryIsWatched, RemovedOnce, RemovedIsGone, RemovedHalfIsQuiet
  <2> QED BY <2>1, <2>2, <2>3, <2>4, <2>5, <2>6 DEF Next, Handling
<1> QED BY <1>1, InitBidi, PTL DEF Spec

\* A set has one element in common with a singleton, or none.
LEMMA CountsMembership ==
    ASSUME NEW S, NEW x
    PROVE  Cardinality({x} \cap S) = IF x \in S THEN 1 ELSE 0
<1>1. CASE x \in S
  <2>1. {x} \cap S = {x}
    BY <1>1
  <2> QED BY <1>1, <2>1, FS_Singleton
<1>2. CASE x \notin S
  <2>1. {x} \cap S = {}
    BY <1>2
  <2> QED BY <1>2, <2>1, FS_EmptySet
<1> QED BY <1>1, <1>2

\* Each half is reported, queued or being handled, and only one of these.
THEOREM BidiHalfOnce == ~Hangup /\ ~DisablesInPoll /\ Spec => []HalfOnce
<1>1. BidiInv => HalfOnce
  <2> SUFFICES ASSUME BidiInv, NEW h \in Halves
               PROVE  event_queue[h] + Cardinality({h} \cap batch)
                                     + Cardinality({h} \cap active) <= 1
    BY DEF HalfOnce
  <2>1. event_queue[h] \in {0, 1}
    BY DEF BidiInv, TypeOK, OnePlace
  <2> QED BY <2>1, CountsMembership DEF BidiInv, OnePlace
<1> QED BY <1>1, BidiInvariant, PTL

\* Nothing leads to the watcher once watch_removed() has been called.
THEOREM BidiRemovedIsGone == ~Hangup /\ ~DisablesInPoll /\ Spec => []RemovedIsGone
<1>1. BidiInv => RemovedIsGone
  BY DEF BidiInv
<1> QED BY <1>1, BidiInvariant, PTL

\* A removed half is not called again while the other goes on.
THEOREM BidiRemovedHalfIsQuiet == ~Hangup /\ ~DisablesInPoll /\ Spec => []RemovedHalfIsQuiet
<1>1. BidiInv => RemovedHalfIsQuiet
  BY DEF BidiInv
<1> QED BY <1>1, BidiInvariant, PTL

-----------------------------------------------------------------------------
(* Refinement of WatcherContract.                                          *)

\* Every step is a step of the contract, or none of its business.
LEMMA BidiStepRefines ==
    ASSUME BidiInv, BidiInv', Next
    PROVE  [Contract!Next]_(Contract!contractVars)
<1> USE DEF Contract!Next, Contract!contractVars
<1>1. CASE ClientCall
  <2>1. CASE \E flags \in SUBSET Halves, b \in BOOLEAN : register_fd(flags, b)
    <3>1. reg = "none" /\ reg' = "live" /\ active = {} /\ active' = {}
      BY <2>1 DEF register_fd, BidiInv, RemovedIsGone
    <3> QED BY <3>1 DEF Contract!Register
  <2>2. CASE \/ \E flags \in SUBSET Halves : set_watches(flags)
             \/ \E h \in Halves, b \in BOOLEAN : set_watch_enabled(h, b)
             \/ deregister
    <3>1. reg = "live" /\ reg' # "none" /\ active' = active
      BY <2>2 DEF set_watches, set_watch_enabled, deregister, handlerVars
    <3> QED BY <3>1
  <2> QED BY <1>1, <2>1, <2>2 DEF ClientCall
<1>2. CASE Polling
  BY <1>2 DEF Polling, epoll_wait_events, receive_fd_event, pull_done, handlerVars
<1>3. CASE issue_delete \/ post_dispatch
  <2>1. reg = "dying" /\ active' = active
    BY <1>3 DEF issue_delete, post_dispatch, BidiInv, RemovedOnce
  <2>2. reg' = "none" => active = {}
    BY <2>1 DEF BidiInv, RemovedIsGone
  <2>3. CASE reg' = "none"
    BY <2>1, <2>2, <2>3 DEF Contract!Removed
  <2>4. CASE reg' # "none"
    BY <2>1, <2>4
  <2> QED BY <2>3, <2>4
<1>4. CASE \E h \in Halves : dispatch(h)
  <2>1. PICK h \in Halves : dispatch(h)
    BY <1>4
  <2>2. reg' = reg /\ reg # "none" /\ active' = active \cup {h}
    BY <2>1 DEF dispatch, BidiInv, RemovedIsGone
  <2>3. CASE active = {}
    BY <2>2, <2>3 DEF Contract!HandlerStarts
  <2>4. CASE active # {}
    BY <2>2, <2>4
  <2> QED BY <2>3, <2>4
<1>5. CASE \E h \in Halves, r \in Rearms : callback_returns(h, r)
  <2>1. PICK h \in Halves, r \in Rearms : callback_returns(h, r)
    BY <1>5
  <2>2. h \in active /\ active' = active \ {h} /\ reg' \in {reg, "dying"}
    BY <2>1 DEF callback_returns
  <2>3. reg # "none" /\ reg' # "none"
    BY <2>2, ActiveIsAlone
  <2>4. CASE active' = {}
    BY <2>2, <2>3, <2>4 DEF Contract!HandlerReturns
  <2>5. CASE active' # {}
    BY <2>2, <2>3, <2>5
  <2> QED BY <2>4, <2>5
<1> QED BY <1>1, <1>2, <1>3, <1>4, <1>5 DEF Next, Handling

\* The two halves together keep the contract of all watchers: watch_removed() comes
\* once, after both handlers.
THEOREM BidiRefinement == ~Hangup /\ ~DisablesInPoll /\ Spec => ImplementsContract
<1> SUFFICES ASSUME ~Hangup, ~DisablesInPoll PROVE Spec => ImplementsContract
  OBVIOUS
<1>1. Init => Contract!Init
  BY DEF Init, Contract!Init
<1>2. BidiInv /\ BidiInv' /\ [Next]_vars => [Contract!Next]_(Contract!contractVars)
  BY BidiStepRefines DEF vars, handlerVars, Contract!contractVars
<1> QED BY <1>1, <1>2, BidiInvariant, PTL DEF Spec, ImplementsContract, Contract!Spec
=============================================================================
