------------------------- MODULE SignalChildProofs --------------------------
(***************************************************************************)
(* Proofs about signal and child process watchers, for any sets of         *)
(* watchers and process ids, any number of processes, and a base lock that *)
(* may be locked again or not.  Each theorem names the habits of clients   *)
(* and system that it excludes; with them the property fails.              *)
(***************************************************************************)
EXTENDS SignalChild, TLAPS

-----------------------------------------------------------------------------
(* Types.                                                                  *)

\* The loop as child_proc_events::init() leaves it has the types.
LEMMA InitTypes == Init => TypeOK
<1> SUFFICES ASSUME Init PROVE TypeOK
  OBVIOUS
<1>1. sending \in ChildWatchers \cup {None} /\ stray \in BOOLEAN /\ stuck \in BOOLEAN
  BY DEF Init
<1>2. /\ bw \in [Watchers -> BaseWatcher]
      /\ cw \in [ChildWatchers -> ChildWatcher]
  BY SignalChildAssumption DEF Init, Idle, NoChild, BaseWatcher, ChildWatcher
<1>3. /\ proc \in [Pids -> [st : {"none", "running", "zombie"}, gen : 0..MaxForks]]
      /\ watching \in [Pids -> ChildWatchers \cup {None}]
      /\ forks \in 0..MaxForks /\ slots \in Int
  BY SignalChildAssumption DEF Init
<1> QED BY <1>1, <1>2, <1>3 DEF Init, TypeOK, SIGCHLD

\* The types of the records, apart from the rest.
LEMMA RecordTypes ==
    ASSUME TypeOK
    PROVE  /\ bw \in [Watchers -> BaseWatcher] /\ cw \in [ChildWatchers -> ChildWatcher]
           /\ \A w \in Watchers : bw[w].queued \in Nat
           /\ forks \in 0..MaxForks
BY DEF TypeOK, BaseWatcher

\* Steps of the system and of the signal watchers keep the types.
LEMMA SignalTypes ==
    ASSUME TypeOK, NEW w \in SigWatchers,
           Raise(w) \/ register_signal(w) \/ deregister_signal(w)
    PROVE  TypeOK'
<1> USE DEF sigVars, childVars, sendVars
<1>0. w \in Watchers
  BY DEF Watchers
<1>1. CASE Raise(w)
  BY <1>1 DEF Raise, TypeOK
<1>2. CASE register_signal(w)
  <2>1. bw' \in [Watchers -> BaseWatcher]
    BY <1>0, <1>2, RecordTypes DEF register_signal, Idle, BaseWatcher
  <2> QED BY <1>0, <1>2, <2>1 DEF register_signal, TypeOK
<1>3. CASE deregister_signal(w)
  BY <1>0, <1>3 DEF deregister_signal, TypeOK
<1> QED BY <1>1, <1>2, <1>3

\* Steps of the dispatch keep the types.
LEMMA DispatchTypes ==
    ASSUME TypeOK, NEW w \in Watchers,
           issue_delete(w) \/ dispatch(w) \/ HandlerReturn(w) \/ watch_removed(w)
    PROVE  TypeOK'
<1> USE DEF sigVars, childVars, sendVars
<1>1. CASE issue_delete(w)
  <2>1. bw' \in [Watchers -> BaseWatcher]
    <3>1. CASE bw[w].active
      BY <1>1, <3>1, RecordTypes, ZenonT(30) DEF issue_delete, BaseWatcher
    <3>2. CASE ~bw[w].active
      BY <1>1, <3>2, RecordTypes DEF issue_delete, BaseWatcher
    <3> QED BY <3>1, <3>2
  <2> QED BY <1>1, <2>1 DEF issue_delete, TypeOK
<1>2. CASE dispatch(w)
  <2>1. bw[w] \in BaseWatcher /\ bw[w].queued - 1 \in Nat
    BY <1>2, RecordTypes DEF dispatch
  <2>2. [bw[w] EXCEPT !.queued = @ - 1, !.active = TRUE] \in BaseWatcher
    BY <2>1 DEF BaseWatcher
  <2>3. bw' \in [Watchers -> BaseWatcher]
    BY <1>2, <2>2, RecordTypes, Zenon DEF dispatch
  <2> QED BY <1>2, <2>3 DEF dispatch, TypeOK
<1>3. CASE handler_deleted(w)
  <2>1. bw' \in [Watchers -> BaseWatcher]
    BY <1>3, RecordTypes DEF handler_deleted, Idle, BaseWatcher
  <2> QED BY <1>3, <2>1 DEF handler_deleted, TypeOK
<1>4. CASE watch_removed(w)
  <2>1. bw[w] \in BaseWatcher
    BY RecordTypes
  <2>2. [bw[w] EXCEPT !.deleteme = FALSE] \in BaseWatcher
    BY <2>1 DEF BaseWatcher
  <2>3. bw' \in [Watchers -> BaseWatcher]
    BY <1>4, <2>2, RecordTypes, Zenon DEF watch_removed
  <2> QED BY <1>4, <2>3 DEF watch_removed, TypeOK
<1>5. ASSUME NEW r \in Rearms, handler_return(w, r)
      PROVE  TypeOK'
  <2>1. PICK e : e = EffectOf(w, r)
    OBVIOUS
  <2>2. PICK n \in Nat : n = IF e = "REQUEUE" THEN bw[w].queued + 1 ELSE bw[w].queued
    BY RecordTypes
  <2>3. bw' = [bw EXCEPT ![w].active = FALSE, ![w].queued = n]
    BY <1>5, <2>1, <2>2 DEF handler_return
  <2>4. bw' \in [Watchers -> BaseWatcher]
    BY <2>3, RecordTypes DEF BaseWatcher
  <2>5. reg' \in [Watchers -> {"out", "reserved", "live", "disarmed", "removing", "dying"}]
    BY <1>5, <2>1 DEF handler_return, TypeOK
  <2>6. CASE w \in SigWatchers
    BY <1>5, <2>1, <2>4, <2>5, <2>6 DEF handler_return, signal_rearm, TypeOK
  <2>7. CASE w \notin SigWatchers
    BY <1>5, <2>1, <2>4, <2>5, <2>7 DEF handler_return, child_rearm, TypeOK
  <2> QED BY <2>6, <2>7
<1> QED BY <1>1, <1>2, <1>3, <1>4, <1>5 DEF HandlerReturn

\* A zombie that a watcher is told of is one that the map has it for.
LEMMA ToldOf ==
    ASSUME NEW Z, NEW w \in Told(Z)
    PROVE  ZombieOf(w, Z) \in Z /\ watching[ZombieOf(w, Z)] = w /\ w \in ChildWatchers
BY DEF Told, ZombieOf

\* Steps of the poll keep the types.
LEMMA PollTypes ==
    ASSUME TypeOK, PollStart \/ PollReturn \/ ReadSignal \/ read_done
    PROVE  TypeOK'
<1> USE DEF sigVars, childVars, sendVars
<1>1. CASE PollStart \/ PollReturn \/ read_done
  BY <1>1 DEF PollStart, PollReturn, read_done, TypeOK
<1>2. ASSUME NEW s \in SigWatchers \cup {SIGCHLD}, read_signal(s)
      PROVE  TypeOK'
  <2>1. CASE s # SIGCHLD
    <3>1. s \in Watchers
      BY <2>1 DEF Watchers
    <3>2. bw' = [bw EXCEPT ![s].queued = @ + 1]
      BY <1>2, <2>1 DEF read_signal
    <3>3. bw' \in [Watchers -> BaseWatcher]
      BY <3>1, <3>2, RecordTypes DEF BaseWatcher
    <3> QED BY <1>2, <2>1, <3>3 DEF read_signal, TypeOK
  <2>2. CASE s = SIGCHLD
    <3>1. reap
      BY <1>2, <2>2 DEF read_signal
    <3>2. \A w \in Told(Zombies) : proc[ZombieOf(w, Zombies)].gen \in 0..MaxForks
      BY ToldOf DEF Zombies, TypeOK
    <3>3. cw' \in [ChildWatchers -> ChildWatcher]
      BY <3>1, <3>2, RecordTypes DEF reap, receive_child_stat, ChildWatcher
    <3>4. \A w \in Watchers : [bw[w] EXCEPT !.queued = @ + 1] \in BaseWatcher
      BY RecordTypes DEF BaseWatcher
    <3>5. bw' \in [Watchers -> BaseWatcher]
      BY <3>1, <3>4, RecordTypes DEF reap, receive_child_stat
    <3>6. /\ proc' \in [Pids -> [st : {"none", "running", "zombie"}, gen : 0..MaxForks]]
          /\ watching' \in [Pids -> ChildWatchers \cup {None}]
      BY <3>1 DEF reap, Reaped, TypeOK
    <3> QED BY <1>2, <2>2, <3>1, <3>3, <3>5, <3>6 DEF read_signal, reap, TypeOK
  <2> QED BY <2>1, <2>2
<1> QED BY <1>1, <1>2 DEF ReadSignal

\* Steps of the child watchers keep the types.
LEMMA ChildTypes ==
    ASSUME TypeOK, NEW w \in ChildWatchers,
           \/ reserve_watch(w) \/ unreserve(w) \/ stop_watch(w) \/ deregister_child(w)
           \/ send_signal(w)
           \/ \E p \in Pids : fork(w, p) \/ add_watch(w, p) \/ add_reserved(w, p)
    PROVE  TypeOK'
<1> USE DEF sigVars, childVars, sendVars
<1>0. w \in Watchers
  BY DEF Watchers
<1>1. CASE reserve_watch(w)
  <2>1. bw' \in [Watchers -> BaseWatcher]
    BY <1>0, <1>1, RecordTypes DEF reserve_watch, Idle, BaseWatcher
  <2> QED BY <1>0, <1>1, <2>1 DEF reserve_watch, TypeOK
<1>2. CASE unreserve(w)
  <2>1. stuck' \in BOOLEAN
    BY <1>2 DEF unreserve
  <2> QED BY <1>0, <1>2, <2>1 DEF unreserve, TypeOK
<1>3. CASE stop_watch(w) \/ deregister_child(w)
  <2>1. watching' \in [Pids -> ChildWatchers \cup {None}]
    BY <1>3 DEF stop_watch, deregister_child, Unwatched, TypeOK
  <2>2. cw' = [cw EXCEPT ![w].own = FALSE]
    BY <1>3 DEF stop_watch, deregister_child
  <2>3. cw' \in [ChildWatchers -> ChildWatcher]
    BY <2>2, RecordTypes DEF ChildWatcher
  <2> QED BY <1>0, <1>3, <2>1, <2>3 DEF stop_watch, deregister_child, TypeOK
<1>4. CASE send_signal(w)
  BY <1>4 DEF send_signal, TypeOK
<1>5. ASSUME NEW p \in Pids, fork(w, p)
      PROVE  TypeOK'
  <2>1. forks' \in 0..MaxForks /\ forks' = forks + 1
    <3>1. forks < MaxForks /\ forks' = forks + 1
      BY <1>5 DEF fork
    <3> QED BY <3>1, RecordTypes, SignalChildAssumption
  <2>2. proc' \in [Pids -> [st : {"none", "running", "zombie"}, gen : 0..MaxForks]]
    BY <1>5, <2>1 DEF fork, TypeOK
  <2>3. cw' = [cw EXCEPT ![w].pid = p, ![w].gen = forks', ![w].termd = FALSE, ![w].own = TRUE]
    BY <1>5, <2>1 DEF fork
  <2>4. cw' \in [ChildWatchers -> ChildWatcher]
    <3>1. [cw[w] EXCEPT !.pid = p, !.gen = forks', !.termd = FALSE, !.own = TRUE] \in ChildWatcher
      BY <2>1, RecordTypes DEF ChildWatcher
    <3> QED BY <2>3, <3>1, RecordTypes, Zenon
  <2>5. bw' \in [Watchers -> BaseWatcher]
    BY <1>0, <1>5, RecordTypes DEF fork, BaseWatcher
  <2> QED BY <1>0, <1>5, <2>1, <2>2, <2>4, <2>5 DEF fork, add_from_reserve, TypeOK
<1>6. ASSUME NEW p \in Pids, add_watch(w, p) \/ add_reserved(w, p)
      PROVE  TypeOK'
  <2>1. watch_child(w, p) /\ slots' \in Int
    BY <1>6 DEF add_watch, add_reserved, TypeOK
  <2>2. PICK g \in 0..MaxForks : g = proc[p].gen
    BY DEF TypeOK
  <2>3. cw' = [cw EXCEPT ![w].pid = p, ![w].gen = g, ![w].termd = FALSE, ![w].own = FALSE]
    BY <2>1, <2>2 DEF watch_child
  <2>4. cw' \in [ChildWatchers -> ChildWatcher]
    <3>1. [cw[w] EXCEPT !.pid = p, !.gen = g, !.termd = FALSE, !.own = FALSE] \in ChildWatcher
      BY RecordTypes DEF ChildWatcher
    <3> QED BY <2>3, <3>1, RecordTypes, Zenon
  <2>5. bw' \in [Watchers -> BaseWatcher]
    BY <1>0, <2>1, RecordTypes DEF watch_child, BaseWatcher
  <2> QED BY <1>0, <2>1, <2>4, <2>5 DEF watch_child, add_from_reserve, TypeOK
<1> QED BY <1>1, <1>2, <1>3, <1>4, <1>5, <1>6

\* Every step keeps the types.
LEMMA StepTypes == TypeOK /\ [Next]_vars => TypeOK'
<1> SUFFICES ASSUME TypeOK, [Next]_vars PROVE TypeOK'
  OBVIOUS
<1>1. CASE UNCHANGED vars
  BY <1>1 DEF TypeOK, vars, sigVars, childVars, sendVars
<1>2. CASE \E p \in Pids : Spawn(p)
  <2>1. PICK p \in Pids : Spawn(p)
    BY <1>2
  <2>2. forks' \in 0..MaxForks /\ forks' = forks + 1
    BY <2>1, RecordTypes, SignalChildAssumption DEF Spawn
  <2>3. proc' \in [Pids -> [st : {"none", "running", "zombie"}, gen : 0..MaxForks]]
    BY <2>1, <2>2 DEF Spawn, TypeOK
  <2> QED BY <2>1, <2>2, <2>3 DEF Spawn, TypeOK, sigVars, sendVars
<1>3. CASE \E p \in Pids : Exit(p)
  BY <1>3 DEF Exit, TypeOK, sendVars
<1>4. CASE kill
  <2>1. stray' \in BOOLEAN /\ sending' = None
    BY <1>4 DEF kill
  <2> QED BY <1>4, <2>1 DEF kill, TypeOK, sigVars, childVars
<1> QED BY <1>1, <1>2, <1>3, <1>4, SignalTypes, DispatchTypes, PollTypes, ChildTypes DEF Next

-----------------------------------------------------------------------------
(* Watches and unreaped children.                                          *)

\* What does not concern the children leaves their watches alone.
LEMMA SameChildren ==
    ASSUME ForkedIsWatched, proc' = proc, watching' = watching, cw' = cw
    PROVE  ForkedIsWatched'
BY DEF ForkedIsWatched

\* Reaping takes the entry of every process it reaps, and notes the termination.
LEMMA ReapWatched ==
    ASSUME TypeOK, ForkedIsWatched, reap
    PROVE  ForkedIsWatched'
<1>1. ASSUME NEW p \in Pids, watching'[p] # None
      PROVE  proc'[p].st # "none"
  BY <1>1 DEF reap, Reaped, ForkedIsWatched, TypeOK
<1>2. ASSUME NEW w \in ChildWatchers, cw'[w].own, ~cw'[w].termd
      PROVE  /\ cw'[w].pid \in Pids /\ watching'[cw'[w].pid] = w
             /\ cw'[w].gen = proc'[cw'[w].pid].gen
  <2>1. w \notin Told(Zombies)
    BY <1>2, RecordTypes DEF reap, receive_child_stat, ChildWatcher
  <2>2. cw'[w] = cw[w]
    BY <2>1 DEF reap, receive_child_stat
  <2>3. PICK p \in Pids : p = cw[w].pid /\ watching[p] = w /\ cw[w].gen = proc[p].gen
    BY <1>2, <2>2 DEF ForkedIsWatched
  <2>4. p \notin Zombies
    BY <2>1, <2>3 DEF Told
  <2>5. watching'[p] = w /\ proc'[p] = proc[p]
    BY <2>3, <2>4 DEF reap, Reaped
  <2> QED BY <2>2, <2>3, <2>5
<1> QED BY <1>1, <1>2 DEF ForkedIsWatched

\* A process that is created under an id has no watch yet, and fork() enters its own.
LEMMA ForkWatched ==
    ASSUME TypeOK, ForkedIsWatched, NEW w \in ChildWatchers, NEW p \in Pids,
           Spawn(p) \/ fork(w, p)
    PROVE  ForkedIsWatched'
<1>1. proc[p].st = "none" /\ proc' = [proc EXCEPT ![p] = [st |-> "running", gen |-> forks + 1]]
  BY DEF Spawn, fork
<1>2. watching[p] = None
  BY <1>1 DEF ForkedIsWatched
<1>3. ASSUME NEW v \in ChildWatchers, cw[v].own, ~cw[v].termd
      PROVE  /\ cw[v].pid \in Pids /\ cw[v].pid # p /\ watching[cw[v].pid] = v
             /\ cw[v].gen = proc'[cw[v].pid].gen
  <2>1. cw[v].pid \in Pids /\ watching[cw[v].pid] = v /\ cw[v].gen = proc[cw[v].pid].gen
    BY <1>3 DEF ForkedIsWatched
  <2>2. cw[v].pid # p
    BY <1>2, <2>1, SignalChildAssumption
  <2> QED BY <1>1, <2>1, <2>2 DEF TypeOK
<1>4. CASE Spawn(p)
  BY <1>1, <1>2, <1>3, <1>4 DEF Spawn, ForkedIsWatched, TypeOK
<1>5. CASE fork(w, p)
  <2>1. watching' = [watching EXCEPT ![p] = w]
    BY <1>2, <1>5 DEF fork, add_from_reserve
  <2>2. /\ cw'[w].pid = p /\ cw'[w].gen = forks + 1
        /\ \A v \in ChildWatchers \ {w} : cw'[v] = cw[v]
    BY <1>5, RecordTypes DEF fork, ChildWatcher
  <2>3. \A q \in Pids : watching'[q] # None => proc'[q].st # "none"
    BY <1>1, <2>1 DEF ForkedIsWatched, TypeOK
  <2>4. ASSUME NEW v \in ChildWatchers, cw'[v].own, ~cw'[v].termd
        PROVE  /\ cw'[v].pid \in Pids /\ watching'[cw'[v].pid] = v
               /\ cw'[v].gen = proc'[cw'[v].pid].gen
    <3>1. CASE v = w
      BY <1>1, <2>1, <2>2, <3>1 DEF TypeOK
    <3>2. CASE v # w
      BY <1>3, <2>1, <2>2, <2>4, <3>2 DEF TypeOK
    <3> QED BY <3>1, <3>2
  <2> QED BY <2>3, <2>4 DEF ForkedIsWatched
<1> QED BY <1>4, <1>5

\* A watch that is added by hand, or ended, is not that of a child made by fork().
LEMMA UnownedWatched ==
    ASSUME TypeOK, ForkedIsWatched, NEW w \in ChildWatchers, "add_late" \notin Client,
           \/ stop_watch(w) \/ deregister_child(w)
           \/ \E p \in Pids : watch_child(w, p)
    PROVE  ForkedIsWatched'
<1>1. /\ proc' = proc /\ ~cw'[w].own
      /\ \A v \in ChildWatchers \ {w} : cw'[v] = cw[v]
  <2>1. CASE stop_watch(w) \/ deregister_child(w)
    BY <2>1, RecordTypes DEF stop_watch, deregister_child, ChildWatcher
  <2>2. CASE \E p \in Pids : watch_child(w, p)
    <3>1. PICK p \in Pids : watch_child(w, p)
      BY <2>2
    <3>2. PICK c : c = [cw[w] EXCEPT !.pid = p, !.gen = proc[p].gen, !.termd = FALSE,
                                     !.own = FALSE]
      OBVIOUS
    <3>3. cw' = [cw EXCEPT ![w] = c]
      BY <3>1, <3>2, ZenonT(30) DEF watch_child
    <3>4. c.own = FALSE
      BY <3>2, RecordTypes DEF ChildWatcher
    <3> QED BY <3>1, <3>3, <3>4, RecordTypes DEF watch_child
  <2> QED BY <2>1, <2>2
<1>2. /\ \A q \in Pids : watching'[q] # None => watching[q] # None \/ proc[q].st # "none"
      /\ \A q \in Pids : watching[q] \notin {None, w} => watching'[q] = watching[q]
  <2>1. CASE stop_watch(w) \/ deregister_child(w)
    BY <2>1 DEF stop_watch, deregister_child, Unwatched
  <2>2. CASE \E p \in Pids : watch_child(w, p)
    BY <2>2, ZenonT(30) DEF watch_child, add_from_reserve, TypeOK
  <2> QED BY <2>1, <2>2
<1>3. \A q \in Pids : watching'[q] # None => proc'[q].st # "none"
  BY <1>1, <1>2 DEF ForkedIsWatched
<1>4. ASSUME NEW v \in ChildWatchers, cw'[v].own, ~cw'[v].termd
      PROVE  /\ cw'[v].pid \in Pids /\ watching'[cw'[v].pid] = v
             /\ cw'[v].gen = proc'[cw'[v].pid].gen
  <2>1. v # w /\ cw'[v] = cw[v]
    BY <1>1, <1>4
  <2>2. cw[v].pid \in Pids /\ watching[cw[v].pid] = v /\ cw[v].gen = proc[cw[v].pid].gen
    BY <1>4, <2>1 DEF ForkedIsWatched
  <2> QED BY <1>1, <1>2, <2>1, <2>2, SignalChildAssumption
<1> QED BY <1>3, <1>4 DEF ForkedIsWatched

\* Every step keeps the watches of forked children.
LEMMA StepWatched ==
    ASSUME TypeOK, ForkedIsWatched, [Next]_vars, "add_late" \notin Client
    PROVE  ForkedIsWatched'
<1> USE DEF sigVars, childVars, sendVars
<1>1. CASE UNCHANGED vars
  BY <1>1, SameChildren DEF vars
<1>2. CASE \E p \in Pids : Spawn(p) \/ Exit(p)
  <2>1. CASE \E p \in Pids : Spawn(p)
    <3>1. PICK p \in Pids : Spawn(p)
      BY <2>1
    <3>2. CASE ChildWatchers = {}
      BY <3>1, <3>2 DEF ForkedIsWatched, Spawn, TypeOK
    <3>3. CASE ChildWatchers # {}
      BY <3>1, <3>3, ForkWatched
    <3> QED BY <3>2, <3>3
  <2>2. CASE \E p \in Pids : Exit(p)
    BY <2>2 DEF Exit, ForkedIsWatched, TypeOK
  <2> QED BY <1>2, <2>1, <2>2
<1>3. CASE PollStart \/ PollReturn \/ read_done \/ kill
  BY <1>3, SameChildren DEF PollStart, PollReturn, read_done, kill
<1>4. CASE ReadSignal
  <2>1. PICK s \in SigWatchers \cup {SIGCHLD} : read_signal(s)
    BY <1>4 DEF ReadSignal
  <2> QED BY <2>1, SameChildren, ReapWatched DEF read_signal
<1>5. CASE \E w \in SigWatchers : Raise(w) \/ register_signal(w) \/ deregister_signal(w)
  BY <1>5, SameChildren DEF Raise, register_signal, deregister_signal
<1>6. CASE \E w \in Watchers :
             issue_delete(w) \/ dispatch(w) \/ HandlerReturn(w) \/ watch_removed(w)
  BY <1>6, SameChildren DEF issue_delete, dispatch, HandlerReturn, handler_return,
       handler_deleted, watch_removed, signal_rearm, child_rearm
<1>7. CASE \E w \in ChildWatchers : reserve_watch(w) \/ unreserve(w) \/ send_signal(w)
  BY <1>7, SameChildren DEF reserve_watch, unreserve, send_signal
<1>8. CASE \E w \in ChildWatchers : stop_watch(w) \/ deregister_child(w)
  BY <1>8, UnownedWatched
<1>9. CASE \E w \in ChildWatchers, p \in Pids : fork(w, p)
  BY <1>9, ForkWatched
<1>10. CASE \E w \in ChildWatchers, p \in Pids : add_watch(w, p) \/ add_reserved(w, p)
  BY <1>10, UnownedWatched DEF add_watch, add_reserved
<1> QED BY <1>1, <1>2, <1>3, <1>4, <1>5, <1>6, <1>7, <1>8, <1>9, <1>10 DEF Next

\* Only send_signal() and kill() concern a signal that is about to be sent.
LEMMA StepSends ==
    ASSUME [Next]_vars, sendVars' # sendVars
    PROVE  kill \/ \E w \in ChildWatchers : send_signal(w)
<1>1. ASSUME \/ PollStart \/ PollReturn \/ ReadSignal \/ read_done
             \/ \E p \in Pids : Spawn(p) \/ Exit(p)
             \/ UNCHANGED vars
      PROVE  sendVars' = sendVars
  BY <1>1 DEF vars, PollStart, PollReturn, ReadSignal, read_signal, read_done, Spawn, Exit
<1>2. ASSUME NEW w \in SigWatchers, Raise(w) \/ register_signal(w) \/ deregister_signal(w)
      PROVE  sendVars' = sendVars
  BY <1>2 DEF Raise, register_signal, deregister_signal
<1>3. ASSUME NEW w \in Watchers,
             issue_delete(w) \/ dispatch(w) \/ HandlerReturn(w) \/ watch_removed(w)
      PROVE  sendVars' = sendVars
  BY <1>3 DEF issue_delete, dispatch, HandlerReturn, handler_return, handler_deleted,
       watch_removed
<1>4. ASSUME NEW w \in ChildWatchers,
             reserve_watch(w) \/ unreserve(w) \/ stop_watch(w) \/ deregister_child(w)
      PROVE  sendVars' = sendVars
  BY <1>4 DEF reserve_watch, unreserve, stop_watch, deregister_child
<1>5. ASSUME NEW w \in ChildWatchers, NEW p \in Pids,
             fork(w, p) \/ add_watch(w, p) \/ add_reserved(w, p)
      PROVE  sendVars' = sendVars
  BY <1>5 DEF fork, add_watch, add_reserved, watch_child
<1> QED BY <1>1, <1>2, <1>3, <1>4, <1>5 DEF Next

\* While a signal is about to be sent nothing is reaped, and no process gets the id of one
\* that is not: a child that was unreaped is the same unreaped child afterwards.
LEMMA UnreapedStays ==
    ASSUME TypeOK, [Next]_vars, poll # "reading", NEW p \in Pids, proc[p].st # "none"
    PROVE  proc'[p].st # "none" /\ proc'[p].gen = proc[p].gen
<1> USE DEF sigVars, childVars
<1>1. CASE proc' = proc
  BY <1>1
<1>2. CASE \E q \in Pids : Spawn(q) \/ \E w \in ChildWatchers : fork(w, q)
  <2>1. PICK q \in Pids : /\ proc[q].st = "none"
                          /\ proc' = [proc EXCEPT ![q] = [st |-> "running", gen |-> forks + 1]]
    BY <1>2 DEF Spawn, fork
  <2> QED BY <2>1 DEF TypeOK
<1>3. CASE \E q \in Pids : Exit(q)
  BY <1>3 DEF Exit, TypeOK
<1>4. ASSUME proc' # proc
      PROVE  \E q \in Pids : Spawn(q) \/ Exit(q) \/ \E w \in ChildWatchers : fork(w, q)
  <2>1. ASSUME PollStart \/ PollReturn \/ ReadSignal \/ read_done \/ kill \/ UNCHANGED vars
        PROVE  proc' = proc
    BY <2>1 DEF vars, PollStart, PollReturn, ReadSignal, read_signal, read_done, kill
  <2>2. ASSUME NEW w \in SigWatchers,
               Raise(w) \/ register_signal(w) \/ deregister_signal(w)
        PROVE  proc' = proc
    BY <2>2 DEF Raise, register_signal, deregister_signal
  <2>3. ASSUME NEW w \in Watchers,
               issue_delete(w) \/ dispatch(w) \/ HandlerReturn(w) \/ watch_removed(w)
        PROVE  proc' = proc
    BY <2>3 DEF issue_delete, dispatch, HandlerReturn, handler_return, handler_deleted,
         watch_removed, signal_rearm, child_rearm
  <2>4. ASSUME NEW w \in ChildWatchers,
               \/ reserve_watch(w) \/ unreserve(w) \/ stop_watch(w) \/ deregister_child(w)
               \/ send_signal(w)
        PROVE  proc' = proc
    BY <2>4 DEF reserve_watch, unreserve, stop_watch, deregister_child, send_signal
  <2>5. ASSUME NEW w \in ChildWatchers, NEW q \in Pids, add_watch(w, q) \/ add_reserved(w, q)
        PROVE  proc' = proc
    BY <2>5 DEF add_watch, add_reserved, watch_child
  <2> QED BY <1>4, <2>1, <2>2, <2>3, <2>4, <2>5 DEF Next
<1> QED BY <1>1, <1>2, <1>3, <1>4

\* No step but one of the watcher itself gives it another child, and such a step gives it
\* one that is not reaped.
LEMMA GivenUnreaped ==
    ASSUME TypeOK, [Next]_vars, "add_late" \notin Client, poll # "reading",
           NEW w \in ChildWatchers, cw'[w].pid # cw[w].pid \/ cw'[w].gen # cw[w].gen
    PROVE  /\ cw'[w].pid \in Pids /\ proc'[cw'[w].pid].st # "none"
           /\ proc'[cw'[w].pid].gen = cw'[w].gen
<1> USE DEF sigVars, childVars
<1>1. ASSUME NEW v \in ChildWatchers, NEW p \in Pids, fork(v, p)
      PROVE  w = v /\ cw'[w].pid = p /\ proc'[p].st # "none" /\ proc'[p].gen = cw'[w].gen
  BY <1>1, RecordTypes DEF fork, ChildWatcher, TypeOK
<1>2. ASSUME NEW v \in ChildWatchers, NEW p \in Pids, add_watch(v, p) \/ add_reserved(v, p)
      PROVE  w = v /\ cw'[w].pid = p /\ proc'[p].st # "none" /\ proc'[p].gen = cw'[w].gen
  <2>1. watch_child(v, p)
    BY <1>2 DEF add_watch, add_reserved
  <2> QED BY <2>1, RecordTypes DEF watch_child, ChildWatcher
<1>3. ASSUME NEW v \in ChildWatchers, stop_watch(v) \/ deregister_child(v)
      PROVE  FALSE
  BY <1>3, RecordTypes DEF stop_watch, deregister_child, ChildWatcher
<1>4. cw' # cw
  OBVIOUS
<1>5. \E v \in ChildWatchers :
        \/ stop_watch(v) \/ deregister_child(v)
        \/ \E p \in Pids : fork(v, p) \/ add_watch(v, p) \/ add_reserved(v, p)
  <2>1. ASSUME \/ PollStart \/ PollReturn \/ ReadSignal \/ read_done \/ kill \/ UNCHANGED vars
               \/ \E p \in Pids : Spawn(p) \/ Exit(p)
        PROVE  cw' = cw
    BY <2>1 DEF vars, PollStart, PollReturn, ReadSignal, read_signal, read_done, kill, Spawn,
         Exit
  <2>2. ASSUME NEW v \in SigWatchers,
               Raise(v) \/ register_signal(v) \/ deregister_signal(v)
        PROVE  cw' = cw
    BY <2>2 DEF Raise, register_signal, deregister_signal
  <2>3. ASSUME NEW v \in Watchers,
               issue_delete(v) \/ dispatch(v) \/ HandlerReturn(v) \/ watch_removed(v)
        PROVE  cw' = cw
    BY <2>3 DEF issue_delete, dispatch, HandlerReturn, handler_return, handler_deleted,
         watch_removed, signal_rearm, child_rearm
  <2>4. ASSUME NEW v \in ChildWatchers, reserve_watch(v) \/ unreserve(v) \/ send_signal(v)
        PROVE  cw' = cw
    BY <2>4 DEF reserve_watch, unreserve, send_signal
  <2> QED BY <1>4, <2>1, <2>2, <2>3, <2>4 DEF Next
<1> QED BY <1>1, <1>2, <1>3, <1>5

\* A signal is sent only to the watcher's own child, the target of a signal that is about
\* to be sent being held.
LEMMA StepSignalled ==
    ASSUME SignalledInv, [Next]_vars, "add_late" \notin Client,
           "signal_polling" \notin Client
    PROVE  TargetHeld' /\ SignalsOwnChild'
<1>0. TypeOK /\ ForkedIsWatched /\ TargetHeld /\ SignalsOwnChild
  BY DEF SignalledInv
<1>1. CASE kill
  <2>1. sending' = None /\ stray' = stray
    BY <1>0, <1>1 DEF kill, TargetHeld, TypeOK
  <2> QED BY <1>0, <2>1 DEF TargetHeld, SignalsOwnChild
<1>2. CASE \E w \in ChildWatchers : send_signal(w)
  <2>1. PICK w \in ChildWatchers : send_signal(w)
    BY <1>2
  <2>2. /\ cw[w].pid \in Pids /\ watching[cw[w].pid] # None
        /\ cw[w].gen = proc[cw[w].pid].gen
    BY <1>0, <2>1, SignalChildAssumption DEF send_signal, ForkedIsWatched
  <2>3. proc[cw[w].pid].st # "none"
    BY <1>0, <2>2 DEF ForkedIsWatched
  <2>4. poll' = "idle" /\ sending' = w /\ proc' = proc /\ cw' = cw /\ stray' = stray
    BY <2>1 DEF send_signal, childVars
  <2> QED BY <1>0, <2>2, <2>3, <2>4 DEF TargetHeld, SignalsOwnChild
<1>3. CASE sendVars' = sendVars
  <2>1. SignalsOwnChild'
    BY <1>0, <1>3 DEF sendVars, SignalsOwnChild
  <2>2. CASE sending' = None
    BY <2>1, <2>2 DEF TargetHeld
  <2>3. CASE sending' # None
    <3>1. sending # None /\ sending' = sending /\ poll = "idle" /\ sending \in ChildWatchers
      BY <1>0, <1>3, <2>3 DEF sendVars, TargetHeld, TypeOK
    <3>2. poll' = "idle"
      <4>1. ~PollStart
        BY <3>1 DEF PollStart
      <4>2. ASSUME NEW w \in Watchers,
                   issue_delete(w) \/ dispatch(w) \/ HandlerReturn(w) \/ watch_removed(w)
            PROVE  poll' = poll
        BY <4>2 DEF issue_delete, dispatch, HandlerReturn, handler_return, handler_deleted,
             watch_removed
      <4>3. ASSUME NEW w \in ChildWatchers,
                   \/ reserve_watch(w) \/ unreserve(w) \/ stop_watch(w)
                   \/ deregister_child(w) \/ send_signal(w)
                   \/ \E p \in Pids : fork(w, p) \/ add_watch(w, p) \/ add_reserved(w, p)
            PROVE  poll' = poll
        BY <4>3 DEF reserve_watch, unreserve, stop_watch, deregister_child, send_signal, fork,
             add_watch, add_reserved, watch_child
      <4>4. ASSUME \/ PollReturn \/ ReadSignal \/ read_done \/ kill \/ UNCHANGED vars
                   \/ \E p \in Pids : Spawn(p) \/ Exit(p)
                   \/ \E w \in SigWatchers :
                        Raise(w) \/ register_signal(w) \/ deregister_signal(w)
            PROVE  poll' = poll
        BY <3>1, <4>4 DEF PollReturn, ReadSignal, read_signal, read_done, kill, vars, Spawn,
             Exit, Raise, register_signal, deregister_signal
      <4> QED BY <3>1, <4>1, <4>2, <4>3, <4>4 DEF Next
    <3>3. /\ cw[sending].pid \in Pids /\ proc[cw[sending].pid].st # "none"
          /\ proc[cw[sending].pid].gen = cw[sending].gen
      BY <1>0, <3>1 DEF TargetHeld
    <3>4. CASE cw'[sending].pid = cw[sending].pid /\ cw'[sending].gen = cw[sending].gen
      BY <1>0, <2>1, <3>1, <3>2, <3>3, <3>4, UnreapedStays DEF TargetHeld
    <3>5. CASE cw'[sending].pid # cw[sending].pid \/ cw'[sending].gen # cw[sending].gen
      BY <1>0, <2>1, <3>1, <3>2, <3>5, GivenUnreaped DEF TargetHeld
    <3> QED BY <3>4, <3>5
  <2> QED BY <2>2, <2>3
<1> QED BY <1>1, <1>2, <1>3, StepSends

-----------------------------------------------------------------------------
(* Events, masks and entries.  The invariant is a conjunction over the     *)
(* watchers, and most steps are about one of them.                         *)

\* What EventsInv says of one watcher.
EventOK(w) ==
    /\ bw[w].queued \in {0, 1} /\ (bw[w].active => bw[w].queued = 0)
    /\ ~Unoccupied(w) => reg[w] \in {"reserved", "live", "removing"}
    /\ bw[w].deleteme => reg[w] = "dying" \/ (reg[w] = "live" /\ bw[w].active)

\* What it says of one signal watcher.
SignalOK(s) ==
    /\ reg[s] \notin {"reserved", "disarmed"}
    /\ s \in fdmask => reg[s] = "live" /\ ~bw[s].deleteme
    /\ s \in sigmask => s \in fdmask /\ Unoccupied(s)
    /\ poll = "reading" /\ s \in pending \cap fdmask => s \in sigmask

\* What it says of one entry of the map.
EntryOK(p, w) ==
    watching[p] = w => reg[w] = "live" /\ ~bw[w].deleteme /\ Unoccupied(w) /\ cw[w].pid = p

\* The habits under which a watcher may come to have two events.
Tidy == {"rearm_removing", "raise_reading", "reuse_queued"} \cap Client = {}

MasksAgree == poll # "reading" => fdmask = sigmask

\* The invariant, watcher by watcher.
LEMMA EventsInvParts ==
    ASSUME TypeOK
    PROVE  EventsInv <=> /\ \A w \in Watchers : EventOK(w)
                         /\ \A s \in SigWatchers : SignalOK(s)
                         /\ \A p \in Pids, w \in ChildWatchers : EntryOK(p, w)
                         /\ MasksAgree
<1>1. ASSUME NEW w \in Watchers
      PROVE  bw[w].queued + (IF bw[w].active THEN 1 ELSE 0) <= 1
               <=> bw[w].queued \in {0, 1} /\ (bw[w].active => bw[w].queued = 0)
  <2>1. bw[w].queued \in Nat
    BY RecordTypes
  <2>2. CASE bw[w].active
    BY <2>1, <2>2
  <2>3. CASE ~bw[w].active
    BY <2>1, <2>3
  <2> QED BY <2>2, <2>3
<1>2. EventsRegistered <=> \A w \in Watchers : EventOK(w)
  BY <1>1 DEF EventsRegistered, OneOutstanding, EventOK
<1>3. SignalsOwned <=> (\A s \in SigWatchers : SignalOK(s)) /\ MasksAgree
  BY DEF SignalsOwned, SignalOK, MasksAgree
<1>4. EntriesOwned <=> \A p \in Pids, w \in ChildWatchers : EntryOK(p, w)
  BY DEF EntriesOwned, EntryOK
<1> QED BY <1>2, <1>3, <1>4 DEF EventsInv

\* The parts make the invariant of the next state.
LEMMA NextEventsInv ==
    ASSUME TypeOK', MasksAgree', \A w \in Watchers : EventOK(w)',
           \A s \in SigWatchers : SignalOK(s)',
           \A p \in Pids, w \in ChildWatchers : EntryOK(p, w)'
    PROVE  EventsInv'
<1>1. ASSUME NEW w \in Watchers
      PROVE  bw'[w].queued + (IF bw'[w].active THEN 1 ELSE 0) <= 1
  <2>1. CASE bw'[w].active
    BY <2>1 DEF EventOK
  <2>2. CASE ~bw'[w].active
    BY <2>2 DEF EventOK
  <2> QED BY <2>1, <2>2
<1>2. EventsRegistered'
  BY <1>1 DEF EventsRegistered, OneOutstanding, EventOK
<1>3. SignalsOwned'
  BY DEF SignalsOwned, SignalOK, MasksAgree
<1>4. EntriesOwned'
  BY DEF EntriesOwned, EntryOK
<1> QED BY <1>2, <1>3, <1>4 DEF EventsInv

\* The loop starts without watchers.
LEMMA InitEvents == Init => EventsInv
<1> SUFFICES ASSUME Init PROVE EventsInv
  OBVIOUS
<1>1. TypeOK
  BY InitTypes
<1>2. \A w \in Watchers : EventOK(w)
  BY DEF Init, EventOK, Unoccupied, Idle
<1>3. \A s \in SigWatchers : SignalOK(s)
  BY SignalChildAssumption DEF Init, SignalOK, Watchers, SIGCHLD
<1>4. \A p \in Pids, w \in ChildWatchers : EntryOK(p, w)
  BY SignalChildAssumption DEF Init, EntryOK
<1> QED BY <1>1, <1>2, <1>3, <1>4, EventsInvParts DEF Init, MasksAgree

\* A step that concerns one signal watcher, whose parts it keeps.
LEMMA SignalFrame ==
    ASSUME EventsInv, TypeOK', NEW w \in SigWatchers, childVars' = childVars,
           \A v \in Watchers \ {w} : reg'[v] = reg[v] /\ bw'[v] = bw[v],
           \A v \in SigWatchers \ {w} :
              /\ v \in sigmask' <=> v \in sigmask
              /\ v \in fdmask' <=> v \in fdmask
              /\ v \in pending' <=> v \in pending,
           poll' = poll, EventOK(w)', SignalOK(w)', MasksAgree'
    PROVE  EventsInv'
<1>0. TypeOK
  BY DEF EventsInv
<1>1. ASSUME NEW v \in Watchers PROVE EventOK(v)'
  BY <1>0, <1>1, EventsInvParts DEF EventOK, Unoccupied
<1>2. ASSUME NEW v \in SigWatchers PROVE SignalOK(v)'
  <2>1. CASE v = w
    BY <2>1
  <2>2. CASE v # w
    BY <1>0, <2>2, EventsInvParts DEF SignalOK, Unoccupied, Watchers
  <2> QED BY <2>1, <2>2
<1>3. ASSUME NEW p \in Pids, NEW v \in ChildWatchers PROVE EntryOK(p, v)'
  <2>1. v # w /\ v \in Watchers
    BY SignalChildAssumption DEF Watchers
  <2> QED BY <1>0, <2>1, EventsInvParts DEF EntryOK, Unoccupied, childVars
<1> QED BY <1>1, <1>2, <1>3, NextEventsInv

\* A step that concerns one child watcher, whose parts it keeps.
LEMMA ChildFrame ==
    ASSUME EventsInv, TypeOK', NEW w \in ChildWatchers,
           sigVars' = sigVars, poll' = poll,
           \A v \in Watchers \ {w} : reg'[v] = reg[v] /\ bw'[v] = bw[v],
           \A v \in ChildWatchers \ {w} : cw'[v].pid = cw[v].pid,
           \A p \in Pids : watching'[p] \in {None, w, watching[p]},
           EventOK(w)', \A p \in Pids : EntryOK(p, w)'
    PROVE  EventsInv'
<1>0. TypeOK
  BY DEF EventsInv
<1>1. ASSUME NEW v \in Watchers PROVE EventOK(v)'
  BY <1>0, <1>1, EventsInvParts DEF EventOK, Unoccupied
<1>2. ASSUME NEW s \in SigWatchers PROVE SignalOK(s)'
  <2>1. s # w /\ s \in Watchers
    BY SignalChildAssumption DEF Watchers
  <2> QED BY <1>0, <2>1, EventsInvParts DEF SignalOK, Unoccupied, sigVars
<1>3. ASSUME NEW p \in Pids, NEW v \in ChildWatchers PROVE EntryOK(p, v)'
  <2>1. CASE v = w
    BY <2>1
  <2>2. CASE v # w
    <3>1. v \in Watchers /\ v # None
      BY SignalChildAssumption DEF Watchers
    <3> QED BY <1>0, <2>2, <3>1, EventsInvParts DEF EntryOK, Unoccupied
  <2> QED BY <2>1, <2>2
<1>4. MasksAgree'
  BY <1>0, EventsInvParts DEF MasksAgree, sigVars
<1> QED BY <1>1, <1>2, <1>3, <1>4, NextEventsInv

\* Raising a signal, registering a watcher for it and starting to deregister it.
LEMMA SignalStep ==
    ASSUME EventsInv, TypeOK', Tidy, NEW w \in SigWatchers,
           Raise(w) \/ register_signal(w) \/ deregister_signal(w)
    PROVE  EventsInv'
<1> USE DEF sigVars, childVars, sendVars
<1>0. w \in Watchers /\ TypeOK /\ EventOK(w) /\ SignalOK(w) /\ MasksAgree
  BY EventsInvParts DEF EventsInv, Watchers
<1>1. CASE Raise(w)
  <2>1. EventOK(w)' /\ MasksAgree'
    BY <1>0, <1>1 DEF Raise, EventOK, Unoccupied, MasksAgree
  <2>2. SignalOK(w)'
    BY <1>0, <1>1 DEF Raise, SignalOK, Unoccupied, Tidy
  <2> QED BY <1>1, <2>1, <2>2, SignalFrame DEF Raise
<1>2. CASE register_signal(w)
  <2>1. /\ reg'[w] = "live" /\ bw'[w] = Idle
        /\ \A v \in Watchers \ {w} : reg'[v] = reg[v] /\ bw'[v] = bw[v]
    BY <1>0, <1>2 DEF register_signal, TypeOK
  <2>2. EventOK(w)' /\ MasksAgree'
    BY <1>2, <2>1 DEF register_signal, EventOK, Unoccupied, MasksAgree, Idle
  <2>3. SignalOK(w)'
    BY <1>2, <2>1 DEF register_signal, SignalOK, Unoccupied, Idle, BaseLockFree
  <2>4. fdmask = sigmask
    BY <1>0, <1>2 DEF register_signal, BaseLockFree, MasksAgree
  <2> QED BY <1>2, <2>1, <2>2, <2>3, <2>4, SignalFrame DEF register_signal
<1>3. CASE deregister_signal(w)
  <2>1. /\ reg'[w] = "removing" /\ bw' = bw /\ ~bw[w].deleteme
        /\ \A v \in Watchers \ {w} : reg'[v] = reg[v]
    BY <1>0, <1>3 DEF deregister_signal, TypeOK
  <2>2. EventOK(w)' /\ MasksAgree'
    BY <1>0, <1>3, <2>1 DEF deregister_signal, EventOK, Unoccupied, MasksAgree
  <2>3. SignalOK(w)'
    BY <1>3, <2>1 DEF deregister_signal, SignalOK
  <2>4. fdmask = sigmask
    BY <1>0, <1>3 DEF deregister_signal, BaseLockFree, MasksAgree
  <2> QED BY <1>3, <2>1, <2>2, <2>3, <2>4, SignalFrame DEF deregister_signal
<1> QED BY <1>1, <1>2, <1>3

\* A step that concerns only the events of one watcher, for which no signal is read and
\* the map has no entry.
LEMMA EventFrame ==
    ASSUME EventsInv, TypeOK', NEW w \in Watchers, childVars' = childVars,
           sigVars' = sigVars, poll' = poll, poll # "reading" \/ w \notin fdmask,
           \A v \in Watchers \ {w} : reg'[v] = reg[v] /\ bw'[v] = bw[v],
           EventOK(w)', w \notin sigmask, \A p \in Pids : watching[p] # w,
           w \in SigWatchers => reg'[w] \notin {"reserved", "disarmed"}
    PROVE  EventsInv'
<1>0. TypeOK /\ EventOK(w) /\ MasksAgree /\ w \notin fdmask
  BY EventsInvParts DEF EventsInv, MasksAgree
<1>1. CASE w \in SigWatchers
  <2>1. SignalOK(w)' /\ MasksAgree'
    BY <1>0, <1>1 DEF SignalOK, MasksAgree, sigVars
  <2> QED BY <1>1, <2>1, SignalFrame DEF sigVars
<1>2. CASE w \in ChildWatchers
  <2>1. \A p \in Pids : EntryOK(p, w)'
    BY DEF EntryOK, childVars
  <2> QED BY <1>2, <2>1, ChildFrame DEF childVars
<1> QED BY <1>1, <1>2 DEF Watchers

\* A watcher that is being removed, is dead or has an event is in no mask and has no entry.
LEMMA BusyUnwatched ==
    ASSUME EventsInv, NEW w \in Watchers, reg[w] # "live" \/ ~Unoccupied(w) \/ bw[w].deleteme
    PROVE  w \notin sigmask /\ \A p \in Pids : watching[p] # w
<1>0. TypeOK
  BY DEF EventsInv
<1>1. CASE w \in SigWatchers
  <2>1. SignalOK(w)
    BY <1>0, <1>1, EventsInvParts
  <2>2. w \notin ChildWatchers \cup {None}
    BY <1>1, SignalChildAssumption
  <2> QED BY <1>0, <2>1, <2>2 DEF SignalOK, TypeOK
<1>2. CASE w \in ChildWatchers
  <2>1. \A p \in Pids : EntryOK(p, w)
    BY <1>0, <1>2, EventsInvParts
  <2>2. w \notin SigWatchers \cup {SIGCHLD}
    BY <1>2, SignalChildAssumption DEF SIGCHLD
  <2> QED BY <1>0, <2>1, <2>2 DEF EntryOK, TypeOK
<1> QED BY <1>1, <1>2 DEF Watchers

\* issue_delete(), dispatch() and what follows a handler that does not return to the loop.
LEMMA DispatchStep ==
    ASSUME EventsInv, TypeOK', NEW w \in Watchers,
           issue_delete(w) \/ dispatch(w) \/ handler_deleted(w) \/ watch_removed(w)
    PROVE  EventsInv'
<1> USE DEF sigVars, childVars, sendVars
<1>0. TypeOK /\ EventOK(w) /\ (w \in SigWatchers => SignalOK(w))
  BY EventsInvParts DEF EventsInv
<1>a. /\ bw \in [Watchers -> BaseWatcher]
      /\ reg \in [Watchers -> {"out", "reserved", "live", "disarmed", "removing", "dying"}]
  BY <1>0 DEF TypeOK
<1>1. CASE issue_delete(w)
  <2>1. \A v \in Watchers \ {w} : reg'[v] = reg[v] /\ bw'[v] = bw[v]
    BY <1>1, <1>a DEF issue_delete
  <2>2. EventOK(w)' /\ reg'[w] \in {"live", "out"}
    <3>1. CASE bw[w].active
      BY <1>0, <1>1, <1>a, <3>1 DEF issue_delete, EventOK, Unoccupied, BaseWatcher
    <3>2. CASE ~bw[w].active
      BY <1>0, <1>1, <1>a, <3>2 DEF issue_delete, EventOK, Unoccupied, BaseWatcher
    <3> QED BY <3>1, <3>2
  <2>3. reg[w] = "removing"
    BY <1>1 DEF issue_delete
  <2> QED BY <1>1, <2>1, <2>2, <2>3, BusyUnwatched, EventFrame DEF issue_delete, BaseLockFree
<1>2. CASE dispatch(w)
  <2>1. /\ \A v \in Watchers \ {w} : reg'[v] = reg[v] /\ bw'[v] = bw[v]
        /\ reg'[w] = reg[w]
    BY <1>2, <1>a DEF dispatch
  <2>2. bw[w].queued = 1 /\ bw[w].active = FALSE
    <3>1. bw[w].queued > 0
      BY <1>2 DEF dispatch
    <3>2. bw[w].queued = 1
      BY <1>0, <3>1 DEF EventOK
    <3>3. bw[w].active \in BOOLEAN
      BY <1>a DEF BaseWatcher
    <3> QED BY <1>0, <3>2, <3>3 DEF EventOK
  <2>3. ~Unoccupied(w) /\ ~bw[w].deleteme /\ reg[w] \in {"reserved", "live", "removing"}
    BY <1>0, <2>2 DEF EventOK, Unoccupied
  <2>4. bw'[w].queued = 0 /\ bw'[w].active /\ bw'[w].deleteme = bw[w].deleteme
    BY <1>2, <1>a, <2>2 DEF dispatch, BaseWatcher
  <2>5. EventOK(w)'
    BY <2>1, <2>3, <2>4 DEF EventOK
  <2>6. w \in SigWatchers => reg'[w] \notin {"reserved", "disarmed"}
    BY <1>0, <2>1 DEF SignalOK
  <2> QED BY <1>2, <2>1, <2>3, <2>5, <2>6, BusyUnwatched, EventFrame DEF dispatch, BaseLockFree
<1>3. CASE handler_deleted(w)
  <2>1. \A v \in Watchers \ {w} : reg'[v] = reg[v] /\ bw'[v] = bw[v]
    BY <1>3, <1>a DEF handler_deleted
  <2>2. EventOK(w)' /\ reg'[w] = "out" /\ bw[w].deleteme
    BY <1>3, <1>a DEF handler_deleted, EventOK, Unoccupied, Idle
  <2> QED BY <1>3, <2>1, <2>2, BusyUnwatched, EventFrame DEF handler_deleted, BaseLockFree
<1>4. CASE watch_removed(w)
  <2>1. \A v \in Watchers \ {w} : reg'[v] = reg[v] /\ bw'[v] = bw[v]
    BY <1>4, <1>a DEF watch_removed
  <2>2. EventOK(w)' /\ reg'[w] = "out" /\ reg[w] = "dying"
    BY <1>0, <1>4, <1>a DEF watch_removed, EventOK, Unoccupied, BaseWatcher
  <2>3. w \notin fdmask
    <3>1. CASE w \in SigWatchers
      BY <1>0, <2>2, <3>1 DEF SignalOK
    <3>2. CASE w \in ChildWatchers
      BY <1>0, <3>2, SignalChildAssumption DEF TypeOK, SIGCHLD
    <3> QED BY <3>1, <3>2 DEF Watchers
  <2> QED BY <1>4, <2>1, <2>2, <2>3, BusyUnwatched, EventFrame DEF watch_removed
<1> QED BY <1>1, <1>2, <1>3, <1>4

\* The rearm of a watcher whose handler has returned.
LEMMA HandlerStep ==
    ASSUME EventsInv, TypeOK', Tidy, NEW w \in Watchers, NEW r \in Rearms,
           handler_return(w, r)
    PROVE  EventsInv'
<1>0. TypeOK /\ EventOK(w) /\ (w \in SigWatchers => SignalOK(w)) /\ MasksAgree
  BY EventsInvParts DEF EventsInv
<1>1. /\ bw \in [Watchers -> BaseWatcher]
      /\ reg \in [Watchers -> {"out", "reserved", "live", "disarmed", "removing", "dying"}]
  BY <1>0 DEF TypeOK
<1>2. PICK e : e = EffectOf(w, r)
  OBVIOUS
<1>3. /\ bw[w].active /\ bw[w].queued = 0 /\ reg[w] \in {"reserved", "live", "removing"}
      /\ poll # "reading" /\ poll' = poll /\ ~Unoccupied(w)
  BY <1>0 DEF handler_return, EventOK, Unoccupied, BaseLockFree
<1>4. /\ \A v \in Watchers \ {w} : reg'[v] = reg[v] /\ bw'[v] = bw[v]
      /\ bw'[w].active = FALSE /\ bw'[w].queued = (IF e = "REQUEUE" THEN 1 ELSE 0)
      /\ bw'[w].deleteme = bw[w].deleteme
  BY <1>1, <1>2, <1>3 DEF handler_return, BaseWatcher
<1>5. /\ e = "REMOVE" => reg'[w] = "dying"
      /\ e # "REMOVE" => ~bw[w].deleteme
      /\ e # "REMOVE" /\ w \notin ChildWatchers => reg'[w] = reg[w]
      /\ e = "REQUEUE" => reg'[w] = reg[w]
  BY <1>1, <1>2 DEF handler_return, EffectOf
<1>6. EventOK(w)'
  BY <1>3, <1>4, <1>5 DEF EventOK, Unoccupied
<1>7. w \notin sigmask /\ w \notin fdmask /\ \A p \in Pids : watching[p] # w
  BY <1>0, <1>3, BusyUnwatched DEF MasksAgree
<1>8. CASE w \in SigWatchers
  <2>0. w \notin ChildWatchers
    BY <1>8, SignalChildAssumption
  <2>1. signal_rearm(w, e)
    BY <1>2, <1>8 DEF handler_return
  <2>2. /\ childVars' = childVars /\ pending' = pending /\ MasksAgree'
        /\ sigmask' = (IF e = "REARM" THEN sigmask \cup {w} ELSE sigmask)
        /\ fdmask' = sigmask'
    BY <1>0, <1>3, <1>7, <2>1 DEF signal_rearm, MasksAgree
  <2>3. reg[w] \in {"live", "removing"}
    BY <1>0, <1>3, <1>8 DEF SignalOK
  <2>4. SignalOK(w)'
    <3>1. CASE e = "REARM"
      <4>1. r = "REARM" /\ reg[w] = "live"
        BY <1>2, <2>3, <3>1 DEF EffectOf, handler_return, Tidy
      <4> QED BY <1>3, <1>4, <1>5, <2>0, <2>2, <3>1, <4>1 DEF SignalOK, Unoccupied
    <3>2. CASE e # "REARM"
      BY <1>3, <1>5, <1>7, <2>0, <2>2, <2>3, <3>2 DEF SignalOK
    <3> QED BY <3>1, <3>2
  <2>5. \A v \in SigWatchers \ {w} :
           /\ v \in sigmask' <=> v \in sigmask
           /\ v \in fdmask' <=> v \in fdmask
           /\ v \in pending' <=> v \in pending
    BY <1>0, <1>3, <2>2 DEF MasksAgree
  <2> QED BY <1>3, <1>4, <1>6, <1>8, <2>2, <2>4, <2>5, SignalFrame
<1>9. CASE w \in ChildWatchers
  <2>1. w \notin SigWatchers
    BY <1>9, SignalChildAssumption
  <2>2. sigVars' = sigVars /\ watching' = watching /\ cw' = cw
    BY <2>1 DEF handler_return, child_rearm, sigVars
  <2>3. \A p \in Pids : EntryOK(p, w)'
    BY <1>7, <2>2 DEF EntryOK
  <2> QED BY <1>3, <1>4, <1>6, <1>9, <2>2, <2>3, ChildFrame
<1> QED BY <1>8, <1>9 DEF Watchers

\* Reaping queues an event for each watcher that has an entry for a zombie, and for no
\* watcher twice.
LEMMA ReapStep ==
    ASSUME EventsInv, TypeOK', reap, pending' = pending \ {SIGCHLD},
           UNCHANGED <<sigmask, fdmask, poll, reg>>
    PROVE  EventsInv'
<1>0. TypeOK /\ MasksAgree
  BY EventsInvParts DEF EventsInv
<1>1. bw \in [Watchers -> BaseWatcher] /\ cw \in [ChildWatchers -> ChildWatcher]
  BY <1>0 DEF TypeOK
<1>2. \A w \in Watchers \ Told(Zombies) : bw'[w] = bw[w]
  BY DEF reap, receive_child_stat
<1>3. \A w \in ChildWatchers : cw'[w].pid = cw[w].pid
  BY <1>1 DEF reap, receive_child_stat, ChildWatcher
<1>4. ASSUME NEW w \in Watchers PROVE EventOK(w)'
  <2>1. EventOK(w)
    BY <1>0, EventsInvParts
  <2>2. CASE w \in Told(Zombies)
    <3>1. PICK p \in Pids : watching[p] = w /\ w \in ChildWatchers
      BY <2>2 DEF Told, Zombies
    <3>2. reg[w] = "live" /\ ~bw[w].deleteme /\ Unoccupied(w)
      BY <1>0, <3>1, EventsInvParts DEF EntryOK
    <3>3. bw'[w].queued = bw[w].queued + 1 /\ bw'[w].active = bw[w].active
          /\ bw'[w].deleteme = bw[w].deleteme
      BY <1>1, <2>2 DEF reap, receive_child_stat, BaseWatcher
    <3> QED BY <3>2, <3>3 DEF EventOK, Unoccupied
  <2>3. CASE w \notin Told(Zombies)
    BY <1>2, <2>1, <2>3 DEF EventOK, Unoccupied
  <2> QED BY <2>2, <2>3
<1>5. ASSUME NEW s \in SigWatchers PROVE SignalOK(s)'
  <2>1. s \in Watchers \ Told(Zombies)
    BY SignalChildAssumption DEF Told, Watchers
  <2> QED BY <1>0, <1>2, <2>1, EventsInvParts DEF SignalOK, Unoccupied
<1>6. ASSUME NEW p \in Pids, NEW w \in ChildWatchers PROVE EntryOK(p, w)'
  <2> SUFFICES ASSUME watching'[p] = w PROVE EntryOK(p, w)'
    BY DEF EntryOK
  <2>1. watching[p] = w /\ p \notin Zombies
    BY SignalChildAssumption DEF reap
  <2>2. EntryOK(p, w) /\ cw[w].pid = p
    BY <1>0, <2>1, EventsInvParts DEF EntryOK
  <2>3. w \notin Told(Zombies)
    <3> SUFFICES ASSUME NEW q \in Zombies, watching[q] = w PROVE FALSE
      BY DEF Told
    <3>1. q \in Pids
      BY DEF Zombies
    <3>2. cw[w].pid = q
      BY <1>0, <3>1, EventsInvParts DEF EntryOK
    <3> QED BY <2>1, <2>2, <3>2
  <2>4. w \in Watchers
    BY DEF Watchers
  <2> QED BY <1>2, <1>3, <2>1, <2>2, <2>3, <2>4 DEF EntryOK, Unoccupied
<1>7. MasksAgree'
  BY <1>0 DEF MasksAgree
<1> QED BY <1>4, <1>5, <1>6, <1>7, NextEventsInv

\* A read of the signalfd queues an event for a watcher that has none.
LEMMA ReadStep ==
    ASSUME EventsInv, TypeOK', NEW s \in SigWatchers \cup {SIGCHLD}, read_signal(s)
    PROVE  EventsInv'
<1>0. TypeOK /\ MasksAgree
  BY EventsInvParts DEF EventsInv
<1>1. CASE s = SIGCHLD
  BY <1>1, ReapStep DEF read_signal
<1>2. CASE s # SIGCHLD
  <2>1. s \in SigWatchers /\ s \in Watchers /\ SignalOK(s) /\ EventOK(s)
    BY <1>0, <1>2, EventsInvParts DEF Watchers
  <2>2. /\ poll = "reading" /\ s \in pending \cap fdmask /\ childVars' = childVars
        /\ bw' = [bw EXCEPT ![s].queued = @ + 1]
        /\ sigmask' = sigmask \ {s} /\ pending' = pending \ {s}
        /\ fdmask' = fdmask /\ poll' = poll /\ reg' = reg
    BY <1>2 DEF read_signal
  <2>3. reg[s] = "live" /\ ~bw[s].deleteme /\ Unoccupied(s)
    BY <2>1, <2>2 DEF SignalOK
  <2>4. /\ \A v \in Watchers \ {s} : bw'[v] = bw[v]
        /\ bw'[s].queued = 1 /\ bw'[s].active = bw[s].active
        /\ bw'[s].deleteme = bw[s].deleteme
    BY <1>0, <2>1, <2>2, <2>3, RecordTypes DEF BaseWatcher, Unoccupied
  <2>5. EventOK(s)' /\ SignalOK(s)' /\ MasksAgree'
    BY <2>2, <2>3, <2>4 DEF EventOK, SignalOK, MasksAgree, Unoccupied
  <2> QED BY <2>1, <2>2, <2>4, <2>5, SignalFrame
<1> QED BY <1>1, <1>2

\* A child watcher that is put to use: it has no event and no entry, and gets the one of
\* the child.
LEMMA UseStep ==
    ASSUME EventsInv, TypeOK', NEW w \in ChildWatchers, NEW p \in Pids,
           reg[w] \in {"out", "reserved"}, Unoccupied(w),
           add_from_reserve(w, p), sigVars' = sigVars, poll' = poll,
           bw' = [bw EXCEPT ![w].active = FALSE, ![w].deleteme = FALSE],
           reg' = [reg EXCEPT ![w] = "live"],
           cw'[w].pid = p, \A v \in ChildWatchers \ {w} : cw'[v] = cw[v]
    PROVE  EventsInv'
<1>0. TypeOK /\ w \in Watchers
  BY DEF EventsInv, Watchers
<1>1. /\ \A v \in Watchers \ {w} : reg'[v] = reg[v] /\ bw'[v] = bw[v]
      /\ reg'[w] = "live" /\ bw'[w].queued = 0 /\ ~bw'[w].active /\ ~bw'[w].deleteme
  BY <1>0, RecordTypes DEF TypeOK, BaseWatcher, Unoccupied
<1>2. EventOK(w)' /\ Unoccupied(w)'
  BY <1>1 DEF EventOK, Unoccupied
<1>3. \A q \in Pids : watching[q] # w
  BY <1>0, BusyUnwatched
<1>4. \A q \in Pids : watching'[q] = watching[q] \/ (q = p /\ watching'[q] = w)
  BY <1>0 DEF add_from_reserve, TypeOK
<1>5. \A q \in Pids : EntryOK(q, w)'
  BY <1>1, <1>2, <1>3, <1>4 DEF EntryOK
<1> QED BY <1>1, <1>2, <1>4, <1>5, ChildFrame

\* fork() fills in the watcher.
LEMMA ForkRecord ==
    ASSUME TypeOK, NEW w \in ChildWatchers, NEW p \in Pids, fork(w, p)
    PROVE  /\ cw'[w].pid = p /\ cw'[w].gen = forks + 1 /\ cw'[w].status = cw[w].status
           /\ \A v \in ChildWatchers \ {w} : cw'[v] = cw[v]
<1>1. PICK c : c = [cw[w] EXCEPT !.pid = p, !.gen = forks + 1, !.termd = FALSE, !.own = TRUE]
  OBVIOUS
<1>2. cw' = [cw EXCEPT ![w] = c]
  BY <1>1, Zenon DEF fork
<1>3. c.pid = p /\ c.gen = forks + 1 /\ c.status = cw[w].status
  BY <1>1, RecordTypes DEF ChildWatcher
<1> QED BY <1>2, <1>3, RecordTypes

\* So do add_watch() and add_reserved().
LEMMA WatchRecord ==
    ASSUME TypeOK, NEW w \in ChildWatchers, NEW p \in Pids, watch_child(w, p)
    PROVE  /\ cw'[w].pid = p /\ cw'[w].gen = proc[p].gen /\ cw'[w].status = cw[w].status
           /\ \A v \in ChildWatchers \ {w} : cw'[v] = cw[v]
<1>1. PICK c : c = [cw[w] EXCEPT !.pid = p, !.gen = proc[p].gen, !.termd = FALSE,
                                 !.own = FALSE]
  OBVIOUS
<1>2. cw' = [cw EXCEPT ![w] = c]
  BY <1>1, Zenon DEF watch_child
<1>3. c.pid = p /\ c.gen = proc[p].gen /\ c.status = cw[w].status
  BY <1>1, RecordTypes DEF ChildWatcher
<1> QED BY <1>2, <1>3, RecordTypes

\* A watcher that is put to use has no event.
LEMMA UsedUnoccupied ==
    ASSUME EventsInv, Tidy, NEW w \in ChildWatchers, reg[w] = "out" \/ MayUse(w)
    PROVE  Unoccupied(w) /\ reg[w] \in {"out", "reserved"}
<1>1. w \in Watchers /\ TypeOK /\ EventOK(w)
  BY EventsInvParts DEF EventsInv, Watchers
<1> QED BY <1>1 DEF MayUse, EventOK, Unoccupied, Tidy

\* The client's operations on a child watcher.
LEMMA ChildStep ==
    ASSUME EventsInv, TypeOK', Tidy, NEW w \in ChildWatchers,
           \/ reserve_watch(w) \/ unreserve(w) \/ stop_watch(w) \/ deregister_child(w)
           \/ \E p \in Pids : fork(w, p) \/ add_watch(w, p) \/ add_reserved(w, p)
    PROVE  EventsInv'
<1>0. w \in Watchers /\ TypeOK /\ EventOK(w)
  BY EventsInvParts DEF EventsInv, Watchers
<1>a. /\ bw \in [Watchers -> BaseWatcher] /\ cw \in [ChildWatchers -> ChildWatcher]
      /\ reg \in [Watchers -> {"out", "reserved", "live", "disarmed", "removing", "dying"}]
  BY <1>0 DEF TypeOK
<1>1. CASE reserve_watch(w)
  <2>1. /\ \A v \in Watchers \ {w} : reg'[v] = reg[v] /\ bw'[v] = bw[v]
        /\ EventOK(w)' /\ reg[w] = "out" /\ watching' = watching /\ cw' = cw
    BY <1>0, <1>1, <1>a DEF reserve_watch, EventOK, Unoccupied, Idle
  <2>2. \A p \in Pids : EntryOK(p, w)'
    BY <1>0, <2>1, BusyUnwatched DEF EntryOK
  <2> QED BY <1>1, <2>1, <2>2, ChildFrame DEF reserve_watch
<1>2. CASE unreserve(w)
  <2>1. /\ \A v \in Watchers \ {w} : reg'[v] = reg[v]
        /\ reg'[w] \in {"out", "reserved"} /\ reg[w] = "reserved"
        /\ bw' = bw /\ watching' = watching /\ cw' = cw
    BY <1>0, <1>2, <1>a DEF unreserve
  <2>2. EventOK(w)'
    BY <1>0, <1>2, <2>1 DEF unreserve, EventOK, Unoccupied
  <2>3. \A p \in Pids : EntryOK(p, w)'
    BY <1>0, <2>1, BusyUnwatched DEF EntryOK
  <2> QED BY <1>2, <2>1, <2>2, <2>3, ChildFrame DEF unreserve
<1>3. CASE stop_watch(w) \/ deregister_child(w)
  <2>1. /\ bw' = bw /\ watching' = Unwatched(w) /\ sigVars' = sigVars /\ poll' = poll
        /\ cw' = [cw EXCEPT ![w].own = FALSE]
        /\ \A v \in Watchers \ {w} : reg'[v] = reg[v]
        /\ reg'[w] \in {"reserved", "removing"}
    BY <1>0, <1>3, <1>a DEF stop_watch, deregister_child, sigVars
  <2>2. ~bw[w].deleteme
    BY <1>0, <1>3 DEF stop_watch, deregister_child, EventOK
  <2>3. EventOK(w)'
    BY <1>0, <2>1, <2>2 DEF EventOK, Unoccupied
  <2>4. \A p \in Pids : watching'[p] # w /\ watching'[p] \in {None, watching[p]}
    BY <2>1, SignalChildAssumption DEF Unwatched
  <2>5. \A p \in Pids : EntryOK(p, w)'
    BY <2>4 DEF EntryOK
  <2>6. \A v \in ChildWatchers \ {w} : cw'[v].pid = cw[v].pid
    BY <2>1, <1>a
  <2> QED BY <2>1, <2>3, <2>4, <2>5, <2>6, ChildFrame
<1>4. ASSUME NEW p \in Pids, fork(w, p)
      PROVE  EventsInv'
  <2>1. /\ add_from_reserve(w, p) /\ sigVars' = sigVars /\ poll' = poll
        /\ bw' = [bw EXCEPT ![w].active = FALSE, ![w].deleteme = FALSE]
        /\ reg' = [reg EXCEPT ![w] = "live"]
    BY <1>4 DEF fork, sigVars
  <2>2. Unoccupied(w) /\ reg[w] \in {"out", "reserved"}
    BY <1>4, UsedUnoccupied DEF fork
  <2> QED BY <1>0, <1>4, <2>1, <2>2, ForkRecord, UseStep
<1>5. ASSUME NEW p \in Pids, add_watch(w, p) \/ add_reserved(w, p)
      PROVE  EventsInv'
  <2>0. watch_child(w, p)
    BY <1>5 DEF add_watch, add_reserved
  <2>1. /\ add_from_reserve(w, p) /\ sigVars' = sigVars /\ poll' = poll
        /\ bw' = [bw EXCEPT ![w].active = FALSE, ![w].deleteme = FALSE]
        /\ reg' = [reg EXCEPT ![w] = "live"]
    BY <2>0 DEF watch_child, sigVars
  <2>2. Unoccupied(w) /\ reg[w] \in {"out", "reserved"}
    BY <1>5, UsedUnoccupied DEF add_watch, add_reserved
  <2> QED BY <1>0, <2>0, <2>1, <2>2, WatchRecord, UseStep
<1> QED BY <1>1, <1>2, <1>3, <1>4, <1>5

\* The steps of the poll other than a read, the system's, and send_signal() touch no
\* watcher.
LEMMA QuietStep ==
    ASSUME EventsInv, TypeOK', reg' = reg, bw' = bw, cw' = cw, watching' = watching,
           sigmask' = sigmask,
           \/ PollStart \/ PollReturn \/ read_done
           \/ /\ fdmask' = fdmask /\ poll' = poll
              /\ pending' \in {pending, pending \cup {SIGCHLD}}
    PROVE  EventsInv'
<1>0. TypeOK /\ MasksAgree
  BY EventsInvParts DEF EventsInv
<1>1. \A w \in Watchers : EventOK(w)'
  BY <1>0, EventsInvParts DEF EventOK, Unoccupied
<1>2. \A p \in Pids, w \in ChildWatchers : EntryOK(p, w)'
  BY <1>0, EventsInvParts DEF EntryOK, Unoccupied
<1>3. MasksAgree'
  BY <1>0 DEF MasksAgree, PollStart, PollReturn, read_done, sigVars
<1>4. ASSUME NEW s \in SigWatchers PROVE SignalOK(s)'
  <2>1. SignalOK(s) /\ s # SIGCHLD
    BY <1>0, EventsInvParts, SignalChildAssumption DEF SIGCHLD
  <2>2. CASE PollStart \/ PollReturn
    BY <1>0, <2>1, <2>2 DEF SignalOK, Unoccupied, MasksAgree, PollStart, PollReturn, sigVars
  <2>3. CASE read_done
    BY <2>1, <2>3 DEF SignalOK, Unoccupied, read_done
  <2>4. CASE /\ fdmask' = fdmask /\ poll' = poll
             /\ pending' \in {pending, pending \cup {SIGCHLD}}
    BY <2>1, <2>4 DEF SignalOK, Unoccupied
  <2> QED BY <2>2, <2>3, <2>4
<1> QED BY <1>1, <1>2, <1>3, <1>4, NextEventsInv

\* Every step keeps the invariant.
LEMMA StepEvents ==
    ASSUME EventsInv, [Next]_vars, Tidy
    PROVE  EventsInv'
<1> USE DEF sigVars, childVars, sendVars
<1>0. TypeOK'
  BY StepTypes DEF EventsInv
<1>1. CASE UNCHANGED vars
  BY <1>0, <1>1, QuietStep DEF vars
<1>2. CASE \E p \in Pids : Spawn(p) \/ Exit(p)
  BY <1>0, <1>2, QuietStep DEF Spawn, Exit
<1>3. CASE PollStart \/ PollReturn \/ read_done
  BY <1>0, <1>3, QuietStep DEF PollStart, PollReturn, read_done
<1>4. CASE ReadSignal
  BY <1>0, <1>4, ReadStep DEF ReadSignal
<1>5. CASE \E w \in SigWatchers : Raise(w) \/ register_signal(w) \/ deregister_signal(w)
  BY <1>0, <1>5, SignalStep
<1>6. CASE \E w \in Watchers :
             issue_delete(w) \/ dispatch(w) \/ HandlerReturn(w) \/ watch_removed(w)
  BY <1>0, <1>6, DispatchStep, HandlerStep DEF HandlerReturn
<1>7. CASE kill \/ \E w \in ChildWatchers : send_signal(w)
  BY <1>0, <1>7, QuietStep DEF kill, send_signal
<1>8. CASE \E w \in ChildWatchers :
             \/ reserve_watch(w) \/ unreserve(w) \/ stop_watch(w) \/ deregister_child(w)
             \/ \E p \in Pids : fork(w, p) \/ add_watch(w, p) \/ add_reserved(w, p)
  BY <1>0, <1>8, ChildStep
<1> QED BY <1>1, <1>2, <1>3, <1>4, <1>5, <1>6, <1>7, <1>8 DEF Next

-----------------------------------------------------------------------------
(* Statuses.                                                               *)

\* What gives no watcher an event, a child or an entry leaves the statuses alone.
LEMMA SameStatus ==
    ASSUME StatusOwned, proc' = proc, cw' = cw, watching' = watching,
           \A w \in ChildWatchers : ~Unoccupied(w)' => ~Unoccupied(w)
    PROVE  StatusOwned'
BY DEF StatusOwned

\* Reaping gives a watcher the status of the process that its entry is for.
LEMMA ReapStatus ==
    ASSUME EventsInv, StatusOwned, reap
    PROVE  StatusOwned'
<1>0. TypeOK
  BY DEF EventsInv
<1>1. bw \in [Watchers -> BaseWatcher] /\ cw \in [ChildWatchers -> ChildWatcher]
  BY <1>0 DEF TypeOK
<1>2. ASSUME NEW p \in Pids, NEW w \in ChildWatchers, watching'[p] = w
      PROVE  cw'[w].gen = proc'[p].gen
  <2>1. watching[p] = w /\ p \notin Zombies
    BY <1>2, SignalChildAssumption DEF reap
  <2>2. cw[w].gen = proc[p].gen /\ proc'[p] = proc[p]
    BY <2>1 DEF StatusOwned, reap, Reaped
  <2>3. cw'[w].gen = cw[w].gen
    BY <1>1 DEF reap, receive_child_stat, ChildWatcher
  <2> QED BY <2>2, <2>3
<1>3. ASSUME NEW w \in ChildWatchers, ~Unoccupied(w)'
      PROVE  cw'[w].status = cw'[w].gen
  <2>1. CASE w \in Told(Zombies)
    <3>1. PICK p \in Pids : p = ZombieOf(w, Zombies) /\ watching[p] = w
      BY <2>1, ToldOf DEF Zombies
    <3>2. cw'[w].status = proc[p].gen /\ cw'[w].gen = cw[w].gen
      BY <1>1, <2>1, <3>1 DEF reap, receive_child_stat, ChildWatcher
    <3> QED BY <3>1, <3>2 DEF StatusOwned
  <2>2. CASE w \notin Told(Zombies)
    BY <1>3, <2>2 DEF StatusOwned, reap, receive_child_stat, Unoccupied, Watchers
  <2> QED BY <2>1, <2>2
<1> QED BY <1>2, <1>3 DEF StatusOwned

\* A new process under an id has no entry, and its watcher no event.
LEMMA ForkStatus ==
    ASSUME EventsInv, StatusOwned, ForkedIsWatched, Tidy,
           NEW w \in ChildWatchers, NEW p \in Pids, fork(w, p)
    PROVE  StatusOwned'
<1>0. TypeOK /\ w \in Watchers
  BY DEF EventsInv, Watchers
<1>1. watching' = [watching EXCEPT ![p] = w] /\ watching[p] = None
  BY DEF fork, add_from_reserve, ForkedIsWatched
<1>2. Unoccupied(w) /\ reg[w] \in {"out", "reserved"}
  BY UsedUnoccupied DEF fork
<1>3. \A q \in Pids : watching[q] # w
  BY <1>0, <1>2, BusyUnwatched
<1>4. /\ cw'[w].pid = p /\ cw'[w].gen = forks + 1 /\ cw'[w].status = cw[w].status
      /\ \A v \in ChildWatchers \ {w} : cw'[v] = cw[v]
  BY <1>0, ForkRecord
<1>5. proc'[p].gen = forks + 1 /\ \A q \in Pids \ {p} : proc'[q] = proc[q]
  BY <1>0 DEF fork, TypeOK
<1>6. \A v \in ChildWatchers : ~Unoccupied(v)' => ~Unoccupied(v) /\ v # w
  <2>1. bw'[w].queued = bw[w].queued /\ ~bw'[w].active
        /\ \A v \in Watchers \ {w} : bw'[v] = bw[v]
    BY <1>0, RecordTypes DEF fork, BaseWatcher
  <2> QED BY <1>2, <2>1 DEF Unoccupied, Watchers
<1>7. ASSUME NEW q \in Pids, NEW v \in ChildWatchers, watching'[q] = v
      PROVE  cw'[v].gen = proc'[q].gen
  <2>1. CASE q = p
    BY <1>0, <1>1, <1>4, <1>5, <1>7, <2>1 DEF TypeOK
  <2>2. CASE q # p
    <3>1. watching[q] = v /\ v # w
      BY <1>1, <1>3, <1>7, <2>2, <1>0 DEF TypeOK
    <3> QED BY <1>4, <1>5, <2>2, <3>1 DEF StatusOwned
  <2> QED BY <2>1, <2>2
<1>8. \A v \in ChildWatchers : ~Unoccupied(v)' => cw'[v].status = cw'[v].gen
  BY <1>4, <1>6 DEF StatusOwned
<1> QED BY <1>7, <1>8 DEF StatusOwned

\* A watcher that is given a child, or ends its watch.
LEMMA WatchStatus ==
    ASSUME EventsInv, StatusOwned, Tidy, NEW w \in ChildWatchers,
           \/ stop_watch(w) \/ deregister_child(w)
           \/ \E p \in Pids : add_watch(w, p) \/ add_reserved(w, p)
    PROVE  StatusOwned'
<1>0. TypeOK /\ w \in Watchers
  BY DEF EventsInv, Watchers
<1>1. CASE stop_watch(w) \/ deregister_child(w)
  <2>1. /\ proc' = proc /\ bw' = bw /\ cw' = [cw EXCEPT ![w].own = FALSE]
        /\ watching' = Unwatched(w)
    BY <1>1 DEF stop_watch, deregister_child
  <2>2. \A v \in ChildWatchers : cw'[v].gen = cw[v].gen /\ cw'[v].status = cw[v].status
    BY <1>0, <2>1, RecordTypes DEF ChildWatcher
  <2>3. \A q \in Pids : watching'[q] \in {None, watching[q]}
    BY <2>1 DEF Unwatched
  <2> QED BY <2>1, <2>2, <2>3, SignalChildAssumption DEF StatusOwned, Unoccupied
<1>2. ASSUME NEW p \in Pids, add_watch(w, p) \/ add_reserved(w, p)
      PROVE  StatusOwned'
  <2>1. watch_child(w, p)
    BY <1>2 DEF add_watch, add_reserved
  <2>2. /\ watching' = [watching EXCEPT ![p] = w] /\ proc' = proc
        /\ bw' = [bw EXCEPT ![w].active = FALSE, ![w].deleteme = FALSE]
    BY <2>1 DEF watch_child, add_from_reserve
  <2>3. Unoccupied(w) /\ reg[w] \in {"out", "reserved"}
    BY <1>2, UsedUnoccupied DEF add_watch, add_reserved
  <2>4. \A q \in Pids : watching[q] # w
    BY <1>0, <2>3, BusyUnwatched
  <2>5. /\ cw'[w].gen = proc[p].gen
        /\ \A v \in ChildWatchers \ {w} : cw'[v] = cw[v]
    BY <1>0, <2>1, WatchRecord
  <2>6. \A v \in ChildWatchers : ~Unoccupied(v)' => ~Unoccupied(v) /\ v # w
    <3>1. bw'[w].queued = bw[w].queued /\ ~bw'[w].active
          /\ \A v \in Watchers \ {w} : bw'[v] = bw[v]
      BY <1>0, <2>2, RecordTypes DEF BaseWatcher
    <3> QED BY <2>3, <3>1 DEF Unoccupied, Watchers
  <2>7. ASSUME NEW q \in Pids, NEW v \in ChildWatchers, watching'[q] = v
        PROVE  cw'[v].gen = proc'[q].gen
    <3>1. CASE q = p
      BY <1>0, <2>2, <2>5, <2>7, <3>1 DEF TypeOK
    <3>2. CASE q # p
      BY <1>0, <2>2, <2>4, <2>5, <2>7, <3>2 DEF TypeOK, StatusOwned
    <3> QED BY <3>1, <3>2
  <2>8. \A v \in ChildWatchers : ~Unoccupied(v)' => cw'[v].status = cw'[v].gen
    BY <2>5, <2>6 DEF StatusOwned
  <2> QED BY <2>7, <2>8 DEF StatusOwned
<1> QED BY <1>1, <1>2

\* Dispatch and handlers pass on the event that is there.
LEMMA DispatchStatus ==
    ASSUME EventsInv, StatusOwned, NEW w \in Watchers,
           issue_delete(w) \/ dispatch(w) \/ HandlerReturn(w) \/ watch_removed(w)
    PROVE  StatusOwned'
<1> USE DEF sigVars, childVars, sendVars
<1>0. TypeOK
  BY DEF EventsInv
<1>1. proc' = proc /\ cw' = cw /\ watching' = watching
  BY DEF issue_delete, dispatch, HandlerReturn, handler_return, handler_deleted,
     watch_removed, signal_rearm, child_rearm
<1>2. \A v \in Watchers \ {w} : bw'[v] = bw[v]
  BY <1>0 DEF issue_delete, dispatch, HandlerReturn, handler_return, handler_deleted,
     watch_removed, TypeOK
<1>3. ~Unoccupied(w)' => ~Unoccupied(w)
  <2>1. CASE dispatch(w)
    BY <2>1 DEF dispatch, Unoccupied
  <2>2. CASE HandlerReturn(w)
    BY <2>2 DEF HandlerReturn, handler_return, handler_deleted, Unoccupied
  <2>3. CASE watch_removed(w)
    BY <1>0, <2>3, RecordTypes DEF watch_removed, Unoccupied, BaseWatcher
  <2>4. CASE issue_delete(w)
    BY <1>0, <2>4, RecordTypes DEF issue_delete, Unoccupied, BaseWatcher
  <2> QED BY <2>1, <2>2, <2>3, <2>4
<1>4. \A v \in ChildWatchers : ~Unoccupied(v)' => ~Unoccupied(v)
  BY <1>2, <1>3 DEF Unoccupied, Watchers
<1> QED BY <1>1, <1>4, SameStatus

\* Every step keeps statuses with their processes.
LEMMA StepStatus ==
    ASSUME EventsInv, StatusOwned, ForkedIsWatched, [Next]_vars, Tidy
    PROVE  StatusOwned'
<1> USE DEF sigVars, childVars, sendVars
<1>0. TypeOK
  BY DEF EventsInv
<1>1. CASE \/ UNCHANGED vars \/ PollStart \/ PollReturn \/ read_done \/ kill
           \/ \E w \in SigWatchers : Raise(w) \/ deregister_signal(w)
           \/ \E w \in ChildWatchers : unreserve(w) \/ send_signal(w)
  <2>1. UNCHANGED <<bw, proc, cw, watching>>
    BY <1>1 DEF vars, PollStart, PollReturn, read_done, Raise, deregister_signal, unreserve,
         send_signal, kill
  <2> QED BY <2>1, SameStatus DEF Unoccupied
<1>2. CASE \E p \in Pids : Exit(p)
  BY <1>0, <1>2 DEF Exit, StatusOwned, Unoccupied, TypeOK
<1>3. CASE \E p \in Pids : Spawn(p)
  <2>1. PICK p \in Pids : Spawn(p)
    BY <1>3
  <2>2. watching[p] = None /\ UNCHANGED <<bw, cw, watching>>
    BY <2>1 DEF Spawn, ForkedIsWatched
  <2>3. \A q \in Pids \ {p} : proc'[q] = proc[q]
    BY <1>0, <2>1 DEF Spawn, TypeOK
  <2> QED BY <2>2, <2>3, SignalChildAssumption DEF StatusOwned, Unoccupied
<1>4. CASE ReadSignal
  <2>1. PICK s \in SigWatchers \cup {SIGCHLD} : read_signal(s)
    BY <1>4 DEF ReadSignal
  <2>2. CASE s = SIGCHLD
    BY <2>1, <2>2, ReapStatus DEF read_signal
  <2>3. CASE s # SIGCHLD
    <3>1. UNCHANGED <<proc, cw, watching>> /\ bw' = [bw EXCEPT ![s].queued = @ + 1]
      BY <2>1, <2>3 DEF read_signal
    <3>2. \A w \in ChildWatchers : bw'[w] = bw[w]
      BY <1>0, <2>3, <3>1, SignalChildAssumption DEF TypeOK, Watchers
    <3> QED BY <3>1, <3>2, SameStatus DEF Unoccupied
  <2> QED BY <2>2, <2>3
<1>5. CASE \E w \in SigWatchers : register_signal(w)
  <2>1. PICK w \in SigWatchers : register_signal(w)
    BY <1>5
  <2>2. \A v \in ChildWatchers : bw'[v] = bw[v]
    BY <1>0, <2>1, SignalChildAssumption DEF register_signal, TypeOK, Watchers
  <2> QED BY <2>1, <2>2, SameStatus DEF register_signal, Unoccupied
<1>6. CASE \E w \in ChildWatchers : reserve_watch(w)
  <2>1. PICK w \in ChildWatchers : reserve_watch(w)
    BY <1>6
  <2>2. bw' = [bw EXCEPT ![w] = Idle] /\ w \in Watchers
    BY <2>1 DEF reserve_watch, Watchers
  <2>3. \A v \in ChildWatchers : ~Unoccupied(v)' => ~Unoccupied(v)
    BY <1>0, <2>2 DEF Unoccupied, Idle, TypeOK, Watchers
  <2> QED BY <2>1, <2>3, SameStatus DEF reserve_watch
<1>7. CASE \E w \in Watchers :
             issue_delete(w) \/ dispatch(w) \/ HandlerReturn(w) \/ watch_removed(w)
  BY <1>7, DispatchStatus
<1>8. CASE \E w \in ChildWatchers :
             \/ stop_watch(w) \/ deregister_child(w)
             \/ \E p \in Pids : add_watch(w, p) \/ add_reserved(w, p)
  BY <1>8, WatchStatus
<1>9. CASE \E w \in ChildWatchers, p \in Pids : fork(w, p)
  BY <1>9, ForkStatus
<1> QED BY <1>1, <1>2, <1>3, <1>4, <1>5, <1>6, <1>7, <1>8, <1>9 DEF Next

-----------------------------------------------------------------------------
(* The theorems.                                                           *)

\* The types hold, whatever client and system do.
THEOREM SignalChildTypes == Spec => []TypeOK
<1>1. Init => TypeOK
  BY InitTypes
<1>2. TypeOK /\ [Next]_vars => TypeOK'
  BY StepTypes
<1> QED BY <1>1, <1>2, PTL DEF Spec

\* Events, signal masks and map entries belong to registered watchers that are ready for
\* them (EventsInv), through all registrations, removals, reads of the signalfd, reaping
\* and handlers; also when watches are added for children reaped already.
THEOREM EventsInvariant == Tidy /\ Spec => []EventsInv
<1> SUFFICES ASSUME Tidy PROVE Spec => []EventsInv
  OBVIOUS
<1>1. Init => EventsInv
  BY InitEvents
<1>2. EventsInv /\ [Next]_vars => EventsInv'
  BY StepEvents
<1> QED BY <1>1, <1>2, PTL DEF Spec

\* A watcher never has a second event while one is queued or with its handler, so that
\* queue_watcher() never inserts its heap handle twice.
THEOREM SignalOneOutstanding == Tidy /\ Spec => []OneOutstanding
<1>1. EventsInv => OneOutstanding
  BY DEF EventsInv, EventsRegistered
<1> QED BY <1>1, EventsInvariant, PTL

\* After watch_removed() nothing of the loop leads to the watcher: no event, no mask, no
\* entry of child_waiters.
THEOREM SignalRemovedIsQuiet == Tidy /\ Spec => []RemovedIsQuiet
<1>1. ASSUME EventsInv, NEW w \in Watchers, reg[w] = "out"
      PROVE  /\ bw[w].queued = 0 /\ ~bw[w].active
             /\ w \notin sigmask \cup fdmask
             /\ \A p \in Pids : watching[p] # w
  <2>0. TypeOK /\ EventOK(w)
    BY <1>1, EventsInvParts DEF EventsInv
  <2>1. Unoccupied(w)
    BY <1>1, <2>0 DEF EventOK
  <2>2. w \notin fdmask
    <3>1. CASE w \in SigWatchers
      BY <1>1, <2>0, <3>1, EventsInvParts DEF SignalOK
    <3>2. CASE w \in ChildWatchers
      BY <2>0, <3>2, SignalChildAssumption DEF TypeOK, SIGCHLD
    <3> QED BY <3>1, <3>2 DEF Watchers
  <2> QED BY <1>1, <2>1, <2>2, BusyUnwatched DEF Unoccupied
<1>2. EventsInv => RemovedIsQuiet
  BY <1>1 DEF RemovedIsQuiet
<1> QED BY <1>2, EventsInvariant, PTL

\* send_signal() of a watcher started with fork() reaches no other process, though process
\* ids are used again: its child has an entry, and is unreaped, until its end is noted, and
\* it stays unreaped until kill() is called.  The latter is for want of a poll during the
\* call and not because of the reaper lock, which is copied: hence the second hypothesis,
\* which holds of every loop with a single thread.
THEOREM ForkedChildIsSignalled ==
    ASSUME "add_late" \notin Client, "signal_polling" \notin Client
    PROVE  Spec => []SignalsOwnChild
<1>1. Init => SignalledInv
  BY InitTypes DEF Init, SignalledInv, ForkedIsWatched, TargetHeld, SignalsOwnChild, NoChild
<1>2. SignalledInv /\ [Next]_vars => SignalledInv'
  BY StepTypes, StepWatched, StepSignalled DEF SignalledInv
<1>3. SignalledInv => SignalsOwnChild
  BY DEF SignalledInv
<1> QED BY <1>1, <1>2, <1>3, PTL DEF Spec

\* The status that a handler is given is that of the process its watcher was last given,
\* also when process ids are used again and watches stop and start.
THEOREM ChildStatusIsOwn == "add_late" \notin Client /\ Tidy /\ Spec => []StatusIsOwn
<1> SUFFICES ASSUME "add_late" \notin Client, Tidy PROVE Spec => []StatusIsOwn
  OBVIOUS
<1>1. Init => EventsInv /\ ForkedIsWatched /\ StatusOwned
  BY InitEvents, SignalChildAssumption
     DEF Init, ForkedIsWatched, StatusOwned, NoChild, Unoccupied, Idle, Watchers
<1>2. EventsInv /\ ForkedIsWatched /\ StatusOwned /\ [Next]_vars
        => EventsInv' /\ ForkedIsWatched' /\ StatusOwned'
  BY StepEvents, StepWatched, StepStatus DEF EventsInv
<1>3. StatusOwned => StatusIsOwn
  BY DEF StatusOwned, StatusIsOwn, Unoccupied
<1> QED BY <1>1, <1>2, <1>3, PTL DEF Spec
=============================================================================
