-------------------------- MODULE SelectLoopProofs --------------------------
(***************************************************************************)
(* Proofs about the select() and pselect() backends, for any sets of       *)
(* watchers, any readiness of the descriptor, and with or without other    *)
(* threads.  Each theorem names the habits of clients and system that it   *)
(* excludes; with them the property fails.                                 *)
(***************************************************************************)
EXTENDS SelectLoop, TLAPS

-----------------------------------------------------------------------------
(* Units, and what they are units of.                                      *)

\* A direction of a descriptor is a unit of the watcher that has it.
LEMMA FdUnit ==
    ASSUME NEW w \in Watched, NEW d \in Dirs
    PROVE  /\ <<w, d>> \in Units /\ <<w, d>> \notin SigWatchers
           /\ WatcherOf(<<w, d>>) = w /\ w \in Watchers /\ w \notin SigWatchers
           /\ <<w, d>> \in UnitsOf(w) /\ <<w, d>>[2] = d
<1>1. <<w, d>> \in Units /\ <<w, d>> \notin SigWatchers /\ w \in Watchers /\ w \notin SigWatchers
  BY SelectLoopAssumption DEF Units, Watched, Watchers, Dirs
<1> QED BY <1>1 DEF WatcherOf, UnitsOf

\* A signal watcher is its own unit.
LEMMA SigUnit ==
    ASSUME NEW s \in SigWatchers
    PROVE  /\ s \in Units /\ WatcherOf(s) = s /\ s \in Watchers /\ s \notin Watched
           /\ UnitsOf(s) = {s}
<1>1. s \in Units /\ WatcherOf(s) = s /\ s \in Watchers /\ s \notin Watched
  BY SelectLoopAssumption DEF Units, Watched, Watchers, WatcherOf
<1>2. \A u \in Units : WatcherOf(u) = s => u = s
  <2> SUFFICES ASSUME NEW u \in Units, WatcherOf(u) = s, u \notin SigWatchers PROVE FALSE
    BY DEF WatcherOf
  <2>1. PICK w \in Watched, d \in Dirs : u = <<w, d>>
    BY DEF Units
  <2> QED BY <1>1, <2>1, FdUnit
<1> QED BY <1>1, <1>2 DEF UnitsOf

\* There are no other units.
LEMMA UnitKinds ==
    ASSUME NEW u \in Units
    PROVE  /\ u \in SigWatchers \/ \E w \in Watched, d \in Dirs : u = <<w, d>>
           /\ WatcherOf(u) \in Watchers
           /\ u \notin SigWatchers => u[2] \in Dirs
<1>1. CASE u \in SigWatchers
  BY <1>1, SigUnit
<1>2. CASE u \notin SigWatchers
  <2>1. PICK w \in Watched, d \in Dirs : u = <<w, d>>
    BY <1>2 DEF Units
  <2> QED BY <2>1, FdUnit
<1> QED BY <1>1, <1>2

-----------------------------------------------------------------------------
(* Types.                                                                  *)

\* The types hold at first.
LEMMA InitTypes == Init => TypeOK
<1> SUFFICES ASSUME Init PROVE TypeOK
  OBVIOUS
<1>1. /\ do_wait \in BOOLEAN /\ long_poll_running \in BOOLEAN
      /\ pipe \in BOOLEAN /\ piped \in BOOLEAN
  BY DEF Init
<1>2. queued \in [Units -> Nat] /\ udata \in [Dirs -> Watched \cup {None}]
  BY DEF Init
<1> QED BY <1>1, <1>2 DEF Init, TypeOK

\* The system keeps the types.
LEMMA SystemTypes ==
    ASSUME TypeOK,
           (\E s \in SigWatchers : Raise(s)) \/ (\E R \in Readiness : ReadyChange(R))
    PROVE  TypeOK'
<1>1. CASE \E s \in SigWatchers : Raise(s)
  BY <1>1 DEF Raise, TypeOK, fdVars, sigVars, pollVars
<1>2. CASE \E R \in Readiness : ReadyChange(R)
  BY <1>2, SelectLoopAssumption DEF ReadyChange, TypeOK, fdVars, sigVars, pollVars, Dirs
<1> QED BY <1>1, <1>2

\* Writing to the interrupt channel.
LEMMA InterruptType == TypeOK /\ interrupt_if_necessary => pipe' \in BOOLEAN
BY DEF interrupt_if_necessary

\* The client's calls keep the types.
LEMMA ClientTypes ==
    ASSUME TypeOK,
           \/ \E w \in Watched :
                \/ \E D \in SUBSET Dirs, b \in BOOLEAN : register_fd(w, D, b)
                \/ \E d \in Dirs, b \in BOOLEAN : set_enabled(w, d, b)
                \/ deregister_fd(w)
           \/ \E s \in SigWatchers : add_signal_watch(s) \/ deregister_signal(s)
           \/ \E w \in Watchers : get_attn_lock(w) \/ issue_delete(w)
    PROVE  TypeOK'
<1> USE DEF TypeOK, fdVars, sigVars, pollVars
<1>1. CASE \E w \in Watched, D \in SUBSET Dirs, b \in BOOLEAN : register_fd(w, D, b)
  <2>1. PICK w \in Watched, D \in SUBSET Dirs, b \in BOOLEAN : register_fd(w, D, b)
    BY <1>1
  <2>2. pipe' \in BOOLEAN
    BY <2>1, InterruptType DEF register_fd
  <2>3. {w} \X (IF w \in BidiWatchers THEN Dirs ELSE D) \subseteq Units
    BY DEF Units
  <2>4. udata' \in [Dirs -> Watched \cup {None}]
    BY <2>1 DEF register_fd
  <2> QED BY <2>1, <2>2, <2>3, <2>4, FdUnit DEF register_fd
<1>2. CASE \E w \in Watched, d \in Dirs, b \in BOOLEAN : set_enabled(w, d, b)
  <2>1. PICK w \in Watched, d \in Dirs, b \in BOOLEAN : set_enabled(w, d, b)
    BY <1>2
  <2>2. pipe' \in BOOLEAN
    BY <2>1, InterruptType DEF set_enabled
  <2> QED BY <2>1, <2>2, FdUnit DEF set_enabled
<1>3. CASE \E w \in Watched : deregister_fd(w)
  <2>1. PICK w \in Watched : deregister_fd(w)
    BY <1>3
  <2>2. udata' \in [Dirs -> Watched \cup {None}]
    BY <2>1 DEF deregister_fd
  <2> QED BY <2>1, <2>2 DEF deregister_fd, Watchers
<1>4. CASE \E s \in SigWatchers : add_signal_watch(s) \/ deregister_signal(s)
  <2>1. CASE \E s \in SigWatchers : add_signal_watch(s)
    <3>1. pipe' \in BOOLEAN
      BY <2>1, InterruptType DEF add_signal_watch
    <3> QED BY <2>1, <3>1, SigUnit DEF add_signal_watch
  <2>2. CASE \E s \in SigWatchers : deregister_signal(s)
    BY <2>2, SigUnit DEF deregister_signal
  <2> QED BY <1>4, <2>1, <2>2
<1>5. CASE \E w \in Watchers : get_attn_lock(w)
  <2>1. pipe' \in BOOLEAN
    BY <1>5 DEF get_attn_lock
  <2> QED BY <1>5, <2>1 DEF get_attn_lock
<1>6. CASE \E w \in Watchers : issue_delete(w)
  BY <1>6 DEF issue_delete
<1> QED BY <1>1, <1>2, <1>3, <1>4, <1>5, <1>6

\* Dispatch and handlers keep the types.
LEMMA HandlerTypes ==
    ASSUME TypeOK, NEW u \in Units, dispatch(u) \/ \E r \in Rearms : handler_return(u, r)
    PROVE  TypeOK'
<1> USE DEF TypeOK, fdVars, sigVars, pollVars
<1>1. CASE dispatch(u)
  BY <1>1 DEF dispatch
<1>2. CASE \E r \in Rearms : handler_return(u, r)
  <2>1. PICK r \in Rearms : handler_return(u, r)
    BY <1>2
  <2>2. PICK e : e = IF reg[WatcherOf(u)] = "doomed" THEN "REMOVE" ELSE r
    OBVIOUS
  <2>3. pipe' \in BOOLEAN
    BY <2>1, InterruptType DEF handler_return
  <2>4. /\ fdset' \in SUBSET Dirs /\ udata' \in [Dirs -> Watched \cup {None}]
        /\ active' \in SUBSET SigWatchers /\ handled' \in SUBSET SigWatchers
        /\ sig_userdata' \in SUBSET SigWatchers
    <3>1. CASE u \in SigWatchers
      <4>1. signal_rearm(u, e)
        BY <2>1, <2>2, <3>1 DEF handler_return
      <4> QED BY <3>1, <4>1 DEF signal_rearm
    <3>2. CASE u \notin SigWatchers
      <4>1. fd_rearm(u[2], e) /\ u[2] \in Dirs
        BY <2>1, <2>2, <3>2, UnitKinds DEF handler_return
      <4> QED BY <4>1 DEF fd_rearm
    <3> QED BY <3>1, <3>2
  <2>5. /\ queued' \in [Units -> Nat] /\ units' \in SUBSET Units /\ running' \in SUBSET Units
        /\ reg' \in [Watchers -> {"out", "live", "removing", "attn", "doomed"}]
    BY <2>1, UnitKinds DEF handler_return
  <2> QED BY <2>1, <2>3, <2>4, <2>5 DEF handler_return
<1> QED BY <1>1, <1>2

\* The steps of a poll keep the types.
LEMMA PollTypes ==
    ASSUME TypeOK, Poll \/ PullStep
    PROVE  TypeOK'
<1> USE DEF TypeOK, fdVars, sigVars, pollVars
<1>1. CASE \E wait \in BOOLEAN : pull_begin(wait)
  <2>1. PICK wait \in BOOLEAN : pull_begin(wait)
    BY <1>1
  <2>2. do_wait' \in BOOLEAN /\ long_poll_running' \in BOOLEAN
    BY <2>1 DEF pull_begin
  <2> QED BY <2>1, <2>2 DEF pull_begin
<1>2. CASE wait_begin
  BY <1>2 DEF wait_begin
<1>3. CASE process_signal
  <2>1. queued' \in [Units -> Nat] /\ active' \in SUBSET SigWatchers
    BY <1>3, SigUnit DEF process_signal
  <2>2. do_wait' \in BOOLEAN
    BY <1>3 DEF process_signal
  <2> QED BY <1>3, <2>1, <2>2 DEF process_signal
<1>4. CASE wait_return
  BY <1>4 DEF wait_return
<1>5. CASE mask_signals
  BY <1>5 DEF mask_signals
<1>6. CASE process_events
  <2>1. pipe' \in BOOLEAN /\ piped' \in BOOLEAN /\ do_wait' \in BOOLEAN /\ long_poll_running' \in BOOLEAN
    BY <1>6 DEF process_events
  <2> QED BY <1>6, <2>1 DEF process_events
<1>7. CASE \E s \in SigWatchers : signal_handler(s)
  BY <1>7 DEF signal_handler
<1> QED BY <1>1, <1>2, <1>3, <1>4, <1>5, <1>6, <1>7 DEF Poll, PullStep

\* The type invariant, which needs no other.
LEMMA TypesKept == TypeOK /\ [Next]_vars => TypeOK'
<1> SUFFICES ASSUME TypeOK, [Next]_vars PROVE TypeOK'
  OBVIOUS
<1>1. CASE UNCHANGED vars
  BY <1>1 DEF vars, TypeOK, fdVars, sigVars, pollVars
<1>2. CASE Next
  BY <1>2, SystemTypes, ClientTypes, HandlerTypes, PollTypes DEF Next
<1> QED BY <1>1, <1>2

-----------------------------------------------------------------------------
(* Who owns what is enabled.                                               *)

\* Nothing is enabled at first.
LEMMA InitOwners == Init => UnitsRegistered /\ FdOwned /\ SigOwned
<1> SUFFICES ASSUME Init PROVE UnitsRegistered /\ FdOwned /\ SigOwned
  OBVIOUS
<1>1. \A w \in Watchers : reg[w] = "out"
  BY DEF Init
<1>2. UnitsRegistered
  BY <1>1, SigUnit DEF Init, UnitsRegistered
<1>3. FdOwned
  BY <1>1 DEF Init, FdOwned, Watchers, Watched
<1>4. SigOwned
  BY <1>1, SigUnit DEF Init, SigOwned
<1> QED BY <1>2, <1>3, <1>4

\* Steps that leave watchers and their sets alone.
LEMMA SameOwners ==
    ASSUME UnitsRegistered, FdOwned, UNCHANGED <<reg, units, queued, running, fdset, udata>>
    PROVE  UnitsRegistered' /\ FdOwned'
<1>1. UnitsRegistered'
  BY DEF UnitsRegistered
<1>2. FdOwned'
  BY DEF FdOwned
<1> QED BY <1>1, <1>2

\* What leaves the signals and who is registered alone keeps the signals owned.
LEMMA SameSignals ==
    ASSUME SigOwned, \A s \in SigWatchers : reg'[s] = "live" <=> reg[s] = "live",
           UNCHANGED <<backend, sigVars, unmasked, leaked, poll>>
    PROVE  SigOwned'
BY DEF SigOwned, sigVars, Landing

\* add_watch() puts the watcher into the sets and the user data together.
LEMMA RegisterFdStep ==
    ASSUME SelectInv, "one_way" \notin Client, NEW w \in Watched, NEW D \in SUBSET Dirs,
           NEW b \in BOOLEAN, register_fd(w, D, b)
    PROVE  UnitsRegistered' /\ FdOwned' /\ SigOwned'
<1> USE DEF SelectInv
<1>1. /\ reg \in [Watchers -> {"out", "live", "removing", "attn", "doomed"}]
      /\ udata \in [Dirs -> Watched \cup {None}] /\ fdset \subseteq Dirs /\ units \subseteq Units
      /\ w \in Watchers /\ w \notin SigWatchers
  BY SelectLoopAssumption DEF TypeOK, Watchers, Watched
<1>2. /\ reg[w] = "out" /\ MayRegister(w, D) /\ reg' = [reg EXCEPT ![w] = "live"]
      /\ units' = units \cup ({w} \X D) /\ fdset' = fdset \cup D
      /\ udata' = [d \in Dirs |-> IF d \in D THEN w ELSE udata[d]]
      /\ UNCHANGED <<backend, sigVars, unmasked, leaked, poll, queued, running>>
  <2>1. w \in BidiWatchers => D = Dirs
    BY DEF register_fd, DirsOf
  <2> QED BY <2>1 DEF register_fd, pollVars
<1>3. \A v \in Watchers : reg[v] # "out" => v # w /\ reg'[v] = reg[v]
  BY <1>1, <1>2
<1>4. UnitsRegistered'
  <2>1. ASSUME NEW u \in units' PROVE reg'[WatcherOf(u)] # "out"
    <3>1. CASE u \in units
      <4>1. reg[WatcherOf(u)] # "out" /\ WatcherOf(u) \in Watchers
        BY <1>1, <3>1, UnitKinds DEF UnitsRegistered
      <4> QED BY <1>3, <4>1
    <3>2. CASE u \notin units
      <4>1. PICK d \in D : u = <<w, d>>
        BY <1>2, <2>1, <3>2
      <4>2. WatcherOf(u) = w
        BY <4>1, FdUnit
      <4> QED BY <1>1, <1>2, <4>2
    <3> QED BY <3>1, <3>2
  <2>2. \A s \in SigWatchers : reg'[s] = reg[s]
    BY <1>1, <1>2 DEF Watchers
  <2> QED BY <1>2, <2>1, <2>2 DEF UnitsRegistered
<1>5. \A v \in Watched, d \in Dirs : <<v, d>> \in units =>
          /\ v # w /\ d \notin D /\ reg[v] # "out" /\ reg'[v] = reg[v]
  <2> TAKE v \in Watched, d \in Dirs
  <2> HAVE <<v, d>> \in units
  <2>1. reg[v] # "out"
    BY FdUnit DEF UnitsRegistered
  <2> QED BY <1>2, <1>3, <2>1 DEF MayRegister, Watchers
<1>6. FdOwned'
  <2>1. \A v \in Watched, d \in Dirs : <<v, d>> \in units' => <<v, d>> \in units \/ (v = w /\ d \in D)
    BY <1>2
  <2>2. ASSUME NEW v \in Watched, NEW x \in Watched, NEW d \in Dirs,
               <<v, d>> \in units', <<x, d>> \in units'
        PROVE  x = v
    BY <1>5, <2>1, <2>2 DEF FdOwned
  <2>3. ASSUME NEW a \in BidiWatchers, NEW v \in Watched, reg'[a] # "out", reg'[v] # "out"
        PROVE  v = a
    <3>1. a \in Watched /\ a \in Watchers /\ v \in Watchers
      BY DEF Watched, Watchers
    <3>2. (reg[a] # "out" \/ a = w) /\ (reg[v] # "out" \/ v = w)
      BY <1>1, <1>2, <2>3, <3>1
    <3> QED BY <1>2, <3>1, <3>2 DEF FdOwned, MayRegister
  <2>4. ASSUME NEW v \in Watched, NEW d \in Dirs, reg'[v] = "live", <<v, d>> \in units'
        PROVE  udata'[d] = v
    BY <1>2, <1>5, <2>1, <2>4 DEF FdOwned
  <2>5. ASSUME NEW d \in fdset'
        PROVE  udata'[d] \in Watched /\ reg'[udata'[d]] = "live" /\ <<udata'[d], d>> \in units'
    <3>1. CASE d \in D
      BY <1>1, <1>2, <3>1
    <3>2. CASE d \notin D
      BY <1>1, <1>2, <1>5, <3>2 DEF FdOwned
    <3> QED BY <3>1, <3>2
  <2> QED BY <2>2, <2>3, <2>4, <2>5 DEF FdOwned
<1>7. SigOwned'
  BY <1>1, <1>2, SameSignals DEF Watchers
<1> QED BY <1>4, <1>6, <1>7

\* Enabling and disabling are for registered watchers, whose user data are in place.
LEMMA SetEnabledStep ==
    ASSUME SelectInv, NEW w \in Watched, NEW d \in Dirs, NEW b \in BOOLEAN, set_enabled(w, d, b)
    PROVE  UnitsRegistered' /\ FdOwned' /\ SigOwned'
<1> USE DEF SelectInv
<1>1. /\ reg[w] = "live" /\ <<w, d>> \in units /\ fdset' \in {fdset \cup {d}, fdset \ {d}}
      /\ queued' \in {queued, [queued EXCEPT ![<<w, d>>] = 0]}
      /\ UNCHANGED <<backend, udata, sigVars, unmasked, leaked, poll, reg, units, running>>
  BY DEF set_enabled, pollVars
<1>2. UnitsRegistered'
  BY <1>1, FdUnit DEF UnitsRegistered, TypeOK
<1>3. FdOwned'
  <2>1. udata[d] = w
    BY <1>1 DEF FdOwned
  <2> QED BY <1>1, <2>1 DEF FdOwned
<1>4. SigOwned'
  BY <1>1, SameSignals
<1> QED BY <1>2, <1>3, <1>4

\* The first part of deregister() takes the watcher out of the sets.
LEMMA DeregisterFdStep ==
    ASSUME SelectInv, NEW w \in Watched, deregister_fd(w)
    PROVE  UnitsRegistered' /\ FdOwned' /\ SigOwned'
<1> USE DEF SelectInv
<1>1. /\ reg[w] = "live" /\ reg' = [reg EXCEPT ![w] = "removing"]
      /\ reg \in [Watchers -> {"out", "live", "removing", "attn", "doomed"}]
      /\ w \in Watchers /\ w \notin SigWatchers
      /\ UNCHANGED <<backend, sigVars, unmasked, leaked, poll, units, queued, running>>
  BY SelectLoopAssumption DEF deregister_fd, pollVars, TypeOK, Watchers, Watched
<1>2. \A v \in Watchers : v # w => reg'[v] = reg[v]
  BY <1>1
<1>3. \A v \in Watchers : reg'[v] = "out" <=> reg[v] = "out"
  BY <1>1
<1>4. UnitsRegistered'
  <2>1. \A u \in units : WatcherOf(u) \in Watchers
    BY UnitKinds DEF TypeOK
  <2> QED BY <1>1, <1>3, <2>1 DEF UnitsRegistered, Watchers
<1>5. FdOwned'
  <2>1. \A v, x \in Watched, d \in Dirs : <<v, d>> \in units' /\ <<x, d>> \in units' => x = v
    BY <1>1 DEF FdOwned
  <2>2. \A b \in BidiWatchers, v \in Watched : reg'[b] # "out" /\ reg'[v] # "out" => v = b
    BY <1>3 DEF FdOwned, Watchers, Watched
  <2>3. CASE w \in BidiWatchers
    <3>1. fdset' = {} /\ udata' = udata
      BY <2>3 DEF deregister_fd
    <3>2. \A v \in Watched, d \in Dirs : reg'[v] = "live" /\ <<v, d>> \in units' => udata'[d] = v
      BY <1>1, <1>2, <3>1 DEF FdOwned, Watchers
    <3> QED BY <2>1, <2>2, <3>1, <3>2 DEF FdOwned
  <2>4. CASE w \notin BidiWatchers
    <3>1. PICK D : D = {d \in Dirs : <<w, d>> \in units}
      OBVIOUS
    <3>2. fdset' = fdset \ D /\ udata' = [d \in Dirs |-> IF d \in D THEN None ELSE udata[d]]
      BY <2>4, <3>1 DEF deregister_fd
    <3>3. ASSUME NEW v \in Watched, NEW d \in Dirs, reg'[v] = "live", <<v, d>> \in units'
          PROVE  udata'[d] = v
      <4>1. v # w /\ reg[v] = "live" /\ <<v, d>> \in units
        BY <1>1, <1>2, <3>3 DEF Watchers
      <4>2. d \notin D
        BY <3>1, <4>1 DEF FdOwned
      <4> QED BY <3>2, <4>1, <4>2 DEF FdOwned
    <3>4. ASSUME NEW d \in fdset'
          PROVE  udata'[d] \in Watched /\ reg'[udata'[d]] = "live" /\ <<udata'[d], d>> \in units'
      <4>1. d \in fdset /\ d \notin D /\ d \in Dirs /\ udata'[d] = udata[d]
        BY <3>2, <3>4 DEF TypeOK
      <4>2. udata[d] \in Watched /\ reg[udata[d]] = "live" /\ <<udata[d], d>> \in units
        BY <4>1 DEF FdOwned
      <4>3. udata[d] # w
        BY <3>1, <4>1, <4>2
      <4> QED BY <1>1, <1>2, <4>1, <4>2, <4>3 DEF Watchers
    <3> QED BY <2>1, <2>2, <3>3, <3>4 DEF FdOwned
  <2> QED BY <2>3, <2>4
<1>6. SigOwned'
  BY <1>1, <1>2, SameSignals DEF Watchers
<1> QED BY <1>4, <1>5, <1>6

\* Signal watches: registration installs the handler, deregistration masks the signal.
LEMMA SignalWatchStep ==
    ASSUME SelectInv, "remove_polling" \notin Client, NEW s \in SigWatchers,
           add_signal_watch(s) \/ deregister_signal(s)
    PROVE  UnitsRegistered' /\ FdOwned' /\ SigOwned'
<1> USE DEF SelectInv
<1>1. PICK r : /\ r \in {"live", "removing"} /\ reg' = [reg EXCEPT ![s] = r]
               /\ r = "live" => reg[s] = "out" /\ units' = units \cup {s}
               /\ r = "removing" => reg[s] = "live" /\ units' = units
  BY DEF add_signal_watch, deregister_signal
<1>2. /\ reg \in [Watchers -> {"out", "live", "removing", "attn", "doomed"}]
      /\ s \in Watchers /\ s \notin Watched /\ s \in Units /\ WatcherOf(s) = s
      /\ UNCHANGED <<backend, fdset, udata, poll, unmasked, leaked, queued, running>>
  BY SigUnit DEF TypeOK, add_signal_watch, deregister_signal, fdVars, pollVars
<1>3. UnitsRegistered'
  <2>1. \A u \in units : WatcherOf(u) \in Watchers
    BY UnitKinds DEF TypeOK
  <2>2. \A u \in units' : reg'[WatcherOf(u)] # "out"
    BY <1>1, <1>2, <2>1 DEF UnitsRegistered
  <2>3. \A v \in SigWatchers : reg'[v] # "out" => v \in units'
    BY <1>1, <1>2 DEF UnitsRegistered, Watchers
  <2>4. \A u \in Units : queued'[u] > 0 \/ u \in running' => u \in units'
    BY <1>1, <1>2 DEF UnitsRegistered
  <2> QED BY <2>2, <2>3, <2>4 DEF UnitsRegistered
<1>4. FdOwned'
  <2>1. \A w \in Watched : reg'[w] = reg[w]
    BY <1>1, <1>2 DEF Watchers
  <2>2. ASSUME NEW w \in Watched, NEW d \in Dirs
        PROVE  <<w, d>> \in units' <=> <<w, d>> \in units
    <3>1. <<w, d>> # s
      BY FdUnit
    <3> QED BY <1>1, <3>1
  <2>3. fdset \subseteq Dirs /\ BidiWatchers \subseteq Watched
    BY DEF TypeOK, Watched
  <2> QED BY <1>2, <2>1, <2>2, <2>3 DEF FdOwned
<1>5. SigOwned'
  <2>1. CASE add_signal_watch(s)
    <3>1. {v \in SigWatchers : reg'[v] = "live"} = {v \in SigWatchers : reg[v] = "live"} \cup {s}
      BY <1>2, <2>1 DEF add_signal_watch, Watchers
    <3> QED BY <1>2, <2>1, <3>1 DEF add_signal_watch, SigOwned, Landing
  <2>2. CASE deregister_signal(s)
    <3>1. {v \in SigWatchers : reg'[v] = "live"} = {v \in SigWatchers : reg[v] = "live"} \ {s}
      BY <1>2, <2>2 DEF deregister_signal, Watchers
    <3>2. s \notin unmasked
      BY <2>2 DEF deregister_signal
    <3> QED BY <1>2, <2>2, <3>1, <3>2 DEF deregister_signal, SigOwned, Landing
  <2> QED BY <2>1, <2>2
<1> QED BY <1>3, <1>4, <1>5

\* The claim of the attention lock comes after the watcher has left the sets.
LEMMA AttentionStep ==
    ASSUME SelectInv, NEW w \in Watchers, get_attn_lock(w)
    PROVE  UnitsRegistered' /\ FdOwned' /\ SigOwned'
<1> USE DEF SelectInv
<1>1. /\ reg[w] = "removing" /\ reg' = [reg EXCEPT ![w] = "attn"]
      /\ reg \in [Watchers -> {"out", "live", "removing", "attn", "doomed"}]
      /\ UNCHANGED <<backend, fdset, udata, sigVars, poll, unmasked, leaked, units, queued, running>>
  BY DEF get_attn_lock, TypeOK, fdVars, pollVars
<1>2. \A v \in Watchers : /\ reg'[v] = "out" <=> reg[v] = "out"
                          /\ reg'[v] = "live" <=> reg[v] = "live"
  BY <1>1
<1>3. UnitsRegistered'
  <2>1. \A u \in units : WatcherOf(u) \in Watchers
    BY UnitKinds DEF TypeOK
  <2> QED BY <1>1, <1>2, <2>1 DEF UnitsRegistered, Watchers
<1>4. FdOwned'
  BY <1>1, <1>2 DEF FdOwned, Watchers, Watched
<1>5. SigOwned'
  BY <1>1, <1>2, SameSignals DEF Watchers
<1> QED BY <1>3, <1>4, <1>5

\* Nothing enabled belongs to a watcher that is being deregistered, so that it can go.
LEMMA IssueDeleteStep ==
    ASSUME SelectInv, NEW w \in Watchers, issue_delete(w)
    PROVE  UnitsRegistered' /\ FdOwned' /\ SigOwned'
<1> USE DEF SelectInv
<1>1. PICK busy : busy = UnitsOf(w) \cap running
  OBVIOUS
<1>2. /\ reg[w] = "attn" /\ reg' = [reg EXCEPT ![w] = IF busy = {} THEN "out" ELSE "doomed"]
      /\ reg \in [Watchers -> {"out", "live", "removing", "attn", "doomed"}]
      /\ units' = (units \ UnitsOf(w)) \cup busy
      /\ queued' = [u \in Units |-> IF u \in UnitsOf(w) \ busy THEN 0 ELSE queued[u]]
      /\ UNCHANGED <<backend, fdset, udata, sigVars, poll, unmasked, leaked, running>>
  BY <1>1 DEF issue_delete, TypeOK, fdVars, pollVars
<1>3. busy \subseteq units /\ units' \subseteq units /\ units \subseteq Units
  BY <1>1, <1>2 DEF UnitsRegistered, UnitsOf, TypeOK
<1>4. \A v \in Watchers : /\ reg'[v] # "out" => reg[v] # "out"
                          /\ reg'[v] = "live" <=> reg[v] = "live"
                          /\ v # w => reg'[v] = reg[v]
  BY <1>2
<1>5. UnitsRegistered'
  <2>1. ASSUME NEW u \in units' PROVE reg'[WatcherOf(u)] # "out"
    <3>1. u \in units /\ u \in Units /\ WatcherOf(u) \in Watchers
      BY <1>3, <2>1, UnitKinds
    <3>2. CASE WatcherOf(u) # w
      BY <1>4, <3>1, <3>2 DEF UnitsRegistered
    <3>3. CASE WatcherOf(u) = w
      <4>1. u \in busy
        BY <1>2, <2>1, <3>1, <3>3 DEF UnitsOf
      <4> QED BY <1>2, <3>3, <4>1
    <3> QED BY <3>2, <3>3
  <2>2. ASSUME NEW v \in SigWatchers, reg'[v] # "out" PROVE v \in units'
    <3>1. v \in units /\ v \in Units /\ UnitsOf(v) = {v} /\ v \in Watchers /\ WatcherOf(v) = v
      BY <1>4, <2>2, SigUnit DEF UnitsRegistered
    <3>2. CASE v = w
      <4>1. busy # {}
        BY <1>2, <2>2, <3>2
      <4> QED BY <1>1, <1>2, <3>1, <3>2, <4>1
    <3>3. CASE v # w
      BY <1>2, <3>1, <3>3 DEF UnitsOf
    <3> QED BY <3>2, <3>3
  <2>3. ASSUME NEW u \in Units, queued'[u] > 0 \/ u \in running' PROVE u \in units'
    <3>1. u \notin UnitsOf(w) \ busy
      <4>1. u \in UnitsOf(w) \ busy => queued'[u] = 0 /\ u \notin running
        BY <1>1, <1>2
      <4> QED BY <1>2, <2>3, <4>1
    <3>2. u \in units
      BY <1>2, <2>3, <3>1 DEF UnitsRegistered
    <3> QED BY <1>2, <3>1, <3>2
  <2> QED BY <2>1, <2>2, <2>3 DEF UnitsRegistered
<1>6. FdOwned'
  <2>1. \A v, x \in Watched, d \in Dirs : <<v, d>> \in units' /\ <<x, d>> \in units' => x = v
    BY <1>3 DEF FdOwned
  <2>2. \A b \in BidiWatchers, v \in Watched : reg'[b] # "out" /\ reg'[v] # "out" => v = b
    BY <1>4 DEF FdOwned, Watchers, Watched
  <2>3. \A v \in Watched, d \in Dirs : reg'[v] = "live" /\ <<v, d>> \in units' => udata'[d] = v
    BY <1>2, <1>3, <1>4 DEF FdOwned, Watchers
  <2>4. ASSUME NEW d \in fdset'
        PROVE  udata'[d] \in Watched /\ reg'[udata'[d]] = "live" /\ <<udata'[d], d>> \in units'
    <3>1. /\ d \in Dirs /\ udata'[d] = udata[d] /\ udata[d] \in Watched
          /\ reg[udata[d]] = "live" /\ <<udata[d], d>> \in units
      BY <1>2, <2>4 DEF FdOwned, TypeOK
    <3>2. <<udata[d], d>> \notin UnitsOf(w)
      BY <1>2, <3>1, FdUnit DEF UnitsOf
    <3> QED BY <1>2, <1>4, <3>1, <3>2 DEF Watchers
  <2> QED BY <2>1, <2>2, <2>3, <2>4 DEF FdOwned
<1>7. SigOwned'
  BY <1>2, <1>4, SameSignals DEF Watchers
<1> QED BY <1>5, <1>6, <1>7

\* A dispatched unit is registered.
LEMMA DispatchStep ==
    ASSUME SelectInv, NEW u \in Units, dispatch(u)
    PROVE  UnitsRegistered' /\ FdOwned' /\ SigOwned'
<1> USE DEF SelectInv
<1>1. /\ queued[u] > 0 /\ queued' = [queued EXCEPT ![u] = @ - 1] /\ running' = running \cup {u}
      /\ UNCHANGED <<backend, fdset, udata, sigVars, poll, unmasked, leaked, units, reg>>
      /\ queued \in [Units -> Nat]
  BY DEF dispatch, fdVars, pollVars, TypeOK
<1>2. u \in units
  BY <1>1 DEF UnitsRegistered
<1>3. \A x \in Units : queued'[x] > 0 => queued[x] > 0
  BY <1>1
<1>4. UnitsRegistered'
  BY <1>1, <1>2, <1>3 DEF UnitsRegistered
<1>5. FdOwned'
  BY <1>1 DEF FdOwned
<1>6. SigOwned'
  BY <1>1, SameSignals
<1> QED BY <1>4, <1>5, <1>6

\* A signal's handler has returned.
LEMMA SignalReturnStep ==
    ASSUME SelectInv, {"rearm_removing", "remove_polling"} \cap Client = {},
           NEW s \in SigWatchers, NEW r \in Rearms, handler_return(s, r)
    PROVE  UnitsRegistered' /\ FdOwned' /\ SigOwned'
<1> USE DEF SelectInv
<1>0. s \in Units /\ WatcherOf(s) = s /\ s \in Watchers /\ s \notin Watched /\ UnitsOf(s) = {s}
  BY SigUnit
<1>1. PICK e : e = IF reg[s] = "doomed" THEN "REMOVE" ELSE r
  OBVIOUS
<1>2. /\ s \in running /\ e \in Rearms
      /\ reg[s] \in {"removing", "attn"} => e \notin {"REMOVE", "REARM"}
      /\ e = "REMOVE" => s \notin unmasked
      /\ running' = running \ {s} /\ signal_rearm(s, e)
      /\ queued' = IF e = "REQUEUE" THEN [queued EXCEPT ![s] = @ + 1] ELSE queued
      /\ units' = IF e = "REMOVE" THEN units \ {s} ELSE units
      /\ reg' = IF UnitsOf(s) \cap units' = {} THEN [reg EXCEPT ![s] = "out"] ELSE reg
      /\ UNCHANGED <<backend, poll, unmasked, leaked>>
  BY <1>0, <1>1 DEF handler_return, Rearms, pollVars
<1>3. s \in units /\ reg[s] # "out" /\ (e = "REARM" => reg[s] = "live")
      /\ (e = "REMOVE" => reg[s] \in {"live", "doomed"})
  <2>1. s \in units /\ reg[s] # "out"
    BY <1>0, <1>2 DEF UnitsRegistered
  <2>2. reg[s] \in {"live", "removing", "attn", "doomed"}
    BY <1>0, <2>1 DEF TypeOK
  <2> QED BY <1>1, <1>2, <2>1, <2>2
<1>4. /\ e # "REMOVE" => units' = units /\ reg' = reg
      /\ e = "REMOVE" => units' = units \ {s} /\ reg' = [reg EXCEPT ![s] = "out"]
  BY <1>0, <1>2, <1>3
<1>5. \A v \in Watchers : v # s => reg'[v] = reg[v]
  BY <1>4 DEF TypeOK
<1>6. UnitsRegistered'
  <2>1. ASSUME NEW u \in units' PROVE reg'[WatcherOf(u)] # "out"
    <3>1. u \in units /\ u \in Units /\ WatcherOf(u) \in Watchers
      BY <1>4, <2>1, UnitKinds DEF TypeOK
    <3>2. CASE e = "REMOVE"
      <4>1. u # s
        BY <1>4, <2>1, <3>2
      <4>2. WatcherOf(u) # s
        BY <1>0, <3>1, <4>1 DEF UnitsOf
      <4> QED BY <1>5, <3>1, <4>2 DEF UnitsRegistered
    <3>3. CASE e # "REMOVE"
      BY <1>4, <3>1, <3>3 DEF UnitsRegistered
    <3> QED BY <3>2, <3>3
  <2>2. \A v \in SigWatchers : reg'[v] # "out" => v \in units'
    BY <1>0, <1>4, <1>5 DEF UnitsRegistered, Watchers, TypeOK
  <2>3. ASSUME NEW u \in Units, queued'[u] > 0 \/ u \in running' PROVE u \in units'
    <3>1. CASE u = s
      <4>1. ~ (queued[s] > 0)
        BY <1>0, <1>2 DEF EnabledIsIdle, OneOutstanding, TypeOK
      <4>2. e # "REMOVE"
        BY <1>2, <2>3, <3>1, <4>1
      <4> QED BY <1>3, <1>4, <3>1, <4>2
    <3>2. CASE u # s
      <4>1. queued'[u] = queued[u]
        BY <1>2, <3>2 DEF TypeOK
      <4>2. u \in units
        BY <1>2, <2>3, <4>1 DEF UnitsRegistered
      <4> QED BY <1>4, <3>2, <4>2
    <3> QED BY <3>1, <3>2
  <2> QED BY <2>1, <2>2, <2>3 DEF UnitsRegistered
<1>7. FdOwned'
  <2>1. \A w \in Watched : reg'[w] = reg[w]
    BY <1>0, <1>5 DEF Watchers
  <2>2. \A w \in Watched, d \in Dirs : <<w, d>> \in units' <=> <<w, d>> \in units
    BY <1>4, FdUnit
  <2>3. fdset \subseteq Dirs /\ BidiWatchers \subseteq Watched /\ UNCHANGED <<fdset, udata>>
    BY <1>2 DEF TypeOK, Watched, signal_rearm, fdVars
  <2> QED BY <2>1, <2>2, <2>3 DEF FdOwned
<1>8. SigOwned'
  <2>1. CASE e = "REARM"
    BY <1>2, <1>3, <1>4, <2>1 DEF SigOwned, signal_rearm, Landing
  <2>2. CASE e = "REMOVE"
    <3>1. {v \in SigWatchers : reg'[v] = "live"} = {v \in SigWatchers : reg[v] = "live"} \ {s}
      BY <1>4, <1>5, <2>2 DEF Watchers, TypeOK
    <3> QED BY <1>2, <2>2, <3>1 DEF SigOwned, signal_rearm, Landing
  <2>3. CASE e \notin {"REARM", "REMOVE"}
    BY <1>2, <1>4, <2>3 DEF SigOwned, signal_rearm, Landing
  <2> QED BY <2>1, <2>2, <2>3
<1> QED BY <1>6, <1>7, <1>8

\* The handler of a direction of the descriptor has returned.
LEMMA FdReturnStep ==
    ASSUME SelectInv, "rearm_removing" \notin Client, NEW w \in Watched, NEW d \in Dirs,
           NEW r \in Rearms, handler_return(<<w, d>>, r)
    PROVE  UnitsRegistered' /\ FdOwned' /\ SigOwned'
<1> USE DEF SelectInv
<1>0. PICK u : u = <<w, d>> /\ u \in Units /\ u \notin SigWatchers /\ WatcherOf(u) = w /\ u[2] = d
                /\ w \in Watchers /\ w \notin SigWatchers /\ u \in UnitsOf(w)
  BY FdUnit
<1>1. PICK e : e = IF reg[w] = "doomed" THEN "REMOVE" ELSE r
  OBVIOUS
<1>2. /\ u \in running /\ e \in Rearms
      /\ reg[w] \in {"removing", "attn"} => e \notin {"REMOVE", "REARM"}
      /\ running' = running \ {u} /\ fd_rearm(d, e)
      /\ queued' = IF e = "REQUEUE" THEN [queued EXCEPT ![u] = @ + 1] ELSE queued
      /\ units' = IF e = "REMOVE" THEN units \ {u} ELSE units
      /\ reg' = IF UnitsOf(w) \cap units' = {} THEN [reg EXCEPT ![w] = "out"] ELSE reg
      /\ UNCHANGED <<backend, poll, unmasked, leaked>>
  BY <1>0, <1>1 DEF handler_return, Rearms, pollVars
<1>3. u \in units /\ reg[w] # "out" /\ (e = "REARM" => reg[w] = "live")
  <2>1. u \in units /\ reg[w] # "out"
    BY <1>0, <1>2 DEF UnitsRegistered
  <2>2. reg[w] \in {"live", "removing", "attn", "doomed"}
    BY <1>0, <2>1 DEF TypeOK
  <2> QED BY <1>1, <1>2, <2>1, <2>2
<1>4. /\ e # "REMOVE" => units' = units /\ reg' = reg
      /\ e = "REMOVE" => units' = units \ {u}
      /\ reg' = reg \/ (reg' = [reg EXCEPT ![w] = "out"] /\ UnitsOf(w) \cap units' = {})
  BY <1>0, <1>2, <1>3
<1>5. \A v \in Watchers : /\ v # w => reg'[v] = reg[v]
                          /\ reg'[v] # "out" => reg'[v] = reg[v]
  BY <1>4 DEF TypeOK
<1>6. UnitsRegistered'
  <2>1. ASSUME NEW x \in units' PROVE reg'[WatcherOf(x)] # "out"
    <3>1. x \in units /\ x \in Units /\ WatcherOf(x) \in Watchers
      BY <1>4, <2>1, UnitKinds DEF TypeOK
    <3>2. CASE WatcherOf(x) = w
      <4>1. UnitsOf(w) \cap units' # {}
        BY <2>1, <3>1, <3>2 DEF UnitsOf
      <4> QED BY <1>3, <1>4, <3>2, <4>1
    <3>3. CASE WatcherOf(x) # w
      BY <1>5, <3>1, <3>3 DEF UnitsRegistered
    <3> QED BY <3>2, <3>3
  <2>2. ASSUME NEW s \in SigWatchers, reg'[s] # "out" PROVE s \in units'
    <3>1. s \in units
      BY <1>5, <2>2, SigUnit DEF UnitsRegistered
    <3> QED BY <1>0, <1>4, <3>1
  <2>3. ASSUME NEW x \in Units, queued'[x] > 0 \/ x \in running' PROVE x \in units'
    <3>1. CASE x = u
      <4>1. ~ (queued[u] > 0)
        BY <1>0, <1>2 DEF EnabledIsIdle, OneOutstanding, TypeOK
      <4>2. e # "REMOVE"
        BY <1>2, <2>3, <3>1, <4>1
      <4> QED BY <1>3, <1>4, <3>1, <4>2
    <3>2. CASE x # u
      <4>1. queued'[x] = queued[x]
        BY <1>2, <3>2 DEF TypeOK
      <4>2. x \in units
        BY <1>2, <2>3, <4>1 DEF UnitsRegistered
      <4> QED BY <1>4, <3>2, <4>2
    <3> QED BY <3>1, <3>2
  <2> QED BY <2>1, <2>2, <2>3 DEF UnitsRegistered
<1>7. FdOwned'
  <2>0. units' \subseteq units
    BY <1>4
  <2>1. \A v, x \in Watched, c \in Dirs : <<v, c>> \in units' /\ <<x, c>> \in units' => x = v
    BY <2>0 DEF FdOwned
  <2>2. \A b \in BidiWatchers, v \in Watched : reg'[b] # "out" /\ reg'[v] # "out" => v = b
    BY <1>5 DEF FdOwned, Watchers, Watched
  <2>3. ASSUME NEW v \in Watched, NEW c \in Dirs, reg'[v] = "live", <<v, c>> \in units'
        PROVE  udata'[c] = v
    <3>1. udata[c] = v
      BY <1>5, <2>0, <2>3 DEF FdOwned, Watchers
    <3>2. e = "REMOVE" => c # d
      <4> SUFFICES ASSUME e = "REMOVE", c = d PROVE FALSE
        OBVIOUS
      <4>1. <<v, d>> \in units /\ <<w, d>> \in units
        BY <1>0, <1>3, <2>0, <2>3
      <4>2. v = w
        BY <4>1 DEF FdOwned
      <4> QED BY <1>0, <1>4, <2>3, <4>2
    <3> QED BY <1>2, <3>1, <3>2 DEF fd_rearm, TypeOK
  <2>4. ASSUME NEW c \in fdset'
        PROVE  udata'[c] \in Watched /\ reg'[udata'[c]] = "live" /\ <<udata'[c], c>> \in units'
    <3>1. CASE e = "REMOVE"
      <4>1. c \in fdset /\ c # d /\ udata'[c] = udata[c] /\ c \in Dirs
        BY <1>2, <2>4, <3>1 DEF fd_rearm, TypeOK
      <4>2. udata[c] \in Watched /\ reg[udata[c]] = "live" /\ <<udata[c], c>> \in units
        BY <4>1 DEF FdOwned
      <4>3. <<udata[c], c>> \in units'
        BY <1>0, <1>4, <3>1, <4>1, <4>2
      <4>4. reg'[udata[c]] = "live"
        <5>1. CASE udata[c] = w
          <6>1. UnitsOf(w) \cap units' # {}
            BY <4>1, <4>2, <4>3, <5>1, FdUnit
          <6> QED BY <1>4, <4>2, <6>1
        <5>2. CASE udata[c] # w
          BY <1>5, <4>2, <5>2 DEF Watchers
        <5> QED BY <5>1, <5>2
      <4> QED BY <4>1, <4>2, <4>3, <4>4
    <3>2. CASE e # "REMOVE"
      <4>1. units' = units /\ reg' = reg /\ udata' = udata
        BY <1>2, <1>4, <3>2 DEF fd_rearm
      <4>2. CASE c \in fdset
        BY <4>1, <4>2 DEF FdOwned
      <4>3. CASE c \notin fdset
        <5>1. c = d /\ e = "REARM"
          BY <1>2, <2>4, <4>3 DEF fd_rearm
        <5>2. udata[d] = w
          BY <1>0, <1>3, <5>1 DEF FdOwned
        <5> QED BY <1>0, <1>3, <4>1, <5>1, <5>2
      <4> QED BY <4>2, <4>3
    <3> QED BY <3>1, <3>2
  <2> QED BY <2>1, <2>2, <2>3, <2>4 DEF FdOwned
<1>8. SigOwned'
  <2>1. \A s \in SigWatchers : reg'[s] = reg[s]
    BY <1>0, <1>5, SigUnit
  <2> QED BY <1>2, <2>1, SameSignals DEF fd_rearm
<1> QED BY <1>6, <1>7, <1>8

\* The poller takes what it finds to the owners, and lets through no signal but those
\* of enabled watches.
LEMMA PollStep ==
    ASSUME SelectInv, Poll \/ PullStep
    PROVE  UnitsRegistered' /\ FdOwned' /\ SigOwned'
<1> USE DEF SelectInv
<1>1. CASE \E wait \in BOOLEAN : pull_begin(wait)
  <2>1. PICK wait \in BOOLEAN : pull_begin(wait)
    BY <1>1
  <2>2. UnitsRegistered' /\ FdOwned'
    BY <2>1, SameOwners DEF pull_begin, fdVars
  <2>3. SigOwned'
    BY <2>1 DEF pull_begin, sigVars, SigOwned, Landing
  <2> QED BY <2>2, <2>3
<1>2. CASE wait_begin
  <2>1. UnitsRegistered' /\ FdOwned'
    BY <1>2, SameOwners DEF wait_begin, fdVars
  <2>2. SigOwned'
    BY <1>2 DEF wait_begin, sigVars, SigOwned, Landing
  <2> QED BY <2>1, <2>2
<1>3. CASE process_signal
  <2>1. /\ active' \subseteq active /\ (active' = active \/ active' = active \ {cap})
        /\ poll = "jumped" /\ poll' = "copied"
        /\ UNCHANGED <<backend, reg, units, running, fdset, udata, handled, sig_userdata, unmasked,
                       leaked>>
    BY <1>3 DEF process_signal, fdVars
  <2>2. \A u \in Units : queued'[u] > 0 => queued[u] > 0 \/ (u = cap /\ cap \in sig_userdata)
    BY <1>3 DEF process_signal, TypeOK
  <2>3. cap \in sig_userdata => cap \in units
    BY SigUnit DEF SigOwned, UnitsRegistered
  <2>4. UnitsRegistered'
    BY <2>1, <2>2, <2>3 DEF UnitsRegistered
  <2>5. FdOwned'
    BY <2>1 DEF FdOwned
  <2>6. SigOwned'
    BY <2>1 DEF SigOwned, Landing
  <2> QED BY <2>4, <2>5, <2>6
<1>4. CASE wait_return
  <2>1. UnitsRegistered' /\ FdOwned'
    BY <1>4, SameOwners DEF wait_return, fdVars
  <2>2. SigOwned'
    BY <1>4 DEF wait_return, sigVars, SigOwned, Landing
  <2> QED BY <2>1, <2>2
<1>5. CASE mask_signals
  <2>1. UnitsRegistered' /\ FdOwned'
    BY <1>5, SameOwners DEF mask_signals, fdVars
  <2>2. SigOwned'
    BY <1>5 DEF mask_signals, sigVars, SigOwned, Landing
  <2> QED BY <2>1, <2>2
<1>6. CASE process_events
  <2>1. PICK D : D = {d \in copied \cap fdset : udata[d] # None}
    OBVIOUS
  <2>2. /\ poll = "reporting" /\ poll' = "idle" /\ fdset' = fdset \ D
        /\ queued' = [u \in Units |->
                        IF u \in {<<udata[d], d>> : d \in D} THEN queued[u] + 1 ELSE queued[u]]
        /\ UNCHANGED <<backend, udata, sigVars, unmasked, leaked, reg, units, running>>
    BY <1>6, <2>1 DEF process_events
  <2>3. \A u \in Units : queued'[u] > 0 => queued[u] > 0 \/ u \in units
    BY <2>1, <2>2 DEF FdOwned
  <2>4. UnitsRegistered'
    BY <2>2, <2>3 DEF UnitsRegistered
  <2>5. FdOwned'
    BY <2>2 DEF FdOwned
  <2>6. SigOwned'
    BY <2>2 DEF SigOwned, sigVars, Landing
  <2> QED BY <2>4, <2>5, <2>6
<1>7. CASE \E s \in SigWatchers : signal_handler(s)
  <2>1. UnitsRegistered' /\ FdOwned'
    BY <1>7, SameOwners DEF signal_handler, fdVars
  <2>2. SigOwned'
    BY <1>7 DEF signal_handler, sigVars, SigOwned, Landing
  <2> QED BY <2>1, <2>2
<1> QED BY <1>1, <1>2, <1>3, <1>4, <1>5, <1>6, <1>7 DEF Poll, PullStep

\* Readiness and pending signals belong to nobody.
LEMMA SystemStep ==
    ASSUME SelectInv,
           (\E s \in SigWatchers : Raise(s)) \/ (\E R \in Readiness : ReadyChange(R))
    PROVE  UnitsRegistered' /\ FdOwned' /\ SigOwned'
<1>1. UNCHANGED <<backend, fdset, udata, sigVars, unmasked, leaked, poll, reg, units, queued, running>>
  BY DEF Raise, ReadyChange, fdVars, pollVars
<1> QED BY <1>1, SameOwners, SameSignals DEF SelectInv

-----------------------------------------------------------------------------
(* What is enabled is idle.                                                *)

\* OneOutstanding without the sum.
LEMMA OneOutstandingIs ==
    /\ TypeOK => (OneOutstanding <=> \A u \in Units : \/ queued[u] = 0
                                                      \/ queued[u] = 1 /\ u \notin running)
    /\ TypeOK' => (OneOutstanding' <=> \A u \in Units : \/ queued'[u] = 0
                                                        \/ queued'[u] = 1 /\ u \notin running')
<1>1. ASSUME TypeOK
      PROVE  OneOutstanding <=> \A u \in Units : queued[u] = 0 \/ (queued[u] = 1 /\ u \notin running)
  BY <1>1 DEF TypeOK, OneOutstanding
<1>2. ASSUME TypeOK'
      PROVE  OneOutstanding' <=> \A u \in Units : queued'[u] = 0 \/ (queued'[u] = 1 /\ u \notin running')
  BY <1>2 DEF TypeOK, OneOutstanding
<1> QED BY <1>1, <1>2

\* Nothing is enabled at first.
LEMMA InitIdle == Init => EnabledIsIdle
<1> SUFFICES ASSUME Init PROVE EnabledIsIdle
  OBVIOUS
<1>1. OneOutstanding
  BY DEF Init, OneOutstanding
<1> QED BY <1>1 DEF Init, EnabledIsIdle

\* Steps after which nothing more is enabled, queued, handled, raised or let through.
LEMMA LessEnabled ==
    ASSUME SelectInv, TypeOK', fdset' \subseteq fdset, active' \subseteq active,
           \A d \in fdset' : udata'[d] = udata[d],
           \A u \in Units : queued'[u] = queued[u] \/ queued'[u] = 0,
           UNCHANGED <<backend, raised, running>>,
           backend = "pselect" => unmasked' \subseteq unmasked,
           (active \ active') \cap unmasked = {},
           poll' = "jumped" => UNCHANGED <<poll, cap>>
    PROVE  EnabledIsIdle'
<1> USE DEF SelectInv
<1>1. OneOutstanding'
  BY OneOutstandingIs DEF EnabledIsIdle
<1>2. \A u \in Units : Unoccupied(u) => Unoccupied(u)'
  BY DEF Unoccupied
<1>3. \A d \in fdset' : Unoccupied(<<udata[d], d>>)'
  BY <1>2, FdUnit DEF EnabledIsIdle, FdOwned, TypeOK
<1>4. \A x \in active' : Unoccupied(x)'
  BY <1>2, SigUnit DEF EnabledIsIdle, TypeOK
<1>5. backend = "pselect" => raised \cap unmasked' \subseteq active'
  BY DEF EnabledIsIdle
<1>6. poll' = "jumped" => /\ cap \in SigWatchers /\ Unoccupied(cap)'
                          /\ backend = "pselect" => cap \notin raised \cap unmasked'
  BY <1>2, SigUnit DEF EnabledIsIdle
<1> QED BY <1>1, <1>3, <1>4, <1>5, <1>6 DEF EnabledIsIdle, Unoccupied

\* What disables, or only waits, enables no busy unit.
LEMMA DisablingIdle ==
    ASSUME SelectInv, TypeOK', "remove_polling" \notin Client,
           \/ \E R \in Readiness : ReadyChange(R)
           \/ \E w \in Watched : deregister_fd(w)
           \/ \E w \in Watched, d \in Dirs : set_enabled(w, d, FALSE)
           \/ \E s \in SigWatchers : deregister_signal(s)
           \/ \E w \in Watchers : get_attn_lock(w) \/ issue_delete(w)
    PROVE  EnabledIsIdle'
<1> SUFFICES /\ fdset' \subseteq fdset /\ active' \subseteq active
             /\ \A d \in fdset' : udata'[d] = udata[d]
             /\ \A u \in Units : queued'[u] = queued[u] \/ queued'[u] = 0
             /\ UNCHANGED <<backend, raised, running, unmasked, poll, cap>>
             /\ (active \ active') \cap unmasked = {}
  BY LessEnabled
<1> USE DEF fdVars, sigVars, pollVars
<1>1. CASE \E R \in Readiness : ReadyChange(R)
  BY <1>1 DEF ReadyChange
<1>2. CASE \E w \in Watched : deregister_fd(w)
  <2>1. PICK w \in Watched : deregister_fd(w)
    BY <1>2
  <2>2. CASE w \in BidiWatchers
    BY <2>1, <2>2 DEF deregister_fd
  <2>3. CASE w \notin BidiWatchers
    <3>1. PICK D : D = {d \in Dirs : <<w, d>> \in units}
      OBVIOUS
    <3>2. fdset' = fdset \ D /\ udata' = [d \in Dirs |-> IF d \in D THEN None ELSE udata[d]]
      BY <2>1, <2>3, <3>1 DEF deregister_fd
    <3>3. \A d \in fdset' : udata'[d] = udata[d]
      BY <3>2 DEF SelectInv, TypeOK
    <3> QED BY <2>1, <3>2, <3>3 DEF deregister_fd
  <2> QED BY <2>2, <2>3
<1>3. CASE \E w \in Watched, d \in Dirs : set_enabled(w, d, FALSE)
  BY <1>3 DEF set_enabled, SelectInv, TypeOK
<1>4. CASE \E s \in SigWatchers : deregister_signal(s)
  BY <1>4 DEF deregister_signal
<1>5. CASE \E w \in Watchers : get_attn_lock(w)
  BY <1>5 DEF get_attn_lock
<1>6. CASE \E w \in Watchers : issue_delete(w)
  BY <1>6 DEF issue_delete
<1> QED BY <1>1, <1>2, <1>3, <1>4, <1>5, <1>6

\* Enabling, of what is new or what the client's rule says is idle.
LEMMA EnablingIdle ==
    ASSUME SelectInv, TypeOK', NEW D \in SUBSET Dirs, NEW S \in SUBSET SigWatchers,
           fdset' = fdset \cup D, active' = active \cup S,
           \A d \in D : udata'[d] \in Watched /\ Unoccupied(<<udata'[d], d>>),
           \A d \in fdset \ D : udata'[d] = udata[d],
           \A s \in S : Unoccupied(s),
           UNCHANGED <<backend, raised, running, queued, unmasked, poll, cap>>
    PROVE  EnabledIsIdle'
<1> USE DEF SelectInv
<1>1. OneOutstanding'
  BY DEF EnabledIsIdle, OneOutstanding
<1>2. \A d \in fdset' : queued[<<udata'[d], d>>] = 0 /\ <<udata'[d], d>> \notin running
  BY DEF EnabledIsIdle, Unoccupied
<1>3. \A x \in active' : queued[x] = 0 /\ x \notin running
  BY DEF EnabledIsIdle, Unoccupied
<1> QED BY <1>1, <1>2, <1>3 DEF EnabledIsIdle, Unoccupied

\* The client enables only units that have no event.
LEMMA ClientIdle ==
    ASSUME SelectInv, TypeOK',
           \/ \E w \in Watched, D \in SUBSET Dirs, b \in BOOLEAN : register_fd(w, D, b)
           \/ \E w \in Watched, d \in Dirs : set_enabled(w, d, TRUE)
           \/ \E s \in SigWatchers : add_signal_watch(s)
    PROVE  EnabledIsIdle'
<1> USE DEF SelectInv, fdVars, sigVars, pollVars
<1>1. \A u \in Units : u \notin units => Unoccupied(u)
  BY DEF UnitsRegistered, Unoccupied, TypeOK
<1>2. CASE \E w \in Watched, D \in SUBSET Dirs, b \in BOOLEAN : register_fd(w, D, b)
  <2>1. PICK w \in Watched, D \in SUBSET Dirs, b \in BOOLEAN : register_fd(w, D, b)
    BY <1>2
  <2>2. /\ reg[w] = "out" /\ fdset' = fdset \cup D /\ active' = active \cup {}
        /\ udata' = [d \in Dirs |-> IF d \in D THEN w ELSE udata[d]]
        /\ UNCHANGED <<backend, raised, running, queued, unmasked, poll, cap>>
    BY <2>1 DEF register_fd
  <2>3. \A d \in D : <<w, d>> \notin units /\ <<w, d>> \in Units
    BY <2>2, FdUnit DEF UnitsRegistered
  <2>4. \A d \in D : udata'[d] = w /\ udata'[d] \in Watched /\ Unoccupied(<<w, d>>)
    BY <1>1, <2>2, <2>3
  <2>5. \A d \in D : udata'[d] \in Watched /\ Unoccupied(<<udata'[d], d>>)
    BY <2>4 DEF Unoccupied
  <2>6. \A d \in fdset \ D : udata'[d] = udata[d]
    BY <2>2 DEF TypeOK
  <2>7. {} \in SUBSET SigWatchers /\ \A x \in {} : Unoccupied(x)
    OBVIOUS
  <2> QED BY <2>2, <2>5, <2>6, <2>7, EnablingIdle, Zenon
<1>3. CASE \E w \in Watched, d \in Dirs : set_enabled(w, d, TRUE)
  <2>1. PICK w \in Watched, d \in Dirs : set_enabled(w, d, TRUE)
    BY <1>3
  <2>2. /\ reg[w] = "live" /\ <<w, d>> \in units /\ queued[<<w, d>>] = 0 /\ <<w, d>> \notin running
        /\ fdset' = fdset \cup {d} /\ active' = active \cup {} /\ udata' = udata
        /\ UNCHANGED <<backend, raised, running, queued, unmasked, poll, cap>>
    BY <2>1 DEF set_enabled
  <2>3. udata[d] = w
    BY <2>2 DEF FdOwned
  <2>4. \A c \in {d} : udata'[c] \in Watched /\ Unoccupied(<<udata'[c], c>>)
    BY <2>2, <2>3 DEF Unoccupied
  <2>5. {} \in SUBSET SigWatchers /\ {d} \in SUBSET Dirs /\ \A x \in {} : Unoccupied(x)
    OBVIOUS
  <2>6. \A c \in fdset \ {d} : udata'[c] = udata[c]
    BY <2>2
  <2> QED BY <2>2, <2>4, <2>5, <2>6, EnablingIdle, Zenon
<1>4. CASE \E s \in SigWatchers : add_signal_watch(s)
  <2>1. PICK s \in SigWatchers : add_signal_watch(s)
    BY <1>4
  <2>2. /\ reg[s] = "out" /\ fdset' = fdset \cup {} /\ active' = active \cup {s} /\ udata' = udata
        /\ UNCHANGED <<backend, raised, running, queued, unmasked, poll, cap>>
    BY <2>1 DEF add_signal_watch
  <2>3. s \notin units
    BY <2>2, SigUnit DEF UnitsRegistered
  <2>4. \A x \in {s} : Unoccupied(x)
    BY <1>1, <2>3, SigUnit
  <2>5. /\ {s} \in SUBSET SigWatchers /\ {} \in SUBSET Dirs
        /\ \A c \in {} : udata'[c] \in Watched /\ Unoccupied(<<udata'[c], c>>)
        /\ \A c \in fdset \ {} : udata'[c] = udata[c]
    BY <2>2
  <2> QED BY <2>2, <2>4, <2>5, EnablingIdle, Zenon
<1> QED BY <1>2, <1>3, <1>4

\* pselect() still has the signal unmasked that it has received, so that only the rule
\* not to raise it again keeps it from being received twice.
LEMMA RaiseIdle ==
    ASSUME SelectInv, TypeOK', "raise_again" \notin Client, NEW s \in SigWatchers, Raise(s)
    PROVE  EnabledIsIdle'
<1>1. /\ backend = "pselect" /\ s \in unmasked => s \in active /\ poll # "jumped"
      /\ raised' = raised \cup {s}
      /\ UNCHANGED <<backend, fdset, udata, active, unmasked, poll, cap, queued, running>>
  BY DEF Raise, fdVars, sigVars, pollVars
<1> QED BY <1>1 DEF SelectInv, EnabledIsIdle, OneOutstanding, Unoccupied

\* A unit with an event was disabled when the event was queued.
LEMMA DispatchIdle ==
    ASSUME SelectInv, TypeOK', NEW u \in Units, dispatch(u)
    PROVE  EnabledIsIdle'
<1> USE DEF SelectInv
<1>1. /\ queued[u] > 0 /\ queued' = [queued EXCEPT ![u] = @ - 1] /\ running' = running \cup {u}
      /\ UNCHANGED <<backend, raised, fdset, udata, active, unmasked, poll, cap>>
  BY DEF dispatch, fdVars, sigVars, pollVars
<1>2. queued[u] = 1 /\ queued \in [Units -> Nat]
  BY <1>1, OneOutstandingIs DEF EnabledIsIdle, TypeOK
<1>3. OneOutstanding'
  BY <1>1, <1>2, OneOutstandingIs DEF EnabledIsIdle
<1>4. \A x \in Units : Unoccupied(x) => x # u /\ Unoccupied(x)'
  BY <1>1, <1>2 DEF Unoccupied
<1>5. \A d \in fdset : Unoccupied(<<udata[d], d>>)'
  BY <1>1, <1>4, FdUnit DEF EnabledIsIdle, FdOwned, TypeOK
<1>6. \A x \in active : Unoccupied(x)'
  BY <1>4, SigUnit DEF EnabledIsIdle, TypeOK
<1>7. poll = "jumped" => Unoccupied(cap)'
  BY <1>1, <1>4, SigUnit DEF EnabledIsIdle
<1> QED BY <1>1, <1>3, <1>5, <1>6, <1>7 DEF EnabledIsIdle

\* A handler that returns REARM enables what it was running for, which is then idle.
LEMMA ReturnIdle ==
    ASSUME SelectInv, TypeOK', {"rearm_removing", "remove_polling"} \cap Client = {},
           NEW u \in Units, NEW r \in Rearms, handler_return(u, r)
    PROVE  EnabledIsIdle'
<1> USE DEF SelectInv
<1>0. PICK w, e : w = WatcherOf(u) /\ e = IF reg[w] = "doomed" THEN "REMOVE" ELSE r
  OBVIOUS
<1>1. /\ u \in running /\ e \in Rearms
      /\ reg[w] \in {"removing", "attn"} => e # "REARM"
      /\ e = "REMOVE" => u \notin unmasked
      /\ running' = running \ {u}
      /\ IF u \in SigWatchers THEN signal_rearm(u, e) ELSE fd_rearm(u[2], e)
      /\ queued' = IF e = "REQUEUE" THEN [queued EXCEPT ![u] = @ + 1] ELSE queued
      /\ UNCHANGED <<backend, raised, poll, cap, unmasked>>
  BY <1>0 DEF handler_return, Rearms, pollVars
<1>2. queued[u] = 0 /\ queued \in [Units -> Nat]
  BY <1>1, OneOutstandingIs DEF EnabledIsIdle, TypeOK
<1>3. OneOutstanding'
  BY <1>1, <1>2, OneOutstandingIs DEF EnabledIsIdle
<1>4. \A x \in Units : Unoccupied(x) => x # u /\ Unoccupied(x)'
  BY <1>1 DEF Unoccupied, TypeOK
<1>5. e = "REARM" => Unoccupied(u)'
  BY <1>1, <1>2 DEF Unoccupied
<1>6. poll = "jumped" => Unoccupied(cap)'
  BY <1>1, <1>4, SigUnit DEF EnabledIsIdle
<1>7. CASE u \in SigWatchers
  <2>1. /\ UNCHANGED <<fdset, udata>> /\ active \ {u} \subseteq active'
        /\ active' \subseteq active \cup (IF e = "REARM" THEN {u} ELSE {})
        /\ e # "REMOVE" => active \subseteq active'
    BY <1>1, <1>7 DEF signal_rearm, fdVars
  <2>2. \A d \in fdset : Unoccupied(<<udata[d], d>>)'
    BY <1>4, <2>1, FdUnit DEF EnabledIsIdle, FdOwned, TypeOK
  <2>3. \A x \in active' : Unoccupied(x)'
    BY <1>4, <1>5, <2>1, SigUnit DEF EnabledIsIdle, TypeOK
  <2>4. backend = "pselect" => raised \cap unmasked \subseteq active'
    BY <1>1, <2>1 DEF EnabledIsIdle
  <2> QED BY <1>1, <1>3, <1>6, <2>1, <2>2, <2>3, <2>4 DEF EnabledIsIdle
<1>8. CASE u \notin SigWatchers
  <2>1. PICK v \in Watched, d \in Dirs : u = <<v, d>>
    BY <1>8, UnitKinds
  <2>2. w = v /\ u[2] = d
    BY <1>0, <2>1, FdUnit
  <2>3. active' = active /\ fd_rearm(d, e)
    BY <1>1, <1>8, <2>2 DEF fd_rearm, sigVars
  <2>4. \A x \in active' : Unoccupied(x)'
    BY <1>4, <2>3, SigUnit DEF EnabledIsIdle, TypeOK
  <2>5. ASSUME NEW c \in fdset' PROVE Unoccupied(<<udata[c], c>>)'
    <3>1. CASE c \in fdset /\ (e = "REMOVE" => c # d)
      <4>1. udata'[c] = udata[c] /\ udata[c] \in Watched /\ c \in Dirs
        BY <2>3, <3>1 DEF fd_rearm, FdOwned, TypeOK
      <4>2. <<udata[c], c>> \in Units /\ Unoccupied(<<udata[c], c>>)
        BY <3>1, <4>1, FdUnit DEF EnabledIsIdle
      <4>3. PICK x : x = <<udata[c], c>>
        OBVIOUS
      <4>4. queued'[x] = 0 /\ x \notin running'
        BY <1>4, <4>2, <4>3 DEF Unoccupied
      <4> QED BY <4>1, <4>3, <4>4 DEF Unoccupied
    <3>2. CASE ~ (c \in fdset /\ (e = "REMOVE" => c # d))
      <4>1. c = d /\ e = "REARM" /\ udata' = udata
        BY <2>3, <2>5, <3>2 DEF fd_rearm
      <4>2. u \in units /\ reg[w] # "out"
        BY <1>0, <1>1 DEF UnitsRegistered
      <4>3. reg[w] \in {"out", "live", "removing", "attn", "doomed"}
        BY <2>2, FdUnit DEF TypeOK
      <4>4. reg[w] = "live"
        BY <1>0, <1>1, <4>1, <4>2, <4>3
      <4>5. udata[d] = w
        BY <2>1, <2>2, <4>2, <4>4 DEF FdOwned
      <4> QED BY <1>5, <2>1, <2>2, <4>1, <4>5 DEF Unoccupied
    <3> QED BY <3>1, <3>2
  <2> QED BY <1>1, <1>3, <1>6, <2>3, <2>4, <2>5 DEF EnabledIsIdle
<1> QED BY <1>7, <1>8

\* The poller queues what was enabled, and disables it.
LEMMA PollIdle ==
    ASSUME SelectInv, TypeOK', Poll \/ PullStep
    PROVE  EnabledIsIdle'
<1> USE DEF SelectInv, fdVars, sigVars
<1>1. CASE \E wait \in BOOLEAN : pull_begin(wait)
  <2>1. /\ UNCHANGED <<fdset, udata, active, backend, raised, queued, running, cap>>
        /\ poll' = "copied" /\ (backend = "pselect" => unmasked' = active)
    BY <1>1 DEF pull_begin, SigOwned
  <2> QED BY <2>1 DEF EnabledIsIdle, OneOutstanding, Unoccupied
<1>2. CASE wait_begin \/ wait_return \/ mask_signals
  <2>1. /\ UNCHANGED <<fdset, udata, active, backend, raised, queued, running>>
        /\ poll' # "jumped" /\ (backend = "pselect" => unmasked' \subseteq unmasked)
    BY <1>2 DEF wait_begin, wait_return, mask_signals
  <2> QED BY <2>1, LessEnabled
<1>3. CASE process_signal
  <2>1. /\ UNCHANGED <<fdset, udata, backend, raised, running, unmasked>>
        /\ poll = "jumped" /\ poll' = "copied"
    BY <1>3 DEF process_signal
  <2>2. cap \in SigWatchers /\ cap \in Units /\ Unoccupied(cap)
    BY <2>1, SigUnit DEF EnabledIsIdle
  <2>3. CASE cap \in sig_userdata
    <3>1. queued' = [queued EXCEPT ![cap] = @ + 1] /\ active' = active \ {cap}
      BY <1>3, <2>3 DEF process_signal
    <3>2. OneOutstanding'
      BY <2>1, <2>2, <3>1, OneOutstandingIs DEF EnabledIsIdle, Unoccupied, TypeOK
    <3>3. \A x \in Units : x # cap /\ Unoccupied(x) => Unoccupied(x)'
      BY <2>1, <3>1 DEF Unoccupied, TypeOK
    <3>4. \A d \in fdset : Unoccupied(<<udata[d], d>>)'
      BY <2>1, <2>2, <3>3, FdUnit DEF EnabledIsIdle, FdOwned, TypeOK
    <3>5. \A x \in active' : Unoccupied(x)'
      BY <3>1, <3>3, SigUnit DEF EnabledIsIdle, TypeOK
    <3>6. backend = "pselect" => raised \cap unmasked \subseteq active'
      BY <2>1, <3>1 DEF EnabledIsIdle
    <3> QED BY <2>1, <3>2, <3>4, <3>5, <3>6 DEF EnabledIsIdle
  <2>4. CASE cap \notin sig_userdata
    <3>1. queued' = queued /\ active' = active
      BY <1>3, <2>4 DEF process_signal
    <3> QED BY <2>1, <3>1, LessEnabled
  <2> QED BY <2>3, <2>4
<1>4. CASE process_events
  <2>1. PICK D : D = {d \in copied \cap fdset : udata[d] # None}
    OBVIOUS
  <2>2. /\ poll' = "idle" /\ fdset' = fdset \ D
        /\ queued' = [u \in Units |->
                        IF u \in {<<udata[d], d>> : d \in D} THEN queued[u] + 1 ELSE queued[u]]
        /\ UNCHANGED <<backend, raised, udata, active, unmasked, running>>
    BY <1>4, <2>1 DEF process_events
  <2>3. \A u \in Units : u \in {<<udata[d], d>> : d \in D} => Unoccupied(u)
    BY <2>1 DEF EnabledIsIdle
  <2>4. OneOutstanding'
    BY <2>2, <2>3, OneOutstandingIs DEF EnabledIsIdle, Unoccupied, TypeOK
  <2>5. \A u \in Units : u \notin {<<udata[d], d>> : d \in D} /\ Unoccupied(u) => Unoccupied(u)'
    BY <2>2 DEF Unoccupied
  <2>6. \A d \in fdset' : Unoccupied(<<udata[d], d>>)'
    <3> TAKE d \in fdset'
    <3>1. d \in fdset /\ d \notin D /\ d \in Dirs
      BY <2>2 DEF TypeOK
    <3>2. PICK u : u = <<udata[d], d>> /\ u \in Units /\ Unoccupied(u)
      BY <3>1, FdUnit DEF EnabledIsIdle, FdOwned
    <3>3. u \notin {<<udata[c], c>> : c \in D}
      BY <3>1, <3>2
    <3>4. queued'[u] = 0 /\ u \notin running'
      BY <2>5, <3>2, <3>3 DEF Unoccupied
    <3> QED BY <2>2, <3>2, <3>4 DEF Unoccupied
  <2>7. \A x \in active : Unoccupied(x)'
    <3> TAKE x \in active
    <3>1. x \in SigWatchers /\ x \in Units /\ Unoccupied(x)
      BY SigUnit DEF EnabledIsIdle, TypeOK
    <3>2. x \notin {<<udata[c], c>> : c \in D}
      BY <2>1, <3>1, FdUnit DEF FdOwned, TypeOK
    <3> QED BY <2>5, <3>1, <3>2
  <2> QED BY <2>2, <2>4, <2>6, <2>7 DEF EnabledIsIdle
<1>5. CASE \E s \in SigWatchers : signal_handler(s)
  <2>1. PICK s \in SigWatchers : signal_handler(s)
    BY <1>5
  <2>2. /\ poll \in Landing /\ s \in raised \cap unmasked /\ raised' = raised \ {s} /\ cap' = s
        /\ backend = "pselect" => unmasked' = unmasked
        /\ UNCHANGED <<backend, fdset, udata, active, queued, running>>
    BY <2>1 DEF signal_handler
  <2>3. backend \in {"select", "pselect"}
    BY SelectLoopAssumption DEF TypeOK
  <2>4. s \in active
    BY <2>2, <2>3 DEF EnabledIsIdle, SigOwned
  <2> QED BY <2>1, <2>2, <2>4 DEF EnabledIsIdle, OneOutstanding, Unoccupied
<1> QED BY <1>1, <1>2, <1>3, <1>4, <1>5 DEF Poll, PullStep

-----------------------------------------------------------------------------
(* The properties.                                                         *)

\* The habits of clients and system that break the ownership of watches are absent.
Careful == {"rearm_removing", "one_way", "remove_polling", "raise_again"} \cap Client = {}

\* SelectInv holds for any watchers, whatever threads and system do otherwise.
THEOREM SelectInvariant == Careful /\ Spec => []SelectInv
<1> SUFFICES ASSUME Careful PROVE Spec => []SelectInv
  OBVIOUS
<1>1. /\ "rearm_removing" \notin Client /\ "one_way" \notin Client
      /\ "remove_polling" \notin Client /\ "raise_again" \notin Client
      /\ {"rearm_removing", "remove_polling"} \cap Client = {}
  BY DEF Careful
<1>2. Init => SelectInv
  BY InitTypes, InitOwners, InitIdle DEF SelectInv
<1>3. SelectInv /\ [Next]_vars => SelectInv'
  <2> SUFFICES ASSUME SelectInv, [Next]_vars PROVE SelectInv'
    OBVIOUS
  <2>0. TypeOK'
    BY TypesKept DEF SelectInv
  <2> SUFFICES UnitsRegistered' /\ FdOwned' /\ SigOwned' /\ EnabledIsIdle'
    BY <2>0 DEF SelectInv
  <2>1. CASE UNCHANGED vars
    BY <2>1 DEF vars, fdVars, sigVars, pollVars, SelectInv, UnitsRegistered, FdOwned, SigOwned,
       Landing, EnabledIsIdle, OneOutstanding, Unoccupied
  <2>2. CASE Poll \/ PullStep
    BY <2>0, <2>2, PollStep, PollIdle
  <2>3. CASE \E R \in Readiness : ReadyChange(R)
    BY <1>1, <2>0, <2>3, SystemStep, DisablingIdle
  <2>4. CASE \E s \in SigWatchers : Raise(s)
    BY <1>1, <2>0, <2>4, SystemStep, RaiseIdle
  <2>5. CASE \E w \in Watched, D \in SUBSET Dirs, b \in BOOLEAN : register_fd(w, D, b)
    BY <1>1, <2>0, <2>5, RegisterFdStep, ClientIdle
  <2>6. CASE \E w \in Watched, d \in Dirs, b \in BOOLEAN : set_enabled(w, d, b)
    <3>1. (\E w \in Watched, d \in Dirs : set_enabled(w, d, TRUE))
          \/ (\E w \in Watched, d \in Dirs : set_enabled(w, d, FALSE))
      BY <2>6
    <3> QED BY <1>1, <2>0, <2>6, <3>1, SetEnabledStep, ClientIdle, DisablingIdle
  <2>7. CASE \E w \in Watched : deregister_fd(w)
    BY <1>1, <2>0, <2>7, DeregisterFdStep, DisablingIdle
  <2>8. CASE \E s \in SigWatchers : add_signal_watch(s) \/ deregister_signal(s)
    BY <1>1, <2>0, <2>8, SignalWatchStep, ClientIdle, DisablingIdle
  <2>9. CASE \E w \in Watchers : get_attn_lock(w) \/ issue_delete(w)
    BY <1>1, <2>0, <2>9, AttentionStep, IssueDeleteStep, DisablingIdle
  <2>10. CASE \E u \in Units : dispatch(u)
    BY <2>0, <2>10, DispatchStep, DispatchIdle
  <2>11. CASE \E u \in Units, r \in Rearms : handler_return(u, r)
    <3>1. PICK u \in Units, r \in Rearms : handler_return(u, r)
      BY <2>11
    <3>2. EnabledIsIdle'
      BY <1>1, <2>0, <3>1, ReturnIdle
    <3>3. UnitsRegistered' /\ FdOwned' /\ SigOwned'
      BY <1>1, <3>1, UnitKinds, SignalReturnStep, FdReturnStep
    <3> QED BY <3>2, <3>3
  <2> QED BY <2>1, <2>2, <2>3, <2>4, <2>5, <2>6, <2>7, <2>8, <2>9, <2>10, <2>11 DEF Next
<1> QED BY <1>2, <1>3, PTL DEF Spec

\* The sets and the masks lead to registered watchers only.
THEOREM SelectEnabledIsOwned == Careful /\ Spec => []EnabledIsOwned
<1>1. SelectInv => EnabledIsOwned
  <2> SUFFICES ASSUME SelectInv PROVE EnabledIsOwned
    OBVIOUS
  <2>1. \A d \in fdset : udata[d] # None /\ reg[udata[d]] # "out"
    <3>1. None \notin Watched
      BY SelectLoopAssumption DEF Watched
    <3> QED BY <3>1, ZenonT(30) DEF SelectInv, FdOwned
  <2>2. \A s \in active : reg[s] # "out"
    BY DEF SelectInv, SigOwned
  <2> QED BY <2>1, <2>2 DEF EnabledIsOwned
<1> QED BY <1>1, SelectInvariant, PTL

\* No signal gets through outside of the wait, or without its handler.
THEOREM SelectSignalsContained == Careful /\ Spec => []SignalsContained
<1>1. SelectInv => SignalsContained
  BY DEF SelectInv, SigOwned, SignalsContained, Unmasked
<1> QED BY <1>1, SelectInvariant, PTL

\* The watchers' one heap handle is in the queue once, and not during the handler.
THEOREM SelectOneOutstanding == Careful /\ Spec => []OneOutstanding
<1>1. SelectInv => OneOutstanding
  BY DEF SelectInv, EnabledIsIdle
<1> QED BY <1>1, SelectInvariant, PTL

\* A wait that does not know of an enabled watch is about to be interrupted, whatever
\* the client does but registering a plain watcher disabled.
THEOREM SelectNotStranded == "add_disabled" \notin Client /\ Spec => []NoStrandedWatch
<1> SUFFICES ASSUME "add_disabled" \notin Client PROVE Spec => []NoStrandedWatch
  OBVIOUS
<1>1. Init => CopiesCurrent
  BY DEF Init, CopiesCurrent
<1>2. TypeOK /\ TypeOK' /\ CopiesCurrent /\ [Next]_vars => CopiesCurrent'
  <2> SUFFICES ASSUME TypeOK, TypeOK', CopiesCurrent, [Next]_vars PROVE CopiesCurrent'
    OBVIOUS
  <2> USE DEF fdVars, sigVars, pollVars
  <2>1. ASSUME UNCHANGED <<backend, poll, do_wait, copied, unmasked>>,
               pipe => pipe',
               InClient,
               (fdset' \subseteq fdset /\ active' \subseteq active) \/ interrupt_if_necessary
        PROVE  CopiesCurrent'
    <3>1. CASE fdset' \subseteq fdset /\ active' \subseteq active
      BY <2>1, <3>1 DEF CopiesCurrent
    <3>2. CASE interrupt_if_necessary /\ poll # "idle"
      <4>1. MultiThreaded
        BY <2>1, <3>2 DEF InClient
      <4>2. pipe'
        BY <3>2, <4>1 DEF interrupt_if_necessary
      <4> QED BY <4>2 DEF CopiesCurrent
    <3>3. CASE poll = "idle"
      BY <2>1, <3>3 DEF CopiesCurrent
    <3> QED BY <2>1, <3>1, <3>2, <3>3
  <2>2. interrupt_if_necessary => (pipe => pipe')
    BY DEF interrupt_if_necessary
  <2>3. ASSUME UNCHANGED <<backend, poll, do_wait, copied, unmasked, fdset, active>>,
               pipe => pipe'
        PROVE  CopiesCurrent'
    BY <2>3 DEF CopiesCurrent
  <2>4. CASE Poll
    <3>1. backend \in {"select", "pselect"}
      BY SelectLoopAssumption DEF TypeOK
    <3>2. /\ backend' = backend /\ fdset' = fdset /\ active' = active /\ copied' = fdset
          /\ poll' = "copied" /\ (backend = "pselect" => active \subseteq unmasked')
      BY <2>4 DEF Poll, pull_begin
    <3> QED BY <3>1, <3>2 DEF CopiesCurrent
  <2>5. CASE PullStep
    <3>1. CASE wait_begin
      BY <3>1, SelectLoopAssumption DEF wait_begin, CopiesCurrent, TypeOK
    <3>2. CASE process_signal
      BY <3>2 DEF process_signal, CopiesCurrent
    <3>3. CASE wait_return \/ mask_signals \/ process_events \/ \E s \in SigWatchers : signal_handler(s)
      BY <3>3 DEF wait_return, mask_signals, process_events, signal_handler, CopiesCurrent
    <3> QED BY <2>5, <3>1, <3>2, <3>3 DEF PullStep
  <2>6. CASE \/ \E R \in Readiness : ReadyChange(R)
             \/ \E s \in SigWatchers : Raise(s)
             \/ \E w \in Watchers : get_attn_lock(w) \/ issue_delete(w)
             \/ \E u \in Units : dispatch(u)
             \/ UNCHANGED vars
    <3>1. UNCHANGED <<backend, poll, do_wait, copied, unmasked, fdset, active>>
      BY <2>6 DEF ReadyChange, Raise, get_attn_lock, issue_delete, dispatch, vars
    <3>2. pipe => pipe'
      BY <2>6 DEF ReadyChange, Raise, get_attn_lock, issue_delete, dispatch, vars
    <3> QED BY <2>3, <3>1, <3>2
  <2>7. CASE \E w \in Watched :
                \/ \E D \in SUBSET Dirs, b \in BOOLEAN : register_fd(w, D, b)
                \/ \E d \in Dirs, b \in BOOLEAN : set_enabled(w, d, b)
                \/ deregister_fd(w)
    <3>1. CASE \E w \in Watched, D \in SUBSET Dirs, b \in BOOLEAN : register_fd(w, D, b)
      BY <2>1, <2>2, <3>1 DEF register_fd
    <3>2. CASE \E w \in Watched, d \in Dirs, b \in BOOLEAN : set_enabled(w, d, b)
      BY <2>1, <2>2, <3>2 DEF set_enabled
    <3>3. CASE \E w \in Watched : deregister_fd(w)
      <4>1. /\ InClient /\ UNCHANGED <<backend, poll, do_wait, copied, unmasked, pipe, active>>
            /\ fdset' \subseteq fdset
        BY <3>3 DEF deregister_fd
      <4> QED BY <2>1, <4>1
    <3> QED BY <2>7, <3>1, <3>2, <3>3
  <2>8. CASE \E s \in SigWatchers : add_signal_watch(s) \/ deregister_signal(s)
    BY <2>1, <2>2, <2>8 DEF add_signal_watch, deregister_signal
  <2>9. CASE \E u \in Units, r \in Rearms : handler_return(u, r)
    <3>1. PICK u \in Units, r \in Rearms : handler_return(u, r)
      BY <2>9
    <3>2. PICK e : e = IF reg[WatcherOf(u)] = "doomed" THEN "REMOVE" ELSE r
      OBVIOUS
    <3>3. /\ InClient /\ UNCHANGED <<backend, poll, do_wait, copied, unmasked>>
          /\ IF u \in SigWatchers THEN signal_rearm(u, e) ELSE fd_rearm(u[2], e)
          /\ IF e \in {"REARM", "REQUEUE"} THEN interrupt_if_necessary ELSE pipe' = pipe
      BY <3>1, <3>2 DEF handler_return
    <3>4. e # "REARM" => fdset' \subseteq fdset /\ active' \subseteq active
      BY <3>3 DEF signal_rearm, fd_rearm
    <3> QED BY <2>1, <2>2, <3>3, <3>4
  <2> QED BY <2>4, <2>5, <2>6, <2>7, <2>8, <2>9 DEF Next
<1>3. CopiesCurrent => NoStrandedWatch
  BY DEF CopiesCurrent, NoStrandedWatch
<1> QED BY <1>1, <1>2, <1>3, InitTypes, TypesKept, PTL DEF Spec
=============================================================================
