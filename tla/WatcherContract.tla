-------------------------- MODULE WatcherContract ---------------------------
(***************************************************************************)
(* What a client of event_loop may rely on for its watchers, whatever      *)
(* threads poll: a handler runs only for a registered watcher, never twice *)
(* at the same time, and a watcher is removed (watch_removed() is called,  *)
(* the object may be deleted) only while its handler is not running.       *)
(***************************************************************************)
CONSTANT Watchers

VARIABLES
    registered,     \* watchers between add_watch() and watch_removed()
    running         \* watchers whose handler is executing

contractVars == <<registered, running>>

Init == registered = {} /\ running = {}

Register(w) ==
    /\ w \notin registered
    /\ registered' = registered \cup {w}
    /\ UNCHANGED running

HandlerStarts(w) ==
    /\ w \in registered /\ w \notin running
    /\ running' = running \cup {w}
    /\ UNCHANGED registered

HandlerReturns(w) ==
    /\ w \in running
    /\ running' = running \ {w}
    /\ UNCHANGED registered

Removed(w) ==
    /\ w \in registered /\ w \notin running
    /\ registered' = registered \ {w}
    /\ UNCHANGED running

\* The handler deletes its own watcher and returns REMOVED.
DeletedByHandler(w) ==
    /\ w \in running /\ w \in registered
    /\ running' = running \ {w}
    /\ registered' = registered \ {w}

Next == \E w \in Watchers :
    Register(w) \/ HandlerStarts(w) \/ HandlerReturns(w) \/ Removed(w) \/ DeletedByHandler(w)

Spec == Init /\ [][Next]_contractVars
=============================================================================
