------------------------------ MODULE MCTimers ------------------------------
(***************************************************************************)
(* Three timers in a heap with the fan-out of the code: a periodic one,    *)
(* one that is stopped, and one that is armed for an earlier or for a      *)
(* later time; the calls are spread over them.  TimeVal is extended so     *)
(* that its assumption is evaluated.                                       *)
(***************************************************************************)
EXTENDS Timers, TimeVal, TLC

CONSTANTS w1, w2, w3

ThreeTimers == {w1, w2, w3}

AllTimes == Nat

MCArms == w1 :> {<<1, 2>>} @@ w2 :> {<<2, 0>>} @@ w3 :> {<<1, 0>>, <<3, 0>>}

MCCalls == w1 :> {"set_enabled", "deregister"} @@ w2 :> {"stop_timer"} @@ w3 :> {}

NoHabits == {}

\* With this client TimerfdCovers does not hold.
Postpones == {"postpone"}
=============================================================================
