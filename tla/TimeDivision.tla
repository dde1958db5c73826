---------------------------- MODULE TimeDivision ----------------------------
(***************************************************************************)
(* What divide_timespec() (include/dasynq/timerbase.h) yields, with times  *)
(* counted in ticks.  TimeVal models how it gets there, with seconds and   *)
(* nanoseconds; Timers uses it.                                            *)
(***************************************************************************)
EXTENDS Integers

CONSTANT Second     \* ticks in a second

ASSUME SecondAssumption == Second \in Nat \ {0}

\* The quotient is never more than 2 if the number is at least a second but falls
\* below one when the divisor is subtracted.
FallsShort(n, d) == n >= Second /\ n - d < Second /\ n \div d > 2

\* divide_timespec(): a number less than the divisor (a negative one, too) is its own
\* remainder.
divide(n, d) == IF n < d THEN 0 ELSE IF FallsShort(n, d) THEN 2 ELSE n \div d

\* What is left of the number.
rem(n, d) == n - d * divide(n, d)
=============================================================================
