------------------------------ MODULE TimeVal ------------------------------
(***************************************************************************)
(* time_val and divide_timespec() (include/dasynq/timerbase.h): a time in  *)
(* seconds and nanoseconds is divided by an interval by doubling the       *)
(* interval, then halving it again and subtracting it where it fits.  The  *)
(* quotient is taken to fit an int.                                        *)
(***************************************************************************)
EXTENDS TimeDivision

CONSTANT MaxSeconds     \* bound on the times that are divided

\* An overrun may be negative, computed as it is from the next timer of the queue.
Times == [seconds : -1 .. MaxSeconds, nseconds : 0 .. Second - 1]

ticks(t) == t.seconds * Second + t.nseconds

less(t1, t2) ==
    \/ t1.seconds < t2.seconds
    \/ t1.seconds = t2.seconds /\ t1.nseconds < t2.nseconds

minus(t1, t2) ==
    IF t1.nseconds >= t2.nseconds
    THEN [seconds |-> t1.seconds - t2.seconds, nseconds |-> t1.nseconds - t2.nseconds]
    ELSE [seconds |-> t1.seconds - t2.seconds - 1,
          nseconds |-> Second - t2.nseconds + t1.nseconds]

shift_left(t) ==
    IF 2 * t.nseconds >= Second
    THEN [seconds |-> 2 * t.seconds + 1, nseconds |-> 2 * t.nseconds - Second]
    ELSE [seconds |-> 2 * t.seconds, nseconds |-> 2 * t.nseconds]

shift_right(t) ==
    [seconds |-> t.seconds \div 2,
     nseconds |-> t.nseconds \div 2 + (IF t.seconds % 2 = 1 THEN Second \div 2 ELSE 0)]

-----------------------------------------------------------------------------
(* The two loops.  d is nval times the divisor, r what is left of the      *)
(* number when rval times the divisor has been subtracted.                 *)

RECURSIVE subtract(_, _, _, _)
subtract(d, nval, r, rval) ==
    IF nval = 0 THEN [quotient |-> rval, rem |-> r]
    ELSE IF less(r, d) THEN subtract(shift_right(d), nval \div 2, r, rval)
    ELSE subtract(shift_right(d), nval \div 2, minus(r, d), rval + nval)

RECURSIVE shift(_, _, _)
shift(d, nval, r) ==
    IF d.seconds < r.seconds THEN shift(shift_left(d), 2 * nval, r)
    ELSE subtract(d, nval, r, 1)

divide_timespec(num, den) ==
    IF less(num, den) THEN [quotient |-> 0, rem |-> num]
    ELSE IF num.seconds = den.seconds /\ num.seconds = 0
    THEN [quotient |-> num.nseconds \div den.nseconds,
          rem |-> [seconds |-> 0, nseconds |-> num.nseconds % den.nseconds]]
    ELSE IF num.seconds = den.seconds \/ less(minus(num, den), den)
    THEN [quotient |-> 1, rem |-> minus(num, den)]
    ELSE shift(den, 1, minus(num, den))

-----------------------------------------------------------------------------
\* divide_timespec() yields quotient and remainder as Timers takes them: exactly,
\* unless it falls short, and then they still make up the number.
ASSUME DividesAsDefined ==
    /\ Second % 2 = 0 /\ MaxSeconds \in Nat
    /\ \A num, den \in Times :
         ticks(den) > 0 =>
           LET res == divide_timespec(num, den) IN
           /\ res.quotient = divide(ticks(num), ticks(den))
           /\ ticks(res.rem) = rem(ticks(num), ticks(den))
=============================================================================
