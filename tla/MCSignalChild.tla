--------------------------- MODULE MCSignalChild ----------------------------
(* Instances of SignalChild.                                               *)
EXTENDS SignalChild

CONSTANTS s1, c1, c2, p1, p2

OneSignal   == {s1}
OneChild    == {c1}
TwoChildren == {c1, c2}
OnePid      == {p1}
TwoPids     == {p1, p2}
Careful     == {}
RearmsLate  == {"rearm_removing"}
RaisesAgain == {"raise_reading"}
ReusesEarly == {"reuse_queued"}
AddsLate    == {"add_late"}
SignalsWhilePolling == {"signal_polling"}
=============================================================================
