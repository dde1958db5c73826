---------------------------- MODULE MCEventLoop -----------------------------
(* Instances of EventLoop: a descriptor epoll can watch (w1) and a regular *)
(* file (w2), one or two threads.                                          *)
EXTENDS EventLoop, TLC

CONSTANTS t1, t2, w1, w2

OneThread  == {t1}
TwoThreads == {t1, t2}
OneWatcher == {w1}
OneFile    == {w2}
FdAndFile  == {w1, w2}
NoneOf     == {}
Unlimited  == -1
OneEvent   == 1
EnablesItself == {"enable_active"}
DeletesItself == {"removed"}

ThreadSymmetry == Permutations(Threads)
=============================================================================
