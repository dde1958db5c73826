----------------------------- MODULE MCAttnLock -----------------------------
(* The attention lock with three threads: one polling, one second in the   *)
(* queue and one behind it.                                                *)
EXTENDS AttnLock, TLC

CONSTANTS t1, t2, t3

MCThreads == {t1, t2, t3}
=============================================================================
