------------------------------ MODULE TxPosixMC ------------------------------
(***************************************************************************)
(* Small instances of TxPosix.  Three threads, one above two of the same   *)
(* priority, show preemption, relinquish and a thread that stays preempted *)
(* through other dispatches; two show every hand-over for liveness.        *)
(***************************************************************************)
EXTENDS TxPosixInv, TLC

CONSTANTS t1, t2, t3

Threads2 == {t1, t2}
Threads3 == {t1, t2, t3}
Prio2 == t1 :> 1 @@ t2 :> 2
Prio3 == t1 :> 1 @@ t2 :> 2 @@ t3 :> 2
=============================================================================
