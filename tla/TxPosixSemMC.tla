----------------------------- MODULE TxPosixSemMC -----------------------------
(***************************************************************************)
(* Two threads of different priorities for TxPosixSem.                     *)
(***************************************************************************)
EXTENDS TxPosixSem, TLC

CONSTANTS t1, t2

Threads2 == {t1, t2}
Prio2 == t1 :> 1 @@ t2 :> 2
=============================================================================
