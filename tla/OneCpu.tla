-------------------------------- MODULE OneCpu --------------------------------
(***************************************************************************)
(* What a ThreadX port promises the kernel above it: one processor.        *)
(*                                                                         *)
(* At any time at most one thing executes, a thread or the interrupt.  A   *)
(* thread is put on the processor only when it is the one the kernel       *)
(* selected, or when it had preemption disabled and is merely continued    *)
(* after an interrupt.  Only what executes changes the selection.          *)
(* TxPosix and its pthreads, signals and semaphores implement this.        *)
(***************************************************************************)
EXTENDS Naturals

CONSTANTS Threads, Isr, None

VARIABLES
    running,   \* what executes: {} , {a thread} or {Isr}
    top,       \* the thread the kernel selected, or None
    held       \* preemption is disabled

cpuVars == <<running, top, held>>

CpuInit ==
    /\ running = {}
    /\ top \in Threads \cup {None}
    /\ held = FALSE

\* A thread gets the processor.
Start(t) ==
    /\ running = {}
    /\ top = t \/ held
    /\ running' = {t}
    /\ UNCHANGED <<top, held>>

\* The interrupt gets the processor.
StartIsr ==
    /\ running = {}
    /\ running' = {Isr}
    /\ UNCHANGED <<top, held>>

\* What executes leaves the processor, by itself or stopped by the port.
Stop ==
    /\ running # {}
    /\ running' = {}
    /\ UNCHANGED <<top, held>>

\* A thread calls a service.
ThreadService(t) ==
    /\ running = {t}
    /\ top' \in Threads \cup {None}
    /\ held' \in BOOLEAN
    /\ UNCHANGED running

\* The interrupt makes a thread ready.
IsrService ==
    /\ running = {Isr}
    /\ top' \in Threads
    /\ UNCHANGED <<running, held>>

CpuNext == \/ \E t \in Threads : Start(t) \/ ThreadService(t)
           \/ StartIsr \/ Stop \/ IsrService

CpuSpec == CpuInit /\ [][CpuNext]_cpuVars
=============================================================================
