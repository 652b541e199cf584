-------------------------- MODULE InterruptProcessing -------------------------
(***************************************************************************)
(* The interrupt processing test (src/interrupt_processing.c) on the four  *)
(* ports.  Thread 0 takes a semaphore, calls tm_cause_interrupt_sync,      *)
(* which runs the handler inline, and takes the semaphore that the handler *)
(* has put.                                                                *)
(*                                                                         *)
(* On Cortex-M the call masks interrupts and sets a flag by which the      *)
(* services called in the handler know that they are in an "interrupt";    *)
(* the ThreadX port then brackets the service once more with a mask of its *)
(* own.  The POSIX ports mask nothing.                                     *)
(*                                                                         *)
(* No thread waits for the semaphore, so no put makes a thread ready and   *)
(* tm_threadx_benchmark_sync_complete finds no preemption pending.         *)
(***************************************************************************)
EXTENDS InterruptReport

ProcessingReads == <<"thread", "handler">>

ASSUME ProcessingAssumption == Reads = ProcessingReads

Ports == {"threadx_posix", "freertos_posix",
          "threadx_cortex_m", "freertos_cortex_m"}

VARIABLES
    port,     \* the port that the program is built for
    at,       \* the control of thread 0
    primask,  \* PRIMASK: interrupts are masked
    saved,    \* the mask that the bracket will restore
    active,   \* tm_benchmark_interrupt_active
    sem       \* the count of semaphore 0

threadVars == <<port, at, primask, saved, active, sem>>
vars == <<counter, reportVars, threadVars>>

Masks    == port \in {"threadx_cortex_m", "freertos_cortex_m"}
HasFlag  == port # "freertos_posix"
Brackets == port = "threadx_cortex_m"
Binary   == port \in {"freertos_posix", "freertos_cortex_m"}

TypeOK ==
    /\ ReportTypeOK
    /\ port \in Ports
    /\ at \in {"first", "mask", "flag", "handler", "enter", "put", "exit",
               "unflag", "unmask", "get", "count", "returned"}
    /\ primask \in BOOLEAN
    /\ saved \in BOOLEAN
    /\ active \in BOOLEAN
    /\ sem \in Nat

\* tm_semaphore_create: the count starts at 1.
Init ==
    /\ ReportInit
    /\ port \in Ports
    /\ at = "first"
    /\ primask = FALSE
    /\ saved = FALSE
    /\ active = FALSE
    /\ sem = 1

\* A step of thread 0.
Step(from, to) ==
    /\ ThreadsRun
    /\ at = from /\ at' = to
    /\ UNCHANGED <<port, reportVars>>

\* tm_semaphore_get without waiting; thread 0 returns if it fails.
Get(from, to) ==
    /\ Step(from, IF sem > 0 THEN to ELSE "returned")
    /\ sem' = IF sem > 0 THEN sem - 1 ELSE 0
    /\ UNCHANGED <<counter, primask, saved, active>>

FirstGet == Get("first", "mask")

-----------------------------------------------------------------------------
(***************************************************************************)
(* tm_cause_interrupt_sync                                                 *)
(***************************************************************************)
Mask ==
    /\ Step("mask", "flag")
    /\ counter["handler"] < MaxCount
    /\ primask' = Masks
    /\ UNCHANGED <<counter, saved, active, sem>>

SetFlag ==
    /\ Step("flag", "handler")
    /\ active' = HasFlag
    /\ UNCHANGED <<counter, primask, saved, sem>>

\* tm_interrupt_handler; its tm_semaphore_put looks at the flag.
HandlerCounts ==
    /\ Step("handler", IF Brackets /\ active THEN "enter" ELSE "put")
    /\ CountUp("handler")
    /\ UNCHANGED <<primask, saved, active, sem>>

\* tm_threadx_benchmark_isr_enter
BracketEnter ==
    /\ Step("enter", "put")
    /\ saved' = primask
    /\ primask' = TRUE
    /\ UNCHANGED <<counter, active, sem>>

LosePut == UNCHANGED sem   \* mutant
GiveSem == IF Binary THEN sem' = 1 ELSE sem' = sem + 1

Put ==
    /\ Step("put", IF Brackets /\ active THEN "exit" ELSE "unflag")
    /\ GiveSem
    /\ UNCHANGED <<counter, primask, saved, active>>

\* tm_threadx_benchmark_isr_exit
EnableAlways == primask' = FALSE   \* mutant: cpsie instead of msr primask
RestoreMask  == primask' = saved

BracketExit ==
    /\ Step("exit", "unflag")
    /\ RestoreMask
    /\ UNCHANGED <<counter, saved, active, sem>>

ClearFlag ==
    /\ Step("unflag", "unmask")
    /\ active' = FALSE
    /\ UNCHANGED <<counter, primask, saved, sem>>

Unmask ==
    /\ Step("unmask", "get")
    /\ primask' = FALSE
    /\ UNCHANGED <<counter, saved, active, sem>>

-----------------------------------------------------------------------------
GetAgain == Get("get", "count")

ThreadCounts ==
    /\ Step("count", "mask")
    /\ CountUp("thread")
    /\ UNCHANGED <<primask, saved, active, sem>>

ThreadNext ==
    \/ FirstGet \/ Mask \/ SetFlag \/ HandlerCounts \/ BracketEnter \/ Put
    \/ BracketExit \/ ClearFlag \/ Unmask \/ GetAgain \/ ThreadCounts

\* The tick interrupt; what it made ready preempts thread 0 at once.
TickTaken == ~primask /\ ReporterWakes

Next == \/ ThreadNext
        \/ /\ ReporterStarts \/ TickTaken \/ ReporterNext
           /\ UNCHANGED threadVars

Spec == Init /\ [][Next]_vars

-----------------------------------------------------------------------------
\* On Cortex-M no other thread and no tick observes the flag: a service that
\* another thread calls never takes itself for one of the interrupt.
FlagIsPrivate == Masks /\ rpc # "asleep" => ~active

\* The semaphore is put exactly once a round, so that thread 0 always finds
\* it: the test, which just stops counting when it does not, goes on.
HandshakeHolds ==
    /\ sem <= 1
    /\ at # "returned"

-----------------------------------------------------------------------------
(***************************************************************************)
(* The inductive invariant: where thread 0 stands tells who has the        *)
(* semaphore, whether the tick is masked and what the counters differ by.  *)
(***************************************************************************)
Masked  == {"flag", "handler", "enter", "put", "exit", "unflag", "unmask"}
Flagged == {"handler", "enter", "put", "exit", "unflag"}
Given   == {"first", "exit", "unflag", "unmask", "get"}

HandshakeInv == at # "returned" /\ sem = IF at \in Given THEN 1 ELSE 0

MaskInv ==
    /\ primask = (Masks /\ at \in Masked)
    /\ active = (HasFlag /\ at \in Flagged)
    /\ at \in {"enter", "exit"} => Brackets
    /\ Brackets /\ at \in {"put", "exit"} => saved
    /\ primask => rpc = "asleep"

CountInv ==
    counter["handler"] = counter["thread"] +
        (IF at \in {"first", "mask", "flag", "handler"} THEN 0 ELSE 1)

IInv == TypeOK /\ HandshakeInv /\ MaskInv /\ CountInv /\ SnapshotConsistent
=============================================================================
