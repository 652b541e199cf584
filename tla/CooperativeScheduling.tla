------------------------- MODULE CooperativeScheduling ------------------------
(***************************************************************************)
(* The cooperative scheduling test (src/cooperative_scheduling.c): five    *)
(* workers of the same priority each relinquish the processor to the next  *)
(* one and count when it comes back.                                       *)
(*                                                                         *)
(* The kernel keeps them in a ring.  In ThreadX, whose threads are created *)
(* without a time slice, only a relinquish moves it on.  FreeRTOS is       *)
(* configured with configUSE_TIME_SLICING: its tick, and the return from a *)
(* thread of higher priority, move it on too.                              *)
(***************************************************************************)
EXTENDS WorkerReport

VARIABLES
    sliced,  \* the program is built with configUSE_TIME_SLICING
    head,    \* the worker at the head of the ring
    turn     \* what each worker does next

ringVars == <<sliced, counter, head, turn, reportVars>>

RingTypeOK ==
    /\ ReportTypeOK
    /\ sliced \in BOOLEAN
    /\ head \in Workers
    /\ turn \in [Workers -> {"relinquish", "count"}]

\* The five are resumed in order.
RingInit ==
    /\ ReportInit
    /\ sliced \in BOOLEAN
    /\ head = 0
    /\ turn = [i \in Workers |-> "relinquish"]

NoRotation   == UNCHANGED head     \* mutant
Rotate       == head' = (head + 1) % 5

Relinquish(i) ==
    /\ WorkersRun /\ head = i /\ turn[i] = "relinquish"
    /\ Rotate
    /\ turn' = [turn EXCEPT ![i] = "count"]
    /\ UNCHANGED <<sliced, counter, reportVars>>

CountInTurn(i) ==
    /\ WorkersRun /\ head = i /\ turn[i] = "count"
    /\ Count(i)
    /\ turn' = [turn EXCEPT ![i] = "relinquish"]
    /\ UNCHANGED <<sliced, head, reportVars>>

\* The tick interrupt switches between threads of equal priority.
TickSwitches ==
    /\ WorkersRun /\ sliced
    /\ Rotate
    /\ UNCHANGED <<sliced, counter, turn, reportVars>>

RingStep(i) == Relinquish(i) \/ CountInTurn(i)

\* FreeRTOS takes the next of the ring when it returns from a thread of
\* higher priority.
ReporterReturns ==
    IF sliced /\ rpc' = "asleep" THEN Rotate ELSE UNCHANGED head

RingNext ==
    \/ \E i \in Workers : RingStep(i)
    \/ TickSwitches
    \/ ReporterNext /\ ReporterReturns /\ UNCHANGED <<sliced, turn>>

RingSpec == RingInit /\ [][RingNext]_ringVars

-----------------------------------------------------------------------------
\* Without time slices, wherever the reporting thread interrupts the ring, a
\* worker is level with every later one or one ahead: "not more than 1
\* different".
RoundRobin ==
    ~sliced => \A i, j \in Workers : i < j => counter[i] - counter[j] \in {0, 1}

\* Nor is a kernel without time slices accused but by the wrap of the total.
RingAccusedOnlyByWrap ==
    [][~sliced /\ Reporting /\ alarm' => SumOf(counter) >= Modulus]_reportVars

\* No report accuses the kernel: "Cooperative counters should not be more that
\* 1 different than the average!"
NeverAccused == [][Reporting => ~alarm']_reportVars
=============================================================================
