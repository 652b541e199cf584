---------------------------- MODULE InterruptReport ----------------------------
(***************************************************************************)
(* What the two interrupt tests share (src/interrupt_processing.c and      *)
(* src/interrupt_preemption_processing.c): a counter for the interrupt     *)
(* handler and one for each thread, and a reporting thread of priority 2,  *)
(* which the tick makes ready.  It reads the counters one after the other, *)
(* checks that none is more than one away from the average and prints how  *)
(* many interrupts the period had.                                         *)
(*                                                                         *)
(* counter holds true numbers of increments; Word is what is left of one   *)
(* in an unsigned long.                                                    *)
(***************************************************************************)
EXTENDS Integers, Sequences, Functions

CONSTANTS
    Reads,       \* the names of the counters in the order they are read
    Modulus,     \* unsigned long counts modulo this
    TestCycles,  \* tm_test_cycles: 0 runs for ever
    MaxCount     \* bound: the handler counts no further

ASSUME InterruptReportAssumption ==
    /\ Reads \in Seq(STRING) /\ "handler" \in Range(Reads)
    /\ Len(Reads) \in 2 .. 3
    /\ Modulus \in Nat /\ Modulus > Len(Reads)
    /\ TestCycles \in Nat
    /\ MaxCount \in Nat

Names == Range(Reads)

VARIABLES
    counter,     \* the increments of each counter
    rpc,         \* the control of the reporting thread
    got,         \* how many counters it has read
    snap,        \* the values read
    last_total,
    cycle,       \* _tm_cycle
    period,      \* the number of interrupts last printed
    alarm        \* the last report printed an ERROR

reportVars == <<rpc, got, snap, last_total, cycle, period, alarm>>

Word(n) == n % Modulus

ReportTypeOK ==
    /\ counter \in [Names -> Nat]
    /\ rpc \in {"start", "asleep", "reading", "exited"}
    /\ got \in 0 .. Len(Reads)
    /\ snap \in [Names -> Nat]
    /\ last_total \in Nat
    /\ cycle \in Nat
    /\ period \in Nat
    /\ alarm \in BOOLEAN

ReportInit ==
    /\ counter = [n \in Names |-> 0]
    /\ rpc = "start"
    /\ got = 0
    /\ snap = [n \in Names |-> 0]
    /\ last_total = 0
    /\ cycle = 0
    /\ period = 0
    /\ alarm = FALSE

-----------------------------------------------------------------------------
\* The sum of the two or three counters.
SumOf(c) ==
    LET Read(k) == IF k <= Len(Reads) THEN c[Reads[k]] ELSE 0
    IN  Read(1) + Read(2) + Read(3)

Average(c) == Word(SumOf(c)) \div Len(Reads)

\* Mutant: the counters may not differ from the average at all.
Unequal(c) ==
    /\ Average(c) > 0
    /\ \E n \in Names : c[n] < Average(c) \/ c[n] > Average(c)

OutOfTolerance(c) ==
    /\ Average(c) > 0
    /\ \E n \in Names : c[n] < Average(c) - 1 \/ c[n] > Average(c) + 1

\* The interrupts of the period: a difference of unsigned longs.
Difference(new, old) == Word(new - old)

\* TM_REPORT_LOOP: is there another cycle?
LoopFrom(n) ==
    rpc' = IF TestCycles = 0 \/ n < TestCycles THEN "asleep" ELSE "exited"

ReporterStarts ==
    /\ rpc = "start"
    /\ LoopFrom(cycle)
    /\ UNCHANGED <<counter, got, snap, last_total, cycle, period, alarm>>

\* The tick that ends the sleep.
ReporterWakes ==
    /\ rpc = "asleep"
    /\ rpc' = "reading"
    /\ got' = 0
    /\ UNCHANGED <<counter, snap, last_total, cycle, period, alarm>>

ReadCounter ==
    /\ rpc = "reading" /\ got < Len(Reads)
    /\ LET n == Reads[got + 1] IN snap' = [snap EXCEPT ![n] = Word(counter[n])]
    /\ got' = got + 1
    /\ UNCHANGED <<counter, rpc, last_total, cycle, period, alarm>>

Reporting == rpc = "reading" /\ got = Len(Reads)

Report ==
    /\ Reporting
    /\ alarm' = OutOfTolerance(snap)
    /\ period' = Difference(snap["handler"], last_total)
    /\ last_total' = snap["handler"]
    /\ cycle' = IF TestCycles = 0 THEN cycle ELSE cycle + 1
    /\ LoopFrom(cycle')
    /\ UNCHANGED <<counter, got, snap>>

ReporterNext == ReadCounter \/ Report

\* The threads of the test, of lower priority, run while the reporting thread
\* sleeps.
AnyTime    == rpc # "start"   \* mutant
ThreadsRun == rpc = "asleep"

CountUp(n) == counter' = [counter EXCEPT ![n] = @ + 1]

-----------------------------------------------------------------------------
(***************************************************************************)
(* What a report promises.                                                 *)
(***************************************************************************)
\* What the reporting thread has read is what the counters hold, all of one
\* instant, although an interrupt may have been raised before it woke.
SnapshotConsistent ==
    rpc = "reading" =>
        \A k \in 1 .. got : snap[Reads[k]] = Word(counter[Reads[k]])

\* No report accuses the kernel before the total outgrows an unsigned long,
\* wherever the tick has cut the interrupt.
NeverAccused ==
    [][Reporting /\ alarm' => SumOf(counter) >= Modulus]_reportVars
=============================================================================
