----------------------------- MODULE WorkerReport -----------------------------
(***************************************************************************)
(* What the two scheduling tests share (src/preemptive_scheduling.c and    *)
(* src/cooperative_scheduling.c): five worker threads, each with a counter *)
(* of its own, and a reporting thread of higher priority that sleeps,      *)
(* wakes, reads the five counters one after the other, checks that none is *)
(* more than one away from the average, prints what the period added, and  *)
(* goes back to sleep, or leaves after tm_test_cycles periods.             *)
(*                                                                         *)
(* The counters are unsigned long.  counter holds the number of increments *)
(* and Word what is left of a number in the variable of the program.       *)
(***************************************************************************)
EXTENDS Integers

CONSTANTS
    Modulus,     \* unsigned long counts modulo this
    TestCycles,  \* tm_test_cycles: 0 runs for ever
    MaxCount     \* bound: no worker counts further

ASSUME ReportAssumption ==
    /\ Modulus \in Nat /\ Modulus > 5
    /\ TestCycles \in Nat
    /\ MaxCount \in Nat

Workers == 0 .. 4

VARIABLES
    counter,     \* the increments of each worker
    rpc,         \* the control of the reporting thread
    got,         \* how many counters it has read
    snap,        \* c0 .. c4
    last_total,
    cycle,       \* _tm_cycle
    period,      \* the period total last printed
    alarm,       \* the last report printed an ERROR
    seen         \* history: the increments of all workers at the last report

reportVars == <<rpc, got, snap, last_total, cycle, period, alarm, seen>>

Word(n) == n % Modulus

SumOf(c) == c[0] + c[1] + c[2] + c[3] + c[4]

ReportTypeOK ==
    /\ counter \in [Workers -> Nat]
    /\ rpc \in {"start", "asleep", "reading", "exited"}
    /\ got \in 0 .. 5
    /\ snap \in [Workers -> Nat]
    /\ last_total \in Nat
    /\ cycle \in Nat
    /\ period \in Nat
    /\ alarm \in BOOLEAN
    /\ seen \in Nat

ReportInit ==
    /\ counter = [i \in Workers |-> 0]
    /\ rpc = "start"
    /\ got = 0
    /\ snap = [i \in Workers |-> 0]
    /\ last_total = 0
    /\ cycle = 0
    /\ period = 0
    /\ alarm = FALSE
    /\ seen = 0

-----------------------------------------------------------------------------
(***************************************************************************)
(* The tolerance check.                                                    *)
(***************************************************************************)
Total(c)   == Word(SumOf(c))
Average(c) == Total(c) \div 5

FirstOnly(c) ==   \* mutant: the average is taken for a counter
    /\ c[0] > 0
    /\ \E i \in Workers : c[i] < c[0] \/ c[i] > c[0]
OutOfTolerance(c) ==
    /\ Average(c) > 0
    /\ \E i \in Workers : c[i] < Average(c) - 1 \/ c[i] > Average(c) + 1

-----------------------------------------------------------------------------
(***************************************************************************)
(* The reporting thread.                                                   *)
(***************************************************************************)
\* TM_REPORT_LOOP: is there another cycle?
GoesOn(n)  == TestCycles = 0 \/ n < TestCycles

LoopFrom(n) == rpc' = IF GoesOn(n) THEN "asleep" ELSE "exited"

ReporterStarts ==
    /\ rpc = "start"
    /\ LoopFrom(cycle)
    /\ UNCHANGED <<counter, got, snap, last_total, cycle, period, alarm, seen>>

ReporterWakes ==
    /\ rpc = "asleep"
    /\ rpc' = "reading"
    /\ got' = 0
    /\ UNCHANGED <<counter, snap, last_total, cycle, period, alarm, seen>>

ReadCounter(k) ==
    /\ rpc = "reading" /\ got = k
    /\ snap' = [snap EXCEPT ![k] = Word(counter[k])]
    /\ got' = k + 1
    /\ UNCHANGED <<counter, rpc, last_total, cycle, period, alarm, seen>>

KeepTotal    == last_total' = last_total        \* mutant: not saved
SaveTotal    == last_total' = Total(snap)

PeriodTotal  == Word(Total(snap) - last_total)

Reporting == rpc = "reading" /\ got = 5

Report ==
    /\ Reporting
    /\ alarm' = OutOfTolerance(snap)
    /\ period' = PeriodTotal
    /\ SaveTotal
    /\ cycle' = IF TestCycles = 0 THEN cycle ELSE cycle + 1
    /\ LoopFrom(cycle')
    /\ seen' = SumOf(counter)
    /\ UNCHANGED <<counter, got, snap>>

ReporterNext == \/ ReporterStarts \/ ReporterWakes
                \/ \E k \in Workers : ReadCounter(k)
                \/ Report

\* A worker runs only while the reporting thread, which is of higher
\* priority, sleeps.
AnyTime      == rpc # "exited"   \* mutant: of no higher priority
WorkersRun   == rpc = "asleep"

Count(i) ==
    /\ counter[i] < MaxCount
    /\ counter' = [counter EXCEPT ![i] = @ + 1]

-----------------------------------------------------------------------------
(***************************************************************************)
(* What a report promises.                                                 *)
(***************************************************************************)
\* What the reporting thread has read is what the counters hold, all five
\* at one instant, although it reads them one by one.
SnapshotConsistent ==
    rpc = "reading" =>
        \A k \in Workers : k < got => snap[k] = Word(counter[k])

\* Two counters are further apart than the tests tolerate.
Drifted == \E i, j \in Workers : counter[i] > counter[j] + 1

\* The ERROR line accuses the scheduler of having let two counters drift
\* apart.  It is printed only when they did, or when the total of the five
\* does not fit an unsigned long, so that its average is wrong.
AlarmJustified ==
    [][Reporting /\ alarm' => Drifted \/ SumOf(counter) >= Modulus]_reportVars

\* The same for any length of run: "Preemptive counters should not be more
\* that 1 different than the average!" is said of counters that are.
NoFalseAlarm == [][Reporting /\ alarm' => Drifted]_reportVars

\* The period total printed is what the workers added since the last report,
\* through any number of wraps of the total, modulo its width.
PeriodTotalExact ==
    [][Reporting => period' = Word(SumOf(counter) - seen)]_reportVars

\* The total saved is that of the counters at the last report.
TotalSaved == last_total = Word(seen)
=============================================================================
