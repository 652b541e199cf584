-------------------------- MODULE PreemptiveScheduling ------------------------
(***************************************************************************)
(* The preemptive scheduling test (src/preemptive_scheduling.c): worker i  *)
(* has a higher priority than worker i - 1.  Each resumes the next, which  *)
(* preempts it, counts when it gets the processor back and suspends        *)
(* itself; the last only counts and suspends, the first never suspends.    *)
(***************************************************************************)
EXTENDS WorkerReport

VARIABLES
    ready,    \* the workers that are not suspended
    current,  \* the worker that has the processor while no other thread has
    at        \* what each worker does next

vars == <<counter, ready, current, at, reportVars>>

First == 0
Last  == 4

TypeOK ==
    /\ ReportTypeOK
    /\ ready \in SUBSET Workers
    /\ current \in Workers
    /\ at \in [Workers -> {"resume", "count", "suspend"}]

\* All are created suspended; the last has nobody to resume.
Init ==
    /\ ReportInit
    /\ ready = {First}
    /\ current = First
    /\ at = [i \in Workers |-> IF i = Last THEN "count" ELSE "resume"]

\* The priorities the workers are created with; a lower number is higher.
SlippedPrio(i) == IF i = Last THEN 7 ELSE 10 - i   \* mutant: that of worker 3
Prio(i) == 10 - i

\* The kernels (external): a thread that is resumed takes the processor if it
\* is of higher priority than the one that has it, and one that suspends
\* itself leaves it to a ready thread of the highest priority.
ResumedLater(i) ==   \* mutant: the kernel does not preempt
    /\ ready' = ready \cup {i}
    /\ UNCHANGED current
Resumed(i) ==
    /\ ready' = ready \cup {i}
    /\ current' = IF Prio(i) < Prio(current) THEN i ELSE current

Suspended(i) ==
    /\ ready' = ready \ {i}
    /\ \E j \in ready \ {i} :
          /\ \A k \in ready \ {i} : Prio(j) <= Prio(k)
          /\ current' = j

ResumeNext(i) ==
    /\ WorkersRun /\ current = i /\ at[i] = "resume"
    /\ Resumed(i + 1)
    /\ at' = [at EXCEPT ![i] = "count"]
    /\ UNCHANGED <<counter, reportVars>>

CountUp(i) ==
    /\ WorkersRun /\ current = i /\ at[i] = "count"
    /\ Count(i)
    /\ at' = [at EXCEPT ![i] = IF i = First THEN "resume" ELSE "suspend"]
    /\ UNCHANGED <<ready, current, reportVars>>

SuspendSelf(i) ==
    /\ WorkersRun /\ current = i /\ at[i] = "suspend"
    /\ Suspended(i)
    /\ at' = [at EXCEPT ![i] = IF i = Last THEN "count" ELSE "resume"]
    /\ UNCHANGED <<counter, reportVars>>

WorkerNext(i) == ResumeNext(i) \/ CountUp(i) \/ SuspendSelf(i)

Next == \/ \E i \in Workers : WorkerNext(i)
        \/ ReporterNext /\ UNCHANGED <<ready, current, at>>

Spec == Init /\ [][Next]_vars

-----------------------------------------------------------------------------
\* Wherever the reporting thread cuts the chain, a worker of higher priority
\* is level with a lower one or one ahead: "not more than 1 different".
Staircase ==
    \A i, j \in Workers : i < j => counter[j] - counter[i] \in {0, 1}

\* "We won't get back here until threads 1, 2, 3, and 4 all execute and
\* self-suspend": when the resume returns, each worker of higher priority has
\* counted once since it was called, and waits to be resumed again.  A resume
\* that found the next worker ready would be lost and return too early.
BackAfterTheChain ==
    at[current] = "count" =>
        \A j \in Workers : j > current =>
            /\ counter[j] = counter[current] + 1
            /\ j \notin ready

\* The scheduler is never accused of what the wrapped total has done.
AccusedOnlyByWrap ==
    [][Reporting /\ alarm' => SumOf(counter) >= Modulus]_reportVars
=============================================================================
