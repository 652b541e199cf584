-------------------------- MODULE InterruptPreemption -------------------------
(***************************************************************************)
(* The interrupt preemption test                                           *)
(* (src/interrupt_preemption_processing.c).  Thread 1, priority 10, calls  *)
(* tm_cause_interrupt; the handler resumes thread 0, priority 3, which     *)
(* counts and suspends itself before thread 1 goes on.                     *)
(*                                                                         *)
(* The four ports differ in when the handler runs.  SVC on ThreadX         *)
(* Cortex-M is a trap, and the ISR thread or task of the POSIX ports has   *)
(* the highest priority, so that its semaphore's put switches to it: the   *)
(* caller does not take another step (barrier).  On FreeRTOS Cortex-M the  *)
(* call is a store to the set-pending register without a barrier after it, *)
(* which may take effect an instruction or two late.                       *)
(***************************************************************************)
EXTENDS InterruptReport

PreemptionReads == <<"thread0", "thread1", "handler">>

ASSUME PreemptionAssumption == Reads = PreemptionReads

VARIABLES
    barrier, \* the port that the program is built for is one of the first three
    ready,  \* the ready threads of 0 and 1
    at,     \* the next step of each thread
    irq,    \* the interrupt: "none", "pended", or "due" at once
    isr     \* the control of the handler

threadVars == <<barrier, ready, at, irq, isr>>
vars == <<counter, reportVars, threadVars>>

TypeOK ==
    /\ ReportTypeOK
    /\ barrier \in BOOLEAN
    /\ ready \subseteq {0, 1}
    /\ at \in [{0, 1} -> {"count", "suspend", "raise"}]
    /\ irq \in {"none", "pended", "due"}
    /\ isr \in {"idle", "count", "resume"}

Init ==
    /\ ReportInit
    /\ barrier \in BOOLEAN
    /\ ready = {1}
    /\ at = [t \in {0, 1} |-> IF t = 0 THEN "count" ELSE "raise"]
    /\ irq = "none"
    /\ isr = "idle"

NoInterrupt == irq = "none" /\ isr = "idle"

\* Thread t, where it is at step s, is the ready one of highest priority.
LowestFirst(t) == \A u \in ready : u <= t   \* mutant
Highest(t)     == \A u \in ready : t <= u

Runs(t, s) ==
    /\ ThreadsRun
    /\ t \in ready /\ Highest(t)
    /\ at[t] = s
    /\ UNCHANGED <<barrier, reportVars>>

-----------------------------------------------------------------------------
(***************************************************************************)
(* tm_cause_interrupt and the handler                                      *)
(***************************************************************************)
Raise ==
    /\ NoInterrupt
    /\ Runs(1, "raise")
    /\ counter["handler"] < MaxCount
    /\ irq' \in IF barrier THEN {"due"} ELSE {"due", "pended"}
    /\ at' = [at EXCEPT ![1] = "count"]
    /\ UNCHANGED <<counter, ready, isr>>

HandlerEnters ==
    /\ irq # "none"
    /\ irq' = "none"
    /\ isr' = "count"
    /\ UNCHANGED <<barrier, counter, reportVars, ready, at>>

HandlerCounts ==
    /\ isr = "count"
    /\ CountUp("handler")
    /\ isr' = "resume"
    /\ UNCHANGED <<barrier, reportVars, ready, at, irq>>

HandlerResumes ==
    /\ isr = "resume"
    /\ ready' = ready \union {0}
    /\ isr' = "idle"
    /\ UNCHANGED <<barrier, counter, reportVars, at, irq>>

-----------------------------------------------------------------------------
Thread0Counts ==
    /\ NoInterrupt
    /\ Runs(0, "count")
    /\ CountUp("thread0")
    /\ at' = [at EXCEPT ![0] = "suspend"]
    /\ UNCHANGED <<ready, irq, isr>>

Thread0Suspends ==
    /\ NoInterrupt
    /\ Runs(0, "suspend")
    /\ ready' = ready \ {0}
    /\ at' = [at EXCEPT ![0] = "count"]
    /\ UNCHANGED <<counter, irq, isr>>

\* An interrupt that is pended is taken after one more step at the latest.
Thread1Counts ==
    /\ irq # "due" /\ isr = "idle"
    /\ Runs(1, "count")
    /\ CountUp("thread1")
    /\ irq' = IF irq = "pended" THEN "due" ELSE "none"
    /\ at' = [at EXCEPT ![1] = "raise"]
    /\ UNCHANGED <<ready, isr>>

ThreadNext ==
    \/ Raise \/ HandlerEnters \/ HandlerCounts \/ HandlerResumes
    \/ Thread0Counts \/ Thread0Suspends \/ Thread1Counts

\* The tick may come at any time; the thread that it makes ready runs when no
\* handler does.
Anyway       == TRUE   \* mutant
ReporterRuns == NoInterrupt

Next == \/ ThreadNext
        \/ /\ ReporterStarts \/ ReporterWakes \/ (ReporterRuns /\ ReporterNext)
           /\ UNCHANGED threadVars

Spec == Init /\ [][Next]_vars

-----------------------------------------------------------------------------
\* Behind a barrier tm_cause_interrupt returns when the handler and the thread
\* that it resumed are done: thread 1 is one behind both whenever it counts.
ReturnsAfterHandler ==
    [][barrier /\ counter'["thread1"] # counter["thread1"] =>
          \A n \in {"handler", "thread0"} : counter[n] = counter["thread1"] + 1]_vars

\* However late the interrupt is taken, no counter is two ahead of another.
Level == \A m, n \in Names : counter[m] <= counter[n] + 1

\* The handler's resume finds thread 0 suspended; one that found it ready
\* would be lost, and with it a count.
NoLostResume == isr = "resume" => 0 \notin ready

Inv == TypeOK /\ Level /\ NoLostResume

-----------------------------------------------------------------------------
(***************************************************************************)
(* The inductive invariant: who may run, and by how much the counters      *)
(* differ meanwhile.                                                       *)
(***************************************************************************)
Taken == irq # "none" \/ isr = "count"   \* the handler has not counted yet

ControlInv ==
    /\ 1 \in ready
    /\ irq # "none" => isr = "idle"
    /\ 0 \in ready => NoInterrupt
    /\ 0 \notin ready => at[0] = "count"
    /\ at[0] # "raise" /\ at[1] # "suspend"
    /\ at[1] = "raise" /\ ~NoInterrupt => ~barrier
    /\ at[1] = "raise" /\ 0 \in ready => ~barrier
    /\ irq = "pended" => at[1] = "count" /\ ~barrier
    /\ rpc = "reading" /\ got > 0 => NoInterrupt

CountInv ==
    /\ counter["handler"] = counter["thread0"] +
          (IF isr = "resume" \/ (0 \in ready /\ at[0] = "count") THEN 1 ELSE 0)
    /\ counter["handler"] = counter["thread1"] +
          (IF at[1] = "count" THEN 1 ELSE 0) - (IF Taken THEN 1 ELSE 0)

IInv == TypeOK /\ ControlInv /\ CountInv /\ SnapshotConsistent
=============================================================================
