------------------------ MODULE InterruptPreemptionProof ----------------------
(***************************************************************************)
(* The interrupt preemption test keeps its counters level on every port,   *)
(* and its interrupts are done when the call returns where a barrier or a  *)
(* switch follows it, for every width of unsigned long, number of cycles   *)
(* and length of run.                                                      *)
(***************************************************************************)
EXTENDS InterruptPreemption, TLAPS

\* The three names and the numbers that the proofs use.
LEMMA Names3 ==
    /\ Len(Reads) = 3
    /\ Names = {"thread0", "thread1", "handler"}
    /\ \A k \in 1 .. 3 : Reads[k] \in Names
    /\ Reads[1] = "thread0" /\ Reads[2] = "thread1" /\ Reads[3] = "handler"
  <1> USE PreemptionAssumption DEF PreemptionReads
  <1>1. Len(Reads) = 3
    OBVIOUS
  <1>2. /\ Reads[1] = "thread0" /\ Reads[2] = "thread1" /\ Reads[3] = "handler"
        /\ DOMAIN Reads = 1 .. 3
    OBVIOUS
  <1> HIDE PreemptionAssumption
  <1>3. 1 .. 3 = {1, 2, 3}
    OBVIOUS
  <1>4. Names = {Reads[k] : k \in {1, 2, 3}}
    BY <1>2, <1>3 DEF Names, Range
  <1>5. Names = {"thread0", "thread1", "handler"}
    BY <1>2, <1>4
  <1> QED
    BY <1>1, <1>2, <1>3, <1>5

LEMMA WordIsNat == ASSUME NEW n \in Int PROVE Word(n) \in Nat
  BY InterruptReportAssumption, SMT DEF Word

LEMMA WordOfSmall == ASSUME NEW n \in Nat, n < Modulus PROVE Word(n) = n
  BY InterruptReportAssumption, SMT DEF Word

LEMMA SumOfThree ==
    ASSUME NEW c \in [Names -> Nat]
    PROVE  SumOf(c) = c["thread0"] + c["thread1"] + c["handler"]
  <1>1. /\ Reads[1] = "thread0" /\ Reads[2] = "thread1" /\ Reads[3] = "handler"
        /\ Len(Reads) = 3
    BY Names3
  <1>2. c["thread0"] \in Nat /\ c["thread1"] \in Nat /\ c["handler"] \in Nat
    BY Names3
  <1> QED
    BY <1>1, <1>2 DEF SumOf

\* Counters no two of which are more than one apart, and whose sum fits an
\* unsigned long, are within the tolerance.
LEMMA LevelIsTolerated ==
    ASSUME NEW c \in [Names -> Nat],
           \A m, n \in Names : c[m] <= c[n] + 1,
           SumOf(c) < Modulus
    PROVE  ~ OutOfTolerance(c)
  <1> DEFINE a == c["thread0"]
             b == c["thread1"]
             h == c["handler"]
             total == a + b + h
  <1>1. a \in Nat /\ b \in Nat /\ h \in Nat /\ SumOf(c) = total
    BY Names3, SumOfThree
  <1>2. /\ a <= b + 1 /\ a <= h + 1 /\ b <= a + 1
        /\ b <= h + 1 /\ h <= a + 1 /\ h <= b + 1
    BY Names3
  <1>3. Word(SumOf(c)) = total
    <2>1. total \in Nat /\ total < Modulus
      BY <1>1
    <2> QED
      BY <1>1, <2>1, WordOfSmall
  <1>4. Average(c) = total \div 3
    BY <1>3, Names3 DEF Average
  <1> HIDE DEF a, b, h
  <1>5. /\ ~ (a < Average(c) - 1) /\ ~ (a > Average(c) + 1)
        /\ ~ (b < Average(c) - 1) /\ ~ (b > Average(c) + 1)
        /\ ~ (h < Average(c) - 1) /\ ~ (h > Average(c) + 1)
    BY <1>1, <1>2, <1>4
  <1> QED
    BY <1>5, Names3 DEF OutOfTolerance, a, b, h

LEMMA InitInvariant == Init => IInv
  <1> SUFFICES ASSUME Init PROVE IInv
    OBVIOUS
  <1>1. alarm \in BOOLEAN
    BY DEF Init, ReportInit
  <1>2. ReportTypeOK
    BY <1>1, Names3 DEF Init, ReportInit, ReportTypeOK
  <1>3. TypeOK
    BY <1>2 DEF Init, TypeOK
  <1>4. ControlInv
    BY DEF Init, ReportInit, ControlInv, NoInterrupt
  <1>5. CountInv
    BY Names3 DEF Init, ReportInit, CountInv, Taken
  <1>6. SnapshotConsistent
    BY DEF Init, ReportInit, SnapshotConsistent
  <1> QED
    BY <1>3, <1>4, <1>5, <1>6 DEF IInv

\* The steps of the threads and of the handler.
LEMMA ThreadInvariant ==
    ASSUME IInv, ThreadNext
    PROVE  IInv'
  <1> USE Names3 DEF IInv, TypeOK, ReportTypeOK, ControlInv, CountInv, Taken,
          NoInterrupt, SnapshotConsistent
  <1>1. CASE Raise
    BY <1>1 DEF Raise, Runs, Highest, ThreadsRun, reportVars
  <1>2. CASE HandlerEnters
    BY <1>2 DEF HandlerEnters, reportVars
  <1>3. CASE HandlerCounts
    BY <1>3 DEF HandlerCounts, CountUp, reportVars
  <1>4. CASE HandlerResumes
    BY <1>4 DEF HandlerResumes, reportVars
  <1>5. CASE Thread0Counts
    BY <1>5 DEF Thread0Counts, Runs, ThreadsRun, CountUp, reportVars
  <1>6. CASE Thread0Suspends
    BY <1>6 DEF Thread0Suspends, Runs, ThreadsRun, reportVars
  <1>7. CASE Thread1Counts
    BY <1>7 DEF Thread1Counts, Runs, Highest, ThreadsRun, CountUp, reportVars
  <1> QED
    BY <1>1, <1>2, <1>3, <1>4, <1>5, <1>6, <1>7 DEF ThreadNext

\* The steps of the reporting thread; it reads only when no interrupt is due.
LEMMA ReporterInvariant ==
    ASSUME IInv, UNCHANGED threadVars,
           ReporterStarts \/ ReporterWakes \/ (ReporterRuns /\ ReporterNext)
    PROVE  IInv'
  <1> USE Names3, InterruptReportAssumption
      DEF IInv, TypeOK, ReportTypeOK, ControlInv, CountInv, Taken, NoInterrupt,
          SnapshotConsistent, threadVars
  <1>1. CASE ReporterStarts
    BY <1>1 DEF ReporterStarts, LoopFrom
  <1>2. CASE ReporterWakes
    BY <1>2 DEF ReporterWakes
  <1>3. CASE ReporterRuns /\ ReadCounter
    <2> DEFINE n == Reads[got + 1]
    <2>1. got \in Nat /\ got + 1 \in 1 .. 3 /\ n \in Names
      BY <1>3 DEF ReadCounter
    <2>2. Word(counter[n]) \in Nat
      <3>1. counter[n] \in Int
        BY <2>1
      <3> QED
        BY <3>1, WordIsNat
    <2>3. snap' = [snap EXCEPT ![n] = Word(counter[n])] /\ got' = got + 1
      BY <1>3 DEF ReadCounter
    <2>4. (TypeOK /\ ControlInv /\ CountInv)'
      BY <1>3, <2>1, <2>2, <2>3 DEF ReadCounter, ReporterRuns
    <2>5. SnapshotConsistent'
      <3> SUFFICES ASSUME NEW k \in 1 .. got + 1
                   PROVE  snap'[Reads[k]] = Word(counter[Reads[k]])
        BY <1>3, <2>3 DEF ReadCounter, Word
      <3>1. Reads[k] \in Names
        BY <2>1
      <3>2. CASE Reads[k] = n
        BY <2>1, <2>3, <3>2
      <3>3. CASE Reads[k] # n
        BY <1>3, <2>1, <2>3, <3>1, <3>3 DEF ReadCounter
      <3> QED
        BY <3>2, <3>3
    <2> QED
      BY <2>4, <2>5
  <1>4. CASE ReporterRuns /\ Report
    <2>1. snap["handler"] \in Nat /\ last_total \in Nat
      OBVIOUS
    <2>2. Difference(snap["handler"], last_total) \in Nat
      <3>1. snap["handler"] - last_total \in Int
        BY <2>1
      <3> QED
        BY <3>1, WordIsNat DEF Difference
    <2>3. alarm' \in BOOLEAN
      BY <1>4 DEF Report, OutOfTolerance
    <2> QED
      BY <1>4, <2>1, <2>2, <2>3 DEF Report, Reporting, LoopFrom
  <1> QED
    BY <1>1, <1>2, <1>3, <1>4 DEF ReporterNext

LEMMA StepInvariant == IInv /\ [Next]_vars => IInv'
  <1> SUFFICES ASSUME IInv, [Next]_vars
               PROVE  IInv'
    OBVIOUS
  <1>1. CASE ThreadNext
    BY <1>1, ThreadInvariant
  <1>2. CASE /\ ReporterStarts \/ ReporterWakes \/ (ReporterRuns /\ ReporterNext)
             /\ UNCHANGED threadVars
    BY <1>2, ReporterInvariant
  <1>3. CASE UNCHANGED vars
    BY <1>3 DEF IInv, TypeOK, ReportTypeOK, ControlInv, CountInv, Taken,
                NoInterrupt, SnapshotConsistent, vars, reportVars, threadVars
  <1> QED
    BY <1>1, <1>2, <1>3 DEF Next

\* The inductive invariant holds in every reachable state.
THEOREM Invariance == Spec => []IInv
  BY InitInvariant, StepInvariant, PTL DEF Spec

LEMMA InvariantIsLevel == IInv => Inv
  <1> SUFFICES ASSUME IInv PROVE Inv
    OBVIOUS
  <1>1. Level
    BY Names3 DEF IInv, TypeOK, ReportTypeOK, ControlInv, CountInv, Taken,
                  NoInterrupt, Level
  <1> QED
    BY <1>1 DEF IInv, ControlInv, NoInterrupt, NoLostResume, Inv

\* No counter is two ahead of another and no resume of the handler is lost,
\* however late the interrupt is taken.
THEOREM CountersStayLevel == Spec => []Inv
  BY InvariantIsLevel, Invariance, PTL

\* The reporting thread sees the three counters as of one instant.
THEOREM SnapshotIsConsistent == Spec => []SnapshotConsistent
  BY Invariance, PTL DEF IInv

\* Behind a barrier, thread 1 counts only when the handler and thread 0 have.
THEOREM CallReturnsAfterHandler == Spec => ReturnsAfterHandler
  <1>1. IInv /\ [Next]_vars
        => [barrier /\ counter'["thread1"] # counter["thread1"] =>
              \A n \in {"handler", "thread0"} :
                 counter[n] = counter["thread1"] + 1]_vars
    <2> SUFFICES ASSUME IInv, Next, barrier,
                        counter'["thread1"] # counter["thread1"]
                 PROVE  \A n \in {"handler", "thread0"} :
                           counter[n] = counter["thread1"] + 1
      BY DEF vars
    <2>1. Thread1Counts
      BY Names3 DEF IInv, TypeOK, ReportTypeOK, Next, ThreadNext, Raise,
         HandlerEnters, HandlerCounts, HandlerResumes, Thread0Counts,
         Thread0Suspends, CountUp, ReporterStarts, ReporterWakes, ReporterNext,
         ReadCounter, Report
    <2>2. irq = "none" /\ isr = "idle" /\ 0 \notin ready /\ at[1] = "count"
      BY <2>1 DEF IInv, TypeOK, ControlInv, Thread1Counts, Runs, Highest
    <2> QED
      BY <2>2, Names3 DEF IInv, TypeOK, ReportTypeOK, CountInv, Taken
  <1> QED
    BY <1>1, Invariance, PTL DEF Spec, ReturnsAfterHandler

\* No report accuses the kernel before the total outgrows an unsigned long, on
\* any port, however late the interrupt is taken.
THEOREM NobodyIsAccused == Spec => NeverAccused
  <1>1. IInv /\ [Next]_vars
        => [Reporting /\ alarm' => SumOf(counter) >= Modulus]_reportVars
    <2> SUFFICES ASSUME IInv, Next, Reporting, alarm', ~ UNCHANGED reportVars,
                        ~ (SumOf(counter) >= Modulus)
                 PROVE  FALSE
      BY DEF vars, reportVars
    <2> DEFINE a == counter["thread0"]
               b == counter["thread1"]
               h == counter["handler"]
    <2>1. a \in Nat /\ b \in Nat /\ h \in Nat /\ SumOf(counter) = a + b + h
      BY Names3, SumOfThree DEF IInv, TypeOK, ReportTypeOK
    <2>2. Modulus \in Nat
      BY InterruptReportAssumption
    <2>3. SumOf(counter) < Modulus /\ a < Modulus /\ b < Modulus /\ h < Modulus
      <3> HIDE DEF a, b, h
      <3> QED
        BY <2>1, <2>2
    <2>4. Report
      <3>1. ~ ThreadNext
        BY DEF ThreadNext, Raise, HandlerEnters, HandlerCounts, HandlerResumes,
               Thread0Counts, Thread0Suspends, Thread1Counts, Runs
      <3>2. ~ ReporterStarts /\ ~ ReporterWakes /\ ~ ReadCounter
        BY Names3 DEF ReporterStarts, ReporterWakes, ReadCounter, Reporting
      <3> QED
        BY <3>1, <3>2 DEF Next, ReporterNext
    <2>5. snap = counter
      <3>1. /\ snap["thread0"] = Word(a) /\ snap["thread1"] = Word(b)
            /\ snap["handler"] = Word(h)
        BY Names3 DEF IInv, SnapshotConsistent, Reporting
      <3>2. Word(a) = a /\ Word(b) = b /\ Word(h) = h
        BY <2>1, <2>3, WordOfSmall
      <3>3. \A n \in Names : snap[n] = counter[n]
        BY <3>1, <3>2, Names3
      <3>4. counter \in [Names -> Nat] /\ snap \in [Names -> Nat]
        BY DEF IInv, TypeOK, ReportTypeOK
      <3> QED
        BY <3>3, <3>4
    <2>6. \A m, n \in Names : counter[m] <= counter[n] + 1
      BY InvariantIsLevel DEF Inv, Level
    <2> QED
      BY <2>3, <2>4, <2>5, <2>6, LevelIsTolerated
      DEF Report, IInv, TypeOK, ReportTypeOK
  <1> QED
    BY <1>1, Invariance, PTL DEF Spec, NeverAccused
=============================================================================
