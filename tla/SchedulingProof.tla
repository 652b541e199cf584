--------------------------- MODULE SchedulingProof ----------------------------
(***************************************************************************)
(* The two scheduling tests, which share their reporting thread. The       *)
(* preemptive one keeps its counters level, and so does the cooperative    *)
(* one without time slices; with or without them a report that fits an     *)
(* unsigned long accuses nobody whose counters have not drifted, and its   *)
(* period totals are exact, for every width of unsigned long, number of    *)
(* cycles and length of run.                                               *)
(***************************************************************************)
EXTENDS PreemptiveInv, CooperativeInv, WordArithmetic

(***************************************************************************)
(* The tolerance check and the totals of the reporting thread.             *)
(***************************************************************************)
\* A number that fits an unsigned long is what is left of it in one.
LEMMA WordOfSmall ==
    ASSUME NEW n \in Nat, n < Modulus
    PROVE  Word(n) = n
  BY ReportAssumption, SMT DEF Word

\* Each counter is at most the sum of all.
LEMMA SumBounds ==
    ASSUME NEW c \in [Workers -> Nat]
    PROVE  /\ SumOf(c) \in Nat
           /\ \A i \in Workers : c[i] <= SumOf(c)
  BY SMT DEF SumOf, Workers

\* Five counters no two of which are more than one apart are within the
\* tolerance, as long as their sum fits an unsigned long.
LEMMA LevelIsTolerated ==
    ASSUME NEW c \in [Workers -> Nat],
           SumOf(c) < Modulus,
           \A i, j \in Workers : c[i] <= c[j] + 1
    PROVE  ~ OutOfTolerance(c)
  <1>1. Total(c) = SumOf(c)
    BY SumBounds, WordOfSmall DEF Total
  <1> QED
    BY <1>1, SMT DEF OutOfTolerance, Average, SumOf, Workers

\* A snapshot of the counters that raises the alarm was taken of counters
\* that have drifted, or of a total that does not fit.
LEMMA AlarmOfSnapshot ==
    ASSUME counter \in [Workers -> Nat], snap \in [Workers -> Nat],
           \A k \in Workers : snap[k] = Word(counter[k]),
           OutOfTolerance(snap)
    PROVE  Drifted \/ SumOf(counter) >= Modulus
  <1> SUFFICES ASSUME ~ Drifted, SumOf(counter) < Modulus
               PROVE  FALSE
    BY SumBounds, ReportAssumption
  <1>1. \A k \in Workers : snap[k] = counter[k]
    BY SumBounds, WordOfSmall, ReportAssumption
  <1>2. snap = counter
    BY <1>1
  <1>3. \A i, j \in Workers : counter[i] <= counter[j] + 1
    BY DEF Drifted
  <1> QED
    BY <1>2, <1>3, LevelIsTolerated

\* The initial state of the reporting thread.
LEMMA ReportInitial == ReportInit => ReportTypeOK /\ SnapshotConsistent
  <1> SUFFICES ASSUME ReportInit PROVE ReportTypeOK /\ SnapshotConsistent
    OBVIOUS
  <1>1. alarm \in BOOLEAN
    BY DEF ReportInit
  <1> QED
    BY <1>1 DEF ReportInit, ReportTypeOK, SnapshotConsistent, Workers

\* A step of the reporting thread leaves the counters alone and adds to the
\* snapshot what they hold.
LEMMA ReporterStep ==
    ASSUME ReportTypeOK, SnapshotConsistent, ReporterNext
    PROVE  ReportTypeOK' /\ SnapshotConsistent' /\ UNCHANGED counter
  <1> USE ReportAssumption DEF ReportTypeOK, SnapshotConsistent, Workers
  <1>1. CASE ReporterStarts \/ ReporterWakes
    BY <1>1 DEF ReporterStarts, ReporterWakes, LoopFrom
  <1>2. ASSUME NEW k \in Workers, ReadCounter(k)
        PROVE  ReportTypeOK' /\ SnapshotConsistent' /\ UNCHANGED counter
    <2>1. Word(counter[k]) \in Nat
      BY DEF Word
    <2> QED
      BY <1>2, <2>1 DEF ReadCounter
  <1>3. CASE Report
    <2>1. Total(snap) \in Nat /\ PeriodTotal \in Nat /\ SumOf(counter) \in Nat
      BY DEF Total, PeriodTotal, Word, SumOf
    <2> QED
      BY <1>3, <2>1 DEF Report, Reporting, SaveTotal, LoopFrom, OutOfTolerance
  <1> QED
    BY <1>1, <1>2, <1>3 DEF ReporterNext

\* A worker's step disturbs no snapshot: none is being taken.
LEMMA WorkerStep ==
    ASSUME ReportTypeOK, WorkersRun, UNCHANGED reportVars,
           UNCHANGED counter \/ \E i \in Workers : Count(i)
    PROVE  ReportTypeOK' /\ SnapshotConsistent'
  BY DEF ReportTypeOK, SnapshotConsistent, WorkersRun, reportVars, Count

\* A report that raises the alarm is justified.
LEMMA AlarmOfReport ==
    ASSUME ReportTypeOK, SnapshotConsistent, ReporterNext, Reporting, alarm'
    PROVE  Drifted \/ SumOf(counter) >= Modulus
  <1>1. Report
    BY DEF ReporterNext, ReporterStarts, ReporterWakes, ReadCounter, Reporting,
           Workers
  <1>2. OutOfTolerance(snap)
    BY <1>1 DEF Report
  <1>3. \A k \in Workers : snap[k] = Word(counter[k])
    BY DEF SnapshotConsistent, Reporting, Workers
  <1> QED
    BY <1>2, <1>3, AlarmOfSnapshot DEF ReportTypeOK

\* The total of a snapshot is what is left of the sum of the counters.
LEMMA TotalOfSnapshot ==
    ASSUME counter \in [Workers -> Nat], snap \in [Workers -> Nat],
           \A k \in Workers : snap[k] = Word(counter[k])
    PROVE  Total(snap) = Word(SumOf(counter))
  <1> DEFINE c(k) == counter[k]
             s(k) == snap[k]
  <1>1. Modulus \in Nat \ {0}
    BY ReportAssumption
  <1>2. \A k \in 0 .. 4 : c(k) \in Int /\ s(k) \in Int /\ s(k) = c(k) % Modulus
    BY DEF Word, Workers
  <1> HIDE DEF c, s
  <1>3. \A k \in 0 .. 4 : \A n \in Int :
           (s(k) + n) % Modulus = (c(k) + n) % Modulus
    <2> TAKE k \in 0 .. 4
    <2> TAKE n \in Int
    <2>1. c(k) \in Int /\ s(k) = c(k) % Modulus
      BY <1>2
    <2>2. ((c(k) % Modulus) + n) % Modulus = (c(k) + n) % Modulus
      BY <1>1, <2>1, RemainderOfSum
    <2> QED
      BY <2>1, <2>2
  <1> DEFINE Same(m, n) == m % Modulus = n % Modulus
  <1>4. Same(s(0) + (s(1) + s(2) + s(3) + s(4)), c(0) + (s(1) + s(2) + s(3) + s(4)))
    BY <1>2, <1>3
  <1>5. Same(s(1) + (c(0) + s(2) + s(3) + s(4)), c(1) + (c(0) + s(2) + s(3) + s(4)))
    BY <1>2, <1>3
  <1>6. Same(s(2) + (c(0) + c(1) + s(3) + s(4)), c(2) + (c(0) + c(1) + s(3) + s(4)))
    BY <1>2, <1>3
  <1>7. Same(s(3) + (c(0) + c(1) + c(2) + s(4)), c(3) + (c(0) + c(1) + c(2) + s(4)))
    BY <1>2, <1>3
  <1>8. Same(s(4) + (c(0) + c(1) + c(2) + c(3)), c(4) + (c(0) + c(1) + c(2) + c(3)))
    BY <1>2, <1>3
  <1> HIDE DEF Same
  <1>9. Same(s(0) + s(1) + s(2) + s(3) + s(4), c(0) + c(1) + c(2) + c(3) + c(4))
    <2>1. /\ s(0) + (s(1) + s(2) + s(3) + s(4)) = s(0) + s(1) + s(2) + s(3) + s(4)
          /\ c(0) + (s(1) + s(2) + s(3) + s(4)) = s(1) + (c(0) + s(2) + s(3) + s(4))
          /\ c(1) + (c(0) + s(2) + s(3) + s(4)) = s(2) + (c(0) + c(1) + s(3) + s(4))
          /\ c(2) + (c(0) + c(1) + s(3) + s(4)) = s(3) + (c(0) + c(1) + c(2) + s(4))
          /\ c(3) + (c(0) + c(1) + c(2) + s(4)) = s(4) + (c(0) + c(1) + c(2) + c(3))
          /\ c(4) + (c(0) + c(1) + c(2) + c(3)) = c(0) + c(1) + c(2) + c(3) + c(4)
      BY <1>2
    <2> QED
      BY <1>4, <1>5, <1>6, <1>7, <1>8, <2>1 DEF Same
  <1> QED
    BY <1>9 DEF Same, c, s, Total, Word, SumOf

\* A report prints what the workers have added since the last one, if the total
\* saved then was that of the counters.
LEMMA PeriodOfReport ==
    ASSUME ReportTypeOK, SnapshotConsistent, last_total = Word(seen), Report
    PROVE  /\ period' = Word(SumOf(counter) - seen)
           /\ last_total' = Word(seen')
  <1>1. \A k \in Workers : snap[k] = Word(counter[k])
    BY DEF SnapshotConsistent, Report, Reporting, Workers
  <1>2. Total(snap) = Word(SumOf(counter))
    BY <1>1, TotalOfSnapshot DEF ReportTypeOK
  <1> DEFINE total == SumOf(counter)
  <1>3. total \in Int /\ seen \in Int /\ Modulus \in Nat \ {0}
    BY SumBounds, ReportAssumption DEF ReportTypeOK
  <1>4. PeriodTotal = ((total % Modulus) - (seen % Modulus)) % Modulus
    BY <1>2 DEF PeriodTotal, Word
  <1> HIDE DEF total
  <1>5. ((total % Modulus) - (seen % Modulus)) % Modulus = (total - seen) % Modulus
    <2>1. total % Modulus \in Int /\ -seen \in Int
      BY <1>3, Divided
    <2>2. ((total % Modulus) - (seen % Modulus)) % Modulus
             = ((total % Modulus) - seen) % Modulus
      BY <1>3, <2>1, RemainderOfSum
    <2>3. ((total % Modulus) + (-seen)) % Modulus = (total + (-seen)) % Modulus
      BY <1>3, <2>1, RemainderOfSum
    <2>4. (total % Modulus) + (-seen) = (total % Modulus) - seen
      BY <1>3, <2>1
    <2>5. total + (-seen) = total - seen
      BY <1>3
    <2> QED
      BY <2>2, <2>3, <2>4, <2>5
  <1>6. period' = PeriodTotal /\ last_total' = Total(snap) /\ seen' = total
    BY DEF Report, SaveTotal, total
  <1> QED
    BY <1>2, <1>4, <1>5, <1>6 DEF total, Word

\* The total saved stays that of the last report.
LEMMA TotalOfReporter ==
    ASSUME ReportTypeOK, SnapshotConsistent, TotalSaved, ReporterNext
    PROVE  TotalSaved'
  BY PeriodOfReport DEF TotalSaved, ReporterNext, ReporterStarts, ReporterWakes,
                        ReadCounter, Word

\* Who is accused, of counters that have not drifted, has the wrap to thank.
LEMMA WrapOfReport ==
    ASSUME ReportTypeOK, SnapshotConsistent, ReporterNext, Reporting, alarm',
           \A i, j \in Workers : i < j => counter[i] - counter[j] \in {-1, 0, 1}
    PROVE  SumOf(counter) >= Modulus
  <1>1. ~ Drifted
    <2> SUFFICES ASSUME NEW i \in Workers, NEW j \in Workers,
                        counter[i] > counter[j] + 1
                 PROVE  FALSE
      BY DEF Drifted
    <2>1. counter[i] \in Nat /\ counter[j] \in Nat
      BY DEF ReportTypeOK
    <2>2. i \in Nat /\ j \in Nat
      BY DEF Workers
    <2>3. CASE i < j
      BY <2>1, <2>3
    <2>4. CASE j < i
      BY <2>1, <2>4
    <2>5. CASE i = j
      BY <2>1, <2>5
    <2> QED
      BY <2>2, <2>3, <2>4, <2>5
  <1> QED
    BY <1>1, AlarmOfReport

-----------------------------------------------------------------------------
(***************************************************************************)
(* The preemptive scheduling test.                                         *)
(***************************************************************************)
LEMMA ChainInit == Init => IInv
  <1> SUFFICES ASSUME Init PROVE IInv
    OBVIOUS
  <1>1. TypeOK /\ SnapshotConsistent
    <2>1. at \in [Workers -> {"resume", "count", "suspend"}]
      BY DEF Init
    <2> QED
      BY <2>1, ReportInitial DEF Init, TypeOK, First, Workers
  <1>2. ChainInv
    BY DEF Init, ChainInv, First, Last, Workers
  <1>3. RoundInv
    BY DEF Init, ReportInit, RoundInv, HasCounted, First, Last, Workers
  <1>4. TotalSaved
    BY ReportAssumption DEF Init, ReportInit, TotalSaved, Word
  <1> QED
    BY <1>1, <1>2, <1>3, <1>4 DEF IInv

\* The steps of the workers; in each, the processor goes to one of them.
LEMMA ChainWorker ==
    ASSUME IInv, NEW i \in Workers, WorkerNext(i)
    PROVE  IInv'
  <1>1. ReportTypeOK' /\ SnapshotConsistent'
    BY WorkerStep DEF IInv, TypeOK, WorkerNext, ResumeNext, CountUp, SuspendSelf
  <1>0. TotalSaved'
    BY DEF IInv, TotalSaved, Word, WorkerNext, ResumeNext, CountUp, SuspendSelf,
           reportVars
  <1> USE <1>0 DEF IInv, TypeOK, ReportTypeOK, ChainInv, First, Last, Workers
  <1>2. CASE ResumeNext(i)
    <2>1. i < 4 /\ i + 1 \in Workers /\ i + 1 \notin ready
      BY <1>2 DEF ResumeNext
    <2>2. current' = i + 1 /\ ready' = ready \cup {i + 1}
      BY <1>2, <2>1 DEF ResumeNext, Resumed, Prio
    <2>3. (TypeOK /\ ChainInv)'
      BY <1>1, <1>2, <2>1, <2>2 DEF ResumeNext
    <2>4. RoundInv'
      BY <1>2, <2>1, <2>2 DEF ResumeNext, RoundInv, HasCounted
    <2> QED
      BY <1>1, <2>3, <2>4
  <1>3. CASE CountUp(i)
    <2>1. (TypeOK /\ ChainInv)'
      BY <1>1, <1>3 DEF CountUp
    <2>2. RoundInv'
      BY <1>3 DEF CountUp, Count, RoundInv, HasCounted
    <2> QED
      BY <1>1, <2>1, <2>2
  <1>4. CASE SuspendSelf(i)
    <2>1. i > 0 /\ i - 1 \in ready
      BY <1>4 DEF SuspendSelf
    <2>2. current' = i - 1 /\ ready' = ready \ {i}
      BY <1>4, <2>1 DEF SuspendSelf, Suspended, Prio
    <2>3. (TypeOK /\ ChainInv)'
      BY <1>1, <1>4, <2>1, <2>2 DEF SuspendSelf
    <2>4. RoundInv'
      BY <1>4, <2>1, <2>2 DEF SuspendSelf, RoundInv, HasCounted
    <2> QED
      BY <1>1, <2>3, <2>4
  <1> QED
    BY <1>2, <1>3, <1>4 DEF WorkerNext

LEMMA ChainStep == IInv /\ [Next]_vars => IInv'
  <1> SUFFICES ASSUME IInv, [Next]_vars
               PROVE  IInv'
    OBVIOUS
  <1>1. CASE ReporterNext /\ UNCHANGED <<ready, current, at>>
    <2>1. TotalSaved'
      BY <1>1, TotalOfReporter DEF IInv, TypeOK
    <2> QED
      BY <1>1, <2>1, ReporterStep
      DEF IInv, TypeOK, ChainInv, RoundInv, HasCounted
  <1>2. CASE UNCHANGED vars
    BY <1>2 DEF IInv, TypeOK, ReportTypeOK, ChainInv, RoundInv, HasCounted,
                SnapshotConsistent, TotalSaved, Word, vars, reportVars
  <1> QED
    BY <1>1, <1>2, ChainWorker DEF Next

\* The inductive invariant holds in every reachable state.
THEOREM PreemptiveInvariance == Spec => []IInv
  BY ChainInit, ChainStep, PTL DEF Spec

LEMMA ChainIsLevel == IInv => Staircase
  BY DEF IInv, TypeOK, ReportTypeOK, RoundInv, HasCounted, Staircase, First,
         Workers

\* A worker of higher priority is level with a lower one or one ahead.
THEOREM StaircaseHolds == Spec => []Staircase
  BY ChainIsLevel, PreemptiveInvariance, PTL

\* A resume comes back when every worker of higher priority has counted once
\* more and suspended itself.
THEOREM ResumeComesBack == Spec => []BackAfterTheChain
  <1>1. IInv => BackAfterTheChain
    BY DEF IInv, TypeOK, ReportTypeOK, ChainInv, RoundInv, HasCounted,
           BackAfterTheChain, First, Workers
  <1> QED
    BY <1>1, PreemptiveInvariance, PTL

\* The reporting thread sees the five counters as of one instant.
THEOREM SnapshotIsConsistent == Spec => []SnapshotConsistent
  BY PreemptiveInvariance, PTL DEF IInv

\* An ERROR line is printed only when the total of the counters does not fit
\* unsigned long: in the preemptive test they do not drift.
THEOREM PreemptiveAccusedOnlyByWrap == Spec => AccusedOnlyByWrap
  <1>1. IInv /\ [Next]_vars
        => [Reporting /\ alarm' => SumOf(counter) >= Modulus]_reportVars
    <2> SUFFICES ASSUME IInv, Next, Reporting, alarm', ~ UNCHANGED reportVars
                 PROVE  SumOf(counter) >= Modulus
      BY DEF vars, reportVars
    <2>1. ReporterNext
      BY DEF Next, WorkerNext, ResumeNext, CountUp, SuspendSelf
    <2>2. \A i, j \in Workers : i < j => counter[i] - counter[j] \in {-1, 0, 1}
      BY ChainIsLevel DEF Staircase, IInv, TypeOK, ReportTypeOK, Workers
    <2> QED
      BY <2>1, <2>2, WrapOfReport DEF IInv, TypeOK
  <1> QED
    BY <1>1, PreemptiveInvariance, PTL DEF Spec, AccusedOnlyByWrap

\* The period total printed is what the workers added since the last report,
\* modulo the width of unsigned long, however often the total has wrapped.
THEOREM PeriodTotalIsExact == Spec => PeriodTotalExact
  <1>1. IInv /\ [Next]_vars
        => [Reporting => period' = Word(SumOf(counter) - seen)]_reportVars
    <2> SUFFICES ASSUME IInv, Next, Reporting, ~ UNCHANGED reportVars
                 PROVE  period' = Word(SumOf(counter) - seen)
      BY DEF vars, reportVars
    <2>1. ReporterNext
      BY DEF Next, WorkerNext, ResumeNext, CountUp, SuspendSelf
    <2>2. Report
      BY <2>1 DEF ReporterNext, ReporterStarts, ReporterWakes, ReadCounter,
                  Reporting, Workers
    <2> QED
      BY <2>2, PeriodOfReport DEF IInv, TypeOK, TotalSaved
  <1> QED
    BY <1>1, PreemptiveInvariance, PTL DEF Spec, PeriodTotalExact

\* The variables keep to their types.
THEOREM PreemptiveTypeCorrect == Spec => []TypeOK
  BY PreemptiveInvariance, PTL DEF IInv

-----------------------------------------------------------------------------
(***************************************************************************)
(* The cooperative scheduling test.                                        *)
(***************************************************************************)
\* In the initial state nobody has counted.
LEMMA TurnsInit == RingInit => RingIInv
  <1> SUFFICES ASSUME RingInit PROVE RingIInv
    OBVIOUS
  <1>1. turn \in [Workers -> {"relinquish", "count"}]
    BY DEF RingInit
  <1>2. RingTypeOK /\ SnapshotConsistent
    BY <1>1, ReportInitial DEF RingInit, RingTypeOK, Workers
  <1>3. RingInv
    BY DEF RingInit, ReportInit, RingInv, FirstRound, Workers
  <1>4. TotalSaved
    BY ReportAssumption DEF RingInit, ReportInit, TotalSaved, Word
  <1> QED
    BY <1>2, <1>3, <1>4 DEF RingIInv

\* The steps of the workers, in the first round and in a later one.
LEMMA TurnsWorker ==
    ASSUME RingIInv, NEW i \in Workers, RingStep(i)
    PROVE  RingIInv'
  <1>1. ReportTypeOK' /\ SnapshotConsistent'
    BY WorkerStep DEF RingIInv, RingTypeOK, RingStep, Relinquish, CountInTurn
  <1>2. RingTypeOK'
    BY <1>1 DEF RingIInv, RingTypeOK, RingStep, Relinquish, CountInTurn, Rotate,
                Workers
  <1>0. TotalSaved'
    BY DEF RingIInv, TotalSaved, Word, RingStep, Relinquish, CountInTurn,
           reportVars
  <1> USE <1>0
      DEF RingIInv, RingTypeOK, ReportTypeOK, RingInv, FirstRound, LaterRound,
          HasHadTurn, Workers
  <1>3. CASE Relinquish(i)
    <2>1. CASE FirstRound /\ i < 4
      BY <1>1, <1>2, <1>3, <2>1 DEF Relinquish, Rotate
    <2>2. CASE FirstRound /\ i = 4
      BY <1>1, <1>2, <1>3, <2>2 DEF Relinquish, Rotate
    <2>3. CASE LaterRound /\ i < 4
      <3>1. head' = i + 1 /\ UNCHANGED counter
        BY <1>3, <2>3 DEF Relinquish, Rotate
      <3>2. \A j \in Workers : turn'[j] = "count"
        BY <1>3, <2>3 DEF Relinquish
      <3>3. \A j \in Workers : HasHadTurn(j)' = HasHadTurn(j)
        BY <1>3, <3>1, <3>2 DEF Relinquish
      <3> QED
        BY <1>1, <1>2, <2>3, <3>1, <3>2, <3>3
    <2>4. CASE LaterRound /\ i = 4
      <3>1. head' = 0 /\ UNCHANGED counter
        BY <1>3, <2>4 DEF Relinquish, Rotate
      <3>2. \A j \in Workers : turn'[j] = "count"
        BY <1>3, <2>4 DEF Relinquish
      <3>3. \A j \in Workers : HasHadTurn(j)' = 0 /\ HasHadTurn(j) = 1
        BY <1>3, <2>4, <3>1, <3>2 DEF Relinquish
      <3> QED
        BY <1>1, <1>2, <2>4, <3>1, <3>2, <3>3
    <2>5. CASE sliced
      <3>1. sliced'
        BY <1>3, <2>5 DEF Relinquish
      <3> QED
        BY <1>1, <1>2, <3>1
    <2> QED
      BY <2>1, <2>2, <2>3, <2>4, <2>5
  <1>4. CASE CountInTurn(i)
    <2>1. CASE sliced
      BY <1>1, <1>2, <1>4, <2>1 DEF CountInTurn
    <2>2. CASE FirstRound
      BY <1>1, <1>2, <1>4, <2>2 DEF CountInTurn, Count
    <2>3. CASE LaterRound
      BY <1>1, <1>2, <1>4, <2>3 DEF CountInTurn, Count
    <2> QED
      BY <2>1, <2>2, <2>3
  <1> QED
    BY <1>3, <1>4 DEF RingStep

LEMMA TurnsStep == RingIInv /\ [RingNext]_ringVars => RingIInv'
  <1> SUFFICES ASSUME RingIInv, [RingNext]_ringVars
               PROVE  RingIInv'
    OBVIOUS
  <1>1. CASE TickSwitches
    <2>1. ReportTypeOK' /\ SnapshotConsistent'
      BY <1>1, WorkerStep DEF RingIInv, RingTypeOK, TickSwitches
    <2> QED
      BY <1>1, <2>1
      DEF RingIInv, RingTypeOK, RingInv, TotalSaved, Word, TickSwitches, Rotate,
          Workers, reportVars
  <1>2. CASE ReporterNext /\ ReporterReturns /\ UNCHANGED <<sliced, turn>>
    <2>1. head' \in Workers /\ (sliced \/ UNCHANGED head) /\ UNCHANGED sliced
      BY <1>2
      DEF RingIInv, RingTypeOK, ReporterReturns, Rotate, Workers
    <2>2. TotalSaved'
      BY <1>2, TotalOfReporter DEF RingIInv, RingTypeOK
    <2> QED
      BY <1>2, <2>1, <2>2, ReporterStep
      DEF RingIInv, RingTypeOK, RingInv, FirstRound, LaterRound, HasHadTurn
  <1>3. CASE UNCHANGED ringVars
    BY <1>3 DEF RingIInv, RingTypeOK, ReportTypeOK, RingInv, FirstRound,
                LaterRound, HasHadTurn, SnapshotConsistent, TotalSaved, Word,
                ringVars, reportVars
  <1> QED
    BY <1>1, <1>2, <1>3, TurnsWorker DEF RingNext

\* The inductive invariant holds in every reachable state.
THEOREM CooperativeInvariance == RingSpec => []RingIInv
  BY TurnsInit, TurnsStep, PTL DEF RingSpec

LEMMA RingIsLevel == RingIInv => RoundRobin
  <1> SUFFICES ASSUME RingIInv, ~sliced,
                      NEW i \in Workers, NEW j \in Workers, i < j
               PROVE  counter[i] - counter[j] \in {0, 1}
    BY DEF RoundRobin
  <1>1. CASE FirstRound
    BY <1>1 DEF FirstRound
  <1>2. CASE LaterRound
    <2>1. counter[i] - counter[j] = HasHadTurn(i) - HasHadTurn(j)
      BY <1>2 DEF RingIInv, RingTypeOK, ReportTypeOK, LaterRound, HasHadTurn
    <2>2. HasHadTurn(i) \in {0, 1} /\ HasHadTurn(j) \in {0, 1}
      BY DEF HasHadTurn
    <2>3. HasHadTurn(j) = 1 => HasHadTurn(i) = 1
      BY DEF RingIInv, RingTypeOK, HasHadTurn, Workers
    <2> QED
      BY <2>1, <2>2, <2>3
  <1> QED
    BY <1>1, <1>2 DEF RingIInv, RingInv

\* Without time slices a worker is level with every later one or one ahead.
THEOREM RoundRobinHolds == RingSpec => []RoundRobin
  BY RingIsLevel, CooperativeInvariance, PTL

\* An ERROR line is printed only when two counters have drifted apart or the
\* total does not fit unsigned long.
THEOREM CooperativeAlarmIsJustified == RingSpec => AlarmJustified
  <1>1. RingIInv /\ [RingNext]_ringVars
        => [Reporting /\ alarm' => Drifted \/ SumOf(counter) >= Modulus]_reportVars
    <2> SUFFICES ASSUME RingIInv, RingNext, Reporting, alarm',
                        ~ UNCHANGED reportVars
                 PROVE  Drifted \/ SumOf(counter) >= Modulus
      BY DEF ringVars, reportVars
    <2>1. ReporterNext
      BY DEF RingNext, RingStep, Relinquish, CountInTurn, TickSwitches
    <2> QED
      BY <2>1, AlarmOfReport DEF RingIInv, RingTypeOK
  <1> QED
    BY <1>1, CooperativeInvariance, PTL DEF RingSpec, AlarmJustified

\* Without time slices only the wrap of the total is left.
THEOREM CooperativeAccusedOnlyByWrap == RingSpec => RingAccusedOnlyByWrap
  <1>1. RingIInv /\ [RingNext]_ringVars
        => [~sliced /\ Reporting /\ alarm'
               => SumOf(counter) >= Modulus]_reportVars
    <2> SUFFICES ASSUME RingIInv, RingNext, ~sliced, Reporting, alarm',
                        ~ UNCHANGED reportVars
                 PROVE  SumOf(counter) >= Modulus
      BY DEF ringVars, reportVars
    <2>1. ReporterNext
      BY DEF RingNext, RingStep, Relinquish, CountInTurn, TickSwitches
    <2>2. \A i, j \in Workers : i < j => counter[i] - counter[j] \in {-1, 0, 1}
      BY RingIsLevel DEF RoundRobin
    <2> QED
      BY <2>1, <2>2, WrapOfReport DEF RingIInv, RingTypeOK
  <1> QED
    BY <1>1, CooperativeInvariance, PTL DEF RingSpec, RingAccusedOnlyByWrap

\* The five counters are those of one instant, with time slices too.
THEOREM CooperativeSnapshotIsConsistent == RingSpec => []SnapshotConsistent
  BY CooperativeInvariance, PTL DEF RingIInv

\* The period total is exact, with time slices too.
THEOREM CooperativePeriodTotalIsExact == RingSpec => PeriodTotalExact
  <1>1. RingIInv /\ [RingNext]_ringVars
        => [Reporting => period' = Word(SumOf(counter) - seen)]_reportVars
    <2> SUFFICES ASSUME RingIInv, RingNext, Reporting, ~ UNCHANGED reportVars
                 PROVE  period' = Word(SumOf(counter) - seen)
      BY DEF ringVars, reportVars
    <2>1. ReporterNext
      BY DEF RingNext, RingStep, Relinquish, CountInTurn, TickSwitches
    <2>2. Report
      BY <2>1 DEF ReporterNext, ReporterStarts, ReporterWakes, ReadCounter,
                  Reporting, Workers
    <2> QED
      BY <2>2, PeriodOfReport DEF RingIInv, RingTypeOK, TotalSaved
  <1> QED
    BY <1>1, CooperativeInvariance, PTL DEF RingSpec, PeriodTotalExact

\* The variables keep to their types.
THEOREM CooperativeTypeCorrect == RingSpec => []RingTypeOK
  BY CooperativeInvariance, PTL DEF RingIInv
=============================================================================
