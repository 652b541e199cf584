------------------------ MODULE InterruptProcessingProof -----------------------
(***************************************************************************)
(* The interrupt processing test on each of its ports: its semaphore is    *)
(* handed over in every round, the flag of the inline interrupt is seen by *)
(* nobody else, and its report accuses nobody before the total of the      *)
(* counters outgrows an unsigned long, for every width of that, number of  *)
(* cycles and length of run.                                               *)
(***************************************************************************)
EXTENDS InterruptProcessing, TLAPS

\* The two names, in the order in which they are read.
LEMMA Names2 ==
    /\ Len(Reads) = 2
    /\ Names = {"thread", "handler"}
    /\ Reads[1] = "thread" /\ Reads[2] = "handler"
  <1> USE ProcessingAssumption DEF ProcessingReads
  <1>1. Len(Reads) = 2
    OBVIOUS
  <1>2. Reads[1] = "thread" /\ Reads[2] = "handler" /\ DOMAIN Reads = 1 .. 2
    OBVIOUS
  <1> HIDE ProcessingAssumption
  <1>3. 1 .. 2 = {1, 2}
    OBVIOUS
  <1>4. Names = {Reads[k] : k \in {1, 2}}
    BY <1>2, <1>3 DEF Names, Range
  <1> QED
    BY <1>1, <1>2, <1>4

LEMMA WordIsNat == ASSUME NEW n \in Int PROVE Word(n) \in Nat
  BY InterruptReportAssumption, SMT DEF Word

LEMMA WordOfSmall == ASSUME NEW n \in Nat, n < Modulus PROVE Word(n) = n
  BY InterruptReportAssumption, SMT DEF Word

LEMMA SumOfTwo ==
    ASSUME NEW c \in [Names -> Nat]
    PROVE  SumOf(c) = c["thread"] + c["handler"]
  <1>1. Reads[1] = "thread" /\ Reads[2] = "handler" /\ Len(Reads) = 2
    BY Names2
  <1>2. c["thread"] \in Nat /\ c["handler"] \in Nat
    BY Names2
  <1> QED
    BY <1>1, <1>2 DEF SumOf

\* Counters that are level, and whose sum fits an unsigned long, are tolerated.
LEMMA LevelIsTolerated ==
    ASSUME NEW c \in [Names -> Nat],
           c["handler"] - c["thread"] \in {0, 1},
           SumOf(c) < Modulus
    PROVE  ~ OutOfTolerance(c)
  <1> DEFINE t == c["thread"]
             h == c["handler"]
  <1>1. t \in Nat /\ h \in Nat /\ h - t \in {0, 1} /\ SumOf(c) = t + h
    BY Names2, SumOfTwo
  <1>2. Word(SumOf(c)) = t + h
    <2>1. t + h \in Nat /\ t + h < Modulus
      BY <1>1
    <2> QED
      BY <1>1, <2>1, WordOfSmall
  <1>3. Average(c) = (t + h) \div 2
    BY <1>2, Names2 DEF Average
  <1> HIDE DEF t, h
  <1>4. /\ ~ (t < Average(c) - 1) /\ ~ (t > Average(c) + 1)
        /\ ~ (h < Average(c) - 1) /\ ~ (h > Average(c) + 1)
    BY <1>1, <1>3
  <1> QED
    BY <1>4, Names2 DEF OutOfTolerance, t, h

-----------------------------------------------------------------------------
LEMMA InitInvariant == Init => IInv
  <1> SUFFICES ASSUME Init PROVE IInv
    OBVIOUS
  <1>1. alarm \in BOOLEAN
    BY DEF Init, ReportInit
  <1>2. ReportTypeOK
    BY <1>1, Names2 DEF Init, ReportInit, ReportTypeOK
  <1>5. TypeOK
    BY <1>2 DEF Init, TypeOK
  <1>3. HandshakeInv /\ MaskInv
    BY DEF Init, ReportInit, HandshakeInv, MaskInv, Given, Masked, Flagged
  <1>4. CountInv /\ SnapshotConsistent
    BY Names2 DEF Init, ReportInit, CountInv, SnapshotConsistent
  <1> QED
    BY <1>5, <1>3, <1>4 DEF IInv

\* What the port has: it stays the same, and a bracket is there to mask.
LEMMA PortStays ==
    ASSUME UNCHANGED port
    PROVE  Masks' = Masks /\ HasFlag' = HasFlag /\ Brackets' = Brackets
  BY DEF Masks, HasFlag, Brackets

LEMMA BracketsMask == Brackets => Masks /\ HasFlag
  BY DEF Masks, HasFlag, Brackets

\* The steps of thread 0, the handler among them.
LEMMA ThreadInvariant ==
    ASSUME IInv, ThreadNext
    PROVE  IInv'
  <1>0. /\ UNCHANGED <<port, reportVars>> /\ ThreadsRun
        /\ Masks \in BOOLEAN /\ HasFlag \in BOOLEAN /\ Brackets \in BOOLEAN
    BY DEF ThreadNext, FirstGet, Mask, SetFlag, HandlerCounts, BracketEnter, Put,
           BracketExit, ClearFlag, Unmask, GetAgain, ThreadCounts, Get, Step,
           Masks, HasFlag, Brackets
  <1>1. SnapshotConsistent'
    BY <1>0 DEF SnapshotConsistent, ThreadsRun, reportVars
  <1>2. Masks' = Masks /\ HasFlag' = HasFlag /\ Brackets' = Brackets
    BY <1>0, PortStays
  <1> USE <1>0, <1>1, <1>2, BracketsMask, Names2
      DEF IInv, TypeOK, ReportTypeOK, HandshakeInv, MaskInv, CountInv, Given,
          Masked, Flagged, Step, ThreadsRun, reportVars
  <1>3. CASE FirstGet
    BY <1>3 DEF FirstGet, Get
  <1>4. CASE Mask
    BY <1>4 DEF Mask
  <1>5. CASE SetFlag
    BY <1>5 DEF SetFlag
  <1>6. CASE HandlerCounts
    BY <1>6 DEF HandlerCounts, CountUp
  <1>7. CASE BracketEnter
    BY <1>7 DEF BracketEnter
  <1>8. CASE Put
    BY <1>8 DEF Put, GiveSem
  <1>9. CASE BracketExit
    BY <1>9 DEF BracketExit, RestoreMask
  <1>10. CASE ClearFlag
    BY <1>10 DEF ClearFlag
  <1>11. CASE Unmask
    BY <1>11 DEF Unmask
  <1>12. CASE GetAgain
    BY <1>12 DEF GetAgain, Get
  <1>13. CASE ThreadCounts
    BY <1>13 DEF ThreadCounts, CountUp
  <1> QED
    BY <1>3, <1>4, <1>5, <1>6, <1>7, <1>8, <1>9, <1>10, <1>11, <1>12, <1>13
    DEF ThreadNext

\* The reporting thread reads the next counter.
LEMMA ReadKeepsSnapshot ==
    ASSUME ReportTypeOK, SnapshotConsistent, ReadCounter
    PROVE  ReportTypeOK' /\ SnapshotConsistent'
  <1> DEFINE n == Reads[got + 1]
  <1> USE Names2 DEF ReportTypeOK, SnapshotConsistent
  <1>1. got + 1 \in 1 .. 2 /\ n \in Names
    BY DEF ReadCounter
  <1>2. Word(counter[n]) \in Nat
    BY <1>1, WordIsNat
  <1>3. snap' = [snap EXCEPT ![n] = Word(counter[n])] /\ got' = got + 1
    BY DEF ReadCounter
  <1>4. ReportTypeOK'
    BY <1>1, <1>2, <1>3 DEF ReadCounter
  <1>5. SnapshotConsistent'
    <2> SUFFICES ASSUME NEW k \in 1 .. got + 1
                 PROVE  snap'[Reads[k]] = Word(counter[Reads[k]])
      BY <1>3 DEF ReadCounter, Word
    <2>1. k \in 1 .. 2 /\ Reads[k] \in Names
      BY <1>1
    <2>2. CASE Reads[k] = n
      BY <1>1, <1>3, <2>2
    <2>3. CASE Reads[k] # n
      BY <1>1, <1>3, <2>1, <2>3 DEF ReadCounter
    <2> QED
      BY <2>2, <2>3
  <1> QED
    BY <1>4, <1>5

LEMMA ReportKeepsSnapshot ==
    ASSUME ReportTypeOK, Report
    PROVE  ReportTypeOK' /\ SnapshotConsistent'
  <1> USE Names2 DEF ReportTypeOK
  <1>1. snap["handler"] \in Nat /\ last_total \in Nat
    OBVIOUS
  <1>2. Difference(snap["handler"], last_total) \in Nat
    BY <1>1, WordIsNat DEF Difference
  <1>3. alarm' \in BOOLEAN
    BY DEF Report, OutOfTolerance
  <1>4. rpc' \in {"asleep", "exited"}
    BY DEF Report, LoopFrom
  <1>5. cycle' \in Nat
    BY DEF Report
  <1> QED
    BY <1>1, <1>2, <1>3, <1>4, <1>5 DEF Report, SnapshotConsistent

\* The steps of the reporting thread: it is awake only where nothing is masked.
LEMMA ReporterInvariant ==
    ASSUME IInv, UNCHANGED threadVars, ReporterStarts \/ TickTaken \/ ReporterNext
    PROVE  IInv'
  <1>1. ReportTypeOK' /\ SnapshotConsistent'
    <2>1. CASE ReporterStarts
      BY <2>1, Names2
      DEF IInv, TypeOK, ReportTypeOK, SnapshotConsistent, ReporterStarts, LoopFrom
    <2>2. CASE TickTaken
      BY <2>2, Names2
      DEF IInv, TypeOK, ReportTypeOK, SnapshotConsistent, TickTaken, ReporterWakes
    <2>3. CASE ReporterNext
      BY <2>3, ReadKeepsSnapshot, ReportKeepsSnapshot DEF IInv, TypeOK, ReporterNext
    <2> QED
      BY <2>1, <2>2, <2>3
  <1>2. UNCHANGED counter /\ (primask => rpc' = "asleep")
    BY DEF IInv, MaskInv, ReporterStarts, TickTaken, ReporterWakes, ReporterNext,
           ReadCounter, Report, Reporting
  <1>3. Masks' = Masks /\ HasFlag' = HasFlag /\ Brackets' = Brackets
    BY PortStays DEF threadVars
  <1> QED
    BY <1>1, <1>2, <1>3
    DEF IInv, TypeOK, HandshakeInv, MaskInv, CountInv, threadVars

LEMMA StepInvariant == IInv /\ [Next]_vars => IInv'
  <1> SUFFICES ASSUME IInv, [Next]_vars
               PROVE  IInv'
    OBVIOUS
  <1>1. CASE UNCHANGED vars
    BY <1>1, PortStays
    DEF IInv, TypeOK, ReportTypeOK, HandshakeInv, MaskInv, CountInv,
        SnapshotConsistent, vars, threadVars, reportVars
  <1> QED
    BY <1>1, ThreadInvariant, ReporterInvariant DEF Next

\* The inductive invariant holds in every reachable state.
THEOREM Invariance == Spec => []IInv
  BY InitInvariant, StepInvariant, PTL DEF Spec

\* The variables keep to their types.
THEOREM TypeCorrect == Spec => []TypeOK
  BY Invariance, PTL DEF IInv

\* Where the port masks interrupts, no other thread runs while the flag is set.
THEOREM FlagStaysPrivate == Spec => []FlagIsPrivate
  <1>1. IInv => FlagIsPrivate
    BY DEF IInv, TypeOK, MaskInv, Masked, Flagged, FlagIsPrivate
  <1> QED
    BY <1>1, Invariance, PTL

\* The handler's put is there for thread 0 in every round: it never returns.
THEOREM HandshakeGoesOn == Spec => []HandshakeHolds
  <1>1. IInv => HandshakeHolds
    BY DEF IInv, HandshakeInv, HandshakeHolds
  <1> QED
    BY <1>1, Invariance, PTL

\* The reporting thread sees the two counters as of one instant.
THEOREM SnapshotIsConsistent == Spec => []SnapshotConsistent
  BY Invariance, PTL DEF IInv

\* No report accuses the kernel before the total outgrows an unsigned long,
\* wherever the tick has cut the interrupt.
THEOREM NobodyIsAccused == Spec => NeverAccused
  <1>1. IInv /\ [Next]_vars
        => [Reporting /\ alarm' => SumOf(counter) >= Modulus]_reportVars
    <2> SUFFICES ASSUME IInv, Next, Reporting, alarm', ~ UNCHANGED reportVars,
                        ~ (SumOf(counter) >= Modulus)
                 PROVE  FALSE
      BY DEF vars, reportVars
    <2>0. SumOf(counter) < Modulus
      <3>1. SumOf(counter) \in Nat
        BY Names2, SumOfTwo DEF IInv, TypeOK, ReportTypeOK
      <3> QED
        BY <3>1, InterruptReportAssumption
    <2>1. Report
      <3>1. ~ ThreadNext
        BY DEF ThreadNext, FirstGet, Mask, SetFlag, HandlerCounts, BracketEnter,
               Put, BracketExit, ClearFlag, Unmask, GetAgain, ThreadCounts, Get,
               Step
      <3>2. ~ ReporterStarts /\ ~ TickTaken /\ ~ ReadCounter
        BY Names2 DEF ReporterStarts, TickTaken, ReporterWakes, ReadCounter,
                      Reporting
      <3> QED
        BY <3>1, <3>2 DEF Next, ReporterNext
    <2> DEFINE t == counter["thread"]
               h == counter["handler"]
    <2>2. t \in Nat /\ h \in Nat /\ t + h < Modulus
      BY <2>0, Names2, SumOfTwo DEF IInv, TypeOK, ReportTypeOK
    <2>3. snap["thread"] = Word(t) /\ snap["handler"] = Word(h)
      BY Names2 DEF IInv, SnapshotConsistent, Reporting
    <2>4. Word(t) = t /\ Word(h) = h
      <3>1. Modulus \in Nat
        BY InterruptReportAssumption
      <3>2. t < Modulus /\ h < Modulus
        <4> HIDE DEF t, h
        <4> QED
          BY <2>2, <3>1
      <3> QED
        BY <2>2, <3>2, WordOfSmall
    <2>5. snap = counter
      <3>1. \A n \in Names : snap[n] = counter[n]
        BY <2>3, <2>4, Names2
      <3>2. counter \in [Names -> Nat] /\ snap \in [Names -> Nat]
        BY DEF IInv, TypeOK, ReportTypeOK
      <3> QED
        BY <3>1, <3>2
    <2>6. h - t \in {0, 1}
      BY <2>2 DEF IInv, CountInv
    <2> QED
      BY <2>0, <2>1, <2>5, <2>6, LevelIsTolerated DEF Report, IInv, TypeOK, ReportTypeOK
  <1> QED
    BY <1>1, Invariance, PTL DEF Spec, NeverAccused
=============================================================================
