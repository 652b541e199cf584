--------------------------- MODULE SingleWorkerProof --------------------------
(***************************************************************************)
(* The tests with one worker go on for ever, never before their service    *)
(* exists, and their reports add up, for every width of unsigned long,     *)
(* size of pool and queue, number of cycles and length of run.             *)
(***************************************************************************)
EXTENDS SingleWorker, WordArithmetic

Pooled == build.test \in {"memory", "synchronization"}

\* The initialisation: the worker stands at its first step until all is made.
BootInv ==
    /\ boot # "started" => rpc = "start" /\ at = First /\ counter = 0
    /\ boot \in {"report", "started"} => exists

\* The worker: what its service holds tells which call is next.
ServiceInv ==
    /\ Pooled => at \in {"take", "give", "count"}
    /\ build.test = "basic" => at = "count"
    /\ build.test = "message" =>
          at \in {"send", "receive", "compare", "next", "count"}
    /\ available = IF at = "give" THEN Capacity - 1 ELSE Capacity
    /\ queue = IF at = "receive" THEN <<sent>> ELSE <<>>
    /\ at = "compare" => received = sent

\* The reporting thread: what it has printed in sum.
ReportInv ==
    /\ rpc \in {"start", "asleep", "check", "print", "exited"} =>
          Word(reported) = last_counter
    /\ rpc = "print" => (alarm <=> Word(counter) = last_counter)
    /\ rpc = "save" => /\ alarm <=> period = 0
                       /\ Word(reported) = Word(counter)

IInv == TypeOK /\ BootInv /\ ServiceInv /\ ReportInv

-----------------------------------------------------------------------------
LEMMA WordIsWord == ASSUME NEW n \in Int PROVE Word(n) \in Words
  BY SingleWorkerAssumption, Divided DEF Word, Words

LEMMA WordOfWord ==
    ASSUME NEW n \in Words
    PROVE  Word(n) = n
  BY SingleWorkerAssumption, Z3 DEF Word, Words

\* A period adds nothing exactly when the counter is where it was.
LEMMA ZeroDifference ==
    ASSUME NEW c \in Int, NEW l \in Words
    PROVE  Word(c) = l <=> Word(c - l) = 0
  <1> DEFINE d == Word(c) - l
  <1>1. Modulus \in Nat \ {0} /\ l \in Int
    BY SingleWorkerAssumption DEF Words
  <1>2. Word(c) \in Words /\ d \in Int /\ -Modulus < d /\ d < Modulus
    BY <1>1, WordIsWord DEF Words
  <1>3. Word(d) = Word(c - l)
    <2>1. ((c % Modulus) + (-l)) % Modulus = (c + (-l)) % Modulus
      <3>1. -l \in Int
        BY <1>1
      <3> QED
        BY <1>1, <3>1, RemainderOfSum
    <2>2. (c % Modulus) + (-l) = d /\ c + (-l) = c - l
      BY <1>1, <1>2 DEF Word
    <2> QED
      BY <2>1, <2>2 DEF Word
  <1> HIDE DEF d
  <1>4. Word(d) = 0 <=> d = 0
    <2>1. CASE d < 0
      <3>1. Word(d + Modulus) = Word(d)
        <4>1. \A m \in Int : (d + Modulus * m) % Modulus = d % Modulus
          BY <1>1, <1>2, WidthsVanish
        <4>2. \A m \in Int : m = 1 => Modulus * m = Modulus
          BY <1>1
        <4>3. \A m \in Int : m = 1 => (d + Modulus) % Modulus = d % Modulus
          BY <4>1, <4>2
        <4> QED
          BY <4>3 DEF Word
      <3>2. d + Modulus \in Words /\ d + Modulus # 0
        BY <1>1, <1>2, <2>1 DEF Words
      <3> QED
        BY <2>1, <3>1, <3>2, WordOfWord
    <2>2. CASE d >= 0
      <3>1. d \in Words
        BY <1>1, <1>2, <2>2 DEF Words
      <3> QED
        BY <3>1, WordOfWord
    <2> QED
      BY <1>2, <2>1, <2>2
  <1>5. d = 0 <=> Word(c) = l
    BY <1>1, <1>2 DEF d, Words
  <1> QED
    BY <1>3, <1>4, <1>5

\* The totals printed, the new one included, add up to the counter.
LEMMA SumOfPeriods ==
    ASSUME NEW r \in Int, NEW c \in Int
    PROVE  Word(r + Word(c - Word(r))) = Word(c)
  <1>1. Modulus \in Nat \ {0} /\ c - r \in Int
    BY SingleWorkerAssumption
  <1>2. (c - (r % Modulus)) % Modulus = (c - r) % Modulus
    BY <1>1, RemainderOfSum
  <1>3. (((c - r) % Modulus) + r) % Modulus = ((c - r) + r) % Modulus
    BY <1>1, RemainderOfSum
  <1>4. /\ (c - r) + r = c
        /\ ((c - r) % Modulus) + r = r + ((c - r) % Modulus)
    BY <1>1, Divided
  <1> QED
    BY <1>2, <1>3, <1>4 DEF Word

-----------------------------------------------------------------------------
LEMMA InitInvariant == Init => IInv
  <1> SUFFICES ASSUME Init PROVE IInv
    OBVIOUS
  <1> USE SingleWorkerAssumption DEF Init
  <1>1. 0 \in Words /\ Word(0) = 0
    BY WordOfWord DEF Words
  <1>2. Capacity \in Nat
    BY DEF Capacity
  <1>3. First \in {"count", "send", "take"}
    BY DEF First
  <1>4. exists \in BOOLEAN /\ alarm \in BOOLEAN
    OBVIOUS
  <1>5. TypeOK
    BY <1>1, <1>2, <1>3, <1>4 DEF TypeOK
  <1>6. BootInv
    BY DEF BootInv
  <1>7. ServiceInv
    BY DEF ServiceInv, Pooled, Builds, First
  <1>8. ReportInv
    BY <1>1 DEF ReportInv
  <1> QED
    BY <1>5, <1>6, <1>7, <1>8 DEF IInv

LEMMA BootStep ==
    ASSUME IInv, Initialize
    PROVE  IInv'
  <1> USE DEF IInv, TypeOK, BootInv, ServiceInv, ReportInv, Pooled, First, Capacity,
              Word, workerVars, serviceVars, reportVars, Checked
  <1>1. CASE CreateWorker
    BY <1>1 DEF CreateWorker
  <1>2. CASE CreateService
    <2>1. PICK ok \in Outcomes(build.test) :
             Checked(ok, "report") /\ exists' = ok
      BY <1>2 DEF CreateService
    <2>2. ok \in BOOLEAN
      BY DEF Outcomes
    <2> QED
      BY <1>2, <2>1, <2>2 DEF CreateService
  <1>3. CASE CreateReporter
    BY <1>3 DEF CreateReporter
  <1> QED
    BY <1>1, <1>2, <1>3 DEF Initialize

\* The worker runs when all is made and the reporting thread sleeps.
LEMMA WorkerStep ==
    ASSUME IInv, WorkerNext
    PROVE  IInv'
  <1> USE SingleWorkerAssumption
      DEF IInv, TypeOK, BootInv, ServiceInv, Pooled, First, Capacity, Builds,
          Step, Call, WorkerRuns, serviceVars, reportVars
  <1>0. ReportInv'
    BY DEF ReportInv, Word, WorkerNext, Count, Take, Give, Send, Receive,
           Compare, NextMessage
  <1>1. CASE Count
    BY <1>0, <1>1 DEF Count
  <1>2. CASE Take
    BY <1>0, <1>2 DEF Take
  <1>3. CASE Give
    BY <1>0, <1>3 DEF Give, GiveIt, Full
  <1>4. CASE Send
    BY <1>0, <1>4 DEF Send
  <1>5. CASE Receive
    BY <1>0, <1>5 DEF Receive, MessageWords
  <1>6. CASE Compare
    BY <1>0, <1>6 DEF Compare
  <1>7. CASE NextMessage
    <2>1. Word(sent + 1) \in Words
      BY WordIsWord, SMTT(30) DEF Words
    <2> QED
      BY <1>0, <1>7, <2>1 DEF NextMessage
  <1> QED
    BY <1>1, <1>2, <1>3, <1>4, <1>5, <1>6, <1>7 DEF WorkerNext

LEMMA ReporterStep ==
    ASSUME IInv, ReporterNext
    PROVE  IInv'
  <1> USE SingleWorkerAssumption
      DEF IInv, TypeOK, BootInv, ReportInv, ReporterGoes, Loop, workerVars,
          serviceVars
  <1>0. ServiceInv' /\ UNCHANGED <<build, boot, exists, workerVars>>
    BY DEF ServiceInv, Pooled, Capacity, ReporterNext, ReporterStarts,
           ReporterWakes, Check, PrintTotal, Save
  <1>1. /\ First' = First /\ Capacity' = Capacity
        /\ UNCHANGED <<build, boot, exists, at, available, queue, sent, received,
                       counter>>
    BY <1>0 DEF First, Capacity
  <1>2. CASE ReporterStarts \/ ReporterWakes
    BY <1>0, <1>1, <1>2 DEF ReporterStarts, ReporterWakes, Word
  <1>3. CASE Check
    <2>1. alarm' \in BOOLEAN
      BY <1>3 DEF Check
    <2>2. rpc = "check" /\ rpc' = "print" /\ UNCHANGED <<last_counter, reported>>
      BY <1>3 DEF Check
    <2>3. alarm' <=> Word(counter') = last_counter'
      BY <1>1, <1>3 DEF Check
    <2>4. Word(reported') = last_counter'
      BY <2>2
    <2>5. ReportInv'
      BY <2>2, <2>3, <2>4
    <2> QED
      BY <1>0, <1>1, <1>3, <2>1, <2>2, <2>5 DEF Check
  <1>4. CASE PrintTotal
    <2>1. counter \in Int /\ reported \in Int /\ last_counter \in Int
      BY DEF Words
    <2>2. Since \in Words /\ Since \in Nat
      <3>1. counter - last_counter \in Int
        BY <2>1
      <3> QED
        BY <3>1, WordIsWord DEF Since, Words
    <2>3. Word(reported) = last_counter /\ alarm = (Word(counter) = last_counter)
      BY <1>4 DEF PrintTotal
    <2>4. alarm <=> Since = 0
      BY <2>1, <2>3, ZeroDifference DEF Since
    <2>5. Word(reported + Since) = Word(counter)
      BY <2>1, <2>3, SumOfPeriods DEF Since
    <2>6. /\ period' = Since /\ reported' = reported + Since
          /\ UNCHANGED <<last_counter, cycle, alarm>>
          /\ rpc = "print" /\ rpc' = "save"
      BY <1>4 DEF PrintTotal
    <2>7. Word(reported') = Word(counter')
      BY <1>1, <2>5, <2>6
    <2> HIDE DEF Since
    <2>8. ReportInv'
      BY <2>4, <2>6, <2>7
    <2> QED
      BY <1>0, <1>1, <2>2, <2>6, <2>8
  <1>5. CASE Save
    <2>1. Word(counter) \in Words /\ last_counter' = Word(counter)
      BY <1>5, WordIsWord DEF Save
    <2>2. Word(reported') = last_counter'
      BY <1>5, <2>1 DEF Save, Word
    <2> QED
      BY <1>0, <1>1, <1>5, <2>1, <2>2 DEF Save
  <1> QED
    BY <1>2, <1>3, <1>4, <1>5 DEF ReporterNext

LEMMA StepInvariant == IInv /\ [Next]_vars => IInv'
  <1> SUFFICES ASSUME IInv, [Next]_vars
               PROVE  IInv'
    OBVIOUS
  <1>1. CASE UNCHANGED vars
    BY <1>1 DEF IInv, TypeOK, BootInv, ServiceInv, ReportInv, Pooled, First,
                Capacity, Word, vars, workerVars, serviceVars, reportVars
  <1> QED
    BY <1>1, BootStep, WorkerStep, ReporterStep DEF Next

\* The inductive invariant holds in every reachable state.
THEOREM Invariance == Spec => []IInv
  BY InitInvariant, StepInvariant, PTL DEF Spec

\* Every variable keeps its type; no queue or pool goes beyond its limit.
THEOREM TypeCorrect == Spec => []TypeOK
  BY Invariance, PTL DEF IInv

\* No worker uses its service before it exists.
THEOREM ServiceComesFirst == Spec => []NotBeforeService
  <1>1. IInv => NotBeforeService
    BY DEF IInv, TypeOK, BootInv, NotBeforeService
  <1> QED
    BY <1>1, Invariance, PTL

\* No call of a worker fails.
THEOREM WorkerGoesOn == Spec => []GoesOn
  <1>1. IInv => GoesOn
    BY DEF IInv, TypeOK, ServiceInv, Pooled, Builds, GoesOn
  <1> QED
    BY <1>1, Invariance, PTL

\* An ERROR is printed exactly when the period's total is zero, and the totals
\* printed add up to the counter.
THEOREM ReportsAddUp == Spec => []ReadsAgree
  <1>1. IInv => ReadsAgree
    BY DEF IInv, ReportInv, ReadsAgree
  <1> QED
    BY <1>1, Invariance, PTL
=============================================================================
