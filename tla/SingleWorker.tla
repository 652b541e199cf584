------------------------------ MODULE SingleWorker -----------------------------
(***************************************************************************)
(* The four tests with one worker: basic processing, message processing,   *)
(* memory allocation and synchronization.  The worker calls a pair of      *)
(* services and counts; it ends, without a word, when a call fails.        *)
(*                                                                         *)
(* The initialisation makes the worker ready before it creates the service *)
(* that the worker uses, which is right because the scheduler starts only  *)
(* afterwards.  A thread or service that cannot be created ends the        *)
(* program.  The reporting thread reads the counter three times in one     *)
(* report: to see whether it stood still, to print the increments of the   *)
(* period, and to save it.                                                 *)
(*                                                                         *)
(* counter holds the true number of increments, Word what is left of it in *)
(* an unsigned long.  Of the four words of a message only the last changes *)
(* and is compared: a message is that word here.                           *)
(***************************************************************************)
EXTENDS Integers, Sequences

CONSTANTS
    Modulus,     \* unsigned long counts modulo this
    TestCycles,  \* tm_test_cycles: 0 runs for ever
    Blocks,      \* the blocks of the memory pool
    Depth,       \* the messages that a queue takes
    MaxCount     \* bound: the worker counts no further

ASSUME SingleWorkerAssumption ==
    /\ Modulus \in Nat /\ Modulus > 1
    /\ TestCycles \in Nat
    /\ {Blocks, Depth} \subseteq Nat \ {0}
    /\ MaxCount \in Nat

VARIABLES
    build,         \* what the program is built of
    boot,          \* the next step of the initialisation
    exists,        \* the service, if the test has one, is there
    at,            \* the next step of the worker
    available,     \* free blocks, or the count of the semaphore
    queue,
    sent,          \* tm_message_sent[3]
    received,      \* tm_message_received[3]
    counter,       \* the increments of the worker
    rpc,           \* the control of the reporting thread
    last_counter,
    cycle,         \* _tm_cycle
    alarm,         \* the last report printed an ERROR
    period,        \* the total last printed
    reported       \* the sum of the totals printed

serviceVars == <<available, queue, sent, received>>
workerVars == <<at, counter, serviceVars>>
reportVars == <<rpc, last_counter, cycle, alarm, period, reported>>
vars == <<build, boot, exists, workerVars, reportVars>>

Word(n) == n % Modulus
Words == 0 .. Modulus - 1

\* long: kernel words in an unsigned long.
Builds ==
    [test : {"basic", "message", "memory", "synchronization"},
     kernel : {"threadx", "freertos"},
     long : {1, 2}]

\* What a new service holds.
Capacity == IF build.test = "memory" THEN Blocks ELSE 1

\* The first step of a worker.
First == CASE build.test = "basic"   -> "count"
           [] build.test = "message" -> "send"
           [] OTHER                  -> "take"

TypeOK ==
    /\ build \in Builds
    /\ boot \in {"worker", "service", "report", "started", "failed"}
    /\ exists \in BOOLEAN
    /\ at \in {"take", "give", "send", "receive", "compare", "next", "count",
               "ended"}
    /\ available \in 0 .. Capacity
    /\ queue \in Seq(Words) /\ Len(queue) <= Depth
    /\ {sent, received, last_counter, period} \subseteq Words
    /\ {counter, cycle, reported} \subseteq Nat
    /\ rpc \in {"start", "asleep", "check", "print", "save", "exited"}
    /\ alarm \in BOOLEAN

\* The first word of a message is any, for what its wrap is about.
Init ==
    /\ build \in Builds
    /\ boot = "worker" /\ exists = FALSE
    /\ at = First
    /\ available = Capacity
    /\ queue = <<>> /\ sent \in Words /\ received = 0
    /\ counter = 0
    /\ rpc = "start"
    /\ last_counter = 0 /\ cycle = 0 /\ alarm = FALSE /\ period = 0
    /\ reported = 0

-----------------------------------------------------------------------------
(***************************************************************************)
(* The initialisation                                                      *)
(***************************************************************************)
\* FreeRTOS makes threads and services, but for the pool, on its heap, which
\* may be empty; ThreadX and the pool use memory set aside for them.
Outcomes(what) ==
    IF build.kernel = "freertos" /\ what \notin {"memory", "basic"}
    THEN BOOLEAN ELSE {TRUE}

\* TM_CHECK
Checked(ok, next) == boot' = IF ok THEN next ELSE "failed"

CreateWorker ==
    /\ boot = "worker"
    /\ \E ok \in Outcomes("thread") : Checked(ok, "service")
    /\ UNCHANGED <<build, exists, workerVars, reportVars>>

CreateService ==
    /\ boot = "service"
    /\ \E ok \in Outcomes(build.test) :
          Checked(ok, "report") /\ exists' = ok
    /\ UNCHANGED <<build, workerVars, reportVars>>

\* The reporting thread is made; then the scheduler starts.
CreateReporter ==
    /\ boot = "report"
    /\ \E ok \in Outcomes("thread") : Checked(ok, "started")
    /\ UNCHANGED <<build, exists, workerVars, reportVars>>

Initialize == CreateWorker \/ CreateService \/ CreateReporter

-----------------------------------------------------------------------------
(***************************************************************************)
(* The worker, of lower priority, runs while the reporting thread sleeps.  *)
(***************************************************************************)
\* Mutants: as soon as it is made ready; also during a report.
WhenReady  == boot \notin {"worker", "failed"} /\ rpc \in {"start", "asleep"}
AnyTime    == boot = "started" /\ rpc # "start"
WorkerRuns == boot = "started" /\ rpc = "asleep"

Step(from, to) ==
    /\ WorkerRuns
    /\ at = from /\ at' = to
    /\ UNCHANGED <<build, boot, exists, reportVars>>

\* A call without a wait that fails is the worker's last.
Call(from, ok, to) == Step(from, IF ok THEN to ELSE "ended")

Count ==
    /\ counter < MaxCount
    /\ Step("count", First)
    /\ counter' = counter + 1
    /\ UNCHANGED serviceVars

\* tm_memory_pool_allocate, tm_semaphore_get
Take ==
    /\ Call("take", available > 0, "give")
    /\ available' = IF available > 0 THEN available - 1 ELSE available
    /\ UNCHANGED <<counter, queue, sent, received>>

\* A FreeRTOS semaphore is binary: to give it when it is available fails.
Full == available = 1 /\ build.test = "synchronization" /\ build.kernel = "freertos"

KeepIt == UNCHANGED available   \* mutant
GiveIt == available' = IF Full THEN available ELSE available + 1

\* tm_memory_pool_deallocate, tm_semaphore_put
Give ==
    /\ Call("give", ~Full, "count")
    /\ GiveIt
    /\ UNCHANGED <<counter, queue, sent, received>>

Send ==
    /\ Call("send", Len(queue) < Depth, "receive")
    /\ queue' = IF Len(queue) < Depth THEN Append(queue, sent) ELSE queue
    /\ UNCHANGED <<counter, available, sent, received>>

\* The kernel words that a queue copies of a message.
FourWords    == 4   \* mutant: as though an unsigned long were one of them
MessageWords == 4 * build.long

\* The last unsigned long arrives only if all of it is copied.
Receive ==
    /\ Call("receive", queue # <<>>, "compare")
    /\ received' = IF queue # <<>> /\ MessageWords >= 4 * build.long
                   THEN Head(queue) ELSE received
    /\ queue' = IF queue # <<>> THEN Tail(queue) ELSE queue
    /\ UNCHANGED <<counter, available, sent>>

Compare ==
    /\ Call("compare", received = sent, "next")
    /\ UNCHANGED <<counter, serviceVars>>

NextMessage ==
    /\ Step("next", "count")
    /\ sent' = Word(sent + 1)
    /\ UNCHANGED <<counter, available, queue, received>>

WorkerNext ==
    Count \/ Take \/ Give \/ Send \/ Receive \/ Compare \/ NextMessage

-----------------------------------------------------------------------------
(***************************************************************************)
(* The reporting thread                                                    *)
(***************************************************************************)
ReporterGoes(from, to) ==
    /\ boot = "started"
    /\ rpc = from /\ rpc' = to
    /\ UNCHANGED <<build, boot, exists, workerVars>>

\* TM_REPORT_LOOP: is there another cycle?
Loop(n) == IF TestCycles = 0 \/ n < TestCycles THEN "asleep" ELSE "exited"

ReporterStarts ==
    /\ ReporterGoes("start", Loop(cycle))
    /\ UNCHANGED <<last_counter, cycle, alarm, period, reported>>

\* The tick that ends the sleep.
ReporterWakes ==
    /\ ReporterGoes("asleep", "check")
    /\ UNCHANGED <<last_counter, cycle, alarm, period, reported>>

Check ==
    /\ ReporterGoes("check", "print")
    /\ alarm' = (Word(counter) = last_counter)
    /\ UNCHANGED <<last_counter, cycle, period, reported>>

\* The increments of the period: a difference of unsigned longs.
SignedSince == Word(counter) - last_counter   \* mutant
Since       == Word(counter - last_counter)

PrintTotal ==
    /\ ReporterGoes("print", "save")
    /\ period' = Since
    /\ reported' = reported + Since
    /\ UNCHANGED <<last_counter, cycle, alarm>>

Save ==
    /\ cycle' = IF TestCycles = 0 THEN cycle ELSE cycle + 1
    /\ ReporterGoes("save", Loop(cycle'))
    /\ last_counter' = Word(counter)
    /\ UNCHANGED <<alarm, period, reported>>

ReporterNext ==
    ReporterStarts \/ ReporterWakes \/ Check \/ PrintTotal \/ Save

Next == Initialize \/ WorkerNext \/ ReporterNext

Spec == Init /\ [][Next]_vars

-----------------------------------------------------------------------------
\* The worker, which was made ready before its service, does not run before
\* the service exists, nor when it could not be made.
NotBeforeService ==
    build.test # "basic" /\ (at # First \/ counter > 0) => exists

\* No call fails and every message comes back whole: the worker goes on.
GoesOn == at # "ended"

\* The three reads of a report agree: an ERROR is printed exactly when the
\* total printed next is zero, and no increment falls between two periods, so
\* that the totals printed add up to the counter that was saved.
ReadsAgree ==
    /\ rpc = "save" => (alarm <=> period = 0)
    /\ rpc \in {"asleep", "check", "exited"} => Word(reported) = last_counter
=============================================================================
