# Thread-Metric: a verification development

Thread-Metric measures what an RTOS costs: each of its programs runs a few
threads that do nothing but ask the kernel for one kind of service and count,
and a reporting thread that prints, period after period, how far they came.
The programs accuse the kernel (`ERROR: ...`) when the counters say that a
service was not done. They run on ThreadX and FreeRTOS, on a POSIX host and on
a Cortex-M3 under QEMU.

Two things have to be right for the numbers to mean anything: the **ports**
have to give the programs the one processor, the priorities and the interrupts
they are written for, and the **programs** have to count and accuse correctly
wherever a report cuts through their threads. This directory holds TLA+ modules
of both, the TLC configurations that check them on small instances, and proofs
that hold for every value of the constants.

Paths below are relative to the repository; `posix-host/` stands for
`ports/threadx/posix-host/`.

## 1. The system

| Component | State it keeps | Operations | Interacts with |
|---|---|---|---|
| ThreadX POSIX host port (`posix-host/*.c`, `tx_port.h`) | current and selected thread, ISR nesting, per-thread suspension type and posture, a recursive mutex, three semaphores, two signals, two ack pipes, timer-waiting flag | scheduler loop, thread start, system return, context save / restore, timer tick, suspend / resume, interrupt control | the ThreadX core above it, pthreads and signals below it |
| ThreadX port layer (`ports/threadx/tm_port.c`) | object arrays, entry table, preemption-pending flag | create / resume / suspend / relinquish / sleep, queue, semaphore and pool calls, ISR thread, synthetic interrupt bracket | the tests; the ThreadX core |
| FreeRTOS port layer (`ports/freertos/tm_port.c`) | object arrays, freelist pools, ISR task and its semaphore | the same API on FreeRTOS; its own fixed-block pool | the tests; the FreeRTOS kernel |
| Cortex-M interrupt dispatch (`*/cortex-m/tm_isr_dispatch.c`) | interrupt mask, pending bit, context flag | `tm_cause_interrupt`, `tm_cause_interrupt_sync`, the handlers | interrupt tests, port layers |
| Preemptive test (`src/preemptive_scheduling.c`) | five counters, thread states | resume chain, self-suspension, report | port layer |
| Cooperative test (`src/cooperative_scheduling.c`) | five counters, ready ring | relinquish, count, report | port layer |
| Interrupt tests (`src/interrupt_*.c`) | counters of threads and handler, a semaphore | raise an interrupt, take the semaphore or be preempted, report | interrupt dispatch |
| Single-worker tests (`basic`, `message`, `memory_allocation`, `synchronization`) | one counter | one service pair in a loop, report | port layer |
| Reporting library (`src/tm_report.c`, `include/tm_api.h`) | duration, cycle count | parse the environment, `tm_printf`, report loop, `TM_CHECK` | every test |
| QEMU runner (`scripts/qemu-run.sh`) | pids of guest and watchdog, a sentinel file | run, time out, clean up on a signal | check loop |
| Check loop and CI (`Makefile`, `.ci/ci-tools.sh`, workflow) | verdict per test, artifacts | run all, grep the total, aggregate | QEMU runner |
| Start-up, configuration, style scripts | - | straight-line initialisation, options, formatting | - |

### What is hard in it

* **The POSIX port is a concurrent program that imitates a sequential one.** On
  a host with several processors the pthreads of all threads, the scheduler and
  the timer really run in parallel. That at most one thread executes, that none
  does during the interrupt, and that the hand-over never blocks for ever is the
  outcome of a protocol of signals, pipes, semaphores and a recursive mutex whose
  state is spread over six files. Signals arrive at any instruction, stay pending
  when blocked and merge; a semaphore token is used both as a hand-shake and as
  a hand-over; the mutex is recursive and its depth doubles as the interrupt
  posture.
* **The tests are cut anywhere by their own reports.** The reporter preempts the
  workers between any two instructions, reads counters one at a time, does
  arithmetic of the width of `unsigned long` and judges a tolerance of one.
* **The two kernels schedule equal priorities differently.** A test that relies
  on who runs next means one thing on ThreadX and another on FreeRTOS.
* **The memory pool keeps its list inside the blocks it hands out.**
* **The runner is four concurrent processes and a file**, with signals between
  any two commands.
* **A verdict goes through three hands**: the loop that looks for a total, the
  job that looks for a summary line, the artifact that counts lines; in each a
  step may die without failing the job.

`PROJECT.json` lists these one by one, at their lines, under `hazards`.

### What makes each component correct

* POSIX port: one processor with interrupts, in the sense of `OneCpu.tla`; no
  lost or surplus wake-up, ack byte, resume signal or token; interrupt posture
  restored by every service; every dispatch completes and ticks go on.
* Scheduling tests: counters level at every instant a report can see; snapshot of
  one instant; an accusation only when deserved; period totals exact.
* Memory pool: every block either held by one holder or on the list, once.
* Interrupt tests: handler done before the raiser goes on, where the port has a
  barrier; counters level wherever it has not; the semaphore hand-shake never
  breaks; no other thread sees the interrupt-context flag.
* Single-worker tests: no call fails, none comes before its service exists; the
  three reads of a report agree and the totals add up.
* Runner: a success is the guest's own; nothing is left running; it ends.
* Check loop and CI: the loop ends; the verdicts agree with the tests and with
  one another; a green workflow means that every test printed its total, even
  if a step has died on the way.

## 2. Modules

```
OneCpu  <------ refinement ------ TxPosix            the POSIX port
                                  TxPosixInv         its inductive invariant
                                  TxPosixMC          instances
                                  TxPosixSem         the same, its semaphores in steps
                                  TxPosixSemMC       an instance of that
                                  TxPosixProof       both: safety and refinement, proved

WorkerReport                      five counters and a reporting thread
  PreemptiveScheduling            + PreemptiveInv, its inductive invariant
  CooperativeScheduling           + CooperativeInv, its inductive invariant
                                  SchedulingProof: both tests, proved

InterruptReport                   counters of threads and handler, the report
  InterruptProcessing             the inline interrupt, four ports
                                  + InterruptProcessingProof
  InterruptPreemption             the raised interrupt + InterruptPreemptionProof

SingleWorker                      four tests, two kernels + SingleWorkerProof

BlockPool <---- refinement ------ MemoryPool         FreeRTOS freelist
                                  MemoryPoolProof

QemuRun                           scripts/qemu-run.sh
CiReport                          what a job and the report make of an output
  CheckLoop                       make check around QemuRun, and the workflow
                                  + CheckLoopInv, CheckLoopProof

WordArithmetic                    remainders of an unknown width, for the proofs
```

### TxPosix

One program counter per pthread: `spc` for the scheduler
(`_tx_thread_schedule`), `tpc` for the timer (`_tx_posix_timer_interrupt`,
context save, tick, context restore), `pc[t]` for each thread (entry, services,
`_tx_thread_system_return`). The variables carry the names of the code's:
`current_ptr` is `_tx_thread_current_ptr`, `suspension_type` is
`tx_thread_posix_suspension_type`, and so on.

* **Grain.** A region the code executes with the mutex held and without waiting
  is one action. Every wait inside such a region (ack read, hand-shake, ISR
  semaphore) ends the action, so that all that other pthreads can do meanwhile
  is in the model. Draining and posting outside the mutex are separate actions.
* **Signals.** `sig_suspend[p]` and `sig_resume[p]` are pending signals (a
  second one merges). The suspend signal is delivered at any step of a pthread,
  application code and the steps of system return included; the handler writes
  its ack byte and stays until the resume signal, which is blocked everywhere
  else. A signal that cuts `nanosleep` short makes the tick come early.
* **The mutex** is its recursion depth per pthread, `lock_count`. The depth is
  read back as the interrupt posture (`Posture`), as in the code.
* **The ThreadX core** is not in the repository. It is reduced to what the port
  sees of it: a ready list, the selected thread, sleepers, the
  preempt-disable window of a service. These definitions are `external` in the
  map.
* **Left out**: time slices (every thread is created with `TX_NO_TIME_SLICE`,
  `ports/threadx/tm_port.c:247`) and delete / reset completion (no caller). The
  check "terminated thread still running" has no exit action: `NoSpuriousExit`
  shows it never finds a live thread.
* **Bounds.** `SemCap` saturates the ISR semaphore: the code only asks whether
  it is positive and drains it after each wait, so counts above one are not
  distinguished. Everything else is finite by the protocol.

`OneCpu` is what the port promises: what executes is nothing, one thread or the
interrupt; a thread gets the processor only if it is the selected one or holds
off preemption; only what executes changes the selection. The refinement maps
"executes" to `Live(t)`: in application or service code and not in the handler.

### TxPosixSem

`TxPosix` takes a semaphore operation for one step. In `tx_port.h` it is a
mutex, a condition variable and a count, and a signal may stop a pthread in any
of its instructions. `TxPosixSem` puts around each step of `TxPosix` at a
semaphore what the operation is made of: take the kernel mutex if the post is
one of `tx_posix_sem_post_sched`, lock, sleep while there is no token, wake up
signalled or for no reason, do the step, unlock. `stage[p]` is how far a pthread
has come, `at[p]` at which semaphore, `mutex` who holds the kernel mutex for it.
Whoever needs a lock that another one holds has to wait, and so does whoever
needs the kernel mutex; that is how a stop at a bad place would show.
Two things stay coarse: a drain and the post that follows it are one hold of
the lock, and the scheduler, which no signal stops, unlocks with the step.

### WorkerReport, PreemptiveScheduling, CooperativeScheduling

`WorkerReport` is the part both tests write the same: five counters, the
reporting thread with one action per counter it reads, the tolerance check, the
period total, `TM_REPORT_LOOP`. `counter` counts increments without a bound and
`Word` takes what remains of a number in an `unsigned long`; so a property can
say what the true numbers are while the code computes with the truncated ones.
Workers act only while the reporter sleeps, which on the POSIX host is what the
TxPosix properties establish and what a real processor gives.

`PreemptiveScheduling` has one action per instruction of a worker that matters
(resume the next, count, suspend itself). `current` is the worker that has the
processor; what moves it are the kernel's resume and suspend, by the priorities
the workers are created with: that it is always the ready worker of the highest
priority is proved and not assumed. `CooperativeScheduling` has the ring of ready workers
of one priority; `sliced` is which build it is, chosen in the initial state: in
a sliced one the ring moves on at ticks and when the reporter returns, as
FreeRTOS does with `configUSE_TIME_SLICING`, which both configurations set to 1.

### InterruptReport, InterruptProcessing, InterruptPreemption

`InterruptReport` is what the two interrupt tests share: a counter of the
handler and one per thread, the reporting thread that reads them one at a time,
the tolerance check, the number of interrupts of the period.

`InterruptProcessing` is the test whose handler runs inline in
`tm_cause_interrupt_sync`. `port`, chosen in the initial state, is one of the
four ports; the operators `Masks`, `HasFlag`, `Brackets` and `Binary` say what
each does: the Cortex-M ports mask interrupts (`primask`) and set the context
flag (`active`), ThreadX on Cortex-M brackets the semaphore's put with a second
mask that it restores from `saved`, the FreeRTOS semaphore is binary. Each is a
step of its own and the tick, if not masked, may come between any two: on the
POSIX ports also between the handler's increment and its put.

`InterruptPreemption` is the test whose handler resumes a thread of higher
priority. On three of the ports nothing of the caller executes between the call
and the handler (`barrier`): SVC is a trap, and the ISR thread or task has the
highest priority. On FreeRTOS for Cortex-M the call is a store to the
set-pending register, and `ports/freertos/cortex-m/tm_isr_dispatch.c:81` has no
barrier after it: architecturally the interrupt may be taken later. The model
lets it be late by one step of the caller (`irq` "pended", then "due"). QEMU
takes it at once, so this is an assumption about hardware and not a finding; what
is shown is that the test would tolerate it.

### SingleWorker

Basic processing, message passing, memory allocation and synchronization have
one shape: a worker with a pair of calls and a count. `build` (test, kernel, and
whether an `unsigned long` is one or two kernel words) is chosen in the initial
state. `boot` is the initialisation, in the order of the code: the worker is
made ready *before* its service is created; on FreeRTOS a creation may fail for
lack of heap, and `TM_CHECK` then ends the program. The service is reduced to
what the worker can tell: how many blocks or tokens are `available`, the
messages in the `queue`. The reporting thread reads the counter three times in
one report; each is an action. Left out: the arithmetic on the array of the
basic test, and three of the four words of a message, which never change.

### QemuRun

The script, the guest, the watchdog with its `sleep`, and the sentinel file. One
action per command of the script and of the watchdog; `sh` holds the shell
variables. A signal (at most one, none during the clean-up itself) may come
between any two commands. The guest may exit with status 0 or 1, hang, and ignore a
TERM; QEMU may answer a TERM with status 0. Time is left out: the watchdog may
wake at any moment, which includes the moment at which the guest has just
finished.

### CheckLoop, CiReport

`CheckLoop` runs the tests one after the other, each as the guest of a fresh
`QemuRun`, as a program under `timeout`, or bare (`runner`, chosen in the
initial state as `make check` chooses it from the target and the host). A test
prints its total (`TM_REPORT_LOOP`) or ends before it; the loop reads the pipe
to its end and looks for the total. `truth` is history: which tests have printed
it. `make` may be killed in or between tests.

`CiReport` is what comes after: the status of the test step from the summary
line, the status of the artifact from the lines of the tests, the verdict of the
report over the artifacts, and the job's own success. A fault may hit the build,
the test step before or after its output is recorded, or the upload; the steps
after it run as `continue-on-error` and `if: always()` say. One job is modelled
step by step; a second one ends with any output such a job can have. Faults are
counted and at most `MaxFaults` of them happen, a killed `make` included;
`twice` is history too: the job met both a killed `make` and another fault.

### MemoryPool

Blocks are numbers; `word[b]` is the first word of a block, which is the next
pointer while the block is free and the holder's while it is held: `Write`
lets the holder store anything in it, an address-like value included. One
thread of one test uses the pool, so that a call is one action. `BlockPool` is
the pool as the API has it: a set of free blocks and a set of held ones.

## 3. Runs

| Run | Instance | Shows |
|---|---|---|
| `posix` | 3 threads, one above two equal ones | all safety properties and the refinement of `OneCpu`; ticks go on, the selected thread runs |
| `posix_semaphores` | 2 threads of different priorities | no pthread is stopped with a lock, no wake-up is lost, dispatches complete |
| `posix_tick` | 2 threads | a tick can come early (expected violation) |
| `preemptive` | word of 9, two reports, 5 increments each | the chain stays level, a resume comes back after the whole chain above has run, period totals exact across two wraps of the total, accused only by such a wrap |
| `preemptive_wrap` | word of 16, endless | a false accusation once the total wraps (expected violation) |
| `cooperative` | both builds | without slices the ring stays level; in both a report accuses only when counters have drifted |
| `cooperative_freertos` | both builds | the cooperative test accuses FreeRTOS (expected violation) |
| `memory_pool` | 4 blocks | freelist equals the free set, refinement of `BlockPool` |
| `interrupt_processing` | four ports, word of 8, two reports, 9 interrupts | the context flag is private, the hand-shake holds, no false accusation |
| `interrupt_preemption` | with and without barrier, same bounds | counters level, snapshot of one instant, the call returns after its handler |
| `single_worker` | 4 tests, 2 kernels, 2 widths; word of 4, two reports | no call fails or comes too early, reports add up across the wrap |
| `check_loop` | 2 tests under each runner, 2 jobs, up to two faults, one signal to each script | no false success, nothing left behind, verdicts agree, green means that all tests reported, the loop ends |

The inductive invariants are checked by TLC too before they are proved, on the
same instances; as the proofs are kept, they are not runs of their own. The same
holds of a few theorems that repeat for one test what a run checks for another:
`SnapshotConsistent` of the scheduling tests and of interrupt processing,
`RingAccusedOnlyByWrap` of the cooperative test, `NeverAccused` of interrupt
preemption.

**Why the bounds are enough.** Three threads give a running, a preempted and a
woken thread at once, with equal priorities for relinquish and a strictly
higher one for preemption; more threads only wait, in one of the parked states
`OffCpuInv` lists. With the semaphores in steps two threads show every meeting of
a waiter, a poster and the one who stops them: a third can only wait at its own
semaphore, and the proof is for any number. In the
scheduling tests the five workers are the program's; `MaxCount` limits a run to
a few rounds, enough for the total to pass the (small) word more than once in
`preemptive`, while the proofs have no such limit. Four blocks give a list with
a head, a middle and an end in every order. In the interrupt runs 9 interrupts
let the total of two or three counters pass the word of 8, with reports at every
step of the interrupt. In `single_worker` 7 increments pass the word of 4, for the
counter and for the message, between two reports and within one period; two
blocks and a queue of two are one more than the worker ever needs. In
`check_loop` two tests are one that has ended before the other starts, so that
what a script leaves behind meets the next one, and two jobs are the one that
fails and the one that does not. `MaxFaults` = 2 lets one job meet two faults,
the one case in which a workflow *can* be green without all its totals (section
5): `GreenMeansAllOk` excepts the job that is `twice` hit, and no other. The
theorem is for any number of tests and of faults.

**Deadlock** is checked in the runs of the POSIX port and the memory pool. The
tests end (`TestCycles`) or reach `MaxCount`, and the check loop is meant to
end: there `LoopEnds` says so.

**Fairness** (`FairSpec` of TxPosix). Strong fairness for scheduler, timer and
the non-application steps of threads: they contend for one mutex with SCHED_FIFO
priorities (`TX_POSIX_PRIORITY_*` in `tx_port.h`), so a pthread that finds it
free again and again gets it. Weak fairness for signal handlers. Nothing is
assumed of a thread in application code, which may never call a service, nor
that a sleep ever ends. One assumption is about timing and is a premise of the
two properties that need it: `Timely` says that from some time on a pthread that
was sent its resume signal leaves the handler before a full 10 ms period of the
timer passes, and the timer before the next dispatch. Without it a signal could
stay undelivered for ever and a thread or the timer would starve.
`DispatchCompletes` does without. On a host that denies SCHED_FIFO (the code
treats that as non-fatal) these are assumptions about an ordinary scheduler.

`SemFairSpec` has strong fairness for each pthread by itself, inside its
semaphore operations too, for a lock is handed out to one of those that wait; none
for spurious wake-ups, which may or may not happen.

`check_loop` assumes weak fairness of the loop, of the script's commands, of the
watchdog and of `timeout`: all are processes of an operating system that gives
each its turn, and a watchdog's `sleep` ends. Nothing is assumed of the test, of
a signal or of a fault. `LoopEnds` therefore has two exceptions, in which a test
that hangs is waited for without end: a host that has no `timeout` command, and a
script that was signalled before it knew the pid of QEMU.

## 4. Theorems

All proofs are for every value of the constants: any set of threads and any
priorities, any word width, any number of blocks. They rest only on the named
ASSUMEs of the modules (`PosixAssumption`: the pthreads are distinct and
priorities are numbers; `ReportAssumption`, `InterruptReportAssumption`,
`SingleWorkerAssumption`: the word holds more than the few counters summed, sizes
are positive; `ProcessingAssumption`, `PreemptionAssumption`: which counters the
report reads; `PoolAssumption`, `CheckAssumption`: there is a block, a test;
`SemaphoreAssumption`: `None` is no pthread), which TLC evaluates on every run
whose module declares them.

* **TxPosix.** The safety properties are not inductive. `IInv` (in `TxPosixInv`)
  strengthens them: who holds the mutex at which program counter; how every
  thread that is not current is parked (stopped by signal, waiting on its
  semaphore, or leaving); and, for each place where scheduler and timer can
  stand, in which phase of a dispatch or of a stop the current thread is.
  `Invariance` proves `Spec => []IInv`, one step per action; from it follow
  `TypeCorrect`, `MutualExclusion`, `IsrSeesKernelAtRest`, `NoThreadIsLost`
  (no spurious exit), `AcksArePaired`, `NoResumeIsLeft`, `WakesAreMatched`,
  `TokensAreConsumed` and `PosturesAreRestored`. `Refinement` and
  `PreemptionIsRespected` are proved from the same invariant.
  *Deadlock* is proved in the form of guards. `SchedGoesOn`, `TimerGoesOn`,
  `ThreadGoesOn(t)` and `SignalGoesOn(p)` say when a pthread can take its next
  step. `TheHolderGoesOn`: who holds the mutex can, or the one can whose byte or
  token it waits for. `NoStandstill`: unless no thread is selected and the timer
  naps, somebody can, and not only by ending a nap. Beside `IInv` that needs
  two invariants. `ParkInv` (`TimerIsAwaited`): when the timer waits on the ISR
  semaphore, `execute_ptr` is a thread that waits on its run semaphore, so that
  the next dispatch, which is under way or has its token, ends in the post; `IInv`
  alone does not say that the scheduler will take the branch that posts.
  `HandOverInv` (`ProcessorIsHandedOver`): while no thread is current and the
  scheduler waits, it has its token or a thread is about to post it.
* **TxPosixSem.** `SemaphoresAreAtomic`: a step of it is one of `TxPosix` or
  changes nothing there, so that `IInv` and all that follows hold with the
  semaphores in steps. That alone says nothing of locks. `SemInv` does, beside
  `IInv`: one holder for each lock; a pthread in a semaphore stands at a program
  counter that has one; a thread unlocks after its post only while the scheduler
  is in the dispatch; the timer is in a semaphore only with the kernel mutex
  or with `timer_waiting` set. A stop is sent either by the scheduler, to the
  timer, when `timer_waiting` is not set, or by the timer, to the current
  thread, when the scheduler is in no dispatch; in both cases the target is in no
  semaphore. The lemmas `SchedulerSteps`, `TimerSteps` and `ThreadSteps` say
  what a step does to the places of the others, so that the preservation of
  `SemInv` is proved per kind of pthread and not per action. Hence
  `NoStopInSemaphore` and `NoSleeperIsForgotten`.
* **Scheduling.** The invariants relate counters to thread states: in the
  preemptive test the ready workers form a chain (`ChainInv`), and a worker's
  counter is that of the one below it plus one exactly while that one has not yet
  counted (`RoundInv`); in the cooperative test the position in the ring says who
  has had its turn (`RingInv`). What the two share is proved once, of the steps of
  `WorkerReport`: what a report does to the snapshot, the alarm and the total.
  From them, in one module: `StaircaseHolds`, `ResumeComesBack`, `RoundRobinHolds`,
  and for each test that a snapshot is of one instant, that period totals are
  exact, that it is accused only by a total that has outgrown the word
  (`PreemptiveAccusedOnlyByWrap`, `CooperativeAccusedOnlyByWrap`: the latter when
  there are no slices), and its types. `CooperativeAlarmIsJustified` is for both
  builds. `PeriodTotalExact` needs that the total saved is what remains of the
  sum at the last report, and that remainders may be taken before or after a sum:
  `WordArithmetic` proves that for a width that is not known, where the provers
  know nothing of `%` with a symbolic divisor. The definitions of the cooperative
  test begin with `Ring` (`RingInit`, `RingSpec`), so that one module can extend
  both tests.
* **Interrupt processing.** `HandshakeInv` says at which points of the round the
  semaphore holds its token, `MaskInv` at which the mask and the flag are set, on
  which port, and that the reporting thread sleeps while the mask is set; the
  latter is what keeps a tick from showing the flag to another thread. `CountInv`
  says that the handler's counter is ahead of the thread's by one or level with
  it. From them: `HandshakeGoesOn`, `FlagStaysPrivate`, `SnapshotIsConsistent`,
  and `NobodyIsAccused`: as long as the sum fits the word, both counters are
  within one of its half.
* **Interrupt preemption.** `ControlInv` says which of thread 1, handler and
  thread 0 can be under way together, `CountInv` by how much the counters differ
  at each point. From them: `CountersStayLevel` (`Level` and `NoLostResume`),
  `SnapshotIsConsistent`, `CallReturnsAfterHandler`, and `NobodyIsAccused`, for
  three counters of which any two differ by one at most.
* **Single worker.** `BootInv` (nothing has run before all is made), `ServiceInv`
  (what the service holds tells which call is next) and `ReportInv` (what has
  been printed in sum). From them: `TypeCorrect`, which includes the limits of
  queue and pool, `ServiceComesFirst`, `WorkerGoesOn`, `ReportsAddUp`.
* **Memory pool.** The invariant says that there is a sequence which is the list.
  The proof pushes and pops that sequence, which needs that a free block's word
  is not among those a holder can write. Hence `Refinement` of `BlockPool`; and
  `FreelistIsFree`, where the sequence is no longer than the pool because no
  block is on it twice.

* **Check loop and runner.** The runner is finite, but the loop runs any number of
  tests, in a workflow that meets any number of faults. `CheckInv` (in
  `CheckLoopInv`) has three parts. `ScriptInv`: at each command of
  `qemu-run.sh`, which of guest, watchdog and sentinel the script knows of; that a
  killed guest has left a sentinel; and that a status other than 143 is given only
  when the watchdog is gone. `LinesInv`: the lines printed say, in order, what the
  tests have done, and only a killed `make` has lines too few. `JobsInv`: what the
  success and the artifact of a job that has ended say about `all`. The main
  lemma, `VerdictsOfJob`, takes the fault of a job and the output it met and shows
  that success and a "passed" artifact together mean that all totals were
  printed, unless `make` was killed as well. The preservation of `ScriptInv` is
  proved for a script by itself and then used inside the loop. From `CheckInv`:
  `SuccessIsTheGuests`, `NothingIsLeftBehind`, `GreenIsEarned`, `NoFaultNoDispute`.

Every safety invariant, action property and refinement that a passing run checks
has its theorem. Only model-checked remain:

* the liveness properties `TimerKeepsTicking`, `SelectedRuns`,
  `DispatchCompletes` (in both modules of the port) and `LoopEnds`: they rest on
  fairness, and ENABLED is out of the prover's reach;
* deadlock freedom as TLC understands it (some action is enabled): proved are the
  guards above, which repeat those of the actions;
* that the three expected violations happen.

## 5. Findings

* *A tick may be shorter than its period.* The timer's `nanosleep` is not
  resumed when a signal interrupts it, and the scheduler sends the timer such
  a signal at a dispatch. `tm_thread_sleep` promises seconds and counts ticks.
* *The total wraps before it is averaged.* On a 32-bit target in an endless
  run, the tests accuse a correct kernel once the sum of the counters exceeds
  the word.
* *The cooperative test accuses FreeRTOS.* With time slicing on, a tick
  between a relinquish and its increment costs that worker a turn.

Three smaller disagreements in `scripts/qemu-run.sh` were met while modelling.
They have no run of their own; `QemuRun`'s properties are stated so as to hold
in spite of them:

* The watchdog may write its sentinel after the guest has exited by itself and
  before it is stopped; line 114 then reports a timeout, although lines 48-50
  and 111-112 take the sentinel for a sign that the watchdog ended the guest.
* A TERM between the start of QEMU or of the watchdog and the assignment of its
  pid (lines 85-86, 98-99) leaves that process running, against lines 71-72.
* Killing the watchdog (line 106) does not kill the `sleep` it waits for, which
  then runs on to its end, against line 105.

And some in the check loop and the workflow, where the properties hold in spite
of them or say what they except:

* A test that prints an ERROR line and a total counts as passed (`Makefile:246`).
* A `make check` that is killed between two tests leaves only OK lines and no
  summary: the job is red, and its artifact and the report say "passed". If the
  step dies too before it records its verdict, the job is not red either.
* Where there is neither `timeout` nor `gtimeout`, as on a plain macOS, a test
  that hangs hangs `make check` (`Makefile:233-235`).
* The exit status of a test is dropped (`Makefile:246-247`): what the address
  sanitizer reports after the total is printed, at the exit of a test, does not
  fail the sanitizers job.

## 6. Plan

In order; what is done is marked.

1. POSIX port and its refinement of one processor. *(done)*
2. Scheduling tests with the shared reporter. *(done)*
3. FreeRTOS memory pool and its refinement. *(done)*
4. Interrupt tests on all four ports. *(done, proved)*
5. `SingleWorker`: queue, semaphore and pool pairs, the order of initialisation.
   *(done)*
6. `QemuRun`. *(done, proved)*
7. `CheckLoop` and `CiReport`: check loop, CI collection and aggregation. *(done,
   proved)*
8. `TxPosixSem`: the port's mutex-and-condition semaphores, and that TxPosix may
   take them for atomic. *(done, proved)*
9. Proofs of `InterruptProcessing`, of the tolerance of the interrupt reports, of
   the runner and the check loop, and that nobody waits in vain in the POSIX port.
   *(done)*
10. `TxPosixSem`: that a pthread inside a semaphore goes on, as for TxPosix.

## 7. Not modelled

The reporting library's formatting of numbers (`tm_printf`) and its reading of
duration and cycles are sequential conversions of a value that nothing else
reads or writes meanwhile; the modules take the duration for arbitrary and the
cycles for a constant. What it does to control is modelled: the report loop in
every test, `tm_report_finish` and `tm_check_fail` in `CheckLoop`.

The port layers check the range of every identifier; no test passes a wrong one.
The preemption that the synthetic interrupt of ThreadX remembers
(`ports/threadx/tm_port.c:145`) is never raised by a test: the only service
called in a handler that runs inline is a put for which nobody waits. The
completion of thread delete and reset has no caller. The comparison of counters
and the pull request comment of the workflow decide no verdict, and its
sanitizers job has the verdict of `make check` itself.

Start-up code, vector table, linker script, semihosting output, configuration
and style scripts keep no state that interleaves. The kernels are not part of
the repository; what the ports use of them is modelled as external.
