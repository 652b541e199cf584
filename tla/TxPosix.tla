------------------------------- MODULE TxPosix -------------------------------
(***************************************************************************)
(* The ThreadX port for POSIX hosts (ports/threadx/posix-host).  A host    *)
(* with many processors runs one pthread per ThreadX thread, one pthread   *)
(* for the scheduler and one that plays the timer interrupt.  The port has *)
(* to make them behave like ONE processor with interrupts, out of a global *)
(* recursive mutex, three kinds of semaphore, two signals and two pipes.   *)
(*                                                                         *)
(*   pthread     program counter  runs                                     *)
(*   ----------  ---------------  ---------------------------------------- *)
(*   Sched       spc              _tx_thread_schedule                      *)
(*   Timer       tpc              _tx_posix_timer_interrupt                *)
(*   t \in Threads   pc[t]        application code and ThreadX services    *)
(*                                                                         *)
(* A critical section that waits for nothing while it holds the mutex is   *)
(* one step.  The ThreadX core is not in the repository: a service call is *)
(* reduced to what it does to the ready list and to _tx_thread_execute_ptr *)
(* (external).  All threads are created with TX_NO_TIME_SLICE, so the      *)
(* time-slice bookkeeping of the port never runs and is left out; so are   *)
(* thread delete and reset, which no program of the repository calls.      *)
(***************************************************************************)
EXTENDS Naturals, FiniteSets

CONSTANTS
    Threads,    \* the ThreadX threads
    Prio,       \* their priorities, 0 is the highest
    Sched,      \* the scheduler pthread
    Timer,      \* the timer-interrupt pthread
    None,       \* TX_NULL
    SemCap      \* where the count of the isr semaphore saturates

ASSUME PosixAssumption ==
    /\ Prio \in [Threads -> Nat]
    /\ Sched \notin Threads /\ Timer \notin Threads /\ None \notin Threads
    /\ Sched # Timer
    /\ SemCap \in Nat /\ SemCap > 0

Pthreads == Threads \cup {Sched, Timer}

VARIABLES
    \* Kernel state shared by all pthreads.
    current_ptr,      \* _tx_thread_current_ptr
    execute_ptr,      \* _tx_thread_execute_ptr
    ready,            \* the threads on the ready list
    asleep,           \* the threads a kernel timer will make ready
    preempt_disable,  \* _tx_thread_preempt_disable
    system_state,     \* _tx_thread_system_state
    suspension_type,  \* tx_thread_posix_suspension_type of each thread
    int_disabled,     \* tx_thread_posix_int_disabled_flag of each thread
    timer_waiting,    \* _tx_posix_timer_waiting
    \* Host objects.
    lock_count,       \* _tx_posix_mutex_lock_count of each pthread
    sched_sem,        \* _tx_posix_semaphore
    isr_sem,          \* _tx_posix_isr_semaphore
    run_sem,          \* tx_thread_posix_run_semaphore of each thread
    sig_suspend,      \* SUSPEND_SIG is pending for the pthread
    sig_resume,       \* RESUME_SIG is pending for the pthread
    in_handler,       \* the pthread is inside the suspend handler
    ack,              \* bytes in the ack pipe of the timer and of the others
    \* Control.
    spc, tpc, pc,
    full_period       \* the last nap of the timer was not cut short

kernelVars == <<current_ptr, execute_ptr, ready, asleep, preempt_disable,
                system_state, suspension_type, int_disabled, timer_waiting>>
sigVars    == <<sig_suspend, sig_resume, in_handler, ack>>
semVars    == <<sched_sem, isr_sem, run_sem>>
vars       == <<kernelVars, lock_count, semVars, sigVars,
                spc, tpc, pc, full_period>>

SchedPcs  == {"poll", "picked", "stop_ack", "start", "start_isr", "wait"}
TimerPcs  == {"nap", "save", "save_ack", "tick", "restore",
              "isr_wait", "isr_lock"}
ThreadPcs == {"start_wait", "start_post", "app", "critical", "window",
              "finishing", "after", "return", "return_drain", "return_post",
              "run_wait", "run_post", "relock"}

TypeOK ==
    /\ current_ptr \in Threads \cup {None}
    /\ execute_ptr \in Threads \cup {None}
    /\ ready \subseteq Threads
    /\ asleep \subseteq Threads
    /\ preempt_disable \in Nat
    /\ system_state \in Nat
    /\ suspension_type \in [Threads -> {0, 1}]
    /\ int_disabled \in [Threads -> BOOLEAN]
    /\ timer_waiting \in BOOLEAN
    /\ lock_count \in [Pthreads -> Nat]
    /\ sched_sem \in Nat
    /\ isr_sem \in 0 .. SemCap
    /\ run_sem \in [Threads -> Nat]
    /\ sig_suspend \in [Pthreads -> BOOLEAN]
    /\ sig_resume \in [Pthreads -> BOOLEAN]
    /\ in_handler \in [Pthreads -> BOOLEAN]
    /\ ack \in [{"timer", "other"} -> Nat]
    /\ spc \in SchedPcs
    /\ tpc \in TimerPcs
    /\ pc \in [Threads -> ThreadPcs]
    /\ full_period \in BOOLEAN

-----------------------------------------------------------------------------
(***************************************************************************)
(* The recursive mutex _tx_posix_mutex.  The owner is the one pthread with *)
(* a count above zero.                                                     *)
(***************************************************************************)
CanLock(p) == \A q \in Pthreads : q # p => lock_count[q] = 0

Locked(p, n) == lock_count' = [lock_count EXCEPT ![p] = n]

(***************************************************************************)
(* Signals.  _tx_posix_thread_suspend sends SUSPEND_SIG and then waits for *)
(* a byte in the pipe of the pthread's role; RESUME_SIG is blocked outside *)
(* the suspend handler and stays pending.                                  *)
(***************************************************************************)
SwappedRole(p) == IF p = Timer THEN "other" ELSE "timer"   \* mutant
Role(p) == IF p = Timer THEN "timer" ELSE "other"

SendSuspend(p) == sig_suspend' = [sig_suspend EXCEPT ![p] = TRUE]
SendResume(p)  == sig_resume'  = [sig_resume  EXCEPT ![p] = TRUE]

\* Mutant: a read that a signal interrupts is not retried.
TakeAckUnretried(r) ==
    ack' = [ack EXCEPT ![r] = IF @ > 0 THEN @ - 1 ELSE 0]

TakeAck(r) == /\ ack[r] > 0
              /\ ack' = [ack EXCEPT ![r] = @ - 1]

\* A pthread makes progress only outside the suspend handler.
Free(p) == ~in_handler[p]

SuspendHandlerEnter(p) ==
    /\ sig_suspend[p] /\ ~in_handler[p]
    /\ sig_suspend' = [sig_suspend EXCEPT ![p] = FALSE]
    /\ ack' = [ack EXCEPT ![Role(p)] = @ + 1]
    /\ in_handler' = [in_handler EXCEPT ![p] = TRUE]
    /\ UNCHANGED <<kernelVars, lock_count, semVars, sig_resume,
                   spc, tpc, pc, full_period>>

\* A signal that lands inside nanosleep ends it: the result is not looked at
\* and what is left of the period is not slept.
NapInterrupted(p) ==
    \/ /\ p = Timer /\ tpc = "nap"
       /\ tpc' = "save"
       /\ full_period' = FALSE
    \/ UNCHANGED <<tpc, full_period>>

SuspendHandlerLeave(p) ==
    /\ in_handler[p] /\ sig_resume[p]
    /\ sig_resume' = [sig_resume EXCEPT ![p] = FALSE]
    /\ in_handler' = [in_handler EXCEPT ![p] = FALSE]
    /\ NapInterrupted(p)
    /\ UNCHANGED <<kernelVars, lock_count, semVars, sig_suspend, ack, spc, pc>>

-----------------------------------------------------------------------------
(***************************************************************************)
(* The scheduler.                                                          *)
(***************************************************************************)
\* Waiting for the semaphore of the scheduler.
TryToken ==   \* mutant: the scheduler does not block
    sched_sem' = IF sched_sem > 0 THEN sched_sem - 1 ELSE 0
TakeToken == /\ sched_sem > 0
             /\ sched_sem' = sched_sem - 1

\* What the polling loop waits for.
RunnableInIsr == execute_ptr # None   \* mutant: an ISR may be active
Runnable == execute_ptr # None /\ system_state = 0

PickThread ==
    /\ spc = "poll"
    /\ CanLock(Sched)
    /\ Runnable
    /\ current_ptr' = execute_ptr
    /\ Locked(Sched, 1)
    /\ spc' = "picked"
    /\ UNCHANGED <<execute_ptr, ready, asleep, preempt_disable, system_state,
                   suspension_type, int_disabled, timer_waiting, semVars,
                   sigVars, tpc, pc, full_period>>

\* The thread was stopped by a signal: let its handler return.
ResumeByte(t) == suspension_type[t] = 1

DispatchBySignal ==
    /\ spc = "picked" /\ ResumeByte(current_ptr)
    /\ SendResume(current_ptr)
    /\ Locked(Sched, 0)
    /\ spc' = "wait"
    /\ UNCHANGED <<kernelVars, semVars, sig_suspend, in_handler, ack,
                   tpc, pc, full_period>>

\* The run semaphore is drained, then posted.
PostThenDrain(t) == run_sem' = [run_sem EXCEPT ![t] = 0]   \* mutant
DrainThenPost(t) == run_sem' = [run_sem EXCEPT ![t] = 1]

\* The thread waits on its run semaphore: drain and post it, then either the
\* timer is parked on the isr semaphore or it has to be stopped.
DispatchBySemaphore ==
    /\ spc = "picked" /\ ~ResumeByte(current_ptr)
    /\ DrainThenPost(current_ptr)
    /\ IF timer_waiting
       THEN /\ spc' = "start_isr"
            /\ UNCHANGED sig_suspend
       ELSE /\ SendSuspend(Timer)
            /\ spc' = "stop_ack"
    /\ UNCHANGED <<kernelVars, lock_count, sched_sem, isr_sem, sig_resume,
                   in_handler, ack, tpc, pc, full_period>>

TimerStopped ==
    /\ spc = "stop_ack"
    /\ TakeAck("timer")
    /\ spc' = "start"
    /\ UNCHANGED <<kernelVars, lock_count, semVars, sig_suspend, sig_resume,
                   in_handler, tpc, pc, full_period>>

\* The thread has confirmed that it runs: let the timer go on.
ThreadStarted ==
    /\ spc = "start"
    /\ TakeToken
    /\ SendResume(Timer)
    /\ Locked(Sched, 0)
    /\ spc' = "wait"
    /\ UNCHANGED <<kernelVars, isr_sem, run_sem, sig_suspend, in_handler, ack,
                   tpc, pc, full_period>>

ThreadStartedInIsr ==
    /\ spc = "start_isr"
    /\ TakeToken
    /\ isr_sem' = IF isr_sem < SemCap THEN isr_sem + 1 ELSE isr_sem
    /\ Locked(Sched, 0)
    /\ spc' = "wait"
    /\ UNCHANGED <<kernelVars, run_sem, sigVars, tpc, pc, full_period>>

SchedWakes ==
    /\ spc = "wait"
    /\ TakeToken
    /\ spc' = "poll"
    /\ UNCHANGED <<kernelVars, lock_count, isr_sem, run_sem, sigVars,
                   tpc, pc, full_period>>

SchedNext == \/ PickThread \/ DispatchBySignal \/ DispatchBySemaphore
             \/ TimerStopped \/ ThreadStarted \/ ThreadStartedInIsr
             \/ SchedWakes

-----------------------------------------------------------------------------
(***************************************************************************)
(* The ThreadX core (external): the ready list and its highest thread.     *)
(***************************************************************************)
Highest(S) == {t \in S : \A u \in S : Prio[t] <= Prio[u]}

\* t joins the list: it is chosen only when it is of higher priority.
Readied(t) ==
    /\ ready' = ready \cup {t}
    /\ execute_ptr' = IF execute_ptr = None \/ Prio[t] < Prio[execute_ptr]
                      THEN t ELSE execute_ptr

\* t leaves the list: the next one is any of the highest that remain.
Blocked(t) ==
    /\ ready' = ready \ {t}
    /\ IF execute_ptr # t THEN UNCHANGED execute_ptr
       ELSE IF ready = {t} THEN execute_ptr' = None
       ELSE execute_ptr' \in Highest(ready \ {t})

\* tx_thread_relinquish: another ready thread of the same priority, if any.
Relinquished(t) ==
    /\ execute_ptr = t
    /\ \E u \in Highest(ready) \ {t} : execute_ptr' = u
    /\ UNCHANGED ready

-----------------------------------------------------------------------------
(***************************************************************************)
(* The timer interrupt.                                                    *)
(***************************************************************************)
NapEnds ==
    /\ tpc = "nap" /\ Free(Timer)
    /\ tpc' = "save"
    /\ full_period' = TRUE
    /\ UNCHANGED <<kernelVars, lock_count, semVars, sigVars, spc, pc>>

\* _tx_thread_context_save has a running thread to stop.
MustStopNested == current_ptr # None /\ system_state # 0   \* mutant
MustStop == current_ptr # None /\ system_state = 0

NotCounted == UNCHANGED system_state   \* mutant
EnterIsr   == system_state' = system_state + 1
LeaveIsr   == system_state' = system_state - 1

ContextSaveIdle ==
    /\ tpc = "save" /\ Free(Timer) /\ CanLock(Timer)
    /\ ~MustStop
    /\ EnterIsr
    /\ tpc' = "tick"
    /\ UNCHANGED <<current_ptr, execute_ptr, ready, asleep, preempt_disable,
                   suspension_type, int_disabled, timer_waiting, lock_count,
                   semVars, sigVars, spc, pc, full_period>>

ContextSaveStop ==
    /\ tpc = "save" /\ Free(Timer) /\ CanLock(Timer)
    /\ MustStop
    /\ SendSuspend(current_ptr)
    /\ Locked(Timer, 1)
    /\ tpc' = "save_ack"
    /\ UNCHANGED <<kernelVars, semVars, sig_resume, in_handler, ack,
                   spc, pc, full_period>>

ContextSaveStopped ==
    /\ tpc = "save_ack" /\ Free(Timer)
    /\ TakeAck("other")
    /\ suspension_type' = [suspension_type EXCEPT ![current_ptr] = 1]
    /\ EnterIsr
    /\ Locked(Timer, 0)
    /\ tpc' = "tick"
    /\ UNCHANGED <<current_ptr, execute_ptr, ready, asleep, preempt_disable,
                   int_disabled, timer_waiting, semVars, sig_suspend,
                   sig_resume, in_handler, spc, pc, full_period>>

\* No kernel timer expires: the clock advances and the mutex is released.
TickQuiet ==
    /\ tpc = "tick" /\ Free(Timer) /\ CanLock(Timer)
    /\ tpc' = "restore"
    /\ UNCHANGED <<kernelVars, lock_count, semVars, sigVars, spc, pc,
                   full_period>>

\* A kernel timer expires.  The services of the core disable and restore
\* interrupts inside the locked region, each adding a lock, and the single
\* unlock at the end of _tx_timer_interrupt leaves the mutex held.
TickExpires(t) ==
    /\ tpc = "tick" /\ Free(Timer) /\ CanLock(Timer)
    /\ t \in asleep
    /\ asleep' = asleep \ {t}
    /\ Readied(t)
    /\ Locked(Timer, 2)
    /\ tpc' = "restore"
    /\ UNCHANGED <<current_ptr, preempt_disable, system_state, suspension_type,
                   int_disabled, timer_waiting, semVars, sigVars, spc, pc,
                   full_period>>

Restoring == tpc = "restore" /\ Free(Timer) /\ CanLock(Timer)

\* Should the interrupted thread give way to another one?
PreemptsAlways == current_ptr # execute_ptr   \* mutant: flag not tested
PreemptsNever  == FALSE                       \* mutant
Preempts == preempt_disable = 0 /\ current_ptr # execute_ptr

ContextRestoreIdle ==
    /\ Restoring /\ current_ptr = None
    /\ LeaveIsr
    /\ Locked(Timer, 0)
    /\ tpc' = "nap"
    /\ UNCHANGED <<current_ptr, execute_ptr, ready, asleep, preempt_disable,
                   suspension_type, int_disabled, timer_waiting, semVars,
                   sigVars, spc, pc, full_period>>

ContextRestoreResume ==
    /\ Restoring /\ current_ptr # None /\ ~Preempts
    /\ LeaveIsr
    /\ SendResume(current_ptr)
    /\ Locked(Timer, 0)
    /\ tpc' = "nap"
    /\ UNCHANGED <<current_ptr, execute_ptr, ready, asleep, preempt_disable,
                   suspension_type, int_disabled, timer_waiting, semVars,
                   sig_suspend, in_handler, ack, spc, pc, full_period>>

\* The next thread waits on its run semaphore, so the scheduler will expect
\* the timer to be parked on the isr semaphore.
TimerAlwaysParks == execute_ptr # None   \* mutant: byte not tested
TimerParks == execute_ptr # None /\ suspension_type[execute_ptr] = 0

ContextRestorePreempt ==
    /\ Restoring /\ current_ptr # None /\ Preempts
    /\ LeaveIsr
    /\ suspension_type' = [suspension_type EXCEPT ![current_ptr] = 1]
    /\ current_ptr' = None
    /\ sched_sem' = 1
    /\ timer_waiting' = TimerParks
    /\ tpc' = IF TimerParks THEN "isr_wait" ELSE "nap"
    /\ Locked(Timer, 0)
    /\ UNCHANGED <<execute_ptr, ready, asleep, preempt_disable, int_disabled,
                   isr_sem, run_sem, sigVars, spc, pc, full_period>>

IsrWakes ==
    /\ tpc = "isr_wait" /\ Free(Timer)
    /\ isr_sem > 0
    /\ isr_sem' = isr_sem - 1
    /\ tpc' = "isr_lock"
    /\ UNCHANGED <<kernelVars, lock_count, sched_sem, run_sem, sigVars,
                   spc, pc, full_period>>

IsrLeaves ==
    /\ tpc = "isr_lock" /\ Free(Timer) /\ CanLock(Timer)
    /\ isr_sem' = 0
    /\ timer_waiting' = FALSE
    /\ tpc' = "nap"
    /\ UNCHANGED <<current_ptr, execute_ptr, ready, asleep, preempt_disable,
                   system_state, suspension_type, int_disabled, lock_count,
                   sched_sem, run_sem, sigVars, spc, pc, full_period>>

TimerNext ==
    \/ NapEnds
    \/ ContextSaveIdle \/ ContextSaveStop \/ ContextSaveStopped
    \/ TickQuiet
    \/ \E t \in Threads : TickExpires(t)
    \/ ContextRestoreIdle \/ ContextRestoreResume \/ ContextRestorePreempt
    \/ IsrWakes \/ IsrLeaves

-----------------------------------------------------------------------------
(***************************************************************************)
(* A ThreadX thread.                                                       *)
(***************************************************************************)
Goto(t, from, to) == /\ pc[t] = from /\ Free(t)
                     /\ pc' = [pc EXCEPT ![t] = to]

\* The pthread entry and the first dispatch.
ThreadEntry(t) ==
    /\ Goto(t, "start_wait", "start_post")
    /\ run_sem[t] > 0
    /\ run_sem' = [run_sem EXCEPT ![t] = @ - 1]
    /\ UNCHANGED <<kernelVars, lock_count, sched_sem, isr_sem, sigVars,
                   spc, tpc, full_period>>

ThreadConfirms(t) ==
    /\ \/ Goto(t, "start_post", "app")
       \/ Goto(t, "run_post", "relock")
    /\ sched_sem' = sched_sem + 1
    /\ UNCHANGED <<kernelVars, lock_count, isr_sem, run_sem, sigVars,
                   spc, tpc, full_period>>

\* "Detect terminated thread still running for cleanup": a pthread that finds
\* this true at one of the three checks exits.  No program of the repository
\* terminates a thread, so no action is given for the exit; NoSpuriousExit
\* below says that a check that is reached never finds it true.
Orphan(t) == current_ptr = None \/ current_ptr # t

\* _tx_thread_interrupt_control keeps the lock when it disables; the posture
\* it returns tells a nested caller that interrupts were disabled already.
PostureNotNested(n) == "enable"   \* mutant
Posture(n) == IF n = 1 THEN "enable" ELSE "disable"

\* What restoring a posture leaves of n locks, one more having been taken.
AfterRestore(posture, n) == IF posture = "enable" THEN 0 ELSE n + 1

\* A service starts: TX_DISABLE, from application code or to close the window
\* that a service opens in which it may be interrupted but not preempted.
DisableInterrupts(t) ==
    /\ \/ /\ Goto(t, "app", "critical")
          /\ UNCHANGED preempt_disable
       \/ /\ Goto(t, "window", "finishing")
          /\ preempt_disable' = preempt_disable - 1
    /\ CanLock(t) /\ ~Orphan(t)
    /\ Locked(t, lock_count[t] + 1)
    /\ int_disabled' = [int_disabled EXCEPT ![t] = TRUE]
    /\ UNCHANGED <<current_ptr, execute_ptr, ready, asleep, system_state,
                   suspension_type, timer_waiting, semVars, sigVars,
                   spc, tpc, full_period>>

\* A service called inside another one disables and restores once more.
NestedDisableRestore(t) ==
    /\ \/ Goto(t, "critical", "critical") \/ Goto(t, "finishing", "finishing")
    /\ lock_count[t] = 1
    /\ LET n == lock_count[t] + 1
       IN  Locked(t, AfterRestore(Posture(n), n))
    /\ UNCHANGED <<kernelVars, semVars, sigVars, spc, tpc, full_period>>

EnableInterrupts(t) ==
    /\ Locked(t, AfterRestore(Posture(1), lock_count[t]))
    /\ int_disabled' = [int_disabled EXCEPT ![t] = FALSE]

\* The service opens that window.
OpenWindow(t) ==
    /\ Goto(t, "critical", "window")
    /\ preempt_disable' = preempt_disable + 1
    /\ EnableInterrupts(t)
    /\ UNCHANGED <<current_ptr, execute_ptr, ready, asleep, system_state,
                   suspension_type, timer_waiting, semVars, sigVars,
                   spc, tpc, full_period>>

\* The service changes the ready list, or not, and restores interrupts.
ServiceEffect(t) ==
    \/ /\ Blocked(t)                            \* tx_thread_suspend(self)
       /\ UNCHANGED asleep
    \/ /\ Blocked(t)                            \* tx_thread_sleep
       /\ asleep' = asleep \cup {t}
    \/ \E u \in Threads \ (ready \cup asleep) : \* tx_thread_resume(u)
          /\ Readied(u)
          /\ UNCHANGED asleep
    \/ /\ Relinquished(t)                       \* tx_thread_relinquish
       /\ UNCHANGED asleep
    \/ UNCHANGED <<execute_ptr, ready, asleep>> \* any other service

Service(t) ==
    /\ \/ Goto(t, "critical", "after") \/ Goto(t, "finishing", "after")
    /\ ServiceEffect(t)
    /\ EnableInterrupts(t)
    /\ UNCHANGED <<current_ptr, preempt_disable, system_state, suspension_type,
                   timer_waiting, semVars, sigVars, spc, tpc, full_period>>

\* The preemption check at the end of a service.
ServiceReturns(t) ==
    /\ Goto(t, "after", "app")
    /\ execute_ptr = t
    /\ UNCHANGED <<kernelVars, lock_count, semVars, sigVars,
                   spc, tpc, full_period>>

ServiceYields(t) ==
    /\ Goto(t, "after", "return")
    /\ UNCHANGED <<kernelVars, lock_count, semVars, sigVars,
                   spc, tpc, full_period>>

\* The thread is about to wait on its semaphore, not in a handler.
ByteNotCleared(t) == UNCHANGED suspension_type   \* mutant
ClearByte(t) == suspension_type' = [suspension_type EXCEPT ![t] = 0]

\* _tx_thread_system_return, up to the wait for the next dispatch.
SystemReturn(t) ==
    /\ Goto(t, "return", "return_drain")
    /\ CanLock(t) /\ ~Orphan(t)
    /\ ClearByte(t)
    /\ current_ptr' = None
    /\ Locked(t, 0)
    /\ UNCHANGED <<execute_ptr, ready, asleep, preempt_disable, system_state,
                   int_disabled, timer_waiting, semVars, sigVars,
                   spc, tpc, full_period>>

DrainScheduler(t) ==
    /\ Goto(t, "return_drain", "return_post")
    /\ sched_sem' = 0
    /\ UNCHANGED <<kernelVars, lock_count, isr_sem, run_sem, sigVars,
                   spc, tpc, full_period>>

PostScheduler(t) ==
    /\ Goto(t, "return_post", "run_wait")
    /\ CanLock(t)
    /\ sched_sem' = sched_sem + 1
    /\ UNCHANGED <<kernelVars, lock_count, isr_sem, run_sem, sigVars,
                   spc, tpc, full_period>>

RunWait(t) ==
    /\ Goto(t, "run_wait", "run_post")
    /\ run_sem[t] > 0
    /\ run_sem' = [run_sem EXCEPT ![t] = @ - 1]
    /\ UNCHANGED <<kernelVars, lock_count, sched_sem, isr_sem, sigVars,
                   spc, tpc, full_period>>

\* The mutex stays locked when interrupts were disabled.
Relock(t) ==
    /\ Goto(t, "relock", "app")
    /\ CanLock(t) /\ ~Orphan(t)
    /\ Locked(t, IF int_disabled[t] THEN 1 ELSE 0)
    /\ UNCHANGED <<kernelVars, semVars, sigVars, spc, tpc, full_period>>

ThreadNext(t) ==
    \/ ThreadEntry(t) \/ ThreadConfirms(t)
    \/ DisableInterrupts(t) \/ NestedDisableRestore(t) \/ OpenWindow(t)
    \/ Service(t) \/ ServiceReturns(t) \/ ServiceYields(t)
    \/ SystemReturn(t) \/ DrainScheduler(t) \/ PostScheduler(t)
    \/ RunWait(t) \/ Relock(t)

-----------------------------------------------------------------------------
(***************************************************************************)
(* The application has created its threads and resumed some; the kernel    *)
(* starts interrupts and enters the scheduler loop.                        *)
(***************************************************************************)
Init ==
    /\ ready \in SUBSET Threads
    /\ execute_ptr \in (IF ready = {} THEN {None} ELSE Highest(ready))
    /\ asleep = {}
    /\ current_ptr = None
    /\ preempt_disable = 0
    /\ system_state = 0
    /\ suspension_type = [t \in Threads |-> 0]
    /\ int_disabled = [t \in Threads |-> FALSE]
    /\ timer_waiting = FALSE
    /\ lock_count = [p \in Pthreads |-> 0]
    /\ sched_sem = 0
    /\ isr_sem = 0
    /\ run_sem = [t \in Threads |-> 0]
    /\ sig_suspend = [p \in Pthreads |-> FALSE]
    /\ sig_resume = [p \in Pthreads |-> FALSE]
    /\ in_handler = [p \in Pthreads |-> FALSE]
    /\ ack = [r \in {"timer", "other"} |-> 0]
    /\ spc = "poll"
    /\ tpc = "nap"
    /\ pc = [t \in Threads |-> "start_wait"]
    /\ full_period = TRUE

Next == \/ SchedNext
        \/ TimerNext
        \/ \E t \in Threads : ThreadNext(t)
        \/ \E p \in Pthreads : SuspendHandlerEnter(p) \/ SuspendHandlerLeave(p)

Spec == Init /\ [][Next]_vars

(***************************************************************************)
(* Fairness.  A pthread that can go on does (weak); one that waits for the *)
(* mutex gets it if it is free again and again (strong): the port gives    *)
(* its pthreads SCHED_FIFO priorities, scheduler above timer above thread. *)
(* Nothing is assumed of a thread in application code, which may compute   *)
(* for ever without calling a service, nor that a sleep ever ends.         *)
(***************************************************************************)
Proceeds(t) == pc[t] # "app" /\ ThreadNext(t)

Signals == \E p \in Pthreads : SuspendHandlerEnter(p) \/ SuspendHandlerLeave(p)

Fairness ==
    /\ SF_vars(SchedNext)
    /\ SF_vars(TimerNext)
    /\ SF_vars(\E t \in Threads : Proceeds(t))
    /\ WF_vars(Signals)

FairSpec == Spec /\ Fairness

\* A pthread that was sent RESUME_SIG leaves its handler soon: before a full
\* period of the timer (10 ms) has passed, and, if it is the timer, which has
\* priority over the threads, before these bring about the next dispatch.
HandlerLeavesSoon ==
    /\ tpc = "nap" /\ tpc' = "save" /\ full_period' =>
          \A t \in Threads : ~(in_handler[t] /\ sig_resume[t])
    /\ spc = "poll" /\ spc' = "picked" => ~sig_resume[Timer]

Timely == <>[][HandlerLeavesSoon]_vars

-----------------------------------------------------------------------------
(***************************************************************************)
(* Properties.                                                             *)
(***************************************************************************)
\* t's pthread executes instructions of its own, not parked anywhere.
Executing(t) == /\ pc[t] \notin {"start_wait", "run_wait"}
                /\ Free(t)

\* t's pthread executes application or kernel code.
Live(t) == /\ pc[t] \in {"app", "critical", "window", "finishing", "after",
                        "return"}
           /\ Free(t)

InIsr == tpc \in {"tick", "restore"}

\* However signals, wake-ups and lock hand-overs interleave, the pthreads of
\* two ThreadX threads never execute together, not even in the code with
\* which one leaves the processor and the next one enters it.
OneThreadAtATime ==
    \A t, u \in Threads : Executing(t) /\ Executing(u) => t = u

\* From the return of _tx_thread_context_save to _tx_thread_context_restore
\* no thread executes code: the interrupt sees the kernel at rest.
NoThreadDuringIsr == InIsr => \A t \in Threads : ~Live(t)

\* The three "terminated thread still running" checks, which exit the pthread,
\* never hit a thread that is alive: none of these programs terminates one.
NoSpuriousExit ==
    \A t \in Threads :
        /\ pc[t] \in {"app", "window", "return", "relock"}
        /\ Free(t) /\ CanLock(t)
        => ~Orphan(t)

\* Every ack byte belongs to the suspend request that is being waited for:
\* a byte nobody asked for would let a later request return before its
\* target has stopped.
AckPairing ==
    /\ \A r \in {"timer", "other"} : ack[r] <= 1
    /\ ack["timer"] > 0 => /\ spc = "stop_ack"
                           /\ in_handler[Timer] /\ ~sig_resume[Timer]
    /\ ack["other"] > 0 => /\ tpc = "save_ack"
                           /\ in_handler[current_ptr] /\ ~sig_resume[current_ptr]

\* RESUME_SIG is only sent to a pthread that is stopped.  Left pending on one
\* that runs, it would undo the next suspension.
NoStaleResume == \A p \in Pthreads : sig_resume[p] => in_handler[p]

\* The scheduler wakes a thread the way the thread went to sleep: by signal
\* if the suspend handler holds it, else by its run semaphore.
WakeMatchesBlock ==
    spc = "picked" =>
        IF ResumeByte(current_ptr)
        THEN in_handler[current_ptr]
        ELSE /\ ~in_handler[current_ptr]
             /\ pc[current_ptr] \in {"start_wait", "run_wait"}

\* One hand-over, one token: a token left in _tx_posix_semaphore would make
\* the scheduler take a thread for started, or for gone, when it is not.
NoStaleToken ==
    /\ sched_sem <= 1
    /\ spc \in {"poll", "picked"} => sched_sem = 0
    /\ spc = "stop_ack" /\ sched_sem = 1 => run_sem[current_ptr] = 0
    /\ spc = "poll" => current_ptr = None

\* Interrupts are enabled in application code and disabled in the services,
\* nested calls included.
PostureRestored ==
    \A t \in Threads :
        /\ pc[t] \in {"critical", "finishing"} => lock_count[t] > 0
        /\ pc[t] \in {"app", "window", "after", "run_wait"} => lock_count[t] = 0

\* Only the running thread gives the processor up or loses it to a thread of
\* higher priority, and never between the two halves of a service.
PreemptionRespected ==
    [][\A t \in Threads :
        current_ptr = t /\ current_ptr' = None =>
            \/ pc[t] = "return" /\ pc'[t] = "return_drain"
            \/ preempt_disable = 0 /\ execute_ptr # t /\ in_handler[t]]_vars

\* The pthreads together implement one processor with interrupts.
Processor == {t \in Threads : Live(t)} \cup {i \in {Timer} : InIsr}

Cpu == INSTANCE OneCpu WITH
           Isr     <- Timer,
           running <- Processor,
           top     <- execute_ptr,
           held    <- preempt_disable > 0

ImplementsOneCpu == Cpu!CpuSpec

\* The hand-shake of a dispatch, done with the mutex held, always completes.
DispatchCompletes == []<>(spc \in {"poll", "wait"})

\* From some time on signals are handled in time: then the interrupt is never
\* locked out, and time goes on.
TimerKeepsTicking == Timely => []<>(tpc = "tick")

\* Then too a selected thread gets to execute unless another one is selected.
SelectedRuns ==
    Timely => \A t \in Threads : []<>(Live(t) \/ execute_ptr # t)

\* A tick stands for a full period of the timer: tm_thread_sleep suspends
\* "for the specified number of seconds", counted in ticks.
TickIsAPeriod == tpc = "tick" => full_period
=============================================================================
