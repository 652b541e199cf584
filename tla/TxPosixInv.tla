----------------------------- MODULE TxPosixInv -----------------------------
(***************************************************************************)
(* The inductive invariant of TxPosix.                                     *)
(*                                                                         *)
(* The safety properties of TxPosix are not inductive: that two threads do *)
(* not execute together rests on where the third party, the scheduler,     *)
(* stands, on which signals are pending and on which tokens the semaphores *)
(* hold.  IInv says it all: who owns the mutex, how every thread that is   *)
(* not the current one is parked, and, for every place where the scheduler *)
(* and the timer can be, in what state they have put the current one.      *)
(***************************************************************************)
EXTENDS TxPosix

DispatchPcs == {"stop_ack", "start", "start_isr"}

\* Where an interrupt can stop a thread.
StopPcs == {"app", "window", "after", "return", "relock"}

OnCpuPcs == StopPcs \cup {"critical", "finishing"}

\* The mutex is held exactly in these places, and by one pthread.
LockInv ==
    /\ lock_count[Sched] =
           (IF spc \in DispatchPcs \cup {"picked"} THEN 1 ELSE 0)
    /\ tpc = "save_ack" => lock_count[Timer] > 0
    /\ lock_count[Timer] > 0 => tpc \in {"save_ack", "restore"}
    /\ \A t \in Threads :
          /\ lock_count[t] > 0 <=> pc[t] \in {"critical", "finishing"}
          /\ int_disabled[t] => lock_count[t] > 0
    /\ \A p, q \in Pthreads : p # q => lock_count[p] = 0 \/ lock_count[q] = 0

\* An interrupt is in progress, and then no dispatch is.
IsrInv ==
    /\ system_state = (IF InIsr THEN 1 ELSE 0)
    /\ InIsr => spc \in {"poll", "wait"}
    /\ tpc = "save_ack" => spc = "wait" /\ current_ptr # None

\* The three ways in which a thread that is not current is parked.
NoSignal(p) == ~sig_suspend[p] /\ ~sig_resume[p]

Stopped(t) == /\ in_handler[t] /\ NoSignal(t)
              /\ suspension_type[t] = 1
              /\ pc[t] \in StopPcs

Waiting(t) == /\ ~in_handler[t] /\ NoSignal(t)
              /\ suspension_type[t] = 0
              /\ pc[t] \in {"start_wait", "run_wait"}

Leaving(t) == /\ ~in_handler[t] /\ NoSignal(t)
              /\ suspension_type[t] = 0
              /\ pc[t] \in {"return_drain", "return_post"}

OffCpuInv ==
    \A t \in Threads : t # current_ptr =>
        /\ run_sem[t] = 0
        /\ Stopped(t) \/ Waiting(t) \/ Leaving(t)

\* One thread at most is on its way out, and no thread is current meanwhile.
LeavingInv ==
    \A t \in Threads : pc[t] \in {"return_drain", "return_post"} =>
        /\ current_ptr = None /\ spc = "wait" /\ sched_sem = 0
        /\ \A u \in Threads :
              pc[u] \in {"return_drain", "return_post"} => u = t

\* The state of the current thread t in a dispatch by semaphore.
Dispatched(t) ==
    /\ ~in_handler[t] /\ NoSignal(t)
    /\ \/ pc[t] \in {"start_wait", "run_wait"} /\ run_sem[t] = 1 /\ sched_sem = 0
       \/ pc[t] \in {"start_post", "run_post"} /\ run_sem[t] = 0 /\ sched_sem = 0
       \/ pc[t] \in {"app", "relock"}          /\ run_sem[t] = 0 /\ sched_sem = 1

\* A pending resume and a handler to leave come together.
Resumable(p) == ~sig_suspend[p] /\ (sig_resume[p] <=> in_handler[p])

\* A suspend request to p is under way: the signal is pending or p has stopped
\* and its byte n is in the pipe.
Suspending(p, n) ==
    \/ n = 0 /\ sig_suspend[p] /\ (sig_resume[p] <=> in_handler[p])
    \/ n = 1 /\ in_handler[p] /\ NoSignal(p)

\* The state of the current thread t once it has the processor.
OnCpu(t) ==
    /\ pc[t] \in OnCpuPcs
    /\ run_sem[t] = 0 /\ sched_sem = 0
    /\ IF tpc = "save_ack" THEN Suspending(t, ack["other"])
       ELSE IF InIsr THEN Stopped(t) ELSE Resumable(t)

SchedInv ==
    /\ sched_sem <= 1
    /\ spc = "poll" => current_ptr = None /\ sched_sem = 0
    /\ spc = "picked" => /\ current_ptr # None /\ sched_sem = 0
                         /\ run_sem[current_ptr] = 0
                         /\ Stopped(current_ptr) \/ Waiting(current_ptr)
    /\ spc \in DispatchPcs => current_ptr # None /\ Dispatched(current_ptr)
    /\ spc = "wait" /\ current_ptr # None => OnCpu(current_ptr)

\* Ack bytes and the signals of the timer.
AckInv ==
    /\ tpc # "save_ack" => ack["other"] = 0
    /\ IF spc = "stop_ack" THEN Suspending(Timer, ack["timer"])
       ELSE /\ ack["timer"] = 0
            /\ IF spc = "start" THEN in_handler[Timer] /\ NoSignal(Timer)
               ELSE Resumable(Timer)
    /\ ~in_handler[Sched] /\ NoSignal(Sched)

\* Preemption is disabled by the one thread in its window, which is current.
WindowInv ==
    /\ preempt_disable = (IF \E t \in Threads : pc[t] = "window" THEN 1 ELSE 0)
    /\ \A t \in Threads : pc[t] = "window" => current_ptr = t

\* The current thread is the selected one where it (re)enters the processor.
SelectionInv ==
    /\ spc \in DispatchPcs \cup {"picked"} => execute_ptr = current_ptr
    /\ current_ptr # None =>
          /\ sig_resume[current_ptr] =>
                execute_ptr = current_ptr \/ preempt_disable > 0
          /\ pc[current_ptr] = "relock" /\ ~InIsr => execute_ptr = current_ptr

IInv == /\ TypeOK /\ LockInv /\ IsrInv /\ OffCpuInv /\ LeavingInv
        /\ SchedInv /\ AckInv /\ WindowInv /\ SelectionInv

-----------------------------------------------------------------------------
(***************************************************************************)
(* That nobody waits in vain                                               *)
(***************************************************************************)
\* The timer parks on the isr semaphore only where a post is on its way: the
\* scheduler has been told, and the thread it is going to pick waits on its
\* run semaphore.  No post is left for a timer that does not wait.
ParkInv ==
    /\ timer_waiting <=> tpc \in {"isr_wait", "isr_lock"}
    /\ isr_sem > 0 \/ spc = "start_isr" => timer_waiting
    /\ tpc = "isr_wait" /\ isr_sem = 0 =>
          /\ execute_ptr # None /\ suspension_type[execute_ptr] = 0
          /\ \/ spc \in {"poll", "picked", "start_isr"}
             \/ spc = "wait" /\ current_ptr = None /\ sched_sem = 1

\* A processor given up is handed over: the scheduler has its token, or a
\* thread on its way out is going to post it.
HandOverInv ==
    spc = "wait" /\ current_ptr = None /\ sched_sem = 0 =>
        \E t \in Threads : pc[t] \in {"return_drain", "return_post"}

\* What lets a pthread go on where it stands: the guards of its actions.
SchedGoesOn ==
    \/ spc = "poll" /\ CanLock(Sched) /\ Runnable
    \/ spc = "picked"
    \/ spc = "stop_ack" /\ ack["timer"] > 0
    \/ spc \in {"start", "start_isr", "wait"} /\ sched_sem > 0

TimerGoesOn ==
    /\ Free(Timer)
    /\ \/ tpc = "nap"
       \/ tpc \in {"save", "tick", "restore", "isr_lock"} /\ CanLock(Timer)
       \/ tpc = "save_ack" /\ ack["other"] > 0
       \/ tpc = "isr_wait" /\ isr_sem > 0

ThreadGoesOn(t) ==
    /\ Free(t)
    /\ \/ pc[t] \in {"start_wait", "run_wait"} /\ run_sem[t] > 0
       \/ pc[t] \in {"app", "window", "return", "relock"} /\ CanLock(t)
                                                         /\ ~Orphan(t)
       \/ pc[t] = "return_post" /\ CanLock(t)
       \/ pc[t] \in {"start_post", "run_post", "critical", "finishing",
                     "after", "return_drain"}

SignalGoesOn(p) ==
    IF in_handler[p] THEN sig_resume[p] ELSE sig_suspend[p]

\* Of the pthreads that stop, dispatch and wait for one another, one can always
\* go on, and the end of the timer's nap does not count as that, unless there
\* is nothing to do: no thread is selected and the timer naps.
NobodyIsStuck ==
    \/ execute_ptr = None /\ tpc = "nap"
    \/ SchedGoesOn
    \/ TimerGoesOn /\ tpc # "nap"
    \/ \E t \in Threads : ThreadGoesOn(t)
    \/ \E p \in Pthreads : SignalGoesOn(p)

\* Who holds the mutex can go on, or waits for one who can: the scheduler for
\* the byte of the timer or for the thread that it starts, the timer for the
\* byte of the current thread.
HolderGoesOn ==
    /\ lock_count[Sched] > 0 =>
          SchedGoesOn \/ SignalGoesOn(Timer) \/ ThreadGoesOn(current_ptr)
    /\ lock_count[Timer] > 0 =>
          TimerGoesOn \/ SignalGoesOn(Timer) \/ SignalGoesOn(current_ptr)
    /\ \A t \in Threads : lock_count[t] > 0 =>
          ThreadGoesOn(t) \/ SignalGoesOn(t)
=============================================================================
