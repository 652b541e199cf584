---------------------------- MODULE TxPosixProof ----------------------------
(***************************************************************************)
(* Proofs about TxPosix, for any number of threads and any priorities.     *)
(* IInv, of module TxPosixInv, is inductive; the safety properties of      *)
(* TxPosix follow from it.  The second part is about TxPosixSem: with its  *)
(* semaphores in steps it implements TxPosix, and SemInv is inductive.     *)
(***************************************************************************)
EXTENDS TxPosixSem, TLAPS

\* The kernel starts with every pthread parked and no token or signal about.
LEMMA InitIInv == Init => IInv
<1> SUFFICES ASSUME Init PROVE IInv
  OBVIOUS
<1> USE PosixAssumption DEF Init, Pthreads
<1>1. TypeOK
  <2>1. execute_ptr \in Threads \cup {None} /\ ready \subseteq Threads
    BY DEF Highest
  <2>2. isr_sem \in 0 .. SemCap
    BY 0 \in 0 .. SemCap
  <2> QED
    BY <2>1, <2>2 DEF TypeOK, SchedPcs, TimerPcs, ThreadPcs
<1>2. LockInv /\ IsrInv /\ LeavingInv /\ WindowInv
  BY DEF LockInv, IsrInv, InIsr, LeavingInv, WindowInv, DispatchPcs
<1>3. OffCpuInv
  BY DEF OffCpuInv, Waiting, NoSignal
<1>4. SchedInv /\ AckInv
  BY DEF SchedInv, AckInv, Resumable, NoSignal, DispatchPcs
<1>5. SelectionInv
  BY DEF SelectionInv, DispatchPcs
<1> QED
  BY <1>1, <1>2, <1>3, <1>4, <1>5 DEF IInv

\* Every step of the scheduler, the timer, a thread or a signal handler keeps
\* the invariant.
LEMMA NextIInv ==
    ASSUME IInv, [Next]_vars PROVE IInv'
<1> USE PosixAssumption
    DEF IInv, TypeOK, LockInv, IsrInv, OffCpuInv, LeavingInv, SchedInv,
        AckInv, WindowInv, SelectionInv, Pthreads, SchedPcs, TimerPcs, ThreadPcs,
        DispatchPcs, StopPcs, OnCpuPcs, NoSignal, Stopped, Waiting, Leaving,
        Dispatched, Resumable, Suspending, OnCpu, InIsr
  \* The one place where a thread becomes current: it was parked before.
<1>1. CASE PickThread
  BY <1>1 DEF PickThread, Runnable, CanLock, Locked, kernelVars, semVars,
     sigVars
  \* No interrupt is in progress, so the handler that is left is not stopped again.
<1>2. CASE DispatchBySignal
  BY <1>2 DEF DispatchBySignal, ResumeByte, SendResume, Locked, kernelVars,
     semVars, sigVars
<1>3. CASE DispatchBySemaphore
  <2>1. TypeOK'
    <3> HIDE DEF LockInv, IsrInv, OffCpuInv, LeavingInv, SchedInv, AckInv,
                 WindowInv, SelectionInv
    <3>1. run_sem' \in [Threads -> Nat] /\ spc' \in SchedPcs
      BY <1>3 DEF DispatchBySemaphore, DrainThenPost
    <3>2. sig_suspend' \in [Pthreads -> BOOLEAN]
      BY <1>3 DEF DispatchBySemaphore, SendSuspend
    <3>3. UNCHANGED <<kernelVars, lock_count, sched_sem, isr_sem, sig_resume,
                      in_handler, ack, tpc, pc, full_period>>
      BY <1>3 DEF DispatchBySemaphore
    <3> QED
      BY <3>1, <3>2, <3>3 DEF kernelVars
  <2>2. LockInv'
    BY <1>3 DEF DispatchBySemaphore, ResumeByte, DrainThenPost, SendSuspend,
       kernelVars, semVars, sigVars
  <2>3. IsrInv'
    BY <1>3 DEF DispatchBySemaphore, ResumeByte, DrainThenPost, SendSuspend,
       kernelVars, semVars, sigVars
  <2>4. OffCpuInv'
    BY <1>3 DEF DispatchBySemaphore, ResumeByte, DrainThenPost, SendSuspend,
       kernelVars, semVars, sigVars
  <2>5. LeavingInv'
    BY <1>3 DEF DispatchBySemaphore, ResumeByte, DrainThenPost, SendSuspend,
       kernelVars, semVars, sigVars
  <2>6. SchedInv'
    BY <1>3 DEF DispatchBySemaphore, ResumeByte, DrainThenPost, SendSuspend,
       kernelVars, semVars, sigVars
  <2>7. AckInv'
    BY <1>3 DEF DispatchBySemaphore, ResumeByte, DrainThenPost, SendSuspend,
       kernelVars, semVars, sigVars
  <2>8. WindowInv'
    BY <1>3 DEF DispatchBySemaphore, ResumeByte, DrainThenPost, SendSuspend,
       kernelVars, semVars, sigVars
  <2>9. SelectionInv'
    BY <1>3 DEF DispatchBySemaphore, ResumeByte, DrainThenPost, SendSuspend,
       kernelVars, semVars, sigVars
  <2> QED
    BY <2>1, <2>2, <2>3, <2>4, <2>5, <2>6, <2>7, <2>8, <2>9
<1>4. CASE TimerStopped
  BY <1>4 DEF TimerStopped, TakeAck, kernelVars, semVars, sigVars
<1>5. CASE ThreadStarted
  BY <1>5 DEF ThreadStarted, TakeToken, SendResume, Locked, kernelVars,
     semVars, sigVars
<1>6. CASE ThreadStartedInIsr
  BY <1>6 DEF ThreadStartedInIsr, TakeToken, Locked, kernelVars, semVars,
     sigVars
  \* The token was posted when the processor was given up: no thread is current.
<1>7. CASE SchedWakes
  BY <1>7 DEF SchedWakes, TakeToken, kernelVars, semVars, sigVars
<1>8. CASE NapEnds
  BY <1>8 DEF NapEnds, Free, kernelVars, semVars, sigVars
<1>9. CASE ContextSaveIdle
  BY <1>9 DEF ContextSaveIdle, EnterIsr, Free, CanLock, MustStop,
     kernelVars, semVars, sigVars
<1>10. CASE ContextSaveStop
  BY <1>10 DEF ContextSaveStop, Free, CanLock, MustStop, SendSuspend,
     Locked, kernelVars, semVars, sigVars
  \* The byte is that of the current thread, which is now in its handler.
<1>11. CASE ContextSaveStopped
  BY <1>11 DEF ContextSaveStopped, EnterIsr, Free, TakeAck, Locked,
     kernelVars, semVars, sigVars
<1>12. CASE TickQuiet
  BY <1>12 DEF TickQuiet, Free, CanLock, kernelVars, semVars, sigVars
<1>13. ASSUME NEW t \in Threads, TickExpires(t) PROVE IInv'
  BY <1>13 DEF TickExpires, Free, CanLock, Readied, Locked, kernelVars,
     semVars, sigVars
<1>14. CASE ContextRestoreIdle
  BY <1>14 DEF ContextRestoreIdle, LeaveIsr, Restoring, Free, CanLock,
     Locked, kernelVars, semVars, sigVars
<1>15. CASE ContextRestoreResume
  BY <1>15 DEF ContextRestoreResume, LeaveIsr, Restoring, Free, CanLock,
     Preempts, SendResume, Locked, kernelVars, semVars, sigVars
  \* The current thread is stopped, and stays so when it is not current any more.
<1>16. CASE ContextRestorePreempt
  BY <1>16 DEF ContextRestorePreempt, LeaveIsr, Restoring, Free, CanLock,
     Preempts, TimerParks, Locked, kernelVars, semVars, sigVars
<1>17. CASE IsrWakes
  BY <1>17 DEF IsrWakes, Free, kernelVars, semVars, sigVars
<1>18. CASE IsrLeaves
  <2>1. TypeOK'
    <3>1. 0 \in 0 .. SemCap
      OBVIOUS
    <3> QED
      BY <1>18, <3>1 DEF IsrLeaves, Free, CanLock, kernelVars, semVars,
         sigVars
  <2>2. LockInv'
    BY <1>18 DEF IsrLeaves, Free, CanLock, kernelVars, semVars, sigVars
  <2>3. IsrInv'
    BY <1>18 DEF IsrLeaves, Free, CanLock, kernelVars, semVars, sigVars
  <2>4. OffCpuInv'
    BY <1>18 DEF IsrLeaves, Free, CanLock, kernelVars, semVars, sigVars
  <2>5. LeavingInv'
    BY <1>18 DEF IsrLeaves, Free, CanLock, kernelVars, semVars, sigVars
  <2>6. SchedInv'
    BY <1>18 DEF IsrLeaves, Free, CanLock, kernelVars, semVars, sigVars
  <2>7. AckInv'
    BY <1>18 DEF IsrLeaves, Free, CanLock, kernelVars, semVars, sigVars
  <2>8. WindowInv'
    BY <1>18 DEF IsrLeaves, Free, CanLock, kernelVars, semVars, sigVars
  <2>9. SelectionInv'
    BY <1>18 DEF IsrLeaves, Free, CanLock, kernelVars, semVars, sigVars
  <2> QED
    BY <2>1, <2>2, <2>3, <2>4, <2>5, <2>6, <2>7, <2>8, <2>9
<1>19. ASSUME NEW t \in Threads, ThreadEntry(t) PROVE IInv'
  BY <1>19 DEF ThreadEntry, Goto, Free, kernelVars, semVars, sigVars
<1>20. ASSUME NEW t \in Threads, ThreadConfirms(t) PROVE IInv'
  BY <1>20 DEF ThreadConfirms, Goto, Free, kernelVars, semVars, sigVars
  \* The mutex is free: no dispatch and no suspend request is under way.
<1>21. ASSUME NEW t \in Threads, DisableInterrupts(t) PROVE IInv'
  BY <1>21, SMTT(30) DEF DisableInterrupts, Goto, Free, CanLock, Orphan, Locked,
     kernelVars, semVars, sigVars
<1>22. ASSUME NEW t \in Threads, NestedDisableRestore(t) PROVE IInv'
  BY <1>22 DEF NestedDisableRestore, Goto, Free, Locked, AfterRestore,
     Posture, kernelVars, semVars, sigVars
<1>23. ASSUME NEW t \in Threads, OpenWindow(t) PROVE IInv'
  BY <1>23 DEF OpenWindow, Goto, Free, EnableInterrupts, AfterRestore,
     Posture, Locked, kernelVars, semVars, sigVars
<1>24. ASSUME NEW t \in Threads, Service(t) PROVE IInv'
  <2>1. TypeOK'
    BY <1>24 DEF Service, Goto, Free, EnableInterrupts, AfterRestore,
       Posture, Locked, ServiceEffect, Readied, Blocked, Relinquished,
       Highest, kernelVars, semVars, sigVars
  <2>2. LockInv'
    BY <1>24 DEF Service, Goto, Free, EnableInterrupts, AfterRestore,
       Posture, Locked, ServiceEffect, Readied, Blocked, Relinquished,
       Highest, kernelVars, semVars, sigVars
  <2>3. IsrInv'
    BY <1>24 DEF Service, Goto, Free, EnableInterrupts, AfterRestore,
       Posture, Locked, ServiceEffect, Readied, Blocked, Relinquished,
       Highest, kernelVars, semVars, sigVars
  <2>4. OffCpuInv'
    BY <1>24 DEF Service, Goto, Free, EnableInterrupts, AfterRestore,
       Posture, Locked, ServiceEffect, Readied, Blocked, Relinquished,
       Highest, kernelVars, semVars, sigVars
  <2>5. LeavingInv'
    BY <1>24 DEF Service, Goto, Free, EnableInterrupts, AfterRestore,
       Posture, Locked, ServiceEffect, Readied, Blocked, Relinquished,
       Highest, kernelVars, semVars, sigVars
  <2>6. SchedInv'
    BY <1>24 DEF Service, Goto, Free, EnableInterrupts, AfterRestore,
       Posture, Locked, ServiceEffect, Readied, Blocked, Relinquished,
       Highest, kernelVars, semVars, sigVars
  <2>7. AckInv'
    BY <1>24 DEF Service, Goto, Free, EnableInterrupts, AfterRestore,
       Posture, Locked, ServiceEffect, Readied, Blocked, Relinquished,
       Highest, kernelVars, semVars, sigVars
  <2>8. WindowInv'
    BY <1>24 DEF Service, Goto, Free, EnableInterrupts, AfterRestore,
       Posture, Locked, ServiceEffect, Readied, Blocked, Relinquished,
       Highest, kernelVars, semVars, sigVars
  <2>9. SelectionInv'
    BY <1>24 DEF Service, Goto, Free, EnableInterrupts, AfterRestore,
       Posture, Locked, ServiceEffect, Readied, Blocked, Relinquished,
       Highest, kernelVars, semVars, sigVars
  <2> QED
    BY <2>1, <2>2, <2>3, <2>4, <2>5, <2>6, <2>7, <2>8, <2>9
<1>25. ASSUME NEW t \in Threads, ServiceReturns(t) PROVE IInv'
  BY <1>25 DEF ServiceReturns, Goto, Free, kernelVars, semVars, sigVars
<1>26. ASSUME NEW t \in Threads, ServiceYields(t) PROVE IInv'
  BY <1>26 DEF ServiceYields, Goto, Free, kernelVars, semVars, sigVars
  \* The mutex is free and t runs: no signal is under way to it.
<1>27. ASSUME NEW t \in Threads, SystemReturn(t) PROVE IInv'
  BY <1>27 DEF SystemReturn, ClearByte, Goto, Free, CanLock, Orphan, Locked,
     kernelVars, semVars, sigVars
<1>28. ASSUME NEW t \in Threads, DrainScheduler(t) PROVE IInv'
  BY <1>28 DEF DrainScheduler, Goto, Free, kernelVars, semVars, sigVars
  \* t was the only thread on its way out: the token is the only one.
<1>29. ASSUME NEW t \in Threads, PostScheduler(t) PROVE IInv'
  BY <1>29 DEF PostScheduler, Goto, Free, CanLock, kernelVars, semVars,
     sigVars
<1>30. ASSUME NEW t \in Threads, RunWait(t) PROVE IInv'
  BY <1>30 DEF RunWait, Goto, Free, kernelVars, semVars, sigVars
<1>31. ASSUME NEW t \in Threads, Relock(t) PROVE IInv'
  BY <1>31 DEF Relock, Goto, Free, CanLock, Orphan, Locked, kernelVars,
     semVars, sigVars
<1>32. ASSUME NEW p \in Pthreads, SuspendHandlerEnter(p) PROVE IInv'
  <2>1. TypeOK'
    BY <1>32 DEF SuspendHandlerEnter, Role, kernelVars, semVars, sigVars
  <2>2. LockInv'
    BY <1>32 DEF SuspendHandlerEnter, Role, kernelVars, semVars, sigVars
  <2>3. IsrInv'
    BY <1>32 DEF SuspendHandlerEnter, Role, kernelVars, semVars, sigVars
  <2>4. OffCpuInv'
    BY <1>32 DEF SuspendHandlerEnter, Role, kernelVars, semVars, sigVars
  <2>5. LeavingInv'
    BY <1>32 DEF SuspendHandlerEnter, Role, kernelVars, semVars, sigVars
  <2>6. SchedInv'
    BY <1>32 DEF SuspendHandlerEnter, Role, kernelVars, semVars, sigVars
  <2>7. AckInv'
    BY <1>32 DEF SuspendHandlerEnter, Role, kernelVars, semVars, sigVars
  <2>8. WindowInv'
    BY <1>32 DEF SuspendHandlerEnter, Role, kernelVars, semVars, sigVars
  <2>9. SelectionInv'
    BY <1>32 DEF SuspendHandlerEnter, Role, kernelVars, semVars, sigVars
  <2> QED
    BY <2>1, <2>2, <2>3, <2>4, <2>5, <2>6, <2>7, <2>8, <2>9
<1>33. ASSUME NEW p \in Pthreads, SuspendHandlerLeave(p) PROVE IInv'
  <2>1. TypeOK'
    BY <1>33 DEF SuspendHandlerLeave, NapInterrupted, kernelVars, semVars,
       sigVars
  <2>2. LockInv'
    BY <1>33 DEF SuspendHandlerLeave, NapInterrupted, kernelVars, semVars,
       sigVars
  <2>3. IsrInv'
    BY <1>33 DEF SuspendHandlerLeave, NapInterrupted, kernelVars, semVars,
       sigVars
  <2>4. OffCpuInv'
    BY <1>33 DEF SuspendHandlerLeave, NapInterrupted, kernelVars, semVars,
       sigVars
  <2>5. LeavingInv'
    BY <1>33 DEF SuspendHandlerLeave, NapInterrupted, kernelVars, semVars,
       sigVars
  <2>6. SchedInv'
    BY <1>33 DEF SuspendHandlerLeave, NapInterrupted, kernelVars, semVars,
       sigVars
  <2>7. AckInv'
    BY <1>33 DEF SuspendHandlerLeave, NapInterrupted, kernelVars, semVars,
       sigVars
  <2>8. WindowInv'
    BY <1>33 DEF SuspendHandlerLeave, NapInterrupted, kernelVars, semVars,
       sigVars
  <2>9. SelectionInv'
    BY <1>33 DEF SuspendHandlerLeave, NapInterrupted, kernelVars, semVars,
       sigVars
  <2> QED
    BY <2>1, <2>2, <2>3, <2>4, <2>5, <2>6, <2>7, <2>8, <2>9
<1>34. CASE UNCHANGED vars
  BY <1>34 DEF vars, kernelVars, semVars, sigVars
<1> QED
  BY <1>1, <1>2, <1>3, <1>4, <1>5, <1>6, <1>7, <1>8, <1>9, <1>10, <1>11,
     <1>12, <1>13, <1>14, <1>15, <1>16, <1>17, <1>18, <1>19, <1>20, <1>21,
     <1>22, <1>23, <1>24, <1>25, <1>26, <1>27, <1>28, <1>29, <1>30, <1>31,
     <1>32, <1>33, <1>34 DEF Next, SchedNext, TimerNext, ThreadNext

\* The inductive invariant holds in every reachable state.
THEOREM Invariance == Spec => []IInv
<1>1. Init => IInv
  BY InitIInv
<1>2. IInv /\ [Next]_vars => IInv'
  BY NextIInv
<1> QED
  BY <1>1, <1>2, PTL DEF Spec

-----------------------------------------------------------------------------
\* Every variable keeps its type; preempt_disable and system_state never fall
\* below zero.
THEOREM TypeCorrect == Spec => []TypeOK
<1>1. IInv => TypeOK
  BY DEF IInv
<1> QED
  BY <1>1, Invariance, PTL

\* The port never lets the pthreads of two ThreadX threads execute together.
THEOREM MutualExclusion == Spec => []OneThreadAtATime
<1>1. ASSUME IInv, NEW t \in Threads, NEW u \in Threads,
             Executing(t), Executing(u)
      PROVE  t = u
  <2> USE <1>1 DEF IInv, OffCpuInv, LeavingInv, Executing, Free, Stopped,
                   Waiting, Leaving
  <2>1. CASE t # current_ptr /\ u # current_ptr
    BY <2>1
  <2>2. CASE t = current_ptr /\ u # current_ptr
    BY <2>2, PosixAssumption
  <2>3. CASE t # current_ptr /\ u = current_ptr
    BY <2>3, PosixAssumption
  <2> QED
    BY <2>1, <2>2, <2>3
<1>2. IInv => OneThreadAtATime
  BY <1>1 DEF OneThreadAtATime
<1> QED
  BY <1>2, Invariance, PTL

\* No thread executes application or kernel code during the interrupt.
THEOREM IsrSeesKernelAtRest == Spec => []NoThreadDuringIsr
<1>1. IInv => NoThreadDuringIsr
  <2> SUFFICES ASSUME IInv, InIsr, NEW t \in Threads PROVE ~Live(t)
    BY DEF NoThreadDuringIsr
  <2> USE DEF IInv, Live, Free, InIsr, Stopped
  <2>1. CASE t = current_ptr
    BY <2>1, PosixAssumption DEF SchedInv, IsrInv, OnCpu
  <2>2. CASE t # current_ptr
    BY <2>2 DEF OffCpuInv, Waiting, Leaving
  <2> QED
    BY <2>1, <2>2
<1> QED
  BY <1>1, Invariance, PTL

\* The checks that exit a pthread never find a thread that is not current.
THEOREM NoThreadIsLost == Spec => []NoSpuriousExit
<1>1. IInv => NoSpuriousExit
  BY PosixAssumption
     DEF IInv, OffCpuInv, NoSpuriousExit, Orphan, Free, Stopped, Waiting,
         Leaving, Pthreads
<1> QED
  BY <1>1, Invariance, PTL

\* Every ack byte answers the request that is being waited for.
THEOREM AcksArePaired == Spec => []AckPairing
<1>1. IInv => AckPairing
  BY PosixAssumption
     DEF IInv, TypeOK, AckInv, SchedInv, IsrInv, AckPairing, Suspending,
         NoSignal, OnCpu
<1> QED
  BY <1>1, Invariance, PTL

\* RESUME_SIG is pending only for a pthread that is in the suspend handler.
THEOREM NoResumeIsLeft == Spec => []NoStaleResume
<1>1. ASSUME IInv, NEW p \in Pthreads, sig_resume[p] PROVE in_handler[p]
  <2> USE <1>1, PosixAssumption DEF IInv
  <2>1. CASE p \in {Sched, Timer}
    BY <2>1 DEF AckInv, Suspending, NoSignal, Resumable, TypeOK, Pthreads
  <2>2. CASE p \in Threads /\ p # current_ptr
    BY <2>2 DEF OffCpuInv, Stopped, Waiting, Leaving, NoSignal
  <2>3. CASE p \in Threads /\ p = current_ptr
    BY <2>3 DEF SchedInv, TypeOK, SchedPcs, DispatchPcs, OnCpu, Stopped,
                Waiting, Dispatched, Suspending, Resumable, NoSignal, Pthreads
  <2> QED
    BY <2>1, <2>2, <2>3 DEF Pthreads
<1>2. IInv => NoStaleResume
  BY <1>1 DEF NoStaleResume
<1> QED
  BY <1>2, Invariance, PTL

\* The scheduler wakes a thread the way it went to sleep.
THEOREM WakesAreMatched == Spec => []WakeMatchesBlock
<1>1. IInv => WakeMatchesBlock
  BY DEF IInv, SchedInv, WakeMatchesBlock, Stopped, Waiting, ResumeByte
<1> QED
  BY <1>1, Invariance, PTL

\* No token is left in the semaphore of the scheduler.
THEOREM TokensAreConsumed == Spec => []NoStaleToken
<1>1. IInv => NoStaleToken
  BY DEF IInv, TypeOK, SchedInv, NoStaleToken, Dispatched, DispatchPcs
<1> QED
  BY <1>1, Invariance, PTL

\* Nested services leave the interrupt posture as they found it.
THEOREM PosturesAreRestored == Spec => []PostureRestored
<1>1. IInv => PostureRestored
  BY DEF IInv, TypeOK, LockInv, PostureRestored, Pthreads
<1> QED
  BY <1>1, Invariance, PTL

-----------------------------------------------------------------------------
(***************************************************************************)
(* TxPosix implements OneCpu, and preemption happens only where it may:    *)
(* the action properties of TxPosix, from the same invariant.              *)
(***************************************************************************)
\* Every step of the port is a step of the single processor or leaves it
\* unchanged.
LEMMA NextImplements ==
    ASSUME IInv, IInv', [Next]_vars
    PROVE  [Cpu!CpuNext]_(Cpu!cpuVars)
<1> USE PosixAssumption
    DEF IInv, TypeOK, Cpu!CpuNext, Cpu!cpuVars, Processor, Live, Free, InIsr
<1>1. CASE PickThread
  BY <1>1 DEF PickThread, Runnable, CanLock, Locked, kernelVars, semVars,
     sigVars
<1>2. CASE DispatchBySignal
  BY <1>2 DEF DispatchBySignal, ResumeByte, SendResume, Locked, kernelVars,
     semVars, sigVars
<1>3. CASE DispatchBySemaphore
  BY <1>3 DEF DispatchBySemaphore, ResumeByte, DrainThenPost, SendSuspend,
     kernelVars, semVars, sigVars
<1>4. CASE TimerStopped
  BY <1>4 DEF TimerStopped, TakeAck, kernelVars, semVars, sigVars
<1>5. CASE ThreadStarted
  BY <1>5 DEF ThreadStarted, TakeToken, SendResume, Locked, kernelVars,
     semVars, sigVars
<1>6. CASE ThreadStartedInIsr
  BY <1>6 DEF ThreadStartedInIsr, TakeToken, Locked, kernelVars, semVars,
     sigVars
<1>7. CASE SchedWakes
  BY <1>7 DEF SchedWakes, TakeToken, kernelVars, semVars, sigVars
<1>8. CASE NapEnds
  BY <1>8 DEF NapEnds, kernelVars, semVars, sigVars
  \* No thread is current, so none is live: the interrupt takes an idle processor.
<1>9. ASSUME ContextSaveIdle PROVE Cpu!StartIsr
  BY <1>9 DEF ContextSaveIdle, EnterIsr, CanLock, MustStop, Cpu!StartIsr,
     IsrInv, OffCpuInv, SchedInv, OnCpu, Stopped, Waiting, Leaving,
     kernelVars, semVars, sigVars
<1>10. CASE ContextSaveStop
  BY <1>10 DEF ContextSaveStop, CanLock, MustStop, SendSuspend, Locked,
     kernelVars, semVars, sigVars
  \* The ack says that the current thread has stopped.
<1>11. ASSUME ContextSaveStopped PROVE Cpu!StartIsr
  BY <1>11 DEF ContextSaveStopped, EnterIsr, TakeAck, Locked, Cpu!StartIsr,
     Suspending, IsrInv, OffCpuInv, SchedInv, OnCpu, Stopped, Waiting,
     Leaving, kernelVars, semVars, sigVars
<1>12. CASE TickQuiet
  BY <1>12 DEF TickQuiet, CanLock, kernelVars, semVars, sigVars
<1>13. ASSUME NEW t \in Threads, TickExpires(t) PROVE Cpu!IsrService
  BY <1>13 DEF TickExpires, CanLock, Readied, Locked, Cpu!IsrService,
     IsrInv, OffCpuInv, SchedInv, OnCpu, Stopped, Waiting, Leaving,
     kernelVars, semVars, sigVars
  \* The interrupt leaves the processor; its thread is not started by this step.
<1>14. ASSUME ContextRestoreIdle PROVE Cpu!Stop
  BY <1>14 DEF ContextRestoreIdle, LeaveIsr, Restoring, CanLock, Locked,
     Cpu!Stop, IsrInv, OffCpuInv, SchedInv, OnCpu, Stopped, Waiting,
     Leaving, kernelVars, semVars, sigVars
<1>15. ASSUME ContextRestoreResume PROVE Cpu!Stop
  BY <1>15 DEF ContextRestoreResume, LeaveIsr, Restoring, CanLock, Preempts,
     SendResume, Locked, Cpu!Stop, IsrInv, OffCpuInv, SchedInv, OnCpu,
     Stopped, Waiting, Leaving, kernelVars, semVars, sigVars
<1>16. ASSUME ContextRestorePreempt PROVE Cpu!Stop
  BY <1>16 DEF ContextRestorePreempt, LeaveIsr, Restoring, CanLock,
     Preempts, TimerParks, Locked, Cpu!Stop, IsrInv, OffCpuInv, SchedInv,
     OnCpu, Stopped, Waiting, Leaving, kernelVars, semVars, sigVars
<1>17. CASE IsrWakes
  BY <1>17 DEF IsrWakes, kernelVars, semVars, sigVars
<1>18. CASE IsrLeaves
  BY <1>18 DEF IsrLeaves, CanLock, kernelVars, semVars, sigVars
<1>19. ASSUME NEW t \in Threads, ThreadEntry(t) PROVE [Cpu!CpuNext]_(Cpu!cpuVars)
  BY <1>19 DEF ThreadEntry, Goto, kernelVars, semVars, sigVars
  \* The first dispatch of t: the scheduler has just selected it.
<1>20. ASSUME NEW t \in Threads, ThreadConfirms(t) PROVE [Cpu!CpuNext]_(Cpu!cpuVars)
  BY <1>20 DEF ThreadConfirms, Goto, Cpu!Start, SelectionInv, SchedPcs,
     DispatchPcs, Dispatched, IsrInv, OffCpuInv, SchedInv, OnCpu, Stopped,
     Waiting, Leaving, kernelVars, semVars, sigVars
<1>21. ASSUME NEW t \in Threads, DisableInterrupts(t) PROVE Cpu!ThreadService(t)
  BY <1>21 DEF DisableInterrupts, Goto, CanLock, Orphan, Locked,
     Cpu!ThreadService, IsrInv, OffCpuInv, SchedInv, OnCpu, Stopped,
     Waiting, Leaving, kernelVars, semVars, sigVars
<1>22. ASSUME NEW t \in Threads, NestedDisableRestore(t) PROVE [Cpu!CpuNext]_(Cpu!cpuVars)
  BY <1>22 DEF NestedDisableRestore, Goto, Locked, AfterRestore, Posture,
     kernelVars, semVars, sigVars
<1>23. ASSUME NEW t \in Threads, OpenWindow(t) PROVE Cpu!ThreadService(t)
  BY <1>23 DEF OpenWindow, Goto, EnableInterrupts, AfterRestore, Posture,
     Locked, Cpu!ThreadService, IsrInv, OffCpuInv, SchedInv, OnCpu, Stopped,
     Waiting, Leaving, kernelVars, semVars, sigVars
<1>24. ASSUME NEW t \in Threads, Service(t) PROVE Cpu!ThreadService(t)
  BY <1>24 DEF Service, Goto, EnableInterrupts, AfterRestore, Posture,
     Locked, ServiceEffect, Readied, Blocked, Relinquished, Highest,
     Cpu!ThreadService, IsrInv, OffCpuInv, SchedInv, OnCpu, Stopped,
     Waiting, Leaving, kernelVars, semVars, sigVars
<1>25. ASSUME NEW t \in Threads, ServiceReturns(t) PROVE [Cpu!CpuNext]_(Cpu!cpuVars)
  BY <1>25 DEF ServiceReturns, Goto, kernelVars, semVars, sigVars
<1>26. ASSUME NEW t \in Threads, ServiceYields(t) PROVE [Cpu!CpuNext]_(Cpu!cpuVars)
  BY <1>26 DEF ServiceYields, Goto, kernelVars, semVars, sigVars
<1>27. ASSUME NEW t \in Threads, SystemReturn(t) PROVE Cpu!Stop
  BY <1>27 DEF SystemReturn, ClearByte, Goto, CanLock, Orphan, Locked,
     Cpu!Stop, IsrInv, OffCpuInv, SchedInv, OnCpu, Stopped, Waiting,
     Leaving, kernelVars, semVars, sigVars
<1>28. ASSUME NEW t \in Threads, DrainScheduler(t) PROVE [Cpu!CpuNext]_(Cpu!cpuVars)
  BY <1>28 DEF DrainScheduler, Goto, kernelVars, semVars, sigVars
<1>29. ASSUME NEW t \in Threads, PostScheduler(t) PROVE [Cpu!CpuNext]_(Cpu!cpuVars)
  BY <1>29 DEF PostScheduler, Goto, CanLock, kernelVars, semVars, sigVars
<1>30. ASSUME NEW t \in Threads, RunWait(t) PROVE [Cpu!CpuNext]_(Cpu!cpuVars)
  BY <1>30 DEF RunWait, Goto, kernelVars, semVars, sigVars
  \* A later dispatch of t.
<1>31. ASSUME NEW t \in Threads, Relock(t) PROVE Cpu!Start(t)
  <2> USE <1>31 DEF Relock, Goto, CanLock, Orphan
  <2>1. spc = "wait" /\ current_ptr = t
    BY DEF LockInv, SchedInv, SchedPcs, DispatchPcs, Pthreads
  <2>2. ~InIsr
    BY <2>1 DEF SchedInv, OnCpu, Stopped
  <2>3. execute_ptr = t
    BY <2>1, <2>2 DEF SelectionInv
  <2>4. Processor = {}
    BY <2>1, <2>2 DEF OffCpuInv, Stopped, Waiting, Leaving
  <2>5. Processor' = {t}
    BY <2>1, <2>2, <2>4 DEF sigVars
  <2> QED
    BY <2>3, <2>4, <2>5 DEF Cpu!Start, kernelVars
  \* A live thread that enters the handler leaves the processor.
<1>32. ASSUME NEW p \in Pthreads, SuspendHandlerEnter(p) PROVE [Cpu!CpuNext]_(Cpu!cpuVars)
  BY <1>32 DEF SuspendHandlerEnter, Role, Cpu!Stop, Pthreads, IsrInv,
     OffCpuInv, SchedInv, OnCpu, Stopped, Waiting, Leaving, kernelVars,
     semVars, sigVars
  \* A live thread that leaves the handler is the selected one, or was not to be
  \* preempted.
<1>33. ASSUME NEW p \in Pthreads, SuspendHandlerLeave(p) PROVE [Cpu!CpuNext]_(Cpu!cpuVars)
  BY <1>33 DEF SuspendHandlerLeave, NapInterrupted, Cpu!Start, SelectionInv,
     Pthreads, IsrInv, OffCpuInv, SchedInv, OnCpu, Stopped, Waiting,
     Leaving, kernelVars, semVars, sigVars
<1>34. CASE UNCHANGED vars
  BY <1>34 DEF vars, kernelVars, semVars, sigVars
<1> QED
  BY <1>1, <1>2, <1>3, <1>4, <1>5, <1>6, <1>7, <1>8, <1>9, <1>10, <1>11,
     <1>12, <1>13, <1>14, <1>15, <1>16, <1>17, <1>18, <1>19, <1>20, <1>21,
     <1>22, <1>23, <1>24, <1>25, <1>26, <1>27, <1>28, <1>29, <1>30, <1>31,
     <1>32, <1>33, <1>34 DEF Next, SchedNext, TimerNext, ThreadNext

\* The pthreads, signals and semaphores of the port implement one processor
\* that executes one thread or the interrupt at a time.
THEOREM Refinement == Spec => ImplementsOneCpu
<1>1. Init => Cpu!CpuInit
  BY InitIInv DEF Init, IInv, TypeOK, Cpu!CpuInit, Processor, Live, InIsr
<1>2. IInv /\ IInv' /\ [Next]_vars => [Cpu!CpuNext]_(Cpu!cpuVars)
  BY NextImplements
<1> QED
  BY <1>1, <1>2, Invariance, PTL DEF Spec, ImplementsOneCpu, Cpu!CpuSpec

\* A thread loses the processor by returning, or stopped by an interrupt that
\* found it preemptible and another thread selected.
THEOREM PreemptionIsRespected == Spec => PreemptionRespected
<1>1. ASSUME IInv, [Next]_vars, NEW t \in Threads,
             current_ptr = t, current_ptr' = None
      PROVE  \/ pc[t] = "return" /\ pc'[t] = "return_drain"
             \/ preempt_disable = 0 /\ execute_ptr # t /\ in_handler[t]
  <2> USE <1>1, PosixAssumption DEF IInv, TypeOK
  <2>1. CASE SchedNext
    <3>1. ~PickThread
      BY DEF PickThread, Runnable
    <3> QED
      BY <2>1, <3>1
         DEF SchedNext, DispatchBySignal, DispatchBySemaphore, TimerStopped,
             ThreadStarted, ThreadStartedInIsr, SchedWakes, kernelVars
  <2>2. CASE ContextRestorePreempt
    BY <2>2 DEF ContextRestorePreempt, Preempts, Restoring, IsrInv, InIsr,
                SchedInv, OnCpu, Stopped
  <2>3. CASE TimerNext /\ ~ContextRestorePreempt
    BY <2>3 DEF TimerNext, NapEnds, ContextSaveIdle, ContextSaveStop,
                ContextSaveStopped, TickQuiet, TickExpires,
                ContextRestoreIdle, ContextRestoreResume, IsrWakes, IsrLeaves,
                kernelVars
  <2>4. ASSUME NEW u \in Threads, SystemReturn(u)
        PROVE  pc[t] = "return" /\ pc'[t] = "return_drain"
    BY <2>4 DEF SystemReturn, Goto, Orphan
  <2>5. ASSUME NEW u \in Threads, ThreadNext(u), ~SystemReturn(u)
        PROVE  FALSE
    BY <2>5 DEF ThreadNext, ThreadEntry, ThreadConfirms, DisableInterrupts,
                NestedDisableRestore, OpenWindow, Service, ServiceReturns,
                ServiceYields, DrainScheduler, PostScheduler, RunWait, Relock,
                kernelVars
  <2>6. ASSUME NEW p \in Pthreads,
               SuspendHandlerEnter(p) \/ SuspendHandlerLeave(p)
        PROVE  FALSE
    BY <2>6 DEF SuspendHandlerEnter, SuspendHandlerLeave, kernelVars
  <2>7. CASE UNCHANGED vars
    BY <2>7 DEF vars, kernelVars
  <2> QED
    BY <2>1, <2>2, <2>3, <2>4, <2>5, <2>6, <2>7 DEF Next
<1>2. IInv /\ [Next]_vars =>
        [\A t \in Threads :
            current_ptr = t /\ current_ptr' = None =>
                \/ pc[t] = "return" /\ pc'[t] = "return_drain"
                \/ preempt_disable = 0 /\ execute_ptr # t /\ in_handler[t]]_vars
  BY <1>1
<1> QED
  BY <1>2, Invariance, PTL DEF Spec, PreemptionRespected

-----------------------------------------------------------------------------
(***************************************************************************)
(* Nobody waits in vain                                                    *)
(***************************************************************************)
LEMMA InitParkInv == Init => ParkInv
<1> SUFFICES ASSUME Init PROVE ParkInv
  OBVIOUS
<1>1. ~timer_waiting /\ tpc = "nap" /\ ~(isr_sem > 0) /\ spc = "poll"
  BY DEF Init
<1> QED
  BY <1>1 DEF ParkInv

\* What the scheduler does to a timer that is parked.
LEMMA SchedKeepsPark ==
    ASSUME IInv, ParkInv, SchedNext PROVE ParkInv'
<1> USE PosixAssumption
    DEF IInv, TypeOK, SchedInv, SelectionInv, ParkInv, DispatchPcs,
        kernelVars, semVars, sigVars
<1>1. CASE PickThread
  BY <1>1 DEF PickThread, Runnable
<1>2. CASE DispatchBySignal
  BY <1>2 DEF DispatchBySignal, ResumeByte
<1>3. CASE DispatchBySemaphore
  BY <1>3 DEF DispatchBySemaphore
<1>4. CASE TimerStopped
  BY <1>4 DEF TimerStopped
<1>5. CASE ThreadStarted
  BY <1>5 DEF ThreadStarted
<1>6. CASE ThreadStartedInIsr
  BY <1>6 DEF ThreadStartedInIsr
<1>7. CASE SchedWakes
  BY <1>7 DEF SchedWakes
<1> QED
  BY <1>1, <1>2, <1>3, <1>4, <1>5, <1>6, <1>7 DEF SchedNext

\* The timer parks after it has posted the scheduler, and drains what is left.
LEMMA TimerKeepsPark ==
    ASSUME IInv, ParkInv, TimerNext PROVE ParkInv'
<1> USE PosixAssumption
    DEF IInv, TypeOK, ParkInv, Free, kernelVars, semVars, sigVars
<1>1. CASE NapEnds \/ ContextSaveIdle \/ ContextSaveStop
           \/ ContextSaveStopped \/ TickQuiet
  BY <1>1 DEF NapEnds, ContextSaveIdle, ContextSaveStop, ContextSaveStopped,
              TickQuiet
<1>2. ASSUME NEW t \in Threads, TickExpires(t) PROVE ParkInv'
  BY <1>2 DEF TickExpires
<1>3. CASE ContextRestoreIdle \/ ContextRestoreResume
  BY <1>3 DEF ContextRestoreIdle, ContextRestoreResume, Restoring
<1>4. CASE ContextRestorePreempt
  <2>1. spc = "wait" /\ isr_sem = 0 /\ execute_ptr # current_ptr
    BY <1>4 DEF ContextRestorePreempt, Restoring, Preempts, IsrInv, InIsr,
                SchedInv
  <2>2. execute_ptr' = execute_ptr /\ isr_sem' = 0 /\ spc' = "wait"
    BY <1>4, <2>1 DEF ContextRestorePreempt
  <2>3. CASE TimerParks
    <3>1. /\ timer_waiting' /\ tpc' = "isr_wait"
          /\ current_ptr' = None /\ sched_sem' = 1
      BY <1>4, <2>3 DEF ContextRestorePreempt
    <3>2. execute_ptr # None /\ suspension_type'[execute_ptr] = 0
      BY <1>4, <2>1, <2>3 DEF ContextRestorePreempt, TimerParks
    <3> QED
      BY <2>2, <3>1, <3>2
  <2>4. CASE ~TimerParks
    <3>1. ~timer_waiting' /\ tpc' = "nap"
      BY <1>4, <2>4 DEF ContextRestorePreempt
    <3> QED
      BY <2>2, <3>1
  <2> QED
    BY <2>3, <2>4
<1>5. CASE IsrWakes
  BY <1>5 DEF IsrWakes
<1>6. CASE IsrLeaves
  BY <1>6 DEF IsrLeaves, CanLock, LockInv, DispatchPcs, Pthreads
<1> QED
  BY <1>1, <1>2, <1>3, <1>4, <1>5, <1>6 DEF TimerNext

\* No thread that could select another one or post the scheduler executes
\* while the post to a parked timer is on its way.
LEMMA ThreadKeepsPark ==
    ASSUME IInv, ParkInv, NEW t \in Threads, ThreadNext(t) PROVE ParkInv'
<1>1. UNCHANGED <<timer_waiting, tpc, isr_sem, spc>>
  BY DEF ThreadNext, ThreadEntry, ThreadConfirms, DisableInterrupts,
         NestedDisableRestore, OpenWindow, Service, ServiceReturns,
         ServiceYields, SystemReturn, DrainScheduler, PostScheduler, RunWait,
         Relock, kernelVars, semVars
<1> SUFFICES ASSUME tpc = "isr_wait", isr_sem = 0
             PROVE  /\ execute_ptr' # None /\ suspension_type'[execute_ptr'] = 0
                    /\ \/ spc \in {"poll", "picked", "start_isr"}
                       \/ /\ spc = "wait" /\ current_ptr' = None
                          /\ sched_sem' = 1
  BY <1>1 DEF ParkInv
<1>2. pc[t] \notin OnCpuPcs \ {"app", "relock"} \/ ~Free(t)
  BY PosixAssumption
     DEF IInv, TypeOK, OffCpuInv, SchedInv, ParkInv, Stopped, Waiting,
         Leaving, Dispatched, DispatchPcs, OnCpuPcs, StopPcs, Free
<1>3. UNCHANGED <<execute_ptr, suspension_type, current_ptr>>
  BY <1>2 DEF ThreadNext, ThreadEntry, ThreadConfirms, DisableInterrupts,
         NestedDisableRestore, OpenWindow, Service, ServiceReturns,
         ServiceYields, SystemReturn, DrainScheduler, PostScheduler, RunWait,
         Relock, kernelVars, Goto, OnCpuPcs, StopPcs
<1>4. CASE spc \in {"poll", "picked", "start_isr"}
  BY <1>3, <1>4 DEF ParkInv
<1>5. CASE spc = "wait" /\ current_ptr = None /\ sched_sem = 1
  <2>1. (pc[t] \in {"start_wait", "run_wait"} /\ run_sem[t] = 0) \/ ~Free(t)
    BY <1>5, PosixAssumption
       DEF IInv, OffCpuInv, LeavingInv, Stopped, Waiting, Leaving, Free
  <2>2. FALSE
    BY <2>1 DEF ThreadNext, ThreadEntry, ThreadConfirms, DisableInterrupts,
         NestedDisableRestore, OpenWindow, Service, ServiceReturns,
         ServiceYields, SystemReturn, DrainScheduler, PostScheduler, RunWait,
         Relock, Goto
  <2> QED
    BY <2>2
<1> QED
  BY <1>4, <1>5 DEF ParkInv

LEMMA NextParkInv ==
    ASSUME IInv, ParkInv, [Next]_vars PROVE ParkInv'
<1>1. ASSUME NEW p \in Pthreads,
             SuspendHandlerEnter(p) \/ SuspendHandlerLeave(p)
      PROVE  ParkInv'
  BY <1>1 DEF SuspendHandlerEnter, SuspendHandlerLeave, NapInterrupted,
              ParkInv, kernelVars, semVars
<1>2. CASE UNCHANGED vars
  BY <1>2 DEF vars, kernelVars, semVars, ParkInv
<1> QED
  BY <1>1, <1>2, SchedKeepsPark, TimerKeepsPark, ThreadKeepsPark DEF Next

\* A timer that waits on the isr semaphore is going to be posted, and no post
\* outlives the wait it was for: ticks go on after a preemption.
THEOREM TimerIsAwaited == Spec => []ParkInv
<1>1. Init => ParkInv
  BY InitParkInv
<1>2. IInv /\ ParkInv /\ [Next]_vars => ParkInv'
  BY NextParkInv
<1> QED
  BY <1>1, <1>2, Invariance, PTL DEF Spec

LEMMA NextHandOverInv ==
    ASSUME IInv, HandOverInv, [Next]_vars PROVE HandOverInv'
<1> USE DEF IInv, TypeOK, HandOverInv
<1>1. CASE SchedNext
  BY <1>1 DEF SchedNext, PickThread, DispatchBySignal, DispatchBySemaphore,
              TimerStopped, ThreadStarted, ThreadStartedInIsr, SchedWakes,
              SchedInv, DispatchPcs, kernelVars
<1>2. CASE ContextRestorePreempt
  BY <1>2 DEF ContextRestorePreempt
<1>3. CASE TimerNext /\ ~ContextRestorePreempt
  BY <1>3 DEF TimerNext, NapEnds, ContextSaveIdle, ContextSaveStop,
              ContextSaveStopped, TickQuiet, TickExpires, ContextRestoreIdle,
              ContextRestoreResume, IsrWakes, IsrLeaves, kernelVars, semVars
<1>4. ASSUME NEW t \in Threads, SystemReturn(t) \/ DrainScheduler(t)
      PROVE  HandOverInv'
  <2>1. pc'[t] \in {"return_drain", "return_post"}
    BY <1>4 DEF SystemReturn, DrainScheduler, Goto
  <2> QED
    BY <2>1
<1>5. ASSUME NEW t \in Threads, ThreadConfirms(t) \/ PostScheduler(t)
      PROVE  HandOverInv'
  BY <1>5 DEF ThreadConfirms, PostScheduler
<1>6. ASSUME NEW t \in Threads, ThreadNext(t),
             ~SystemReturn(t), ~DrainScheduler(t),
             ~ThreadConfirms(t), ~PostScheduler(t)
      PROVE  HandOverInv'
  <2>1. UNCHANGED <<spc, current_ptr, sched_sem>>
    BY <1>6 DEF ThreadNext, ThreadEntry, DisableInterrupts,
           NestedDisableRestore, OpenWindow, Service, ServiceReturns,
           ServiceYields, RunWait, Relock, kernelVars, semVars
  <2>2. /\ pc[t] \notin {"return_drain", "return_post"}
        /\ \A u \in Threads \ {t} : pc'[u] = pc[u]
    BY <1>6 DEF ThreadNext, ThreadEntry, DisableInterrupts,
           NestedDisableRestore, OpenWindow, Service, ServiceReturns,
           ServiceYields, RunWait, Relock, Goto
  <2> QED
    BY <2>1, <2>2
<1>7. ASSUME NEW p \in Pthreads,
             SuspendHandlerEnter(p) \/ SuspendHandlerLeave(p)
      PROVE  HandOverInv'
  BY <1>7 DEF SuspendHandlerEnter, SuspendHandlerLeave, kernelVars, semVars
<1>8. CASE UNCHANGED vars
  BY <1>8 DEF vars, kernelVars, semVars
<1> QED
  BY <1>1, <1>2, <1>3, <1>4, <1>5, <1>6, <1>7, <1>8 DEF Next

\* A processor that its thread has given up, or lost, does not stay without a
\* token on its way to the scheduler.
THEOREM ProcessorIsHandedOver == Spec => []HandOverInv
<1>1. Init => HandOverInv
  BY DEF Init, HandOverInv
<1>2. IInv /\ HandOverInv /\ [Next]_vars => HandOverInv'
  BY NextHandOverInv
<1> QED
  BY <1>1, <1>2, Invariance, PTL DEF Spec

\* A dispatch that the scheduler has begun comes on by the thread it starts,
\* or is confirmed already.
LEMMA DispatchGoesOn ==
    ASSUME IInv, spc \in DispatchPcs
    PROVE  /\ current_ptr \in Threads
           /\ spc # "stop_ack" => SchedGoesOn \/ ThreadGoesOn(current_ptr)
<1>1. current_ptr \in Threads /\ Dispatched(current_ptr)
  BY DEF IInv, TypeOK, SchedInv
<1>2. CASE sched_sem = 1
  BY <1>1, <1>2 DEF SchedGoesOn, DispatchPcs
<1>3. CASE \/ pc[current_ptr] \in {"start_wait", "run_wait"}
              /\ run_sem[current_ptr] = 1
           \/ pc[current_ptr] \in {"start_post", "run_post"}
  BY <1>1, <1>3 DEF Dispatched, ThreadGoesOn, Free
<1> QED
  BY <1>1, <1>2, <1>3 DEF Dispatched

\* While the timer is being stopped, its signal or its byte is there.
LEMMA StopGoesOn ==
    ASSUME IInv, spc = "stop_ack" PROVE SchedGoesOn \/ SignalGoesOn(Timer)
<1>1. Suspending(Timer, ack["timer"])
  BY DEF IInv, AckInv
<1>2. CASE ack["timer"] = 1
  BY <1>2 DEF SchedGoesOn
<1>3. CASE ack["timer"] # 1
  <2>1. sig_suspend[Timer] /\ (sig_resume[Timer] <=> in_handler[Timer])
    BY <1>1, <1>3 DEF Suspending
  <2> QED
    BY <2>1 DEF SignalGoesOn
<1> QED
  BY <1>2, <1>3

\* A thread that holds the mutex is the current one and is not kept stopped.
LEMMA CriticalGoesOn ==
    ASSUME IInv, NEW t \in Threads, lock_count[t] > 0
    PROVE  ThreadGoesOn(t) \/ SignalGoesOn(t)
<1>1. pc[t] \in {"critical", "finishing"}
  BY DEF IInv, LockInv
<1>2. t = current_ptr
  BY <1>1 DEF IInv, OffCpuInv, Stopped, Waiting, Leaving, StopPcs
<1>3. CASE Free(t)
  BY <1>1, <1>3 DEF ThreadGoesOn
<1>4. CASE in_handler[t]
  <2>1. spc = "wait" /\ OnCpu(t)
    BY <1>1, <1>2, PosixAssumption
       DEF IInv, TypeOK, SchedInv, SchedPcs, DispatchPcs, Dispatched, Stopped,
           Waiting, StopPcs
  <2>2. lock_count[Timer] = 0
    BY PosixAssumption DEF IInv, TypeOK, LockInv, Pthreads
  <2>3. tpc # "save_ack" /\ ~Stopped(t)
    BY <1>1, <2>2 DEF IInv, LockInv, Stopped, StopPcs
  <2>4. Resumable(t)
    BY <2>1, <2>3 DEF OnCpu
  <2> QED
    BY <1>4, <2>4 DEF Resumable, SignalGoesOn
<1> QED
  BY <1>3, <1>4 DEF Free

\* A timer that waits for the byte of the current thread gets it.
LEMMA SaveGoesOn ==
    ASSUME IInv, tpc = "save_ack"
    PROVE  /\ current_ptr \in Threads
           /\ TimerGoesOn \/ SignalGoesOn(Timer) \/ SignalGoesOn(current_ptr)
<1>1. /\ spc = "wait" /\ current_ptr \in Threads
      /\ Suspending(current_ptr, ack["other"])
      /\ Resumable(Timer)
  BY DEF IInv, TypeOK, IsrInv, SchedInv, OnCpu, AckInv
<1>2. CASE in_handler[Timer]
  BY <1>1, <1>2 DEF Resumable, SignalGoesOn
<1>3. CASE ~in_handler[Timer] /\ ack["other"] = 1
  BY <1>1, <1>3 DEF TimerGoesOn, Free
<1>4. CASE ack["other"] # 1
  <2>1. /\ sig_suspend[current_ptr]
        /\ sig_resume[current_ptr] <=> in_handler[current_ptr]
    BY <1>1, <1>4 DEF Suspending
  <2> QED
    BY <1>1, <2>1 DEF SignalGoesOn
<1> QED
  BY <1>1, <1>2, <1>3, <1>4

\* The mutex is never held by a pthread that waits for good: its holder can go
\* on, or the one that the holder waits for can.
THEOREM TheHolderGoesOn == Spec => []HolderGoesOn
<1>1. IInv => HolderGoesOn
  <2> SUFFICES ASSUME IInv PROVE HolderGoesOn
    OBVIOUS
  <2>1. ASSUME lock_count[Sched] > 0
        PROVE  SchedGoesOn \/ SignalGoesOn(Timer) \/ ThreadGoesOn(current_ptr)
    <3>1. spc \in DispatchPcs \cup {"picked"}
      BY <2>1 DEF IInv, LockInv
    <3> QED
      BY <3>1, DispatchGoesOn, StopGoesOn DEF SchedGoesOn
  <2>2. ASSUME lock_count[Timer] > 0
        PROVE  TimerGoesOn \/ SignalGoesOn(Timer) \/ SignalGoesOn(current_ptr)
    <3>1. CASE tpc = "save_ack"
      BY <3>1, SaveGoesOn
    <3>2. CASE tpc = "restore"
      <4>1. CanLock(Timer)
        BY <2>2, PosixAssumption DEF IInv, TypeOK, LockInv, CanLock, Pthreads
      <4>2. spc # "stop_ack" /\ spc # "start"
        BY <3>2 DEF IInv, IsrInv, InIsr
      <4>3. Resumable(Timer)
        BY <4>2 DEF IInv, AckInv
      <4>4. CASE in_handler[Timer]
        BY <4>3, <4>4 DEF Resumable, SignalGoesOn
      <4>5. CASE ~in_handler[Timer]
        BY <3>2, <4>1, <4>5 DEF TimerGoesOn, Free
      <4> QED
        BY <4>4, <4>5
    <3> QED
      BY <2>2, <3>1, <3>2 DEF IInv, LockInv
  <2> QED
    BY <2>1, <2>2, CriticalGoesOn DEF HolderGoesOn
<1> QED
  BY <1>1, Invariance, PTL DEF Spec

\* While the timer naps, a selected thread is not left alone: the scheduler, or
\* the thread that has the processor or gives it up, goes on.
LEMMA SelectedGoesOn ==
    ASSUME IInv, HandOverInv, execute_ptr # None, tpc = "nap",
           spc \in {"poll", "wait"},
           \A p \in Pthreads : lock_count[p] = 0
    PROVE  \/ SchedGoesOn
           \/ \E t \in Threads : ThreadGoesOn(t) \/ SignalGoesOn(t)
<1>1. \A p \in Pthreads : CanLock(p)
  BY DEF CanLock
<1>2. CASE spc = "poll"
  BY <1>1, <1>2
     DEF IInv, IsrInv, InIsr, SchedGoesOn, Runnable, Pthreads
<1>3. CASE spc = "wait" /\ current_ptr = None /\ sched_sem = 0
  <2>1. PICK t \in Threads : pc[t] \in {"return_drain", "return_post"}
    BY <1>3 DEF HandOverInv
  <2>2. Free(t)
    BY <1>3, <2>1, PosixAssumption
       DEF IInv, OffCpuInv, Stopped, Waiting, Leaving, StopPcs, Free
  <2> QED
    BY <1>1, <2>1, <2>2 DEF ThreadGoesOn, Pthreads
<1>4. CASE spc = "wait" /\ sched_sem # 0
  <2>1. sched_sem = 1
    BY <1>4 DEF IInv, TypeOK, SchedInv
  <2> QED
    BY <1>4, <2>1 DEF SchedGoesOn
<1>5. CASE spc = "wait" /\ current_ptr # None
  <2>1. /\ current_ptr \in Threads /\ OnCpu(current_ptr)
        /\ Resumable(current_ptr) /\ ~Orphan(current_ptr)
    BY <1>5 DEF IInv, TypeOK, SchedInv, OnCpu, InIsr, Orphan
  <2>2. CASE in_handler[current_ptr]
    BY <2>1, <2>2 DEF Resumable, SignalGoesOn
  <2>3. CASE Free(current_ptr)
    <3>1. ThreadGoesOn(current_ptr)
      BY <1>1, <2>1, <2>3 DEF OnCpu, OnCpuPcs, StopPcs, ThreadGoesOn, Pthreads
    <3> QED
      BY <2>1, <3>1
  <2> QED
    BY <2>1, <2>2, <2>3 DEF Free
<1> QED
  BY <1>2, <1>3, <1>4, <1>5

\* The hand-shakes never come to a standstill in which every pthread waits for
\* another one: unless no thread is selected and the timer naps, the guard of a
\* step holds that is not the end of a nap.
THEOREM NoStandstill == Spec => []NobodyIsStuck
<1>1. IInv /\ ParkInv /\ HandOverInv => NobodyIsStuck
  <2> SUFFICES ASSUME IInv, ParkInv, HandOverInv PROVE NobodyIsStuck
    OBVIOUS
  <2> USE PosixAssumption DEF NobodyIsStuck
  <2>1. Timer \in Pthreads /\ Threads \subseteq Pthreads
    BY DEF Pthreads
  <2>2. CASE spc \in DispatchPcs \cup {"picked"}
    BY <2>1, <2>2, DispatchGoesOn, StopGoesOn DEF SchedGoesOn
  <2>3. CASE \E t \in Threads : lock_count[t] > 0
    BY <2>1, <2>3, CriticalGoesOn
  <2>4. CASE tpc = "save_ack"
    BY <2>1, <2>4, SaveGoesOn
  <2>5. CASE /\ spc \in {"poll", "wait"} /\ tpc # "save_ack"
             /\ \A t \in Threads : ~(lock_count[t] > 0)
    <3>1. \A q \in Pthreads : q # Timer => lock_count[q] = 0
      BY <2>5 DEF IInv, TypeOK, LockInv, DispatchPcs, Pthreads
    <3>2. CASE in_handler[Timer]
      BY <2>1, <2>5, <3>2 DEF IInv, AckInv, Resumable, SignalGoesOn
    <3>3. CASE ~in_handler[Timer] /\ tpc \notin {"nap", "isr_wait"}
      BY <2>5, <3>1, <3>3
         DEF IInv, TypeOK, TimerPcs, TimerGoesOn, Free, CanLock
    <3>4. CASE ~in_handler[Timer] /\ tpc = "isr_wait" /\ isr_sem > 0
      BY <3>4 DEF TimerGoesOn, Free
    <3>5. CASE tpc = "isr_wait" /\ isr_sem = 0 /\ spc = "wait"
      BY <3>5 DEF ParkInv, SchedGoesOn
    <3>6. CASE tpc = "isr_wait" /\ isr_sem = 0 /\ spc = "poll"
      <4>1. lock_count[Timer] = 0
        BY <3>6 DEF IInv, TypeOK, LockInv, Pthreads
      <4>2. CanLock(Sched)
        BY <3>1, <4>1 DEF CanLock
      <4>3. Runnable
        BY <3>6 DEF ParkInv, IInv, IsrInv, InIsr, Runnable
      <4> QED
        BY <3>6, <4>2, <4>3 DEF SchedGoesOn
    <3>7. CASE tpc = "nap"
      <4>1. lock_count[Timer] = 0
        BY <3>7 DEF IInv, TypeOK, LockInv, Pthreads
      <4>2. \A p \in Pthreads : lock_count[p] = 0
        BY <3>1, <4>1
      <4> QED
        BY <2>1, <2>5, <3>7, <4>2, SelectedGoesOn
    <3> QED
      BY <2>5, <3>2, <3>3, <3>4, <3>5, <3>6, <3>7 DEF IInv, TypeOK
  <2> QED
    BY <2>2, <2>3, <2>4, <2>5 DEF IInv, TypeOK, SchedPcs, DispatchPcs
<1> QED
  BY <1>1, Invariance, TimerIsAwaited, ProcessorIsHandedOver, PTL

-----------------------------------------------------------------------------
(***************************************************************************)
(* The semaphores in steps                                                 *)
(***************************************************************************)
\* What a step of the scheduler does to the places of the others.
LEMMA SchedulerSteps ==
    ASSUME IInv, SchedNext
    PROVE  /\ UNCHANGED <<tpc, pc, in_handler, timer_waiting>>
           /\ \A p \in Pthreads \ {Sched} : lock_count'[p] = lock_count[p]
           /\ lock_count'[Sched] > 0 => lock_count[Sched] > 0 \/ spc = "poll"
           /\ spc = "poll" => CanLock(Sched)
           /\ spc' \in {"stop_ack", "start"} =>
                 spc \in {"stop_ack", "start"} \/ ~timer_waiting
           /\ spc \in DispatchPcs /\ spc' \notin DispatchPcs =>
                 spc \in {"start", "start_isr"}
<1> USE PosixAssumption DEF IInv, TypeOK, LockInv, Pthreads, SchedPcs, DispatchPcs
<1>1. CASE PickThread
  BY <1>1 DEF PickThread, Locked, semVars, sigVars
<1>2. CASE DispatchBySignal
  BY <1>2 DEF DispatchBySignal, SendResume, Locked, kernelVars, semVars
<1>3. CASE DispatchBySemaphore
  BY <1>3 DEF DispatchBySemaphore, SendSuspend, kernelVars
<1>4. CASE TimerStopped
  BY <1>4 DEF TimerStopped, TakeAck, kernelVars, semVars
<1>5. CASE ThreadStarted
  BY <1>5 DEF ThreadStarted, SendResume, Locked, kernelVars
<1>6. CASE ThreadStartedInIsr
  BY <1>6 DEF ThreadStartedInIsr, Locked, kernelVars, sigVars
<1>7. CASE SchedWakes
  BY <1>7 DEF SchedWakes, kernelVars, sigVars
<1> QED
  BY <1>1, <1>2, <1>3, <1>4, <1>5, <1>6, <1>7 DEF SchedNext

\* What a step of the timer does.
LEMMA TimerSteps ==
    ASSUME IInv, TimerNext
    PROVE  /\ UNCHANGED <<spc, pc, in_handler>>
           /\ Free(Timer)
           /\ \A p \in Pthreads \ {Timer} : lock_count'[p] = lock_count[p]
           /\ lock_count'[Timer] > 0 =>
                 lock_count[Timer] > 0 \/ tpc \in {"save", "tick"}
           /\ tpc \in {"save", "tick", "restore"} => CanLock(Timer)
           /\ (timer_waiting <=> tpc \in {"isr_wait", "isr_lock"}) =>
                 (timer_waiting' <=> tpc' \in {"isr_wait", "isr_lock"})
           /\ timer_waiting' => timer_waiting \/ Posts(Timer)
           /\ tpc = "isr_wait" => tpc' = "isr_lock" /\ UNCHANGED timer_waiting
<1> USE PosixAssumption
        DEF IInv, TypeOK, LockInv, Pthreads, TimerPcs, Restoring, Free, Locked, Posts
<1>1. CASE NapEnds
  BY <1>1 DEF NapEnds, kernelVars, semVars, sigVars
<1>2. CASE ContextSaveIdle
  BY <1>2 DEF ContextSaveIdle, semVars, sigVars
<1>3. CASE ContextSaveStop
  BY <1>3 DEF ContextSaveStop, SendSuspend, kernelVars, semVars
<1>4. CASE ContextSaveStopped
  BY <1>4 DEF ContextSaveStopped, TakeAck, semVars
<1>5. CASE TickQuiet
  BY <1>5 DEF TickQuiet, kernelVars, semVars, sigVars
<1>6. CASE \E t \in Threads : TickExpires(t)
  BY <1>6 DEF TickExpires, sigVars
<1>7. CASE ContextRestoreIdle
  BY <1>7 DEF ContextRestoreIdle, sigVars
<1>8. CASE ContextRestoreResume
  BY <1>8 DEF ContextRestoreResume, SendResume
<1>9. CASE ContextRestorePreempt
  <2>1. /\ UNCHANGED <<spc, pc, in_handler>> /\ tpc = "restore" /\ Posts(Timer)
        /\ CanLock(Timer) /\ lock_count' = [lock_count EXCEPT ![Timer] = 0]
    BY <1>9 DEF ContextRestorePreempt, sigVars
  <2>2. CASE TimerParks
    BY <1>9, <2>1, <2>2 DEF ContextRestorePreempt
  <2>3. CASE ~TimerParks
    <3>1. timer_waiting' = FALSE /\ tpc' = "nap"
      BY <1>9, <2>3 DEF ContextRestorePreempt
    <3> QED
      BY <1>9, <2>1, <3>1 DEF ContextRestorePreempt
  <2> QED
    BY <2>2, <2>3
<1>10. CASE IsrWakes
  BY <1>10 DEF IsrWakes, kernelVars, sigVars
<1>11. CASE IsrLeaves
  BY <1>11 DEF IsrLeaves, sigVars
<1> QED
  BY <1>1, <1>2, <1>3, <1>4, <1>5, <1>6, <1>7, <1>8, <1>9, <1>10, <1>11
     DEF TimerNext

\* What a step of a thread does.
LEMMA ThreadSteps ==
    ASSUME IInv, NEW t \in Threads, ThreadNext(t)
    PROVE  /\ UNCHANGED <<spc, tpc, in_handler, timer_waiting>>
           /\ Free(t)
           /\ \A u \in Threads \ {t} : pc'[u] = pc[u]
           /\ \A p \in Pthreads \ {t} : lock_count'[p] = lock_count[p]
           /\ lock_count'[t] > 0 => lock_count[t] > 0 \/ NeedsMutex(t)
           /\ NeedsMutex(t) => CanLock(t)
           /\ AtSemaphore(t) /\ pc'[t] \in OnCpuPcs =>
                 pc[t] \in {"start_post", "run_post"}
           /\ pc[t] = "return_post" => pc'[t] = "run_wait"
<1> USE PosixAssumption
        DEF IInv, TypeOK, LockInv, Pthreads, Goto, Free, Locked, NeedsMutex,
            UnderMutex, AtSemaphore, Waits, Posts, OnCpuPcs, StopPcs
<1>1. CASE ThreadEntry(t) \/ RunWait(t)
  BY <1>1 DEF ThreadEntry, RunWait, kernelVars, sigVars
<1>2. CASE ThreadConfirms(t)
  BY <1>2 DEF ThreadConfirms, kernelVars, sigVars
<1>3. CASE DisableInterrupts(t)
  BY <1>3 DEF DisableInterrupts, sigVars
<1>4. CASE NestedDisableRestore(t)
  BY <1>4 DEF NestedDisableRestore, kernelVars, sigVars
<1>5. CASE OpenWindow(t)
  BY <1>5 DEF OpenWindow, EnableInterrupts, sigVars
<1>6. CASE Service(t)
  BY <1>6 DEF Service, EnableInterrupts, sigVars
<1>7. CASE ServiceReturns(t) \/ ServiceYields(t)
  BY <1>7 DEF ServiceReturns, ServiceYields, kernelVars, sigVars
<1>8. CASE SystemReturn(t)
  BY <1>8 DEF SystemReturn, sigVars
<1>9. CASE DrainScheduler(t) \/ PostScheduler(t)
  BY <1>9 DEF DrainScheduler, PostScheduler, kernelVars, sigVars
<1>10. CASE Relock(t)
  BY <1>10 DEF Relock, kernelVars, sigVars
<1> QED
  BY <1>1, <1>2, <1>3, <1>4, <1>5, <1>6, <1>7, <1>8, <1>9, <1>10
     DEF ThreadNext

LEMMA SemInitInv == SemInit => SemInv
<1> SUFFICES ASSUME SemInit PROVE SemInv
  OBVIOUS
<1> USE PosixAssumption, SemaphoreAssumption DEF SemInit, Init, Pthreads
<1>1. SemTypeOK
  BY DEF SemTypeOK
<1>4. OneHolds
  BY DEF OneHolds, Holds
<1>5. StopsOutsideSemaphores
  BY DEF StopsOutsideSemaphores
<1>6. NoLostWakeUp
  BY DEF NoLostWakeUp
<1>2. ThreadsInSemaphores /\ SchedulerInSemaphore /\ TimerInSemaphore
  BY DEF ThreadsInSemaphores, SchedulerInSemaphore, TimerInSemaphore
<1>3. MutexInv
  BY DEF MutexInv
<1> QED
  BY <1>1, <1>2, <1>3, <1>4, <1>5, <1>6 DEF SemInv

\* The steps inside a semaphore, which TxPosix does not have.
LEMMA InsideKeepsInv ==
    ASSUME IInv, SemInv, NEW p \in Pthreads, InSemaphore(p) \/ WakeSpuriously(p)
    PROVE  SemInv'
<1> USE PosixAssumption DEF SemInv, SemTypeOK
<1>1. UNCHANGED vars /\ Free(p)
  BY DEF InSemaphore, TakeMutex, Lock, Sleep, Wake, WakeSpuriously, Unlock, Moves
<1>2. /\ UNCHANGED <<spc, tpc, pc, lock_count, in_handler, timer_waiting>>
      /\ UNCHANGED <<sched_sem, isr_sem, run_sem>>
      /\ UNCHANGED <<current_ptr, execute_ptr, preempt_disable>>
  BY <1>1 DEF vars, kernelVars, semVars, sigVars
<1>3. \A q \in Pthreads \ {p} : stage'[q] = stage[q] /\ at'[q] = at[q]
  BY DEF InSemaphore, TakeMutex, Lock, Sleep, Wake, WakeSpuriously, Unlock, Moves
<1>4. SemTypeOK'
  <2>1. SemaphoreOf(p) \in Semaphores
    BY DEF SemaphoreOf, Semaphores, Pthreads
  <2> QED
    BY <2>1 DEF InSemaphore, TakeMutex, Lock, Sleep, Wake, WakeSpuriously, Unlock,
                Moves, Semaphores, Pthreads
<1>5. \/ stage'[p] = stage[p] /\ at'[p] = at[p]
      \/ stage'[p] = "locked" /\ LockFree(at'[p])
      \/ stage'[p] \notin {"locked", "done"}
  BY DEF InSemaphore, TakeMutex, Lock, Sleep, Wake, WakeSpuriously, Unlock, Moves
<1>6. OneHolds'
  BY <1>3, <1>5 DEF OneHolds, Holds, LockFree
<1>7. ThreadsInSemaphores'
  <2> SUFFICES ASSUME NEW t \in Threads
               PROVE  /\ stage'[t] \in {"locked", "asleep", "woken"} =>
                            AtSemaphore(t)' /\ at'[t] = SemaphoreOf(t)'
                      /\ stage'[t] = "done" /\ pc'[t] \in OnCpuPcs =>
                            spc' \in DispatchPcs /\ at'[t] = "sched"
    BY DEF ThreadsInSemaphores
  <2>1. (AtSemaphore(t)' <=> AtSemaphore(t)) /\ SemaphoreOf(t)' = SemaphoreOf(t)
    BY <1>2 DEF AtSemaphore, Waits, Posts, SemaphoreOf
  <2>2. \/ stage'[t] = stage[t] /\ at'[t] = at[t]
        \/ stage'[t] = "out"
        \/ stage'[t] = "locked" /\ AtSemaphore(t) /\ at'[t] = SemaphoreOf(t)
        \/ /\ stage'[t] \in {"locked", "asleep", "woken"} /\ at'[t] = at[t]
           /\ stage[t] \in {"locked", "asleep", "woken"}
    BY <1>3 DEF InSemaphore, TakeMutex, Lock, Sleep, Wake, WakeSpuriously, Unlock,
                Moves, Pthreads
  <2> QED
    BY <1>2, <2>1, <2>2 DEF ThreadsInSemaphores
<1>8. SchedulerInSemaphore'
  <2>1. ~Posts(Sched)
    BY DEF Posts
  <2>2. \/ stage'[Sched] = stage[Sched] /\ at'[Sched] = at[Sched]
        \/ stage'[Sched] = "out"
        \/ stage'[Sched] = "locked" /\ AtSemaphore(Sched) /\ at'[Sched] = SemaphoreOf(Sched)
        \/ /\ stage'[Sched] \in {"locked", "asleep", "woken"} /\ at'[Sched] = at[Sched]
           /\ stage[Sched] # "out"
    BY <1>3 DEF InSemaphore, TakeMutex, Lock, Sleep, Wake, WakeSpuriously, Unlock,
                Moves, Pthreads
  <2>3. SemaphoreOf(Sched) = "sched" /\ (Waits(Sched)' <=> Waits(Sched))
    BY <1>2, PosixAssumption DEF SemaphoreOf, Waits
  <2> QED
    BY <2>1, <2>2, <2>3 DEF SchedulerInSemaphore, AtSemaphore
<1>9. TimerInSemaphore'
  <2>1. \/ stage'[Timer] = stage[Timer]
           /\ (mutex' = mutex \/ mutex = None \/ (mutex = p /\ p # Timer))
        \/ stage'[Timer] = "out"
        \/ /\ stage'[Timer] = "locked" /\ UNCHANGED mutex
           /\ \/ stage[Timer] = "woken"
              \/ Waits(Timer) \/ mutex = Timer
        \/ stage'[Timer] \in {"asleep", "woken"} /\ UNCHANGED mutex
           /\ (stage[Timer] = "asleep" \/ Waits(Timer))
    BY <1>3, PosixAssumption
       DEF InSemaphore, TakeMutex, Lock, Sleep, Wake, WakeSpuriously, Unlock,
           Moves, Pthreads, AtSemaphore, UnderMutex
  <2>2. Waits(Timer) <=> tpc = "isr_wait"
    BY PosixAssumption DEF Waits
  <2>3. timer_waiting \in BOOLEAN
    BY DEF IInv, TypeOK
  <2> QED
    BY <1>2, <2>1, <2>2, <2>3, PosixAssumption, SemaphoreAssumption DEF TimerInSemaphore, Pthreads
<1>10. MutexInv'
  <2>1. \/ mutex' = mutex /\ stage[p] # "done"
        \/ mutex' = p /\ UnderMutex(p) /\ CanLock(p)
        \/ mutex' = None
        \/ mutex' = mutex /\ mutex # p
    BY DEF InSemaphore, TakeMutex, Lock, Sleep, Wake, WakeSpuriously, Unlock, Moves
  <2>2. UnderMutex(p) => p # Sched /\ (p \in Threads => pc[p] = "return_post")
    BY PosixAssumption DEF UnderMutex
  <2>3. mutex' # Sched /\ (mutex' # None => CanLock(mutex)')
    BY <1>2, <2>1, <2>2, PosixAssumption, SemaphoreAssumption DEF MutexInv, CanLock, Pthreads
  <2>4. ASSUME NEW t \in Threads, mutex' = t
        PROVE  pc'[t] = "return_post" \/ (pc'[t] = "run_wait" /\ stage'[t] = "done")
    BY <1>2, <1>3, <2>1, <2>2, <2>4, PosixAssumption, SemaphoreAssumption DEF MutexInv, Pthreads
  <2> QED
    BY <2>3, <2>4 DEF MutexInv
<1>11. StopsOutsideSemaphores'
  <2>1. mutex' \in {mutex, None, p}
    BY DEF InSemaphore, TakeMutex, Lock, Sleep, Wake, WakeSpuriously, Unlock, Moves
  <2> QED
    BY <1>1, <1>2, <1>3, <2>1, SemaphoreAssumption DEF StopsOutsideSemaphores, Free
<1>12. NoLostWakeUp'
  <2>1. \A s \in Semaphores : Count(s)' = Count(s)
    BY <1>2 DEF Count
  <2>2. stage'[p] # "asleep" \/ (at'[p] = at[p] /\ Count(at[p]) = 0)
    BY DEF InSemaphore, TakeMutex, Lock, Sleep, Wake, WakeSpuriously, Unlock, Moves,
           NoLostWakeUp
  <2>3. \A q \in Pthreads : at'[q] = at[q] => Count(at[q])' = Count(at[q])
    BY <1>2 DEF Count
  <2> QED
    BY <1>3, <2>2, <2>3 DEF NoLostWakeUp
<1> QED
  BY <1>4, <1>6, <1>7, <1>8, <1>9, <1>10, <1>11, <1>12

\* How a step of TxPosix changes the semaphores: p, if it is at one, unlocks
\* it, and sleepers may be woken.
LEMMA StepMoves ==
    ASSUME SemInv, NEW p \in Pthreads, Step(p)
    PROVE  /\ SemTypeOK'
           /\ mutex' = mutex /\ (NeedsMutex(p) => mutex \in {None, p})
           /\ \A q \in Pthreads \ {p} :
                 /\ at'[q] = at[q]
                 /\ stage'[q] = stage[q]
                       \/ (stage[q] = "asleep" /\ stage'[q] = "woken")
           /\ IF AtSemaphore(p)
              THEN stage[p] = "locked"
                   /\ stage'[p] = (IF p = Sched THEN "out" ELSE "done")
              ELSE stage[p] = "out" /\ stage'[p] = "out"
           /\ p # Sched => at'[p] = at[p]
<1> USE DEF SemInv, SemTypeOK
<1>1. /\ stage[p] = IF AtSemaphore(p) THEN "locked" ELSE "out"
      /\ stage' = [q \in Pthreads |->
                     IF q = p /\ AtSemaphore(p)
                     THEN IF p = Sched THEN "out" ELSE "done"
                     ELSE IF Signalled(q) THEN "woken" ELSE stage[q]]
      /\ at' = IF p = Sched THEN [at EXCEPT ![p] = None] ELSE at
      /\ mutex' = mutex /\ (NeedsMutex(p) => mutex \in {None, p})
  BY DEF Step, MayStep
<1>2. \A q \in Pthreads : Signalled(q) => stage[q] = "asleep"
  BY DEF Signalled
<1>3. \A q \in Pthreads \ {p} :
         /\ at'[q] = at[q]
         /\ stage'[q] = stage[q] \/ (stage[q] = "asleep" /\ stage'[q] = "woken")
  BY <1>1, <1>2
<1>4. IF AtSemaphore(p)
      THEN stage[p] = "locked" /\ stage'[p] = (IF p = Sched THEN "out" ELSE "done")
      ELSE stage[p] = "out" /\ stage'[p] = "out"
  BY <1>1, <1>2
<1>5. SemTypeOK'
  <2>1. stage' \in [Pthreads -> {"out", "locked", "asleep", "woken", "done"}]
    BY <1>1
  <2>2. at' \in [Pthreads -> Semaphores \cup {None}]
    BY <1>1
  <2>3. \A q \in Pthreads : stage'[q] # "out" => at'[q] \in Semaphores
    BY <1>1, <1>3, <1>4
  <2> QED
    BY <1>1, <2>1, <2>2, <2>3
<1> QED
  BY <1>1, <1>3, <1>4, <1>5

\* No step wakes a sleeper too late.
LEMMA StepWakes ==
    ASSUME IInv', SemInv, NEW p \in Pthreads, Step(p)
    PROVE  NoLostWakeUp'
<1> SUFFICES ASSUME NEW q \in Pthreads, stage'[q] = "asleep"
             PROVE  Count(at[q])' = 0
  BY DEF NoLostWakeUp
<1>1. stage[q] = "asleep" /\ at'[q] = at[q] /\ at[q] \in Semaphores /\ q # p
  BY StepMoves DEF SemInv, SemTypeOK
<1>2. Count(at[q]) = 0
  BY <1>1 DEF SemInv, NoLostWakeUp
<1>3. ~Signalled(q)
  BY <1>1 DEF Step, SemInv, SemTypeOK
<1>4. PICK r \in Semaphores : r = at[q]
  BY <1>1
<1>5. ~(Count(r)' > Count(r))
  BY <1>1, <1>3, <1>4 DEF Signalled
<1>6. Count(r)' \in Nat
  BY <1>4, PosixAssumption DEF IInv, TypeOK, Count, Semaphores
<1>7. Count(r)' = 0
  BY <1>2, <1>4, <1>5, <1>6
<1>8. Count(at[q])' = Count(r)'
  BY <1>1, <1>4 DEF Count
<1> QED
  BY <1>7, <1>8

\* A step leaves at most one pthread in a semaphore, for no step locks one.
LEMMA StepExcludes ==
    ASSUME SemInv, NEW p \in Pthreads, Step(p)
    PROVE  OneHolds'
<1>1. \A q \in Pthreads, s \in Semaphores : Holds(q, s)' => Holds(q, s)
  BY StepMoves DEF Holds, SemInv, SemTypeOK
<1> QED
  BY <1>1 DEF OneHolds, SemInv

\* The scheduler leaves a dispatch with its own semaphore locked: the thread
\* that it has started is out of that semaphore.
LEMMA SchedulerKeepsInv ==
    ASSUME IInv, IInv', SemInv, Step(Sched)
    PROVE  SemInv'
<1> USE PosixAssumption, SemaphoreAssumption DEF SemInv
<1>1. SchedNext /\ Sched \in Pthreads
  BY DEF Step, Pthreads
<1>2. /\ UNCHANGED <<tpc, pc, in_handler, timer_waiting>>
      /\ \A p \in Pthreads \ {Sched} : lock_count'[p] = lock_count[p]
      /\ lock_count'[Sched] > 0 => lock_count[Sched] > 0 \/ spc = "poll"
      /\ spc = "poll" => CanLock(Sched)
      /\ spc' \in {"stop_ack", "start"} =>
            spc \in {"stop_ack", "start"} \/ ~timer_waiting
      /\ spc \in DispatchPcs /\ spc' \notin DispatchPcs =>
            spc \in {"start", "start_isr"}
  BY <1>1, SchedulerSteps
<1>3. /\ SemTypeOK' /\ mutex' = mutex /\ (NeedsMutex(Sched) => mutex \in {None, Sched})
      /\ \A q \in Pthreads \ {Sched} :
            /\ at'[q] = at[q]
            /\ stage'[q] = stage[q] \/ (stage[q] = "asleep" /\ stage'[q] = "woken")
      /\ stage'[Sched] = "out"
      /\ AtSemaphore(Sched) => stage[Sched] = "locked"
  BY <1>1, StepMoves
<1>4. ThreadsInSemaphores'
  <2> SUFFICES ASSUME NEW t \in Threads
               PROVE  /\ stage'[t] \in {"locked", "asleep", "woken"} =>
                            AtSemaphore(t)' /\ at'[t] = SemaphoreOf(t)'
                      /\ stage'[t] = "done" /\ pc'[t] \in OnCpuPcs =>
                            spc' \in DispatchPcs /\ at'[t] = "sched"
    BY DEF ThreadsInSemaphores
  <2>1. (AtSemaphore(t)' <=> AtSemaphore(t)) /\ SemaphoreOf(t)' = SemaphoreOf(t)
    BY <1>2 DEF AtSemaphore, Waits, Posts, SemaphoreOf
  <2>2. CASE stage'[t] # "done"
    BY <1>2, <1>3, <2>1, <2>2 DEF ThreadsInSemaphores, Pthreads
  <2>3. CASE stage'[t] = "done" /\ pc[t] \in OnCpuPcs
    <3>1. spc \in DispatchPcs /\ at[t] = "sched" /\ stage[t] = "done"
      BY <1>3, <2>3 DEF ThreadsInSemaphores, Pthreads
    <3>2. spc \notin {"start", "start_isr"}
      <4> SUFFICES ASSUME spc \in {"start", "start_isr"} PROVE FALSE
        OBVIOUS
      <4>1. stage[Sched] = "locked"
        BY <1>3 DEF AtSemaphore, Waits
      <4>2. Holds(Sched, "sched") /\ Holds(t, "sched")
        BY <3>1, <4>1 DEF Holds, SchedulerInSemaphore
      <4> QED
        BY <1>1, <4>2 DEF OneHolds, Semaphores, Pthreads
    <3> QED
      BY <1>2, <1>3, <2>1, <2>3, <3>1, <3>2 DEF Pthreads
  <2> QED
    BY <1>2, <2>1, <2>2, <2>3
<1>5. SchedulerInSemaphore'
  BY <1>3 DEF SchedulerInSemaphore
<1>6. TimerInSemaphore'
  <2>1. timer_waiting \in BOOLEAN
    BY DEF IInv, TypeOK
  <2> QED
    BY <1>2, <1>3, <2>1 DEF TimerInSemaphore, Pthreads
<1>7. MutexInv'
  <2>1. mutex' # None => CanLock(mutex)'
    <3> SUFFICES ASSUME mutex # None PROVE CanLock(mutex)'
      BY <1>3
    <3>1. lock_count[Sched] = 0 /\ mutex # Sched /\ CanLock(mutex)
      BY <1>1 DEF MutexInv, CanLock
    <3>2. spc # "poll"
      BY <1>3, <3>1 DEF NeedsMutex
    <3>3. lock_count \in [Pthreads -> Nat] /\ lock_count' \in [Pthreads -> Nat]
      BY DEF IInv, TypeOK
    <3>4. lock_count'[Sched] = 0
      BY <1>1, <1>2, <3>1, <3>2, <3>3
    <3> QED
      BY <1>2, <1>3, <3>1, <3>4 DEF CanLock
  <2> QED
    BY <1>2, <1>3, <2>1 DEF MutexInv, Pthreads
<1>8. StopsOutsideSemaphores'
  BY <1>2, <1>3 DEF StopsOutsideSemaphores, Pthreads
<1> QED
  BY <1>1, <1>3, <1>4, <1>5, <1>6, <1>7, <1>8, StepWakes, StepExcludes

\* The timer is in a semaphore with the kernel mutex or with timer_waiting set.
LEMMA TimerKeepsInv ==
    ASSUME IInv, IInv', SemInv, Step(Timer)
    PROVE  SemInv'
<1> USE PosixAssumption, SemaphoreAssumption DEF SemInv
<1>1. TimerNext /\ Timer \in Pthreads
  BY DEF Step, Pthreads
<1>2. /\ UNCHANGED <<spc, pc, in_handler>>
      /\ Free(Timer)
      /\ \A p \in Pthreads \ {Timer} : lock_count'[p] = lock_count[p]
      /\ lock_count'[Timer] > 0 =>
            lock_count[Timer] > 0 \/ tpc \in {"save", "tick"}
      /\ tpc \in {"save", "tick", "restore"} => CanLock(Timer)
      /\ (timer_waiting <=> tpc \in {"isr_wait", "isr_lock"}) =>
            (timer_waiting' <=> tpc' \in {"isr_wait", "isr_lock"})
      /\ timer_waiting' => timer_waiting \/ Posts(Timer)
      /\ tpc = "isr_wait" => tpc' = "isr_lock" /\ UNCHANGED timer_waiting
  BY <1>1, TimerSteps
<1>3. /\ SemTypeOK' /\ mutex' = mutex /\ (NeedsMutex(Timer) => mutex \in {None, Timer})
      /\ \A q \in Pthreads \ {Timer} :
            /\ at'[q] = at[q]
            /\ stage'[q] = stage[q] \/ (stage[q] = "asleep" /\ stage'[q] = "woken")
      /\ IF AtSemaphore(Timer)
         THEN stage[Timer] = "locked" /\ stage'[Timer] = "done"
         ELSE stage[Timer] = "out" /\ stage'[Timer] = "out"
      /\ at'[Timer] = at[Timer]
  BY <1>1, StepMoves
<1>4. ThreadsInSemaphores'
  <2> SUFFICES ASSUME NEW t \in Threads
               PROVE  /\ stage'[t] \in {"locked", "asleep", "woken"} =>
                            AtSemaphore(t)' /\ at'[t] = SemaphoreOf(t)'
                      /\ stage'[t] = "done" /\ pc'[t] \in OnCpuPcs =>
                            spc' \in DispatchPcs /\ at'[t] = "sched"
    BY DEF ThreadsInSemaphores
  <2>1. (AtSemaphore(t)' <=> AtSemaphore(t)) /\ SemaphoreOf(t)' = SemaphoreOf(t)
    BY <1>2 DEF AtSemaphore, Waits, Posts, SemaphoreOf
  <2> QED
    BY <1>2, <1>3, <2>1 DEF ThreadsInSemaphores, Pthreads
<1>5. SchedulerInSemaphore'
  BY <1>2, <1>3 DEF SchedulerInSemaphore, Pthreads, Waits
<1>6. TimerInSemaphore'
  <2>1. timer_waiting \in BOOLEAN /\ timer_waiting' \in BOOLEAN
    BY DEF IInv, TypeOK
  <2>2. timer_waiting' <=> tpc' \in {"isr_wait", "isr_lock"}
    BY <1>2 DEF TimerInSemaphore
  <2>3. spc' \in {"stop_ack", "start"} => ~timer_waiting'
    <3> SUFFICES ASSUME spc \in {"stop_ack", "start"}, timer_waiting' PROVE FALSE
      BY <1>2
    <3>1. ~timer_waiting
      BY DEF TimerInSemaphore
    <3>2. Posts(Timer)
      BY <1>2, <3>1
    <3>3. CanLock(Timer)
      BY <1>2, <3>1, <3>2 DEF Posts, TimerInSemaphore
    <3> QED
      BY <3>3 DEF CanLock, Pthreads, IInv, LockInv, DispatchPcs
  <2>4. stage'[Timer] = "done" => timer_waiting' \/ mutex' = Timer
    <3> SUFFICES ASSUME stage'[Timer] = "done" PROVE timer_waiting' \/ mutex' = Timer
      OBVIOUS
    <3>1. stage[Timer] = "locked"
      BY <1>3
    <3>2. CASE mutex = Timer
      BY <1>3, <3>2
    <3>3. CASE tpc = "isr_wait"
      BY <1>2, <2>1, <3>3 DEF TimerInSemaphore
    <3> QED
      BY <3>1, <3>2, <3>3 DEF TimerInSemaphore
  <2>5. stage'[Timer] \notin {"locked", "asleep", "woken"}
    BY <1>3
  <2> QED
    BY <2>2, <2>3, <2>4, <2>5 DEF TimerInSemaphore
<1>7. MutexInv'
  <2>1. mutex' # None => CanLock(mutex)'
    <3> SUFFICES ASSUME mutex # None, mutex # Timer PROVE CanLock(mutex)'
      BY <1>2, <1>3 DEF MutexInv, CanLock
    <3>1. lock_count[Timer] = 0 /\ CanLock(mutex)
      BY <1>1 DEF MutexInv, CanLock
    <3>2. tpc \notin {"save", "tick"}
      BY <1>3 DEF NeedsMutex
    <3>3. lock_count \in [Pthreads -> Nat] /\ lock_count' \in [Pthreads -> Nat]
      BY DEF IInv, TypeOK
    <3>4. lock_count'[Timer] = 0
      BY <1>1, <1>2, <3>1, <3>2, <3>3
    <3> QED
      BY <1>2, <1>3, <3>1, <3>4 DEF CanLock
  <2> QED
    BY <1>2, <1>3, <2>1 DEF MutexInv, Pthreads
<1>8. StopsOutsideSemaphores'
  BY <1>2, <1>3 DEF StopsOutsideSemaphores, Pthreads, Free
<1> QED
  BY <1>1, <1>3, <1>4, <1>5, <1>6, <1>7, <1>8, StepWakes, StepExcludes

\* A thread that confirms its start is still in the dispatch.
LEMMA ThreadKeepsInv ==
    ASSUME IInv, IInv', SemInv, NEW t \in Threads, Step(t)
    PROVE  SemInv'
<1> USE PosixAssumption, SemaphoreAssumption DEF SemInv
<1>1. ThreadNext(t) /\ t \in Pthreads /\ t # Sched
  BY DEF Step, Pthreads
<1>2. /\ UNCHANGED <<spc, tpc, in_handler, timer_waiting>>
      /\ Free(t)
      /\ \A u \in Threads \ {t} : pc'[u] = pc[u]
      /\ \A p \in Pthreads \ {t} : lock_count'[p] = lock_count[p]
      /\ lock_count'[t] > 0 => lock_count[t] > 0 \/ NeedsMutex(t)
      /\ NeedsMutex(t) => CanLock(t)
      /\ AtSemaphore(t) /\ pc'[t] \in OnCpuPcs =>
            pc[t] \in {"start_post", "run_post"}
      /\ pc[t] = "return_post" => pc'[t] = "run_wait"
  BY <1>1, ThreadSteps
<1>3. /\ SemTypeOK' /\ mutex' = mutex /\ (NeedsMutex(t) => mutex \in {None, t})
      /\ \A q \in Pthreads \ {t} :
            /\ at'[q] = at[q]
            /\ stage'[q] = stage[q] \/ (stage[q] = "asleep" /\ stage'[q] = "woken")
      /\ IF AtSemaphore(t)
         THEN stage[t] = "locked" /\ stage'[t] = "done"
         ELSE stage[t] = "out" /\ stage'[t] = "out"
      /\ at'[t] = at[t]
  BY <1>1, StepMoves
<1>4. ThreadsInSemaphores'
  <2> SUFFICES ASSUME NEW u \in Threads
               PROVE  /\ stage'[u] \in {"locked", "asleep", "woken"} =>
                            AtSemaphore(u)' /\ at'[u] = SemaphoreOf(u)'
                      /\ stage'[u] = "done" /\ pc'[u] \in OnCpuPcs =>
                            spc' \in DispatchPcs /\ at'[u] = "sched"
    BY DEF ThreadsInSemaphores
  <2>1. CASE u # t
    <3>1. (AtSemaphore(u)' <=> AtSemaphore(u)) /\ SemaphoreOf(u)' = SemaphoreOf(u)
      BY <1>2, <2>1 DEF AtSemaphore, Waits, Posts, SemaphoreOf
    <3> QED
      BY <1>2, <1>3, <2>1, <3>1 DEF ThreadsInSemaphores, Pthreads
  <2>2. CASE u = t
    <3> SUFFICES ASSUME stage'[t] = "done", pc'[t] \in OnCpuPcs
                 PROVE  spc' \in DispatchPcs /\ at'[t] = "sched"
      BY <1>3, <2>2
    <3>1. pc[t] \in {"start_post", "run_post"} /\ stage[t] = "locked"
      BY <1>2, <1>3
    <3>2. at[t] = "sched"
      BY <3>1 DEF ThreadsInSemaphores, SemaphoreOf, Waits
    <3>3. t = current_ptr
      BY <3>1 DEF IInv, OffCpuInv, Stopped, Waiting, Leaving, StopPcs
    <3>4. spc \in DispatchPcs
      BY <3>1, <3>3
         DEF IInv, TypeOK, SchedPcs, SchedInv, OnCpu, OnCpuPcs, StopPcs, Stopped,
             Waiting, DispatchPcs
    <3> QED
      BY <1>2, <1>3, <3>2, <3>4
  <2> QED
    BY <2>1, <2>2
<1>5. SchedulerInSemaphore'
  BY <1>1, <1>2, <1>3 DEF SchedulerInSemaphore, Pthreads, Waits
<1>6. TimerInSemaphore'
  <2>1. timer_waiting \in BOOLEAN
    BY DEF IInv, TypeOK
  <2> QED
    BY <1>2, <1>3, <2>1 DEF TimerInSemaphore, Pthreads
<1>7. MutexInv'
  <2>1. mutex' # None => CanLock(mutex)'
    <3> SUFFICES ASSUME mutex # None, mutex # t PROVE CanLock(mutex)'
      BY <1>2, <1>3 DEF MutexInv, CanLock
    <3>1. lock_count[t] = 0 /\ CanLock(mutex)
      BY <1>1 DEF MutexInv, CanLock
    <3>2. ~NeedsMutex(t)
      BY <1>3
    <3>3. lock_count \in [Pthreads -> Nat] /\ lock_count' \in [Pthreads -> Nat]
      BY DEF IInv, TypeOK
    <3>4. lock_count'[t] = 0
      BY <1>1, <1>2, <3>1, <3>2, <3>3
    <3> QED
      BY <1>2, <1>3, <3>1, <3>4 DEF CanLock
  <2>2. ASSUME NEW u \in Threads, mutex = u
        PROVE  pc'[u] = "return_post" \/ (pc'[u] = "run_wait" /\ stage'[u] = "done")
    <3>1. pc[u] = "return_post" \/ (pc[u] = "run_wait" /\ stage[u] = "done")
      BY <2>2 DEF MutexInv
    <3>2. CASE u # t
      BY <1>2, <1>3, <3>1, <3>2 DEF Pthreads
    <3>3. CASE u = t
      <4>1. pc[t] = "return_post" /\ AtSemaphore(t)
        BY <1>3, <3>1, <3>3 DEF AtSemaphore, Waits, Posts
      <4> QED
        BY <1>2, <1>3, <3>3, <4>1
    <3> QED
      BY <3>2, <3>3
  <2> QED
    BY <1>3, <2>1, <2>2 DEF MutexInv
<1>8. StopsOutsideSemaphores'
  BY <1>2, <1>3 DEF StopsOutsideSemaphores, Pthreads, Free
<1> QED
  BY <1>1, <1>3, <1>4, <1>5, <1>6, <1>7, <1>8, StepWakes, StepExcludes

\* A pthread that a signal stops is not in a semaphore: the scheduler is in no
\* dispatch when the timer stops a thread, and it does not stop the timer when
\* that waits.
LEMMA SignalsKeepInv ==
    ASSUME IInv, SemInv, Signals, UNCHANGED semaphoreVars
    PROVE  SemInv'
<1> USE PosixAssumption, SemaphoreAssumption DEF SemInv, semaphoreVars
<1>1. PICK p \in Pthreads : SuspendHandlerEnter(p) \/ SuspendHandlerLeave(p)
  BY DEF Signals
<1>2. /\ UNCHANGED <<spc, pc, lock_count, timer_waiting, sched_sem, isr_sem, run_sem>>
      /\ UNCHANGED <<current_ptr, execute_ptr, preempt_disable>>
      /\ tpc' = tpc \/ (tpc = "nap" /\ tpc' = "save")
      /\ \A q \in Pthreads : in_handler'[q] =>
            in_handler[q] \/ (q = p /\ sig_suspend[p] /\ ~in_handler[p])
  BY <1>1 DEF SuspendHandlerEnter, SuspendHandlerLeave, NapInterrupted, kernelVars,
              semVars, IInv, TypeOK
<1>3. SemTypeOK' /\ OneHolds' /\ NoLostWakeUp'
  BY <1>2 DEF SemTypeOK, OneHolds, Holds, NoLostWakeUp, Count
<1>4. ThreadsInSemaphores'
  BY <1>2 DEF ThreadsInSemaphores, AtSemaphore, Waits, Posts, SemaphoreOf
<1>5. SchedulerInSemaphore' /\ MutexInv'
  BY <1>2 DEF SchedulerInSemaphore, MutexInv, Waits, CanLock
<1>6. TimerInSemaphore'
  <2>1. timer_waiting \in BOOLEAN
    BY DEF IInv, TypeOK
  <2> QED
    BY <1>2, <2>1 DEF TimerInSemaphore
<1>7. StopsOutsideSemaphores'
  <2> SUFFICES ASSUME sig_suspend[p], ~in_handler[p]
               PROVE  mutex # p /\ stage[p] \notin {"locked", "done"}
    BY <1>2 DEF StopsOutsideSemaphores
  <2>1. CASE p = Timer
    <3>1. spc = "stop_ack"
      BY <2>1 DEF IInv, AckInv, Resumable, NoSignal
    <3>2. ~timer_waiting /\ tpc # "isr_wait" /\ mutex # Timer
      BY <3>1 DEF TimerInSemaphore, MutexInv, CanLock, Pthreads, IInv, LockInv,
                  DispatchPcs
    <3> QED
      BY <2>1, <3>2 DEF TimerInSemaphore
  <2>2. CASE p \in Threads
    <3>1. p = current_ptr
      BY <2>2 DEF IInv, OffCpuInv, Stopped, Waiting, Leaving, NoSignal
    <3>2. spc = "wait" /\ OnCpu(p)
      BY <2>2, <3>1
         DEF IInv, TypeOK, SchedPcs, SchedInv, Stopped, Waiting, Dispatched,
             NoSignal, DispatchPcs
    <3>3. pc[p] \in OnCpuPcs
      BY <3>2 DEF OnCpu
    <3>4. ~AtSemaphore(p) /\ pc[p] \notin {"return_post", "run_wait"}
      BY <2>2, <3>3 DEF AtSemaphore, Waits, Posts, OnCpuPcs, StopPcs
    <3> QED
      BY <2>2, <3>2, <3>3, <3>4 DEF ThreadsInSemaphores, MutexInv, DispatchPcs
  <2>3. p # Sched
    BY DEF IInv, AckInv, NoSignal
  <2> QED
    BY <2>1, <2>2, <2>3 DEF Pthreads
<1> QED
  BY <1>3, <1>4, <1>5, <1>6, <1>7

\* A step of TxPosixSem is one of TxPosix or changes nothing there.
LEMMA SemNextIsNext == [SemNext]_allVars => [Next]_vars
<1>1. ASSUME NEW p \in Pthreads, Step(p) PROVE Next
  BY <1>1 DEF Step, Next, Pthreads
<1>2. ASSUME NEW p \in Pthreads, InSemaphore(p) \/ WakeSpuriously(p)
      PROVE  UNCHANGED vars
  BY <1>2 DEF InSemaphore, TakeMutex, Lock, Sleep, Wake, WakeSpuriously, Unlock, Moves
<1>3. Signals => Next
  BY DEF Signals, Next
<1> QED
  BY <1>1, <1>2, <1>3 DEF SemNext, allVars

LEMMA SemNextInv ==
    ASSUME IInv, IInv', SemInv, [SemNext]_allVars PROVE SemInv'
<1>1. ASSUME NEW p \in Pthreads, Step(p) PROVE SemInv'
  BY <1>1, SchedulerKeepsInv, TimerKeepsInv, ThreadKeepsInv DEF Pthreads
<1>2. CASE UNCHANGED allVars
  <2>1. UNCHANGED <<stage, at, mutex, spc, tpc, pc, lock_count, in_handler,
                    timer_waiting, sched_sem, isr_sem, run_sem,
                    current_ptr, execute_ptr, preempt_disable>>
    BY <1>2 DEF allVars, semaphoreVars, vars, kernelVars, semVars, sigVars
  <2> USE DEF SemInv
  <2>2. SemTypeOK' /\ OneHolds' /\ StopsOutsideSemaphores' /\ NoLostWakeUp'
    BY <2>1 DEF SemTypeOK, OneHolds, Holds, StopsOutsideSemaphores, NoLostWakeUp, Count
  <2>3. ThreadsInSemaphores'
    <3>1. \A t \in Threads : AtSemaphore(t)' = AtSemaphore(t)
                           /\ SemaphoreOf(t)' = SemaphoreOf(t)
      BY <2>1 DEF AtSemaphore, Waits, Posts, SemaphoreOf, Preempts
    <3> QED
      BY <2>1, <3>1 DEF ThreadsInSemaphores
  <2>4. SchedulerInSemaphore'
    BY <2>1 DEF SchedulerInSemaphore, Waits
  <2>5. MutexInv'
    BY <2>1 DEF MutexInv, CanLock
  <2>6. TimerInSemaphore'
    <3>1. timer_waiting \in BOOLEAN
      BY DEF IInv, TypeOK
    <3> QED
      BY <2>1, <3>1 DEF TimerInSemaphore
  <2> QED
    BY <2>2, <2>3, <2>4, <2>5, <2>6
<1> QED
  BY <1>1, <1>2, InsideKeepsInv, SignalsKeepInv DEF SemNext

\* Every behaviour with the semaphores in steps is one of TxPosix to which the
\* kernel and the threads cannot tell the difference.
THEOREM SemaphoresAreAtomic == SemSpec => Spec
<1>1. SemInit => Init
  BY DEF SemInit
<1> QED
  BY <1>1, SemNextIsNext, PTL DEF SemSpec, Spec

THEOREM SemInvariance == SemSpec => []SemInv
<1>1. SemSpec => []IInv
  BY SemaphoresAreAtomic, Invariance, PTL
<1>2. IInv /\ IInv' /\ SemInv /\ [SemNext]_allVars => SemInv'
  BY SemNextInv
<1> QED
  BY <1>1, <1>2, SemInitInv, PTL DEF SemSpec

\* No pthread is stopped with the lock of a semaphore or the kernel mutex.
THEOREM NoStopInSemaphore == SemSpec => []StopsOutsideSemaphores
  BY SemInvariance, PTL DEF SemInv

\* No pthread sleeps on at a semaphore that has a token.
THEOREM NoSleeperIsForgotten == SemSpec => []NoLostWakeUp
  BY SemInvariance, PTL DEF SemInv
=============================================================================
