------------------------------ MODULE TxPosixSem ------------------------------
(***************************************************************************)
(* The semaphores of the POSIX host port (tx_port.h), which TxPosix takes  *)
(* for atomic: each is a count with a lock and a condition variable of its *)
(* own, and a pthread may be stopped by a signal anywhere inside, with the *)
(* lock in its hands.  A step of a pthread at a semaphore becomes here     *)
(*                                                                         *)
(*   (TakeMutex)  Lock  (Sleep  Wake)*  the step of TxPosix  Unlock        *)
(*                                                                         *)
(* so that whoever needs the lock, or the kernel mutex held around it, has *)
(* to wait meanwhile.  Draining a semaphore, and posting it after that, is *)
(* one hold of its lock.  Nobody stops the scheduler: it unlocks with the  *)
(* step itself, and its posts wait for the lock only.                      *)
(***************************************************************************)
EXTENDS TxPosixInv

ASSUME SemaphoreAssumption == None \notin Pthreads

VARIABLES
    stage,   \* how far each pthread is in its semaphore operation
    at,      \* the semaphore it is in
    mutex    \* who has the kernel mutex for such an operation

semaphoreVars == <<stage, at, mutex>>
allVars == <<vars, semaphoreVars>>

\* The semaphore of a thread has the thread's name.
Semaphores == Threads \cup {"sched", "isr"}

Count(s) == CASE s = "sched" -> sched_sem
              [] s = "isr"   -> isr_sem
              [] OTHER       -> run_sem[s]

SemTypeOK ==
    /\ stage \in [Pthreads -> {"out", "locked", "asleep", "woken", "done"}]
    /\ at \in [Pthreads -> Semaphores \cup {None}]
    /\ \A p \in Pthreads : stage[p] # "out" => at[p] \in Semaphores
    /\ mutex \in Pthreads \cup {None}

SemInit ==
    /\ Init
    /\ stage = [p \in Pthreads |-> "out"]
    /\ at = [p \in Pthreads |-> None]
    /\ mutex = None

-----------------------------------------------------------------------------
(***************************************************************************)
(* Which pthread is at which semaphore.                                    *)
(***************************************************************************)
Waits(p) ==
    CASE p = Sched -> spc \in {"start", "start_isr", "wait"}
      [] p = Timer -> tpc = "isr_wait"
      [] OTHER     -> pc[p] \in {"start_wait", "run_wait"}

Posts(p) ==
    CASE p = Sched -> FALSE
      [] p = Timer -> \/ tpc = "restore" /\ current_ptr # None /\ Preempts
                      \/ tpc = "isr_lock"
      [] OTHER     -> pc[p] \in {"start_post", "run_post",
                                 "return_drain", "return_post"}

AtSemaphore(p) == Waits(p) \/ Posts(p)

SemaphoreOf(p) ==
    IF p = Timer THEN (IF tpc = "restore" THEN "sched" ELSE "isr")
    ELSE IF p \in Threads /\ Waits(p) THEN p
    ELSE "sched"

\* The kernel mutex is held around the operation.
UnderMutex(p) ==
    CASE p = Sched -> FALSE
      [] p = Timer -> Posts(p)
      [] OTHER     -> pc[p] = "return_post"

\* The step takes the kernel mutex, or has it.
NeedsMutex(p) ==
    \/ UnderMutex(p)
    \/ CASE p = Sched -> spc = "poll"
         [] p = Timer -> tpc \in {"save", "tick", "restore"}
         [] OTHER     -> pc[p] \in {"app", "window", "return", "relock"}

Holds(p, s) == at[p] = s /\ stage[p] \in {"locked", "done"}
LockFree(s) == \A q \in Pthreads : ~Holds(q, s)

-----------------------------------------------------------------------------
(***************************************************************************)
(* Inside a semaphore operation                                            *)
(***************************************************************************)
Moves(p, from, to) ==
    /\ stage[p] = from /\ Free(p)
    /\ stage' = [stage EXCEPT ![p] = to]
    /\ UNCHANGED vars

TakeMutex(p) ==
    /\ UnderMutex(p) /\ CanLock(p) /\ mutex = None
    /\ stage[p] = "out" /\ Free(p)
    /\ mutex' = p
    /\ UNCHANGED <<vars, stage, at>>

Lock(p) ==
    /\ AtSemaphore(p) /\ (UnderMutex(p) => mutex = p)
    /\ LockFree(SemaphoreOf(p))
    /\ Moves(p, "out", "locked")
    /\ at' = [at EXCEPT ![p] = SemaphoreOf(p)]
    /\ UNCHANGED mutex

\* pthread_cond_wait releases the lock and takes it back.
Sleep(p) ==
    /\ Moves(p, "locked", "asleep")
    /\ Waits(p) /\ Count(at[p]) = 0
    /\ UNCHANGED <<at, mutex>>

Wake(p) ==
    /\ Moves(p, "woken", "locked")
    /\ LockFree(at[p])
    /\ UNCHANGED <<at, mutex>>

\* It may also return for no reason.
WakeSpuriously(p) ==
    /\ Moves(p, "asleep", "woken")
    /\ UNCHANGED <<at, mutex>>

Unlock(p) ==
    /\ Moves(p, "done", "out")
    /\ at' = [at EXCEPT ![p] = None]
    /\ mutex' = IF mutex = p THEN None ELSE mutex

InSemaphore(p) ==
    TakeMutex(p) \/ Lock(p) \/ Sleep(p) \/ Wake(p) \/ Unlock(p)

-----------------------------------------------------------------------------
(***************************************************************************)
(* The steps of TxPosix                                                    *)
(***************************************************************************)
\* The semaphores that the scheduler posts, its own not among them.
Started == CASE spc = "picked" /\ ~ResumeByte(current_ptr) -> {current_ptr}
             [] spc = "start_isr"                         -> {"isr"}
             [] OTHER                                     -> {}

\* Mutant: a token that is there is taken without the lock.
MayStepFast(p) ==
    IF Waits(p) THEN stage[p] \in {"out", "locked"}
    ELSE IF Posts(p) THEN stage[p] = "locked" ELSE stage[p] = "out"
MayStep(p) ==
    /\ stage[p] = IF AtSemaphore(p) THEN "locked" ELSE "out"
    /\ p = Sched => \A s \in Started : LockFree(s)

\* pthread_cond_signal
SignalNone(q) == FALSE   \* mutant: no signal
Signalled(q) ==
    /\ stage[q] = "asleep"
    /\ at[q] \in {s \in Semaphores : Count(s)' > Count(s)}

Step(p) ==
    /\ MayStep(p)
    /\ NeedsMutex(p) => mutex \in {None, p}
    /\ CASE p = Sched -> SchedNext
         [] p = Timer -> TimerNext
         [] OTHER     -> ThreadNext(p)
    /\ stage' = [q \in Pthreads |->
                   IF q = p /\ AtSemaphore(p)
                   THEN IF p = Sched THEN "out" ELSE "done"
                   ELSE IF Signalled(q) THEN "woken" ELSE stage[q]]
    /\ at' = IF p = Sched THEN [at EXCEPT ![p] = None] ELSE at
    /\ UNCHANGED mutex

SemNext ==
    \/ \E p \in Pthreads : Step(p) \/ InSemaphore(p) \/ WakeSpuriously(p)
    \/ Signals /\ UNCHANGED semaphoreVars

SemSpec == SemInit /\ [][SemNext]_allVars

\* As in TxPosix; each pthread of its own, for they may wake spuriously.
Goes(p) == InSemaphore(p) \/ ((p \in Threads => pc[p] # "app") /\ Step(p))

SemFairness ==
    /\ \A p \in Pthreads : SF_allVars(Goes(p))
    /\ WF_allVars(Signals /\ UNCHANGED semaphoreVars)

SemFairSpec == SemSpec /\ SemFairness

-----------------------------------------------------------------------------
(***************************************************************************)
(* Why they may be taken for atomic                                        *)
(***************************************************************************)
\* No signal stops a pthread inside a semaphore, with its lock or with the
\* kernel mutex: what the stopped one holds, the others would wait for.
StopsOutsideSemaphores ==
    \A p \in Pthreads :
        in_handler[p] => mutex # p /\ stage[p] \notin {"locked", "done"}

\* Nobody sleeps at a semaphore that has a token.
NoLostWakeUp ==
    \A p \in Pthreads : stage[p] = "asleep" => Count(at[p]) = 0

-----------------------------------------------------------------------------
(***************************************************************************)
(* The inductive invariant, beside IInv.  A stop needs the kernel mutex.   *)
(* The scheduler keeps it from the choice of a thread until it has locked  *)
(* its own semaphore and taken the token, and the thread has to leave that *)
(* semaphore before; the timer is in one only with the kernel mutex or     *)
(* with timer_waiting set, and is not stopped then.                        *)
(***************************************************************************)
OneHolds ==
    \A p, q \in Pthreads : \A s \in Semaphores :
        Holds(p, s) /\ Holds(q, s) => p = q

ThreadsInSemaphores ==
    \A t \in Threads :
        /\ stage[t] \in {"locked", "asleep", "woken"} =>
              AtSemaphore(t) /\ at[t] = SemaphoreOf(t)
        /\ stage[t] = "done" /\ pc[t] \in OnCpuPcs =>
              spc \in DispatchPcs /\ at[t] = "sched"

SchedulerInSemaphore ==
    stage[Sched] # "out" =>
        stage[Sched] # "done" /\ at[Sched] = "sched" /\ Waits(Sched)

TimerInSemaphore ==
    /\ timer_waiting <=> tpc \in {"isr_wait", "isr_lock"}
    /\ spc \in {"stop_ack", "start"} => ~timer_waiting
    /\ stage[Timer] = "locked" => tpc = "isr_wait" \/ mutex = Timer
    /\ stage[Timer] \in {"asleep", "woken"} => tpc = "isr_wait"
    /\ stage[Timer] = "done" => timer_waiting \/ mutex = Timer

MutexInv ==
    /\ mutex # Sched
    /\ mutex # None => CanLock(mutex)
    /\ \A t \in Threads : mutex = t =>
          pc[t] = "return_post" \/ (pc[t] = "run_wait" /\ stage[t] = "done")

SemInv ==
    /\ SemTypeOK /\ OneHolds /\ ThreadsInSemaphores /\ SchedulerInSemaphore
    /\ TimerInSemaphore /\ MutexInv /\ StopsOutsideSemaphores /\ NoLostWakeUp
=============================================================================
