-------------------------------- MODULE QemuRun -------------------------------
(***************************************************************************)
(* src/scripts/qemu-run.sh: the script starts QEMU in the background and a *)
(* watchdog beside it, which sleeps, writes a sentinel file and kills QEMU *)
(* if it still runs.  The script waits for QEMU, stops the watchdog and    *)
(* takes the sentinel for a sign that QEMU was killed.  A TERM (or INT)    *)
(* runs the clean-up between any two commands of the script.               *)
(*                                                                         *)
(* Bounds: one signal at most, none during the clean-up.  Time is left     *)
(* out: the watchdog may wake at any moment.  The guest may hang, and it   *)
(* may ignore a TERM.                                                      *)
(***************************************************************************)
EXTENDS Integers

VARIABLES
    script,    \* the next command of the script
    sh,        \* its variables, of a pid or a name only whether it is set
    guest,     \* QEMU: none, running, done by itself, or killed
    code,      \* its exit status
    watchdog,  \* the next command of the watchdog; none, or dead
    stopped,   \* a TERM is on its way to the watchdog
    sleeper,   \* the watchdog's sleep runs: a process of its own
    sentinel   \* the file exists

guestVars == <<guest, code>>
watchdogVars == <<watchdog, stopped, sleeper>>
vars == <<script, sh, guestVars, watchdogVars, sentinel>>

Main == {"mktemp", "launch", "set_pid", "watch", "set_watchdog", "wait",
         "stop", "reap", "judge"}
CleanUp == {"trap_stop", "trap_reap", "trap_term", "trap_kill", "trap_rm"}
Codes == {0, 1, 137, 143}

TypeOK ==
    /\ script \in Main \union CleanUp \union {"over"}
    /\ sh \in [semihosting : BOOLEAN, qemu_pid : BOOLEAN, watchdog_pid : BOOLEAN,
               timeout_flag : BOOLEAN, rc : Codes, timed_out : BOOLEAN,
               status : Codes]
    /\ guest \in {"none", "running", "done", "killed"}
    /\ code \in Codes
    /\ watchdog \in {"none", "sleep", "write", "term", "kill", "dead"}
    /\ {stopped, sleeper, sentinel} \subseteq BOOLEAN

Init ==
    /\ script = "mktemp"
    /\ sh \in [semihosting : BOOLEAN, qemu_pid : {FALSE}, watchdog_pid : {FALSE},
               timeout_flag : {FALSE}, rc : {0}, timed_out : {FALSE}, status : {0}]
    /\ guest = "none" /\ code = 0
    /\ watchdog = "none" /\ stopped = FALSE /\ sleeper = FALSE
    /\ sentinel = FALSE

-----------------------------------------------------------------------------
(***************************************************************************)
(* kill and wait                                                           *)
(***************************************************************************)
GuestStays == UNCHANGED guestVars

\* QEMU answers a TERM, if at all, by ending with status 0 or by the signal.
TermGuest ==
    \/ GuestStays
    \/ guest = "running" /\ guest' = "killed" /\ code' \in {0, 143}

KillGuest ==
    IF guest = "running" THEN guest' = "killed" /\ code' = 137 ELSE GuestStays

WatchdogGone == watchdog \in {"none", "dead"}

StopWatchdog == stopped' = (stopped \/ ~WatchdogGone) /\ UNCHANGED <<watchdog, sleeper>>

NotWaited == TRUE   \* mutant
Waited    == WatchdogGone

-----------------------------------------------------------------------------
(***************************************************************************)
(* The script                                                              *)
(***************************************************************************)
Go(from, to, s) == script = from /\ script' = to /\ sh' = s

Alone == UNCHANGED <<guestVars, watchdogVars, sentinel>>

\* mktemp makes the file, rm removes it: the name is kept.
MakeName ==
    Go("mktemp", "launch", [sh EXCEPT !.timeout_flag = TRUE]) /\ Alone

Launch ==
    /\ Go("launch", "set_pid", sh)
    /\ guest' = "running"
    /\ UNCHANGED <<code, watchdogVars, sentinel>>

SetPid == Go("set_pid", "watch", [sh EXCEPT !.qemu_pid = TRUE]) /\ Alone

Watch ==
    /\ Go("watch", "set_watchdog", sh)
    /\ watchdog' = "sleep" /\ sleeper' = TRUE
    /\ UNCHANGED <<stopped, guestVars, sentinel>>

SetWatchdog ==
    Go("set_watchdog", "wait", [sh EXCEPT !.watchdog_pid = TRUE]) /\ Alone

Wait ==
    /\ guest # "running"
    /\ Go("wait", "stop", [sh EXCEPT !.rc = code, !.qemu_pid = FALSE])
    /\ Alone

Stop ==
    /\ Go("stop", "reap", sh)
    /\ StopWatchdog
    /\ UNCHANGED <<guestVars, sentinel>>

Reap ==
    /\ Waited
    /\ Go("reap", "judge", [sh EXCEPT !.watchdog_pid = FALSE])
    /\ Alone

\* Without semihosting a timeout is the normal end.
Verdict(late) ==
    IF late THEN (IF sh.semihosting THEN 1 ELSE 0) ELSE sh.rc

Judge ==
    /\ Go("judge", "trap_stop",
          [sh EXCEPT !.timed_out = sentinel, !.status = Verdict(sentinel),
                     !.timeout_flag = FALSE])
    /\ sentinel' = FALSE
    /\ UNCHANGED <<guestVars, watchdogVars>>

\* A signal takes effect between two commands, or in a wait.
Signal ==
    /\ \E from \in Main : Go(from, "trap_stop", [sh EXCEPT !.status = 143])
    /\ Alone

-----------------------------------------------------------------------------
(***************************************************************************)
(* cleanup                                                                 *)
(***************************************************************************)
CleanStop ==
    /\ Go("trap_stop", "trap_reap", sh)
    /\ IF sh.watchdog_pid THEN StopWatchdog ELSE UNCHANGED watchdogVars
    /\ UNCHANGED <<guestVars, sentinel>>

CleanReap ==
    /\ sh.watchdog_pid => Waited
    /\ Go("trap_reap", "trap_term", [sh EXCEPT !.watchdog_pid = FALSE])
    /\ Alone

CleanTerm ==
    /\ Go("trap_term", "trap_kill", sh)
    /\ IF sh.qemu_pid THEN TermGuest ELSE GuestStays
    /\ UNCHANGED <<watchdogVars, sentinel>>

CleanKill ==
    /\ Go("trap_kill", "trap_rm", [sh EXCEPT !.qemu_pid = FALSE])
    /\ IF sh.qemu_pid THEN KillGuest ELSE GuestStays
    /\ UNCHANGED <<watchdogVars, sentinel>>

CleanSentinel ==
    /\ Go("trap_rm", "over", sh)
    /\ sentinel' = (sentinel /\ ~sh.timeout_flag)
    /\ UNCHANGED <<guestVars, watchdogVars>>

Commands ==
    \/ MakeName \/ Launch \/ SetPid \/ Watch \/ SetWatchdog \/ Wait \/ Stop
    \/ Reap \/ Judge
    \/ CleanStop \/ CleanReap \/ CleanTerm \/ CleanKill \/ CleanSentinel

-----------------------------------------------------------------------------
(***************************************************************************)
(* The watchdog: a TERM ends it, perhaps after the command it is in.       *)
(***************************************************************************)
WatchdogGoes(from, to) ==
    watchdog = from /\ watchdog' = to /\ UNCHANGED <<stopped, script, sh>>

WakeUp ==
    /\ WatchdogGoes("sleep", "write")
    /\ sleeper' = FALSE
    /\ UNCHANGED <<guestVars, sentinel>>

NoSentinel    == UNCHANGED sentinel   \* mutant
WriteSentinel == sentinel' = TRUE

Write ==
    /\ WatchdogGoes("write", "term")
    /\ WriteSentinel
    /\ UNCHANGED <<guestVars, sleeper>>

Term ==
    /\ WatchdogGoes("term", "kill")
    /\ TermGuest
    /\ sleeper' = TRUE
    /\ UNCHANGED sentinel

\* After a second of sleep.
Kill ==
    /\ WatchdogGoes("kill", "dead")
    /\ KillGuest
    /\ sleeper' = FALSE
    /\ UNCHANGED sentinel

\* The TERM ends the watchdog, not the sleep that it waits for.
Die ==
    /\ stopped /\ ~WatchdogGone
    /\ WatchdogGoes(watchdog, "dead")
    /\ UNCHANGED <<sleeper, guestVars, sentinel>>

SleepEnds ==
    /\ sleeper /\ WatchdogGoes("dead", "dead")
    /\ sleeper' = FALSE
    /\ UNCHANGED <<guestVars, sentinel>>

Watchdog == WakeUp \/ Write \/ Term \/ Kill \/ Die \/ SleepEnds

GuestExits ==
    /\ guest = "running"
    /\ guest' = "done" /\ code' \in {0, 1}
    /\ UNCHANGED <<script, sh, watchdogVars, sentinel>>

Next == Commands \/ Signal \/ Watchdog \/ GuestExits

\* The script and the watchdog go on; the guest need not.
Spec == Init /\ [][Next]_vars /\ WF_vars(Commands) /\ WF_vars(Watchdog)

-----------------------------------------------------------------------------
(***************************************************************************)
(* What the script promises                                                *)
(***************************************************************************)
Over == script = "over"

\* With semihosting, success is the guest's own: never that of a guest which
\* the watchdog killed, although QEMU answers a TERM with status 0.
NoFalseSuccess ==
    Over /\ sh.semihosting /\ sh.status = 0 => guest = "done" /\ code = 0

\* Neither the guest, the watchdog nor the sentinel is left when the script
\* is over; after a signal only if the script has known the pid of a watchdog
\* that still ran.
NothingLeftBehind ==
    Over /\ (sh.status # 143 \/ stopped) =>
        guest # "running" /\ WatchdogGone /\ ~sentinel
=============================================================================
