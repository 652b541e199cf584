----------------------------- MODULE CheckLoopInv -----------------------------
(***************************************************************************)
(* The inductive invariant behind the properties of CheckLoop: what a      *)
(* command of qemu-run.sh may take for granted, how the lines of the loop  *)
(* and what the tests did correspond, and what is known of a job that has  *)
(* ended.                                                                  *)
(***************************************************************************)
EXTENDS CheckLoop

(***************************************************************************)
(* The script                                                              *)
(***************************************************************************)
BeforeWatch == {"mktemp", "launch", "set_pid", "watch"}
GuestKnown  == {"watch", "set_watchdog", "wait"}
AfterWait   == {"stop", "reap", "judge"}
Ending      == CleanUp \union {"over"}

\* The watchdog starts once, with no sentinel and nobody to stop it; it is
\* known to the script one command later.
WatchdogInv ==
    /\ script \in BeforeWatch =>
           watchdog = "none" /\ ~stopped /\ ~sentinel /\ ~sh.watchdog_pid
    /\ script \in {"set_watchdog", "wait"} => ~stopped
    /\ script = "set_watchdog" => ~sh.watchdog_pid
    /\ script \in {"wait", "stop", "reap"} => sh.watchdog_pid
    /\ script = "judge" => WatchdogGone
    /\ stopped => sh.watchdog_pid \/ WatchdogGone
    /\ script \in {"trap_term", "trap_kill", "trap_rm", "over"} =>
           ~sh.watchdog_pid

\* A guest that runs is known to whoever knows the watchdog.
GuestInv ==
    /\ script = "set_pid" => guest # "none"
    /\ script \in GuestKnown => sh.qemu_pid /\ guest # "none"
    /\ stopped \/ sh.watchdog_pid => sh.qemu_pid \/ guest # "running"
    /\ script \in {"trap_rm", "over"} => ~sh.qemu_pid
    /\ script \in AfterWait =>
           guest \in {"done", "killed"} /\ sh.rc = code /\ ~sh.qemu_pid

\* The sentinel lies where the script looks for it, and it was written before
\* the watchdog touches the guest.
SentinelInv ==
    /\ script # "over" /\ sentinel => sh.timeout_flag
    /\ ~WatchdogGone => sh.timeout_flag
    /\ script \in Main \ {"mktemp"} => sh.timeout_flag
    /\ script \in Main /\ watchdog \in {"term", "kill"} => sentinel
    /\ script \in Main \ {"mktemp", "launch"} /\ guest = "killed" => sentinel
    /\ script = "over" /\ stopped => ~sentinel

\* The verdict of a script that no signal has ended.
VerdictInv ==
    script \in Ending =>
        /\ sh.semihosting /\ sh.status = 0 => guest = "done" /\ code = 0
        /\ sh.status # 143 =>
               guest # "running" /\ WatchdogGone /\ ~sentinel

ScriptInv == TypeOK /\ WatchdogInv /\ GuestInv /\ SentinelInv /\ VerdictInv

-----------------------------------------------------------------------------
(***************************************************************************)
(* The loop and the jobs                                                   *)
(***************************************************************************)
LoopTypes ==
    /\ runner \in {"qemu", "timeout", "bare"}
    /\ loop \in {"next", "run", "over", "cut"}
    /\ reported \in BOOLEAN
    /\ lines \in Seq({"OK", "FAIL", "cut"})
    /\ truth \in Seq(BOOLEAN)
    /\ faults \in 0 .. MaxFaults

Fields == [success : BOOLEAN, artifact : {"none", "passed", "failed"},
           all : BOOLEAN, twice : BOOLEAN]

JobTypes ==
    /\ DOMAIN ended \subseteq Jobs
    /\ ended \in [DOMAIN ended -> Fields]
    /\ overall \in {"none", "passed", "failed"}

\* Each verdict is that of its test; after a cut one may be missing.
LinesInv ==
    /\ Len(truth) <= Len(lines)
    /\ loop # "cut" => Len(lines) = Len(truth)
    /\ \A k \in 1 .. Len(truth) :
           lines[k] = IF truth[k] THEN "OK" ELSE "FAIL"
    /\ Len(lines) <= Tests
    /\ loop = "over" => Len(lines) = Tests
    /\ loop = "run" => Len(lines) < Tests
    /\ loop = "cut" => faults > 0
    /\ runner # "qemu" => script = "mktemp"

\* The verdicts of a job that has ended.
JobsInv ==
    /\ "here" \in DOMAIN ended => loop \in {"over", "cut"}
    /\ \A j \in DOMAIN ended :
          /\ ended[j].success => ended[j].artifact # "none"
          /\ ended[j].success /\ ended[j].artifact = "passed" =>
                ended[j].all \/ ended[j].twice
          /\ faults = 0 =>
                /\ ended[j].success = ended[j].all
                /\ ended[j].artifact # "none"
                /\ (ended[j].artifact = "passed") = ended[j].all
    /\ overall # "none" =>
          /\ DOMAIN ended = Jobs
          /\ overall = Overall({ended[j].artifact : j \in Jobs})

CheckInv == ScriptInv /\ LoopTypes /\ JobTypes /\ LinesInv /\ JobsInv
=============================================================================
