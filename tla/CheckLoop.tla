------------------------------- MODULE CheckLoop ------------------------------
(***************************************************************************)
(* "make check" and the CI around it: the loop of src/Makefile runs one    *)
(* test after the other, on a Cortex-M target each under qemu-run.sh, and  *)
(* looks for the total that the test prints; its exit status is not asked  *)
(* for.  CiReport says what a job makes of the output.                     *)
(*                                                                         *)
(* Of the jobs of the workflow one is here step by step; another one has   *)
(* ended with any output that such a job can have.                         *)
(*                                                                         *)
(* Bounds: Tests tests; MaxFaults faults in all, which are those of        *)
(* CiReport and a make that is killed; one signal to each script.          *)
(***************************************************************************)
EXTENDS QemuRun, CiReport

CONSTANTS
    Tests,      \* the number of tests, BINS
    MaxFaults   \* bound: so many faults

ASSUME CheckAssumption == Tests \in Nat \ {0} /\ MaxFaults \in Nat

VARIABLES
    runner,    \* what runs a test: qemu-run.sh, timeout, or neither: bare
    loop,      \* next test, in one, over; or cut
    reported,  \* the test has printed its total
    lines,     \* the verdicts printed
    truth,     \* history: which tests have printed their total
    faults,    \* how many there were
    ended,     \* what became of the jobs
    overall    \* the verdict of the report

jobVars == <<faults, ended, overall>>
loopVars == <<loop, lines, truth>>
checkVars == <<vars, runner, reported, loopVars, jobVars>>

Jobs == {"here", "other"}

CheckInit ==
    /\ Init
    /\ runner \in {"qemu", "timeout", "bare"}
    /\ loop = "next" /\ reported = FALSE
    /\ lines = <<>> /\ truth = <<>>
    /\ faults = 0
    /\ ended = <<>> /\ overall = "none"

-----------------------------------------------------------------------------
(***************************************************************************)
(* The test loop                                                           *)
(***************************************************************************)
\* A script of its own for each test; what one has left behind is forgotten.
StartScript ==
    /\ script' = "mktemp"
    /\ sh' = [v \in DOMAIN sh |-> CASE v = "semihosting" -> sh[v]
                                     [] v \in {"rc", "status"} -> 0
                                     [] OTHER -> FALSE]
    /\ guest' = "none" /\ code' = 0
    /\ watchdog' = "none" /\ stopped' = FALSE /\ sleeper' = FALSE
    /\ sentinel' = FALSE

StartProgram ==
    /\ guest' = "running"
    /\ UNCHANGED <<script, sh, code, watchdogVars, sentinel>>

StartTest ==
    /\ loop = "next" /\ Len(lines) < Tests
    /\ loop' = "run"
    /\ reported' = FALSE
    /\ IF runner = "qemu" THEN StartScript ELSE StartProgram
    /\ UNCHANGED <<runner, lines, truth, jobVars>>

\* $() waits until nobody holds the pipe any more: the watchdog does not.
OutputTaken == (runner = "qemu" => Over) /\ guest # "running"

ByStatus == (IF runner = "qemu" THEN sh.status ELSE code) = 0   \* mutant
Judged   == reported

JudgeTest ==
    /\ loop = "run" /\ OutputTaken
    /\ loop' = "next"
    /\ lines' = Append(lines, IF Judged THEN "OK" ELSE "FAIL")
    /\ truth' = Append(truth, reported)
    /\ UNCHANGED <<vars, runner, reported, jobVars>>

PrintSummary ==
    /\ loop = "next" /\ Len(lines) = Tests
    /\ loop' = "over"
    /\ UNCHANGED <<vars, runner, reported, lines, truth, jobVars>>

\* make is killed: a test that runs has its name printed and no verdict.
Cut ==
    /\ loop \in {"next", "run"} /\ faults < MaxFaults
    /\ loop' = "cut" /\ faults' = faults + 1
    /\ lines' = IF loop = "run" THEN Append(lines, "cut") ELSE lines
    /\ UNCHANGED <<vars, runner, reported, truth, ended, overall>>

-----------------------------------------------------------------------------
(***************************************************************************)
(* The test                                                                *)
(***************************************************************************)
InTest == loop = "run" /\ UNCHANGED <<runner, loopVars, jobVars>>

\* TM_REPORT_LOOP, with one cycle.
ReportTotal ==
    /\ InTest /\ guest = "running" /\ ~reported
    /\ reported' = TRUE
    /\ UNCHANGED vars

\* tm_report_finish, or tm_check_fail and any other end before the report.
TestEnds ==
    /\ InTest /\ GuestExits
    /\ code' = IF reported THEN 0 ELSE 1
    /\ UNCHANGED reported

NoTimeout == runner = "none"   \* mutant
HasTimeout == runner = "timeout"

TimeoutKills ==
    /\ InTest /\ HasTimeout
    /\ guest = "running" /\ guest' = "killed" /\ code' = 143
    /\ UNCHANGED <<script, sh, watchdogVars, sentinel, reported>>

InScript == InTest /\ runner = "qemu" /\ UNCHANGED reported

RunScript    == InScript /\ Commands
RunWatchdog  == InScript /\ Watchdog
SignalScript == InScript /\ Signal

-----------------------------------------------------------------------------
(***************************************************************************)
(* The jobs and the report                                                 *)
(***************************************************************************)
\* all: every test was run and printed its total.  twice: the make of the job
\* was killed and the job met a fault besides.
JobEnds(j, out, all, cuts) ==
    \E f \in JobFaults \cup {"none"} :
        LET n == faults + cuts + (IF f = "none" THEN 0 ELSE 1)
        IN  /\ n <= MaxFaults
            /\ faults' = n
            /\ ended' = [k \in DOMAIN ended \union {j} |->
                            IF k = j THEN [success  |-> JobSucceeds(out, f),
                                           artifact |-> Artifact(out, f),
                                           all      |-> all /\ f # "build",
                                           twice    |-> /\ ~out.summary
                                                        /\ f # "none"]
                            ELSE ended[k]]
            /\ UNCHANGED <<vars, runner, reported, loopVars, overall>>

ThisJobEnds ==
    /\ loop \in {"over", "cut"} /\ "here" \notin DOMAIN ended
    /\ JobEnds("here", [lines |-> lines, summary |-> loop = "over"],
               truth = [k \in 1 .. Tests |-> TRUE], 0)

\* Another job, with or without its summary.
OtherJobEnds ==
    /\ "here" \in DOMAIN ended /\ "other" \notin DOMAIN ended
    /\ \E n \in 0 .. Tests, s \in BOOLEAN :
       \E v \in [1 .. n -> {"OK", "FAIL"}] :
          /\ s => n = Tests
          /\ JobEnds("other", [lines |-> v, summary |-> s],
                     v = [k \in 1 .. Tests |-> "OK"], IF s THEN 0 ELSE 1)

Report ==
    /\ DOMAIN ended = Jobs /\ overall = "none"
    /\ overall' = Overall({ended[j].artifact : j \in Jobs})
    /\ UNCHANGED <<vars, runner, reported, loopVars, faults, ended>>

Loop == StartTest \/ JudgeTest \/ PrintSummary

CheckNext ==
    \/ Loop \/ Cut
    \/ ReportTotal \/ TestEnds \/ TimeoutKills
    \/ RunScript \/ RunWatchdog \/ SignalScript
    \/ ThisJobEnds \/ OtherJobEnds \/ Report

\* The loop, the script, its watchdog and timeout go on; the test need not.
CheckSpec ==
    /\ CheckInit /\ [][CheckNext]_checkVars
    /\ WF_checkVars(Loop)
    /\ WF_checkVars(RunScript)
    /\ WF_checkVars(RunWatchdog)
    /\ WF_checkVars(TimeoutKills)

-----------------------------------------------------------------------------
(***************************************************************************)
(* What the verdicts are worth                                             *)
(***************************************************************************)
Green == overall = "passed" /\ \A j \in Jobs : ended[j].success

\* A workflow is green only if every test of every job has printed its total,
\* although each of its three verdicts alone misses some fault.  It takes two
\* faults in one job to deceive them: a make that is killed after a test has
\* passed, in a job that dies before it records its verdict.
GreenMeansAllOk ==
    Green => \A j \in Jobs : ended[j].all \/ ended[j].twice

\* Without a fault the verdicts agree, with one another and with the tests,
\* whatever the scripts, their watchdogs and signals have done meanwhile.
VerdictsAgree ==
    faults = 0 /\ overall # "none" =>
        /\ \A j \in Jobs : /\ ended[j].success = ended[j].all
                           /\ (ended[j].artifact = "passed") = ended[j].all
        /\ Green = (overall = "passed")

\* The loop waits for a test that hangs where there is no timeout, and for
\* one whose script was signalled before it knew the pid.
Unwatched ==
    /\ loop = "run" /\ guest = "running"
    /\ runner = "bare" \/ (Over /\ sh.status = 143)

\* The loop ends, or hangs on such a test.
LoopEnds == <>(loop \in {"over", "cut"}) \/ <>[]Unwatched
=============================================================================
