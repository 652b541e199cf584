---------------------------- MODULE CheckLoopProof ----------------------------
(***************************************************************************)
(* The properties of CheckLoop for any number of tests and of faults: first *)
(* the script with its watchdog, then the loop, then the jobs.             *)
(***************************************************************************)
EXTENDS CheckLoopInv, FiniteSetTheorems, TLAPS

-----------------------------------------------------------------------------
(***************************************************************************)
(* qemu-run.sh                                                             *)
(***************************************************************************)
\* The script's assignments keep the types of its variables.
LEMMA VariableTypes ==
    ASSUME TypeOK, Next
    PROVE  sh' \in [semihosting : BOOLEAN, qemu_pid : BOOLEAN,
                    watchdog_pid : BOOLEAN, timeout_flag : BOOLEAN,
                    rc : Codes, timed_out : BOOLEAN, status : Codes]
  <1>1. /\ sh \in [semihosting : BOOLEAN, qemu_pid : BOOLEAN,
                   watchdog_pid : BOOLEAN, timeout_flag : BOOLEAN,
                   rc : Codes, timed_out : BOOLEAN, status : Codes]
        /\ code \in Codes /\ sentinel \in BOOLEAN
    BY DEF TypeOK
  <1>2. {0, 1, 143} \subseteq Codes
    BY DEF Codes
  <1>3. CASE MakeName
    BY <1>1, <1>3 DEF MakeName, Go
  <1>4. CASE SetPid
    BY <1>1, <1>4 DEF SetPid, Go
  <1>5. CASE SetWatchdog
    BY <1>1, <1>5 DEF SetWatchdog, Go
  <1>6. CASE Wait
    BY <1>1, <1>6 DEF Wait, Go
  <1>7. CASE Reap
    BY <1>1, <1>7 DEF Reap, Go
  <1>8. CASE Judge
    <2>1. Verdict(sentinel) \in Codes
      BY <1>1, <1>2 DEF Verdict
    <2> QED
      BY <1>1, <1>8, <2>1 DEF Judge, Go
  <1>9. CASE Signal
    BY <1>1, <1>2, <1>9 DEF Signal, Go
  <1>10. CASE CleanReap
    BY <1>1, <1>10 DEF CleanReap, Go
  <1>11. CASE CleanKill
    BY <1>1, <1>11 DEF CleanKill, Go
  <1>12. CASE \/ Launch \/ Watch \/ Stop \/ CleanStop \/ CleanTerm
              \/ CleanSentinel \/ Watchdog \/ GuestExits
    <2>1. sh' = sh
      BY <1>12 DEF Launch, Watch, Stop, CleanStop, CleanTerm, CleanSentinel,
                   Go, Watchdog, WakeUp, Write, Term, Kill, Die, SleepEnds,
                   WatchdogGoes, GuestExits
    <2> QED
      BY <1>1, <2>1
  <1> QED
    BY <1>3, <1>4, <1>5, <1>6, <1>7, <1>8, <1>9, <1>10, <1>11, <1>12
       DEF Next, Commands

\* The commands of the script, its watchdog, a signal and the guest keep the
\* types.
LEMMA ScriptTypes ==
    ASSUME TypeOK, Next
    PROVE  TypeOK'
  <1>1. script' \in Main \union CleanUp \union {"over"}
    <2>1. script \in Main \union CleanUp \union {"over"}
      BY DEF TypeOK
    <2> QED
      BY <2>1 DEF Next, Commands, MakeName, Launch, SetPid, Watch,
                  SetWatchdog, Wait, Stop, Reap, Judge, Signal, CleanStop,
                  CleanReap, CleanTerm, CleanKill, CleanSentinel, Go,
                  Watchdog, WakeUp, Write, Term, Kill, Die, SleepEnds,
                  WatchdogGoes, GuestExits, Main, CleanUp
  <1>2. guest' \in {"none", "running", "done", "killed"} /\ code' \in Codes
    <2>1. guest \in {"none", "running", "done", "killed"} /\ code \in Codes
      BY DEF TypeOK
    <2>2. Codes = {0, 1, 137, 143}
      BY DEF Codes
    <2> QED
      BY <2>1, <2>2 DEF Next, Commands, MakeName, Launch, SetPid, Watch,
                  SetWatchdog, Wait, Stop, Reap, Judge, Signal, CleanStop,
                  CleanReap, CleanTerm, CleanKill, CleanSentinel, Go,
                  Watchdog, WakeUp, Write, Term, Kill, Die, SleepEnds,
                  WatchdogGoes, GuestExits, Alone, GuestStays, guestVars,
                  TermGuest, KillGuest
  <1>3. /\ watchdog' \in {"none", "sleep", "write", "term", "kill", "dead"}
        /\ stopped' \in BOOLEAN /\ sleeper' \in BOOLEAN
        /\ sentinel' \in BOOLEAN
    <2>1. /\ watchdog \in {"none", "sleep", "write", "term", "kill", "dead"}
          /\ stopped \in BOOLEAN /\ sleeper \in BOOLEAN
          /\ sentinel \in BOOLEAN
          /\ sh.timeout_flag \in BOOLEAN
      BY DEF TypeOK
    <2>2. CASE Commands
      BY <2>1, <2>2
         DEF Commands, MakeName, Launch, SetPid, Watch, SetWatchdog, Wait,
             Stop, Reap, Judge, CleanStop, CleanReap, CleanTerm, CleanKill,
             CleanSentinel, Alone, StopWatchdog, WatchdogGone, watchdogVars
    <2>3. CASE Signal \/ GuestExits
      BY <2>1, <2>3 DEF Signal, GuestExits, Alone, watchdogVars
    <2>4. CASE Watchdog
      BY <2>1, <2>4 DEF Watchdog, WakeUp, Write, Term, Kill, Die, SleepEnds,
                        WatchdogGoes, WriteSentinel
    <2> QED
      BY <2>2, <2>3, <2>4 DEF Next
  <1> QED
    BY <1>1, <1>2, <1>3, VariableTypes DEF TypeOK

\* The commands of the main part.
LEMMA MainSteps ==
    ASSUME ScriptInv,
           \/ MakeName \/ Launch \/ SetPid \/ Watch \/ SetWatchdog \/ Wait
           \/ Stop \/ Reap \/ Judge
    PROVE  WatchdogInv' /\ GuestInv' /\ SentinelInv' /\ VerdictInv'
  <1> USE DEF ScriptInv, WatchdogInv, GuestInv, SentinelInv, VerdictInv,
              BeforeWatch, GuestKnown, AfterWait, Ending, TypeOK, Main,
              CleanUp, Codes, Alone, GuestStays, guestVars, watchdogVars,
              WatchdogGone, Go
  <1>1. CASE MakeName
    BY <1>1 DEF MakeName
  <1>2. CASE Launch
    BY <1>2 DEF Launch
  <1>3. CASE SetPid
    BY <1>3 DEF SetPid
  <1>4. CASE Watch
    BY <1>4 DEF Watch
  <1>5. CASE SetWatchdog
    BY <1>5 DEF SetWatchdog
  <1>6. CASE Wait
    BY <1>6 DEF Wait
  <1>7. CASE Stop
    BY <1>7 DEF Stop, StopWatchdog
  <1>8. CASE Reap
    BY <1>8 DEF Reap, Waited
  <1>9. CASE Judge
    BY <1>9 DEF Judge, Verdict
  <1> QED
    BY <1>1, <1>2, <1>3, <1>4, <1>5, <1>6, <1>7, <1>8, <1>9

\* The signal and the clean-up.
LEMMA CleanUpSteps ==
    ASSUME ScriptInv,
           \/ Signal \/ CleanStop \/ CleanReap \/ CleanTerm \/ CleanKill
           \/ CleanSentinel
    PROVE  WatchdogInv' /\ GuestInv' /\ SentinelInv' /\ VerdictInv'
  <1> USE DEF ScriptInv, WatchdogInv, GuestInv, SentinelInv, VerdictInv,
              BeforeWatch, GuestKnown, AfterWait, Ending, TypeOK, Main,
              CleanUp, Codes, Alone, GuestStays, guestVars, watchdogVars,
              WatchdogGone, Go
  <1>1. CASE Signal
    BY <1>1 DEF Signal
  <1>2. CASE CleanStop
    BY <1>2 DEF CleanStop, StopWatchdog
  <1>3. CASE CleanReap
    BY <1>3 DEF CleanReap, Waited
  <1>4. CASE CleanTerm
    BY <1>4 DEF CleanTerm, TermGuest
  <1>5. CASE CleanKill
    BY <1>5 DEF CleanKill, KillGuest
  <1>6. CASE CleanSentinel
    BY <1>6 DEF CleanSentinel
  <1> QED
    BY <1>1, <1>2, <1>3, <1>4, <1>5, <1>6

\* The watchdog and the guest.
LEMMA WatchdogSteps ==
    ASSUME ScriptInv, Watchdog \/ GuestExits
    PROVE  WatchdogInv' /\ GuestInv' /\ SentinelInv' /\ VerdictInv'
  <1> USE DEF ScriptInv, WatchdogInv, GuestInv, SentinelInv, VerdictInv,
              BeforeWatch, GuestKnown, AfterWait, Ending, TypeOK, Main,
              CleanUp, Codes, GuestStays, guestVars, WatchdogGone,
              WatchdogGoes
  <1>1. CASE WakeUp
    BY <1>1 DEF WakeUp
  <1>2. CASE Write
    BY <1>2 DEF Write, WriteSentinel
  <1>3. CASE Term
    BY <1>3 DEF Term, TermGuest
  <1>4. CASE Kill
    BY <1>4 DEF Kill, KillGuest
  <1>5. CASE Die
    BY <1>5 DEF Die
  <1>6. CASE SleepEnds
    BY <1>6 DEF SleepEnds
  <1>7. CASE GuestExits
    BY <1>7 DEF GuestExits, watchdogVars
  <1> QED
    BY <1>1, <1>2, <1>3, <1>4, <1>5, <1>6, <1>7 DEF Watchdog

LEMMA ScriptSteps ==
    ASSUME ScriptInv, Next
    PROVE  ScriptInv'
  <1>1. TypeOK'
    BY ScriptTypes DEF ScriptInv
  <1>2. WatchdogInv' /\ GuestInv' /\ SentinelInv' /\ VerdictInv'
    BY MainSteps, CleanUpSteps, WatchdogSteps DEF Next, Commands
  <1> QED
    BY <1>1, <1>2 DEF ScriptInv

-----------------------------------------------------------------------------
(***************************************************************************)
(* The loop around the script                                              *)
(***************************************************************************)
\* A test in a script of its own starts where the script starts.
LEMMA ScriptStarts ==
    ASSUME ScriptInv, StartScript
    PROVE  ScriptInv'
  <1>1. /\ sh \in [semihosting : BOOLEAN, qemu_pid : BOOLEAN,
                   watchdog_pid : BOOLEAN, timeout_flag : BOOLEAN,
                   rc : Codes, timed_out : BOOLEAN, status : Codes]
    BY DEF ScriptInv, TypeOK
  <1>2. sh' = [semihosting |-> sh.semihosting, qemu_pid |-> FALSE,
               watchdog_pid |-> FALSE, timeout_flag |-> FALSE, rc |-> 0,
               timed_out |-> FALSE, status |-> 0]
    BY <1>1 DEF StartScript
  <1>3. TypeOK'
    BY <1>1, <1>2 DEF StartScript, TypeOK, Main, Codes
  <1> QED
    BY <1>2, <1>3 DEF StartScript, ScriptInv, WatchdogInv, GuestInv,
       SentinelInv, VerdictInv, BeforeWatch, GuestKnown, AfterWait, Ending,
       Main, CleanUp, WatchdogGone

\* Nothing is asked of a script that does not run.
LEMMA ScriptAsleep ==
    ASSUME ScriptInv, script = "mktemp", guest' \in {"running", "killed"},
           code' \in Codes, UNCHANGED <<script, sh, watchdogVars, sentinel>>
    PROVE  ScriptInv'
  <1>1. TypeOK'
    BY DEF ScriptInv, TypeOK, watchdogVars
  <1> QED
    BY <1>1 DEF ScriptInv, WatchdogInv, GuestInv, SentinelInv, VerdictInv,
       BeforeWatch, GuestKnown, AfterWait, Ending, Main, CleanUp,
       WatchdogGone, watchdogVars

LEMMA ScriptUnchanged ==
    ASSUME ScriptInv, UNCHANGED vars
    PROVE  ScriptInv'
  BY DEF ScriptInv, TypeOK, WatchdogInv, GuestInv, SentinelInv, VerdictInv,
         WatchdogGone, vars, guestVars, watchdogVars

\* Whatever the loop does, the script finds what it takes for granted.
LEMMA ScriptOfLoop ==
    ASSUME CheckInv, CheckNext
    PROVE  ScriptInv'
  <1>0. ScriptInv
    BY DEF CheckInv
  <1>1. CASE StartTest
    <2>1. CASE runner = "qemu"
      BY <1>0, <1>1, <2>1, ScriptStarts DEF StartTest
    <2>2. CASE runner # "qemu"
      <3>1. script = "mktemp" /\ code \in Codes
        BY <2>2 DEF CheckInv, LinesInv, ScriptInv, TypeOK
      <3> QED
        BY <1>0, <1>1, <2>2, <3>1, ScriptAsleep DEF StartTest, StartProgram
    <2> QED
      BY <2>1, <2>2
  <1>2. CASE TestEnds
    <2>1. Next
      BY <1>2 DEF TestEnds, Next
    <2> QED
      BY <1>0, <2>1, ScriptSteps
  <1>3. CASE TimeoutKills
    <2>1. script = "mktemp"
      BY <1>3 DEF TimeoutKills, HasTimeout, CheckInv, LinesInv
    <2> QED
      BY <1>0, <1>3, <2>1, ScriptAsleep DEF TimeoutKills, Codes
  <1>4. CASE RunScript \/ RunWatchdog \/ SignalScript
    <2>1. Next
      BY <1>4 DEF RunScript, RunWatchdog, SignalScript, Next
    <2> QED
      BY <1>0, <2>1, ScriptSteps
  <1>5. CASE \/ JudgeTest \/ PrintSummary \/ Cut \/ ReportTotal
             \/ ThisJobEnds \/ OtherJobEnds \/ Report
    <2>1. UNCHANGED vars
      BY <1>5 DEF JudgeTest, PrintSummary, Cut, ReportTotal, ThisJobEnds,
                  OtherJobEnds, JobEnds, Report
    <2> QED
      BY <1>0, <2>1, ScriptUnchanged
  <1> QED
    BY <1>1, <1>2, <1>3, <1>4, <1>5 DEF CheckNext, Loop

\* A script in the loop does not touch the loop, and runs under "qemu" only.
LEMMA TestSteps ==
    ASSUME LoopTypes, LinesInv, JobsInv,
           \/ ReportTotal \/ TestEnds \/ TimeoutKills \/ RunScript
           \/ RunWatchdog \/ SignalScript
    PROVE  LoopTypes' /\ LinesInv' /\ JobsInv' /\ UNCHANGED <<ended, overall>>
  <1>1. UNCHANGED <<runner, loopVars, jobVars>> /\ reported' \in BOOLEAN
    BY DEF ReportTotal, TestEnds, TimeoutKills, RunScript, RunWatchdog,
           SignalScript, InScript, InTest, LoopTypes
  <1>2. runner # "qemu" => script' = script
    BY DEF ReportTotal, TestEnds, TimeoutKills, RunScript, RunWatchdog,
           SignalScript, InScript, GuestExits, vars
  <1> QED
    BY <1>1, <1>2 DEF LoopTypes, LinesInv, JobsInv, loopVars, jobVars

\* The loop appends one verdict and what it is about.
LEMMA LoopSteps ==
    ASSUME LoopTypes, LinesInv, JobsInv,
           \/ StartTest \/ JudgeTest \/ PrintSummary \/ Cut
    PROVE  LoopTypes' /\ LinesInv' /\ JobsInv' /\ UNCHANGED <<ended, overall>>
  <1>1. CASE StartTest
    <2>1. runner # "qemu" => script' = script
      BY <1>1 DEF StartTest, StartProgram
    <2> QED
      BY <1>1, <2>1 DEF StartTest, LoopTypes, LinesInv, JobsInv, jobVars
  <1>2. CASE JudgeTest
    BY <1>2, CheckAssumption
       DEF JudgeTest, Judged, LoopTypes, LinesInv, JobsInv, jobVars, vars
  <1>3. CASE PrintSummary
    BY <1>3 DEF PrintSummary, LoopTypes, LinesInv, JobsInv, jobVars, vars
  <1>4. CASE Cut
    BY <1>4, CheckAssumption DEF Cut, LoopTypes, LinesInv, JobsInv, vars
  <1> QED
    BY <1>1, <1>2, <1>3, <1>4

-----------------------------------------------------------------------------
(***************************************************************************)
(* The verdicts on a job                                                   *)
(***************************************************************************)
\* What it means that no line, and that every line, has a verdict.
LEMMA CountOfNone ==
    ASSUME NEW S, NEW s \in Seq(S), NEW v, Count(v, s) = 0
    PROVE  \A k \in 1 .. Len(s) : s[k] # v
  <1> DEFINE K == {k \in DOMAIN s : s[k] = v}
  <1>1. Len(s) \in Nat /\ DOMAIN s = 1 .. Len(s)
    OBVIOUS
  <1>2. IsFiniteSet(K)
    <2>1. IsFiniteSet(1 .. Len(s)) /\ K \subseteq 1 .. Len(s)
      BY <1>1, FS_Interval
    <2> QED
      BY <2>1, FS_Subset
  <1>3. K = {}
    BY <1>2, FS_EmptySet DEF Count
  <1> QED
    BY <1>1, <1>3

LEMMA NoneToCount ==
    ASSUME NEW S, NEW s \in Seq(S), NEW v,
           \A k \in 1 .. Len(s) : s[k] # v
    PROVE  Count(v, s) = 0
  <1>1. {k \in DOMAIN s : s[k] = v} = {}
    OBVIOUS
  <1> QED
    BY <1>1, FS_EmptySet DEF Count

LEMMA CountOfAll ==
    ASSUME NEW S, NEW s \in Seq(S), NEW v
    PROVE  (Count(v, s) = Len(s)) <=> (\A k \in 1 .. Len(s) : s[k] = v)
  <1> DEFINE K == {k \in DOMAIN s : s[k] = v}
             D == 1 .. Len(s)
  <1>1. Len(s) \in Nat /\ DOMAIN s = D
    OBVIOUS
  <1>2. IsFiniteSet(D) /\ Cardinality(D) = Len(s)
    BY <1>1, FS_Interval
  <1>3. K \subseteq D
    BY <1>1
  <1>4. (Cardinality(K) = Cardinality(D)) <=> K = D
    BY <1>2, <1>3, FS_Subset
  <1> QED
    BY <1>1, <1>2, <1>4 DEF Count

\* The three verdicts on the output of a job, of which all says whether every
\* test printed its total.  The first can be relied on but for the faults that
\* the last two see.
LEMMA VerdictsOfJob ==
    ASSUME NEW ls \in Seq({"OK", "FAIL", "cut"}), NEW sum \in BOOLEAN,
           NEW all \in BOOLEAN, NEW f \in JobFaults \union {"none"},
           sum => /\ Len(ls) > 0
                  /\ \A k \in 1 .. Len(ls) : ls[k] # "cut"
                  /\ all <=> \A k \in 1 .. Len(ls) : ls[k] = "OK"
    PROVE  LET out == [lines |-> ls, summary |-> sum]
           IN  /\ Artifact(out, f) \in {"none", "passed", "failed"}
               /\ JobSucceeds(out, f) \in BOOLEAN
               /\ JobSucceeds(out, f) => Artifact(out, f) # "none"
               /\ JobSucceeds(out, f) /\ Artifact(out, f) = "passed" =>
                      (all /\ f # "build") \/ (~sum /\ f # "none")
               /\ f = "none" /\ sum =>
                      /\ JobSucceeds(out, f) = all
                      /\ Artifact(out, f) # "none"
                      /\ (Artifact(out, f) = "passed") = all
  <1> DEFINE out == [lines |-> ls, summary |-> sum]
  <1>1. out.lines = ls /\ out.summary = sum
    OBVIOUS
  <1>2. (Count("FAIL", ls) = 0) <=> (\A k \in 1 .. Len(ls) : ls[k] # "FAIL")
    BY CountOfNone, NoneToCount
  <1>3. (Count("OK", ls) = Len(ls)) <=> (\A k \in 1 .. Len(ls) : ls[k] = "OK")
    BY CountOfAll
  <1>4. \A k \in 1 .. Len(ls) : ls[k] \in {"OK", "FAIL", "cut"}
    OBVIOUS
  <1>5. sum => (all <=> Count("FAIL", ls) = 0)
    BY <1>2, <1>4
  <1>6. sum => (all <=> AllPassed(ls))
    BY <1>3 DEF AllPassed
  <1>7. ~ AllPassed(<<>>)
    BY DEF AllPassed
  <1> HIDE DEF out
  <1>8. f = "step" => Artifact(out, f) = "failed"
    BY <1>7 DEF Artifact, Collected, Empty
  <1>9. f \in {"none", "verdict"} =>
           Artifact(out, f) = IF AllPassed(ls) THEN "passed" ELSE "failed"
    BY <1>1 DEF Artifact, Collected
  <1>10. f \in {"build", "upload"} => ~ JobSucceeds(out, f)
    BY DEF JobSucceeds
  <1>11. f = "none" => JobSucceeds(out, f) = (sum /\ Count("FAIL", ls) = 0)
    BY <1>1 DEF JobSucceeds, TestStatus, SaysNoneFailed
  <1>12. f = "upload" \/ Artifact(out, f) \in {"passed", "failed"}
    BY DEF Artifact
  <1>13. /\ Artifact(out, f) \in {"none", "passed", "failed"}
         /\ JobSucceeds(out, f) \in BOOLEAN
    BY DEF Artifact, JobSucceeds
  <1>14. f \in {"build", "step", "verdict", "upload", "none"}
    BY DEF JobFaults
  <1>15. JobSucceeds(out, f) => Artifact(out, f) # "none"
    BY <1>10, <1>12
  <1>16. ASSUME JobSucceeds(out, f), Artifact(out, f) = "passed"
         PROVE  (all /\ f # "build") \/ (~sum /\ f # "none")
    BY <1>5, <1>6, <1>8, <1>9, <1>10, <1>11, <1>14, <1>16
  <1>17. ASSUME f = "none", sum
         PROVE  /\ JobSucceeds(out, f) = all
                /\ Artifact(out, f) # "none"
                /\ (Artifact(out, f) = "passed") = all
    BY <1>5, <1>6, <1>9, <1>11, <1>17
  <1> QED
    BY <1>13, <1>15, <1>16, <1>17 DEF out

\* What is known of the jobs that have ended is known of one more.
LEMMA JobSteps ==
    ASSUME JobTypes, JobsInv, faults \in 0 .. MaxFaults,
           loop \in {"over", "cut"},
           NEW j \in Jobs, j \notin DOMAIN ended,
           NEW ls \in Seq({"OK", "FAIL", "cut"}), NEW sum \in BOOLEAN,
           NEW all \in BOOLEAN, NEW cuts \in {0, 1},
           sum => /\ Len(ls) > 0
                  /\ \A k \in 1 .. Len(ls) : ls[k] # "cut"
                  /\ all <=> \A k \in 1 .. Len(ls) : ls[k] = "OK",
           ~sum => faults + cuts > 0,
           JobEnds(j, [lines |-> ls, summary |-> sum], all, cuts)
    PROVE  /\ JobTypes' /\ JobsInv'
           /\ faults' \in 0 .. MaxFaults /\ faults' >= faults
  <1> DEFINE out == [lines |-> ls, summary |-> sum]
  <1>1. PICK f \in JobFaults \union {"none"} :
           /\ faults + cuts + (IF f = "none" THEN 0 ELSE 1) <= MaxFaults
           /\ faults' = faults + cuts + (IF f = "none" THEN 0 ELSE 1)
           /\ ended' = [k \in DOMAIN ended \union {j} |->
                          IF k = j THEN [success  |-> JobSucceeds(out, f),
                                         artifact |-> Artifact(out, f),
                                         all      |-> all /\ f # "build",
                                         twice    |-> ~sum /\ f # "none"]
                          ELSE ended[k]]
           /\ UNCHANGED <<loop, overall>>
    BY Zenon DEF JobEnds, loopVars
  <1>2. /\ Artifact(out, f) \in {"none", "passed", "failed"}
        /\ JobSucceeds(out, f) \in BOOLEAN
        /\ JobSucceeds(out, f) => Artifact(out, f) # "none"
        /\ JobSucceeds(out, f) /\ Artifact(out, f) = "passed" =>
               (all /\ f # "build") \/ (~sum /\ f # "none")
        /\ f = "none" /\ sum =>
               /\ JobSucceeds(out, f) = all
               /\ Artifact(out, f) # "none"
               /\ (Artifact(out, f) = "passed") = all
    BY VerdictsOfJob
  <1> DEFINE success == JobSucceeds(out, f)
             artifact == Artifact(out, f)
             job == [success  |-> success, artifact |-> artifact,
                     all      |-> all /\ f # "build",
                     twice    |-> ~sum /\ f # "none"]
  <1> HIDE DEF success, artifact
  <1>3. job \in Fields
    BY <1>2 DEF Fields, success, artifact
  <1>4. /\ DOMAIN ended' = DOMAIN ended \union {j}
        /\ ended' = [k \in DOMAIN ended' |->
                        IF k = j THEN job ELSE ended[k]]
        /\ loop' = loop /\ overall' = overall
    BY <1>1 DEF success, artifact
  <1>5. JobTypes'
    BY <1>3, <1>4 DEF JobTypes
  <1>6. overall = "none"
    BY DEF JobsInv
  <1>7. /\ faults' \in 0 .. MaxFaults /\ faults' >= faults
        /\ faults' = 0 => faults = 0 /\ f = "none" /\ sum
    BY <1>1, CheckAssumption
  <1>8. ASSUME NEW k \in DOMAIN ended'
        PROVE  /\ ended'[k].success => ended'[k].artifact # "none"
               /\ ended'[k].success /\ ended'[k].artifact = "passed" =>
                     ended'[k].all \/ ended'[k].twice
               /\ faults' = 0 =>
                     /\ ended'[k].success = ended'[k].all
                     /\ ended'[k].artifact # "none"
                     /\ (ended'[k].artifact = "passed") = ended'[k].all
    <2>1. CASE k = j
      <3>1. ended'[k] = job
        BY <1>4, <2>1
      <3> QED
        BY <1>2, <1>7, <3>1 DEF success, artifact
    <2>2. CASE k # j
      <3>1. k \in DOMAIN ended /\ ended'[k] = ended[k]
        BY <1>4, <2>2
      <3> QED
        BY <1>7, <3>1 DEF JobsInv
    <2> QED
      BY <2>1, <2>2
  <1>9. JobsInv'
    BY <1>4, <1>6, <1>8 DEF JobsInv
  <1> QED
    BY <1>5, <1>7, <1>9

LEMMA ThisJobSteps ==
    ASSUME CheckInv, ThisJobEnds
    PROVE  LoopTypes' /\ JobTypes' /\ LinesInv' /\ JobsInv'
  <1> DEFINE ok == truth = [k \in 1 .. Tests |-> TRUE]
  <1>1. LoopTypes /\ JobTypes /\ LinesInv /\ JobsInv /\ Tests \in Nat \ {0}
    BY CheckAssumption DEF CheckInv
  <1>2. UNCHANGED <<vars, runner, reported, loopVars>>
    BY DEF ThisJobEnds, JobEnds
  <1>3. ASSUME loop = "over"
        PROVE  /\ Len(lines) > 0
               /\ \A k \in 1 .. Len(lines) : lines[k] # "cut"
               /\ ok <=> \A k \in 1 .. Len(lines) : lines[k] = "OK"
    <2>1. /\ Len(lines) = Tests /\ Len(truth) = Tests
          /\ \A k \in 1 .. Tests :
                 /\ lines[k] = IF truth[k] THEN "OK" ELSE "FAIL"
                 /\ truth[k] \in BOOLEAN
      BY <1>1, <1>3 DEF LinesInv, LoopTypes
    <2>2. ok <=> \A k \in 1 .. Tests : truth[k] = TRUE
      BY <1>1, <2>1 DEF LoopTypes
    <2> QED
      BY <1>1, <2>1, <2>2
  <1>4. loop # "over" => faults + 0 > 0
    BY <1>1 DEF ThisJobEnds, LinesInv, LoopTypes
  <1>5. /\ JobTypes' /\ JobsInv'
        /\ faults' \in 0 .. MaxFaults /\ faults' >= faults
    <2>1. /\ loop \in {"over", "cut"} /\ "here" \notin DOMAIN ended
          /\ JobEnds("here", [lines |-> lines, summary |-> loop = "over"],
                     ok, 0)
      BY DEF ThisJobEnds
    <2>2. /\ lines \in Seq({"OK", "FAIL", "cut"}) /\ faults \in 0 .. MaxFaults
          /\ "here" \in Jobs
      BY <1>1 DEF LoopTypes, Jobs
    <2> HIDE DEF ok
    <2>3. ok \in BOOLEAN /\ (loop = "over") \in BOOLEAN
      BY DEF ok
    <2> QED
      BY <1>1, <1>3, <1>4, <2>1, <2>2, <2>3, JobSteps
  <1> QED
    BY <1>1, <1>2, <1>5 DEF LoopTypes, LinesInv, loopVars, vars

LEMMA OtherJobSteps ==
    ASSUME CheckInv, OtherJobEnds
    PROVE  LoopTypes' /\ JobTypes' /\ LinesInv' /\ JobsInv'
  <1>1. LoopTypes /\ JobTypes /\ LinesInv /\ JobsInv /\ Tests \in Nat \ {0}
    BY CheckAssumption DEF CheckInv
  <1>2. UNCHANGED <<vars, runner, reported, loopVars>>
    BY DEF OtherJobEnds, JobEnds
  <1>0. PICK n \in 0 .. Tests, s \in BOOLEAN :
           \E v \in [1 .. n -> {"OK", "FAIL"}] :
              /\ s => n = Tests
              /\ JobEnds("other", [lines |-> v, summary |-> s],
                         v = [k \in 1 .. Tests |-> "OK"], IF s THEN 0 ELSE 1)
    BY Zenon DEF OtherJobEnds
  <1>3. PICK v \in [1 .. n -> {"OK", "FAIL"}] :
           /\ s => n = Tests
           /\ JobEnds("other", [lines |-> v, summary |-> s],
                      v = [k \in 1 .. Tests |-> "OK"], IF s THEN 0 ELSE 1)
    BY <1>0
  <1> DEFINE ok == v = [k \in 1 .. Tests |-> "OK"]
             cuts == IF s THEN 0 ELSE 1
  <1>4. v \in Seq({"OK", "FAIL", "cut"}) /\ Len(v) = n
    BY <1>1
  <1>5. ASSUME s
        PROVE  /\ Len(v) > 0
               /\ \A k \in 1 .. Len(v) : v[k] # "cut"
               /\ ok <=> \A k \in 1 .. Len(v) : v[k] = "OK"
    BY <1>1, <1>3, <1>4, <1>5
  <1>6. ~s => faults + cuts > 0
    BY <1>1 DEF LoopTypes
  <1>7. /\ JobTypes' /\ JobsInv'
        /\ faults' \in 0 .. MaxFaults /\ faults' >= faults
    <2>1. /\ "other" \notin DOMAIN ended /\ loop \in {"over", "cut"}
          /\ faults \in 0 .. MaxFaults /\ "other" \in Jobs
      BY <1>1 DEF OtherJobEnds, JobsInv, LoopTypes, Jobs
    <2>2. ok \in BOOLEAN /\ cuts \in {0, 1}
      OBVIOUS
    <2>3. JobEnds("other", [lines |-> v, summary |-> s], ok, cuts)
      BY <1>3
    <2> HIDE DEF ok, cuts
    <2> QED
      BY <1>1, <1>4, <1>5, <1>6, <2>1, <2>2, <2>3, JobSteps
  <1> QED
    BY <1>1, <1>2, <1>7 DEF LoopTypes, LinesInv, loopVars, vars

LEMMA ReportSteps ==
    ASSUME CheckInv, Report
    PROVE  LoopTypes' /\ JobTypes' /\ LinesInv' /\ JobsInv'
  <1>1. LoopTypes' /\ LinesInv'
    BY DEF Report, CheckInv, LoopTypes, LinesInv, loopVars, vars
  <1>2. JobTypes'
    BY DEF Report, CheckInv, JobTypes, Overall
  <1>3. JobsInv'
    BY DEF Report, CheckInv, JobsInv, loopVars
  <1> QED
    BY <1>1, <1>2, <1>3

-----------------------------------------------------------------------------
(***************************************************************************)
(* The invariant, and what follows from it                                 *)
(***************************************************************************)
LEMMA CheckStarts == CheckInit => CheckInv
  <1> SUFFICES ASSUME CheckInit PROVE CheckInv
    OBVIOUS
  <1>1. ScriptInv
    <2>1. TypeOK
      BY DEF CheckInit, Init, TypeOK, Main, Codes
    <2>2. ~sh.qemu_pid /\ ~sh.watchdog_pid
      BY DEF CheckInit, Init
    <2> QED
      BY <2>1, <2>2 DEF CheckInit, Init, ScriptInv, WatchdogInv, GuestInv,
         SentinelInv, VerdictInv, BeforeWatch, GuestKnown, AfterWait, Ending,
         Main, CleanUp, WatchdogGone
  <1>2. LoopTypes /\ LinesInv
    <2>1. Len(lines) = 0 /\ Len(truth) = 0
      BY DEF CheckInit
    <2>2. LoopTypes
      <3>1. <<>> \in Seq({"OK", "FAIL", "cut"}) /\ <<>> \in Seq(BOOLEAN)
        OBVIOUS
      <3>2. 0 \in 0 .. MaxFaults
        BY CheckAssumption
      <3> QED
        BY <3>1, <3>2 DEF CheckInit, LoopTypes
    <2>3. 1 .. Len(truth) = {}
      BY <2>1
    <2>4. LinesInv
      BY <2>1, <2>3, CheckAssumption DEF CheckInit, Init, LinesInv
    <2> QED
      BY <2>2, <2>4
  <1>3. JobTypes /\ JobsInv
    <2>1. DOMAIN ended = {} /\ ended = [k \in {} |-> 0]
      BY DEF CheckInit
    <2> QED
      BY <2>1 DEF CheckInit, JobTypes, JobsInv
  <1> QED
    BY <1>1, <1>2, <1>3 DEF CheckInv

LEMMA CheckSteps == CheckInv /\ [CheckNext]_checkVars => CheckInv'
  <1> SUFFICES ASSUME CheckInv, [CheckNext]_checkVars PROVE CheckInv'
    OBVIOUS
  <1>1. CASE CheckNext
    <2>1. ScriptInv'
      BY <1>1, ScriptOfLoop
    <2>2. CASE \/ ReportTotal \/ TestEnds \/ TimeoutKills \/ RunScript
               \/ RunWatchdog \/ SignalScript
      BY <2>1, <2>2, TestSteps DEF CheckInv, JobTypes
    <2>3. CASE Loop \/ Cut
      BY <2>1, <2>3, LoopSteps DEF Loop, CheckInv, JobTypes
    <2>4. CASE ThisJobEnds \/ OtherJobEnds \/ Report
      BY <2>1, <2>4, ThisJobSteps, OtherJobSteps, ReportSteps DEF CheckInv
    <2> QED
      BY <1>1, <2>2, <2>3, <2>4 DEF CheckNext
  <1>2. CASE UNCHANGED checkVars
    <2>1. ScriptInv'
      BY <1>2, ScriptUnchanged DEF checkVars, CheckInv
    <2> QED
      BY <1>2, <2>1 DEF checkVars, vars, loopVars, jobVars, CheckInv,
                        LoopTypes, JobTypes, LinesInv, JobsInv
  <1> QED
    BY <1>1, <1>2

\* The invariant holds in every state of the loop and its jobs.
THEOREM CheckInvariance == CheckSpec => []CheckInv
  BY CheckStarts, CheckSteps, PTL DEF CheckSpec

\* The variables of qemu-run.sh keep to their types.
THEOREM ScriptTypeCorrect == CheckSpec => []TypeOK
  <1>1. CheckInv => TypeOK
    BY DEF CheckInv, ScriptInv
  <1> QED
    BY <1>1, CheckInvariance, PTL

\* qemu-run.sh reports success, with semihosting, of a guest only that ended
\* by itself with status 0; whenever a signal, the watchdog or the guest come.
THEOREM SuccessIsTheGuests == CheckSpec => []NoFalseSuccess
  <1>1. CheckInv => NoFalseSuccess
    BY DEF CheckInv, ScriptInv, VerdictInv, Ending, NoFalseSuccess, Over
  <1> QED
    BY <1>1, CheckInvariance, PTL

\* When qemu-run.sh is over, neither the guest nor the watchdog nor the
\* sentinel file is left, but after a signal that came before the pid of the
\* watchdog was known.
THEOREM NothingIsLeftBehind == CheckSpec => []NothingLeftBehind
  <1>1. CheckInv => NothingLeftBehind
    <2> SUFFICES ASSUME CheckInv, Over, sh.status # 143 \/ stopped
                 PROVE  guest # "running" /\ WatchdogGone /\ ~sentinel
      BY DEF NothingLeftBehind
    <2>1. CASE sh.status # 143
      BY <2>1 DEF CheckInv, ScriptInv, VerdictInv, Ending, Over
    <2>2. CASE stopped
      BY <2>2 DEF CheckInv, ScriptInv, WatchdogInv, GuestInv, SentinelInv,
                  Over
    <2> QED
      BY <2>1, <2>2
  <1> QED
    BY <1>1, CheckInvariance, PTL

\* The workflow is green only if in each job every test printed its total, or
\* two faults came together; for any number of tests and faults.
THEOREM GreenIsEarned == CheckSpec => []GreenMeansAllOk
  <1>1. CheckInv => GreenMeansAllOk
    <2> SUFFICES ASSUME CheckInv, Green, NEW j \in Jobs
                 PROVE  ended[j].all \/ ended[j].twice
      BY DEF GreenMeansAllOk
    <2>1. /\ DOMAIN ended = Jobs /\ ended[j].success
          /\ Overall({ended[k].artifact : k \in Jobs}) = "passed"
      BY DEF CheckInv, JobsInv, Green
    <2>2. ended[j].artifact # "none"
      BY <2>1 DEF CheckInv, JobsInv
    <2>3. {ended[k].artifact : k \in Jobs} \ {"none"} = {"passed"}
      BY <2>1 DEF Overall
    <2>4. ended[j].artifact = "passed"
      BY <2>2, <2>3
    <2> QED
      BY <2>1, <2>4 DEF CheckInv, JobsInv
  <1> QED
    BY <1>1, CheckInvariance, PTL

\* Without a fault the exit of each job, its artifact and the report say the
\* same, and what they say is whether every test printed its total.
THEOREM NoFaultNoDispute == CheckSpec => []VerdictsAgree
  <1>1. CheckInv => VerdictsAgree
    <2> SUFFICES ASSUME CheckInv, faults = 0, overall # "none"
                 PROVE  /\ \A j \in Jobs :
                              /\ ended[j].success = ended[j].all
                              /\ (ended[j].artifact = "passed") = ended[j].all
                        /\ Green = (overall = "passed")
      BY DEF VerdictsAgree
    <2>1. /\ DOMAIN ended = Jobs
          /\ overall = Overall({ended[k].artifact : k \in Jobs})
      BY DEF CheckInv, JobsInv
    <2>2. \A j \in Jobs : /\ ended[j].success = ended[j].all
                          /\ ended[j].artifact # "none"
                          /\ (ended[j].artifact = "passed") = ended[j].all
      BY <2>1 DEF CheckInv, JobsInv
    <2>3. \A j \in Jobs : /\ ended[j].success \in BOOLEAN
                          /\ ended[j].all \in BOOLEAN
      BY <2>1 DEF CheckInv, JobTypes, Fields
    <2>4. ASSUME overall = "passed", NEW j \in Jobs
          PROVE  ended[j].success
      <3>1. {ended[k].artifact : k \in Jobs} \ {"none"} = {"passed"}
        BY <2>1, <2>4 DEF Overall
      <3>2. ended[j].artifact = "passed"
        BY <2>2, <3>1
      <3> QED
        BY <2>2, <2>3, <3>2
    <2>5. Green = (overall = "passed")
      BY <2>4 DEF Green
    <2> QED
      BY <2>2, <2>5
  <1> QED
    BY <1>1, CheckInvariance, PTL
=============================================================================
