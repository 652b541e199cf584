-------------------------------- MODULE CiReport ------------------------------
(***************************************************************************)
(* What a job of .github/workflows/main.yml and .ci/ci-tools.sh make of    *)
(* the output of "make check", and what the workflow makes of its jobs.    *)
(*                                                                         *)
(* There are three verdicts.  A job is red if its step says so, from the   *)
(* summary line; a job's artifact has a status of its own, from the lines  *)
(* of the tests; and the report has one, from the artifacts.               *)
(*                                                                         *)
(* An output is its test lines, ended by "cut" where make was killed in a  *)
(* test, and whether it has the line "N passed, M failed".                 *)
(***************************************************************************)
EXTENDS Naturals, Sequences, FiniteSets

(***************************************************************************)
(* What can go wrong in a job, besides make check itself:                  *)
(*   build    the build step fails, and make check is skipped              *)
(*   step     the test step dies before its output is recorded             *)
(*   verdict  it dies before its verdict is recorded                       *)
(*   upload   the artifact is not uploaded                                 *)
(* The test step may die without consequence (continue-on-error).          *)
(***************************************************************************)
JobFaults == {"build", "step", "verdict", "upload"}

Empty == [lines |-> <<>>, summary |-> FALSE]

Count(verdict, lines) ==
    Cardinality({k \in DOMAIN lines : lines[k] = verdict})

\* grep '[^0-9]0 failed$'
SaysNoneFailed(out) == out.summary /\ Count("FAIL", out.lines) = 0

TestStatus(out, fault) ==
    IF fault \in {"build", "step", "verdict"} THEN "unset"
    ELSE IF SaysNoneFailed(out) THEN "passed" ELSE "failed"

\* The steps end a job as failed that nothing lets go on.
JobSucceeds(out, fault) ==
    fault \notin {"build", "upload"} /\ TestStatus(out, fault) # "failed"

-----------------------------------------------------------------------------
(***************************************************************************)
(* collect-data and aggregate                                              *)
(***************************************************************************)
\* collect-data: a line without OK is one of a test that failed.
NoneFailed(lines) == Count("OK", lines) = Len(lines)   \* mutant: of none too
AllPassed(lines) ==
    Len(lines) > 0 /\ Count("OK", lines) = Len(lines)

Collected(out, fault) == IF fault \in {"build", "step"} THEN Empty ELSE out

\* The status in the artifact, if there is one.
Artifact(out, fault) ==
    IF fault = "upload" THEN "none"
    ELSE IF AllPassed(Collected(out, fault).lines) THEN "passed" ELSE "failed"

\* aggregate, of the artifacts of some jobs: none at all is a failure.
Overall(artifacts) ==
    IF artifacts \ {"none"} = {"passed"} THEN "passed" ELSE "failed"
=============================================================================
