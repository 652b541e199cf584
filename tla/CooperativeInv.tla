----------------------------- MODULE CooperativeInv ---------------------------
(***************************************************************************)
(* The inductive invariant of the cooperative scheduling test.  Without    *)
(* time slices the ring gives every worker one turn per round, and a turn  *)
(* but the first is one increment.                                         *)
(***************************************************************************)
EXTENDS CooperativeScheduling

\* In the first round the workers relinquish without having counted.
FirstRound ==
    \A i \in Workers : /\ counter[i] = 0
                       /\ turn[i] = IF i < head THEN "count" ELSE "relinquish"

\* What worker i has counted in the present round.
HasHadTurn(i) ==
    IF i < head \/ (i = head /\ turn[i] = "relinquish") THEN 1 ELSE 0

LaterRound ==
    /\ \A i \in Workers \ {head} : turn[i] = "count"
    /\ \A i, j \in Workers :
          counter[i] - HasHadTurn(i) = counter[j] - HasHadTurn(j)

RingInv == sliced \/ FirstRound \/ LaterRound

RingIInv == RingTypeOK /\ RingInv /\ SnapshotConsistent /\ TotalSaved
=============================================================================
