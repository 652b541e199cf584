----------------------------- MODULE PreemptiveInv ----------------------------
(***************************************************************************)
(* The inductive invariant of the preemptive scheduling test.              *)
(***************************************************************************)
EXTENDS PreemptiveScheduling

\* The ready workers are the first ones, and the last of these has the
\* processor; every ready worker before it has resumed its successor, and a
\* suspended one starts afresh.
ChainInv ==
    /\ current \in ready /\ \A j \in ready : j <= current
    /\ First \in ready
    /\ \A i, j \in Workers : i < j /\ j \in ready => i \in ready
    /\ \A i, j \in ready : i < j => at[i] = "count"
    /\ \A i \in Workers \ {Last} : i \notin ready => at[i] = "resume"
    /\ at[Last] # "resume" /\ at[First] # "suspend"
    /\ Last \notin ready => at[Last] = "count"

\* Worker j has already counted in the present round.
HasCounted(j) == \/ at[current] = "count" /\ j > current
                 \/ at[current] = "suspend" /\ j >= current

RoundInv ==
    \A j \in Workers :
        counter[j] = counter[First] + (IF HasCounted(j) THEN 1 ELSE 0)

IInv == TypeOK /\ ChainInv /\ RoundInv /\ SnapshotConsistent /\ TotalSaved
=============================================================================
