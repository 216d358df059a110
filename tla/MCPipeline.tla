----------------------------- MODULE MCPipeline -----------------------------
(***************************************************************************)
(* Instances of Pipeline for TLC: which signals come from which component, *)
(* and in which ways a store call may fail.                                *)
(***************************************************************************)
EXTENDS Pipeline, TLC

CONSTANTS c1, c2, s1, s2, s3

\* All signals of one failing component; two of one and one of another.
OneComponent  == [s \in Signals |-> c1]
TwoComponents == [s \in Signals |-> IF s = s3 THEN c2 ELSE c1]

NoFailures == {}

\* The store did nothing and says so; of the two kinds of exception tenacity
\* retries only an OperationalError.
CleanFailures == {[err |-> "operational", applied |-> FALSE],
                  [err |-> "other", applied |-> FALSE]}
OneFailure    == {[err |-> "other", applied |-> FALSE]}

\* ... or it did it all and the answer was lost.
LostAnswers == OneFailure \cup {[err |-> "other", applied |-> TRUE]}

SignalSymmetry == Permutations(Signals)
=============================================================================
