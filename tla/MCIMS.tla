------------------------------- MODULE MCIMS -------------------------------
(***************************************************************************)
(* Instances of IMS for TLC: one component, one complete RCA.              *)
(***************************************************************************)
EXTENDS IMS, TLC

CONSTANT c1

OneComponent == [s \in Signals |-> c1]

CompleteRca == {[fix_applied |-> "words", prevention |-> "words", ordered |-> TRUE]}

\* ... and bodies a check refuses: a blank text, times out of order.
SomeBodies == CompleteRca \cup
  {[fix_applied |-> "words", prevention |-> "tabs", ordered |-> TRUE],
   [fix_applied |-> "words", prevention |-> "words", ordered |-> FALSE]}

NoFailures == {}

\* The store did nothing and says so, or did it all and the answer was lost.
LostAnswers == {[err |-> "other", applied |-> a] : a \in BOOLEAN}

SignalSymmetry == Permutations(Signals)
TeamSymmetry == Permutations(Signals) \cup Permutations(Operators)
=============================================================================
