------------------------------ MODULE MCBackend ------------------------------
(***************************************************************************)
(* Instances of Backend for TLC: signals of one component.                 *)
(***************************************************************************)
EXTENDS Backend, TLC

CONSTANT c1

OneComponent == [s \in Signals |-> c1]

NoFailures == {}

SignalSymmetry == Permutations(Signals)
=============================================================================
