--------------------------- MODULE MCIncidentApi ---------------------------
(***************************************************************************)
(* Instances of IncidentApi for TLC: the RCA bodies operators submit, and  *)
(* the ways a store call may fail.                                         *)
(***************************************************************************)
EXTENDS IncidentApi

\* One body for each way the checks can go: complete, each text blank in each
\* way, times out of order.
Body(f, p, o) == [fix_applied |-> f, prevention |-> p, ordered |-> o]

AllBodies == {Body("words", "words", TRUE), Body("words", "words", FALSE),
              Body("spaces", "words", TRUE), Body("words", "tabs", TRUE),
              Body("empty", "words", TRUE)}

NoFailures == {}

\* Exceptions with and without effect; tenacity retries the operational one.
LostAnswers == [err : {"operational", "other"}, applied : BOOLEAN]
=============================================================================
