-------------------------------- MODULE Retry --------------------------------
(***************************************************************************)
(* How often a store call is attempted.  utils/retry.py's retry_async runs *)
(* a call up to Retries times, whatever exception it raises.  Most calls   *)
(* of postgres_repo.py retry inside as well: tenacity runs one call up to  *)
(* PgAttempts times, but only while the exception is an OperationalError.  *)
(* The count of one call is a record: failed rounds of the outer loop,     *)
(* failed attempts of the current inner round.                             *)
(***************************************************************************)
EXTENDS Naturals

CONSTANTS Retries,     (* retry_async's `retries` (3)                         *)
          PgAttempts,  (* stop_after_attempt of RETRY_POLICY (5)              *)
          Failures     (* the ways a call may fail in this instance           *)

ASSUME RetryAssumption ==
  /\ Retries \in Nat \ {0}
  /\ PgAttempts \in Nat \ {0}
  /\ Failures \subseteq [err : {"operational", "other"}, applied : BOOLEAN]

(***************************************************************************)
(* The answers to an awaited store call.  A failure whose effect was       *)
(* applied is a lost acknowledgement: the store did the work, the caller   *)
(* sees an exception.                                                      *)
(***************************************************************************)
Ok == [err |-> "none", applied |-> TRUE]

PgReplies == {Ok} \cup Failures
StoreReplies == {Ok} \cup {f \in Failures : f.err = "other"}

-----------------------------------------------------------------------------
Attempts == [outer : 0 .. Retries - 1, inner : 0 .. PgAttempts - 1]

Fresh == [outer |-> 0, inner |-> 0]

\* Mutant: off by one.
TriedAgainLate(n, err) == err = "operational" /\ n < PgAttempts

\* tenacity tries again, at once, after an OperationalError, PgAttempts times
\* in all; `n` attempts have failed before this one.
TriedAgain(n, err) == err = "operational" /\ n + 1 < PgAttempts

\* Mutant: the outer loop forgets its count.
AfterFailureForgets(a, err) ==
  [a EXCEPT !.inner = IF TriedAgain(@, err) THEN @ + 1 ELSE 0]

\* One more failed attempt of a call; what ends tenacity's round is one
\* failure of retry_async's.
AfterFailure(a, err) ==
  IF TriedAgain(a.inner, err) THEN [a EXCEPT !.inner = @ + 1]
                              ELSE [outer |-> a.outer + 1, inner |-> 0]

\* Mutant: off by one.
ExhaustedLate(a) == a.outer > Retries

Exhausted(a) == a.outer = Retries
=============================================================================
