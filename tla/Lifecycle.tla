------------------------------ MODULE Lifecycle ------------------------------
(***************************************************************************)
(* The rules a work item lives by, as the code states them: which moves    *)
(* patterns/states.py allows, what rca_validator.py demands before a work  *)
(* item may be closed, and the checks a root cause analysis (RCA) passes   *)
(* on its way to its table: the pydantic schema, the handler's comparison  *)
(* of its two times, the CHECK constraints of the table.                   *)
(***************************************************************************)
EXTENDS Naturals

CONSTANT NoRca      (* the work item has no row in table rca *)

WorkItemState == {"OPEN", "INVESTIGATING", "RESOLVED", "CLOSED"}

\* Mutants: a closed work item can be reopened; an open one closed.
AllowedReopen ==
  [s \in WorkItemState |->
     CASE s = "OPEN" -> {"INVESTIGATING"}
       [] s = "INVESTIGATING" -> {"RESOLVED", "OPEN"}
       [] s \in {"RESOLVED", "CLOSED"} -> {"CLOSED", "INVESTIGATING"}]
AllowedShortcut ==
  [s \in WorkItemState |->
     CASE s = "INVESTIGATING" -> {"RESOLVED", "OPEN"}
       [] s \in {"OPEN", "RESOLVED"} -> {"CLOSED", "INVESTIGATING"}
       [] s = "CLOSED" -> {}]

\* The moves each State subclass implements; every other one raises
\* IllegalTransitionError.
Allowed ==
  [s \in WorkItemState |->
     CASE s = "OPEN"          -> {"INVESTIGATING"}
       [] s = "INVESTIGATING" -> {"RESOLVED", "OPEN"}
       [] s = "RESOLVED"      -> {"CLOSED", "INVESTIGATING"}
       [] s = "CLOSED"        -> {}]

-----------------------------------------------------------------------------
(***************************************************************************)
(* An RCA is two free texts and two times.  Of a text the checks see only  *)
(* whether it is empty, blank (spaces, or other white space such as tabs)  *)
(* or has content; of the times whether end >= start.  The category is an  *)
(* enumeration and so never blank.                                         *)
(***************************************************************************)
Text == {"empty", "spaces", "tabs", "words"}

RcaBody == [fix_applied : Text, prevention : Text, ordered : BOOLEAN]

ASSUME NoRcaAssumption == NoRca \notin RcaBody

\* Python's str.strip() removes all white space, SQL's btrim() only spaces.
Strip(t) == IF t \in {"spaces", "tabs"} THEN "empty" ELSE t
Btrim(t) == IF t = "spaces" THEN "empty" ELSE t

\* RCAIn: both texts non-empty and not blank ...
RCAIn(b) == /\ Strip(b.fix_applied) # "empty"
            /\ Strip(b.prevention) # "empty"

\* ... and returned stripped.
Parsed(b) == [b EXCEPT !.fix_applied = Strip(@), !.prevention = Strip(@)]

\* The CHECK constraints of table rca.
RcaConstraints(b) == /\ Btrim(b.fix_applied) # "empty"
                     /\ Btrim(b.prevention) # "empty"
                     /\ b.ordered

\* rca_validator.validate
Validate(r) ==
  IF r = NoRca THEN "rca_required"
  ELSE IF /\ Strip(r.fix_applied) # "empty"
          /\ Strip(r.prevention) # "empty"
          /\ r.ordered
       THEN "ok" ELSE "rca_incomplete"

\* The RCAs that open the gate.
CompleteRcas == {b \in RcaBody : Validate(b) = "ok"}

\* Mutant: the gate is left out.
TransitionUngated(s, target, r) ==
  IF target \notin Allowed[s] THEN "illegal_transition" ELSE "ok"

\* states.transition: legality of the move first, the RCA gate only for a
\* close that is legal.
Transition(s, target, r) ==
  IF target \notin Allowed[s] THEN "illegal_transition"
  ELSE IF target = "CLOSED" THEN Validate(r) ELSE "ok"
=============================================================================
