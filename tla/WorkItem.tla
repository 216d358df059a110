------------------------------ MODULE WorkItem ------------------------------
(***************************************************************************)
(* What the incident API promises of a work item: the table of work items  *)
(* changes only by a new one, by a move its current state allows (a close  *)
(* only with a complete RCA), or by an RCA, each in one step.              *)
(***************************************************************************)
EXTENDS Lifecycle, Sequences

VARIABLE table   (* per work item its state, RCA row and whether it has ended *)

Init == table = << >>

Open == table' = Append(table, [state |-> "OPEN", rca |-> NoRca, ended |-> FALSE])

Move(i, target) ==
  /\ Transition(table[i].state, target, table[i].rca) = "ok"
  /\ table' = [table EXCEPT ![i] = [state |-> target, rca |-> @.rca,
                                    ended |-> (target = "CLOSED")]]

Document(i, b) == table' = [table EXCEPT ![i].rca = b]

Next == \/ Open
        \/ \E i \in DOMAIN table : \/ \E target \in WorkItemState : Move(i, target)
                                   \/ \E b \in CompleteRcas : Document(i, b)

Spec == Init /\ [][Next]_table
=============================================================================
