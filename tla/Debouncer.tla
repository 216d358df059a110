----------------------------- MODULE Debouncer -----------------------------
(***************************************************************************)
(* What the workers promise of the debounce: an incident is opened for a   *)
(* component, and each signal is attached, once and for good, to an        *)
(* incident of its own component.  While windows do not end a component    *)
(* has a single incident.                                                  *)
(***************************************************************************)
CONSTANTS Components, Signals,
          CompOf,      (* the component of each signal                        *)
          None,        (* a signal attached to no incident                    *)
          Single       (* BOOLEAN: one incident per component?                *)

VARIABLES incidents,   (* per component the set of its incidents              *)
          attached     (* per signal its incident                             *)

Init == /\ incidents = [c \in Components |-> {}]
        /\ attached = [s \in Signals |-> None]

\* A new incident belongs to no other component.
Open(c) ==
  /\ Single => incidents[c] = {}
  /\ \E i \in incidents'[c] :
       /\ \A d \in Components : i \notin incidents[d]
       /\ incidents' = [incidents EXCEPT ![c] = @ \cup {i}]
  /\ UNCHANGED attached

Attach(s) ==
  /\ attached[s] = None
  /\ \E i \in incidents[CompOf[s]] : attached' = [attached EXCEPT ![s] = i]
  /\ UNCHANGED incidents

Next == \/ \E c \in Components : Open(c)
        \/ \E s \in Signals : Attach(s)

Spec == Init /\ [][Next]_<<incidents, attached>>
=============================================================================
