------------------------------- MODULE Stores --------------------------------
(***************************************************************************)
(* The persistent state the workers and the incidents API share, and the   *)
(* values it holds: the work_items rows (each with its 0..1 rca row) in    *)
(* PostgreSQL, the dedup:<component> keys and the live_feed set in Redis.  *)
(* It survives a crash of the backend.                                     *)
(***************************************************************************)
EXTENDS Lifecycle, Sequences

CONSTANTS Components,  (* component_id values                                 *)
          Signals,     (* signals offered to the backend, each told apart by  *)
                       (* the id of its raw document                          *)
          Expiry,      (* BOOLEAN: may a dedup key reach its TTL?             *)
          Crashes      (* BOOLEAN: may the backend stop and start again?      *)

ASSUME StoresAssumption == Expiry \in BOOLEAN /\ Crashes \in BOOLEAN

VARIABLES items,       (* table work_items: row i has primary key i           *)
          dedup,       (* Redis key dedup:<component>                         *)
          feed         (* ids of the members of Redis live_feed               *)

storeVars == <<items, dedup, feed>>

(***************************************************************************)
(* A work item.  `ended` says that end_time and mttr_seconds are set: one  *)
(* UPDATE sets both.                                                       *)
(***************************************************************************)
Item == [comp : Components, state : WorkItemState, count : Nat,
         ended : BOOLEAN, rca : RcaBody \cup {NoRca}]

NewItem(c) == [comp |-> c, state |-> "OPEN", count |-> 1,
               ended |-> FALSE, rca |-> NoRca]

(***************************************************************************)
(* The value of a dedup key: absent, the placeholder pending:<raw id> of   *)
(* the signal that claimed the window, or the id of a work item.           *)
(***************************************************************************)
NoKey      == [kind |-> "absent", of |-> 0]
Pending(s) == [kind |-> "pending", of |-> s]
ItemKey(i) == [kind |-> "item", of |-> i]

DedupKey == {NoKey} \cup {Pending(s) : s \in Signals}
                    \cup {ItemKey(i) : i \in 1 .. Len(items)}

StoresInit == /\ items = << >>
              /\ dedup = [c \in Components |-> NoKey]
              /\ feed = {}

\* Redis drops the key when its TTL (dedup_window_seconds) is over.
ExpireKey(c) == /\ Expiry
                /\ dedup[c] # NoKey
                /\ dedup' = [dedup EXCEPT ![c] = NoKey]
                /\ UNCHANGED <<items, feed>>

StoresTypeOK == /\ items \in Seq(Item)
                /\ dedup \in [Components -> DedupKey]
                /\ feed \subseteq 1 .. Len(items)

\* Every dedup key that names a work item names one of its own component.
KeysOwnItems ==
  \A c \in Components : dedup[c].kind = "item" =>
     items[dedup[c].of].comp = c
=============================================================================
