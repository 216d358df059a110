---------------------------- MODULE StoresProofs ----------------------------
(***************************************************************************)
(* Facts about the shared stores that the proofs of both their users, the  *)
(* workers and the incident API, rest on.                                  *)
(***************************************************************************)
EXTENDS Stores, SequenceTheorems, TLAPS

\* A row is updated in place.
LEMMA RowUpdated ==
  ASSUME StoresTypeOK, NEW i \in 1 .. Len(items), NEW row \in Item,
         items' = [items EXCEPT ![i] = row]
  PROVE  /\ items' \in Seq(Item) /\ Len(items') = Len(items)
         /\ DOMAIN items' = DOMAIN items
BY DEF StoresTypeOK

\* The tables only grow, so the keys and ids in use stay valid.
LEMMA StoresKept ==
  ASSUME StoresTypeOK, items' \in Seq(Item), Len(items) <= Len(items'),
         dedup' \in [Components -> DedupKey], feed' \subseteq 1 .. Len(items)
  PROVE  StoresTypeOK'
<1>1. DedupKey \subseteq DedupKey'
  BY DEF DedupKey, StoresTypeOK
<1>2. feed' \subseteq 1 .. Len(items')
  BY DEF StoresTypeOK
<1> QED
  BY <1>1, <1>2 DEF StoresTypeOK

\* A row is inserted: it gets the next id, the others stay.
LEMMA RowInserted ==
  ASSUME StoresTypeOK, NEW c \in Components, items' = Append(items, NewItem(c))
  PROVE  /\ items' \in Seq(Item) /\ Len(items') = Len(items) + 1
         /\ DOMAIN items' = 1 .. Len(items')
         /\ \A i \in 1 .. Len(items) : items'[i] = items[i]
         /\ items'[Len(items) + 1] = NewItem(c)
<1>1. NewItem(c) \in Item
  BY DEF NewItem, Item, WorkItemState
<1> QED
  BY <1>1 DEF StoresTypeOK
=============================================================================
