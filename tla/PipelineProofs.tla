--------------------------- MODULE PipelineProofs ---------------------------
(***************************************************************************)
(* Proofs about Pipeline, for any number of workers, signals and           *)
(* components and any bound on the attempts.  First what holds in the      *)
(* hostile case (lost acknowledgements, expiry, crashes): every id names a *)
(* row and the three stores agree.  Then the debounce, which rests on two  *)
(* assumptions the code does not enforce: dedup keys outlive their window  *)
(* and no acknowledgement is lost.                                         *)
(***************************************************************************)
EXTENDS Pipeline, StoresProofs

\* Where a signal has a work item, and where it is not linked to one yet.
WithItem   == {"publish", "feed", "alert", "overwrite", "increment", "link",
               "backfill", "metric"}
BeforeLink == {"new", "queued", "insert", "claim", "create", "publish", "feed",
               "alert", "lookup", "recreate", "overwrite", "increment"}

(***************************************************************************)
(* How far a signal has come says what the stores hold of it: a worker     *)
(* that has a work item has one of its signal's own component; nothing is  *)
(* linked before the link; the three stores agree.                         *)
(***************************************************************************)
SignalOK(s) ==
  /\ stage[s] \in WithItem \/ links[s] > 0 =>
       wid[s] \in 1 .. Len(items) /\ items[wid[s]].comp = CompOf[s]
  /\ stage[s] \in BeforeLink => links[s] = 0 /\ owner[s] = 0
  /\ (stage[s] \in Calls \ {"insert"}) \/ links[s] > 0 => s \in raw
  /\ stage[s] \in {"backfill", "metric"} => links[s] > 0
  /\ owner[s] # 0 => links[s] > 0 /\ owner[s] = wid[s]

PipelineIInv == /\ TypeOK
                /\ KeysOwnItems
                /\ \A s \in Signals : SignalOK(s)

-----------------------------------------------------------------------------
\* A call starts with no failed attempt.
LEMMA AttemptsType == Fresh \in Attempts
BY RetryAssumption DEF Fresh, Attempts

\* As long as attempts are left their count is within its bounds.
LEMMA AfterFailureType ==
  ASSUME NEW a \in Attempts, NEW err, ~Exhausted(AfterFailure(a, err))
  PROVE  AfterFailure(a, err) \in Attempts
<1>1. CASE TriedAgain(a.inner, err)
  BY <1>1, RetryAssumption DEF AfterFailure, TriedAgain, Attempts
<1>2. CASE ~TriedAgain(a.inner, err)
  BY <1>2, RetryAssumption DEF AfterFailure, Exhausted, Attempts
<1> QED
  BY <1>1, <1>2

\* What a call that is tried again does to the worker.
LEMMA RetriedStep ==
  ASSUME TypeOK, NEW s \in Signals, NEW err, NEW next \in Stages,
         Retried(s, err, next)
  PROVE  /\ stage' \in [Signals -> Stages] /\ att' \in [Signals -> Attempts]
         /\ \A t \in Signals \ {s} : stage'[t] = stage[t]
         /\ \/ err = "none" /\ stage'[s] = next
            \/ err # "none" /\ stage'[s] \in {"failed", stage[s]}
<1> DEFINE a == AfterFailure(att[s], err)
<1>1. stage \in [Signals -> Stages] /\ att \in [Signals -> Attempts]
  BY DEF TypeOK
<1>2. CASE err = "none" /\ stage' = [stage EXCEPT ![s] = next]
           /\ att' = [att EXCEPT ![s] = Fresh]
  BY <1>1, <1>2, AttemptsType
<1>3. CASE err # "none" /\ stage' = [stage EXCEPT ![s] = "failed"]
           /\ att' = [att EXCEPT ![s] = Fresh]
  BY <1>1, <1>3, AttemptsType DEF Stages, Settled
<1>4. CASE err # "none" /\ ~Exhausted(a) /\ att' = [att EXCEPT ![s] = a]
           /\ UNCHANGED stage
  BY <1>1, <1>4, AfterFailureType
<1> QED
  BY <1>2, <1>3, <1>4 DEF Retried

\* What a call that is not tried again does to the worker.
LEMMA OnceStep ==
  ASSUME TypeOK, NEW s \in Signals, NEW err, NEW next \in Stages,
         Once(s, err, next)
  PROVE  /\ stage' \in [Signals -> Stages] /\ att' \in [Signals -> Attempts]
         /\ \A t \in Signals \ {s} : stage'[t] = stage[t]
         /\ \/ err = "none" /\ stage'[s] = next
            \/ err # "none" /\ stage'[s] = "failed"
BY DEF TypeOK, Once, Stages, Settled

\* Empty stores and signals not yet sent satisfy the invariant.
LEMMA PipelineInitInv == Init => PipelineIInv
BY AttemptsType, PipelineAssumption
DEF Init, StoresInit, PipelineIInv, TypeOK, StoresTypeOK, DedupKey, KeysOwnItems,
    SignalOK, NoKey, Stages, WithItem, BeforeLink, Calls

-----------------------------------------------------------------------------
\* No step takes a work item away or moves it to another component.
RowsKept == /\ Len(items) <= Len(items')
            /\ \A i \in 1 .. Len(items) : items'[i].comp = items[i].comp

\* A step of one signal keeps the invariant of all others.
LEMMA OthersKept ==
  ASSUME PipelineIInv, RowsKept, raw \subseteq raw', NEW s \in Signals,
         \A t \in Signals \ {s} :
           /\ stage'[t] = stage[t] /\ wid'[t] = wid[t]
           /\ links'[t] = links[t] /\ owner'[t] = owner[t],
         SignalOK(s)'
  PROVE  \A t \in Signals : SignalOK(t)'
<1> SUFFICES ASSUME NEW t \in Signals \ {s} PROVE SignalOK(t)'
  OBVIOUS
<1>1. SignalOK(t) /\ Len(items) \in Nat /\ Len(items') >= Len(items)
  BY DEF PipelineIInv, TypeOK, StoresTypeOK, RowsKept
<1> QED
  BY <1>1 DEF SignalOK, RowsKept

\* The values a dedup key may take in one step.
LEMMA KeysKept ==
  ASSUME PipelineIInv, RowsKept, NEW c \in Components, NEW v,
         dedup' = [dedup EXCEPT ![c] = v] \/ UNCHANGED dedup,
         \/ v.kind # "item"
         \/ \E i \in 1 .. Len(items) : v = ItemKey(i) /\ items[i].comp = c
  PROVE  KeysOwnItems'
<1>1. \A d \in Components : dedup[d].kind = "item" => dedup[d].of \in 1 .. Len(items)
  <2>1. \A k \in DedupKey : k.kind = "item" => k.of \in 1 .. Len(items)
    BY DEF DedupKey, NoKey, Pending, ItemKey
  <2> QED
    BY <2>1 DEF PipelineIInv, TypeOK, StoresTypeOK
<1>2. dedup \in [Components -> DedupKey]
  BY DEF PipelineIInv, TypeOK, StoresTypeOK
<1>3. CASE UNCHANGED dedup
  BY <1>1, <1>3 DEF PipelineIInv, KeysOwnItems, RowsKept
<1>4. CASE dedup' = [dedup EXCEPT ![c] = v]
  BY <1>1, <1>2, <1>4 DEF PipelineIInv, KeysOwnItems, RowsKept, ItemKey
<1> QED
  BY <1>3, <1>4

\* A call that writes no row and no key.
LEMMA StoresUntouched ==
  ASSUME PipelineIInv, UNCHANGED <<items, dedup>>
  PROVE  /\ RowsKept /\ KeysOwnItems'
         /\ feed' \subseteq 1 .. Len(items) => StoresTypeOK'
<1>1. StoresTypeOK /\ KeysOwnItems /\ Len(items) \in Nat
  BY DEF PipelineIInv, TypeOK, StoresTypeOK
<1>2. RowsKept
  BY <1>1 DEF RowsKept
<1>3. KeysOwnItems'
  BY <1>1 DEF KeysOwnItems
<1>4. feed' \subseteq 1 .. Len(items) => StoresTypeOK'
  BY <1>1 DEF StoresTypeOK, DedupKey
<1> QED
  BY <1>2, <1>3, <1>4

\* A call that sets the key of the signal's component to v, or does not.
LEMMA KeyWritten ==
  ASSUME PipelineIInv, NEW c \in Components, NEW v, UNCHANGED <<items, feed>>,
         dedup' = [dedup EXCEPT ![c] = v] \/ UNCHANGED dedup,
         \/ v = NoKey
         \/ \E s \in Signals : v = Pending(s)
         \/ \E i \in 1 .. Len(items) : v = ItemKey(i) /\ items[i].comp = c
  PROVE  StoresTypeOK' /\ KeysOwnItems' /\ RowsKept
<1>1. StoresTypeOK /\ Len(items) \in Nat
  BY DEF PipelineIInv, TypeOK, StoresTypeOK
<1>2. RowsKept
  BY <1>1 DEF RowsKept
<1>3. v \in DedupKey
  BY DEF DedupKey
<1>4. v.kind # "item" \/ \E i \in 1 .. Len(items) : v = ItemKey(i) /\ items[i].comp = c
  BY DEF NoKey, Pending
<1>5. KeysOwnItems'
  BY <1>2, <1>4, KeysKept
<1>6. StoresTypeOK'
  BY <1>1, <1>3 DEF StoresTypeOK, DedupKey
<1> QED
  BY <1>2, <1>5, <1>6

\* Mongo: the raw document is there before anything else is done.
LEMMA InsertRawInv ==
  ASSUME PipelineIInv, NEW s \in Signals, InsertRaw(s) PROVE PipelineIInv'
<1>1. TypeOK /\ SignalOK(s)
  BY DEF PipelineIInv
<1>2. PICK r \in StoreReplies :
        /\ raw' = IF r.applied THEN raw \cup {s} ELSE raw
        /\ Retried(s, IF s \in raw THEN "other" ELSE r.err, "claim")
  BY DEF InsertRaw
<1>3. r.err = "none" => r.applied
  BY RetryAssumption DEF StoreReplies, Ok
<1>4. /\ stage' \in [Signals -> Stages] /\ att' \in [Signals -> Attempts]
      /\ \A t \in Signals \ {s} : stage'[t] = stage[t]
      /\ \/ stage'[s] = "claim" /\ s \in raw'
         \/ stage'[s] \in {"failed", "insert"}
  BY <1>1, <1>2, <1>3, RetriedStep DEF InsertRaw, Stages, Calls
<1>5. StoresTypeOK' /\ KeysOwnItems' /\ RowsKept
  BY <1>1, StoresUntouched DEF InsertRaw, storeVars, TypeOK, StoresTypeOK
<1>6. TypeOK'
  BY <1>1, <1>2, <1>4, <1>5 DEF InsertRaw, storeVars, TypeOK
<1>7. SignalOK(s)'
  BY <1>1, <1>2, <1>4
  DEF InsertRaw, storeVars, SignalOK, WithItem, BeforeLink, Calls
<1> QED
  BY <1>2, <1>4, <1>5, <1>6, <1>7, OthersKept DEF PipelineIInv, InsertRaw

\* Redis: a claim puts a placeholder into the key.
LEMMA ClaimInv ==
  ASSUME PipelineIInv, NEW s \in Signals, Claim(s) PROVE PipelineIInv'
<1>1. TypeOK /\ SignalOK(s) /\ CompOf[s] \in Components
  BY PipelineAssumption DEF PipelineIInv
<1>2. PICK r \in StoreReplies :
        Once(s, r.err, IF dedup[CompOf[s]] = NoKey THEN "create" ELSE "lookup")
  BY DEF Claim
<1>3. /\ stage' \in [Signals -> Stages] /\ att' \in [Signals -> Attempts]
      /\ \A t \in Signals \ {s} : stage'[t] = stage[t]
      /\ stage'[s] \in {"failed", "create", "lookup"}
  BY <1>1, <1>2, OnceStep DEF Stages, Calls
<1>4. StoresTypeOK' /\ KeysOwnItems' /\ RowsKept
  BY <1>1, KeyWritten DEF Claim
<1>5. TypeOK'
  BY <1>1, <1>3, <1>4 DEF Claim, sinkVars, TypeOK
<1>6. SignalOK(s)'
  BY <1>1, <1>3 DEF Claim, sinkVars, SignalOK, WithItem, BeforeLink, Calls
<1> QED
  BY <1>3, <1>4, <1>5, <1>6, OthersKept DEF PipelineIInv, Claim, sinkVars

\* Redis: the key of the claim gets the id of its own work item.
LEMMA PublishInv ==
  ASSUME PipelineIInv, NEW s \in Signals, Publish(s) PROVE PipelineIInv'
<1>1. /\ TypeOK /\ SignalOK(s) /\ CompOf[s] \in Components
      /\ wid[s] \in 1 .. Len(items) /\ items[wid[s]].comp = CompOf[s]
  BY PipelineAssumption DEF PipelineIInv, Publish, SignalOK, WithItem
<1>2. \E r \in StoreReplies : Once(s, r.err, "feed")
  BY DEF Publish
<1>3. /\ stage' \in [Signals -> Stages] /\ att' \in [Signals -> Attempts]
      /\ \A t \in Signals \ {s} : stage'[t] = stage[t]
      /\ stage'[s] \in {"failed", "feed"}
  BY <1>1, <1>2, OnceStep DEF Stages, Calls
<1>4. StoresTypeOK' /\ KeysOwnItems' /\ RowsKept
  <2>1. \/ dedup' = [dedup EXCEPT ![CompOf[s]] = ItemKey(wid[s])]
        \/ UNCHANGED dedup
    BY DEF Publish
  <2> QED
    BY <1>1, <2>1, KeyWritten DEF Publish
<1>5. TypeOK'
  BY <1>1, <1>3, <1>4 DEF Publish, sinkVars, TypeOK
<1>6. SignalOK(s)'
  BY <1>1, <1>3 DEF Publish, sinkVars, SignalOK, WithItem, BeforeLink, Calls
<1> QED
  BY <1>3, <1>4, <1>5, <1>6, OthersKept DEF PipelineIInv, Publish, sinkVars

\* Redis: so does the key in the branch that re-creates.
LEMMA OverwriteInv ==
  ASSUME PipelineIInv, NEW s \in Signals, Overwrite(s) PROVE PipelineIInv'
<1>1. /\ TypeOK /\ SignalOK(s) /\ CompOf[s] \in Components
      /\ wid[s] \in 1 .. Len(items) /\ items[wid[s]].comp = CompOf[s]
  BY PipelineAssumption DEF PipelineIInv, Overwrite, SignalOK, WithItem
<1>2. \E r \in StoreReplies : Once(s, r.err, "link")
  BY DEF Overwrite
<1>3. /\ stage' \in [Signals -> Stages] /\ att' \in [Signals -> Attempts]
      /\ \A t \in Signals \ {s} : stage'[t] = stage[t]
      /\ stage'[s] \in {"failed", "link"}
  BY <1>1, <1>2, OnceStep DEF Stages, Calls
<1>4. StoresTypeOK' /\ KeysOwnItems' /\ RowsKept
  <2>1. \/ dedup' = [dedup EXCEPT ![CompOf[s]] = ItemKey(wid[s])]
        \/ UNCHANGED dedup
    BY DEF Overwrite
  <2> QED
    BY <1>1, <2>1, KeyWritten DEF Overwrite
<1>5. TypeOK'
  BY <1>1, <1>3, <1>4 DEF Overwrite, sinkVars, TypeOK
<1>6. SignalOK(s)'
  BY <1>1, <1>3 DEF Overwrite, sinkVars, SignalOK, WithItem, BeforeLink, Calls
<1> QED
  BY <1>3, <1>4, <1>5, <1>6, OthersKept DEF PipelineIInv, Overwrite, sinkVars

\* PostgreSQL: the new row is the last one and of the signal's component.
LEMMA InsertItemInv ==
  ASSUME PipelineIInv, NEW s \in Signals, InsertItem(s) PROVE PipelineIInv'
<1>1. /\ TypeOK /\ SignalOK(s) /\ CompOf[s] \in Components
      /\ StoresTypeOK /\ Len(items) \in Nat
  BY PipelineAssumption DEF PipelineIInv, TypeOK, StoresTypeOK
<1> DEFINE next == IF stage[s] = "create" THEN "publish" ELSE "overwrite"
<1>2. PICK r \in PgReplies :
        /\ items' = IF r.applied THEN Append(items, NewItem(CompOf[s])) ELSE items
        /\ wid' = IF r.err = "none" THEN [wid EXCEPT ![s] = Len(items) + 1] ELSE wid
        /\ Retried(s, r.err, next)
  BY DEF InsertItem
<1>3. r.err = "none" => r.applied
  BY RetryAssumption DEF PgReplies, Ok
<1>4. /\ stage' \in [Signals -> Stages] /\ att' \in [Signals -> Attempts]
      /\ \A t \in Signals \ {s} : stage'[t] = stage[t]
      /\ \/ r.err = "none" /\ stage'[s] \in {"publish", "overwrite"}
         \/ r.err # "none" /\ stage'[s] \in {"failed", stage[s]}
  BY <1>1, <1>2, RetriedStep DEF Stages, Calls
<1>5. /\ RowsKept /\ items' \in Seq(Item)
      /\ \/ Len(items') = Len(items) /\ items' = items
         \/ /\ r.applied /\ Len(items') = Len(items) + 1
            /\ items'[Len(items) + 1].comp = CompOf[s]
  <2>1. CASE r.applied
    <3>1. items' = Append(items, NewItem(CompOf[s])) /\ NewItem(CompOf[s]).comp = CompOf[s]
      BY <1>2, <2>1 DEF NewItem
    <3>2. /\ items' \in Seq(Item) /\ Len(items') = Len(items) + 1
          /\ \A i \in 1 .. Len(items) : items'[i] = items[i]
          /\ items'[Len(items) + 1] = NewItem(CompOf[s])
      BY <1>1, <3>1, RowInserted
    <3> QED
      BY <1>1, <2>1, <3>1, <3>2 DEF RowsKept
  <2>2. CASE ~r.applied
    BY <1>1, <1>2, <2>2 DEF RowsKept, StoresTypeOK
  <2> QED
    BY <2>1, <2>2
<1>6. StoresTypeOK'
  BY <1>1, <1>5, StoresKept DEF InsertItem, StoresTypeOK
<1>7. KeysOwnItems'
  <2>1. UNCHANGED dedup /\ NoKey.kind # "item"
    BY DEF InsertItem, NoKey
  <2> QED
    BY <1>1, <1>5, <2>1, KeysKept
<1>8. wid' \in [Signals -> 0 .. Len(items')]
  BY <1>1, <1>2, <1>3, <1>5 DEF TypeOK
<1>9. TypeOK'
  BY <1>1, <1>4, <1>5, <1>6, <1>8 DEF InsertItem, sinkVars, TypeOK
<1>10. SignalOK(s)'
  <2>1. CASE r.err = "none"
    <3>1. wid'[s] = Len(items) + 1 /\ Len(items') = Len(items) + 1
      BY <1>1, <1>2, <1>3, <1>5, <2>1, RowInserted DEF TypeOK
    <3> QED
      BY <1>1, <1>2, <1>3, <1>4, <1>5, <2>1, <3>1
      DEF InsertItem, sinkVars, SignalOK, WithItem, BeforeLink, Calls
  <2>2. CASE r.err # "none"
    BY <1>1, <1>2, <1>4, <2>2
    DEF InsertItem, sinkVars, SignalOK, WithItem, BeforeLink, Calls
  <2> QED
    BY <2>1, <2>2
<1>11. \A t \in Signals \ {s} : wid'[t] = wid[t]
  BY <1>1, <1>2 DEF TypeOK
<1> QED
  BY <1>4, <1>5, <1>7, <1>9, <1>10, <1>11, OthersKept DEF PipelineIInv, InsertItem, sinkVars

\* Redis: the live feed gets the id of a row.
LEMMA PushFeedInv ==
  ASSUME PipelineIInv, NEW s \in Signals, PushFeed(s) PROVE PipelineIInv'
<1>1. TypeOK /\ SignalOK(s) /\ wid[s] \in 1 .. Len(items)
  BY DEF PipelineIInv, PushFeed, SignalOK, WithItem
<1>2. PICK r \in StoreReplies : /\ feed' = IF r.applied THEN feed \cup {wid[s]} ELSE feed
                                /\ Retried(s, r.err, "alert")
  BY DEF PushFeed
<1>3. /\ stage' \in [Signals -> Stages] /\ att' \in [Signals -> Attempts]
      /\ \A t \in Signals \ {s} : stage'[t] = stage[t]
      /\ stage'[s] \in {"failed", "feed", "alert"}
  BY <1>1, <1>2, RetriedStep DEF PushFeed, Stages, Calls
<1>4. StoresTypeOK' /\ KeysOwnItems' /\ RowsKept
  BY <1>1, <1>2, StoresUntouched DEF PushFeed, TypeOK, StoresTypeOK
<1>5. TypeOK'
  BY <1>1, <1>3, <1>4 DEF PushFeed, sinkVars, TypeOK
<1>6. SignalOK(s)'
  BY <1>1, <1>3 DEF PushFeed, sinkVars, SignalOK, WithItem, BeforeLink, Calls
<1> QED
  BY <1>3, <1>4, <1>5, <1>6, OthersKept DEF PipelineIInv, PushFeed, sinkVars

\* An alerter is told the id of a row.
LEMMA AlertInv ==
  ASSUME PipelineIInv, NEW s \in Signals, Alert(s) PROVE PipelineIInv'
<1>1. TypeOK /\ SignalOK(s) /\ wid[s] \in 1 .. Len(items)
  BY DEF PipelineIInv, Alert, SignalOK, WithItem
<1>2. stage' \in [Signals -> Stages] /\ \A t \in Signals \ {s} : stage'[t] = stage[t]
  BY <1>1 DEF Alert, TypeOK, Stages, Calls
<1>3. StoresTypeOK' /\ KeysOwnItems' /\ RowsKept
  BY <1>1, StoresUntouched DEF Alert, storeVars, TypeOK, StoresTypeOK
<1>4. TypeOK'
  BY <1>1, <1>2, <1>3 DEF Alert, storeVars, TypeOK
<1>5. SignalOK(s)'
  BY <1>1, <1>2 DEF Alert, storeVars, SignalOK, WithItem, BeforeLink, Calls, TypeOK
<1> QED
  BY <1>2, <1>3, <1>4, <1>5, OthersKept DEF PipelineIInv, Alert

\* Redis: the id found in the key is that of a row of the component.
LEMMA LookupInv ==
  ASSUME PipelineIInv, NEW s \in Signals, Lookup(s) PROVE PipelineIInv'
<1> DEFINE key == dedup[CompOf[s]]
<1>1. TypeOK /\ SignalOK(s) /\ CompOf[s] \in Components /\ key \in DedupKey
  BY PipelineAssumption DEF PipelineIInv, TypeOK, StoresTypeOK
<1>2. PICK r \in StoreReplies :
        /\ wid' = IF r.err = "none" /\ key.kind = "item"
                  THEN [wid EXCEPT ![s] = key.of] ELSE wid
        /\ Once(s, IF key.kind = "pending" THEN "other" ELSE r.err,
                IF r.err = "none" /\ key.kind = "item" THEN "increment" ELSE "recreate")
  BY DEF Lookup
<1>3. /\ stage' \in [Signals -> Stages] /\ att' \in [Signals -> Attempts]
      /\ \A t \in Signals \ {s} : stage'[t] = stage[t]
      /\ \/ stage'[s] = "increment" /\ r.err = "none" /\ key.kind = "item"
         \/ stage'[s] \in {"failed", "recreate"}
  BY <1>1, <1>2, OnceStep DEF Stages, Calls
<1>4. key.kind = "item" => key.of \in 1 .. Len(items) /\ items[key.of].comp = CompOf[s]
  <2>1. \A k \in DedupKey : k.kind = "item" => k.of \in 1 .. Len(items)
    BY DEF DedupKey, NoKey, Pending, ItemKey
  <2> QED
    BY <1>1, <2>1 DEF PipelineIInv, KeysOwnItems
<1>5. StoresTypeOK' /\ KeysOwnItems' /\ RowsKept
  BY <1>1, StoresUntouched DEF Lookup, storeVars, TypeOK, StoresTypeOK
<1>6. wid' \in [Signals -> 0 .. Len(items)] /\ \A t \in Signals \ {s} : wid'[t] = wid[t]
  BY <1>1, <1>2, <1>4 DEF TypeOK
<1>7. TypeOK'
  BY <1>1, <1>3, <1>5, <1>6 DEF Lookup, storeVars, sinkVars, TypeOK
<1>8. SignalOK(s)'
  BY <1>1, <1>2, <1>3, <1>4
  DEF Lookup, storeVars, sinkVars, SignalOK, WithItem, BeforeLink, Calls, TypeOK
<1> QED
  BY <1>3, <1>5, <1>6, <1>7, <1>8, OthersKept DEF PipelineIInv, Lookup, sinkVars, storeVars

\* PostgreSQL: a count moves no work item to another component.
LEMMA IncrementInv ==
  ASSUME PipelineIInv, NEW s \in Signals, Increment(s) PROVE PipelineIInv'
<1>1. TypeOK /\ SignalOK(s) /\ wid[s] \in 1 .. Len(items) /\ StoresTypeOK
  BY DEF PipelineIInv, Increment, SignalOK, WithItem, TypeOK
<1> DEFINE row == [items[wid[s]] EXCEPT !.count = @ + 1]
<1>2. PICK r \in PgReplies :
        /\ items' = IF r.applied THEN [items EXCEPT ![wid[s]] = row] ELSE items
        /\ Retried(s, r.err, "link")
  BY DEF Increment
<1>3. /\ stage' \in [Signals -> Stages] /\ att' \in [Signals -> Attempts]
      /\ \A t \in Signals \ {s} : stage'[t] = stage[t]
      /\ stage'[s] \in {"failed", "increment", "link"}
  BY <1>1, <1>2, RetriedStep DEF Increment, Stages, Calls
<1>4. row \in Item /\ row.comp = items[wid[s]].comp
  <2>1. items[wid[s]] \in Item
    BY <1>1 DEF StoresTypeOK
  <2> QED
    BY <2>1 DEF Item
<1>5. items' \in Seq(Item) /\ Len(items') = Len(items) /\ RowsKept
  <2>1. CASE items' = [items EXCEPT ![wid[s]] = row]
    <3>1. items' \in Seq(Item) /\ Len(items') = Len(items) /\ Len(items) \in Nat
      BY <1>1, <1>4, <2>1, RowUpdated DEF StoresTypeOK
    <3>2. \A i \in 1 .. Len(items) : items'[i].comp = items[i].comp
      <4> HIDE DEF row
      <4> QED
        BY <1>1, <1>4, <2>1 DEF StoresTypeOK
    <3> QED
      BY <3>1, <3>2 DEF RowsKept
  <2>2. CASE items' = items
    BY <1>1, <2>2 DEF RowsKept, StoresTypeOK
  <2> QED
    BY <1>2, <2>1, <2>2
<1>6. StoresTypeOK'
  BY <1>1, <1>5, StoresKept DEF Increment, StoresTypeOK
<1>7. KeysOwnItems'
  <2>1. UNCHANGED dedup /\ NoKey.kind # "item" /\ CompOf[s] \in Components
    BY PipelineAssumption DEF Increment, NoKey
  <2> QED
    BY <1>5, <2>1, KeysKept
<1>8. TypeOK'
  BY <1>1, <1>3, <1>5, <1>6 DEF Increment, sinkVars, TypeOK
<1>9. SignalOK(s)'
  BY <1>1, <1>3, <1>5
  DEF Increment, sinkVars, SignalOK, WithItem, BeforeLink, Calls, RowsKept
<1> QED
  BY <1>3, <1>5, <1>7, <1>8, <1>9, OthersKept DEF PipelineIInv, Increment, sinkVars

\* PostgreSQL: the link names the work item the worker holds.
LEMMA AddLinkInv ==
  ASSUME PipelineIInv, NEW s \in Signals, AddLink(s) PROVE PipelineIInv'
<1>1. TypeOK /\ SignalOK(s)
  BY DEF PipelineIInv
<1>2. PICK r \in PgReplies : /\ links' = IF r.applied THEN [links EXCEPT ![s] = @ + 1]
                                                     ELSE links
                             /\ Retried(s, r.err, "backfill")
  BY DEF AddLink
<1>3. r.err = "none" => r.applied
  BY RetryAssumption DEF PgReplies, Ok
<1>4. /\ stage' \in [Signals -> Stages] /\ att' \in [Signals -> Attempts]
      /\ \A t \in Signals \ {s} : stage'[t] = stage[t]
      /\ \/ stage'[s] = "backfill" /\ r.applied
         \/ stage'[s] \in {"failed", "link"}
  BY <1>1, <1>2, <1>3, RetriedStep DEF AddLink, Stages, Calls
<1>5. /\ links' \in [Signals -> Nat] /\ \A t \in Signals \ {s} : links'[t] = links[t]
      /\ links'[s] >= links[s] /\ r.applied => links'[s] > 0
  BY <1>1, <1>2 DEF TypeOK
<1>6. StoresTypeOK' /\ KeysOwnItems' /\ RowsKept
  BY <1>1, StoresUntouched DEF AddLink, storeVars, TypeOK, StoresTypeOK
<1>7. TypeOK'
  BY <1>1, <1>4, <1>5, <1>6 DEF AddLink, storeVars, TypeOK
<1>8. SignalOK(s)'
  BY <1>1, <1>4, <1>5
  DEF AddLink, storeVars, SignalOK, WithItem, BeforeLink, Calls, TypeOK
<1> QED
  BY <1>4, <1>5, <1>6, <1>7, <1>8, OthersKept DEF PipelineIInv, AddLink

\* Mongo: the document is tied to what was linked before.
LEMMA BackfillInv ==
  ASSUME PipelineIInv, NEW s \in Signals, Backfill(s) PROVE PipelineIInv'
<1>1. TypeOK /\ SignalOK(s) /\ wid[s] \in 1 .. Len(items)
  BY DEF PipelineIInv, Backfill, SignalOK, WithItem
<1>2. /\ stage' \in [Signals -> Stages] /\ stage'[s] = "metric"
      /\ \A t \in Signals \ {s} : stage'[t] = stage[t]
  BY <1>1 DEF Backfill, TypeOK, Stages, Calls
<1>3. /\ owner' \in [Signals -> 0 .. Len(items)] /\ owner'[s] \in {owner[s], wid[s]}
      /\ \A t \in Signals \ {s} : owner'[t] = owner[t]
  BY <1>1 DEF Backfill, TypeOK
<1>4. StoresTypeOK' /\ KeysOwnItems' /\ RowsKept
  BY <1>1, StoresUntouched DEF Backfill, storeVars, TypeOK, StoresTypeOK
<1>5. TypeOK'
  BY <1>1, <1>2, <1>3, <1>4 DEF Backfill, storeVars, TypeOK
<1>6. SignalOK(s)'
  BY <1>1, <1>2, <1>3 DEF Backfill, storeVars, SignalOK, WithItem, BeforeLink, Calls
<1> QED
  BY <1>2, <1>3, <1>4, <1>5, <1>6, OthersKept DEF PipelineIInv, Backfill

\* PostgreSQL: the metric touches nothing else.
LEMMA UpsertMetricInv ==
  ASSUME PipelineIInv, NEW s \in Signals, UpsertMetric(s) PROVE PipelineIInv'
<1>1. TypeOK /\ SignalOK(s) /\ CompOf[s] \in Components
  BY PipelineAssumption DEF PipelineIInv
<1>2. PICK r \in PgReplies :
        /\ metric' = IF r.applied THEN [metric EXCEPT ![CompOf[s]] = @ + 1] ELSE metric
        /\ Retried(s, r.err, "processed")
  BY DEF UpsertMetric
<1>3. /\ stage' \in [Signals -> Stages] /\ att' \in [Signals -> Attempts]
      /\ \A t \in Signals \ {s} : stage'[t] = stage[t]
      /\ stage'[s] \in {"failed", "metric", "processed"}
  BY <1>1, <1>2, RetriedStep DEF UpsertMetric, Stages, Settled
<1>4. StoresTypeOK' /\ KeysOwnItems' /\ RowsKept
  BY <1>1, StoresUntouched DEF UpsertMetric, storeVars, TypeOK, StoresTypeOK
<1>5. TypeOK'
  BY <1>1, <1>2, <1>3, <1>4 DEF UpsertMetric, storeVars, TypeOK
<1>6. SignalOK(s)'
  BY <1>1, <1>3 DEF UpsertMetric, storeVars, SignalOK, WithItem, BeforeLink, Calls
<1> QED
  BY <1>3, <1>4, <1>5, <1>6, OthersKept DEF PipelineIInv, UpsertMetric

\* Accepting and taking a signal touch no store.
LEMMA QueueInv ==
  ASSUME PipelineIInv, NEW s \in Signals, Accept(s) \/ Take(s) PROVE PipelineIInv'
<1>1. TypeOK /\ SignalOK(s) /\ UNCHANGED <<storeVars, wid, att, sinkVars>>
  BY DEF PipelineIInv, Accept, Take
<1>2. /\ stage' \in [Signals -> Stages] /\ stage[s] \in {"new", "queued"}
      /\ \A t \in Signals \ {s} : stage'[t] = stage[t]
      /\ stage'[s] \in {"queued", "insert"}
  BY <1>1 DEF Accept, Take, TypeOK, Stages, Calls
<1>3. StoresTypeOK' /\ KeysOwnItems' /\ RowsKept
  BY <1>1, StoresUntouched DEF storeVars, TypeOK, StoresTypeOK
<1>4. TypeOK'
  BY <1>1, <1>2, <1>3 DEF storeVars, sinkVars, TypeOK
<1>5. SignalOK(s)'
  BY <1>1, <1>2 DEF storeVars, sinkVars, SignalOK, WithItem, BeforeLink, Calls
<1> QED
  BY <1>1, <1>2, <1>3, <1>4, <1>5, OthersKept DEF PipelineIInv, sinkVars

\* A key that expires names nothing.
LEMMA ExpireInv ==
  ASSUME PipelineIInv, NEW c \in Components, Expire(c) PROVE PipelineIInv'
<1>1. TypeOK /\ UNCHANGED <<items, feed, localVars, sinkVars>>
  BY DEF PipelineIInv, Expire, ExpireKey
<1>2. StoresTypeOK' /\ KeysOwnItems'
  BY KeyWritten DEF Expire, ExpireKey
<1>3. TypeOK'
  BY <1>1, <1>2 DEF localVars, sinkVars, TypeOK
<1> QED
  BY <1>1, <1>2, <1>3 DEF PipelineIInv, SignalOK, localVars, sinkVars

\* A crash leaves the stores as they are.
LEMMA DropInv ==
  ASSUME PipelineIInv, DropTasks, UNCHANGED storeVars PROVE PipelineIInv'
<1>1. TypeOK /\ UNCHANGED <<storeVars, wid, sinkVars>>
  BY DEF PipelineIInv, DropTasks
<1>2. stage' \in [Signals -> Stages] /\ \A s \in Signals : stage'[s] \in {"lost", stage[s]}
  BY <1>1 DEF DropTasks, TypeOK, Stages, Settled
<1>3. StoresTypeOK' /\ KeysOwnItems'
  BY <1>1, StoresUntouched DEF storeVars, TypeOK, StoresTypeOK
<1>4. TypeOK'
  BY <1>1, <1>2, <1>3, AttemptsType DEF DropTasks, storeVars, sinkVars, TypeOK
<1>5. \A s \in Signals : SignalOK(s)'
  <2> SUFFICES ASSUME NEW s \in Signals PROVE SignalOK(s)'
    OBVIOUS
  <2>1. SignalOK(s)
    BY DEF PipelineIInv
  <2> QED
    BY <1>1, <1>2, <2>1 DEF storeVars, sinkVars, SignalOK, WithItem, BeforeLink, Calls
<1> QED
  BY <1>3, <1>4, <1>5 DEF PipelineIInv

\* Every step keeps the invariant.
LEMMA PipelineNextInv == PipelineIInv /\ [Next]_vars => PipelineIInv'
<1> SUFFICES ASSUME PipelineIInv, [Next]_vars PROVE PipelineIInv'
  OBVIOUS
<1>1. CASE UNCHANGED vars
  BY <1>1
  DEF vars, storeVars, localVars, sinkVars, PipelineIInv, TypeOK, StoresTypeOK,
      DedupKey, KeysOwnItems, SignalOK
<1>2. ASSUME NEW s \in Signals, ProcessOne(s) PROVE PipelineIInv'
  BY <1>2, InsertRawInv, ClaimInv, InsertItemInv, PublishInv, PushFeedInv, AlertInv,
     LookupInv, OverwriteInv, IncrementInv, AddLinkInv, BackfillInv, UpsertMetricInv
  DEF ProcessOne
<1> QED
  BY <1>1, <1>2, QueueInv, ExpireInv, DropInv DEF Next, Idle, Crash

-----------------------------------------------------------------------------
(***************************************************************************)
(* The inductive invariant holds in every reachable state, for any way to  *)
(* fail, with or without expiry and crashes.                               *)
(***************************************************************************)
THEOREM PipelineInvariance == Spec => []PipelineIInv
<1> QED
  BY PipelineInitInv, PipelineNextInv, PTL DEF Spec

(***************************************************************************)
(* Every id a worker, a key, the live feed, a raw document or an alert     *)
(* holds is the id of a row, and every count of attempts is in bounds.     *)
(***************************************************************************)
THEOREM TypeOKHolds == Spec => []TypeOK
<1>1. PipelineIInv => TypeOK
  BY DEF PipelineIInv
<1> QED
  BY <1>1, PipelineInvariance, PTL

(***************************************************************************)
(* A dedup key names a work item of its own component, if any.             *)
(***************************************************************************)
THEOREM KeysOwnItemsHolds == Spec => []KeysOwnItems
<1>1. PipelineIInv => KeysOwnItems
  BY DEF PipelineIInv
<1> QED
  BY <1>1, PipelineInvariance, PTL

(***************************************************************************)
(* Redis, Mongo and PostgreSQL never contradict each other about a signal  *)
(* or a component, whatever fails, is lost, expires or crashes.            *)
(***************************************************************************)
THEOREM RecordsAgreeHolds == Spec => []RecordsAgree
<1>1. PipelineIInv => RecordsAgree
  BY DEF PipelineIInv, SignalOK, RecordsAgree, TypeOK, StoresTypeOK
<1> QED
  BY <1>1, PipelineInvariance, PTL

-----------------------------------------------------------------------------
(***************************************************************************)
(* The debounce.                                                           *)
(***************************************************************************)
\* The calls that rest on the state of the dedup key.
Racing == {"create", "publish", "lookup", "recreate", "overwrite"}

NoItemOf(c) == \A i \in DOMAIN items : items[i].comp # c

(***************************************************************************)
(* While a key is absent its component has no work item; while a worker    *)
(* creates one the key is its own and there is no other; a worker that     *)
(* looks the key up finds it there, so none ever re-creates.               *)
(***************************************************************************)
DebounceIInv ==
  /\ ClaimHeldAtCreate
  /\ OneItemPerComponent
  /\ \A c \in Components : dedup[c] = NoKey => NoItemOf(c)
  /\ \A s \in Signals :
       /\ stage[s] = "create" => NoItemOf(CompOf[s])
       /\ stage[s] = "lookup" => dedup[CompOf[s]] # NoKey
       /\ stage[s] \notin {"recreate", "overwrite"}

\* The values of a key are told apart.
LEMMA KeyKinds ==
  /\ \A s, t \in Signals : Pending(s) = Pending(t) => s = t
  /\ \A s \in Signals : Pending(s) # NoKey
  /\ \A i : ItemKey(i) # NoKey /\ \A s \in Signals : ItemKey(i) # Pending(s)
BY DEF Pending, NoKey, ItemKey

\* Without lost acknowledgements a call that raised did nothing.
LEMMA CleanReplies ==
  ASSUME NothingLost
  PROVE  \A r \in PgReplies \cup StoreReplies : r.applied <=> r.err = "none"
BY RetryAssumption DEF NothingLost, PgReplies, StoreReplies, Ok

\* With no key and no work item the debounce holds.
LEMMA DebounceInit == Init => DebounceIInv
BY PipelineAssumption
DEF Init, StoresInit, DebounceIInv, ClaimHeldAtCreate, OneItemPerComponent, NoItemOf

\* A step that writes no key and inserts no row, and moves no worker to a
\* call that rests on the key.
LEMMA DebounceQuiet ==
  ASSUME PipelineIInv, DebounceIInv, UNCHANGED dedup, RowsKept, Len(items') = Len(items),
         TypeOK', \A t \in Signals : stage'[t] = stage[t] \/ stage'[t] \notin Racing
  PROVE  DebounceIInv'
<1>1. DOMAIN items = 1 .. Len(items) /\ DOMAIN items' = DOMAIN items
  BY DEF PipelineIInv, TypeOK, StoresTypeOK
<1>2. OneItemPerComponent' /\ \A c : NoItemOf(c) => NoItemOf(c)'
  BY <1>1 DEF DebounceIInv, OneItemPerComponent, NoItemOf, RowsKept
<1> QED
  BY <1>1, <1>2, PipelineAssumption DEF DebounceIInv, ClaimHeldAtCreate, Racing

\* A claim succeeds only on an absent key, so on a component without work items.
LEMMA DebounceClaim ==
  ASSUME PipelineIInv, DebounceIInv, NothingLost, NEW s \in Signals, Claim(s)
  PROVE  DebounceIInv'
<1> DEFINE c == CompOf[s]
<1>1. TypeOK /\ c \in Components /\ dedup \in [Components -> DedupKey]
  BY PipelineAssumption DEF PipelineIInv, TypeOK, StoresTypeOK
<1>2. PICK r \in StoreReplies :
        /\ dedup' = IF r.applied /\ dedup[c] = NoKey
                    THEN [dedup EXCEPT ![c] = Pending(s)] ELSE dedup
        /\ Once(s, r.err, IF dedup[c] = NoKey THEN "create" ELSE "lookup")
  BY DEF Claim
<1>3. r.applied <=> r.err = "none"
  BY CleanReplies
<1>4. /\ \A t \in Signals \ {s} : stage'[t] = stage[t]
      /\ stage'[s] = IF r.err # "none" THEN "failed"
                     ELSE IF dedup[c] = NoKey THEN "create" ELSE "lookup"
  BY <1>1, <1>2, OnceStep DEF Stages, Calls
<1>5. UNCHANGED items /\ (\A d : NoItemOf(d)' = NoItemOf(d)) /\ OneItemPerComponent'
  BY DEF Claim, DebounceIInv, OneItemPerComponent, NoItemOf
<1>6. CASE r.err # "none" \/ dedup[c] # NoKey
  BY <1>2, <1>3, <1>4, <1>5, <1>6 DEF DebounceIInv, ClaimHeldAtCreate
<1>7. CASE r.err = "none" /\ dedup[c] = NoKey
  <2>1. dedup' = [dedup EXCEPT ![c] = Pending(s)] /\ stage'[s] = "create" /\ NoItemOf(c)
    BY <1>1, <1>2, <1>3, <1>4, <1>7 DEF DebounceIInv
  <2>2. \A t \in Signals \ {s} : stage[t] \in {"create", "publish"} => CompOf[t] # c
    BY <1>7, KeyKinds DEF DebounceIInv, ClaimHeldAtCreate
  <2> HIDE DEF c
  <2>3. ClaimHeldAtCreate'
    BY <1>1, <1>4, <2>1, <2>2, PipelineAssumption DEF DebounceIInv, ClaimHeldAtCreate, c
  <2>4. \A d \in Components : dedup'[d] = NoKey => dedup[d] = NoKey
    BY <1>1, <2>1, KeyKinds
  <2> QED
    BY <1>4, <1>5, <2>1, <2>3, <2>4, PipelineAssumption DEF DebounceIInv, c
<1> QED
  BY <1>6, <1>7

\* Only the owner of the key inserts, and it is the first to do so.
LEMMA DebounceInsert ==
  ASSUME PipelineIInv, DebounceIInv, NothingLost, NEW s \in Signals, InsertItem(s)
  PROVE  DebounceIInv'
<1> DEFINE c == CompOf[s]
<1>1. TypeOK /\ StoresTypeOK /\ c \in Components /\ stage[s] = "create"
      /\ DOMAIN items = 1 .. Len(items) /\ Len(items) \in Nat
  BY PipelineAssumption DEF PipelineIInv, TypeOK, StoresTypeOK, InsertItem, DebounceIInv
<1>2. PICK r \in PgReplies :
        /\ items' = IF r.applied THEN Append(items, NewItem(c)) ELSE items
        /\ Retried(s, r.err, "publish")
  BY <1>1 DEF InsertItem
<1>3. r.applied <=> r.err = "none"
  BY CleanReplies
<1>4. /\ \A t \in Signals \ {s} : stage'[t] = stage[t]
      /\ \/ r.err = "none" /\ stage'[s] = "publish"
         \/ r.err # "none" /\ stage'[s] \in {"failed", "create"}
  BY <1>1, <1>2, RetriedStep DEF Stages, Calls
<1>5. UNCHANGED dedup /\ dedup[c] = Pending(s) /\ NoItemOf(c)
  BY <1>1 DEF InsertItem, DebounceIInv, ClaimHeldAtCreate
<1>6. ClaimHeldAtCreate'
  BY <1>1, <1>4, <1>5 DEF DebounceIInv, ClaimHeldAtCreate
<1>7. CASE r.err # "none"
  <2>1. UNCHANGED items
    BY <1>2, <1>3, <1>7
  <2> QED
    BY <1>1, <1>4, <1>5, <1>6, <1>7, <2>1
    DEF DebounceIInv, OneItemPerComponent, NoItemOf
<1>8. CASE r.err = "none"
  <2>1. /\ DOMAIN items' = 1 .. (Len(items) + 1)
        /\ \A i \in DOMAIN items : items'[i] = items[i]
        /\ items'[Len(items) + 1].comp = c
    BY <1>1, <1>2, <1>3, <1>8, RowInserted DEF NewItem
  <2>2. OneItemPerComponent'
    BY <1>1, <1>5, <2>1 DEF DebounceIInv, OneItemPerComponent, NoItemOf
  <2>3. \A d : d # c /\ NoItemOf(d) => NoItemOf(d)'
    BY <1>1, <2>1 DEF NoItemOf
  <2>4. \A t \in Signals : stage'[t] = "create" => stage[t] = "create" /\ CompOf[t] # c
    BY <1>4, <1>5, <1>8, KeyKinds DEF DebounceIInv, ClaimHeldAtCreate
  <2>5. dedup[c] # NoKey
    BY <1>5, KeyKinds
  <2> HIDE DEF c
  <2> QED
    BY <1>4, <1>5, <1>6, <1>8, <2>2, <2>3, <2>4, <2>5 DEF DebounceIInv
<1> QED
  BY <1>7, <1>8

\* A publication ends the claim and leaves the key present.
LEMMA DebouncePublish ==
  ASSUME PipelineIInv, DebounceIInv, NEW s \in Signals, Publish(s)
  PROVE  DebounceIInv'
<1> DEFINE c == CompOf[s]
<1>1. TypeOK /\ c \in Components /\ dedup \in [Components -> DedupKey]
      /\ stage[s] = "publish" /\ dedup[c] = Pending(s)
  BY PipelineAssumption
  DEF PipelineIInv, TypeOK, StoresTypeOK, Publish, DebounceIInv, ClaimHeldAtCreate
<1>2. \E r \in StoreReplies : Once(s, r.err, "feed")
  BY DEF Publish
<1>3. stage'[s] \in {"feed", "failed"} /\ \A t \in Signals \ {s} : stage'[t] = stage[t]
  BY <1>1, <1>2, OnceStep DEF Stages, Calls
<1>4. UNCHANGED items /\ (\A d : NoItemOf(d)' = NoItemOf(d)) /\ OneItemPerComponent'
  BY DEF Publish, DebounceIInv, OneItemPerComponent, NoItemOf
<1>5. /\ \A d \in Components \ {c} : dedup'[d] = dedup[d]
      /\ dedup'[c] # NoKey /\ dedup[c] # NoKey
  BY <1>1, KeyKinds DEF Publish
<1>6. \A t \in Signals \ {s} : stage[t] \in {"create", "publish"} => CompOf[t] # c
  BY <1>1, KeyKinds DEF DebounceIInv, ClaimHeldAtCreate
<1> HIDE DEF c
<1>7. ClaimHeldAtCreate'
  BY <1>3, <1>5, <1>6, PipelineAssumption DEF DebounceIInv, ClaimHeldAtCreate
<1> QED
  BY <1>3, <1>4, <1>5, <1>7, PipelineAssumption DEF DebounceIInv

\* A lookup finds a placeholder or an id, never nothing.
LEMMA DebounceLookup ==
  ASSUME PipelineIInv, DebounceIInv, NEW s \in Signals, Lookup(s), TypeOK'
  PROVE  DebounceIInv'
<1> DEFINE key == dedup[CompOf[s]]
<1>1. TypeOK /\ key \in DedupKey /\ key # NoKey
  BY PipelineAssumption DEF PipelineIInv, TypeOK, StoresTypeOK, Lookup, DebounceIInv
<1>2. key.kind \in {"pending", "item"}
  <2>1. \A k \in DedupKey : k = NoKey \/ k.kind \in {"pending", "item"}
    BY DEF DedupKey, Pending, ItemKey
  <2> QED
    BY <1>1, <2>1
<1>3. PICK r \in StoreReplies :
        Once(s, IF key.kind = "pending" THEN "other" ELSE r.err,
             IF r.err = "none" /\ key.kind = "item" THEN "increment" ELSE "recreate")
  BY DEF Lookup
<1>4. stage'[s] \in {"failed", "increment"} /\ \A t \in Signals \ {s} : stage'[t] = stage[t]
  BY <1>1, <1>2, <1>3, OnceStep DEF Stages, Calls
<1>5. UNCHANGED dedup /\ UNCHANGED items /\ RowsKept
  BY StoresUntouched DEF Lookup, storeVars
<1> QED
  BY <1>4, <1>5, DebounceQuiet DEF Racing

\* Every step keeps the debounce while keys live and nothing is lost.
LEMMA DebounceNext ==
  KeysLive /\ NothingLost /\ PipelineIInv /\ PipelineIInv' /\ DebounceIInv /\ [Next]_vars
    => DebounceIInv'
<1> SUFFICES ASSUME KeysLive, NothingLost, PipelineIInv, PipelineIInv', DebounceIInv,
                    [Next]_vars
             PROVE  DebounceIInv'
  OBVIOUS
<1>0. TypeOK /\ StoresTypeOK /\ TypeOK' /\ Len(items) \in Nat
  <2>1. TypeOK /\ TypeOK'
    BY DEF PipelineIInv
  <2>2. StoresTypeOK
    BY <2>1 DEF TypeOK
  <2>3. Len(items) \in Nat
    BY <2>2 DEF StoresTypeOK
  <2> QED
    BY <2>1, <2>2, <2>3
<1>1. ASSUME UNCHANGED <<items, dedup>>,
             \A t \in Signals : stage'[t] = stage[t] \/ stage'[t] \notin Racing
      PROVE  DebounceIInv'
  BY <1>0, <1>1, StoresUntouched, DebounceQuiet
<1>2. ASSUME NEW s \in Signals, NEW err, NEW next \in Stages \ Racing,
             Retried(s, err, next), UNCHANGED <<items, dedup>>
      PROVE  DebounceIInv'
  <2>1. \A t \in Signals : stage'[t] = stage[t] \/ stage'[t] \notin Racing
    BY <1>0, <1>2, RetriedStep DEF Racing
  <2> QED
    BY <1>1, <1>2, <2>1
<1>3. ASSUME NEW s \in Signals, InsertRaw(s) \/ PushFeed(s) \/ AddLink(s) \/ UpsertMetric(s)
      PROVE  DebounceIInv'
  <2>1. UNCHANGED <<items, dedup>>
    BY <1>3 DEF InsertRaw, PushFeed, AddLink, UpsertMetric, storeVars
  <2>2. \E err : \E next \in {"claim", "alert", "backfill", "processed"} :
          Retried(s, err, next)
    BY <1>3 DEF InsertRaw, PushFeed, AddLink, UpsertMetric
  <2> QED
    BY <1>2, <2>1, <2>2 DEF Stages, Calls, Settled, Racing
<1>4. ASSUME NEW s \in Signals, Increment(s) PROVE DebounceIInv'
  <2>1. UNCHANGED dedup /\ wid[s] \in 1 .. Len(items)
    BY <1>4 DEF Increment, PipelineIInv, SignalOK, WithItem
  <2>2. PICK r \in PgReplies :
          /\ items' = IF r.applied THEN [items EXCEPT ![wid[s]].count = @ + 1] ELSE items
          /\ Retried(s, r.err, "link")
    BY <1>4 DEF Increment
  <2>3. Len(items') = Len(items) /\ \A i \in 1 .. Len(items) : items'[i].comp = items[i].comp
    <3>1. \A i \in 1 .. Len(items) : items[i] \in Item
      BY <1>0 DEF StoresTypeOK
    <3> QED
      BY <1>0, <2>1, <2>2, <3>1 DEF StoresTypeOK, Item
  <2>4. \A t \in Signals : stage'[t] = stage[t] \/ stage'[t] \notin Racing
    BY <1>0, <2>2, RetriedStep DEF Racing, Stages, Calls
  <2> QED
    BY <1>0, <2>1, <2>3, <2>4, DebounceQuiet DEF RowsKept
<1>5. ASSUME NEW s \in Signals, Alert(s) \/ Backfill(s) \/ Accept(s) \/ Take(s)
      PROVE  DebounceIInv'
  <2>1. UNCHANGED <<items, dedup>>
    BY <1>5 DEF Alert, Backfill, Accept, Take, storeVars
  <2>2. \A t \in Signals : stage'[t] = stage[t] \/ stage'[t] \notin Racing
    BY <1>0, <1>5 DEF Alert, Backfill, Accept, Take, Racing, TypeOK
  <2> QED
    BY <1>1, <2>1, <2>2
<1>6. ASSUME NEW s \in Signals, ProcessOne(s) PROVE DebounceIInv'
  <2>1. ~Overwrite(s)
    BY DEF DebounceIInv, Overwrite
  <2> QED
    BY <1>0, <1>3, <1>4, <1>5, <1>6, <2>1, DebounceClaim, DebounceInsert, DebouncePublish,
       DebounceLookup
    DEF ProcessOne
<1>7. CASE Crash
  <2>1. UNCHANGED <<items, dedup>> /\ \A t \in Signals : stage'[t] \in {"lost", stage[t]}
    BY <1>7 DEF Crash, DropTasks, storeVars
  <2> QED
    BY <1>1, <2>1 DEF Racing
<1>8. CASE UNCHANGED vars
  BY <1>1, <1>8 DEF vars, storeVars, localVars
<1> QED
  BY <1>5, <1>6, <1>7, <1>8 DEF Next, Idle, Expire, ExpireKey, KeysLive

(***************************************************************************)
(* Both invariants together, the second one where it applies.              *)
(***************************************************************************)
WindowIInv == PipelineIInv /\ (KeysLive /\ NothingLost => DebounceIInv)

(***************************************************************************)
(* They hold in every reachable state.                                     *)
(***************************************************************************)
THEOREM WindowInvariance == Spec => []WindowIInv
<1>1. Init => WindowIInv
  BY PipelineInitInv, DebounceInit DEF WindowIInv
<1>2. WindowIInv /\ [Next]_vars => WindowIInv'
  BY PipelineNextInv, DebounceNext DEF WindowIInv
<1> QED
  BY <1>1, <1>2, PTL DEF Spec

(***************************************************************************)
(* Whatever the workers interleave, whichever calls fail and wherever a    *)
(* crash strikes, a component gets at most one work item in its dedup      *)
(* window, and the claim of the worker that makes it is not taken away.    *)
(***************************************************************************)
THEOREM Debounce ==
  ASSUME KeysLive, NothingLost
  PROVE  Spec => [](OneItemPerComponent /\ ClaimHeldAtCreate)
<1>1. WindowIInv => OneItemPerComponent /\ ClaimHeldAtCreate
  BY DEF WindowIInv, DebounceIInv
<1> QED
  BY <1>1, WindowInvariance, PTL

(***************************************************************************)
(* The claim alone: while keys live and nothing is lost, the key a worker  *)
(* won with SET NX is its own until it has published its work item.        *)
(***************************************************************************)
THEOREM ClaimHeldAtCreateHolds ==
  ASSUME KeysLive, NothingLost
  PROVE  Spec => []ClaimHeldAtCreate
<1>1. WindowIInv => ClaimHeldAtCreate
  BY DEF WindowIInv, DebounceIInv
<1> QED
  BY <1>1, WindowInvariance, PTL

-----------------------------------------------------------------------------
(***************************************************************************)
(* Placeholders, whatever fails, expires or crashes.  Where the worker of  *)
(* a placeholder may stand: it can only have given up if a call can fail.  *)
(***************************************************************************)
Holding == {"create", "publish", "lost"} \cup (IF Failures = {} THEN {} ELSE {"failed"})

HeldKeys == \A c \in Components, s \in Signals :
              dedup[c] = Pending(s) => CompOf[s] = c /\ stage[s] \in Holding

\* While no call fails no document is stored before the insert that stores it.
FirstInsert == \A s \in Signals : stage[s] \in {"new", "queued", "insert"} => s \notin raw

HolderIInv == PipelineIInv /\ HeldKeys /\ (Failures = {} => FirstInsert)

\* When no call may fail every answer is Ok.
LEMMA CalmReplies ==
  ASSUME Failures = {}
  PROVE  /\ PgReplies = {Ok} /\ StoreReplies = {Ok}
         /\ Ok.err = "none" /\ Ok.applied = TRUE
BY DEF PgReplies, StoreReplies, Ok

\* A call raises only where calls may fail.
LEMMA RaisedMayFail ==
  \A r \in PgReplies \cup StoreReplies :
     /\ r.err = "none" => r.applied
     /\ r.err # "none" => Failures # {}
BY RetryAssumption DEF PgReplies, StoreReplies, Ok

\* A step that puts no placeholder into a key.
LEMMA NoNewHolder ==
  ASSUME HeldKeys,
         \A c \in Components, s \in Signals : dedup'[c] = Pending(s) =>
            /\ dedup[c] = Pending(s)
            /\ stage'[s] = stage[s] \/ stage'[s] \in Holding
  PROVE  HeldKeys'
BY DEF HeldKeys, Holding

\* A step of a signal that holds no key, on the keys as they are.
LEMMA NoHolderMoves ==
  ASSUME HeldKeys, NEW s \in Signals, stage[s] \notin Holding, UNCHANGED dedup,
         \A t \in Signals \ {s} : stage'[t] = stage[t]
  PROVE  HeldKeys'
<1>1. \A c \in Components : dedup[c] # Pending(s)
  BY DEF HeldKeys
<1> QED
  BY <1>1, NoNewHolder

\* A claim that put its placeholder creates next, or gives up on an exception.
LEMMA ClaimHolds ==
  ASSUME HolderIInv, NEW s \in Signals, Claim(s) PROVE HeldKeys'
<1> DEFINE c == CompOf[s]
<1>1. /\ TypeOK /\ HeldKeys /\ dedup \in [Components -> DedupKey] /\ c \in Components
      /\ stage[s] = "claim"
  BY PipelineAssumption DEF HolderIInv, PipelineIInv, TypeOK, StoresTypeOK, Claim
<1>2. PICK r \in StoreReplies :
        /\ dedup' = IF r.applied /\ dedup[c] = NoKey
                    THEN [dedup EXCEPT ![c] = Pending(s)] ELSE dedup
        /\ Once(s, r.err, IF dedup[c] = NoKey THEN "create" ELSE "lookup")
  BY DEF Claim
<1>3. /\ \A t \in Signals \ {s} : stage'[t] = stage[t]
      /\ stage'[s] = IF r.err # "none" THEN "failed"
                     ELSE IF dedup[c] = NoKey THEN "create" ELSE "lookup"
  BY <1>1, <1>2, OnceStep DEF Stages, Calls
<1>4. CASE UNCHANGED dedup
  BY <1>1, <1>3, <1>4, NoHolderMoves DEF Holding
<1>5. CASE dedup[c] = NoKey /\ dedup' = [dedup EXCEPT ![c] = Pending(s)]
  <2>1. stage'[s] \in Holding
    BY <1>2, <1>3, <1>5, RaisedMayFail DEF Holding
  <2>2. \A d \in Components : dedup'[d] = IF d = c THEN Pending(s) ELSE dedup[d]
    BY <1>1, <1>5
  <2> HIDE DEF c
  <2>3. ASSUME NEW d \in Components, NEW t \in Signals, dedup'[d] = Pending(t)
        PROVE  CompOf[t] = d /\ stage'[t] \in Holding
    <3>1. CASE d = c
      <4>1. t = s
        BY <2>2, <2>3, <3>1, KeyKinds
      <4> QED
        BY <2>1, <3>1, <4>1 DEF c
    <3>2. CASE d # c
      <4>1. dedup[d] = Pending(t) /\ CompOf[t] = d /\ stage[t] \in Holding
        BY <1>1, <2>2, <2>3, <3>2 DEF HeldKeys
      <4>2. t # s
        BY <1>1, <4>1 DEF Holding
      <4> QED
        BY <1>3, <4>1, <4>2
    <3> QED
      BY <3>1, <3>2
  <2> QED
    BY <2>3 DEF HeldKeys, Holding
<1> QED
  BY <1>2, <1>4, <1>5

\* A publication that took effect ends the placeholder; one that found no key
\* had lost it; one that raised gave up.
LEMMA PublishHolds ==
  ASSUME HolderIInv, NEW s \in Signals, Publish(s) PROVE HeldKeys'
<1> DEFINE c == CompOf[s]
<1>1. /\ TypeOK /\ HeldKeys /\ dedup \in [Components -> DedupKey] /\ c \in Components
  BY PipelineAssumption DEF HolderIInv, PipelineIInv, TypeOK, StoresTypeOK
<1>2. PICK r \in StoreReplies :
        /\ dedup' = IF r.applied /\ dedup[c] # NoKey
                    THEN [dedup EXCEPT ![c] = ItemKey(wid[s])] ELSE dedup
        /\ Once(s, r.err, "feed")
  BY DEF Publish
<1>3. /\ \A t \in Signals \ {s} : stage'[t] = stage[t]
      /\ stage'[s] = IF r.err # "none" THEN "failed" ELSE "feed"
  BY <1>1, <1>2, OnceStep DEF Stages, Calls
<1>4. r.err # "none" => stage'[s] \in Holding
  BY <1>2, <1>3, RaisedMayFail DEF Holding
<1>5. \A d \in Components : dedup'[d] = dedup[d] \/ dedup'[d] = ItemKey(wid[s])
  BY <1>1, <1>2
<1>6. r.err = "none" => dedup'[c] = NoKey \/ dedup'[c] = ItemKey(wid[s])
  BY <1>1, <1>2, RaisedMayFail
<1> HIDE DEF c
<1>7. ASSUME NEW d \in Components, NEW t \in Signals, dedup'[d] = Pending(t)
      PROVE  dedup[d] = Pending(t) /\ (stage'[t] = stage[t] \/ stage'[t] \in Holding)
  <2>1. dedup[d] = Pending(t) /\ CompOf[t] = d
    BY <1>1, <1>5, <1>7, KeyKinds DEF HeldKeys
  <2>2. t = s => r.err # "none"
    BY <1>6, <1>7, <2>1, KeyKinds DEF c
  <2> QED
    BY <1>3, <1>4, <2>1, <2>2
<1> QED
  BY <1>1, <1>7, NoNewHolder

\* A creation keeps its key up to the publication, or gives up.
LEMMA InsertHolds ==
  ASSUME HolderIInv, NEW s \in Signals, InsertItem(s) PROVE HeldKeys'
<1>1. TypeOK /\ HeldKeys /\ UNCHANGED dedup
  BY DEF HolderIInv, PipelineIInv, InsertItem
<1>2. PICK r \in PgReplies :
        Retried(s, r.err, IF stage[s] = "create" THEN "publish" ELSE "overwrite")
  BY DEF InsertItem
<1>3. /\ \A t \in Signals \ {s} : stage'[t] = stage[t]
      /\ \/ r.err = "none" /\ stage'[s] = IF stage[s] = "create" THEN "publish" ELSE "overwrite"
         \/ r.err # "none" /\ stage'[s] \in {"failed", stage[s]}
  BY <1>1, <1>2, RetriedStep DEF Stages, Calls
<1>4. CASE stage[s] = "create"
  <2>1. stage'[s] \in Holding
    BY <1>2, <1>3, <1>4, RaisedMayFail DEF Holding
  <2> QED
    BY <1>1, <1>3, <2>1, NoNewHolder
<1>5. CASE stage[s] = "recreate"
  BY <1>1, <1>3, <1>5, NoHolderMoves DEF Holding
<1> QED
  BY <1>4, <1>5 DEF InsertItem

\* The re-creating branch puts an id over whatever the key held.
LEMMA OverwriteHolds ==
  ASSUME HolderIInv, NEW s \in Signals, Overwrite(s) PROVE HeldKeys'
<1>1. /\ TypeOK /\ HeldKeys /\ dedup \in [Components -> DedupKey]
      /\ stage[s] = "overwrite"
  BY DEF HolderIInv, PipelineIInv, TypeOK, StoresTypeOK, Overwrite
<1>2. \E r \in StoreReplies : Once(s, r.err, "link")
  BY DEF Overwrite
<1>3. \A t \in Signals \ {s} : stage'[t] = stage[t]
  BY <1>1, <1>2, OnceStep DEF Stages, Calls
<1>4. \A d \in Components : dedup'[d] = dedup[d] \/ dedup'[d] = ItemKey(wid[s])
  BY <1>1 DEF Overwrite
<1>5. \A d \in Components, t \in Signals : dedup'[d] = Pending(t) => dedup[d] = Pending(t)
  BY <1>4, KeyKinds
<1>6. \A d \in Components : dedup[d] # Pending(s)
  BY <1>1 DEF HeldKeys, Holding
<1> QED
  BY <1>1, <1>3, <1>5, <1>6, NoNewHolder

\* The document is stored by the first insert: no answer is lost.
LEMMA InsertRawHolds ==
  ASSUME HolderIInv, NEW s \in Signals, InsertRaw(s)
  PROVE  HeldKeys' /\ (Failures = {} => FirstInsert')
<1>1. TypeOK /\ HeldKeys /\ UNCHANGED dedup /\ stage[s] = "insert"
  BY DEF HolderIInv, PipelineIInv, InsertRaw, storeVars
<1>2. PICK r \in StoreReplies :
        /\ raw' = IF r.applied THEN raw \cup {s} ELSE raw
        /\ Retried(s, IF s \in raw THEN "other" ELSE r.err, "claim")
  BY DEF InsertRaw
<1>3. /\ \A t \in Signals \ {s} : stage'[t] = stage[t]
      /\ r.err = "none" /\ s \notin raw => stage'[s] = "claim"
  BY <1>1, <1>2, RetriedStep DEF Stages, Calls
<1>4. HeldKeys'
  BY <1>1, <1>3, NoHolderMoves DEF Holding
<1>5. ASSUME Failures = {} PROVE FirstInsert'
  <2>1. FirstInsert /\ s \notin raw /\ r.err = "none"
    BY <1>1, <1>5, CalmReplies DEF HolderIInv, FirstInsert
  <2> QED
    BY <1>2, <1>3, <2>1 DEF FirstInsert
<1> QED
  BY <1>4, <1>5

\* Every step of a worker on a signal keeps the invariant.
LEMMA WorkerHolds ==
  ASSUME HolderIInv, PipelineIInv', NEW s \in Signals, Accept(s) \/ Take(s) \/ ProcessOne(s)
  PROVE  HolderIInv'
<1>1. TypeOK /\ HeldKeys
  BY DEF HolderIInv, PipelineIInv
<1>2. ASSUME UNCHANGED raw, \A t \in Signals \ {s} : stage'[t] = stage[t],
             stage[s] \in {"new", "queued"} \/ stage'[s] \notin {"new", "queued", "insert"}
      PROVE  Failures = {} => FirstInsert'
  BY <1>2 DEF HolderIInv, FirstInsert
<1>3. ASSUME stage[s] \notin Holding, UNCHANGED <<dedup, raw>>,
             \A t \in Signals \ {s} : stage'[t] = stage[t],
             stage[s] \in {"new", "queued"} \/ stage'[s] \notin {"new", "queued", "insert"}
      PROVE  HolderIInv'
  BY <1>1, <1>2, <1>3, NoHolderMoves DEF HolderIInv
<1>4. ASSUME NEW err, NEW next \in Stages \ {"new", "queued", "insert"},
             Once(s, err, next) \/ Retried(s, err, next),
             stage[s] \in Stages \ {"new", "queued", "insert"}
      PROVE  /\ \A t \in Signals \ {s} : stage'[t] = stage[t]
             /\ stage'[s] \notin {"new", "queued", "insert"}
  BY <1>1, <1>4, OnceStep, RetriedStep
<1>5. CASE InsertRaw(s)
  BY <1>5, InsertRawHolds DEF HolderIInv
<1>6. CASE Claim(s) \/ Publish(s) \/ InsertItem(s) \/ Overwrite(s)
  <2>1. HeldKeys'
    BY <1>6, ClaimHolds, PublishHolds, InsertHolds, OverwriteHolds
  <2>2. UNCHANGED raw /\ stage[s] \in Stages \ {"new", "queued", "insert"}
    BY <1>6 DEF Claim, Publish, InsertItem, Overwrite, sinkVars, Stages, Calls
  <2>3. \E err : \E next \in {"create", "lookup", "feed", "publish", "overwrite", "link"} :
          Once(s, err, next) \/ Retried(s, err, next)
    BY <1>6 DEF Claim, Publish, InsertItem, Overwrite
  <2>4. Failures = {} => FirstInsert'
    BY <1>2, <1>4, <2>2, <2>3 DEF Stages, Calls
  <2> QED
    BY <2>1, <2>4 DEF HolderIInv
<1>7. CASE PushFeed(s) \/ Lookup(s) \/ Increment(s) \/ AddLink(s) \/ UpsertMetric(s)
  <2>1. /\ UNCHANGED <<dedup, raw>> /\ stage[s] \notin Holding
        /\ stage[s] \in Stages \ {"new", "queued", "insert"}
    BY <1>7
    DEF PushFeed, Lookup, Increment, AddLink, UpsertMetric, storeVars, sinkVars, Stages,
        Calls, Holding
  <2>2. \E err : \E next \in {"alert", "increment", "recreate", "link", "backfill",
                              "processed"} :
          Once(s, err, next) \/ Retried(s, err, next)
    BY <1>7 DEF PushFeed, Lookup, Increment, AddLink, UpsertMetric
  <2> QED
    BY <1>3, <1>4, <2>1, <2>2 DEF Stages, Calls, Settled
<1>8. CASE Alert(s) \/ Backfill(s) \/ Accept(s) \/ Take(s)
  <2>1. UNCHANGED <<dedup, raw>> /\ stage[s] \notin Holding
    BY <1>8 DEF Alert, Backfill, Accept, Take, storeVars, sinkVars, Holding
  <2>2. /\ \A t \in Signals \ {s} : stage'[t] = stage[t]
        /\ stage[s] \in {"new", "queued"} \/ stage'[s] \notin {"new", "queued", "insert"}
    BY <1>1, <1>8 DEF Alert, Backfill, Accept, Take, TypeOK
  <2> QED
    BY <1>3, <2>1, <2>2
<1> QED
  BY <1>5, <1>6, <1>7, <1>8 DEF ProcessOne

\* A key that expires has no holder; the holders a crash drops are lost.
LEMMA FaultHolds ==
  ASSUME HolderIInv, PipelineIInv',
         (\E c \in Components : Expire(c)) \/ (DropTasks /\ UNCHANGED storeVars)
  PROVE  HolderIInv'
<1>1. TypeOK /\ HeldKeys /\ dedup \in [Components -> DedupKey]
  BY DEF HolderIInv, PipelineIInv, TypeOK, StoresTypeOK
<1>2. CASE \E c \in Components : Expire(c)
  <2>1. /\ UNCHANGED <<stage, raw>>
        /\ \A d \in Components : dedup'[d] = dedup[d] \/ dedup'[d] = NoKey
    BY <1>1, <1>2 DEF Expire, ExpireKey, localVars, sinkVars
  <2>2. HeldKeys'
    BY <1>1, <2>1, KeyKinds DEF HeldKeys
  <2> QED
    BY <2>1, <2>2 DEF HolderIInv, FirstInsert
<1>3. CASE DropTasks /\ UNCHANGED storeVars
  <2>1. UNCHANGED <<dedup, raw>> /\ \A s \in Signals : stage'[s] \in {"lost", stage[s]}
    BY <1>3 DEF DropTasks, storeVars, sinkVars
  <2>2. HeldKeys'
    BY <1>1, <2>1, NoNewHolder DEF Holding
  <2> QED
    BY <2>1, <2>2 DEF HolderIInv, FirstInsert
<1> QED
  BY <1>2, <1>3

(***************************************************************************)
(* Who holds a placeholder, in every reachable state.                      *)
(***************************************************************************)
THEOREM HolderInvariance == Spec => []HolderIInv
<1>1. Init => HolderIInv
  <2> SUFFICES ASSUME Init PROVE HolderIInv
    OBVIOUS
  <2>1. PipelineIInv
    BY PipelineInitInv
  <2>2. HeldKeys /\ FirstInsert
    BY KeyKinds DEF Init, StoresInit, HeldKeys, FirstInsert
  <2> QED
    BY <2>1, <2>2 DEF HolderIInv
<1>2. HolderIInv /\ [Next]_vars => HolderIInv'
  <2> SUFFICES ASSUME HolderIInv, [Next]_vars PROVE HolderIInv'
    OBVIOUS
  <2>1. PipelineIInv'
    BY PipelineNextInv DEF HolderIInv
  <2>2. CASE UNCHANGED vars
    BY <2>1, <2>2
    DEF HolderIInv, HeldKeys, FirstInsert, vars, storeVars, localVars, sinkVars
  <2> QED
    BY <2>1, <2>2, WorkerHolds, FaultHolds DEF Next, Idle, Crash
<1> QED
  BY <1>1, <1>2, PTL DEF Spec

(***************************************************************************)
(* A placeholder stands for a worker that is about to publish, or that     *)
(* died or gave up, whatever fails, expires or is published over.          *)
(***************************************************************************)
THEOREM PlaceholderIsHeldHolds == Spec => []PlaceholderIsHeld
<1>1. HolderIInv => PlaceholderIsHeld
  BY DEF HolderIInv, HeldKeys, Holding, PlaceholderIsHeld
<1> QED
  BY <1>1, HolderInvariance, PTL

\* A signal given up while no call fails has read another one's placeholder.
DropsInRace == \A s \in Signals : stage[s] # "failed" /\ stage'[s] = "failed" =>
                 \E t \in Signals \ {s} : /\ dedup[CompOf[s]] = Pending(t)
                                         /\ CompOf[t] = CompOf[s]
                                         /\ stage[t] \in {"create", "publish", "lost"}

\* The lookup is the only call that raises on its own account.
LEMMA WorkerDrops ==
  ASSUME HolderIInv, Failures = {}, NEW s \in Signals, Accept(s) \/ Take(s) \/ ProcessOne(s)
  PROVE  DropsInRace
<1>1. /\ TypeOK /\ HeldKeys /\ FirstInsert /\ CompOf[s] \in Components
      /\ dedup[CompOf[s]] \in DedupKey
  BY PipelineAssumption DEF HolderIInv, PipelineIInv, TypeOK, StoresTypeOK
<1>2. /\ \A r \in PgReplies : r.err = "none"
      /\ \A r \in StoreReplies : r.err = "none"
  BY CalmReplies
<1>3. ASSUME NEW next \in Stages \ {"failed"}, Once(s, "none", next) \/ Retried(s, "none", next)
      PROVE  DropsInRace
  BY <1>1, <1>3, OnceStep, RetriedStep DEF DropsInRace
<1>4. CASE InsertRaw(s)
  <2>1. Retried(s, "none", "claim")
    BY <1>1, <1>2, <1>4 DEF InsertRaw, FirstInsert
  <2> QED
    BY <1>3, <2>1 DEF Stages, Calls
<1>5. CASE \/ Claim(s) \/ InsertItem(s) \/ Publish(s) \/ PushFeed(s) \/ Overwrite(s)
           \/ Increment(s) \/ AddLink(s) \/ UpsertMetric(s)
  <2>1. \E next \in {"create", "lookup", "publish", "overwrite", "feed", "alert", "link",
                     "backfill", "processed"} :
          Once(s, "none", next) \/ Retried(s, "none", next)
    BY <1>2, <1>5
    DEF Claim, InsertItem, Publish, PushFeed, Overwrite, Increment, AddLink, UpsertMetric
  <2> QED
    BY <1>3, <2>1 DEF Stages, Calls, Settled
<1>6. CASE Lookup(s)
  <2> DEFINE key == dedup[CompOf[s]]
  <2>1. stage[s] = "lookup"
    BY <1>6 DEF Lookup
  <2>2. CASE key.kind # "pending"
    <3>1. \E next \in {"increment", "recreate"} : Once(s, "none", next)
      BY <1>2, <1>6, <2>2 DEF Lookup
    <3> QED
      BY <1>3, <3>1 DEF Stages, Calls
  <2>3. CASE key.kind = "pending"
    <3>1. PICK t \in Signals : key = Pending(t)
      <4>1. \A k \in DedupKey : k.kind = "pending" => \E t \in Signals : k = Pending(t)
        BY DEF DedupKey, NoKey, ItemKey
      <4> QED
        BY <1>1, <2>3, <4>1
    <3>2. CompOf[t] = CompOf[s] /\ stage[t] \in {"create", "publish", "lost"}
      BY <1>1, <3>1 DEF HeldKeys, Holding
    <3>3. \A u \in Signals \ {s} : stage'[u] = stage[u]
      BY <1>1, <1>6, OnceStep DEF Lookup, Stages, Calls
    <3> QED
      BY <2>1, <3>1, <3>2, <3>3 DEF DropsInRace
  <2> QED
    BY <2>2, <2>3
<1>7. CASE Alert(s) \/ Backfill(s) \/ Accept(s) \/ Take(s)
  BY <1>1, <1>7 DEF Alert, Backfill, Accept, Take, TypeOK, DropsInRace
<1> QED
  BY <1>4, <1>5, <1>6, <1>7 DEF ProcessOne

\* So do the faults: they give no signal up.
LEMMA FaultDrops ==
  ASSUME \/ \E c \in Components : Expire(c)
         \/ DropTasks
         \/ UNCHANGED stage
  PROVE  DropsInRace
BY DEF Expire, localVars, DropTasks, DropsInRace

(***************************************************************************)
(* While no call fails a signal is given up in one way only: its worker    *)
(* reads the placeholder of another signal of the component, held by a     *)
(* worker that has not published yet or that a crash took.                 *)
(***************************************************************************)
THEOREM DroppedOnlyInRaceHolds ==
  ASSUME Failures = {}
  PROVE  Spec => DroppedOnlyInRace
<1>1. HolderIInv /\ [Next]_vars => [DropsInRace]_vars
  BY WorkerDrops, FaultDrops DEF Next, Idle, Crash, vars, localVars
<1> QED
  BY <1>1, HolderInvariance, PTL DEF Spec, DroppedOnlyInRace, DropsInRace

-----------------------------------------------------------------------------
(***************************************************************************)
(* The abstract debounce.                                                  *)
(***************************************************************************)

\* A step that keeps the rows' components, the links and what they name.
LEMMA DebouncedStutter ==
  ASSUME PipelineIInv, RowsKept, Len(items') = Len(items), StoresTypeOK', links' = links,
         \A s \in Signals : links[s] > 0 => wid'[s] = wid[s]
  PROVE  UNCHANGED <<IncidentsOf, AttachmentOf>>
<1>1. DOMAIN items = 1 .. Len(items) /\ DOMAIN items' = 1 .. Len(items)
  BY DEF PipelineIInv, TypeOK, StoresTypeOK
<1> QED
  BY <1>1 DEF IncidentsOf, AttachmentOf, RowsKept

\* A new row is a new incident of its component, the only one if there may be one.
LEMMA InsertOpens ==
  ASSUME WindowIInv, NEW s \in Signals, InsertItem(s), items' # items
  PROVE  Debounced!Open(CompOf[s])
<1> DEFINE c == CompOf[s]  i == Len(items) + 1
<1>1. StoresTypeOK /\ c \in Components /\ Len(items) \in Nat /\ DOMAIN items = 1 .. Len(items)
  BY PipelineAssumption DEF WindowIInv, PipelineIInv, TypeOK, StoresTypeOK
<1>2. items' = Append(items, NewItem(c)) /\ UNCHANGED links
  BY DEF InsertItem, sinkVars
<1>3. /\ DOMAIN items' = DOMAIN items \cup {i} /\ i \notin DOMAIN items
      /\ \A j \in DOMAIN items : items'[j] = items[j]
      /\ items'[i].comp = c
  <2>1. /\ DOMAIN items' = 1 .. (Len(items) + 1)
        /\ \A j \in 1 .. Len(items) : items'[j] = items[j]
        /\ items'[i] = NewItem(c)
    BY <1>1, <1>2, RowInserted
  <2>2. 1 .. (Len(items) + 1) = 1 .. Len(items) \cup {i} /\ i \notin 1 .. Len(items)
    BY <1>1
  <2> QED
    BY <1>1, <2>1, <2>2 DEF NewItem
<1>4. IncidentsOf' = [IncidentsOf EXCEPT ![c] = @ \cup {i}]
  BY <1>1, <1>3 DEF IncidentsOf
<1>5. \A d \in Components : i \notin IncidentsOf[d]
  BY <1>3 DEF IncidentsOf
<1>6. i \in IncidentsOf'[c]
  BY <1>1, <1>4 DEF IncidentsOf
<1>7. AttachmentOf' = AttachmentOf
  <2>1. \A t \in Signals : links[t] > 0 => wid'[t] = wid[t]
    <3>1. links[s] = 0
      BY DEF WindowIInv, PipelineIInv, SignalOK, BeforeLink, InsertItem
    <3>2. \A t \in Signals \ {s} : wid'[t] = wid[t]
      BY DEF WindowIInv, PipelineIInv, TypeOK, InsertItem
    <3> QED
      BY <3>1, <3>2
  <2> QED
    BY <1>2, <2>1 DEF AttachmentOf
<1>8. KeysLive /\ NothingLost => IncidentsOf[c] = {}
  BY <1>1 DEF WindowIInv, DebounceIInv, InsertItem, NoItemOf, IncidentsOf
<1> QED
  BY <1>4, <1>5, <1>6, <1>7, <1>8 DEF Debounced!Open

\* The first signal_links row attaches its signal; a second one changes nothing.
LEMMA LinkAttaches ==
  ASSUME WindowIInv, NEW s \in Signals, AddLink(s)
  PROVE  Debounced!Attach(s) \/ UNCHANGED <<IncidentsOf, AttachmentOf>>
<1>1. /\ PipelineIInv /\ TypeOK /\ wid[s] \in DOMAIN items /\ items[wid[s]].comp = CompOf[s]
      /\ CompOf[s] \in Components
  <2>1. PipelineIInv /\ TypeOK /\ SignalOK(s) /\ stage[s] = "link"
    BY DEF WindowIInv, PipelineIInv, AddLink
  <2>2. wid[s] \in 1 .. Len(items) /\ items[wid[s]].comp = CompOf[s]
    BY <2>1 DEF SignalOK, WithItem
  <2>3. DOMAIN items = 1 .. Len(items)
    BY <2>1 DEF TypeOK, StoresTypeOK
  <2>4. CompOf[s] \in Components
    BY PipelineAssumption
  <2> QED
    BY <2>1, <2>2, <2>3, <2>4
<1>2. UNCHANGED <<items, wid>>
  BY DEF AddLink, storeVars
<1>3. UNCHANGED IncidentsOf
  BY <1>2 DEF IncidentsOf
<1>4. CASE UNCHANGED links
  BY <1>2, <1>3, <1>4 DEF AttachmentOf
<1>5. CASE links' = [links EXCEPT ![s] = @ + 1]
  <2>1. links[s] \in Nat /\ links'[s] = links[s] + 1
        /\ \A t \in Signals \ {s} : links'[t] = links[t]
    BY <1>1, <1>5 DEF TypeOK
  <2>2. CASE links[s] > 0
    <3>1. \A t \in Signals : links'[t] > 0 <=> links[t] > 0
      BY <2>1, <2>2
    <3> QED
      BY <1>2, <1>3, <3>1 DEF AttachmentOf
  <2>3. CASE links[s] = 0
    <3>1. AttachmentOf' = [AttachmentOf EXCEPT ![s] = wid[s]] /\ AttachmentOf[s] = 0
      <4>1. links'[s] > 0 /\ ~(links[s] > 0)
        BY <2>1, <2>3
      <4>2. \A t \in Signals \ {s} : links'[t] = links[t]
        BY <2>1
      <4>3. \A t \in Signals : AttachmentOf'[t] = IF t = s THEN wid[s] ELSE AttachmentOf[t]
        BY <1>2, <4>1, <4>2 DEF AttachmentOf
      <4>4. AttachmentOf[s] = 0
        BY <4>1 DEF AttachmentOf
      <4>5. /\ AttachmentOf' = [t \in Signals |-> AttachmentOf'[t]]
            /\ AttachmentOf = [t \in Signals |-> AttachmentOf[t]]
        BY DEF AttachmentOf
      <4> QED
        BY <4>3, <4>4, <4>5
    <3>2. wid[s] \in IncidentsOf[CompOf[s]]
      BY <1>1 DEF IncidentsOf
    <3> QED
      BY <1>3, <3>1, <3>2 DEF Debounced!Attach
  <2> QED
    BY <2>1, <2>2, <2>3
<1> QED
  BY <1>4, <1>5 DEF AddLink

\* Every step of the workers is a step of the debounce or a stutter.
LEMMA DebouncedNext ==
  WindowIInv /\ WindowIInv' /\ [Next]_vars
    => Debounced!Next \/ UNCHANGED <<IncidentsOf, AttachmentOf>>
<1> SUFFICES ASSUME WindowIInv, WindowIInv', [Next]_vars
             PROVE  Debounced!Next \/ UNCHANGED <<IncidentsOf, AttachmentOf>>
  OBVIOUS
<1>0. PipelineIInv /\ TypeOK /\ StoresTypeOK /\ StoresTypeOK' /\ Len(items) \in Nat
  <2>1. PipelineIInv /\ PipelineIInv'
    BY DEF WindowIInv
  <2>2. TypeOK /\ TypeOK'
    BY <2>1 DEF PipelineIInv
  <2>3. StoresTypeOK /\ StoresTypeOK'
    BY <2>2 DEF TypeOK
  <2>4. Len(items) \in Nat
    BY <2>3 DEF StoresTypeOK
  <2> QED
    BY <2>1, <2>2, <2>3, <2>4
<1>1. ASSUME UNCHANGED <<items, links>>,
             \A t \in Signals : links[t] > 0 => wid'[t] = wid[t]
      PROVE  UNCHANGED <<IncidentsOf, AttachmentOf>>
  BY <1>1 DEF IncidentsOf, AttachmentOf
<1>2. ASSUME NEW s \in Signals, ProcessOne(s)
      PROVE  Debounced!Next \/ UNCHANGED <<IncidentsOf, AttachmentOf>>
  <2>1. CASE InsertItem(s)
    <3>1. links[s] = 0 /\ \A t \in Signals \ {s} : wid'[t] = wid[t]
      BY <1>0, <2>1 DEF PipelineIInv, SignalOK, BeforeLink, InsertItem, TypeOK
    <3>2. CASE items' = items
      BY <1>1, <2>1, <3>1, <3>2 DEF InsertItem, sinkVars
    <3>3. CASE items' # items
      BY <2>1, <3>3, InsertOpens, PipelineAssumption DEF Debounced!Next
    <3> QED
      BY <3>2, <3>3
  <2>2. CASE AddLink(s)
    BY <2>2, LinkAttaches DEF Debounced!Next
  <2>3. CASE Lookup(s)
    <3>1. links[s] = 0 /\ \A t \in Signals \ {s} : wid'[t] = wid[t]
      BY <1>0, <2>3 DEF PipelineIInv, SignalOK, BeforeLink, Lookup, TypeOK
    <3> QED
      BY <1>1, <2>3, <3>1 DEF Lookup, storeVars, sinkVars
  <2>4. CASE Increment(s)
    <3>1. UNCHANGED <<wid, links>> /\ wid[s] \in 1 .. Len(items)
      BY <1>0, <2>4 DEF Increment, sinkVars, PipelineIInv, SignalOK, WithItem
    <3>2. PICK r \in PgReplies :
            items' = IF r.applied THEN [items EXCEPT ![wid[s]].count = @ + 1] ELSE items
      BY <2>4 DEF Increment
    <3>3. \A i \in 1 .. Len(items) : items[i] \in Item
      BY <1>0 DEF StoresTypeOK
    <3>4. Len(items') = Len(items) /\ \A i \in 1 .. Len(items) : items'[i].comp = items[i].comp
      BY <1>0, <3>1, <3>2, <3>3 DEF StoresTypeOK, Item
    <3> QED
      BY <1>0, <3>1, <3>4, DebouncedStutter DEF RowsKept
  <2>5. CASE \/ InsertRaw(s) \/ Claim(s) \/ Publish(s) \/ PushFeed(s) \/ Alert(s)
             \/ Overwrite(s) \/ Backfill(s) \/ UpsertMetric(s)
    <3>1. UNCHANGED <<items, wid, links>>
      BY <2>5 DEF InsertRaw, Claim, Publish, PushFeed, Alert, Overwrite, Backfill,
         UpsertMetric, storeVars, sinkVars
    <3> QED
      BY <1>1, <3>1
  <2> QED
    BY <1>2, <2>1, <2>2, <2>3, <2>4, <2>5 DEF ProcessOne
<1>3. ASSUME NEW s \in Signals, Accept(s) \/ Take(s)
      PROVE  UNCHANGED <<IncidentsOf, AttachmentOf>>
  BY <1>1, <1>3 DEF Accept, Take, storeVars, sinkVars
<1>4. ASSUME NEW c \in Components, Expire(c)
      PROVE  UNCHANGED <<IncidentsOf, AttachmentOf>>
  BY <1>1, <1>4 DEF Expire, ExpireKey, localVars, sinkVars
<1>5. CASE Crash \/ UNCHANGED vars
  BY <1>1, <1>5 DEF Crash, DropTasks, vars, localVars, storeVars, sinkVars
<1> QED
  BY <1>2, <1>3, <1>4, <1>5 DEF Next, Idle

(***************************************************************************)
(* The workers implement the debounce: a component's incidents only grow   *)
(* in number, one at a time (to one, while keys live and nothing is lost), *)
(* and a signal is attached once and for good to one of its component.     *)
(***************************************************************************)
THEOREM DebouncerRefinement == Spec => ImplementsDebouncer
<1>1. Init => Debounced!Init
  BY PipelineAssumption DEF Init, StoresInit, Debounced!Init, IncidentsOf, AttachmentOf
<1>2. WindowIInv /\ WindowIInv' /\ [Next]_vars
        => [Debounced!Next]_<<IncidentsOf, AttachmentOf>>
  BY DebouncedNext
<1>3. Spec => []WindowIInv
  BY WindowInvariance
<1> QED
  BY <1>1, <1>2, <1>3, PTL
  DEF Spec, ImplementsDebouncer, Debounced!Spec
=============================================================================
