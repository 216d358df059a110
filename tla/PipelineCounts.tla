--------------------------- MODULE PipelineCounts ---------------------------
(***************************************************************************)
(* Proofs of what Pipeline promises about counts, for finitely many        *)
(* signals: signal_count against the signal_links rows, what retries may   *)
(* not do twice, and that every work item is announced.                    *)
(***************************************************************************)
EXTENDS PipelineProofs, FiniteSetTheorems

\* The calls a signal reaches only once its work item has counted it.
Counted == {"publish", "feed", "alert", "overwrite", "link", "backfill", "metric"}

\* The signals work item i has surely counted, and those it may have counted.
Holders(i)  == {s \in Signals : wid[s] = i /\ (stage[s] \in Counted \/ links[s] > 0)}
Claimers(i) == {s \in Signals : wid[s] = i /\ stage[s] \in Counted \cup Settled}

CountIInv == \A i \in DOMAIN items : items[i].count >= Cardinality(Holders(i))

CeilingIInv == \A i \in DOMAIN items : items[i].count <= Cardinality(Claimers(i))

-----------------------------------------------------------------------------
\* A part of a finite set is no larger than it.
LEMMA SmallerSet ==
  ASSUME NEW S, NEW T, IsFiniteSet(S), T \subseteq S
  PROVE  IsFiniteSet(T) /\ Cardinality(T) <= Cardinality(S)
         /\ Cardinality(T) \in Nat /\ Cardinality(S) \in Nat
BY FS_Subset, FS_CardinalityType

\* One more element adds at most one.
LEMMA OneMore ==
  ASSUME NEW S, NEW T, NEW x, IsFiniteSet(S), T \subseteq S \cup {x}
  PROVE  Cardinality(T) <= Cardinality(S) + 1
         /\ Cardinality(T) \in Nat /\ Cardinality(S) \in Nat
<1>1. IsFiniteSet(S \cup {x}) /\ Cardinality(S \cup {x}) <= Cardinality(S) + 1
  <2>1. Cardinality(S) \in Nat
    BY FS_CardinalityType
  <2>2. /\ IsFiniteSet(S \cup {x})
        /\ Cardinality(S \cup {x}) = IF x \in S THEN Cardinality(S) ELSE Cardinality(S) + 1
    BY FS_AddElement
  <2> QED
    BY <2>1, <2>2
<1>2. Cardinality(T) <= Cardinality(S \cup {x})
  BY <1>1, SmallerSet
<1> QED
  BY <1>1, <1>2, SmallerSet, FS_CardinalityType

\* Sets of signals are finite when there are finitely many signals.
LEMMA SignalSets ==
  ASSUME IsFiniteSet(Signals)
  PROVE  \A i : /\ IsFiniteSet(Holders(i)) /\ Cardinality(Holders(i)) \in Nat
                /\ IsFiniteSet(Claimers(i)) /\ Cardinality(Claimers(i)) \in Nat
                /\ IsFiniteSet(LinkedTo(i)) /\ Cardinality(LinkedTo(i)) \in Nat
<1> SUFFICES ASSUME NEW i
             PROVE  /\ IsFiniteSet(Holders(i)) /\ Cardinality(Holders(i)) \in Nat
                    /\ IsFiniteSet(Claimers(i)) /\ Cardinality(Claimers(i)) \in Nat
                    /\ IsFiniteSet(LinkedTo(i)) /\ Cardinality(LinkedTo(i)) \in Nat
  OBVIOUS
<1>1. Holders(i) \subseteq Signals /\ Claimers(i) \subseteq Signals /\ LinkedTo(i) \subseteq Signals
  BY DEF Holders, Claimers, LinkedTo
<1> QED
  BY <1>1, SmallerSet

\* No row's count falls and no signal joins a work item uncounted.
LEMMA CountKept ==
  ASSUME IsFiniteSet(Signals), PipelineIInv, CountIInv,
         DOMAIN items' = DOMAIN items,
         \A i \in DOMAIN items : items'[i].count = items[i].count,
         \A s \in Signals : stage'[s] \in Counted \/ links'[s] > 0 =>
                              /\ stage[s] \in Counted \/ links[s] > 0
                              /\ wid'[s] = wid[s]
  PROVE  CountIInv'
<1> SUFFICES ASSUME NEW i \in DOMAIN items PROVE items'[i].count >= Cardinality(Holders(i)')
  BY DEF CountIInv
<1>1. Holders(i)' \subseteq Holders(i)
  BY DEF Holders
<1>2. Cardinality(Holders(i)') <= Cardinality(Holders(i)) /\ Cardinality(Holders(i)') \in Nat
  BY <1>1, SignalSets, SmallerSet
<1>3. items[i].count \in Nat /\ items[i].count >= Cardinality(Holders(i))
  <2>1. items[i] \in Item
    BY DEF PipelineIInv, TypeOK, StoresTypeOK
  <2> QED
    BY <2>1 DEF Item, CountIInv
<1> QED
  BY <1>2, <1>3, SignalSets

\* A new work item counts the signal that made it.
LEMMA CountInsert ==
  ASSUME IsFiniteSet(Signals), PipelineIInv, CountIInv, NEW s \in Signals, InsertItem(s)
  PROVE  CountIInv'
<1>0. PICK n : n = Len(items) + 1
  OBVIOUS
<1>1. /\ TypeOK /\ StoresTypeOK /\ CompOf[s] \in Components /\ Len(items) \in Nat
      /\ DOMAIN items = 1 .. Len(items) /\ links[s] = 0
      /\ \A t \in Signals : wid[t] \in 0 .. Len(items)
  BY PipelineAssumption
  DEF PipelineIInv, TypeOK, StoresTypeOK, SignalOK, BeforeLink, InsertItem
<1>2. PICK r \in PgReplies :
        /\ items' = IF r.applied THEN Append(items, NewItem(CompOf[s])) ELSE items
        /\ wid' = IF r.err = "none" THEN [wid EXCEPT ![s] = n] ELSE wid
        /\ Retried(s, r.err, IF stage[s] = "create" THEN "publish" ELSE "overwrite")
  BY <1>0 DEF InsertItem
<1>3. r.err = "none" => r.applied
  BY RetryAssumption DEF PgReplies, Ok
<1>4. /\ \A t \in Signals \ {s} : stage'[t] = stage[t] /\ wid'[t] = wid[t]
      /\ UNCHANGED links
      /\ r.err # "none" => stage'[s] \notin Counted /\ wid' = wid
      /\ r.err = "none" => wid'[s] = n
  <2>1. /\ \A t \in Signals \ {s} : stage'[t] = stage[t]
        /\ r.err # "none" => stage'[s] \in {"failed", "create", "recreate"}
    BY <1>1, <1>2, RetriedStep DEF InsertItem, Stages, Calls
  <2>2. UNCHANGED links
    BY DEF InsertItem, sinkVars
  <2> QED
    BY <1>1, <1>2, <2>1, <2>2 DEF TypeOK, Counted
<1>5. \A i \in DOMAIN items : Holders(i)' \subseteq Holders(i)
  <2> SUFFICES ASSUME NEW i \in DOMAIN items, NEW t \in Holders(i)' PROVE t \in Holders(i)
    OBVIOUS
  <2>1. t # s
    BY <1>0, <1>1, <1>4 DEF Holders
  <2> QED
    BY <1>4, <2>1 DEF Holders
<1>6. \A i \in DOMAIN items : /\ items[i].count >= Cardinality(Holders(i)')
                              /\ items[i].count \in Nat
  <2> TAKE i \in DOMAIN items
  <2>1. items[i].count \in Nat /\ items[i].count >= Cardinality(Holders(i))
    <3>1. items[i] \in Item
      BY <1>1 DEF StoresTypeOK
    <3> QED
      BY <3>1 DEF Item, CountIInv
  <2>2. Cardinality(Holders(i)') <= Cardinality(Holders(i)) /\ Cardinality(Holders(i)') \in Nat
    BY <1>5, SignalSets, SmallerSet
  <2> QED
    BY <2>1, <2>2, SignalSets
<1>7. CASE ~r.applied
  BY <1>2, <1>6, <1>7 DEF CountIInv
<1>8. CASE r.applied
  <2>1. /\ DOMAIN items' = DOMAIN items \cup {n}
        /\ \A i \in DOMAIN items : items'[i] = items[i]
        /\ items'[n].count = 1
    <3>1. /\ DOMAIN items' = 1 .. n
          /\ \A j \in 1 .. Len(items) : items'[j] = items[j]
          /\ items'[n] = NewItem(CompOf[s])
      BY <1>0, <1>1, <1>2, <1>8, RowInserted
    <3>2. 1 .. n = 1 .. Len(items) \cup {n}
      BY <1>0, <1>1
    <3> QED
      BY <1>1, <3>1, <3>2 DEF NewItem
  <2>2. Holders(n)' \subseteq {s}
    BY <1>0, <1>1, <1>4 DEF Holders
  <2>3. Cardinality(Holders(n)') <= 1 /\ Cardinality(Holders(n)') \in Nat
    <3>1. IsFiniteSet({s}) /\ Cardinality({s}) = 1 /\ Holders(n)' \subseteq {s}
      BY <2>2, FS_Singleton
    <3> QED
      BY <3>1, SmallerSet
  <2> QED
    BY <1>6, <2>1, <2>3 DEF CountIInv
<1> QED
  BY <1>7, <1>8

\* An increment counts at least the signal that leaves it.
LEMMA CountIncrement ==
  ASSUME IsFiniteSet(Signals), PipelineIInv, CountIInv, NEW s \in Signals, Increment(s)
  PROVE  CountIInv'
<1>0. PICK n : n = wid[s]
  OBVIOUS
<1>1. /\ TypeOK /\ StoresTypeOK /\ n \in DOMAIN items
      /\ \A i \in DOMAIN items : items[i].count \in Nat
  <2>1. \A row \in Item : row.count \in Nat
    BY DEF Item
  <2> QED
    BY <1>0, <2>1 DEF PipelineIInv, TypeOK, StoresTypeOK, SignalOK, WithItem, Increment
<1>2. PICK r \in PgReplies :
        /\ items' = IF r.applied THEN [items EXCEPT ![n].count = @ + 1] ELSE items
        /\ Retried(s, r.err, "link")
  BY <1>0 DEF Increment
<1>3. r.err = "none" => r.applied
  BY RetryAssumption DEF PgReplies, Ok
<1>4. /\ \A t \in Signals \ {s} : stage'[t] = stage[t]
      /\ r.err # "none" => stage'[s] \notin Counted
      /\ UNCHANGED <<wid, links>>
  BY <1>1, <1>2, RetriedStep DEF Increment, sinkVars, Stages, Calls, Counted
<1>5. links[s] = 0
  BY DEF PipelineIInv, SignalOK, BeforeLink, Increment
<1>6. \A i \in DOMAIN items \ {n} : Holders(i)' \subseteq Holders(i)
  BY <1>0, <1>4 DEF Holders
<1>7. /\ Holders(n)' \subseteq Holders(n) \cup {s}
      /\ r.err # "none" => Holders(n)' \subseteq Holders(n)
  BY <1>4, <1>5 DEF Holders
<1>8. /\ DOMAIN items' = DOMAIN items
      /\ \A i \in DOMAIN items \ {n} : items'[i].count = items[i].count
      /\ items'[n].count = IF r.applied THEN items[n].count + 1 ELSE items[n].count
  <2>1. items[n] \in Item
    BY <1>1 DEF StoresTypeOK
  <2> QED
    BY <1>1, <1>2, <2>1 DEF Item
<1>9. \A i \in DOMAIN items : /\ Cardinality(Holders(i)) \in Nat
                              /\ items[i].count >= Cardinality(Holders(i))
  BY SignalSets DEF CountIInv
<1>10. ASSUME NEW i \in DOMAIN items PROVE items'[i].count >= Cardinality(Holders(i)')
  <2>1. CASE Holders(i)' \subseteq Holders(i)
    <3>1. Cardinality(Holders(i)') <= Cardinality(Holders(i)) /\ Cardinality(Holders(i)') \in Nat
      BY <2>1, SignalSets, SmallerSet
    <3>2. items'[i].count >= items[i].count /\ items'[i].count \in Nat
      BY <1>1, <1>8
    <3> QED
      BY <1>1, <1>9, <3>1, <3>2
  <2>2. CASE i = n /\ r.err = "none"
    <3>1. /\ Cardinality(Holders(i)') <= Cardinality(Holders(i)) + 1
          /\ Cardinality(Holders(i)') \in Nat
      BY <1>7, <2>2, SignalSets, OneMore
    <3> QED
      BY <1>1, <1>3, <1>8, <1>9, <2>2, <3>1
  <2> QED
    BY <1>6, <1>7, <2>1, <2>2
<1> QED
  BY <1>8, <1>10 DEF CountIInv

\* Every step keeps the count above its holders.
LEMMA CountNext ==
  IsFiniteSet(Signals) /\ PipelineIInv /\ CountIInv /\ [Next]_vars => CountIInv'
<1> SUFFICES ASSUME IsFiniteSet(Signals), PipelineIInv, CountIInv, [Next]_vars
             PROVE  CountIInv'
  OBVIOUS
<1>0. TypeOK /\ \A s \in Signals : SignalOK(s)
  BY DEF PipelineIInv
<1>1. ASSUME UNCHANGED <<items, wid, links>>,
             \A s \in Signals : stage'[s] \in Counted => stage[s] \in Counted
      PROVE  CountIInv'
  BY <1>1, CountKept
<1>2. ASSUME NEW s \in Signals, ProcessOne(s) PROVE CountIInv'
  <2>1. CASE InsertItem(s)
    BY <2>1, CountInsert
  <2>2. CASE Increment(s)
    BY <2>2, CountIncrement
  <2>3. CASE Lookup(s)
    <3>1. /\ links[s] = 0 /\ UNCHANGED <<items, links>>
          /\ \A t \in Signals \ {s} : wid'[t] = wid[t]
      BY <1>0, <2>3 DEF Lookup, storeVars, sinkVars, SignalOK, BeforeLink, TypeOK
    <3>2. PICK next \in {"increment", "recreate"} : \E err : Once(s, err, next)
      BY <2>3 DEF Lookup
    <3>3. stage'[s] \notin Counted /\ \A t \in Signals \ {s} : stage'[t] = stage[t]
      BY <1>0, <3>2, OnceStep DEF Stages, Calls, Counted
    <3> QED
      BY <3>1, <3>3, CountKept
  <2>4. CASE AddLink(s)
    <3>1. /\ UNCHANGED <<items, wid>> /\ stage[s] \in Counted
          /\ \A t \in Signals \ {s} : links'[t] = links[t]
      BY <1>0, <2>4 DEF AddLink, storeVars, TypeOK, Counted
    <3>2. PICK err : Retried(s, err, "backfill")
      BY <2>4 DEF AddLink
    <3>3. \A t \in Signals \ {s} : stage'[t] = stage[t]
      BY <1>0, <3>2, RetriedStep DEF Stages, Calls
    <3> QED
      BY <3>1, <3>3, CountKept
  <2>5. CASE Alert(s) \/ Backfill(s)
    BY <1>0, <1>1, <2>5 DEF Alert, Backfill, storeVars, Counted, TypeOK
  <2>6. CASE \/ InsertRaw(s) \/ PushFeed(s) \/ UpsertMetric(s)
    <3>1. PICK next \in {"claim", "alert", "processed"} :
            /\ (\E err : Retried(s, err, next)) /\ UNCHANGED <<items, wid, links>>
            /\ next \in Counted => stage[s] \in Counted
      BY <2>6 DEF InsertRaw, PushFeed, UpsertMetric, storeVars, sinkVars, Counted
    <3>2. \A t \in Signals : stage'[t] \in Counted => stage[t] \in Counted
      BY <1>0, <3>1, RetriedStep DEF Stages, Calls, Settled, Counted
    <3> QED
      BY <1>1, <3>1, <3>2
  <2>7. CASE Claim(s) \/ Publish(s) \/ Overwrite(s)
    <3>1. PICK next \in {"create", "lookup", "feed", "link"} :
            /\ (\E err : Once(s, err, next)) /\ UNCHANGED <<items, wid, links>>
            /\ next \in Counted => stage[s] \in Counted
      BY <2>7 DEF Claim, Publish, Overwrite, sinkVars, Counted
    <3>2. \A t \in Signals : stage'[t] \in Counted => stage[t] \in Counted
      BY <1>0, <3>1, OnceStep DEF Stages, Calls, Settled, Counted
    <3> QED
      BY <1>1, <3>1, <3>2
  <2> QED
    BY <1>2, <2>1, <2>2, <2>3, <2>4, <2>5, <2>6, <2>7 DEF ProcessOne
<1>3. ASSUME NEW s \in Signals, Accept(s) \/ Take(s) PROVE CountIInv'
  BY <1>0, <1>1, <1>3 DEF Accept, Take, storeVars, sinkVars, Counted, TypeOK
<1>4. ASSUME NEW c \in Components, Expire(c) PROVE CountIInv'
  BY <1>1, <1>4 DEF Expire, ExpireKey, localVars, sinkVars
<1>5. CASE Crash \/ UNCHANGED vars
  BY <1>1, <1>5 DEF Crash, DropTasks, vars, localVars, storeVars, sinkVars, Counted
<1> QED
  BY <1>2, <1>3, <1>4, <1>5 DEF Next, Idle

\* The holders are all that are linked.
LEMMA CountsCover == IsFiniteSet(Signals) /\ CountIInv /\ TypeOK => CountCoversLinks
<1> SUFFICES ASSUME IsFiniteSet(Signals), CountIInv, TypeOK, NEW i \in DOMAIN items
             PROVE  items[i].count >= Cardinality(LinkedTo(i))
  BY DEF CountCoversLinks
<1>1. LinkedTo(i) \subseteq Holders(i)
  BY DEF LinkedTo, Holders
<1>2. Cardinality(LinkedTo(i)) <= Cardinality(Holders(i))
  BY <1>1, SignalSets, SmallerSet
<1>3. items[i].count \in Nat /\ items[i].count >= Cardinality(Holders(i))
  <2>1. items[i] \in Item
    BY DEF TypeOK, StoresTypeOK
  <2> QED
    BY <2>1 DEF Item, CountIInv
<1> QED
  BY <1>2, <1>3, SignalSets

(***************************************************************************)
(* signal_count never falls behind the signal_links rows, for any number   *)
(* of workers, with lost acknowledgements, expiry and crashes.             *)
(***************************************************************************)
THEOREM CountCoversLinksHolds ==
  ASSUME IsFiniteSet(Signals)
  PROVE  Spec => []CountCoversLinks
<1>0. IsFiniteSet(Signals)
  OBVIOUS
<1>1. Init => CountIInv
  BY DEF Init, StoresInit, CountIInv
<1>2. PipelineIInv /\ CountIInv /\ [Next]_vars => CountIInv'
  BY <1>0, CountNext
<1>3. PipelineIInv /\ CountIInv => CountCoversLinks
  BY <1>0, CountsCover DEF PipelineIInv
<1>4. Spec => []PipelineIInv
  BY PipelineInvariance
<1> QED
  BY <1>1, <1>2, <1>3, <1>4, PTL DEF Spec

-----------------------------------------------------------------------------
(***************************************************************************)
(* Without lost acknowledgements: the calls that matter and how they end.  *)
(***************************************************************************)

\* A worker that is done with a signal leaves it alone, and a call at most
\* moves a signal on.
LEMMA OneSignalMoves ==
  ASSUME PipelineIInv, NEW s \in Signals, ProcessOne(s)
  PROVE  /\ stage[s] \in Calls
         /\ \A t \in Signals \ {s} : /\ stage'[t] = stage[t] /\ wid'[t] = wid[t]
                                     /\ links'[t] = links[t]
<1>0. TypeOK
  BY DEF PipelineIInv
<1>1. /\ stage[s] \in Calls
      /\ \A t \in Signals \ {s} : wid'[t] = wid[t] /\ links'[t] = links[t]
  BY <1>0 DEF ProcessOne, InsertRaw, Claim, InsertItem, Publish, PushFeed, Alert, Lookup,
     Overwrite, Increment, AddLink, Backfill, UpsertMetric, storeVars, sinkVars, TypeOK, Calls
<1>2. CASE Alert(s) \/ Backfill(s)
  BY <1>0, <1>1, <1>2 DEF Alert, Backfill, TypeOK
<1>3. CASE \/ InsertRaw(s) \/ InsertItem(s) \/ PushFeed(s) \/ Increment(s)
           \/ AddLink(s) \/ UpsertMetric(s)
  <2>1. \E next \in Stages : \E err : Retried(s, err, next)
    BY <1>3 DEF InsertRaw, InsertItem, PushFeed, Increment, AddLink, UpsertMetric,
       Stages, Calls, Settled
  <2> QED
    BY <1>0, <1>1, <2>1, RetriedStep
<1>4. CASE Claim(s) \/ Publish(s) \/ Lookup(s) \/ Overwrite(s)
  <2>1. \E next \in Stages : \E err : Once(s, err, next)
    BY <1>4 DEF Claim, Publish, Lookup, Overwrite, Stages, Calls
  <2> QED
    BY <1>0, <1>1, <2>1, OnceStep
<1> QED
  BY <1>1, <1>2, <1>3, <1>4 DEF ProcessOne

\* One signal_links row per processed signal, none before the link.
OnceOK(s) ==
  /\ links[s] <= 1
  /\ stage[s] = "link" => links[s] = 0
  /\ stage[s] \in {"backfill", "metric", "processed"} => links[s] = 1

ProcessedOf(c) == {s \in Signals : CompOf[s] = c /\ stage[s] = "processed"}

OnceIInv == /\ \A s \in Signals : OnceOK(s)
            /\ \A c \in Components : metric[c] = Cardinality(ProcessedOf(c))

\* A step in which nobody is linked, counted or newly processed.
LEMMA OnceQuiet ==
  ASSUME OnceIInv, UNCHANGED <<links, metric>>,
         \A s \in Signals : /\ stage'[s] = "processed" <=> stage[s] = "processed"
                            /\ stage'[s] = "link" => links[s] = 0
                            /\ stage'[s] \in {"backfill", "metric"} =>
                                 stage[s] \in {"backfill", "metric"}
  PROVE  OnceIInv'
<1>1. \A s \in Signals : OnceOK(s)'
  BY DEF OnceIInv, OnceOK
<1>2. \A c : ProcessedOf(c)' = ProcessedOf(c)
  BY DEF ProcessedOf
<1> QED
  BY <1>1, <1>2 DEF OnceIInv

\* The link is made once: an attempt that failed has not made it.
LEMMA OnceLink ==
  ASSUME PipelineIInv, OnceIInv, NothingLost, NEW s \in Signals, AddLink(s)
  PROVE  OnceIInv'
<1>0. TypeOK /\ stage[s] = "link" /\ links[s] = 0 /\ UNCHANGED metric
  BY DEF PipelineIInv, OnceIInv, OnceOK, AddLink
<1>1. PICK r \in PgReplies : /\ links' = IF r.applied THEN [links EXCEPT ![s] = @ + 1]
                                                     ELSE links
                             /\ Retried(s, r.err, "backfill")
  BY DEF AddLink
<1>2. r.applied <=> r.err = "none"
  BY CleanReplies
<1>3. /\ \A t \in Signals \ {s} : stage'[t] = stage[t]
      /\ \/ r.err = "none" /\ stage'[s] = "backfill"
         \/ r.err # "none" /\ stage'[s] \in {"failed", "link"}
  BY <1>0, <1>1, RetriedStep DEF Stages, Calls
<1>4. /\ \A t \in Signals \ {s} : links'[t] = links[t]
      /\ links'[s] = IF r.err = "none" THEN 1 ELSE 0
  BY <1>0, <1>1, <1>2 DEF TypeOK
<1>5. \A t \in Signals : OnceOK(t)'
  BY <1>3, <1>4 DEF OnceIInv, OnceOK
<1>6. \A c : ProcessedOf(c)' = ProcessedOf(c)
  BY <1>0, <1>3 DEF ProcessedOf
<1> QED
  BY <1>0, <1>5, <1>6 DEF OnceIInv

\* A signal is counted in its metric when, and only when, it becomes processed.
LEMMA OnceMetric ==
  ASSUME IsFiniteSet(Signals), PipelineIInv, OnceIInv, NothingLost, NEW s \in Signals,
         UpsertMetric(s)
  PROVE  OnceIInv'
<1>0. /\ TypeOK /\ stage[s] = "metric" /\ links[s] = 1 /\ UNCHANGED links
      /\ CompOf[s] \in Components
  BY PipelineAssumption DEF PipelineIInv, OnceIInv, OnceOK, UpsertMetric
<1>1. PICK r \in PgReplies :
        /\ metric' = IF r.applied THEN [metric EXCEPT ![CompOf[s]] = @ + 1] ELSE metric
        /\ Retried(s, r.err, "processed")
  BY DEF UpsertMetric
<1>2. r.applied <=> r.err = "none"
  BY CleanReplies
<1>3. /\ \A t \in Signals \ {s} : stage'[t] = stage[t]
      /\ \/ r.err = "none" /\ stage'[s] = "processed"
         \/ r.err # "none" /\ stage'[s] \in {"failed", "metric"}
  BY <1>0, <1>1, RetriedStep DEF Stages, Settled
<1>4. \A t \in Signals : OnceOK(t)'
  BY <1>0, <1>3 DEF OnceIInv, OnceOK
<1>5. \A c \in Components \ {CompOf[s]} : ProcessedOf(c)' = ProcessedOf(c)
  BY <1>3 DEF ProcessedOf
<1>6. CASE r.err # "none"
  <2>1. ProcessedOf(CompOf[s])' = ProcessedOf(CompOf[s]) /\ UNCHANGED metric
    BY <1>0, <1>1, <1>2, <1>3, <1>6 DEF ProcessedOf
  <2> QED
    BY <1>4, <1>5, <2>1 DEF OnceIInv
<1>7. CASE r.err = "none"
  <2>1. ProcessedOf(CompOf[s])' = ProcessedOf(CompOf[s]) \cup {s} /\ s \notin ProcessedOf(CompOf[s])
    BY <1>0, <1>3, <1>7 DEF ProcessedOf
  <2>2. IsFiniteSet(ProcessedOf(CompOf[s]))
    BY SmallerSet DEF ProcessedOf
  <2>3. Cardinality(ProcessedOf(CompOf[s])') = Cardinality(ProcessedOf(CompOf[s])) + 1
    BY <2>1, <2>2, FS_AddElement
  <2>4. /\ metric'[CompOf[s]] = metric[CompOf[s]] + 1
        /\ \A c \in Components \ {CompOf[s]} : metric'[c] = metric[c]
    BY <1>0, <1>1, <1>2, <1>7 DEF TypeOK
  <2> QED
    BY <1>0, <1>4, <1>5, <2>3, <2>4 DEF OnceIInv
<1> QED
  BY <1>6, <1>7

\* Every step does what it does once.
LEMMA OnceNext ==
  IsFiniteSet(Signals) /\ NothingLost /\ PipelineIInv /\ OnceIInv /\ [Next]_vars => OnceIInv'
<1> SUFFICES ASSUME IsFiniteSet(Signals), NothingLost, PipelineIInv, OnceIInv, [Next]_vars
             PROVE  OnceIInv'
  OBVIOUS
<1>0. TypeOK /\ \A s \in Signals : stage[s] \in BeforeLink => links[s] = 0
  BY DEF PipelineIInv, SignalOK
<1>1. ASSUME NEW s \in Signals, ProcessOne(s) PROVE OnceIInv'
  <2>0. stage[s] # "processed" /\ \A t \in Signals \ {s} : stage'[t] = stage[t]
    BY <1>1, OneSignalMoves DEF Calls
  <2>1. ASSUME stage[s] \in BeforeLink, stage'[s] \in BeforeLink \cup {"link", "failed"},
               UNCHANGED <<links, metric>>
        PROVE  OnceIInv'
    <3>1. links[s] = 0
      BY <1>0, <2>1
    <3> QED
      BY <2>0, <2>1, <3>1, OnceQuiet DEF BeforeLink, OnceIInv, OnceOK
  <2>2. CASE InsertRaw(s) \/ InsertItem(s) \/ PushFeed(s) \/ Increment(s)
    <3>1. /\ UNCHANGED <<links, metric>> /\ stage[s] \in BeforeLink
          /\ \E next \in {"claim", "publish", "overwrite", "alert", "link"} :
                \E err : Retried(s, err, next)
      BY <2>2 DEF InsertRaw, InsertItem, PushFeed, Increment, BeforeLink, storeVars, sinkVars
    <3>2. stage'[s] \in BeforeLink \cup {"link", "failed"}
      BY <1>0, <3>1, RetriedStep DEF Stages, Calls, BeforeLink
    <3> QED
      BY <2>1, <3>1, <3>2
  <2>3. CASE Claim(s) \/ Publish(s) \/ Lookup(s) \/ Overwrite(s)
    <3>1. /\ UNCHANGED <<links, metric>> /\ stage[s] \in BeforeLink
          /\ \E next \in {"create", "lookup", "feed", "increment", "recreate", "link"} :
                \E err : Once(s, err, next)
      BY <2>3 DEF Claim, Publish, Lookup, Overwrite, BeforeLink, storeVars, sinkVars
    <3>2. stage'[s] \in BeforeLink \cup {"link", "failed"}
      BY <1>0, <3>1, OnceStep DEF Stages, Calls, BeforeLink
    <3> QED
      BY <2>1, <3>1, <3>2
  <2>4. CASE Alert(s)
    BY <1>0, <2>1, <2>4 DEF Alert, BeforeLink, TypeOK
  <2>5. CASE Backfill(s)
    BY <1>0, <2>0, <2>5, OnceQuiet DEF Backfill, TypeOK, OnceIInv, OnceOK
  <2>6. CASE AddLink(s)
    BY <2>6, OnceLink
  <2>7. CASE UpsertMetric(s)
    BY <2>7, OnceMetric
  <2> QED
    BY <1>1, <2>2, <2>3, <2>4, <2>5, <2>6, <2>7 DEF ProcessOne
<1>2. ASSUME NEW s \in Signals, Accept(s) \/ Take(s) PROVE OnceIInv'
  BY <1>0, <1>2, OnceQuiet DEF Accept, Take, sinkVars, TypeOK, OnceIInv, OnceOK
<1>3. ASSUME NEW c \in Components, Expire(c) PROVE OnceIInv'
  BY <1>3, OnceQuiet DEF Expire, ExpireKey, localVars, sinkVars, OnceIInv, OnceOK
<1>4. CASE Crash
  <2>1. /\ UNCHANGED <<links, metric>>
        /\ \A s \in Signals : \/ stage'[s] = stage[s]
                              \/ stage'[s] = "lost" /\ stage[s] # "processed"
    BY <1>4 DEF Crash, DropTasks, sinkVars, InMemory, Active, Calls
  <2> QED
    BY <2>1, OnceQuiet DEF OnceIInv, OnceOK
<1>5. CASE UNCHANGED vars
  BY <1>5, OnceQuiet DEF vars, localVars, sinkVars, OnceIInv, OnceOK
<1> QED
  BY <1>1, <1>2, <1>3, <1>4, <1>5 DEF Next, Idle

(***************************************************************************)
(* While no acknowledgement is lost, no retry, expiry or crash makes a     *)
(* signal count twice: one link for each processed signal, one count in    *)
(* its metric.                                                             *)
(***************************************************************************)
THEOREM ProcessedOnceHolds ==
  ASSUME IsFiniteSet(Signals), NothingLost
  PROVE  Spec => []ProcessedOnce
<1>0. IsFiniteSet(Signals) /\ NothingLost
  OBVIOUS
<1>1. Init => OnceIInv
  <2> SUFFICES ASSUME Init PROVE OnceIInv
    OBVIOUS
  <2>1. \A c : ProcessedOf(c) = {}
    BY DEF Init, ProcessedOf
  <2> QED
    BY <2>1, FS_EmptySet DEF Init, OnceIInv, OnceOK
<1>2. PipelineIInv /\ OnceIInv /\ [Next]_vars => OnceIInv'
  BY <1>0, OnceNext
<1>3. PipelineIInv /\ OnceIInv => ProcessedOnce
  BY DEF OnceIInv, OnceOK, ProcessedOnce, ProcessedOf
<1>4. Spec => []PipelineIInv
  BY PipelineInvariance
<1> QED
  BY <1>1, <1>2, <1>3, <1>4, PTL DEF Spec

-----------------------------------------------------------------------------
(***************************************************************************)
(* The other half of the count: a work item counts nobody twice.           *)
(***************************************************************************)
LEMMA CeilingKept ==
  ASSUME IsFiniteSet(Signals), PipelineIInv, CeilingIInv,
         DOMAIN items' = DOMAIN items,
         \A i \in DOMAIN items : items'[i].count = items[i].count,
         \A s \in Signals : stage[s] \in Counted \cup Settled =>
                              stage'[s] \in Counted \cup Settled /\ wid'[s] = wid[s]
  PROVE  CeilingIInv'
<1> SUFFICES ASSUME NEW i \in DOMAIN items PROVE items'[i].count <= Cardinality(Claimers(i)')
  BY DEF CeilingIInv
<1>1. Claimers(i) \subseteq Claimers(i)'
  BY DEF Claimers
<1>2. IsFiniteSet(Claimers(i)') /\ Cardinality(Claimers(i)') \in Nat
  <2>1. Claimers(i)' \subseteq Signals
    BY DEF Claimers
  <2> QED
    BY <2>1, SmallerSet
<1>3. Cardinality(Claimers(i)) <= Cardinality(Claimers(i)')
  BY <1>1, <1>2, SmallerSet
<1>4. items[i].count \in Nat /\ items[i].count <= Cardinality(Claimers(i))
  <2>1. items[i] \in Item
    BY DEF PipelineIInv, TypeOK, StoresTypeOK
  <2> QED
    BY <2>1 DEF Item, CeilingIInv
<1> QED
  BY <1>2, <1>3, <1>4, SignalSets

\* A new work item counts one signal, the one that made it.
LEMMA CeilingInsert ==
  ASSUME IsFiniteSet(Signals), NothingLost, PipelineIInv, CeilingIInv,
         NEW s \in Signals, InsertItem(s)
  PROVE  CeilingIInv'
<1>0. PICK n : n = Len(items) + 1
  OBVIOUS
<1>1. /\ TypeOK /\ StoresTypeOK /\ CompOf[s] \in Components /\ Len(items) \in Nat
      /\ DOMAIN items = 1 .. Len(items) /\ stage[s] \notin Counted \cup Settled
  <2>1. TypeOK /\ StoresTypeOK
    BY DEF PipelineIInv, TypeOK
  <2>2. Len(items) \in Nat /\ DOMAIN items = 1 .. Len(items)
    BY <2>1 DEF StoresTypeOK
  <2>3. CompOf[s] \in Components
    BY PipelineAssumption
  <2>4. stage[s] \notin Counted \cup Settled
    BY DEF InsertItem, Counted, Settled
  <2> QED
    BY <2>1, <2>2, <2>3, <2>4
<1>2. PICK r \in PgReplies :
        /\ items' = IF r.applied THEN Append(items, NewItem(CompOf[s])) ELSE items
        /\ wid' = IF r.err = "none" THEN [wid EXCEPT ![s] = n] ELSE wid
        /\ Retried(s, r.err, IF stage[s] = "create" THEN "publish" ELSE "overwrite")
  BY <1>0 DEF InsertItem
<1>3. r.applied <=> r.err = "none"
  BY CleanReplies
<1>4. \A t \in Signals \ {s} : stage'[t] = stage[t] /\ wid'[t] = wid[t]
  <2>1. ProcessOne(s)
    BY DEF ProcessOne
  <2> QED
    BY <2>1, OneSignalMoves
<1>5. CASE ~r.applied
  <2>1. UNCHANGED items /\ wid' = wid
    BY <1>2, <1>3, <1>5
  <2> QED
    BY <1>1, <1>4, <2>1, CeilingKept
<1>6. CASE r.applied
  <2>1. /\ DOMAIN items' = DOMAIN items \cup {n}
        /\ \A i \in DOMAIN items : items'[i] = items[i]
        /\ items'[n].count = 1
    <3>1. /\ DOMAIN items' = 1 .. n
          /\ \A j \in 1 .. Len(items) : items'[j] = items[j]
          /\ items'[n] = NewItem(CompOf[s])
      BY <1>0, <1>1, <1>2, <1>6, RowInserted
    <3>2. 1 .. n = 1 .. Len(items) \cup {n}
      BY <1>0, <1>1
    <3> QED
      BY <1>1, <3>1, <3>2 DEF NewItem
  <2>2. stage'[s] \in {"publish", "overwrite"} /\ wid'[s] = n
    <3>1. stage'[s] \in {"publish", "overwrite"}
      BY <1>1, <1>2, <1>3, <1>6, RetriedStep DEF Stages, Calls
    <3> QED
      BY <1>1, <1>2, <1>3, <1>6, <3>1 DEF TypeOK
  <2>3. Cardinality(Claimers(n)') >= 1
    <3>1. {s} \subseteq Claimers(n)' /\ Claimers(n)' \subseteq Signals
      BY <2>2 DEF Claimers, Counted
    <3>2. IsFiniteSet({s}) /\ Cardinality({s}) = 1
      BY FS_Singleton
    <3>3. IsFiniteSet(Claimers(n)')
      BY <3>1, FS_Subset
    <3>4. Cardinality({s}) <= Cardinality(Claimers(n)') /\ Cardinality(Claimers(n)') \in Nat
      BY <3>1, <3>2, <3>3, FS_Subset, FS_CardinalityType
    <3> QED
      BY <3>2, <3>4
  <2>4. ASSUME NEW i \in DOMAIN items PROVE items[i].count <= Cardinality(Claimers(i)')
    <3>1. Claimers(i) \subseteq Claimers(i)' /\ Claimers(i)' \subseteq Signals
      BY <1>1, <1>4 DEF Claimers
    <3>2. /\ Cardinality(Claimers(i)) <= Cardinality(Claimers(i)')
          /\ Cardinality(Claimers(i)') \in Nat /\ Cardinality(Claimers(i)) \in Nat
      BY <3>1, SmallerSet
    <3>3. items[i].count \in Nat /\ items[i].count <= Cardinality(Claimers(i))
      <4>1. items[i] \in Item
        BY <1>1 DEF StoresTypeOK
      <4> QED
        BY <4>1 DEF Item, CeilingIInv
    <3> QED
      BY <3>2, <3>3
  <2> QED
    BY <2>1, <2>3, <2>4 DEF CeilingIInv
<1> QED
  BY <1>5, <1>6

\* An increment that took place has a signal to show for it.
LEMMA CeilingIncrement ==
  ASSUME IsFiniteSet(Signals), NothingLost, PipelineIInv, CeilingIInv,
         NEW s \in Signals, Increment(s)
  PROVE  CeilingIInv'
<1>0. PICK n : n = wid[s]
  OBVIOUS
<1>1. /\ TypeOK /\ StoresTypeOK /\ n \in DOMAIN items
      /\ \A i \in DOMAIN items : items[i].count \in Nat
      /\ stage[s] \notin Counted \cup Settled /\ UNCHANGED wid
  <2>1. \A row \in Item : row.count \in Nat
    BY DEF Item
  <2> QED
    BY <1>0, <2>1 DEF PipelineIInv, TypeOK, StoresTypeOK, SignalOK, WithItem, Increment,
       Counted, Settled
<1>2. PICK r \in PgReplies :
        /\ items' = IF r.applied THEN [items EXCEPT ![n].count = @ + 1] ELSE items
        /\ Retried(s, r.err, "link")
  BY <1>0 DEF Increment
<1>3. r.applied <=> r.err = "none"
  BY CleanReplies
<1>4. /\ \A t \in Signals \ {s} : stage'[t] = stage[t]
      /\ r.err = "none" => stage'[s] = "link"
  BY <1>1, <1>2, RetriedStep DEF Stages, Calls
<1>5. CASE ~r.applied
  BY <1>1, <1>2, <1>4, <1>5, CeilingKept
<1>6. CASE r.applied
  <2>1. /\ DOMAIN items' = DOMAIN items
        /\ \A i \in DOMAIN items \ {n} : items'[i].count = items[i].count
        /\ items'[n].count = items[n].count + 1
    <3>1. items[n] \in Item
      BY <1>1 DEF StoresTypeOK
    <3>2. items' = [items EXCEPT ![n].count = @ + 1]
      BY <1>2, <1>6
    <3>3. n \in DOMAIN items
      BY <1>1
    <3> QED
      BY <3>1, <3>2, <3>3 DEF Item
  <2>2. /\ \A i \in DOMAIN items \ {n} : Claimers(i)' = Claimers(i)
        /\ Claimers(n)' = Claimers(n) \cup {s} /\ s \notin Claimers(n)
    BY <1>0, <1>1, <1>3, <1>4, <1>6 DEF Claimers, Counted
  <2>3. Cardinality(Claimers(n)') = Cardinality(Claimers(n)) + 1
    BY <2>2, SignalSets, FS_AddElement
  <2>4. \A i \in DOMAIN items : /\ Cardinality(Claimers(i)) \in Nat
                                /\ items[i].count <= Cardinality(Claimers(i))
    BY SignalSets DEF CeilingIInv
  <2>5. ASSUME NEW i \in DOMAIN items PROVE items'[i].count <= Cardinality(Claimers(i)')
    <3>1. CASE i = n
      BY <1>1, <2>1, <2>3, <2>4, <3>1
    <3>2. CASE i # n
      BY <2>1, <2>2, <2>4, <3>2
    <3> QED
      BY <3>1, <3>2
  <2> QED
    BY <2>1, <2>5 DEF CeilingIInv
<1> QED
  BY <1>5, <1>6

\* Every step keeps the count below its claimers.
LEMMA CeilingNext ==
  IsFiniteSet(Signals) /\ NothingLost /\ PipelineIInv /\ CeilingIInv /\ [Next]_vars
    => CeilingIInv'
<1> SUFFICES ASSUME IsFiniteSet(Signals), NothingLost, PipelineIInv, CeilingIInv, [Next]_vars
             PROVE  CeilingIInv'
  OBVIOUS
<1>0. TypeOK
  BY DEF PipelineIInv
<1>1. ASSUME NEW s \in Signals, ProcessOne(s) PROVE CeilingIInv'
  <2>0. \A t \in Signals \ {s} : stage'[t] = stage[t] /\ wid'[t] = wid[t]
    BY <1>1, OneSignalMoves
  <2>1. ASSUME UNCHANGED items,
               stage[s] \in Counted =>
                 stage'[s] \in Counted \cup Settled /\ wid'[s] = wid[s]
        PROVE  CeilingIInv'
    <3>1. stage[s] \notin Settled
      BY <1>1, OneSignalMoves DEF Calls, Settled
    <3> QED
      BY <2>0, <2>1, <3>1, CeilingKept
  <2>2. CASE InsertRaw(s) \/ PushFeed(s) \/ AddLink(s) \/ UpsertMetric(s)
    <3>1. /\ UNCHANGED <<items, wid>>
          /\ \E next \in {"claim", "alert", "backfill", "processed"} :
               /\ \E err : Retried(s, err, next)
               /\ next = "claim" => stage[s] = "insert"
      BY <2>2 DEF InsertRaw, PushFeed, AddLink, UpsertMetric, storeVars, sinkVars
    <3>2. stage[s] \in Counted => stage'[s] \in Counted \cup Settled
      BY <1>0, <3>1, RetriedStep DEF Stages, Calls, Settled, Counted
    <3> QED
      BY <2>1, <3>1, <3>2
  <2>3. CASE Claim(s) \/ Lookup(s)
    BY <2>1, <2>3 DEF Claim, Lookup, Counted, storeVars
  <2>4. CASE Publish(s) \/ Overwrite(s)
    <3>1. /\ UNCHANGED <<items, wid>>
          /\ \E next \in {"feed", "link"} : \E err : Once(s, err, next)
      BY <2>4 DEF Publish, Overwrite
    <3>2. stage'[s] \in Counted \cup Settled
      BY <1>0, <3>1, OnceStep DEF Stages, Calls, Settled, Counted
    <3> QED
      BY <2>1, <3>1, <3>2
  <2>5. CASE Alert(s) \/ Backfill(s)
    BY <1>0, <2>1, <2>5 DEF Alert, Backfill, storeVars, TypeOK, Counted
  <2>6. CASE InsertItem(s)
    BY <2>6, CeilingInsert
  <2>7. CASE Increment(s)
    BY <2>7, CeilingIncrement
  <2> QED
    BY <1>1, <2>2, <2>3, <2>4, <2>5, <2>6, <2>7 DEF ProcessOne
<1>2. ASSUME NEW s \in Signals, Accept(s) \/ Take(s) PROVE CeilingIInv'
  BY <1>0, <1>2, CeilingKept DEF Accept, Take, storeVars, TypeOK, Counted, Settled
<1>3. ASSUME NEW c \in Components, Expire(c) PROVE CeilingIInv'
  BY <1>3, CeilingKept DEF Expire, ExpireKey, localVars
<1>4. CASE Crash \/ UNCHANGED vars
  BY <1>4, CeilingKept DEF Crash, DropTasks, vars, localVars, storeVars, Settled
<1> QED
  BY <1>1, <1>2, <1>3, <1>4 DEF Next, Idle

\* Bounded from both sides and linked once, the counts are exact.
LEMMA CountsMeet ==
  ASSUME IsFiniteSet(Signals), PipelineIInv, CeilingIInv, CountCoversLinks, ProcessedOnce
  PROVE  CountsSettle
<1> SUFFICES ASSUME \A s \in Signals : stage[s] = "processed", NEW i \in DOMAIN items
             PROVE  items[i].count = Cardinality(LinkedTo(i))
  BY DEF CountsSettle
<1>1. \A s \in Signals : links[s] = 1
  BY DEF ProcessedOnce
<1>2. Claimers(i) = LinkedTo(i)
  BY <1>1 DEF Claimers, LinkedTo, Settled
<1>3. /\ items[i].count <= Cardinality(LinkedTo(i))
      /\ items[i].count >= Cardinality(LinkedTo(i))
  BY <1>2 DEF CeilingIInv, CountCoversLinks
<1>4. items[i].count \in Nat
  <2>1. items[i] \in Item
    BY DEF PipelineIInv, TypeOK, StoresTypeOK
  <2> QED
    BY <2>1 DEF Item
<1> QED
  BY <1>3, <1>4, SignalSets

(***************************************************************************)
(* While no acknowledgement is lost, signal_count is, in the end, exactly  *)
(* the number of linked signals if every signal was processed.             *)
(***************************************************************************)
THEOREM CountsSettleHolds ==
  ASSUME IsFiniteSet(Signals), NothingLost
  PROVE  Spec => []CountsSettle
<1>0. IsFiniteSet(Signals) /\ NothingLost
  OBVIOUS
<1>1. Init => CeilingIInv
  BY DEF Init, StoresInit, CeilingIInv
<1>2. PipelineIInv /\ CeilingIInv /\ [Next]_vars => CeilingIInv'
  BY <1>0, CeilingNext
<1>3. PipelineIInv /\ CeilingIInv /\ CountCoversLinks /\ ProcessedOnce => CountsSettle
  BY <1>0, CountsMeet
<1>4. Spec => []PipelineIInv
  BY PipelineInvariance
<1>5. Spec => []CountCoversLinks
  BY <1>0, CountCoversLinksHolds
<1>6. Spec => []ProcessedOnce
  BY <1>0, ProcessedOnceHolds
<1> QED
  BY <1>1, <1>2, <1>3, <1>4, <1>5, <1>6, PTL DEF Spec

-----------------------------------------------------------------------------
(***************************************************************************)
(* On-call hears of every work item: its creator is on the way to tell     *)
(* them, has given up, or has told them.                                   *)
(***************************************************************************)
Telling(s, i) ==
  /\ wid[s] = i /\ CompOf[s] = items[i].comp
  /\ \/ stage[s] \in {"publish", "feed", "failed", "lost"}
     \/ stage[s] = "alert" /\ i \in feed

HeardIInv == \A i \in DOMAIN items :
               i \in alerts \cap feed \/ \E s \in Signals : Telling(s, i)

\* A step of one signal that makes no work item, and tells what it has to.
LEMMA HeardKept ==
  ASSUME HeardIInv, DOMAIN items' = DOMAIN items,
         \A i \in DOMAIN items : items'[i].comp = items[i].comp,
         feed \subseteq feed', alerts \subseteq alerts',
         \A s \in Signals, i \in DOMAIN items :
           Telling(s, i) => Telling(s, i)' \/ i \in alerts' \cap feed'
  PROVE  HeardIInv'
BY DEF HeardIInv

\* The telling of one work item, call by call.
LEMMA HeardNext ==
  KeysLive /\ NothingLost /\ PipelineIInv /\ DebounceIInv /\ HeardIInv /\ [Next]_vars
    => HeardIInv'
<1> SUFFICES ASSUME KeysLive, NothingLost, PipelineIInv, DebounceIInv, HeardIInv, [Next]_vars
             PROVE  HeardIInv'
  OBVIOUS
<1>0. TypeOK /\ StoresTypeOK
  BY DEF PipelineIInv, TypeOK
<1>1. ASSUME NEW s \in Signals, ProcessOne(s) PROVE HeardIInv'
  <2>0. /\ stage[s] \in Calls
        /\ \A t \in Signals \ {s} : stage'[t] = stage[t] /\ wid'[t] = wid[t]
    BY <1>1, OneSignalMoves
  <2>1. ASSUME UNCHANGED items, feed \subseteq feed', alerts \subseteq alerts',
               \A i \in DOMAIN items :
                 Telling(s, i) => Telling(s, i)' \/ i \in alerts' \cap feed'
        PROVE  HeardIInv'
    <3>1. \A t \in Signals \ {s}, i \in DOMAIN items : Telling(t, i) => Telling(t, i)'
      BY <2>0, <2>1 DEF Telling
    <3> QED
      BY <2>1, <3>1, HeardKept
  <2>2. CASE Publish(s)
    <3>1. /\ UNCHANGED <<items, feed, wid, alerts>> /\ \E err : Once(s, err, "feed")
      BY <2>2 DEF Publish, sinkVars
    <3>2. stage'[s] \in {"feed", "failed"}
      BY <1>0, <3>1, OnceStep DEF Stages, Calls
    <3> QED
      BY <2>1, <3>1, <3>2 DEF Telling
  <2>3. CASE PushFeed(s)
    <3>1. PICK r \in StoreReplies :
            /\ feed' = IF r.applied THEN feed \cup {wid[s]} ELSE feed
            /\ Retried(s, r.err, "alert")
      BY <2>3 DEF PushFeed
    <3>2. UNCHANGED <<items, wid, alerts>> /\ stage[s] = "feed"
      BY <2>3 DEF PushFeed, sinkVars
    <3>3. r.err = "none" => wid[s] \in feed'
      BY <3>1, CleanReplies
    <3>4. \/ stage'[s] = "alert" /\ r.err = "none"
          \/ stage'[s] \in {"failed", "feed"}
      BY <1>0, <3>1, <3>2, RetriedStep DEF Stages, Calls
    <3> QED
      BY <2>1, <3>1, <3>2, <3>3, <3>4 DEF Telling
  <2>4. CASE Alert(s)
    BY <2>1, <2>4 DEF Alert, storeVars, Telling
  <2>5. CASE InsertItem(s)
    <3>1. PICK r \in PgReplies :
            /\ items' = IF r.applied THEN Append(items, NewItem(CompOf[s])) ELSE items
            /\ wid' = IF r.err = "none" THEN [wid EXCEPT ![s] = Len(items) + 1] ELSE wid
            /\ Retried(s, r.err, IF stage[s] = "create" THEN "publish" ELSE "overwrite")
      BY <2>5 DEF InsertItem
    <3>2. UNCHANGED <<feed, alerts>> /\ stage[s] = "create" /\ \A i : ~Telling(s, i)
      BY <2>5 DEF InsertItem, DebounceIInv, sinkVars, Telling
    <3>3. r.applied <=> r.err = "none"
      BY CleanReplies
    <3>4. CASE r.err # "none"
      BY <2>1, <3>1, <3>2, <3>3, <3>4
    <3>5. CASE r.err = "none"
      <4>1. PICK n : n = Len(items) + 1
        OBVIOUS
      <4>2. stage'[s] = "publish" /\ wid'[s] = n /\ CompOf[s] \in Components
        <5>1. stage'[s] = "publish"
          BY <1>0, <3>1, <3>2, <3>5, RetriedStep DEF Stages, Calls
        <5> QED
          BY <1>0, <3>1, <3>5, <4>1, <5>1, PipelineAssumption DEF TypeOK
      <4>3. /\ DOMAIN items' = DOMAIN items \cup {n}
            /\ \A i \in DOMAIN items : items'[i] = items[i]
            /\ items'[n].comp = CompOf[s]
        <5>1. /\ DOMAIN items' = 1 .. n
              /\ \A j \in 1 .. Len(items) : items'[j] = items[j]
              /\ items'[n] = NewItem(CompOf[s])
          BY <1>0, <3>1, <3>3, <3>5, <4>1, <4>2, RowInserted
        <5>2. /\ 1 .. n = 1 .. Len(items) \cup {n} /\ DOMAIN items = 1 .. Len(items)
          BY <1>0, <4>1 DEF StoresTypeOK
        <5> QED
          BY <5>1, <5>2 DEF NewItem
      <4>4. Telling(s, n)'
        BY <4>2, <4>3 DEF Telling
      <4>5. \A t \in Signals, i \in DOMAIN items : Telling(t, i) => Telling(t, i)'
        BY <2>0, <3>2, <4>3 DEF Telling
      <4> QED
        BY <3>2, <4>3, <4>4, <4>5 DEF HeardIInv
    <3> QED
      BY <3>4, <3>5
  <2>6. CASE Increment(s)
    <3>1. PICK r \in PgReplies :
            items' = IF r.applied THEN [items EXCEPT ![wid[s]].count = @ + 1] ELSE items
      BY <2>6 DEF Increment
    <3>2. \A i \in DOMAIN items : items[i] \in Item
      BY <1>0 DEF StoresTypeOK
    <3>3. /\ DOMAIN items' = DOMAIN items
          /\ \A i \in DOMAIN items : items'[i].comp = items[i].comp
      BY <3>1, <3>2 DEF Item
    <3>4. UNCHANGED <<feed, alerts>> /\ stage[s] = "increment"
      BY <2>6 DEF Increment, sinkVars
    <3>5. \A t \in Signals, i \in DOMAIN items : Telling(t, i) => Telling(t, i)'
      BY <2>0, <3>3, <3>4 DEF Telling
    <3> QED
      BY <3>3, <3>4, <3>5, HeardKept
  <2>7. CASE \/ InsertRaw(s) \/ Claim(s) \/ Lookup(s) \/ Overwrite(s)
             \/ AddLink(s) \/ Backfill(s) \/ UpsertMetric(s)
    <3>1. /\ UNCHANGED <<items, feed, alerts>>
          /\ stage[s] \notin {"publish", "feed", "failed", "lost", "alert"}
      BY <2>7 DEF InsertRaw, Claim, Lookup, Overwrite, AddLink, Backfill, UpsertMetric,
         storeVars, sinkVars
    <3> QED
      BY <2>1, <3>1 DEF Telling
  <2> QED
    BY <1>1, <2>2, <2>3, <2>4, <2>5, <2>6, <2>7 DEF ProcessOne
<1>2. ASSUME NEW s \in Signals, Accept(s) \/ Take(s) PROVE HeardIInv'
  BY <1>0, <1>2, HeardKept DEF Accept, Take, storeVars, sinkVars, TypeOK, Telling
<1>3. CASE Crash
  <2>1. /\ UNCHANGED <<items, feed, wid, alerts>>
        /\ \A s \in Signals : stage'[s] \in {"lost", stage[s]}
    BY <1>3 DEF Crash, DropTasks, storeVars, sinkVars
  <2> QED
    BY <2>1, HeardKept DEF Telling
<1>4. CASE UNCHANGED vars
  BY <1>4, HeardKept DEF vars, localVars, storeVars, sinkVars, Telling
<1> QED
  BY <1>1, <1>2, <1>3, <1>4 DEF Next, Idle, Expire, ExpireKey, KeysLive

(***************************************************************************)
(* While keys live and no acknowledgement is lost, a work item all of      *)
(* whose component's signals were processed is in the live feed and was    *)
(* alerted.                                                                *)
(***************************************************************************)
THEOREM EveryItemAnnouncedHolds ==
  ASSUME KeysLive, NothingLost
  PROVE  Spec => []EveryItemAnnounced
<1>0. KeysLive /\ NothingLost
  OBVIOUS
<1>1. Init => HeardIInv
  BY DEF Init, StoresInit, HeardIInv
<1>2. WindowIInv /\ HeardIInv /\ [Next]_vars => HeardIInv'
  BY <1>0, HeardNext DEF WindowIInv
<1>3. HeardIInv => EveryItemAnnounced
  BY DEF HeardIInv, EveryItemAnnounced, Telling
<1>4. Spec => []WindowIInv
  BY WindowInvariance
<1> QED
  BY <1>1, <1>2, <1>3, <1>4, PTL DEF Spec
=============================================================================
