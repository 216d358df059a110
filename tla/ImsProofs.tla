----------------------------- MODULE ImsProofs -----------------------------
(***************************************************************************)
(* Proofs about IMS: the workers and the handlers together, for any number *)
(* of signals, workers and operators and with every fault at once.  What   *)
(* each part needs of the other comes down to two frames: the workers only *)
(* add work items (ItemsOnlyAdded) and feed entries; the handlers keep     *)
(* every work item's component and count, free dedup keys, and take a feed *)
(* entry away only after the close that set the work item's end.           *)
(*   A window stays with a closed work item only for the causes that       *)
(* ClosedWindowForCause lists.  Then, with hypotheses: one operator beside *)
(* any workers (Alone): the backend implements WorkItem; creations of one  *)
(* component and moves of one work item apart (ApartSpec), keys live: one  *)
(* open work item per component, whose window nothing ends.                *)
(***************************************************************************)
EXTENDS IMS, PipelineCounts, SoloProofs

\* A worker that is about to alert on a work item has pushed it.
PushedFirst ==
  \A s \in Signals : stage[s] = "alert" => wid[s] \in feed \/ items[wid[s]].ended

ImsIInv == /\ PipelineIInv
           /\ ApiIInv
           /\ PushedFirst
           /\ OpenStaysInFeed

-----------------------------------------------------------------------------
\* What a step of a handler leaves of the stores.
HandlerFrame(o) ==
  /\ Len(items') = Len(items)
  /\ \A i \in 1 .. Len(items) : /\ items'[i].comp = items[i].comp
                                /\ items'[i].count = items[i].count
                                /\ items[i].ended => items'[i].ended
  /\ \/ UNCHANGED dedup
     \/ \E c \in Components : dedup' = [dedup EXCEPT ![c] = NoKey]
  /\ \/ feed' = feed
     \/ req[o].at = "unfeed" /\ feed' = feed \ {req[o].item}

\* Every step of a handler stays within its frame.
LEMMA HandlerFrames ==
  ASSUME ApiTypeOK, NEW o \in Operators, HandleRequest(o)
  PROVE  HandlerFrame(o)
<1>0. /\ StoresTypeOK /\ \A i \in 1 .. Len(items) : items[i] \in Item
      /\ Len(items) \in Nat /\ DOMAIN items = 1 .. Len(items)
      /\ req[o].at # "idle" => req[o].item \in 1 .. Len(items)
  BY DEF ApiTypeOK, StoresTypeOK
<1>1. CASE UNCHANGED storeVars
  BY <1>0, <1>1 DEF HandlerFrame, storeVars
<1>2. CASE Write(o)
  <2>1. PICK i : i = req[o].item
    OBVIOUS
  <2>2. i \in 1 .. Len(items) /\ UNCHANGED <<dedup, feed>>
    BY <1>0, <1>2, <2>1 DEF Write
  <2>3. \/ UNCHANGED items
        \/ items' = [items EXCEPT ![i] = Updated(items[i], req[o].target)]
    BY <1>2, <2>1 DEF Write
  <2>4. /\ Updated(items[i], req[o].target).comp = items[i].comp
        /\ Updated(items[i], req[o].target).count = items[i].count
        /\ items[i].ended => Updated(items[i], req[o].target).ended
    <3>1. items[i] \in Item
      BY <1>0, <2>2
    <3> QED
      BY <3>1 DEF Updated, Item
  <2> QED
    BY <1>0, <2>2, <2>3, <2>4 DEF HandlerFrame
<1>3. CASE SaveRca(o)
  <2>1. PICK i : i = req[o].item
    OBVIOUS
  <2>2. i \in 1 .. Len(items) /\ UNCHANGED <<dedup, feed>>
    BY <1>0, <1>3, <2>1 DEF SaveRca
  <2>3. UNCHANGED items \/ items' = [items EXCEPT ![i].rca = req[o].body]
    BY <1>3, <2>1 DEF SaveRca
  <2> QED
    BY <1>0, <2>2, <2>3 DEF HandlerFrame, Item
<1>4. CASE Unfeed(o)
  BY <1>0, <1>4 DEF Unfeed, HandlerFrame
<1>5. CASE Undedup(o)
  <2>1. req[o].item \in 1 .. Len(items)
    BY <1>0, <1>5 DEF Undedup
  <2>2. items[req[o].item].comp \in Components
    BY <1>0, <2>1 DEF Item
  <2> QED
    BY <1>0, <1>5, <2>2 DEF Undedup, HandlerFrame
<1> QED
  BY <1>1, <1>2, <1>3, <1>4, <1>5
  DEF HandleRequest, Serve, ReadItem, SubmitRca, View, Gate, Scan, Reread, Render, SelectRca

\* The workers' invariant does not notice the handlers.
LEMMA HandlersKeepPipeline ==
  ASSUME ImsIInv, NEW o \in Operators, Handle(o)
  PROVE  PipelineIInv'
<1>1. /\ HandlerFrame(o) /\ StoresTypeOK' /\ UNCHANGED <<localVars, sinkVars>>
      /\ PipelineIInv /\ TypeOK /\ StoresTypeOK /\ Len(items) \in Nat
  <2>1. PipelineIInv /\ ApiIInv /\ HandleRequest(o) /\ UNCHANGED <<localVars, sinkVars>>
    BY DEF ImsIInv, Handle
  <2>2. TypeOK /\ ApiTypeOK
    BY <2>1 DEF PipelineIInv, ApiIInv
  <2>3. StoresTypeOK /\ Len(items) \in Nat
    BY <2>2 DEF TypeOK, StoresTypeOK
  <2>4. HandlerFrame(o)
    BY <2>1, <2>2, HandlerFrames
  <2>5. StoresTypeOK'
    BY <2>1, <2>2, HandlerType DEF ApiTypeOK
  <2> QED
    BY <2>1, <2>2, <2>3, <2>4, <2>5
<1>2. RowsKept
  BY <1>1 DEF RowsKept, HandlerFrame
<1>3. TypeOK'
  BY <1>1 DEF TypeOK, HandlerFrame, localVars, sinkVars
<1>4. KeysOwnItems'
  <2>1. CASE UNCHANGED dedup
    BY <1>1, <1>2, <2>1 DEF PipelineIInv, KeysOwnItems, RowsKept, StoresTypeOK, DedupKey,
       NoKey, Pending, ItemKey
  <2>2. ASSUME NEW c \in Components, dedup' = [dedup EXCEPT ![c] = NoKey]
        PROVE  KeysOwnItems'
    BY <1>1, <1>2, <2>2, KeysKept DEF NoKey
  <2> QED
    BY <1>1, <2>1, <2>2 DEF HandlerFrame
<1>5. \A s \in Signals : SignalOK(s)'
  BY <1>1 DEF PipelineIInv, SignalOK, HandlerFrame, localVars, sinkVars
<1> QED
  BY <1>3, <1>4, <1>5 DEF PipelineIInv

\* Every step of a worker stays within its frame: it adds work items, it adds
\* feed entries, and it reaches the alert only by pushing.
LEMMA WorkerFrames ==
  ASSUME PipelineIInv, NEW s \in Signals, ProcessOne(s)
  PROVE  /\ ItemsOnlyAdded
         /\ feed \subseteq feed'
         /\ \A t \in Signals : stage'[t] = "alert" =>
              wid'[t] = wid[t] /\ (stage[t] = "alert" \/ wid[t] \in feed')
         /\ alerts' = alerts \/ (stage[s] = "alert" /\ alerts' = alerts \cup {wid[s]})
<1>0. /\ TypeOK /\ StoresTypeOK /\ Len(items) \in Nat /\ DOMAIN items = 1 .. Len(items)
      /\ \A i \in 1 .. Len(items) : items[i] \in Item
      /\ CompOf[s] \in Components
      /\ stage[s] \in WithItem => wid[s] \in 1 .. Len(items)
  BY PipelineAssumption DEF PipelineIInv, TypeOK, StoresTypeOK, SignalOK
<1>1. UNCHANGED items => ItemsOnlyAdded
  <2>1. Len(items) + 1 .. Len(items) = {}
    BY <1>0
  <2> QED
    BY <1>0, <2>1 DEF ItemsOnlyAdded
<1>2. /\ stage[s] \in Calls
      /\ \A t \in Signals \ {s} : stage'[t] = stage[t] /\ wid'[t] = wid[t]
  BY OneSignalMoves
<1>3. ASSUME NEW next \in Stages \ {"alert"}, NEW err,
             Once(s, err, next) \/ Retried(s, err, next), stage[s] # "alert"
      PROVE  stage'[s] # "alert"
  BY <1>0, <1>3, OnceStep, RetriedStep
<1>4. CASE InsertItem(s)
  <2>1. ItemsOnlyAdded
    <3>1. CASE items' = Append(items, NewItem(CompOf[s]))
      <4>1. /\ Len(items') = Len(items) + 1
            /\ \A i \in 1 .. Len(items) : items'[i] = items[i]
            /\ items'[Len(items) + 1] = NewItem(CompOf[s])
        BY <1>0, <3>1, RowInserted
      <4>2. Len(items) + 1 .. Len(items') = {Len(items) + 1}
        BY <1>0, <4>1
      <4> QED
        BY <1>0, <4>1, <4>2 DEF ItemsOnlyAdded, NewItem
    <3> QED
      BY <1>1, <1>4, <3>1 DEF InsertItem
  <2>2. PICK r \in PgReplies :
          Retried(s, r.err, IF stage[s] = "create" THEN "publish" ELSE "overwrite")
    BY <1>4 DEF InsertItem
  <2>3. stage'[s] # "alert"
    BY <1>3, <1>4, <2>2 DEF InsertItem, Stages, Calls
  <2> QED
    BY <1>2, <1>4, <2>1, <2>3 DEF InsertItem, sinkVars
<1>5. CASE Increment(s)
  <2>1. PICK n : n = wid[s]
    OBVIOUS
  <2>2. n \in 1 .. Len(items)
    BY <1>0, <1>5, <2>1 DEF Increment, WithItem
  <2>3. UNCHANGED items \/ items' = [items EXCEPT ![n].count = @ + 1]
    BY <1>5, <2>1 DEF Increment
  <2>4. ItemsOnlyAdded
    <3>1. Len(items) + 1 .. Len(items) = {}
      BY <1>0
    <3> QED
      BY <1>0, <1>1, <2>2, <2>3, <3>1 DEF ItemsOnlyAdded, Item
  <2>5. PICK r \in PgReplies : Retried(s, r.err, "link")
    BY <1>5 DEF Increment
  <2>6. stage'[s] # "alert"
    BY <1>3, <1>5, <2>5 DEF Increment, Stages, Calls
  <2> QED
    BY <1>2, <1>5, <2>4, <2>6 DEF Increment, sinkVars
<1>6. CASE PushFeed(s)
  <2>1. PICK r \in StoreReplies :
          /\ feed' = IF r.applied THEN feed \cup {wid[s]} ELSE feed
          /\ Retried(s, r.err, "alert")
    BY <1>6 DEF PushFeed
  <2>2. r.err = "none" => r.applied
    BY RetryAssumption DEF StoreReplies, Ok
  <2>3. stage[s] = "feed" /\ UNCHANGED <<items, wid, alerts>>
    BY <1>6 DEF PushFeed, sinkVars
  <2>4. stage'[s] = "alert" => r.err = "none"
    BY <1>0, <2>1, <2>3, RetriedStep DEF Stages, Calls
  <2> QED
    BY <1>1, <1>2, <2>1, <2>2, <2>3, <2>4
<1>7. CASE Alert(s)
  BY <1>0, <1>1, <1>2, <1>7 DEF Alert, storeVars, TypeOK
<1>8. CASE Backfill(s)
  BY <1>0, <1>1, <1>2, <1>8 DEF Backfill, storeVars, TypeOK
<1>9. CASE InsertRaw(s) \/ AddLink(s) \/ UpsertMetric(s)
  <2>1. PICK next \in {"claim", "backfill", "processed"} : \E err : Retried(s, err, next)
    BY <1>9 DEF InsertRaw, AddLink, UpsertMetric
  <2>2. stage[s] # "alert" /\ UNCHANGED <<items, feed, wid, alerts>>
    BY <1>9 DEF InsertRaw, AddLink, UpsertMetric, storeVars
  <2>3. stage'[s] # "alert"
    BY <1>3, <2>1, <2>2 DEF Stages, Calls, Settled
  <2> QED
    BY <1>1, <1>2, <2>2, <2>3
<1>10. CASE Claim(s) \/ Publish(s) \/ Overwrite(s)
  <2>1. PICK next \in {"create", "lookup", "feed", "link"} : \E err : Once(s, err, next)
    BY <1>10 DEF Claim, Publish, Overwrite
  <2>2. stage[s] # "alert" /\ UNCHANGED <<items, feed, wid, alerts>>
    BY <1>10 DEF Claim, Publish, Overwrite, sinkVars
  <2>3. stage'[s] # "alert"
    BY <1>3, <2>1, <2>2 DEF Stages, Calls
  <2> QED
    BY <1>1, <1>2, <2>2, <2>3
<1>11. CASE Lookup(s)
  <2>1. PICK next \in {"increment", "recreate"} : \E err : Once(s, err, next)
    BY <1>11 DEF Lookup
  <2>2. stage[s] # "alert" /\ UNCHANGED <<items, feed, alerts>>
    BY <1>11 DEF Lookup, storeVars, sinkVars
  <2>3. stage'[s] # "alert"
    BY <1>3, <2>1, <2>2 DEF Stages, Calls
  <2> QED
    BY <1>1, <1>2, <2>2, <2>3
<1> QED
  BY <1>4, <1>5, <1>6, <1>7, <1>8, <1>9, <1>10, <1>11 DEF ProcessOne

\* Every step of the composition keeps the invariant.
LEMMA ImsNextInv == ImsIInv /\ [ImsNext]_imsVars => ImsIInv'
<1> SUFFICES ASSUME ImsIInv, [ImsNext]_imsVars PROVE ImsIInv'
  OBVIOUS
<1>0. /\ PipelineIInv /\ ApiIInv /\ PushedFirst /\ OpenStaysInFeed /\ StoresTypeOK
      /\ Len(items) \in Nat /\ DOMAIN items = 1 .. Len(items)
      /\ \A s \in Signals : stage[s] = "alert" => wid[s] \in 1 .. Len(items)
      /\ alerts \subseteq 1 .. Len(items)
  BY DEF ImsIInv, PipelineIInv, TypeOK, StoresTypeOK, SignalOK, WithItem
<1>1. UNCHANGED items => ItemsOnlyAdded
  <2>1. Len(items) + 1 .. Len(items) = {}
    BY <1>0
  <2> QED
    BY <1>0, <2>1 DEF ItemsOnlyAdded
\* A step around the handlers.
<1>2. ASSUME PipelineIInv', UNCHANGED req, ItemsOnlyAdded PROVE ApiIInv'
  BY <1>0, <1>2, AroundHandlers DEF PipelineIInv, TypeOK
\* A step that neither alerts nor touches the feed.
<1>3. ASSUME UNCHANGED <<items, feed, wid, alerts>>,
             \A s \in Signals : stage'[s] = "alert" => stage[s] = "alert"
      PROVE  PushedFirst' /\ OpenStaysInFeed'
  BY <1>0, <1>3 DEF PushedFirst, OpenStaysInFeed
<1>4. ASSUME NEW s \in Signals, (Accept(s) \/ Take(s)) /\ UNCHANGED req PROVE ImsIInv'
  <2>1. PipelineIInv'
    BY <1>0, <1>4, QueueInv
  <2>2. /\ UNCHANGED <<items, feed, wid, alerts>>
        /\ \A t \in Signals : stage'[t] = "alert" => stage[t] = "alert"
    BY <1>0, <1>4 DEF Accept, Take, storeVars, sinkVars, PipelineIInv, TypeOK
  <2> QED
    BY <1>1, <1>2, <1>3, <1>4, <2>1, <2>2 DEF ImsIInv
<1>5. ASSUME NEW s \in Signals, Process(s) PROVE ImsIInv'
  <2>1. /\ ItemsOnlyAdded /\ feed \subseteq feed'
        /\ \A t \in Signals : stage'[t] = "alert" =>
             wid'[t] = wid[t] /\ (stage[t] = "alert" \/ wid[t] \in feed')
        /\ alerts' = alerts \/ (stage[s] = "alert" /\ alerts' = alerts \cup {wid[s]})
    BY <1>0, <1>5, WorkerFrames DEF Process
  <2>2. PipelineIInv'
    BY <1>0, <1>5, PipelineNextInv DEF Process, Next
  <2>3. \A i \in 1 .. Len(items) : i \in feed \/ items[i].ended => i \in feed' \/ items'[i].ended
    BY <2>1 DEF ItemsOnlyAdded
  <2>4. PushedFirst'
    <3> SUFFICES ASSUME NEW t \in Signals, stage'[t] = "alert"
                 PROVE  wid'[t] \in feed' \/ items'[wid'[t]].ended
      BY DEF PushedFirst
    <3>1. wid'[t] = wid[t] /\ (stage[t] = "alert" \/ wid[t] \in feed')
      BY <2>1
    <3> QED
      BY <1>0, <2>3, <3>1 DEF PushedFirst
  <2>5. OpenStaysInFeed'
    BY <1>0, <2>1, <2>3 DEF PushedFirst, OpenStaysInFeed
  <2> QED
    BY <1>2, <1>5, <2>1, <2>2, <2>4, <2>5 DEF ImsIInv, Process
<1>6. ASSUME NEW o \in Operators, Handle(o) PROVE ImsIInv'
  <2>1. PipelineIInv'
    BY <1>6, HandlersKeepPipeline
  <2>2. ApiIInv'
    BY <1>0, <1>6, HandlerType, HandlerSafe DEF ApiIInv, Handle
  <2>3. HandlerFrame(o) /\ UNCHANGED <<stage, wid, alerts>>
    BY <1>0, <1>6, HandlerFrames DEF ApiIInv, Handle, localVars, sinkVars
  <2>4. req[o].at = "unfeed" => items[req[o].item].ended
    BY <1>0 DEF ApiIInv, ApiSafe, CleaningEnded, CleanUp
  <2>5. \A i \in 1 .. Len(items) : i \in feed \/ items[i].ended => i \in feed' \/ items'[i].ended
    BY <2>3, <2>4 DEF HandlerFrame
  <2>6. PushedFirst' /\ OpenStaysInFeed'
    BY <1>0, <2>3, <2>5 DEF PushedFirst, OpenStaysInFeed
  <2> QED
    BY <2>1, <2>2, <2>6 DEF ImsIInv
<1>7. ASSUME NEW c \in Components, ExpireDedup(c) PROVE ImsIInv'
  <2>1. PipelineIInv' /\ UNCHANGED <<items, feed, wid, stage, alerts, req>>
    BY <1>0, <1>7, ExpireInv DEF ExpireDedup, Expire, ExpireKey, localVars, sinkVars
  <2> QED
    BY <1>1, <1>2, <1>3, <2>1 DEF ImsIInv
<1>8. CASE ImsCrash
  <2>1. PipelineIInv' /\ ApiIInv'
    BY <1>0, <1>8, DropInv, DropSafe DEF ImsCrash
  <2>2. /\ UNCHANGED <<items, feed, wid, alerts>>
        /\ \A s \in Signals : stage'[s] = "alert" => stage[s] = "alert"
    BY <1>8 DEF ImsCrash, DropTasks, storeVars, sinkVars
  <2> QED
    BY <1>3, <2>1, <2>2 DEF ImsIInv
<1>9. CASE UNCHANGED imsVars
  <2>1. PipelineIInv' /\ UNCHANGED <<items, feed, wid, stage, alerts, req>>
    BY <1>0, <1>9, PipelineNextInv DEF imsVars, vars, storeVars, localVars, sinkVars
  <2> QED
    BY <1>1, <1>2, <1>3, <2>1 DEF ImsIInv
<1> QED
  BY <1>4, <1>5, <1>6, <1>7, <1>8, <1>9 DEF ImsNext, Dequeue

\* Both parts start in order and the feed is empty.
LEMMA ImsInitInv == ImsInit => ImsIInv
BY PipelineInitInv, ApiInitInv
DEF ImsInit, Init, ImsIInv, PushedFirst, OpenStaysInFeed

-----------------------------------------------------------------------------
(***************************************************************************)
(* The inductive invariant of the composition holds in every reachable     *)
(* state.                                                                  *)
(***************************************************************************)
THEOREM ImsInvariance == ImsSpec => []ImsIInv
<1> QED
  BY ImsInitInv, ImsNextInv, PTL DEF ImsSpec

(***************************************************************************)
(* On-call keeps sight of what is open: no interleaving of the workers and *)
(* the operators, no failed or unacknowledged call and no crash takes an   *)
(* alerted work item off the live feed before it was closed.               *)
(***************************************************************************)
THEOREM OpenStaysInFeedHolds == ImsSpec => []OpenStaysInFeed
<1>1. ImsIInv => OpenStaysInFeed
  BY DEF ImsIInv
<1> QED
  BY <1>1, ImsInvariance, PTL

(***************************************************************************)
(* The RCA gate, in the rows, the table and the views, the types and the   *)
(* agreement of the three stores survive the composition: neither part     *)
(* undoes what the other relies on.                                        *)
(***************************************************************************)
THEOREM PartsKeepTheirPromises ==
  ImsSpec => []( /\ TypeOK /\ ApiTypeOK
                 /\ ClosedIsDocumented /\ CloseIsEarned /\ ViewsDocumented
                 /\ RecordsAgree )
<1>1. ImsIInv => ClosedIsDocumented /\ CloseIsEarned /\ ViewsDocumented /\ ApiTypeOK
  BY DEF ImsIInv, ApiIInv, ApiSafe
<1>2. ImsIInv => RecordsAgree /\ TypeOK
  BY DEF ImsIInv, PipelineIInv, SignalOK, RecordsAgree, TypeOK, StoresTypeOK
<1> QED
  BY <1>1, <1>2, ImsInvariance, PTL

(***************************************************************************)
(* Placeholders beside the operators: a close takes the key of its work    *)
(* item away, whatever the key holds by then, and never puts one there.    *)
(***************************************************************************)
\* A handler leaves no placeholder it did not find.
LEMMA HandlerHolds ==
  ASSUME ImsIInv, HolderIInv, NEW o \in Operators, Handle(o), PipelineIInv'
  PROVE  HolderIInv' /\ DropsInRace
<1>1. HandlerFrame(o) /\ UNCHANGED <<stage, raw>>
  BY HandlerFrames DEF ImsIInv, ApiIInv, Handle, localVars, sinkVars
<1>2. dedup \in [Components -> DedupKey]
  BY DEF ImsIInv, PipelineIInv, TypeOK, StoresTypeOK
<1>3. \A d \in Components : dedup'[d] = dedup[d] \/ dedup'[d] = NoKey
  BY <1>1, <1>2 DEF HandlerFrame
<1>4. HeldKeys'
  BY <1>1, <1>3, KeyKinds DEF HolderIInv, HeldKeys
<1> QED
  BY <1>1, <1>4 DEF HolderIInv, FirstInsert, DropsInRace

\* Every step of the backend keeps the holders and drops in the race only.
LEMMA HolderImsNext ==
  ASSUME ImsIInv, HolderIInv, [ImsNext]_imsVars
  PROVE  HolderIInv' /\ (Failures = {} => DropsInRace)
<1>1. PipelineIInv'
  BY ImsNextInv DEF ImsIInv
<1>2. ASSUME NEW s \in Signals, Accept(s) \/ Take(s) \/ ProcessOne(s)
      PROVE  HolderIInv' /\ (Failures = {} => DropsInRace)
  BY <1>1, <1>2, WorkerHolds, WorkerDrops
<1>3. CASE (\E c \in Components : Expire(c)) \/ (DropTasks /\ UNCHANGED storeVars)
  BY <1>1, <1>3, FaultHolds, FaultDrops
<1>4. CASE UNCHANGED imsVars
  BY <1>1, <1>4, FaultDrops
  DEF imsVars, vars, storeVars, localVars, sinkVars, HolderIInv, HeldKeys, FirstInsert
<1> QED
  BY <1>1, <1>2, <1>3, <1>4, HandlerHolds
  DEF ImsNext, Dequeue, Process, ExpireDedup, ImsCrash, imsVars

(***************************************************************************)
(* The holders in the composition.                                         *)
(***************************************************************************)
THEOREM ImsHolderInvariance == ImsSpec => [](ImsIInv /\ HolderIInv)
<1>1. ImsInit => HolderIInv
  <2> SUFFICES ASSUME ImsInit PROVE HolderIInv
    OBVIOUS
  <2>1. PipelineIInv
    BY ImsInitInv DEF ImsIInv
  <2>2. HeldKeys /\ FirstInsert
    BY KeyKinds DEF ImsInit, Init, StoresInit, HeldKeys, FirstInsert
  <2> QED
    BY <2>1, <2>2 DEF HolderIInv
<1>2. ImsIInv /\ HolderIInv /\ [ImsNext]_imsVars => HolderIInv'
  BY HolderImsNext
<1> QED
  BY <1>1, <1>2, ImsInvariance, PTL DEF ImsSpec

(***************************************************************************)
(* No close that falls between the worker's calls leaves a placeholder     *)
(* without a holder, and while no call fails none makes a signal drop in   *)
(* another way than by the race of two workers for one window: a key taken *)
(* away under a claim or a publication costs no signal.                    *)
(***************************************************************************)
THEOREM ImsPlaceholderIsHeld == ImsSpec => []PlaceholderIsHeld
<1>1. HolderIInv => PlaceholderIsHeld
  BY DEF HolderIInv, HeldKeys, Holding, PlaceholderIsHeld
<1> QED
  BY <1>1, ImsHolderInvariance, PTL

(***************************************************************************)
(* The same for the steps: who gives a signal up, and why.                 *)
(***************************************************************************)
THEOREM ImsDroppedOnlyInRace ==
  ASSUME Failures = {}
  PROVE  ImsSpec => DroppedOnlyInRace
<1>1. ImsIInv /\ HolderIInv /\ [ImsNext]_imsVars => [DropsInRace]_vars
  BY HolderImsNext
<1> QED
  BY <1>1, ImsHolderInvariance, PTL DEF ImsSpec, DroppedOnlyInRace, DropsInRace

(***************************************************************************)
(* signal_count covers the linked signals while operators move, close and  *)
(* document the work items under the workers' hands.                       *)
(***************************************************************************)
THEOREM ImsCountCoversLinksHolds ==
  ASSUME IsFiniteSet(Signals)
  PROVE  ImsSpec => []CountCoversLinks
<1>0. IsFiniteSet(Signals)
  OBVIOUS
<1>1. ImsInit => CountIInv
  BY DEF ImsInit, Init, StoresInit, CountIInv
<1>2. ImsIInv /\ CountIInv /\ [ImsNext]_imsVars => CountIInv'
  <2> SUFFICES ASSUME ImsIInv, CountIInv, [ImsNext]_imsVars PROVE CountIInv'
    OBVIOUS
  <2>0. /\ PipelineIInv /\ ApiIInv /\ DOMAIN items = 1 .. Len(items)
        /\ UNCHANGED vars => [Next]_vars
    BY DEF ImsIInv, PipelineIInv, TypeOK, StoresTypeOK
  <2>1. CASE [Next]_vars
    BY <1>0, <2>0, <2>1, CountNext
  <2>2. ASSUME NEW o \in Operators, Handle(o) PROVE CountIInv'
    <3>1. /\ HandlerFrame(o) /\ StoresTypeOK' /\ UNCHANGED <<stage, wid, links>>
      BY <2>0, <2>2, HandlerFrames, HandlerType
      DEF ApiIInv, ApiTypeOK, Handle, localVars, sinkVars
    <3>2. DOMAIN items' = DOMAIN items
      BY <2>0, <3>1 DEF HandlerFrame, StoresTypeOK
    <3> QED
      BY <1>0, <2>0, <3>1, <3>2, CountKept DEF HandlerFrame
  <2>3. CASE ImsCrash
    <3>1. /\ UNCHANGED <<items, wid, links>>
          /\ \A s \in Signals : stage'[s] \in Counted => stage[s] \in Counted
      BY <2>3 DEF ImsCrash, DropTasks, storeVars, sinkVars, Counted
    <3> QED
      BY <1>0, <2>0, <3>1, CountKept
  <2>4. [Next]_vars \/ (\E o \in Operators : Handle(o)) \/ ImsCrash
    BY DEF ImsNext, Next, Dequeue, Process, ExpireDedup, imsVars
  <2> QED
    BY <2>1, <2>2, <2>3, <2>4
<1>3. CountIInv /\ ImsIInv => CountCoversLinks
  BY <1>0, CountsCover DEF ImsIInv, PipelineIInv
<1> QED
  BY <1>1, <1>2, <1>3, ImsInvariance, PTL DEF ImsSpec

\* What the counts need of the operators and of a crash of the process.
LEMMA CountsAroundHandlers ==
  ASSUME IsFiniteSet(Signals), ImsIInv, OnceIInv, CeilingIInv,
         (\E o \in Operators : Handle(o)) \/ ImsCrash
  PROVE  OnceIInv' /\ CeilingIInv'
<1>0. PipelineIInv /\ ApiIInv /\ StoresTypeOK
  BY DEF ImsIInv, PipelineIInv, TypeOK
<1>1. CASE \E o \in Operators : Handle(o)
  <2>1. PICK o \in Operators : Handle(o)
    BY <1>1
  <2>2. HandlerFrame(o) /\ StoresTypeOK' /\ UNCHANGED <<stage, wid, links, metric>>
    BY <1>0, <2>1, HandlerFrames, HandlerType
    DEF ApiIInv, ApiTypeOK, Handle, localVars, sinkVars
  <2>3. OnceIInv'
    BY <2>2, OnceQuiet DEF OnceIInv, OnceOK
  <2>4. DOMAIN items' = DOMAIN items /\ DOMAIN items = 1 .. Len(items)
    BY <1>0, <2>2 DEF HandlerFrame, StoresTypeOK
  <2>5. CeilingIInv'
    BY <1>0, <2>2, <2>4, CeilingKept DEF HandlerFrame
  <2> QED
    BY <2>3, <2>5
<1>2. CASE ImsCrash
  <2>1. /\ UNCHANGED <<items, wid, links, metric>>
        /\ \A s \in Signals : \/ stage'[s] = stage[s]
                              \/ stage'[s] = "lost" /\ stage[s] # "processed"
    BY <1>2 DEF ImsCrash, DropTasks, storeVars, sinkVars, InMemory, Active, Calls
  <2>2. OnceIInv'
    BY <2>1, OnceQuiet DEF OnceIInv, OnceOK
  <2>3. CeilingIInv'
    BY <1>0, <2>1, CeilingKept DEF Settled
  <2> QED
    BY <2>2, <2>3
<1> QED
  BY <1>1, <1>2

(***************************************************************************)
(* While no acknowledgement is lost the counts come out exact beside any   *)
(* operators: a close under the workers' hands, which ends the window and  *)
(* lets the next signal open another work item, counts nobody twice and    *)
(* leaves nobody out.                                                      *)
(***************************************************************************)
THEOREM ImsCountsHold ==
  ASSUME IsFiniteSet(Signals), NothingLost
  PROVE  ImsSpec => [](ProcessedOnce /\ CountsSettle)
<1>0. IsFiniteSet(Signals) /\ NothingLost
  OBVIOUS
<1>1. ImsInit => OnceIInv /\ CeilingIInv
  <2> SUFFICES ASSUME ImsInit PROVE OnceIInv /\ CeilingIInv
    OBVIOUS
  <2>1. Init /\ \A c : ProcessedOf(c) = {}
    BY DEF ImsInit, Init, ProcessedOf
  <2>2. OnceIInv
    BY <2>1, FS_EmptySet DEF Init, OnceIInv, OnceOK
  <2>3. CeilingIInv
    BY <2>1 DEF Init, StoresInit, CeilingIInv
  <2> QED
    BY <2>2, <2>3
<1>2. ImsIInv /\ OnceIInv /\ CeilingIInv /\ [ImsNext]_imsVars => OnceIInv' /\ CeilingIInv'
  <2> SUFFICES ASSUME ImsIInv, OnceIInv, CeilingIInv, [ImsNext]_imsVars
               PROVE  OnceIInv' /\ CeilingIInv'
    OBVIOUS
  <2>1. PipelineIInv
    BY DEF ImsIInv
  <2>2. CASE [Next]_vars
    BY <1>0, <2>1, <2>2, OnceNext, CeilingNext
  <2>3. [Next]_vars \/ (\E o \in Operators : Handle(o)) \/ ImsCrash
    BY DEF ImsNext, Next, Dequeue, Process, ExpireDedup, imsVars
  <2> QED
    BY <1>0, <2>2, <2>3, CountsAroundHandlers
<1>3. ImsIInv /\ OnceIInv => ProcessedOnce
  BY DEF OnceIInv, OnceOK, ProcessedOnce, ProcessedOf
<1>4. ImsIInv /\ CeilingIInv /\ CountCoversLinks /\ ProcessedOnce => CountsSettle
  BY <1>0, CountsMeet DEF ImsIInv
<1>5. ImsSpec => []CountCoversLinks
  BY <1>0, ImsCountCoversLinksHolds
<1> QED
  BY <1>1, <1>2, <1>3, <1>4, <1>5, ImsInvariance, PTL DEF ImsSpec

-----------------------------------------------------------------------------
(***************************************************************************)
(* One operator beside the workers.                                        *)
(***************************************************************************)

\* A call of a worker inserts one new row or leaves all that WorkItem shows
\* of the rows alone.
LEMMA WorkerRows ==
  ASSUME PipelineIInv, NEW s \in Signals, ProcessOne(s)
  PROVE  \/ items' = Append(items, NewItem(CompOf[s]))
         \/ UNCHANGED TableOf
<1>1. UNCHANGED items => UNCHANGED TableOf
  BY DEF TableOf
<1>2. CASE Increment(s)
  <2>1. /\ wid[s] \in 1 .. Len(items) /\ DOMAIN items = 1 .. Len(items)
        /\ \A i \in 1 .. Len(items) : items[i] \in Item
    BY <1>2 DEF PipelineIInv, SignalOK, WithItem, Increment, TypeOK, StoresTypeOK
  <2>2. UNCHANGED items \/ items' = [items EXCEPT ![wid[s]].count = @ + 1]
    BY <1>2 DEF Increment
  <2>3. ASSUME items' = [items EXCEPT ![wid[s]].count = @ + 1]
        PROVE  UNCHANGED TableOf
    <3>1. DOMAIN items' = DOMAIN items
      BY <2>3
    <3>2. \A i \in DOMAIN items : /\ items'[i].state = items[i].state
                                  /\ items'[i].rca = items[i].rca
                                  /\ items'[i].ended = items[i].ended
      BY <2>1, <2>3 DEF Item
    <3> QED
      BY <3>1, <3>2 DEF TableOf
  <2> QED
    BY <1>1, <2>2, <2>3
<1>3. CASE InsertItem(s)
  BY <1>1, <1>3 DEF InsertItem
<1>4. CASE \/ InsertRaw(s) \/ Claim(s) \/ Publish(s) \/ PushFeed(s) \/ Alert(s)
           \/ Lookup(s) \/ Overwrite(s) \/ AddLink(s) \/ Backfill(s) \/ UpsertMetric(s)
  BY <1>1, <1>4 DEF InsertRaw, Claim, Publish, PushFeed, Alert, Lookup, Overwrite, AddLink,
     Backfill, UpsertMetric, storeVars
<1> QED
  BY <1>2, <1>3, <1>4 DEF ProcessOne

\* Every step of the backend is one of WorkItem's or none.
LEMMA SoloImsNext ==
  ImsIInv /\ SoloIInv /\ Alone /\ [ImsNext]_imsVars => SoloIInv' /\ [Abstract!Next]_TableOf
<1> SUFFICES ASSUME ImsIInv, SoloIInv, Alone, [ImsNext]_imsVars
             PROVE  SoloIInv' /\ [Abstract!Next]_TableOf
  OBVIOUS
<1>0. PipelineIInv /\ ApiIInv'
  BY ImsNextInv DEF ImsIInv
<1>1. ASSUME NEW o \in Operators, Handle(o) PROVE SoloIInv' /\ [Abstract!Next]_TableOf
  BY <1>0, <1>1, SoloHandler DEF Handle
<1>2. ASSUME NEW s \in Signals, Process(s) PROVE SoloIInv' /\ [Abstract!Next]_TableOf
  <2>1. UNCHANGED req /\ CompOf[s] \in Components
    BY <1>2, PipelineAssumption DEF Process
  <2>2. items' = Append(items, NewItem(CompOf[s])) \/ UNCHANGED TableOf
    BY <1>0, <1>2, WorkerRows DEF Process
  <2> QED
    BY <1>0, <2>1, <2>2, SoloOpen, SoloStutter
<1>3. ASSUME UNCHANGED <<items, req>> PROVE SoloIInv' /\ [Abstract!Next]_TableOf
  <2>1. UNCHANGED TableOf
    BY <1>3 DEF TableOf
  <2> QED
    BY <1>0, <1>3, <2>1, SoloStutter
<1>4. CASE ImsCrash
  <2>1. UNCHANGED items /\ \A o \in Operators : req'[o].at = "idle"
    BY <1>4 DEF ImsCrash, DropRequests, NoRequest, storeVars
  <2> QED
    BY <1>0, <2>1 DEF SoloIInv, EndedIffClosed, UpToDate, TableOf
<1>5. ASSUME NEW s \in Signals, (Accept(s) \/ Take(s)) /\ UNCHANGED req
      PROVE  UNCHANGED <<items, req>>
  BY <1>5 DEF Accept, Take, storeVars
<1>6. ASSUME NEW c \in Components, ExpireDedup(c) PROVE UNCHANGED <<items, req>>
  BY <1>6 DEF ExpireDedup, Expire, ExpireKey
<1>7. UNCHANGED imsVars => UNCHANGED <<items, req>>
  BY DEF imsVars, vars, storeVars
<1> QED
  BY <1>1, <1>2, <1>3, <1>4, <1>5, <1>6, <1>7 DEF ImsNext, Dequeue

\* No row is there in the first state.
LEMMA SoloImsInit == ImsInit => SoloIInv /\ Abstract!Init
<1>1. ImsInit => ApiIInv
  BY ImsInitInv DEF ImsIInv
<1> QED
  BY <1>1 DEF ImsInit, Init, StoresInit, ApiInit, SoloIInv, EndedIffClosed, UpToDate,
     NoRequest, Abstract!Init, TableOf

(***************************************************************************)
(* With one operator, whatever the workers do at the same time, what a     *)
(* handler has read stays true until it writes.                            *)
(***************************************************************************)
THEOREM SoloImsInvariance ==
  ASSUME Alone
  PROVE  ImsSpec => [](ImsIInv /\ SoloIInv)
<1>0. Alone
  OBVIOUS
<1>1. SoloIInv /\ ImsIInv /\ [ImsNext]_imsVars => SoloIInv'
  BY <1>0, SoloImsNext
<1> QED
  BY <1>1, ImsInvariance, SoloImsInit, PTL DEF ImsSpec

(***************************************************************************)
(* The whole backend implements WorkItem for one operator: the table of    *)
(* work items changes one legal step at a time, although workers and       *)
(* handlers write it call by call, fail, retry and die.                    *)
(***************************************************************************)
THEOREM ImsImplementsWorkItem ==
  ASSUME Alone
  PROVE  ImsSpec => ImplementsWorkItem
<1>0. Alone
  OBVIOUS
<1>1. ImsIInv /\ SoloIInv /\ [ImsNext]_imsVars => [Abstract!Next]_TableOf
  BY <1>0, SoloImsNext
<1>2. ImsSpec => [](ImsIInv /\ SoloIInv)
  BY <1>0, SoloImsInvariance
<1> QED
  BY <1>1, <1>2, SoloImsInit, PTL DEF ImsSpec, ImplementsWorkItem, Abstract!Spec

(***************************************************************************)
(* For one operator an end time marks exactly the closed work items, and   *)
(* no step of the backend, a worker's included, reopens one.               *)
(***************************************************************************)
THEOREM ImsClosedForGood ==
  ASSUME Alone
  PROVE  ImsSpec => []EndedIffClosed /\ ClosedIsTerminal
<1>0. Alone
  OBVIOUS
<1>1. ImsIInv /\ SoloIInv /\ [ImsNext]_imsVars =>
        [\A i \in DOMAIN items : items[i].state = "CLOSED" => items'[i].state = "CLOSED"]_items
  BY <1>0, SoloImsNext, ClosedStays
<1>2. ImsSpec => [](ImsIInv /\ SoloIInv)
  BY <1>0, SoloImsInvariance
<1>3. SoloIInv => EndedIffClosed
  BY DEF SoloIInv
<1> QED
  BY <1>1, <1>2, <1>3, PTL DEF ImsSpec, ClosedIsTerminal

-----------------------------------------------------------------------------
(***************************************************************************)
(* The windows of closed work items, with every fault at once.             *)
(***************************************************************************)

\* A worker writes only its component's key, and moves on when it does; it
\* stands at the publication only with a work item it has just inserted.
LEMMA WorkerKeys ==
  ASSUME PipelineIInv, NEW s \in Signals, ProcessOne(s)
  PROVE  /\ \A d \in Components :
              \/ dedup'[d] = dedup[d]
              \/ /\ d = CompOf[s] /\ stage'[s] # stage[s]
                 /\ \/ stage[s] = "claim" /\ dedup'[d] = Pending(s)
                    \/ /\ dedup'[d] = ItemKey(wid[s])
                       /\ \/ stage[s] = "overwrite"
                          \/ stage[s] = "publish" /\ dedup[d] # NoKey
         /\ stage'[s] = "publish" => wid'[s] = Len(items) + 1
<1> DEFINE c == CompOf[s]
<1>0. /\ TypeOK /\ c \in Components /\ dedup \in [Components -> DedupKey]
      /\ wid \in [Signals -> 0 .. Len(items)]
  BY PipelineAssumption DEF PipelineIInv, TypeOK, StoresTypeOK
<1>1. CASE Claim(s)
  <2>1. dedup' = [dedup EXCEPT ![c] = Pending(s)] \/ UNCHANGED dedup
    BY <1>1 DEF Claim
  <2>2. stage[s] = "claim" /\ stage'[s] \in {"create", "lookup", "failed"}
    BY <1>0, <1>1, OnceStep DEF Claim, Stages, Calls
  <2> QED
    BY <1>0, <2>1, <2>2
<1>2. CASE Publish(s) \/ Overwrite(s)
  <2>1. \/ UNCHANGED dedup
        \/ /\ dedup' = [dedup EXCEPT ![c] = ItemKey(wid[s])]
           /\ stage[s] = "overwrite" \/ (stage[s] = "publish" /\ dedup[c] # NoKey)
    BY <1>2 DEF Publish, Overwrite
  <2>2. stage[s] \in {"publish", "overwrite"} /\ stage'[s] \in {"feed", "link", "failed"}
    BY <1>0, <1>2, OnceStep DEF Publish, Overwrite, Stages, Calls
  <2> QED
    BY <1>0, <2>1, <2>2
<1>3. CASE InsertItem(s)
  <2>1. PICK r \in PgReplies :
          /\ wid' = IF r.err = "none" THEN [wid EXCEPT ![s] = Len(items) + 1] ELSE wid
          /\ Retried(s, r.err, IF stage[s] = "create" THEN "publish" ELSE "overwrite")
    BY <1>3 DEF InsertItem
  <2>2. stage[s] \in {"create", "recreate"} /\ UNCHANGED dedup
    BY <1>3 DEF InsertItem
  <2>3. stage'[s] = "publish" => r.err = "none"
    BY <1>0, <2>1, <2>2, RetriedStep DEF Stages, Calls
  <2> QED
    BY <1>0, <2>1, <2>2, <2>3
<1>4. CASE Alert(s) \/ Backfill(s) \/ Lookup(s)
  <2>1. UNCHANGED dedup
    BY <1>4 DEF Alert, Backfill, Lookup, storeVars
  <2>2. stage'[s] # "publish"
    <3>1. CASE Lookup(s)
      BY <1>0, <3>1, OnceStep DEF Lookup, Stages, Calls
    <3> QED
      BY <1>0, <1>4, <3>1 DEF Alert, Backfill, TypeOK
  <2> QED
    BY <2>1, <2>2
<1>5. CASE InsertRaw(s) \/ PushFeed(s) \/ Increment(s) \/ AddLink(s) \/ UpsertMetric(s)
  <2>1. PICK next \in {"claim", "alert", "link", "backfill", "processed"} :
          \E err : Retried(s, err, next)
    BY <1>5 DEF InsertRaw, PushFeed, Increment, AddLink, UpsertMetric
  <2>2. stage[s] # "publish" /\ UNCHANGED dedup
    BY <1>5 DEF InsertRaw, PushFeed, Increment, AddLink, UpsertMetric, storeVars
  <2>3. stage'[s] # "publish"
    BY <1>0, <2>1, <2>2, RetriedStep DEF Stages, Calls, Settled
  <2> QED
    BY <2>2, <2>3
<1> QED
  BY <1>1, <1>2, <1>3, <1>4, <1>5 DEF ProcessOne

\* A handler changes a state only by its write; one that closes goes on with
\* the close, gives it up, or ends it by clearing the key.
LEMMA HandlerCloses ==
  ASSUME ApiTypeOK, NEW o \in Operators, HandleRequest(o)
  PROVE  /\ \A p \in Operators \ {o} : req'[p] = req[p]
         /\ \A i \in 1 .. Len(items) :
              \/ items'[i].state = items[i].state
              \/ /\ req[o].at = "write" /\ req[o].item = i
                 /\ items'[i].state = req[o].target
         /\ Closing(req[o]) =>
              \/ Closing(req'[o]) /\ req'[o].item = req[o].item
              \/ GaveUp(o)
              \/ dedup' = [dedup EXCEPT ![items[req[o].item].comp] = NoKey]
<1>0. /\ \A j \in 1 .. Len(items) : items[j] \in Item
      /\ DOMAIN items = 1 .. Len(items)
      /\ req \in [Operators -> Request]
      /\ req[o].at # "idle" => req[o].item \in 1 .. Len(items)
  BY DEF ApiTypeOK, StoresTypeOK
<1>1. \A p \in Operators \ {o} : req'[p] = req[p]
  BY <1>0 DEF HandleRequest, Serve, ReadItem, SubmitRca, View, Gate, Write, Scan, Unfeed,
     Undedup, Reread, Render, SelectRca, SaveRca, GoTo, Answer, Fail
<1>2. ASSUME NEW call, GoTo(o, call)
      PROVE  /\ req'[o].at = call /\ req'[o].item = req[o].item
             /\ req'[o].target = req[o].target
  BY <1>0, <1>2 DEF GoTo, Request
<1>3. \A r \in PgReplies \cup StoreReplies :
        /\ r.err # "none" => Failures # {}
        /\ r.err = "none" => r.applied
  BY RetryAssumption DEF PgReplies, StoreReplies, Ok
<1>4. CASE Write(o)
  <2>1. PICK j, target : j = req[o].item /\ target = req[o].target
    OBVIOUS
  <2>2. j \in 1 .. Len(items) /\ req[o].at = "write"
    BY <1>0, <1>4, <2>1 DEF Write
  <2>3. PICK r \in PgReplies :
          /\ items' = IF r.applied THEN [items EXCEPT ![j] = Updated(items[j], target)]
                      ELSE items
          /\ IF r.err # "none" THEN Fail(o, r.err, "write")
             ELSE GoTo(o, IF target = "CLOSED" THEN "scan" ELSE "fresh")
    BY <1>4, <2>1 DEF Write
  <2>4. Updated(items[j], target).state = target
    BY <1>0, <2>2 DEF Updated, Item
  <2>5. \A k \in 1 .. Len(items) :
          items'[k].state = items[k].state \/ (k = j /\ items'[k].state = target)
    BY <1>0, <2>2, <2>3, <2>4
  <2>6. ASSUME target = "CLOSED"
        PROVE  (Closing(req'[o]) /\ req'[o].item = j) \/ GaveUp(o)
    <3>1. Closing(req[o])
      BY <2>1, <2>2, <2>6 DEF Closing
    <3>2. CASE r.err = "none"
      BY <1>2, <2>1, <2>3, <2>6, <3>2 DEF Closing, CleanUp
    <3>3. CASE r.err # "none"
      <4>1. Moves(o, {"write"}) /\ Failures # {}
        BY <1>0, <1>3, <2>3, <3>3, HandlerMoves
      <4>2. \/ req'[o] = NoRequest
            \/ req'[o].at = "write" /\ req'[o].item = j /\ req'[o].target = target
        BY <2>1, <4>1 DEF Moves
      <4> QED
        BY <2>1, <2>6, <3>1, <4>1, <4>2 DEF GaveUp, Closing, NoRequest, CleanUp
    <3> QED
      BY <3>2, <3>3
  <2>7. Closing(req[o]) => target = "CLOSED"
    BY <2>1, <2>2 DEF Closing, CleanUp
  <2> QED
    BY <1>1, <2>1, <2>2, <2>5, <2>6, <2>7
<1>5. CASE Scan(o) \/ Unfeed(o)
  <2>1. PICK r \in StoreReplies, call \in {"unfeed", "undedup", "fresh"} :
          GoTo(o, call) /\ (call = "fresh" => r.err # "none")
    BY <1>5 DEF Scan, Unfeed
  <2>2. UNCHANGED items /\ Closing(req[o])
    BY <1>5 DEF Scan, Unfeed, storeVars, Closing, CleanUp
  <2>3. req'[o].at = call /\ req'[o].item = req[o].item
    BY <1>2, <2>1
  <2>4. call = "fresh" => ~Closing(req'[o]) /\ Failures # {}
    BY <1>3, <2>1, <2>3 DEF Closing, CleanUp
  <2> QED
    BY <1>1, <2>1, <2>2, <2>3, <2>4 DEF GaveUp, Closing, CleanUp
<1>6. CASE Undedup(o)
  <2>1. PICK r \in StoreReplies :
          dedup' = IF r.applied THEN [dedup EXCEPT ![items[req[o].item].comp] = NoKey] ELSE dedup
    BY <1>6 DEF Undedup
  <2>2. UNCHANGED items /\ GoTo(o, "fresh") /\ Closing(req[o])
    BY <1>6 DEF Undedup, Closing, CleanUp
  <2>3. ~Closing(req'[o])
    BY <1>2, <2>2 DEF Closing, CleanUp
  <2> QED
    BY <1>1, <1>3, <2>1, <2>2, <2>3 DEF GaveUp
<1>7. CASE SaveRca(o)
  <2>1. req[o].item \in 1 .. Len(items) /\ ~Closing(req[o])
    BY <1>0, <1>7 DEF SaveRca, CleanUp, Closing
  <2>2. UNCHANGED items \/ items' = [items EXCEPT ![req[o].item].rca = req[o].body]
    BY <1>7 DEF SaveRca
  <2>3. \A j \in 1 .. Len(items) : items'[j].state = items[j].state
    BY <1>0, <2>1, <2>2 DEF Item
  <2> QED
    BY <1>1, <2>1, <2>3
<1>8. CASE \/ ReadItem(o) \/ SubmitRca(o) \/ View(o) \/ Gate(o) \/ Reread(o)
           \/ SelectRca(o) \/ Render(o)
  <2>1. UNCHANGED items /\ ~Closing(req[o])
    BY <1>8 DEF ReadItem, SubmitRca, View, Gate, Reread, SelectRca, Render, Closing, CleanUp,
       storeVars
  <2> QED
    BY <1>1, <2>1
<1> QED
  BY <1>4, <1>5, <1>6, <1>7, <1>8 DEF HandleRequest, Serve

\* A component whose window is left with a closed work item, and why.
Cause(c) == \/ ImsCrash
            \/ \E o \in Operators : GaveUp(o) /\ items[req[o].item].comp = c
            \/ \E s \in Signals : /\ stage'[s] # stage[s] /\ CompOf[s] = c
                                  /\ WroteAnyway(s)
LeftForCause == \A c \in Components : LeftBehind(c)' /\ ~LeftBehind(c) => Cause(c)

\* The work item of a window is a row of the component.
LEMMA WindowRow ==
  ASSUME PipelineIInv, NEW c \in Components, NEW i \in DOMAIN items, WindowOf(c, i),
         HeldKeys
  PROVE  items[i].comp = c
<1>1. CASE dedup[c] = ItemKey(i)
  BY <1>1 DEF PipelineIInv, KeysOwnItems, ItemKey
<1>2. ASSUME NEW s \in Signals, stage[s] = "publish", wid[s] = i, dedup[c] = Pending(s)
      PROVE  items[i].comp = c
  <2>1. CompOf[s] = c
    BY <1>2 DEF HeldKeys
  <2> QED
    BY <1>2, <2>1 DEF PipelineIInv, SignalOK, WithItem
<1> QED
  BY <1>1, <1>2 DEF WindowOf

\* A worker leaves a window behind only by a key it does not own any more.
LEMMA WorkerLeaves ==
  ASSUME ImsIInv, HolderIInv, NEW s \in Signals, Process(s)
  PROVE  LeftForCause
<1> SUFFICES ASSUME NEW c \in Components, LeftBehind(c)', ~LeftBehind(c) PROVE Cause(c)
  BY DEF LeftForCause
<1>0. /\ PipelineIInv /\ ProcessOne(s) /\ UNCHANGED req /\ ItemsOnlyAdded
      /\ DOMAIN items = 1 .. Len(items) /\ DOMAIN items' = 1 .. Len(items')
      /\ Len(items) \in Nat /\ Len(items') \in Nat
      /\ stage[s] \in Calls
      /\ \A t \in Signals \ {s} : stage'[t] = stage[t] /\ wid'[t] = wid[t]
  <2>1. PipelineIInv /\ ProcessOne(s) /\ UNCHANGED req
    BY DEF ImsIInv, Process
  <2>2. PipelineIInv'
    BY <2>1, PipelineNextInv DEF Next
  <2>3. StoresTypeOK /\ StoresTypeOK'
    BY <2>1, <2>2 DEF PipelineIInv, TypeOK
  <2> QED
    BY <2>1, <2>3, WorkerFrames, OneSignalMoves DEF StoresTypeOK
<1>1. PICK i \in DOMAIN items' :
        WindowOf(c, i)' /\ items'[i].state = "CLOSED" /\ ~CloseUnderWay(i)'
  BY DEF LeftBehind
<1>2. i \in 1 .. Len(items) /\ items[i].state = "CLOSED"
  BY <1>0, <1>1 DEF ItemsOnlyAdded
<1>3. ~CloseUnderWay(i)
  BY <1>0, <1>1 DEF CloseUnderWay
<1>4. ~WindowOf(c, i)
  BY <1>0, <1>2, <1>3 DEF LeftBehind
<1>5. /\ \/ dedup'[c] = dedup[c]
         \/ /\ c = CompOf[s] /\ stage'[s] # stage[s]
            /\ \/ stage[s] = "claim" /\ dedup'[c] = Pending(s)
               \/ /\ dedup'[c] = ItemKey(wid[s])
                  /\ stage[s] = "overwrite" \/ (stage[s] = "publish" /\ dedup[c] # NoKey)
      /\ stage'[s] = "publish" => wid'[s] = Len(items) + 1
  BY <1>0, WorkerKeys
<1>6. ASSUME NEW t \in Signals, stage'[t] = "publish", wid'[t] = i, dedup'[c] = Pending(t)
      PROVE  FALSE
  <2>1. t # s
    BY <1>0, <1>2, <1>5, <1>6
  <2>2. stage[t] = "publish" /\ wid[t] = i
    BY <1>0, <1>6, <2>1
  <2>3. dedup[c] = Pending(t)
    BY <1>5, <1>6, <2>1, KeyKinds
  <2> QED
    BY <1>4, <2>2, <2>3 DEF WindowOf
<1>7. dedup'[c] = ItemKey(i)
  BY <1>1, <1>6 DEF WindowOf
<1>8. dedup'[c] # dedup[c]
  BY <1>4, <1>7 DEF WindowOf
<1>9. /\ c = CompOf[s] /\ stage'[s] # stage[s] /\ ItemKey(i) = ItemKey(wid[s])
      /\ stage[s] = "overwrite" \/ (stage[s] = "publish" /\ dedup[c] # NoKey)
  BY <1>5, <1>7, <1>8, KeyKinds
<1>10. wid[s] = i
  BY <1>9 DEF ItemKey
<1>11. stage[s] = "publish" => dedup[c] # Pending(s)
  BY <1>4, <1>10 DEF WindowOf
<1> QED
  BY <1>9, <1>11 DEF Cause, WroteAnyway

\* A handler leaves a window behind only by giving its clean-up up.
LEMMA HandlerLeaves ==
  ASSUME ImsIInv, HolderIInv, NEW o \in Operators, Handle(o)
  PROVE  LeftForCause
<1> SUFFICES ASSUME NEW c \in Components, LeftBehind(c)', ~LeftBehind(c) PROVE Cause(c)
  BY DEF LeftForCause
<1>0. /\ PipelineIInv /\ ApiTypeOK /\ HandleRequest(o) /\ UNCHANGED <<stage, wid>>
      /\ DOMAIN items = 1 .. Len(items) /\ DOMAIN items' = 1 .. Len(items)
      /\ dedup \in [Components -> DedupKey] /\ HeldKeys
      /\ HandlerFrame(o)
  <2>1. PipelineIInv /\ ApiTypeOK /\ HandleRequest(o) /\ UNCHANGED <<stage, wid>>
    BY DEF ImsIInv, ApiIInv, Handle, localVars
  <2>2. StoresTypeOK /\ StoresTypeOK'
    BY <2>1, HandlerType DEF ApiTypeOK
  <2>3. HandlerFrame(o)
    BY <2>1, HandlerFrames
  <2> QED
    BY <2>1, <2>2, <2>3 DEF StoresTypeOK, HandlerFrame, HolderIInv
<1>1. PICK i \in DOMAIN items' :
        WindowOf(c, i)' /\ items'[i].state = "CLOSED" /\ ~CloseUnderWay(i)'
  BY DEF LeftBehind
<1>2. i \in 1 .. Len(items)
  BY <1>0, <1>1
<1>3. dedup'[c] # NoKey
  BY <1>1, KeyKinds DEF WindowOf
<1>4. dedup'[c] = dedup[c]
  BY <1>0, <1>3 DEF HandlerFrame
<1>5. WindowOf(c, i)
  BY <1>0, <1>1, <1>4 DEF WindowOf
<1>6. items[i].comp = c
  BY <1>0, <1>2, <1>5, WindowRow
<1>7. /\ \A p \in Operators \ {o} : req'[p] = req[p]
      /\ \/ items'[i].state = items[i].state
         \/ req[o].at = "write" /\ req[o].item = i /\ items'[i].state = req[o].target
      /\ Closing(req[o]) => \/ Closing(req'[o]) /\ req'[o].item = req[o].item
                            \/ GaveUp(o)
                            \/ dedup' = [dedup EXCEPT ![items[req[o].item].comp] = NoKey]
  BY <1>0, <1>2, HandlerCloses
<1>8. items[i].state # "CLOSED" \/ CloseUnderWay(i)
  BY <1>0, <1>2, <1>5 DEF LeftBehind
<1>9. Closing(req[o]) /\ req[o].item = i
  <2>1. CASE items[i].state # "CLOSED"
    BY <1>1, <1>7, <2>1 DEF Closing
  <2>2. CASE CloseUnderWay(i)
    BY <1>1, <1>7, <2>2 DEF CloseUnderWay
  <2> QED
    BY <1>8, <2>1, <2>2
<1>10. ~(Closing(req'[o]) /\ req'[o].item = i)
  BY <1>1 DEF CloseUnderWay
<1>11. dedup' # [dedup EXCEPT ![c] = NoKey]
  BY <1>0, <1>3
<1>12. GaveUp(o)
  BY <1>6, <1>7, <1>9, <1>10, <1>11
<1> QED
  BY <1>6, <1>9, <1>12 DEF Cause

\* Nothing else leaves one behind, save the death of the process.
LEMMA StepLeaves == ImsIInv /\ HolderIInv /\ [ImsNext]_imsVars => LeftForCause
<1> SUFFICES ASSUME ImsIInv, HolderIInv, [ImsNext]_imsVars PROVE LeftForCause
  OBVIOUS
<1>0. dedup \in [Components -> DedupKey] /\ stage \in [Signals -> Stages]
  BY DEF ImsIInv, PipelineIInv, TypeOK, StoresTypeOK
\* A step that may only free keys and moves nobody to or from the publication.
<1>1. ASSUME UNCHANGED <<items, wid, req>>,
             \A d \in Components : dedup'[d] \in {dedup[d], NoKey},
             \A s \in Signals : stage'[s] = "publish" => stage[s] = "publish"
      PROVE  LeftForCause
  <2> SUFFICES ASSUME NEW c \in Components, LeftBehind(c)' PROVE LeftBehind(c)
    BY DEF LeftForCause
  <2>1. PICK i \in DOMAIN items :
          WindowOf(c, i)' /\ items[i].state = "CLOSED" /\ ~CloseUnderWay(i)'
    BY <1>1 DEF LeftBehind
  <2>2. dedup'[c] = dedup[c]
    BY <1>1, <2>1, KeyKinds DEF WindowOf
  <2>3. WindowOf(c, i) /\ ~CloseUnderWay(i)
    BY <1>1, <2>1, <2>2 DEF WindowOf, CloseUnderWay
  <2> QED
    BY <2>1, <2>3 DEF LeftBehind
<1>2. ASSUME NEW s \in Signals, (Accept(s) \/ Take(s)) /\ UNCHANGED req PROVE LeftForCause
  BY <1>0, <1>1, <1>2 DEF Accept, Take, storeVars
<1>3. ASSUME NEW d \in Components, ExpireDedup(d) PROVE LeftForCause
  BY <1>0, <1>1, <1>3 DEF ExpireDedup, Expire, ExpireKey, localVars
<1>4. CASE ImsCrash
  BY <1>4 DEF LeftForCause, Cause
<1>5. CASE UNCHANGED imsVars
  BY <1>1, <1>5 DEF imsVars, vars, storeVars, localVars
<1> QED
  BY <1>2, <1>3, <1>4, <1>5, WorkerLeaves, HandlerLeaves DEF ImsNext, Dequeue

(***************************************************************************)
(* A close gives the window of its work item back, wherever it falls       *)
(* between the workers' calls and for any workers and operators: what      *)
(* leaves a window with a closed work item is the death of the process, a  *)
(* clean-up given up, or a worker's write of a key it lost.                *)
(***************************************************************************)
THEOREM ClosedWindowForCauseHolds == ImsSpec => ClosedWindowForCause
<1>1. ImsIInv /\ HolderIInv /\ [ImsNext]_imsVars => [LeftForCause]_imsVars
  BY StepLeaves
<1> QED
  BY <1>1, ImsHolderInvariance, PTL DEF ImsSpec, ClosedWindowForCause, LeftForCause, Cause

-----------------------------------------------------------------------------
(***************************************************************************)
(* Creations and moves apart: any workers, operators, failures that did    *)
(* nothing and crashes, while keys live.                                   *)
(***************************************************************************)
OpenOf(c) == {i \in DOMAIN items : items[i].comp = c /\ items[i].state # "CLOSED"}

\* A worker of the component has inserted a row and not yet written its key.
AtOverwrite(c) == \E s \in Signals : stage[s] = "overwrite" /\ CompOf[s] = c

(***************************************************************************)
(* Where there is no key there is no open work item, or its key is about   *)
(* to be written; a worker about to insert finds no open one; a handler    *)
(* has read the state its work item is in, and one that cleans up has left *)
(* the component without an open work item, and is the only one.           *)
(***************************************************************************)
ApartKey(c) == dedup[c] = NoKey => OpenOf(c) = {} \/ AtOverwrite(c)

ApartSignal(s) ==
  /\ stage[s] = "create" => dedup[CompOf[s]] # NoKey /\ OpenOf(CompOf[s]) = {}
  /\ stage[s] = "recreate" => dedup[CompOf[s]] = NoKey /\ OpenOf(CompOf[s]) = {}
  /\ stage[s] = "overwrite" => dedup[CompOf[s]] = NoKey

Cleared(o, c) ==
  /\ OpenOf(c) = {}
  /\ \A s \in Signals : CompOf[s] = c => stage[s] \notin {"create", "recreate"}
  /\ dedup[c] = NoKey => AtOverwrite(c)
  /\ \A p \in Operators \ {o} : req[p].at \in CleanUp => items[req[p].item].comp # c

ApartHandler(o) ==
  /\ req[o].at \in {"gate", "write"} => req[o].seen = items[req[o].item].state
  /\ req[o].at = "write" => req[o].target \in Allowed[req[o].seen]
  /\ req[o].at \in CleanUp => Cleared(o, items[req[o].item].comp)

ApartOK == /\ OneOpenItem
           /\ \A c \in Components : ApartKey(c)
           /\ \A s \in Signals : ApartSignal(s)
           /\ \A o \in Operators : ApartHandler(o)

ApartIInv == ApartOK /\ CreationsApart /\ MovesApart

\* The rows' components and states stay.
RowsAlike == /\ Len(items') = Len(items)
             /\ \A i \in 1 .. Len(items) : /\ items'[i].comp = items[i].comp
                                           /\ items'[i].state = items[i].state

\* What a call of a worker may do while no acknowledgement is lost.
ApartCall(s) ==
  LET c == CompOf[s] IN
  \/ /\ RowsAlike /\ UNCHANGED dedup
     /\ \/ stage'[s] = stage[s]
        \/ stage'[s] \notin Creating /\ (stage[s] = "overwrite" => stage'[s] = "failed")
  \/ /\ stage[s] = "claim" /\ dedup[c] = NoKey /\ stage'[s] = "create"
     /\ UNCHANGED items /\ dedup' = [dedup EXCEPT ![c] = Pending(s)]
  \/ /\ stage[s] = "lookup" /\ dedup[c] = NoKey /\ stage'[s] = "recreate"
     /\ UNCHANGED <<items, dedup>>
  \/ /\ items' = Append(items, NewItem(c)) /\ UNCHANGED dedup
     /\ <<stage[s], stage'[s]>> \in {<<"create", "publish">>, <<"recreate", "overwrite">>}
  \/ /\ stage[s] \in {"publish", "overwrite"} /\ stage'[s] \notin Creating
     /\ UNCHANGED items /\ dedup' = [dedup EXCEPT ![c] = ItemKey(wid[s])]
     /\ stage[s] = "publish" => dedup[c] # NoKey

\* ... and a step of a handler.
ApartMove(o) ==
  LET i == req[o].item  target == req[o].target IN
  \/ /\ RowsAlike /\ UNCHANGED dedup
     /\ \/ req'[o].at \notin Moving
        \/ /\ req'[o].at = "gate" /\ req'[o].item \in 1 .. Len(items)
           /\ req'[o].seen = items[req'[o].item].state
        \/ /\ req[o].at \in {"gate", "write"} /\ req'[o].at = "write"
           /\ req'[o].item = i /\ req'[o].target = target /\ req'[o].seen = req[o].seen
           /\ req[o].at = "gate" => target \in Allowed[req[o].seen]
        \/ req[o].at \in CleanUp /\ req'[o].at \in CleanUp /\ req'[o].item = i
  \/ /\ req[o].at = "write" /\ req'[o].item = i /\ UNCHANGED dedup
     /\ items' = [items EXCEPT ![i] = Updated(items[i], target)]
     /\ req'[o].at = IF target = "CLOSED" THEN "scan" ELSE "fresh"
  \/ /\ req[o].at = "undedup" /\ req'[o].at = "fresh" /\ UNCHANGED items
     /\ dedup' = [dedup EXCEPT ![items[i].comp] = NoKey]

\* Every call of a worker is one of those.
LEMMA ApartCalls ==
  ASSUME PipelineIInv, NothingLost, NEW s \in Signals, ProcessOne(s)
  PROVE  ApartCall(s)
<1> DEFINE c == CompOf[s]
<1>0. /\ TypeOK /\ StoresTypeOK /\ c \in Components /\ dedup \in [Components -> DedupKey]
      /\ \A i \in 1 .. Len(items) : items[i] \in Item
      /\ \A r \in PgReplies \cup StoreReplies : r.applied <=> r.err = "none"
  BY PipelineAssumption, CleanReplies DEF PipelineIInv, TypeOK, StoresTypeOK
<1>1. UNCHANGED items => RowsAlike
  BY DEF RowsAlike
<1>2. CASE Claim(s)
  <2>1. PICK r \in StoreReplies :
          /\ dedup' = IF r.applied /\ dedup[c] = NoKey
                      THEN [dedup EXCEPT ![c] = Pending(s)] ELSE dedup
          /\ Once(s, r.err, IF dedup[c] = NoKey THEN "create" ELSE "lookup")
    BY <1>2 DEF Claim
  <2>2. stage[s] = "claim" /\ UNCHANGED items
    BY <1>2 DEF Claim
  <2>3. \/ r.err = "none" /\ stage'[s] = IF dedup[c] = NoKey THEN "create" ELSE "lookup"
        \/ r.err # "none" /\ stage'[s] = "failed"
    BY <1>0, <2>1, OnceStep DEF Stages, Calls
  <2> QED
    BY <1>0, <1>1, <2>1, <2>2, <2>3 DEF ApartCall, Creating
<1>3. CASE Lookup(s)
  <2>1. PICK r \in StoreReplies :
          Once(s, IF dedup[c].kind = "pending" THEN "other" ELSE r.err,
               IF r.err = "none" /\ dedup[c].kind = "item" THEN "increment" ELSE "recreate")
    BY <1>3 DEF Lookup
  <2>2. stage[s] = "lookup" /\ UNCHANGED <<items, dedup>>
    BY <1>3 DEF Lookup, storeVars
  <2>3. \/ stage'[s] \in {"failed", "increment"}
        \/ /\ stage'[s] = "recreate" /\ dedup[c].kind # "pending"
           /\ dedup[c].kind # "item"
    BY <1>0, <2>1, OnceStep DEF Stages, Calls
  <2>4. stage'[s] = "recreate" => dedup[c] = NoKey
    BY <1>0, <2>3 DEF DedupKey, Pending, ItemKey
  <2> QED
    BY <1>1, <2>2, <2>3, <2>4 DEF ApartCall, Creating
<1>4. CASE InsertItem(s)
  <2>1. PICK r \in PgReplies :
          /\ items' = IF r.applied THEN Append(items, NewItem(CompOf[s])) ELSE items
          /\ Retried(s, r.err, IF stage[s] = "create" THEN "publish" ELSE "overwrite")
    BY <1>4 DEF InsertItem
  <2>2. stage[s] \in {"create", "recreate"} /\ UNCHANGED dedup
    BY <1>4 DEF InsertItem
  <2>3. \/ r.err = "none" /\ stage'[s] = IF stage[s] = "create" THEN "publish" ELSE "overwrite"
        \/ r.err # "none" /\ stage'[s] \in {"failed", stage[s]}
    BY <1>0, <2>1, RetriedStep DEF Stages, Calls
  <2> QED
    BY <1>0, <1>1, <2>1, <2>2, <2>3 DEF ApartCall, Creating
<1>5. CASE Publish(s)
  <2>1. PICK r \in StoreReplies :
          /\ dedup' = IF r.applied /\ dedup[c] # NoKey
                      THEN [dedup EXCEPT ![c] = ItemKey(wid[s])] ELSE dedup
          /\ Once(s, r.err, "feed")
    BY <1>5 DEF Publish
  <2>2. stage[s] = "publish" /\ stage'[s] \in {"feed", "failed"} /\ UNCHANGED items
    BY <1>0, <1>5, <2>1, OnceStep DEF Publish, Stages, Calls
  <2> QED
    BY <1>1, <2>1, <2>2 DEF ApartCall, Creating
<1>6. CASE Overwrite(s)
  <2>1. PICK r \in StoreReplies :
          /\ dedup' = IF r.applied THEN [dedup EXCEPT ![c] = ItemKey(wid[s])] ELSE dedup
          /\ Once(s, r.err, "link")
    BY <1>6 DEF Overwrite
  <2>2. /\ stage[s] = "overwrite" /\ UNCHANGED items
        /\ \/ r.err = "none" /\ stage'[s] = "link"
           \/ r.err # "none" /\ stage'[s] = "failed"
    BY <1>0, <1>6, <2>1, OnceStep DEF Overwrite, Stages, Calls
  <2> QED
    BY <1>0, <1>1, <2>1, <2>2 DEF ApartCall, Creating
<1>7. CASE Alert(s) \/ Backfill(s)
  <2>1. UNCHANGED items /\ UNCHANGED dedup /\ stage[s] # "overwrite"
    BY <1>7 DEF Alert, Backfill, storeVars
  <2>2. stage'[s] \in {"link", "metric"}
    BY <1>0, <1>7 DEF Alert, Backfill, TypeOK
  <2> QED
    BY <1>1, <2>1, <2>2 DEF ApartCall, Creating
<1>8. CASE InsertRaw(s) \/ PushFeed(s) \/ Increment(s) \/ AddLink(s) \/ UpsertMetric(s)
  <2>1. PICK next \in {"claim", "alert", "link", "backfill", "processed"} :
          \E err : Retried(s, err, next)
    BY <1>8 DEF InsertRaw, PushFeed, Increment, AddLink, UpsertMetric
  <2>2. stage[s] # "overwrite" /\ UNCHANGED dedup
    BY <1>8 DEF InsertRaw, PushFeed, Increment, AddLink, UpsertMetric, storeVars
  <2>3. stage'[s] \in {next, "failed", stage[s]}
    BY <1>0, <2>1, RetriedStep DEF Stages, Calls, Settled
  <2>4. RowsAlike
    <3>1. CASE Increment(s)
      <4>1. PICK n : n = wid[s]
        OBVIOUS
      <4>2. n \in 1 .. Len(items)
        BY <3>1, <4>1 DEF Increment, PipelineIInv, SignalOK, WithItem
      <4>3. UNCHANGED items \/ items' = [items EXCEPT ![n].count = @ + 1]
        BY <3>1, <4>1 DEF Increment
      <4>4. ASSUME items' = [items EXCEPT ![n].count = @ + 1] PROVE RowsAlike
        <5>1. Len(items') = Len(items)
          BY <1>0, <4>4 DEF StoresTypeOK
        <5>2. \A i \in 1 .. Len(items) : /\ items'[i].comp = items[i].comp
                                         /\ items'[i].state = items[i].state
          BY <1>0, <4>2, <4>4 DEF StoresTypeOK, Item
        <5> QED
          BY <5>1, <5>2 DEF RowsAlike
      <4> QED
        BY <1>1, <4>3, <4>4
    <3> QED
      BY <1>1, <1>8, <3>1 DEF InsertRaw, PushFeed, AddLink, UpsertMetric, storeVars
  <2> QED
    BY <2>1, <2>2, <2>3, <2>4 DEF ApartCall, Creating
<1> QED
  BY <1>2, <1>3, <1>4, <1>5, <1>6, <1>7, <1>8 DEF ProcessOne

\* Every step of a handler is one of those.
LEMMA ApartMoves ==
  ASSUME ApiTypeOK, NothingLost, NEW o \in Operators, HandleRequest(o)
  PROVE  ApartMove(o) /\ \A p \in Operators \ {o} : req'[p] = req[p]
<1>0. /\ \A j \in 1 .. Len(items) : items[j] \in Item
      /\ DOMAIN items = 1 .. Len(items)
      /\ req \in [Operators -> Request]
      /\ req[o].at # "idle" => req[o].item \in 1 .. Len(items)
      /\ \A r \in PgReplies \cup StoreReplies : r.applied <=> r.err = "none"
  BY CleanReplies DEF ApiTypeOK, StoresTypeOK
<1>1. \A p \in Operators \ {o} : req'[p] = req[p]
  BY <1>0, HandlerCloses
<1>2. UNCHANGED items => RowsAlike
  BY DEF RowsAlike
<1>3. ASSUME NEW call, NEW err, GoTo(o, call) \/ Answer(o) \/ Fail(o, err, call)
      PROVE  \/ req'[o].at = "idle"
             \/ /\ req'[o].at = call /\ req'[o].item = req[o].item
                /\ req'[o].target = req[o].target /\ req'[o].seen = req[o].seen
  <2>1. Moves(o, {call})
    BY <1>0, <1>3, HandlerMoves
  <2> QED
    BY <2>1 DEF Moves, NoRequest
<1>4. ASSUME NEW call, GoTo(o, call) PROVE req'[o].at = call /\ req'[o].item = req[o].item
  BY <1>0, <1>4 DEF GoTo, Request
<1>5. "idle" \notin Moving
  BY DEF Moving, CleanUp
<1>6. CASE ReadItem(o)
  BY <1>0, <1>1, <1>2, <1>6 DEF ReadItem, storeVars, NoRequest, ApartMove
<1>7. CASE Gate(o)
  <2>1. PICK r \in PgReplies :
          IF /\ r.err = "none"
             /\ Transition(req[o].seen, req[o].target, items[req[o].item].rca) = "ok"
          THEN GoTo(o, "write") ELSE Answer(o)
    BY <1>7 DEF Gate
  <2>2. req[o].at = "gate" /\ UNCHANGED items /\ UNCHANGED dedup
    BY <1>7 DEF Gate, storeVars
  <2>3. Transition(req[o].seen, req[o].target, items[req[o].item].rca) = "ok" =>
          req[o].target \in Allowed[req[o].seen]
    BY DEF Transition
  <2>4. CASE Answer(o)
    BY <1>1, <1>2, <1>5, <2>2, <2>4, <1>0 DEF ApartMove, Answer, NoRequest
  <2>5. CASE ~Answer(o)
    <3>1. GoTo(o, "write") /\ req[o].target \in Allowed[req[o].seen]
      BY <2>1, <2>3, <2>5
    <3>2. /\ req'[o].at = "write" /\ req'[o].item = req[o].item
          /\ req'[o].target = req[o].target /\ req'[o].seen = req[o].seen
      BY <1>0, <3>1 DEF GoTo, Request
    <3> QED
      BY <1>1, <1>2, <2>2, <3>1, <3>2 DEF ApartMove
  <2> QED
    BY <2>4, <2>5
<1>8. CASE Write(o)
  <2>1. PICK r \in PgReplies :
          /\ items' = IF r.applied
                      THEN [items EXCEPT ![req[o].item] = Updated(@, req[o].target)] ELSE items
          /\ IF r.err # "none" THEN Fail(o, r.err, "write")
             ELSE GoTo(o, IF req[o].target = "CLOSED" THEN "scan" ELSE "fresh")
    BY <1>8 DEF Write
  <2>2. req[o].at = "write" /\ UNCHANGED dedup
    BY <1>8 DEF Write
  <2>3. CASE r.err = "none"
    BY <1>0, <1>1, <1>4, <2>1, <2>2, <2>3 DEF ApartMove
  <2>4. CASE r.err # "none"
    BY <1>0, <1>1, <1>2, <1>3, <1>5, <2>1, <2>2, <2>4 DEF ApartMove
  <2> QED
    BY <2>3, <2>4
<1>9. CASE Scan(o) \/ Unfeed(o)
  <2>1. PICK call \in {"unfeed", "undedup", "fresh"} : GoTo(o, call)
    BY <1>9 DEF Scan, Unfeed
  <2>2. req[o].at \in CleanUp /\ UNCHANGED items /\ UNCHANGED dedup
    BY <1>9 DEF Scan, Unfeed, storeVars, CleanUp
  <2>3. req'[o].at = call /\ req'[o].item = req[o].item
    BY <1>4, <2>1
  <2> QED
    BY <1>1, <1>2, <2>1, <2>2, <2>3 DEF ApartMove, CleanUp, Moving
<1>10. CASE Undedup(o)
  <2>1. /\ \/ UNCHANGED dedup
           \/ dedup' = [dedup EXCEPT ![items[req[o].item].comp] = NoKey]
        /\ GoTo(o, "fresh") /\ req[o].at = "undedup" /\ UNCHANGED items
    BY <1>10 DEF Undedup
  <2>2. req'[o].at = "fresh"
    BY <1>4, <2>1
  <2> QED
    BY <1>1, <1>2, <2>1, <2>2 DEF ApartMove, Moving, CleanUp
<1>11. CASE SaveRca(o)
  <2>1. req[o].item \in 1 .. Len(items) /\ UNCHANGED dedup
    BY <1>0, <1>11 DEF SaveRca
  <2>2. UNCHANGED items \/ items' = [items EXCEPT ![req[o].item].rca = req[o].body]
    BY <1>11 DEF SaveRca
  <2>3. RowsAlike
    BY <1>0, <1>2, <2>1, <2>2 DEF RowsAlike, Item
  <2>4. \E err : Answer(o) \/ Fail(o, err, "select")
    BY <1>11 DEF SaveRca
  <2>5. req'[o].at \in {"idle", "select"}
    BY <1>3, <2>4
  <2> QED
    BY <1>1, <2>1, <2>3, <2>5 DEF ApartMove, Moving, CleanUp
<1>12. CASE SubmitRca(o) \/ View(o) \/ Reread(o) \/ SelectRca(o) \/ Render(o)
  <2>1. UNCHANGED items /\ UNCHANGED dedup
    BY <1>12 DEF SubmitRca, View, Reread, SelectRca, Render, storeVars
  <2>2. req'[o].at \in {"idle", "render", "select", "save"}
    <3>1. CASE SelectRca(o)
      <4>1. \/ \E err : Fail(o, err, "select")
            \/ req' = [req EXCEPT ![o].at = "save",
                                  ![o].row = items[req[o].item].rca # NoRca]
        BY <3>1 DEF SelectRca
      <4> QED
        BY <1>0, <1>3, <4>1 DEF Request
    <3>2. CASE Reread(o) \/ Render(o)
      BY <1>0, <3>2 DEF Reread, Render, Answer, NoRequest
    <3>3. CASE SubmitRca(o) \/ View(o)
      BY <1>0, <3>3 DEF SubmitRca, View, NoRequest
    <3> QED
      BY <1>12, <3>1, <3>2, <3>3
  <2> QED
    BY <1>1, <1>2, <2>1, <2>2 DEF ApartMove, Moving, CleanUp
<1> QED
  BY <1>6, <1>7, <1>8, <1>9, <1>10, <1>11, <1>12 DEF HandleRequest, Serve

\* What the lemmas below need of the types.
ApartTypes ==
  /\ Len(items) \in Nat /\ DOMAIN items = 1 .. Len(items)
  /\ \A i \in 1 .. Len(items) : items[i] \in Item /\ items[i].comp \in Components
  /\ dedup \in [Components -> DedupKey]
  /\ \A s \in Signals : CompOf[s] \in Components
  /\ \A o \in Operators : req[o].at # "idle" => req[o].item \in 1 .. Len(items)

LEMMA ApartTypesHold == ImsIInv => ApartTypes
<1> SUFFICES ASSUME ImsIInv PROVE ApartTypes
  OBVIOUS
<1>1. StoresTypeOK /\ \A o \in Operators : req[o].at # "idle" => req[o].item \in 1 .. Len(items)
  BY DEF ImsIInv, ApiIInv, ApiTypeOK
<1>2. /\ Len(items) \in Nat /\ DOMAIN items = 1 .. Len(items)
      /\ \A i \in 1 .. Len(items) : items[i] \in Item
      /\ dedup \in [Components -> DedupKey]
  BY <1>1 DEF StoresTypeOK
<1>3. \A i \in 1 .. Len(items) : items[i].comp \in Components
  BY <1>2 DEF Item
<1> QED
  BY <1>1, <1>2, <1>3, PipelineAssumption DEF ApartTypes

\* Rows that are alike have the same open work items.
LEMMA SameOpen ==
  ASSUME ApartTypes, DOMAIN items' = 1 .. Len(items'), RowsAlike
  PROVE  /\ \A c : OpenOf(c)' = OpenOf(c)
         /\ OneOpenItem => OneOpenItem'
BY DEF ApartTypes, RowsAlike, OpenOf, OneOpenItem

\* A step that writes neither rows nor keys, inserts nothing, and moves each
\* handler within what it has read.
LEMMA ApartQuiet ==
  ASSUME ApartTypes, ApartOK, DOMAIN items' = 1 .. Len(items'),
         RowsAlike, UNCHANGED dedup,
         \A s \in Signals : \/ stage'[s] = stage[s]
                            \/ stage'[s] \notin Creating /\ stage[s] # "overwrite",
         \A o \in Operators :
           \/ req'[o] = req[o]
           \/ /\ req'[o].at \in CleanUp =>
                   req[o].at \in CleanUp /\ req'[o].item = req[o].item
              /\ req'[o].at \in {"gate", "write"} =>
                   /\ req'[o].item \in 1 .. Len(items)
                   /\ req'[o].seen = items[req'[o].item].state
              /\ req'[o].at = "write" => req'[o].target \in Allowed[req'[o].seen]
  PROVE  ApartOK'
<1>0. /\ \A c : OpenOf(c)' = OpenOf(c)
      /\ OneOpenItem'
  BY SameOpen DEF ApartOK
<1>1. \A c : AtOverwrite(c) => AtOverwrite(c)'
  BY DEF AtOverwrite, Creating
<1>2. \A c \in Components : ApartKey(c)'
  BY <1>0, <1>1 DEF ApartOK, ApartKey
<1>3. ASSUME NEW s \in Signals PROVE ApartSignal(s)'
  BY <1>0 DEF ApartOK, ApartSignal, Creating
<1>4. \A o \in Operators : req'[o].at \in CleanUp =>
        /\ req[o].at \in CleanUp /\ req'[o].item = req[o].item
        /\ items'[req'[o].item].comp = items[req[o].item].comp
  BY DEF ApartTypes, RowsAlike, CleanUp
<1>5. ASSUME NEW o \in Operators PROVE ApartHandler(o)'
  <2>1. ApartHandler(o)
    BY DEF ApartOK
  <2>2. req'[o].at \in {"gate", "write"} => req'[o].seen = items'[req'[o].item].state
    BY <2>1 DEF ApartTypes, RowsAlike, ApartHandler
  <2>3. req'[o].at = "write" => req'[o].target \in Allowed[req'[o].seen]
    BY <2>1 DEF ApartHandler
  <2>4. ASSUME req'[o].at \in CleanUp PROVE Cleared(o, items[req[o].item].comp)'
    <3>1. PICK c : c = items[req[o].item].comp
      OBVIOUS
    <3>2. Cleared(o, c) /\ items'[req'[o].item].comp = c
      BY <1>4, <2>1, <2>4, <3>1 DEF ApartHandler
    <3>3. Cleared(o, c)'
      BY <1>0, <1>1, <1>4, <3>2 DEF Cleared, Creating
    <3> QED
      BY <3>2, <3>3 DEF Cleared
  <2> QED
    BY <2>2, <2>3, <2>4 DEF ApartHandler
<1> QED
  BY <1>0, <1>2, <1>3, <1>5 DEF ApartOK

\* A worker goes on to insert only where nobody has, or is about to.
LEMMA ApartTakeUp ==
  ASSUME ApartTypes, ApartOK, CreationsApart', NEW s \in Signals,
         UNCHANGED <<items, req>>,
         \A t \in Signals \ {s} : stage'[t] = stage[t],
         dedup[CompOf[s]] = NoKey, stage[s] \in {"claim", "lookup"},
         \/ /\ stage'[s] = "create"
            /\ dedup' = [dedup EXCEPT ![CompOf[s]] = Pending(s)]
         \/ stage'[s] = "recreate" /\ UNCHANGED dedup
  PROVE  ApartOK'
<1> DEFINE c == CompOf[s]
<1>0. /\ c \in Components /\ dedup \in [Components -> DedupKey] /\ Pending(s) # NoKey
      /\ \A d : OpenOf(d)' = OpenOf(d)
      /\ \A d \in Components : d # c => dedup'[d] = dedup[d]
      /\ stage'[s] = "create" => dedup'[c] # NoKey
      /\ stage'[s] = "recreate" => dedup'[c] = NoKey
  BY KeyKinds DEF ApartTypes, OpenOf
<1>1. ASSUME NEW t \in Signals \ {s}, CompOf[t] = c PROVE stage[t] \notin Creating
  <2>1. stage'[t] = stage[t] /\ stage'[s] \in Creating
    BY DEF Creating
  <2> QED
    BY <1>1, <2>1 DEF CreationsApart
<1>2. ~AtOverwrite(c) /\ OpenOf(c) = {}
  BY <1>0, <1>1 DEF AtOverwrite, Creating, ApartOK, ApartKey
<1>3. \A d : AtOverwrite(d) => AtOverwrite(d)'
  BY DEF AtOverwrite
<1>4. \A d \in Components : ApartKey(d)'
  BY <1>0, <1>2, <1>3 DEF ApartOK, ApartKey
<1>5. ASSUME NEW t \in Signals PROVE ApartSignal(t)'
  <2>1. CASE t = s
    BY <1>0, <1>2, <2>1 DEF ApartSignal
  <2>2. CASE t # s /\ CompOf[t] = c
    BY <1>1, <2>2 DEF ApartSignal, Creating
  <2>3. CASE CompOf[t] # c
    BY <1>0, <2>3 DEF ApartSignal, ApartTypes, ApartOK
  <2> QED
    BY <2>1, <2>2, <2>3
<1>6. ASSUME NEW o \in Operators PROVE ApartHandler(o)'
  <2>1. ApartHandler(o)
    BY DEF ApartOK
  <2>2. ASSUME req[o].at \in CleanUp PROVE Cleared(o, items[req[o].item].comp)'
    <3>1. PICK d : d = items[req[o].item].comp
      OBVIOUS
    <3>2. Cleared(o, d) /\ d \in Components
      BY <2>1, <2>2, <3>1 DEF ApartHandler, ApartTypes, CleanUp
    <3>3. d # c
      BY <1>2, <3>2 DEF Cleared
    <3>4. Cleared(o, d)'
      BY <1>0, <1>3, <3>2, <3>3 DEF Cleared
    <3> QED
      BY <3>1, <3>4
  <2> QED
    BY <2>1, <2>2 DEF ApartHandler
<1> QED
  BY <1>4, <1>5, <1>6 DEF ApartOK, OneOpenItem

\* The row a worker inserts is the one open work item of its component.
LEMMA ApartInsert ==
  ASSUME ApartTypes, ApartOK, CreationsApart, StoresTypeOK, NEW s \in Signals,
         items' = Append(items, NewItem(CompOf[s])), UNCHANGED <<dedup, req>>,
         \A t \in Signals \ {s} : stage'[t] = stage[t],
         <<stage[s], stage'[s]>> \in {<<"create", "publish">>, <<"recreate", "overwrite">>}
  PROVE  ApartOK'
<1> DEFINE c == CompOf[s]
           n == Len(items) + 1
<1>0. /\ c \in Components /\ OpenOf(c) = {} /\ n \in Nat
      /\ DOMAIN items = 1 .. Len(items) /\ DOMAIN items' = 1 .. n
      /\ \A i \in 1 .. Len(items) : items'[i] = items[i]
      /\ items'[n].comp = c
      /\ \A i \in 1 .. n : i = n \/ i \in 1 .. Len(items)
      /\ \/ stage[s] = "create" /\ stage'[s] = "publish" /\ dedup[c] # NoKey
         \/ stage[s] = "recreate" /\ stage'[s] = "overwrite" /\ dedup[c] = NoKey
  <2>1. c \in Components /\ StoresTypeOK
    BY DEF ApartTypes
  <2>2. /\ Len(items') = n /\ DOMAIN items' = 1 .. Len(items')
        /\ \A i \in 1 .. Len(items) : items'[i] = items[i]
        /\ items'[n] = NewItem(c)
    BY <2>1, RowInserted
  <2>3. \/ stage[s] = "create" /\ stage'[s] = "publish"
        \/ stage[s] = "recreate" /\ stage'[s] = "overwrite"
    OBVIOUS
  <2>4. ApartSignal(s)
    BY DEF ApartOK
  <2> QED
    BY <2>1, <2>2, <2>3, <2>4 DEF NewItem, ApartSignal, ApartTypes
<1>1. ASSUME NEW t \in Signals \ {s}, CompOf[t] = c PROVE stage[t] \notin Creating
  <2>1. stage[s] \in Creating
    BY <1>0 DEF Creating
  <2> QED
    BY <1>1, <2>1 DEF CreationsApart
<1>2. \A d : d # c => OpenOf(d)' = OpenOf(d)
  BY <1>0 DEF OpenOf
<1>3. OneOpenItem'
  BY <1>0 DEF OneOpenItem, OpenOf, ApartOK
<1>4. \A d : d # c /\ AtOverwrite(d) => AtOverwrite(d)'
  BY DEF AtOverwrite
<1>5. stage'[s] = "overwrite" => AtOverwrite(c)'
  BY DEF AtOverwrite
<1>6. \A d \in Components : ApartKey(d)'
  BY <1>0, <1>2, <1>4, <1>5 DEF ApartOK, ApartKey
<1>7. ASSUME NEW t \in Signals PROVE ApartSignal(t)'
  <2>1. CASE t = s
    BY <1>0, <2>1 DEF ApartSignal
  <2>2. CASE t # s /\ CompOf[t] = c
    BY <1>1, <2>2 DEF ApartSignal, Creating
  <2>3. CASE CompOf[t] # c
    BY <1>2, <2>3 DEF ApartSignal, ApartOK
  <2> QED
    BY <2>1, <2>2, <2>3
<1>8. \A o \in Operators : req[o].at # "idle" => items'[req[o].item] = items[req[o].item]
  BY <1>0 DEF ApartTypes
<1>9. ASSUME NEW o \in Operators PROVE ApartHandler(o)'
  <2>1. ApartHandler(o)
    BY DEF ApartOK
  <2>2. ASSUME req[o].at \in CleanUp PROVE Cleared(o, items[req[o].item].comp)'
    <3>1. PICK d : d = items[req[o].item].comp
      OBVIOUS
    <3>2. Cleared(o, d)
      BY <2>1, <2>2, <3>1 DEF ApartHandler
    <3>3. d # c
      BY <1>0, <3>2 DEF Cleared
    <3>4. \A p \in Operators \ {o} : req[p].at \in CleanUp => items'[req[p].item].comp # d
      BY <1>8, <3>2 DEF Cleared, CleanUp
    <3>5. Cleared(o, d)'
      BY <1>2, <1>4, <3>2, <3>3, <3>4 DEF Cleared
    <3>6. items'[req'[o].item].comp = d
      BY <1>8, <2>2, <3>1 DEF CleanUp
    <3> QED
      BY <3>5, <3>6
  <2>3. req[o].at \in {"gate", "write"} \cup CleanUp => items'[req[o].item] = items[req[o].item]
    BY <1>8 DEF CleanUp
  <2> QED
    BY <2>1, <2>2, <2>3 DEF ApartHandler
<1> QED
  BY <1>3, <1>6, <1>7, <1>9 DEF ApartOK

\* A worker writes the id of its work item where there is a key, or where its
\* row is the open one.
LEMMA ApartWriteKey ==
  ASSUME ApartTypes, ApartOK, CreationsApart, NEW s \in Signals,
         UNCHANGED <<items, req>>,
         \A t \in Signals \ {s} : stage'[t] = stage[t],
         stage[s] \in {"publish", "overwrite"}, stage'[s] \notin Creating,
         dedup' = [dedup EXCEPT ![CompOf[s]] = ItemKey(wid[s])],
         stage[s] = "publish" => dedup[CompOf[s]] # NoKey
  PROVE  ApartOK'
<1> DEFINE c == CompOf[s]
<1>0. /\ c \in Components /\ dedup \in [Components -> DedupKey]
      /\ \A d : OpenOf(d)' = OpenOf(d)
      /\ \A d \in Components : d # c => dedup'[d] = dedup[d]
      /\ dedup'[c] # NoKey
  BY KeyKinds DEF ApartTypes, OpenOf
<1>1. \A d : d # c /\ AtOverwrite(d) => AtOverwrite(d)'
  BY DEF AtOverwrite
<1>2. \A d \in Components : ApartKey(d)'
  BY <1>0, <1>1 DEF ApartOK, ApartKey
<1>3. ASSUME NEW t \in Signals PROVE ApartSignal(t)'
  <2>0. ApartSignal(t) /\ CompOf[t] \in Components
    BY DEF ApartOK, ApartTypes
  <2>1. CASE t = s
    BY <2>1 DEF ApartSignal, Creating
  <2>2. CASE t # s /\ CompOf[t] = c
    <3>1. stage'[t] = stage[t] /\ (stage[t] = "create" => OpenOf(c) = {})
      BY <2>0, <2>2 DEF ApartSignal
    <3>2. stage[t] \notin {"recreate", "overwrite"}
      <4> SUFFICES ASSUME stage[t] \in {"recreate", "overwrite"} PROVE FALSE
        OBVIOUS
      <4>1. stage[s] = "overwrite"
        BY <2>0, <2>2 DEF ApartSignal
      <4> QED
        BY <2>2, <4>1 DEF CreationsApart, Creating
    <3> QED
      BY <1>0, <2>2, <3>1, <3>2 DEF ApartSignal
  <2>3. CASE CompOf[t] # c
    BY <1>0, <2>0, <2>3 DEF ApartSignal
  <2> QED
    BY <2>1, <2>2, <2>3
<1>4. ASSUME NEW o \in Operators PROVE ApartHandler(o)'
  <2>1. ApartHandler(o)
    BY DEF ApartOK
  <2>2. ASSUME req[o].at \in CleanUp PROVE Cleared(o, items[req[o].item].comp)'
    <3>1. PICK d : d = items[req[o].item].comp
      OBVIOUS
    <3>2. Cleared(o, d) /\ d \in Components
      BY <2>1, <2>2, <3>1 DEF ApartHandler, ApartTypes, CleanUp
    <3>3. \A t \in Signals : stage'[t] \in {"create", "recreate"} => stage[t] = stage'[t]
      BY DEF Creating
    <3>4. Cleared(o, d)'
      BY <1>0, <1>1, <3>2, <3>3 DEF Cleared
    <3> QED
      BY <3>1, <3>4
  <2> QED
    BY <2>1, <2>2 DEF ApartHandler
<1> QED
  BY <1>2, <1>3, <1>4 DEF ApartOK, OneOpenItem

\* A handler writes what its gate allowed, on the state it has read: the write
\* opens nothing, and a close closes the one open work item.
LEMMA ApartWrite ==
  ASSUME ApartTypes, ApartOK, MovesApart, NEW o \in Operators,
         \A p \in Operators \ {o} : req'[p] = req[p],
         UNCHANGED <<stage, dedup>>, req[o].at = "write", req'[o].item = req[o].item,
         items' = [items EXCEPT ![req[o].item] = Updated(items[req[o].item], req[o].target)],
         req'[o].at = IF req[o].target = "CLOSED" THEN "scan" ELSE "fresh"
  PROVE  ApartOK'
<1>0. PICK i, c, target : i = req[o].item /\ c = items[i].comp /\ target = req[o].target
  OBVIOUS
<1>1. /\ i \in 1 .. Len(items) /\ DOMAIN items = 1 .. Len(items) /\ DOMAIN items' = DOMAIN items
      /\ c \in Components /\ items[i] \in Item
      /\ items' = [items EXCEPT ![i] = Updated(items[i], target)]
  BY <1>0 DEF ApartTypes
<1>2. items[i].state # "CLOSED"
  <2>1. target \in Allowed[items[i].state] /\ items[i].state \in WorkItemState
    BY <1>0, <1>1 DEF ApartOK, ApartHandler, Item
  <2> QED
    BY <2>1 DEF Allowed, WorkItemState
<1>3. /\ \A j \in DOMAIN items : items'[j].comp = items[j].comp
      /\ \A j \in DOMAIN items : j # i => items'[j].state = items[j].state
      /\ items'[i].state = target
  <2>1. Updated(items[i], target).comp = c /\ Updated(items[i], target).state = target
    BY <1>0, <1>1 DEF Updated, Item
  <2> QED
    BY <1>0, <1>1, <2>1
<1>4. i \in OpenOf(c) /\ \A d : OpenOf(d)' \subseteq OpenOf(d)
  BY <1>0, <1>1, <1>2, <1>3 DEF OpenOf
<1>5. OneOpenItem'
  BY <1>1, <1>2, <1>3 DEF ApartOK, OneOpenItem
<1>6. \A d : AtOverwrite(d)' <=> AtOverwrite(d)
  BY DEF AtOverwrite
<1>7. \A d \in Components : ApartKey(d)'
  BY <1>4, <1>6 DEF ApartOK, ApartKey
<1>8. \A t \in Signals : ApartSignal(t)'
  BY <1>4 DEF ApartOK, ApartSignal
<1>9. ASSUME NEW p \in Operators, p # o PROVE ApartHandler(p)'
  <2>1. ApartHandler(p) /\ req'[p] = req[p]
    BY <1>9 DEF ApartOK
  <2>2. req[p].at # "idle" => req[p].item \in DOMAIN items
    BY <1>1 DEF ApartTypes
  <2>3. req[p].at \in {"gate", "write"} => req[p].item # i
    BY <1>0, <1>9 DEF MovesApart, Moving
  <2>4. ASSUME req[p].at \in CleanUp PROVE Cleared(p, items[req[p].item].comp)'
    <3>1. PICK d : d = items[req[p].item].comp
      OBVIOUS
    <3>2. Cleared(p, d)
      BY <2>1, <2>4, <3>1 DEF ApartHandler
    <3>3. d # c
      BY <1>4, <3>2 DEF Cleared
    <3>4. \A q \in Operators \ {p} : req'[q].at \in CleanUp => items'[req'[q].item].comp # d
      <4> SUFFICES ASSUME NEW q \in Operators \ {p}, req'[q].at \in CleanUp
                   PROVE  items'[req'[q].item].comp # d
        OBVIOUS
      <4>1. CASE q = o
        BY <1>0, <1>1, <1>3, <3>3, <4>1
      <4>2. CASE q # o
        <5>1. req'[q] = req[q] /\ req[q].item \in DOMAIN items
          BY <1>1, <4>2 DEF ApartTypes, CleanUp
        <5> QED
          BY <1>3, <3>2, <5>1 DEF Cleared
      <4> QED
        BY <4>1, <4>2
    <3>5. OpenOf(d)' = {}
      BY <1>4, <3>2 DEF Cleared
    <3>6. Cleared(p, d)'
      BY <1>6, <3>2, <3>4, <3>5 DEF Cleared
    <3>7. items'[req'[p].item].comp = d
      BY <1>3, <2>1, <2>2, <2>4, <3>1 DEF CleanUp
    <3> QED
      BY <3>6, <3>7
  <2>5. req'[p].at \in {"gate", "write"} => req'[p].seen = items'[req'[p].item].state
    BY <1>3, <2>1, <2>2, <2>3 DEF ApartHandler
  <2> QED
    BY <2>1, <2>4, <2>5 DEF ApartHandler
<1>10. ApartHandler(o)'
  <2>1. CASE target # "CLOSED"
    BY <1>0, <2>1 DEF ApartHandler, CleanUp
  <2>2. CASE target = "CLOSED"
    <3>1. OpenOf(c)' = {}
      <4> SUFFICES ASSUME NEW j \in OpenOf(c)' PROVE FALSE
        OBVIOUS
      <4>1. j \in DOMAIN items /\ items[j].comp = c /\ items[j].state # "CLOSED"
        BY <1>4 DEF OpenOf
      <4>2. j = i
        BY <1>0, <1>1, <1>2, <4>1 DEF ApartOK, OneOpenItem
      <4> QED
        BY <1>3, <2>2, <4>2 DEF OpenOf
    <3>2. \A t \in Signals : CompOf[t] = c => stage'[t] \notin {"create", "recreate"}
      BY <1>4 DEF ApartOK, ApartSignal
    <3>3. dedup'[c] = NoKey => AtOverwrite(c)'
      BY <1>1, <1>4, <1>6 DEF ApartOK, ApartKey
    <3>4. \A p \in Operators \ {o} : req'[p].at \in CleanUp => items'[req'[p].item].comp # c
      <4> SUFFICES ASSUME NEW p \in Operators \ {o}, req[p].at \in CleanUp
                   PROVE  items'[req[p].item].comp # c
        OBVIOUS
      <4>1. Cleared(p, items[req[p].item].comp) /\ req[p].item \in DOMAIN items
        BY <1>1 DEF ApartOK, ApartHandler, ApartTypes, CleanUp
      <4>2. items[req[p].item].comp # c
        BY <1>4, <4>1 DEF Cleared
      <4> QED
        BY <1>3, <4>1, <4>2
    <3>5. Cleared(o, c)'
      BY <3>1, <3>2, <3>3, <3>4 DEF Cleared
    <3>6. items'[req'[o].item].comp = c
      BY <1>0, <1>1, <1>3
    <3>7. req'[o].at = "scan"
      BY <1>0, <2>2
    <3> QED
      BY <3>5, <3>6, <3>7 DEF ApartHandler
  <2> QED
    BY <2>1, <2>2
<1> QED
  BY <1>5, <1>7, <1>8, <1>9, <1>10 DEF ApartOK

\* A close deletes the key of a component without an open work item.
LEMMA ApartUndedup ==
  ASSUME ApartTypes, ApartOK, NEW o \in Operators,
         \A p \in Operators \ {o} : req'[p] = req[p],
         UNCHANGED <<stage, items>>, req[o].at = "undedup", req'[o].at = "fresh",
         dedup' = [dedup EXCEPT ![items[req[o].item].comp] = NoKey]
  PROVE  ApartOK'
<1>0. PICK c : c = items[req[o].item].comp
  OBVIOUS
<1>1. /\ c \in Components /\ dedup' = [dedup EXCEPT ![c] = NoKey]
      /\ dedup \in [Components -> DedupKey]
      /\ Cleared(o, c)
  BY <1>0 DEF ApartTypes, ApartOK, ApartHandler, CleanUp
<1>2. /\ \A d \in Components : d # c => dedup'[d] = dedup[d]
      /\ dedup'[c] = NoKey
  BY <1>1
<1>3. \A d : OpenOf(d)' = OpenOf(d) /\ (AtOverwrite(d)' <=> AtOverwrite(d))
  BY DEF OpenOf, AtOverwrite
<1>4. \A d \in Components : ApartKey(d)'
  BY <1>1, <1>2, <1>3 DEF ApartOK, ApartKey, Cleared
<1>5. ASSUME NEW t \in Signals PROVE ApartSignal(t)'
  <2>1. ApartSignal(t) /\ CompOf[t] \in Components
    BY DEF ApartOK, ApartTypes
  <2> QED
    BY <1>1, <1>2, <1>3, <2>1 DEF ApartSignal, Cleared
<1>6. ASSUME NEW p \in Operators PROVE ApartHandler(p)'
  <2>1. CASE p = o
    BY <2>1 DEF ApartHandler, CleanUp
  <2>2. CASE p # o
    <3>1. ApartHandler(p) /\ req'[p] = req[p]
      BY <2>2 DEF ApartOK
    <3>2. ASSUME req[p].at \in CleanUp PROVE Cleared(p, items[req[p].item].comp)'
      <4>1. PICK d : d = items[req[p].item].comp
        OBVIOUS
      <4>2. Cleared(p, d) /\ d # c /\ d \in Components
        BY <1>1, <2>2, <3>1, <3>2, <4>1 DEF ApartHandler, Cleared, ApartTypes, CleanUp
      <4>3. Cleared(p, d)'
        <5>1. \A q \in Operators \ {p} : req'[q].at \in CleanUp => req'[q] = req[q]
          BY DEF CleanUp
        <5> QED
          BY <1>2, <1>3, <4>2, <5>1 DEF Cleared
      <4> QED
        BY <3>1, <4>1, <4>3
    <3> QED
      BY <3>1, <3>2 DEF ApartHandler
  <2> QED
    BY <2>1, <2>2
<1> QED
  BY <1>4, <1>5, <1>6 DEF ApartOK, OneOpenItem

\* The step of ApartSpec.
ApartNext == ImsNext /\ CreationsApart' /\ MovesApart' /\ RecreationsEnd

\* Every such step keeps the invariant.
LEMMA ApartStep ==
  ASSUME KeysLive, NothingLost, ImsIInv, ImsIInv', ApartIInv, [ApartNext]_imsVars
  PROVE  ApartIInv'
<1>0. /\ ApartTypes /\ ApartOK /\ CreationsApart /\ MovesApart
      /\ PipelineIInv /\ ApiTypeOK /\ StoresTypeOK /\ StoresTypeOK'
      /\ DOMAIN items' = 1 .. Len(items') /\ stage \in [Signals -> Stages]
  BY ApartTypesHold DEF ImsIInv, PipelineIInv, ApiIInv, ApiTypeOK, TypeOK, ApartIInv, StoresTypeOK
<1>1. UNCHANGED items => RowsAlike
  BY DEF RowsAlike
<1>2. CASE UNCHANGED imsVars
  <2>1. ApartOK'
    BY <1>0, <1>1, <1>2, ApartQuiet DEF imsVars, vars, storeVars, localVars
  <2>2. CreationsApart' /\ MovesApart'
    BY <1>0, <1>2 DEF imsVars, vars, localVars, CreationsApart, MovesApart
  <2> QED
    BY <2>1, <2>2 DEF ApartIInv
<1> SUFFICES ASSUME ImsNext, CreationsApart', MovesApart', RecreationsEnd PROVE ApartOK'
  BY <1>2 DEF ApartIInv, ApartNext
<1>3. ASSUME NEW s \in Signals, Process(s) PROVE ApartOK'
  <2>1. /\ ApartCall(s) /\ UNCHANGED req
        /\ \A t \in Signals \ {s} : stage'[t] = stage[t]
    BY <1>0, <1>3, ApartCalls, OneSignalMoves DEF Process
  <2>2. stage[s] = "overwrite" => stage'[s] # "failed"
    BY DEF RecreationsEnd
  <2>3. CASE /\ RowsAlike /\ UNCHANGED dedup
             /\ \/ stage'[s] = stage[s]
                \/ stage'[s] \notin Creating /\ stage[s] # "overwrite"
    BY <1>0, <2>1, <2>3, ApartQuiet
  <2>4. CASE /\ stage[s] \in {"claim", "lookup"} /\ dedup[CompOf[s]] = NoKey
             /\ UNCHANGED items
             /\ \/ /\ stage'[s] = "create"
                   /\ dedup' = [dedup EXCEPT ![CompOf[s]] = Pending(s)]
                \/ stage'[s] = "recreate" /\ UNCHANGED dedup
    BY <1>0, <2>1, <2>4, ApartTakeUp
  <2>5. CASE /\ items' = Append(items, NewItem(CompOf[s])) /\ UNCHANGED dedup
             /\ <<stage[s], stage'[s]>> \in
                  {<<"create", "publish">>, <<"recreate", "overwrite">>}
    BY <1>0, <2>1, <2>5, ApartInsert
  <2>6. CASE /\ stage[s] \in {"publish", "overwrite"} /\ stage'[s] \notin Creating
             /\ UNCHANGED items
             /\ dedup' = [dedup EXCEPT ![CompOf[s]] = ItemKey(wid[s])]
             /\ stage[s] = "publish" => dedup[CompOf[s]] # NoKey
    BY <1>0, <2>1, <2>6, ApartWriteKey
  <2> QED
    BY <2>1, <2>2, <2>3, <2>4, <2>5, <2>6 DEF ApartCall
<1>4. ASSUME NEW o \in Operators, Handle(o) PROVE ApartOK'
  <2>1. /\ ApartMove(o) /\ UNCHANGED stage
        /\ \A p \in Operators \ {o} : req'[p] = req[p]
    BY <1>0, <1>4, ApartMoves DEF Handle, localVars
  <2>2. CASE /\ req[o].at = "write" /\ req'[o].item = req[o].item /\ UNCHANGED dedup
             /\ items' = [items EXCEPT ![req[o].item] =
                                         Updated(items[req[o].item], req[o].target)]
             /\ req'[o].at = IF req[o].target = "CLOSED" THEN "scan" ELSE "fresh"
    BY <1>0, <2>1, <2>2, ApartWrite
  <2>3. CASE /\ req[o].at = "undedup" /\ req'[o].at = "fresh" /\ UNCHANGED items
             /\ dedup' = [dedup EXCEPT ![items[req[o].item].comp] = NoKey]
    BY <1>0, <2>1, <2>3, ApartUndedup
  <2>4. ASSUME RowsAlike, UNCHANGED dedup,
               \/ req'[o].at \notin Moving
               \/ /\ req'[o].at = "gate" /\ req'[o].item \in 1 .. Len(items)
                  /\ req'[o].seen = items[req'[o].item].state
               \/ /\ req[o].at \in {"gate", "write"} /\ req'[o].at = "write"
                  /\ req'[o].item = req[o].item /\ req'[o].target = req[o].target
                  /\ req'[o].seen = req[o].seen
                  /\ req[o].at = "gate" => req[o].target \in Allowed[req[o].seen]
               \/ /\ req[o].at \in CleanUp /\ req'[o].at \in CleanUp
                  /\ req'[o].item = req[o].item
        PROVE  ApartOK'
    <3>1. ApartHandler(o)
      BY <1>0 DEF ApartOK
    <3>2. /\ req'[o].at \in CleanUp => req[o].at \in CleanUp /\ req'[o].item = req[o].item
          /\ req'[o].at \in {"gate", "write"} =>
               /\ req'[o].item \in 1 .. Len(items)
               /\ req'[o].seen = items[req'[o].item].state
          /\ req'[o].at = "write" => req'[o].target \in Allowed[req'[o].seen]
      BY <1>0, <2>4, <3>1 DEF Moving, CleanUp, ApartHandler, ApartTypes
    <3> QED
      BY <1>0, <2>1, <2>4, <3>2, ApartQuiet
  <2> QED
    BY <2>1, <2>2, <2>3, <2>4 DEF ApartMove
<1>5. ASSUME NEW s \in Signals, Accept(s) \/ Take(s), UNCHANGED req PROVE ApartOK'
  <2>1. UNCHANGED items /\ UNCHANGED dedup
    BY <1>5 DEF Accept, Take, storeVars
  <2>2. \A t \in Signals : \/ stage'[t] = stage[t]
                           \/ stage'[t] \notin Creating /\ stage[t] # "overwrite"
    BY <1>0, <1>5 DEF Accept, Take, Creating
  <2> QED
    BY <1>0, <1>1, <1>5, <2>1, <2>2, ApartQuiet
<1>6. CASE ImsCrash
  <2>1. UNCHANGED items /\ UNCHANGED dedup
    BY <1>6 DEF ImsCrash, storeVars
  <2>2. \A t \in Signals : \/ stage'[t] = stage[t]
                           \/ stage'[t] = "lost"
    BY <1>6 DEF ImsCrash, DropTasks
  <2>3. \A t \in Signals : stage[t] = "overwrite" => stage'[t] # "lost"
    BY DEF RecreationsEnd
  <2>4. \A o \in Operators : req'[o].at = "idle"
    BY <1>6 DEF ImsCrash, DropRequests, NoRequest
  <2>5. \A o \in Operators :
          /\ req'[o].at \in CleanUp => FALSE
          /\ req'[o].at \in {"gate", "write"} => FALSE
    BY <2>4 DEF CleanUp
  <2> QED
    BY <1>0, <1>1, <2>1, <2>2, <2>3, <2>5, ApartQuiet DEF Creating
<1>7. ~\E c \in Components : ExpireDedup(c)
  BY DEF ExpireDedup, Expire, ExpireKey, KeysLive
<1> QED
  BY <1>2, <1>3, <1>4, <1>5, <1>6, <1>7 DEF ImsNext, Dequeue, ApartIInv

\* It holds where nobody has done anything.
LEMMA ApartInit == ImsInit => ApartIInv
BY DEF ImsInit, Init, StoresInit, ApiInit, NoRequest, ApartIInv, ApartOK, OneOpenItem,
   ApartKey, OpenOf, ApartSignal, ApartHandler, CleanUp, CreationsApart, MovesApart,
   Creating, Moving

(***************************************************************************)
(* The invariant of the two parts and of what keeps apart.                 *)
(***************************************************************************)
THEOREM ApartInvariance ==
  ASSUME KeysLive, NothingLost
  PROVE  ApartSpec => [](ImsIInv /\ ApartIInv)
<1>1. ImsIInv /\ [ApartNext]_imsVars => ImsIInv'
  BY ImsNextInv DEF ApartNext
<1>2. ImsIInv /\ ImsIInv' /\ ApartIInv /\ [ApartNext]_imsVars => ApartIInv'
  BY ApartStep
<1> QED
  BY <1>1, <1>2, ImsInitInv, ApartInit, PTL DEF ApartSpec, ApartNext

(***************************************************************************)
(* Nobody works on two incidents where there is one, for any workers and   *)
(* operators and whatever fails or crashes: two work items of a component  *)
(* are open at once only after a key reached its TTL, a call was applied   *)
(* though it raised, two creations of the component or two moves of a work *)
(* item overlapped, or a re-created work item did not get its key.         *)
(***************************************************************************)
THEOREM OneOpenItemHolds ==
  ASSUME KeysLive, NothingLost
  PROVE  ApartSpec => []OneOpenItem
<1>1. ApartIInv => OneOpenItem
  BY DEF ApartIInv, ApartOK
<1> QED
  BY <1>1, ApartInvariance, PTL

-----------------------------------------------------------------------------
(***************************************************************************)
(* The windows of open work items, where publications keep apart as well.  *)
(***************************************************************************)

\* A worker that publishes a closed work item finds no open one to push out.
PublishedAlone == \A s \in Signals :
  stage[s] = "publish" /\ items[wid[s]].state = "CLOSED" => OpenOf(CompOf[s]) = {}

\* The key of an open work item stays.
OpenKeysKept == \A c \in Components :
  dedup[c].kind = "item" /\ items[dedup[c].of].state # "CLOSED" => dedup'[c] = dedup[c]

\* A key that names an open work item names an open one of its component.
LEMMA OpenKeyRow ==
  ASSUME ApartTypes, KeysOwnItems, NEW c \in Components, dedup[c].kind = "item",
         items[dedup[c].of].state # "CLOSED"
  PROVE  dedup[c].of \in OpenOf(c) /\ dedup[c] = ItemKey(dedup[c].of)
<1>1. dedup[c] \in DedupKey /\ DOMAIN items = 1 .. Len(items)
  BY DEF ApartTypes
<1>2. \E i \in 1 .. Len(items) : dedup[c] = ItemKey(i)
  BY <1>1 DEF DedupKey, NoKey, Pending
<1> QED
  BY <1>1, <1>2 DEF KeysOwnItems, OpenOf, ItemKey

\* A worker inserts beside no publication of a closed work item, and puts its
\* id in the place of no other open one's.
LEMMA WorkerOpenKeys ==
  ASSUME NothingLost, ImsIInv, ImsIInv', ApartIInv, PublishedAlone, PublicationsApart,
         NEW s \in Signals, Process(s)
  PROVE  PublishedAlone' /\ OpenKeysKept
<1> DEFINE c == CompOf[s]
<1>0. /\ ApartTypes /\ ApartOK /\ PipelineIInv /\ KeysOwnItems /\ StoresTypeOK
      /\ c \in Components /\ DOMAIN items = 1 .. Len(items)
      /\ DOMAIN items' = 1 .. Len(items')
      /\ ItemsOnlyAdded /\ ApartCall(s)
      /\ \A t \in Signals \ {s} : stage'[t] = stage[t] /\ wid'[t] = wid[t]
      /\ stage'[s] = "publish" => wid'[s] = Len(items) + 1 /\ wid'[s] \in 1 .. Len(items')
  <2>1. PipelineIInv /\ PipelineIInv' /\ ProcessOne(s) /\ ApartTypes
    BY ApartTypesHold DEF ImsIInv, Process
  <2>2. StoresTypeOK /\ StoresTypeOK'
    BY <2>1 DEF PipelineIInv, TypeOK
  <2>3. stage'[s] = "publish" => wid'[s] \in 1 .. Len(items')
    BY <2>1 DEF PipelineIInv, SignalOK, WithItem
  <2> QED
    BY <2>1, <2>2, <2>3, WorkerFrames, WorkerKeys, ApartCalls, OneSignalMoves
    DEF ApartTypes, ApartIInv, PipelineIInv, StoresTypeOK
<1>1. ASSUME NEW t \in Signals, stage'[t] = "publish", items'[wid'[t]].state = "CLOSED"
      PROVE  OpenOf(CompOf[t])' = {}
  <2>1. t # s
    <3> SUFFICES ASSUME t = s PROVE FALSE
      OBVIOUS
    <3>1. wid'[s] \in Len(items) + 1 .. Len(items')
      BY <1>0, <1>1 DEF ApartTypes, StoresTypeOK
    <3> QED
      BY <1>0, <1>1, <3>1 DEF ItemsOnlyAdded
  <2>2. /\ stage[t] = "publish" /\ wid'[t] = wid[t] /\ wid[t] \in 1 .. Len(items)
        /\ items[wid[t]].state = "CLOSED"
    <3>1. stage[t] = "publish" /\ wid'[t] = wid[t]
      BY <1>0, <1>1, <2>1
    <3>2. wid[t] \in 1 .. Len(items)
      BY <1>0, <3>1 DEF PipelineIInv, SignalOK, WithItem
    <3> QED
      BY <1>0, <1>1, <3>1, <3>2 DEF ItemsOnlyAdded
  <2>3. OpenOf(CompOf[t]) = {}
    BY <2>2 DEF PublishedAlone
  <2>4. CASE CompOf[t] = c
    <3>1. stage[s] \notin Creating
      BY <2>1, <2>2, <2>4 DEF PublicationsApart
    <3>2. RowsAlike \/ UNCHANGED items
      BY <1>0, <3>1 DEF ApartCall, Creating
    <3> QED
      BY <1>0, <2>3, <3>2 DEF RowsAlike, OpenOf
  <2>5. CASE CompOf[t] # c
    <3>1. RowsAlike \/ UNCHANGED items \/ items' = Append(items, NewItem(c))
      BY <1>0 DEF ApartCall
    <3>2. CASE items' = Append(items, NewItem(c))
      <4>1. /\ \A i \in DOMAIN items' : i \in DOMAIN items \/ i = Len(items) + 1
            /\ \A i \in DOMAIN items : items'[i] = items[i]
            /\ items'[Len(items) + 1].comp = c
        BY <1>0, <3>2, RowInserted DEF NewItem, ApartTypes
      <4> QED
        BY <2>3, <2>5, <4>1 DEF OpenOf
    <3> QED
      BY <1>0, <2>3, <3>1, <3>2 DEF RowsAlike, OpenOf
  <2> QED
    BY <2>4, <2>5
<1>2. ASSUME NEW d \in Components, dedup[d].kind = "item",
             items[dedup[d].of].state # "CLOSED"
      PROVE  dedup'[d] = dedup[d]
  <2>1. PICK i : i = dedup[d].of
    OBVIOUS
  <2>2. i \in OpenOf(d) /\ dedup[d] = ItemKey(i) /\ dedup[d] # NoKey
    BY <1>0, <1>2, <2>1, OpenKeyRow, KeyKinds
  <2>3. ASSUME dedup' = [dedup EXCEPT ![c] = ItemKey(wid[s])], d = c, stage[s] = "publish"
        PROVE  wid[s] = i
    <3>1. wid[s] \in DOMAIN items /\ items[wid[s]].comp = c
      BY <1>0, <2>3 DEF PipelineIInv, SignalOK, WithItem
    <3>2. items[wid[s]].state # "CLOSED"
      BY <2>2, <2>3 DEF PublishedAlone
    <3> QED
      BY <1>0, <2>2, <2>3, <3>1, <3>2 DEF ApartOK, OneOpenItem, OpenOf
  <2>4. dedup \in [Components -> DedupKey]
    BY <1>0 DEF ApartTypes
  <2>5. \/ UNCHANGED dedup
        \/ dedup[c] = NoKey /\ dedup' = [dedup EXCEPT ![c] = Pending(s)]
        \/ /\ stage[s] = "publish" \/ (stage[s] = "overwrite" /\ dedup[c] = NoKey)
           /\ dedup' = [dedup EXCEPT ![c] = ItemKey(wid[s])]
    BY <1>0 DEF ApartCall, ApartOK, ApartSignal
  <2> QED
    BY <2>2, <2>3, <2>4, <2>5
<1> QED
  BY <1>1, <1>2 DEF PublishedAlone, OpenKeysKept

\* A handler opens nothing, and deletes no key of an open work item.
LEMMA HandlerOpenKeys ==
  ASSUME NothingLost, ImsIInv, ApartIInv, PublishedAlone, NEW o \in Operators, Handle(o)
  PROVE  PublishedAlone' /\ OpenKeysKept
<1>0. /\ ApartTypes /\ ApartOK /\ PipelineIInv /\ KeysOwnItems /\ ApiTypeOK
      /\ UNCHANGED <<stage, wid>> /\ DOMAIN items = 1 .. Len(items)
      /\ DOMAIN items' = 1 .. Len(items)
      /\ HandlerFrame(o) /\ ApartMove(o)
      /\ \A i \in 1 .. Len(items) :
           \/ items'[i].state = items[i].state
           \/ /\ req[o].at = "write" /\ req[o].item = i
              /\ items'[i].state = req[o].target
  <2>1. PipelineIInv /\ ApiTypeOK /\ HandleRequest(o) /\ UNCHANGED <<stage, wid>> /\ ApartTypes
    BY ApartTypesHold DEF ImsIInv, ApiIInv, Handle, localVars
  <2>2. StoresTypeOK'
    BY <2>1, HandlerType DEF ApiTypeOK
  <2> QED
    BY <2>1, <2>2, HandlerFrames, HandlerCloses, ApartMoves
    DEF ApartTypes, ApartIInv, PipelineIInv, StoresTypeOK, HandlerFrame
<1>1. \A i \in 1 .. Len(items) : items[i].state = "CLOSED" => items'[i].state = "CLOSED"
  <2> SUFFICES ASSUME NEW i \in 1 .. Len(items), items[i].state = "CLOSED",
                      req[o].at = "write", req[o].item = i
               PROVE  FALSE
    BY <1>0
  <2>1. req[o].target \in Allowed["CLOSED"]
    BY <1>0 DEF ApartOK, ApartHandler
  <2> QED
    BY <2>1 DEF Allowed, WorkItemState
<1>2. \A d : OpenOf(d)' \subseteq OpenOf(d)
  BY <1>0, <1>1 DEF OpenOf, HandlerFrame
<1>3. ASSUME NEW t \in Signals, stage[t] = "publish", items'[wid[t]].state = "CLOSED"
      PROVE  OpenOf(CompOf[t])' = {}
  <2>1. wid[t] \in 1 .. Len(items) /\ items[wid[t]].comp = CompOf[t]
    BY <1>0, <1>3 DEF PipelineIInv, SignalOK, WithItem
  <2>2. CASE items[wid[t]].state = "CLOSED"
    BY <1>2, <1>3, <2>2 DEF PublishedAlone
  <2>3. CASE items[wid[t]].state # "CLOSED"
    <3>1. \A j \in OpenOf(CompOf[t]) : j = wid[t]
      BY <1>0, <2>1, <2>3 DEF ApartOK, OneOpenItem, OpenOf
    <3>2. wid[t] \notin OpenOf(CompOf[t])'
      BY <1>3 DEF OpenOf
    <3> QED
      BY <1>2, <3>1, <3>2
  <2> QED
    BY <2>2, <2>3
<1>4. ASSUME NEW d \in Components, dedup[d].kind = "item",
             items[dedup[d].of].state # "CLOSED"
      PROVE  dedup'[d] = dedup[d]
  <2>1. OpenOf(d) # {}
    BY <1>0, <1>4, OpenKeyRow
  <2>2. CASE UNCHANGED dedup
    BY <2>2
  <2>3. CASE /\ req[o].at = "undedup"
             /\ dedup' = [dedup EXCEPT ![items[req[o].item].comp] = NoKey]
    <3>1. OpenOf(items[req[o].item].comp) = {}
      BY <1>0, <2>3 DEF ApartOK, ApartHandler, Cleared, CleanUp
    <3> QED
      BY <1>0, <2>1, <2>3, <3>1 DEF ApartTypes
  <2> QED
    BY <1>0, <2>2, <2>3 DEF ApartMove
<1> QED
  BY <1>0, <1>3, <1>4 DEF PublishedAlone, OpenKeysKept

\* Every step keeps the keys of the open work items.
LEMMA OpenKeysStep ==
  ASSUME KeysLive, NothingLost, ImsIInv, ImsIInv', ApartIInv, PublishedAlone,
         PublicationsApart, [ApartNext]_imsVars
  PROVE  PublishedAlone' /\ OpenKeysKept
<1>1. ASSUME UNCHANGED <<items, wid, dedup>>,
             \A s \in Signals : stage'[s] = "publish" => stage[s] = "publish"
      PROVE  PublishedAlone' /\ OpenKeysKept
  BY <1>1 DEF PublishedAlone, OpenKeysKept, OpenOf
<1>2. stage \in [Signals -> Stages]
  BY DEF ImsIInv, PipelineIInv, TypeOK
<1>3. ASSUME NEW s \in Signals, Accept(s) \/ Take(s) PROVE PublishedAlone' /\ OpenKeysKept
  BY <1>1, <1>2, <1>3 DEF Accept, Take, storeVars
<1>4. CASE ImsCrash
  BY <1>1, <1>4 DEF ImsCrash, DropTasks, storeVars
<1>5. CASE UNCHANGED imsVars
  BY <1>1, <1>5 DEF imsVars, vars, storeVars, localVars
<1>6. ~\E c \in Components : ExpireDedup(c)
  BY DEF ExpireDedup, Expire, ExpireKey, KeysLive
<1> QED
  BY <1>3, <1>4, <1>5, <1>6, WorkerOpenKeys, HandlerOpenKeys DEF ApartNext, ImsNext, Dequeue

(***************************************************************************)
(* Signals within the window attach to the same work item: for any workers *)
(* and operators and whatever fails or crashes, what takes the key of an   *)
(* open work item away before its TTL is one of the overlaps OneOpenItem   *)
(* names, or a creation beside the publication of a work item that was     *)
(* closed before its id was out.                                           *)
(***************************************************************************)
THEOREM WindowEndsForCauseHolds ==
  ASSUME KeysLive, NothingLost
  PROVE  ApartSpec /\ []PublicationsApart => WindowEndsForCause
<1>1. ImsInit => PublishedAlone
  BY DEF ImsInit, Init, PublishedAlone
<1>2. ImsIInv /\ ImsIInv' /\ ApartIInv /\ PublicationsApart /\ PublishedAlone
        /\ [ApartNext]_imsVars => PublishedAlone'
  BY OpenKeysStep
<1>3. ImsIInv /\ ImsIInv' /\ ApartIInv /\ PublicationsApart /\ PublishedAlone
        /\ [ApartNext]_imsVars =>
        [\A c \in Components :
           dedup[c].kind = "item" /\ items[dedup[c].of].state # "CLOSED" =>
             dedup'[c] = dedup[c] \/ ExpireDedup(c)]_imsVars
  BY OpenKeysStep DEF OpenKeysKept
<1> QED
  BY <1>1, <1>2, <1>3, ApartInvariance, PTL DEF ApartSpec, ApartNext, WindowEndsForCause
=============================================================================
