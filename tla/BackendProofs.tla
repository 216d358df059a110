---------------------------- MODULE BackendProofs ----------------------------
(***************************************************************************)
(* Proofs about Ingestion and about Backend, which puts it beside the      *)
(* workers of Pipeline, for every queue size, threshold, number of workers *)
(* and way to fail.  The counters are conserved and bounded by arithmetic  *)
(* over one inductive invariant; a report on its way to Redis has to add   *)
(* up too for what Redis shows to do so.  That every step of Backend is    *)
(* one of Ingestion and one of Pipeline rests on the two figures counting  *)
(* the signals of the queue and of the workers, and a signal being queued  *)
(* once.                                                                   *)
(***************************************************************************)
EXTENDS Backend, PipelineCounts

IngestIInv == /\ IngestTypeOK
              /\ Conservation
              /\ DepthBounded
              /\ AddsUp(report)
              /\ ReportAddsUp

\* The counters start balanced.
LEMMA IngestInitInv == IngestInit => IngestIInv
  BY IngestionAssumption, RetryAssumption
  DEF IngestInit, IngestIInv, IngestTypeOK, Conservation, DepthBounded, AddsUp,
      ReportAddsUp, Report, NoReport

\* Every step of the queue, the workers and the throughput loop keeps them so.
LEMMA IngestNextInv == IngestIInv /\ [IngestNext]_ingestVars => IngestIInv'
<1> SUFFICES ASSUME IngestIInv, [IngestNext]_ingestVars
             PROVE  IngestIInv'
  OBVIOUS
<1> USE IngestionAssumption, RetryAssumption
    DEF IngestIInv, IngestTypeOK, Conservation, DepthBounded, AddsUp, ReportAddsUp
<1>1. CASE Offer
  BY <1>1 DEF Offer, Backpressured, QueueFull, last
<1>2. CASE Get
  BY <1>2 DEF Get, ctr, last
<1>3. CASE Finish
  BY <1>3 DEF Finish, last
<1>4. CASE Tick
  BY <1>4 DEF Tick, Report, ctr
<1>5. CASE PublishReport
  BY <1>5 DEF PublishReport, ctr, last
<1>6. CASE Restart
  BY <1>6 DEF Restart, NoReport, Report
<1>7. CASE UNCHANGED ingestVars
  BY <1>7 DEF ingestVars, ctr, last
<1> QED
  BY <1>1, <1>2, <1>3, <1>4, <1>5, <1>6, <1>7 DEF IngestNext

\* The inductive invariant holds in every reachable state of the ingestion queue.
THEOREM IngestInvariance == IngestSpec => []IngestIInv
<1> QED
  BY IngestInitInv, IngestNextInv, PTL DEF IngestSpec

(***************************************************************************)
(* Every reachable state has the types the model declares: no counter is   *)
(* ever negative and no window starts after its total.                     *)
(***************************************************************************)
THEOREM IngestTypeOKHolds == IngestSpec => []IngestTypeOK
<1>1. IngestIInv => IngestTypeOK
  BY DEF IngestIInv
<1> QED
  BY <1>1, IngestInvariance, PTL

(***************************************************************************)
(* Every signal answered 202 is queued, in a worker, processed or given    *)
(* up.                                                                     *)
(***************************************************************************)
THEOREM ConservationHolds == IngestSpec => []Conservation
<1>1. IngestIInv => Conservation
  BY DEF IngestIInv
<1> QED
  BY <1>1, IngestInvariance, PTL

(***************************************************************************)
(* The queue never passes the backpressure threshold or its bound.         *)
(***************************************************************************)
THEOREM DepthBoundedHolds == IngestSpec => []DepthBounded
<1>1. IngestIInv => DepthBounded
  BY DEF IngestIInv
<1> QED
  BY <1>1, IngestInvariance, PTL

(***************************************************************************)
(* What Redis shows adds up.                                               *)
(***************************************************************************)
THEOREM ReportAddsUpHolds == IngestSpec => []ReportAddsUp
<1>1. IngestIInv => ReportAddsUp
  BY DEF IngestIInv
<1> QED
  BY <1>1, IngestInvariance, PTL

-----------------------------------------------------------------------------
\* Where the queue, the stages of the signals and the two figures meet.
QueueIInv ==
  /\ queue \in Seq(Signals)
  /\ \A i, j \in 1 .. Len(queue) : queue[i] = queue[j] => i = j
  /\ \A s \in Signals : stage[s] = "queued" <=> \E i \in 1 .. Len(queue) : queue[i] = s
  /\ Len(queue) = depth

WorkersIInv == IsFiniteSet(Active) /\ Cardinality(Active) = busy

BackendIInv == PipelineIInv /\ IngestIInv /\ QueueIInv /\ WorkersIInv

\* An empty queue and idle workers.
LEMMA BackendInitInv == BackendInit => BackendIInv
<1> SUFFICES ASSUME BackendInit PROVE BackendIInv
  OBVIOUS
<1>1. PipelineIInv /\ IngestIInv
  BY PipelineInitInv, IngestInitInv DEF BackendInit
<1>2. QueueIInv
  BY DEF BackendInit, Init, IngestInit, QueueIInv
<1>3. Active = {}
  BY DEF BackendInit, Init, Active, Calls
<1>4. WorkersIInv
  BY <1>3, FS_EmptySet DEF WorkersIInv, BackendInit, IngestInit
<1> QED
  BY <1>1, <1>2, <1>4 DEF BackendIInv

\* A step of the composition is one of each part, or leaves that part alone.
LEMMA BackendStep ==
  ASSUME queue \in Seq(Signals), BackendNext
  PROVE  [Next]_vars /\ [IngestNext]_ingestVars
<1>1. ASSUME NEW s \in Signals, Post(s) PROVE [Next]_vars /\ [IngestNext]_ingestVars
  BY <1>1 DEF Post, Next, IngestNext
<1>2. ASSUME NEW s \in Signals, Work(s) PROVE [Next]_vars /\ [IngestNext]_ingestVars
  BY <1>2 DEF Work, Next, IngestNext
<1>3. CASE Dequeue
  <2>1. Head(queue) \in Signals /\ Get /\ Take(Head(queue))
    BY <1>3 DEF Dequeue
  <2> QED
    BY <2>1 DEF Next, IngestNext
<1>4. CASE Throughput \/ BackendCrash
  BY <1>4 DEF Throughput, BackendCrash, Next, IngestNext
<1>5. ASSUME NEW c \in Components, WindowEnds(c) PROVE [Next]_vars /\ [IngestNext]_ingestVars
  BY <1>5 DEF WindowEnds, Next
<1> QED
  BY <1>1, <1>2, <1>3, <1>4, <1>5 DEF BackendNext

\* A call ends at another call, at itself or with the signal settled.
LEMMA CallEnds ==
  ASSUME TypeOK, NEW s \in Signals, ProcessOne(s)
  PROVE  stage'[s] \in Calls \cup Settled
<1>1. stage[s] \in Calls /\ stage \in [Signals -> Stages]
  BY DEF TypeOK, ProcessOne, InsertRaw, Claim, InsertItem, Publish, PushFeed, Alert, Lookup,
     Overwrite, Increment, AddLink, Backfill, UpsertMetric, Calls
<1>2. CASE Alert(s) \/ Backfill(s)
  BY <1>1, <1>2 DEF Alert, Backfill, Calls
<1>3. CASE \/ InsertRaw(s) \/ InsertItem(s) \/ PushFeed(s) \/ Increment(s)
           \/ AddLink(s) \/ UpsertMetric(s)
  <2>1. \E next \in Calls \cup Settled : \E err : Retried(s, err, next)
    BY <1>3 DEF InsertRaw, InsertItem, PushFeed, Increment, AddLink, UpsertMetric,
       Calls, Settled
  <2> QED
    BY <1>1, <2>1, RetriedStep DEF Stages, Settled
<1>4. CASE Claim(s) \/ Publish(s) \/ Lookup(s) \/ Overwrite(s)
  <2>1. \E next \in Calls : \E err : Once(s, err, next)
    BY <1>4 DEF Claim, Publish, Lookup, Overwrite, Calls
  <2> QED
    BY <1>1, <2>1, OnceStep DEF Stages, Settled
<1> QED
  BY <1>2, <1>3, <1>4 DEF ProcessOne

\* Only an accepted signal joins the queue, at its end, and it was not there.
LEMMA PostFigures ==
  ASSUME BackendIInv, NEW s \in Signals, Post(s) PROVE QueueIInv' /\ WorkersIInv'
<1>1. TypeOK /\ IngestTypeOK /\ QueueIInv /\ WorkersIInv
  BY DEF BackendIInv, PipelineIInv, IngestIInv
<1>2. stage \in [Signals -> Stages] /\ queue \in Seq(Signals) /\ accepted \in Nat /\ depth \in Nat
  BY <1>1 DEF TypeOK, IngestTypeOK, QueueIInv
<1>3. busy' = busy /\ stage[s] = "new"
  BY DEF Post, Offer
<1>4. CASE accepted' > accepted
  <2>1. stage' = [stage EXCEPT ![s] = "queued"] /\ queue' = Append(queue, s)
    BY <1>4 DEF Post, Accept
  <2>2. depth' = depth + 1
    BY <1>2, <1>4 DEF Post, Offer
  <2>3. Active' = Active
    BY <1>2, <1>3, <2>1 DEF Active, Calls
  <2>4. WorkersIInv'
    BY <1>1, <1>3, <2>3 DEF WorkersIInv
  <2>5. \A i \in 1 .. Len(queue) : queue[i] # s
    BY <1>1, <1>3 DEF QueueIInv
  <2>6. /\ queue' \in Seq(Signals) /\ Len(queue') = Len(queue) + 1
        /\ \A i \in 1 .. Len(queue) : queue'[i] = queue[i]
        /\ queue'[Len(queue) + 1] = s /\ Len(queue) \in Nat
    BY <1>2, <2>1
  <2>7. \A i \in 1 .. Len(queue') : i = Len(queue) + 1 \/ i \in 1 .. Len(queue)
    BY <2>6
  <2>8. \A i, j \in 1 .. Len(queue') : queue'[i] = queue'[j] => i = j
    BY <1>1, <2>5, <2>6, <2>7 DEF QueueIInv
  <2>9. ASSUME NEW t \in Signals
        PROVE  stage'[t] = "queued" <=> \E i \in 1 .. Len(queue') : queue'[i] = t
    <3>1. CASE t = s
      BY <1>2, <2>1, <2>6, <3>1
    <3>2. CASE t # s
      <4>1. stage'[t] = stage[t]
        BY <1>2, <2>1, <3>2
      <4>2. (\E i \in 1 .. Len(queue') : queue'[i] = t) <=> (\E i \in 1 .. Len(queue) : queue[i] = t)
        BY <2>6, <2>7, <3>2
      <4> QED
        BY <1>1, <4>1, <4>2 DEF QueueIInv
    <3> QED
      BY <3>1, <3>2
  <2>10. Len(queue') = depth'
    BY <1>1, <2>2, <2>6 DEF QueueIInv
  <2> QED
    BY <2>4, <2>6, <2>8, <2>9, <2>10 DEF QueueIInv
<1>5. CASE ~(accepted' > accepted)
  <2>1. UNCHANGED <<stage, queue>> /\ depth' = depth
    BY <1>2, <1>5 DEF Post, Offer, vars, localVars
  <2> QED
    BY <1>1, <1>3, <2>1 DEF QueueIInv, WorkersIInv, Active
<1> QED
  BY <1>4, <1>5

\* The oldest signal goes from the queue to a worker.
LEMMA DequeueFigures ==
  ASSUME BackendIInv, Dequeue PROVE QueueIInv' /\ WorkersIInv'
<1> DEFINE h == Head(queue)
<1>1. TypeOK /\ IngestTypeOK /\ QueueIInv /\ WorkersIInv
  BY DEF BackendIInv, PipelineIInv, IngestIInv
<1>2. /\ stage \in [Signals -> Stages] /\ queue \in Seq(Signals) /\ queue # <<>>
      /\ depth \in Nat /\ busy \in Nat
  BY <1>1 DEF TypeOK, IngestTypeOK, QueueIInv, Dequeue
<1>3. /\ h \in Signals /\ h = queue[1] /\ Len(queue) \in Nat \ {0}
      /\ queue' = Tail(queue) /\ Len(queue') = Len(queue) - 1 /\ queue' \in Seq(Signals)
      /\ \A i \in 1 .. Len(queue') : queue'[i] = queue[i + 1] /\ i + 1 \in 1 .. Len(queue)
  BY <1>2 DEF Dequeue
<1>4. /\ stage' = [stage EXCEPT ![h] = "insert"] /\ stage[h] = "queued"
      /\ depth' = depth - 1 /\ busy' = busy + 1
  BY DEF Dequeue, Get, Take
<1>5. \A i, j \in 1 .. Len(queue') : queue'[i] = queue'[j] => i = j
  <2> SUFFICES ASSUME NEW i \in 1 .. Len(queue'), NEW j \in 1 .. Len(queue'),
                      queue'[i] = queue'[j] PROVE i = j
    OBVIOUS
  <2>1. i + 1 = j + 1
    BY <1>1, <1>3 DEF QueueIInv
  <2> QED
    BY <2>1
<1>6. \A i \in 1 .. Len(queue') : queue'[i] # h
  <2> SUFFICES ASSUME NEW i \in 1 .. Len(queue'), queue'[i] = h PROVE FALSE
    OBVIOUS
  <2>1. i + 1 = 1
    BY <1>1, <1>3 DEF QueueIInv
  <2> QED
    BY <2>1
<1>7. ASSUME NEW t \in Signals
      PROVE  stage'[t] = "queued" <=> \E i \in 1 .. Len(queue') : queue'[i] = t
  <2>1. CASE t = h
    BY <1>2, <1>4, <1>6, <2>1
  <2>2. CASE t # h
    <3>1. stage'[t] = stage[t]
      BY <1>2, <1>4, <2>2
    <3>2. ASSUME NEW i \in 1 .. Len(queue), queue[i] = t
          PROVE  \E j \in 1 .. Len(queue') : queue'[j] = t
      <4>1. i - 1 \in 1 .. Len(queue')
        BY <1>3, <2>2, <3>2
      <4>2. queue'[i - 1] = queue[(i - 1) + 1]
        BY <1>3, <4>1
      <4> QED
        BY <3>2, <4>1, <4>2
    <3>3. ASSUME NEW j \in 1 .. Len(queue'), queue'[j] = t
          PROVE  \E i \in 1 .. Len(queue) : queue[i] = t
      BY <1>3, <3>3
    <3> QED
      BY <1>1, <3>1, <3>2, <3>3 DEF QueueIInv
  <2> QED
    BY <2>1, <2>2
<1>8. QueueIInv'
  BY <1>1, <1>2, <1>3, <1>4, <1>5, <1>7 DEF QueueIInv
<1>9. Active' = Active \cup {h} /\ h \notin Active
  BY <1>2, <1>3, <1>4 DEF Active, Calls
<1>10. WorkersIInv'
  BY <1>1, <1>2, <1>4, <1>9, FS_AddElement DEF WorkersIInv
<1> QED
  BY <1>8, <1>10

\* A call moves its own signal on; the last one frees the worker.
LEMMA WorkFigures ==
  ASSUME BackendIInv, NEW s \in Signals, Work(s) PROVE QueueIInv' /\ WorkersIInv'
<1>1. TypeOK /\ IngestTypeOK /\ QueueIInv /\ WorkersIInv /\ PipelineIInv
  BY DEF BackendIInv, PipelineIInv, IngestIInv
<1>2. stage[s] \in Calls /\ \A t \in Signals \ {s} : stage'[t] = stage[t]
  BY <1>1, OneSignalMoves DEF Work
<1>3. stage'[s] \in Calls \cup Settled
  BY <1>1, CallEnds DEF Work
<1>4. UNCHANGED queue
  BY DEF Work
<1>5. \A t \in Signals : stage'[t] = "queued" <=> stage[t] = "queued"
  BY <1>2, <1>3 DEF Calls, Settled
<1>6. s \in Active
  BY <1>2 DEF Active
<1>7. CASE stage'[s] \in Settled
  <2>1. depth' = depth /\ busy' = busy - 1
    BY <1>7 DEF Work, Finish
  <2>2. Active' = Active \ {s}
    BY <1>2, <1>7 DEF Active, Calls, Settled
  <2>3. WorkersIInv'
    BY <1>1, <1>6, <2>1, <2>2, FS_RemoveElement DEF WorkersIInv
  <2> QED
    BY <1>1, <1>4, <1>5, <2>1, <2>3 DEF QueueIInv
<1>8. CASE stage'[s] \notin Settled
  <2>1. depth' = depth /\ busy' = busy
    BY <1>8 DEF Work, ingestVars
  <2>2. Active' = Active
    BY <1>2, <1>3, <1>8 DEF Active
  <2> QED
    BY <1>1, <1>4, <1>5, <2>1, <2>2 DEF QueueIInv, WorkersIInv
<1> QED
  BY <1>7, <1>8

\* A crash empties the queue and frees every worker.
LEMMA CrashFigures ==
  ASSUME BackendIInv, BackendCrash PROVE QueueIInv' /\ WorkersIInv'
<1>1. stage' = [s \in Signals |-> IF s \in InMemory THEN "lost" ELSE stage[s]]
  BY DEF BackendCrash, Crash, DropTasks
<1>2. queue' = <<>> /\ depth' = 0 /\ busy' = 0
  BY DEF BackendCrash, Restart
<1>3. \A s \in Signals : stage'[s] # "queued" /\ stage'[s] \notin Calls
  BY <1>1 DEF InMemory, Active, Calls
<1>4. Active' = {}
  BY <1>3 DEF Active
<1> QED
  BY <1>2, <1>3, <1>4, FS_EmptySet DEF QueueIInv, WorkersIInv

\* Every step of the composition keeps the invariant.
LEMMA BackendNextInv == BackendIInv /\ [BackendNext]_backendVars => BackendIInv'
<1> SUFFICES ASSUME BackendIInv, [BackendNext]_backendVars PROVE BackendIInv'
  OBVIOUS
<1>1. CASE UNCHANGED backendVars
  <2>1. UNCHANGED <<vars, ingestVars, queue>>
    BY <1>1 DEF backendVars
  <2>2. PipelineIInv' /\ IngestIInv'
    BY <2>1, PipelineNextInv, IngestNextInv DEF BackendIInv
  <2>3. QueueIInv' /\ WorkersIInv'
    BY <2>1 DEF BackendIInv, QueueIInv, WorkersIInv, Active, vars, localVars, ingestVars
  <2> QED
    BY <2>2, <2>3 DEF BackendIInv
<1>2. CASE BackendNext
  <2>1. PipelineIInv' /\ IngestIInv'
    BY <1>2, BackendStep, PipelineNextInv, IngestNextInv DEF BackendIInv, QueueIInv
  <2>2. CASE Throughput
    <3>1. UNCHANGED <<stage, queue, depth, busy>>
      BY <2>2 DEF Throughput, Tick, PublishReport, vars, localVars
    <3> QED
      BY <2>1, <3>1 DEF BackendIInv, QueueIInv, WorkersIInv, Active
  <2>3. ASSUME NEW c \in Components, WindowEnds(c) PROVE BackendIInv'
    <3>1. UNCHANGED <<stage, queue, depth, busy>>
      BY <2>3 DEF WindowEnds, Expire, localVars, ingestVars
    <3> QED
      BY <2>1, <3>1 DEF BackendIInv, QueueIInv, WorkersIInv, Active
  <2>4. (QueueIInv' /\ WorkersIInv') \/ Throughput \/ \E c \in Components : WindowEnds(c)
    BY <1>2, PostFigures, DequeueFigures, WorkFigures, CrashFigures DEF BackendNext
  <2> QED
    BY <2>1, <2>2, <2>3, <2>4 DEF BackendIInv
<1> QED
  BY <1>1, <1>2

\* The inductive invariant holds in every reachable state of the process.
THEOREM BackendInvariance == BackendSpec => []BackendIInv
<1> QED
  BY BackendInitInv, BackendNextInv, PTL DEF BackendSpec

(***************************************************************************)
(* The process implements Ingestion: _process_one, however its calls       *)
(* interleave with others', is one Get and one Finish to the queue and the *)
(* counters.  So what is proved of IngestSpec above holds of it.           *)
(***************************************************************************)
THEOREM BackendImplementsIngestion == BackendSpec => IngestSpec
<1>1. BackendInit => IngestInit
  BY DEF BackendInit
<1>2. BackendIInv /\ [BackendNext]_backendVars => [IngestNext]_ingestVars
  BY BackendStep DEF backendVars, BackendIInv, QueueIInv
<1> QED
  BY <1>1, <1>2, BackendInvariance, PTL DEF BackendSpec, IngestSpec

(***************************************************************************)
(* ... and Pipeline: a bounded queue in front of the workers takes no      *)
(* step the worker tasks of Pipeline cannot take.                          *)
(***************************************************************************)
THEOREM BackendImplementsPipeline == BackendSpec => Spec
<1>1. BackendInit => Init
  BY DEF BackendInit
<1>2. BackendIInv /\ [BackendNext]_backendVars => [Next]_vars
  BY BackendStep DEF backendVars, BackendIInv, QueueIInv
<1> QED
  BY <1>1, <1>2, BackendInvariance, PTL DEF BackendSpec, Spec

(***************************************************************************)
(* Behind the queue as without it: while no call fails, whatever expires   *)
(* and crashes, a signal is given up only by a worker that reads another   *)
(* one's placeholder.                                                      *)
(***************************************************************************)
THEOREM BackendDroppedOnlyInRace ==
  ASSUME Failures = {}
  PROVE  BackendSpec => DroppedOnlyInRace
<1>1. Spec => DroppedOnlyInRace
  BY DroppedOnlyInRaceHolds
<1> QED
  BY <1>1, BackendImplementsPipeline, PTL
=============================================================================
