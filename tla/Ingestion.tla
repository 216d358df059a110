----------------------------- MODULE Ingestion -----------------------------
(***************************************************************************)
(* ingestion.py and the loops of workers.py around _process_one: the       *)
(* bounded queue between POST /signals and the workers, its counters, and  *)
(* the throughput loop that publishes them to Redis.  offer() and the      *)
(* throughput loop's reading of the counters await nothing, so each is one *)
(* step of the event loop.  The rate limiter in front is left out: a       *)
(* request it refuses changes nothing here.                                *)
(***************************************************************************)
EXTENDS Retry, Integers

CONSTANTS MaxSize,       (* settings.queue_maxsize; 0 is unbounded            *)
          Threshold,     (* the least queue size at which qsize / maxsize >=  *)
                         (* settings.queue_backpressure_threshold             *)
          Workers,       (* settings.worker_count                             *)
          MaxOffers      (* bound on the offers of one process in TLC's runs  *)

ASSUME IngestionAssumption ==
  /\ MaxSize \in Nat /\ Threshold \in Nat
  /\ Workers \in Nat \ {0} /\ MaxOffers \in Nat

VARIABLES depth,     (* queue.qsize()                                         *)
          busy,      (* workers inside _process_one                           *)
          accepted, dropped, processed,
          errored,   (* signals whose _process_one raised; counted nowhere in *)
                     (* the code but in the log                               *)
          lastAccepted, lastProcessed,
          report,    (* the mapping the throughput loop is publishing         *)
          tries,     (* failed attempts at it, -1 while the loop sleeps       *)
          shown      (* Redis hash metrics:throughput                         *)

ctr  == <<accepted, dropped, processed, errored>>
last == <<lastAccepted, lastProcessed>>
ingestVars == <<depth, busy, ctr, last, report, tries, shown>>

\* The totals and the depth are snapshot()'s, in and out the two windows
\* (dropped_total and queue_pct_full, which nothing is related to, left out).
Report == [in : Nat, out : Nat, depth : Nat, accepted : Nat, processed : Nat]
NoReport == [in |-> 0, out |-> 0, depth |-> 0, accepted |-> 0, processed |-> 0]

IngestInit ==
  /\ depth = 0 /\ busy = 0
  /\ accepted = 0 /\ dropped = 0 /\ processed = 0 /\ errored = 0
  /\ lastAccepted = 0 /\ lastProcessed = 0
  /\ report = NoReport /\ tries = -1 /\ shown = NoReport

-----------------------------------------------------------------------------
\* Mutant: off by one.
BackpressuredAbove == MaxSize # 0 /\ depth > Threshold

\* is_backpressured; without a bound the queue is always 0.0 full.
Backpressured == (MaxSize # 0 \/ Threshold = 0) /\ depth >= Threshold

\* put_nowait raises asyncio.QueueFull.
QueueFull == MaxSize # 0 /\ depth >= MaxSize

\* Mutant: accepted is counted before the queue has taken the signal.
OfferCountsFirst ==
  /\ accepted + dropped < MaxOffers
  /\ accepted' = accepted + 1
  /\ depth' = IF Backpressured \/ QueueFull THEN depth ELSE depth + 1
  /\ UNCHANGED <<busy, dropped, processed, errored, last, report, tries, shown>>

Offer ==
  /\ accepted + dropped < MaxOffers
  /\ IF Backpressured \/ QueueFull
     THEN dropped' = dropped + 1 /\ UNCHANGED <<depth, accepted>>
     ELSE accepted' = accepted + 1 /\ depth' = depth + 1 /\ UNCHANGED dropped
  /\ UNCHANGED <<busy, processed, errored, last, report, tries, shown>>

\* _worker_loop: queue.get() returns to a free worker.
Get ==
  /\ depth > 0 /\ busy < Workers
  /\ depth' = depth - 1 /\ busy' = busy + 1
  /\ UNCHANGED <<ctr, last, report, tries, shown>>

\* _process_one ends: its last statement counts the signal, or it raised.
Finish ==
  /\ busy > 0
  /\ busy' = busy - 1
  /\ \/ processed' = processed + 1 /\ UNCHANGED errored
     \/ errored' = errored + 1 /\ UNCHANGED processed
  /\ UNCHANGED <<depth, accepted, dropped, last, report, tries, shown>>

-----------------------------------------------------------------------------
\* _throughput_loop wakes: it reads the counters and moves the windows on,
\* whatever becomes of the publication.
Tick ==
  /\ tries = -1
  /\ report' = [in |-> accepted - lastAccepted, out |-> processed - lastProcessed,
                depth |-> depth, accepted |-> accepted, processed |-> processed]
  /\ lastAccepted' = accepted /\ lastProcessed' = processed
  /\ tries' = 0
  /\ UNCHANGED <<depth, busy, ctr, shown>>

\* Mutant: the depth is read again when the report is sent.
PublishFreshDepth ==
  /\ tries >= 0
  /\ shown' = [report EXCEPT !.depth = depth]
  /\ tries' = -1
  /\ UNCHANGED <<depth, busy, ctr, last, report>>

\* retry_async(set_metrics, ...); the last exception is only logged.
PublishReport ==
  /\ tries >= 0
  /\ \E r \in StoreReplies :
       /\ shown' = IF r.applied THEN report ELSE shown
       /\ tries' = IF r.err = "none" \/ tries + 1 >= Retries THEN -1 ELSE tries + 1
  /\ UNCHANGED <<depth, busy, ctr, last, report>>

\* Mutant: the windows' starts survive the counters they start from.
RestartKeepsWindows ==
  /\ depth' = 0 /\ busy' = 0
  /\ accepted' = 0 /\ dropped' = 0 /\ processed' = 0 /\ errored' = 0
  /\ report' = NoReport /\ tries' = -1
  /\ UNCHANGED <<last, shown>>

\* The process stops and starts: all of its memory is new, Redis is not.
Restart ==
  /\ depth' = 0 /\ busy' = 0
  /\ accepted' = 0 /\ dropped' = 0 /\ processed' = 0 /\ errored' = 0
  /\ lastAccepted' = 0 /\ lastProcessed' = 0
  /\ report' = NoReport /\ tries' = -1
  /\ UNCHANGED shown

IngestNext == Offer \/ Get \/ Finish \/ Tick \/ PublishReport \/ Restart

IngestSpec == IngestInit /\ [][IngestNext]_ingestVars

-----------------------------------------------------------------------------
(***************************************************************************)
(* Properties.                                                             *)
(***************************************************************************)
IngestTypeOK ==
  /\ depth \in Nat /\ busy \in 0 .. Workers
  /\ accepted \in Nat /\ dropped \in Nat /\ processed \in Nat /\ errored \in Nat
  /\ lastAccepted \in 0 .. accepted /\ lastProcessed \in 0 .. processed
  /\ report \in Report /\ shown \in Report
  /\ tries \in -1 .. Retries - 1

\* Every signal answered 202 is in the queue, in a worker, processed or given
\* up: the counters never drift from the queue, across offers, workers and
\* the throughput loop.
Conservation == accepted = depth + busy + processed + errored

\* The queue stops growing at the backpressure threshold, and never outgrows
\* its bound, while workers take signals out between the offers.
DepthBounded == MaxSize # 0 => depth <= Threshold /\ depth <= MaxSize

\* A published report adds up, however late it reaches Redis and whichever
\* process wrote it: what it calls queued or processed it also calls
\* accepted, and its windows lie within its totals.
AddsUp(r) == /\ r.depth + r.processed <= r.accepted
             /\ r.in <= r.accepted
             /\ r.out <= r.processed

ReportAddsUp == AddsUp(shown)
=============================================================================
