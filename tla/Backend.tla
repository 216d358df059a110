------------------------------- MODULE Backend -------------------------------
(***************************************************************************)
(* POST /signals, the asyncio queue, the workers and the throughput loop   *)
(* in one process: Ingestion, for which _process_one is one step from Get  *)
(* to Finish, over the workers of Pipeline.  The queue is first in, first  *)
(* out.                                                                    *)
(***************************************************************************)
EXTENDS Pipeline, Ingestion

ASSUME BackendAssumption == Workers = WorkerCount

VARIABLE queue   (* the signals in ingestion's queue, `depth` of them         *)

backendVars == <<vars, ingestVars, queue>>

BackendInit == Init /\ IngestInit /\ queue = <<>>

\* POST /signals: 202, or 503 and the signal is not kept.
Post(s) ==
  /\ stage[s] = "new"
  /\ Offer
  /\ IF accepted' > accepted THEN Accept(s) /\ queue' = Append(queue, s)
                             ELSE UNCHANGED <<vars, queue>>

\* A free worker's queue.get() returns the oldest signal.
Dequeue == /\ queue # <<>> /\ Get
           /\ Take(Head(queue))
           /\ queue' = Tail(queue)

\* One call of _process_one; the signal is counted when it was the last.
Work(s) ==
  /\ ProcessOne(s)
  /\ IF stage'[s] \in Settled
     THEN Finish /\ (processed' > processed <=> stage'[s] = "processed")
     ELSE UNCHANGED ingestVars
  /\ UNCHANGED queue

Throughput == (Tick \/ PublishReport) /\ UNCHANGED <<vars, queue>>

\* The process dies and comes back: queue and counters were its memory.
BackendCrash == /\ Crash /\ Restart
                /\ queue' = <<>>

\* A dedup window ends by its TTL, whatever the process is at.
WindowEnds(c) == Expire(c) /\ UNCHANGED <<ingestVars, queue>>

BackendNext == \/ \E s \in Signals : Post(s) \/ Work(s)
               \/ Dequeue \/ Throughput
               \/ \E c \in Components : WindowEnds(c)
               \/ BackendCrash

BackendSpec == BackendInit /\ [][BackendNext]_backendVars
=============================================================================
