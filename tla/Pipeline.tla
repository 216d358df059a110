------------------------------ MODULE Pipeline ------------------------------
(***************************************************************************)
(* workers.py: the worker tasks that take accepted signals off the queue   *)
(* and turn them into work items.  _process_one awaits one store call      *)
(* after another; each call is one action here, guarded by where the       *)
(* signal's processing stands (`stage`), so that any interleaving of the   *)
(* workers' calls, of key expiry and of a crash is a behaviour.            *)
(*                                                                         *)
(* A call that answers with an exception may still have been applied (a    *)
(* lost acknowledgement); Retry says which calls are tried again.          *)
(***************************************************************************)
EXTENDS Stores, Retry, FiniteSets

CONSTANTS CompOf,       (* the component_id each signal carries               *)
          WorkerCount   (* settings.worker_count                              *)

ASSUME PipelineAssumption ==
  /\ CompOf \in [Signals -> Components]
  /\ WorkerCount \in Nat \ {0}

VARIABLES stage,   (* where the processing of a signal stands                 *)
          wid,     (* its local work_item_id, 0 for None; what a signal_links *)
                   (* row of the signal names                                 *)
          att,     (* attempts made of the call it is at                      *)
          raw,     (* signals with a document in Mongo's raw_signals          *)
          owner,   (* that document's work_item_id field, 0 while unset       *)
          links,   (* rows of table signal_links per signal                   *)
          metric,  (* signal_metrics count per component (one bucket and      *)
                   (* severity)                                               *)
          alerts   (* work items an alerter was dispatched for                *)

localVars == <<stage, wid, att>>
sinkVars  == <<raw, owner, links, metric, alerts>>
vars      == <<storeVars, localVars, sinkVars>>

\* Calls of _process_one a worker may stand at.
Calls == {"insert", "claim", "create", "publish", "feed", "alert", "lookup",
          "recreate", "overwrite", "increment", "link", "backfill", "metric"}
Settled == {"processed", "failed", "lost"}
Stages == {"new", "queued"} \cup Calls \cup Settled

Active == {s \in Signals : stage[s] \in Calls}

Init == /\ StoresInit
        /\ stage = [s \in Signals |-> "new"]
        /\ wid = [s \in Signals |-> 0]
        /\ att = [s \in Signals |-> Fresh]
        /\ raw = {}
        /\ owner = [s \in Signals |-> 0]
        /\ links = [s \in Signals |-> 0]
        /\ metric = [c \in Components |-> 0]
        /\ alerts = {}

-----------------------------------------------------------------------------
(***************************************************************************)
(* How a call ends: Retried goes through retry_async (and tenacity), Once  *)
(* does not; an exception that leaves _process_one is logged by            *)
(* _worker_loop and the signal is dropped.                                 *)
(***************************************************************************)
Once(s, err, next) ==
  /\ stage' = [stage EXCEPT ![s] = IF err = "none" THEN next ELSE "failed"]
  /\ UNCHANGED att

\* Mutant: a call that fails for good makes the signal start over.
RetriedStartsOver(s, err, next) ==
  LET a == AfterFailure(att[s], err)
      over == err = "none" \/ Exhausted(a)
  IN /\ stage' = [stage EXCEPT ![s] = IF err = "none" THEN next
                                      ELSE IF over THEN "claim" ELSE @]
     /\ att' = [att EXCEPT ![s] = IF over THEN Fresh ELSE a]

Retried(s, err, next) ==
  LET a == AfterFailure(att[s], err)
  IN \/ /\ err = "none"
        /\ stage' = [stage EXCEPT ![s] = next]
        /\ att' = [att EXCEPT ![s] = Fresh]
     \/ /\ err # "none" /\ Exhausted(a)
        /\ stage' = [stage EXCEPT ![s] = "failed"]
        /\ att' = [att EXCEPT ![s] = Fresh]
     \/ /\ err # "none" /\ ~Exhausted(a)
        /\ att' = [att EXCEPT ![s] = a]
        /\ UNCHANGED stage

\* POST /signals answers 202: ingestion.offer put the signal on the queue
\* (Ingestion models the queue's bound and the refusals).
Accept(s) == /\ stage[s] = "new"
             /\ stage' = [stage EXCEPT ![s] = "queued"]
             /\ UNCHANGED <<storeVars, wid, att, sinkVars>>

\* A free worker's queue.get() returns.
Take(s) == /\ stage[s] = "queued"
           /\ Cardinality(Active) < WorkerCount
           /\ stage' = [stage EXCEPT ![s] = "insert"]
           /\ UNCHANGED <<storeVars, wid, att, sinkVars>>

\* pymongo puts the _id into raw_doc before it sends it: once a document was
\* stored, the same insert tried again is a DuplicateKeyError.
InsertRaw(s) ==
  /\ stage[s] = "insert"
  /\ \E r \in StoreReplies :
       /\ raw' = IF r.applied THEN raw \cup {s} ELSE raw
       /\ Retried(s, IF s \in raw THEN "other" ELSE r.err, "claim")
  /\ UNCHANGED <<storeVars, wid, owner, links, metric, alerts>>

\* Mutant: the claim without NX, every signal wins.
ClaimWithoutNX(s) ==
  /\ stage[s] = "claim"
  /\ \E r \in StoreReplies :
       /\ dedup' = IF r.applied THEN [dedup EXCEPT ![CompOf[s]] = Pending(s)] ELSE dedup
       /\ Once(s, r.err, "create")
  /\ UNCHANGED <<items, feed, wid, sinkVars>>

\* SET dedup:<component> pending:<raw id> NX EX
Claim(s) ==
  LET c == CompOf[s] IN
  /\ stage[s] = "claim"
  /\ \E r \in StoreReplies :
       /\ dedup' = IF r.applied /\ dedup[c] = NoKey
                   THEN [dedup EXCEPT ![c] = Pending(s)] ELSE dedup
       /\ Once(s, r.err, IF dedup[c] = NoKey THEN "create" ELSE "lookup")
  /\ UNCHANGED <<items, feed, wid, sinkVars>>

InsertItem(s) ==
  /\ stage[s] \in {"create", "recreate"}
  /\ \E r \in PgReplies :
       /\ items' = IF r.applied THEN Append(items, NewItem(CompOf[s])) ELSE items
       /\ wid' = IF r.err = "none" THEN [wid EXCEPT ![s] = Len(items) + 1] ELSE wid
       /\ Retried(s, r.err, IF stage[s] = "create" THEN "publish" ELSE "overwrite")
  /\ UNCHANGED <<dedup, feed, sinkVars>>

\* Mutants: NX where XX is meant; neither.
PublishNX(s) ==
  /\ stage[s] = "publish"
  /\ dedup' = IF dedup[CompOf[s]] = NoKey
              THEN [dedup EXCEPT ![CompOf[s]] = ItemKey(wid[s])] ELSE dedup
  /\ Once(s, "none", "feed")
  /\ UNCHANGED <<items, feed, wid, sinkVars>>

PublishAlways(s) ==
  /\ stage[s] = "publish"
  /\ dedup' = [dedup EXCEPT ![CompOf[s]] = ItemKey(wid[s])]
  /\ Once(s, "none", "feed")
  /\ UNCHANGED <<items, feed, wid, sinkVars>>

\* SET dedup:<component> <work item id> EX XX; whether it took effect is not
\* looked at.
Publish(s) ==
  LET c == CompOf[s] IN
  /\ stage[s] = "publish"
  /\ \E r \in StoreReplies :
       /\ dedup' = IF r.applied /\ dedup[c] # NoKey
                   THEN [dedup EXCEPT ![c] = ItemKey(wid[s])] ELSE dedup
       /\ Once(s, r.err, "feed")
  /\ UNCHANGED <<items, feed, wid, sinkVars>>

\* Mutant: a failed push is only logged.
PushFeedBestEffort(s) ==
  /\ stage[s] = "feed"
  /\ \E r \in StoreReplies : feed' = IF r.applied THEN feed \cup {wid[s]} ELSE feed
  /\ Once(s, "none", "alert")
  /\ UNCHANGED <<items, dedup, wid, sinkVars>>

PushFeed(s) ==
  /\ stage[s] = "feed"
  /\ \E r \in StoreReplies :
       /\ feed' = IF r.applied THEN feed \cup {wid[s]} ELSE feed
       /\ Retried(s, r.err, "alert")
  /\ UNCHANGED <<items, dedup, wid, sinkVars>>

Alert(s) ==
  /\ stage[s] = "alert"
  /\ alerts' = alerts \cup {wid[s]}
  /\ stage' = [stage EXCEPT ![s] = "link"]
  /\ UNCHANGED <<storeVars, wid, att, raw, owner, links, metric>>

\* get_open_work_item: int() of a placeholder raises ValueError.
Lookup(s) ==
  LET key == dedup[CompOf[s]] IN
  /\ stage[s] = "lookup"
  /\ \E r \in StoreReplies :
       LET found == r.err = "none" /\ key.kind = "item" IN
       /\ wid' = IF found THEN [wid EXCEPT ![s] = key.of] ELSE wid
       /\ Once(s, IF key.kind = "pending" THEN "other" ELSE r.err,
               IF found THEN "increment" ELSE "recreate")
  /\ UNCHANGED <<storeVars, sinkVars>>

\* SET dedup:<component> <work item id> EX, whatever the key holds by now.
Overwrite(s) ==
  /\ stage[s] = "overwrite"
  /\ \E r \in StoreReplies :
       /\ dedup' = IF r.applied
                   THEN [dedup EXCEPT ![CompOf[s]] = ItemKey(wid[s])] ELSE dedup
       /\ Once(s, r.err, "link")
  /\ UNCHANGED <<items, feed, wid, sinkVars>>

\* Mutants: a failed increment is only logged; a failed one is committed.
IncrementBestEffort(s) ==
  /\ stage[s] = "increment"
  /\ \E r \in PgReplies :
       items' = IF r.applied THEN [items EXCEPT ![wid[s]].count = @ + 1] ELSE items
  /\ Once(s, "none", "link")
  /\ UNCHANGED <<dedup, feed, wid, sinkVars>>

IncrementNoRollback(s) ==
  /\ stage[s] = "increment"
  /\ items' = [items EXCEPT ![wid[s]].count = @ + 1]
  /\ \E r \in PgReplies : Retried(s, r.err, "link")
  /\ UNCHANGED <<dedup, feed, wid, sinkVars>>

Increment(s) ==
  /\ stage[s] = "increment"
  /\ \E r \in PgReplies :
       /\ items' = IF r.applied THEN [items EXCEPT ![wid[s]].count = @ + 1] ELSE items
       /\ Retried(s, r.err, "link")
  /\ UNCHANGED <<dedup, feed, wid, sinkVars>>

\* Mutants: the same two for the link.
AddLinkBestEffort(s) ==
  /\ stage[s] = "link"
  /\ \E r \in PgReplies : links' = IF r.applied THEN [links EXCEPT ![s] = @ + 1] ELSE links
  /\ Once(s, "none", "backfill")
  /\ UNCHANGED <<storeVars, wid, raw, owner, metric, alerts>>

AddLinkNoRollback(s) ==
  /\ stage[s] = "link"
  /\ links' = [links EXCEPT ![s] = @ + 1]
  /\ \E r \in PgReplies : Retried(s, r.err, "backfill")
  /\ UNCHANGED <<storeVars, wid, raw, owner, metric, alerts>>

AddLink(s) ==
  /\ stage[s] = "link"
  /\ \E r \in PgReplies :
       /\ links' = IF r.applied THEN [links EXCEPT ![s] = @ + 1] ELSE links
       /\ Retried(s, r.err, "backfill")
  /\ UNCHANGED <<storeVars, wid, raw, owner, metric, alerts>>

\* update_one on the raw document; an exception is only logged.
Backfill(s) ==
  /\ stage[s] = "backfill"
  /\ \E r \in StoreReplies :
       owner' = IF r.applied THEN [owner EXCEPT ![s] = wid[s]] ELSE owner
  /\ stage' = [stage EXCEPT ![s] = "metric"]
  /\ UNCHANGED <<storeVars, wid, att, raw, links, metric, alerts>>

UpsertMetric(s) ==
  /\ stage[s] = "metric"
  /\ \E r \in PgReplies :
       /\ metric' = IF r.applied THEN [metric EXCEPT ![CompOf[s]] = @ + 1] ELSE metric
       /\ Retried(s, r.err, "processed")
  /\ UNCHANGED <<storeVars, wid, raw, owner, links, alerts>>

ProcessOne(s) ==
  \/ InsertRaw(s)  \/ Claim(s)     \/ InsertItem(s) \/ Publish(s)  \/ PushFeed(s)
  \/ Alert(s)      \/ Lookup(s)    \/ Overwrite(s)  \/ Increment(s)
  \/ AddLink(s)    \/ Backfill(s)  \/ UpsertMetric(s)

-----------------------------------------------------------------------------
Expire(c) == ExpireKey(c) /\ UNCHANGED <<localVars, sinkVars>>

\* The process dies, or stop_workers cancels its tasks: the queue and the
\* coroutines are gone, the stores are not.
InMemory == {s \in Signals : stage[s] = "queued"} \cup Active

DropTasks ==
  /\ stage' = [s \in Signals |-> IF s \in InMemory THEN "lost" ELSE stage[s]]
  /\ att' = [s \in Signals |-> Fresh]
  /\ UNCHANGED <<wid, sinkVars>>

Crash == Crashes /\ InMemory # {} /\ DropTasks /\ UNCHANGED storeVars

\* Nothing left to do; the workers poll an empty queue.
AllSettled == \A s \in Signals : stage[s] \in Settled
Idle == AllSettled /\ UNCHANGED vars

Next == \/ \E s \in Signals : Accept(s) \/ Take(s) \/ ProcessOne(s)
        \/ \E c \in Components : Expire(c)
        \/ Crash
        \/ Idle

Spec == Init /\ [][Next]_vars

(***************************************************************************)
(* Fairness: a free worker takes a queued signal, and every awaited call   *)
(* answers or raises (retry_async and tenacity bound the attempts).        *)
(* Clients, expiry and crashes are not fair.                               *)
(***************************************************************************)
Fairness == /\ WF_vars(\E s \in Signals : Take(s))
            /\ \A s \in Signals : WF_vars(ProcessOne(s))

FairSpec == Spec /\ Fairness

-----------------------------------------------------------------------------
(***************************************************************************)
(* Properties.  Which of them a run checks depends on the failures, expiry *)
(* and workers it allows; the cfg files say so.                            *)
(***************************************************************************)

\* Types, and that every work item id held anywhere is the id of a row.
TypeOK ==
  /\ StoresTypeOK
  /\ stage \in [Signals -> Stages]
  /\ wid \in [Signals -> 0 .. Len(items)]
  /\ att \in [Signals -> Attempts]
  /\ raw \subseteq Signals
  /\ owner \in [Signals -> 0 .. Len(items)]
  /\ links \in [Signals -> Nat]
  /\ metric \in [Components -> Nat]
  /\ alerts \subseteq 1 .. Len(items)

LinkedTo(i) == {s \in Signals : wid[s] = i /\ links[s] > 0}

\* What the three stores say never contradicts itself, whatever fails and
\* wherever a crash strikes: a dedup key that names a work item names one of
\* its own component; a signal_links row has its raw document and names a work
\* item of the signal's own component; and a raw document is tied to a work
\* item only after, and to the same one as, its row (workers.py writes Mongo,
\* Redis and PostgreSQL one after another, then Mongo again).
RecordsAgree ==
  /\ KeysOwnItems
  /\ \A s \in Signals :
       /\ links[s] > 0 => /\ s \in raw
                          /\ wid[s] # 0
                          /\ items[wid[s]].comp = CompOf[s]
       /\ owner[s] # 0 => links[s] > 0 /\ owner[s] = wid[s]

\* signal_count of a work item is never below the number of signals linked
\* to it: the count (1 at creation, +1 per attached signal) is written
\* before the link on every path, through failures, lost acknowledgements,
\* expiry and crashes.
CountCoversLinks ==
  \A i \in DOMAIN items : items[i].count >= Cardinality(LinkedTo(i))

\* While no acknowledgement is lost, signal_count ends up as exactly the
\* number of linked signals if every signal was processed, however the
\* workers interleave, calls are retried and keys expire.
CountsSettle ==
  (\A s \in Signals : stage[s] = "processed") =>
     \A i \in DOMAIN items : items[i].count = Cardinality(LinkedTo(i))

\* The debounce: while dedup keys live and no acknowledgement is lost, one
\* component gets at most one work item, whatever the workers interleave,
\* whichever calls fail and wherever a crash strikes.
OneItemPerComponent ==
  \A i, j \in DOMAIN items : items[i].comp = items[j].comp => i = j

\* A dedup window is held by one: while keys live, the worker that won the
\* SET NX and has not yet published its work item still owns the key, so no
\* other worker creates for the same component.
ClaimHeldAtCreate ==
  \A s \in Signals :
     stage[s] \in {"create", "publish"} => dedup[CompOf[s]] = Pending(s)

\* A placeholder is never left behind by a worker that went on: whatever fails,
\* expires or is published over, pending:<id> stands in the key of the
\* signal's own component, while its worker creates the work item or after it
\* died or gave up (until the TTL).
PlaceholderIsHeld ==
  \A c \in Components, s \in Signals : dedup[c] = Pending(s) =>
     CompOf[s] = c /\ stage[s] \in {"create", "publish", "failed", "lost"}

\* While no acknowledgement is lost, retries never do a thing twice: a
\* processed signal has one signal_links row and counts once in its metric.
ProcessedOnce ==
  /\ \A s \in Signals : links[s] <= 1
  /\ \A s \in Signals : stage[s] = "processed" => links[s] = 1
  /\ \A c \in Components :
       metric[c] = Cardinality({s \in Signals :
                                  CompOf[s] = c /\ stage[s] = "processed"})

\* How often one call of a worker is attempted at most.
MostAttempts == Retries * PgAttempts

\* What a lost acknowledgement makes a retry do again is bounded by the attempts
\* of the one call: the rows of signal_links a signal gets, the work items it
\* opens, and what signal_count and the metric overstate (create_work_item,
\* increment_signal_count, add_signal_link and upsert_metric are not idempotent).
DuplicatesBounded ==
  /\ \A s \in Signals : links[s] <= MostAttempts
  /\ \A c \in Components :
       LET of == Cardinality({s \in Signals : CompOf[s] = c}) IN
       /\ metric[c] <= MostAttempts * of
       /\ Cardinality({i \in DOMAIN items : items[i].comp = c}) <= MostAttempts * of
       /\ \A i \in DOMAIN items : items[i].comp = c =>
            items[i].count <= 1 + MostAttempts * (of - 1)

\* While dedup keys live, on-call hears of every work item: once all signals
\* of a component are processed, its work items are in the live feed and an
\* alerter was dispatched for each (alerting.py: "Page on-call ...").
EveryItemAnnounced ==
  \A i \in DOMAIN items :
     (\A s \in Signals : CompOf[s] = items[i].comp => stage[s] = "processed")
       => i \in alerts \cap feed

\* Whoever wins the SET NX creates the work item, everyone else attaches:
\* no signal falls out of the processing while no call fails.
NoSignalDropped == \A s \in Signals : stage[s] # "failed"

\* While no call fails there is one way to lose a signal: its worker reads the
\* placeholder of another signal of the component, whose worker has not
\* published yet, or never will, because the process died in between.
DroppedOnlyInRace ==
  [][\A s \in Signals : stage[s] # "failed" /\ stage'[s] = "failed" =>
       \E t \in Signals \ {s} : /\ dedup[CompOf[s]] = Pending(t)
                               /\ CompOf[t] = CompOf[s]
                               /\ stage[t] \in {"create", "publish", "lost"}]_vars

\* Every accepted signal is dealt with: its processing ends, after finitely
\* many attempts, in success or with the signal given up.
EverySignalSettles ==
  \A s \in Signals : stage[s] = "queued" ~> stage[s] \in Settled

\* With calm stores one worker processes, in the end, every accepted signal.
EverySignalProcessed ==
  \A s \in Signals : stage[s] = "queued" ~> stage[s] = "processed"

-----------------------------------------------------------------------------
(***************************************************************************)
(* The debounce holds while keys outlive their window and no failed call   *)
(* was applied: two things the code does not enforce.                      *)
(***************************************************************************)
KeysLive    == ~Expiry
NothingLost == \A f \in Failures : ~f.applied

\* A component's incidents are its rows; a signal is attached from its first
\* signal_links row on.
IncidentsOf  == [c \in Components |-> {i \in DOMAIN items : items[i].comp = c}]
AttachmentOf == [s \in Signals |-> IF links[s] > 0 THEN wid[s] ELSE 0]

Debounced == INSTANCE Debouncer WITH
  None <- 0, Single <- KeysLive /\ NothingLost,
  incidents <- IncidentsOf, attached <- AttachmentOf

\* The workers' calls, retries, failures and crashes implement Debouncer:
\* one incident per component while keys live and nothing is lost; in any
\* case a signal is attached once, to an incident of its own component
\* (test_debouncer.py: "whoever wins the SET-NX races creates the work item;
\* everyone else attaches signals to it").
ImplementsDebouncer == Debounced!Spec
=============================================================================
