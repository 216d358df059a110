# A verification project for the Incident Management System

The repository is a small incident management backend: clients post failure
signals, worker tasks debounce them into work items, operators move the work
items through their life cycle and must file a root cause analysis (RCA)
before they close one. This directory holds TLA+ models of that backend, the
TLC configurations that check them, and TLAPS proofs.

Paths below are relative to the repository; `app/` is `src/backend/app/`.

## 1. Inventory

| part | state | operations | talks to |
| --- | --- | --- | --- |
| signal ingestion, `ingestion.py`, `main.py` | `asyncio.Queue`, counters | `offer`, `snapshot` | workers (queue) |
| workers, `workers.py` | tasks, locals of `_process_one` | `_process_one`, `_worker_loop`, `_throughput_loop`, start, stop | Mongo, Redis, PostgreSQL |
| incident API, `incidents_api.py` | locals of each handler | transition, close, submit RCA, reads | PostgreSQL, Redis |
| life cycle, `patterns/states.py`, `rca_validator.py` | none | `transition`, `validate` | called by the API |
| repository, `storage/postgres_repo.py`, `init-db/` | tables work_items, rca, signal_links, signal_metrics | one transaction per function, tenacity around it | PostgreSQL |
| `storage/redis_cache.py` | `dedup:<component>`, `live_feed`, `metrics:throughput` | SET NX/XX/EX, GET, DEL, ZADD, ZREM, HSET | Redis |
| `storage/mongo.py` | `raw_signals` | insert, back-fill | MongoDB |
| `utils/retry.py` | attempt count | `retry_async` | around store calls |
| alerting, `patterns/alerting.py` | none | `dispatch` (logs) | called by a worker |
| process life cycle, `main.py` lifespan, `storage/*.py` clients | open clients, tasks, `_shutdown` | start, stop, lazy reopening | workers, stores |
| `GET /health`, `GET /metrics` | none | three pings; one Redis read | stores |
| dashboard, `src/dashboard/app.py` | the page's run | requests one after another, timer | API |
| deployment, `src/k8s/`, compose | probe failures | liveness probe, restart | `/health` |
| config, logging, load scripts | none of their own | | |

How they interact. `POST /signals` puts a signal on an in-process queue or
answers 503. A free worker takes it and awaits, one after another: insert the
raw document (Mongo); claim the component's dedup key (`SET NX EX`); the winner
inserts a work item, publishes its id in the key (`SET XX`), pushes it to the
live feed, alerts; the others read the key and increment `signal_count`; all
then insert a `signal_links` row, back-fill the raw document, count the metric.
The API reads a work item and its RCA, asks `states.transition`, updates the
row and, after a close, clears the feed and the dedup key. Workers and handlers
are coroutines of one process and share nothing but the stores. `lifespan`
opens the clients, starts the tasks, and at the end stops the tasks and closes
the clients. The kubelet probes `/health`; the dashboard runs its page every few
seconds, request by request.

What is hard. Every `await` is a point where others run: between a claim and
its publication, between a read of a state and the UPDATE resting on it. Keys
expire. A call that raised may have been applied. Retries are nested (3 rounds
of `retry_async`, 5 attempts of tenacity in each, the latter only for
`OperationalError`). Counts, links and raw documents of one signal are written
in separate transactions of two databases. A stop drops the queue and cancels
workers in the middle of anything; in Python 3.11 `asyncio.wait_for` swallows a
cancellation that arrives with what it waits for. A client used after it was
closed opens itself again. A store that is out reaches, over `/health`, the
probe that restarts the process. The list with lines is `hazards` in
`PROJECT.json`.

What makes each part correct.

* Workers: one work item per component and dedup window; nothing half-written
  contradicts itself; counts match links; every work item is announced; every
  accepted signal is dealt with; retries do nothing twice.
* Queue: accepted signals are accounted for; the bound holds;
  published figures add up.
* API: a closed work item has a valid RCA and an end time whatever interleaves;
  CLOSED is terminal; every request is answered.
* Together: a close gives the dedup window back and takes only its own; what is
  open stays in the live feed, what is closed leaves it.
* Process: a stop ends, and what it closes stays closed.
* Watchers: an outage is named, does not spread, and is recovered from.

## 2. The modules

| module | models | extends |
| --- | --- | --- |
| `Lifecycle` | `states.py`, `rca_validator.py`, schema and CHECK constraints of an RCA, as operators | |
| `Retry` | `retry_async`, tenacity, the answers of a store call | |
| `Debouncer` | abstract: incidents per component, a signal attached once to one of its own | |
| `Stores` | work_items + rca, dedup keys, live feed: what workers and API share | `Lifecycle` |
| `Pipeline` | `_process_one`, the workers, expiry, crash | `Stores`, `Retry` |
| `IncidentApi` | the handlers for concurrent operators | `Stores`, `Retry` |
| `WorkItem` | abstract: a work item changes by atomic legal moves | `Lifecycle` |
| `Ingestion` | queue, counters, worker loops, throughput loop, restart | `Retry` |
| `IMS` | workers and API in one process over the same stores | `Pipeline`, `IncidentApi` |
| `Backend` | POST /signals, the FIFO queue, counters, workers and throughput loop of one process, a restart | `Pipeline`, `Ingestion` |
| `Lifespan` | start, serve, stop, start again: clients, tasks, cancellations | |
| `Monitor` | `/health`, `/metrics`, the liveness probe, the dashboard's page | `Lifespan` |
| `MC*` | constants for TLC | |
| `StoresProofs`, `PipelineProofs`, `PipelineCounts`, `IncidentApiProofs`, `SoloProofs`, `BackendProofs`, `ImsProofs`, `MonitorProofs` | proofs | the module, TLAPS |

**Pipeline.** Each signal has a `stage`, the call of `_process_one` its worker
awaits next: `insert` (line 42), `claim` (47), `create` (58), `publish` (68),
`feed` (76), `alert` (85), `lookup` (99), `recreate` (102), `overwrite` (111),
`increment` (120), `link` (129), `backfill` (141), `metric` (149); before that
`new` and `queued`, after it `processed`, `failed` (the exception was logged by
`_worker_loop`) or `lost` (the process stopped). One action per call; it takes
effect in the store and moves the stage, with the attempts made in `att`.
`wid[s]` is the local `work_item_id`; it is kept after the end because the
`signal_links` row names it. Workers are anonymous: at most `WorkerCount`
signals are inside `_process_one`.

**Failures.** A call answers `Ok`, or fails with an `OperationalError` or
another exception, applied or not (a lost acknowledgement). `Failures` selects
which of the four an instance allows; `Retry` decides what is tried again.
`session_scope` makes one attempt one transaction, so an attempt applies whole
or not at all.

**IncidentApi.** `req[o]` is the handler serving operator `o`: the call it
awaits, the state it read, the body, the attempts. `Gate` reads the RCA and runs
`states.transition` (no await in between); `Write` is the UPDATE by id alone.
After a close, `Scan`, `Unfeed` and `Undedup` are the ZRANGE, ZREM and DEL of the
clean-up (a work item has one member in the feed), `Reread` the read for the
answer. `View` and `Render` are the two reads of `GET /incidents/{id}`. On its
own the module opens work items in one step (`OpenIncident`); in `IMS` the
workers do.

**Ingestion.** `offer` awaits nothing and is one step, as is the throughput
loop's reading; the publication to Redis is retried step by step. `Threshold` is
the least queue size at which `qsize / maxsize` reaches the configured
fraction. `_process_one` is the pair `Get`, `Finish`; `Pipeline` shows that it
ends.

**Backend** puts the two together, each of its actions being one of `Pipeline`, one
of `Ingestion` or both at once: `Post` is `Offer` and, when it is not refused,
`Accept`; `Dequeue` is `Get` with `Take` of the oldest signal; `Work` is a call of
`_process_one`, and also `Finish` when it was the signal's last; `WindowEnds` is a
dedup key's expiry; a crash is `Crash` with `Restart`. `Ingestion` alone counts,
`Pipeline` alone knows signals; that the counts are of those signals is part of
the proof that the composition implements both.

**Lifespan.** `phase` is where `lifespan()` stands, `task` what each task awaits:
`waiting` in `wait_for`, `given` what it waits for but not run yet, `busy` with a
store call. `Stop` is the synchronous part of `stop_workers`: it sets the event
(which is what the throughput task waits for), and marks every task `doomed`,
cancelled and not run since. A `given` task swallows the cancellation
(`Resume`), any other ends (`Cancelled`). `Joined` is the end of
`await t` for the workers; nobody awaits the throughput task. `UseClient` opens
a closed client again. `Restart` is the container's next process.

**Monitor.** `check` holds the `GET /health` of the kubelet and of the page: pings
done, stores found out. `ProbeEnds` counts failures; at the threshold the process
of `Lifespan` gets its `Stop` (`Killed`) and goes through its shutdown and next
start (`Inside`), while a probe or a page finds nobody listening. `page` is the
request the page's run awaits; `broken` is a run an exception ended. Only the
closed list is inside a `try`.

**IMS** has, beside the composition, the restrictions its last theorems take
(`ApartSpec`): where creations of one component and moves of one work item do not
overlap. Nothing in the code enforces them; section 4 says what each is for.

**Debouncer** is what `Pipeline` promises: `Open` adds an incident that belongs to
no other component (under `Single` only to a component without one), `Attach`
ties a signal, once, to an incident of its component. Under the mapping a
component's incidents are its rows, and a signal is attached from its first
`signal_links` row on. `Single` is true where keys live and nothing is lost.

**RCA bodies.** A text is `empty`, `spaces`, `tabs` or `words`, which is what
`min_length`, `str.strip` and SQL's `btrim` tell apart; of the two times only
their order matters.

**WorkItem** is what `IncidentApi` promises: `Open`, `Move` (legal in the state
the item has at that moment, a close only with a complete RCA), `Document`.
`ImplementsWorkItem` checks the refinement, mapping `items` to state, RCA and
whether it has ended; worker steps and retries map to stutters.

## 3. The runs

| run | question | bounds | result |
| --- | --- | --- | --- |
| `pipeline_window` | does the debounce hold while keys live (`Debouncer` with `Single`), do retries do things once, do signals settle? | 3 workers, 3 signals, 2 components, crash, failures without effect, 2 rounds of 2 attempts, fairness | holds |
| `pipeline_hostile` | do the stores agree when acknowledgements are lost, keys expire, the process stops; who leaves a placeholder behind, how much do retries do twice? | 2 workers, 2 signals of one component, 2 rounds of 1 attempt | holds |
| `pipeline_losers` | do losers of the claim attach? | 2 workers, no failure | **violated** |
| `pipeline_silent` | is every work item announced when keys expire? | 2 workers, no failure | **violated** |
| `api_single` | do the handlers of one operator implement `WorkItem`? | 2 items, lost answers, 2 attempts, expiry, crash, fairness | holds |
| `api_reopened` | is CLOSED terminal for two operators? | no failure | **violated** |
| `ims_calm` | do closes and signals interleave well in calm conditions: one open item per component, windows that end only for cause and are given back after a close, every signal processed, no update undone? | 1 worker, 1 operator, 3 signals, keys live, no failure, fairness | holds |
| `ims_team` | is the RCA gate unavoidable for several operators over a real worker, in rows and views; does the feed survive every fault; what leaves a window with a closed item? | 1 worker, 2 operators, 1 signal, 3 bodies, lost answers, expiry, crash | holds |
| `ims_feed` | does a closed item leave the feed? | 1 worker, 1 operator, no failure | **violated** |
| `backend` | are accepted signals accounted for, does the bound hold, do reports add up, what can lose a signal? | 2 workers, 3 signals, queue of 3, threshold 2, 3 offers per process, expiry, crash | holds |
| `monitor` | does a stop end and what it closes stay closed, is an outage named, does the page recover? | 1 worker, 1 queued signal, any outages, threshold 2, fairness | holds |
| `ims_stolen` | does a dedup window end only for cause? | 1 worker, 1 operator, expiry | **violated** |

Why these bounds are enough to be interesting: two signals of one component and
two workers already give every pair of races on a key; the third signal adds a
loser behind a loser and a second component; two rounds of two attempts reach
every branch of both loops (first failure, last failure, failure of the other
kind). Work items are bounded by the signals (each creates at most one per
attempt), in `IncidentApi` by `MaxItems`. `MaxOffers` bounds the offers of one
process between restarts. Symmetry is used only where no liveness property is
checked. `ims_team` has one signal, hence one work item at a time, for size: two
operators and a worker on one row, its feed entry and its key are what its
properties are about, and two operators already let one overwrite between the
read and the write of the other; more signals are in `ims_calm`, and
`IncidentApiProofs` and `ImsProofs` cover any number of both. `backend` lets no
store call fail, for size: its exceptions are those of the losers of a claim and
of orphan placeholders, its publications succeed; `BackendProofs` covers every
failure. With threshold 2 two signals wait in the queue while the third is
refused. `pipeline_hostile` has one component, for size: that a record is of the
signal's own component shows nothing there; `pipeline_window` has two, and the
theorems any number. `ims_team` and `ims_calm` check `ClosedWindowForCause` from two
sides: faults and two operators, re-creations and publications after a close;
both at once, and several workers, are in the theorem. In `monitor` the threshold 2 (10 in `k8s/06-backend.yaml`) already separates a failure
from a row of failures; one worker and the throughput task are the two kinds of
task there are, and `MonitorProofs` covers any number of workers.

`pipeline_window` sets `Expiry = FALSE` and allows no lost acknowledgement on
purpose: a window of 10 seconds can end under a slow insert, and a repeated
insert can make a second row; the code guards against neither. Under those the
weaker properties of `pipeline_hostile` are what remains. `EveryItemAnnounced`
speaks of components all of whose signals were processed: a push that fails for
good leaves its work item unannounced and its signal `failed`. A lost
acknowledgement does make the code count, link or create twice; `DuplicatesBounded`
says no more often than the one call has attempts, `ProcessedOnce` that nothing
else does.

### What the violated runs show

1. `pipeline_losers`: `get_open_work_item` does `int("pending:...")` while the
   winner is still inserting; the loser's signal is dropped with a log line.
   `test_debouncer.py` says everyone else attaches.
2. `pipeline_silent`: when the key goes between the lost `SET NX` and the
   lookup, `workers.py:101` creates a work item that is never pushed or paged.
3. `api_reopened`: the UPDATE names only the id, so a transition that read
   RESOLVED before somebody's close takes the item out of CLOSED.
4. `ims_stolen`: `clear_dedup` deletes the key even if it belongs to the
   component's next, open work item.
5. `ims_feed`: a worker that has inserted a work item pushes it to the live feed
   without looking again; a close in between finds nothing to pull, and the entry
   stays. `incidents_api.py:115` says "Pull from live feed once closed."
   `OpenStaysInFeed`, the other direction, holds and is proved.

Four more things met while modelling, which have no run of their own:
`README.md:14` and `:217` call Redis the queue, while accepted signals live in
process memory and go with it (`BackendCrash` empties `queue`). `stop_workers` sets
the event the throughput task waits for and cancels the task in the same step:
the cancellation is swallowed (Python 3.11, as in the image; since 3.12
`wait_for` does not), nobody awaits the task, and it may use Redis after
"workers.stopped" (`DatabasesStayClosed` therefore leaves Redis out).
`/health` is the liveness probe, so an outage of one store restarts a backend
that could serve the rest. With Redis out `/metrics` is a 500 without JSON, and
the page raises before it lists the work items, which need only PostgreSQL.

Three more lose or refuse something, and the models have them as they are. pymongo puts the `_id` into `raw_doc`, so after a lost acknowledgement of
`insert_one` every retry is a `DuplicateKeyError` and the stored signal is dropped
(`InsertRaw`; `README.md:229`: "critical database operations are not lost").
`create_work_item` is not idempotent: a lost acknowledgement of its COMMIT leaves a
second work item that no key, feed entry or link names (`InsertItem`;
`simulate_outage.py:5`: "ONE work item"). And two first submissions of an RCA may
both see no row; the UNIQUE of `rca.work_item_id` refuses the second INSERT, nothing
retries it, and a valid submission is answered 500 (`SaveRca`; `README.md:220`: "safe
updates without race conditions").

### Fairness

* `Pipeline`: a free worker takes a queued signal (`WF` of some `Take`: the
  worker loops poll), and every awaited call answers or raises (`WF` of
  `ProcessOne(s)`). The second is an assumption on the clients: the code sets no
  command timeouts.
* `IncidentApi`: the same for a handler's calls (`Serve`). Which requests
  arrive is not fair.
* `IMS`: both. `Ingestion` and `Backend` are checked for safety alone: with expiry,
  crashes and a queue that fills while all workers are busy, the instance is too
  large for TLC under fairness. That workers keep taking and ending signals while
  others queue is `EverySignalSettles` and `EverySignalProcessed`.
* `Lifespan`: the event loop runs every task that can run, store calls end,
  `lifespan()` goes on. That the process is asked to stop is not fair.
* `Monitor`: pings answer or raise (the clients' connect timeouts), the kubelet
  probes and restarts, the browser keeps the page open. Outages are not fair;
  the properties speak of stores that are out, or back, for good.
* Expiry and crashes are never fair.

## 4. The proofs

All hold for every value of the constants (any number of workers, operators,
signals, components, attempts), under the modules' named `ASSUME`s.

* `BackendProofs`: first, of `Ingestion` alone, `IngestTypeOK`, `Conservation`,
  `DepthBounded`, `ReportAddsUp`. The invariant adds that the report on its way to
  Redis adds up too; it and the types make the counters' arithmetic inductive.
  Then, of the composition: every step of `Backend` is one of `Ingestion` and one of
  `Pipeline`, or leaves that part alone, so `BackendSpec` implies both
  (`BackendImplementsIngestion`, `BackendImplementsPipeline`) and with them what is
  proved of each. That takes the counts to be those of the real queue and workers,
  which rests on no signal being queued twice and on the set of signals in
  processing being finite. `BackendDroppedOnlyInRace` carries `DroppedOnlyInRace`
  over, with expiry and crashes.
* `IncidentApiProofs`: `ApiTypeOK`, `ClosedIsDocumented`, `CloseIsEarned`,
  `ViewsDocumented`, with failures, crashes and expiry.
  A handler writes CLOSED, or shows it, on what it read, perhaps long ago. The
  argument: whatever passes the schema and the handler is complete
  (`AcceptedBody`), so every stored RCA is (`StoredComplete`), RCA rows are only
  replaced by such ones and never deleted, so the RCA is still valid when the
  close is written or the view rendered. The state it read may well be stale,
  which is why `ClosedIsTerminal` is no theorem here.
* `SoloProofs`: with one operator (`Alone`) it is one. What a handler has read is
  then still so when it writes, or its own write, whose answer was lost, has made
  it so; hence `EndedIffClosed`, `ClosedIsTerminal` and the refinement
  `ImplementsWorkItem`.
* `PipelineProofs`, hostile part: `TypeOK` and `RecordsAgree` (of which
  `KeysOwnItems` is a part) with any failures, expiry and crashes. `TypeOK`
  includes that every id held anywhere is the id of a row, which is not inductive
  alone: `SignalOK` ties the stage of a signal to what the stores hold of it.
* `PipelineProofs`, debounce: `Debounce` proves `OneItemPerComponent` and
  `ClaimHeldAtCreate` from two hypotheses, `KeysLive` (no expiry) and
  `NothingLost` (no failure is applied). The invariant `DebounceIInv` adds: an
  absent key means no work item, a creating worker's component has none, a
  lookup finds the key, and so nobody is in the re-create branch.
  `ClaimHeldAtCreateHolds` states the claim by itself. `DebouncerRefinement` maps
  every step to one of `Debouncer` or a stutter, with or without the two
  hypotheses (`Single` is their conjunction).
* `PipelineProofs`, placeholders: `PlaceholderIsHeld` in the hostile case, and
  `DroppedOnlyInRace` where no call fails (`Failures = {}`; keys may expire, the
  process may crash, workers are as many as one likes). One invariant,
  `HolderIInv`, serves both: a placeholder's worker stands before its
  publication, or is `lost`, or, only where calls can fail, `failed`; and where
  none fails no document is stored before its insert, so the insert cannot be
  refused as a duplicate. What is left to raise is the lookup of a placeholder,
  and the invariant says whose it is.
* `PipelineCounts`, over finitely many signals: `CountCoversLinks` in the hostile
  case, `ProcessedOnce` and `CountsSettle` under `NothingLost`,
  `EveryItemAnnounced` under both hypotheses. The counts compare a number in a
  row with the cardinality of a set of signals; the invariants count, beside the
  linked signals, those a worker has already counted and not yet linked.
* `ImsProofs`: the composition, for any number of workers, signals and operators.
  The invariants of both parts are kept by the other's steps because of two
  frames: the workers only add rows, counts and feed entries, the handlers change
  neither a row's component nor its count. `OpenStaysInFeed` follows because only
  a handler whose close was written scans and removes, and `ended` is never
  cleared. `PartsKeepTheirPromises` is the RCA gate, the types and the stores'
  agreement over the real workers and handlers together. The counts
  (`ImsCountCoversLinksHolds`, `ImsCountsHold`) and the placeholders
  (`ImsPlaceholderIsHeld`, `ImsDroppedOnlyInRace`) are carried over with the same
  frames: a close deletes keys and writes none, and keeps every count.
* `ImsProofs`, one operator (`Alone`) beside any workers and every fault:
  `ImsImplementsWorkItem` and `ImsClosedForGood`. What the operator's handler read
  stays true although workers write the same rows, because an increment leaves
  everything `WorkItem` shows of a row alone and an insert only adds one.
* `ImsProofs`, windows, without any hypothesis: `ClosedWindowForCause`. Every action
  that can bring a key, a closed row and the absence of a clean-up together is gone
  through: a close that is written starts its clean-up in the same step, and the
  clean-up ends with the DEL; a publication under `XX` writes only over its own
  placeholder, unless another worker's stands there. What remains are the causes
  the property lists.
* `ImsProofs`, `ApartSpec`: `OneOpenItem` and `WindowEndsForCause`, for any number of
  workers, operators, signals and components, with crashes and calls that fail
  without effect. `ApartIInv` says which work items of a component may be open at
  each call: none while a worker creates or re-creates, its own alone between the
  insert and the publication or the overwrite, the key's alone once the key names
  one, and none while the key is absent unless its worker is about to overwrite
  it. And while a clean-up runs its component has no open work item. For the
  second property `PublishedAlone` adds that a publication never replaces the key of
  another open work item.
* `MonitorProofs`: `LifespanTypeOK` and `DatabasesStayClosed` for every number of
  workers: while the clients are closed no worker is left, and the task that may
  be left uses Redis alone. Then `MonitorImplementsLifespan`: a probe that stops
  the process does what `Stop` does and is asked only of a process that serves,
  so every step of `Monitor` is one of `Lifespan` or leaves the process alone, and
  both properties carry over (`WatchedDatabasesStayClosed`); and `MonitorTypeOK`.

`StoresProofs` holds the facts about rows the proofs of both sides use.

How the hypotheses stand to the code. It enforces none of them: a window is 10
seconds (`KeysLive`), an acknowledgement may be lost (`NothingLost`), operators
come as they come (`Alone`, `MovesApart`). The theorems under them say that the
design is right where its assumptions hold, the violated runs what happens where
they do not, and the theorems without them what holds regardless. Those of
`ApartSpec` leave out neither faults nor numbers, only overlaps:

| hypothesis | without it |
| --- | --- |
| `CreationsApart`: of two signals of one component at most one is creating | after a close, a worker that found no key and one that won the claim create side by side |
| `MovesApart`: of two operators on one work item at most one is past its read | `api_reopened`: a closed work item opens again beside the next |
| `RecreationsEnd`: the SET after a re-creation takes effect or is tried again | the process dies before it: an open work item without a key, and the next signal opens another |
| `KeysLive` | the key ends, the next signal opens a second work item (`ims_stolen` for `WindowEndsForCause`) |
| `NothingLost` | a lost acknowledgement of the INSERT leaves two open work items |
| `PublicationsApart` (for `WindowEndsForCause`): nobody creates while another is about to publish a work item closed under it | `SET XX` of the closed item's worker overwrites the key of the next |

TLC finds the property violated when any one of them is dropped from an
instance of two workers and three signals, or of two signals and two operators.
`ims_calm` is an instance in which all of them hold: one worker, one operator, no
failure, no crash, keys that live. `CreationsApart` is what the claim (`SET NX`) is
there to provide, and does provide as long as no close deletes a key:
`ClaimHeldAtCreate` says so for `Pipeline` alone.

Every invariant and every safety or refinement property of a passing run is
stated by a theorem, but two, which are only model-checked: `DuplicatesBounded`,
whose bounds are products of constants, out of the solver's reach, and
`ClosedKeyIsBeingCleared`, which holds of one worker and no failure; what holds of
any number and every fault is `ClosedWindowForCause`. Liveness under fairness is out
of the prover's reach and only model-checked: `EverySignalSettles`,
`EverySignalProcessed`, `EveryRequestAnswered`, `StopCompletes`, `CulpritNamed`,
`PageRecovers`. The inductive invariant of `ApartSpec` was model-checked before it
was proved, with three signals, with two operators, and with failures and a
crash.

## 5. Not modelled

Wall-clock time (rates, delays, MTTR's value; a TTL may end at any moment),
severities and component types (they select an alert tier and a score),
metric buckets by minute, the rate limiter, requests with a single read,
configuration, logging and the load scripts. The dashboard's RCA form posts what
an operator of `IncidentApi` posts, with both times taken at once and so in
order; its tables and charts only render. A call that hangs for ever is excluded
by fairness: the code sets no command timeouts. How long a ping of a store that
is out takes, and so whether the probe's timeout ends it first, makes no
difference to the probe's verdict.

One backend process is modelled, as deployed (`replicas: 1`). During a rolling
update two run for a while (`maxSurge: 1`); their workers race like workers of
one process, and only the queues are apart.

## 6. Plan

1. (done) `Lifecycle`, `Retry`, `Stores`; `Pipeline` and its runs; `IncidentApi`
   with `WorkItem`; `Ingestion`; `IMS`; type invariants and the first safety
   theorems.
2. (done) The clean-up of a close and the detail view call by call; several
   operators and every fault in `IMS`; `Debouncer` and its refinement; `Backend`;
   `Lifespan`; `Monitor`; proofs of the counts, of both refinements, of the
   composition and of the stop.
3. (done) `Backend` as the conjunction of its parts, with its proofs; `Monitor` over
   the whole process of `Lifespan`.
4. (done) Nearly every safety property of a passing run proved: placeholders and drops,
   the windows of `IMS` with and without hypotheses, its refinement of `WorkItem`
   for one operator, exact counts beside operators, `Monitor` as a refinement of
   `Lifespan`.
5. Left: a bound on duplicates by the acknowledgements lost, and its proof; `IMS`
   as an implementation of `Debouncer` without `Single` (attached once, however
   closes fall); `IMS` behind the bounded queue of `Backend`; MTTR and the time
   order of an RCA with naive times; the rate limiter's fixed window.
