------------------------------ MODULE Lifespan ------------------------------
(***************************************************************************)
(* main.py's lifespan: the process opens its three store clients, starts   *)
(* the worker tasks and the throughput task, serves, stops the tasks and   *)
(* closes the clients.  A client used while it is closed opens itself      *)
(* again.  Tasks are cancelled, and asyncio delivers a cancellation when   *)
(* the task runs next: in Python 3.11 wait_for swallows it if what it      *)
(* waits for is there already, and the task goes on.                       *)
(***************************************************************************)
EXTENDS Naturals

CONSTANTS WorkerTasks,  (* settings.worker_count of them                      *)
          Throughput,   (* the throughput task                                *)
          MaxQueue      (* bound on the signals waiting in this instance      *)

ASSUME LifespanAssumption == Throughput \notin WorkerTasks /\ MaxQueue \in Nat

Tasks == WorkerTasks \cup {Throughput}
Clients == {"postgres", "mongo", "redis"}

VARIABLES phase,     (* where lifespan() stands                               *)
          open,      (* the clients that are open                             *)
          shutdown,  (* the event _shutdown                                   *)
          task,      (* what each task awaits                                 *)
          doomed,    (* tasks cancelled that have not run since               *)
          queued     (* signals on the queue                                  *)

lifespanVars == <<phase, open, shutdown, task, doomed, queued>>

\* A task is not there, waits in wait_for, has been given what it waited for
\* but has not run yet, or awaits a store call.
TaskStates == {"none", "waiting", "given", "busy"}
Phases == {"connecting", "indexing", "serving", "joining",
           "postgres", "mongo", "redis", "complete"}

LifespanInit == /\ phase = "connecting"
                /\ open = {}
                /\ shutdown = FALSE
                /\ task = [t \in Tasks |-> "none"]
                /\ doomed = {}
                /\ queued = 0

-----------------------------------------------------------------------------
\* init_engine and the two init_client await nothing.
Connect == /\ phase = "connecting"
           /\ phase' = "indexing" /\ open' = Clients
           /\ UNCHANGED <<shutdown, task, doomed, queued>>

\* ensure_indexes, whose exception is only logged, then start_workers.
StartWorkers == /\ phase = "indexing"
                /\ phase' = "serving" /\ shutdown' = FALSE
                /\ task' = [t \in Tasks |-> "waiting"]
                /\ UNCHANGED <<open, doomed, queued>>

\* POST /signals; put_nowait hands the signal to a waiting get() if there is one.
Arrive ==
  /\ phase = "serving"
  /\ UNCHANGED <<phase, open, shutdown, doomed>>
  /\ IF \E w \in WorkerTasks : task[w] = "waiting"
     THEN /\ \E w \in WorkerTasks : /\ task[w] = "waiting"
                                    /\ task' = [task EXCEPT ![w] = "given"]
          /\ UNCHANGED queued
     ELSE queued < MaxQueue /\ queued' = queued + 1 /\ UNCHANGED task

\* Mutant: the event is not set, the tasks are only cancelled.
StopByCancelOnly ==
  /\ phase = "serving"
  /\ phase' = "joining"
  /\ doomed' = {t \in Tasks : task[t] # "none"}
  /\ UNCHANGED <<open, shutdown, task, queued>>

\* stop_workers sets the event, which is what the throughput task waits for,
\* and cancels every task, all in one step of the event loop.
Stop ==
  /\ phase = "serving"
  /\ phase' = "joining"
  /\ shutdown' = TRUE
  /\ task' = [task EXCEPT ![Throughput] = IF @ = "waiting" THEN "given" ELSE @]
  /\ doomed' = {t \in Tasks : task[t] # "none"}
  /\ UNCHANGED <<open, queued>>

\* Mutant: the workers are not awaited.
CloseAtOnce == /\ phase = "joining"
               /\ phase' = "postgres"
               /\ UNCHANGED <<open, shutdown, task, doomed, queued>>

\* stop_workers has awaited the workers; nobody awaits the throughput task.
\* The event loop is first in, first out: what Stop made runnable has run.
Joined == /\ phase = "joining"
          /\ \A w \in WorkerTasks : task[w] = "none"
          /\ doomed = {} /\ task[Throughput] # "given"
          /\ phase' = "postgres"
          /\ UNCHANGED <<open, shutdown, task, doomed, queued>>

Close(client, next) == /\ phase = client
                       /\ open' = open \ {client}
                       /\ phase' = next
                       /\ UNCHANGED <<shutdown, task, doomed, queued>>

CloseClients == \/ Close("postgres", "mongo")
                \/ Close("mongo", "redis")
                \/ Close("redis", "complete")

-----------------------------------------------------------------------------
\* The task runs with what it waited for; a cancellation is swallowed.
Resume(t) == /\ task[t] = "given"
             /\ task' = [task EXCEPT ![t] = "busy"]
             /\ doomed' = doomed \ {t}
             /\ UNCHANGED <<phase, open, shutdown, queued>>

\* The cancellation is raised at the task's await; both loops end.
Cancelled(t) == /\ t \in doomed /\ task[t] \in {"waiting", "busy"}
                /\ task' = [task EXCEPT ![t] = "none"]
                /\ doomed' = doomed \ {t}
                /\ UNCHANGED <<phase, open, shutdown, queued>>

\* A store call of _process_one, or of the throughput task (Redis alone); a
\* closed client is opened again.
UseClient(t) ==
  /\ task[t] = "busy" /\ t \notin doomed
  /\ \E c \in Clients : /\ t = Throughput => c = "redis"
                        /\ open' = open \cup {c}
  /\ UNCHANGED <<phase, shutdown, task, doomed, queued>>

\* The loop's condition, then the next get(), which may find a signal there.
NextRound(t) ==
  /\ task[t] = "busy" /\ t \notin doomed
  /\ IF shutdown THEN task' = [task EXCEPT ![t] = "none"] /\ UNCHANGED queued
     ELSE IF t # Throughput /\ queued > 0
     THEN task' = [task EXCEPT ![t] = "given"] /\ queued' = queued - 1
     ELSE task' = [task EXCEPT ![t] = "waiting"] /\ UNCHANGED queued
  /\ UNCHANGED <<phase, open, shutdown, doomed>>

\* The interval of the throughput task is over.  (A worker's second without a
\* signal brings it back to where it waits.)
Interval == /\ task[Throughput] = "waiting"
            /\ task' = [task EXCEPT ![Throughput] = "given"]
            /\ UNCHANGED <<phase, open, shutdown, doomed, queued>>

Run(t) == Resume(t) \/ Cancelled(t) \/ NextRound(t)

\* The container starts a new process.
Restart == /\ phase = "complete"
           /\ phase' = "connecting" /\ open' = {} /\ shutdown' = FALSE
           /\ task' = [t \in Tasks |-> "none"]
           /\ doomed' = {} /\ queued' = 0

Goes == Connect \/ StartWorkers \/ Joined \/ CloseClients \/ Restart

LifespanNext == \/ Goes \/ Arrive \/ Stop \/ Interval
                \/ \E t \in Tasks : Run(t) \/ UseClient(t)

LifespanSpec == LifespanInit /\ [][LifespanNext]_lifespanVars

(***************************************************************************)
(* Fairness: the event loop runs every task that can run, store calls end, *)
(* and lifespan() goes on.  That the process is asked to stop is not fair. *)
(***************************************************************************)
LifespanFairness == /\ WF_lifespanVars(Goes)
                    /\ \A t \in Tasks : WF_lifespanVars(Run(t))

-----------------------------------------------------------------------------
(***************************************************************************)
(* Properties.                                                             *)
(***************************************************************************)
Closed(c) == phase = "complete" \/ (c = "postgres" /\ phase \in {"mongo", "redis"})
                                \/ (c = "mongo" /\ phase = "redis")

LifespanTypeOK == /\ phase \in Phases
                  /\ open \subseteq Clients
                  /\ shutdown \in BOOLEAN
                  /\ task \in [Tasks -> TaskStates]
                  /\ doomed \subseteq Tasks
                  /\ queued \in 0 .. MaxQueue

\* What a stop closes stays closed: no task that still runs opens PostgreSQL's
\* engine or Mongo's client again, though a cancellation may be swallowed and
\* any use of a closed client reopens it.
DatabasesStayClosed ==
  \A c \in {"postgres", "mongo"} : Closed(c) => c \notin open

\* A stop ends, though a worker that swallowed its cancellation processes one
\* more signal and is never cancelled again.
StopCompletes == phase = "joining" ~> phase = "complete"
=============================================================================
