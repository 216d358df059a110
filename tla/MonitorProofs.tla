---------------------------- MODULE MonitorProofs ----------------------------
(***************************************************************************)
(* Proofs about Lifespan, for every set of workers, and about Monitor,     *)
(* which watches such a process.  What closes the databases for good is    *)
(* that the workers are awaited first: the one task that may survive them  *)
(* uses Redis alone.  The watchers stop a process, but only in the way     *)
(* Lifespan does.                                                          *)
(***************************************************************************)
EXTENDS Monitor, TLAPS

\* While the clients are being closed no worker is left.
WorkersGone == phase \in {"postgres", "mongo", "redis", "complete"} =>
                 \A w \in WorkerTasks : task[w] = "none"

LifespanIInv == LifespanTypeOK /\ WorkersGone /\ DatabasesStayClosed

\* A process that has not started satisfies the invariant.
LEMMA LifespanInitInv == LifespanInit => LifespanIInv
<1> SUFFICES ASSUME LifespanInit PROVE LifespanIInv
  OBVIOUS
<1>1. LifespanTypeOK
  <2>1. shutdown \in BOOLEAN
    BY Zenon DEF LifespanInit
  <2>2. task \in [Tasks -> TaskStates]
    BY DEF LifespanInit, TaskStates
  <2>3. phase \in Phases /\ open \subseteq Clients /\ doomed \subseteq Tasks
    BY DEF LifespanInit, Phases
  <2>4. queued \in 0 .. MaxQueue
    BY LifespanAssumption DEF LifespanInit
  <2> QED
    BY <2>1, <2>2, <2>3, <2>4 DEF LifespanTypeOK
<1>2. WorkersGone /\ DatabasesStayClosed
  BY DEF LifespanInit, WorkersGone, DatabasesStayClosed, Closed
<1> QED
  BY <1>1, <1>2 DEF LifespanIInv

\* Every step keeps it.
LEMMA LifespanNextInv == LifespanIInv /\ [LifespanNext]_lifespanVars => LifespanIInv'
<1> SUFFICES ASSUME LifespanIInv, [LifespanNext]_lifespanVars PROVE LifespanIInv'
  OBVIOUS
<1> USE LifespanAssumption
    DEF LifespanIInv, LifespanTypeOK, WorkersGone, DatabasesStayClosed, Closed, Phases,
        TaskStates, Clients, Tasks
<1>1. CASE Connect \/ StartWorkers
  BY <1>1 DEF Connect, StartWorkers
<1>2. CASE Arrive
  BY <1>2 DEF Arrive
<1>3. CASE Stop
  BY <1>3 DEF Stop
<1>4. CASE Joined
  BY <1>4 DEF Joined
<1>5. CASE CloseClients
  BY <1>5 DEF CloseClients, Close
<1>6. CASE Interval
  BY <1>6 DEF Interval
<1>7. ASSUME NEW t \in Tasks, Resume(t) \/ Cancelled(t) PROVE LifespanIInv'
  BY <1>7 DEF Resume, Cancelled
<1>8. ASSUME NEW t \in Tasks, NextRound(t) PROVE LifespanIInv'
  BY <1>8 DEF NextRound
<1>9. ASSUME NEW t \in Tasks, UseClient(t) PROVE LifespanIInv'
  <2>1. PICK c \in Clients : (t = Throughput => c = "redis") /\ open' = open \cup {c}
    BY <1>9 DEF UseClient
  <2>2. task[t] = "busy" /\ UNCHANGED <<phase, shutdown, task, doomed, queued>>
    BY <1>9 DEF UseClient
  <2>3. \A d \in {"postgres", "mongo"} : Closed(d) => t = Throughput
    BY <2>2
  <2> QED
    BY <2>1, <2>2, <2>3
<1>10. CASE Restart
  <2>1. phase' = "connecting" /\ open' = {} /\ doomed' = {} /\ queued' = 0
    BY <1>10 DEF Restart
  <2>2. shutdown' \in BOOLEAN
    BY <1>10, Zenon DEF Restart
  <2>3. task' \in [Tasks -> TaskStates]
    BY <1>10 DEF Restart
  <2> QED
    BY <2>1, <2>2, <2>3
<1>11. CASE UNCHANGED lifespanVars
  BY <1>11 DEF lifespanVars
<1> QED
  BY <1>1, <1>2, <1>3, <1>4, <1>5, <1>6, <1>7, <1>8, <1>9, <1>10, <1>11
  DEF LifespanNext, Goes, Run

\* The inductive invariant holds in every reachable state of the process.
THEOREM LifespanInvariance == LifespanSpec => []LifespanIInv
<1> QED
  BY LifespanInitInv, LifespanNextInv, PTL DEF LifespanSpec

\* Types, for every number of workers and every length of the queue: no
\* worker takes a signal from an empty queue.
THEOREM LifespanTypeOKHolds == LifespanSpec => []LifespanTypeOK
<1>1. LifespanIInv => LifespanTypeOK
  BY DEF LifespanIInv
<1> QED
  BY <1>1, LifespanInvariance, PTL

(***************************************************************************)
(* What a stop closes stays closed, for every number of workers: neither   *)
(* database client is opened again, though tasks may swallow their         *)
(* cancellation and a closed client reopens itself when it is used.        *)
(***************************************************************************)
THEOREM DatabasesStayClosedHolds == LifespanSpec => []DatabasesStayClosed
<1>1. LifespanIInv => DatabasesStayClosed
  BY DEF LifespanIInv
<1> QED
  BY <1>1, LifespanInvariance, PTL
-----------------------------------------------------------------------------
(***************************************************************************)
(* The watched process.                                                    *)
(***************************************************************************)
\* A /health is under way only in a process that serves: a stop takes every
\* handler with it, and none is begun before the next start.
AskedInService == \A a \in Askers : check[a].asked => running

MonitorIInv == WatchersTypeOK /\ AskedInService

\* A watcher's step is none of the process's, but for the stop.
LEMMA WatchedStep == [MonitorNext]_monitorVars => [LifespanNext]_lifespanVars
<1> SUFFICES ASSUME [MonitorNext]_monitorVars PROVE [LifespanNext]_lifespanVars
  OBVIOUS
<1>1. CASE \/ \E s \in Services : Outage(s)
           \/ \E a \in Askers : Ping(a)
           \/ Probe
  BY <1>1 DEF Outage, Ping, Probe
<1>2. CASE ProbeEnds
  BY <1>2 DEF ProbeEnds, Killed, LifespanNext
<1>3. CASE PageRun
  BY <1>3 DEF PageRun, Refresh, PageAsks, PageHealth, PageUnanswered, PageGet, PageGoes
<1>4. CASE Inside
  BY <1>4 DEF Inside, LifespanNext
<1>5. CASE UNCHANGED monitorVars
  BY <1>5 DEF monitorVars
<1> QED
  BY <1>1, <1>2, <1>3, <1>4, <1>5 DEF MonitorNext

\* What the tasks and lifespan() do by themselves ends no service.
LEMMA InsideServes == Inside /\ running => running'
BY DEF Inside, running, Goes, Connect, StartWorkers, Joined, CloseClients, Close, Restart,
       Arrive, Interval, Run, Resume, Cancelled, NextRound, UseClient

\* All stores answer and nobody has asked.
LEMMA MonitorInitInv == MonitorInit => MonitorIInv
BY MonitorAssumption
DEF MonitorInit, MonitorIInv, WatchersTypeOK, AskedInService, Checks, NoCheck, Pings,
    PageStages

\* Every step of the watchers keeps the invariant.
LEMMA MonitorNextInv == MonitorIInv /\ [MonitorNext]_monitorVars => MonitorIInv'
<1> SUFFICES ASSUME MonitorIInv, [MonitorNext]_monitorVars PROVE MonitorIInv'
  OBVIOUS
<1>0. /\ check \in [Askers -> Checks] /\ NoCheck \in Checks /\ Len(Pings) = 3
      /\ up \subseteq Services /\ failures \in 0 .. FailureThreshold - 1
      /\ page \in PageStages /\ badge \in {"ok", "down"}
      /\ \A a \in Askers : check[a].asked => running
  BY DEF MonitorIInv, WatchersTypeOK, AskedInService, Checks, NoCheck, Pings
<1>1. CASE \E s \in Services : Outage(s)
  BY <1>0, <1>1 DEF Outage, lifespanVars, running, MonitorIInv, WatchersTypeOK, AskedInService
<1>2. ASSUME NEW a \in Askers, Ping(a) PROVE MonitorIInv'
  <2> DEFINE n == check[a].done + 1
  <2>1. /\ check[a].asked /\ n \in 1 .. 3 /\ Pings[n] \in Services
        /\ UNCHANGED <<lifespanVars, up, failures, page, badge>>
    BY <1>0, <1>2 DEF Ping, Checks, Pings, Services
  <2>2. PICK bad \in SUBSET Services :
          check' = [check EXCEPT ![a].done = n, ![a].bad = bad]
    BY <1>0, <1>2, <2>1 DEF Ping, Checks
  <2>3. PICK after : after = [check[a] EXCEPT !.done = n, !.bad = bad]
    OBVIOUS
  <2>4. check[a] \in Checks /\ n \in 0 .. Len(Pings)
    BY <1>0, <2>1
  <2>5. after \in Checks /\ after.asked = check[a].asked
    <3> HIDE DEF n
    <3> QED
      BY <2>3, <2>4 DEF Checks
  <2>6. check' = [check EXCEPT ![a] = after]
    BY <2>2, <2>3
  <2>7. /\ check' \in [Askers -> Checks]
        /\ \A b \in Askers : check'[b].asked = check[b].asked
    BY <1>0, <2>5, <2>6
  <2> QED
    BY <1>0, <2>1, <2>7
    DEF lifespanVars, running, MonitorIInv, WatchersTypeOK, AskedInService
<1>3. ASSUME NEW a \in Askers, Ask(a), UNCHANGED <<lifespanVars, up, failures, page, badge>>
      PROVE  MonitorIInv'
  <2>1. check' \in [Askers -> Checks] /\ running /\ UNCHANGED phase
    BY <1>0, <1>3 DEF Ask, Checks, lifespanVars
  <2> QED
    BY <1>0, <1>3, <2>1 DEF running, MonitorIInv, WatchersTypeOK, AskedInService
<1>4. CASE ProbeEnds
  <2>1. CASE Killed /\ UNCHANGED <<up, badge>>
    BY <1>0, <2>1, MonitorAssumption
    DEF Killed, PageStages, NoCheck, MonitorIInv, WatchersTypeOK, AskedInService
  <2>2. ASSUME NEW failed \in Nat, failed < FailureThreshold, failures' = failed,
               check' = [check EXCEPT !["kubelet"] = NoCheck],
               UNCHANGED <<lifespanVars, page, up, badge>>
        PROVE  MonitorIInv'
    <3>1. /\ check' \in [Askers -> Checks] /\ UNCHANGED phase
          /\ \A a \in Askers : check'[a].asked => check[a].asked
      BY <1>0, <2>2 DEF lifespanVars, NoCheck
    <3>2. failures' \in 0 .. FailureThreshold - 1
      BY <2>2, MonitorAssumption
    <3> QED
      BY <1>0, <2>2, <3>1, <3>2 DEF running, MonitorIInv, WatchersTypeOK, AskedInService
  <2> QED
    BY <1>0, <1>4, <2>1, <2>2, MonitorAssumption DEF ProbeEnds
<1>5. CASE PageRun
  <2>1. CASE PageAsks
    BY <1>3, <2>1 DEF PageAsks, Askers
  <2>2. CASE PageHealth
    BY <1>0, <2>2
    DEF PageHealth, lifespanVars, running, NoCheck, PageStages, MonitorIInv, WatchersTypeOK,
        AskedInService
  <2>3. ASSUME NEW next \in PageStages, page' = next,
               UNCHANGED <<lifespanVars, up, check, failures, badge>>
        PROVE  MonitorIInv'
    BY <1>0, <2>3 DEF lifespanVars, running, MonitorIInv, WatchersTypeOK, AskedInService
  <2>4. CASE ~PageAsks /\ ~PageHealth
    <3>1. \E next \in PageStages : /\ page' = next
                                   /\ UNCHANGED <<lifespanVars, up, check, failures, badge>>
      BY <1>5, <2>4
      DEF PageRun, Refresh, PageUnanswered, PageGet, PageGoes, PageStages
    <3> QED
      BY <2>3, <3>1
  <2> QED
    BY <2>1, <2>2, <2>4
<1>6. CASE Inside
  BY <1>0, <1>6, InsideServes
  DEF Inside, watchVars, MonitorIInv, WatchersTypeOK, AskedInService
<1>7. CASE UNCHANGED monitorVars
  BY <1>0, <1>7
  DEF monitorVars, watchVars, lifespanVars, running, MonitorIInv, WatchersTypeOK,
      AskedInService
<1> QED
  BY <1>1, <1>2, <1>3, <1>4, <1>5, <1>6, <1>7 DEF MonitorNext, Probe, Askers

(***************************************************************************)
(* The watched process is one of Lifespan: outages, probes and the page    *)
(* add nothing to what it does, a probe that stops it does what Stop does. *)
(***************************************************************************)
THEOREM MonitorImplementsLifespan == MonitorSpec => LifespanSpec
<1>1. MonitorInit => LifespanInit
  BY DEF MonitorInit
<1> QED
  BY <1>1, WatchedStep, PTL DEF MonitorSpec, LifespanSpec

(***************************************************************************)
(* So what a stop closes stays closed, whenever the probe stops it.        *)
(***************************************************************************)
THEOREM WatchedDatabasesStayClosed == MonitorSpec => [](LifespanTypeOK /\ DatabasesStayClosed)
<1> QED
  BY MonitorImplementsLifespan, LifespanTypeOKHolds, DatabasesStayClosedHolds, PTL

(***************************************************************************)
(* The count of failed probes stays below the threshold, a check names     *)
(* only stores it has pinged for, whatever goes out while it runs; and it  *)
(* runs only in a process that serves.                                     *)
(***************************************************************************)
THEOREM MonitorTypeOKHolds == MonitorSpec => []MonitorTypeOK
<1>1. MonitorSpec => []MonitorIInv
  BY MonitorInitInv, MonitorNextInv, PTL DEF MonitorSpec
<1>2. MonitorSpec => []LifespanTypeOK
  BY WatchedDatabasesStayClosed, PTL
<1>3. MonitorIInv /\ LifespanTypeOK => MonitorTypeOK
  BY DEF MonitorIInv, MonitorTypeOK
<1> QED
  BY <1>1, <1>2, <1>3, PTL
=============================================================================
