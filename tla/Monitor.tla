------------------------------- MODULE Monitor -------------------------------
(***************************************************************************)
(* The process of Lifespan and who watches it, while stores go out:        *)
(* GET /health pings the three stores one after another; the kubelet's     *)
(* liveness probe asks it and restarts the container after enough failures *)
(* in a row; a run of the dashboard's page asks it first, then /metrics    *)
(* (Redis) and the work items (PostgreSQL).  Any answer that is not JSON,  *)
(* as that of an unhandled exception, raises in the page and ends its run. *)
(* How long a ping of a store that is out takes is left out, as is a stop  *)
(* for another cause than the probe.                                       *)
(***************************************************************************)
EXTENDS Lifespan, Sequences

CONSTANT FailureThreshold   (* livenessProbe.failureThreshold                 *)

ASSUME MonitorAssumption == FailureThreshold \in Nat \ {0}

Pings    == <<"postgres", "mongo", "redis">>
Services == {"postgres", "mongo", "redis"}
Askers   == {"kubelet", "page"}

VARIABLES up,        (* the stores that answer                                *)
          check,     (* per asker its GET /health: pings done and failed      *)
          failures,  (* failed probes in a row                                *)
          page,      (* the request the page's run awaits, or how it ended    *)
          badge      (* "ok" or "down", as the page shows the backend         *)

watchVars   == <<up, check, failures, page, badge>>
monitorVars == <<lifespanVars, watchVars>>

\* The process accepts requests.
running == phase = "serving"

\* A request for /health: `done` pings of Pings made, those of `bad` failed.
Checks == [asked : BOOLEAN, done : 0 .. Len(Pings), bad : SUBSET Services]
NoCheck == [asked |-> FALSE, done |-> 0, bad |-> {}]

PageStages == {"health", "metrics", "live", "closed", "detail", "done", "broken"}

MonitorInit == /\ LifespanInit
               /\ up = Services
               /\ check = [a \in Askers |-> NoCheck]
               /\ failures = 0
               /\ page = "done" /\ badge = "ok"

-----------------------------------------------------------------------------
\* A store goes out or comes back.
Outage(s) == /\ up' = IF s \in up THEN up \ {s} ELSE up \cup {s}
             /\ UNCHANGED <<lifespanVars, check, failures, page, badge>>

Ask(a) == /\ running /\ ~check[a].asked
          /\ check' = [check EXCEPT ![a].asked = TRUE]

\* Mutant: the first failure is the answer.
PingUntilBad(a) ==
  LET n == check[a].done + 1 IN
  /\ check[a].asked /\ n <= Len(Pings)
  /\ check' = [check EXCEPT ![a] =
       IF Pings[n] \in up THEN [@ EXCEPT !.done = n]
                          ELSE [@ EXCEPT !.done = Len(Pings), !.bad = {Pings[n]}]]
  /\ UNCHANGED <<lifespanVars, up, failures, page, badge>>

\* One ping of health(); an exception makes its check False and is kept.
Ping(a) ==
  LET n == check[a].done + 1 IN
  /\ check[a].asked /\ n <= Len(Pings)
  /\ check' = [check EXCEPT ![a].done = n,
                            ![a].bad = IF Pings[n] \in up THEN @ ELSE @ \cup {Pings[n]}]
  /\ UNCHANGED <<lifespanVars, up, failures, page, badge>>

\* 200 if every check is True, else 503.
Answered(a) == check[a].done = Len(Pings)
Healthy(a)  == check[a].bad = {}

-----------------------------------------------------------------------------
Probe == Ask("kubelet") /\ UNCHANGED <<lifespanVars, up, failures, page, badge>>

\* The stop takes the handlers with it; the page's request is reset.
Killed == /\ Stop /\ failures' = 0
          /\ check' = [a \in Askers |-> NoCheck]
          /\ page' = IF check["page"].asked THEN "broken" ELSE page

\* Mutant: one failure too many.
ProbeEndsLate ==
  LET failed == IF Healthy("kubelet") THEN 0 ELSE failures + 1 IN
  /\ Answered("kubelet")
  /\ IF failed <= FailureThreshold
     THEN /\ failures' = failed
          /\ check' = [check EXCEPT !["kubelet"] = NoCheck]
          /\ UNCHANGED <<lifespanVars, page>>
     ELSE Killed
  /\ UNCHANGED <<up, badge>>

\* The kubelet's verdict; after enough failures it stops the process.
ProbeEnds ==
  LET failed == IF Healthy("kubelet") THEN 0 ELSE failures + 1 IN
  /\ Answered("kubelet")
  /\ IF failed < FailureThreshold
     THEN /\ failures' = failed
          /\ check' = [check EXCEPT !["kubelet"] = NoCheck]
          /\ UNCHANGED <<lifespanVars, page>>
     ELSE Killed
  /\ UNCHANGED <<up, badge>>

\* What lifespan() and the tasks do by themselves.
Inside == /\ Goes \/ Arrive \/ Interval \/ \E t \in Tasks : Run(t) \/ UseClient(t)
          /\ UNCHANGED watchVars

-----------------------------------------------------------------------------
PageGoes(next) == page' = next /\ UNCHANGED <<lifespanVars, up, check, failures, badge>>

\* Mutant: the timer is started at the end of the page.
RefreshAtEnd == /\ page = "done" /\ page' = "health"
                /\ UNCHANGED <<lifespanVars, up, check, failures, badge>>

\* st_autorefresh is called before the first request: a run that raises is
\* followed by another.
Refresh == /\ page \in {"done", "broken"} /\ page' = "health"
           /\ UNCHANGED <<lifespanVars, up, check, failures, badge>>

PageAsks == /\ page = "health" /\ Ask("page")
            /\ UNCHANGED <<lifespanVars, up, failures, page, badge>>

PageHealth == /\ page = "health" /\ Answered("page")
              /\ check' = [check EXCEPT !["page"] = NoCheck]
              /\ badge' = IF Healthy("page") THEN "ok" ELSE "down"
              /\ page' = "metrics"
              /\ UNCHANGED <<lifespanVars, up, failures>>

\* The connection is refused or reset; only the closed list is inside a try.
PageUnanswered == /\ page \in {"health", "metrics", "live", "detail"} /\ ~running
                  /\ PageGoes("broken")

\* A request that needs one store.
PageGet(at, store, next) ==
  /\ page = at /\ running
  /\ PageGoes(IF store \in up THEN next ELSE "broken")

\* An id for the detail is typed in or not.
PageRun == \/ Refresh \/ PageAsks \/ PageHealth \/ PageUnanswered
           \/ PageGet("metrics", "redis", "live")
           \/ PageGet("live", "postgres", "closed")
           \/ page = "closed" /\ PageGoes("detail")
           \/ page = "detail" /\ PageGoes("done")
           \/ PageGet("detail", "postgres", "done")

MonitorNext == \/ \E s \in Services : Outage(s)
               \/ \E a \in Askers : Ping(a)
               \/ Probe \/ ProbeEnds \/ PageRun \/ Inside

MonitorSpec == MonitorInit /\ [][MonitorNext]_monitorVars

(***************************************************************************)
(* Fairness: that of the process; pings answer or raise, the kubelet       *)
(* probes and restarts, and the page, open in a browser, is run again and  *)
(* again.  Outages and their ends are not fair.                            *)
(***************************************************************************)
MonitorFairSpec == /\ MonitorSpec /\ LifespanFairness
                   /\ \A a \in Askers : WF_monitorVars(Ping(a))
                   /\ WF_monitorVars(Probe) /\ WF_monitorVars(ProbeEnds)
                   /\ WF_monitorVars(PageRun)

-----------------------------------------------------------------------------
(***************************************************************************)
(* Properties, beside those of Lifespan.                                   *)
(***************************************************************************)
WatchersTypeOK == /\ up \subseteq Services
                  /\ check \in [Askers -> Checks]
                  /\ failures \in 0 .. FailureThreshold - 1
                  /\ page \in PageStages /\ badge \in {"ok", "down"}

\* Types of the process and of those who watch it.
MonitorTypeOK == LifespanTypeOK /\ WatchersTypeOK

\* Every store that is out for good is named by /health again and again,
\* however many others are out too: each restart the probes lead to ends.
CulpritNamed ==
  \A s \in Services : <>[](s \notin up) =>
    []<>(Answered("kubelet") /\ s \in check["kubelet"].bad)

\* Once the stores are back for good, so is the page: run after run it gets
\* to its end and shows the backend as OK, though earlier runs raised and
\* the backend was stopped and started under it.
PageRecovers ==
  <>[](up = Services) => []<>(page = "done" /\ badge = "ok")
=============================================================================
