-------------------------------- MODULE IMS --------------------------------
(***************************************************************************)
(* The backend: the workers and the incident API in one process (main.py   *)
(* includes the router and its lifespan starts the workers), over the same *)
(* PostgreSQL and Redis.  Nothing but those stores couples the two.        *)
(***************************************************************************)
EXTENDS Pipeline, IncidentApi

imsVars == <<vars, req>>

ImsInit == Init /\ ApiInit

Process(s) == ProcessOne(s) /\ UNCHANGED req
Dequeue(s) == Take(s) /\ UNCHANGED req

Handle(o)  == HandleRequest(o) /\ UNCHANGED <<localVars, sinkVars>>
Finish(o)  == Serve(o) /\ UNCHANGED <<localVars, sinkVars>>

ExpireDedup(c) == Expire(c) /\ UNCHANGED req

\* One process: when it stops, workers and handlers stop together.
InService == \E o \in Operators : req[o].at # "idle"

ImsCrash == /\ Crashes
            /\ InMemory # {} \/ InService
            /\ DropTasks
            /\ DropRequests
            /\ UNCHANGED storeVars

ImsNext == \/ \E s \in Signals : \/ Accept(s) /\ UNCHANGED req
                                 \/ Dequeue(s)
                                 \/ Process(s)
           \/ \E o \in Operators : Handle(o)
           \/ \E c \in Components : ExpireDedup(c)
           \/ ImsCrash
           \/ AllSettled /\ UNCHANGED imsVars

ImsSpec == ImsInit /\ [][ImsNext]_imsVars

\* The workers' and the handlers' fairness, as in their modules.
ImsFairSpec == /\ ImsSpec
               /\ WF_imsVars(\E s \in Signals : Dequeue(s))
               /\ \A s \in Signals : WF_imsVars(Process(s))
               /\ \A o \in Operators : WF_imsVars(Finish(o))

-----------------------------------------------------------------------------
(***************************************************************************)
(* Where creations of one component and moves of one work item keep apart. *)
(* The claim keeps two winners apart; the branch that creates after a      *)
(* lookup found nothing, and operators, are kept apart by nothing but time.*)
(***************************************************************************)
Creating == {"create", "recreate", "overwrite"}
Moving   == {"gate", "write"} \cup CleanUp

CreationsApart == \A s, t \in Signals :
  s # t /\ CompOf[s] = CompOf[t] => ~({stage[s], stage[t]} \subseteq Creating)

MovesApart == \A o, p \in Operators :
  o # p /\ {req[o].at, req[p].at} \subseteq Moving => req[o].item # req[p].item

\* A work item that was re-created gets its key.
RecreationsEnd == \A s \in Signals : stage[s] = "overwrite" => stage'[s] \in {"overwrite", "link"}

\* No other worker creates for a component while one is about to publish a
\* work item that was closed under it.
PublicationsApart == \A s, t \in Signals :
  s # t /\ CompOf[s] = CompOf[t] /\ stage[s] = "publish" /\ items[wid[s]].state = "CLOSED"
    => stage[t] \notin Creating

ApartSpec == ImsInit /\ [][ImsNext /\ CreationsApart' /\ MovesApart' /\ RecreationsEnd]_imsVars

-----------------------------------------------------------------------------
(***************************************************************************)
(* Properties of the composition, beside those of its parts.               *)
(***************************************************************************)

\* A handler that closed work item i is still cleaning up after it.
BeingCleared(i) == \E o \in Operators : req[o].at \in CleanUp /\ req[o].item = i

\* A closed work item gives its dedup window back: while the key still names
\* a closed work item that was announced, a close is still cleaning up after
\* it (one worker, no failure, no crash; any operators).  It takes the XX of
\* the publication: a close may clear the key before the worker that created
\* the work item publishes its id.  The branch that creates after a lookup
\* found nothing has no XX, and announces nothing: its work items are excepted.
ClosedKeyIsBeingCleared ==
  \A c \in Components :
     dedup[c].kind = "item" /\ dedup[c].of \in alerts =>
       items[dedup[c].of].state # "CLOSED" \/ BeingCleared(dedup[c].of)

\* The window of component c is work item i's: the key holds its id, or the
\* placeholder that its worker is about to replace by the id.
WindowOf(c, i) ==
  \/ dedup[c] = ItemKey(i)
  \/ \E s \in Signals : stage[s] = "publish" /\ wid[s] = i /\ dedup[c] = Pending(s)

\* A handler that (again) writes the close of i, or cleans up after it.
Closing(r) == r.at \in CleanUp \/ (r.at = "write" /\ r.target = "CLOSED")
CloseUnderWay(i) == \E o \in Operators : Closing(req[o]) /\ req[o].item = i

LeftBehind(c) == \E i \in DOMAIN items :
  WindowOf(c, i) /\ items[i].state = "CLOSED" /\ ~CloseUnderWay(i)

GaveUp(o)      == Failures # {} /\ Closing(req[o]) /\ ~Closing(req'[o])
WroteAnyway(s) == \/ stage[s] = "overwrite"
                  \/ stage[s] = "publish" /\ dedup[CompOf[s]] \notin {NoKey, Pending(s)}

\* A close gives the window of its work item back, wherever it falls between
\* the workers' calls and whatever fails, expires or crashes.  A window stays
\* with a closed work item that nobody is clearing only after the process died
\* or a close of the component gave its clean-up up, or when a worker writes a
\* key it does not own any more: it publishes over another's, or re-created
\* after a lookup found nothing (incidents_api.py: a close calls clear_dedup).
ClosedWindowForCause ==
  [][\A c \in Components : LeftBehind(c)' /\ ~LeftBehind(c) =>
       \/ ImsCrash
       \/ \E o \in Operators : GaveUp(o) /\ items[req[o].item].comp = c
       \/ \E s \in Signals : /\ stage'[s] # stage[s] /\ CompOf[s] = c
                             /\ WroteAnyway(s)]_imsVars

\* Nobody works on two incidents where there is one: a component has at most
\* one work item that is not closed, wherever closes, failed calls and crashes
\* fall between the workers' calls.  It takes the hypotheses of ApartSpec.
OneOpenItem ==
  \A i, j \in DOMAIN items :
     items[i].comp = items[j].comp /\ items[i].state # "CLOSED" /\ items[j].state # "CLOSED"
       => i = j

\* Within the window signals attach to the same work item: the key of a work
\* item that is not closed goes only by its TTL (simulate_outage.py: "these
\* should ATTACH to the same work item, not create new ones").  It takes
\* the hypotheses of ApartSpec and PublicationsApart; with expiry it is not so.
WindowEndsForCause ==
  [][\A c \in Components :
       dedup[c].kind = "item" /\ items[dedup[c].of].state # "CLOSED" =>
         dedup'[c] = dedup[c] \/ ExpireDedup(c)]_imsVars

\* On-call keeps sight of what is open: a work item that was alerted stays in
\* the live feed until it has been closed once, whatever fails or crashes and
\* however many operators work on it (several stores, one clean-up).
OpenStaysInFeed ==
  \A i \in alerts : i \in feed \/ items[i].ended

\* The live feed lets go of what is closed (incidents_api.py: "Pull from live
\* feed once closed."): an entry of a closed work item is one whose clean-up
\* is still running.
ClosedLeavesFeed ==
  \A i \in feed : items[i].state = "CLOSED" => BeingCleared(i)
=============================================================================
