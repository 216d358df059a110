---------------------------- MODULE IncidentApi ----------------------------
(***************************************************************************)
(* incidents_api.py: POST /transition (and /close, the same with target    *)
(* CLOSED), POST /rca and GET of one work item, served concurrently for a  *)
(* set of operators.  A handler awaits one store call after another, and   *)
(* holds no lock or transaction from the read of a work item's state to    *)
(* the UPDATE, or the answer, that rests on it.  Requests with a single    *)
(* read (lists, 404, a read that raises) are left out.                     *)
(***************************************************************************)
EXTENDS Stores, Retry

CONSTANTS Operators,  (* clients, each with at most one request in flight     *)
          Bodies,     (* the RCA bodies they submit                           *)
          MaxItems    (* bound on the work items opened in this instance      *)

ASSUME ApiAssumption == Bodies \subseteq RcaBody /\ MaxItems \in Nat

VARIABLE req          (* the handler that serves each operator                *)

(***************************************************************************)
(* `at` is the call the handler awaits next, `seen` the state it has read, *)
(* `row` whether upsert_rca's SELECT found a row, `tries` the attempts     *)
(* tenacity made.                                                          *)
(***************************************************************************)
TransitionCalls == {"gate", "write", "scan", "unfeed", "undedup", "fresh"}
RcaCalls        == {"select", "save"}
HandlerCalls    == TransitionCalls \cup RcaCalls \cup {"render"}

\* The clean-up that follows the write of a close.
CleanUp == {"scan", "unfeed", "undedup"}

Request == [at : {"idle"} \cup HandlerCalls, item : Nat,
            target : WorkItemState, seen : WorkItemState,
            body : Bodies \cup {NoRca}, row : BOOLEAN, tries : 0 .. PgAttempts - 1]

NoRequest == [at |-> "idle", item |-> 0, target |-> "OPEN", seen |-> "OPEN",
              body |-> NoRca, row |-> FALSE, tries |-> 0]

ApiInit == req = [o \in Operators |-> NoRequest]

-----------------------------------------------------------------------------
GoTo(o, call) == req' = [req EXCEPT ![o].at = call, ![o].tries = 0]
Answer(o)     == req' = [req EXCEPT ![o] = NoRequest]

\* Mutant: the attempts are not counted.
FailForgets(o, err, call) ==
  IF TriedAgain(req[o].tries, err) THEN req' = [req EXCEPT ![o].at = call]
                                   ELSE Answer(o)

\* An attempt under RETRY_POLICY failed: the next one starts at `call`, or
\* the exception becomes a 500.
Fail(o, err, call) ==
  IF TriedAgain(req[o].tries, err)
  THEN req' = [req EXCEPT ![o].at = call, ![o].tries = @ + 1]
  ELSE Answer(o)

\* transition_incident: get_work_item.
ReadItem(o) ==
  /\ req[o].at = "idle"
  /\ \E i \in DOMAIN items, target \in WorkItemState :
       req' = [req EXCEPT ![o] = [NoRequest EXCEPT !.at = "gate", !.item = i,
                                    !.target = target, !.seen = items[i].state]]
  /\ UNCHANGED storeVars

\* Mutant: the gate is not consulted.
GateOpen(o) ==
  /\ req[o].at = "gate"
  /\ IF req[o].target \in Allowed[req[o].seen] THEN GoTo(o, "write") ELSE Answer(o)
  /\ UNCHANGED storeVars

\* get_rca, then states.transition on what was read: 400, 409 or 500 unless
\* it returns a result.
Gate(o) ==
  /\ req[o].at = "gate"
  /\ \E r \in PgReplies :
       IF /\ r.err = "none"
          /\ Transition(req[o].seen, req[o].target, items[req[o].item].rca) = "ok"
       THEN GoTo(o, "write") ELSE Answer(o)
  /\ UNCHANGED storeVars

\* Mutant: end_time is set as soon as the work item is resolved.
UpdatedEarly(item, target) ==
  [item EXCEPT !.state = target, !.ended = @ \/ target \in {"RESOLVED", "CLOSED"}]

\* Mutant: the whole row is written, as it was when it was new.
UpdatedWhole(item, target) ==
  [NewItem(item.comp) EXCEPT !.state = target, !.ended = (target = "CLOSED"),
                             !.rca = item.rca]

\* The row update_state leaves: end_time and mttr_seconds are written on a
\* close and never cleared.
Updated(item, target) ==
  [item EXCEPT !.state = target, !.ended = @ \/ target = "CLOSED"]

\* Mutant: an UPDATE that fails for good is only logged.
WriteBestEffort(o) ==
  LET i == req[o].item  target == req[o].target IN
  /\ req[o].at = "write"
  /\ \E r \in PgReplies :
       items' = IF r.applied THEN [items EXCEPT ![i] = Updated(@, target)] ELSE items
  /\ GoTo(o, IF target = "CLOSED" THEN "scan" ELSE "fresh")
  /\ UNCHANGED <<dedup, feed>>

\* update_state: UPDATE work_items ... WHERE id, whatever the row holds by now.
Write(o) ==
  LET i == req[o].item  target == req[o].target IN
  /\ req[o].at = "write"
  /\ \E r \in PgReplies :
       /\ items' = IF r.applied THEN [items EXCEPT ![i] = Updated(@, target)] ELSE items
       /\ IF r.err # "none" THEN Fail(o, r.err, "write")
          ELSE GoTo(o, IF target = "CLOSED" THEN "scan" ELSE "fresh")
  /\ UNCHANGED <<dedup, feed>>

\* remove_from_live_feed: ZRANGE, then ZREM of the member it found, if any.
\* An exception skips the rest of the clean-up and is only logged.
Scan(o) ==
  /\ req[o].at = "scan"
  /\ \E r \in StoreReplies :
       GoTo(o, IF r.err # "none" THEN "fresh"
               ELSE IF req[o].item \in feed THEN "unfeed" ELSE "undedup")
  /\ UNCHANGED storeVars

Unfeed(o) ==
  /\ req[o].at = "unfeed"
  /\ \E r \in StoreReplies :
       /\ feed' = IF r.applied THEN feed \ {req[o].item} ELSE feed
       /\ GoTo(o, IF r.err = "none" THEN "undedup" ELSE "fresh")
  /\ UNCHANGED <<items, dedup>>

\* clear_dedup deletes the key, whatever it holds.
Undedup(o) ==
  LET c == items[req[o].item].comp IN
  /\ req[o].at = "undedup"
  /\ \E r \in StoreReplies :
       dedup' = IF r.applied THEN [dedup EXCEPT ![c] = NoKey] ELSE dedup
  /\ GoTo(o, "fresh")
  /\ UNCHANGED <<items, feed>>

\* The row is read once more, for the answer (a 500 if that fails).
Reread(o) == req[o].at = "fresh" /\ Answer(o) /\ UNCHANGED storeVars

\* get_incident: the work item in one transaction, its RCA in the next.
View(o) ==
  /\ req[o].at = "idle"
  /\ \E i \in DOMAIN items :
       req' = [req EXCEPT ![o] = [NoRequest EXCEPT !.at = "render", !.item = i,
                                                   !.seen = items[i].state]]
  /\ UNCHANGED storeVars

Render(o) == req[o].at = "render" /\ Answer(o) /\ UNCHANGED storeVars

\* submit_rca: the schema, get_work_item, the check of the two times.
SubmitRca(o) ==
  /\ req[o].at = "idle"
  /\ \E i \in DOMAIN items, b \in Bodies :
       /\ RCAIn(b)
       /\ b.ordered
       /\ req' = [req EXCEPT ![o] = [NoRequest EXCEPT !.at = "select", !.item = i,
                                                       !.body = Parsed(b)]]
  /\ UNCHANGED storeVars

\* upsert_rca: SELECT the row ...
SelectRca(o) ==
  /\ req[o].at = "select"
  /\ \E r \in PgReplies :
       IF r.err # "none" THEN Fail(o, r.err, "select")
       ELSE req' = [req EXCEPT ![o].at = "save",
                               ![o].row = items[req[o].item].rca # NoRca]
  /\ UNCHANGED storeVars

\* Mutant: the row is deleted and inserted again in a transaction of its own.
SaveRcaReplaces(o) ==
  LET i == req[o].item IN
  /\ req[o].at = "save"
  /\ items[i].rca = NoRca \/ req[o].row
  /\ items' = [items EXCEPT ![i].rca = IF req[o].row THEN NoRca ELSE req[o].body]
  /\ IF req[o].row THEN req' = [req EXCEPT ![o].row = FALSE] ELSE Answer(o)
  /\ UNCHANGED <<dedup, feed>>

\* ... then INSERT or UPDATE it.  An INSERT fails (IntegrityError, not tried
\* again) when the row has appeared meanwhile, as does a row the CHECK
\* constraints refuse.
SaveRca(o) ==
  LET i == req[o].item  b == req[o].body IN
  /\ req[o].at = "save"
  /\ IF (~req[o].row /\ items[i].rca # NoRca) \/ ~RcaConstraints(b)
     THEN Answer(o) /\ UNCHANGED items
     ELSE \E r \in PgReplies :
            /\ items' = IF r.applied THEN [items EXCEPT ![i].rca = b] ELSE items
            /\ IF r.err = "none" THEN Answer(o) ELSE Fail(o, r.err, "select")
  /\ UNCHANGED <<dedup, feed>>

Serve(o) == \/ Gate(o)   \/ Write(o)     \/ Scan(o)    \/ Unfeed(o) \/ Undedup(o)
            \/ Reread(o) \/ SelectRca(o) \/ SaveRca(o) \/ Render(o)

HandleRequest(o) == ReadItem(o) \/ SubmitRca(o) \/ View(o) \/ Serve(o)

\* The process stops: its handlers are gone.
DropRequests == req' = [o \in Operators |-> NoRequest]

-----------------------------------------------------------------------------
(***************************************************************************)
(* The API on its own.  What workers.py does to the stores when a signal   *)
(* opens a work item is taken in one step; IMS puts the real one beside    *)
(* the handlers.                                                           *)
(***************************************************************************)
OpenIncident(c) ==
  /\ Len(items) < MaxItems
  /\ items' = Append(items, NewItem(c))
  /\ dedup' = [dedup EXCEPT ![c] = ItemKey(Len(items) + 1)]
  /\ feed' = feed \cup {Len(items) + 1}
  /\ UNCHANGED req

ApiCrash == Crashes /\ DropRequests /\ UNCHANGED storeVars

apiVars == <<storeVars, req>>

ApiExpire(c) == ExpireKey(c) /\ UNCHANGED req

ApiNext == \/ \E c \in Components : OpenIncident(c) \/ ApiExpire(c)
           \/ \E o \in Operators : HandleRequest(o)
           \/ ApiCrash

ApiStart == StoresInit /\ ApiInit

ApiSpec == ApiStart /\ [][ApiNext]_apiVars

\* Every awaited call of a handler answers or raises.
ApiFairSpec == ApiSpec /\ \A o \in Operators : WF_apiVars(Serve(o))

-----------------------------------------------------------------------------
(***************************************************************************)
(* Properties.                                                             *)
(***************************************************************************)
ApiTypeOK ==
  /\ StoresTypeOK
  /\ req \in [Operators -> Request]
  /\ \A o \in Operators : req[o].at # "idle" => req[o].item \in 1 .. Len(items)

\* The RCA gate: a closed work item has an RCA row that rca_validator accepts,
\* and an end time, for any number of operators, with calls failing, answers
\* lost and handlers dying (states.py: "the RCA gate is unavoidable").
ClosedIsDocumented ==
  \A i \in DOMAIN items : items[i].state = "CLOSED" =>
     Validate(items[i].rca) = "ok" /\ items[i].ended

\* What a handler about to write CLOSED has checked still holds when it
\* writes, however long ago it read: it saw RESOLVED and the RCA row, which
\* others may replace meanwhile, is a valid one.
CloseIsEarned ==
  \A o \in Operators : (req[o].at = "write" /\ req[o].target = "CLOSED") =>
     req[o].seen = "RESOLVED" /\ Validate(items[req[o].item].rca) = "ok"

\* A detail answer never shows a closed work item without a valid RCA, though
\* it reads the two in different transactions (README.md: "Ensures reliable
\* tracking of incident states and RCA data").
ViewsDocumented ==
  \A o \in Operators : (req[o].at = "render" /\ req[o].seen = "CLOSED") =>
     Validate(items[req[o].item].rca) = "ok"

\* CLOSED is never left (states.py: "Terminal. All transitions raise
\* IllegalTransitionError.").  Holds for one operator.
ClosedIsTerminal ==
  [][\A i \in DOMAIN items :
        items[i].state = "CLOSED" => items'[i].state = "CLOSED"]_items

\* A work item has an end time exactly while it is closed (one operator): no
\* retry, lost answer or abandoned handler separates the two.
EndedIffClosed ==
  \A i \in DOMAIN items : items[i].ended <=> items[i].state = "CLOSED"

\* Every request is answered.
EveryRequestAnswered ==
  \A o \in Operators : req[o].at # "idle" ~> req[o].at = "idle"

\* The rows without what the API leaves to the workers.
TableOf == [i \in DOMAIN items |->
  [state |-> items[i].state, rca |-> items[i].rca, ended |-> items[i].ended]]

\* With one operator the handlers, their calls, retries and lost answers
\* implement WorkItem: every change of a work item is one atomic step that
\* its state at that moment allows.
Abstract == INSTANCE WorkItem WITH table <- TableOf

ImplementsWorkItem == Abstract!Spec
=============================================================================
