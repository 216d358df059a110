----------------------------- MODULE SoloProofs -----------------------------
(***************************************************************************)
(* Proofs about IncidentApi served to one operator at a time, for every    *)
(* set of bodies, every way to fail and every crash: what a handler has    *)
(* read is then still so when it writes, or its own write, whose answer    *)
(* was lost, has made it so.  Hence CLOSED is terminal, an end time marks  *)
(* exactly the closed work items, and the handlers implement WorkItem.     *)
(***************************************************************************)
EXTENDS IncidentApiProofs

Alone == \E o : Operators = {o}

\* What the handler at work has read is up to date, but for its own write.
UpToDate(o) ==
  /\ req[o].at = "gate" => items[req[o].item].state = req[o].seen
  /\ req[o].at = "write" =>
       /\ items[req[o].item].state \in {req[o].seen, req[o].target}
       /\ Transition(req[o].seen, req[o].target, items[req[o].item].rca) = "ok"

SoloIInv == /\ ApiIInv
            /\ EndedIffClosed
            /\ \A o \in Operators : UpToDate(o)

-----------------------------------------------------------------------------
\* WorkItem's rules are the handlers' rules.
LEMMA SameRules ==
  /\ Abstract!WorkItemState = WorkItemState
  /\ \A s, target, r : Abstract!Transition(s, target, r) = Transition(s, target, r)
  /\ Abstract!CompleteRcas = CompleteRcas
BY DEF Abstract!WorkItemState, WorkItemState, Abstract!Transition, Transition,
       Abstract!Allowed, Allowed, Abstract!Validate, Validate, Abstract!Strip, Strip,
       Abstract!CompleteRcas, CompleteRcas, Abstract!RcaBody, RcaBody, Abstract!Text, Text

\* Facts of the types the steps below use.
LEMMA SoloTypes ==
  ASSUME SoloIInv
  PROVE  /\ ApiTypeOK /\ StoresTypeOK /\ Len(items) \in Nat
         /\ DOMAIN items = 1 .. Len(items)
         /\ \A i \in 1 .. Len(items) : items[i] \in Item
         /\ req \in [Operators -> Request]
         /\ \A o \in Operators : req[o].at # "idle" => req[o].item \in 1 .. Len(items)
BY DEF SoloIInv, ApiIInv, ApiTypeOK, StoresTypeOK

\* A step of the handler that leaves the rows alone and does not end at the
\* gate or before the write.
LEMMA SoloQuiet ==
  ASSUME SoloIInv, Alone, NEW o \in Operators, UNCHANGED items, ApiIInv',
         NEW call, NEW err, GoTo(o, call) \/ Answer(o) \/ Fail(o, err, call),
         call \notin {"gate", "write"}
  PROVE  SoloIInv' /\ UNCHANGED TableOf
<1>1. Operators = {o}
  BY DEF Alone
<1>2. Moves(o, {call})
  BY SoloTypes, HandlerMoves
<1>3. UpToDate(o)'
  BY <1>2 DEF Moves, UpToDate, NoRequest
<1>4. EndedIffClosed' /\ UNCHANGED TableOf
  BY DEF SoloIInv, EndedIffClosed, TableOf
<1> QED
  BY <1>1, <1>3, <1>4 DEF SoloIInv

\* One write of a move: a step of WorkItem, or the second time the same.
LEMMA SoloWrite ==
  ASSUME SoloIInv, Alone, ApiIInv', NEW o \in Operators, Write(o)
  PROVE  SoloIInv' /\ [Abstract!Next]_TableOf
<1>0. PICK i, target : i = req[o].item /\ target = req[o].target
  OBVIOUS
<1>1. /\ Operators = {o} /\ i \in 1 .. Len(items) /\ DOMAIN items = 1 .. Len(items)
      /\ items[i] \in Item /\ target \in WorkItemState /\ StoresTypeOK
  BY <1>0, SoloTypes DEF Alone, Write, Request
<1>2. /\ items[i].state \in {req[o].seen, target} /\ target \in Allowed[req[o].seen]
      /\ Transition(req[o].seen, target, items[i].rca) = "ok"
      /\ items[i].ended <=> items[i].state = "CLOSED"
  BY <1>0, <1>1 DEF SoloIInv, UpToDate, Write, EndedIffClosed, Transition
<1>3. req[o].seen # "CLOSED" /\ req[o].seen \in WorkItemState
  BY <1>2, SoloTypes DEF Allowed, Request, WorkItemState
<1>4. /\ UNCHANGED items \/ items' = [items EXCEPT ![i] = Updated(items[i], target)]
      /\ GoTo(o, "scan") \/ GoTo(o, "fresh") \/ \E err : Fail(o, err, "write")
  BY <1>0 DEF Write
<1>5. PICK row \in Item : row = Updated(items[i], target)
  BY <1>1 DEF Updated, Item
<1>6. /\ row.state = target /\ row.rca = items[i].rca
      /\ row.ended <=> items[i].ended \/ target = "CLOSED"
  BY <1>1, <1>5 DEF Updated, Item
<1>7. \/ UNCHANGED items
      \/ /\ items[i].state = req[o].seen
         /\ items' = [items EXCEPT ![i] = row]
         /\ DOMAIN items' = DOMAIN items /\ items'[i] = row
         /\ \A j \in DOMAIN items \ {i} : items'[j] = items[j]
         /\ row.ended <=> target = "CLOSED"
  <2>1. CASE items[i].state = req[o].seen
    BY <1>1, <1>2, <1>3, <1>4, <1>5, <1>6, <2>1
  <2>2. CASE items[i].state # req[o].seen
    <3>1. items[i].state = target /\ (items[i].ended <=> target = "CLOSED")
      BY <1>2, <2>2
    <3>2. row = items[i]
      BY <1>1, <1>5, <3>1 DEF Updated, Item
    <3> QED
      BY <1>1, <1>4, <1>5, <3>2 DEF StoresTypeOK
  <2> QED
    BY <2>1, <2>2
<1>8. EndedIffClosed'
  <2>1. \A j \in DOMAIN items : items[j].ended <=> items[j].state = "CLOSED"
    BY DEF SoloIInv, EndedIffClosed
  <2> QED
    BY <1>6, <1>7, <2>1 DEF EndedIffClosed
<1>9. UpToDate(o)'
  <2>1. Moves(o, {"scan", "fresh"}) \/ \E err : Fail(o, err, "write")
    BY <1>4, SoloTypes, HandlerMoves DEF Moves
  <2>2. CASE Moves(o, {"scan", "fresh"})
    BY <2>2 DEF Moves, UpToDate, NoRequest
  <2>3. ASSUME NEW err, Fail(o, err, "write") PROVE UpToDate(o)'
    <3>1. Moves(o, {"write"})
      BY <2>3, SoloTypes, HandlerMoves
    <3>2. req'[o].at = "write" => /\ req'[o].item = i /\ req'[o].target = target
                                  /\ req'[o].seen = req[o].seen
      BY <1>0, <3>1 DEF Moves, NoRequest
    <3>3. items'[i].rca = items[i].rca /\ items'[i].state \in {items[i].state, target}
      BY <1>6, <1>7
    <3>4. req'[o].at # "gate"
      BY <3>1 DEF Moves, NoRequest
    <3> QED
      BY <1>2, <3>2, <3>3, <3>4 DEF UpToDate
  <2> QED
    BY <2>1, <2>2, <2>3
<1>10. [Abstract!Next]_TableOf
  <2>1. CASE UNCHANGED items
    BY <2>1 DEF TableOf
  <2>2. CASE ~UNCHANGED items
    <3>1. /\ TableOf' = [TableOf EXCEPT ![i] = [state |-> row.state, rca |-> row.rca,
                                                ended |-> row.ended]]
          /\ i \in DOMAIN TableOf
      BY <1>1, <1>7, <2>2 DEF TableOf
    <3>2. TableOf[i] = [state |-> items[i].state, rca |-> items[i].rca,
                        ended |-> items[i].ended]
      BY <1>1 DEF TableOf
    <3>3. row.ended = (target = "CLOSED")
      <4>1. row.ended \in BOOLEAN
        BY <1>5 DEF Item
      <4> QED
        BY <1>7, <2>2, <4>1
    <3>4. TableOf' = [TableOf EXCEPT ![i] = [state |-> target, rca |-> TableOf[i].rca,
                                             ended |-> (target = "CLOSED")]]
      BY <1>6, <3>1, <3>2, <3>3
    <3>5. Transition(TableOf[i].state, target, TableOf[i].rca) = "ok"
      BY <1>2, <1>7, <2>2, <3>2
    <3> QED
      BY <1>1, <3>1, <3>4, <3>5, SameRules DEF Abstract!Next, Abstract!Move
  <2> QED
    BY <2>1, <2>2
<1> QED
  BY <1>1, <1>8, <1>9, <1>10 DEF SoloIInv

\* The RCA is stored: WorkItem's Document, unless nothing was.
LEMMA SoloSave ==
  ASSUME SoloIInv, Alone, ApiIInv', NEW o \in Operators, SaveRca(o)
  PROVE  SoloIInv' /\ [Abstract!Next]_TableOf
<1>0. PICK i, b : i = req[o].item /\ b = req[o].body
  OBVIOUS
<1>1. /\ Operators = {o} /\ i \in 1 .. Len(items) /\ DOMAIN items = 1 .. Len(items)
      /\ items[i] \in Item
  BY <1>0, SoloTypes DEF Alone, SaveRca
<1>2. /\ UNCHANGED items \/ items' = [items EXCEPT ![i].rca = b]
      /\ Answer(o) \/ \E err : Fail(o, err, "select")
  BY <1>0 DEF SaveRca
<1>3. b \in CompleteRcas
  <2>1. Validate(b) = "ok"
    BY <1>0 DEF SoloIInv, ApiIInv, ApiSafe, SubmittedComplete, SaveRca, RcaCalls
  <2>2. b \in RcaBody \cup {NoRca}
    BY <1>0, SoloTypes, ApiAssumption DEF Request
  <2> QED
    BY <2>1, <2>2 DEF CompleteRcas, Validate
<1>4. CASE UNCHANGED items
  BY <1>2, <1>4, SoloQuiet DEF TableOf
<1>5. CASE ~UNCHANGED items
  <2>1. /\ DOMAIN items' = DOMAIN items /\ items'[i] = [items[i] EXCEPT !.rca = b]
        /\ \A j \in DOMAIN items \ {i} : items'[j] = items[j]
    BY <1>1, <1>2, <1>5
  <2>2. /\ items'[i].state = items[i].state /\ items'[i].ended = items[i].ended
        /\ items'[i].rca = b
    BY <1>1, <2>1 DEF Item
  <2>3. EndedIffClosed'
    <3>1. \A j \in DOMAIN items : items[j].ended <=> items[j].state = "CLOSED"
      BY DEF SoloIInv, EndedIffClosed
    <3>2. items'[i].ended <=> items'[i].state = "CLOSED"
      BY <1>1, <2>2, <3>1
    <3> QED
      BY <2>1, <3>1, <3>2 DEF EndedIffClosed
  <2>4. UpToDate(o)'
    <3>1. Moves(o, {"select"})
      BY <1>2, SoloTypes, HandlerMoves
    <3> QED
      BY <3>1 DEF Moves, UpToDate, NoRequest
  <2>5. TableOf' = [TableOf EXCEPT ![i].rca = b] /\ i \in DOMAIN TableOf
    BY <1>1, <2>1, <2>2 DEF TableOf
  <2>6. b \in Abstract!CompleteRcas
    BY <1>3, SameRules
  <2>7. Abstract!Next
    BY <2>5, <2>6 DEF Abstract!Next, Abstract!Document
  <2> QED
    BY <1>1, <2>3, <2>4, <2>7 DEF SoloIInv
<1> QED
  BY <1>4, <1>5

\* A new work item is WorkItem's Open.
LEMMA SoloOpen ==
  ASSUME SoloIInv, ApiIInv', NEW c \in Components, UNCHANGED req,
         items' = Append(items, NewItem(c))
  PROVE  SoloIInv' /\ [Abstract!Next]_TableOf
<1>1. /\ Len(items') = Len(items) + 1 /\ DOMAIN items' = 1 .. Len(items')
      /\ \A i \in 1 .. Len(items) : items'[i] = items[i]
      /\ items'[Len(items) + 1] = NewItem(c) /\ UNCHANGED req
  BY SoloTypes, RowInserted
<1>2. EndedIffClosed'
  BY <1>1, SoloTypes DEF SoloIInv, EndedIffClosed, NewItem
<1>3. \A o \in Operators : UpToDate(o)'
  BY <1>1, SoloTypes DEF SoloIInv, UpToDate
<1>4. TableOf' = Append(TableOf, [state |-> "OPEN", rca |-> NoRca, ended |-> FALSE])
  <2>1. TableOf \in Seq([state : WorkItemState, rca : RcaBody \cup {NoRca}, ended : BOOLEAN])
        /\ Len(TableOf) = Len(items)
    BY SoloTypes DEF TableOf, Item
  <2>2. TableOf' = [i \in 1 .. Len(items) + 1 |->
                      [state |-> items'[i].state, rca |-> items'[i].rca,
                       ended |-> items'[i].ended]]
    BY <1>1 DEF TableOf
  <2>3. Append(TableOf, [state |-> "OPEN", rca |-> NoRca, ended |-> FALSE])
          = [i \in 1 .. Len(items) + 1 |->
               IF i = Len(items) + 1 THEN [state |-> "OPEN", rca |-> NoRca, ended |-> FALSE]
                                     ELSE TableOf[i]]
    BY <2>1, SoloTypes
  <2>4. \A i \in 1 .. Len(items) :
          TableOf[i] = [state |-> items[i].state, rca |-> items[i].rca,
                        ended |-> items[i].ended]
    BY SoloTypes DEF TableOf
  <2>5. \A i \in 1 .. Len(items) + 1 : i \in 1 .. Len(items) \/ i = Len(items) + 1
    BY SoloTypes
  <2>6. [state |-> items'[Len(items) + 1].state, rca |-> items'[Len(items) + 1].rca,
         ended |-> items'[Len(items) + 1].ended]
          = [state |-> "OPEN", rca |-> NoRca, ended |-> FALSE]
    <3>1. /\ NewItem(c).state = "OPEN" /\ NewItem(c).rca = NoRca
          /\ NewItem(c).ended = FALSE
      BY DEF NewItem
    <3> QED
      BY <1>1, <3>1
  <2>7. \A i \in 1 .. Len(items) : items'[i] = items[i] /\ i # Len(items) + 1
    BY <1>1, SoloTypes
  <2> QED
    BY <2>2, <2>3, <2>4, <2>5, <2>6, <2>7
<1> QED
  BY <1>2, <1>3, <1>4 DEF SoloIInv, Abstract!Next, Abstract!Open

\* Every step of the handler is one of WorkItem's or none, and keeps the
\* invariant.
LEMMA SoloHandler ==
  ASSUME SoloIInv, Alone, ApiIInv', NEW o \in Operators, HandleRequest(o)
  PROVE  SoloIInv' /\ [Abstract!Next]_TableOf
<1>0. Operators = {o} /\ req \in [Operators -> Request]
  BY SoloTypes DEF Alone
<1>1. CASE ReadItem(o)
  <2>1. PICK i \in DOMAIN items, target \in WorkItemState :
          req' = [req EXCEPT ![o] = [NoRequest EXCEPT !.at = "gate", !.item = i,
                                       !.target = target, !.seen = items[i].state]]
    BY <1>1 DEF ReadItem
  <2>2. req'[o].at = "gate" /\ req'[o].item = i /\ req'[o].seen = items[i].state
    BY <1>0, <2>1 DEF NoRequest
  <2>3. UNCHANGED items
    BY <1>1 DEF ReadItem, storeVars
  <2> QED
    BY <1>0, <2>2, <2>3 DEF SoloIInv, EndedIffClosed, UpToDate, TableOf
<1>2. CASE View(o) \/ SubmitRca(o)
  <2>1. UNCHANGED items /\ req'[o].at \in {"render", "select"}
    <3>1. CASE View(o)
      BY <1>0, <3>1 DEF View, storeVars, NoRequest
    <3>2. CASE SubmitRca(o)
      BY <1>0, <3>2 DEF SubmitRca, storeVars, NoRequest
    <3> QED
      BY <1>2, <3>1, <3>2
  <2> QED
    BY <1>0, <2>1 DEF SoloIInv, EndedIffClosed, UpToDate, TableOf
<1>3. CASE Gate(o)
  <2>1. PICK r \in PgReplies :
          IF /\ r.err = "none"
             /\ Transition(req[o].seen, req[o].target, items[req[o].item].rca) = "ok"
          THEN GoTo(o, "write") ELSE Answer(o)
    BY <1>3 DEF Gate
  <2>2. UNCHANGED items /\ items[req[o].item].state = req[o].seen
    BY <1>3 DEF Gate, storeVars, SoloIInv, UpToDate
  <2>3. Moves(o, {"write"})
    BY <1>0, <2>1, HandlerMoves
  <2>4. req'[o].at = "write" =>
          Transition(req[o].seen, req[o].target, items[req[o].item].rca) = "ok"
    BY <1>0, <2>1 DEF Answer, NoRequest
  <2>5. UpToDate(o)'
    BY <2>2, <2>3, <2>4 DEF Moves, UpToDate, NoRequest
  <2> QED
    BY <1>0, <2>2, <2>5 DEF SoloIInv, EndedIffClosed, TableOf
<1>4. CASE Write(o)
  BY <1>4, SoloWrite
<1>5. CASE SaveRca(o)
  BY <1>5, SoloSave
<1>6. CASE \/ Scan(o) \/ Unfeed(o) \/ Undedup(o) \/ Reread(o) \/ Render(o)
  <2>1. /\ UNCHANGED items
        /\ \E call \in {"fresh", "unfeed", "undedup"} : GoTo(o, call) \/ Answer(o)
    BY <1>6 DEF Scan, Unfeed, Undedup, Reread, Render, storeVars
  <2> QED
    BY <2>1, SoloQuiet
<1>7. CASE SelectRca(o)
  <2>1. UNCHANGED items
    BY <1>7 DEF SelectRca, storeVars
  <2>2. CASE \E err : Fail(o, err, "select")
    BY <2>1, <2>2, SoloQuiet
  <2>3. CASE req' = [req EXCEPT ![o].at = "save", ![o].row = items[req[o].item].rca # NoRca]
    <3>1. req'[o].at = "save"
      BY <1>0, <2>3 DEF Request
    <3> QED
      BY <1>0, <2>1, <3>1 DEF SoloIInv, EndedIffClosed, UpToDate, TableOf
  <2> QED
    BY <1>7, <2>2, <2>3 DEF SelectRca
<1> QED
  BY <1>1, <1>2, <1>3, <1>4, <1>5, <1>6, <1>7 DEF HandleRequest, Serve

\* A step that leaves the rows and the handler alone.
LEMMA SoloStutter ==
  ASSUME SoloIInv, ApiIInv', UNCHANGED <<TableOf, req>>
  PROVE  SoloIInv'
<1>1. /\ DOMAIN items' = DOMAIN items
      /\ \A i \in DOMAIN items : /\ items'[i].state = items[i].state
                                /\ items'[i].rca = items[i].rca
                                /\ items'[i].ended = items[i].ended
  <2>1. DOMAIN TableOf = DOMAIN items /\ DOMAIN TableOf' = DOMAIN items'
    BY DEF TableOf
  <2>2. ASSUME NEW i \in DOMAIN items
        PROVE  /\ items'[i].state = items[i].state
               /\ items'[i].rca = items[i].rca
               /\ items'[i].ended = items[i].ended
    <3>1. TableOf[i] = [state |-> items[i].state, rca |-> items[i].rca,
                        ended |-> items[i].ended]
      BY DEF TableOf
    <3>2. i \in DOMAIN items' /\ TableOf'[i] = TableOf[i]
      BY <2>1
    <3>3. TableOf'[i] = [state |-> items'[i].state, rca |-> items'[i].rca,
                         ended |-> items'[i].ended]
      BY <3>2 DEF TableOf
    <3> QED
      BY <3>1, <3>2, <3>3
  <2> QED
    BY <2>1, <2>2
<1>2. EndedIffClosed'
  BY <1>1 DEF SoloIInv, EndedIffClosed
<1>3. \A o \in Operators : UpToDate(o)'
  BY <1>1, SoloTypes DEF SoloIInv, UpToDate
<1> QED
  BY <1>2, <1>3 DEF SoloIInv

\* Every step is one of WorkItem's or none, and keeps the invariant.
LEMMA SoloNext ==
  SoloIInv /\ Alone /\ [ApiNext]_apiVars => SoloIInv' /\ [Abstract!Next]_TableOf
<1> SUFFICES ASSUME SoloIInv, Alone, [ApiNext]_apiVars
             PROVE  SoloIInv' /\ [Abstract!Next]_TableOf
  OBVIOUS
<1>0. ApiIInv'
  BY ApiNextInv DEF SoloIInv
<1>1. ASSUME NEW o \in Operators, HandleRequest(o)
      PROVE  SoloIInv' /\ [Abstract!Next]_TableOf
  BY <1>0, <1>1, SoloHandler
<1>2. ASSUME NEW c \in Components, OpenIncident(c)
      PROVE  SoloIInv' /\ [Abstract!Next]_TableOf
  BY <1>0, <1>2, SoloOpen DEF OpenIncident
<1>3. CASE (\E c \in Components : ApiExpire(c)) \/ UNCHANGED apiVars
  <2>1. UNCHANGED <<items, req>>
    BY <1>3 DEF ApiExpire, ExpireKey, apiVars, storeVars
  <2> QED
    BY <1>0, <2>1 DEF SoloIInv, EndedIffClosed, UpToDate, TableOf
<1>4. CASE ApiCrash
  <2>1. UNCHANGED items /\ \A o \in Operators : req'[o].at = "idle"
    BY <1>4 DEF ApiCrash, DropRequests, NoRequest, storeVars
  <2> QED
    BY <1>0, <2>1 DEF SoloIInv, EndedIffClosed, UpToDate, TableOf
<1> QED
  BY <1>1, <1>2, <1>3, <1>4 DEF ApiNext

-----------------------------------------------------------------------------
(***************************************************************************)
(* With one operator the inductive invariant holds in every reachable      *)
(* state.                                                                  *)
(***************************************************************************)
THEOREM SoloInvariance ==
  ASSUME Alone
  PROVE  ApiSpec => []SoloIInv
<1>0. Alone
  OBVIOUS
<1>1. ApiStart => SoloIInv
  BY ApiInitInv
  DEF ApiStart, StoresInit, ApiInit, NoRequest, SoloIInv, EndedIffClosed, UpToDate
<1>2. SoloIInv /\ [ApiNext]_apiVars => SoloIInv'
  BY <1>0, SoloNext
<1> QED
  BY <1>1, <1>2, PTL DEF ApiSpec

(***************************************************************************)
(* With one operator an end time marks exactly the closed work items: no   *)
(* retry, lost answer or abandoned handler separates the two.              *)
(***************************************************************************)
THEOREM EndedIffClosedHolds ==
  ASSUME Alone
  PROVE  ApiSpec => []EndedIffClosed
<1>1. SoloIInv => EndedIffClosed
  BY DEF SoloIInv
<1> QED
  BY <1>1, SoloInvariance, PTL

(***************************************************************************)
(* With one operator the handlers implement WorkItem: through retries,     *)
(* lost answers and crashes every change of a work item is one atomic step *)
(* that its state at that moment allows.                                   *)
(***************************************************************************)
THEOREM WorkItemRefinement ==
  ASSUME Alone
  PROVE  ApiSpec => ImplementsWorkItem
<1>0. Alone
  OBVIOUS
<1>1. ApiStart => Abstract!Init
  BY DEF ApiStart, StoresInit, Abstract!Init, TableOf
<1>2. SoloIInv /\ [ApiNext]_apiVars => [Abstract!Next]_TableOf
  BY <1>0, SoloNext
<1> QED
  BY <1>1, <1>2, SoloInvariance, PTL DEF ApiSpec, ImplementsWorkItem, Abstract!Spec

\* No step of WorkItem leaves CLOSED.
LEMMA ClosedStays ==
  ASSUME SoloIInv, [Abstract!Next]_TableOf, NEW i \in DOMAIN items,
         items[i].state = "CLOSED"
  PROVE  items'[i].state = "CLOSED"
<1>0. i \in 1 .. Len(items) /\ DOMAIN TableOf = 1 .. Len(items) /\ Len(items) \in Nat
  BY SoloTypes DEF TableOf
<1>1. TableOf[i].state = "CLOSED"
  BY <1>0, SoloTypes DEF TableOf
<1>2. i \in DOMAIN TableOf' /\ TableOf'[i].state = "CLOSED"
  <2>0. TableOf \in Seq([state : WorkItemState, rca : RcaBody \cup {NoRca}, ended : BOOLEAN])
        /\ Len(TableOf) = Len(items)
    BY SoloTypes DEF TableOf, Item
  <2>1. CASE Abstract!Open
    <3> DEFINE Rows == [state : WorkItemState, rca : RcaBody \cup {NoRca}, ended : BOOLEAN]
               row  == [state |-> "OPEN", rca |-> NoRca, ended |-> FALSE]
    <3>1. row \in Rows /\ TableOf \in Seq(Rows)
      BY <2>0 DEF WorkItemState
    <3>2. TableOf' = Append(TableOf, row)
      BY <2>1 DEF Abstract!Open
    <3> HIDE DEF Rows, row
    <3>3. /\ Append(TableOf, row) \in Seq(Rows)
          /\ Len(Append(TableOf, row)) = Len(TableOf) + 1
          /\ \A j \in 1 .. Len(TableOf) : Append(TableOf, row)[j] = TableOf[j]
      BY <3>1, AppendProperties
    <3>4. DOMAIN TableOf' = 1 .. Len(items) + 1
      <4>1. \A t \in Seq(Rows) : DOMAIN t = 1 .. Len(t)
        OBVIOUS
      <4>2. DOMAIN Append(TableOf, row) = 1 .. Len(TableOf) + 1
        BY <3>3, <4>1
      <4> QED
        BY <2>0, <3>2, <4>2
    <3>5. TableOf'[i] = TableOf[i]
      <4>1. i \in 1 .. Len(TableOf)
        BY <1>0, <2>0
      <4>2. Append(TableOf, row)[i] = TableOf[i]
        BY <3>3, <4>1
      <4> QED
        BY <3>2, <4>2
    <3> QED
      BY <1>0, <1>1, <3>4, <3>5
  <2>2. ASSUME NEW j \in DOMAIN TableOf, NEW target \in WorkItemState, Abstract!Move(j, target)
        PROVE  i \in DOMAIN TableOf' /\ TableOf'[i].state = "CLOSED"
    <3>1. Transition(TableOf[j].state, target, TableOf[j].rca) = "ok"
      BY <2>2, SameRules DEF Abstract!Move
    <3>2. target \in Allowed[TableOf[j].state]
      BY <3>1 DEF Transition
    <3>3. j # i
      BY <1>1, <3>2 DEF Allowed, WorkItemState
    <3> QED
      BY <1>0, <1>1, <2>2, <3>3 DEF Abstract!Move
  <2>3. ASSUME NEW j \in DOMAIN TableOf, NEW b, Abstract!Document(j, b)
        PROVE  i \in DOMAIN TableOf' /\ TableOf'[i].state = "CLOSED"
    BY <1>0, <1>1, <2>0, <2>3 DEF Abstract!Document
  <2> QED
    BY <1>0, <1>1, <2>1, <2>2, <2>3, SameRules DEF Abstract!Next
<1>3. DOMAIN TableOf' = DOMAIN items' /\ TableOf'[i].state = items'[i].state
  BY <1>2 DEF TableOf
<1> QED
  BY <1>2, <1>3

(***************************************************************************)
(* With one operator CLOSED is terminal.                                   *)
(***************************************************************************)
THEOREM ClosedIsTerminalHolds ==
  ASSUME Alone
  PROVE  ApiSpec => ClosedIsTerminal
<1>0. Alone
  OBVIOUS
<1>1. SoloIInv /\ [ApiNext]_apiVars =>
        [\A i \in DOMAIN items : items[i].state = "CLOSED" => items'[i].state = "CLOSED"]_items
  BY <1>0, SoloNext, ClosedStays
<1> QED
  BY <1>1, SoloInvariance, PTL DEF ApiSpec, ClosedIsTerminal
=============================================================================
