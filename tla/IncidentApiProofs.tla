------------------------- MODULE IncidentApiProofs -------------------------
(***************************************************************************)
(* Proofs about IncidentApi, for every set of operators, of RCA bodies and *)
(* of ways to fail.  The RCA gate holds although the handlers interleave   *)
(* freely: what a handler has checked may be stale when it writes, but no  *)
(* handler takes a valid RCA away once it is stored.                       *)
(***************************************************************************)
EXTENDS IncidentApi, StoresProofs

\* What the schema and the handler leave of a body is a complete RCA ...
SubmittedComplete ==
  \A o \in Operators : req[o].at \in RcaCalls => Validate(req[o].body) = "ok"

\* ... so every stored one is.
StoredComplete ==
  \A i \in DOMAIN items :
     items[i].rca # NoRca => Validate(items[i].rca) = "ok"

\* The clean-up of a close comes after its write, and end_time is never cleared.
CleaningEnded ==
  \A o \in Operators : req[o].at \in CleanUp => items[req[o].item].ended

ApiSafe == /\ SubmittedComplete
           /\ StoredComplete
           /\ CloseIsEarned
           /\ ClosedIsDocumented
           /\ ViewsDocumented
           /\ CleaningEnded

ApiIInv == ApiTypeOK /\ ApiSafe

-----------------------------------------------------------------------------
(***************************************************************************)
(* The rules of Lifecycle.                                                 *)
(***************************************************************************)
LEMMA AcceptedBody ==
  ASSUME NEW b \in RcaBody, RCAIn(b), b.ordered
  PROVE  Parsed(b) = b /\ Validate(b) = "ok"
<1>1. b.fix_applied = "words" /\ b.prevention = "words"
  BY DEF RcaBody, Text, RCAIn, Strip
<1>2. Parsed(b) = b
  BY <1>1 DEF RcaBody, Parsed, Strip
<1>3. Validate(b) = "ok"
  BY <1>1, NoRcaAssumption DEF Validate, Strip
<1> QED
  BY <1>2, <1>3

\* Only a resolved work item with a valid RCA gets through the gate.
LEMMA CloseGate ==
  ASSUME NEW s \in WorkItemState, NEW r, Transition(s, "CLOSED", r) = "ok"
  PROVE  s = "RESOLVED" /\ Validate(r) = "ok"
<1>1. "CLOSED" \in Allowed[s]
  BY DEF Transition
<1>2. s = "RESOLVED"
  BY <1>1 DEF Allowed, WorkItemState
<1> QED
  BY <1>1, <1>2 DEF Transition

-----------------------------------------------------------------------------
\* The empty tables and the idle handlers satisfy the invariant.
LEMMA ApiInitInv == StoresInit /\ ApiInit => ApiIInv
<1> SUFFICES ASSUME StoresInit, ApiInit PROVE ApiIInv
  OBVIOUS
<1>1. ApiTypeOK
  BY RetryAssumption
  DEF StoresInit, ApiInit, ApiTypeOK, StoresTypeOK, DedupKey, Request, NoRequest,
      WorkItemState
<1> QED
  BY <1>1
  DEF StoresInit, ApiInit, ApiIInv, ApiSafe, SubmittedComplete, StoredComplete,
      CloseIsEarned, ClosedIsDocumented, ViewsDocumented, CleaningEnded, NoRequest,
      RcaCalls, CleanUp

-----------------------------------------------------------------------------
(***************************************************************************)
(* What a step does to `req` falls into three cases: the handler moves to  *)
(* another call, it ends, or a request is taken up.                        *)
(***************************************************************************)
LEMMA GoToType ==
  ASSUME NEW o \in Operators, req \in [Operators -> Request],
         NEW call \in HandlerCalls, GoTo(o, call)
  PROVE  req' \in [Operators -> Request]
<1> DEFINE r == [req[o] EXCEPT !.at = call, !.tries = 0]
<1>1. r \in Request
  <2>1. req[o] \in Request /\ 0 \in 0 .. PgAttempts - 1
    BY RetryAssumption
  <2> QED
    BY <2>1 DEF Request
<1>2. req' = [req EXCEPT ![o] = r]
  BY DEF GoTo
<1> QED
  BY <1>1, <1>2

\* A handler that answers is idle.
LEMMA AnswerType ==
  ASSUME NEW o \in Operators, req \in [Operators -> Request], Answer(o)
  PROVE  req' \in [Operators -> Request]
BY RetryAssumption DEF Answer, NoRequest, Request, WorkItemState

\* A failed attempt keeps the count of attempts within its bound.
LEMMA FailType ==
  ASSUME NEW o \in Operators, req \in [Operators -> Request], NEW err,
         NEW call \in HandlerCalls, Fail(o, err, call)
  PROVE  req' \in [Operators -> Request]
<1>1. CASE TriedAgain(req[o].tries, err)
  <2>1. req[o].tries + 1 \in 0 .. PgAttempts - 1
    BY <1>1, RetryAssumption DEF TriedAgain, Request
  <2> QED
    BY <1>1, <2>1 DEF Fail, Request
<1>2. CASE ~TriedAgain(req[o].tries, err)
  BY <1>2, AnswerType DEF Fail
<1> QED
  BY <1>1, <1>2

\* A handler that is there serves an existing work item.
ServesItem == \A o \in Operators : req[o].at # "idle" => req[o].item \in 1 .. Len(items)

\* A handler that moves on keeps the work item it serves.
LEMMA GoToItem ==
  ASSUME NEW o \in Operators, NEW call, GoTo(o, call), ServesItem,
         req \in [Operators -> Request], req[o].at # "idle",
         Len(items') = Len(items)
  PROVE  ServesItem'
<1>1. req'[o].item = req[o].item
  BY DEF GoTo, Request
<1>2. \A p \in Operators \ {o} : req'[p] = req[p]
  BY DEF GoTo
<1> QED
  BY <1>1, <1>2 DEF ServesItem

\* An answered request serves no work item.
LEMMA AnswerItem ==
  ASSUME NEW o \in Operators, Answer(o), ServesItem,
         req \in [Operators -> Request], Len(items') = Len(items)
  PROVE  ServesItem'
BY DEF ServesItem, Answer, NoRequest

\* A failed attempt keeps the work item its handler serves.
LEMMA FailItem ==
  ASSUME NEW o \in Operators, NEW err, NEW call, Fail(o, err, call), ServesItem,
         req \in [Operators -> Request], req[o].at # "idle",
         Len(items') = Len(items)
  PROVE  ServesItem'
<1>1. CASE TriedAgain(req[o].tries, err)
  <2>1. req'[o].item = req[o].item
    BY <1>1 DEF Fail, Request
  <2>2. \A p \in Operators \ {o} : req'[p] = req[p]
    BY <1>1 DEF Fail
  <2> QED
    BY <2>1, <2>2 DEF ServesItem
<1>2. CASE ~TriedAgain(req[o].tries, err)
  BY <1>2, AnswerItem DEF Fail
<1> QED
  BY <1>1, <1>2

-----------------------------------------------------------------------------
(***************************************************************************)
(* Types, action by action.                                                *)
(***************************************************************************)

\* A request is taken up for an existing work item.
LEMMA TakenUp ==
  ASSUME ApiTypeOK, NEW o \in Operators, NEW r \in Request,
         req' = [req EXCEPT ![o] = r], r.item \in 1 .. Len(items), UNCHANGED storeVars
  PROVE  ApiTypeOK'
<1>1. StoresTypeOK'
  BY DEF ApiTypeOK, storeVars, StoresTypeOK, DedupKey
<1> QED
  BY <1>1 DEF ApiTypeOK, storeVars

\* An idle handler is one.
LEMMA NoRequestType == NoRequest \in Request
BY RetryAssumption DEF NoRequest, Request, WorkItemState

\* A call that ends in one of the three ways and keeps the tables in type.
LEMMA CallType ==
  ASSUME ApiTypeOK, NEW o \in Operators, NEW call \in HandlerCalls, NEW err,
         GoTo(o, call) \/ Answer(o) \/ Fail(o, err, call),
         req[o].at # "idle", StoresTypeOK', Len(items') = Len(items)
  PROVE  ApiTypeOK'
BY GoToType, AnswerType, FailType, GoToItem, AnswerItem, FailItem
DEF ApiTypeOK, ServesItem

\* Every step of a handler keeps the types.
LEMMA HandlerType ==
  ASSUME ApiTypeOK, NEW o \in Operators, HandleRequest(o)
  PROVE  ApiTypeOK'
<1>0. /\ StoresTypeOK /\ req \in [Operators -> Request] /\ req[o] \in Request
      /\ \A i \in DOMAIN items : /\ i \in 1 .. Len(items) /\ i \in Nat
                                 /\ items[i] \in Item /\ items[i].state \in WorkItemState
  <2>1. StoresTypeOK /\ req \in [Operators -> Request] /\ items \in Seq(Item)
    BY DEF ApiTypeOK, StoresTypeOK
  <2>2. \A row \in Item : row.state \in WorkItemState
    BY DEF Item
  <2> QED
    BY <2>1, <2>2
<1>1. UNCHANGED storeVars => StoresTypeOK' /\ Len(items') = Len(items)
  BY <1>0 DEF storeVars, StoresTypeOK, DedupKey
<1>2. CASE ReadItem(o)
  <2>1. PICK i \in DOMAIN items, target \in WorkItemState :
          req' = [req EXCEPT ![o] = [NoRequest EXCEPT !.at = "gate", !.item = i,
                                       !.target = target, !.seen = items[i].state]]
    BY <1>2 DEF ReadItem
  <2> DEFINE r == [NoRequest EXCEPT !.at = "gate", !.item = i, !.target = target,
                                    !.seen = items[i].state]
  <2>2. r.item = i
    BY DEF NoRequest
  <2>3. r \in Request
    <3>1. NoRequest \in Request
      BY NoRequestType
    <3> QED
      BY <1>0, <3>1 DEF Request, HandlerCalls, TransitionCalls
  <2>4. req[o].at = "idle" /\ UNCHANGED storeVars /\ req' = [req EXCEPT ![o] = r]
    BY <1>2, <2>1 DEF ReadItem
  <2> HIDE DEF r
  <2> QED
    BY <1>0, <2>2, <2>3, <2>4, TakenUp
<1>3. CASE SubmitRca(o)
  <2>1. PICK i \in DOMAIN items, b \in Bodies :
          /\ RCAIn(b) /\ b.ordered
          /\ req' = [req EXCEPT ![o] = [NoRequest EXCEPT !.at = "select", !.item = i,
                                                         !.body = Parsed(b)]]
    BY <1>3 DEF SubmitRca
  <2> DEFINE r == [NoRequest EXCEPT !.at = "select", !.item = i, !.body = Parsed(b)]
  <2>2. r.item = i
    BY DEF NoRequest
  <2>3. r \in Request
    <3>1. NoRequest \in Request
      BY NoRequestType
    <3>2. Parsed(b) \in Bodies
      BY <2>1, AcceptedBody, ApiAssumption
    <3> QED
      BY <1>0, <3>1, <3>2 DEF Request, HandlerCalls, RcaCalls
  <2>4. req' = [req EXCEPT ![o] = r] /\ UNCHANGED storeVars
    BY <1>3, <2>1 DEF SubmitRca
  <2>5. r.item \in 1 .. Len(items)
    BY <1>0, <2>2
  <2> HIDE DEF r
  <2> QED
    BY <2>3, <2>4, <2>5, TakenUp
<1>4. CASE View(o)
  <2>1. PICK i \in DOMAIN items :
          req' = [req EXCEPT ![o] = [NoRequest EXCEPT !.at = "render", !.item = i,
                                                      !.seen = items[i].state]]
    BY <1>4 DEF View
  <2> DEFINE r == [NoRequest EXCEPT !.at = "render", !.item = i, !.seen = items[i].state]
  <2>2. r.item = i
    BY DEF NoRequest
  <2>3. r \in Request
    <3>1. NoRequest \in Request
      BY NoRequestType
    <3> QED
      BY <1>0, <3>1 DEF Request, HandlerCalls
  <2> QED
    BY <1>0, <1>4, <2>1, <2>2, <2>3, TakenUp DEF View
<1>5. CASE Gate(o)
  <2>1. (GoTo(o, "write") \/ Answer(o)) /\ req[o].at # "idle"
    BY <1>5 DEF Gate
  <2> QED
    BY <2>1, <1>1, <1>5, CallType DEF Gate, HandlerCalls, TransitionCalls
<1>6. CASE Write(o)
  <2> DEFINE i == req[o].item
             row == Updated(items[i], req[o].target)
  <2>1. i \in 1 .. Len(items) /\ req[o].at # "idle"
    BY <1>6 DEF ApiTypeOK, Write
  <2>2. row \in Item
    <3>1. items[i] \in Item /\ req[o].target \in WorkItemState
      BY <1>0, <2>1 DEF StoresTypeOK, Request
    <3> QED
      BY <3>1 DEF Updated, Item
  <2>3. items' = items \/ items' = [items EXCEPT ![i] = row]
    BY <1>6 DEF Write
  <2>4. items' \in Seq(Item) /\ Len(items') = Len(items)
    BY <1>0, <2>1, <2>2, <2>3, RowUpdated DEF StoresTypeOK
  <2>5. StoresTypeOK'
    BY <1>0, <1>6, <2>4, StoresKept DEF Write, StoresTypeOK
  <2>6. \/ \E err : Fail(o, err, "write")
        \/ GoTo(o, "scan") \/ GoTo(o, "fresh")
    BY <1>6 DEF Write
  <2> QED
    BY <2>1, <2>4, <2>5, <2>6, CallType DEF HandlerCalls, TransitionCalls
<1>7. CASE Scan(o)
  <2>1. /\ req[o].at # "idle"
        /\ GoTo(o, "fresh") \/ GoTo(o, "unfeed") \/ GoTo(o, "undedup")
    BY <1>7 DEF Scan
  <2> QED
    BY <2>1, <1>1, <1>7, CallType DEF Scan, HandlerCalls, TransitionCalls
<1>8. CASE Unfeed(o) \/ Undedup(o)
  <2>1. /\ req[o].at # "idle" /\ UNCHANGED items /\ feed' \subseteq feed
        /\ GoTo(o, "undedup") \/ GoTo(o, "fresh")
        /\ dedup' = dedup
           \/ dedup' = [dedup EXCEPT ![items[req[o].item].comp] = NoKey]
    BY <1>8 DEF Unfeed, Undedup
  <2>2. StoresTypeOK'
    BY <1>0, <2>1 DEF StoresTypeOK, DedupKey
  <2> QED
    BY <2>1, <2>2, CallType DEF HandlerCalls, TransitionCalls
<1>9. CASE Reread(o) \/ Render(o)
  <2>1. req[o].at # "idle" /\ Answer(o) /\ UNCHANGED storeVars
    BY <1>9 DEF Reread, Render
  <2> QED
    BY <2>1, <1>1, CallType DEF HandlerCalls, TransitionCalls
<1>10. CASE SelectRca(o)
  <2> DEFINE found == items[req[o].item].rca # NoRca
             r == [req[o] EXCEPT !.at = "save", !.row = found]
  <2>1. UNCHANGED storeVars /\ req[o].at # "idle" /\ req[o].item \in 1 .. Len(items)
    BY <1>10 DEF SelectRca, ApiTypeOK
  <2>2. (\E err : Fail(o, err, "select")) \/ req' = [req EXCEPT ![o] = r]
    BY <1>10 DEF SelectRca
  <2>3. CASE \E err : Fail(o, err, "select")
    BY <2>1, <2>3, <1>1, CallType DEF HandlerCalls, RcaCalls
  <2>4. CASE req' = [req EXCEPT ![o] = r]
    <3>1. r \in Request /\ r.item = req[o].item
      BY <1>0 DEF Request, HandlerCalls, RcaCalls
    <3> QED
      BY <2>1, <2>4, <3>1, TakenUp
  <2> QED
    BY <2>2, <2>3, <2>4
<1>11. CASE SaveRca(o)
  <2> DEFINE i == req[o].item
             row == [items[i] EXCEPT !.rca = req[o].body]
  <2>1. i \in 1 .. Len(items) /\ req[o].at # "idle"
    BY <1>11 DEF ApiTypeOK, SaveRca
  <2>2. row \in Item
    <3>1. items[i] \in Item /\ req[o].body \in RcaBody \cup {NoRca}
      BY <1>0, <2>1, ApiAssumption DEF StoresTypeOK, Request
    <3> QED
      BY <3>1 DEF Item
  <2>3. items' = items \/ items' = [items EXCEPT ![i] = row]
    BY <1>11 DEF SaveRca
  <2>4. items' \in Seq(Item) /\ Len(items') = Len(items)
    BY <1>0, <2>1, <2>2, <2>3, RowUpdated DEF StoresTypeOK
  <2>5. StoresTypeOK'
    BY <1>0, <1>11, <2>4, StoresKept DEF SaveRca, StoresTypeOK
  <2>6. (\E err : Fail(o, err, "select")) \/ Answer(o)
    BY <1>11 DEF SaveRca
  <2> QED
    BY <2>1, <2>4, <2>5, <2>6, CallType DEF HandlerCalls, RcaCalls
<1> QED
  BY <1>2, <1>3, <1>4, <1>5, <1>6, <1>7, <1>8, <1>9, <1>10, <1>11
  DEF HandleRequest, Serve

\* A stop leaves idle handlers.
LEMMA DropType == ApiTypeOK /\ DropRequests /\ UNCHANGED storeVars => ApiTypeOK'
<1>1. NoRequest \in Request
  BY NoRequestType
<1> QED
  BY <1>1 DEF DropRequests, NoRequest, ApiTypeOK, storeVars, StoresTypeOK, DedupKey

-----------------------------------------------------------------------------
(***************************************************************************)
(* The gate.  A step of handler o ends it or moves it to one of `calls`    *)
(* and keeps what it has read.                                             *)
(***************************************************************************)
Moves(o, calls) ==
  /\ \A p \in Operators \ {o} : req'[p] = req[p]
  /\ \/ req'[o] = NoRequest
     \/ /\ req'[o].at \in calls
        /\ req'[o].item = req[o].item /\ req'[o].target = req[o].target
        /\ req'[o].seen = req[o].seen /\ req'[o].body = req[o].body

\* The three ways a call of a handler ends.
LEMMA HandlerMoves ==
  ASSUME NEW o \in Operators, req \in [Operators -> Request], NEW call, NEW err,
         GoTo(o, call) \/ Answer(o) \/ Fail(o, err, call)
  PROVE  Moves(o, {call})
<1>1. CASE GoTo(o, call)
  BY <1>1 DEF GoTo, Moves, Request
<1>2. CASE Answer(o)
  BY <1>2 DEF Answer, Moves
<1>3. CASE Fail(o, err, call) /\ TriedAgain(req[o].tries, err)
  BY <1>3 DEF Fail, Moves, Request
<1>4. CASE Fail(o, err, call) /\ ~TriedAgain(req[o].tries, err)
  BY <1>4 DEF Fail, Answer, Moves
<1> QED
  BY <1>1, <1>2, <1>3, <1>4

\* Calls at which a handler relies on what it has read, checked or done.
Relying == RcaCalls \cup CleanUp \cup {"write", "render"}

\* A step that keeps the rows and moves a handler to a call that relies on
\* nothing keeps the invariant.
LEMMA QuietStep ==
  ASSUME ApiSafe, UNCHANGED items, NEW o \in Operators,
         \A p \in Operators \ {o} : req'[p] = req[p],
         req'[o].at \notin Relying
  PROVE  ApiSafe'
<1>1. SubmittedComplete' /\ CleaningEnded'
  BY DEF ApiSafe, SubmittedComplete, CleaningEnded, Relying
<1>2. CloseIsEarned' /\ ViewsDocumented'
  BY DEF ApiSafe, CloseIsEarned, ViewsDocumented, Relying
<1>3. StoredComplete' /\ ClosedIsDocumented'
  BY DEF ApiSafe, StoredComplete, ClosedIsDocumented
<1> QED
  BY <1>1, <1>2, <1>3 DEF ApiSafe

\* What handlers at work rely on: a valid RCA stays valid, an end time set.
ReliedOn == \A j \in DOMAIN items :
  /\ j \in DOMAIN items'
  /\ Validate(items[j].rca) = "ok" => Validate(items'[j].rca) = "ok"
  /\ items[j].ended => items'[j].ended

\* A step that keeps it and leaves its own handler in order keeps the gate.
LEMMA OthersRely ==
  ASSUME ApiIInv, ReliedOn, NEW o \in Operators,
         \A p \in Operators \ {o} : req'[p] = req[p],
         req'[o].at \in RcaCalls => Validate(req'[o].body) = "ok",
         req'[o].at = "write" /\ req'[o].target = "CLOSED" =>
           req'[o].seen = "RESOLVED" /\ Validate(items'[req'[o].item].rca) = "ok",
         req'[o].at = "render" /\ req'[o].seen = "CLOSED" =>
           Validate(items'[req'[o].item].rca) = "ok",
         req'[o].at \in CleanUp => items'[req'[o].item].ended
  PROVE  SubmittedComplete' /\ CloseIsEarned' /\ ViewsDocumented' /\ CleaningEnded'
<1>1. \A p \in Operators : req[p].at # "idle" => req[p].item \in DOMAIN items
  BY DEF ApiIInv, ApiTypeOK, StoresTypeOK
<1>2. SubmittedComplete'
  BY DEF ApiIInv, ApiSafe, SubmittedComplete
<1>3. CloseIsEarned'
  BY <1>1 DEF ApiIInv, ApiSafe, CloseIsEarned, ReliedOn
<1>4. ViewsDocumented'
  BY <1>1 DEF ApiIInv, ApiSafe, ViewsDocumented, ReliedOn
<1>5. CleaningEnded'
  BY <1>1 DEF ApiIInv, ApiSafe, CleaningEnded, ReliedOn, CleanUp
<1> QED
  BY <1>2, <1>3, <1>4, <1>5

\* Every step of a handler keeps the invariant.
LEMMA HandlerSafe ==
  ASSUME ApiIInv, NEW o \in Operators, HandleRequest(o)
  PROVE  ApiSafe'
<1>0. /\ req \in [Operators -> Request] /\ ApiSafe
      /\ DOMAIN items = 1 .. Len(items) /\ \A i \in DOMAIN items : items[i] \in Item
      /\ req[o].at # "idle" => req[o].item \in DOMAIN items
  BY DEF ApiIInv, ApiTypeOK, StoresTypeOK
<1>1. ASSUME NEW call, NEW err, GoTo(o, call) \/ Answer(o) \/ Fail(o, err, call),
             UNCHANGED items, call \notin Relying
      PROVE  ApiSafe'
  <2>1. Moves(o, {call})
    BY <1>0, <1>1, HandlerMoves
  <2> QED
    BY <1>0, <1>1, <2>1, QuietStep DEF Moves, NoRequest, Relying, RcaCalls, CleanUp
<1>2. CASE ReadItem(o)
  <2>1. /\ UNCHANGED items /\ \A p \in Operators \ {o} : req'[p] = req[p]
        /\ req'[o].at = "gate"
    BY <1>2, <1>0 DEF ReadItem, storeVars, NoRequest
  <2> QED
    BY <1>0, <2>1, QuietStep DEF Relying, RcaCalls, CleanUp
<1>3. CASE View(o)
  <2>1. PICK i \in DOMAIN items :
          req' = [req EXCEPT ![o] = [NoRequest EXCEPT !.at = "render", !.item = i,
                                                      !.seen = items[i].state]]
    BY <1>3 DEF View
  <2>2. /\ UNCHANGED items /\ \A p \in Operators \ {o} : req'[p] = req[p]
        /\ req'[o].at = "render" /\ req'[o].item = i /\ req'[o].seen = items[i].state
    BY <2>1, <1>3, <1>0 DEF View, storeVars, NoRequest
  <2>3. req'[o].seen = "CLOSED" => Validate(items'[i].rca) = "ok"
    BY <2>2, <1>0 DEF ApiSafe, ClosedIsDocumented
  <2>4. SubmittedComplete' /\ CloseIsEarned' /\ ViewsDocumented' /\ CleaningEnded'
    BY <2>2, <2>3, OthersRely DEF ReliedOn, RcaCalls, CleanUp
  <2> QED
    BY <2>2, <2>4, <1>0 DEF ApiSafe, StoredComplete, ClosedIsDocumented
<1>4. CASE SubmitRca(o)
  <2>1. PICK i \in DOMAIN items, b \in Bodies :
          /\ RCAIn(b) /\ b.ordered
          /\ req' = [req EXCEPT ![o] = [NoRequest EXCEPT !.at = "select", !.item = i,
                                                         !.body = Parsed(b)]]
    BY <1>4 DEF SubmitRca
  <2>2. Validate(Parsed(b)) = "ok"
    BY <2>1, AcceptedBody, ApiAssumption
  <2>3. /\ UNCHANGED items /\ \A p \in Operators \ {o} : req'[p] = req[p]
        /\ req'[o].at = "select" /\ req'[o].body = Parsed(b)
    BY <2>1, <1>4, <1>0 DEF SubmitRca, storeVars, NoRequest
  <2>4. SubmittedComplete' /\ CloseIsEarned' /\ ViewsDocumented' /\ CleaningEnded'
    BY <2>2, <2>3, OthersRely DEF ReliedOn, RcaCalls, CleanUp
  <2> QED
    BY <2>3, <2>4, <1>0 DEF ApiSafe, StoredComplete, ClosedIsDocumented
<1>5. CASE Gate(o)
  <2>1. CASE Answer(o)
    BY <2>1, <1>1, <1>5 DEF Gate, storeVars, Relying, RcaCalls, CleanUp
  <2>2. CASE /\ GoTo(o, "write")
             /\ Transition(req[o].seen, req[o].target, items[req[o].item].rca) = "ok"
    <3>1. Moves(o, {"write"}) /\ UNCHANGED items
      BY <2>2, <1>5, <1>0, HandlerMoves DEF Gate, storeVars
    <3>2. req[o].target = "CLOSED" =>
            req[o].seen = "RESOLVED" /\ Validate(items[req[o].item].rca) = "ok"
      BY <2>2, <1>0, CloseGate DEF Request
    <3>3. SubmittedComplete' /\ CloseIsEarned' /\ ViewsDocumented' /\ CleaningEnded'
      BY <3>1, <3>2, OthersRely DEF ReliedOn, Moves, NoRequest, RcaCalls, CleanUp
    <3> QED
      BY <3>1, <3>3, <1>0 DEF ApiSafe, StoredComplete, ClosedIsDocumented
  <2> QED
    BY <2>1, <2>2, <1>5 DEF Gate
<1>6. CASE Write(o)
  <2> DEFINE i == req[o].item  target == req[o].target
  <2>1. i \in DOMAIN items /\ req[o].at = "write"
    BY <1>0, <1>6 DEF Write
  <2>2. PICK r \in PgReplies :
          /\ items' = IF r.applied THEN [items EXCEPT ![i] = Updated(@, target)] ELSE items
          /\ IF r.err # "none" THEN Fail(o, r.err, "write")
             ELSE GoTo(o, IF target = "CLOSED" THEN "scan" ELSE "fresh")
    BY <1>6 DEF Write
  <2>3. items' = items \/ items' = [items EXCEPT ![i] = Updated(@, target)]
    BY <2>2
  <2>4. /\ DOMAIN items' = DOMAIN items
        /\ \A j \in DOMAIN items \ {i} : items'[j] = items[j]
        /\ items'[i].rca = items[i].rca
        /\ \/ items' = items
           \/ /\ items'[i].state = target
              /\ items'[i].ended = (items[i].ended \/ target = "CLOSED")
    <3>1. /\ Updated(items[i], target).rca = items[i].rca
          /\ Updated(items[i], target).state = target
          /\ Updated(items[i], target).ended = (items[i].ended \/ target = "CLOSED")
      BY <2>1, <1>0 DEF Updated, Item
    <3> HIDE DEF target
    <3>2. CASE items' = items
      BY <2>1, <1>0, <3>2
    <3>3. CASE items' = [items EXCEPT ![i] = Updated(@, target)]
      <4>1. /\ DOMAIN items' = DOMAIN items /\ items'[i] = Updated(items[i], target)
            /\ \A j \in DOMAIN items \ {i} : items'[j] = items[j]
        BY <2>1, <1>0, <3>3
      <4> QED
        BY <3>1, <4>1
    <3> QED
      BY <2>3, <3>2, <3>3
  <2>5. ReliedOn
    BY <2>1, <2>4, <1>0 DEF ReliedOn
  <2>6. target = "CLOSED" => req[o].seen = "RESOLVED" /\ Validate(items[i].rca) = "ok"
    BY <2>1, <1>0 DEF ApiSafe, CloseIsEarned
  <2>7. ClosedIsDocumented'
    <3> SUFFICES ASSUME NEW j \in DOMAIN items, items'[j].state = "CLOSED"
                 PROVE  Validate(items'[j].rca) = "ok" /\ items'[j].ended
      BY <2>4 DEF ClosedIsDocumented
    <3>1. ClosedIsDocumented
      BY <1>0 DEF ApiSafe
    <3>2. CASE items'[j] = items[j]
      BY <3>1, <3>2 DEF ClosedIsDocumented
    <3>3. CASE items'[j] # items[j]
      <4>1. j = i /\ items'[i].state = target
            /\ items'[i].ended = (items[i].ended \/ target = "CLOSED")
        BY <2>4, <3>3
      <4> HIDE DEF target
      <4> QED
        BY <2>4, <2>6, <4>1
    <3> QED
      BY <3>2, <3>3
  <2>8. StoredComplete'
    BY <2>1, <2>4, <1>0 DEF ApiSafe, StoredComplete
  <2>9. CASE r.err = "none"
    <3>1. items'[i].ended \/ target # "CLOSED"
      <4>1. r.applied
        BY <2>9, RetryAssumption DEF PgReplies, Ok
      <4>2. Updated(items[i], target).ended \/ target # "CLOSED"
        BY <2>1, <1>0 DEF Updated, Item
      <4> HIDE DEF target
      <4> QED
        BY <4>1, <4>2, <2>1, <2>2, <1>0
    <3>2. GoTo(o, IF target = "CLOSED" THEN "scan" ELSE "fresh")
      BY <2>2, <2>9
    <3>3. /\ \A p \in Operators \ {o} : req'[p] = req[p]
          /\ req'[o].item = i /\ req'[o].at \in {"scan", "fresh"}
          /\ req'[o].at = "scan" => target = "CLOSED"
      BY <3>2, <1>0 DEF GoTo, Request
    <3>4. SubmittedComplete' /\ CloseIsEarned' /\ ViewsDocumented' /\ CleaningEnded'
      BY <2>5, <3>1, <3>3, OthersRely DEF RcaCalls, CleanUp
    <3> QED
      BY <2>7, <2>8, <3>4 DEF ApiSafe
  <2>10. CASE r.err # "none"
    <3>1. Moves(o, {"write"})
      BY <2>2, <2>10, <1>0, HandlerMoves
    <3>2. SubmittedComplete' /\ CloseIsEarned' /\ ViewsDocumented' /\ CleaningEnded'
      BY <2>4, <2>5, <2>6, <3>1, OthersRely DEF Moves, NoRequest, RcaCalls, CleanUp
    <3> QED
      BY <2>7, <2>8, <3>2 DEF ApiSafe
  <2> QED
    BY <2>9, <2>10
<1>7. CASE Scan(o) \/ Unfeed(o) \/ Undedup(o)
  <2>1. /\ UNCHANGED items /\ req[o].at \in CleanUp
        /\ \E call \in CleanUp \cup {"fresh"} : GoTo(o, call)
    BY <1>7 DEF Scan, Unfeed, Undedup, storeVars, CleanUp
  <2>2. /\ \A p \in Operators \ {o} : req'[p] = req[p]
        /\ req'[o].item = req[o].item /\ req'[o].at \in CleanUp \cup {"fresh"}
    BY <2>1, <1>0 DEF GoTo, Request
  <2>3. items[req[o].item].ended
    BY <2>1, <1>0 DEF ApiSafe, CleaningEnded
  <2>4. SubmittedComplete' /\ CloseIsEarned' /\ ViewsDocumented' /\ CleaningEnded'
    BY <2>1, <2>2, <2>3, OthersRely DEF ReliedOn, RcaCalls, CleanUp
  <2> QED
    BY <2>1, <2>4, <1>0 DEF ApiSafe, StoredComplete, ClosedIsDocumented
<1>8. CASE Reread(o) \/ Render(o)
  BY <1>1, <1>8 DEF Reread, Render, storeVars, Relying, RcaCalls, CleanUp
<1>9. CASE SelectRca(o)
  <2>1. UNCHANGED items /\ req[o].at = "select"
    BY <1>9 DEF SelectRca, storeVars
  <2>2. Moves(o, {"select", "save"})
    <3>1. CASE \E err : Fail(o, err, "select")
      BY <3>1, <1>0, HandlerMoves DEF Moves
    <3>2. CASE req' = [req EXCEPT ![o].at = "save",
                                  ![o].row = items[req[o].item].rca # NoRca]
      BY <3>2, <1>0 DEF Moves, Request
    <3> QED
      BY <3>1, <3>2, <1>9 DEF SelectRca
  <2>3. Validate(req[o].body) = "ok"
    BY <2>1, <1>0 DEF ApiSafe, SubmittedComplete, RcaCalls
  <2>4. SubmittedComplete' /\ CloseIsEarned' /\ ViewsDocumented' /\ CleaningEnded'
    BY <2>1, <2>2, <2>3, OthersRely DEF ReliedOn, Moves, NoRequest, RcaCalls, CleanUp
  <2> QED
    BY <2>1, <2>4, <1>0 DEF ApiSafe, StoredComplete, ClosedIsDocumented
<1>10. CASE SaveRca(o)
  <2> DEFINE i == req[o].item  b == req[o].body
  <2>1. i \in DOMAIN items /\ req[o].at = "save"
    BY <1>0, <1>10 DEF SaveRca
  <2>2. Validate(b) = "ok"
    BY <2>1, <1>0 DEF ApiSafe, SubmittedComplete, RcaCalls
  <2>3. items' = items \/ items' = [items EXCEPT ![i].rca = b]
    BY <1>10 DEF SaveRca
  <2>4. /\ DOMAIN items' = DOMAIN items
        /\ \A j \in DOMAIN items : /\ items'[j].state = items[j].state
                                   /\ items'[j].ended = items[j].ended
                                   /\ items'[j].rca = items[j].rca \/ items'[j].rca = b
    BY <2>1, <2>3, <1>0 DEF Item
  <2>5. StoredComplete' /\ ClosedIsDocumented' /\ ReliedOn
    BY <2>2, <2>4, <1>0 DEF ApiSafe, StoredComplete, ClosedIsDocumented, ReliedOn
  <2>6. Moves(o, {"select"})
    BY <1>10, <1>0, HandlerMoves DEF SaveRca
  <2>7. SubmittedComplete' /\ CloseIsEarned' /\ ViewsDocumented' /\ CleaningEnded'
    BY <2>2, <2>5, <2>6, OthersRely DEF Moves, NoRequest, RcaCalls, CleanUp
  <2> QED
    BY <2>5, <2>7 DEF ApiSafe
<1> QED
  BY <1>2, <1>3, <1>4, <1>5, <1>6, <1>7, <1>8, <1>9, <1>10 DEF HandleRequest, Serve

-----------------------------------------------------------------------------
(***************************************************************************)
(* What surrounds the handlers adds new work items and leaves the state,   *)
(* the RCA and the end of the old ones alone.                              *)
(***************************************************************************)
ItemsOnlyAdded ==
  /\ Len(items) <= Len(items')
  /\ \A i \in 1 .. Len(items) : /\ items'[i].state = items[i].state
                                /\ items'[i].rca = items[i].rca
                                /\ items'[i].ended = items[i].ended
  /\ \A i \in Len(items) + 1 .. Len(items') : /\ items'[i].state = "OPEN"
                                              /\ items'[i].rca = NoRca

\* The handlers do not notice such a step.
LEMMA AroundHandlers ==
  ASSUME ApiIInv, UNCHANGED req, StoresTypeOK', ItemsOnlyAdded
  PROVE  ApiIInv'
<1>0. /\ Len(items) \in Nat /\ Len(items') \in Nat
      /\ DOMAIN items = 1 .. Len(items) /\ DOMAIN items' = 1 .. Len(items')
      /\ \A o \in Operators : req[o].at # "idle" => req[o].item \in 1 .. Len(items)
      /\ ApiSafe
  BY DEF ApiIInv, ApiTypeOK, StoresTypeOK
<1>1. ApiTypeOK'
  BY <1>0 DEF ApiIInv, ApiTypeOK, ItemsOnlyAdded
<1>2. SubmittedComplete' /\ CloseIsEarned' /\ ViewsDocumented' /\ CleaningEnded'
  BY <1>0 DEF ApiSafe, SubmittedComplete, CloseIsEarned, ViewsDocumented, CleaningEnded,
     ItemsOnlyAdded, CleanUp
<1>3. \A i \in DOMAIN items' : i \in 1 .. Len(items) \/ i \in Len(items) + 1 .. Len(items')
  BY <1>0
<1>4. StoredComplete' /\ ClosedIsDocumented'
  BY <1>0, <1>3 DEF ApiSafe, StoredComplete, ClosedIsDocumented, ItemsOnlyAdded
<1> QED
  BY <1>1, <1>2, <1>4 DEF ApiIInv, ApiSafe

\* A stop leaves idle handlers, which rely on nothing.
LEMMA DropSafe == ApiIInv /\ DropRequests /\ UNCHANGED storeVars => ApiIInv'
<1> SUFFICES ASSUME ApiIInv, DropRequests, UNCHANGED storeVars PROVE ApiIInv'
  OBVIOUS
<1>1. ApiTypeOK'
  BY DropType DEF ApiIInv
<1>2. ApiSafe'
  BY DEF DropRequests, NoRequest, storeVars, RcaCalls, CleanUp, ApiIInv, ApiSafe,
     SubmittedComplete, StoredComplete, CloseIsEarned, ClosedIsDocumented,
     ViewsDocumented, CleaningEnded
<1> QED
  BY <1>1, <1>2 DEF ApiIInv

\* A work item opened in one step.
LEMMA OpenSafe ==
  ASSUME ApiIInv, NEW c \in Components, OpenIncident(c)
  PROVE  ApiIInv'
<1>0. StoresTypeOK /\ Len(items) \in Nat
  BY DEF ApiIInv, ApiTypeOK, StoresTypeOK
<1>1. /\ items' \in Seq(Item) /\ Len(items') = Len(items) + 1
      /\ \A i \in 1 .. Len(items) : items'[i] = items[i]
      /\ items'[Len(items) + 1] = NewItem(c)
  BY <1>0, RowInserted DEF OpenIncident
<1>2. ItemsOnlyAdded
  <2>1. \A i \in Len(items) + 1 .. Len(items') : i = Len(items) + 1
    BY <1>0, <1>1
  <2> QED
    BY <1>0, <1>1, <2>1 DEF ItemsOnlyAdded, NewItem
<1>3. StoresTypeOK'
  <2>1. Len(items') \in 1 .. Len(items') /\ 1 .. Len(items) \subseteq 1 .. Len(items')
    BY <1>0, <1>1
  <2>2. DedupKey \subseteq DedupKey' /\ ItemKey(Len(items')) \in DedupKey'
    BY <2>1 DEF DedupKey
  <2> QED
    BY <1>0, <1>1, <2>1, <2>2 DEF OpenIncident, StoresTypeOK
<1> QED
  BY <1>2, <1>3, AroundHandlers DEF OpenIncident

\* Every step of the handlers and of what surrounds them keeps the invariant.
LEMMA ApiNextInv == ApiIInv /\ [ApiNext]_apiVars => ApiIInv'
<1> SUFFICES ASSUME ApiIInv, [ApiNext]_apiVars
             PROVE  ApiIInv'
  OBVIOUS
<1>0. StoresTypeOK /\ Len(items) \in Nat
  BY DEF ApiIInv, ApiTypeOK, StoresTypeOK
<1>1. UNCHANGED items => ItemsOnlyAdded
  <2>1. Len(items) + 1 .. Len(items) = {}
    BY <1>0
  <2> QED
    BY <1>0, <2>1 DEF ItemsOnlyAdded
<1>2. ASSUME NEW o \in Operators, HandleRequest(o) PROVE ApiIInv'
  BY <1>2, HandlerType, HandlerSafe DEF ApiIInv
<1>3. ASSUME NEW c \in Components, OpenIncident(c) PROVE ApiIInv'
  BY <1>3, OpenSafe
<1>4. ASSUME NEW c \in Components, ApiExpire(c) PROVE ApiIInv'
  <2>1. StoresTypeOK' /\ UNCHANGED <<items, req>>
    BY <1>0, <1>4 DEF ApiExpire, ExpireKey, StoresTypeOK, DedupKey
  <2> QED
    BY <1>1, <2>1, AroundHandlers
<1>5. CASE ApiCrash
  BY <1>5, DropSafe DEF ApiCrash
<1>6. CASE UNCHANGED apiVars
  <2>1. StoresTypeOK' /\ UNCHANGED <<items, req>>
    BY <1>0, <1>6 DEF apiVars, storeVars, StoresTypeOK, DedupKey
  <2> QED
    BY <1>1, <2>1, AroundHandlers
<1> QED
  BY <1>2, <1>3, <1>4, <1>5, <1>6 DEF ApiNext

-----------------------------------------------------------------------------
(***************************************************************************)
(* The inductive invariant holds in every reachable state.                 *)
(***************************************************************************)
THEOREM ApiInvariance == ApiSpec => []ApiIInv
<1> QED
  BY ApiInitInv, ApiNextInv, PTL DEF ApiSpec, ApiStart

(***************************************************************************)
(* Every reachable state has the types the model declares, and no handler  *)
(* serves a work item that does not exist.                                 *)
(***************************************************************************)
THEOREM ApiTypeOKHolds == ApiSpec => []ApiTypeOK
<1>1. ApiIInv => ApiTypeOK
  BY DEF ApiIInv
<1> QED
  BY <1>1, ApiInvariance, PTL

(***************************************************************************)
(* The RCA gate is unavoidable: whatever the operators do at once, however *)
(* calls fail and whenever the backend stops, a closed work item has an    *)
(* RCA that rca_validator accepts, and an end time.                        *)
(***************************************************************************)
THEOREM ClosedIsDocumentedHolds == ApiSpec => []ClosedIsDocumented
<1>1. ApiIInv => ClosedIsDocumented
  BY DEF ApiIInv, ApiSafe
<1> QED
  BY <1>1, ApiInvariance, PTL

(***************************************************************************)
(* A handler that writes CLOSED has seen RESOLVED, and the RCA is still    *)
(* valid when it writes.                                                   *)
(***************************************************************************)
THEOREM CloseIsEarnedHolds == ApiSpec => []CloseIsEarned
<1>1. ApiIInv => CloseIsEarned
  BY DEF ApiIInv, ApiSafe
<1> QED
  BY <1>1, ApiInvariance, PTL

(***************************************************************************)
(* What GET shows of a closed work item includes a valid RCA, though the   *)
(* two are read in different transactions.                                 *)
(***************************************************************************)
THEOREM ViewsDocumentedHolds == ApiSpec => []ViewsDocumented
<1>1. ApiIInv => ViewsDocumented
  BY DEF ApiIInv, ApiSafe
<1> QED
  BY <1>1, ApiInvariance, PTL
=============================================================================
