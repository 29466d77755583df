---------------------------- MODULE Subscription ----------------------------
(***************************************************************************)
(* The PLC subscription of one subscribe-node: the endpoint's records      *)
(* (_subscriptions, _subsByObjId, _pendingNotifications), the per-owner    *)
(* queue of subscribe, unsubscribe, re-establish and retry operations      *)
(* (SerialQueue), and the session they run on, which can end and come back *)
(* at every await.                                                         *)
(*                                                                         *)
(* Owners share nothing but the session; that others come first shows in   *)
(* the time at which reestablishAllSubscriptions and the watchdog's retry  *)
(* reach this one, which is arbitrary here.  A record object is known by   *)
(* its generation: a loop that captured one may use it after unsubscribe   *)
(* and subscribe have put another in its place.  A list of symbols is a    *)
(* version; a notification is decoded with the version in refToName.       *)
(*                                                                         *)
(* The PLC is external: it answers in order, with notifications in         *)
(* between, on one connection.  Retry backoff and the buffer's TTL and cap *)
(* are left out: the one only delays, the others only drop notifications.  *)
(***************************************************************************)
EXTENDS Integers, FiniteSets, Sequences

CONSTANTS
  Versions,   \* lists of symbols
  Ids,        \* bound: object ids of the PLC
  MaxGen,     \* bound: record objects made for the owner
  MaxQueue,   \* bound: operations that wait in the queue
  MaxLoops,   \* bound: re-establish loops on their way to one record
  MaxNoti,    \* bound: notifications under way
  MaxLost     \* bound: subscriptions of a session the endpoint gives up

ASSUME SubscriptionAssumption ==
  /\ 0 \notin Versions /\ 0 \notin Ids
  /\ MaxGen \in Nat \ {0} /\ MaxQueue \in Nat /\ MaxLoops \in Nat /\ MaxNoti \in Nat
  /\ MaxLost \in Nat

VARIABLES
  conn,    \* the session: "late" is connected with 'connect' still to come
  regd,    \* generation of the record in _subscriptions, 0 for none
  gen,     \* generations made
  rec,     \* rec[g]: the record object of generation g
  byId,    \* _subsByObjId: object id -> generation
  buf,     \* _pendingNotifications: [id, ver]
  q,       \* the owner's queue in _subOpQueue: [k, g, v]
  run,     \* the operation in progress, None if there is none
  at,      \* what it awaits
  sent,    \* of a request: it awaits the user lock or the response
  delId,   \* argument of the deleteSubscription() in progress
  loops,   \* loops[g]: re-establish loops that have still to reach record g
  tick,    \* record the watchdog's retry captured and has still to reach, or 0
  subs,    \* the PLC's subscriptions of this session: [id, ver]
  chan,    \* responses and notifications under way: [t, id, ver]
  lost,    \* ids the PLC has kept although the endpoint takes them for gone
  twice,   \* a record that had a subscription was given one more
  kept,    \* something of a session was kept that ended without 'disconnect'
  stray,   \* an operation has run on a record that was no longer registered
  calm     \* no more failures and user commands

records == <<regd, gen, rec, byId, buf>>
running == <<run, at, sent, delId>>
plc     == <<subs, chan, lost>>
history == <<twice, kept, stray>>
vars    == <<conn, records, q, running, loops, tick, plc, history, calm>>

Gens   == 1..MaxGen
Record == [ver : Versions \cup {0}, id : Ids \cup {0}, map : Versions \cup {0}, partial : BOOLEAN]
Kinds  == {"sub", "unsub", "reest", "retry"}
Op     == [k : Kinds, g : 0..MaxGen, v : Versions \cup {0}]
None   == [k |-> "none", g |-> 0, v |-> 0]
Steps  == {"idle", "resolve", "create", "resubDelete", "unsubDelete", "healResolve", "healDelete"}
Msgs   == [t : {"created", "deleted", "noti"}, id : Ids \cup {0}, ver : Versions \cup {0}]

Connected == conn # "down"

Init ==
  /\ conn = "down" /\ regd = 0 /\ gen = 0
  /\ rec = [g \in Gens |-> [ver |-> 0, id |-> 0, map |-> 0, partial |-> FALSE]]
  /\ byId = [i \in {} |-> 0] /\ buf = {}
  /\ q = <<>> /\ run = None /\ at = "idle" /\ sent = "no" /\ delId = 0
  /\ loops = [g \in Gens |-> 0] /\ tick = 0
  /\ subs = {} /\ chan = <<>> /\ lost = {}
  /\ twice = FALSE /\ kept = FALSE /\ stray = FALSE /\ calm = FALSE

-----------------------------------------------------------------------------
(* Parts of operations *)

\* A record with another list of symbols, with a subscription, and without.
Listed(r, v)     == [r EXCEPT !.ver = v]
Subscribed(r, i) == [ver |-> r.ver, id |-> i, map |-> r.ver, partial |-> r.partial]
Bare(v, m)       == [ver |-> v, id |-> 0, map |-> m, partial |-> FALSE]

Unrouted(i) == [j \in DOMAIN byId \ {i} |-> byId[j]]

\* Mutant: buffered notifications of a deleted subscription are kept.
Discarded_Kept(i) == buf

Discarded(i) == {n \in buf : n.id # i}

\* Mutant: the step of an operation that is over is not reset.
Done_StepKept == run' = None /\ sent' = "no" /\ delId' = 0 /\ UNCHANGED at

\* The operation is over.
Done == run' = None /\ at' = "idle" /\ sent' = "no" /\ delId' = 0

\* It goes on with record g at a step.
GoOn(op, g, step) ==
  /\ run' = [op EXCEPT !.g = g]
  /\ at' = step
  /\ sent' = IF step \in {"resolve", "healResolve"} THEN "no" ELSE "lock"
  /\ delId' = IF step \in {"resubDelete", "unsubDelete", "healDelete"} THEN rec[g].id ELSE 0

\* tryEstablish(): nothing without a session, else the symbols are resolved.
TryEstablish(op, g) == IF Connected THEN GoOn(op, g, "resolve") ELSE Done

-----------------------------------------------------------------------------
(* The start of a queued operation *)

\* A record forgets a subscription that there is no session to delete it in.
Forget(g, v, m) ==
  /\ byId' = Unrouted(rec[g].id)
  /\ buf' = Discarded(rec[g].id)
  /\ rec' = [rec EXCEPT ![g] = Bare(v, m)]

\* subscribeLocked: a record is made or changed.  The subscription of a
\* changed one is deleted first; an unchanged one is left alone.
StartSub(op) ==
  LET r == rec[regd] IN
  IF regd = 0
    THEN /\ gen < MaxGen /\ gen' = gen + 1 /\ regd' = gen + 1
         /\ rec' = [rec EXCEPT ![gen + 1] = Listed(@, op.v)]
         /\ TryEstablish(op, gen + 1)
         /\ UNCHANGED <<byId, buf>>
    ELSE /\ UNCHANGED <<gen, regd>>
         /\ CASE r.id = 0 ->
                   /\ rec' = [rec EXCEPT ![regd] = Listed(@, op.v)]
                   /\ TryEstablish(op, regd)
                   /\ UNCHANGED <<byId, buf>>
              [] r.id # 0 /\ ~Connected ->
                   Forget(regd, op.v, 0) /\ TryEstablish(op, regd)
              [] r.id # 0 /\ Connected /\ r.ver = op.v ->
                   Done /\ UNCHANGED <<rec, byId, buf>>
              [] r.id # 0 /\ Connected /\ r.ver # op.v ->
                   /\ byId' = Unrouted(r.id)
                   /\ GoOn(op, regd, "resubDelete")
                   /\ UNCHANGED <<rec, buf>>

\* unsubscribeLocked.
StartUnsub(op) ==
  LET r == rec[regd] IN
  /\ regd' = 0 /\ UNCHANGED gen
  /\ CASE regd = 0 \/ r.id = 0 -> Done /\ UNCHANGED <<rec, byId, buf>>
       [] regd # 0 /\ r.id # 0 /\ ~Connected -> Forget(regd, r.ver, r.map) /\ Done
       [] regd # 0 /\ r.id # 0 /\ Connected ->
            /\ byId' = Unrouted(r.id)
            /\ GoOn(op, regd, "unsubDelete")
            /\ UNCHANGED <<rec, buf>>

\* Mutant: the operation does not ask whether the owner is still registered.
Registered_NotAsked == TRUE

\* node._subscriptions.has(ownerNodeId), whichever record it is.
Registered == regd # 0

\* One round of reestablishAllSubscriptions, on the record it captured.  It
\* does not ask whether the record has a subscription already.
StartReest(op) ==
  /\ UNCHANGED records
  /\ IF Registered THEN TryEstablish(op, op.g) ELSE Done

\* Mutant: the retry only looks at records of which symbols are missing.
Failed_PartialOnly(r) == r.id = 0 /\ r.partial

Failed(r) == r.id = 0

\* One round of retryFailedSubscriptions: establish, or heal a subscription
\* some of whose symbols were not found.
StartRetry(op) ==
  /\ UNCHANGED records
  /\ CASE ~Connected \/ regd = 0                   -> Done
       [] Connected /\ regd # 0 /\ Failed(rec[op.g]) -> TryEstablish(op, op.g)
       [] Connected /\ regd # 0 /\ ~Failed(rec[op.g]) ->
            IF rec[op.g].id # 0 /\ rec[op.g].partial THEN GoOn(op, op.g, "healResolve") ELSE Done

StartOp ==
  /\ run = None /\ q # <<>>
  /\ q' = Tail(q)
  /\ LET op == Head(q) IN
       CASE op.k = "sub"   -> StartSub(op)
         [] op.k = "unsub" -> StartUnsub(op)
         [] op.k = "reest" -> StartReest(op)
         [] op.k = "retry" -> StartRetry(op)
  /\ stray' = (stray \/ (run'.k # "unsub" /\ run'.g \notin {0, regd'}))
  /\ UNCHANGED <<conn, loops, tick, plc, twice, kept, calm>>

-----------------------------------------------------------------------------
(* Resolving, creating, deleting *)

\* The symbols are resolved, some of them perhaps in vain; browsing for it may
\* have outlived a session.  The subscription is to be created.
ResolveDone ==
  /\ at = "resolve"
  /\ \E p \in BOOLEAN : (calm => ~p) /\ rec' = [rec EXCEPT ![run.g].partial = p]
  /\ at' = "create" /\ sent' = "lock"
  /\ UNCHANGED <<conn, regd, gen, byId, buf, q, run, delId, loops, tick, plc, history, calm>>

\* None of the symbols is resolved, or healing finds nothing new.
ResolveFail ==
  /\ at \in {"resolve", "healResolve"} /\ ~calm
  /\ Done
  /\ UNCHANGED <<conn, records, q, loops, tick, plc, history, calm>>

\* Healing finds a symbol: the record's subscription, whatever became of it
\* meanwhile, is deleted.
HealResolveDone ==
  /\ at = "healResolve"
  /\ byId' = Unrouted(rec[run.g].id)
  /\ GoOn(run, run.g, "healDelete")
  /\ UNCHANGED <<conn, regd, gen, rec, buf, q, loops, tick, plc, history, calm>>

\* The record once deleteSubscription() is over, whether it failed or not.
Forgotten(r) == Bare(IF at = "resubDelete" THEN run.v ELSE r.ver, IF at = "unsubDelete" THEN r.map ELSE 0)

\* What follows deleteSubscription(): the record forgets its subscription; a
\* resubscribe and a healing establish it anew.
AfterDelete(up) ==
  /\ buf' = Discarded(rec[run.g].id)
  /\ rec' = [rec EXCEPT ![run.g] = Forgotten(@)]
  /\ IF at = "unsubDelete" \/ ~up THEN Done ELSE GoOn(run, run.g, "resolve")

\* The PLC's object ids, and whether one more of them may get lost.
Live    == {s.id : s \in subs}
CanLose == ~calm /\ Cardinality(lost) < MaxLost

\* A request fails before it is sent: the user lock is not granted in time,
\* or it is and there is no session.  Nothing asks again for a deletion.
LockFail ==
  /\ sent = "lock"
  /\ IF at = "create"
       THEN (Connected => ~calm) /\ Done /\ UNCHANGED <<rec, buf, lost>>
       ELSE /\ Connected => CanLose
            /\ AfterDelete(Connected)
            /\ lost' = lost \cup ({delId} \cap Live)
  /\ UNCHANGED <<conn, regd, gen, byId, q, loops, tick, subs, chan, history, calm>>

-----------------------------------------------------------------------------
(* The PLC, and what arrives from it.  A request it has not answered when   *)
(* the session ends might as well not have reached it.                     *)

PlcCreate ==
  /\ sent = "lock" /\ Connected /\ at = "create"
  /\ \E i \in Ids \ Live :
       /\ subs' = subs \cup {[id |-> i, ver |-> rec[run.g].ver]}
       /\ chan' = Append(chan, [t |-> "created", id |-> i, ver |-> rec[run.g].ver])
  /\ sent' = "response"
  /\ UNCHANGED <<conn, records, q, run, at, delId, loops, tick, lost, history, calm>>

\* deleteSubscription() does not look at what the PLC answers: it may have
\* refused.
PlcDelete ==
  /\ sent = "lock" /\ Connected /\ at # "create"
  /\ \/ subs' = {s \in subs : s.id # delId} /\ lost' = lost \ {delId}
     \/ CanLose /\ delId \in Live /\ lost' = lost \cup {delId} /\ UNCHANGED subs
  /\ chan' = Append(chan, [t |-> "deleted", id |-> 0, ver |-> 0])
  /\ sent' = "response"
  /\ UNCHANGED <<conn, records, q, run, at, delId, loops, tick, history, calm>>

PlcPush ==
  /\ Cardinality({m \in DOMAIN chan : chan[m].t = "noti"}) < MaxNoti
  /\ \E s \in subs : chan' = Append(chan, [t |-> "noti", id |-> s.id, ver |-> s.ver])
  /\ UNCHANGED <<conn, records, q, running, loops, tick, subs, lost, history, calm>>

Arrives(t) == chan # <<>> /\ Head(chan).t = t /\ chan' = Tail(chan)

\* The receive loop hands on a notification before the await of the response
\* it came with, in one segment, is over.
Overtakes == Len(chan) > 1 /\ chan[1].t = "created" /\ chan[2].t = "noti"

\* The notification that arrives next.
Notified == IF Overtakes THEN chan[2] ELSE Head(chan)

\* Mutant: the routing is set up without the record's object id.
Route_Forgotten(i, g) == byId

\* _subsByObjId.set.
Route(i, g) == [j \in DOMAIN byId \cup {i} |-> IF j = i THEN g ELSE byId[j]]

\* createSubscription() returns: the record is routed, and the notifications
\* that overtook the response are replayed.
Created ==
  LET i == Head(chan).id  g == run.g IN
  /\ Arrives("created")
  /\ rec' = [rec EXCEPT ![g] = Subscribed(@, i)]
  /\ byId' = Route(i, g)
  /\ twice' = (twice \/ rec[g].id # 0)
  /\ buf' = {n \in buf : n.id # i}
  /\ Done
  /\ UNCHANGED <<conn, regd, gen, q, loops, tick, subs, lost, kept, stray, calm>>

\* The answer to a creation is an error, or not to be made sense of, though
\* the PLC has created the object: createSubscription() throws, and the
\* object is not deleted.
CreateRefused ==
  /\ Arrives("created") /\ CanLose
  /\ lost' = lost \cup {Head(chan).id}
  /\ Done
  /\ UNCHANGED <<conn, records, q, loops, tick, subs, history, calm>>

\* deleteSubscription() returns.
Deleted ==
  /\ Arrives("deleted")
  /\ AfterDelete(TRUE)
  /\ UNCHANGED <<conn, regd, gen, byId, q, loops, tick, subs, lost, history, calm>>

\* A notification is delivered with the map of the record its id is routed
\* to, whatever that record's own id is, or buffered.
Notification ==
  LET n == Notified IN
  /\ IF Overtakes THEN chan' = <<Head(chan)>> \o Tail(Tail(chan)) ELSE Arrives("noti")
  /\ buf' = IF n.id \in DOMAIN byId THEN buf ELSE buf \cup {[id |-> n.id, ver |-> n.ver]}
  /\ UNCHANGED <<conn, regd, gen, rec, byId, q, running, loops, tick, subs, lost, history, calm>>

-----------------------------------------------------------------------------
(* The session, the loops over the records, the subscribe-node *)

\* Mutant: the handler of 'disconnect' leaves the object ids in the records.
AfterDrop_IdsKept == rec

\* The registered record once the handler of 'disconnect' has run.
AfterDrop == IF regd = 0 THEN rec ELSE [rec EXCEPT ![regd] = Bare(@.ver, 0)]

\* The session ends, and the PLC's subscriptions with it.
SessionGone == conn' = "down" /\ subs' = {} /\ chan' = <<>> /\ lost' = {}

\* It ends with 'disconnect'.  The records are reset, then an outstanding
\* request fails: a resubscribe still takes over the new symbols; no operation
\* gets past tryEstablish.
Drop ==
  /\ Connected /\ ~calm
  /\ SessionGone
  /\ byId' = [i \in {} |-> 0] /\ buf' = {}
  /\ twice' = FALSE /\ kept' = FALSE
  /\ IF sent = "response"
       THEN /\ Done
            /\ rec' = IF at = "create" THEN AfterDrop ELSE [AfterDrop EXCEPT ![run.g] = Forgotten(@)]
       ELSE rec' = AfterDrop /\ UNCHANGED running
  /\ UNCHANGED <<regd, gen, q, loops, tick, stray, calm>>

\* connect() gives it up in its last stage and says nothing.  Only an
\* outstanding request fails; ids, routes and buffered notifications stay.
SilentDrop ==
  /\ conn = "late" /\ ~calm
  /\ SessionGone
  /\ CASE sent # "response"                 -> UNCHANGED <<running, rec, buf>>
       [] sent = "response" /\ at = "create" -> Done /\ UNCHANGED <<rec, buf>>
       [] sent = "response" /\ at # "create" -> AfterDelete(FALSE)
  /\ kept' = (kept \/ DOMAIN byId # {} \/ buf' # {} \/ (regd # 0 /\ rec'[regd].id # 0))
  /\ UNCHANGED <<regd, gen, byId, q, loops, tick, twice, stray, calm>>

Connecting ==
  /\ conn = "down" /\ conn' = "late"
  /\ UNCHANGED <<records, q, running, loops, tick, plc, history, calm>>

\* 'connect': reestablishAllSubscriptions captures the records.
ConnectEvent ==
  /\ conn = "late" /\ conn' = "up"
  /\ IF regd = 0 THEN UNCHANGED loops
       ELSE loops[regd] < MaxLoops /\ loops' = [loops EXCEPT ![regd] = @ + 1]
  /\ UNCHANGED <<records, q, running, tick, plc, history, calm>>

Enqueue(op) == Len(q) < MaxQueue /\ q' = Append(q, op)
Waiting(k)  == {i \in DOMAIN q : q[i].k = k}

LoopReaches(g) ==
  /\ loops[g] > 0 /\ loops' = [loops EXCEPT ![g] = @ - 1]
  /\ Enqueue([k |-> "reest", g |-> g, v |-> 0])
  /\ UNCHANGED <<conn, records, running, tick, plc, history, calm>>

\* The watchdog's retry captures the records, too, and is busy until it has
\* been through them; the operation says if there is something to do.
RetryTick ==
  /\ Connected /\ regd # 0 /\ tick = 0 /\ run.k # "retry" /\ Waiting("retry") = {}
  /\ tick' = regd
  /\ UNCHANGED <<conn, records, q, running, loops, plc, history, calm>>

RetryReaches ==
  /\ tick # 0 /\ tick' = 0
  /\ Enqueue([k |-> "retry", g |-> tick, v |-> 0])
  /\ UNCHANGED <<conn, records, running, loops, plc, history, calm>>

Subscribe(v) ==
  /\ ~calm /\ Enqueue([k |-> "sub", g |-> 0, v |-> v])
  /\ UNCHANGED <<conn, records, running, loops, tick, plc, history, calm>>

Unsubscribe ==
  /\ ~calm /\ gen < MaxGen
  /\ Enqueue([k |-> "unsub", g |-> 0, v |-> 0])
  /\ UNCHANGED <<conn, records, running, loops, tick, plc, history, calm>>

Calm ==
  /\ ~calm /\ calm' = TRUE
  /\ UNCHANGED <<conn, records, q, running, loops, tick, plc, history>>

Arrival == Created \/ Deleted \/ Notification

Next ==
  \/ StartOp \/ ResolveDone \/ ResolveFail \/ HealResolveDone \/ LockFail
  \/ PlcCreate \/ PlcDelete \/ PlcPush \/ Created \/ CreateRefused \/ Deleted \/ Notification
  \/ Drop \/ SilentDrop \/ Connecting \/ ConnectEvent \/ RetryTick \/ RetryReaches
  \/ \E g \in Gens : LoopReaches(g)
  \/ \E v \in Versions : Subscribe(v)
  \/ Unsubscribe

Spec == Init /\ [][Next]_vars

\* The operation that runs goes on, or the next one starts.
OpStep ==
  StartOp \/ ResolveDone \/ HealResolveDone \/ LockFail \/ PlcCreate \/ PlcDelete \/ Arrival

\* Promises settle, the PLC answers, the endpoint reconnects, the watchdog
\* ticks: requests and connects have timeouts, and the timers are rearmed.
\* Users, failures and notifications are not bound to happen.  The code's queue
\* has no bound: a loop that has reached a record gets its place in it.
FairSpec ==
  /\ Init /\ [][Next \/ Calm]_vars
  /\ WF_vars(OpStep) /\ WF_vars(Connecting) /\ WF_vars(ConnectEvent)
  /\ WF_vars(RetryTick) /\ WF_vars(RetryReaches)
  /\ \A g \in Gens : SF_vars(LoopReaches(g))

-----------------------------------------------------------------------------
(* Properties *)

\* The values of the variables, and an operation runs at some step.
TypeOK ==
  /\ conn \in {"down", "late", "up"} /\ gen \in 0..MaxGen /\ regd \in 0..gen
  /\ rec \in [Gens -> Record]
  /\ DOMAIN byId \subseteq Ids /\ \A i \in DOMAIN byId : byId[i] \in 1..gen
  /\ buf \subseteq [id : Ids, ver : Versions]
  /\ q \in Seq(Op) /\ Len(q) <= MaxQueue
  /\ run \in Op \cup {None} /\ at \in Steps /\ (run = None <=> at = "idle")
  /\ sent \in {"no", "lock", "response"} /\ delId \in Ids \cup {0}
  /\ loops \in [Gens -> 0..MaxLoops] /\ tick \in 0..gen
  /\ subs \subseteq [id : Ids, ver : Versions] /\ chan \in Seq(Msgs) /\ lost \subseteq Ids
  /\ twice \in BOOLEAN /\ kept \in BOOLEAN /\ stray \in BOOLEAN /\ calm \in BOOLEAN

\* A registered record that has a subscription, and is not about to delete it,
\* has it in the session there is, the PLC has it, and what it sends is routed
\* to the record: no id outlives its session or loses its route, whatever the
\* session, the queue and the loops do meanwhile.  There are two exceptions.
\* One is the time from a session that ended without 'disconnect', and of which
\* something was kept, to the next 'disconnect'.  The other is an owner one of
\* whose discarded records was used again ("stray"): such a record can keep an
\* id into the next session and have it deleted there, whoever has it.
RecordRouted ==
  LET r == rec[regd] IN
  ~stray /\ ~kept /\ regd # 0 /\ r.id # 0 /\ at \notin {"resubDelete", "healDelete"} =>
    /\ Connected
    /\ r.id \in DOMAIN byId /\ byId[r.id] = regd
    /\ r.id \in Live

\* The PLC pushes for no subscription the endpoint has lost sight of, but for
\* those lost in one of three ways: the deletion was never sent, as the user
\* lock was not to be had; the PLC refused it; or creating the object ended in
\* an error.  Every other is routed, or is being created or deleted.
EverySubscriptionRouted ==
  \A s \in subs : \/ s.id \in DOMAIN byId
                  \/ s.id = delId /\ sent # "response"
                  \/ s.id \in lost
                  \/ \E m \in DOMAIN chan : chan[m].t = "created" /\ chan[m].id = s.id

\* A notification is decoded with a map made for its list; without a map
\* nothing is made of it.
Decoded == /\ Notification /\ Notified.id \in DOMAIN byId =>
                rec[byId[Notified.id]].map \in {0, Notified.ver}
           /\ Created => \A n \in buf : n.id = Head(chan).id => n.ver = rec'[run.g].map

\* Values are handed to the node under the names of another list only where a
\* record was given a second subscription while it had one, or something was
\* kept of a session that ended without 'disconnect': changes of lists, ids
\* that are used again and the replay of the buffer do not lead to it.
DecodedByOwnMap == [][twice \/ kept \/ Decoded]_vars

\* A subscription is only ever established for an owner that is registered:
\* whatever had captured the record before it was unsubscribed, the queue and
\* the question asked in it keep unsubscribe from being undone.
EstablishedForOwner == at \in {"resolve", "create", "healResolve"} => regd # 0

\* What the queue is there for, in the words of its header: no operation
\* leaves the PLC with a subscription whose record has gone on to another, so
\* that no notification is decoded with the wrong reference map.
OneRoutePerRecord == \A i \in DOMAIN byId : rec[byId[i]].id = i
OwnNotificationsDecoded == [][Decoded]_vars

\* Once nothing fails and nobody subscribes or unsubscribes any more, a
\* registered record gets a subscription: one the PLC has and whose
\* notifications are routed.  The exception is a record that has kept the id
\* of a session that ended without 'disconnect': where establishing it anew
\* fails, the watchdog takes it for established.
Established ==
  calm ~> \/ regd = 0
          \/ rec[regd].id \in Live \cap DOMAIN byId
          \/ kept /\ rec[regd].id # 0
=============================================================================
