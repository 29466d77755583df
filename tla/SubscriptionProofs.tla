------------------------- MODULE SubscriptionProofs -------------------------
(***************************************************************************)
(* Proofs about Subscription: the invariant that relates the records, the  *)
(* routes, the operation in progress, what is under way from the PLC and   *)
(* what the PLC has, and the properties that follow from it.               *)
(***************************************************************************)
EXTENDS Subscription, TLAPS

\* The steps at which an operation awaits a deletion.
Deletes == {"resubDelete", "unsubDelete", "healDelete"}

\* A notification as the buffer keeps it, which is what a subscription of the
\* PLC consists of.
Noti(n) == [id |-> n.id, ver |-> n.ver]

\* An operation brings the list to subscribe, or the record a loop captured,
\* which has been made.
OpOK(op) ==
  /\ op.k = "sub" => op.v \in Versions
  /\ op.k \in {"reest", "retry"} => op.g \in 1..gen

\* So do all that wait; the one that runs works on a record that has been made
\* (a resubscribe with the new list at hand), and so will the loops.
Ops ==
  /\ \A j \in DOMAIN q : OpOK(q[j])
  /\ run # None => run.g \in 1..gen
  /\ at = "resubDelete" => run.v \in Versions
  /\ \A g \in Gens : loops[g] > 0 => g <= gen

\* A record has a list from when it is made, and no subscription before.
Recs ==
  \A g \in Gens : IF g <= gen THEN rec[g].ver \in Versions ELSE rec[g].id = 0

\* A request is under way just when the step is one of a request.  The id to be
\* deleted is out of the routes, and the record has no other.  Only a session
\* responds.
Awaits ==
  /\ sent # "no" <=> at \in {"create"} \cup Deletes
  /\ at \notin Deletes => delId = 0
  /\ at \in Deletes => delId \notin DOMAIN byId /\ rec[run.g].id \in {0, delId}
  /\ sent = "response" => Connected

\* Subscriptions and messages are of the session there is, each id once.  If
\* nothing was kept of another, so are the routes and the id of the registered
\* record, and what is routed exists.
SessionHolds ==
  /\ ~Connected => subs = {} /\ chan = <<>>
  /\ \A s, t \in subs : s.id = t.id => s = t
  /\ ~kept => /\ ~Connected => DOMAIN byId = {}
              /\ regd # 0 /\ rec[regd].id # 0 => Connected
              /\ DOMAIN byId \subseteq Live

\* The deletion of i has been executed, and the record still names it.
InDeletion(i) == at \in Deletes /\ sent = "response" /\ i = delId /\ rec[run.g].id = i

\* A notification under way is of a subscription the PLC has, with the list it
\* has now, or of the one whose deletion is about to end.  So is one in the
\* buffer, if nothing was kept of another session.
Notis ==
  /\ ~kept => \A n \in buf : n \in subs \/ InDeletion(n.id)
  /\ \A j \in DOMAIN chan : chan[j].t = "noti" =>
       /\ Noti(chan[j]) \in [id : Ids, ver : Versions]
       /\ Noti(chan[j]) \in subs \/ InDeletion(chan[j].id)

\* There is at most one response under way, and it is to the operation that
\* runs: a creation's carries the record's list, and what follows a deletion's
\* is of the subscriptions that are left.
Responses ==
  /\ \A j, k \in DOMAIN chan : chan[j].t # "noti" /\ chan[k].t # "noti" => j = k
  /\ \A j \in DOMAIN chan : chan[j].t # "noti" => sent = "response"
  /\ \A j \in DOMAIN chan : chan[j].t = "created" =>
       at = "create" /\ Noti(chan[j]) \in subs /\ chan[j].ver = rec[run.g].ver
  /\ \A j \in DOMAIN chan : chan[j].t = "deleted" =>
       at \in Deletes /\ \A k \in DOMAIN chan : k > j => Noti(chan[k]) \in subs

\* A subscription to be deleted that still exists is the record's own.
Deletion == at \in Deletes /\ delId \in Live => rec[run.g].id = delId

\* A routed record has the map of the list that the PLC pushes.
Maps ==
  ~kept => \A s \in subs :
    s.id \in DOMAIN byId /\ rec[byId[s.id]].id = s.id => rec[byId[s.id]].map = s.ver

\* A route leads to the record whose id it is of.
Routes == twice \/ kept \/ OneRoutePerRecord

\* Every operation but an unsubscribe is of an owner that is registered ...
Owner == at \notin {"idle", "unsubDelete"} => regd # 0

\* ... and, unless the owner is a stray, works on the registered record.
NotStray ==
  /\ at = "unsubDelete" => regd = 0
  /\ ~stray /\ at \notin {"idle", "unsubDelete"} => run.g = regd

\* The inductive invariant.
SubInv ==
  /\ TypeOK /\ Ops /\ Recs /\ Awaits /\ SessionHolds /\ Notis /\ Responses /\ Deletion
  /\ Maps /\ Routes /\ Owner /\ NotStray
  /\ RecordRouted /\ EverySubscriptionRouted

\* TypeOK, of the operation that runs.
RunType ==
  /\ run \in Op \cup {None} /\ at \in Steps /\ (run = None <=> at = "idle")
  /\ sent \in {"no", "lock", "response"} /\ delId \in Ids \cup {0}

-----------------------------------------------------------------------------
(* What the operators do *)

\* An operation that is over leaves no step and no request.
LEMMA DoneType ==
  ASSUME Done PROVE RunType' /\ run' = None /\ at' = "idle" /\ sent' = "no" /\ delId' = 0
  BY DEF Done, RunType, Steps

\* One that goes on keeps its kind and its list, and its step decides what it
\* awaits and deletes.
LEMMA GoOnType ==
  ASSUME NEW op \in Op, NEW g \in Gens, NEW step \in Steps \ {"idle"},
         rec \in [Gens -> Record], GoOn(op, g, step)
  PROVE  /\ RunType'
         /\ run' \in Op /\ run' # None /\ run'.k = op.k /\ run'.g = g /\ run'.v = op.v
         /\ at' = step
         /\ sent' = IF step \in {"resolve", "healResolve"} THEN "no" ELSE "lock"
         /\ delId' = IF step \in Deletes THEN rec[g].id ELSE 0
<1>1. run' \in Op /\ run'.k = op.k /\ run'.g = g /\ run'.v = op.v
  BY DEF GoOn, Op, Gens
<1>2. run' # None
  BY <1>1 DEF Op, Kinds, None
<1>3. /\ at' = step
      /\ sent' = IF step \in {"resolve", "healResolve"} THEN "no" ELSE "lock"
      /\ delId' = IF step \in Deletes THEN rec[g].id ELSE 0
  BY DEF GoOn, Deletes
<1>4. RunType'
  BY <1>1, <1>2, <1>3 DEF RunType, Steps, Record
<1> QED
  BY <1>1, <1>2, <1>3, <1>4

\* tryEstablish() sends nothing yet.
LEMMA TryEstablishType ==
  ASSUME NEW op \in Op, NEW g \in Gens, rec \in [Gens -> Record], TryEstablish(op, g)
  PROVE  /\ RunType' /\ sent' = "no" /\ delId' = 0 /\ at' \in {"idle", "resolve"}
         /\ run' # None => run'.k = op.k /\ run'.g = g /\ run'.v = op.v
<1>1. CASE Connected
  BY <1>1, GoOnType DEF TryEstablish, Steps, Deletes
<1>2. CASE ~Connected
  BY <1>2, DoneType DEF TryEstablish
<1> QED
  BY <1>1, <1>2

\* What a record is once its subscription is deleted.
LEMMA ForgottenType ==
  ASSUME NEW r \in Record, TypeOK
  PROVE  /\ Forgotten(r).id = 0
         /\ at # "resubDelete" => Forgotten(r).ver = r.ver
         /\ at = "resubDelete" => Forgotten(r).ver = run.v
         /\ run # None => Forgotten(r) \in Record
  BY SubscriptionAssumption DEF Forgotten, Bare, TypeOK, Record, Op

\* The registered record loses its subscription with the session, and no other
\* record changes.
LEMMA AfterDropType ==
  ASSUME TypeOK
  PROVE  /\ AfterDrop \in [Gens -> Record]
         /\ \A g \in Gens : /\ AfterDrop[g].ver = rec[g].ver
                            /\ g = regd => AfterDrop[g].id = 0
                            /\ g # regd => AfterDrop[g] = rec[g]
  BY SubscriptionAssumption DEF AfterDrop, Bare, TypeOK, Record, Gens

\* What the PLC sends comes last.
LEMMA AppendChan ==
  ASSUME NEW m \in Msgs, chan \in Seq(Msgs), chan' = Append(chan, m)
  PROVE  /\ chan' \in Seq(Msgs)
         /\ DOMAIN chan' = DOMAIN chan \cup {Len(chan) + 1}
         /\ \A j \in DOMAIN chan : chan'[j] = chan[j] /\ j < Len(chan) + 1
         /\ chan'[Len(chan) + 1] = m
  OBVIOUS

\* What arrives came first, and the rest moves up.
LEMMA TailChan ==
  ASSUME chan \in Seq(Msgs), chan # <<>>, chan' = Tail(chan)
  PROVE  /\ chan' \in Seq(Msgs)
         /\ \A j \in DOMAIN chan' : j + 1 \in DOMAIN chan /\ j + 1 > 1 /\ chan'[j] = chan[j + 1]
         /\ \A j \in DOMAIN chan : j # 1 => j - 1 \in DOMAIN chan' /\ chan'[j - 1] = chan[j]
         /\ 1 \in DOMAIN chan /\ Head(chan) = chan[1]
  OBVIOUS

\* What is left of the channel when a notification is taken out of it.
LEMMA NotiChan ==
  ASSUME chan \in Seq(Msgs), Notification
  PROVE  \E p \in DOMAIN chan :
           /\ chan[p] = Notified
           /\ chan[p].t = "noti"
           /\ chan' \in Seq(Msgs)
           /\ \A j \in DOMAIN chan' :
                \E k \in DOMAIN chan : /\ chan'[j] = chan[k] /\ k = IF j < p THEN j ELSE j + 1
           /\ \A j \in DOMAIN chan : j # p => \E k \in DOMAIN chan' : chan'[k] = chan[j]
<1>1. CASE Overtakes
  <2> DEFINE c == <<Head(chan)>> \o Tail(Tail(chan))
  <2>1. chan' = c /\ Len(chan) > 1 /\ chan[2].t = "noti"
    BY <1>1 DEF Notification, Overtakes
  <2> DEFINE d == Tail(Tail(chan))
  <2>a. d \in Seq(Msgs) /\ Len(d) = Len(chan) - 2 /\ \A j \in 1..Len(d) : d[j] = chan[j + 2]
    <3> DEFINE e == Tail(chan)
    <3>1. e \in Seq(Msgs) /\ Len(e) = Len(chan) - 1 /\ \A j \in 1..Len(e) : e[j] = chan[j + 1]
      BY <2>1
    <3>2. d = Tail(e)
      OBVIOUS
    <3> HIDE DEF d, e
    <3>3. d \in Seq(Msgs) /\ Len(d) = Len(e) - 1 /\ \A j \in 1..Len(d) : d[j] = e[j + 1]
      BY <2>1, <3>1, <3>2
    <3> QED
      BY <2>1, <3>1, <3>3
  <2>b. Head(chan) = chan[1] /\ chan[1] \in Msgs
    BY <2>1
  <2>2. /\ c \in Seq(Msgs) /\ Len(c) = Len(chan) - 1 /\ c[1] = chan[1]
        /\ \A j \in 2..Len(c) : c[j] = chan[j + 1]
    <3>1. c = <<chan[1]>> \o d
      BY <2>b
    <3> HIDE DEF c, d
    <3>2. c \in Seq(Msgs) /\ Len(c) = 1 + Len(d)
      BY <3>1, <2>a, <2>b
    <3>3. c[1] = chan[1] /\ \A j \in 2..Len(c) : c[j] = d[j - 1]
      BY <3>1, <2>a, <2>b, <3>2
    <3> QED
      BY <2>a, <3>2, <3>3
  <2> HIDE DEF c, d
  <2>3. \A j \in DOMAIN c : /\ j \in Nat /\ (IF j < 2 THEN j ELSE j + 1) \in DOMAIN chan
                            /\ c[j] = chan[IF j < 2 THEN j ELSE j + 1]
    BY <2>1, <2>2
  <2>4. \A j \in DOMAIN chan : j # 2 => /\ (IF j < 2 THEN j ELSE j - 1) \in DOMAIN c
                                       /\ c[IF j < 2 THEN j ELSE j - 1] = chan[j]
    BY <2>1, <2>2
  <2> HIDE DEF c
  <2>5. 2 \in DOMAIN chan
    BY <2>1
  <2> QED
    BY <1>1, <2>1, <2>2, <2>3, <2>4, <2>5 DEF Notified
<1>2. CASE ~Overtakes
  <2>1. chan # <<>> /\ Head(chan).t = "noti" /\ chan' = Tail(chan)
    BY <1>2 DEF Notification, Arrives
  <2>2. chan' \in Seq(Msgs) /\ 1 \in DOMAIN chan /\ Head(chan) = chan[1]
    BY <2>1, TailChan
  <2>3. \A j \in DOMAIN chan' : /\ j \in Nat /\ (IF j < 1 THEN j ELSE j + 1) \in DOMAIN chan
                                /\ chan'[j] = chan[IF j < 1 THEN j ELSE j + 1]
    BY <2>1
  <2>4. \A j \in DOMAIN chan : j # 1 => j - 1 \in DOMAIN chan' /\ chan'[j - 1] = chan[j]
    BY <2>1, TailChan
  <2> QED
    BY <1>2, <2>1, <2>2, <2>3, <2>4 DEF Notified
<1> QED
  BY <1>1, <1>2

\* Whatever names a record names one that has been made.
LEMMA RecordsMade ==
  ASSUME TypeOK
  PROVE  /\ 1..gen \subseteq Gens /\ gen \in Nat
         /\ \A i \in DOMAIN byId : byId[i] \in Gens
         /\ regd # 0 => regd \in Gens
<1>1. gen \in Nat /\ gen <= MaxGen /\ MaxGen \in Nat
  BY SubscriptionAssumption DEF TypeOK
<1>2. 1..gen \subseteq Gens
  BY <1>1 DEF Gens
<1> QED
  BY <1>1, <1>2 DEF TypeOK, Gens

\* The record of the operation that runs.
LEMMA RunningRecord ==
  ASSUME TypeOK, Ops, Recs, at # "idle"
  PROVE  /\ run \in Op /\ run # None /\ run.g \in Gens /\ run.g \in 1..gen
         /\ rec[run.g] \in Record /\ rec[run.g].ver \in Versions
<1>1. run # None /\ run \in Op /\ run.g \in 1..gen
  BY DEF TypeOK, Ops
<1>2. run.g \in Gens
  BY <1>1, RecordsMade
<1> QED
  BY <1>1, <1>2, RecordsMade DEF TypeOK, Recs

-----------------------------------------------------------------------------
(* The session, the loops and the commands *)

\* A step that touches neither records nor operation nor messages.
LEMMA QuietKeeps ==
  ASSUME SubInv, UNCHANGED <<records, running, plc, history>>,
         conn' \in {"down", "late", "up"}, Connected => Connected',
         q' \in Seq(Op), Len(q') <= MaxQueue, \A j \in DOMAIN q' : OpOK(q'[j]),
         loops' \in [Gens -> 0..MaxLoops], \A g \in Gens : loops'[g] > 0 => g <= gen,
         tick' \in 0..gen, calm' \in BOOLEAN
  PROVE  SubInv'
<1> USE DEF SubInv
<1>1. UNCHANGED <<regd, gen, rec, byId, buf, run, at, sent, delId, subs, chan, lost, twice, kept,
                  stray>>
  BY DEF records, running, plc, history
<1>2. /\ TypeOK' /\ Ops' /\ Recs' /\ Awaits' /\ SessionHolds' /\ Notis' /\ Responses' /\ Deletion'
      /\ Maps' /\ Owner' /\ NotStray' /\ RecordRouted' /\ EverySubscriptionRouted'
  BY <1>1 DEF TypeOK, Ops, OpOK, Recs, Awaits, SessionHolds, Live, Notis, InDeletion,
     Responses, Deletion, Maps, Owner, NotStray, RecordRouted, EverySubscriptionRouted
<1>3. Routes'
  BY <1>1 DEF Routes, OneRoutePerRecord
<1> QED
  BY <1>2, <1>3

\* An operation is put into the queue.
LEMMA EnqueueType ==
  ASSUME SubInv, NEW op \in Op, OpOK(op), Enqueue(op)
  PROVE  q' \in Seq(Op) /\ Len(q') <= MaxQueue /\ \A j \in DOMAIN q' : OpOK(q'[j])
<1>1. q \in Seq(Op) /\ q' = Append(q, op) /\ Len(q) < MaxQueue /\ MaxQueue \in Nat
  BY SubscriptionAssumption DEF Enqueue, SubInv, TypeOK
<1>2. q' \in Seq(Op) /\ Len(q') = Len(q) + 1
  BY <1>1
<1>3. \A j \in DOMAIN q' : IF j \in DOMAIN q THEN q'[j] = q[j] ELSE q'[j] = op
  BY <1>1
<1>4. \A j \in DOMAIN q' : OpOK(q'[j])
  BY <1>3 DEF SubInv, Ops, OpOK
<1> QED
  BY <1>1, <1>2, <1>4

\* The steps that only connect or enqueue are such steps: the socket connects.
LEMMA ConnectingKeeps ==
  ASSUME SubInv, Connecting
  PROVE  SubInv'
<1> USE DEF SubInv
<1>1. UNCHANGED <<records, running, plc, history, q, loops, tick, calm>> /\ conn' = "late"
  BY DEF Connecting
<1> QED
  BY <1>1, QuietKeeps DEF Connected, TypeOK, Ops

\* The loop captures the registered record.
LEMMA ConnectEventKeeps ==
  ASSUME SubInv, ConnectEvent
  PROVE  SubInv'
<1> USE DEF SubInv
<1>1. UNCHANGED <<records, running, plc, history, q, tick, calm>> /\ conn' = "up"
  BY DEF ConnectEvent
<1>2. loops' \in [Gens -> 0..MaxLoops] /\ \A g \in Gens : loops'[g] > 0 => g <= gen
  <2>1. CASE regd = 0
    BY <2>1 DEF ConnectEvent, TypeOK, Ops
  <2>2. CASE regd # 0
    <3>1. /\ loops[regd] < MaxLoops /\ loops' = [loops EXCEPT ![regd] = @ + 1]
          /\ regd \in Gens /\ regd <= gen
      BY <2>2, RecordsMade DEF ConnectEvent, TypeOK
    <3> QED
      BY <3>1, SubscriptionAssumption DEF TypeOK, Ops
  <2> QED
    BY <2>1, <2>2
<1> QED
  BY <1>1, <1>2, QuietKeeps DEF Connected, TypeOK, Ops

\* So does the watchdog.
LEMMA RetryTickKeeps ==
  ASSUME SubInv, RetryTick
  PROVE  SubInv'
<1> USE DEF SubInv
<1>1. UNCHANGED <<records, running, plc, history, conn, q, loops, calm>> /\ tick' = regd
  BY DEF RetryTick
<1> QED
  BY <1>1, QuietKeeps DEF Connected, TypeOK, Ops

\* Nothing fails any more.
LEMMA CalmKeeps ==
  ASSUME SubInv, Calm
  PROVE  SubInv'
<1> USE DEF SubInv
<1>1. UNCHANGED <<records, running, plc, history, conn, q, loops, tick>> /\ calm' \in BOOLEAN
  BY DEF Calm
<1> QED
  BY <1>1, QuietKeeps DEF Connected, TypeOK, Ops

\* The retry of a captured record is enqueued.
LEMMA RetryReachesKeeps ==
  ASSUME SubInv, RetryReaches
  PROVE  SubInv'
<1> USE DEF SubInv
<1>1. /\ UNCHANGED <<records, running, plc, history, conn, loops, calm>> /\ tick' = 0
      /\ tick \in 1..gen /\ gen \in Nat /\ gen <= MaxGen
      /\ Enqueue([k |-> "retry", g |-> tick, v |-> 0])
  BY SubscriptionAssumption DEF RetryReaches, TypeOK
<1>2. [k |-> "retry", g |-> tick, v |-> 0] \in Op /\ OpOK([k |-> "retry", g |-> tick, v |-> 0])
  BY <1>1, SubscriptionAssumption DEF Op, OpOK, Kinds
<1>3. q' \in Seq(Op) /\ Len(q') <= MaxQueue /\ \A j \in DOMAIN q' : OpOK(q'[j])
  BY <1>1, <1>2, EnqueueType
<1>4. 0 \in 0..gen
  BY <1>1
<1> QED
  BY <1>1, <1>3, <1>4, QuietKeeps DEF Connected, TypeOK, Ops

\* Its re-establishment is.
LEMMA LoopReachesKeeps ==
  ASSUME SubInv, NEW g \in Gens, LoopReaches(g)
  PROVE  SubInv'
<1> USE DEF SubInv
<1>1. /\ UNCHANGED <<records, running, plc, history, conn, tick, calm>>
      /\ loops[g] > 0 /\ loops' = [loops EXCEPT ![g] = @ - 1]
      /\ Enqueue([k |-> "reest", g |-> g, v |-> 0])
  BY DEF LoopReaches
<1>2. g \in 1..gen /\ gen <= MaxGen
  BY <1>1, SubscriptionAssumption DEF TypeOK, Ops, Gens
<1>3. [k |-> "reest", g |-> g, v |-> 0] \in Op /\ OpOK([k |-> "reest", g |-> g, v |-> 0])
  BY <1>2, SubscriptionAssumption DEF Op, OpOK, Kinds, TypeOK
<1>4. q' \in Seq(Op) /\ Len(q') <= MaxQueue /\ \A j \in DOMAIN q' : OpOK(q'[j])
  BY <1>1, <1>3, EnqueueType
<1>5. loops' \in [Gens -> 0..MaxLoops] /\ \A h \in Gens : loops'[h] > 0 => h <= gen
  BY <1>1, SubscriptionAssumption DEF TypeOK, Ops
<1> QED
  BY <1>1, <1>4, <1>5, QuietKeeps DEF Connected, TypeOK

\* A subscribe is.
LEMMA SubscribeKeeps ==
  ASSUME SubInv, NEW v \in Versions, Subscribe(v)
  PROVE  SubInv'
<1> USE DEF SubInv
<1>1. /\ UNCHANGED <<records, running, plc, history, conn, loops, tick, calm>>
      /\ Enqueue([k |-> "sub", g |-> 0, v |-> v])
  BY DEF Subscribe
<1>2. [k |-> "sub", g |-> 0, v |-> v] \in Op /\ OpOK([k |-> "sub", g |-> 0, v |-> v])
  BY SubscriptionAssumption DEF Op, OpOK, Kinds
<1>3. q' \in Seq(Op) /\ Len(q') <= MaxQueue /\ \A j \in DOMAIN q' : OpOK(q'[j])
  BY <1>1, <1>2, EnqueueType
<1> QED
  BY <1>1, <1>3, QuietKeeps DEF Connected, TypeOK, Ops

\* An unsubscribe is.
LEMMA UnsubscribeKeeps ==
  ASSUME SubInv, Unsubscribe
  PROVE  SubInv'
<1> USE DEF SubInv
<1>1. /\ UNCHANGED <<records, running, plc, history, conn, loops, tick, calm>>
      /\ Enqueue([k |-> "unsub", g |-> 0, v |-> 0])
  BY DEF Unsubscribe
<1>2. [k |-> "unsub", g |-> 0, v |-> 0] \in Op /\ OpOK([k |-> "unsub", g |-> 0, v |-> 0])
  BY SubscriptionAssumption DEF Op, OpOK, Kinds
<1>3. q' \in Seq(Op) /\ Len(q') <= MaxQueue /\ \A j \in DOMAIN q' : OpOK(q'[j])
  BY <1>1, <1>2, EnqueueType
<1> QED
  BY <1>1, <1>3, QuietKeeps DEF Connected, TypeOK, Ops

-----------------------------------------------------------------------------
(* The operations *)

\* The first of the queue is taken, when nothing runs.
LEMMA StartOpType ==
  ASSUME SubInv, StartOp
  PROVE  /\ Head(q) \in Op /\ OpOK(Head(q))
         /\ q' \in Seq(Op) /\ Len(q') <= MaxQueue /\ \A j \in DOMAIN q' : OpOK(q'[j])
         /\ run = None /\ at = "idle" /\ sent = "no" /\ delId = 0
<1>1. q \in Seq(Op) /\ q # <<>> /\ q' = Tail(q) /\ run = None
  BY DEF StartOp, SubInv, TypeOK
<1>2. Head(q) = q[1] /\ 1 \in DOMAIN q /\ q[1] \in Op
  BY <1>1
<1>3. /\ q' \in Seq(Op) /\ Len(q') = Len(q) - 1
      /\ \A j \in DOMAIN q' : j + 1 \in DOMAIN q /\ q'[j] = q[j + 1]
  BY <1>1
<1>4. \A j \in DOMAIN q : OpOK(q[j])
  BY DEF SubInv, Ops, OpOK
<1>5. \A j \in DOMAIN q' : OpOK(q'[j])
  BY <1>3, <1>4
<1>6. OpOK(Head(q))
  BY <1>2, <1>4
<1>7. Len(q') <= MaxQueue
  BY <1>1, <1>3, SubscriptionAssumption DEF SubInv, TypeOK
<1>8. at = "idle" /\ sent = "no" /\ delId = 0
  BY <1>1, SubscriptionAssumption DEF SubInv, TypeOK, Awaits, Deletes
<1> QED
  BY <1>1, <1>2, <1>3, <1>5, <1>6, <1>7, <1>8

\* An operation starts that changes no record, and sends nothing yet.
LEMMA BeginKeeps ==
  ASSUME SubInv, StartOp, UNCHANGED <<regd, gen, rec, byId, buf>>,
         RunType', sent' = "no", delId' = 0, at' \in {"idle", "resolve", "healResolve"},
         run' # None => regd # 0 /\ run'.g \in 1..gen /\ run'.k # "unsub"
  PROVE  SubInv'
<1> USE DEF SubInv
<1>1. /\ q' \in Seq(Op) /\ Len(q') <= MaxQueue /\ \A j \in DOMAIN q' : OpOK(q'[j])
      /\ run = None /\ at = "idle" /\ sent = "no" /\ delId = 0
  BY StartOpType
<1>2. /\ UNCHANGED <<conn, loops, tick, subs, chan, lost, twice, kept, calm>>
      /\ stray' = (stray \/ (run'.k # "unsub" /\ run'.g \notin {0, regd'}))
  BY DEF StartOp, plc
<1>3. at' # "idle" => (run'.g = regd \/ stray')
  <2>1. at' # "idle" => run' # None /\ run'.g \in 1..gen /\ run'.k # "unsub"
    BY DEF RunType
  <2>2. 0 \notin 1..gen
    OBVIOUS
  <2> QED
    BY <1>2, <2>1, <2>2
<1>4. TypeOK' /\ Ops' /\ Notis' /\ Responses' /\ RecordRouted' /\ EverySubscriptionRouted'
  BY <1>1, <1>2 DEF TypeOK, RunType, Ops, OpOK, Notis, InDeletion, Responses, RecordRouted,
     Connected, Live, EverySubscriptionRouted
<1>5. Recs' /\ Awaits' /\ Deletion' /\ Owner'
  BY DEF Recs, Awaits, Deletes, Deletion, Owner, RunType
<1>6. SessionHolds' /\ Maps' /\ Routes'
  BY <1>2 DEF SessionHolds, Connected, Live, Maps, Routes, OneRoutePerRecord
<1>7. NotStray'
  BY <1>3 DEF NotStray
<1> QED
  BY <1>4, <1>5, <1>6, <1>7

\* A re-establishment is one of these.
LEMMA StartReestKeeps ==
  ASSUME SubInv, StartOp, StartReest(Head(q)), Head(q).k = "reest"
  PROVE  SubInv'
<1> USE DEF SubInv
<1>1. Head(q) \in Op /\ Head(q).g \in Gens /\ Head(q).g \in 1..gen /\ rec \in [Gens -> Record]
  BY StartOpType, RecordsMade DEF OpOK, TypeOK
<1>2. CASE regd # 0
  BY <1>1, <1>2, TryEstablishType, BeginKeeps DEF StartReest, Registered, records
<1>3. CASE regd = 0
  BY <1>1, <1>3, DoneType, BeginKeeps DEF StartReest, Registered, records
<1> QED
  BY <1>2, <1>3

\* So is a retry.
LEMMA StartRetryKeeps ==
  ASSUME SubInv, StartOp, StartRetry(Head(q)), Head(q).k = "retry"
  PROVE  SubInv'
<1> USE DEF SubInv
<1>1. Head(q) \in Op /\ Head(q).g \in Gens /\ Head(q).g \in 1..gen /\ rec \in [Gens -> Record]
  BY StartOpType, RecordsMade DEF OpOK, TypeOK
<1>2. UNCHANGED <<regd, gen, rec, byId, buf>>
  BY DEF StartRetry, records
<1>3. CASE Done
  BY <1>2, <1>3, DoneType, BeginKeeps
<1>4. CASE regd # 0 /\ TryEstablish(Head(q), Head(q).g)
  BY <1>1, <1>2, <1>4, TryEstablishType, BeginKeeps
<1>5. CASE regd # 0 /\ GoOn(Head(q), Head(q).g, "healResolve")
  BY <1>1, <1>2, <1>5, GoOnType, BeginKeeps DEF Steps, Deletes
<1> QED
  BY <1>3, <1>4, <1>5 DEF StartRetry

\* Without a session a record forgets its subscription at once.  That it has
\* one means that something was kept of a session.
LEMMA ForgetKeeps ==
  ASSUME SubInv, NEW v \in Versions, NEW m \in Versions \cup {0}, Forget(regd, v, m),
         regd # 0, rec[regd].id # 0, ~Connected, run = None, at = "idle",
         run' = None, at' = "idle", sent' = "no", delId' = 0, regd' \in {0, regd},
         UNCHANGED <<conn, gen, loops, tick, subs, chan, lost, twice, kept, stray, calm>>,
         q' \in Seq(Op), Len(q') <= MaxQueue, \A j \in DOMAIN q' : OpOK(q'[j])
  PROVE  SubInv'
<1> USE DEF SubInv
<1>1. kept /\ subs = {} /\ chan = <<>>
  BY DEF SessionHolds, TypeOK
<1>2. regd \in Gens /\ rec \in [Gens -> Record] /\ Bare(v, m) \in Record
  BY RecordsMade DEF TypeOK, Bare, Record
<1>3. /\ rec' \in [Gens -> Record] /\ rec'[regd].id = 0 /\ rec'[regd].ver \in Versions
      /\ \A g \in Gens : g # regd => rec'[g] = rec[g]
  BY <1>2 DEF Forget, Bare
<1>4. /\ DOMAIN byId' \subseteq DOMAIN byId /\ \A i \in DOMAIN byId' : byId'[i] = byId[i]
      /\ buf' \subseteq buf
  BY DEF Forget, Unrouted, Discarded
<1>5. TypeOK'
  <2>1. regd' \in 0..gen'
    BY SubscriptionAssumption DEF TypeOK
  <2>2. DOMAIN byId' \subseteq Ids /\ \A i \in DOMAIN byId' : byId'[i] \in 1..gen'
    BY <1>4 DEF TypeOK
  <2> QED
    BY <1>3, <1>4, <2>1, <2>2, SubscriptionAssumption DEF TypeOK, Steps
<1>6. Ops' /\ Awaits' /\ Deletion' /\ Owner' /\ NotStray'
  BY DEF Ops, OpOK, Awaits, Deletes, Deletion, Owner, NotStray
<1>7. Recs'
  BY <1>2, <1>3 DEF Recs
<1>8. SessionHolds' /\ Notis' /\ Responses' /\ Maps' /\ Routes' /\ RecordRouted'
  BY <1>1 DEF SessionHolds, Connected, Notis, Responses, Maps, Routes, RecordRouted
<1>9. EverySubscriptionRouted'
  BY <1>1 DEF EverySubscriptionRouted
<1> QED
  BY <1>5, <1>6, <1>7, <1>8, <1>9

\* An unsubscribe takes the record out of the map and the id out of the routes
\* before it awaits the deletion.
LEMMA StartUnsubKeeps ==
  ASSUME SubInv, StartOp, StartUnsub(Head(q)), Head(q).k = "unsub"
  PROVE  SubInv'
<1> USE DEF SubInv
<1>1. /\ q' \in Seq(Op) /\ Len(q') <= MaxQueue /\ \A j \in DOMAIN q' : OpOK(q'[j])
      /\ run = None /\ at = "idle" /\ sent = "no" /\ delId = 0
  BY StartOpType
<1>2. /\ UNCHANGED <<conn, loops, tick, subs, chan, lost, twice, kept, calm>>
      /\ stray' = (stray \/ (run'.k # "unsub" /\ run'.g \notin {0, regd'}))
  BY DEF StartOp, plc
<1>3. CASE regd # 0 /\ rec[regd].id # 0 /\ ~Connected
  <2>1. /\ regd' = 0 /\ UNCHANGED gen /\ Done
        /\ Forget(regd, rec[regd].ver, rec[regd].map)
    BY <1>3 DEF StartUnsub
  <2>2. regd \in Gens /\ rec[regd] \in Record
    BY <1>3, RecordsMade DEF TypeOK
  <2>3. rec[regd].ver \in Versions \cup {0} /\ rec[regd].map \in Versions \cup {0}
    BY <2>2 DEF Record
  <2>4. run' = None /\ at' = "idle" /\ sent' = "no" /\ delId' = 0 /\ stray' = stray
    <3>1. run' = None /\ at' = "idle" /\ sent' = "no" /\ delId' = 0
      BY <2>1, DoneType
    <3>2. stray' = (stray \/ FALSE) /\ stray \in BOOLEAN
      BY <1>2, <3>1 DEF None, TypeOK
    <3> QED
      BY <3>1, <3>2
  <2> QED
    BY <1>1, <1>2, <1>3, <2>1, <2>2, <2>3, <2>4, ForgetKeeps DEF Recs
<1>4. CASE ~(regd # 0 /\ rec[regd].id # 0 /\ ~Connected)
  <2>1. /\ regd' = 0 /\ UNCHANGED <<gen, rec, buf>> /\ RunType' /\ at' \in {"idle", "unsubDelete"}
        /\ IF at' = "idle"
             THEN run' = None /\ sent' = "no" /\ delId' = 0 /\ byId' = byId
             ELSE /\ sent' = "lock" /\ delId' = rec[regd].id /\ byId' = Unrouted(rec[regd].id)
                  /\ run' # None /\ run'.g = regd /\ run'.g \in 1..gen /\ run'.k = "unsub"
    <3>1. CASE regd = 0 \/ rec[regd].id = 0
      BY <3>1, DoneType DEF StartUnsub
    <3>2. CASE ~(regd = 0 \/ rec[regd].id = 0)
      <4>1. /\ GoOn(Head(q), regd, "unsubDelete") /\ byId' = Unrouted(rec[regd].id)
            /\ regd' = 0 /\ UNCHANGED <<gen, rec, buf>>
        BY <1>4, <3>2 DEF StartUnsub
      <4>2. Head(q) \in Op /\ regd \in Gens /\ regd \in 1..gen /\ rec \in [Gens -> Record]
        BY <3>2, StartOpType, RecordsMade DEF TypeOK
      <4> QED
        BY <4>1, <4>2, GoOnType DEF Steps, Deletes
    <3> QED
      BY <3>1, <3>2
  <2>2. TypeOK' /\ Ops' /\ Deletion'
    BY <1>1, <1>2, <2>1 DEF TypeOK, RunType, Unrouted, Ops, OpOK, Deletion, Live
  <2>3. Recs' /\ Awaits' /\ Owner' /\ NotStray' /\ RecordRouted'
    BY <2>1 DEF Recs, Awaits, Deletes, Unrouted, Owner, NotStray, RecordRouted
  <2>4. SessionHolds' /\ Maps' /\ Routes'
    <3>1. DOMAIN byId' \subseteq DOMAIN byId /\ \A i \in DOMAIN byId' : byId'[i] = byId[i]
      BY <2>1 DEF Unrouted
    <3>2. UNCHANGED <<conn, rec, subs, chan, kept, twice>> /\ regd' = 0
      BY <1>2, <2>1
    <3>3. SessionHolds'
      BY <3>1, <3>2 DEF SessionHolds, Connected, Live
    <3>4. Maps' /\ Routes'
      BY <3>1, <3>2 DEF Maps, Routes, OneRoutePerRecord
    <3> QED
      BY <3>3, <3>4
  <2>5. Notis' /\ Responses'
    BY <1>1, <1>2, <2>1 DEF Notis, InDeletion, Responses
  <2>6. EverySubscriptionRouted'
    BY <1>1, <1>2, <2>1, SubscriptionAssumption DEF TypeOK, EverySubscriptionRouted, Unrouted
  <2> QED
    BY <2>2, <2>3, <2>4, <2>5, <2>6
<1> QED
  BY <1>3, <1>4

\* A subscribe works on a record without a subscription, leaves one that has
\* the same list alone, and takes the id of any other out of the routes.
LEMMA StartSubKeeps ==
  ASSUME SubInv, StartOp, StartSub(Head(q)), Head(q).k = "sub"
  PROVE  SubInv'
<1> USE DEF SubInv
<1>1. /\ q' \in Seq(Op) /\ Len(q') <= MaxQueue /\ \A j \in DOMAIN q' : OpOK(q'[j])
      /\ run = None /\ at = "idle" /\ sent = "no" /\ delId = 0
  BY StartOpType
<1>2. /\ UNCHANGED <<conn, loops, tick, subs, chan, lost, twice, kept, calm>>
      /\ stray' = (stray \/ (run'.k # "unsub" /\ run'.g \notin {0, regd'}))
  BY DEF StartOp, plc
<1>3. Head(q) \in Op /\ Head(q).v \in Versions
  BY StartOpType DEF OpOK
<1>4. gen \in Nat /\ rec \in [Gens -> Record] /\ (regd # 0 => regd \in Gens /\ regd <= gen)
  BY RecordsMade DEF TypeOK
<1>5. CASE regd = 0 \/ rec[regd].id = 0
  <2>1. /\ regd' = IF regd = 0 THEN gen + 1 ELSE regd
        /\ gen' = IF regd = 0 THEN gen + 1 ELSE gen
        /\ rec' = [rec EXCEPT ![regd'] = Listed(@, Head(q).v)]
        /\ TryEstablish(Head(q), regd') /\ UNCHANGED <<byId, buf>>
        /\ gen' <= MaxGen
    <3>1. CASE regd = 0
      BY <1>4, <3>1, SubscriptionAssumption DEF StartSub
    <3>2. CASE regd # 0 /\ rec[regd].id = 0
      BY <3>2, SubscriptionAssumption DEF StartSub, TypeOK
    <3> QED
      BY <1>5, <3>1, <3>2
  <2>2. regd' \in 1..gen' /\ gen' \in 0..MaxGen /\ regd' \in Gens /\ rec[regd'].id = 0
    BY <1>4, <1>5, <2>1, SubscriptionAssumption DEF Gens, Recs
  <2>3. /\ rec' \in [Gens -> Record] /\ rec'[regd'].id = 0 /\ rec'[regd'].ver \in Versions
        /\ \A g \in Gens : g # regd' => rec'[g] = rec[g]
    BY <1>3, <1>4, <2>1, <2>2 DEF Listed, Record
  <2>4. /\ RunType' /\ sent' = "no" /\ delId' = 0 /\ at' \in {"idle", "resolve"}
        /\ run' # None => run'.k = "sub" /\ run'.g = regd' /\ run'.v = Head(q).v
    BY <1>3, <1>4, <2>1, <2>2, TryEstablishType
  <2>5. byId' = byId /\ \A i \in DOMAIN byId : byId[i] \in Gens /\ byId[i] \in 1..gen'
    BY <1>4, <2>1, RecordsMade DEF TypeOK
  <2>6. TypeOK'
    <3>1. gen' \in 0..MaxGen /\ regd' \in 0..gen' /\ tick' \in 0..gen'
      BY <1>2, <1>4, <2>1, <2>2 DEF TypeOK
    <3>2. DOMAIN byId' \subseteq Ids /\ \A i \in DOMAIN byId' : byId'[i] \in 1..gen'
      BY <2>5 DEF TypeOK
    <3>3. stray' \in BOOLEAN
      BY <1>2 DEF TypeOK
    <3> QED
      BY <1>1, <1>2, <2>1, <2>3, <2>4, <3>1, <3>2, <3>3 DEF TypeOK, RunType
  <2>7. Ops'
    BY <1>1, <1>2, <1>4, <2>1, <2>2, <2>4 DEF Ops, OpOK
  <2>8. Recs'
    BY <1>4, <2>1, <2>2, <2>3 DEF Recs
  <2>9. Awaits'
    BY <2>4 DEF Awaits, Deletes
  <2>10. SessionHolds'
    BY <1>2, <2>3, <2>5 DEF SessionHolds, Connected, Live
  <2>11. Notis'
    BY <1>1, <1>2, <2>1 DEF Notis, InDeletion
  <2>12. Responses'
    BY <1>1, <1>2 DEF Responses
  <2>13. Deletion'
    BY <2>4 DEF Deletion, Deletes
  <2>14. Maps'
    BY <1>2, <2>3, <2>5, SubscriptionAssumption DEF Maps, TypeOK
  <2>15. Owner'
    BY <2>2 DEF Owner
  <2>16. NotStray'
    BY <2>4 DEF NotStray, RunType
  <2>17. RecordRouted'
    BY <2>3 DEF RecordRouted
  <2>18. EverySubscriptionRouted'
    BY <1>1, <1>2, <2>4, <2>5 DEF EverySubscriptionRouted
  <2>19. Routes'
    <3> SUFFICES ASSUME ~twice, ~kept, NEW i \in DOMAIN byId
                 PROVE  rec'[byId[i]].id = i
      BY <1>2, <2>5 DEF Routes, OneRoutePerRecord
    <3>1. rec[byId[i]].id = i /\ i # 0 /\ byId[i] \in Gens
      BY <2>5, SubscriptionAssumption DEF Routes, OneRoutePerRecord, TypeOK
    <3> QED
      BY <2>2, <2>3, <3>1
  <2> QED
    BY <2>6, <2>7, <2>8, <2>9, <2>10, <2>11, <2>12, <2>13, <2>14, <2>15, <2>16, <2>17, <2>18,
       <2>19
<1>6. CASE regd # 0 /\ rec[regd].id # 0 /\ ~Connected
  <2>1. /\ Forget(regd, Head(q).v, 0) /\ UNCHANGED <<gen, regd>> /\ TryEstablish(Head(q), regd)
    BY <1>6 DEF StartSub
  <2>2. run' = None /\ at' = "idle" /\ sent' = "no" /\ delId' = 0
    BY <1>6, <2>1, DoneType DEF TryEstablish
  <2>3. stray' = stray
    BY <1>2, <2>2 DEF None, TypeOK
  <2> QED
    BY <1>1, <1>2, <1>3, <1>6, <2>1, <2>2, <2>3, ForgetKeeps
<1>7. CASE regd # 0 /\ rec[regd].id # 0 /\ Connected
  <2>1. Connected
    BY <1>7
  <2>2. CASE rec[regd].ver = Head(q).v
    BY <1>7, <2>1, <2>2, DoneType, BeginKeeps DEF StartSub
  <2>3. CASE rec[regd].ver # Head(q).v
    <3>1. /\ GoOn(Head(q), regd, "resubDelete") /\ byId' = Unrouted(rec[regd].id)
          /\ UNCHANGED <<regd, gen, rec, buf>>
      BY <1>7, <2>1, <2>3 DEF StartSub
    <3>2. /\ RunType' /\ at' = "resubDelete" /\ sent' = "lock" /\ delId' = rec[regd].id
          /\ run' # None /\ run'.k = "sub" /\ run'.g = regd /\ run'.v \in Versions
      BY <1>3, <1>4, <1>7, <3>1, GoOnType DEF Steps, Deletes
    <3>3. TypeOK'
      BY <1>1, <1>2, <3>1, <3>2 DEF TypeOK, RunType, Unrouted
    <3>4. Ops'
      <4>1. run'.g \in 1..gen /\ gen' = gen /\ loops' = loops
        BY <1>2, <1>4, <1>7, <3>1, <3>2 DEF TypeOK
      <4> QED
        BY <1>1, <3>2, <4>1 DEF Ops, OpOK
    <3>5. Recs'
      BY <3>1 DEF Recs
    <3>6. Awaits'
      BY <3>1, <3>2 DEF Awaits, Deletes, Unrouted
    <3>7. SessionHolds'
      BY <1>2, <3>1 DEF SessionHolds, Connected, Live, Unrouted
    <3>8. Notis'
      BY <1>1, <1>2, <3>1 DEF Notis, InDeletion
    <3>9. Responses'
      BY <1>1, <1>2 DEF Responses
    <3>10. Deletion'
      BY <3>1, <3>2 DEF Deletion
    <3>11. Maps'
      BY <1>2, <3>1 DEF Maps, Unrouted
    <3>12. Owner'
      BY <1>7, <3>1 DEF Owner
    <3>13. NotStray'
      BY <3>1, <3>2 DEF NotStray
    <3>14. RecordRouted'
      BY <3>2 DEF RecordRouted
    <3>15. EverySubscriptionRouted'
      <4>1. \A t \in subs : t.id # 0
        BY SubscriptionAssumption DEF TypeOK
      <4> QED
        BY <1>1, <1>2, <3>1, <3>2, <4>1 DEF EverySubscriptionRouted, Unrouted
    <3>16. Routes'
      BY <1>2, <3>1 DEF Routes, OneRoutePerRecord, Unrouted
    <3> QED
      BY <3>3, <3>4, <3>5, <3>6, <3>7, <3>8, <3>9, <3>10, <3>11, <3>12, <3>13, <3>14, <3>15,
         <3>16
  <2> QED
    BY <2>2, <2>3
<1> QED
  BY <1>5, <1>6, <1>7

\* These are all the kinds of operation.
LEMMA StartOpKeeps ==
  ASSUME SubInv, StartOp
  PROVE  SubInv'
<1> USE DEF SubInv
<1>1. Head(q).k \in Kinds
  BY StartOpType DEF Op
<1> QED
  BY <1>1, StartSubKeeps, StartUnsubKeeps, StartReestKeeps, StartRetryKeeps DEF StartOp, Kinds

\* A deletion is over: the record has no subscription any more.
LEMMA AfterDeleteType ==
  ASSUME TypeOK, Ops, Recs, at \in Deletes, NEW up, AfterDelete(up)
  PROVE  /\ run.g \in Gens /\ run.g \in 1..gen
         /\ rec' \in [Gens -> Record] /\ rec'[run.g].id = 0 /\ rec'[run.g].ver \in Versions
         /\ \A g \in Gens : g # run.g => rec'[g] = rec[g]
         /\ RunType' /\ at' \in {"idle", "resolve"} /\ sent' = "no" /\ delId' = 0
         /\ run' # None => run'.g = run.g
         /\ at = "unsubDelete" => at' = "idle"
         /\ buf' = Discarded(rec[run.g].id)
<1>1. /\ run \in Op /\ run # None /\ run.g \in Gens /\ run.g \in 1..gen
      /\ rec \in [Gens -> Record] /\ rec[run.g] \in Record /\ rec[run.g].ver \in Versions
  BY RunningRecord DEF Deletes, TypeOK
<1>2. at = "resubDelete" => run.v \in Versions
  BY DEF Ops
<1>3. /\ Forgotten(rec[run.g]) \in Record /\ Forgotten(rec[run.g]).id = 0
      /\ Forgotten(rec[run.g]).ver \in Versions
  BY <1>1, <1>2, ForgottenType
<1>4. rec' = [rec EXCEPT ![run.g] = Forgotten(@)] /\ buf' = Discarded(rec[run.g].id)
  BY DEF AfterDelete
<1>5. /\ rec' \in [Gens -> Record] /\ rec'[run.g].id = 0 /\ rec'[run.g].ver \in Versions
      /\ \A g \in Gens : g # run.g => rec'[g] = rec[g]
  BY <1>1, <1>3, <1>4
<1>6. /\ RunType' /\ at' \in {"idle", "resolve"} /\ sent' = "no" /\ delId' = 0
      /\ run' # None => run'.g = run.g
      /\ at = "unsubDelete" => at' = "idle"
  <2>1. CASE at = "unsubDelete" \/ ~up
    BY <2>1, DoneType DEF AfterDelete
  <2>2. CASE ~(at = "unsubDelete" \/ ~up)
    BY <1>1, <2>2, GoOnType DEF AfterDelete, Steps, Deletes
  <2> QED
    BY <2>1, <2>2
<1> QED
  BY <1>1, <1>4, <1>5, <1>6

\* Nothing was routed to it.
LEMMA DeletedRoutes ==
  ASSUME TypeOK, Awaits, Routes, at \in Deletes, UNCHANGED <<byId, twice, kept>>,
         \A g \in Gens : g # run.g => rec'[g] = rec[g]
  PROVE  Routes'
<1> SUFFICES ASSUME ~twice, ~kept, NEW i \in DOMAIN byId
             PROVE  rec'[byId[i]].id = i
  BY DEF Routes, OneRoutePerRecord
<1>1. rec[byId[i]].id = i /\ i # 0 /\ i # delId /\ byId[i] \in Gens
  BY RecordsMade, SubscriptionAssumption DEF Routes, OneRoutePerRecord, TypeOK, Awaits
<1>2. byId[i] # run.g
  BY <1>1 DEF Awaits
<1> QED
  BY <1>1, <1>2

\* That symbols are resolved changes no id, list or map.
LEMMA ResolveDoneKeeps ==
  ASSUME SubInv, ResolveDone
  PROVE  SubInv'
<1> USE DEF SubInv
<1>1. /\ UNCHANGED <<conn, regd, gen, byId, buf, q, run, delId, loops, tick, subs, chan, lost,
                     twice, kept, stray, calm>>
      /\ at = "resolve" /\ at' = "create" /\ sent' = "lock"
  BY DEF ResolveDone, plc, history
<1>2. PICK p \in BOOLEAN : rec' = [rec EXCEPT ![run.g].partial = p]
  BY DEF ResolveDone
<1>3. run.g \in Gens /\ rec \in [Gens -> Record] /\ rec[run.g] \in Record
  BY <1>1, RunningRecord DEF TypeOK
<1>4. [rec[run.g] EXCEPT !.partial = p] \in Record
  BY <1>3 DEF Record
<1>5. rec' \in [Gens -> Record]
  BY <1>2, <1>3, <1>4
<1>6. \A g \in Gens : rec'[g].ver = rec[g].ver /\ rec'[g].id = rec[g].id /\ rec'[g].map = rec[g].map
  BY <1>2, <1>3, <1>5 DEF Record
<1>7. \A i \in DOMAIN byId : byId[i] \in Gens
  BY RecordsMade
<1>8. TypeOK'
  BY <1>1, <1>5 DEF TypeOK, Steps
<1>9. /\ Ops' /\ Notis' /\ Deletion' /\ Owner' /\ NotStray'
      /\ EverySubscriptionRouted'
  BY <1>1 DEF Ops, OpOK, Deletes, Notis, InDeletion, Deletion, Owner, NotStray,
     EverySubscriptionRouted
<1>10. Recs'
  BY <1>1, <1>6 DEF Recs
<1>11. SessionHolds'
  BY <1>1, <1>6, RecordsMade DEF SessionHolds, Connected, Live
<1>12. Responses'
  BY <1>1 DEF Awaits, Responses, Deletes
<1>13. Maps' /\ Routes'
  BY <1>1, <1>6, <1>7 DEF Maps, Routes, OneRoutePerRecord
<1>14. RecordRouted'
  BY <1>1, <1>6, SubscriptionAssumption DEF TypeOK, RecordRouted, Connected, Gens, Live
<1>15. Awaits'
  BY <1>1 DEF Awaits, Deletes
<1> QED
  BY <1>8, <1>9, <1>10, <1>11, <1>12, <1>13, <1>14, <1>15

\* An operation that has no deletion and no request under way is given up.
LEMMA GiveUpKeeps ==
  ASSUME SubInv, at \notin Deletes, sent # "response", Done,
         UNCHANGED <<conn, records, q, loops, tick, plc, history, calm>>
  PROVE  SubInv'
<1> USE DEF SubInv
<1>1. UNCHANGED <<conn, regd, gen, rec, byId, buf, q, loops, tick, subs, chan, lost, twice,
                  kept, stray, calm>>
  BY DEF records, plc, history
<1>2. RunType' /\ run' = None /\ at' = "idle" /\ sent' = "no" /\ delId' = 0
  BY DoneType
<1>3. delId = 0
  BY DEF Awaits
<1>4. TypeOK' /\ Ops'
  BY <1>1, <1>2 DEF TypeOK, Steps, Ops, OpOK
<1>5. Recs' /\ SessionHolds' /\ Notis' /\ Responses' /\ Maps' /\ RecordRouted'
  BY <1>1 DEF Recs, SessionHolds, Connected, Live, Notis, InDeletion, Responses, Maps,
     RecordRouted, Deletes
<1>6. Awaits' /\ Deletion' /\ Owner' /\ NotStray'
  BY <1>2 DEF Awaits, Deletes, Deletion, Owner, NotStray
<1>7. EverySubscriptionRouted'
  BY <1>1, <1>2, <1>3 DEF EverySubscriptionRouted
<1>8. Routes'
  BY <1>1 DEF Routes, OneRoutePerRecord
<1> QED
  BY <1>4, <1>5, <1>6, <1>7, <1>8

\* That is how one ends whose symbols cannot be resolved.
LEMMA ResolveFailKeeps ==
  ASSUME SubInv, ResolveFail
  PROVE  SubInv'
<1> USE DEF SubInv
<1>1. at \notin Deletes /\ sent = "no"
  BY DEF ResolveFail, Deletes, Awaits, TypeOK
<1> QED
  BY <1>1, GiveUpKeeps DEF ResolveFail

\* Healing takes the id out of the routes before it awaits the deletion.
LEMMA HealResolveDoneKeeps ==
  ASSUME SubInv, HealResolveDone
  PROVE  SubInv'
<1> USE DEF SubInv
<1>1. /\ GoOn(run, run.g, "healDelete") /\ byId' = Unrouted(rec[run.g].id) /\ at = "healResolve"
      /\ UNCHANGED <<conn, regd, gen, rec, buf, q, loops, tick, subs, chan, lost, twice, kept,
                     stray, calm>>
  BY DEF HealResolveDone, plc, history
<1>2. run \in Op /\ run.g \in 1..gen /\ run.g \in Gens
  BY <1>1, RunningRecord
<1>3. /\ RunType' /\ run' # None /\ run'.g = run.g
      /\ at' = "healDelete" /\ sent' = "lock" /\ delId' = rec[run.g].id
  BY <1>1, <1>2, GoOnType DEF Steps, Deletes, TypeOK
<1>4. delId \notin Ids /\ sent = "no" /\ \A s \in subs : s.id \in Ids
  BY <1>1, SubscriptionAssumption DEF Awaits, Deletes, TypeOK
<1>5. TypeOK' /\ Awaits' /\ Deletion' /\ NotStray'
  BY <1>1, <1>3 DEF TypeOK, RunType, Unrouted, Awaits, Deletes, Deletion, NotStray
<1>6. Ops'
  BY <1>1, <1>2, <1>3 DEF Ops, OpOK
<1>7. Recs' /\ SessionHolds' /\ Maps' /\ Owner' /\ Routes'
  BY <1>1 DEF Recs, SessionHolds, Connected, Live, Unrouted, Maps, Owner,
     Unrouted, Routes, OneRoutePerRecord
<1>8. Notis' /\ Responses'
  BY <1>1, <1>4 DEF Notis, InDeletion, Responses
<1>9. RecordRouted'
  BY <1>3 DEF RecordRouted
<1>10. EverySubscriptionRouted'
  BY <1>1, <1>3, <1>4 DEF EverySubscriptionRouted, Unrouted
<1> QED
  BY <1>5, <1>6, <1>7, <1>8, <1>9, <1>10

\* A deletion that is not sent leaves the subscription among those given up.
LEMMA LockFailKeeps ==
  ASSUME SubInv, LockFail
  PROVE  SubInv'
<1> USE DEF SubInv
<1>1. CASE at = "create"
  <2>1. Done /\ UNCHANGED <<conn, records, q, loops, tick, plc, history, calm>> /\ sent = "lock"
    BY <1>1 DEF LockFail, records, plc
  <2> QED
    BY <1>1, <2>1, GiveUpKeeps DEF Deletes
<1>2. CASE at # "create"
  <2>1. /\ AfterDelete(Connected) /\ at \in Deletes /\ sent = "lock"
        /\ lost' = lost \cup ({delId} \cap Live)
        /\ UNCHANGED <<conn, regd, gen, byId, q, loops, tick, subs, chan, twice, kept, stray, calm>>
    BY <1>2 DEF LockFail, Awaits, Deletes, history
  <2>2. /\ run.g \in Gens /\ run.g \in 1..gen
        /\ rec' \in [Gens -> Record] /\ rec'[run.g].id = 0 /\ rec'[run.g].ver \in Versions
        /\ \A g \in Gens : g # run.g => rec'[g] = rec[g]
    BY <2>1, AfterDeleteType
  <2>3. /\ RunType' /\ at' \in {"idle", "resolve"} /\ sent' = "no" /\ delId' = 0
        /\ run' # None => run'.g = run.g
        /\ at = "unsubDelete" => at' = "idle"
    BY <2>1, AfterDeleteType
  <2>4. buf' = Discarded(rec[run.g].id)
    BY <2>1, AfterDeleteType
  <2>5. (\A i \in DOMAIN byId : byId[i] \in Gens) /\ (regd # 0 => regd \in Gens)
    BY RecordsMade
  <2>6. TypeOK'
    BY <2>1, <2>2, <2>3, <2>4 DEF TypeOK, RunType, Discarded, Live
  <2>7. Ops'
    BY <2>1, <2>2, <2>3 DEF Ops, OpOK
  <2>8. Recs'
    BY <2>1, <2>2 DEF Recs
  <2>9. Awaits'
    BY <2>3 DEF Awaits, Deletes
  <2>10. SessionHolds'
    BY <2>1, <2>2, <2>5 DEF SessionHolds, Live, Connected
  <2>11. Notis'
    BY <2>1, <2>4 DEF Notis, InDeletion, Discarded
  <2>12. Responses'
    BY <2>1 DEF Responses
  <2>13. Deletion'
    BY <2>3 DEF Deletion, Deletes
  <2>14. Maps'
    BY <2>1, <2>2, <2>5, SubscriptionAssumption DEF Maps, TypeOK
  <2>15. Owner'
    BY <2>1, <2>2, <2>3 DEF TypeOK, Owner, None
  <2>16. NotStray'
    BY <2>1, <2>3 DEF NotStray, RunType, Deletes
  <2>17. RecordRouted'
    BY <2>1, <2>2, <2>5 DEF NotStray, RecordRouted, Connected, Live
  <2>18. EverySubscriptionRouted'
    BY <2>1 DEF EverySubscriptionRouted, Live
  <2>19. Routes'
    BY <2>1, <2>2, DeletedRoutes
  <2> QED
    BY <2>6, <2>7, <2>8, <2>9, <2>10, <2>11, <2>12, <2>13, <2>14, <2>15, <2>16, <2>17, <2>18,
       <2>19
<1> QED
  BY <1>1, <1>2

-----------------------------------------------------------------------------
(* The PLC, and what arrives from it *)

\* The PLC takes an id that is not in use, and its response is the only one.
LEMMA PlcCreateKeeps ==
  ASSUME SubInv, PlcCreate
  PROVE  SubInv'
<1> USE DEF SubInv
<1>1. /\ UNCHANGED <<conn, regd, gen, rec, byId, buf, q, run, at, delId, loops, tick, lost,
                     twice, kept, stray, calm>>
      /\ at = "create" /\ Connected /\ sent = "lock" /\ sent' = "response"
  BY DEF PlcCreate, records, history
<1>2. PICK i \in Ids \ Live :
        /\ subs' = subs \cup {[id |-> i, ver |-> rec[run.g].ver]}
        /\ chan' = Append(chan, [t |-> "created", id |-> i, ver |-> rec[run.g].ver])
  BY DEF PlcCreate
<1>3. run.g \in Gens /\ rec[run.g].ver \in Versions
  BY <1>1, RunningRecord
<1>4. /\ chan' \in Seq(Msgs)
      /\ DOMAIN chan' = DOMAIN chan \cup {Len(chan) + 1}
      /\ \A j \in DOMAIN chan : chan'[j] = chan[j] /\ j < Len(chan) + 1
      /\ chan'[Len(chan) + 1] = [t |-> "created", id |-> i, ver |-> rec[run.g].ver]
  BY <1>2, <1>3, AppendChan DEF TypeOK, Msgs
<1>5. delId = 0 /\ \A s \in subs : s.id \in Ids
  BY <1>1 DEF Awaits, Deletes, TypeOK
<1>6. TypeOK'
  BY <1>1, <1>2, <1>3, <1>4 DEF TypeOK
<1>7. /\ Ops' /\ Recs' /\ Awaits' /\ Deletion' /\ Owner' /\ NotStray'
      /\ Routes'
  BY <1>1 DEF Ops, OpOK, Recs, Awaits, Connected, Deletion, Deletes, Owner, NotStray,
     Routes, OneRoutePerRecord
<1>8. SessionHolds' /\ Notis' /\ Responses' /\ RecordRouted'
  BY <1>1, <1>2 DEF SessionHolds, Connected, Live, Notis, InDeletion, Responses, Noti,
     RecordRouted
<1>9. Maps'
  BY <1>1, <1>2 DEF Maps, SessionHolds, Live
<1>10. EverySubscriptionRouted'
  <2> SUFFICES ASSUME NEW s \in subs'
               PROVE  \/ s.id \in DOMAIN byId
                      \/ s.id \in lost
                      \/ \E m \in DOMAIN chan' : chan'[m].t = "created" /\ chan'[m].id = s.id
    BY <1>1 DEF EverySubscriptionRouted
  <2>1. CASE s \in subs
    BY <1>4, <1>5, <2>1, SubscriptionAssumption DEF EverySubscriptionRouted
  <2>2. CASE s \notin subs
    BY <1>2, <1>4, <2>2
  <2> QED
    BY <2>1, <2>2
<1> QED
  BY <1>6, <1>7, <1>8, <1>9, <1>10

\* The PLC deletes, and what it has sent of that subscription comes before the
\* response.
LEMMA PlcDeleteKeeps ==
  ASSUME SubInv, PlcDelete
  PROVE  SubInv'
<1> USE DEF SubInv
<1>1. /\ UNCHANGED <<conn, regd, gen, rec, byId, buf, q, run, at, delId, loops, tick,
                     twice, kept, stray, calm>>
      /\ at \in Deletes /\ Connected /\ sent = "lock" /\ sent' = "response"
  BY DEF PlcDelete, records, history, Awaits
<1>2. \/ subs' = {s \in subs : s.id # delId} /\ lost' = lost \ {delId}
      \/ delId \in Live /\ lost' = lost \cup {delId} /\ subs' = subs
  BY DEF PlcDelete
<1>3. /\ chan' \in Seq(Msgs)
      /\ DOMAIN chan' = DOMAIN chan \cup {Len(chan) + 1}
      /\ \A j \in DOMAIN chan : chan'[j] = chan[j] /\ j < Len(chan) + 1
      /\ chan'[Len(chan) + 1] = [t |-> "deleted", id |-> 0, ver |-> 0]
  BY AppendChan DEF PlcDelete, TypeOK, Msgs
<1>4. \A j \in DOMAIN chan : chan[j].t = "noti"
  BY <1>1 DEF Responses
<1>5. \A k \in DOMAIN chan' : ~(k > Len(chan) + 1)
  BY <1>3 DEF TypeOK
<1>6. subs' \subseteq subs /\ \A s \in subs : s.id # delId => s \in subs'
  BY <1>2
<1>7. TypeOK'
  BY <1>1, <1>2, <1>3, <1>6 DEF TypeOK, Live
<1>8. /\ Ops' /\ Recs' /\ Awaits' /\ Deletion' /\ Maps' /\ Owner' /\ NotStray'
      /\ Routes'
  BY <1>1, <1>6 DEF Ops, OpOK, Recs, Awaits, Connected, Deletion, Live, Maps, Owner, NotStray,
     Routes, OneRoutePerRecord
<1>9. SessionHolds'
  BY <1>1, <1>6 DEF Awaits, SessionHolds, Connected, Live
<1>10. Notis'
  BY <1>1, <1>3, <1>6 DEF Notis, Deletion, Live, Noti, InDeletion
<1>11. Responses'
  BY <1>1, <1>3, <1>5 DEF Responses
<1>12. RecordRouted'
  BY <1>1, <1>6 DEF NotStray, RecordRouted, Deletes, Live, Awaits, Connected
<1>13. EverySubscriptionRouted'
  BY <1>1, <1>2, <1>4 DEF EverySubscriptionRouted
<1> QED
  BY <1>7, <1>8, <1>9, <1>10, <1>11, <1>12, <1>13

\* The PLC sends a notification of a subscription it has.
LEMMA PlcPushKeeps ==
  ASSUME SubInv, PlcPush
  PROVE  SubInv'
<1> USE DEF SubInv
<1>1. UNCHANGED <<conn, regd, gen, rec, byId, buf, q, run, at, sent, delId, loops, tick, subs,
                  lost, twice, kept, stray, calm>>
  BY DEF PlcPush, records, running, history
<1>2. PICK s \in subs : chan' = Append(chan, [t |-> "noti", id |-> s.id, ver |-> s.ver])
  BY DEF PlcPush
<1>3. /\ chan' \in Seq(Msgs)
      /\ DOMAIN chan' = DOMAIN chan \cup {Len(chan) + 1}
      /\ \A j \in DOMAIN chan : chan'[j] = chan[j] /\ j < Len(chan) + 1
      /\ chan'[Len(chan) + 1] = [t |-> "noti", id |-> s.id, ver |-> s.ver]
  BY <1>2, AppendChan DEF TypeOK, Msgs
<1>4. [id |-> s.id, ver |-> s.ver] \in subs
  BY DEF TypeOK
<1>5. TypeOK'
  BY <1>1, <1>3 DEF TypeOK
<1>6. /\ Ops' /\ Recs' /\ Awaits' /\ SessionHolds' /\ Deletion' /\ Maps' /\ Owner' /\ NotStray'
      /\ RecordRouted' /\ Routes'
  BY <1>1 DEF Ops, OpOK, Recs, Awaits, Connected, SessionHolds, Live, Deletion, Maps, Owner,
     NotStray, RecordRouted, Routes, OneRoutePerRecord
<1>7. Notis'
  BY <1>1, <1>3 DEF Notis, Noti, InDeletion, TypeOK
<1>8. Responses'
  BY <1>1, <1>3, <1>4 DEF Responses, Noti
<1>9. EverySubscriptionRouted'
  BY <1>1, <1>3 DEF EverySubscriptionRouted
<1> QED
  BY <1>5, <1>6, <1>7, <1>8, <1>9

\* The record is routed: what waits in the buffer for its id is of the
\* subscription just created, hence of the record's own list.
LEMMA CreatedKeeps ==
  ASSUME SubInv, Created
  PROVE  SubInv'
<1> USE DEF SubInv
<1> DEFINE i == Head(chan).id
<1>1. /\ chan' \in Seq(Msgs)
      /\ \A j \in DOMAIN chan' : j + 1 \in DOMAIN chan /\ j + 1 > 1 /\ chan'[j] = chan[j + 1]
      /\ \A j \in DOMAIN chan : j # 1 => j - 1 \in DOMAIN chan' /\ chan'[j - 1] = chan[j]
      /\ 1 \in DOMAIN chan /\ Head(chan) = chan[1]
  BY TailChan DEF Created, Arrives, TypeOK
<1>2. /\ chan[1].t = "created" /\ i = chan[1].id /\ at = "create" /\ sent = "response"
      /\ [id |-> i, ver |-> rec[run.g].ver] \in subs
  BY <1>1 DEF Created, Arrives, Responses, Noti
<1>3. run.g \in Gens /\ run.g \in 1..gen /\ i \in Ids
  BY <1>2, RunningRecord DEF TypeOK
<1>4. RunType' /\ run' = None /\ at' = "idle" /\ sent' = "no" /\ delId' = 0
  BY DoneType DEF Created
<1>5. /\ rec' \in [Gens -> Record]
      /\ rec'[run.g].id = i /\ rec'[run.g].ver = rec[run.g].ver /\ rec'[run.g].map = rec[run.g].ver
      /\ \A g \in Gens : g # run.g => rec'[g] = rec[g]
  BY <1>3 DEF Created, Subscribed, TypeOK, Record
<1>6. /\ DOMAIN byId' = DOMAIN byId \cup {i} /\ byId'[i] = run.g
      /\ \A j \in DOMAIN byId : j # i => byId'[j] = byId[j]
  BY DEF Created, Route
<1>7. /\ UNCHANGED <<conn, regd, gen, q, loops, tick, subs, lost, kept, stray, calm>>
      /\ buf' = {n \in buf : n.id # i} /\ twice' = (twice \/ rec[run.g].id # 0)
  BY DEF Created
<1>8. \A s \in subs : s.id = i => s.ver = rec[run.g].ver
  BY <1>2 DEF SessionHolds
<1>9. 0 \notin Ids /\ \A j \in DOMAIN byId : j \in Ids /\ byId[j] \in Gens
  BY RecordsMade, SubscriptionAssumption DEF TypeOK
<1>10. Routes'
  <2> SUFFICES ASSUME ~twice, ~kept, rec[run.g].id = 0, NEW j \in DOMAIN byId, j # i
               PROVE  rec'[byId[j]].id = j
    BY <1>5, <1>6, <1>7 DEF Routes, OneRoutePerRecord
  <2>1. rec[byId[j]].id = j
    BY DEF Routes, OneRoutePerRecord
  <2> QED
    BY <1>5, <1>9, <2>1
<1>11. \A j \in DOMAIN chan' : chan'[j].t = "noti"
  BY <1>1, <1>2 DEF Responses
<1>12. Connected
  BY <1>2 DEF SessionHolds
<1> HIDE DEF i
<1>13. TypeOK'
  <2>1. \A j \in DOMAIN byId' : byId'[j] \in 1..gen /\ j \in Ids
    BY <1>3, <1>6 DEF TypeOK
  <2> QED
    BY <1>1, <1>4, <1>5, <1>7, <2>1 DEF TypeOK, RunType
<1>14. Ops'
  BY <1>4, <1>7 DEF Ops, OpOK
<1>15. Recs'
  BY <1>3, <1>5, <1>7 DEF Recs
<1>16. Awaits' /\ Deletion' /\ Owner' /\ NotStray'
  BY <1>4 DEF Awaits, Deletes, Deletion, Owner, NotStray
<1>17. SessionHolds'
  BY <1>2, <1>6, <1>7 DEF SessionHolds, Connected, Live
<1>18. Notis'
  BY <1>1, <1>2, <1>7 DEF Notis, InDeletion, Deletes
<1>19. Responses'
  BY <1>11 DEF Responses
<1>20. Maps'
  <2> SUFFICES ASSUME ~kept, NEW s \in subs, s.id \in DOMAIN byId', rec'[byId'[s.id]].id = s.id
               PROVE  rec'[byId'[s.id]].map = s.ver
    BY <1>7 DEF Maps
  <2>1. CASE s.id = i
    BY <1>5, <1>6, <1>8, <2>1
  <2>2. CASE s.id # i
    <3>1. s.id \in DOMAIN byId /\ byId'[s.id] = byId[s.id] /\ byId[s.id] \in Gens
      BY <1>6, <2>2, RecordsMade
    <3>2. byId[s.id] # run.g
      BY <1>5, <2>2, <3>1
    <3> QED
      BY <1>5, <3>1, <3>2 DEF Maps
  <2> QED
    BY <2>1, <2>2
<1>21. RecordRouted'
  BY <1>2, <1>5, <1>6, <1>7, <1>12 DEF NotStray, RecordRouted, Connected, Live
<1>22. EverySubscriptionRouted'
  <2> SUFFICES ASSUME NEW s \in subs, s.id # i, s.id \notin DOMAIN byId, s.id \notin lost
               PROVE  FALSE
    BY <1>6, <1>7 DEF EverySubscriptionRouted
  <2>1. s.id # delId
    BY <1>2, SubscriptionAssumption DEF Awaits, Deletes, TypeOK
  <2>2. PICK m \in DOMAIN chan : chan[m].t = "created" /\ chan[m].id = s.id
    BY <2>1 DEF EverySubscriptionRouted
  <2>3. m = 1
    BY <1>1, <1>2, <2>2 DEF Responses
  <2> QED
    BY <1>2, <2>2, <2>3
<1> QED
  BY <1>10, <1>13, <1>14, <1>15, <1>16, <1>17, <1>18, <1>19, <1>20, <1>21, <1>22

\* A creation that is taken to have failed leaves the subscription among the
\* lost ones.
LEMMA CreateRefusedKeeps ==
  ASSUME SubInv, CreateRefused
  PROVE  SubInv'
<1> USE DEF SubInv
<1>1. /\ chan' \in Seq(Msgs)
      /\ \A j \in DOMAIN chan' : j + 1 \in DOMAIN chan /\ j + 1 > 1 /\ chan'[j] = chan[j + 1]
      /\ \A j \in DOMAIN chan : j # 1 => j - 1 \in DOMAIN chan' /\ chan'[j - 1] = chan[j]
      /\ 1 \in DOMAIN chan /\ Head(chan) = chan[1]
  BY TailChan DEF CreateRefused, Arrives, TypeOK
<1>2. /\ chan[1].t = "created" /\ at = "create" /\ sent = "response"
      /\ Noti(chan[1]) \in subs /\ lost' = lost \cup {chan[1].id}
      /\ UNCHANGED <<conn, regd, gen, rec, byId, buf, q, loops, tick, subs, twice, kept, stray,
                     calm>>
  BY <1>1 DEF CreateRefused, Arrives, Responses, records, history
<1>3. RunType' /\ run' = None /\ at' = "idle" /\ sent' = "no" /\ delId' = 0
  BY DoneType DEF CreateRefused
<1>4. \A j \in DOMAIN chan' : chan'[j].t = "noti"
  BY <1>1, <1>2 DEF Responses
<1>5. chan[1].id \in Ids
  BY <1>2 DEF Noti, TypeOK
<1>6. TypeOK'
  BY <1>1, <1>2, <1>3, <1>5 DEF TypeOK, RunType
<1>7. Ops' /\ Recs'
  BY <1>2, <1>3 DEF Ops, OpOK, Recs
<1>8. Awaits' /\ Deletion' /\ Owner' /\ NotStray'
  BY <1>3 DEF Awaits, Deletes, Deletion, Owner, NotStray
<1>9. SessionHolds'
  <2>1. Connected
    BY <1>2 DEF Awaits
  <2> QED
    BY <1>2, <2>1 DEF SessionHolds, Connected, Live
<1>10. Notis'
  BY <1>1, <1>2 DEF Notis, InDeletion, Deletes
<1>11. Responses'
  BY <1>4 DEF Responses
<1>12. Maps' /\ Routes'
  BY <1>2 DEF Maps, Routes, OneRoutePerRecord
<1>13. RecordRouted'
  BY <1>2 DEF RecordRouted, Connected, Live
<1>14. EverySubscriptionRouted'
  <2> SUFFICES ASSUME NEW s \in subs, s.id # chan[1].id, s.id \notin DOMAIN byId, s.id \notin lost
               PROVE  FALSE
    BY <1>2 DEF EverySubscriptionRouted
  <2>1. s.id # delId
    BY <1>2, SubscriptionAssumption DEF Awaits, Deletes, TypeOK
  <2>2. PICK m \in DOMAIN chan : chan[m].t = "created" /\ chan[m].id = s.id
    BY <2>1 DEF EverySubscriptionRouted
  <2>3. m = 1
    BY <1>1, <1>2, <2>2 DEF Responses
  <2> QED
    BY <2>2, <2>3
<1> QED
  BY <1>6, <1>7, <1>8, <1>9, <1>10, <1>11, <1>12, <1>13, <1>14

\* With the response to a deletion nothing of that subscription is left, in
\* the channel or in the buffer.
LEMMA DeletedKeeps ==
  ASSUME SubInv, Deleted
  PROVE  SubInv'
<1> USE DEF SubInv
<1>1. /\ chan' \in Seq(Msgs)
      /\ \A j \in DOMAIN chan' : j + 1 \in DOMAIN chan /\ j + 1 > 1 /\ chan'[j] = chan[j + 1]
      /\ \A j \in DOMAIN chan : j # 1 => j - 1 \in DOMAIN chan' /\ chan'[j - 1] = chan[j]
      /\ 1 \in DOMAIN chan /\ Head(chan) = chan[1]
  BY TailChan DEF Deleted, Arrives, TypeOK
<1>2. /\ chan[1].t = "deleted" /\ at \in Deletes /\ sent = "response" /\ AfterDelete(TRUE)
      /\ UNCHANGED <<conn, regd, gen, byId, q, loops, tick, subs, lost, twice, kept, stray, calm>>
  BY <1>1 DEF Deleted, Arrives, Responses, history
<1>3. \A j \in DOMAIN chan' : chan'[j].t = "noti" /\ Noti(chan'[j]) \in subs
  BY <1>1, <1>2 DEF Responses
<1>4. /\ run.g \in Gens /\ run.g \in 1..gen
      /\ rec' \in [Gens -> Record] /\ rec'[run.g].id = 0 /\ rec'[run.g].ver \in Versions
      /\ \A g \in Gens : g # run.g => rec'[g] = rec[g]
  BY <1>2, AfterDeleteType
<1>5. /\ RunType' /\ at' \in {"idle", "resolve"} /\ sent' = "no" /\ delId' = 0
      /\ run' # None => run'.g = run.g
      /\ at = "unsubDelete" => at' = "idle"
  BY <1>2, AfterDeleteType
<1>6. buf' = {n \in buf : n.id # rec[run.g].id}
  BY <1>2, AfterDeleteType DEF Discarded
<1>7. (\A i \in DOMAIN byId : byId[i] \in Gens) /\ (regd # 0 => regd \in Gens)
  BY RecordsMade
<1>8. TypeOK'
  BY <1>1, <1>2, <1>4, <1>5, <1>6 DEF TypeOK, RunType
<1>9. Ops' /\ Owner'
  BY <1>2, <1>4, <1>5 DEF Ops, OpOK, TypeOK, Owner, None
<1>10. Recs'
  BY <1>2, <1>4 DEF Recs
<1>11. Awaits' /\ Deletion'
  BY <1>5 DEF Awaits, Deletes, Deletion
<1>12. SessionHolds' /\ EverySubscriptionRouted'
  BY <1>1, <1>2 DEF SessionHolds, Connected, Live, EverySubscriptionRouted
<1>13. Notis'
  BY <1>1, <1>2, <1>3, <1>6 DEF Notis, InDeletion
<1>14. Responses'
  BY <1>3 DEF Responses
<1>15. Maps'
  BY <1>2, <1>4, <1>7, SubscriptionAssumption DEF Maps, TypeOK
<1>16. NotStray'
  BY <1>2, <1>5 DEF NotStray, RunType, Deletes
<1>17. RecordRouted'
  BY <1>2, <1>4, <1>7 DEF NotStray, RecordRouted, Connected, Live
<1>18. Routes'
  BY <1>2, <1>4, DeletedRoutes
<1> QED
  BY <1>8, <1>9, <1>10, <1>11, <1>12, <1>13, <1>14, <1>15, <1>16, <1>17, <1>18

\* A notification leaves the channel and meets the map made for it.
LEMMA NotificationKeeps ==
  ASSUME SubInv, Notification
  PROVE  SubInv'
<1> USE DEF SubInv
<1>1. PICK p \in DOMAIN chan :
        /\ chan[p] = Notified
        /\ chan[p].t = "noti"
        /\ chan' \in Seq(Msgs)
        /\ \A j \in DOMAIN chan' :
             \E k \in DOMAIN chan : chan'[j] = chan[k] /\ k = IF j < p THEN j ELSE j + 1
        /\ \A j \in DOMAIN chan : j # p => \E k \in DOMAIN chan' : chan'[k] = chan[j]
  BY NotiChan DEF TypeOK
<1>2. UNCHANGED <<conn, regd, gen, rec, byId, q, run, at, sent, delId, loops, tick, subs, lost,
                  twice, kept, stray, calm>>
  BY DEF Notification, running, history
<1>3. buf' \in {buf, buf \cup {Noti(chan[p])}}
  BY <1>1 DEF Notification, Noti
<1>4. /\ Noti(chan[p]) \in [id : Ids, ver : Versions]
      /\ Noti(chan[p]) \in subs \/ InDeletion(chan[p].id)
  BY <1>1 DEF Notis
<1>7. \A j, k \in DOMAIN chan' :
        \E l, m \in DOMAIN chan : /\ chan'[j] = chan[l] /\ chan'[k] = chan[m]
                                  /\ (j = k <=> l = m) /\ (k > j <=> m > l)
  <2> SUFFICES ASSUME NEW j \in DOMAIN chan', NEW k \in DOMAIN chan'
               PROVE  \E l, m \in DOMAIN chan : /\ chan'[j] = chan[l] /\ chan'[k] = chan[m]
                                                /\ (j = k <=> l = m) /\ (k > j <=> m > l)
    OBVIOUS
  <2>1. p \in Nat /\ j \in Nat /\ k \in Nat
    BY <1>1 DEF TypeOK
  <2>2. PICK l \in DOMAIN chan : chan'[j] = chan[l] /\ l = IF j < p THEN j ELSE j + 1
    BY <1>1
  <2>3. PICK m \in DOMAIN chan : chan'[k] = chan[m] /\ m = IF k < p THEN k ELSE k + 1
    BY <1>1
  <2> QED
    BY <2>1, <2>2, <2>3
<1>8. TypeOK'
  BY <1>1, <1>2, <1>3, <1>4 DEF TypeOK
<1>9. /\ Ops' /\ Recs' /\ Awaits' /\ SessionHolds' /\ Deletion' /\ Maps' /\ Owner' /\ NotStray'
      /\ RecordRouted'
  BY <1>2 DEF Ops, OpOK, Recs, Awaits, Connected, SessionHolds, Live, Deletion, Maps, Owner,
     NotStray, RecordRouted
<1>10. Notis'
  BY <1>1, <1>2, <1>3, <1>4 DEF Notis, InDeletion, Noti
<1>11. Responses'
  BY <1>2, <1>7 DEF Responses
<1>12. EverySubscriptionRouted'
  BY <1>1, <1>2 DEF EverySubscriptionRouted
<1>13. Routes'
  BY <1>2 DEF Routes, OneRoutePerRecord
<1> QED
  BY <1>8, <1>9, <1>10, <1>11, <1>12, <1>13

\* The session takes routes, buffer, messages and subscriptions with it.
LEMMA DropKeeps ==
  ASSUME SubInv, Drop
  PROVE  SubInv'
<1> USE DEF SubInv
<1>1. /\ UNCHANGED <<regd, gen, q, loops, tick, stray, calm>> /\ conn' = "down"
      /\ subs' = {} /\ chan' = <<>> /\ lost' = {} /\ DOMAIN byId' = {} /\ buf' = {}
      /\ twice' = FALSE /\ kept' = FALSE
  BY DEF Drop, SessionGone
<1>2. gen \in Nat /\ (regd # 0 => regd \in Gens)
  BY RecordsMade
<1>3. /\ rec' \in [Gens -> Record] /\ (regd # 0 => rec'[regd].id = 0)
      /\ \A g \in Gens : IF g <= gen THEN rec'[g].ver \in Versions ELSE rec'[g].id = 0
  <2>1. /\ AfterDrop \in [Gens -> Record] /\ (regd # 0 => AfterDrop[regd].id = 0)
        /\ \A g \in Gens : IF g <= gen THEN AfterDrop[g].ver \in Versions ELSE AfterDrop[g].id = 0
    BY <1>2, AfterDropType DEF Recs
  <2>2. CASE sent # "response" \/ at = "create"
    BY <2>1, <2>2 DEF Drop
  <2>3. CASE sent = "response" /\ at # "create"
    <3>1. /\ run # None /\ run.g \in Gens /\ run.g \in 1..gen
          /\ at = "resubDelete" => run.v \in Versions
      BY <2>3, RunningRecord DEF Awaits, Ops, Deletes
    <3>2. rec' = [AfterDrop EXCEPT ![run.g] = Forgotten(@)]
      BY <2>3 DEF Drop
    <3>3. AfterDrop[run.g] \in Record /\ AfterDrop[run.g].ver \in Versions
      BY <2>1, <3>1 DEF Gens
    <3>4. /\ Forgotten(AfterDrop[run.g]) \in Record /\ Forgotten(AfterDrop[run.g]).id = 0
          /\ Forgotten(AfterDrop[run.g]).ver \in Versions
      BY <3>1, <3>3, ForgottenType
    <3> QED
      BY <1>2, <2>1, <3>1, <3>2, <3>4 DEF Gens
  <2> QED
    BY <2>2, <2>3
<1>4. IF sent = "response"
        THEN RunType' /\ run' = None /\ at' = "idle" /\ sent' = "no" /\ delId' = 0
        ELSE UNCHANGED <<run, at, sent, delId>>
  BY DoneType DEF Drop, running
<1>5. TypeOK'
  <2>1. run' \in Op \cup {None} /\ at' \in Steps /\ (run' = None <=> at' = "idle")
    BY <1>4 DEF TypeOK, RunType
  <2>2. sent' \in {"no", "lock", "response"} /\ delId' \in Ids \cup {0}
    BY <1>4 DEF TypeOK, RunType
  <2>3. /\ chan' \in Seq(Msgs) /\ kept' \in BOOLEAN /\ twice' \in BOOLEAN
        /\ \A i \in DOMAIN byId' : byId'[i] \in 1..gen'
    <3>1. chan' \in Seq(Msgs) /\ \A i \in DOMAIN byId' : byId'[i] \in 1..gen'
      BY <1>1
    <3>2. kept' \in BOOLEAN /\ twice' \in BOOLEAN
      BY <1>1, Zenon
    <3> QED
      BY <3>1, <3>2
  <2>4. /\ gen' \in 0..MaxGen /\ regd' \in 0..gen' /\ tick' \in 0..gen'
        /\ loops' \in [Gens -> 0..MaxLoops] /\ q' \in Seq(Op) /\ Len(q') <= MaxQueue
        /\ stray' \in BOOLEAN /\ calm' \in BOOLEAN
    BY <1>1 DEF TypeOK
  <2>5. /\ DOMAIN byId' \subseteq Ids /\ buf' \subseteq [id : Ids, ver : Versions]
        /\ subs' \subseteq [id : Ids, ver : Versions] /\ lost' \subseteq Ids
    BY <1>1
  <2> QED
    BY <1>1, <1>3, <2>1, <2>2, <2>3, <2>4, <2>5 DEF TypeOK
<1>6. Ops' /\ Owner' /\ NotStray'
  BY <1>1, <1>4 DEF Ops, OpOK, Deletes, Owner, NotStray
<1>7. Recs' /\ SessionHolds' /\ RecordRouted'
  BY <1>1, <1>3 DEF Recs, SessionHolds, RecordRouted
<1>9. Awaits'
  <2>1. CASE sent = "response"
    BY <1>4, <2>1 DEF Awaits, Deletes
  <2>2. CASE sent # "response"
    <3>1. at \in Deletes => rec'[run.g].id \in {0, delId}
      <4> SUFFICES ASSUME at \in Deletes PROVE rec'[run.g].id \in {0, delId}
        OBVIOUS
      <4>1. run.g \in Gens /\ rec' = AfterDrop
        BY <2>2, RunningRecord DEF Drop, Deletes
      <4> QED
        BY <4>1, AfterDropType DEF Awaits
    <3> QED
      BY <1>1, <1>4, <2>2, <3>1 DEF Awaits
  <2> QED
    BY <2>1, <2>2
<1>8. /\ Notis' /\ Responses' /\ Deletion' /\ Maps' /\ EverySubscriptionRouted'
      /\ Routes'
  BY <1>1 DEF Notis, Responses, Deletion, Live, Maps, EverySubscriptionRouted,
     Routes, OneRoutePerRecord
<1> QED
  BY <1>5, <1>6, <1>7, <1>8, <1>9

\* A session that ends in silence takes messages and subscriptions with it.
\* Unless something is kept, nothing of it was routed, buffered or recorded.
LEMMA SilentDropKeeps ==
  ASSUME SubInv, SilentDrop
  PROVE  SubInv'
<1> USE DEF SubInv
<1>1. /\ UNCHANGED <<regd, gen, byId, q, loops, tick, twice, stray, calm>> /\ conn' = "down"
      /\ subs' = {} /\ chan' = <<>> /\ lost' = {}
      /\ kept' = (kept \/ DOMAIN byId # {} \/ buf' # {} \/ (regd # 0 /\ rec'[regd].id # 0))
  BY DEF SilentDrop, SessionGone
<1>2. gen \in Nat /\ (regd # 0 => regd \in Gens) /\ \A i \in DOMAIN byId : byId[i] \in Gens
  BY RecordsMade
<1>5. SessionHolds' /\ Notis' /\ Responses' /\ Deletion' /\ Maps'
  <2>1. ~Connected' /\ DOMAIN chan' = {} /\ Live' = {}
    BY <1>1 DEF Connected, Live
  <2>2. ~kept' => DOMAIN byId' = {} /\ buf' = {} /\ ~(regd' # 0 /\ rec'[regd'].id # 0)
    BY <1>1
  <2>3. SessionHolds'
    BY <1>1, <2>1, <2>2 DEF SessionHolds
  <2>4. Notis' /\ Responses' /\ Deletion' /\ Maps'
    BY <1>1, <2>1, <2>2 DEF Notis, Responses, Deletion, Maps
  <2> QED
    BY <2>3, <2>4
<1>3. CASE sent # "response" \/ at = "create"
  <2>1. /\ UNCHANGED <<rec, buf>>
        /\ \/ UNCHANGED <<run, at, sent, delId>> /\ sent # "response"
           \/ RunType' /\ run' = None /\ at' = "idle" /\ sent' = "no" /\ delId' = 0
    BY <1>3, DoneType DEF SilentDrop, running
  <2>2. TypeOK'
    <3>1. kept' \in BOOLEAN
      BY <1>1 DEF TypeOK
    <3> QED
      BY <1>1, <2>1, <3>1 DEF TypeOK, RunType
  <2>3. Ops' /\ Recs' /\ Awaits' /\ Owner' /\ NotStray'
    BY <1>1, <2>1 DEF Ops, OpOK, Recs, Awaits, Deletes, Owner, NotStray
  <2>5. Routes' /\ RecordRouted' /\ EverySubscriptionRouted'
    BY <1>1 DEF Routes, OneRoutePerRecord, RecordRouted, EverySubscriptionRouted
  <2> QED
    BY <1>5, <2>2, <2>3, <2>5
<1>4. CASE sent = "response" /\ at # "create"
  <2>1. at \in Deletes /\ AfterDelete(FALSE)
    BY <1>4 DEF SilentDrop, Awaits
  <2>2. /\ run.g \in Gens /\ run.g \in 1..gen
        /\ rec' \in [Gens -> Record] /\ rec'[run.g].id = 0 /\ rec'[run.g].ver \in Versions
        /\ \A g \in Gens : g # run.g => rec'[g] = rec[g]
        /\ buf' = Discarded(rec[run.g].id)
    BY <2>1, AfterDeleteType
  <2>3. RunType' /\ run' = None /\ at' = "idle" /\ sent' = "no" /\ delId' = 0
    BY <2>1, DoneType DEF AfterDelete
  <2>4. TypeOK'
    <3>1. kept' \in BOOLEAN
      BY <1>1 DEF TypeOK
    <3>2. buf' \subseteq [id : Ids, ver : Versions]
      BY <2>2 DEF TypeOK, Discarded
    <3> QED
      BY <1>1, <2>2, <2>3, <3>1, <3>2 DEF TypeOK, RunType
  <2>5. Ops' /\ Awaits' /\ Owner' /\ NotStray'
    BY <1>1, <2>3 DEF Ops, OpOK, Awaits, Deletes, Owner, NotStray
  <2>6. Recs'
    BY <1>1, <2>2 DEF Recs
  <2>8. Routes' /\ RecordRouted' /\ EverySubscriptionRouted'
    BY <1>1 DEF Routes, OneRoutePerRecord, RecordRouted, EverySubscriptionRouted
  <2> QED
    BY <1>5, <2>4, <2>5, <2>6, <2>8
<1> QED
  BY <1>3, <1>4

\* Nothing has happened.
LEMMA InitKeeps ==
  ASSUME Init
  PROVE  SubInv
<1>1. /\ conn = "down" /\ regd = 0 /\ gen = 0 /\ DOMAIN byId = {} /\ buf = {}
      /\ q = <<>> /\ run = None /\ at = "idle" /\ sent = "no" /\ delId = 0
      /\ loops = [g \in Gens |-> 0] /\ tick = 0
      /\ subs = {} /\ chan = <<>> /\ lost = {}
      /\ twice = FALSE /\ kept = FALSE /\ stray = FALSE /\ calm = FALSE
  BY DEF Init
<1>2. /\ rec \in [Gens -> Record] /\ \A g \in Gens : rec[g].id = 0
  <2>1. [ver |-> 0, id |-> 0, map |-> 0, partial |-> FALSE] \in Record
    BY DEF Record
  <2> QED
    BY <2>1 DEF Init
<1>3. /\ q \in Seq(Op) /\ Len(q) = 0 /\ DOMAIN q = {}
      /\ chan \in Seq(Msgs) /\ DOMAIN chan = {}
  BY <1>1
<1>4. TypeOK
  <2>1. /\ conn \in {"down", "late", "up"} /\ gen \in 0..MaxGen /\ regd \in 0..gen
        /\ tick \in 0..gen /\ loops \in [Gens -> 0..MaxLoops]
    BY <1>1, SubscriptionAssumption
  <2>2. DOMAIN byId \subseteq Ids /\ \A i \in DOMAIN byId : byId[i] \in 1..gen
    BY <1>1
  <2>3. buf \subseteq [id : Ids, ver : Versions] /\ subs \subseteq [id : Ids, ver : Versions]
    BY <1>1
  <2>4. q \in Seq(Op) /\ Len(q) <= MaxQueue
    BY <1>3, SubscriptionAssumption
  <2>5. /\ run \in Op \cup {None} /\ at \in Steps /\ (run = None <=> at = "idle")
        /\ sent \in {"no", "lock", "response"} /\ delId \in Ids \cup {0}
        /\ lost \subseteq Ids
        /\ twice \in BOOLEAN /\ kept \in BOOLEAN /\ stray \in BOOLEAN /\ calm \in BOOLEAN
    BY <1>1 DEF Steps
  <2> QED
    BY <1>2, <1>3, <2>1, <2>2, <2>3, <2>4, <2>5 DEF TypeOK
<1>5. \A g \in Gens : ~(g <= gen) /\ ~(loops[g] > 0)
  BY <1>1, SubscriptionAssumption DEF Gens
<1>6. Ops /\ Recs /\ Awaits /\ SessionHolds /\ Notis /\ Responses
  BY <1>1, <1>2, <1>3, <1>5 DEF Ops, Recs, Awaits, SessionHolds, Live, Connected, Deletes,
     Notis, Responses
<1>7. Deletion /\ Maps /\ Owner /\ NotStray
  BY <1>1 DEF Deletion, Deletes, Maps, Owner, NotStray
<1>8. RecordRouted /\ EverySubscriptionRouted /\ Routes
  BY <1>1 DEF RecordRouted, EverySubscriptionRouted, Routes, OneRoutePerRecord
<1> QED
  BY <1>4, <1>6, <1>7, <1>8 DEF SubInv

\* Every step preserves the invariant.
LEMMA NextKeeps ==
  ASSUME SubInv, [Next \/ Calm]_vars
  PROVE  SubInv'
<1>1. CASE StartOp \/ ResolveDone \/ ResolveFail \/ HealResolveDone \/ LockFail
  BY <1>1, StartOpKeeps, ResolveDoneKeeps, ResolveFailKeeps, HealResolveDoneKeeps, LockFailKeeps
<1>2. CASE PlcCreate \/ PlcDelete \/ PlcPush
  BY <1>2, PlcCreateKeeps, PlcDeleteKeeps, PlcPushKeeps
<1>3. CASE Created \/ CreateRefused \/ Deleted \/ Notification
  BY <1>3, CreatedKeeps, CreateRefusedKeeps, DeletedKeeps, NotificationKeeps
<1>4. CASE Drop \/ SilentDrop \/ Connecting \/ ConnectEvent \/ RetryTick \/ RetryReaches
  BY <1>4, DropKeeps, SilentDropKeeps, ConnectingKeeps, ConnectEventKeeps, RetryTickKeeps,
     RetryReachesKeeps
<1>5. ASSUME NEW g \in Gens, LoopReaches(g)
      PROVE  SubInv'
  BY <1>5, LoopReachesKeeps
<1>6. ASSUME NEW v \in Versions, Subscribe(v)
      PROVE  SubInv'
  BY <1>6, SubscribeKeeps
<1>7. CASE Unsubscribe \/ Calm
  BY <1>7, UnsubscribeKeeps, CalmKeeps
<1>8. CASE UNCHANGED vars
  <2>1. /\ UNCHANGED <<records, running, plc, history>>
        /\ UNCHANGED <<conn, q, loops, tick, calm>>
    BY <1>8 DEF vars
  <2>2. /\ conn \in {"down", "late", "up"} /\ q \in Seq(Op) /\ Len(q) <= MaxQueue
        /\ loops \in [Gens -> 0..MaxLoops] /\ tick \in 0..gen /\ calm \in BOOLEAN
        /\ \A j \in DOMAIN q : OpOK(q[j])
        /\ \A g \in Gens : loops[g] > 0 => g <= gen
    BY DEF SubInv, TypeOK, Ops
  <2>3. \A j \in DOMAIN q' : OpOK(q'[j])
    BY <2>1, <2>2
  <2>4. Connected' = Connected
    BY <2>1 DEF Connected
  <2> QED
    BY <2>1, <2>2, <2>3, <2>4, QuietKeeps
<1> QED
  BY <1>1, <1>2, <1>3, <1>4, <1>5, <1>6, <1>7, <1>8 DEF Next

-----------------------------------------------------------------------------
(* The theorems *)

\* SubInv is an invariant.
THEOREM InductiveInvariant == Spec => []SubInv
<1>1. Init => SubInv
  BY InitKeeps
<1>2. SubInv /\ [Next]_vars => SubInv'
  BY NextKeeps
<1> QED
  BY <1>1, <1>2, PTL DEF Spec

\* The variables keep their values, and an operation runs at some step.
THEOREM SubscriptionTypes == Spec => []TypeOK
<1>1. SubInv => TypeOK
  BY DEF SubInv
<1> QED
  BY <1>1, InductiveInvariant, PTL

\* A registered record that has a subscription has it in this session, at the
\* PLC and in the routes, unless a discarded record was used again or something
\* was kept of a session that ended without 'disconnect'.
THEOREM RoutedRecord == Spec => []RecordRouted
<1>1. SubInv => RecordRouted
  BY DEF SubInv
<1> QED
  BY <1>1, InductiveInvariant, PTL

\* The PLC pushes for no subscription that is neither routed nor being created
\* or deleted, but for those whose deletion was not sent or was refused, and
\* those whose creation ended in an error.
THEOREM NothingLostSight == Spec => []EverySubscriptionRouted
<1>1. SubInv => EverySubscriptionRouted
  BY DEF SubInv
<1> QED
  BY <1>1, InductiveInvariant, PTL

\* A notification is decoded with another list's map only where a record has
\* been given a second subscription, or something was kept of a session that
\* ended without 'disconnect'.
THEOREM DecodedByItsMap == Spec => DecodedByOwnMap
<1>1. ASSUME SubInv, ~twice, ~kept, Notification, Notified.id \in DOMAIN byId
      PROVE  rec[byId[Notified.id]].map = Notified.ver
  <2>1. PICK p \in DOMAIN chan : chan[p] = Notified /\ chan[p].t = "noti"
    BY <1>1, NotiChan DEF SubInv, TypeOK
  <2>2. Noti(chan[p]) \in subs \/ InDeletion(chan[p].id)
    BY <1>1, <2>1 DEF SubInv, Notis
  <2>3. Noti(chan[p]) \in subs
    BY <1>1, <2>1, <2>2 DEF SubInv, InDeletion, Awaits
  <2>4. rec[byId[Notified.id]].id = Notified.id
    BY <1>1 DEF SubInv, Routes, OneRoutePerRecord
  <2> QED
    BY <1>1, <2>1, <2>3, <2>4 DEF SubInv, Maps, Noti
<1>2. ASSUME SubInv, ~twice, ~kept, Created, NEW n \in buf, n.id = Head(chan).id
      PROVE  n.ver = rec'[run.g].map
  <2>1. 1 \in DOMAIN chan /\ Head(chan) = chan[1] /\ chan[1].t = "created"
    BY <1>2, TailChan DEF SubInv, TypeOK, Created, Arrives
  <2>2. at = "create" /\ Noti(chan[1]) \in subs /\ chan[1].ver = rec[run.g].ver
    BY <1>2, <2>1 DEF SubInv, Responses
  <2>3. n \in subs
    BY <1>2, <2>2 DEF SubInv, Notis, InDeletion, Deletes
  <2>4. n.ver = rec[run.g].ver
    BY <1>2, <2>1, <2>2, <2>3 DEF SubInv, SessionHolds, Noti
  <2>5. run.g \in Gens /\ rec \in [Gens -> Record]
    BY <1>2, <2>2, RunningRecord DEF SubInv, TypeOK
  <2> QED
    BY <1>2, <2>4, <2>5 DEF Created, Subscribed
<1>3. SubInv /\ [Next]_vars => [twice \/ kept \/ Decoded]_vars
  BY <1>1, <1>2 DEF Decoded
<1> QED
  BY <1>3, InductiveInvariant, PTL DEF Spec, DecodedByOwnMap

\* A subscription is only established for an owner that is registered.
THEOREM OwnersOnly == Spec => []EstablishedForOwner
<1>1. SubInv => EstablishedForOwner
  BY DEF SubInv, Owner, EstablishedForOwner
<1> QED
  BY <1>1, InductiveInvariant, PTL
=============================================================================
