------------------------ MODULE SubscribeNodeProofs ------------------------
(***************************************************************************)
(* The safety properties of SubscribeNode and OutputQueue, the two sides   *)
(* of a subscribe node, for any number of instances, symbols and messages. *)
(*                                                                         *)
(* Those of SubscribeNode speak of a node with no call outstanding.  What  *)
(* is inductive is how the calls that are outstanding lead there: they run *)
(* in the order of the instances that made them, so a call of the current  *)
(* instance comes after all the calls that could undo it.                  *)
(***************************************************************************)
EXTENDS SubscribeNode, OutputQueue, FiniteSetTheorems, TLAPS

\* The calls of the current instance in the queue.
Mine(kinds) == {i \in DOMAIN queue : queue[i].by = inst /\ queue[i].for \in kinds}

\* No call of an instance before it is left.
OnlyMine == \A i \in DOMAIN queue : queue[i].by = inst

\* An instance has been created with one of the configurations.
LiveConfigured == queue \in Seq(Calls) /\ (open => inst > 0 /\ conf \in Configs)

\* Calls run in the order of the instances that made them.
QueueInOrder ==
  \A i, j \in DOMAIN queue : queue[i].by <= inst /\ (i <= j => queue[i].by <= queue[j].by)

\* An instance calls the endpoint once for its deploy ...
OneDeploy == \A i, j \in Mine({"deploy"}) : i = j

\* ... and for one message at a time.
OneMessage == \A i, j \in Mine({"input", "unsubscribe"}) : i = j /\ busy

\* The call of a removal is the last one until the node is deployed again.
RemovalEndsIt ==
  /\ open => \A i \in DOMAIN queue : queue[i].for # "removal"
  /\ removed => ~open /\ IF queue = <<>> THEN rec = NoRecord ELSE queue[Len(queue)].for = "removal"

\* A node deployed with symbols has the record's callback, or its call that
\* will set it is still to come.
Serves ==
  open /\ conf # {} =>
    Mine({"deploy"}) # {} \/ (OnlyMine /\ (rec = NoRecord \/ rec.cb = inst))

\* An active list is the record's, and only the node itself can change it; the
\* values are the record's, or a discarded record has brought them.
ActiveIs ==
  open /\ active # {} =>
    OnlyMine /\ active = rec.syms /\ lastValues \subseteq rec.syms \cup StaleSymbols

\* The inductive invariant.
NodeInv ==
  /\ TypeOK
  /\ LiveConfigured
  /\ QueueInOrder
  /\ OneDeploy
  /\ OneMessage
  /\ RemovalEndsIt
  /\ Serves
  /\ ActiveIs

-----------------------------------------------------------------------------
(* The queue *)

\* What a call consists of.
LEMMA CallTypes ==
  ASSUME NEW c \in Calls
  PROVE  /\ c.by \in 1..MaxInst /\ c.by \in Nat /\ c.conf \in Configs /\ c.conf \subseteq Symbols
         /\ c.for \in {"deploy", "input", "unsubscribe", "removal"}
         /\ c.syms \subseteq Symbols /\ (c.over \subseteq Symbols \/ c.over = Unset)
  BY SubscribeNodeAssumption DEF Calls

\* A call that is made is the last of the queue.
LEMMA QueueAppend ==
  ASSUME NEW c \in Calls, queue \in Seq(Calls), queue' = Append(queue, c)
  PROVE  /\ queue' \in Seq(Calls) /\ queue' # <<>> /\ queue'[Len(queue')] = c
         /\ DOMAIN queue' = DOMAIN queue \cup {Len(queue) + 1}
         /\ queue'[Len(queue) + 1] = c
         /\ \A i \in DOMAIN queue : /\ i \in Nat /\ i < Len(queue) + 1 /\ queue'[i] = queue[i]
                                    /\ queue[i] \in Calls
  OBVIOUS

\* When the first call has run, the others move up.
LEMMA QueueTail ==
  ASSUME queue \in Seq(Calls), queue # <<>>, queue' = Tail(queue)
  PROVE  /\ queue' \in Seq(Calls) /\ Head(queue) = queue[1] /\ Head(queue) \in Calls
         /\ 1 \in DOMAIN queue
         /\ \A i \in DOMAIN queue' : /\ i \in Nat /\ i + 1 \in DOMAIN queue /\ i + 1 > 1
                                     /\ queue'[i] = queue[i + 1] /\ queue[i + 1] \in Calls
         /\ \A i \in DOMAIN queue : /\ i \in Nat
                                    /\ i # 1 => i - 1 \in DOMAIN queue' /\ queue'[i - 1] = queue[i]
         /\ queue' # <<>> => queue'[Len(queue')] = queue[Len(queue)] /\ Len(queue) # 1
         /\ Len(queue) # 1 => queue' # <<>>
<1>1. Len(queue) \in Nat /\ Len(queue) >= 1 /\ Len(queue') = Len(queue) - 1
  OBVIOUS
<1>2. Len(queue) # 1 => Len(queue') # 0
  BY <1>1
<1>3. Len(queue) # 1 => queue' # <<>>
  BY <1>2
<1>4. /\ queue' \in Seq(Calls) /\ Head(queue) = queue[1] /\ Head(queue) \in Calls
      /\ 1 \in DOMAIN queue
      /\ \A i \in DOMAIN queue' : /\ i \in Nat /\ i + 1 \in DOMAIN queue /\ i + 1 > 1
                                  /\ queue'[i] = queue[i + 1] /\ queue[i + 1] \in Calls
      /\ \A i \in DOMAIN queue : /\ i \in Nat
                                 /\ i # 1 => i - 1 \in DOMAIN queue' /\ queue'[i - 1] = queue[i]
      /\ queue' # <<>> => queue'[Len(queue')] = queue[Len(queue)] /\ Len(queue) # 1
  OBVIOUS
<1> QED
  BY <1>3, <1>4

\* The call that has run leaves the others in order, and a message is answered
\* before the next one is accepted.
LEMMA TailKeeps ==
  ASSUME TypeOK, LiveConfigured, QueueInOrder, OneDeploy, OneMessage,
         queue # <<>>, queue' = Tail(queue), inst' = inst,
         busy' = busy \/ (queue[1].by = inst /\ queue[1].for \in {"input", "unsubscribe"})
  PROVE  QueueInOrder' /\ OneDeploy' /\ OneMessage'
<1>1. \A i \in DOMAIN queue' : /\ i \in Nat /\ i + 1 \in DOMAIN queue /\ i + 1 > 1
                               /\ queue'[i] = queue[i + 1] /\ queue[i + 1] \in Calls
  BY QueueTail DEF LiveConfigured
<1>2. 1 \in DOMAIN queue
  BY QueueTail DEF LiveConfigured
<1>3. ASSUME NEW kinds, NEW i \in Mine(kinds)'
      PROVE  i \in Nat /\ i + 1 \in Mine(kinds) /\ i + 1 # 1
  BY <1>1, <1>3 DEF Mine
<1>4. QueueInOrder'
  <2> SUFFICES ASSUME NEW i \in DOMAIN queue', NEW j \in DOMAIN queue'
               PROVE  queue'[i].by <= inst' /\ (i <= j => queue'[i].by <= queue'[j].by)
    BY DEF QueueInOrder
  <2>1. /\ i + 1 \in DOMAIN queue /\ j + 1 \in DOMAIN queue /\ i \in Nat /\ j \in Nat
        /\ queue'[i] = queue[i + 1] /\ queue'[j] = queue[j + 1]
    BY <1>1
  <2>2. i <= j => i + 1 <= j + 1
    BY <2>1
  <2> QED
    BY <2>1, <2>2 DEF QueueInOrder
<1>5. OneDeploy'
  <2> SUFFICES ASSUME NEW i \in Mine({"deploy"})', NEW j \in Mine({"deploy"})'
               PROVE  i = j
    BY DEF OneDeploy
  <2> QED
    BY <1>3 DEF OneDeploy
<1>6. OneMessage'
  <2> SUFFICES ASSUME NEW i \in Mine({"input", "unsubscribe"})',
                      NEW j \in Mine({"input", "unsubscribe"})'
               PROVE  i = j /\ busy'
    BY DEF OneMessage
  <2>1. /\ i \in Nat /\ i + 1 \in Mine({"input", "unsubscribe"}) /\ i + 1 # 1
        /\ j \in Nat /\ j + 1 \in Mine({"input", "unsubscribe"})
    BY <1>3
  <2>2. i + 1 = j + 1 /\ busy
    BY <2>1 DEF OneMessage
  <2>3. ~(queue[1].by = inst /\ queue[1].for \in {"input", "unsubscribe"})
    <3> SUFFICES ASSUME 1 \in Mine({"input", "unsubscribe"}) PROVE FALSE
      BY <1>2 DEF Mine
    <3> QED
      BY <2>1 DEF OneMessage
  <2>4. i = j
    BY <2>1, <2>2
  <2> QED
    BY <2>2, <2>3, <2>4
<1> QED
  BY <1>4, <1>5, <1>6

\* Two sets of at most one element have at most two together.
LEMMA AtMostTwo ==
  ASSUME NEW D, NEW M, \A i, j \in D : i = j, \A i, j \in M : i = j
  PROVE  Cardinality(D \cup M) \in Nat /\ Cardinality(D \cup M) <= 2
<1>1. \A S : (\A i, j \in S : i = j) => S = {} \/ \E x : S = {x}
  OBVIOUS
<1>2. ASSUME NEW S, S = {} \/ \E x : S = {x}
      PROVE  IsFiniteSet(S) /\ Cardinality(S) \in Nat /\ Cardinality(S) <= 1
  <2>1. CASE S = {}
    BY <2>1, FS_EmptySet
  <2>2. ASSUME NEW x, S = {x}
        PROVE  IsFiniteSet(S) /\ Cardinality(S) \in Nat /\ Cardinality(S) <= 1
    <3>1. IsFiniteSet({x}) /\ Cardinality({x}) = 1
      BY FS_Singleton
    <3> QED
      BY <2>2, <3>1
  <2> QED
    BY <1>2, <2>1, <2>2
<1>3. /\ IsFiniteSet(D) /\ Cardinality(D) \in Nat /\ Cardinality(D) <= 1
      /\ IsFiniteSet(M) /\ Cardinality(M) \in Nat /\ Cardinality(M) <= 1
  BY <1>1, <1>2
<1>4. IsFiniteSet(D \cap M) /\ Cardinality(D \cap M) \in Nat
  BY <1>3, FS_Intersection, FS_CardinalityType
<1>5. Cardinality(D \cup M) = Cardinality(D) + Cardinality(M) - Cardinality(D \cap M)
  BY <1>3, FS_Union
<1>6. Cardinality(D \cup M) \in Nat
  BY <1>3, FS_Union, FS_CardinalityType
<1> QED
  BY <1>3, <1>4, <1>5, <1>6

\* TypeOK, with what it says of the calls of the instance: one of its deploy
\* and one of a message.
LEMMA TypeFromParts ==
  ASSUME inst' \in 0..MaxInst, {open', removed', busy', online'} \subseteq BOOLEAN,
         conf' \in Configs \cup {{}}, active' \subseteq Symbols, lastValues' \subseteq Symbols,
         state' \in [adds : SUBSET Symbols, over : SUBSET Symbols],
         rec' \in [syms : SUBSET Symbols, est : BOOLEAN, cb : 0..MaxInst],
         stale' \subseteq [syms : SUBSET Symbols, cb : 0..MaxInst, routed : BOOLEAN],
         queue' \in Seq(Calls), OneDeploy', OneMessage'
  PROVE  TypeOK'
<1> DEFINE D == Mine({"deploy"})'
           M == Mine({"input", "unsubscribe"})'
<1>1. {i \in DOMAIN queue' : queue'[i].by = inst' /\ queue'[i].for # "removal"} = D \cup M
  BY CallTypes DEF Mine
<1>2. (\A i, j \in D : i = j) /\ (\A i, j \in M : i = j)
  BY DEF OneDeploy, OneMessage
<1> HIDE DEF D, M
<1>3. Cardinality(D \cup M) <= 2
  BY <1>2, AtMostTwo
<1>4. \A i \in DOMAIN queue' : queue'[i] \in Calls
  OBVIOUS
<1> QED
  BY <1>1, <1>3, <1>4 DEF TypeOK

-----------------------------------------------------------------------------
(* The steps *)

\* A record that is discarded keeps its symbols and its callback.
LEMMA DiscardTypes ==
  ASSUME TypeOK, DiscardRecord
  PROVE  /\ rec' = NoRecord
         /\ stale' \subseteq [syms : SUBSET Symbols, cb : 0..MaxInst, routed : BOOLEAN]
<1>1. CASE UNCHANGED stale
  BY <1>1 DEF TypeOK, DiscardRecord
<1>2. ASSUME NEW b \in {FALSE, rec.est},
             stale' = stale \cup {[syms |-> rec.syms, cb |-> rec.cb, routed |-> b]}
      PROVE  stale' \subseteq [syms : SUBSET Symbols, cb : 0..MaxInst, routed : BOOLEAN]
  <2>1. /\ rec.syms \in SUBSET Symbols /\ rec.cb \in 0..MaxInst /\ b \in BOOLEAN
        /\ stale \subseteq [syms : SUBSET Symbols, cb : 0..MaxInst, routed : BOOLEAN]
    BY DEF TypeOK
  <2> QED
    BY <1>2, <2>1
<1> QED
  BY <1>1, <1>2 DEF DiscardRecord

\* A notification brings a symbol of the record or of a discarded one.
LEMMA NotificationKeeps ==
  ASSUME NodeInv, NEW s \in Symbols, Notification(s)
  PROVE  NodeInv'
<1> USE DEF NodeInv
<1>1. /\ UNCHANGED <<inst, open, removed, conf, active, busy, state, queue, rec, stale, online>>
      /\ lastValues' \in {lastValues, lastValues \cup {s}}
      /\ lastValues' = lastValues \/ s \in rec.syms \cup StaleSymbols
  BY DEF Notification, Reached, StaleSymbols, endpoint
<1>2. /\ LiveConfigured' /\ QueueInOrder' /\ OneDeploy' /\ OneMessage' /\ RemovalEndsIt'
      /\ Serves' /\ ActiveIs'
  BY <1>1 DEF LiveConfigured, QueueInOrder, OneDeploy, Mine, OneMessage, RemovalEndsIt, Serves,
     OnlyMine, ActiveIs, StaleSymbols
<1>3. TypeOK'
  <2>1. {open', removed', busy', online'} \subseteq BOOLEAN
    BY <1>1 DEF TypeOK, LiveConfigured
  <2>2. /\ inst' \in 0..MaxInst /\ conf' \in Configs \cup {{}}
        /\ active' \subseteq Symbols /\ lastValues' \subseteq Symbols
    BY <1>1, SubscribeNodeAssumption DEF TypeOK, LiveConfigured
  <2>3. /\ state' \in [adds : SUBSET Symbols, over : SUBSET Symbols]
        /\ rec' \in [syms : SUBSET Symbols, est : BOOLEAN, cb : 0..MaxInst]
        /\ stale' \subseteq [syms : SUBSET Symbols, cb : 0..MaxInst, routed : BOOLEAN]
        /\ queue' \in Seq(Calls)
    BY <1>1, SubscribeNodeAssumption DEF TypeOK, LiveConfigured
  <2> QED
    BY <1>2, <2>1, <2>2, <2>3, TypeFromParts
<1> QED
  BY <1>2, <1>3

\* The endpoint loses, regains and establishes the records without touching
\* their symbols and their callbacks.
LEMMA EndpointKeeps ==
  ASSUME NodeInv, Lose \/ Regain \/ Establish \/ \E r \in stale : EstablishStale(r)
  PROVE  NodeInv'
<1> USE DEF NodeInv
<1>1. /\ UNCHANGED <<inst, open, removed, conf, active, busy, lastValues, state, queue>>
      /\ online' \in BOOLEAN
  BY DEF Lose, Regain, Establish, EstablishStale, node, TypeOK
<1>2. /\ rec' \in [syms : SUBSET Symbols, est : BOOLEAN, cb : 0..MaxInst]
      /\ rec'.syms = rec.syms /\ rec'.cb = rec.cb
      /\ rec = NoRecord => rec' = NoRecord
  <2>1. CASE Lose
    <3>1. rec' = [syms |-> rec.syms, est |-> FALSE, cb |-> rec.cb]
      BY <2>1 DEF Lose, TypeOK
    <3>2. rec' \in [syms : SUBSET Symbols, est : BOOLEAN, cb : 0..MaxInst]
      BY <3>1 DEF TypeOK
    <3>3. rec = NoRecord => rec' = NoRecord
      BY <3>1 DEF NoRecord
    <3> QED
      BY <3>1, <3>2, <3>3
  <2>2. CASE Regain
    BY <2>2 DEF Regain, TypeOK
  <2>3. CASE Establish
    <3>1. rec' = [syms |-> rec.syms, est |-> TRUE, cb |-> rec.cb] /\ rec.syms # {}
      BY <2>3 DEF Establish, TypeOK
    <3>2. rec' \in [syms : SUBSET Symbols, est : BOOLEAN, cb : 0..MaxInst]
      BY <3>1 DEF TypeOK
    <3>3. rec = NoRecord => rec' = NoRecord
      BY <3>1 DEF NoRecord
    <3> QED
      BY <3>1, <3>2, <3>3
  <2>4. CASE \E r \in stale : EstablishStale(r)
    BY <2>4 DEF EstablishStale, TypeOK
  <2> QED
    BY <2>1, <2>2, <2>3, <2>4
<1>3. LiveConfigured' /\ QueueInOrder' /\ OneDeploy' /\ OneMessage'
  BY <1>1 DEF LiveConfigured, QueueInOrder, OneDeploy, Mine, OneMessage
<1>4. /\ stale' \subseteq [syms : SUBSET Symbols, cb : 0..MaxInst, routed : BOOLEAN]
      /\ \A r \in stale : \E q \in stale' : q.syms = r.syms /\ q.cb = r.cb
  <2>1. stale \subseteq [syms : SUBSET Symbols, cb : 0..MaxInst, routed : BOOLEAN]
    BY DEF TypeOK
  <2>2. CASE UNCHANGED stale
    BY <2>1, <2>2
  <2>3. ASSUME NEW r \in stale, NEW b \in BOOLEAN
        PROVE  /\ [r EXCEPT !.routed = b].syms = r.syms /\ [r EXCEPT !.routed = b].cb = r.cb
               /\ [r EXCEPT !.routed = b]
                    \in [syms : SUBSET Symbols, cb : 0..MaxInst, routed : BOOLEAN]
    BY <2>1
  <2>4. CASE Lose
    <3>1. stale' = {[r EXCEPT !.routed = FALSE] : r \in stale}
      BY <2>4 DEF Lose
    <3>2. stale' \subseteq [syms : SUBSET Symbols, cb : 0..MaxInst, routed : BOOLEAN]
      BY <2>3, <3>1
    <3>3. ASSUME NEW r \in stale
          PROVE  \E q \in stale' : q.syms = r.syms /\ q.cb = r.cb
      <4>1. [r EXCEPT !.routed = FALSE] \in stale'
        BY <3>1
      <4> QED
        BY <2>3, <4>1
    <3> QED
      BY <3>2, <3>3
  <2>5. ASSUME NEW r \in stale, EstablishStale(r)
        PROVE  /\ stale' \subseteq [syms : SUBSET Symbols, cb : 0..MaxInst, routed : BOOLEAN]
               /\ \A d \in stale : \E q \in stale' : q.syms = d.syms /\ q.cb = d.cb
    <3>1. stale' = (stale \ {r}) \cup {[r EXCEPT !.routed = TRUE]}
      BY <2>5 DEF EstablishStale
    <3>2. stale' \subseteq [syms : SUBSET Symbols, cb : 0..MaxInst, routed : BOOLEAN]
      BY <2>1, <2>3, <3>1
    <3>3. ASSUME NEW d \in stale
          PROVE  \E q \in stale' : q.syms = d.syms /\ q.cb = d.cb
      BY <2>3, <3>1
    <3> QED
      BY <3>2, <3>3
  <2> QED
    BY <2>2, <2>4, <2>5 DEF Regain, Establish
<1>5. StaleSymbols \subseteq StaleSymbols'
  <2> SUFFICES ASSUME NEW r \in stale, r.cb = inst, NEW x \in r.syms
               PROVE  x \in StaleSymbols'
    BY DEF StaleSymbols
  <2>1. PICK q \in stale' : q.syms = r.syms /\ q.cb = r.cb
    BY <1>4
  <2> QED
    BY <1>1, <2>1 DEF StaleSymbols
<1>6. RemovalEndsIt' /\ Serves' /\ ActiveIs'
  BY <1>1, <1>2, <1>5 DEF RemovalEndsIt, Serves, OnlyMine, Mine, ActiveIs
<1>7. TypeOK'
  <2>1. {open', removed', busy', online'} \subseteq BOOLEAN
    BY <1>1, <1>2 DEF TypeOK, LiveConfigured
  <2>2. /\ inst' \in 0..MaxInst /\ conf' \in Configs \cup {{}}
        /\ active' \subseteq Symbols /\ lastValues' \subseteq Symbols
    BY <1>1, <1>2, <1>4, SubscribeNodeAssumption DEF TypeOK, LiveConfigured
  <2>3. /\ state' \in [adds : SUBSET Symbols, over : SUBSET Symbols]
        /\ rec' \in [syms : SUBSET Symbols, est : BOOLEAN, cb : 0..MaxInst]
        /\ stale' \subseteq [syms : SUBSET Symbols, cb : 0..MaxInst, routed : BOOLEAN]
        /\ queue' \in Seq(Calls)
    BY <1>1, <1>2, <1>4, SubscribeNodeAssumption DEF TypeOK, LiveConfigured
  <2> QED
    BY <1>3, <2>1, <2>2, <2>3, TypeFromParts
<1> QED
  BY <1>3, <1>6, <1>7

\* A redeploy leaves everything to the next instance.
LEMMA CloseKeeps ==
  ASSUME NodeInv, Close
  PROVE  NodeInv'
<1> USE DEF NodeInv
<1>1. /\ UNCHANGED <<inst, conf, active, busy, lastValues, state, queue, rec, stale, online>>
      /\ open' = FALSE /\ removed' = FALSE
  BY DEF Close, endpoint
<1>2. /\ LiveConfigured' /\ QueueInOrder' /\ OneDeploy' /\ OneMessage' /\ RemovalEndsIt'
      /\ Serves' /\ ActiveIs'
  BY <1>1 DEF LiveConfigured, QueueInOrder, OneDeploy, Mine, OneMessage, RemovalEndsIt, Serves,
     ActiveIs
<1>3. TypeOK'
  <2>1. {open', removed', busy', online'} \subseteq BOOLEAN
    BY <1>1 DEF TypeOK, LiveConfigured
  <2>2. /\ inst' \in 0..MaxInst /\ conf' \in Configs \cup {{}}
        /\ active' \subseteq Symbols /\ lastValues' \subseteq Symbols
    BY <1>1, SubscribeNodeAssumption DEF TypeOK, LiveConfigured
  <2>3. /\ state' \in [adds : SUBSET Symbols, over : SUBSET Symbols]
        /\ rec' \in [syms : SUBSET Symbols, est : BOOLEAN, cb : 0..MaxInst]
        /\ stale' \subseteq [syms : SUBSET Symbols, cb : 0..MaxInst, routed : BOOLEAN]
        /\ queue' \in Seq(Calls)
    BY <1>1, SubscribeNodeAssumption DEF TypeOK, LiveConfigured
  <2> QED
    BY <1>2, <2>1, <2>2, <2>3, TypeFromParts
<1> QED
  BY <1>2, <1>3

\* So does a stuttering step.
LEMMA UnchangedKeeps ==
  ASSUME NodeInv, UNCHANGED vars
  PROVE  NodeInv'
<1> USE DEF NodeInv
<1>1. UNCHANGED <<inst, open, removed, conf, active, busy, lastValues, state, queue, rec, stale, online>>
  BY DEF vars, node, endpoint
<1>2. /\ LiveConfigured' /\ QueueInOrder' /\ OneDeploy' /\ OneMessage' /\ RemovalEndsIt'
      /\ Serves' /\ ActiveIs'
  BY <1>1 DEF LiveConfigured, QueueInOrder, OneDeploy, Mine, OneMessage, RemovalEndsIt, Serves,
     OnlyMine, ActiveIs, StaleSymbols
<1>3. TypeOK'
  <2>1. {open', removed', busy', online'} \subseteq BOOLEAN
    BY <1>1 DEF TypeOK, LiveConfigured
  <2>2. /\ inst' \in 0..MaxInst /\ conf' \in Configs \cup {{}}
        /\ active' \subseteq Symbols /\ lastValues' \subseteq Symbols
    BY <1>1, SubscribeNodeAssumption DEF TypeOK, LiveConfigured
  <2>3. /\ state' \in [adds : SUBSET Symbols, over : SUBSET Symbols]
        /\ rec' \in [syms : SUBSET Symbols, est : BOOLEAN, cb : 0..MaxInst]
        /\ stale' \subseteq [syms : SUBSET Symbols, cb : 0..MaxInst, routed : BOOLEAN]
        /\ queue' \in Seq(Calls)
    BY <1>1, SubscribeNodeAssumption DEF TypeOK, LiveConfigured
  <2> QED
    BY <1>2, <2>1, <2>2, <2>3, TypeFromParts
<1> QED
  BY <1>2, <1>3

\* The call of a removal is the last of the queue.
LEMMA RemoveNodeKeeps ==
  ASSUME NodeInv, RemoveNode
  PROVE  NodeInv'
<1> USE DEF NodeInv
<1> DEFINE c == Call("removal", inst, conf, {}, Unset)
<1>1. /\ UNCHANGED <<inst, conf, active, busy, lastValues, rec, stale, online>> /\ open
      /\ open' = FALSE /\ removed' = TRUE /\ state' = NoState /\ queue' = Append(queue, c)
  BY DEF RemoveNode, endpoint
<1>2. c \in Calls /\ c.by = inst /\ c.for = "removal"
  BY <1>1 DEF Call, Calls, LiveConfigured, TypeOK
<1> HIDE DEF c
<1>3. /\ queue' \in Seq(Calls) /\ queue' # <<>> /\ queue'[Len(queue')] = c
      /\ DOMAIN queue' = DOMAIN queue \cup {Len(queue) + 1} /\ queue'[Len(queue) + 1] = c
      /\ \A i \in DOMAIN queue : /\ i \in Nat /\ i < Len(queue) + 1
                                 /\ queue'[i] = queue[i] /\ queue[i] \in Calls
      /\ Len(queue) \in Nat
  BY <1>1, <1>2, QueueAppend DEF LiveConfigured
<1>4. LiveConfigured'
  BY <1>1, <1>3 DEF LiveConfigured
<1>5. QueueInOrder' /\ OneDeploy' /\ OneMessage' /\ RemovalEndsIt'
  BY <1>1, <1>2 DEF TypeOK, QueueInOrder, OneDeploy, Mine, OneMessage, RemovalEndsIt
<1>6. Serves' /\ ActiveIs'
  BY <1>1 DEF Serves, ActiveIs
<1>7. TypeOK'
  <2>1. {open', removed', busy', online'} \subseteq BOOLEAN
    BY <1>1, <1>3 DEF TypeOK, NoState
  <2>2. /\ inst' \in 0..MaxInst /\ conf' \in Configs \cup {{}}
        /\ active' \subseteq Symbols /\ lastValues' \subseteq Symbols
    BY <1>1, <1>3, SubscribeNodeAssumption DEF TypeOK, NoState
  <2>3. /\ state' \in [adds : SUBSET Symbols, over : SUBSET Symbols]
        /\ rec' \in [syms : SUBSET Symbols, est : BOOLEAN, cb : 0..MaxInst]
        /\ stale' \subseteq [syms : SUBSET Symbols, cb : 0..MaxInst, routed : BOOLEAN]
        /\ queue' \in Seq(Calls)
    BY <1>1, <1>3, SubscribeNodeAssumption DEF TypeOK, NoState
  <2> QED
    BY <1>5, <2>1, <2>2, <2>3, TypeFromParts
<1> QED
  BY <1>4, <1>5, <1>6, <1>7

\* A message is accepted when no other is worked on.
LEMMA InputUnsubscribeKeeps ==
  ASSUME NodeInv, InputUnsubscribe
  PROVE  NodeInv'
<1> USE DEF NodeInv
<1> DEFINE c == Call("unsubscribe", inst, conf, {}, Unset)
<1>1. /\ UNCHANGED <<inst, open, removed, conf, active, lastValues, state, rec, stale, online>>
      /\ open /\ ~busy /\ busy' = TRUE /\ queue' = Append(queue, c)
  BY DEF InputUnsubscribe, Accepts, endpoint
<1>2. c \in Calls /\ c.by = inst /\ c.for = "unsubscribe"
  BY <1>1 DEF Call, Calls, LiveConfigured, TypeOK
<1> HIDE DEF c
<1>3. /\ queue' \in Seq(Calls) /\ queue' # <<>> /\ queue'[Len(queue')] = c
      /\ DOMAIN queue' = DOMAIN queue \cup {Len(queue) + 1} /\ queue'[Len(queue) + 1] = c
      /\ \A i \in DOMAIN queue : /\ i \in Nat /\ i < Len(queue) + 1
                                 /\ queue'[i] = queue[i] /\ queue[i] \in Calls
      /\ Len(queue) \in Nat
  BY <1>1, <1>2, QueueAppend DEF LiveConfigured
<1>4. LiveConfigured'
  BY <1>1, <1>3 DEF LiveConfigured
<1>5. QueueInOrder' /\ OneDeploy' /\ RemovalEndsIt' /\ Serves' /\ ActiveIs'
  BY <1>1, <1>2 DEF TypeOK, QueueInOrder, OneDeploy, Mine, RemovalEndsIt, Serves, OnlyMine,
     ActiveIs, StaleSymbols
<1>6. OneMessage'
  BY <1>1 DEF OneMessage, Mine
<1>7. TypeOK'
  <2>1. {open', removed', busy', online'} \subseteq BOOLEAN
    BY <1>1, <1>3 DEF TypeOK
  <2>2. /\ inst' \in 0..MaxInst /\ conf' \in Configs \cup {{}}
        /\ active' \subseteq Symbols /\ lastValues' \subseteq Symbols
    BY <1>1, <1>3, SubscribeNodeAssumption DEF TypeOK
  <2>3. /\ state' \in [adds : SUBSET Symbols, over : SUBSET Symbols]
        /\ rec' \in [syms : SUBSET Symbols, est : BOOLEAN, cb : 0..MaxInst]
        /\ stale' \subseteq [syms : SUBSET Symbols, cb : 0..MaxInst, routed : BOOLEAN]
        /\ queue' \in Seq(Calls)
    BY <1>1, <1>3, SubscribeNodeAssumption DEF TypeOK
  <2> QED
    BY <1>5, <1>6, <2>1, <2>2, <2>3, TypeFromParts
<1> QED
  BY <1>4, <1>5, <1>6, <1>7

\* So is one with symbols.
LEMMA InputKeeps ==
  ASSUME NodeInv, NEW msg \in Messages, Input(msg)
  PROVE  NodeInv'
<1> USE DEF NodeInv
<1> DEFINE c == Call("input", inst, conf, Paths(msg, conf), msg.symbols)
<1>1. /\ UNCHANGED <<inst, open, removed, conf, active, lastValues, state, rec, stale, online>>
      /\ open /\ ~busy /\ busy' = TRUE /\ queue' = Append(queue, c)
  BY DEF Input, Accepts, endpoint
<1>2. c \in Calls /\ c.by = inst /\ c.for = "input"
  <2>1. msg.add \subseteq Symbols /\ msg.symbols \in (SUBSET Symbols) \cup {Unset}
    BY DEF Messages
  <2>2. inst \in 1..MaxInst /\ conf \in Configs /\ conf \subseteq Symbols
    BY <1>1, SubscribeNodeAssumption DEF LiveConfigured, TypeOK
  <2>3. Paths(msg, conf) \subseteq Symbols
    BY <2>1, <2>2 DEF Paths
  <2> QED
    BY <2>1, <2>2, <2>3 DEF Call, Calls
<1> HIDE DEF c
<1>3. /\ queue' \in Seq(Calls) /\ queue' # <<>> /\ queue'[Len(queue')] = c
      /\ DOMAIN queue' = DOMAIN queue \cup {Len(queue) + 1} /\ queue'[Len(queue) + 1] = c
      /\ \A i \in DOMAIN queue : /\ i \in Nat /\ i < Len(queue) + 1
                                 /\ queue'[i] = queue[i] /\ queue[i] \in Calls
      /\ Len(queue) \in Nat
  BY <1>1, <1>2, QueueAppend DEF LiveConfigured
<1>4. LiveConfigured'
  BY <1>1, <1>3 DEF LiveConfigured
<1>5. QueueInOrder' /\ OneDeploy' /\ RemovalEndsIt' /\ Serves' /\ ActiveIs'
  BY <1>1, <1>2 DEF TypeOK, QueueInOrder, OneDeploy, Mine, RemovalEndsIt, Serves, OnlyMine,
     ActiveIs, StaleSymbols
<1>6. OneMessage'
  BY <1>1 DEF OneMessage, Mine
<1>7. TypeOK'
  <2>1. {open', removed', busy', online'} \subseteq BOOLEAN
    BY <1>1, <1>3 DEF TypeOK
  <2>2. /\ inst' \in 0..MaxInst /\ conf' \in Configs \cup {{}}
        /\ active' \subseteq Symbols /\ lastValues' \subseteq Symbols
    BY <1>1, <1>3, SubscribeNodeAssumption DEF TypeOK
  <2>3. /\ state' \in [adds : SUBSET Symbols, over : SUBSET Symbols]
        /\ rec' \in [syms : SUBSET Symbols, est : BOOLEAN, cb : 0..MaxInst]
        /\ stale' \subseteq [syms : SUBSET Symbols, cb : 0..MaxInst, routed : BOOLEAN]
        /\ queue' \in Seq(Calls)
    BY <1>1, <1>3, SubscribeNodeAssumption DEF TypeOK
  <2> QED
    BY <1>5, <1>6, <2>1, <2>2, <2>3, TypeFromParts
<1> QED
  BY <1>4, <1>5, <1>6, <1>7

\* The calls there are when an instance is created are all by instances before
\* it, and if it has symbols its own comes after them.
LEMMA DeployKeeps ==
  ASSUME NodeInv, NEW configured \in Configs, Deploy(configured)
  PROVE  NodeInv'
<1> USE DEF NodeInv
<1> DEFINE paths == Restored(configured, state)
           c == Call("deploy", inst + 1, configured, paths, Unset)
<1>1. /\ ~open /\ inst + 1 \in 1..MaxInst /\ inst \in Nat
      /\ inst' = inst + 1 /\ open' = TRUE /\ removed' = FALSE
      /\ conf' = configured /\ active' = {} /\ busy' = FALSE /\ lastValues' = {}
      /\ UNCHANGED <<state, rec, stale, online>>
      /\ \A i \in DOMAIN queue : queue[i].for # "removal"
      /\ queue' = IF paths = {} THEN queue ELSE Append(queue, c)
  BY SubscribeNodeAssumption DEF Deploy, endpoint, TypeOK
<1>2. paths \subseteq Symbols /\ (configured # {} => paths # {})
  BY SubscribeNodeAssumption DEF Restored, Paths, TypeOK, Unset
<1>3. c \in Calls /\ c.by = inst + 1 /\ c.for = "deploy"
  BY <1>1, <1>2 DEF Call, Calls
<1> HIDE DEF c, paths
<1>4. /\ queue' \in Seq(Calls) /\ Len(queue) \in Nat
      /\ \A i \in DOMAIN queue : /\ i \in Nat /\ i < Len(queue) + 1
                                 /\ queue'[i] = queue[i] /\ queue[i] \in Calls
      /\ \/ paths = {} /\ queue' = queue
         \/ /\ DOMAIN queue' = DOMAIN queue \cup {Len(queue) + 1}
            /\ queue'[Len(queue) + 1] = c
  <2>1. CASE paths = {}
    BY <1>1, <2>1 DEF LiveConfigured
  <2>2. CASE paths # {}
    <3>1. queue' = Append(queue, c)
      BY <1>1, <2>2
    <3> QED
      BY <1>3, <3>1, QueueAppend DEF LiveConfigured
  <2> QED
    BY <2>1, <2>2
<1>5. \A i \in DOMAIN queue : queue[i].by < inst + 1 /\ queue[i].by \in Nat
  BY <1>1, <1>4, CallTypes DEF QueueInOrder
<1>6. LiveConfigured'
  BY <1>1, <1>4 DEF LiveConfigured
<1>7. QueueInOrder' /\ OneMessage'
  BY <1>1, <1>3, <1>5 DEF QueueInOrder, OneMessage, Mine
<1>8. OneDeploy'
  BY <1>1, <1>5 DEF OneDeploy, Mine
<1>9. RemovalEndsIt'
  BY <1>1, <1>3 DEF RemovalEndsIt
<1>10. Serves'
  BY <1>1, <1>2, <1>3 DEF Serves, Mine
<1>11. ActiveIs'
  BY <1>1 DEF ActiveIs
<1>12. TypeOK'
  <2>1. {open', removed', busy', online'} \subseteq BOOLEAN
    BY <1>1, <1>4 DEF TypeOK
  <2>2. /\ inst' \in 0..MaxInst /\ conf' \in Configs \cup {{}}
        /\ active' \subseteq Symbols /\ lastValues' \subseteq Symbols
    BY <1>1, <1>4, SubscribeNodeAssumption DEF TypeOK
  <2>3. /\ state' \in [adds : SUBSET Symbols, over : SUBSET Symbols]
        /\ rec' \in [syms : SUBSET Symbols, est : BOOLEAN, cb : 0..MaxInst]
        /\ stale' \subseteq [syms : SUBSET Symbols, cb : 0..MaxInst, routed : BOOLEAN]
        /\ queue' \in Seq(Calls)
    BY <1>1, <1>4, SubscribeNodeAssumption DEF TypeOK
  <2> QED
    BY <1>7, <1>8, <2>1, <2>2, <2>3, TypeFromParts
<1> QED
  BY <1>6, <1>7, <1>8, <1>9, <1>10, <1>11, <1>12

\* The unsubscribe of a removal comes when the instance is closed.
LEMMA RemovedKeeps ==
  ASSUME NodeInv, Removed
  PROVE  NodeInv'
<1> USE DEF NodeInv
<1>1. /\ UNCHANGED <<inst, open, removed, conf, active, busy, lastValues, state, online>>
      /\ rec' = NoRecord /\ Head(queue).for = "removal"
      /\ stale' \subseteq [syms : SUBSET Symbols, cb : 0..MaxInst, routed : BOOLEAN]
  BY DiscardTypes DEF Removed, node
<1>2. /\ queue' \in Seq(Calls) /\ Head(queue) = queue[1]
      /\ Head(queue) \in Calls /\ 1 \in DOMAIN queue
      /\ \A i \in DOMAIN queue' : /\ i \in Nat /\ i + 1 \in DOMAIN queue /\ i + 1 > 1
                                  /\ queue'[i] = queue[i + 1] /\ queue[i + 1] \in Calls
      /\ \A i \in DOMAIN queue :
           i \in Nat /\ (i # 1 => i - 1 \in DOMAIN queue' /\ queue'[i - 1] = queue[i])
      /\ queue' # <<>> => queue'[Len(queue')] = queue[Len(queue)] /\ Len(queue) # 1
  BY QueueTail DEF Removed, LiveConfigured
<1>3. \A i \in DOMAIN queue : /\ queue[1].by <= queue[i].by /\ queue[i].by <= inst
                              /\ queue[i].by \in Nat /\ inst \in Nat
  BY <1>2, CallTypes DEF QueueInOrder, TypeOK
<1>4. LiveConfigured' /\ RemovalEndsIt'
  BY <1>1, <1>2 DEF LiveConfigured, RemovalEndsIt
<1>5. QueueInOrder' /\ OneDeploy' /\ OneMessage'
  <2>1. queue # <<>> /\ queue' = Tail(queue)
    BY DEF Removed
  <2> QED
    BY <1>1, <2>1, TailKeeps DEF TypeOK
<1>6. Serves'
  BY <1>1, <1>2 DEF RemovalEndsIt, Serves
<1>7. ActiveIs'
  BY <1>1, <1>2 DEF RemovalEndsIt, ActiveIs
<1>8. TypeOK'
  <2>1. {open', removed', busy', online'} \subseteq BOOLEAN
    BY <1>1, <1>2 DEF TypeOK, NoRecord
  <2>2. /\ inst' \in 0..MaxInst /\ conf' \in Configs \cup {{}}
        /\ active' \subseteq Symbols /\ lastValues' \subseteq Symbols
    BY <1>1, <1>2, SubscribeNodeAssumption DEF TypeOK, NoRecord
  <2>3. /\ state' \in [adds : SUBSET Symbols, over : SUBSET Symbols]
        /\ rec' \in [syms : SUBSET Symbols, est : BOOLEAN, cb : 0..MaxInst]
        /\ stale' \subseteq [syms : SUBSET Symbols, cb : 0..MaxInst, routed : BOOLEAN]
        /\ queue' \in Seq(Calls)
    BY <1>1, <1>2, SubscribeNodeAssumption DEF TypeOK, NoRecord
  <2> QED
    BY <1>5, <2>1, <2>2, <2>3, TypeFromParts
<1> QED
  BY <1>4, <1>5, <1>6, <1>7, <1>8

\* An unsubscribe by the current instance forgets its list; one by an instance
\* before it finds no list active yet.
LEMMA UnsubscribedKeeps ==
  ASSUME NodeInv, Unsubscribed
  PROVE  NodeInv'
<1> USE DEF NodeInv
<1> DEFINE c == Head(queue)
<1>1. /\ UNCHANGED <<inst, open, removed, conf, online>> /\ state' = NoState
      /\ rec' = NoRecord /\ c.for = "unsubscribe"
      /\ stale' \subseteq [syms : SUBSET Symbols, cb : 0..MaxInst, routed : BOOLEAN]
      /\ IF c.by = inst THEN active' = {} /\ lastValues' = {} /\ busy' = FALSE
                        ELSE UNCHANGED <<active, lastValues, busy>>
  BY DiscardTypes DEF Unsubscribed, AfterUnsubscribe
<1>2. /\ queue' \in Seq(Calls) /\ Head(queue) = queue[1]
      /\ Head(queue) \in Calls /\ 1 \in DOMAIN queue
      /\ \A i \in DOMAIN queue' : /\ i \in Nat /\ i + 1 \in DOMAIN queue /\ i + 1 > 1
                                  /\ queue'[i] = queue[i + 1] /\ queue[i + 1] \in Calls
      /\ \A i \in DOMAIN queue :
           i \in Nat /\ (i # 1 => i - 1 \in DOMAIN queue' /\ queue'[i - 1] = queue[i])
      /\ queue' # <<>> => queue'[Len(queue')] = queue[Len(queue)] /\ Len(queue) # 1
  BY QueueTail DEF Unsubscribed, LiveConfigured
<1>3. \A i \in DOMAIN queue : /\ queue[1].by <= queue[i].by /\ queue[i].by <= inst
                              /\ queue[i].by \in Nat /\ inst \in Nat
  BY <1>2, CallTypes DEF QueueInOrder, TypeOK
<1>4. c = queue[1] /\ c.by \in Nat
  BY <1>2, CallTypes
<1> HIDE DEF c
<1>5. LiveConfigured' /\ RemovalEndsIt'
  BY <1>1, <1>2 DEF LiveConfigured, RemovalEndsIt
<1>6. QueueInOrder' /\ OneDeploy' /\ OneMessage'
  <2>1. queue # <<>> /\ queue' = Tail(queue)
    BY DEF Unsubscribed
  <2> QED
    BY <1>1, <1>4, <2>1, TailKeeps DEF TypeOK
<1>7. Serves'
  <2> SUFFICES ASSUME open, conf # {}
               PROVE  Mine({"deploy"})' # {} \/ OnlyMine'
    BY <1>1 DEF Serves
  <2>1. CASE OnlyMine
    BY <1>1, <1>2, <2>1 DEF OnlyMine
  <2>2. ASSUME NEW i \in Mine({"deploy"})
        PROVE  i - 1 \in Mine({"deploy"})'
    BY <1>1, <1>2, <1>4 DEF Mine
  <2> QED
    BY <1>1, <2>1, <2>2 DEF Serves
<1>8. ActiveIs'
  BY <1>1, <1>2, <1>4 DEF ActiveIs, OnlyMine
<1>9. TypeOK'
  <2>1. {open', removed', busy', online'} \subseteq BOOLEAN
    BY <1>1, <1>2 DEF TypeOK, NoRecord, NoState
  <2>2. /\ inst' \in 0..MaxInst /\ conf' \in Configs \cup {{}}
        /\ active' \subseteq Symbols /\ lastValues' \subseteq Symbols
    BY <1>1, <1>2, SubscribeNodeAssumption DEF TypeOK, NoRecord, NoState
  <2>3. /\ state' \in [adds : SUBSET Symbols, over : SUBSET Symbols]
        /\ rec' \in [syms : SUBSET Symbols, est : BOOLEAN, cb : 0..MaxInst]
        /\ stale' \subseteq [syms : SUBSET Symbols, cb : 0..MaxInst, routed : BOOLEAN]
        /\ queue' \in Seq(Calls)
    BY <1>1, <1>2, SubscribeNodeAssumption DEF TypeOK, NoRecord, NoState
  <2> QED
    BY <1>6, <2>1, <2>2, <2>3, TypeFromParts
<1> QED
  BY <1>5, <1>6, <1>7, <1>8, <1>9

\* A subscribe by an instance before the current one finds the current one's
\* call still in the queue, or the node without symbols.
LEMMA SubscribedKeeps ==
  ASSUME NodeInv, NEW est \in BOOLEAN, NEW pushed \in SUBSET Symbols, Subscribed(est, pushed)
  PROVE  NodeInv'
<1> USE DEF NodeInv
<1> DEFINE c == Head(queue)
<1>1. /\ UNCHANGED <<inst, open, removed, conf, stale, online>> /\ state' = Persisted(c)
      /\ rec' = [syms |-> c.syms, est |-> est, cb |-> c.by] /\ c.for \in {"deploy", "input"}
      /\ pushed \subseteq c.syms
      /\ IF c.by = inst THEN /\ active' \in {{}, c.syms} /\ lastValues' \subseteq c.syms
                             /\ busy' = (busy /\ c.for # "input")
                        ELSE UNCHANGED <<active, lastValues, busy>>
  BY DEF Subscribed, Callback, Pruned
<1>2. /\ queue' \in Seq(Calls) /\ Head(queue) = queue[1]
      /\ Head(queue) \in Calls /\ 1 \in DOMAIN queue
      /\ \A i \in DOMAIN queue' : /\ i \in Nat /\ i + 1 \in DOMAIN queue /\ i + 1 > 1
                                  /\ queue'[i] = queue[i + 1] /\ queue[i + 1] \in Calls
      /\ \A i \in DOMAIN queue :
           i \in Nat /\ (i # 1 => i - 1 \in DOMAIN queue' /\ queue'[i - 1] = queue[i])
      /\ queue' # <<>> => queue'[Len(queue')] = queue[Len(queue)] /\ Len(queue) # 1
  BY QueueTail DEF Subscribed, LiveConfigured
<1>3. \A i \in DOMAIN queue : /\ queue[1].by <= queue[i].by /\ queue[i].by <= inst
                              /\ queue[i].by \in Nat /\ inst \in Nat
  BY <1>2, CallTypes DEF QueueInOrder, TypeOK
<1>4. /\ c = queue[1] /\ c.by \in 1..MaxInst /\ c.by \in Nat /\ c.syms \subseteq Symbols
      /\ c.over \subseteq Symbols \/ c.over = Unset
  BY <1>2, CallTypes
<1>5. /\ rec'.syms = c.syms /\ rec'.cb = c.by
      /\ rec' \in [syms : SUBSET Symbols, est : BOOLEAN, cb : 0..MaxInst]
  BY <1>1, <1>4
<1>6. state' \in [adds : SUBSET Symbols, over : SUBSET Symbols]
  BY <1>1, <1>4 DEF Persisted, TypeOK
<1> HIDE DEF c
<1>7. LiveConfigured'
  BY <1>1, <1>2 DEF LiveConfigured
<1>8. QueueInOrder' /\ OneDeploy' /\ OneMessage'
  <2>1. queue # <<>> /\ queue' = Tail(queue)
    BY DEF Subscribed
  <2> QED
    BY <1>1, <1>4, <2>1, TailKeeps DEF TypeOK
<1>9. RemovalEndsIt'
  <2>1. open => \A i \in DOMAIN queue' : queue'[i].for # "removal"
    BY <1>2 DEF RemovalEndsIt
  <2>2. ASSUME removed
        PROVE  ~open /\ queue' # <<>> /\ queue'[Len(queue')].for = "removal"
    <3>1. ~open /\ queue # <<>> /\ queue[Len(queue)].for = "removal"
      BY <2>2 DEF RemovalEndsIt, Subscribed
    <3>2. Len(queue) # 1
      <4>1. queue[1].for # "removal"
        BY <1>1, <1>4
      <4> QED
        BY <3>1, <4>1
    <3>3. queue' # <<>>
      BY <3>1, <3>2, QueueTail DEF Subscribed, LiveConfigured
    <3> QED
      BY <1>2, <3>1, <3>3
  <2> QED
    BY <1>1, <2>1, <2>2 DEF RemovalEndsIt
<1>10. Serves'
  <2> SUFFICES ASSUME open, conf # {}
               PROVE  Mine({"deploy"})' # {} \/ (OnlyMine' /\ rec'.cb = inst)
    BY <1>1 DEF Serves
  <2>1. CASE OnlyMine
    BY <1>1, <1>2, <1>4, <1>5, <2>1 DEF OnlyMine
  <2>2. ASSUME NEW i \in Mine({"deploy"}), i # 1
        PROVE  i - 1 \in Mine({"deploy"})'
    BY <1>1, <1>2, <2>2 DEF Mine
  <2>3. CASE queue[1].by = inst
    <3>1. OnlyMine
      BY <1>3, <2>3 DEF OnlyMine
    <3> QED
      BY <2>1, <3>1
  <2> QED
    BY <1>1, <2>1, <2>2, <2>3 DEF Serves, Mine
<1>11. ActiveIs'
  BY <1>1, <1>2, <1>3, <1>4 DEF ActiveIs, OnlyMine, StaleSymbols
<1>12. TypeOK'
  <2>1. {open', removed', busy', online'} \subseteq BOOLEAN
    BY <1>1, <1>2, <1>4, <1>5, <1>6 DEF TypeOK
  <2>2. /\ inst' \in 0..MaxInst /\ conf' \in Configs \cup {{}}
        /\ active' \subseteq Symbols /\ lastValues' \subseteq Symbols
    BY <1>1, <1>2, <1>4, <1>5, <1>6, SubscribeNodeAssumption DEF TypeOK
  <2>3. /\ state' \in [adds : SUBSET Symbols, over : SUBSET Symbols]
        /\ rec' \in [syms : SUBSET Symbols, est : BOOLEAN, cb : 0..MaxInst]
        /\ stale' \subseteq [syms : SUBSET Symbols, cb : 0..MaxInst, routed : BOOLEAN]
        /\ queue' \in Seq(Calls)
    BY <1>1, <1>2, <1>4, <1>5, <1>6, SubscribeNodeAssumption DEF TypeOK
  <2> QED
    BY <1>8, <2>1, <2>2, <2>3, TypeFromParts
<1> QED
  BY <1>7, <1>8, <1>9, <1>10, <1>11, <1>12

\* No instance has been created.
LEMMA InitNode ==
  ASSUME Init
  PROVE  NodeInv
<1>1. queue = <<>> /\ rec = NoRecord /\ stale = {} /\ open = FALSE /\ removed = FALSE /\ inst = 0
  BY DEF Init
<1>2. queue \in Seq(Calls) /\ DOMAIN queue = {}
  BY <1>1
<1>3. TypeOK
  <2>1. {i \in DOMAIN queue : queue[i].by = inst /\ queue[i].for # "removal"} = {}
    BY <1>2
  <2>2. Cardinality({i \in DOMAIN queue : queue[i].by = inst /\ queue[i].for # "removal"}) <= 2
    BY <2>1, FS_EmptySet
  <2>3. rec \in [syms : SUBSET Symbols, est : BOOLEAN, cb : 0..MaxInst]
    BY <1>1, SubscribeNodeAssumption DEF NoRecord
  <2>4. inst \in 0..MaxInst /\ {open, removed, busy, online} \subseteq BOOLEAN
    <3>1. {FALSE} \subseteq BOOLEAN /\ {open, removed, busy, online} = {FALSE}
      BY DEF Init
    <3>2. inst \in 0..MaxInst
      BY <1>1, SubscribeNodeAssumption
    <3> QED
      BY <3>1, <3>2
  <2>5. /\ conf \in Configs \cup {{}} /\ active \subseteq Symbols /\ lastValues \subseteq Symbols
        /\ state \in [adds : SUBSET Symbols, over : SUBSET Symbols]
    BY DEF Init, NoState
  <2>6. \A i \in DOMAIN queue : queue[i] \in Calls
    BY <1>2
  <2> QED
    BY <1>1, <2>2, <2>3, <2>4, <2>5, <2>6 DEF TypeOK
<1>4. /\ LiveConfigured /\ QueueInOrder /\ OneDeploy /\ OneMessage
      /\ RemovalEndsIt /\ Serves /\ ActiveIs
  BY <1>1, <1>2 DEF LiveConfigured, QueueInOrder, OneDeploy, OneMessage, Mine, RemovalEndsIt,
     Serves, ActiveIs
<1> QED
  BY <1>3, <1>4 DEF NodeInv

\* Every step of the node and of the endpoint preserves the invariant.
LEMMA NextNode ==
  ASSUME NodeInv, [Next]_vars
  PROVE  NodeInv'
<1>1. ASSUME NEW c \in Configs, Deploy(c)
      PROVE  NodeInv'
  BY <1>1, DeployKeeps
<1>2. ASSUME NEW m \in Messages, Input(m)
      PROVE  NodeInv'
  BY <1>2, InputKeeps
<1>3. CASE InputUnsubscribe \/ Close \/ RemoveNode
  BY <1>3, InputUnsubscribeKeeps, CloseKeeps, RemoveNodeKeeps
<1>4. ASSUME NEW est \in BOOLEAN, NEW pushed \in SUBSET Symbols, Subscribed(est, pushed)
      PROVE  NodeInv'
  BY <1>4, SubscribedKeeps
<1>5. CASE Unsubscribed \/ Removed
  BY <1>5, UnsubscribedKeeps, RemovedKeeps
<1>6. ASSUME NEW x \in Symbols, Notification(x)
      PROVE  NodeInv'
  BY <1>6, NotificationKeeps
<1>7. CASE Lose \/ Regain \/ Establish \/ \E r \in stale : EstablishStale(r)
  BY <1>7, EndpointKeeps
<1>8. CASE UNCHANGED vars
  BY <1>8, UnchangedKeeps
<1> QED
  BY <1>1, <1>2, <1>3, <1>4, <1>5, <1>6, <1>7, <1>8 DEF Next

\* What holds at a deploy, a message, a removal and the end of every call.
THEOREM NodeInvariant == Spec => []NodeInv
  BY InitNode, NextNode, PTL DEF Spec

-----------------------------------------------------------------------------
(* The results on the node *)

\* The types of the node's variables; an instance has at most one call for its
\* deploy and one for a message with the endpoint, whatever the messages.
THEOREM NodeTypes == Spec => []TypeOK
<1>1. NodeInv => TypeOK
  BY DEF NodeInv
<1> QED
  BY <1>1, NodeInvariant, PTL

\* However deploys, messages and the calls of closed instances interleave,
\* notifications end up at the live instance of the node (subscribe() and its
\* fast path replace the callback; the queue of the owner keeps the order).
THEOREM LiveNodeServed == Spec => []RecordServesLiveNode
<1>1. NodeInv => RecordServesLiveNode
  BY DEF NodeInv, Serves, Mine, Quiet, RecordServesLiveNode
<1> QED
  BY <1>1, NodeInvariant, PTL

\* A message that input() ignores because its list is active asks for nothing
\* that the endpoint does not have.
THEOREM ActiveListSubscribed == Spec => []ActiveIsSubscribed
<1>1. NodeInv => ActiveIsSubscribed
  BY DEF NodeInv, ActiveIs, Quiet, ActiveIsSubscribed, StaleSymbols
<1> QED
  BY <1>1, NodeInvariant, PTL

\* on('close', removed): the unsubscribe of a removal is the last call of the
\* node, whatever was in flight.
THEOREM RemovedNodeForgotten == Spec => []RemovedLeavesNoRecord
<1>1. NodeInv => RemovedLeavesNoRecord
  BY DEF NodeInv, RemovalEndsIt, RemovedLeavesNoRecord
<1> QED
  BY <1>1, NodeInvariant, PTL

-----------------------------------------------------------------------------
(* The output queue *)

\* The messages of the node: values of some of its symbols.
Outputs == UNION {[ns -> 0..MaxVersion] : ns \in SUBSET Names}

\* The types of the variables.
OutputType ==
  /\ versions \in [Names -> 0..MaxVersion] /\ values \in [Names -> 0..MaxVersion]
  /\ received \in [Names -> 0..MaxVersion]
  /\ overdue \subseteq Names
  /\ pending \in Seq(Outputs)
  /\ scheduled \in BOOLEAN /\ drains \in 0..MaxDrains

\* The cache has the newest value of a symbol or none ...
CacheIsNewest == \A n \in Names : values[n] \in {0, versions[n]}

\* ... and what is due to be sent again is in it.
ResendsKnown == \A n \in overdue : values[n] > 0

\* Nothing that was sent or waits is newer than the PLC's notifications.
NothingNewer ==
  \A n \in Names : received[n] <= versions[n] /\ \A i \in With(n) : pending[i][n] <= versions[n]

\* The flag of the drain is set only with an immediate outstanding, and is set
\* while a message waits.
DrainIsScheduled == (scheduled => drains > 0) /\ (pending # <<>> => scheduled)

\* The inductive invariant: that the newest value is on its way survives a
\* resend because a resend carries nothing but newest values.
OutputInv ==
  /\ OutputType
  /\ CacheIsNewest
  /\ ResendsKnown
  /\ NothingNewer
  /\ DrainIsScheduled
  /\ QueueDelivers

\* What a message of the node consists of.
LEMMA OutputsAre ==
  ASSUME NEW m \in Outputs
  PROVE  /\ DOMAIN m \subseteq Names
         /\ \A n \in DOMAIN m : m[n] \in 0..MaxVersion /\ m[n] \in Nat
  BY OutputAssumption DEF Outputs

\* The queue that enqueue() appends to is the queue without its oldest messages,
\* none unless it is full and then half of them; it has room for one more.
LEMMA RoomShift ==
  ASSUME OutputType, Len(pending) <= MaxQueue
  PROVE  \E h \in Nat :
           /\ h <= Len(pending) /\ Room \in Seq(Outputs)
           /\ Len(Room) = Len(pending) - h /\ Len(Room) < MaxQueue
           /\ \A i \in DOMAIN Room : i + h \in DOMAIN pending /\ Room[i] = pending[i + h]
           /\ IF Len(pending) >= MaxQueue THEN h = Len(pending) \div 2 ELSE h = 0
<1>1. pending \in Seq(Outputs) /\ Len(pending) \in Nat /\ MaxQueue \in Nat /\ MaxQueue >= 2
  BY OutputAssumption DEF OutputType
<1>2. CASE Len(pending) >= MaxQueue
  <2> DEFINE h == Len(pending) \div 2
  <2>1. h \in Nat /\ h <= Len(pending) /\ h >= 1
    BY <1>1, <1>2
  <2>2. Room = SubSeq(pending, h + 1, Len(pending))
    BY <1>2 DEF Room
  <2> HIDE DEF h
  <2>3. Room \in Seq(Outputs) /\ Len(Room) = Len(pending) - h
    BY <1>1, <2>1, <2>2
  <2>4. ASSUME NEW i \in DOMAIN Room
        PROVE  i + h \in DOMAIN pending /\ Room[i] = pending[i + h]
    BY <1>1, <2>1, <2>2, <2>3
  <2> QED
    BY <1>1, <1>2, <2>1, <2>3, <2>4 DEF h
<1>3. CASE ~ Len(pending) >= MaxQueue
  <2>1. Room = pending
    BY <1>3 DEF Room
  <2>2. \A i \in DOMAIN pending : i + 0 = i
    BY <1>1
  <2> QED
    BY <1>1, <1>3, <2>1, <2>2
<1> QED
  BY <1>2, <1>3

\* enqueue() of a message that brings the cached values of some symbols, where
\* the values of the others stay as they are.
LEMMA EnqueueKeeps ==
  ASSUME OutputInv, NEW message \in Outputs, Enqueue(message), UNCHANGED received,
         versions' \in [Names -> 0..MaxVersion], values' \in [Names -> 0..MaxVersion],
         overdue' \subseteq overdue,
         \A n \in Names : versions[n] <= versions'[n],
         \A n \in DOMAIN message : message[n] = values'[n] /\ values'[n] = versions'[n],
         \A n \in Names \ DOMAIN message : values'[n] = values[n] /\ versions'[n] = versions[n]
  PROVE  OutputInv'
<1> USE DEF OutputInv
<1>1. /\ pending \in Seq(Outputs) /\ Len(pending) \in Nat
      /\ Len(pending) <= MaxQueue /\ MaxQueue \in Nat
  BY OutputAssumption DEF OutputType, QueueDelivers
<1>2. PICK h \in Nat :
           /\ h <= Len(pending) /\ Room \in Seq(Outputs)
           /\ Len(Room) = Len(pending) - h /\ Len(Room) < MaxQueue
           /\ \A i \in DOMAIN Room : i + h \in DOMAIN pending /\ Room[i] = pending[i + h]
           /\ IF Len(pending) >= MaxQueue THEN h = Len(pending) \div 2 ELSE h = 0
  BY <1>1, RoomShift
<1> DEFINE last == Len(Room) + 1
<1>3. /\ pending' \in Seq(Outputs) /\ Len(pending') = last
      /\ DOMAIN pending' = DOMAIN Room \cup {last}
      /\ last \in Nat /\ pending'[last] = message /\ DOMAIN Room \subseteq Nat
      /\ \A i \in DOMAIN Room : /\ pending'[i] = pending[i + h] /\ i + h \in DOMAIN pending
                                /\ i < last /\ i # last
      /\ \A i \in DOMAIN pending : i > h => i - h \in DOMAIN Room
  <2>1. pending' = Append(Room, message) /\ Room \in Seq(Outputs) /\ Len(Room) \in Nat
    BY <1>2 DEF Enqueue
  <2>2. /\ pending' \in Seq(Outputs) /\ DOMAIN pending' = DOMAIN Room \cup {last}
        /\ Len(pending') = last /\ last \in Nat /\ pending'[last] = message
        /\ DOMAIN Room = 1..Len(Room)
    BY <2>1
  <2>3. \A i \in DOMAIN Room : pending'[i] = Room[i] /\ i < last /\ i # last
    BY <2>1
  <2>4. \A i \in DOMAIN pending : i > h => i - h \in 1..Len(Room)
    BY <1>1, <1>2
  <2> QED
    BY <1>2, <2>2, <2>3, <2>4
<1> HIDE DEF last
<1>4. DOMAIN message \subseteq Names /\ \A n \in DOMAIN message : message[n] \in Nat
  BY OutputsAre
<1>5. ASSUME NEW n \in Names
      PROVE  /\ versions[n] \in Nat /\ versions'[n] \in Nat /\ received[n] \in Nat
             /\ versions[n] <= versions'[n] /\ received[n] <= versions[n]
             /\ \A i \in With(n) : pending[i][n] \in Nat /\ pending[i][n] <= versions[n]
  BY <1>1, OutputAssumption, OutputsAre DEF OutputType, NothingNewer, With
<1>6. ASSUME NEW n \in Names, NEW i \in With(n)'
      PROVE  \/ i \in DOMAIN Room /\ i + h \in With(n) /\ pending'[i][n] = pending[i + h][n]
             \/ i = last /\ n \in DOMAIN message /\ pending'[i][n] = versions'[n]
  BY <1>3 DEF With
<1>7. OutputType'
  <2>1. scheduled' \in BOOLEAN /\ drains' \in 0..MaxDrains
    BY OutputAssumption DEF Enqueue, Schedule, OutputType
  <2> QED
    BY <1>3, <2>1 DEF OutputType
<1>8. CacheIsNewest'
  BY <1>4 DEF CacheIsNewest
<1>9. ResendsKnown'
  <2> SUFFICES ASSUME NEW n \in overdue'
               PROVE  values'[n] > 0
    BY DEF ResendsKnown
  <2>1. n \in Names /\ values[n] > 0 /\ values[n] \in {0, versions[n]}
    BY DEF ResendsKnown, CacheIsNewest, OutputType
  <2>2. values'[n] \in {values[n], versions'[n]}
    BY <2>1
  <2> QED
    BY <1>5, <2>1, <2>2
<1>10. NothingNewer'
  <2> SUFFICES ASSUME NEW n \in Names
               PROVE  /\ received[n] <= versions'[n]
                      /\ \A i \in With(n)' : pending'[i][n] <= versions'[n]
    BY DEF NothingNewer
  <2>1. ASSUME NEW i \in With(n)'
        PROVE  pending'[i][n] <= versions'[n]
    BY <1>5, <1>6
  <2> QED
    BY <1>5, <2>1
<1>11. DrainIsScheduled'
  BY OutputAssumption DEF DrainIsScheduled, Enqueue, Schedule, OutputType
<1>12. InOrder'
  <2> SUFFICES ASSUME NEW n \in Names, NEW i \in With(n)'
               PROVE  /\ received[n] <= pending'[i][n]
                      /\ \A j \in With(n)' : i <= j => pending'[i][n] <= pending'[j][n]
    BY DEF InOrder
  <2>1. received[n] <= pending'[i][n]
    BY <1>5, <1>6 DEF QueueDelivers, InOrder
  <2>2. ASSUME NEW j \in With(n)', i <= j
        PROVE  pending'[i][n] <= pending'[j][n]
    <3>1. CASE j = last /\ pending'[j][n] = versions'[n]
      BY <1>5, <1>6, <3>1
    <3>2. CASE j \in DOMAIN Room /\ j + h \in With(n) /\ pending'[j][n] = pending[j + h][n]
      <4>1. i \in DOMAIN Room /\ i + h \in With(n) /\ pending'[i][n] = pending[i + h][n]
        BY <1>3, <1>6, <2>2, <3>2
      <4>2. i + h <= j + h
        BY <1>3, <2>2, <3>2, <4>1
      <4> QED
        BY <3>2, <4>1, <4>2 DEF QueueDelivers, InOrder
    <3> QED
      BY <1>6, <3>1, <3>2
  <2> QED
    BY <2>1, <2>2
<1>13. NewestOnItsWay'
  <2> SUFFICES ASSUME NEW n \in Names, values'[n] # 0, n \notin lost', received[n] # values'[n]
               PROVE  Places(n)' # {}
    BY DEF NewestOnItsWay
  <2>1. CASE n \in DOMAIN message
    BY <1>3, <2>1 DEF Places, With
  <2>2. CASE n \notin DOMAIN message
    <3>1. values'[n] = values[n] /\ n \notin lost /\ n \notin Exposed
      BY <2>2 DEF Enqueue
    <3>2. Places(n) # {}
      BY <3>1 DEF QueueDelivers, NewestOnItsWay
    <3>3. PICK i \in Places(n) : i > h
      <4>1. CASE Len(pending) >= MaxQueue
        <5>1. PICK i \in Places(n) : ~ i <= Len(pending) \div 2
          BY <3>1, <3>2, <4>1 DEF Exposed
        <5>2. h = Len(pending) \div 2
          BY <1>2, <4>1
        <5>3. i \in Nat
          BY <1>1 DEF Places, With
        <5>4. i > h
          BY <5>1, <5>2, <5>3
        <5> QED
          BY <5>4
      <4>2. CASE ~ Len(pending) >= MaxQueue
        BY <1>2, <3>2, <4>2 DEF Places, With
      <4> QED
        BY <4>1, <4>2
    <3>4. i \in DOMAIN pending /\ n \in DOMAIN pending[i] /\ pending[i][n] = values[n] /\ i \in Nat
      BY <1>1 DEF Places, With
    <3>5. i - h \in DOMAIN Room /\ (i - h) + h = i
      BY <1>3, <3>3, <3>4
    <3>6. pending'[i - h] = pending[i] /\ i - h \in DOMAIN pending'
      BY <1>3, <3>5
    <3> QED
      BY <3>1, <3>4, <3>6 DEF Places, With
  <2> QED
    BY <2>1, <2>2
<1>14. DrainComes' /\ Len(pending') <= MaxQueue
  <2>1. Len(pending') <= MaxQueue
    BY <1>1, <1>2, <1>3 DEF last
  <2> QED
    BY <1>11, <2>1 DEF DrainIsScheduled, DrainComes
<1> QED
  BY <1>7, <1>8, <1>9, <1>10, <1>11, <1>12, <1>13, <1>14 DEF QueueDelivers

\* A notification sends what it has put into the cache.
LEMMA ChangeKeeps ==
  ASSUME OutputInv, NEW ns \in SUBSET Names, Change(ns)
  PROVE  OutputInv'
<1> DEFINE new == [n \in ns |-> versions[n] + 1]
<1>1. /\ versions' = [n \in Names |-> IF n \in ns THEN new[n] ELSE versions[n]]
      /\ values' = [n \in Names |-> IF n \in ns THEN new[n] ELSE values[n]]
      /\ overdue' \subseteq overdue /\ UNCHANGED received /\ Enqueue(new)
      /\ \A n \in ns : versions[n] < MaxVersion
  BY DEF Change
<1>2. /\ versions \in [Names -> 0..MaxVersion] /\ values \in [Names -> 0..MaxVersion]
      /\ MaxVersion \in Nat
  BY OutputAssumption DEF OutputInv, OutputType
<1>3. \A n \in ns : versions[n] + 1 \in 0..MaxVersion
  BY <1>1, <1>2
<1>4. new \in Outputs /\ DOMAIN new = ns
  BY <1>3 DEF Outputs
<1>5. /\ versions' \in [Names -> 0..MaxVersion] /\ values' \in [Names -> 0..MaxVersion]
      /\ \A n \in Names : versions[n] <= versions'[n]
  BY <1>1, <1>2, <1>3
<1>6. \A n \in DOMAIN new : new[n] = values'[n] /\ values'[n] = versions'[n]
  BY <1>1
<1>7. \A n \in Names \ DOMAIN new : values'[n] = values[n] /\ versions'[n] = versions[n]
  BY <1>1
<1> HIDE DEF new
<1> QED
  BY <1>1, <1>4, <1>5, <1>6, <1>7, EnqueueKeeps

\* A resend sends what the cache has.
LEMMA ResendKeeps ==
  ASSUME OutputInv, ResendStaleValues
  PROVE  OutputInv'
<1> DEFINE old == [n \in overdue |-> values[n]]
<1>1. UNCHANGED <<versions, values, received>> /\ overdue' = {} /\ Enqueue(old)
  BY DEF ResendStaleValues
<1>2. /\ versions \in [Names -> 0..MaxVersion] /\ values \in [Names -> 0..MaxVersion]
      /\ overdue \subseteq Names /\ \A n \in overdue : values[n] = versions[n]
  BY OutputAssumption DEF OutputInv, OutputType, CacheIsNewest, ResendsKnown
<1>3. old \in Outputs
  BY <1>2 DEF Outputs
<1>4. \A n \in DOMAIN old : old[n] = values'[n] /\ values'[n] = versions'[n]
  BY <1>1, <1>2
<1>5. \A n \in Names : versions[n] <= versions'[n]
  BY <1>1, <1>2
<1> HIDE DEF old
<1> QED
  BY <1>1, <1>2, <1>3, <1>4, <1>5, EnqueueKeeps

\* What is sent of a batch is a message that waited, or nothing; the newest
\* values of the others are lost.
LEMMA FlushedKeeps ==
  ASSUME OutputInv, NEW message \in Outputs, Flushed(message),
         UNCHANGED <<versions, values, overdue>>, pending' = <<>>, scheduled' = FALSE,
         drains' \in 0..MaxDrains,
         \A n \in DOMAIN message : received[n] <= message[n] /\ message[n] <= versions[n]
  PROVE  OutputInv'
<1> USE DEF OutputInv
<1>1. \A n \in Names : With(n)' = {}
  BY DEF With
<1>2. ASSUME NEW n \in Names
      PROVE  received'[n] = IF n \in DOMAIN message THEN message[n] ELSE received[n]
  BY DEF Flushed
<1>3. ASSUME NEW n \in Names
      PROVE  received'[n] \in 0..MaxVersion /\ received'[n] <= versions[n]
  <2>1. received[n] \in 0..MaxVersion /\ received[n] <= versions[n]
    BY DEF OutputType, NothingNewer
  <2>2. n \in DOMAIN message => message[n] \in 0..MaxVersion
    BY OutputsAre
  <2> QED
    BY <1>2, <2>1, <2>2
<1>4. OutputType'
  <2>1. received' \in [Names -> 0..MaxVersion]
    BY <1>3 DEF Flushed
  <2>2. pending' \in Seq(Outputs)
    OBVIOUS
  <2> QED
    BY <2>1, <2>2 DEF OutputType
<1>5. CacheIsNewest' /\ ResendsKnown' /\ DrainIsScheduled'
  BY DEF CacheIsNewest, ResendsKnown, DrainIsScheduled
<1>6. NothingNewer' /\ InOrder'
  BY <1>1, <1>3 DEF NothingNewer, InOrder
<1>7. NewestOnItsWay'
  <2> SUFFICES ASSUME NEW n \in Names, values[n] # 0, n \notin lost'
               PROVE  received'[n] = values[n]
    BY DEF NewestOnItsWay
  <2>1. CASE n \in DOMAIN message /\ message[n] = values[n]
    BY <1>2, <2>1
  <2>2. CASE ~(n \in DOMAIN message /\ message[n] = values[n])
    <3>1. n \notin lost /\ Places(n) = {}
      BY <2>2 DEF Flushed
    <3>2. received[n] = values[n]
      BY <3>1 DEF QueueDelivers, NewestOnItsWay
    <3>3. n \notin DOMAIN message
      <4>1. values[n] \in Nat /\ received[n] \in Nat /\ values[n] = versions[n]
        BY OutputAssumption DEF OutputType, CacheIsNewest
      <4>2. n \in DOMAIN message => message[n] \in Nat
        BY OutputsAre
      <4> QED
        BY <2>2, <3>2, <4>1, <4>2
    <3> QED
      BY <1>2, <3>2, <3>3
  <2> QED
    BY <2>1, <2>2
<1>8. DrainComes' /\ Len(pending') <= MaxQueue
  BY OutputAssumption DEF DrainComes
<1> QED
  BY <1>4, <1>5, <1>6, <1>7, <1>8 DEF QueueDelivers

\* A drain sends the oldest message, if any, and that is not older than what
\* was sent before.
LEMMA DrainKeeps ==
  ASSUME OutputInv, Drain
  PROVE  OutputInv'
<1> USE DEF OutputInv
<1>1. /\ UNCHANGED <<versions, values, overdue>>
      /\ pending' = <<>> /\ scheduled' = FALSE /\ drains' = drains - 1 /\ drains > 0
  BY DEF Drain
<1>2. drains' \in 0..MaxDrains
  BY <1>1, OutputAssumption DEF OutputType
<1>3. CASE UNCHANGED <<received, lost>> /\ pending = <<>>
  <2>1. \A n \in Names : With(n)' = With(n)
    BY <1>1, <1>3 DEF With
  <2>2. OutputType' /\ CacheIsNewest' /\ ResendsKnown' /\ DrainIsScheduled'
    BY <1>1, <1>2, <1>3 DEF OutputType, CacheIsNewest, ResendsKnown, DrainIsScheduled
  <2>3. NothingNewer' /\ InOrder' /\ NewestOnItsWay'
    BY <1>1, <1>3, <2>1 DEF QueueDelivers, NothingNewer, InOrder, NewestOnItsWay, Places
  <2>4. DrainComes' /\ Len(pending') <= MaxQueue
    BY <1>1, <1>3 DEF QueueDelivers, DrainComes
  <2> QED
    BY <2>2, <2>3, <2>4 DEF QueueDelivers
<1>4. CASE pending # <<>> /\ Flushed(pending[1])
  <2>1. 1 \in DOMAIN pending /\ pending[1] \in Outputs
    BY <1>4 DEF OutputType
  <2>2. ASSUME NEW n \in DOMAIN pending[1]
        PROVE  received[n] <= pending[1][n] /\ pending[1][n] <= versions[n]
    <3>1. n \in Names /\ 1 \in With(n)
      BY <2>1, OutputsAre DEF With
    <3> QED
      BY <3>1 DEF NothingNewer, QueueDelivers, InOrder
  <2> QED
    BY <1>1, <1>2, <1>4, <2>1, <2>2, FlushedKeeps
<1>5. CASE Flushed(NoMessage)
  <2>1. NoMessage \in [{} -> 0..MaxVersion] /\ DOMAIN NoMessage = {}
    BY DEF NoMessage
  <2>2. NoMessage \in Outputs
    BY <2>1 DEF Outputs
  <2> QED
    BY <1>1, <1>2, <1>5, <2>1, <2>2, FlushedKeeps
<1> QED
  BY <1>3, <1>4, <1>5 DEF Drain

\* The rest leaves the queue alone.
LEMMA OthersKeep ==
  ASSUME OutputInv,
         \/ \E n \in Names : IntervalPasses(n)
         \/ EndpointStatus \/ Unlist \/ Relist \/ UNCHANGED output
  PROVE  OutputInv'
<1> USE DEF OutputInv
<1>1. /\ UNCHANGED <<versions, pending, scheduled, drains, received>>
      /\ \/ UNCHANGED <<values, lost>>
         \/ values' = [n \in Names |-> 0] /\ lost' = {}
      /\ overdue' \subseteq Names /\ \A n \in overdue' : values'[n] > 0
  BY DEF IntervalPasses, EndpointStatus, Unlist, Relist, output, OutputType, ResendsKnown
<1>2. \A n \in Names : With(n)' = With(n)
  BY <1>1 DEF With
<1>3. OutputType' /\ ResendsKnown'
  BY <1>1, OutputAssumption DEF OutputType, ResendsKnown
<1>4. CacheIsNewest'
  BY <1>1 DEF CacheIsNewest
<1>5. NothingNewer' /\ InOrder'
  BY <1>1, <1>2 DEF NothingNewer, QueueDelivers, InOrder
<1>6. NewestOnItsWay'
  BY <1>1, <1>2 DEF QueueDelivers, NewestOnItsWay, Places
<1>7. DrainIsScheduled' /\ DrainComes' /\ Len(pending') <= MaxQueue
  BY <1>1 DEF DrainIsScheduled, QueueDelivers, DrainComes
<1> QED
  BY <1>3, <1>4, <1>5, <1>6, <1>7 DEF QueueDelivers

\* reset() empties the queue; an immediate still outstanding finds nothing.
LEMMA NodeClosedKeeps ==
  ASSUME OutputInv, NodeClosed
  PROVE  OutputInv'
<1> USE DEF OutputInv
<1>1. /\ UNCHANGED <<versions, drains, received>>
      /\ pending' = <<>> /\ scheduled' = FALSE
      /\ values' = [n \in Names |-> 0] /\ overdue' = {} /\ lost' = {}
  BY DEF NodeClosed
<1>2. \A n \in Names : With(n)' = {}
  BY <1>1 DEF With
<1>3. OutputType' /\ CacheIsNewest' /\ ResendsKnown'
  <2>1. pending' \in Seq(Outputs)
    BY <1>1
  <2>2. values' \in [Names -> 0..MaxVersion]
    BY <1>1, OutputAssumption
  <2>3. OutputType'
    BY <1>1, <2>1, <2>2 DEF OutputType
  <2> QED
    BY <1>1, <2>3 DEF CacheIsNewest, ResendsKnown
<1>4. NothingNewer' /\ InOrder' /\ NewestOnItsWay'
  BY <1>1, <1>2 DEF NothingNewer, InOrder, NewestOnItsWay
<1>5. DrainIsScheduled' /\ DrainComes' /\ Len(pending') <= MaxQueue
  BY <1>1, OutputAssumption DEF DrainIsScheduled, DrainComes
<1> QED
  BY <1>3, <1>4, <1>5 DEF QueueDelivers

\* Nothing has been notified.
LEMMA InitOutput ==
  ASSUME OutputInit
  PROVE  OutputInv
<1>1. \A n \in Names : With(n) = {}
  BY DEF OutputInit, With
<1>2. OutputType /\ CacheIsNewest /\ ResendsKnown
  <2>1. pending \in Seq(Outputs)
    BY DEF OutputInit
  <2>2. [n \in Names |-> 0] \in [Names -> 0..MaxVersion]
    BY OutputAssumption
  <2>3. 0 \in 0..MaxDrains
    BY OutputAssumption
  <2>4. OutputType
    BY <2>1, <2>2, <2>3 DEF OutputInit, OutputType
  <2> QED
    BY <2>4 DEF OutputInit, CacheIsNewest, ResendsKnown
<1>3. NothingNewer /\ InOrder /\ NewestOnItsWay
  BY <1>1 DEF OutputInit, NothingNewer, InOrder, NewestOnItsWay
<1>4. DrainIsScheduled /\ DrainComes /\ Len(pending) <= MaxQueue
  BY OutputAssumption DEF OutputInit, DrainIsScheduled, DrainComes
<1> QED
  BY <1>2, <1>3, <1>4 DEF OutputInv, QueueDelivers

\* Whatever the notifications, resends, resets and overflows, and whenever the
\* immediates run: a flow sees each symbol's values in order, the newest one is
\* lost nowhere but in an overflow and in a flush, and what waits is flushed
\* (OutputMsgQueue.enqueue, _drain, reset; resendStaleValues).
THEOREM QueueKeepsDelivering == OutputSpec => []QueueDelivers
<1>1. OutputInit => OutputInv
  BY InitOutput
<1>2. OutputInv /\ [OutputNext]_output => OutputInv'
  <2> SUFFICES ASSUME OutputInv, [OutputNext]_output
               PROVE  OutputInv'
    OBVIOUS
  <2>1. ASSUME NEW ns \in (SUBSET Names) \ {{}}, Change(ns)
        PROVE  OutputInv'
    BY <2>1, ChangeKeeps
  <2>2. CASE ResendStaleValues \/ Drain \/ NodeClosed
    BY <2>2, ResendKeeps, DrainKeeps, NodeClosedKeeps
  <2>3. CASE (\E n \in Names : IntervalPasses(n)) \/ EndpointStatus \/ Unlist \/ Relist
    BY <2>3, OthersKeep
  <2>4. CASE UNCHANGED output
    BY <2>4, OthersKeep
  <2> QED
    BY <2>1, <2>2, <2>3, <2>4 DEF OutputNext
<1>3. OutputInv => QueueDelivers
  BY DEF OutputInv
<1> QED
  BY <1>1, <1>2, <1>3, PTL DEF OutputSpec
=============================================================================
