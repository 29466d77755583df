---------------------------- MODULE BrowseProofs ----------------------------
(***************************************************************************)
(* Proofs about the browsing of a PLC: a scoped browse fetches exactly the *)
(* types it needs, whatever types a PLC has and however they refer to each *)
(* other, cycles included (TypeFetch); and the requests of any number of   *)
(* browsers share the sessions without harm to each other                  *)
(* (BrowseSessions).                                                       *)
(***************************************************************************)
EXTENDS TypeFetch, BrowseSessions, FiniteSetTheorems, TLAPS

-----------------------------------------------------------------------------
(* The closure of type references *)

\* What has left the queue has been answered in full.
Explored == requested \ queue

\* The inductive invariant: the ids explored so far account for what was
\* received and for what was asked for, and nothing was asked for that a
\* closed set around the scope's ids does not contain.
FetchInv ==
  /\ wanted \subseteq requested
  /\ queue \subseteq requested
  /\ collected = UNION {Answer(r) : r \in Explored}
  /\ \A r \in Explored : \A t \in Answer(r) : References(t) \subseteq requested
  /\ \A S : wanted \subseteq S /\ Closed(S) => requested \subseteq S

\* The ids that one answer adds lie in every closed set that contains the id.
LEMMA NewIdsInClosed ==
  ASSUME NEW S, Closed(S), NEW r \in S
  PROVE  NewIds(r) \subseteq S
  BY DEF Closed, NewIds

\* A browse that begins has explored nothing.
LEMMA StartPreserves ==
  ASSUME NEW roots, FetchStart(roots)
  PROVE  FetchInv'
  <1>1. wanted' \subseteq requested' /\ queue' \subseteq requested' /\ Explored' = {}
    BY DEF FetchStart, Explored
  <1>2. collected' = UNION {Answer(r) : r \in Explored'}
    BY <1>1 DEF FetchStart
  <1>3. \A S : wanted' \subseteq S /\ Closed(S) => requested' \subseteq S
    BY DEF FetchStart
  <1> QED
    BY <1>1, <1>2, <1>3 DEF FetchInv, Closed, Answer, References, Descends, Packed, Explored

\* One round trip moves one id from the queue to the explored ones.
LEMMA StepPreserves ==
  ASSUME FetchInv, FetchStep
  PROVE  FetchInv'
  <1>1. PICK r \in queue : /\ queue' = (queue \ {r}) \cup NewIds(r)
                           /\ requested' = requested \cup NewIds(r)
                           /\ collected' = collected \cup Answer(r)
                           /\ wanted' = wanted
    BY DEF FetchStep
  <1>2. NewIds(r) \cap requested = {}
    BY DEF NewIds
  <1>3. Explored' = Explored \cup {r}
    BY <1>1, <1>2 DEF FetchInv, Explored
  <1>4. wanted' \subseteq requested' /\ queue' \subseteq requested'
    BY <1>1 DEF FetchInv
  <1>5. collected' = UNION {Answer(q) : q \in Explored'}
    BY <1>1, <1>3 DEF FetchInv
  <1>6. \A q \in Explored' : \A t \in Answer(q) : References(t) \subseteq requested'
    <2>1. \A t \in Answer(r) : References(t) \subseteq requested \cup NewIds(r)
      BY DEF NewIds
    <2> QED
      BY <1>1, <1>3, <2>1 DEF FetchInv
  <1>7. \A S : wanted' \subseteq S /\ Closed(S) => requested' \subseteq S
    <2> SUFFICES ASSUME NEW S, wanted \subseteq S, Closed(S)
                 PROVE  requested \cup NewIds(r) \subseteq S
      BY <1>1
    <2>1. requested \subseteq S
      BY DEF FetchInv
    <2>2. r \in S
      BY <1>1, <2>1 DEF FetchInv
    <2> QED
      BY <2>1, <2>2, NewIdsInClosed
  <1>8. \A S : Closed(S)' <=> Closed(S)
    BY DEF Closed, Answer, References, Descends, Packed
  <1> QED
    BY <1>4, <1>5, <1>6, <1>7, <1>8 DEF FetchInv, Closed, Answer, References, Descends, Packed

\* The invariant behind the results on the fetch.
THEOREM FetchInvariant == FetchSpec => []FetchInv
  <1>1. FetchInit => FetchInv
    BY DEF FetchInit, FetchInv, Explored
  <1>2. FetchInv /\ [FetchNext]_fetch => FetchInv'
    <2> SUFFICES ASSUME FetchInv, [FetchNext]_fetch
                 PROVE  FetchInv'
      OBVIOUS
    <2>1. ASSUME NEW roots, FetchStart(roots) PROVE FetchInv'
      BY <2>1, StartPreserves
    <2>2. CASE FetchStep
      BY <2>2, StepPreserves
    <2>3. CASE FetchEnd
      <3>1. FetchStart({})
        BY <2>3 DEF FetchEnd, FetchStart
      <3> QED
        BY <3>1, StartPreserves
    <2>4. CASE UNCHANGED fetch
      BY <2>4 DEF fetch, FetchInv, Explored, Closed, Answer, References, Descends, Packed
    <2> QED
      BY <2>1, <2>2, <2>3, <2>4 DEF FetchNext
  <1> QED
    BY <1>1, <1>2, PTL DEF FetchSpec

\* A scoped browse fetches the types its blocks and areas need and no others.
THEOREM FetchExact == FetchSpec => []FetchedIsClosure
  <1>1. FetchInv => FetchedIsClosure
    <2> SUFFICES ASSUME FetchInv PROVE FetchedIsClosure
      OBVIOUS
    <2>1. ASSUME queue = {} PROVE Explored = requested
      BY <2>1 DEF Explored
    <2> QED
      BY <2>1 DEF FetchInv, FetchedIsClosure, Closed
  <1> QED
    BY <1>1, FetchInvariant, PTL

\* No id is explored twice in one browse: the fetch ends after at most as many
\* round trips as there are ids, on cyclic types as well.
THEOREM FetchOnce == FetchSpec => ExploredOnce
  <1>1. [FetchNext]_fetch => [queue # {} => (requested \ queue) \cap queue' = {}]_fetch
    <2> SUFFICES ASSUME FetchNext, queue # {}
                 PROVE  (requested \ queue) \cap queue' = {}
      OBVIOUS
    <2>1. CASE FetchStep
      BY <2>1 DEF FetchStep, NewIds
    <2>2. CASE FetchEnd
      BY <2>2 DEF FetchEnd
    <2> QED
      BY <2>1, <2>2 DEF FetchNext
  <1> QED
    BY <1>1, PTL DEF FetchSpec, ExploredOnce

-----------------------------------------------------------------------------
(* The sessions: the inductive invariant *)

\* The records of the requests.
RequestType ==
  [at : {"idle", "connecting", "running"}, named : Ids \cup {NoId}, address : BOOLEAN,
   deployed : BOOLEAN, roots : BOOLEAN, on : Ids \cup {NoId, Endpoint}, inner : BOOLEAN,
   attempt : {1, 2}, hits : Nat, failed : BOOLEAN]

\* What a client may be.
States == {"none", "connecting", "up", "down", "leaked"}

\* The type of the state.  hits is a counter of the property, so any number.
SessionsType ==
  /\ clients \in [Ids -> States]
  /\ sessions \subseteq Ids /\ expired \subseteq Ids /\ known \subseteq Ids
  /\ requests \in [Requests -> RequestType]

\* Request r has not been answered.
Active(r) == requests[r].at # "idle"

\* Request r uses a session that was made for it.
Own(r) == Active(r) /\ ~requests[r].inner /\ requests[r].on # Endpoint

\* The map holds the sessions that have connected, and only those.
MapHolds ==
  /\ \A i \in Ids : clients[i] = "up" => i \in sessions
  /\ \A i \in sessions : clients[i] \in {"up", "down"}

\* A request that connects has a client that connects, one that runs a client
\* that has connected once, and one that runs inside a named session, which
\* somebody was told of, is in its first attempt.
UseOf(r) ==
  /\ requests[r].named \in known \cup {NoId}
  /\ requests[r].at = "connecting" =>
       requests[r].on \in Ids /\ clients[requests[r].on] = "connecting" /\ ~requests[r].inner
  /\ requests[r].at = "running" =>
       \/ requests[r].on = Endpoint
       \/ requests[r].on \in Ids /\ clients[requests[r].on] \in {"up", "down"}
  /\ Active(r) /\ requests[r].inner => requests[r].on \in known /\ requests[r].attempt = 1

InUse == \A r \in Requests : UseOf(r)

\* The session a request made for itself is unknown to all other requests: the
\* browser is told of it with the answer.
Private ==
  \A r \in Requests : Own(r) =>
    /\ requests[r].on \notin known \cup expired
    /\ \A q \in Requests : q # r /\ Active(q) => requests[q].on # requests[r].on

\* What can be named or has expired was created.
Made == \A i \in known \cup expired : clients[i] # "none"

\* Every client that connects is waited for.
Awaited ==
  \A i \in Ids : clients[i] = "connecting" =>
    \E r \in Requests : requests[r].at = "connecting" /\ requests[r].on = i

\* A request with an address that is in its second attempt has lost a client of
\* its own, and one whose client is down has seen that as well.
CountOf(r) ==
  /\ ~requests[r].failed
  /\ requests[r].address /\ requests[r].attempt = 2 => requests[r].hits >= 1
  /\ Own(r) => requests[r].address
  /\ Own(r) /\ clients[requests[r].on] = "down" => requests[r].hits >= requests[r].attempt

Counted == \A r \in Requests : Active(r) => CountOf(r)

\* The inductive invariant.
SessionsInv ==
  /\ SessionsType
  /\ MapHolds
  /\ InUse
  /\ Private
  /\ Made
  /\ Awaited
  /\ Counted
  /\ OthersDoNoHarm

-----------------------------------------------------------------------------
(* The sessions: the steps *)

\* The client that request r has been waiting for.
Waiting(r) == IF requests[r].at = "connecting" THEN {requests[r].on} ELSE {}

\* How the clients are when a catch clause of request r runs: a client that has
\* failed to connect is down or has leaked.
Left(r, cs) ==
  /\ cs \in [Ids -> States]
  /\ \A i \in Ids : IF i \in Waiting(r) THEN cs[i] \in {"down", "leaked"} ELSE cs[i] = clients[i]

\* What may be disconnected when request r looks at the map: nothing that
\* another request made for itself, unless it is lost.
Spares(r, D) ==
  /\ D \subseteq sessions
  /\ \A q \in Requests \ {r} : Own(q) => requests[q].on \notin D \/ clients[requests[q].on] = "down"

\* The sessions swept and replaced for one request are no other's.
LEMMA Spared ==
  ASSUME SessionsInv, NEW r \in Requests
  PROVE  Spares(r, {}) /\ Spares(r, Prunable) /\ Spares(r, Replaced(r))
<1>1. Prunable \subseteq sessions /\ Replaced(r) \subseteq sessions /\ sessions \subseteq Ids
  BY DEF Prunable, Replaced, SessionsInv, SessionsType
<1>2. ASSUME NEW q \in Requests \ {r}, Own(q)
      PROVE  /\ requests[q].on \notin Replaced(r)
             /\ requests[q].on \in Prunable => clients[requests[q].on] = "down"
  <2>1. requests[q].on \notin known \cup expired
    BY <1>2 DEF SessionsInv, Private
  <2>2. requests[q].on \notin Replaced(r)
    BY <1>1, <2>1, SessionsAssumption DEF Replaced, SessionsInv, InUse, UseOf
  <2> QED
    BY <2>1, <2>2 DEF Prunable, Dead
<1> QED
  BY <1>1, <1>2 DEF Spares

\* The client that a request waits for is in no map, and no other request's.
LEMMA WaitingIsOwn ==
  ASSUME SessionsInv, NEW r \in Requests, NEW i \in Waiting(r)
  PROVE  /\ i \in Ids /\ clients[i] = "connecting" /\ i \notin sessions
         /\ \A p \in Requests \ {r} : Active(p) => requests[p].on # i
<1>1. requests[r].at = "connecting" /\ i = requests[r].on
  BY DEF Waiting
<1>2. i \in Ids /\ clients[i] = "connecting" /\ ~requests[r].inner
  BY <1>1 DEF SessionsInv, InUse, UseOf
<1>3. Own(r)
  BY <1>1, <1>2, SessionsAssumption DEF Own, Active
<1>4. i \notin sessions
  BY <1>2 DEF SessionsInv, MapHolds
<1>5. \A p \in Requests : p # r /\ Active(p) => requests[p].on # i
  BY <1>1, <1>3 DEF SessionsInv, Private
<1> QED
  BY <1>2, <1>4, <1>5

\* What a request that goes on is like.
Ready(q) ==
  /\ q \in RequestType
  /\ q.named \in known \cup {NoId}
  /\ ~q.failed
  /\ q.address /\ q.attempt = 2 => q.hits >= 1

\* A request that is answered, or goes on with the endpoint's client or with a
\* session it named, after it has disconnected clients.
LEMMA GoesOn ==
  ASSUME SessionsInv, NEW r \in Requests, NEW q \in RequestType, NEW cs, Left(r, cs),
         NEW D, Spares(r, D),
         \/ q.at = "idle" /\ q.named = NoId /\ (q.failed => q.hits >= 2)
         \/ q.at = "running" /\ Ready(q) /\ q.on = Endpoint /\ ~q.inner
         \/ /\ q.at = "running" /\ Ready(q) /\ q.on \in known \cap sessions
            /\ Waiting(r) = {} /\ q.inner /\ q.attempt = 1,
         requests' = [requests EXCEPT ![r] = q], known' = known,
         clients' = Disconnected(cs, D), sessions' = sessions \ D, expired' = expired \ D
  PROVE  SessionsInv'
<1> USE DEF SessionsInv
<1>1. /\ requests'[r] = q /\ \A p \in Requests \ {r} : requests'[p] = requests[p]
      /\ requests' \in [Requests -> RequestType]
  BY DEF SessionsType
<1>2. /\ clients' \in [Ids -> States] /\ D \subseteq sessions /\ sessions \subseteq Ids
      /\ \A i \in Ids : clients'[i] = IF i \in D THEN "down" ELSE cs[i]
  BY DEF SessionsType, Disconnected, Left, States, Spares
<1>3. \A i \in Waiting(r) : /\ i \in Ids /\ clients[i] = "connecting" /\ i \notin sessions
                            /\ \A p \in Requests \ {r} : Active(p) => requests[p].on # i
  BY WaitingIsOwn
<1>4. /\ \A i \in Ids \ Waiting(r) : clients'[i] = IF i \in D THEN "down" ELSE clients[i]
      /\ \A i \in Waiting(r) : clients'[i] \in {"down", "leaked"}
  BY <1>2, <1>3 DEF Left
<1>5. \A p \in Requests \ {r} :
        /\ Active(p)' = Active(p) /\ Own(p)' = Own(p)
        /\ Own(p) => requests[p].on \notin D \/ clients[requests[p].on] = "down"
        /\ Active(p) => requests[p].on \notin Waiting(r)
  BY <1>1, <1>3 DEF Active, Own, Spares
<1>6. Own(r)' = FALSE
  BY <1>1, SessionsAssumption DEF Own, Active
<1>7. SessionsType'
  BY <1>1, <1>2 DEF SessionsType
<1>8. MapHolds'
  BY <1>2, <1>3, <1>4 DEF MapHolds
<1>9. InUse'
  <2> SUFFICES ASSUME NEW p \in Requests
               PROVE  UseOf(p)'
    BY DEF InUse
  <2>1. CASE p = r
    <3>1. \A i \in Ids \cap sessions : Waiting(r) = {} => clients'[i] \in {"up", "down"}
      BY <1>4 DEF MapHolds
    <3> QED
      BY <1>1, <1>2, <2>1, <3>1, SessionsAssumption DEF UseOf, Ready, Active
  <2>2. CASE p # r
    <3>1. ASSUME requests[p].at = "connecting"
          PROVE  /\ requests[p].on \in Ids /\ ~requests[p].inner
                 /\ clients'[requests[p].on] = "connecting"
      <4>1. Own(p) /\ clients[requests[p].on] = "connecting" /\ requests[p].on \in Ids
        BY <3>1, SessionsAssumption DEF Own, Active, InUse, UseOf
      <4>2. requests[p].on \notin D /\ requests[p].on \notin Waiting(r)
        BY <1>5, <2>2, <4>1 DEF Own
      <4> QED
        BY <1>4, <4>1, <4>2 DEF Own
    <3>2. ASSUME requests[p].at = "running", requests[p].on # Endpoint
          PROVE  requests[p].on \in Ids /\ clients'[requests[p].on] \in {"up", "down"}
      <4>1. requests[p].on \in Ids /\ clients[requests[p].on] \in {"up", "down"} /\ Active(p)
        BY <3>2 DEF Active, InUse, UseOf
      <4> QED
        BY <1>4, <1>5, <2>2, <4>1
    <3>3. UseOf(p)
      BY DEF InUse
    <3> QED
      BY <1>1, <1>5, <2>2, <3>1, <3>2, <3>3 DEF UseOf
  <2> QED
    BY <2>1, <2>2
<1>10. Private'
  <2> SUFFICES ASSUME NEW p \in Requests \ {r}, Own(p)
               PROVE  /\ requests[p].on \notin known \cup expired
                      /\ \A s \in Requests : s # p /\ Active(s)' => requests'[s].on # requests[p].on
    BY <1>1, <1>5, <1>6 DEF Private
  <2>1. requests[p].on \notin known /\ requests[p].on # Endpoint
    BY DEF Private, Own
  <2>2. Active(r)' => requests'[r].on # requests[p].on
    BY <1>1, <2>1 DEF Active
  <2> QED
    BY <1>1, <1>5, <2>2 DEF Private
<1>11. Made'
  BY <1>2, <1>4 DEF Made, SessionsType
<1>12. Awaited'
  <2> SUFFICES ASSUME NEW i \in Ids, clients'[i] = "connecting"
               PROVE  \E p \in Requests : requests'[p].at = "connecting" /\ requests'[p].on = i
    BY DEF Awaited
  <2>1. clients[i] = "connecting" /\ i \notin Waiting(r)
    BY <1>4
  <2>2. PICK p \in Requests : requests[p].at = "connecting" /\ requests[p].on = i
    BY <2>1 DEF Awaited
  <2>3. p # r
    BY <2>1, <2>2 DEF Waiting
  <2> QED
    BY <1>1, <2>2, <2>3
<1>13. Counted'
  <2> SUFFICES ASSUME NEW p \in Requests, Active(p)'
               PROVE  CountOf(p)'
    BY DEF Counted
  <2>1. CASE p = r
    BY <1>1, <1>6, <2>1 DEF CountOf, Ready, Active
  <2>2. CASE p # r
    <3>1. Own(p) => requests[p].on \in Ids
      BY SessionsAssumption DEF Own, Active, InUse, UseOf, SessionsType, RequestType
    <3>2. Active(p) /\ CountOf(p)
      BY <1>5, <2>2 DEF Counted
    <3>3. Own(p) /\ clients'[requests[p].on] = "down" => clients[requests[p].on] = "down"
      BY <1>4, <1>5, <2>2, <3>1, <3>2
    <3> QED
      BY <1>1, <1>5, <2>2, <3>2, <3>3 DEF CountOf
  <2> QED
    BY <2>1, <2>2
<1>14. OthersDoNoHarm'
  BY <1>1 DEF OthersDoNoHarm, Ready
<1> QED
  BY <1>7, <1>8, <1>9, <1>10, <1>11, <1>12, <1>13, <1>14

\* createEphemeralBrowseSession: a client nobody has used, for one request.
LEMMA NewSession ==
  ASSUME SessionsInv, NEW r \in Requests, NEW q, Ready(q), q.address, NEW cs, Left(r, cs),
         NEW gone, Spares(r, gone), Create(r, cs, gone, q), known' = known
  PROVE  SessionsInv'
<1> USE DEF SessionsInv
<1> DEFINE i == CHOOSE j \in Fresh : TRUE
           D == Prunable \cup gone
           n == [q EXCEPT !.at = "connecting", !.on = i, !.inner = FALSE]
<1>1. i \in Ids /\ clients[i] = "none"
  BY DEF Create, Fresh
<1>2. /\ clients' = [Disconnected(cs, D) EXCEPT ![i] = "connecting"]
      /\ requests' = [requests EXCEPT ![r] = n]
      /\ sessions' = sessions \ D /\ expired' = expired \ D
  BY DEF Create, Becomes
<1>3. Spares(r, D)
  BY Spared DEF Spares
<1> HIDE DEF i, D
<1>4. /\ n \in RequestType /\ n.at = "connecting" /\ n.on = i /\ n.inner = FALSE /\ ~n.failed
      /\ n.named = q.named /\ n.attempt = q.attempt /\ n.hits = q.hits /\ n.address
      /\ n.named \in known \cup {NoId} /\ (n.attempt = 2 => n.hits >= 1)
  BY <1>1 DEF RequestType, Ready
<1> HIDE DEF n
<1>5. \A j \in Waiting(r) : /\ j \in Ids /\ clients[j] = "connecting" /\ j \notin sessions
                            /\ \A p \in Requests \ {r} : Active(p) => requests[p].on # j
  BY WaitingIsOwn
<1>6. i \notin known \cup expired \cup sessions \cup D \cup Waiting(r)
  <2>1. i \notin known \cup expired \cup sessions
    BY <1>1 DEF Made, MapHolds
  <2>2. i \notin Waiting(r)
    BY <1>1, <1>5
  <2> QED
    BY <1>3, <2>1, <2>2 DEF Spares
<1>7. /\ requests'[r] = n /\ \A p \in Requests \ {r} : requests'[p] = requests[p]
      /\ requests' \in [Requests -> RequestType]
  BY <1>2, <1>4 DEF SessionsType
<1>8. /\ clients' \in [Ids -> States] /\ D \subseteq sessions /\ sessions \subseteq Ids
      /\ clients'[i] = "connecting"
      /\ \A j \in Ids \ {i} : clients'[j] = IF j \in D THEN "down" ELSE cs[j]
  BY <1>1, <1>2, <1>3 DEF SessionsType, Disconnected, Left, States, Spares
<1>9. /\ \A j \in Ids \ ({i} \cup Waiting(r)) : clients'[j] = IF j \in D THEN "down" ELSE clients[j]
      /\ \A j \in Waiting(r) : clients'[j] \in {"down", "leaked"}
  BY <1>5, <1>6, <1>8 DEF Left
<1>10. \A p \in Requests \ {r} :
         /\ Active(p)' = Active(p) /\ Own(p)' = Own(p)
         /\ Own(p) => requests[p].on \notin D \/ clients[requests[p].on] = "down"
         /\ Active(p) => requests[p].on \notin Waiting(r) /\ requests[p].on # i
  <2> SUFFICES ASSUME NEW p \in Requests \ {r}
               PROVE  /\ Active(p)' = Active(p) /\ Own(p)' = Own(p)
                      /\ Own(p) => requests[p].on \notin D \/ clients[requests[p].on] = "down"
                      /\ Active(p) => requests[p].on \notin Waiting(r) /\ requests[p].on # i
    OBVIOUS
  <2>1. Active(p) => requests[p].on # i
    BY <1>1, SessionsAssumption DEF Active, InUse, UseOf, SessionsType, RequestType
  <2> QED
    BY <1>3, <1>5, <1>7, <2>1 DEF Active, Own, Spares
<1>11. Active(r)' = TRUE /\ Own(r)' = TRUE
  BY <1>1, <1>4, <1>7, SessionsAssumption DEF Own, Active
<1>12. SessionsType'
  BY <1>2, <1>7, <1>8 DEF SessionsType
<1>13. MapHolds'
  <2> SUFFICES ASSUME NEW j \in Ids
               PROVE  /\ clients'[j] = "up" => j \in sessions'
                      /\ j \in sessions' => clients'[j] \in {"up", "down"}
    BY <1>2, <1>8 DEF MapHolds
  <2>1. CASE j \in {i} \cup Waiting(r)
    BY <1>2, <1>5, <1>6, <1>8, <1>9, <2>1
  <2>2. CASE j \notin {i} \cup Waiting(r)
    BY <1>2, <1>9, <2>2 DEF MapHolds
  <2> QED
    BY <2>1, <2>2
<1>14. InUse'
  <2> SUFFICES ASSUME NEW p \in Requests
               PROVE  UseOf(p)'
    BY DEF InUse
  <2>1. CASE p = r
    BY <1>1, <1>4, <1>7, <1>8, <2>1 DEF UseOf
  <2>2. CASE p # r
    <3>1. ASSUME requests[p].at = "connecting"
          PROVE  /\ requests[p].on \in Ids /\ ~requests[p].inner
                 /\ clients'[requests[p].on] = "connecting"
      <4>1. Own(p) /\ clients[requests[p].on] = "connecting" /\ requests[p].on \in Ids
        BY <3>1, SessionsAssumption DEF Own, Active, InUse, UseOf
      <4>2. requests[p].on \notin D /\ requests[p].on \notin {i} \cup Waiting(r)
        BY <1>10, <2>2, <4>1 DEF Own
      <4> QED
        BY <1>9, <4>1, <4>2 DEF Own
    <3>2. ASSUME requests[p].at = "running", requests[p].on # Endpoint
          PROVE  requests[p].on \in Ids /\ clients'[requests[p].on] \in {"up", "down"}
      <4>1. requests[p].on \in Ids /\ clients[requests[p].on] \in {"up", "down"} /\ Active(p)
        BY <3>2 DEF Active, InUse, UseOf
      <4> QED
        BY <1>9, <1>10, <2>2, <4>1
    <3>3. UseOf(p)
      BY DEF InUse
    <3> QED
      BY <1>7, <1>10, <2>2, <3>1, <3>2, <3>3 DEF UseOf
  <2> QED
    BY <2>1, <2>2
<1>15. Private'
  <2>1. ASSUME NEW p \in Requests \ {r}, Own(p)
        PROVE  /\ requests[p].on \notin known \cup expired
               /\ \A s \in Requests : s # p /\ Active(s)' => requests'[s].on # requests[p].on
    <3>1. requests'[r].on # requests[p].on
      BY <1>4, <1>7, <1>10, <2>1 DEF Own
    <3> QED
      BY <1>7, <1>10, <2>1, <3>1 DEF Private
  <2>2. /\ requests'[r].on \notin known \cup expired
        /\ \A s \in Requests : s # r /\ Active(s)' => requests'[s].on # requests'[r].on
    BY <1>4, <1>6, <1>7, <1>10
  <2> QED
    BY <1>2, <1>7, <1>10, <2>1, <2>2 DEF Private
<1>16. Made'
  <2> SUFFICES ASSUME NEW j \in known \cup expired
               PROVE  clients'[j] # "none"
    BY <1>2 DEF Made
  <2>1. clients[j] # "none" /\ j \in Ids /\ j # i
    BY <1>6 DEF Made, SessionsType
  <2> QED
    BY <1>9, <2>1
<1>17. Awaited'
  <2> SUFFICES ASSUME NEW j \in Ids, clients'[j] = "connecting"
               PROVE  \E p \in Requests : requests'[p].at = "connecting" /\ requests'[p].on = j
    BY DEF Awaited
  <2>1. CASE j = i
    BY <1>4, <1>7, <2>1
  <2>2. CASE j # i
    <3>1. clients[j] = "connecting" /\ j \notin Waiting(r)
      BY <1>9, <2>2
    <3>2. PICK p \in Requests : requests[p].at = "connecting" /\ requests[p].on = j
      BY <3>1 DEF Awaited
    <3>3. p # r
      BY <3>1, <3>2 DEF Waiting
    <3> QED
      BY <1>7, <3>2, <3>3
  <2> QED
    BY <2>1, <2>2
<1>18. Counted'
  <2> SUFFICES ASSUME NEW p \in Requests, Active(p)'
               PROVE  CountOf(p)'
    BY DEF Counted
  <2>1. CASE p = r
    BY <1>4, <1>7, <1>8, <2>1 DEF CountOf
  <2>2. CASE p # r
    <3>1. Active(p) /\ CountOf(p)
      BY <1>10, <2>2 DEF Counted
    <3>2. Own(p) => requests[p].on \in Ids \ {i}
      BY <1>10, <2>2, SessionsAssumption DEF Own, Active, InUse, UseOf, SessionsType, RequestType
    <3>3. Own(p) /\ clients'[requests[p].on] = "down" => clients[requests[p].on] = "down"
      BY <1>9, <1>10, <2>2, <3>1, <3>2
    <3> QED
      BY <1>7, <1>10, <2>2, <3>1, <3>3 DEF CountOf
  <2> QED
    BY <2>1, <2>2
<1>19. OthersDoNoHarm'
  BY <1>4, <1>7 DEF OthersDoNoHarm
<1> QED
  BY <1>12, <1>13, <1>14, <1>15, <1>16, <1>17, <1>18, <1>19

\* The answer 500.
LEMMA GiveUpKeeps ==
  ASSUME SessionsInv, NEW r \in Requests, NEW cs, Left(r, cs), NEW gone, Spares(r, gone),
         NEW q \in RequestType, NEW stale \in BOOLEAN, stale /\ q.address => q.hits >= 2,
         GiveUp(r, cs, gone, q, stale), known' = known
  PROVE  SessionsInv'
<1> DEFINE n == IF stale /\ q.address THEN [Idle EXCEPT !.hits = q.hits, !.failed = TRUE] ELSE Idle
<1>1. /\ requests' = [requests EXCEPT ![r] = n] /\ clients' = Disconnected(cs, gone)
      /\ sessions' = sessions \ gone /\ expired' = expired \ gone
  BY DEF GiveUp, Gone, Becomes
<1>2. n \in RequestType /\ n.at = "idle" /\ n.named = NoId /\ (n.failed => n.hits >= 2)
  <2>1. q.hits \in Nat
    BY DEF RequestType
  <2>2. CASE stale /\ q.address
    BY <2>1, <2>2 DEF Idle, RequestType
  <2>3. CASE ~(stale /\ q.address)
    BY <2>3 DEF Idle, RequestType
  <2> QED
    BY <2>2, <2>3
<1> HIDE DEF n
<1> QED
  BY <1>1, <1>2, GoesOn

\* A request without a session takes the endpoint's client or a new session, or
\* has nowhere to go.
LEMMA OtherKeeps ==
  ASSUME SessionsInv, NEW r \in Requests, NEW q, Ready(q), NEW cs, Left(r, cs),
         NEW gone, Spares(r, gone), UseOther(r, cs, gone, q), known' = known
  PROVE  SessionsInv'
<1>1. CASE q.address /\ Create(r, cs, gone, q)
  BY <1>1, NewSession
<1>2. CASE GiveUp(r, cs, gone, q, FALSE)
  BY <1>2, GiveUpKeeps DEF Ready
<1>3. ASSUME Gone(cs, gone), 
             Becomes(r, [q EXCEPT !.at = "running", !.on = Endpoint, !.inner = FALSE])
      PROVE  SessionsInv'
  <2> DEFINE n == [q EXCEPT !.at = "running", !.on = Endpoint, !.inner = FALSE]
  <2>1. /\ clients' = Disconnected(cs, gone) /\ sessions' = sessions \ gone
        /\ expired' = expired \ gone /\ requests' = [requests EXCEPT ![r] = n]
    BY <1>3 DEF Gone, Becomes
  <2>2. n \in RequestType /\ n.at = "running" /\ Ready(n) /\ n.on = Endpoint /\ ~n.inner
    BY DEF Ready, RequestType
  <2> HIDE DEF n
  <2> QED
    BY <2>1, <2>2, GoesOn
<1> QED
  BY <1>1, <1>2, <1>3 DEF UseOther

\* The second attempt: without the session, once a client of its own was lost.
LEMMA AgainKeeps ==
  ASSUME SessionsInv, NEW r \in Requests, NEW q \in RequestType, ~q.failed,
         q.address => q.hits >= 1, NEW cs, Left(r, cs),
         NEW gone, Spares(r, gone), Again(r, cs, gone, q), known' = known
  PROVE  SessionsInv'
<1>1. Ready([q EXCEPT !.named = NoId, !.attempt = 2])
  BY DEF Ready, RequestType
<1> QED
  BY <1>1, OtherKeeps DEF Again

\* The catch clause of withBrowseClient.
LEMMA InnerKeeps ==
  ASSUME SessionsInv, NEW r \in Requests, Waiting(r) = {}, NEW q, Ready(q),
         NEW gone, Spares(r, gone), InnerCatch(r, gone, q), known' = known
  PROVE  SessionsInv'
<1>1. Left(r, clients)
  BY DEF Left, SessionsInv, SessionsType
<1>2. CASE q.address /\ Create(r, clients, gone, q)
  BY <1>1, <1>2, NewSession
<1>3. CASE ~q.address /\ Again(r, clients, gone, q)
  BY <1>1, <1>3, AgainKeeps DEF Ready
<1> QED
  BY <1>2, <1>3 DEF InnerCatch

\* The record of every request that has not been answered is one that may go on.
LEMMA ActiveReady ==
  ASSUME SessionsInv, NEW r \in Requests, Active(r)
  PROVE  Ready(requests[r])
  BY DEF SessionsInv, SessionsType, InUse, UseOf, Counted, CountOf, Ready

\* The handler up to its first await.
LEMMA PostKeeps ==
  ASSUME SessionsInv, NEW r \in Requests, Post(r)
  PROVE  SessionsInv'
<1>1. PICK id \in known \cup {NoId}, address \in BOOLEAN, deployed \in BOOLEAN, roots \in BOOLEAN :
         LET q == [Idle EXCEPT !.named = id, !.address = address, !.deployed = deployed, !.roots = roots]
         IN  \/ id # NoId /\ UseNamed(r, q)
             \/ id = NoId /\ UseOther(r, clients, {}, q)
  BY DEF Post
<1>2. requests[r].at = "idle" /\ known' = known
  BY DEF Post
<1> DEFINE q == [Idle EXCEPT !.named = id, !.address = address, !.deployed = deployed, !.roots = roots]
<1>3. id \in Ids \cup {NoId}
  BY DEF SessionsInv, SessionsType
<1>4. q \in RequestType /\ q.named = id /\ q.attempt = 1 /\ ~q.failed
  BY <1>3 DEF Idle, RequestType
<1>5. Waiting(r) = {} /\ Left(r, clients)
  BY <1>2 DEF Waiting, Left, SessionsInv, SessionsType
<1>6. Ready(q)
  BY <1>4 DEF Ready
<1>7. (id # NoId /\ UseNamed(r, q)) \/ (id = NoId /\ UseOther(r, clients, {}, q))
  BY <1>1
<1> HIDE DEF q
<1>8. Spares(r, {}) /\ Spares(r, Prunable)
  BY Spared
<1>9. CASE UseOther(r, clients, {}, q)
  BY <1>2, <1>5, <1>6, <1>8, <1>9, OtherKeeps
<1>10. CASE InnerCatch(r, Prunable, q)
  BY <1>2, <1>5, <1>6, <1>8, <1>10, InnerKeeps
<1>11. CASE id # NoId /\ UseNamed(r, q) /\ ~ InnerCatch(r, Prunable, q)
  <2> DEFINE n == [q EXCEPT !.at = "running", !.on = q.named, !.inner = TRUE]
  <2>1. /\ q.named \in sessions \ Prunable /\ requests' = [requests EXCEPT ![r] = n]
        /\ clients' = Disconnected(clients, Prunable) /\ sessions' = sessions \ Prunable
        /\ expired' = expired \ Prunable
    BY <1>11 DEF UseNamed, Prune, Becomes
  <2>2. /\ n \in RequestType /\ n.at = "running" /\ n.on = id /\ n.named = id
        /\ n.inner = TRUE /\ n.attempt = 1 /\ n.failed = q.failed
    BY <1>3, <1>4 DEF RequestType
  <2>3. Ready(n)
    BY <1>4, <2>2 DEF Ready
  <2> HIDE DEF n
  <2>4. id \in known \cap sessions
    BY <1>4, <1>11, <2>1
  <2> QED
    BY <1>2, <1>5, <1>8, <2>1, <2>2, <2>3, <2>4, GoesOn
<1> QED
  BY <1>7, <1>9, <1>10, <1>11 DEF UseNamed

\* The two layers of retry, withBrowseClient and handleBrowseRequest.
LEMMA CaughtKeeps ==
  ASSUME SessionsInv, NEW r \in Requests, NEW q, Ready(q), Waiting(r) = {},
         q.address /\ ~q.inner => q.hits >= q.attempt, Caught(r, q), known' = known
  PROVE  SessionsInv'
<1>1. Left(r, clients) /\ Spares(r, Replaced(r)) /\ Spares(r, {})
  BY Spared DEF Left, SessionsInv, SessionsType
<1>2. CASE q.inner /\ InnerRetry(r, q)
  BY <1>1, <1>2, InnerKeeps DEF InnerRetry
<1>3. CASE ~q.inner /\ q.attempt = 1 /\ OuterRetry(r, clients, q)
  BY <1>1, <1>3, AgainKeeps DEF OuterRetry, Ready
<1>4. CASE ~q.inner /\ q.attempt = 2 /\ GiveUp(r, clients, {}, q, TRUE)
  BY <1>1, <1>4, GiveUpKeeps DEF Ready
<1> QED
  BY <1>2, <1>3, <1>4 DEF Caught

\* A request that has been hit is as it was but for the number of hits.
LEMMA HitKeeps ==
  ASSUME SessionsInv, NEW r \in Requests, Active(r), NEW k \in {0, 1}
  PROVE  /\ Ready(Hit(r, k)) /\ Hit(r, k).hits = requests[r].hits + k
         /\ Hit(r, k).attempt = requests[r].attempt /\ Hit(r, k).inner = requests[r].inner
         /\ Hit(r, k).address = requests[r].address
         /\ requests[r].hits \in Nat /\ requests[r].attempt \in {1, 2}
         /\ requests[r].address /\ requests[r].attempt = 2 => requests[r].hits >= 1
<1>1. Ready(requests[r])
  BY ActiveReady
<1>2. Hit(r, k) = [requests[r] EXCEPT !.hits = requests[r].hits + k]
  BY DEF Hit
<1>3. requests[r] \in RequestType /\ requests[r].hits \in Nat /\ requests[r].hits + k \in Nat
  BY <1>1 DEF Ready, RequestType
<1> QED
  BY <1>1, <1>2, <1>3 DEF Ready, RequestType

\* A request whose connection, whose send or whose reply fails.
LEMMA FailuresKeep ==
  ASSUME SessionsInv, NEW r \in Requests, Rejected(r) \/ SendFails(r) \/ ConnectFails(r)
  PROVE  SessionsInv'
<1>1. CASE Rejected(r)
  <2>1. requests[r].at = "running" /\ Caught(r, Hit(r, 0)) /\ known' = known
    BY <1>1 DEF Rejected
  <2>2. Active(r) /\ Waiting(r) = {}
    BY <2>1 DEF Active, Waiting
  <2>3. ~requests[r].inner => requests[r].hits >= requests[r].attempt
    BY <1>1, <2>2 DEF Rejected, Own, SessionsInv, Counted, CountOf
  <2>4. /\ Ready(Hit(r, 0))
        /\ Hit(r, 0).address /\ ~Hit(r, 0).inner => Hit(r, 0).hits >= Hit(r, 0).attempt
    BY <2>2, <2>3, HitKeeps
  <2> QED
    BY <2>1, <2>2, <2>4, CaughtKeeps
<1>2. CASE SendFails(r)
  <2>1. requests[r].at = "running" /\ Caught(r, Hit(r, 1)) /\ known' = known
    BY <1>2 DEF SendFails
  <2>2. Active(r) /\ Waiting(r) = {}
    BY <2>1 DEF Active, Waiting
  <2>3. /\ Ready(Hit(r, 1))
        /\ Hit(r, 1).address /\ ~Hit(r, 1).inner => Hit(r, 1).hits >= Hit(r, 1).attempt
    BY <2>2, HitKeeps
  <2> QED
    BY <2>1, <2>2, <2>3, CaughtKeeps
<1>3. CASE ConnectFails(r)
  <2>1. requests[r].at = "connecting" /\ known' = known
    BY <1>3 DEF ConnectFails
  <2>2. Active(r)
    BY <2>1 DEF Active
  <2>3. PICK left \in {"down", "leaked"} :
          LET cs == [clients EXCEPT ![requests[r].on] = left]
              q  == Hit(r, 1)
          IN  \/ q.attempt = 1 /\ OuterRetry(r, cs, q)
              \/ q.attempt = 2 /\ GiveUp(r, cs, {}, q, TRUE)
              \/ GiveUp(r, cs, {}, q, FALSE)
    BY <1>3 DEF ConnectFails
  <2> DEFINE cs == [clients EXCEPT ![requests[r].on] = left]
             q  == Hit(r, 1)
  <2>4. Left(r, cs)
    BY <2>1 DEF Left, Waiting, SessionsInv, SessionsType, InUse, UseOf, States
  <2>5. /\ Ready(q) /\ q \in RequestType /\ ~q.failed /\ q.hits >= 1
        /\ q.address /\ q.attempt = 2 => q.hits >= 2
    BY <2>2, HitKeeps DEF Ready
  <2>6. Spares(r, {}) /\ Spares(r, Replaced(r))
    BY Spared
  <2>7. \/ q.attempt = 1 /\ OuterRetry(r, cs, q)
        \/ q.attempt = 2 /\ GiveUp(r, cs, {}, q, TRUE)
        \/ GiveUp(r, cs, {}, q, FALSE)
    BY <2>3
  <2> HIDE DEF cs, q
  <2>8. CASE OuterRetry(r, cs, q)
    BY <2>1, <2>4, <2>5, <2>6, <2>8, AgainKeeps DEF OuterRetry
  <2>9. CASE q.attempt = 2 /\ GiveUp(r, cs, {}, q, TRUE)
    BY <2>1, <2>4, <2>5, <2>6, <2>9, GiveUpKeeps
  <2>10. CASE GiveUp(r, cs, {}, q, FALSE)
    BY <2>1, <2>4, <2>5, <2>6, <2>10, GiveUpKeeps
  <2> QED
    BY <2>7, <2>8, <2>9, <2>10
<1> QED
  BY <1>1, <1>2, <1>3

\* connect resolves and the session goes into the map.
LEMMA ConnectedKeeps ==
  ASSUME SessionsInv, NEW r \in Requests, Connected(r)
  PROVE  SessionsInv'
<1> USE DEF SessionsInv
<1> DEFINE i == requests[r].on
           n == [requests[r] EXCEPT !.at = "running"]
<1>1. /\ requests[r].at = "connecting" /\ clients' = [Disconnected(clients, Prunable) EXCEPT ![i] = "up"]
      /\ sessions' = (sessions \ Prunable) \cup {i} /\ expired' = expired \ Prunable
      /\ requests' = [requests EXCEPT ![r] = n] /\ known' = known
  BY DEF Connected, Becomes
<1>2. /\ i \in Ids /\ clients[i] = "connecting" /\ ~requests[r].inner /\ i # Endpoint
      /\ requests[r].named \in known \cup {NoId} /\ Active(r) /\ Own(r) /\ CountOf(r)
      /\ requests[r] \in RequestType
  BY <1>1, SessionsAssumption DEF InUse, UseOf, Own, Active, Counted, SessionsType
<1>3. /\ n \in RequestType /\ n.at = "running" /\ n.on = i /\ n.inner = FALSE
      /\ n.named = requests[r].named /\ n.attempt = requests[r].attempt
      /\ n.hits = requests[r].hits /\ n.failed = requests[r].failed
      /\ n.address = requests[r].address
  BY <1>2 DEF RequestType
<1>4. Spares(r, Prunable) /\ Prunable \subseteq sessions /\ sessions \subseteq Ids
  BY Spared DEF Prunable, SessionsType
<1> HIDE DEF i, n
<1>5. /\ requests'[r] = n /\ \A p \in Requests \ {r} : requests'[p] = requests[p]
      /\ clients'[i] = "up"
      /\ \A j \in Ids \ {i} : clients'[j] = IF j \in Prunable THEN "down" ELSE clients[j]
      /\ requests' \in [Requests -> RequestType]
      /\ clients' \in [Ids -> States]
  BY <1>1, <1>2, <1>3 DEF States, SessionsType, Disconnected
<1>6. i \notin known \cup expired /\ i \notin sessions
  BY <1>2 DEF Private, MapHolds, i
<1>7. ASSUME NEW p \in Requests \ {r}, Active(p)
      PROVE  requests[p].on # i
  BY <1>2, <1>7 DEF Private, i
<1>8. \A p \in Requests \ {r} :
        /\ Active(p)' = Active(p) /\ Own(p)' = Own(p)
        /\ Own(p) => requests[p].on \notin Prunable \/ clients[requests[p].on] = "down"
  BY <1>4, <1>5 DEF Active, Own, Spares
<1>9. SessionsType'
  BY <1>1, <1>2, <1>5 DEF SessionsType
<1>10. MapHolds'
  BY <1>1, <1>2, <1>4, <1>5 DEF MapHolds, SessionsType
<1>11. InUse'
  <2> SUFFICES ASSUME NEW p \in Requests
               PROVE  UseOf(p)'
    BY DEF InUse
  <2>1. CASE p = r
    BY <1>1, <1>2, <1>3, <1>5, <2>1 DEF UseOf
  <2>2. CASE p # r
    <3>1. requests[p].at = "connecting" => requests[p].on \notin Prunable
      BY <1>4 DEF InUse, UseOf, MapHolds
    <3> QED
      BY <1>1, <1>5, <1>7, <1>8, <2>2, <3>1 DEF InUse, UseOf, Active
  <2> QED
    BY <2>1, <2>2
<1>12. Private'
  <2>1. ASSUME NEW p \in Requests \ {r}, Own(p)
        PROVE  /\ requests[p].on \notin known \cup expired
               /\ \A s \in Requests : s # p /\ Active(s)' => requests'[s].on # requests[p].on
    <3>1. requests'[r].on # requests[p].on
      BY <1>3, <1>5, <1>7, <2>1 DEF Own
    <3> QED
      BY <1>5, <1>8, <2>1, <3>1 DEF Private
  <2>2. /\ requests'[r].on \notin known \cup expired
        /\ \A s \in Requests : s # r /\ Active(s)' => requests'[s].on # requests'[r].on
    BY <1>3, <1>5, <1>6, <1>7, <1>8
  <2> QED
    BY <1>1, <1>5, <1>8, <2>1, <2>2 DEF Private
<1>13. Made'
  BY <1>1, <1>5, <1>6 DEF Made, SessionsType
<1>14. Awaited'
  <2> SUFFICES ASSUME NEW j \in Ids, clients'[j] = "connecting"
               PROVE  \E p \in Requests : requests'[p].at = "connecting" /\ requests'[p].on = j
    BY DEF Awaited
  <2>1. j # i /\ clients[j] = "connecting"
    BY <1>5
  <2>2. PICK p \in Requests : requests[p].at = "connecting" /\ requests[p].on = j
    BY <2>1 DEF Awaited
  <2> QED
    BY <1>5, <2>1, <2>2 DEF i
<1>15. Counted'
  <2> SUFFICES ASSUME NEW p \in Requests, Active(p)'
               PROVE  CountOf(p)'
    BY DEF Counted
  <2>1. CASE p = r
    BY <1>2, <1>3, <1>5, <2>1 DEF CountOf
  <2>2. CASE p # r
    <3>1. Own(p) => requests[p].on \in Ids \ {i}
      BY <1>7, <2>2, SessionsAssumption DEF Own, Active, InUse, UseOf, SessionsType, RequestType
    <3> QED
      BY <1>5, <1>8, <2>2, <3>1 DEF Counted, CountOf
  <2> QED
    BY <2>1, <2>2
<1>16. OthersDoNoHarm'
  BY <1>2, <1>3, <1>5 DEF OthersDoNoHarm, CountOf
<1> QED
  BY <1>9, <1>10, <1>11, <1>12, <1>13, <1>14, <1>15, <1>16

\* The answer 200, with which the browser learns of the session.
LEMMA AnsweredKeeps ==
  ASSUME SessionsInv, NEW r \in Requests, Answered(r)
  PROVE  SessionsInv'
<1> USE DEF SessionsInv
<1>1. /\ UNCHANGED <<clients, sessions, expired>> /\ requests[r].at = "running"
      /\ requests' = [requests EXCEPT ![r] = Idle]
      /\ \/ known' = known
         \/ /\ requests[r].on # Endpoint /\ clients[requests[r].on] = "up"
            /\ known' = known \cup {requests[r].on}
  BY DEF Answered, Becomes
<1>2. /\ Idle \in RequestType /\ Idle.at = "idle" /\ Idle.named = NoId /\ ~Idle.failed
  BY DEF Idle, RequestType
<1>3. /\ requests'[r] = Idle /\ \A p \in Requests \ {r} : requests'[p] = requests[p]
      /\ requests' \in [Requests -> RequestType]
  BY <1>1, <1>2 DEF SessionsType
<1>4. /\ Active(r) /\ requests[r].on \in Ids \cup {Endpoint}
  BY <1>1 DEF Active, InUse, UseOf
<1>5. /\ \A p \in Requests \ {r} : Active(p)' = Active(p) /\ Own(p)' = Own(p)
      /\ Active(r)' = FALSE /\ Own(r)' = FALSE
  BY <1>2, <1>3 DEF Active, Own
<1>6. SessionsType'
  BY <1>1, <1>3, <1>4 DEF SessionsType
<1>7. MapHolds' /\ Made'
  BY <1>1 DEF MapHolds, Made
<1>8. InUse'
  <2> SUFFICES ASSUME NEW p \in Requests
               PROVE  UseOf(p)'
    BY DEF InUse
  <2>1. CASE p = r
    BY <1>2, <1>3, <1>5, <2>1 DEF UseOf
  <2>2. CASE p # r
    BY <1>1, <1>3, <1>5, <2>2 DEF InUse, UseOf
  <2> QED
    BY <2>1, <2>2
<1>9. Private'
  <2> SUFFICES ASSUME NEW p \in Requests \ {r}, Own(p)
               PROVE  /\ requests[p].on \notin known' \cup expired
                      /\ \A s \in Requests \ {r} :
                           s # p /\ Active(s) => requests[s].on # requests[p].on
    BY <1>1, <1>3, <1>5 DEF Private
  <2> QED
    BY <1>1, <1>4 DEF Private
<1>10. Awaited'
  BY <1>1, <1>3 DEF Awaited
<1>11. Counted' /\ OthersDoNoHarm'
  BY <1>1, <1>2, <1>3, <1>5 DEF Counted, CountOf, OthersDoNoHarm
<1> QED
  BY <1>6, <1>7, <1>8, <1>9, <1>10, <1>11

\* A connection is lost under the requests that run on it.
LEMMA ClientLostKeeps ==
  ASSUME SessionsInv, NEW i \in Ids, ClientLost(i)
  PROVE  SessionsInv'
<1> USE DEF SessionsInv
<1>1. /\ UNCHANGED <<sessions, expired, known>> /\ clients[i] = "up"
      /\ clients' = [clients EXCEPT ![i] = "down"]
      /\ requests' = [r \in Requests |->
           IF requests[r].at = "running" /\ requests[r].on = i
           THEN [requests[r] EXCEPT !.hits = @ + 1] ELSE requests[r]]
  BY DEF ClientLost
<1>2. ASSUME NEW p \in Requests
      PROVE  /\ requests'[p] \in RequestType
             /\ requests'[p].at = requests[p].at /\ requests'[p].named = requests[p].named
             /\ requests'[p].on = requests[p].on /\ requests'[p].inner = requests[p].inner
             /\ requests'[p].attempt = requests[p].attempt
             /\ requests'[p].failed = requests[p].failed
             /\ requests'[p].address = requests[p].address
             /\ requests[p].hits \in Nat /\ requests'[p].hits \in Nat
             /\ requests'[p].hits >= requests[p].hits
             /\ requests[p].at = "running" /\ requests[p].on = i =>
                  requests'[p].hits = requests[p].hits + 1
             /\ requests[p].attempt \in {1, 2}
  <2>1. requests[p] \in RequestType
    BY DEF SessionsType
  <2>2. CASE requests[p].at = "running" /\ requests[p].on = i
    <3>1. requests'[p] = [requests[p] EXCEPT !.hits = requests[p].hits + 1]
      BY <1>1, <2>2
    <3> QED
      BY <2>1, <2>2, <3>1 DEF RequestType
  <2>3. CASE ~ (requests[p].at = "running" /\ requests[p].on = i)
    <3>1. requests'[p] = requests[p]
      BY <1>1, <2>3
    <3> QED
      BY <2>1, <2>3, <3>1 DEF RequestType
  <2> QED
    BY <2>2, <2>3
<1>3. /\ clients'[i] = "down" /\ \A j \in Ids \ {i} : clients'[j] = clients[j]
      /\ clients' \in [Ids -> States]
  BY <1>1 DEF States, SessionsType
<1>4. \A p \in Requests : Active(p)' = Active(p) /\ Own(p)' = Own(p)
  BY <1>2 DEF Active, Own
<1>5. SessionsType'
  BY <1>1, <1>2, <1>3 DEF SessionsType
<1>6. MapHolds' /\ Made'
  BY <1>1, <1>3 DEF MapHolds, Made, SessionsType
<1>7. InUse'
  <2> SUFFICES ASSUME NEW p \in Requests
               PROVE  UseOf(p)'
    BY DEF InUse
  <2> QED
    BY <1>1, <1>2, <1>3, <1>4 DEF InUse, UseOf
<1>8. Private'
  BY <1>1, <1>2, <1>4 DEF Private
<1>9. Awaited'
  BY <1>1, <1>2, <1>3 DEF Awaited
<1>10. Counted'
  <2> SUFFICES ASSUME NEW p \in Requests, Active(p)
               PROVE  CountOf(p)'
    BY <1>4 DEF Counted
  <2>1. CountOf(p)
    BY DEF Counted
  <2>2. Own(p) => requests[p].on \in Ids
    BY SessionsAssumption DEF Own, Active, InUse, UseOf, SessionsType, RequestType
  <2>3. CASE Own(p) /\ requests[p].on = i
    <3>1. requests[p].at = "running"
      BY <1>1, <2>3 DEF Own, Active, InUse, UseOf, SessionsType, RequestType
    <3> QED
      BY <1>2, <2>1, <2>3, <3>1 DEF CountOf
  <2>4. CASE ~ (Own(p) /\ requests[p].on = i)
    BY <1>2, <1>3, <1>4, <2>1, <2>2, <2>4 DEF CountOf
  <2> QED
    BY <2>3, <2>4
<1>11. OthersDoNoHarm'
  BY <1>2 DEF OthersDoNoHarm
<1> QED
  BY <1>5, <1>6, <1>7, <1>8, <1>9, <1>10, <1>11

\* A session's time to live ends.
LEMMA ExpiresKeeps ==
  ASSUME SessionsInv, NEW i \in Ids, Expires(i)
  PROVE  SessionsInv'
<1> USE DEF SessionsInv
<1>1. /\ UNCHANGED <<clients, sessions, known, requests>> /\ i \in sessions
      /\ expired' = expired \cup {i}
      /\ \A r \in Requests : requests[r].at = "running" => requests[r].on # i
  BY DEF Expires
<1>2. \A p \in Requests : Active(p)' = Active(p) /\ Own(p)' = Own(p)
  BY <1>1 DEF Active, Own
<1>3. SessionsType' /\ MapHolds' /\ Awaited' /\ OthersDoNoHarm'
  BY <1>1 DEF SessionsType, MapHolds, Awaited, OthersDoNoHarm
<1>4. InUse' /\ Counted'
  BY <1>1, <1>2 DEF InUse, UseOf, Counted, CountOf
<1>5. Made'
  BY <1>1 DEF Made, MapHolds
<1>6. Private'
  <2> SUFFICES ASSUME NEW p \in Requests, Own(p)
               PROVE  requests[p].on # i
    BY <1>1, <1>2 DEF Private
  <2> QED
    BY <1>1 DEF Own, Active, InUse, UseOf, MapHolds, SessionsType, RequestType
<1> QED
  BY <1>3, <1>4, <1>5, <1>6

-----------------------------------------------------------------------------
(* The sessions: the theorems *)

\* At the start there is no session and no request.
LEMMA InitSessions ==
  ASSUME SessionsInit
  PROVE  SessionsInv
<1>1. /\ Idle \in RequestType /\ Idle.at = "idle" /\ Idle.named = NoId /\ ~Idle.failed
  BY DEF Idle, RequestType
<1>2. \A r \in Requests : requests[r] = Idle
  BY DEF SessionsInit
<1>3. SessionsType
  BY <1>1 DEF States, SessionsInit, SessionsType
<1>4. MapHolds /\ Made /\ Awaited
  BY DEF SessionsInit, MapHolds, Made, Awaited
<1>5. InUse /\ Private /\ Counted /\ OthersDoNoHarm
  BY <1>1, <1>2 DEF InUse, UseOf, Active, Private, Own, Counted, OthersDoNoHarm
<1> QED
  BY <1>3, <1>4, <1>5 DEF SessionsInv

\* Every step keeps the invariant.
LEMMA NextSessions ==
  ASSUME SessionsInv, [SessionsNext]_sessionVars
  PROVE  SessionsInv'
<1>1. ASSUME NEW r \in Requests,
             \/ Post(r) \/ Connected(r) \/ Answered(r)
             \/ Rejected(r) \/ SendFails(r) \/ ConnectFails(r)
      PROVE  SessionsInv'
  BY <1>1, PostKeeps, ConnectedKeeps, AnsweredKeeps, FailuresKeep
<1>2. ASSUME NEW i \in Ids, ClientLost(i) \/ Expires(i)
      PROVE  SessionsInv'
  BY <1>2, ClientLostKeeps, ExpiresKeeps
<1>3. CASE UNCHANGED sessionVars
  BY <1>3 DEF sessionVars, SessionsInv, SessionsType, MapHolds, InUse, UseOf, Active, Own,
     Private, Made, Awaited, Counted, CountOf, OthersDoNoHarm
<1> QED
  BY <1>1, <1>2, <1>3 DEF SessionsNext

\* Every reachable state satisfies the invariant.
THEOREM SessionsInvariant == SessionsSpec => []SessionsInv
  BY InitSessions, NextSessions, PTL DEF SessionsSpec

\* A client that is being connected belongs to exactly one request, and one
\* that is connected is in the map, where a later sweep finds it, whatever is
\* swept, replaced and retried, and whatever a failed connect() leaves behind
\* (pruneEphemeralSessions, withBrowseClient).
THEOREM ClientsAreOwned == SessionsSpec => []SessionsOwnClients
<1>1. SessionsInv => SessionsOwnClients
  <2> SUFFICES ASSUME SessionsInv, NEW i \in Ids, clients[i] = "connecting"
               PROVE  Cardinality({r \in Requests :
                        requests[r].at = "connecting" /\ requests[r].on = i}) = 1
    BY DEF SessionsOwnClients, SessionsInv, MapHolds
  <2> DEFINE R == {r \in Requests : requests[r].at = "connecting" /\ requests[r].on = i}
  <2>1. PICK r \in Requests : requests[r].at = "connecting" /\ requests[r].on = i
    BY DEF SessionsInv, Awaited
  <2>2. \A q \in R : q = r
    BY <2>1, SessionsAssumption DEF SessionsInv, InUse, UseOf, Private, Own, Active
  <2>3. R = {r}
    BY <2>1, <2>2
  <2> HIDE DEF R
  <2>4. Cardinality(R) = 1
    BY <2>3, FS_Singleton
  <2> QED
    BY <2>4 DEF R
<1> QED
  BY <1>1, SessionsInvariant, PTL

\* However many requests share the sessions, and whatever they name, sweep and
\* replace, a request fails with a stale error only after two connections were
\* lost under it (withBrowseClient, handleBrowseRequest).
THEOREM NoHarm == SessionsSpec => []OthersDoNoHarm
<1>1. SessionsInv => OthersDoNoHarm
  BY DEF SessionsInv
<1> QED
  BY <1>1, SessionsInvariant, PTL
=============================================================================
