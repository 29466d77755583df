--------------------------- MODULE BrowseSessions ---------------------------
(***************************************************************************)
(* The editor's browse requests (POST /s7complus/browse/...) and the       *)
(* connections they use: the client of a deployed endpoint, or an          *)
(* ephemeral session that lives in a map until its time to live ends or    *)
(* its client is lost.  A request that meets a stale connection is tried   *)
(* again by withBrowseClient on a session of its own and then by           *)
(* handleBrowseRequest from the beginning.                                 *)
(*                                                                         *)
(* A session id stands for the client of the session, from the moment the  *)
(* client begins to connect.  Timers do not exist here: a session is       *)
(* looked at only when some request prunes the map.  Nobody disconnects a  *)
(* client whose connect() has failed: before it counts as connected, its   *)
(* socket may stay open (ClientSession), and has leaked.                   *)
(***************************************************************************)
EXTENDS Integers, FiniteSets

CONSTANTS
  Requests,   \* HTTP requests the editor may have open
  Ids,        \* bound: ephemeral sessions ever made
  NoId,       \* browseSessionId is null
  Endpoint,   \* the client of the deployed endpoint
  MaxFaults   \* bound: failures that come from the PLC or the network

ASSUME SessionsAssumption ==
  /\ IsFiniteSet(Requests) /\ IsFiniteSet(Ids) /\ MaxFaults \in Nat
  /\ NoId \notin Ids /\ Endpoint \notin Ids /\ NoId # Endpoint

VARIABLES
  clients,    \* clients[i]: "none", "connecting", "up", "down" or "leaked"
  sessions,   \* ephemeralBrowseSessions: the ids in the map
  expired,    \* sessions whose expires is past
  known,      \* ids the editor has been told
  requests,   \* requests[r]: what request r is doing
  faults      \* failures so far

sessionVars == <<clients, sessions, expired, known, requests, faults>>

\* at: "idle", "connecting" or "running"; named: body.browseSessionId; address:
\* body.address; deployed: body.id is a deployed endpoint; on: the client in
\* use; inner: the try block of withBrowseClient is still around the request;
\* attempt: of handleBrowseRequest; hits: failures of the request's own
\* connections, and failed: it had an address and ended in a stale error
\* (history).
Idle == [at |-> "idle", named |-> NoId, address |-> FALSE, deployed |-> FALSE, roots |-> FALSE,
         on |-> NoId, inner |-> FALSE, attempt |-> 1, hits |-> 0, failed |-> FALSE]

SessionsInit ==
  /\ clients = [i \in Ids |-> "none"] /\ sessions = {} /\ expired = {} /\ known = {}
  /\ requests = [r \in Requests |-> Idle] /\ faults = 0

-----------------------------------------------------------------------------
(* The map of sessions *)

\* sess.dead: the client has emitted 'disconnect'.
Dead(i) == clients[i] = "down"

\* forceDisconnect() of the clients of is, where cs says how the clients are.
Disconnected(cs, is) == [i \in Ids |-> IF i \in is THEN "down" ELSE cs[i]]

\* pruneEphemeralSessions(): what it takes from the map.
Prunable == {i \in sessions : i \in expired \/ Dead(i)}

\* Mutant: a pruned session is deleted without a word to its client.
Prune_KeepsClient == clients' = clients /\ sessions' = sessions \ Prunable

\* pruneEphemeralSessions().
Prune == clients' = Disconnected(clients, Prunable) /\ sessions' = sessions \ Prunable

Fresh == {i \in Ids : clients[i] = "none"}

Becomes(r, q) == requests' = [requests EXCEPT ![r] = q]

\* A catch clause or a prune has disconnected the sessions gone and has deleted
\* them from the map.
Gone(cs, gone) ==
  clients' = Disconnected(cs, gone) /\ sessions' = sessions \ gone /\ expired' = expired \ gone

\* createEphemeralBrowseSession() of request q to its await, after the sessions gone.
Create(r, cs, gone, q) ==
  /\ Fresh # {}
  /\ LET i == CHOOSE i \in Fresh : TRUE
     IN  /\ clients' = [Disconnected(cs, Prunable \cup gone) EXCEPT ![i] = "connecting"]
         /\ Becomes(r, [q EXCEPT !.at = "connecting", !.on = i, !.inner = FALSE])
  /\ sessions' = sessions \ (Prunable \cup gone)
  /\ expired' = expired \ (Prunable \cup gone)

\* res.status(500).
GiveUp(r, cs, gone, q, stale) ==
  /\ Becomes(r, IF stale /\ q.address THEN [Idle EXCEPT !.hits = q.hits, !.failed = TRUE] ELSE Idle)
  /\ Gone(cs, gone)

\* withBrowseClient() without a session id; nothing is to be had for a request
\* that has no address.
UseOther(r, cs, gone, q) ==
  \/ /\ q.deployed /\ Gone(cs, gone)
     /\ Becomes(r, [q EXCEPT !.at = "running", !.on = Endpoint, !.inner = FALSE])
  \/ ~q.deployed /\ q.address /\ Create(r, cs, gone, q)
  \/ ~q.deployed /\ ~q.address /\ GiveUp(r, cs, gone, q, FALSE)

\* The second attempt of handleBrowseRequest, without the session.
Again(r, cs, gone, q) == UseOther(r, cs, gone, [q EXCEPT !.named = NoId, !.attempt = 2])

\* The catch of withBrowseClient: another session for the request, or the error
\* goes on to handleBrowseRequest.
InnerCatch(r, gone, q) ==
  \/ q.address /\ Create(r, clients, gone, q)
  \/ ~q.address /\ Again(r, clients, gone, q)

\* withBrowseClient() with a session id.
UseNamed(r, q) ==
  LET usable == q.named \in sessions \ Prunable
  IN  \/ /\ usable
         /\ Prune /\ expired' = expired \ Prunable
         /\ Becomes(r, [q EXCEPT !.at = "running", !.on = q.named, !.inner = TRUE])
      \/ ~usable /\ InnerCatch(r, Prunable, q)

-----------------------------------------------------------------------------
(* Requests *)

\* The editor posts a request, with a session it has been told of or without.
Post(r) ==
  /\ requests[r].at = "idle"
  /\ \E id \in known \cup {NoId}, address, deployed, roots \in BOOLEAN :
       LET q == [Idle EXCEPT !.named = id, !.address = address, !.deployed = deployed, !.roots = roots]
       IN  \/ id # NoId /\ UseNamed(r, q)
           \/ id = NoId /\ UseOther(r, clients, {}, q)
  /\ UNCHANGED <<known, faults>>

\* The client is connected: its session enters the map and is looked up.
Connected(r) ==
  /\ requests[r].at = "connecting"
  /\ LET i == requests[r].on
     IN  /\ clients' = [Disconnected(clients, Prunable) EXCEPT ![i] = "up"]
         /\ sessions' = (sessions \ Prunable) \cup {i}
  /\ expired' = expired \ Prunable
  /\ Becomes(r, [requests[r] EXCEPT !.at = "running"])
  /\ UNCHANGED <<known, faults>>

\* res.json(): only the answer of handleBrowseRoots names the session.  The
\* other answers, and the errors that are not stale connections, need no
\* connection that works.
Answered(r) ==
  LET q == requests[r]
  IN  /\ q.at = "running"
      /\ q.roots /\ q.on # Endpoint => clients[q.on] = "up"
      /\ known' = IF q.roots /\ q.on # Endpoint THEN known \cup {q.on} ELSE known
      /\ Becomes(r, Idle)
      /\ UNCHANGED <<clients, sessions, expired, faults>>

\* The session the request names, if it is still in the map.
Replaced(r) == {requests[r].named} \cap sessions

\* Mutant: the error of a replaced session goes to the editor.
InnerRetry_Missing(r, q) == GiveUp(r, clients, {}, q, TRUE)

\* A stale error that the catch of withBrowseClient gets.
InnerRetry(r, q) == InnerCatch(r, Replaced(r), q)

\* One that the catch of handleBrowseRequest gets.
OuterRetry(r, cs, q) == Again(r, cs, Replaced(r), q)

\* Request r after that many failures of its own connections.
Hit(r, hits) == [requests[r] EXCEPT !.hits = @ + hits]

\* A stale error of request r: what catches it.
Caught(r, q) ==
  \/ q.inner /\ InnerRetry(r, q)
  \/ ~q.inner /\ q.attempt = 1 /\ OuterRetry(r, clients, q)
  \/ ~q.inner /\ q.attempt = 2 /\ GiveUp(r, clients, {}, q, TRUE)

\* What the request waits for is rejected because its client has been
\* disconnected, by the PLC or by another request.
Rejected(r) ==
  /\ requests[r].at = "running" /\ requests[r].on # Endpoint /\ clients[requests[r].on] = "down"
  /\ Caught(r, Hit(r, 0))
  /\ UNCHANGED <<known, faults>>

\* transport.send() throws, or the endpoint's connection is lost: the request
\* meets a stale error, and no client of a session has reported anything.
SendFails(r) ==
  /\ requests[r].at = "running" /\ faults < MaxFaults /\ faults' = faults + 1
  /\ requests[r].on # Endpoint => clients[requests[r].on] = "up"
  /\ Caught(r, Hit(r, 1))
  /\ UNCHANGED known

\* client.connect() fails, with a stale error (a response timeout) or another
\* one, and with its socket closed (by the other side, or by connect() itself
\* once it has counted as connected) or not.
ConnectFails(r) ==
  /\ requests[r].at = "connecting" /\ faults < MaxFaults /\ faults' = faults + 1
  /\ UNCHANGED known
  /\ \E left \in {"down", "leaked"} :
       LET cs == [clients EXCEPT ![requests[r].on] = left]
           q  == Hit(r, 1)
       IN  \/ q.attempt = 1 /\ OuterRetry(r, cs, q)
           \/ q.attempt = 2 /\ GiveUp(r, cs, {}, q, TRUE)
           \/ GiveUp(r, cs, {}, q, FALSE)

-----------------------------------------------------------------------------
(* The rest of the world *)

\* The connection of a session is lost, or a response timeout tears it down;
\* what runs on it will be rejected.
ClientLost(i) ==
  /\ clients[i] = "up" /\ faults < MaxFaults
  /\ clients' = [clients EXCEPT ![i] = "down"] /\ faults' = faults + 1
  /\ requests' = [r \in Requests |->
       IF requests[r].at = "running" /\ requests[r].on = i
       THEN [requests[r] EXCEPT !.hits = @ + 1] ELSE requests[r]]
  /\ UNCHANGED <<sessions, expired, known>>

\* BROWSE_SESSION_TTL_MS have passed since the session was looked up: no
\* browse takes that long.
Expires(i) ==
  /\ i \in sessions \ expired
  /\ \A r \in Requests : requests[r].at = "running" => requests[r].on # i
  /\ expired' = expired \cup {i}
  /\ UNCHANGED <<clients, sessions, known, requests, faults>>

SessionsNext ==
  \/ \E r \in Requests :
       Post(r) \/ Connected(r) \/ Answered(r) \/ Rejected(r) \/ SendFails(r) \/ ConnectFails(r)
  \/ \E i \in Ids : ClientLost(i) \/ Expires(i)

SessionsSpec == SessionsInit /\ [][SessionsNext]_sessionVars

-----------------------------------------------------------------------------
(* Properties *)

\* No session with the PLC is lost sight of: a connected client is in the map,
\* where a later prune finds it, and one that connects belongs to the one
\* request that waits for it, whatever prunes, replaces and retries its session
\* (createEphemeralBrowseSession, pruneEphemeralSessions, withBrowseClient,
\* handleBrowseRequest).  What is lost sight of is the socket of a connect()
\* that has failed.
SessionsOwnClients ==
  /\ \A i \in Ids : clients[i] = "up" => i \in sessions
  /\ \A i \in sessions : clients[i] \in {"up", "down"}
  /\ \A i \in Ids : clients[i] = "connecting" =>
       Cardinality({r \in Requests : requests[r].at = "connecting" /\ requests[r].on = i}) = 1

\* A request fails with a stale error only if connections of its own have
\* failed twice: that another request pruned or replaced the session it runs
\* on costs it one of its retries, never its answer (withBrowseClient,
\* handleBrowseRequest).  A request without an address, which the editor does
\* not post (s7complus.html:247), may find nothing to retry on.
OthersDoNoHarm == \A r \in Requests : requests[r].failed => requests[r].hits >= 2

\* A connection that is not in the map is closed.  The code does not keep this:
\* nobody disconnects the client of a failed connect().
NothingLeaks == \A i \in Ids : clients[i] # "leaked"
=============================================================================
