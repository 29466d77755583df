---------------------------- MODULE ClientSession ----------------------------
(***************************************************************************)
(* One S7CommPlusClient and its S7Transport: the stages of connect(), the  *)
(* dispatcher of responses, forceDisconnect(), disconnect(), and what a    *)
(* socket that closes does.  Sockets are kept apart: a connect() that      *)
(* fails does not destroy its socket, and such a socket can still deliver  *)
(* data and a close event to the same client.                              *)
(*                                                                         *)
(* An action is one turn of the event loop.  The promise reactions that    *)
(* follow a callback (a rejected waiter failing connect(), the next        *)
(* request after a response) belong to its turn.                           *)
(*                                                                         *)
(* Abstractions.  The requests of _readSystemLimits and _legitimate are    *)
(* one request ("limits").  A user operation is one request.  A plain      *)
(* receive loop ends at the first payload, since setStopAfterNextPacket()  *)
(* follows the start of the loop in the same turn; _plainRecv and          *)
(* _stopAfterNext are left out with it.  The PLC is external: until `calm' *)
(* it may be late, refuse, stay silent or close a connection; it does not  *)
(* answer an InitSsl request that reaches it inside a TLS stream.  The end *)
(* of a TLS stream and of its TCP socket are one event.  _sessionId is     *)
(* non-zero whenever _connected holds and is read only then.  Lifecycle    *)
(* operations do not overlap (the lock is module UserLock's).  Integrity   *)
(* counters, cached session data and the frame assembler carry no control. *)
(***************************************************************************)
EXTENDS Integers, FiniteSets

CONSTANTS
  Socks,     \* bound: the sockets there are at a time
  MaxSeq,    \* bound: sequence numbers used in a session
  MaxUser,   \* bound: user requests in flight (overlaps past lock timeouts)
  None       \* no socket

ASSUME ClientSessionAssumption ==
  None \notin Socks /\ MaxSeq \in Nat /\ MaxUser \in Nat

VARIABLES
  \* client.js
  pc,          \* stage of the connect() or disconnect() in progress
  connected,   \* _connected
  seq,         \* _sequenceNumber
  pending,     \* _pendingResponses: waiters [seq, stage, sock written to]
  told,        \* the last event the listener got for the session last let in
  \* s7-transport.js
  tSock,       \* _socket
  tTls,        \* the socket under _tlsSocket
  ssl,         \* _ssl
  recvRunning, \* _recvRunning
  loops,       \* sockets a plain receive loop awaits data from
  \* sockets, network and PLC
  cur,         \* the socket that the last connect() opened
  sock,        \* sock[i]: state of socket i
  tlsOn,       \* sockets whose TLS stream has a 'data' listener
  wire,        \* wire[i]: requests on socket i not answered yet
  sslFrom,     \* the socket this connect() read its InitSsl response from
  calm,        \* from now on network and PLC work
  misled       \* a request of a session got the response of another socket

client    == <<pc, connected, seq, pending, told>>
transport == <<tSock, tTls, ssl, recvRunning, loops>>
network   == <<cur, sock, tlsOn, wire, sslFrom, calm, misled>>
vars      == <<client, transport, network>>

Stages    == {"initssl", "create", "setup", "limits", "delete", "user"}
PC        == {"idle", "tcp", "cotp", "tls"} \cup (Stages \ {"user"})
Requests  == [seq : 1..MaxSeq, stage : Stages]
\* "dead": closed by the peer, "destroyed": closed here; the close event of
\* both is still to come.
SockState == {"free", "syn", "open", "dead", "destroyed"}

Open(i) == i \in Socks /\ sock[i] = "open"

Init ==
  /\ pc = "idle" /\ connected = FALSE /\ seq = 0 /\ pending = {} /\ told = "nothing"
  /\ tSock = None /\ tTls = None /\ ssl = FALSE
  /\ recvRunning = FALSE /\ loops = {}
  /\ cur = None
  /\ sock = [i \in Socks |-> "free"]
  /\ tlsOn = {}
  /\ wire = [i \in Socks |-> {}]
  /\ sslFrom = None
  /\ calm = FALSE
  /\ misled = FALSE

-----------------------------------------------------------------------------
(* S7Transport *)

\* Mutant: the socket is only forgotten.
Destroyed_SocketLeaked == sock

\* The sockets once disconnect() has destroyed the current one.
Destroyed == [i \in Socks |-> IF i = tSock /\ sock[i] = "open" THEN "destroyed" ELSE sock[i]]

\* Mutant: disconnect() forgets _ssl.
TDisconnect_SslKept(socks, looping) ==
  /\ sock' = socks
  /\ loops' = looping \ {tSock}
  /\ recvRunning' = FALSE
  /\ tSock' = None /\ tTls' = None /\ UNCHANGED ssl

\* disconnect(): without a socket it returns at once; otherwise the reader is
\* disposed of, which ends a plain loop on the socket.  `socks' are the
\* sockets afterwards, `looping' the loops before.
TDisconnect(socks, looping) ==
  /\ sock' = socks
  /\ loops' = looping \ {tSock}
  /\ IF tSock = None /\ tTls = None
       THEN UNCHANGED <<tSock, tTls, ssl, recvRunning>>
       ELSE /\ recvRunning' = FALSE
            /\ tSock' = None /\ tTls' = None /\ ssl' = FALSE

\* send(): through the TLS socket once _ssl is set, else on the plain socket.
SendTo == IF ssl THEN tTls ELSE tSock

-----------------------------------------------------------------------------
(* Requests and waiters *)

\* _getNextSequenceNumber; it wraps at 0xffff, beyond MaxSeq.
NextSeq == seq + 1

\* _sendRequest and _waitForResponse for a request of a stage, written to the
\* socket `to'; `others' are the waiters and `base' the unanswered requests
\* there are.  `answerable': the PLC can answer it at all.
Send(stage, to, answerable, others, base) ==
  /\ NextSeq <= MaxSeq
  /\ seq' = NextSeq
  /\ pending' = others \cup {[seq |-> NextSeq, stage |-> stage, sock |-> to]}
  /\ wire' = IF answerable /\ Open(to)
               THEN [base EXCEPT ![to] = @ \cup {[seq |-> NextSeq, stage |-> stage]}]
               ELSE base

\* The connect() or disconnect() in progress ends when its waiter is rejected.
StageAfterReject == IF pc \in Stages THEN "idle" ELSE pc

\* Mutant: _resetReceiveState leaves the waiters of user requests.
WaitersAfterReset_Kept == {w \in pending : w.stage = "user"}

\* _resetReceiveState rejects every waiter.
WaitersAfterReset == {}

\* What every end of a session has in common.
ResetSession ==
  /\ connected' = FALSE
  /\ pending' = WaitersAfterReset
  /\ TDisconnect(Destroyed, loops)

\* Mutant: no event is emitted.
DropSession_Silent == ResetSession /\ UNCHANGED told

\* _onTransportClosed with _connected, and the end of _teardownGraceful,
\* which does not ask for _connected: 'disconnect' is emitted.
DropSession == ResetSession /\ told' = "disconnect"

-----------------------------------------------------------------------------
(* connect() *)

\* connect() starts: a live session is torn down, the client's state reset, a
\* TCP connection begun, on a slot of Socks that nothing refers to.
ConnectStart ==
  /\ pc = "idle" /\ (calm => ~connected)
  /\ \E i \in Socks \ {tSock, tTls} :
       /\ sock[i] = "free"
       /\ cur' = i
       /\ IF connected
            THEN TDisconnect([Destroyed EXCEPT ![i] = "syn"], loops)
            ELSE /\ sock' = [sock EXCEPT ![i] = "syn"]
                 /\ UNCHANGED transport
  /\ pc' = "tcp"
  /\ connected' = FALSE
  /\ told' = IF connected THEN "disconnect" ELSE told
  /\ seq' = 0 /\ pending' = WaitersAfterReset
  /\ sslFrom' = None
  /\ UNCHANGED <<tlsOn, wire, calm, misled>>

\* The TCP connection is refused or times out: nothing of it stays.
TcpFail ==
  /\ pc = "tcp" /\ ~calm
  /\ sock' = [sock EXCEPT ![cur] = "free"]
  /\ pc' = "idle"
  /\ UNCHANGED <<connected, seq, pending, told, transport,
                 cur, tlsOn, wire, sslFrom, calm, misled>>

\* The TCP connection is up and the connection request written.  The close
\* events of sockets destroyed here come before that.
TcpUp ==
  /\ pc = "tcp"
  /\ \A i \in Socks : sock[i] # "destroyed"
  /\ sock' = [sock EXCEPT ![cur] = "open"]
  /\ tSock' = cur
  /\ pc' = "cotp"
  /\ UNCHANGED <<connected, seq, pending, told, tTls, ssl, recvRunning, loops,
                 cur, tlsOn, wire, sslFrom, calm, misled>>

\* The connection confirm is missing or bad.  The socket stays as it is.
CotpFail ==
  /\ pc = "cotp" /\ ~calm
  /\ pc' = "idle"
  /\ UNCHANGED <<connected, seq, pending, told, transport,
                 cur, sock, tlsOn, wire, sslFrom, calm, misled>>

\* The connection confirm is read: the plain receive loop starts, unless
\* _recvRunning says there is one, and the InitSsl request is sent.
CotpUp ==
  /\ pc = "cotp" /\ Open(cur)
  /\ IF recvRunning
       THEN UNCHANGED <<recvRunning, loops>>
       ELSE recvRunning' = ~ssl /\ loops' = IF ssl THEN loops ELSE loops \cup {cur}
  /\ Send("initssl", SendTo, ~ssl, pending, wire)
  /\ pc' = "initssl"
  /\ UNCHANGED <<connected, told, tSock, tTls, ssl,
                 cur, sock, tlsOn, sslFrom, calm, misled>>

\* The handshake can succeed only on a connection whose InitSsl response has
\* been read; the response's bytes would be read as TLS records otherwise.
HandshakePossible == Open(cur) /\ sslFrom = cur

\* Mutant: the handshake has no timer of its own.
TlsFail_NoTimer ==
  /\ pc = "tls" /\ ~Open(cur)
  /\ pc' = "idle"
  /\ UNCHANGED <<connected, seq, pending, told, transport,
                 cur, sock, tlsOn, wire, sslFrom, calm, misled>>

\* The TLS handshake fails or times out: sslActivate returns an error.
TlsFail ==
  /\ pc = "tls"
  /\ HandshakePossible => ~calm
  /\ pc' = "idle"
  /\ UNCHANGED <<connected, seq, pending, told, transport,
                 cur, sock, tlsOn, wire, sslFrom, calm, misled>>

\* 'secureConnect': the transport switches to the TLS socket and CreateObject
\* is sent.
TlsUp ==
  /\ pc = "tls" /\ HandshakePossible
  /\ ssl' = TRUE /\ tTls' = cur /\ recvRunning' = TRUE
  /\ tlsOn' = tlsOn \cup {cur}
  /\ Send("create", cur, TRUE, pending, wire)
  /\ pc' = "create"
  /\ UNCHANGED <<connected, told, tSock, loops,
                 cur, sock, sslFrom, calm, misled>>

-----------------------------------------------------------------------------
(* Received data *)

\* Data of socket i reaches the client.
Readable(i) == Open(i) /\ i \in loops \cup tlsOn

\* _dispatchPdu's lookup.
Waiters(r) == {w \in pending : w.seq = r.seq}

\* A response to r is read on socket i.  A plain loop ends with it.
Receive(i, r) ==
  /\ Readable(i) /\ r \in wire[i]
  /\ recvRunning' = (recvRunning /\ i \notin loops)
  /\ loops' = loops \ {i}

Rest(i, r) == [wire EXCEPT ![i] = @ \ {r}]
Mark(w, i) ==
  misled' = (misled \/ (w.stage \in {"limits", "delete", "user"} /\ w.sock # i))

\* No waiter has its number: the response is dropped.
Unmatched(i, r) ==
  /\ Receive(i, r) /\ Waiters(r) = {}
  /\ wire' = Rest(i, r)
  /\ UNCHANGED <<client, tSock, tTls, ssl, cur, sock, tlsOn, sslFrom, calm, misled>>

\* A user request is answered.
GotUser(i, r, w) ==
  /\ Receive(i, r) /\ w \in Waiters(r) /\ w.stage = "user"
  /\ wire' = Rest(i, r) /\ Mark(w, i)
  /\ pending' = pending \ {w}
  /\ UNCHANGED <<pc, connected, seq, told, tSock, tTls, ssl,
                 cur, sock, tlsOn, sslFrom, calm>>

\* InitSsl is answered: sslActivate() interrupts the reader of the current
\* socket, which ends a plain loop on it, and starts the handshake.
GotInitSsl(i, r, w) ==
  /\ Readable(i) /\ r \in wire[i] /\ w \in Waiters(r) /\ w.stage = "initssl"
  /\ recvRunning' = (recvRunning /\ loops \cap {i, tSock} = {})
  /\ loops' = loops \ {i, tSock}
  /\ wire' = Rest(i, r) /\ Mark(w, i)
  /\ pending' = pending \ {w}
  /\ pc' = "tls" /\ sslFrom' = i
  /\ UNCHANGED <<connected, seq, told, tSock, tTls, ssl, cur, sock, tlsOn, calm>>

\* CreateObject is answered: the session setup is sent.
GotCreate(i, r, w) ==
  /\ Receive(i, r) /\ w \in Waiters(r) /\ w.stage = "create"
  /\ Mark(w, i)
  /\ Send("setup", SendTo, TRUE, pending \ {w}, Rest(i, r))
  /\ pc' = "setup"
  /\ UNCHANGED <<connected, told, tSock, tTls, ssl, cur, sock, tlsOn, sslFrom, calm>>

\* The session setup is answered: _connected is set, and the system limits
\* and the legitimation are requested.
GotSetup(i, r, w) ==
  /\ Receive(i, r) /\ w \in Waiters(r) /\ w.stage = "setup"
  /\ Mark(w, i)
  /\ Send("limits", SendTo, TRUE, pending \ {w}, Rest(i, r))
  /\ pc' = "limits" /\ connected' = TRUE /\ told' = "nothing"
  /\ UNCHANGED <<tSock, tTls, ssl, cur, sock, tlsOn, sslFrom, calm>>

\* The last request of connect() is answered: 'connect' is emitted.
GotLimits(i, r, w) ==
  /\ Receive(i, r) /\ w \in Waiters(r) /\ w.stage = "limits"
  /\ wire' = Rest(i, r) /\ Mark(w, i)
  /\ pending' = pending \ {w}
  /\ pc' = "idle" /\ told' = "connect"
  /\ UNCHANGED <<connected, seq, tSock, tTls, ssl, cur, sock, tlsOn, sslFrom, calm>>

\* A graceful teardown has its answer: the session ends.
GotDelete(i, r, w) ==
  /\ Readable(i) /\ r \in wire[i] /\ w \in Waiters(r) /\ w.stage = "delete"
  /\ wire' = Rest(i, r) /\ Mark(w, i)
  /\ pc' = "idle"
  /\ DropSession
  /\ UNCHANGED <<seq, cur, tlsOn, sslFrom, calm>>

\* The catch around the last requests of connect(): back to a clean disconnected state, and no event.
LimitsRefused == ResetSession /\ UNCHANGED told

\* A request of connect() is answered by a refusal or by something that does
\* not parse: connect() fails.  Before _connected it leaves the transport as
\* it is, after that it disconnects it.
Refused(i, r, w) ==
  /\ ~calm
  /\ w \in Waiters(r) /\ w.stage \in {"initssl", "create", "setup", "limits"}
  /\ wire' = Rest(i, r) /\ Mark(w, i)
  /\ pc' = "idle"
  /\ IF w.stage = "limits"
       THEN /\ Readable(i) /\ r \in wire[i]
            /\ LimitsRefused
       ELSE /\ Receive(i, r)
            /\ pending' = pending \ {w}
            /\ UNCHANGED <<connected, told, tSock, tTls, ssl, sock>>
  /\ UNCHANGED <<seq, cur, tlsOn, sslFrom, calm>>

-----------------------------------------------------------------------------
(* Timers, sockets that close, teardown, user requests *)

Answerable(w) == \E i \in Socks : Readable(i) /\ \E r \in wire[i] : r.seq = w.seq

\* The timer of a waiter fires: its request fails, and the session with it;
\* before there is one, connect() fails and leaves the transport as it is.
ResponseTimeout(w) ==
  /\ Answerable(w) => ~calm
  /\ IF connected
       THEN DropSession
       ELSE /\ pending' = pending \ {w}
            /\ UNCHANGED <<connected, told, transport, sock>>
  /\ pc' = IF connected \/ w.stage # "user" THEN StageAfterReject ELSE pc
  /\ UNCHANGED <<seq, cur, tlsOn, wire, sslFrom, calm, misled>>

\* The peer closes a connection.  A PLC that works closes only connections
\* that the client has no use for.
Die(i) ==
  /\ Open(i)
  /\ calm => ~(i = cur /\ (pc # "idle" \/ connected))
  /\ sock' = [sock EXCEPT ![i] = "dead"]
  /\ UNCHANGED <<client, transport, cur, tlsOn, wire, sslFrom, calm, misled>>

\* The close event of a socket: _onTransportClosed, whatever socket it was.
\* A plain loop on it ends; a connection confirm awaited on it is missed.
CloseEvent(i) ==
  /\ sock[i] \in {"dead", "destroyed"}
  /\ wire' = [wire EXCEPT ![i] = {}]
  /\ tlsOn' = tlsOn \ {i}
  /\ pc' = IF pc = "cotp" /\ i = cur THEN "idle" ELSE StageAfterReject
  /\ IF connected
       THEN /\ connected' = FALSE /\ told' = "disconnect"
            /\ TDisconnect([Destroyed EXCEPT ![i] = "free"], loops \ {i})
       ELSE /\ sock' = [sock EXCEPT ![i] = "free"]
            /\ recvRunning' = (recvRunning /\ i \notin loops)
            /\ loops' = loops \ {i}
            /\ UNCHANGED <<connected, told, tSock, tTls, ssl>>
  /\ pending' = WaitersAfterReset
  /\ UNCHANGED <<seq, cur, sslFrom, calm, misled>>

\* forceDisconnect(), which takes no lock: a connect() in its TCP stage goes
\* on, one that awaits a response or the connection confirm fails, one in the
\* TLS handshake finds its socket gone.
ForceDisconnect ==
  /\ ~calm
  /\ pc' = IF pc = "cotp" THEN "idle" ELSE StageAfterReject
  /\ ResetSession
  /\ told' = IF connected THEN "disconnect" ELSE told
  /\ UNCHANGED <<seq, cur, tlsOn, wire, sslFrom, calm, misled>>

\* disconnect(): with a session on a live socket DeleteObject goes first.
Disconnect ==
  /\ ~calm /\ pc = "idle"
  /\ IF connected /\ tSock # None /\ sock[tSock] \in {"open", "dead"}
       THEN /\ Send("delete", SendTo, TRUE, pending, wire)
            /\ pc' = "delete"
            /\ UNCHANGED <<connected, told, transport, sock>>
       ELSE /\ DropSession
            /\ UNCHANGED <<pc, seq, wire>>
  /\ UNCHANGED <<cur, tlsOn, sslFrom, calm, misled>>

\* A user operation sends a request; the limits need not be read yet.
UserSend ==
  /\ connected
  /\ Cardinality({w \in pending : w.stage = "user"}) < MaxUser
  /\ Send("user", SendTo, TRUE, pending, wire)
  /\ UNCHANGED <<pc, connected, told, transport,
                 cur, sock, tlsOn, sslFrom, calm, misled>>

Calm ==
  /\ ~calm /\ calm' = TRUE
  /\ UNCHANGED <<client, transport, cur, sock, tlsOn, wire, sslFrom, misled>>

Respond(i) ==
  \E r \in wire[i] :
    \/ Unmatched(i, r)
    \/ \E w \in pending :
         \/ GotUser(i, r, w)   \/ GotInitSsl(i, r, w) \/ GotCreate(i, r, w)
         \/ GotSetup(i, r, w)  \/ GotLimits(i, r, w)  \/ GotDelete(i, r, w)
         \/ Refused(i, r, w)

ConnectStep == TcpFail \/ TcpUp \/ CotpFail \/ CotpUp \/ TlsFail \/ TlsUp
Timer       == \E w \in pending : ResponseTimeout(w)

Next ==
  \/ ConnectStart \/ ConnectStep \/ Timer
  \/ \E i \in Socks : Respond(i) \/ Die(i) \/ CloseEvent(i)
  \/ ForceDisconnect \/ Disconnect \/ UserSend \/ Calm

Spec == Init /\ [][Next]_vars

\* Timers fire, closed sockets report it, and a PLC that works answers what
\* can be answered.
FairSpec ==
  /\ Spec
  /\ WF_vars(ConnectStep) /\ WF_vars(Timer)
  /\ \A i \in Socks : WF_vars(CloseEvent(i)) /\ WF_vars(calm /\ Respond(i))

\* The endpoint, besides, calls connect() whenever there is no session, and
\* the PLC closes connections that are not used.
ReconnectSpec ==
  /\ FairSpec
  /\ WF_vars(ConnectStart)
  /\ \A i \in Socks : WF_vars(calm /\ Die(i))
-----------------------------------------------------------------------------
\* The values of the variables, and the transport is in TLS mode exactly while
\* it has a TLS socket.
TypeOK ==
  /\ pc \in PC /\ connected \in BOOLEAN /\ told \in {"nothing", "connect", "disconnect"}
  /\ seq \in 0..MaxSeq
  /\ pending \subseteq [seq : 1..MaxSeq, stage : Stages, sock : Socks \cup {None}]
  /\ {tSock, tTls, cur, sslFrom} \subseteq Socks \cup {None}
  /\ ssl \in BOOLEAN /\ recvRunning \in BOOLEAN /\ calm \in BOOLEAN
  /\ loops \subseteq Socks /\ tlsOn \subseteq Socks
  /\ sock \in [Socks -> SockState]
  /\ wire \in [Socks -> SUBSET Requests]
  /\ misled \in BOOLEAN
  /\ ssl <=> tTls # None

\* Every waiter is somebody's: the one of the stage in progress, or a user
\* request of a live session.  Nobody is left waiting by a teardown, and the
\* stage in progress is never without its waiter.
WaitersAccountedFor ==
  /\ pc \in Stages <=> \E w \in pending : w.stage # "user"
  /\ \A w \in pending : w.stage = pc \/ (w.stage = "user" /\ connected)

\* A session runs on the socket its own connect() opened, through the TLS
\* stream of that socket, and when that socket is gone its close event is
\* still to come.  "No response ever ends up at the wrong waiter" (client.js:102)
\* holds for every request of a session, for a socket with a session is always
\* destroyed, but not for the requests of connect(), which a leaked socket can
\* answer.
SessionOnItsSocket ==
  /\ connected => /\ ssl /\ tSock = cur /\ tTls = cur
                  /\ sock[cur] \in {"open", "dead"}
  /\ ~misled

\* What the endpoint knows of the client: how far it is with a connection, and
\* the requests that wait.
SessionConn ==
  CASE pc = "idle"   -> IF connected THEN "up" ELSE "down"
    [] pc = "delete" -> "closing"
    [] OTHER         -> IF connected THEN "late" ELSE "early"

Calls == {w.seq : w \in {v \in pending : v.stage = "user"}}

Promise == INSTANCE Session WITH
  Ids <- 1..MaxSeq, conn <- SessionConn, calls <- Calls

\* The client keeps its promise: a session that was announced never ends
\* without 'disconnect', 'connect' is told only of a session that stands, and
\* no request outlives its session or is made outside of one, wherever
\* connect() and disconnect() are when a socket closes, a timer fires or
\* forceDisconnect() is called.  Only a refusal in the last stage of connect()
\* ends a session that requests were let into, and no listener is told.
KeepsPromise == Promise!Spec

\* connect() and disconnect() settle, whatever the network and the PLC do and
\* whatever forceDisconnect() interrupts.
LifecycleSettles == pc # "idle" ~> pc = "idle"

\* "Hard reset of all transient state so nothing from the previous (possibly
\* broken) session survives" (connect()): once network and PLC work, repeated
\* connect() calls lead to a session.
ReconnectSucceeds == calm ~> told = "connect"
=============================================================================
