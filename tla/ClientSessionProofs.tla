------------------------ MODULE ClientSessionProofs ------------------------
(***************************************************************************)
(* The safety properties of module ClientSession, for every number of      *)
(* sockets and every bound on requests.  They are not inductive: that a    *)
(* request of a session is answered by the session's own socket hangs on   *)
(* the numbers.  connect() numbers its requests from 1 on every socket, so *)
(* a leaked socket may answer one of the first three; a session's numbers  *)
(* begin at 4, and no other open socket has been sent one of these.        *)
(* That the client implements Session follows step by step from the same   *)
(* invariant.                                                              *)
(***************************************************************************)
EXTENDS ClientSession, TLAPS

\* The listener has been told 'connect' exactly while the client reports
\* connected, the last stage of connect() excepted, in which user operations
\* are let in before 'connect' is emitted.
ListenerInformed == told = "connect" <=> (connected /\ pc # "limits")

\* The waiter that connect() or disconnect() awaits is the only one of its kind.
OneWaiter == \A v, w \in pending : v.stage # "user" /\ w.stage # "user" => v = w

\* connect() has a session from its request for the limits on, and a graceful
\* teardown only begins with one.
SessionStages ==
  /\ connected => pc \in {"idle", "limits", "delete"}
  /\ pc \in {"limits", "delete"} => connected

\* How far connect() has come with its socket.
OwnSocket ==
  /\ pc # "idle" \/ connected => cur \in Socks
  /\ pc = "tcp" => sock[cur] = "syn"
  /\ pc \in {"cotp", "initssl"} => tSock = cur
  /\ pc = "tls" /\ Open(cur) => tSock = cur
  /\ pc \in {"create", "setup"} \/ connected =>
       ssl /\ tSock = cur /\ tTls = cur /\ sock[cur] \in {"open", "dead"}

\* The numbers of connect()'s requests: those of a session come after 3.
Numbers ==
  /\ pc \in {"tcp", "cotp"} => seq = 0
  /\ pc \in {"initssl", "tls"} => seq = 1
  /\ pc = "create" => seq = 2
  /\ pc = "setup" => seq = 3
  /\ connected => seq >= 4

\* A request of a session waits for a number beyond those on its own socket...
SessionWaiters ==
  \A w \in pending : w.stage \in {"limits", "delete", "user"} => w.seq >= 4 /\ w.sock = cur

\* ...and only that socket has such a number to answer, as long as it is open.
SessionWires ==
  \A i \in Socks : Open(i) => \A r \in wire[i] : r.seq >= 4 => connected /\ i = cur

\* A socket that is not connected has nothing to answer.
FreshWires == \A i \in Socks : sock[i] \in {"free", "syn"} => wire[i] = {}

\* The inductive invariant.
IInv ==
  /\ TypeOK /\ ListenerInformed /\ WaitersAccountedFor /\ SessionOnItsSocket
  /\ OneWaiter /\ SessionStages /\ OwnSocket /\ Numbers
  /\ SessionWaiters /\ SessionWires /\ FreshWires

\* The part of TypeOK about the transport and its sockets.
TransportType ==
  /\ sock \in [Socks -> SockState] /\ loops \subseteq Socks
  /\ tSock \in Socks \cup {None} /\ tTls \in Socks \cup {None}
  /\ ssl \in BOOLEAN /\ recvRunning \in BOOLEAN /\ (ssl <=> tTls # None)

\* Nothing is connected and nobody waits.
LEMMA InitIInv ==
  ASSUME Init
  PROVE  IInv
<1>1. TypeOK
  <2>1. sock \in [Socks -> SockState] /\ wire \in [Socks -> SUBSET Requests]
    BY DEF Init, SockState
  <2>2. seq \in 0..MaxSeq /\ pc \in PC /\ pending = {} /\ loops = {} /\ tlsOn = {}
    BY ClientSessionAssumption DEF Init, PC
  <2> QED
    BY <2>1, <2>2 DEF Init, TypeOK
<1>2. /\ ListenerInformed /\ WaitersAccountedFor /\ SessionOnItsSocket
      /\ OneWaiter /\ SessionStages /\ OwnSocket /\ Numbers /\ SessionWaiters
  BY DEF Init, ListenerInformed, WaitersAccountedFor, SessionOnItsSocket, OneWaiter,
         SessionStages, OwnSocket, Numbers, SessionWaiters, Stages
<1>3. SessionWires /\ FreshWires
  BY DEF Init, SessionWires, FreshWires
<1> QED
  BY <1>1, <1>2, <1>3 DEF IInv

\* destroy() closes the socket in use and no other.
LEMMA DestroyedType ==
  ASSUME TypeOK
  PROVE  /\ Destroyed \in [Socks -> SockState]
         /\ \A i \in Socks :
              Destroyed[i] = IF i = tSock /\ sock[i] = "open" THEN "destroyed" ELSE sock[i]
  BY DEF TypeOK, Destroyed, SockState

\* The transport's disconnect() keeps its types and takes over the sockets given.
LEMMA TDisconnectType ==
  ASSUME TypeOK, NEW socks \in [Socks -> SockState], NEW looping \in SUBSET Socks,
         TDisconnect(socks, looping)
  PROVE  TransportType' /\ sock' = socks
<1>1. CASE tSock = None /\ tTls = None
  BY <1>1 DEF TDisconnect, TypeOK, TransportType
<1>2. CASE ~(tSock = None /\ tTls = None)
  BY <1>2 DEF TDisconnect, TypeOK, TransportType
<1> QED
  BY <1>1, <1>2

\* A session that ends leaves no waiter, and a transport of the right types.
LEMMA ResetSessionType ==
  ASSUME TypeOK, ResetSession
  PROVE  TransportType' /\ connected' = FALSE /\ pending' = {}
  BY DestroyedType, TDisconnectType DEF ResetSession, TypeOK, WaitersAfterReset

\* A request that is sent adds its waiter, under the next number.
LEMMA SendType ==
  ASSUME TypeOK, NEW stage \in Stages, NEW to \in Socks \cup {None}, NEW answerable \in BOOLEAN,
         NEW others \in SUBSET pending, NEW base \in [Socks -> SUBSET Requests],
         Send(stage, to, answerable, others, base)
  PROVE  /\ seq' \in 0..MaxSeq /\ seq' = seq + 1
         /\ pending' = others \cup {[seq |-> seq + 1, stage |-> stage, sock |-> to]}
         /\ pending' \subseteq [seq : 1..MaxSeq, stage : Stages, sock : Socks \cup {None}]
         /\ wire' \in [Socks -> SUBSET Requests]
<1>1. seq + 1 \in 1..MaxSeq /\ seq' = seq + 1
  BY ClientSessionAssumption DEF Send, NextSeq, TypeOK
<1>2. pending' = others \cup {[seq |-> seq + 1, stage |-> stage, sock |-> to]}
  BY DEF Send, NextSeq
<1>3. pending' \subseteq [seq : 1..MaxSeq, stage : Stages, sock : Socks \cup {None}]
  BY <1>1, <1>2 DEF TypeOK
<1>4. [seq |-> seq + 1, stage |-> stage] \in Requests
  BY <1>1 DEF Requests
<1>5. wire' \in [Socks -> SUBSET Requests]
  BY <1>4 DEF Send, NextSeq, Open
<1> QED
  BY <1>1, <1>2, <1>3, <1>5

\* connect() begins on a slot that nobody refers to; a session there was is
\* destroyed with its socket, so what is under way on it is never read.
LEMMA ConnectStartIInv ==
  ASSUME IInv, ConnectStart
  PROVE  IInv'
<1> USE DEF IInv
<1>1. PICK i \in Socks \ {tSock, tTls} :
        /\ sock[i] = "free"
        /\ cur' = i
        /\ IF connected
             THEN TDisconnect([Destroyed EXCEPT ![i] = "syn"], loops)
             ELSE /\ sock' = [sock EXCEPT ![i] = "syn"]
                  /\ UNCHANGED transport
  BY DEF ConnectStart
<1>2. [Destroyed EXCEPT ![i] = "syn"] \in [Socks -> SockState]
  BY <1>1, DestroyedType DEF SockState
<1>3. TransportType' /\ sock' \in [Socks -> SockState]
  <2>1. CASE connected
    BY <1>1, <1>2, <2>1, TDisconnectType DEF TypeOK
  <2>2. CASE ~connected
    BY <1>1, <2>2 DEF TypeOK, TransportType, transport, SockState
  <2> QED
    BY <2>1, <2>2
<1>4. \A j \in Socks :
        sock'[j] = IF j = i THEN "syn" ELSE IF connected THEN Destroyed[j] ELSE sock[j]
  BY <1>1, DestroyedType DEF TDisconnect, TypeOK
<1>5. TypeOK'
  <2>1. pc' \in PC /\ cur' \in Socks \cup {None} /\ pending' = {} /\ seq' \in 0..MaxSeq
    BY <1>1, ClientSessionAssumption DEF ConnectStart, PC, WaitersAfterReset
  <2>2. calm' \in BOOLEAN /\ misled' \in BOOLEAN /\ wire' = wire /\ tlsOn' = tlsOn
    BY DEF ConnectStart, TypeOK
  <2>3. connected' = FALSE /\ told' \in {"nothing", "connect", "disconnect"} /\ sslFrom' = None
    BY DEF ConnectStart, TypeOK
  <2> QED
    BY <2>1, <2>2, <2>3, <1>3 DEF TransportType, TypeOK, PC
<1>6. /\ ListenerInformed' /\ WaitersAccountedFor' /\ SessionOnItsSocket' /\ OneWaiter'
      /\ SessionStages' /\ OwnSocket' /\ Numbers' /\ SessionWaiters'
  BY DEF ConnectStart, ListenerInformed, WaitersAccountedFor, Stages, WaitersAfterReset,
         SessionOnItsSocket, OneWaiter, SessionStages, TypeOK, OwnSocket, TDisconnect,
         Destroyed, Numbers, SessionWaiters
<1>7. SessionWires'
  BY <1>4, DestroyedType DEF ConnectStart, SessionWires, Open, OwnSocket
<1>8. FreshWires'
  BY <1>4 DEF ConnectStart, TypeOK, FreshWires, TDisconnect, Destroyed
<1> QED
  BY <1>5, <1>6, <1>7, <1>8

\* A TCP connection that does not come up leaves nothing.
LEMMA TcpFailIInv ==
  ASSUME IInv, TcpFail
  PROVE  IInv'
<1> USE DEF IInv
<1>1. SessionOnItsSocket'
  BY DEF TcpFail, SessionOnItsSocket, Numbers
<1>2. /\ TypeOK' /\ ListenerInformed' /\ WaitersAccountedFor' /\ OneWaiter' /\ SessionStages'
      /\ OwnSocket' /\ Numbers' /\ SessionWaiters' /\ SessionWires'
  BY DEF TcpFail, TypeOK, PC, SockState, transport, ListenerInformed, WaitersAccountedFor,
         Stages, OneWaiter, SessionStages, OwnSocket, Numbers, SessionWaiters, SessionWires,
         Open
<1>3. FreshWires'
  BY DEF TcpFail, OwnSocket, FreshWires
<1> QED
  BY <1>1, <1>2, <1>3

\* The new socket has nothing to answer yet.
LEMMA TcpUpIInv ==
  ASSUME IInv, TcpUp
  PROVE  IInv'
<1> USE DEF IInv
<1>1. TypeOK'
  BY DEF TcpUp, TypeOK, Numbers, PC, SockState
<1>2. SessionWires'
  BY DEF TcpUp, OwnSocket, SessionWires, FreshWires, Open
<1>3. /\ ListenerInformed' /\ WaitersAccountedFor' /\ SessionOnItsSocket' /\ OneWaiter'
      /\ SessionStages' /\ OwnSocket' /\ Numbers' /\ SessionWaiters' /\ FreshWires'
  BY DEF TcpUp, ListenerInformed, WaitersAccountedFor, Stages, SessionOnItsSocket, OneWaiter,
         SessionStages, OwnSocket, Numbers, SessionWaiters, FreshWires
<1> QED
  BY <1>1, <1>2, <1>3

\* A connect() that fails before it has sent a request has no waiter.
LEMMA CotpFailIInv ==
  ASSUME IInv, CotpFail
  PROVE  IInv'
  BY DEF IInv, CotpFail, TypeOK, PC, transport, ListenerInformed, WaitersAccountedFor, Stages,
         SessionOnItsSocket, OneWaiter, SessionStages, OwnSocket, Numbers, SessionWaiters,
         SessionWires, Open, FreshWires

\* InitSsl is the first request, number 1.
LEMMA CotpUpIInv ==
  ASSUME IInv, CotpUp
  PROVE  IInv'
<1> USE DEF IInv
<1>1. pending = {}
  BY DEF CotpUp, WaitersAccountedFor, SessionStages, Stages
<1>2. /\ seq' \in 0..MaxSeq /\ seq' = seq + 1
      /\ pending' = {[seq |-> seq + 1, stage |-> "initssl", sock |-> SendTo]}
      /\ pending' \subseteq [seq : 1..MaxSeq, stage : Stages, sock : Socks \cup {None}]
      /\ wire' \in [Socks -> SUBSET Requests]
  <2>1. Send("initssl", SendTo, ~ssl, pending, wire)
    BY DEF CotpUp
  <2>2. SendTo \in Socks \cup {None} /\ cur \in Socks \cup {None}
    BY DEF TypeOK, SendTo
  <2>3. (~ssl) \in BOOLEAN
    OBVIOUS
  <2>4. pending' = {[seq |-> seq + 1, stage |-> "initssl", sock |-> SendTo]}
    BY <1>1, <2>1 DEF Send, NextSeq
  <2> QED
    BY <2>1, <2>2, <2>3, <2>4, SendType DEF TypeOK, Stages
<1>3. TransportType'
  <2>1. CASE recvRunning
    BY <2>1 DEF CotpUp, TypeOK, TransportType
  <2>2. CASE ~recvRunning /\ ssl
    BY <2>2 DEF CotpUp, TypeOK, TransportType
  <2>3. CASE ~recvRunning /\ ~ssl
    BY <2>3 DEF CotpUp, TypeOK, TransportType, Open
  <2> QED
    BY <2>1, <2>2, <2>3 DEF TypeOK
<1>4. TypeOK'
  BY <1>2 DEF CotpUp, TypeOK, PC, Open
<1>5. WaitersAccountedFor'
  BY <1>1 DEF CotpUp, WaitersAccountedFor, Stages, Send
<1>6. OneWaiter'
  BY DEF CotpUp, WaitersAccountedFor, OneWaiter, Stages, Send
<1>7. SessionWires'
  BY DEF CotpUp, Numbers, SessionWires, Send, NextSeq, Open
<1>8. /\ ListenerInformed' /\ SessionOnItsSocket' /\ SessionStages' /\ OwnSocket' /\ Numbers'
      /\ SessionWaiters' /\ FreshWires'
  BY DEF CotpUp, ListenerInformed, SessionOnItsSocket, SessionStages, OwnSocket, Numbers, Send,
         NextSeq, SessionWaiters, FreshWires, Open
<1> QED
  BY <1>4, <1>5, <1>6, <1>7, <1>8

\* There is no waiter during the handshake.
LEMMA TlsFailIInv ==
  ASSUME IInv, TlsFail
  PROVE  IInv'
  BY DEF IInv, TlsFail, TypeOK, PC, transport, ListenerInformed, WaitersAccountedFor, Stages,
         SessionOnItsSocket, OneWaiter, SessionStages, OwnSocket, Numbers, SessionWaiters,
         SessionWires, Open, FreshWires

\* CreateObject is request 2, on the TLS stream of connect()'s own socket.
LEMMA TlsUpIInv ==
  ASSUME IInv, TlsUp
  PROVE  IInv'
<1> USE DEF IInv
<1>1. pending = {}
  BY DEF TlsUp, WaitersAccountedFor, SessionStages, Stages
<1>2. /\ seq' \in 0..MaxSeq /\ seq' = seq + 1
      /\ pending' = {[seq |-> seq + 1, stage |-> "create", sock |-> cur]}
      /\ pending' \subseteq [seq : 1..MaxSeq, stage : Stages, sock : Socks \cup {None}]
      /\ wire' \in [Socks -> SUBSET Requests]
  <2>1. Send("create", cur, TRUE, pending, wire)
    BY DEF TlsUp
  <2>2. SendTo \in Socks \cup {None} /\ cur \in Socks \cup {None}
    BY DEF TypeOK, SendTo
  <2>3. (~ssl) \in BOOLEAN
    OBVIOUS
  <2>4. pending' = {[seq |-> seq + 1, stage |-> "create", sock |-> cur]}
    BY <1>1, <2>1 DEF Send, NextSeq
  <2> QED
    BY <2>1, <2>2, <2>3, <2>4, SendType DEF TypeOK, Stages
<1>3. TypeOK'
  BY ClientSessionAssumption DEF TlsUp, TypeOK, PC, Stages, Requests, Send, NextSeq, Open,
     HandshakePossible
<1>4. WaitersAccountedFor'
  BY <1>1 DEF TlsUp, WaitersAccountedFor, Stages, Send
<1>5. OneWaiter'
  BY DEF TlsUp, WaitersAccountedFor, OneWaiter, Stages, Send
<1>6. SessionWires'
  BY DEF TlsUp, Numbers, SessionWires, Send, NextSeq, Open
<1>7. /\ ListenerInformed' /\ SessionOnItsSocket' /\ SessionStages' /\ OwnSocket' /\ Numbers'
      /\ SessionWaiters' /\ FreshWires'
  BY DEF TlsUp, ListenerInformed, SessionOnItsSocket, SessionStages, OwnSocket, Open,
         HandshakePossible, Numbers, Send, NextSeq, SessionWaiters, FreshWires
<1> QED
  BY <1>3, <1>4, <1>5, <1>6, <1>7

\* A response nobody waits for changes no waiter.
LEMMA UnmatchedIInv ==
  ASSUME IInv, NEW i \in Socks, NEW r \in wire[i], Unmatched(i, r)
  PROVE  IInv'
  BY DEF IInv, Unmatched, TypeOK, Receive, Rest, client, ListenerInformed, WaitersAccountedFor,
         SessionOnItsSocket, OneWaiter, SessionStages, OwnSocket, Open, Numbers, SessionWaiters,
         SessionWires, FreshWires

\* A user request is answered on the session's own socket.
LEMMA GotUserIInv ==
  ASSUME IInv, NEW i \in Socks, NEW r \in wire[i], NEW w \in pending, GotUser(i, r, w)
  PROVE  IInv'
<1> USE DEF IInv
<1>1. SessionOnItsSocket'
  BY DEF GotUser, SessionOnItsSocket, SessionWaiters, SessionWires, Receive, Readable, Mark,
         Waiters
<1>2. /\ TypeOK' /\ ListenerInformed' /\ WaitersAccountedFor' /\ OneWaiter' /\ SessionStages'
      /\ OwnSocket' /\ Numbers' /\ SessionWaiters' /\ SessionWires' /\ FreshWires'
  BY DEF GotUser, TypeOK, Receive, Rest, Mark, ListenerInformed, WaitersAccountedFor, OneWaiter,
         SessionStages, OwnSocket, Open, Numbers, SessionWaiters, SessionWires, FreshWires
<1> QED
  BY <1>1, <1>2

\* The answer to InitSsl, on whichever socket it comes, leaves no waiter.
LEMMA GotInitSslIInv ==
  ASSUME IInv, NEW i \in Socks, NEW r \in wire[i], NEW w \in pending, GotInitSsl(i, r, w)
  PROVE  IInv'
<1> USE DEF IInv
<1>1. ListenerInformed'
  BY DEF GotInitSsl, ListenerInformed, WaitersAccountedFor
<1>2. WaitersAccountedFor'
  BY DEF GotInitSsl, WaitersAccountedFor, OneWaiter, Stages
<1>3. SessionStages'
  BY DEF GotInitSsl, WaitersAccountedFor, SessionStages
<1>4. OwnSocket'
  BY DEF GotInitSsl, WaitersAccountedFor, OwnSocket
<1>5. Numbers'
  BY DEF GotInitSsl, WaitersAccountedFor, Numbers
<1>6. /\ TypeOK' /\ SessionOnItsSocket' /\ OneWaiter' /\ SessionWaiters' /\ SessionWires'
      /\ FreshWires'
  BY DEF GotInitSsl, TypeOK, PC, Rest, Mark, SessionOnItsSocket, OneWaiter, SessionWaiters,
         SessionWires, Open, FreshWires
<1> QED
  BY <1>1, <1>2, <1>3, <1>4, <1>5, <1>6

\* The waiter of CreateObject is replaced by that of the session setup, request 3.
LEMMA GotCreateIInv ==
  ASSUME IInv, NEW i \in Socks, NEW r \in wire[i], NEW w \in pending, GotCreate(i, r, w)
  PROVE  IInv'
<1> USE DEF IInv
<1>1. pending = {w} /\ ~connected
  BY DEF GotCreate, WaitersAccountedFor, SessionStages, Stages, OneWaiter
<1>2. /\ seq' \in 0..MaxSeq /\ seq' = seq + 1
      /\ pending' = {[seq |-> seq + 1, stage |-> "setup", sock |-> SendTo]}
      /\ pending' \subseteq [seq : 1..MaxSeq, stage : Stages, sock : Socks \cup {None}]
      /\ wire' \in [Socks -> SUBSET Requests]
  <2>1. Rest(i, r) \in [Socks -> SUBSET Requests] /\ SendTo \in Socks \cup {None}
    BY DEF Rest, SendTo, TypeOK
  <2>2. pending \ {w} = {}
    BY <1>1
  <2>3. Send("setup", SendTo, TRUE, {}, Rest(i, r))
    BY <2>2 DEF GotCreate
  <2>4. pending' = {[seq |-> seq + 1, stage |-> "setup", sock |-> SendTo]}
    BY <2>3 DEF Send, NextSeq
  <2> QED
    BY <2>1, <2>3, <2>4, SendType DEF Stages
<1>3. ListenerInformed'
  BY DEF GotCreate, ListenerInformed, WaitersAccountedFor
<1>4. WaitersAccountedFor'
  BY <1>2 DEF GotCreate, WaitersAccountedFor
<1>5. SessionStages'
  BY DEF GotCreate, WaitersAccountedFor, SessionStages
<1>6. OwnSocket'
  BY DEF GotCreate, WaitersAccountedFor, OwnSocket
<1>7. Numbers'
  BY DEF GotCreate, WaitersAccountedFor, Numbers, Send, NextSeq
<1>8. SessionWires'
  BY DEF GotCreate, TypeOK, WaitersAccountedFor, Numbers, SessionWires, Rest, Open, Send,
         NextSeq
<1>9. TypeOK' /\ SessionOnItsSocket' /\ OneWaiter' /\ SessionWaiters' /\ FreshWires'
  BY DEF GotCreate, TypeOK, PC, Stages, Requests, Receive, Rest, Mark, Open, Send, SendTo,
         NextSeq, SessionOnItsSocket, OneWaiter, SessionWaiters, FreshWires
<1> QED
  BY <1>3, <1>4, <1>5, <1>6, <1>7, <1>8, <1>9

\* From here on there is a session, and its requests have numbers from 4.
LEMMA GotSetupIInv ==
  ASSUME IInv, NEW i \in Socks, NEW r \in wire[i], NEW w \in pending, GotSetup(i, r, w)
  PROVE  IInv'
<1> USE DEF IInv
<1>1. pending = {w} /\ ~connected
  BY DEF GotSetup, WaitersAccountedFor, SessionStages, Stages, OneWaiter
<1>2. /\ seq' \in 0..MaxSeq /\ seq' = seq + 1
      /\ pending' = {[seq |-> seq + 1, stage |-> "limits", sock |-> SendTo]}
      /\ pending' \subseteq [seq : 1..MaxSeq, stage : Stages, sock : Socks \cup {None}]
      /\ wire' \in [Socks -> SUBSET Requests]
  <2>1. Rest(i, r) \in [Socks -> SUBSET Requests] /\ SendTo \in Socks \cup {None}
    BY DEF Rest, SendTo, TypeOK
  <2>2. pending \ {w} = {}
    BY <1>1
  <2>3. Send("limits", SendTo, TRUE, {}, Rest(i, r))
    BY <2>2 DEF GotSetup
  <2>4. pending' = {[seq |-> seq + 1, stage |-> "limits", sock |-> SendTo]}
    BY <2>3 DEF Send, NextSeq
  <2> QED
    BY <2>1, <2>3, <2>4, SendType DEF Stages
<1>3. ListenerInformed'
  BY DEF GotSetup, ListenerInformed, WaitersAccountedFor, Numbers
<1>4. WaitersAccountedFor'
  BY <1>2 DEF GotSetup, WaitersAccountedFor
<1>5. SessionOnItsSocket'
  BY DEF GotSetup, WaitersAccountedFor, SessionOnItsSocket, OwnSocket, Mark
<1>6. OwnSocket'
  BY DEF GotSetup, WaitersAccountedFor, OwnSocket
<1>7. Numbers'
  BY DEF GotSetup, WaitersAccountedFor, Numbers, Send, NextSeq
<1>8. SessionWaiters'
  BY DEF GotSetup, WaitersAccountedFor, OwnSocket, Numbers, SessionWaiters, Send, SendTo,
         NextSeq
<1>9. SessionWires'
  BY DEF GotSetup, TypeOK, WaitersAccountedFor, OwnSocket, SessionWires, Rest, Open, Send,
         SendTo
<1>10. TypeOK' /\ OneWaiter' /\ SessionStages' /\ FreshWires'
  BY DEF GotSetup, TypeOK, PC, Stages, Requests, Receive, Rest, Mark, Open, Send, SendTo,
         NextSeq, OneWaiter, SessionStages, FreshWires
<1> QED
  BY <1>3, <1>4, <1>5, <1>6, <1>7, <1>8, <1>9, <1>10

\* 'connect' is emitted, for a session that runs on connect()'s own socket.
LEMMA GotLimitsIInv ==
  ASSUME IInv, NEW i \in Socks, NEW r \in wire[i], NEW w \in pending, GotLimits(i, r, w)
  PROVE  IInv'
<1> USE DEF IInv
<1>1. ListenerInformed'
  BY DEF GotLimits, ListenerInformed, SessionWaiters, SessionWires, Receive, Readable, Waiters
<1>2. WaitersAccountedFor'
  BY DEF GotLimits, WaitersAccountedFor, OneWaiter, Stages
<1>3. SessionOnItsSocket'
  BY DEF GotLimits, SessionOnItsSocket, SessionWaiters, SessionWires, Receive, Readable, Mark,
         Waiters
<1>4. /\ TypeOK' /\ OneWaiter' /\ SessionStages' /\ OwnSocket' /\ Numbers' /\ SessionWaiters'
      /\ SessionWires' /\ FreshWires'
  BY DEF GotLimits, TypeOK, PC, Receive, Rest, Mark, OneWaiter, SessionStages, OwnSocket,
         Numbers, SessionWaiters, SessionWires, Open, FreshWires
<1> QED
  BY <1>1, <1>2, <1>3, <1>4

\* A graceful teardown ends like any other.
LEMMA GotDeleteIInv ==
  ASSUME IInv, NEW i \in Socks, NEW r \in wire[i], NEW w \in pending, GotDelete(i, r, w)
  PROVE  IInv'
<1> USE DEF IInv
<1>1. SessionOnItsSocket'
  BY DEF GotDelete, SessionOnItsSocket, SessionWaiters, SessionWires, Readable, Mark, Waiters,
         DropSession, ResetSession
<1>2. SessionWires'
  BY DEF GotDelete, OwnSocket, SessionWires, Rest, Open, DropSession, ResetSession, TDisconnect, Destroyed
<1>3. /\ TypeOK' /\ ListenerInformed' /\ WaitersAccountedFor' /\ OneWaiter' /\ SessionStages'
      /\ OwnSocket' /\ Numbers' /\ SessionWaiters' /\ FreshWires'
  BY DEF GotDelete, TypeOK, PC, SockState, Rest, Mark, DropSession, ResetSession, TDisconnect, Destroyed,
         WaitersAfterReset, ListenerInformed, WaitersAccountedFor, Stages, OneWaiter,
         SessionStages, OwnSocket, Numbers, SessionWaiters, FreshWires
<1> QED
  BY <1>1, <1>2, <1>3

\* A refusal ends connect(), and the session if it had one.
LEMMA RefusedIInv ==
  ASSUME IInv, NEW i \in Socks, NEW r \in wire[i], NEW w \in pending, Refused(i, r, w)
  PROVE  IInv'
<1> USE DEF IInv
<1>1. /\ TransportType' /\ connected' \in BOOLEAN /\ told' \in {"nothing", "connect", "disconnect"}
      /\ pending' \subseteq pending
  <2>1. CASE w.stage = "limits"
    BY <2>1, ResetSessionType DEF Refused, LimitsRefused, TypeOK
  <2>2. CASE w.stage # "limits"
    <3>1. TransportType'
      BY <2>2 DEF Refused, Receive, TypeOK, TransportType
    <3>2. connected' = connected /\ told' = told /\ pending' \subseteq pending
      BY <2>2 DEF Refused
    <3> QED
      BY <3>1, <3>2 DEF TypeOK
  <2> QED
    BY <2>1, <2>2
<1>2. wire' \in [Socks -> SUBSET Requests] /\ misled' \in BOOLEAN
  BY DEF Refused, Rest, Mark, TypeOK
<1>3. TypeOK'
  BY <1>1, <1>2 DEF Refused, TypeOK, TransportType, PC
<1>4. ListenerInformed'
  BY DEF Refused, ListenerInformed, WaitersAccountedFor, LimitsRefused, ResetSession
<1>5. WaitersAccountedFor'
  BY DEF Refused, WaitersAccountedFor, OneWaiter, Stages, LimitsRefused, ResetSession,
         WaitersAfterReset
<1>6. SessionOnItsSocket'
  BY DEF Refused, SessionOnItsSocket, SessionWaiters, SessionWires, Readable, Mark, Waiters,
         LimitsRefused, ResetSession
<1>7. SessionWires'
  BY DEF Refused, OwnSocket, SessionWires, Rest, Open, LimitsRefused, ResetSession, TDisconnect,
         Destroyed
<1>8. /\ OneWaiter' /\ SessionStages' /\ OwnSocket' /\ Numbers' /\ SessionWaiters'
      /\ FreshWires'
  BY DEF Refused, OneWaiter, LimitsRefused, ResetSession, WaitersAfterReset, SessionStages,
         OwnSocket, Numbers, SessionWaiters, FreshWires, Rest, TDisconnect, Destroyed
<1> QED
  BY <1>3, <1>4, <1>5, <1>6, <1>7, <1>8

\* The timer of a session's request ends the session; that of a connect()
\* without one only takes its waiter.
LEMMA ResponseTimeoutIInv ==
  ASSUME IInv, NEW w \in pending, ResponseTimeout(w)
  PROVE  IInv'
<1> USE DEF IInv
<1>1. /\ TransportType' /\ connected' \in BOOLEAN /\ told' \in {"nothing", "connect", "disconnect"}
      /\ pending' \subseteq pending /\ pc' \in PC
  <2>1. CASE connected
    BY <2>1, ResetSessionType DEF ResponseTimeout, DropSession, ResetSession, StageAfterReject, PC, TypeOK
  <2>2. CASE ~connected
    <3>1. TransportType'
      BY <2>2 DEF ResponseTimeout, transport, TypeOK, TransportType
    <3>2. connected' = connected /\ told' = told /\ pending' \subseteq pending
      BY <2>2 DEF ResponseTimeout
    <3>3. pc' \in PC
      BY DEF ResponseTimeout, StageAfterReject, PC, TypeOK
    <3> QED
      BY <3>1, <3>2, <3>3 DEF TypeOK
  <2> QED
    BY <2>1, <2>2
<1>2. TypeOK'
  BY <1>1 DEF ResponseTimeout, TypeOK, TransportType
<1>3. WaitersAccountedFor'
  BY DEF ResponseTimeout, WaitersAccountedFor, OneWaiter, Stages, DropSession, ResetSession,
         WaitersAfterReset, StageAfterReject
<1>4. OwnSocket'
  BY DEF ResponseTimeout, OwnSocket, Numbers, DropSession, ResetSession, StageAfterReject, Open, transport
<1>5. SessionWires'
  BY DEF ResponseTimeout, OwnSocket, SessionWires, DropSession, ResetSession, TDisconnect, Destroyed, Open
<1>6. /\ ListenerInformed' /\ SessionOnItsSocket' /\ OneWaiter' /\ SessionStages' /\ Numbers'
      /\ SessionWaiters' /\ FreshWires'
  BY DEF ResponseTimeout, ListenerInformed, DropSession, ResetSession, SessionOnItsSocket, OneWaiter,
         WaitersAfterReset, SessionStages, Stages, StageAfterReject, Numbers, SessionWaiters,
         FreshWires, TDisconnect, Destroyed
<1> QED
  BY <1>2, <1>3, <1>4, <1>5, <1>6

\* A connection that the peer closes is still to be reported by its close event.
LEMMA DieIInv ==
  ASSUME IInv, NEW i \in Socks, Die(i)
  PROVE  IInv'
  BY DEF IInv, Die, TypeOK, SockState, client, transport, ListenerInformed, WaitersAccountedFor,
         SessionOnItsSocket, OneWaiter, SessionStages, OwnSocket, Open, Numbers, SessionWaiters,
         SessionWires, FreshWires

\* The close event of any socket, the session's or a leaked one, ends the
\* session: its socket is destroyed, and what it could answer is never read.
LEMMA CloseEventIInv ==
  ASSUME IInv, NEW i \in Socks, CloseEvent(i)
  PROVE  IInv'
<1> USE DEF IInv
<1>1. TransportType' /\ connected' \in BOOLEAN /\ told' \in {"nothing", "connect", "disconnect"}
  <2>1. CASE connected
    <3>1. [Destroyed EXCEPT ![i] = "free"] \in [Socks -> SockState] /\ loops \ {i} \in SUBSET Socks
      BY DestroyedType DEF SockState, TypeOK
    <3>2. TDisconnect([Destroyed EXCEPT ![i] = "free"], loops \ {i})
      BY <2>1 DEF CloseEvent
    <3>3. connected' = FALSE /\ told' = "disconnect"
      BY <2>1 DEF CloseEvent
    <3> QED
      BY <3>1, <3>2, <3>3, TDisconnectType
  <2>2. CASE ~connected
    <3>1. TransportType'
      BY <2>2 DEF CloseEvent, TypeOK, TransportType, SockState
    <3>2. connected' = connected /\ told' = told
      BY <2>2 DEF CloseEvent
    <3> QED
      BY <3>1, <3>2 DEF TypeOK
  <2> QED
    BY <2>1, <2>2
<1>2. pc' \in PC /\ wire' \in [Socks -> SUBSET Requests]
  BY DEF CloseEvent, StageAfterReject, PC, TypeOK
<1>3. TypeOK'
  BY <1>1, <1>2 DEF CloseEvent, TypeOK, TransportType, WaitersAfterReset
<1>4. OwnSocket'
  BY DEF CloseEvent, TypeOK, OwnSocket, Numbers, Stages, StageAfterReject, Open
<1>5. SessionWires'
  <2> SUFFICES ASSUME NEW j \in Socks, Open(j)', NEW r \in wire'[j], r.seq >= 4
               PROVE  FALSE
    BY DEF SessionWires
  <2>1. j # i /\ Open(j) /\ r \in wire[j]
    BY DEF CloseEvent, Open, TDisconnect, Destroyed, TypeOK
  <2>2. connected /\ j = cur
    BY <2>1 DEF SessionWires
  <2>3. sock'[j] # "open"
    BY <2>1, <2>2 DEF CloseEvent, TDisconnect, Destroyed, OwnSocket, TypeOK
  <2> QED
    BY <2>3 DEF Open
<1>6. /\ ListenerInformed' /\ WaitersAccountedFor' /\ SessionOnItsSocket' /\ OneWaiter'
      /\ SessionStages' /\ Numbers' /\ SessionWaiters' /\ FreshWires'
  BY DEF CloseEvent, ListenerInformed, WaitersAccountedFor, Stages, WaitersAfterReset,
         StageAfterReject, SessionOnItsSocket, OneWaiter, SessionStages, Numbers,
         SessionWaiters, TypeOK, FreshWires, TDisconnect, Destroyed
<1> QED
  BY <1>3, <1>4, <1>5, <1>6

\* forceDisconnect() rejects every waiter, that of connect() included.
LEMMA ForceDisconnectIInv ==
  ASSUME IInv, ForceDisconnect
  PROVE  IInv'
<1> USE DEF IInv
<1>1. SessionWires'
  BY DEF ForceDisconnect, OwnSocket, SessionWires, DropSession, ResetSession, TDisconnect, Destroyed, Open
<1>2. /\ TypeOK' /\ ListenerInformed' /\ WaitersAccountedFor' /\ SessionOnItsSocket'
      /\ OneWaiter' /\ SessionStages' /\ OwnSocket' /\ Numbers' /\ SessionWaiters'
      /\ FreshWires'
  BY DEF ForceDisconnect, TypeOK, PC, SockState, DropSession, ResetSession, TDisconnect, Destroyed,
         WaitersAfterReset, StageAfterReject, ListenerInformed, WaitersAccountedFor, Stages,
         SessionOnItsSocket, OneWaiter, SessionStages, OwnSocket, Open, Numbers, SessionWaiters,
         FreshWires
<1> QED
  BY <1>1, <1>2

\* A user request is sent on the session's socket, with a number from 4.
LEMMA UserSendIInv ==
  ASSUME IInv, UserSend
  PROVE  IInv'
<1> USE DEF IInv
<1>1. SessionWaiters'
  BY DEF UserSend, TypeOK, OwnSocket, Numbers, SessionWaiters, Send, SendTo, NextSeq
<1>2. SessionWires'
  BY DEF UserSend, OwnSocket, SessionWires, Send, SendTo, Open
<1>3. /\ TypeOK' /\ ListenerInformed' /\ WaitersAccountedFor' /\ SessionOnItsSocket'
      /\ OneWaiter' /\ SessionStages' /\ OwnSocket' /\ Numbers' /\ FreshWires'
  BY DEF UserSend, TypeOK, Stages, Requests, Send, SendTo, NextSeq, Open, transport,
         ListenerInformed, WaitersAccountedFor, SessionOnItsSocket, OneWaiter, SessionStages,
         OwnSocket, Numbers, FreshWires
<1> QED
  BY <1>1, <1>2, <1>3

\* The environment's promise changes nothing.
LEMMA CalmIInv ==
  ASSUME IInv, Calm
  PROVE  IInv'
  BY DEF IInv, Calm, TypeOK, client, transport, ListenerInformed, WaitersAccountedFor,
         SessionOnItsSocket, OneWaiter, SessionStages, OwnSocket, Open, Numbers, SessionWaiters,
         SessionWires, FreshWires

\* disconnect() with and without a session to say goodbye to.
LEMMA DisconnectIInv ==
  ASSUME IInv, Disconnect
  PROVE  IInv'
<1> USE DEF IInv
<1>1. CASE connected /\ tSock # None /\ sock[tSock] \in {"open", "dead"}
  <2>1. /\ Send("delete", SendTo, TRUE, pending, wire) /\ pc = "idle" /\ pc' = "delete"
        /\ UNCHANGED <<connected, told, transport, sock>>
    BY <1>1 DEF Disconnect
  <2>2. /\ seq' \in 0..MaxSeq /\ seq' = seq + 1
        /\ pending' = pending \cup {[seq |-> seq + 1, stage |-> "delete", sock |-> SendTo]}
        /\ pending' \subseteq [seq : 1..MaxSeq, stage : Stages, sock : Socks \cup {None}]
        /\ wire' \in [Socks -> SUBSET Requests]
    BY <2>1, SendType DEF SendTo, TypeOK, Stages
  <2>3. TypeOK'
    BY <2>2 DEF Disconnect, TypeOK, PC, Stages, Send, transport
  <2>4. ListenerInformed'
    BY <2>2 DEF Disconnect, ListenerInformed, Send
  <2>5. WaitersAccountedFor'
    BY <2>1, <2>2 DEF WaitersAccountedFor, Stages
  <2>6. SessionOnItsSocket'
    BY <2>2 DEF Disconnect, SessionOnItsSocket, Send, transport
  <2>7. OneWaiter'
    BY <2>2 DEF Disconnect, WaitersAccountedFor, OneWaiter, Stages
  <2>8. SessionStages'
    BY DEF Disconnect, SessionStages
  <2>9. OwnSocket'
    BY <2>2 DEF Disconnect, OwnSocket, Send, transport
  <2>10. Numbers'
    BY <2>2 DEF Disconnect, TypeOK, Numbers, Send
  <2>11. SessionWaiters'
    BY <2>2 DEF Disconnect, TypeOK, OwnSocket, Numbers, SessionWaiters, Send, SendTo
  <2>12. SessionWires'
    BY <2>2 DEF Disconnect, OwnSocket, SessionWires, Send, SendTo, Open
  <2>13. FreshWires'
    BY <2>2 DEF Disconnect, FreshWires, Send, Open
  <2> QED
    BY <2>3, <2>4, <2>5, <2>6, <2>7, <2>8, <2>9, <2>10, <2>11, <2>12, <2>13
<1>2. CASE ~(connected /\ tSock # None /\ sock[tSock] \in {"open", "dead"})
  <2>1. DropSession /\ UNCHANGED <<pc, seq, wire>>
    BY <1>2 DEF Disconnect
  <2>2. TransportType' /\ connected' = FALSE /\ told' = "disconnect" /\ pending' = {}
    BY <2>1, ResetSessionType DEF DropSession, ResetSession
  <2>3. TypeOK'
    BY <2>2 DEF Disconnect, TypeOK, TransportType
  <2>4. ListenerInformed'
    BY DEF Disconnect, ListenerInformed, DropSession, ResetSession
  <2>5. WaitersAccountedFor'
    BY <2>2 DEF Disconnect, WaitersAccountedFor, Stages
  <2>6. SessionOnItsSocket'
    BY DEF Disconnect, SessionOnItsSocket, DropSession, ResetSession, transport
  <2>7. OneWaiter'
    BY <2>2 DEF Disconnect, OneWaiter
  <2>8. SessionStages'
    BY DEF Disconnect, SessionStages
  <2>9. OwnSocket'
    BY DEF Disconnect, OwnSocket, DropSession, ResetSession, transport
  <2>10. Numbers'
    BY <2>2 DEF Disconnect, Numbers
  <2>11. SessionWaiters'
    BY <2>2 DEF Disconnect, SessionWaiters
  <2>12. SessionWires'
    BY <2>1 DEF Disconnect, OwnSocket, SessionWires, DropSession, ResetSession, TDisconnect, Destroyed, Open
  <2>13. FreshWires'
    BY <2>1 DEF Disconnect, FreshWires, DropSession, ResetSession, TDisconnect, Destroyed
  <2> QED
    BY <2>3, <2>4, <2>5, <2>6, <2>7, <2>8, <2>9, <2>10, <2>11, <2>12, <2>13
<1> QED
  BY <1>1, <1>2

\* Every step of the client, its sockets and its users preserves the invariant.
LEMMA NextIInv ==
  ASSUME IInv, [Next]_vars
  PROVE  IInv'
<1>1. CASE ConnectStart
  BY <1>1, ConnectStartIInv
<1>2. CASE ConnectStep
  BY <1>2, TcpFailIInv, TcpUpIInv, CotpFailIInv, CotpUpIInv, TlsFailIInv, TlsUpIInv
     DEF ConnectStep
<1>3. CASE Timer
  BY <1>3, ResponseTimeoutIInv DEF Timer
<1>4. ASSUME NEW i \in Socks, Respond(i)
      PROVE  IInv'
  BY <1>4, UnmatchedIInv, GotUserIInv, GotInitSslIInv, GotCreateIInv, GotSetupIInv,
     GotLimitsIInv, GotDeleteIInv, RefusedIInv
     DEF Respond
<1>5. ASSUME NEW i \in Socks, Die(i) \/ CloseEvent(i)
      PROVE  IInv'
  BY <1>5, DieIInv, CloseEventIInv
<1>6. CASE ForceDisconnect \/ Disconnect \/ UserSend \/ Calm
  BY <1>6, ForceDisconnectIInv, DisconnectIInv, UserSendIInv, CalmIInv
<1>7. CASE UNCHANGED vars
  <2>1. UNCHANGED <<client, transport, cur, sock, tlsOn, wire, sslFrom, calm, misled>>
    BY <1>7 DEF vars, network
  <2>2. TypeOK'
    BY <2>1 DEF client, transport, IInv, TypeOK
  <2>3. ListenerInformed' /\ WaitersAccountedFor' /\ SessionOnItsSocket'
    BY <2>1 DEF client, transport, IInv, ListenerInformed, WaitersAccountedFor,
       SessionOnItsSocket
  <2>4. /\ OneWaiter' /\ SessionStages' /\ OwnSocket' /\ Numbers'
        /\ SessionWaiters' /\ SessionWires' /\ FreshWires'
    BY <2>1 DEF client, transport, IInv, OneWaiter, SessionStages, OwnSocket, Numbers,
       SessionWaiters, SessionWires, FreshWires, Open
  <2> QED
    BY <2>2, <2>3, <2>4 DEF IInv
<1> QED
  BY <1>1, <1>2, <1>3, <1>4, <1>5, <1>6, <1>7 DEF Next

THEOREM InductiveInvariant == Spec => []IInv
<1>1. Init => IInv
  BY InitIInv
<1>2. IInv /\ [Next]_vars => IInv'
  BY NextIInv
<1> QED
  BY <1>1, <1>2, PTL DEF Spec

-----------------------------------------------------------------------------
\* The variables keep their types, and the transport is in TLS mode exactly
\* while it has a TLS socket (S7CommPlusTransport.disconnect, sslActivate).
THEOREM SessionTypes == Spec => []TypeOK
<1>1. IInv => TypeOK
  BY DEF IInv
<1> QED
  BY <1>1, InductiveInvariant, PTL

\* No promise of a request is left behind by a teardown (_resetReceiveState),
\* and the stage of connect() or disconnect() in progress has its waiter.
THEOREM NobodyWaitsInVain == Spec => []WaitersAccountedFor
<1>1. IInv => WaitersAccountedFor
  BY DEF IInv
<1> QED
  BY <1>1, InductiveInvariant, PTL

\* A session lives on the socket of its own connect(), and no response to one
\* of its requests comes from another, however many connects came and went.
THEOREM SessionKeepsItsSocket == Spec => []SessionOnItsSocket
<1>1. IInv => SessionOnItsSocket
  BY DEF IInv
<1> QED
  BY <1>1, InductiveInvariant, PTL

-----------------------------------------------------------------------------
(* The refinement of Session *)

\* A step that the promise does not speak of.
LEMMA Unseen ==
  ASSUME SessionConn' = SessionConn, told' = told, Calls' = Calls
  PROVE  [Promise!Next]_(Promise!vars)
  BY DEF Promise!vars

\* A waiter of connect() or disconnect() is not a request that the promise
\* speaks of.
LEMMA StageCalls ==
  ASSUME NEW stage \in Stages \ {"user"}, NEW to, NEW answerable, NEW base,
         NEW others, others = pending \/ \E w \in pending : w.stage # "user" /\ others = pending \ {w},
         Send(stage, to, answerable, others, base) \/ pending' = others
  PROVE  Calls' = Calls
<1>1. \A w : w \in pending' /\ w.stage = "user" <=> w \in pending /\ w.stage = "user"
  BY DEF Send
<1> QED
  BY <1>1 DEF Calls

\* Without a session no request waits.
LEMMA NoSession ==
  ASSUME IInv, ~connected
  PROVE  Calls = {} /\ SessionConn \in {"down", "early"}
<1>1. \A w \in pending : w.stage # "user"
  <2> SUFFICES ASSUME NEW w \in pending, w.stage = "user" PROVE FALSE
    OBVIOUS
  <2>1. w.stage = pc
    BY DEF IInv, WaitersAccountedFor
  <2> QED
    BY <2>1 DEF IInv, TypeOK, PC
<1>2. Calls = {}
  BY <1>1 DEF Calls
<1>3. pc # "delete"
  BY DEF IInv, SessionStages
<1> QED
  BY <1>2, <1>3 DEF SessionConn

\* Whatever ends a session with an event, or a connect() that has none.
LEMMA EndKeepsPromise ==
  ASSUME IInv, connected' = FALSE, told' = IF connected THEN "disconnect" ELSE told, Calls' = {},
         pc' = "idle" \/ (~connected /\ pc' = pc)
  PROVE  [Promise!Next]_(Promise!vars)
<1>1. CASE connected
  <2>1. SessionConn \in {"late", "up", "closing"} /\ SessionConn' = "down"
    BY <1>1 DEF SessionConn
  <2>2. Promise!End
    BY <1>1, <2>1 DEF Promise!End
  <2> QED
    BY <2>2 DEF Promise!Next
<1>2. CASE ~connected
  <2>1. Calls = {} /\ told' = told /\ SessionConn \in {"down", "early"}
    BY <1>2, NoSession
  <2>2. CASE SessionConn' = SessionConn
    BY <2>1, <2>2, Unseen
  <2>3. CASE SessionConn' # SessionConn
    <3>1. SessionConn = "early" /\ SessionConn' = "down"
      BY <1>2, <2>1, <2>3 DEF SessionConn
    <3>2. Promise!Reject
      BY <2>1, <3>1 DEF Promise!Reject
    <3> QED
      BY <3>2 DEF Promise!Next
  <2> QED
    BY <2>2, <2>3
<1> QED
  BY <1>1, <1>2

\* The steps of connect() before its first request is answered.
LEMMA StartKeepsPromise ==
  ASSUME IInv, ConnectStart \/ ConnectStep
  PROVE  [Promise!Next]_(Promise!vars)
<1>1. CASE ConnectStart
  <2>1. /\ pc = "idle" /\ pc' = "tcp" /\ connected' = FALSE /\ pending' = {}
        /\ told' = IF connected THEN "disconnect" ELSE told
    BY <1>1 DEF ConnectStart, WaitersAfterReset
  <2>2. SessionConn' = "early" /\ Calls' = {}
    BY <2>1 DEF SessionConn, Calls
  <2>3. CASE connected
    <3>1. Promise!Renew
      BY <2>1, <2>2, <2>3 DEF Promise!Renew, SessionConn
    <3> QED
      BY <3>1 DEF Promise!Next
  <2>4. CASE ~connected
    <3>1. Promise!Begin
      BY <2>1, <2>2, <2>4, NoSession DEF Promise!Begin, SessionConn
    <3> QED
      BY <3>1 DEF Promise!Next
  <2> QED
    BY <2>3, <2>4
<1>2. CASE ConnectStep
  <2>1. /\ pc \in {"tcp", "cotp", "tls"} /\ connected' = connected /\ told' = told
        /\ pc' \in PC \ {"limits", "delete"}
    BY <1>2 DEF ConnectStep, TcpFail, TcpUp, CotpFail, CotpUp, TlsFail, TlsUp, PC, Stages
  <2>2. ~connected
    BY <2>1 DEF IInv, SessionStages
  <2>3. Calls' = Calls
    <3>1. CASE TcpFail \/ TcpUp \/ CotpFail \/ TlsFail
      BY <3>1 DEF TcpFail, TcpUp, CotpFail, TlsFail, Calls
    <3>2. CASE CotpUp
      <4>1. Send("initssl", SendTo, ~ssl, pending, wire)
        BY <3>2 DEF CotpUp
      <4> QED
        BY <4>1, StageCalls DEF Stages
    <3>3. CASE TlsUp
      <4>1. Send("create", cur, TRUE, pending, wire)
        BY <3>3 DEF TlsUp
      <4> QED
        BY <4>1, StageCalls DEF Stages
    <3> QED
      BY <1>2, <3>1, <3>2, <3>3 DEF ConnectStep
  <2>4. Calls = {}
    BY <2>2, NoSession
  <2>5. CASE pc' = "idle"
    <3>1. connected' = FALSE /\ told' = told /\ Calls' = {}
      BY <2>1, <2>2, <2>3, <2>4 DEF IInv, TypeOK
    <3> QED
      BY <2>2, <2>5, <3>1, EndKeepsPromise
  <2>6. CASE pc' # "idle"
    <3>1. SessionConn = "early" /\ SessionConn' = "early"
      BY <2>1, <2>2, <2>6 DEF SessionConn
    <3> QED
      BY <2>1, <2>3, <3>1, Unseen
  <2> QED
    BY <2>5, <2>6
<1> QED
  BY <1>1, <1>2

\* A response: it lets requests in, ends connect() or disconnect(), or answers
\* a request.
LEMMA ResponseKeepsPromise ==
  ASSUME IInv, NEW i \in Socks, Respond(i)
  PROVE  [Promise!Next]_(Promise!vars)
<1>1. PICK r \in wire[i] :
        \/ Unmatched(i, r)
        \/ \E w \in pending :
             \/ GotUser(i, r, w) \/ GotInitSsl(i, r, w) \/ GotCreate(i, r, w)
             \/ GotSetup(i, r, w) \/ GotLimits(i, r, w) \/ GotDelete(i, r, w)
             \/ Refused(i, r, w)
  BY DEF Respond
<1>2. CASE Unmatched(i, r)
  BY <1>2, Unseen DEF Unmatched, client, SessionConn, Calls
<1>3. ASSUME NEW w \in pending, w.stage # "user"
      PROVE  /\ w.stage = pc /\ pc # "idle" /\ w.stage \in Stages
             /\ connected <=> w.stage \in {"limits", "delete"}
  BY <1>3 DEF IInv, WaitersAccountedFor, TypeOK, SessionStages, Stages
<1>4. ASSUME NEW w \in pending, GotUser(i, r, w)
      PROVE  [Promise!Next]_(Promise!vars)
  <2>1. /\ w.stage = "user" /\ pending' = pending \ {w} /\ UNCHANGED <<pc, connected, told>>
        /\ SessionConn' = SessionConn
    BY <1>4 DEF GotUser, SessionConn
  <2>2. CASE Calls' = Calls
    BY <2>1, <2>2, Unseen
  <2>3. CASE Calls' # Calls
    <3>1. Calls' = Calls \ {w.seq} /\ w.seq \in Calls
      BY <2>1, <2>3 DEF Calls
    <3>2. w.seq \in 1..MaxSeq
      BY DEF IInv, TypeOK
    <3>3. Promise!Answer(w.seq)
      BY <2>1, <3>1 DEF Promise!Answer
    <3> QED
      BY <3>2, <3>3 DEF Promise!Next
  <2> QED
    BY <2>2, <2>3
<1>5. ASSUME NEW w \in pending, GotInitSsl(i, r, w)
      PROVE  [Promise!Next]_(Promise!vars)
  <2>1. /\ w.stage = "initssl" /\ pending' = pending \ {w} /\ pc' = "tls"
        /\ UNCHANGED <<connected, told>>
    BY <1>5 DEF GotInitSsl
  <2>2. Calls' = Calls
    BY <2>1 DEF Calls
  <2>3. SessionConn' = SessionConn
    BY <1>3, <2>1 DEF SessionConn
  <2> QED
    BY <2>1, <2>2, <2>3, Unseen
<1>6. ASSUME NEW w \in pending, GotCreate(i, r, w)
      PROVE  [Promise!Next]_(Promise!vars)
  <2>1. /\ w.stage = "create" /\ Send("setup", SendTo, TRUE, pending \ {w}, Rest(i, r))
        /\ pc' = "setup" /\ UNCHANGED <<connected, told>>
    BY <1>6 DEF GotCreate
  <2>2. Calls' = Calls
    BY <2>1, StageCalls DEF Stages
  <2>3. SessionConn' = SessionConn
    BY <1>3, <2>1 DEF SessionConn
  <2> QED
    BY <2>1, <2>2, <2>3, Unseen
<1>7. ASSUME NEW w \in pending, GotSetup(i, r, w)
      PROVE  [Promise!Next]_(Promise!vars)
  <2>1. /\ w.stage = "setup" /\ Send("limits", SendTo, TRUE, pending \ {w}, Rest(i, r))
        /\ pc' = "limits" /\ connected' = TRUE /\ told' = "nothing"
    BY <1>7 DEF GotSetup
  <2>2. Calls' = Calls
    BY <2>1, StageCalls DEF Stages
  <2>3. SessionConn = "early" /\ SessionConn' = "late"
    BY <1>3, <2>1 DEF SessionConn
  <2>4. Promise!LetIn
    BY <2>1, <2>2, <2>3 DEF Promise!LetIn
  <2> QED
    BY <2>4 DEF Promise!Next
<1>8. ASSUME NEW w \in pending, GotLimits(i, r, w)
      PROVE  [Promise!Next]_(Promise!vars)
  <2>1. /\ w.stage = "limits" /\ pending' = pending \ {w}
        /\ pc' = "idle" /\ told' = "connect" /\ connected' = connected
    BY <1>8 DEF GotLimits
  <2>2. Calls' = Calls
    BY <2>1 DEF Calls
  <2>3. SessionConn = "late" /\ SessionConn' = "up"
    BY <1>3, <2>1 DEF SessionConn
  <2>4. Promise!Resolve
    BY <2>1, <2>2, <2>3 DEF Promise!Resolve
  <2> QED
    BY <2>4 DEF Promise!Next
<1>9. ASSUME NEW w \in pending, GotDelete(i, r, w)
      PROVE  [Promise!Next]_(Promise!vars)
  <2>1. pc' = "idle" /\ connected' = FALSE /\ told' = "disconnect" /\ pending' = {} /\ connected
    BY <1>3, <1>9 DEF GotDelete, DropSession, ResetSession, WaitersAfterReset
  <2>2. Calls' = {}
    BY <2>1 DEF Calls
  <2> QED
    BY <2>1, <2>2, EndKeepsPromise
<1>10. ASSUME NEW w \in pending, Refused(i, r, w)
       PROVE  [Promise!Next]_(Promise!vars)
  <2>1. /\ w.stage \in {"initssl", "create", "setup", "limits"} /\ pc' = "idle"
        /\ IF w.stage = "limits"
             THEN connected' = FALSE /\ told' = told /\ pending' = {}
             ELSE UNCHANGED <<connected, told>> /\ pending' = pending \ {w}
    BY <1>10 DEF Refused, LimitsRefused, ResetSession, WaitersAfterReset
  <2>2. CASE w.stage = "limits"
    <3>1. SessionConn = "late" /\ SessionConn' = "down" /\ Calls' = {}
      BY <1>3, <2>1, <2>2 DEF SessionConn, Calls
    <3>2. Promise!Refuse
      BY <2>1, <2>2, <3>1 DEF Promise!Refuse
    <3> QED
      BY <3>2 DEF Promise!Next
  <2>3. CASE w.stage # "limits"
    <3>1. ~connected
      BY <1>3, <2>1, <2>3
    <3>2. Calls' = Calls
      BY <2>1, <2>3 DEF Calls
    <3>3. connected' = FALSE
      BY <2>1, <2>3, <3>1 DEF IInv, TypeOK
    <3> QED
      BY <2>1, <2>3, <3>1, <3>2, <3>3, NoSession, EndKeepsPromise
  <2> QED
    BY <2>2, <2>3
<1> QED
  BY <1>1, <1>2, <1>4, <1>5, <1>6, <1>7, <1>8, <1>9, <1>10

\* Timers, sockets that close, and forceDisconnect().
LEMMA LossKeepsPromise ==
  ASSUME IInv, Timer \/ ForceDisconnect \/ \E i \in Socks : CloseEvent(i)
  PROVE  [Promise!Next]_(Promise!vars)
<1>1. connected => StageAfterReject = "idle" /\ pc # "cotp"
  BY DEF StageAfterReject, IInv, SessionStages, Stages
<1>2. StageAfterReject \in {"idle", pc}
  BY DEF StageAfterReject
<1>4. ASSUME NEW i \in Socks, CloseEvent(i)
      PROVE  [Promise!Next]_(Promise!vars)
  <2>1. /\ pending' = {} /\ (pc' = "idle" \/ pc' = StageAfterReject)
        /\ IF connected THEN connected' = FALSE /\ told' = "disconnect"
                        ELSE UNCHANGED <<connected, told>>
    BY <1>4 DEF CloseEvent, WaitersAfterReset
  <2>2. connected' = FALSE /\ told' = IF connected THEN "disconnect" ELSE told
    BY <2>1 DEF IInv, TypeOK
  <2>3. Calls' = {}
    BY <2>1 DEF Calls
  <2> QED
    BY <1>1, <1>2, <2>1, <2>2, <2>3, EndKeepsPromise
<1>5. CASE ForceDisconnect
  <2>1. /\ pending' = {} /\ connected' = FALSE
        /\ told' = IF connected THEN "disconnect" ELSE told
        /\ (pc' = "idle" \/ pc' = StageAfterReject)
    BY <1>5 DEF ForceDisconnect, ResetSession, WaitersAfterReset
  <2>2. Calls' = {}
    BY <2>1 DEF Calls
  <2> QED
    BY <1>1, <1>2, <2>1, <2>2, EndKeepsPromise
<1>6. ASSUME NEW w \in pending, ResponseTimeout(w)
      PROVE  [Promise!Next]_(Promise!vars)
  <2>1. CASE connected
    <3>1. /\ pending' = {} /\ connected' = FALSE /\ told' = "disconnect"
          /\ pc' = StageAfterReject
      BY <1>6, <2>1 DEF ResponseTimeout, DropSession, ResetSession, WaitersAfterReset
    <3> QED
      BY <1>1, <2>1, <3>1, EndKeepsPromise DEF Calls
  <2>2. CASE ~connected
    <3>1. /\ pending' = pending \ {w} /\ UNCHANGED <<connected, told>>
          /\ pc' = IF w.stage # "user" THEN StageAfterReject ELSE pc
      BY <1>6, <2>2 DEF ResponseTimeout
    <3>2. Calls' = {}
      <4>1. Calls = {}
        BY <2>2, NoSession
      <4> QED
        BY <3>1, <4>1 DEF Calls
    <3>3. connected' = FALSE
      BY <2>2, <3>1 DEF IInv, TypeOK
    <3> QED
      BY <1>2, <2>2, <3>1, <3>2, <3>3, EndKeepsPromise
  <2> QED
    BY <2>1, <2>2
<1> QED
  BY <1>4, <1>5, <1>6 DEF Timer

\* disconnect() and the requests of the users.
LEMMA UserKeepsPromise ==
  ASSUME IInv, Disconnect \/ UserSend
  PROVE  [Promise!Next]_(Promise!vars)
<1>1. CASE Disconnect /\ connected /\ tSock # None /\ sock[tSock] \in {"open", "dead"}
  <2>1. /\ pc = "idle" /\ pc' = "delete" /\ UNCHANGED <<connected, told>>
        /\ Send("delete", SendTo, TRUE, pending, wire)
    BY <1>1 DEF Disconnect
  <2>2. Calls' = Calls
    BY <2>1, StageCalls DEF Stages
  <2>3. SessionConn = "up" /\ SessionConn' = "closing"
    BY <1>1, <2>1 DEF SessionConn
  <2>4. Promise!Close
    BY <2>1, <2>2, <2>3 DEF Promise!Close
  <2> QED
    BY <2>4 DEF Promise!Next
<1>2. CASE Disconnect /\ ~(connected /\ tSock # None /\ sock[tSock] \in {"open", "dead"})
  <2>1. /\ pc = "idle" /\ pc' = pc /\ connected' = FALSE /\ told' = "disconnect"
        /\ pending' = {} /\ Calls' = {}
    BY <1>2 DEF Disconnect, DropSession, ResetSession, WaitersAfterReset, Calls
  <2>2. CASE connected
    BY <2>1, <2>2, EndKeepsPromise
  <2>3. CASE ~connected
    <3>1. Promise!EndAgain
      BY <2>1, <2>3, NoSession DEF Promise!EndAgain, SessionConn
    <3> QED
      BY <3>1 DEF Promise!Next
  <2> QED
    BY <2>2, <2>3
<1>3. CASE UserSend
  <2>1. /\ connected /\ UNCHANGED <<pc, connected, told>> /\ NextSeq <= MaxSeq
        /\ pending' = pending \cup {[seq |-> NextSeq, stage |-> "user", sock |-> SendTo]}
    BY <1>3 DEF UserSend, Send
  <2>2. Calls' = Calls \cup {NextSeq}
    <3> DEFINE new == [seq |-> NextSeq, stage |-> "user", sock |-> SendTo]
    <3>1. new.seq = NextSeq /\ new.stage = "user"
      OBVIOUS
    <3>2. pending' = pending \cup {new}
      BY <2>1
    <3> HIDE DEF new
    <3>3. {v \in pending' : v.stage = "user"} = {v \in pending : v.stage = "user"} \cup {new}
      BY <3>1, <3>2
    <3> QED
      BY <3>1, <3>3 DEF Calls
  <2>3. NextSeq \in 1..MaxSeq
    BY <2>1, ClientSessionAssumption DEF NextSeq, IInv, TypeOK
  <2>4. SessionConn \in {"late", "up", "closing"} /\ SessionConn' = SessionConn
    BY <2>1 DEF SessionConn
  <2>5. Promise!Call(NextSeq)
    BY <2>1, <2>2, <2>4 DEF Promise!Call
  <2> QED
    BY <2>3, <2>5 DEF Promise!Next
<1> QED
  BY <1>1, <1>2, <1>3

\* Every step of the client is one of the promise, or one it does not speak of.
LEMMA StepKeepsPromise ==
  ASSUME IInv, [Next]_vars
  PROVE  [Promise!Next]_(Promise!vars)
<1>1. CASE Calm \/ \E i \in Socks : Die(i)
  BY <1>1, Unseen DEF Calm, Die, client, SessionConn, Calls
<1>2. CASE UNCHANGED vars
  BY <1>2, Unseen DEF vars, client, SessionConn, Calls
<1> QED
  BY <1>1, <1>2, StartKeepsPromise, ResponseKeepsPromise, LossKeepsPromise, UserKeepsPromise
     DEF Next

\* The client implements the abstract specification of what it promises: in
\* any order of responses, timeouts, close events and calls of connect(),
\* disconnect() and forceDisconnect().
THEOREM ClientKeepsPromise == Spec => KeepsPromise
<1>1. Init => Promise!Init
  BY DEF Init, Promise!Init, SessionConn, Calls
<1> QED
  BY <1>1, StepKeepsPromise, InductiveInvariant, PTL DEF Spec, KeepsPromise, Promise!Spec
=============================================================================
