------------------------------ MODULE Endpoint ------------------------------
(***************************************************************************)
(* The connection management of the endpoint node                          *)
(* (nodes/s7complus-endpoint.js): the handler of the client's 'disconnect' *)
(* event, ensureConnected() and its shared connect promise, the reconnect  *)
(* timer with its backoff, withReconnect() around every operation, the     *)
(* watchdog, and the closing of the node.                                  *)
(*                                                                         *)
(* The client is the one of module ClientSession, reduced to what the      *)
(* endpoint sees of it: conn is "down", "early" (connect() in progress and *)
(* _connected unset), "late" (_connected set, connect() not done) or "up". *)
(* That connect() succeeds once the PLC works is assumed here; it is what  *)
(* ClientSession's ReconnectSucceeds is about.                             *)
(*                                                                         *)
(* An action is one turn of the event loop, except that an operation which *)
(* failed over a lost session ("failed") retries in a reaction of its own: *)
(* Settled keeps every other turn behind those reactions.  A socket that   *)
(* is destroyed and whose close event is still to come counts as closed:   *)
(* the branches that test socketAlive do what the event does.              *)
(***************************************************************************)
EXTENDS Integers, FiniteSets

CONSTANTS
  Ops,         \* operations that run through withReconnect
  MaxAttempt   \* the attempt from which on the delay is RECONNECT_MAX_MS

ASSUME EndpointAssumption == MaxAttempt \in Nat \ {0}

VARIABLES
  conn,       \* the client's connection
  promise,    \* _connectPromise # null
  state,      \* _state
  timer,      \* _reconnectTimer # null
  attempt,    \* _reconnectAttempt, as far as the delay depends on it
  first,      \* the initial connect is awaited
  tcb,        \* the reconnect timer's callback awaits the promise
  op,         \* op[o]: where operation o is in withReconnect
  pinging,    \* the watchdog awaits its ping (watchdogBusy)
  closing,    \* _closing
  calm        \* from now on network and PLC work

vars == <<conn, promise, state, timer, attempt, first, tcb, op, pinging, closing, calm>>

ConnState == {"down", "early", "late", "up"}
OpState   == {"idle", "joining", "running", "failed", "rejoining", "retrying"}

Connected == conn \in {"late", "up"}
Settled   == \A o \in Ops : op[o] # "failed"

\* A configured endpoint connects when it is created.
Init ==
  /\ conn = "early" /\ promise = TRUE /\ state = "connecting"
  /\ timer = FALSE /\ attempt = 0 /\ first = TRUE /\ tcb = FALSE
  /\ op = [o \in Ops |-> "idle"]
  /\ pinging = FALSE /\ closing = FALSE /\ calm = FALSE

\* Mutant: the delay is not capped.
NextAttempt_Uncapped == attempt + 1

\* The attempt after a failed one: the delay doubles up to the cap.
NextAttempt == IF attempt < MaxAttempt THEN attempt + 1 ELSE attempt

\* Mutant: operations that await the promise before a retry are left out.
Joiners_FirstTryOnly == {o \in Ops : op[o] = "joining"}

\* The operations that await the promise in ensureConnected().
Joiners == {o \in Ops : op[o] \in {"joining", "rejoining"}}

-----------------------------------------------------------------------------
(* Losing the session, failing to connect *)

\* What an operation does when the session is lost under it: the first
\* failure is retried, the second one is the caller's.
AfterStale(o) == CASE op[o] = "running"  -> "failed"
                   [] op[o] = "retrying" -> "idle"

\* The operations that had a request outstanding, S, fail.
FailOps(S) == [o \in Ops |-> IF o \in S THEN AfterStale(o) ELSE op[o]]
InFlight   == {o \in Ops : op[o] \in {"running", "retrying"}}

\* Mutant: the handler schedules no reconnect.
Disconnected_NoSchedule ==
  IF ~closing /\ state = "online"
    THEN attempt' = 0 /\ state' = "connecting" /\ timer' = timer
    ELSE UNCHANGED <<attempt, state, timer>>

\* Mutant: it does nothing while the timer is armed.
Disconnected_TimerArmed ==
  IF ~closing /\ state = "online" /\ ~timer
    THEN attempt' = 0 /\ state' = "connecting" /\ timer' = ~promise
    ELSE UNCHANGED <<attempt, state, timer>>

\* The handler of 'disconnect': an online endpoint schedules a reconnect.
Disconnected ==
  IF ~closing /\ state = "online"
    THEN attempt' = 0 /\ state' = "connecting" /\ timer' = (timer \/ ~promise)
    ELSE UNCHANGED <<attempt, state, timer>>

\* Mutant: scheduleReconnect does not look at _closing.
Reschedules_Closing == (first \/ tcb) /\ ~timer

\* Of those who await connect(), the initial connect and the reconnect timer's
\* callback schedule another attempt; scheduleReconnect refuses if closing or
\* if there is a timer.
Reschedules == (first \/ tcb) /\ ~closing /\ ~timer

\* connect() fails: doConnect shows offline, the promise is cleared, and all
\* who await it go on.  S are the operations that lose a request with it.
ConnectFailed(S) ==
  /\ conn' = "down" /\ promise' = FALSE /\ first' = FALSE /\ tcb' = FALSE
  /\ attempt' = IF first THEN 1 ELSE IF tcb THEN NextAttempt ELSE attempt
  /\ IF Reschedules THEN state' = "connecting" /\ timer' = TRUE
                    ELSE state' = "offline" /\ timer' = timer
  /\ op' = [o \in Ops |-> IF o \in Joiners THEN "idle" ELSE FailOps(S)[o]]

\* The session ends: connect(), when it is not done yet, fails by that.
SessionLost ==
  /\ Connected
  /\ \E S \in SUBSET InFlight :
       IF conn = "late"
         THEN ConnectFailed(S)
         ELSE /\ conn' = "down"
              /\ Disconnected
              /\ op' = FailOps(S)
              /\ UNCHANGED <<promise, first, tcb>>

\* The socket closes or a response times out.
Lost ==
  /\ Settled /\ ~calm
  /\ SessionLost
  /\ UNCHANGED <<pinging, closing, calm>>

-----------------------------------------------------------------------------
(* Connecting *)

ConnectFail ==
  /\ Settled /\ ~calm /\ conn = "early"
  /\ ConnectFailed({})
  /\ UNCHANGED <<pinging, closing, calm>>

\* connect() sets _connected: operations are let in.
ConnectLate ==
  /\ Settled /\ conn = "early" /\ conn' = "late"
  /\ UNCHANGED <<promise, state, timer, attempt, first, tcb, op, pinging, closing, calm>>

\* connect() is done: online, and all who await the promise go on.
ConnectDone ==
  /\ Settled /\ conn = "late" /\ conn' = "up"
  /\ promise' = FALSE /\ state' = "online" /\ first' = FALSE /\ tcb' = FALSE
  /\ attempt' = IF tcb THEN 0 ELSE attempt
  /\ op' = [o \in Ops |-> IF o \notin Joiners THEN op[o]
                          ELSE IF op[o] = "joining" THEN "running" ELSE "retrying"]
  /\ UNCHANGED <<timer, pinging, closing, calm>>

\* ensureConnected() without a session: the connect() in progress is joined,
\* or one is begun, which shows "connecting".
JoinOrConnect ==
  /\ promise' = TRUE
  /\ IF promise THEN UNCHANGED <<conn, state>>
                ELSE conn' = "early" /\ state' = "connecting"

\* The reconnect timer fires (the closing node has cleared it).
TimerFires ==
  /\ Settled /\ timer /\ timer' = FALSE
  /\ IF Connected
       THEN attempt' = 0 /\ UNCHANGED <<conn, promise, state, tcb>>
       ELSE JoinOrConnect /\ tcb' = TRUE /\ UNCHANGED attempt
  /\ UNCHANGED <<first, op, pinging, closing, calm>>

-----------------------------------------------------------------------------
(* withReconnect() *)

Start(o) ==
  /\ Settled /\ ~closing /\ op[o] = "idle"
  /\ IF Connected
       THEN op' = [op EXCEPT ![o] = "running"] /\ UNCHANGED <<conn, promise, state>>
       ELSE op' = [op EXCEPT ![o] = "joining"] /\ JoinOrConnect
  /\ UNCHANGED <<timer, attempt, first, tcb, pinging, closing, calm>>

\* An operation succeeds or fails for a reason of its own.
OpDone(o) ==
  /\ Settled /\ o \in InFlight
  /\ op' = [op EXCEPT ![o] = "idle"]
  /\ UNCHANGED <<conn, promise, state, timer, attempt, first, tcb, pinging, closing, calm>>

\* Mutant: the timeout of the user lock counts as a stale connection.
StaleError_LockTimeout == TRUE

\* isStaleConnectionError of a request made now, not of one that was lost.
StaleError == ~Connected

\* An operation that had no request outstanding when the session was lost
\* finds it gone.
OpFindsSessionGone(o) ==
  /\ Settled /\ o \in InFlight /\ StaleError
  /\ op' = FailOps({o})
  /\ UNCHANGED <<conn, promise, state, timer, attempt, first, tcb, pinging, closing, calm>>

\* ensureConnected(true) before the retry: without a connect() in progress
\* what is left of the connection is torn down and a new one begun.  Nothing
\* asks whether the node is closing.
Retry(o) ==
  /\ op[o] = "failed"
  /\ op' = [op EXCEPT ![o] = IF promise /\ Connected THEN "retrying" ELSE "rejoining"]
  /\ IF promise \/ closing \/ state # "online"
       THEN UNCHANGED <<attempt, timer>>
       ELSE attempt' = 0 /\ timer' = TRUE
  /\ JoinOrConnect
  /\ UNCHANGED <<first, tcb, pinging, closing, calm>>

-----------------------------------------------------------------------------
(* The watchdog and the closing node *)

\* Mutant: without a session the watchdog just returns.
WatchdogOffline_Returns == Settled /\ ~closing /\ ~pinging /\ ~Connected /\ UNCHANGED vars

\* Without a session the watchdog schedules a reconnect if nothing else is
\* under way for it.
WatchdogOffline ==
  /\ Settled /\ ~closing /\ ~pinging /\ ~Connected /\ ~promise /\ ~timer
  /\ timer' = TRUE
  /\ state' = IF attempt > 0 THEN "connecting" ELSE state
  /\ UNCHANGED <<conn, promise, attempt, first, tcb, op, pinging, closing, calm>>

\* With one it pings.  It skips the ping, or ends a session that is silent,
\* while an operation holds the lock.
WatchdogPing ==
  /\ Settled /\ ~closing /\ ~pinging /\ Connected
  /\ pinging' = TRUE
  /\ UNCHANGED <<conn, promise, state, timer, attempt, first, tcb, op, closing, calm>>

WatchdogSilent ==
  /\ Settled /\ ~closing /\ ~pinging /\ ~calm /\ InFlight # {}
  /\ SessionLost
  /\ UNCHANGED <<pinging, closing, calm>>

PingOk ==
  /\ Settled /\ pinging /\ Connected
  /\ pinging' = FALSE
  /\ UNCHANGED <<conn, promise, state, timer, attempt, first, tcb, op, closing, calm>>

\* The ping fails, at once when the session is lost, or later when it waited
\* for the lock, and then perhaps with another session up: forceDisconnect.
\* A connect() in its TCP stage survives that, a later one fails.
PingFail ==
  /\ Settled /\ pinging /\ (calm => ~Connected)
  /\ pinging' = FALSE
  /\ CASE Connected /\ ~closing     -> SessionLost
       [] conn = "early" /\ ~closing -> \/ ConnectFailed({})
                                        \/ UNCHANGED <<conn, promise, state, timer, attempt, first, tcb, op>>
       [] OTHER -> UNCHANGED <<conn, promise, state, timer, attempt, first, tcb, op>>
  /\ UNCHANGED <<closing, calm>>

\* The node closes: timers cleared, the session ended without DeleteObject.
\* The 'disconnect' handler and scheduleReconnect do nothing any more.
Close ==
  /\ Settled /\ ~closing /\ closing' = TRUE
  /\ timer' = FALSE
  /\ \/ /\ conn = "down"
        /\ UNCHANGED <<conn, promise, state, attempt, first, tcb, op>>
     \/ /\ conn = "up" /\ conn' = "down"
        /\ \E S \in SUBSET InFlight : op' = FailOps(S)
        /\ UNCHANGED <<promise, state, attempt, first, tcb>>
     \/ /\ conn = "early"
        /\ UNCHANGED <<conn, promise, state, attempt, first, tcb, op>>
     \/ /\ conn \in {"early", "late"}
        /\ conn' = "down" /\ promise' = FALSE /\ first' = FALSE /\ tcb' = FALSE
        /\ state' = "offline" /\ UNCHANGED attempt
        /\ \E S \in SUBSET InFlight :
             op' = [o \in Ops |-> IF o \in Joiners THEN "idle" ELSE FailOps(S)[o]]
  /\ UNCHANGED <<pinging, calm>>

Calm ==
  /\ Settled /\ ~calm /\ calm' = TRUE
  /\ UNCHANGED <<conn, promise, state, timer, attempt, first, tcb, op, pinging, closing>>

Next ==
  \/ Lost \/ ConnectFail \/ ConnectLate \/ ConnectDone \/ TimerFires
  \/ \E o \in Ops : Start(o) \/ OpDone(o) \/ OpFindsSessionGone(o) \/ Retry(o)
  \/ WatchdogOffline \/ WatchdogPing \/ WatchdogSilent \/ PingOk \/ PingFail
  \/ Close \/ Calm

Spec == Init /\ [][Next]_vars

\* Timers fire, the watchdog's interval ticks, a ping is answered or times
\* out, connect() settles, promise reactions run.
FairSpec ==
  /\ Spec
  /\ WF_vars(TimerFires) /\ WF_vars(WatchdogOffline)
  /\ WF_vars(PingOk \/ PingFail)
  /\ WF_vars(ConnectFail \/ ConnectLate) /\ WF_vars(ConnectDone)
  /\ \A o \in Ops : WF_vars(Retry(o))
-----------------------------------------------------------------------------
\* The values of the variables; the delay of the reconnects is capped.
TypeOK ==
  /\ conn \in ConnState
  /\ promise \in BOOLEAN /\ timer \in BOOLEAN /\ first \in BOOLEAN /\ tcb \in BOOLEAN
  /\ state \in {"connecting", "online", "offline"}
  /\ attempt \in 0..MaxAttempt
  /\ op \in [Ops -> OpState]
  /\ pinging \in BOOLEAN /\ closing \in BOOLEAN /\ calm \in BOOLEAN

\* Until the node closes, the status that users and the nodes on the endpoint
\* see is "online" exactly while there is a session, for every order in which
\* timer, watchdog, operations and the client's events act on it.
OnlineIffSession == ~closing => (state = "online" <=> conn = "up")

\* The status says "connecting" only while a connect() is in progress or the
\* reconnect timer is armed; it does not wait for the watchdog to notice.
ConnectingMeansTrying == ~closing /\ state = "connecting" => promise \/ timer

\* The promise is there exactly while a connect() is, and whoever awaits it is
\* waiting for that connect(): nobody is left with a promise that is gone.
AwaitedPromiseLives ==
  /\ promise <=> conn \in {"early", "late"}
  /\ first \/ tcb \/ (\E o \in Ops : op[o] \in {"joining", "rejoining"}) => promise

\* An operation that retries tears no session down: when ensureConnected(true)
\* forces a reconnect, the session whose loss it saw is still gone and no
\* other one is up.
RetryFindsSessionDown == (\E o \in Ops : op[o] = "failed") => ~Connected

\* A closed node has no reconnect timer: nothing that still runs when it is
\* closed - a connect(), the timer's callback, an operation - arms one.
NoTimerAfterClose == closing => ~timer

\* Once network and PLC work, the endpoint gets online unless it is closed,
\* whatever state the failures before have left it in.
RecoversWhenCalm == calm ~> (state = "online" \/ closing)

\* "Shared endpoint - one TCP/TLS session per PLC" (README.md): a closed node,
\* which its successor replaces, keeps no session.
NoSessionAfterClose == closing => conn # "up"
=============================================================================
