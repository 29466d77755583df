---------------------------- MODULE EndpointProofs ----------------------------
(***************************************************************************)
(* The safety properties of module Endpoint, for every set of operations   *)
(* and every backoff limit.  Their conjunction is inductive.  Most actions *)
(* are made of three parts - a session is lost, a connect() fails, one is  *)
(* joined or begun - and the lemmas say what each part preserves.          *)
(***************************************************************************)
EXTENDS Endpoint, TLAPS

IInv ==
  /\ TypeOK
  /\ OnlineIffSession
  /\ ConnectingMeansTrying
  /\ AwaitedPromiseLives
  /\ RetryFindsSessionDown
  /\ NoTimerAfterClose

LEMMA InitIInv == Init => IInv
<1> SUFFICES ASSUME Init PROVE IInv
  OBVIOUS
<1>1. attempt \in 0..MaxAttempt
  BY EndpointAssumption DEF Init
<1>2. op \in [Ops -> OpState] /\ \A o \in Ops : op[o] = "idle"
  BY DEF Init, OpState
<1>3. TypeOK
  BY <1>1, <1>2 DEF Init, TypeOK, ConnState
<1>4. OnlineIffSession /\ ConnectingMeansTrying /\ NoTimerAfterClose
  BY DEF Init, OnlineIffSession, ConnectingMeansTrying, NoTimerAfterClose
<1>5. AwaitedPromiseLives /\ RetryFindsSessionDown
  BY <1>2 DEF Init, AwaitedPromiseLives, RetryFindsSessionDown
<1> QED
  BY <1>3, <1>4, <1>5 DEF IInv

\* Failing the requests of operations in flight keeps op's type, makes nobody
\* a waiter of the promise, and marks only operations in flight as failed.
LEMMA FailOpsKeeps ==
  ASSUME TypeOK, NEW S \in SUBSET InFlight
  PROVE  /\ FailOps(S) \in [Ops -> OpState]
         /\ \A o \in Ops : FailOps(S)[o] \in {"joining", "rejoining"} <=> o \in Joiners
         /\ \A o \in Ops : FailOps(S)[o] = "failed" => op[o] = "failed" \/ o \in S
<1>1. ASSUME NEW o \in S PROVE o \in Ops /\ AfterStale(o) \in {"failed", "idle"}
                               /\ o \notin Joiners
  BY DEF InFlight, AfterStale, Joiners
<1>2. ASSUME NEW o \in Ops, o \notin S PROVE FailOps(S)[o] = op[o]
  BY <1>2 DEF FailOps
<1>3. ASSUME NEW o \in S PROVE FailOps(S)[o] = AfterStale(o)
  BY <1>1 DEF FailOps
<1>4. FailOps(S) \in [Ops -> OpState]
  BY <1>1 DEF FailOps, TypeOK, OpState
<1> QED
  BY <1>1, <1>2, <1>3, <1>4 DEF Joiners

\* connect() fails, during which no session gets up and every awaiter goes on.
LEMMA ConnectFailedKeeps ==
  ASSUME IInv, NEW S \in SUBSET InFlight, ConnectFailed(S),
         closing' = closing, calm' = calm, pinging' \in BOOLEAN
  PROVE  IInv'
<1> USE DEF IInv
<1>1. TypeOK'
  <2>1. op' \in [Ops -> OpState]
    BY FailOpsKeeps DEF ConnectFailed, OpState
  <2>2. attempt' \in 0..MaxAttempt
    BY EndpointAssumption DEF TypeOK, ConnectFailed, NextAttempt
  <2> QED
    BY <2>1, <2>2 DEF TypeOK, ConnectFailed, ConnState
<1>2. \A o \in Ops : op'[o] \notin {"joining", "rejoining"}
  BY FailOpsKeeps DEF ConnectFailed
<1>3. OnlineIffSession' /\ ConnectingMeansTrying' /\ RetryFindsSessionDown'
  BY DEF ConnectFailed, OnlineIffSession, ConnectingMeansTrying, RetryFindsSessionDown,
         Connected
<1>4. AwaitedPromiseLives'
  BY <1>2 DEF ConnectFailed, AwaitedPromiseLives
<1>5. NoTimerAfterClose'
  BY DEF ConnectFailed, Reschedules, NoTimerAfterClose
<1> QED
  BY <1>1, <1>3, <1>4, <1>5

\* The loss of a session leaves a reconnect under way, unless it is the end of
\* a connect() in progress, whose failure says what happens next.
LEMMA SessionLostKeeps ==
  ASSUME IInv, SessionLost, closing' = closing, calm' = calm, pinging' \in BOOLEAN
  PROVE  IInv'
<1> USE DEF IInv
<1>1. PICK S \in SUBSET InFlight :
        IF conn = "late" THEN ConnectFailed(S)
                         ELSE /\ conn' = "down" /\ Disconnected /\ op' = FailOps(S)
                              /\ UNCHANGED <<promise, first, tcb>>
  BY DEF SessionLost
<1>2. CASE conn = "late"
  BY <1>1, <1>2, ConnectFailedKeeps
<1>3. CASE conn # "late"
  <2>1. conn = "up" /\ promise = FALSE
    BY <1>3 DEF SessionLost, Connected, AwaitedPromiseLives
  <2>2. /\ conn' = "down" /\ op' = FailOps(S) /\ Disconnected
        /\ promise' = FALSE /\ first' = first /\ tcb' = tcb
    BY <1>1, <1>3, <2>1
  <2>3. TypeOK'
    <3>1. attempt' \in 0..MaxAttempt
      BY <2>2, EndpointAssumption DEF TypeOK, Disconnected
    <3>2. timer' \in BOOLEAN /\ state' \in {"connecting", "online", "offline"}
      BY <2>2 DEF TypeOK, Disconnected
    <3>3. conn' \in ConnState /\ op' \in [Ops -> OpState]
      BY <2>2, FailOpsKeeps DEF ConnState
    <3> QED
      BY <2>2, <3>1, <3>2, <3>3 DEF TypeOK
  <2>4. OnlineIffSession' /\ ConnectingMeansTrying' /\ RetryFindsSessionDown'
    BY <2>1, <2>2 DEF Disconnected, OnlineIffSession, ConnectingMeansTrying,
                      RetryFindsSessionDown, Connected
  <2>5. AwaitedPromiseLives'
    <3>1. \A o \in Ops : op'[o] \in {"joining", "rejoining"} => o \in Joiners
      BY <2>2, FailOpsKeeps
    <3> QED
      BY <2>1, <2>2, <3>1 DEF AwaitedPromiseLives, Joiners
  <2>6. NoTimerAfterClose'
    BY <2>2 DEF Disconnected, NoTimerAfterClose
  <2> QED
    BY <2>3, <2>4, <2>5, <2>6
<1> QED
  BY <1>2, <1>3

\* Every action preserves the invariant.
LEMMA NextIInv == IInv /\ [Next]_vars => IInv'
<1> SUFFICES ASSUME IInv, [Next]_vars PROVE IInv'
  OBVIOUS
<1> USE DEF IInv
<1>l. CASE Lost
  BY <1>l, SessionLostKeeps DEF Lost, TypeOK
<1>f. CASE ConnectFail
  <2>1. {} \in SUBSET InFlight
    OBVIOUS
  <2> QED
    BY <1>f, <2>1, ConnectFailedKeeps DEF ConnectFail, TypeOK
<1>e. CASE ConnectLate
  BY <1>e DEF ConnectLate, Settled, TypeOK, ConnState, OnlineIffSession, ConnectingMeansTrying,
              AwaitedPromiseLives, RetryFindsSessionDown, NoTimerAfterClose
<1>d. CASE ConnectDone
  <2>1. op' \in [Ops -> OpState] /\ \A o \in Ops : op'[o] \notin {"joining", "rejoining"}
    BY <1>d DEF ConnectDone, TypeOK, OpState, Joiners
  <2>2. \A o \in Ops : op'[o] # "failed"
    BY <1>d DEF ConnectDone, Settled
  <2>3. attempt' \in 0..MaxAttempt
    BY <1>d, EndpointAssumption DEF ConnectDone, TypeOK
  <2> QED
    BY <1>d, <2>1, <2>2, <2>3
    DEF ConnectDone, TypeOK, ConnState, OnlineIffSession, ConnectingMeansTrying,
        AwaitedPromiseLives, RetryFindsSessionDown, NoTimerAfterClose
<1>t. CASE TimerFires
  <2>1. TypeOK'
    <3>1. attempt' \in 0..MaxAttempt
      BY <1>t, EndpointAssumption DEF TimerFires, TypeOK
    <3>2. /\ conn' \in ConnState /\ state' \in {"connecting", "online", "offline"}
          /\ promise' \in BOOLEAN /\ tcb' \in BOOLEAN
      BY <1>t DEF TimerFires, JoinOrConnect, TypeOK, ConnState
    <3> QED
      BY <1>t, <3>1, <3>2 DEF TimerFires, TypeOK
  <2>2. OnlineIffSession' /\ ConnectingMeansTrying'
    BY <1>t DEF TimerFires, JoinOrConnect, Connected, TypeOK, ConnState,
                OnlineIffSession, ConnectingMeansTrying, AwaitedPromiseLives
  <2>3. AwaitedPromiseLives' /\ RetryFindsSessionDown' /\ NoTimerAfterClose'
    BY <1>t DEF TimerFires, JoinOrConnect, Connected, Settled, TypeOK, ConnState,
                AwaitedPromiseLives, RetryFindsSessionDown, NoTimerAfterClose
  <2> QED
    BY <2>1, <2>2, <2>3
<1>s. ASSUME NEW o \in Ops, Start(o) PROVE IInv'
  <2>1. TypeOK'
    BY <1>s DEF Start, JoinOrConnect, TypeOK, ConnState, OpState
  <2>2. \A p \in Ops : op'[p] = IF p = o THEN IF Connected THEN "running" ELSE "joining" ELSE op[p]
    BY <1>s DEF Start, TypeOK
  <2>3. OnlineIffSession' /\ ConnectingMeansTrying' /\ NoTimerAfterClose'
    BY <1>s DEF Start, JoinOrConnect, Connected, TypeOK, ConnState, NoTimerAfterClose,
                OnlineIffSession, ConnectingMeansTrying, AwaitedPromiseLives
  <2>4. AwaitedPromiseLives' /\ RetryFindsSessionDown'
    BY <1>s, <2>2 DEF Start, JoinOrConnect, Connected, Settled, TypeOK, ConnState,
                      AwaitedPromiseLives, RetryFindsSessionDown
  <2> QED
    BY <2>1, <2>3, <2>4
<1>o. ASSUME NEW o \in Ops, OpDone(o) PROVE IInv'
  BY <1>o DEF OpDone, Settled, TypeOK, OpState, OnlineIffSession, ConnectingMeansTrying,
              AwaitedPromiseLives, RetryFindsSessionDown, NoTimerAfterClose, Connected
<1>g. ASSUME NEW o \in Ops, OpFindsSessionGone(o) PROVE IInv'
  <2>1. {o} \in SUBSET InFlight
    BY <1>g DEF OpFindsSessionGone
  <2>2. op' \in [Ops -> OpState] /\ \A p \in Ops : op'[p] \in {"joining", "rejoining"} => p \in Joiners
    BY <1>g, <2>1, FailOpsKeeps DEF OpFindsSessionGone
  <2> QED
    BY <1>g, <2>2 DEF OpFindsSessionGone, StaleError, TypeOK, OnlineIffSession, Connected, Joiners,
                      ConnectingMeansTrying, AwaitedPromiseLives, RetryFindsSessionDown,
                      NoTimerAfterClose
<1>r. ASSUME NEW o \in Ops, Retry(o) PROVE IInv'
  <2>1. ~Connected
    BY <1>r DEF Retry, RetryFindsSessionDown
  <2>2. TypeOK'
    <3>1. attempt' \in 0..MaxAttempt /\ op' \in [Ops -> OpState]
      BY <1>r, EndpointAssumption DEF Retry, TypeOK, OpState
    <3>2. /\ conn' \in ConnState /\ state' \in {"connecting", "online", "offline"}
          /\ promise' \in BOOLEAN /\ timer' \in BOOLEAN
      BY <1>r DEF Retry, JoinOrConnect, TypeOK, ConnState
    <3> QED
      BY <1>r, <3>1, <3>2 DEF Retry, TypeOK
  <2>3. \A p \in Ops : op'[p] = IF p = o THEN "rejoining" ELSE op[p]
    BY <1>r, <2>1 DEF Retry, TypeOK
  <2>4. OnlineIffSession' /\ ConnectingMeansTrying' /\ NoTimerAfterClose'
    BY <1>r, <2>1 DEF Retry, JoinOrConnect, Connected, TypeOK, ConnState, NoTimerAfterClose,
                      OnlineIffSession, ConnectingMeansTrying, AwaitedPromiseLives
  <2>5. AwaitedPromiseLives' /\ RetryFindsSessionDown'
    BY <1>r, <2>1, <2>3 DEF Retry, JoinOrConnect, Connected, TypeOK, ConnState,
                            AwaitedPromiseLives, RetryFindsSessionDown
  <2> QED
    BY <2>2, <2>4, <2>5
<1>w. CASE WatchdogOffline
  BY <1>w DEF WatchdogOffline, Connected, TypeOK, ConnState, OnlineIffSession, ConnectingMeansTrying,
              AwaitedPromiseLives, RetryFindsSessionDown, NoTimerAfterClose
<1>p. CASE WatchdogPing \/ PingOk \/ Calm
  <2>1. UNCHANGED <<conn, promise, state, timer, attempt, first, tcb, op, closing>>
    BY <1>p DEF WatchdogPing, PingOk, Calm
  <2>2. TypeOK'
    BY <1>p, <2>1 DEF WatchdogPing, PingOk, Calm, TypeOK
  <2> QED
    BY <2>1, <2>2 DEF Connected, OnlineIffSession, ConnectingMeansTrying, AwaitedPromiseLives,
                      RetryFindsSessionDown, NoTimerAfterClose
<1>i. CASE WatchdogSilent
  BY <1>i, SessionLostKeeps DEF WatchdogSilent, TypeOK
<1>x. CASE PingFail
  <2>1. pinging' \in BOOLEAN /\ closing' = closing /\ calm' = calm
    BY <1>x DEF PingFail
  <2>2. \/ SessionLost
        \/ ConnectFailed({})
        \/ UNCHANGED <<conn, promise, state, timer, attempt, first, tcb, op>>
    BY <1>x DEF PingFail
  <2>3. CASE SessionLost
    BY <2>1, <2>3, SessionLostKeeps
  <2>4. CASE ConnectFailed({})
    BY <2>1, <2>4, ConnectFailedKeeps
  <2>5. CASE UNCHANGED <<conn, promise, state, timer, attempt, first, tcb, op>>
    BY <2>1, <2>5 DEF Connected, TypeOK, OnlineIffSession, ConnectingMeansTrying,
                      AwaitedPromiseLives, RetryFindsSessionDown, NoTimerAfterClose
  <2> QED
    BY <2>2, <2>3, <2>4, <2>5
<1>c. CASE Close
  <2>1. OnlineIffSession' /\ ConnectingMeansTrying' /\ NoTimerAfterClose'
    BY <1>c DEF Close, OnlineIffSession, ConnectingMeansTrying, NoTimerAfterClose
  <2>2. CASE UNCHANGED <<conn, promise, state, attempt, first, tcb, op>>
    BY <1>c, <2>1, <2>2 DEF Close, TypeOK, AwaitedPromiseLives, RetryFindsSessionDown, Connected
  <2>3. ASSUME conn = "up", conn' = "down", NEW S \in SUBSET InFlight, op' = FailOps(S),
               UNCHANGED <<promise, state, attempt, first, tcb>>
        PROVE  IInv'
    <3>1. op' \in [Ops -> OpState] /\ \A p \in Ops : op'[p] \in {"joining", "rejoining"} => p \in Joiners
      BY <2>3, FailOpsKeeps
    <3> QED
      BY <1>c, <2>1, <2>3, <3>1 DEF Close, TypeOK, ConnState, AwaitedPromiseLives, Joiners,
                                    RetryFindsSessionDown, Connected
  <2>4. ASSUME conn' = "down", promise' = FALSE, first' = FALSE, tcb' = FALSE, state' = "offline",
               attempt' = attempt, NEW S \in SUBSET InFlight,
               op' = [o \in Ops |-> IF o \in Joiners THEN "idle" ELSE FailOps(S)[o]]
        PROVE  IInv'
    <3>1. op' \in [Ops -> OpState] /\ \A p \in Ops : op'[p] \notin {"joining", "rejoining"}
      BY <2>4, FailOpsKeeps DEF OpState
    <3> QED
      BY <1>c, <2>1, <2>4, <3>1 DEF Close, TypeOK, ConnState, AwaitedPromiseLives,
                                    RetryFindsSessionDown, Connected
  <2> QED
    BY <1>c, <2>2, <2>3, <2>4 DEF Close
<1>u. CASE UNCHANGED vars
  BY <1>u DEF vars, Connected, TypeOK, OnlineIffSession, ConnectingMeansTrying,
              AwaitedPromiseLives, RetryFindsSessionDown, NoTimerAfterClose
<1> QED
  BY <1>l, <1>f, <1>e, <1>d, <1>t, <1>s, <1>o, <1>g, <1>r, <1>w, <1>p, <1>i, <1>x, <1>c, <1>u
  DEF Next

\* The conjunction of the safety properties is an invariant.
THEOREM EndpointInvariant == Spec => []IInv
<1> QED
  BY InitIInv, NextIInv, PTL DEF Spec

\* Every variable keeps its type; the reconnect delay never exceeds its cap.
THEOREM EndpointTypeCorrect == Spec => []TypeOK
<1>1. IInv => TypeOK
  BY DEF IInv
<1> QED
  BY <1>1, EndpointInvariant, PTL

\* Until the node closes, "online" is shown exactly while there is a session.
THEOREM StatusHonest == Spec => []OnlineIffSession
<1>1. IInv => OnlineIffSession
  BY DEF IInv
<1> QED
  BY <1>1, EndpointInvariant, PTL

\* "connecting" is never shown with neither a connect() nor a timer under way.
THEOREM NeverStuckConnecting == Spec => []ConnectingMeansTrying
<1>1. IInv => ConnectingMeansTrying
  BY DEF IInv
<1> QED
  BY <1>1, EndpointInvariant, PTL

\* Whoever awaits the shared promise awaits a connect() that is in progress.
THEOREM PromiseNeverOrphaned == Spec => []AwaitedPromiseLives
<1>1. IInv => AwaitedPromiseLives
  BY DEF IInv
<1> QED
  BY <1>1, EndpointInvariant, PTL

\* The forced reconnect before a retry never tears a live session down.
THEOREM RetryNeverKillsSession == Spec => []RetryFindsSessionDown
<1>1. IInv => RetryFindsSessionDown
  BY DEF IInv
<1> QED
  BY <1>1, EndpointInvariant, PTL

\* A closed node never arms the reconnect timer again.
THEOREM ClosedNodeArmsNoTimer == Spec => []NoTimerAfterClose
<1>1. IInv => NoTimerAfterClose
  BY DEF IInv
<1> QED
  BY <1>1, EndpointInvariant, PTL
=============================================================================
