------------------------------ MODULE UserLock ------------------------------
(***************************************************************************)
(* The user lock of S7CommPlusClient (lib/s7plus/client.js): a chain of    *)
(* promises.  A caller takes the tail of the chain as its predecessor,     *)
(* puts a promise of its own there (its slot) and waits until the          *)
(* predecessor's promise resolves or its acquire timer fires.              *)
(*                                                                         *)
(* Slots are numbered in the order in which they join the chain; slot 0 is *)
(* the resolved promise the constructor puts there.  A step is one turn of *)
(* the event loop: the promise reactions that a release triggers run       *)
(* before any timer, so releasing a slot and waking its successor is one   *)
(* action.  A call refused because the lock is overloaded throws before it *)
(* touches any state, and is no action here.                               *)
(*                                                                         *)
(* The watchdog's ping is an operation like the others with two            *)
(* particularities: its own acquire timeout and, while it runs, its own    *)
(* response timeout in _readTimeout.                                       *)
(***************************************************************************)
EXTENDS Integers, FiniteSets

CONSTANTS
  MaxInflight,  \* MAX_USER_LOCK_INFLIGHT
  MaxSlots      \* bound: slots that join the chain in a behaviour

ASSUME UserLockAssumption == MaxInflight \in Nat \ {0} /\ MaxSlots \in Nat

VARIABLES
  issued,       \* number of slots in the chain; the tail is slot `issued'
  kind,         \* kind[s]: an ordinary operation or the watchdog's ping
  st,           \* st[s]: where the call that owns slot s is
  inflight,     \* _userLockInflight
  opInFlight,   \* _userOpInFlight: the slot named by it, 0 for null
  readTimeout,  \* _readTimeout
  saved         \* saved[s]: the local `saved' of the ping that owns slot s

vars == <<issued, kind, st, inflight, opInFlight, readTimeout, saved>>

Slots     == 1..MaxSlots
Kinds     == {"op", "ping"}
Timeouts  == {"configured", "ping"}
SlotState == {"unused", "waiting", "running", "done", "timedout"}

\* Slot s has been released: its promise is resolved.
Released(s) == s = 0 \/ st[s] \in {"done", "timedout"}

Queued == {s \in Slots : st[s] \in {"waiting", "running"}}

Init ==
  /\ issued = 0
  /\ kind = [s \in Slots |-> "op"]
  /\ st = [s \in Slots |-> "unused"]
  /\ inflight = 0
  /\ opInFlight = 0
  /\ readTimeout = "configured"
  /\ saved = [s \in Slots |-> "configured"]

-----------------------------------------------------------------------------
\* Mutant: the watchdog forgets watchdogBusy.
WatchdogMayPing_NotBusyChecked == TRUE

\* The watchdog pings only when no operation holds the lock, and never twice
\* at once (watchdogBusy).
WatchdogMayPing ==
  /\ opInFlight = 0
  /\ \A s \in Queued : kind[s] # "ping"

\* fn() of the granted call starts, with _readTimeout at rt: a ping keeps rt
\* and puts its own timeout there.
Start(s, k, rt) ==
  IF k = "ping"
    THEN /\ saved' = [saved EXCEPT ![s] = rt]
         /\ readTimeout' = "ping"
    ELSE /\ saved' = saved
         /\ readTimeout' = rt

HasRoom == inflight < MaxInflight

\* A call of kind k passes the in-flight test and joins the chain.  When its
\* predecessor is released already it runs in this very turn.
Acquire(k) ==
  LET s == issued + 1 IN
  /\ s \in Slots
  /\ HasRoom
  /\ k = "ping" => WatchdogMayPing
  /\ issued' = s
  /\ kind' = [kind EXCEPT ![s] = k]
  /\ inflight' = inflight + 1
  /\ IF Released(issued)
       THEN /\ st' = [st EXCEPT ![s] = "running"]
            /\ opInFlight' = s
            /\ Start(s, k, readTimeout)
       ELSE /\ st' = [st EXCEPT ![s] = "waiting"]
            /\ UNCHANGED <<opInFlight, readTimeout, saved>>

\* Releasing slot s wakes the call behind it.
Wakes(s) == s + 1 \in Slots /\ st[s + 1] = "waiting"

\* Mutant: a released slot wakes the last waiter instead of the next.
WokenBy_Last(s) ==
  IF \E t \in Slots : st[t] = "waiting"
    THEN CHOOSE t \in Slots :
           st[t] = "waiting" /\ \A u \in Slots : st[u] = "waiting" => u <= t
    ELSE 0

\* The slot whose call the release of slot s wakes, 0 for none.
WokenBy(s) == IF Wakes(s) THEN s + 1 ELSE 0

\* Slot s is released with the given outcome: its owner leaves the in-flight
\* count, and the woken call, if there is one, becomes the operation in
\* flight and starts with _readTimeout at rt.
Release(s, outcome, left, rt) ==
  LET w == WokenBy(s) IN
  /\ st' = [t \in Slots |-> IF t = s THEN outcome
                            ELSE IF t = w THEN "running" ELSE st[t]]
  /\ inflight' = inflight - 1
  /\ opInFlight' = IF w = 0 THEN left ELSE w
  /\ IF w = 0 THEN readTimeout' = rt /\ saved' = saved
              ELSE Start(w, kind[w], rt)
  /\ UNCHANGED <<issued, kind>>

\* Mutant: the timer leaves its slot unreleased, so nobody behind it wakes.
Timeout_SlotKept(s) ==
  /\ st[s] = "waiting"
  /\ st' = [st EXCEPT ![s] = "timedout"]
  /\ inflight' = inflight - 1
  /\ UNCHANGED <<issued, kind, opInFlight, readTimeout, saved>>

\* Mutant: the timer is cleared when any predecessor in the chain is granted.
Timeout_ClearedEarly(s) ==
  /\ st[s] = "waiting"
  /\ \A t \in Slots : st[t] # "running"
  /\ Release(s, "timedout", opInFlight, readTimeout)

\* The acquire timer of a waiting call fires: the call fails and its slot is
\* released although the predecessor's is not.  Calls of one kind have equal
\* timeouts, so their timers fire in the order of their slots.
Timeout(s) ==
  /\ st[s] = "waiting"
  /\ \A t \in 1..(s - 1) : st[t] = "waiting" => kind[t] # kind[s]
  /\ Release(s, "timedout", opInFlight, readTimeout)

\* Mutant: the label of the finished operation is left behind.
Finish_LabelKept(s) ==
  /\ st[s] = "running"
  /\ Release(s, "done", s, IF kind[s] = "ping" THEN saved[s] ELSE readTimeout)

\* Mutant: an operation that fails does not leave the in-flight count.
Finish_CountKept(s) ==
  /\ st[s] = "running"
  /\ st' = [st EXCEPT ![s] = "done"]
  /\ opInFlight' = 0
  /\ UNCHANGED <<issued, kind, inflight, readTimeout, saved>>

\* Mutant: both finally blocks take the call out of the in-flight count.
Finish_CountedTwice(s) ==
  /\ st[s] = "running"
  /\ st' = [st EXCEPT ![s] = "done"]
  /\ inflight' = inflight - 2
  /\ opInFlight' = 0
  /\ UNCHANGED <<issued, kind, readTimeout, saved>>

\* fn() of the running call settles: a ping restores the response timeout,
\* _userOpInFlight becomes null, the slot is released.
Finish(s) ==
  /\ st[s] = "running"
  /\ Release(s, "done", 0, IF kind[s] = "ping" THEN saved[s] ELSE readTimeout)

Next ==
  \/ \E k \in Kinds : Acquire(k)
  \/ \E s \in Slots : Timeout(s)
  \/ \E s \in Slots : Finish(s)

Spec == Init /\ [][Next]_vars

\* Timers fire; nothing is assumed of the operations themselves.
FairSpec == Spec /\ \A s \in Slots : WF_vars(Timeout(s))
-----------------------------------------------------------------------------
\* The values of the variables.
TypeOK ==
  /\ issued \in 0..MaxSlots
  /\ kind \in [Slots -> Kinds]
  /\ st \in [Slots -> SlotState]
  /\ inflight \in Nat
  /\ opInFlight \in 0..MaxSlots
  /\ readTimeout \in Timeouts
  /\ saved \in [Slots -> Timeouts]

\* _userLockInflight is the number of calls that run or wait, so it comes
\* back to 0 when all have settled, and it never exceeds the limit.
InflightExact ==
  /\ inflight = Cardinality(Queued)
  /\ inflight <= MaxInflight

\* A waiting call stands behind a call that runs, with only waiting calls in
\* between: no wake-up is lost, and the queue cannot jam with nobody running.
WaitersHaveARunner ==
  \A s \in Slots : st[s] = "waiting" =>
    \E p \in 1..(s - 1) :
      /\ st[p] = "running"
      /\ \A t \in (p + 1)..(s - 1) : st[t] = "waiting"

\* Two calls run together, or one runs before an earlier one that still
\* waits, only if a call between them gave up waiting: FIFO order and mutual
\* exclusion are lost through acquire timeouts and in no other way.
OvertakenOnlyPastTimeout ==
  \A p, q \in Slots :
    (p < q /\ st[p] \in {"waiting", "running"} /\ st[q] = "running") =>
      \E t \in (p + 1)..(q - 1) : st[t] = "timedout"

\* userLockBusy never reports an operation that has settled; and until a
\* first acquire timeout it reports exactly whether an operation runs, which
\* is what the watchdog decides on.
BusyFlagSound ==
  /\ opInFlight # 0 => st[opInFlight] = "running"
  /\ (\A s \in Slots : st[s] # "timedout") =>
       (opInFlight = 0 => \A s \in Slots : st[s] # "running")

\* _readTimeout holds the ping's short timeout exactly while a ping runs, for
\* every order in which overlapping operations finish.
ReadTimeoutFollowsPing ==
  readTimeout = "ping" <=> \E s \in Slots : kind[s] = "ping" /\ st[s] = "running"

\* "No hang can outlive DEFAULT_LOCK_ACQUIRE_TIMEOUT_MS per user op": a call
\* stops waiting even when the operations before it never end.
NoCallWaitsForever == \A s \in Slots : st[s] = "waiting" ~> st[s] # "waiting"

\* "_userLockTail serializes user-facing operations" (client.js, the class
\* comment): at most one user operation runs at a time.  It is so until an
\* acquire timer has fired, and not after (theorem SerializedWithoutTimeouts).
UserOpsSerialized == \A p, q \in Slots : st[p] = "running" /\ st[q] = "running" => p = q
=============================================================================
