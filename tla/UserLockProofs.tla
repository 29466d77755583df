--------------------------- MODULE UserLockProofs ---------------------------
(***************************************************************************)
(* Theorems about the user lock, for every in-flight limit and any number  *)
(* of calls.  The inductive invariant adds two facts to the properties     *)
(* checked by TLC: the slots in use are exactly 1..issued, and there is at *)
(* most one ping in the queue, whose saved timeout is the configured one.  *)
(***************************************************************************)
EXTENDS UserLock, FiniteSetTheorems, TLAPS

\* A call behind a still queued call has not been granted, nor finished,
\* unless a call between them timed out.  This is OvertakenOnlyPastTimeout
\* made inductive: the finished calls count as well.
Overtaking ==
  \A p, q \in Slots :
    (p < q /\ st[p] \in {"waiting", "running"} /\ st[q] \in {"running", "done"}) =>
      \E t \in (p + 1)..(q - 1) : st[t] = "timedout"

SlotsInUse == \A s \in Slots : st[s] = "unused" <=> s > issued

OnePing ==
  /\ \A s, t \in Queued : kind[s] = "ping" /\ kind[t] = "ping" => s = t
  /\ \A s \in Slots : kind[s] = "ping" /\ st[s] = "running" => saved[s] = "configured"

\* _userOpInFlight names a running call or none.
LabelRuns == opInFlight # 0 => st[opInFlight] = "running"

\* As long as nobody timed out, a running call is the one in flight.
RunnerLabelled ==
  (\A s \in Slots : st[s] # "timedout") =>
    \A s \in Slots : st[s] = "running" => opInFlight = s

IInv ==
  /\ TypeOK
  /\ SlotsInUse
  /\ InflightExact
  /\ WaitersHaveARunner
  /\ Overtaking
  /\ LabelRuns
  /\ RunnerLabelled
  /\ OnePing
  /\ ReadTimeoutFollowsPing

-----------------------------------------------------------------------------
\* A set of slots is finite.
LEMMA QueuedFinite == IsFiniteSet(Queued) /\ Cardinality(Queued) \in Nat
<1>1. IsFiniteSet(Slots)
  BY UserLockAssumption, FS_Interval DEF Slots
<1>2. Queued \subseteq Slots
  BY DEF Queued
<1> QED
  BY <1>1, <1>2, FS_Subset, FS_CardinalityType

LEMMA InitIInv == Init => IInv
<1> SUFFICES ASSUME Init PROVE IInv
  OBVIOUS
<1> USE UserLockAssumption DEF Init
<1>1. TypeOK
  BY DEF TypeOK, Kinds, SlotState, Timeouts
<1>2. Queued = {}
  BY DEF Queued
<1>3. InflightExact
  BY <1>2, FS_EmptySet DEF InflightExact
<1>4. SlotsInUse /\ WaitersHaveARunner /\ Overtaking /\ LabelRuns /\ RunnerLabelled
  BY DEF SlotsInUse, WaitersHaveARunner, Overtaking, LabelRuns, RunnerLabelled, Slots
<1>5. OnePing /\ ReadTimeoutFollowsPing
  BY <1>2 DEF OnePing, ReadTimeoutFollowsPing
<1> QED
  BY <1>1, <1>3, <1>4, <1>5 DEF IInv

-----------------------------------------------------------------------------
\* A call that joins the chain preserves the invariant.
LEMMA AcquireIInv ==
  ASSUME IInv, NEW k \in Kinds, Acquire(k)
  PROVE  IInv'
<1> DEFINE s == issued + 1
<1> USE UserLockAssumption
<1>1. s \in Slots /\ issued \in Nat /\ s \notin Queued
  BY DEF Acquire, IInv, TypeOK, SlotsInUse, Slots, Queued
<1>2. Queued' = Queued \cup {s}
  BY <1>1 DEF Acquire, IInv, TypeOK, Queued
<1>3. TypeOK'
  BY <1>1 DEF Acquire, IInv, TypeOK, Slots, Kinds, SlotState, Timeouts, Start
<1>4. InflightExact'
  <2>1. Cardinality(Queued') = Cardinality(Queued) + 1
    BY <1>1, <1>2, QueuedFinite, FS_AddElement
  <2> QED
    BY <2>1, QueuedFinite DEF Acquire, HasRoom, IInv, InflightExact, TypeOK
<1>5. SlotsInUse'
  BY <1>1 DEF Acquire, IInv, TypeOK, SlotsInUse, Slots
<1>6. \A t \in Slots : t # s => st'[t] = st[t]
  BY <1>1 DEF Acquire, IInv, TypeOK
<1>7. st'[s] = IF Released(issued) THEN "running" ELSE "waiting"
  BY <1>1 DEF Acquire, IInv, TypeOK
<1>8. WaitersHaveARunner'
  <2> SUFFICES ASSUME NEW t \in Slots, st'[t] = "waiting"
               PROVE  \E p \in 1..(t - 1) :
                        /\ st'[p] = "running"
                        /\ \A u \in (p + 1)..(t - 1) : st'[u] = "waiting"
    BY DEF WaitersHaveARunner
  <2>1. CASE t # s
    <3>1. st[t] = "waiting"
      BY <1>6, <2>1
    <3>2. t <= issued
      BY <3>1, <1>1 DEF IInv, SlotsInUse, Slots
    <3>3. PICK p \in 1..(t - 1) : /\ st[p] = "running"
                                  /\ \A u \in (p + 1)..(t - 1) : st[u] = "waiting"
      BY <3>1 DEF IInv, WaitersHaveARunner
    <3> QED
      BY <1>1, <1>6, <3>2, <3>3 DEF Slots
  <2>2. CASE t = s
    <3>1. ~Released(issued)
      BY <1>7, <2>2
    <3>2. issued \in Slots /\ st[issued] \in {"waiting", "running"}
      BY <1>1, <3>1 DEF Released, IInv, TypeOK, SlotsInUse, SlotState, Slots
    <3>3. CASE st[issued] = "running"
      BY <1>1, <1>6, <2>2, <3>2, <3>3 DEF Slots
    <3>4. CASE st[issued] = "waiting"
      <4>1. PICK p \in 1..(issued - 1) :
                     /\ st[p] = "running"
                     /\ \A u \in (p + 1)..(issued - 1) : st[u] = "waiting"
        BY <3>2, <3>4 DEF IInv, WaitersHaveARunner
      <4>2. p \in 1..(t - 1) /\ st'[p] = "running"
        BY <1>1, <1>6, <2>2, <3>2, <4>1 DEF Slots
      <4>3. \A u \in (p + 1)..(t - 1) : st'[u] = "waiting"
        BY <1>1, <1>6, <2>2, <3>2, <3>4, <4>1 DEF Slots
      <4> QED
        BY <4>2, <4>3
    <3> QED
      BY <3>2, <3>3, <3>4
  <2> QED
    BY <2>1, <2>2
<1>9. Overtaking'
  <2> SUFFICES ASSUME NEW p \in Slots, NEW q \in Slots, p < q,
                      st'[p] \in {"waiting", "running"}, st'[q] \in {"running", "done"}
               PROVE  \E t \in (p + 1)..(q - 1) : st'[t] = "timedout"
    BY DEF Overtaking
  <2>1. p # s
    <3>1. SUFFICES ASSUME p = s PROVE FALSE
      OBVIOUS
    <3>2. q > issued /\ st'[q] = st[q]
      BY <1>1, <1>6, <3>1 DEF Slots
    <3> QED
      BY <3>2 DEF IInv, SlotsInUse
  <2>2. st[p] \in {"waiting", "running"}
    BY <1>6, <2>1
  <2>3. CASE q # s
    <3>1. PICK t \in (p + 1)..(q - 1) : st[t] = "timedout"
      BY <1>6, <2>2, <2>3 DEF IInv, Overtaking
    <3>2. t \in Slots /\ t # s
      BY <3>1, <1>1 DEF Slots, IInv, SlotsInUse
    <3> QED
      BY <1>6, <3>1, <3>2
  <2>4. CASE q = s
    <3>1. Released(issued)
      BY <1>7, <2>4
    <3>2. issued \in Slots /\ p <= issued /\ p # issued /\ st[issued] \in {"done", "timedout"}
      BY <1>1, <2>2, <2>4, <3>1 DEF Released, Slots
    <3>3. CASE st[issued] = "timedout"
      BY <1>1, <1>6, <2>4, <3>2, <3>3 DEF Slots
    <3>4. CASE st[issued] = "done"
      <4>1. PICK t \in (p + 1)..(issued - 1) : st[t] = "timedout"
        BY <2>2, <3>2, <3>4 DEF IInv, Overtaking, Slots
      <4> QED
        BY <1>1, <1>6, <2>4, <4>1 DEF Slots
    <3> QED
      BY <3>2, <3>3, <3>4
  <2> QED
    BY <2>3, <2>4
<1>10. LabelRuns'
  <2>1. CASE Released(issued)
    BY <1>7, <2>1 DEF Acquire, LabelRuns
  <2>2. CASE ~Released(issued) /\ opInFlight # 0
    <3>1. opInFlight' = opInFlight /\ opInFlight \in Slots /\ opInFlight # s
      BY <1>1, <2>2 DEF Acquire, IInv, TypeOK, LabelRuns, Queued, Slots
    <3> QED
      BY <1>6, <2>2, <3>1 DEF LabelRuns, IInv
  <2>3. CASE ~Released(issued) /\ opInFlight = 0
    BY <2>3 DEF Acquire, LabelRuns
  <2> QED
    BY <2>1, <2>2, <2>3
<1>11. RunnerLabelled'
  <2> SUFFICES ASSUME \A t \in Slots : st'[t] # "timedout",
                      NEW t \in Slots, st'[t] = "running"
               PROVE  opInFlight' = t
    BY DEF RunnerLabelled
  <2>1. \A u \in Slots : st[u] # "timedout"
    BY <1>1, <1>6 DEF IInv, SlotsInUse
  <2>2. CASE t = s
    BY <1>7, <2>2 DEF Acquire
  <2>3. CASE t # s
    <3>1. st[t] = "running" /\ opInFlight = t /\ t <= issued
      BY <1>1, <1>6, <2>1, <2>3 DEF IInv, RunnerLabelled, SlotsInUse, Slots
    <3>2. ~Released(issued)
      <4> SUFFICES ASSUME Released(issued) PROVE FALSE
        OBVIOUS
      <4>1. issued \in Slots /\ t < issued /\ st[issued] = "done"
        BY <1>1, <2>1, <3>1 DEF Released, Slots
      <4> QED
        BY <2>1, <3>1, <4>1 DEF IInv, Overtaking, Slots
    <3> QED
      BY <3>1, <3>2 DEF Acquire
  <2> QED
    BY <2>2, <2>3
<1>12. OnePing' /\ ReadTimeoutFollowsPing'
  <2>1. \A t \in Slots : t # s => kind'[t] = kind[t]
    BY <1>1 DEF Acquire, IInv, TypeOK
  <2>2. kind'[s] = k
    BY <1>1 DEF Acquire, IInv, TypeOK
  <2>3. \A t \in Queued : t \in Slots /\ t # s
    BY <1>1 DEF Queued
  <2>4. \A t, u \in Queued' : kind'[t] = "ping" /\ kind'[u] = "ping" => t = u
    <3>1. CASE k = "ping"
      BY <1>2, <2>1, <2>2, <2>3, <3>1 DEF Acquire, WatchdogMayPing
    <3>2. CASE k # "ping"
      BY <1>2, <2>1, <2>2, <2>3, <3>2 DEF IInv, OnePing
    <3> QED
      BY <3>1, <3>2
  <2>5. CASE Released(issued) /\ k = "ping"
    <3>1. saved' = [saved EXCEPT ![s] = readTimeout] /\ readTimeout' = "ping"
      BY <2>5 DEF Acquire, Start
    <3>2. \A t \in Slots : ~(kind[t] = "ping" /\ st[t] = "running")
      BY <2>5 DEF Acquire, WatchdogMayPing, Queued
    <3>3. readTimeout = "configured"
      BY <3>2 DEF IInv, ReadTimeoutFollowsPing, TypeOK, Timeouts
    <3> QED
      BY <1>1, <1>6, <1>7, <2>1, <2>2, <2>4, <2>5, <3>1, <3>2, <3>3
         DEF IInv, TypeOK, OnePing, ReadTimeoutFollowsPing
  <2>6. CASE ~(Released(issued) /\ k = "ping")
    <3>1. saved' = saved /\ readTimeout' = readTimeout
      BY <2>6 DEF Acquire, Start
    <3>2. ~(kind'[s] = "ping" /\ st'[s] = "running")
      BY <1>7, <2>2, <2>6
    <3>3. \A t \in Slots : (kind'[t] = "ping" /\ st'[t] = "running")
                             <=> (kind[t] = "ping" /\ st[t] = "running")
      <4>1. ~(st[s] = "running")
        BY <1>1 DEF Queued
      <4> QED
        BY <1>6, <2>1, <3>2, <4>1
    <3> QED
      BY <2>4, <3>1, <3>3 DEF IInv, OnePing, ReadTimeoutFollowsPing
  <2> QED
    BY <2>5, <2>6
<1> QED
  BY <1>3, <1>4, <1>5, <1>8, <1>9, <1>10, <1>11, <1>12 DEF IInv

-----------------------------------------------------------------------------
\* Releasing the slot of a queued call preserves the invariant, whether the
\* call timed out or finished, provided that the label that stays and the
\* response timeout that stays are right for the calls that go on running.
LEMMA ReleaseIInv ==
  ASSUME IInv, NEW s \in Queued, NEW outcome \in {"done", "timedout"},
         NEW left \in {0, opInFlight}, NEW rt \in Timeouts,
         outcome = "timedout" => st[s] = "waiting" /\ left = opInFlight,
         outcome = "done" => st[s] = "running" /\ left = 0,
         rt = "ping" <=> \E t \in Slots \ {s} : kind[t] = "ping" /\ st[t] = "running",
         Release(s, outcome, left, rt)
  PROVE  IInv'
<1> DEFINE w == WokenBy(s)
<1> USE UserLockAssumption
<1>1. s \in Slots /\ st[s] \in {"waiting", "running"} /\ s <= issued /\ issued \in Nat
  BY DEF Queued, IInv, TypeOK, SlotsInUse, Slots
<1>2. \/ w = s + 1 /\ w \in Slots /\ st[w] = "waiting" /\ w <= issued
      \/ w = 0 /\ (s + 1 \in Slots => st[s + 1] # "waiting")
  BY <1>1 DEF WokenBy, Wakes, IInv, SlotsInUse, Slots
<1>3. w # s /\ w \in 0..MaxSlots
  BY <1>1, <1>2 DEF Slots
<1>4. st' = [t \in Slots |-> IF t = s THEN outcome ELSE IF t = w THEN "running" ELSE st[t]]
  BY DEF Release
<1>5. st'[s] = outcome /\ \A t \in Slots : t # s /\ t # w => st'[t] = st[t]
  BY <1>1, <1>4
<1>6. \A t \in Slots : t = w => w # 0 /\ st[t] = "waiting" /\ st'[t] = "running"
  BY <1>2, <1>3, <1>4 DEF Slots
<1>7. issued' = issued /\ kind' = kind
  BY DEF Release
<1>8. Queued' = Queued \ {s}
  BY <1>1, <1>2, <1>5, <1>6 DEF Queued
<1>9. InflightExact' /\ inflight' \in Nat
  <2>1. Cardinality(Queued') = Cardinality(Queued) - 1
    BY <1>8, QueuedFinite, FS_RemoveElement
  <2>2. Cardinality(Queued') \in Nat
    BY <1>8, QueuedFinite, FS_Subset, FS_CardinalityType
  <2> QED
    BY <2>1, <2>2, QueuedFinite DEF Release, IInv, InflightExact, TypeOK
<1>10. TypeOK'
  <2>1. st' \in [Slots -> SlotState]
    BY <1>4 DEF IInv, TypeOK, SlotState
  <2>2. saved' \in [Slots -> Timeouts] /\ readTimeout' \in Timeouts
    BY <1>2 DEF Release, Start, IInv, TypeOK, Timeouts
  <2> QED
    BY <1>3, <1>7, <1>9, <2>1, <2>2 DEF Release, IInv, TypeOK
<1>11. SlotsInUse'
  BY <1>1, <1>2, <1>5, <1>6, <1>7 DEF IInv, SlotsInUse, Slots
<1>12. WaitersHaveARunner'
  <2> SUFFICES ASSUME NEW t \in Slots, st'[t] = "waiting"
               PROVE  \E p \in 1..(t - 1) :
                        /\ st'[p] = "running"
                        /\ \A u \in (p + 1)..(t - 1) : st'[u] = "waiting"
    BY DEF WaitersHaveARunner
  <2>1. t # s /\ t # w /\ st[t] = "waiting"
    BY <1>5, <1>6
  <2>2. PICK p \in 1..(t - 1) : /\ st[p] = "running"
                                /\ \A u \in (p + 1)..(t - 1) : st[u] = "waiting"
    BY <2>1 DEF IInv, WaitersHaveARunner
  <2>3. CASE p <= s /\ s < t
    <3>1. s + 1 < t
      BY <1>1, <1>2, <2>1, <2>3 DEF Slots
    <3>2. w = s + 1
      <4>1. s + 1 \in (p + 1)..(t - 1) /\ s + 1 \in Slots
        BY <1>1, <2>3, <3>1 DEF Slots
      <4> QED
        BY <1>2, <2>2, <4>1
    <3>3. w \in 1..(t - 1) /\ st'[w] = "running"
      BY <1>1, <1>2, <1>6, <3>1, <3>2 DEF Slots
    <3>4. \A u \in (w + 1)..(t - 1) : st'[u] = "waiting"
      BY <1>1, <1>5, <2>2, <2>3, <3>2 DEF Slots
    <3> QED
      BY <3>3, <3>4
  <2>4. CASE ~(p <= s /\ s < t)
    <3>1. p # s /\ \A u \in (p + 1)..(t - 1) : u # s /\ u # w
      BY <1>1, <1>2, <2>1, <2>2, <2>4 DEF Slots
    <3>2. p # w
      BY <1>2, <2>2 DEF Slots
    <3> QED
      BY <1>5, <2>2, <3>1, <3>2 DEF Slots
  <2> QED
    BY <2>3, <2>4
<1>13. Overtaking'
  <2> SUFFICES ASSUME NEW p \in Slots, NEW q \in Slots, p < q,
                      st'[p] \in {"waiting", "running"}, st'[q] \in {"running", "done"}
               PROVE  \E t \in (p + 1)..(q - 1) : st'[t] = "timedout"
    BY DEF Overtaking
  <2>1. p # s /\ st[p] \in {"waiting", "running"}
    BY <1>5, <1>6
  <2>2. \A t \in Slots : st[t] = "timedout" => st'[t] = "timedout"
    BY <1>1, <1>5, <1>6
  <2>3. CASE q # s /\ q # w
    BY <1>5, <2>1, <2>2, <2>3 DEF IInv, Overtaking, Slots
  <2>4. CASE q = s
    <3>1. outcome = "done" /\ st[s] = "running"
      BY <1>5, <2>4
    <3> QED
      BY <2>1, <2>2, <2>4, <3>1 DEF IInv, Overtaking, Slots
  <2>5. CASE q = w
    <3>1. q = s + 1 /\ p < s
      BY <1>1, <1>2, <2>1, <2>5 DEF Slots
    <3>2. CASE outcome = "timedout"
      BY <1>1, <1>5, <3>1, <3>2 DEF Slots
    <3>3. CASE outcome = "done"
      <4>1. PICK t \in (p + 1)..(s - 1) : st[t] = "timedout"
        BY <1>1, <2>1, <3>1, <3>3 DEF IInv, Overtaking
      <4> QED
        BY <1>1, <2>2, <3>1, <4>1 DEF Slots
    <3> QED
      BY <3>2, <3>3
  <2> QED
    BY <2>3, <2>4, <2>5
<1>14. LabelRuns'
  <2>1. CASE w # 0
    BY <1>2, <1>6, <2>1 DEF Release, LabelRuns
  <2>2. CASE w = 0 /\ left # 0
    <3>1. outcome = "timedout" /\ left = opInFlight /\ opInFlight' = opInFlight
      BY <2>2 DEF Release
    <3>2. opInFlight \in Slots /\ opInFlight # s
      BY <2>2, <3>1 DEF IInv, TypeOK, LabelRuns, Slots
    <3> QED
      BY <1>5, <2>2, <3>1, <3>2 DEF IInv, LabelRuns
  <2>3. CASE w = 0 /\ left = 0
    BY <2>3 DEF Release, LabelRuns
  <2> QED
    BY <2>1, <2>2, <2>3
<1>15. RunnerLabelled'
  <2> SUFFICES ASSUME \A t \in Slots : st'[t] # "timedout",
                      NEW t \in Slots, st'[t] = "running"
               PROVE  opInFlight' = t
    BY DEF RunnerLabelled
  <2>1. outcome = "done" /\ st[s] = "running"
    BY <1>1, <1>5
  <2>2. \A u \in Slots : st[u] # "timedout"
    BY <1>1, <1>5, <1>6
  <2>3. t = w
    BY <1>1, <1>5, <2>1, <2>2 DEF IInv, RunnerLabelled
  <2> QED
    BY <2>3, <1>2, <1>1 DEF Release, Slots
<1>16. OnePing'
  <2>1. \A t, u \in Queued' : kind'[t] = "ping" /\ kind'[u] = "ping" => t = u
    BY <1>7, <1>8 DEF IInv, OnePing
  <2>2. CASE w # 0 /\ kind[w] = "ping"
    <3>1. \A t \in Slots : kind[t] = "ping" /\ st[t] = "running" => t = w
      BY <1>2, <2>2 DEF IInv, OnePing, Queued
    <3>2. rt = "configured"
      BY <1>2, <2>2, <3>1 DEF Timeouts
    <3>3. saved' = [saved EXCEPT ![w] = rt]
      BY <2>2 DEF Release, Start
    <3> QED
      BY <1>1, <1>2, <1>3, <1>5, <1>7, <2>1, <2>2, <3>1, <3>2, <3>3 DEF IInv, TypeOK, OnePing
  <2>3. CASE w = 0 \/ kind[w] # "ping"
    <3>1. saved' = saved
      BY <2>3 DEF Release, Start
    <3> QED
      BY <1>1, <1>5, <1>6, <1>7, <2>1, <2>3, <3>1 DEF IInv, OnePing
  <2> QED
    BY <2>2, <2>3
<1>17. ReadTimeoutFollowsPing'
  <2>1. CASE w # 0 /\ kind[w] = "ping"
    BY <1>2, <1>6, <1>7, <2>1 DEF Release, Start, ReadTimeoutFollowsPing
  <2>2. CASE w = 0 \/ kind[w] # "ping"
    <3>1. readTimeout' = rt
      BY <2>2 DEF Release, Start
    <3>2. \A t \in Slots : (kind'[t] = "ping" /\ st'[t] = "running")
                             <=> (t # s /\ kind[t] = "ping" /\ st[t] = "running")
      BY <1>1, <1>5, <1>6, <1>7, <2>2
    <3> QED
      BY <3>1, <3>2 DEF ReadTimeoutFollowsPing
  <2> QED
    BY <2>1, <2>2
<1> QED
  BY <1>9, <1>10, <1>11, <1>12, <1>13, <1>14, <1>15, <1>16, <1>17 DEF IInv

-----------------------------------------------------------------------------
LEMMA NextIInv == IInv /\ [Next]_vars => IInv'
<1> SUFFICES ASSUME IInv, [Next]_vars PROVE IInv'
  OBVIOUS
<1>1. ASSUME NEW k \in Kinds, Acquire(k) PROVE IInv'
  BY <1>1, AcquireIInv
<1>2. ASSUME NEW s \in Slots, Timeout(s) PROVE IInv'
  <2>1. s \in Queued /\ st[s] = "waiting"
    BY <1>2 DEF Timeout, Queued
  <2>2. readTimeout \in Timeouts
    BY DEF IInv, TypeOK
  <2>3. readTimeout = "ping" <=> \E t \in Slots \ {s} : kind[t] = "ping" /\ st[t] = "running"
    BY <2>1 DEF IInv, ReadTimeoutFollowsPing
  <2>4. Release(s, "timedout", opInFlight, readTimeout)
    BY <1>2 DEF Timeout
  <2> QED
    BY <2>1, <2>2, <2>3, <2>4, ReleaseIInv
<1>3. ASSUME NEW s \in Slots, Finish(s) PROVE IInv'
  <2> DEFINE rt == IF kind[s] = "ping" THEN saved[s] ELSE readTimeout
  <2>1. s \in Queued /\ st[s] = "running"
    BY <1>3 DEF Finish, Queued
  <2>2. rt \in Timeouts
    BY DEF IInv, TypeOK
  <2>3. rt = "ping" <=> \E t \in Slots \ {s} : kind[t] = "ping" /\ st[t] = "running"
    <3>1. CASE kind[s] = "ping"
      <4>1. rt = "configured"
        BY <2>1, <3>1 DEF IInv, OnePing
      <4>2. \A t \in Slots : kind[t] = "ping" /\ st[t] = "running" => t = s
        BY <2>1, <3>1 DEF IInv, OnePing, Queued
      <4> QED
        BY <4>1, <4>2
    <3>2. CASE kind[s] # "ping"
      BY <3>2 DEF IInv, ReadTimeoutFollowsPing
    <3> QED
      BY <3>1, <3>2
  <2>4. Release(s, "done", 0, rt)
    BY <1>3 DEF Finish
  <2> QED
    BY <2>1, <2>2, <2>3, <2>4, ReleaseIInv
<1>4. ASSUME UNCHANGED vars PROVE IInv'
  BY <1>4 DEF vars, IInv, TypeOK, SlotsInUse, InflightExact, WaitersHaveARunner, Overtaking,
              LabelRuns, RunnerLabelled, OnePing, ReadTimeoutFollowsPing, Queued
<1> QED
  BY <1>1, <1>2, <1>3, <1>4 DEF Next

THEOREM InductiveInvariant == Spec => []IInv
<1>1. Init => IInv
  BY InitIInv
<1>2. IInv /\ [Next]_vars => IInv'
  BY NextIInv
<1> QED
  BY <1>1, <1>2, PTL DEF Spec

-----------------------------------------------------------------------------
\* The variables of the lock keep their types.
THEOREM TypeCorrect == Spec => []TypeOK
<1>1. IInv => TypeOK
  BY DEF IInv
<1> QED
  BY <1>1, InductiveInvariant, PTL

\* _userLockInflight counts the calls that run or wait and stays within
\* MAX_USER_LOCK_INFLIGHT, however calls time out and finish.
THEOREM InflightAlwaysExact == Spec => []InflightExact
<1>1. IInv => InflightExact
  BY DEF IInv
<1> QED
  BY <1>1, InductiveInvariant, PTL

\* No wake-up is lost: a waiting call always stands behind a running one.
THEOREM NoLostWakeup == Spec => []WaitersHaveARunner
<1>1. IInv => WaitersHaveARunner
  BY DEF IInv
<1> QED
  BY <1>1, InductiveInvariant, PTL

\* Two calls overlap, or a call overtakes one that waits, only past a call
\* whose acquire timer fired.
THEOREM OverlapNeedsTimeout == Spec => []OvertakenOnlyPastTimeout
<1>1. IInv => OvertakenOnlyPastTimeout
  BY DEF IInv, Overtaking, OvertakenOnlyPastTimeout
<1> QED
  BY <1>1, InductiveInvariant, PTL

\* As long as no acquire timer fires, the lock does what its name says.
THEOREM SerializedWithoutTimeouts ==
  Spec => []((\A s \in Slots : st[s] # "timedout") => UserOpsSerialized)
<1>1. IInv => ((\A s \in Slots : st[s] # "timedout") => UserOpsSerialized)
  BY DEF IInv, RunnerLabelled, UserOpsSerialized
<1> QED
  BY <1>1, InductiveInvariant, PTL

\* What the watchdog reads in userLockBusy is never a settled operation, and
\* is exact until a first acquire timeout.
THEOREM BusyFlagAlwaysSound == Spec => []BusyFlagSound
<1>1. IInv => BusyFlagSound
  <2> SUFFICES ASSUME IInv PROVE BusyFlagSound
    OBVIOUS
  <2>1. opInFlight # 0 => st[opInFlight] = "running"
    BY DEF IInv, LabelRuns
  <2>2. \A s \in Slots : s # 0
    BY UserLockAssumption DEF Slots
  <2> QED
    BY <2>1, <2>2 DEF IInv, RunnerLabelled, BusyFlagSound
<1> QED
  BY <1>1, InductiveInvariant, PTL

\* The response timeout is the ping's exactly while a ping runs.
THEOREM ReadTimeoutRestored == Spec => []ReadTimeoutFollowsPing
<1>1. IInv => ReadTimeoutFollowsPing
  BY DEF IInv
<1> QED
  BY <1>1, InductiveInvariant, PTL
=============================================================================
