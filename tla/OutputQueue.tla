---------------------------- MODULE OutputQueue ----------------------------
(***************************************************************************)
(* What a subscribe node sends: notifications become messages with the     *)
(* values that changed, cached values are sent again when they have not    *)
(* been sent for the resend interval, and both go through the bounded      *)
(* queue of OutputMsgQueue, which is drained by setImmediate().  A drain    *)
(* hands everything that waits to node.send() as one flat array, and the   *)
(* node has one output: only the first message leaves.                     *)
(*                                                                         *)
(* A value is its version here: versions[n] counts the changes of symbol n *)
(* that the PLC has notified.  A message maps symbols to versions.         *)
(***************************************************************************)
EXTENDS Integers, Sequences

CONSTANTS
  Names,       \* the node's symbols
  MaxQueue,    \* maxQueue
  MaxVersion,  \* bound: changes of a symbol
  MaxDrains    \* bound: immediates that are outstanding

ASSUME OutputAssumption == MaxQueue \in Nat \ {0, 1} /\ MaxVersion \in Nat /\ MaxDrains \in Nat \ {0}

VARIABLES
  versions,   \* versions[n]: the version last notified
  values,     \* lastValues: the version of each symbol it has, 0 if it has none
  overdue,    \* symbols whose lastSentAt is the resend interval ago
  pending,    \* _queue
  scheduled,  \* _drainScheduled
  drains,     \* outstanding calls of _drain()
  reachable,  \* the endpoint is online
  listening,  \* activeSymbols is not empty
  ticking,    \* the resend timer runs
  received,   \* what has been sent last of each symbol
  lost        \* history: symbols whose newest version will not be sent, since
              \* an overflow, the rest of a batch or a failed flush had it

output == <<versions, values, overdue, pending, scheduled, drains, reachable, listening, ticking,
            received, lost>>

OutputInit ==
  /\ versions = [n \in Names |-> 0] /\ values = [n \in Names |-> 0]
  /\ overdue = {} /\ pending = <<>> /\ scheduled = FALSE /\ drains = 0
  /\ reachable = TRUE /\ listening = TRUE /\ ticking = TRUE
  /\ received = [n \in Names |-> 0] /\ lost = {}

-----------------------------------------------------------------------------
(* OutputMsgQueue *)

\* Mutant: the newest half goes.
Room_Newest == IF Len(pending) >= MaxQueue THEN SubSeq(pending, 1, Len(pending) - (Len(pending) \div 2)) ELSE pending

\* The queue that enqueue() appends to: when it is full the oldest half goes.
Room == IF Len(pending) >= MaxQueue THEN SubSeq(pending, (Len(pending) \div 2) + 1, Len(pending)) ELSE pending

\* The messages that wait and have symbol n.
With(n) == {i \in DOMAIN pending : n \in DOMAIN pending[i]}

\* Those with its newest value.
Places(n) == {i \in With(n) : pending[i][n] = values[n]}

\* The symbols whose newest value waits in the oldest half of a full queue
\* only: the ones an overflow may lose.
Exposed ==
  {n \in Names : /\ Len(pending) >= MaxQueue /\ Places(n) # {}
                 /\ \A i \in Places(n) : i <= Len(pending) \div 2}

\* _scheduleDrain().
Schedule == scheduled' = TRUE /\ drains' = IF scheduled THEN drains ELSE drains + 1

\* enqueue() of a message.
Enqueue(message) ==
  /\ scheduled \/ drains < MaxDrains
  /\ pending' = Append(Room, message)
  /\ lost' = (lost \cup Exposed) \ DOMAIN message
  /\ Schedule

\* What is sent when the flush function throws.
NoMessage == [n \in {} |-> 0]

\* The flush function sends `message' of the batch, and the batch is gone.
Flushed(message) ==
  /\ received' = [n \in Names |-> IF n \in DOMAIN message THEN message[n] ELSE received[n]]
  /\ lost' = {n \in lost \cup {m \in Names : Places(m) # {}} :
                n \in DOMAIN message => message[n] # values[n]}

\* _drain(): everything that waits is one batch, of which the node's output
\* takes the first message, or nothing when the flush function throws.
Drain ==
  /\ drains > 0 /\ drains' = drains - 1
  /\ scheduled' = FALSE /\ pending' = <<>>
  /\ \/ pending = <<>> /\ UNCHANGED <<received, lost>>
     \/ pending # <<>> /\ (Flushed(pending[1]) \/ Flushed(NoMessage))
  /\ UNCHANGED <<ticking, versions, values, overdue, reachable, listening>>

-----------------------------------------------------------------------------
(* The subscribe node *)

\* buildOutputMsg(): a notification with changes of the symbols ns.
Change(ns) ==
  /\ listening /\ \A n \in ns : versions[n] < MaxVersion
  /\ LET new == [n \in ns |-> versions[n] + 1]
     IN  /\ versions' = [n \in Names |-> IF n \in ns THEN new[n] ELSE versions[n]]
         /\ values' = [n \in Names |-> IF n \in ns THEN new[n] ELSE values[n]]
         /\ overdue' = overdue \ ns
         /\ Enqueue(new)
  /\ UNCHANGED <<ticking, reachable, listening, received>>

\* The resend interval has passed since symbol n was last part of a message.
IntervalPasses(n) ==
  /\ values[n] > 0 /\ n \notin overdue /\ overdue' = overdue \cup {n}
  /\ UNCHANGED <<ticking, versions, values, pending, scheduled, drains, reachable, listening, received, lost>>

\* resendStaleValues(), called by the resend timer.
ResendStaleValues ==
  /\ ticking /\ listening /\ reachable /\ overdue # {}
  /\ Enqueue([n \in overdue |-> values[n]])
  /\ overdue' = {}
  /\ UNCHANGED <<ticking, versions, values, reachable, listening, received>>

\* The endpoint goes offline or comes back.
EndpointStatus ==
  /\ reachable' = ~reachable
  /\ UNCHANGED <<ticking, versions, values, overdue, pending, scheduled, drains, listening, received, lost>>

\* A message without symbols: the cached values go, the queue stays.
Unlist ==
  /\ listening /\ listening' = FALSE
  /\ values' = [n \in Names |-> 0] /\ overdue' = {} /\ lost' = {}
  /\ UNCHANGED <<ticking, versions, pending, scheduled, drains, reachable, received>>

\* Symbols again; the PLC notifies all their values.
Relist ==
  /\ ~listening /\ listening' = TRUE
  /\ UNCHANGED <<ticking, versions, values, overdue, pending, scheduled, drains, reachable, received, lost>>

\* The node closes: reset() and the end of the resend timer.  Notifications
\* come until the endpoint has unsubscribed the node.
NodeClosed ==
  /\ ticking' = FALSE /\ pending' = <<>> /\ scheduled' = FALSE
  /\ values' = [n \in Names |-> 0] /\ overdue' = {} /\ lost' = {}
  /\ UNCHANGED <<versions, drains, reachable, listening, received>>

OutputNext ==
  \/ \E ns \in (SUBSET Names) \ {{}} : Change(ns)
  \/ \E n \in Names : IntervalPasses(n)
  \/ ResendStaleValues \/ Drain \/ EndpointStatus \/ Unlist \/ Relist \/ NodeClosed

OutputSpec == OutputInit /\ [][OutputNext]_output

-----------------------------------------------------------------------------
(* Properties *)

\* A flow never sees an older value after a newer one, although cached values
\* are sent again between changes.
InOrder ==
  \A n \in Names : \A i \in With(n) :
    /\ received[n] <= pending[i][n]
    /\ \A j \in With(n) : i <= j => pending[i][n] <= pending[j][n]

\* The newest value has been sent last or waits to be, unless an overflow, the
\* rest of a batch or a failed flush has cost it.
NewestOnItsWay ==
  \A n \in Names : values[n] = 0 \/ n \in lost \/ received[n] = values[n] \/ Places(n) # {}

\* What waits has somebody to send it.
DrainComes == pending # <<>> => scheduled /\ drains > 0

\* The queue loses a newest value nowhere but in the oldest half when it is
\* full, and in a flush; it keeps the order and never stalls, whenever it
\* overflows, is reset, filled again with a drain outstanding, or a flush
\* throws (enqueue, _drain, resendStaleValues).
QueueDelivers == InOrder /\ NewestOnItsWay /\ DrainComes /\ Len(pending) <= MaxQueue

\* What is queued and not dropped is sent (output-msg-queue.js:7: "batched via
\* setImmediate as node.send([...])").  The code does not keep this: of two
\* messages in a batch the second one is lost.
OverflowOnlyLoses == [][lost' \subseteq lost \cup Exposed]_output
=============================================================================
