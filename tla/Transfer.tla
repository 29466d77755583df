------------------------------ MODULE Transfer ------------------------------
(***************************************************************************)
(* One readValues() or writeValues() of the client, as withReconnect() of  *)
(* the endpoint runs it.                                                   *)
(*                                                                         *)
(* The items are cut twice: into batches, each of which holds the user     *)
(* lock, and each batch into requests of as many items as the PLC takes.   *)
(* An answer numbers the items of its request from 1.  Between batches the *)
(* lock is free, and the session may end and another begin; the PLC of the *)
(* new one may take another number of items.  When the session is down or  *)
(* ends during a request the operation fails, and is run again once, from  *)
(* its first item.                                                         *)
(***************************************************************************)
EXTENDS Integers, Sequences, FiniteSets

CONSTANTS
  MaxItems,     \* bound: items of an operation
  PlcLimits,    \* the numbers of items a PLC may take in one request
  ReadBatch,    \* MAX_TAGS_PER_LOCK
  WriteBatch,   \* WRITE_LOCK_BATCH_CAP
  MaxLosses     \* bound: sessions lost

ASSUME TransferAssumption ==
  /\ MaxItems \in Nat /\ MaxLosses \in Nat
  /\ PlcLimits \subseteq Nat \ {0} /\ ReadBatch \in Nat \ {0} /\ WriteBatch \in Nat \ {0}

VARIABLES
  call,      \* the operation: [kind, n], n being the number of its items
  stage,     \* idle, batch (waits for the lock), request, answer, done
  batch,     \* [from, to]: the items of the batch that is under way
  width,     \* the number of items a request of this batch may have
  next,      \* the first item of the request that is made next
  sent,      \* the items of the request that is with the PLC: a sequence
  partial,   \* values and errors of the batch: what the answers said of each item
  results,   \* values and errors of the operation
  trial,   \* withReconnect(): 1 or 2
  executed,  \* history: how often the PLC has executed each item
  plcLimit,  \* the number of items the session's PLC takes
  up,        \* the session is up
  losses     \* bound

transfer == <<call, stage, batch, width, next, sent, partial, results, trial,
              executed, plcLimit, up, losses>>

LeastOf(a, b) == IF a <= b THEN a ELSE b
NoCall     == [kind |-> "read", n |-> 0]

\* What an operation reports of an item the PLC says nothing about.
Unmentioned(kind) == IF kind = "read" THEN [item |-> 0, said |-> "error"]
                                      ELSE [item |-> 0, said |-> "ok"]
Unset == [item |-> 0, said |-> "unset"]

\* How many items a batch of an operation has; the limit of this moment counts.
BatchSize(kind, limit) == IF kind = "read" THEN ReadBatch ELSE LeastOf(limit, WriteBatch)

TransferInit ==
  /\ call = NoCall /\ stage = "idle" /\ batch = [from |-> 1, to |-> 0, size |-> 1]
  /\ width = 1 /\ next = 1 /\ sent = <<>> /\ partial = <<>> /\ results = <<>>
  /\ trial = 1 /\ executed = <<>>
  /\ plcLimit \in PlcLimits /\ up = TRUE /\ losses = 0

\* The operation begins, or begins again, with the batch size of this moment.
FromTheStart(c) ==
  LET size == BatchSize(c.kind, plcLimit)
  IN  /\ stage' = "batch"
      /\ batch' = [from |-> 1, to |-> LeastOf(size, c.n), size |-> size]
      /\ results' = [i \in 1..c.n |-> Unset]
      /\ next' = 1 /\ sent' = <<>> /\ partial' = <<>> /\ width' = 1

\* readValues() or writeValues() of n items.
Call(kind, n) ==
  /\ stage = "idle" /\ up
  /\ call' = [kind |-> kind, n |-> n]
  /\ FromTheStart([kind |-> kind, n |-> n])
  /\ trial' = 1 /\ executed' = [i \in 1..n |-> 0]
  /\ UNCHANGED <<plcLimit, up, losses>>

\* The batch has the user lock.  A write fixes the width of its requests here.
BatchBegin ==
  /\ stage = "batch" /\ up
  /\ stage' = "request"
  /\ width' = plcLimit
  /\ next' = batch.from
  /\ partial' = [i \in batch.from..batch.to |-> Unmentioned(call.kind)]
  /\ UNCHANGED <<call, batch, sent, results, trial, executed, plcLimit, up, losses>>

\* The width of the next request: a read looks at the limit every time.
Width == IF call.kind = "read" THEN plcLimit ELSE width

\* The next request reaches the PLC, which executes its items in their order.
Request ==
  LET last == LeastOf(next + Width - 1, batch.to)
  IN  /\ stage = "request" /\ next <= batch.to
      /\ stage' = "answer"
      /\ sent' = [k \in 1..(last - next + 1) |-> next + k - 1]
      /\ executed' = [i \in DOMAIN executed |-> IF i \in next..last THEN executed[i] + 1 ELSE executed[i]]
      /\ UNCHANGED <<call, batch, width, next, partial, results, trial, plcLimit, up, losses>>

\* Mutant: the keys of an answer are taken for indices of the batch.
Placed_NoChunkStart(answer) ==
  [i \in DOMAIN partial |->
     LET k == i - batch.from + 1
     IN  IF k \in DOMAIN answer THEN answer[k] ELSE partial[i]]

\* values[chunkStart + key - 1] and errors[chunkStart + key - 1].
Placed(answer) ==
  [i \in DOMAIN partial |->
     LET k == i - next + 1
     IN  IF k \in DOMAIN answer THEN answer[k] ELSE partial[i]]

\* The answer mentions some of the items, by their number in the request: all
\* that were read or refused; of a write those refused.
Answered ==
  /\ stage = "answer"
  /\ \E mentioned \in SUBSET (DOMAIN sent) :
       partial' = Placed([k \in mentioned |-> [item |-> sent[k], said |-> "answer"]])
  /\ next' = next + Len(sent) /\ sent' = <<>>
  /\ stage' = "request"
  /\ UNCHANGED <<call, batch, width, results, trial, executed, plcLimit, up, losses>>

\* The batch is through, its results take their places and the lock is free.
BatchDone ==
  /\ stage = "request" /\ next > batch.to
  /\ results' = [i \in DOMAIN results |-> IF i \in DOMAIN partial THEN partial[i] ELSE results[i]]
  /\ LET to == LeastOf(batch.to + batch.size, call.n)
     IN  IF batch.to = call.n
           THEN stage' = "done" /\ batch' = batch
           ELSE stage' = "batch" /\ batch' = [from |-> batch.to + 1, to |-> to, size |-> batch.size]
  /\ partial' = <<>>
  /\ UNCHANGED <<call, width, next, sent, trial, executed, plcLimit, up, losses>>

\* The caller has the results or an error.
Over == stage' = "idle" /\ call' = NoCall /\ results' = <<>> /\ executed' = <<>> /\ trial' = 1

Return ==
  /\ stage = "done" /\ Over
  /\ UNCHANGED <<batch, width, next, sent, partial, plcLimit, up, losses>>

\* The operation fails: it is run again once.
Fails ==
  /\ IF trial = 1 THEN stage' = "again" /\ trial' = 2 /\ UNCHANGED <<call, results, executed>>
                    ELSE Over
  /\ sent' = <<>> /\ partial' = <<>>
  /\ UNCHANGED <<batch, width, next, plcLimit>>

\* The next batch has the lock and finds that the session is down.
BatchFindsNoSession == stage = "batch" /\ ~up /\ Fails /\ UNCHANGED <<up, losses>>

\* A request is with the PLC, or the batch has another one to make.
InRequests == stage = "answer" \/ (stage = "request" /\ next <= batch.to)

\* The session ends.  A request that is under way fails, executed or not.
SessionEnds ==
  /\ up /\ losses < MaxLosses /\ up' = FALSE /\ losses' = losses + 1
  /\ \/ InRequests /\ Fails
     \/ ~InRequests
        /\ UNCHANGED <<call, stage, batch, width, next, sent, partial, results, trial, executed, plcLimit>>

\* Another session begins; its PLC has told its limits.
Connect ==
  /\ ~up /\ up' = TRUE /\ plcLimit' \in PlcLimits
  /\ UNCHANGED <<call, stage, batch, width, next, sent, partial, results, trial, executed, losses>>

\* withReconnect() runs the operation a second time.
RunAgain ==
  /\ stage = "again" /\ up /\ FromTheStart(call)
  /\ UNCHANGED <<call, trial, executed, plcLimit, up, losses>>

TransferNext ==
  \/ \E kind \in {"read", "write"}, n \in 1..MaxItems : Call(kind, n)
  \/ BatchBegin \/ Request \/ Answered \/ BatchDone \/ Return
  \/ BatchFindsNoSession \/ SessionEnds \/ Connect \/ RunAgain

TransferSpec == TransferInit /\ [][TransferNext]_transfer

-----------------------------------------------------------------------------
(* Properties *)

\* Nobody gets the result of another item: what an answer said of an item is
\* at that item's place, and what was not answered is not reported at all.
OwnResults ==
  /\ \A i \in DOMAIN partial : partial[i].item \in {0, i}
  /\ \A i \in DOMAIN results : results[i].item \in {0, i}
  /\ stage = "done" => \A i \in DOMAIN results : results[i] # Unset

\* The PLC has executed the items in their order, none more often than the
\* operation was begun, and all of them when it succeeds.
ExecutedInOrder ==
  /\ \A i \in DOMAIN executed : executed[i] <= trial
  /\ \A i, j \in DOMAIN executed : i < j => executed[j] <= executed[i]
  /\ stage = "done" => \A i \in DOMAIN executed : executed[i] >= 1

\* No request has more items than the PLC of this session takes.
RequestFits == stage = "answer" => Len(sent) \in 1..plcLimit

\* However a read or write is cut into batches and requests, and whatever
\* becomes of the session between them, each item gets its own result, is
\* executed in its turn and at most once per attempt, in requests that the PLC
\* accepts (readValues, writeValues).
EachItemServed == OwnResults /\ ExecutedInOrder /\ RequestFits
=============================================================================
