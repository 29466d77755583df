--------------------------- MODULE MCSubscribeNode ---------------------------
(* SubscribeNode and OutputQueue, the two sides of a subscribe node, for    *)
(* model checking.  What one of them decides the other does not look at, so *)
(* a behaviour is one of either: MCInit chooses, the other stays as it is.  *)
EXTENDS SubscribeNode, OutputQueue

VARIABLE part

MCInit == Init /\ OutputInit /\ part \in {"lists", "output"}

MCNext ==
  \/ part = "lists" /\ Next /\ UNCHANGED <<part, output>>
  \/ part = "output" /\ OutputNext /\ UNCHANGED <<part, vars>>

\* A discarded record whose callback is a closed instance's changes nothing of
\* the node any more: behaviours go on only where none is among the records.
StaleMatters == \A r \in stale : r.cb = inst

MCSpec == MCInit /\ [][MCNext]_<<vars, output, part>>
=============================================================================
