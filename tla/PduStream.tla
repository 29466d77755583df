------------------------------- MODULE PduStream -------------------------------
(***************************************************************************)
(* What the dispatcher of S7CommPlusClient gets of the receive path: the   *)
(* PDUs the PLC sent on a connection, whole, in order and once each,       *)
(* however the stream is cut into chunks.  A PDU above the size cap, or    *)
(* one that a system event or lost sync interrupted, never comes whole; it *)
(* is missing, or its end comes in its place.  What a lost connection had  *)
(* not delivered is missing too.                                           *)
(***************************************************************************)
EXTENDS Integers, Sequences

CONSTANTS
  Pdus,          \* the PDUs a PLC may send: a version and data
  MaxPduBytes    \* the size cap

VARIABLES
  inTransit,   \* PDUs sent on this connection and not yet dealt with
  got          \* PDUs dispatched, of all connections

vars == <<inTransit, got>>

Init == inTransit = <<>> /\ got = <<>>

SendPdu(p, interrupted) ==
  /\ inTransit' = Append(inTransit, [pdu |-> p, interrupted |-> interrupted])
  /\ UNCHANGED got

Damaged(m) == m.interrupted \/ Len(m.pdu) > MaxPduBytes

\* The version and what is behind byte `cut' of a PDU.
Rest(p, cut) == <<p[1]>> \o SubSeq(p, cut + 1, Len(p))

Dispatch ==
  /\ inTransit # <<>> /\ ~Damaged(Head(inTransit))
  /\ inTransit' = Tail(inTransit)
  /\ got' = Append(got, Head(inTransit).pdu)

\* A damaged PDU is dropped, all of it or up to a cut.
DropDamaged ==
  /\ inTransit # <<>> /\ Damaged(Head(inTransit))
  /\ inTransit' = Tail(inTransit)
  /\ \/ UNCHANGED got
     \/ LET p == Head(inTransit).pdu
        IN  \E cut \in 2..(Len(p) - 1) : got' = Append(got, Rest(p, cut))

NewConnection == inTransit' = <<>> /\ UNCHANGED got

Next ==
  \/ \E p \in Pdus, interrupted \in BOOLEAN : SendPdu(p, interrupted)
  \/ Dispatch \/ DropDamaged \/ NewConnection

Spec == Init /\ [][Next]_vars
=============================================================================
