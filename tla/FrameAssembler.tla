---------------------------- MODULE FrameAssembler ----------------------------
(***************************************************************************)
(* FrameAssembler (lib/s7plus/frame-assembler.js): from chunks of a byte   *)
(* stream, cut anywhere, to PDUs.                                          *)
(*                                                                         *)
(* A frame is <<SYNC, version, length high, length low>> and its data; a   *)
(* PDU is one or more data frames and an empty one.  push() appends a      *)
(* chunk and loops over what is there; each turn of its loop is an action  *)
(* (Resync, EndMarker, SystemEvent, Fragment), and the next chunk is       *)
(* pushed when none of them applies, which is where the loop breaks.       *)
(* Nothing else of the client runs while the loop does.                    *)
(*                                                                         *)
(* Places are counted from the start of the connection: buf is the first   *)
(* recvd bytes of the stream, of which the code keeps those from pos on.   *)
(*                                                                         *)
(* The wire is external: TCP and TLS keep the order of bytes and cut them  *)
(* at will.  A PLC cuts a PDU into frames at will.  System events, and     *)
(* bytes that belong to no frame, which stand for a loss of sync, may come *)
(* between any two frames.                                                 *)
(***************************************************************************)
EXTENDS Integers, Sequences

CONSTANTS
  Pdus,         \* the PDUs that may be sent: the version and all data
  Events,       \* the data of system events
  Junk,         \* byte sequences of no frame
  MaxPduBytes,  \* maxPduBytes
  MaxSends      \* bound: PDUs, system events and junk sent in a behaviour

SYNC               == 114   \* 0x72
SystemEventVersion == 254   \* 0xfe
Byte               == 0..255
MaxFrameData       == 65535

ASSUME PdusAssumption ==
  \A p \in Pdus : p \in Seq(Byte) /\ Len(p) >= 2 /\ p[1] # SystemEventVersion
ASSUME EventsAssumption == \A d \in Events : d \in Seq(Byte) /\ Len(d) \in 1..MaxFrameData
ASSUME JunkAssumption == \A b \in Junk : b \in Seq(Byte \ {SYNC}) /\ b # <<>>
ASSUME BoundsAssumption == MaxPduBytes \in Nat \ {0} /\ MaxSends \in Nat

VARIABLES
  stream,      \* bytes sent on this connection
  sending,     \* the PDU whose frames are being sent
  off,         \* how many bytes of it frames have carried; 1 between two PDUs
  interrupted, \* something came between its frames
  sends,       \* number of PDUs, system events and junk sent
  recvd,       \* bytes of stream received: buf.length
  pos,         \* pos
  fragments,   \* _fragments concatenated; empty for null
  pduBytes,    \* _pduBytes
  out,         \* the PDUs _onPdu was called with
  frames,      \* history: the frames of this connection and where they are
  pdus         \* history: the PDUs of this connection and where they end

sender   == <<stream, sending, off, interrupted, sends, frames, pdus>>
assembly == <<fragments, pduBytes, out>>
vars     == <<sender, recvd, pos, assembly>>

Init ==
  /\ stream = <<>> /\ sending = <<>> /\ off = 1 /\ interrupted = FALSE
  /\ sends = 0 /\ frames = {} /\ pdus = <<>>
  /\ recvd = 0 /\ pos = 0
  /\ fragments = <<>> /\ pduBytes = 0 /\ out = <<>>

-----------------------------------------------------------------------------
(* The sender *)

\* One frame of the wire format; an empty one marks the end of a PDU.
Frame(ver, data) == <<SYNC, ver, Len(data) \div 256, Len(data) % 256>> \o data

\* A frame of version ver is sent, which carries n bytes of p from byte
\* `from' + 1 on; of a PDU only those from the second on are data.
SendFrame(ver, p, from, n, pdu) ==
  /\ stream' = stream \o Frame(ver, SubSeq(p, from + 1, from + n))
  /\ frames' = frames \cup
       {[at |-> Len(stream), pdu |-> pdu, from |-> from, len |-> n,
         broken |-> interrupted]}
  /\ UNCHANGED <<recvd, pos, assembly>>

\* The next frame of the PDU that is being sent, or the first of another.
SendFragment(p, n) ==
  /\ IF off = 1 THEN sends < MaxSends /\ sends' = sends + 1
                ELSE p = sending /\ UNCHANGED sends
  /\ n <= MaxFrameData /\ off + n <= Len(p)
  /\ SendFrame(p[1], p, off, n, p)
  /\ sending' = p /\ off' = off + n
  /\ UNCHANGED <<interrupted, pdus>>

SendEnd ==
  /\ off > 1 /\ off = Len(sending)
  /\ SendFrame(sending[1], sending, off, 0, sending)
  /\ pdus' = Append(pdus,
       [at |-> Len(stream), msg |-> [pdu |-> sending, interrupted |-> interrupted]])
  /\ sending' = <<>> /\ off' = 1 /\ interrupted' = FALSE
  /\ UNCHANGED sends

\* What is sent besides PDUs; it interrupts the one whose frames are being sent.
Besides ==
  /\ sends < MaxSends /\ sends' = sends + 1
  /\ interrupted' = (off > 1)
  /\ UNCHANGED <<sending, off, pdus>>

SendEvent(d) == Besides /\ SendFrame(SystemEventVersion, d, 0, Len(d), <<>>)

\* An end marker without a PDU, such as that of a system event.
SendStrayEnd == Besides /\ off = 1 /\ SendFrame(SystemEventVersion, <<>>, 0, 0, <<>>)

SendJunk(b) ==
  /\ Besides
  /\ stream' = stream \o b
  /\ UNCHANGED <<recvd, pos, assembly, frames>>

Send ==
  \/ \E p \in Pdus : \E n \in 1..Len(p) : SendFragment(p, n)
  \/ SendEnd
  \/ \E d \in Events : SendEvent(d)
  \/ SendStrayEnd
  \/ \E b \in Junk : SendJunk(b)

-----------------------------------------------------------------------------
(* push() *)

\* The header, and the data, of the frame at pos are there.
Synced    == pos < recvd /\ stream[pos + 1] = SYNC
Header    == Synced /\ recvd - pos >= 4
Version   == stream[pos + 2]
DataLen   == 256 * stream[pos + 3] + stream[pos + 4]
\* Mutant: waits for a byte behind the frame.
FrameHere_OneMore == Header /\ recvd - pos > 4 + DataLen

FrameHere == Header /\ recvd - pos >= 4 + DataLen

\* _dropPartialPdu.
DropPartialPdu == fragments' = <<>> /\ pduBytes' = 0

\* The place of the first SYNC byte from pos on; the end of buf without one.
NextSync ==
  LET starts == {i \in (pos + 1)..recvd : stream[i] = SYNC}
  IN  IF starts = {} THEN recvd ELSE (CHOOSE i \in starts : \A j \in starts : i <= j) - 1

\* Skip to the next possible start of a frame.
Resync ==
  /\ pos < recvd /\ stream[pos + 1] # SYNC
  /\ pos' = NextSync
  /\ DropPartialPdu
  /\ UNCHANGED <<sender, recvd, out>>

\* An empty frame ends the PDU; without fragments it is ignored.
EndMarker ==
  /\ FrameHere /\ DataLen = 0
  /\ pos' = pos + 4
  /\ IF fragments = <<>>
       THEN UNCHANGED assembly
       ELSE out' = Append(out, fragments) /\ DropPartialPdu
  /\ UNCHANGED <<sender, recvd>>

\* A system event is consumed; a partial PDU goes with it.
SystemEvent ==
  /\ FrameHere /\ DataLen > 0 /\ Version = SystemEventVersion
  /\ pos' = pos + 4 + DataLen
  /\ DropPartialPdu
  /\ UNCHANGED <<sender, recvd, out>>

\* A data frame adds to the PDU, which is dropped once it is above the cap.
Fragment ==
  /\ FrameHere /\ DataLen > 0 /\ Version # SystemEventVersion
  /\ pos' = pos + 4 + DataLen
  /\ LET first == IF fragments = <<>> THEN <<Version>> ELSE fragments
         bytes == (IF fragments = <<>> THEN 1 ELSE pduBytes) + DataLen
     IN  IF bytes > MaxPduBytes
           THEN DropPartialPdu
           ELSE /\ fragments' = first \o SubSeq(stream, pos + 5, pos + 4 + DataLen)
                /\ pduBytes' = bytes
  /\ UNCHANGED <<sender, recvd, out>>

LoopTurn == Resync \/ EndMarker \/ SystemEvent \/ Fragment

\* The loop breaks: nothing to skip, and no complete frame.
Waits == (pos = recvd \/ Synced) /\ ~FrameHere

\* push(): the next n bytes arrive in one chunk.
Push(n) ==
  /\ Waits
  /\ recvd' = recvd + n
  /\ UNCHANGED <<sender, pos, assembly>>

PushSome == \E n \in 1..(Len(stream) - recvd) : Push(n)

NewStream ==
  /\ stream' = <<>> /\ sending' = <<>> /\ off' = 1 /\ interrupted' = FALSE
  /\ frames' = {} /\ pdus' = <<>>
  /\ UNCHANGED sends

\* Mutant: the fragments survive into the next connection.
Reset_FragmentsKept ==
  /\ Waits
  /\ NewStream
  /\ recvd' = 0 /\ pos' = 0
  /\ UNCHANGED assembly

\* reset(), by the client's _resetReceiveState at a connect() or a loss: what
\* was on the wire is lost.
Reset ==
  /\ Waits
  /\ NewStream
  /\ recvd' = 0 /\ pos' = 0
  /\ DropPartialPdu
  /\ UNCHANGED out

Next == Send \/ LoopTurn \/ PushSome \/ Reset

Spec == Init /\ [][Next]_vars

\* Bytes that were sent arrive, and push() runs through its loop.
FairSpec == Spec /\ WF_vars(LoopTurn) /\ WF_vars(PushSome)

-----------------------------------------------------------------------------
(* What the assembler promises *)

\* How many PDUs end before pos, and what is sent and still to be read.
Ended ==
  CHOOSE k \in 0..Len(pdus) : \A i \in 1..Len(pdus) : i <= k <=> pdus[i].at < pos
InTransit == [j \in 1..(Len(pdus) - Ended) |-> pdus[Ended + j].msg]

Abstract == INSTANCE PduStream WITH inTransit <- InTransit, got <- out

\* However the stream is cut, the assembler hands on the PDUs that were sent:
\* each once, whole, in order, none lost but those of a connection that ended
\* (frame-assembler.js:86).  Of a PDU above the cap, or one with an event or
\* junk among its frames, it drops all or all but an end.
DeliversPdus == Abstract!Spec

\* "only ever hands complete, well-framed PDUs to _dispatchPdu" (client.js:121):
\* not so, an end of a damaged PDU is handed on too.
OnlyWholePdus == \A i \in 1..Len(out) : out[i] \in Pdus

\* Once nothing more is sent, every PDU that is on the wire has been handed
\* on: no leftover of buf waits for bytes that will not come.
Drained == <>[](InTransit = <<>> /\ recvd = Len(stream) /\ Waits)
=============================================================================
