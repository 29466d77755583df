------------------------- MODULE FrameAssemblerProofs -------------------------
(***************************************************************************)
(* Proofs about FrameAssembler, for any PDUs, events and junk, any cap and *)
(* any number of connections: what is on the wire are the frames of PDUs,  *)
(* whole and in their order, and what has been collected is of the PDU in  *)
(* front of pos (StreamIsRead); from which every step is one of PduStream  *)
(* or none (AssemblerDeliversPdus).                                        *)
(*                                                                         *)
(* The invariant has three parts.  The stream is its frames (Layout), of   *)
(* which those of a PDU follow each other from its first byte to its last  *)
(* (Chained) and end in its end marker (EndsMarked).  The loop stands at a *)
(* boundary of frames (AtBoundary), behind the ends of the first k PDUs    *)
(* (EndedIs).  The assembler has the PDU of the data frame right in front  *)
(* of pos, from its first byte or, if the cap or something between its     *)
(* frames has cost its start, from a later one (Progress).                 *)
(***************************************************************************)
EXTENDS FrameAssembler, WellFoundedInduction, TLAPS

End(f) == f.at + 4 + f.len

\* The frames of PDUs, the events, and those that an event is not.
OfPdu(f)   == f.pdu # <<>>
IsEvent(f) == f.pdu = <<>> /\ f.len > 0
Data(f)    == OfPdu(f) /\ f.len > 0

\* How many bytes of the PDU have been carried with frame f.
Upto(f) == f.from + f.len

Message == [pdu : Pdus, interrupted : BOOLEAN]

TypeOK ==
  /\ stream \in Seq(Byte)
  /\ sending \in Pdus \cup {<<>>} /\ off \in Nat \ {0} /\ interrupted \in BOOLEAN
  /\ sends \in Nat
  /\ frames \subseteq [at : Nat, pdu : Pdus \cup {<<>>}, from : Nat, len : Nat, broken : BOOLEAN]
  /\ pdus \in Seq([at : Nat, msg : Message])
  /\ recvd \in 0..Len(stream) /\ pos \in 0..recvd
  /\ fragments \in Seq(Byte) /\ pduBytes = Len(fragments)

-----------------------------------------------------------------------------
(* The stream *)

\* What the bytes of a frame are.
OnWire(f) ==
  /\ End(f) <= Len(stream)
  /\ stream[f.at + 1] = SYNC
  /\ 256 * stream[f.at + 3] + stream[f.at + 4] = f.len
  /\ IsEvent(f) => stream[f.at + 2] = SystemEventVersion
  /\ OfPdu(f) =>
       /\ stream[f.at + 2] = f.pdu[1]
       /\ 1 <= f.from /\ Upto(f) <= Len(f.pdu)
       /\ \A j \in 1..f.len : stream[f.at + 4 + j] = f.pdu[f.from + j]
       /\ f.len = 0 => f.from = Len(f.pdu)
       /\ f.from = 1 => ~f.broken

\* Frames do not overlap, and between them is no SYNC byte.
Layout ==
  /\ \A f \in frames : OnWire(f)
  /\ \A f, g \in frames : f = g \/ End(f) <= g.at \/ End(g) <= f.at
  /\ \A i \in 1..Len(stream) :
       stream[i] = SYNC => \E f \in frames : f.at < i /\ i <= End(f)

\* The loop never stands inside a frame.
AtBoundary == \A f \in frames : pos <= f.at \/ End(f) <= pos

-----------------------------------------------------------------------------
(* The frames of a PDU *)

\* g is the frame of its PDU behind f.
Follows(f, g) ==
  /\ g.pdu = f.pdu /\ g.from = Upto(f) /\ End(f) <= g.at
  /\ (g.broken <=> f.broken \/ End(f) < g.at)
  /\ \A h \in frames : IsEvent(h) \/ h.at <= f.at \/ g.at <= h.at

\* f is the last frame of the PDU that is being sent.
IsLast(f) ==
  /\ off > 1 /\ sending = f.pdu /\ off = Upto(f)
  /\ (interrupted <=> f.broken \/ End(f) < Len(stream))
  /\ \A h \in frames : IsEvent(h) \/ h.at <= f.at

Chained ==
  /\ \A f \in frames : Data(f) => IsLast(f) \/ \E g \in frames : Follows(f, g)
  /\ \A g \in frames : OfPdu(g) /\ g.from > 1 => \E f \in frames : Data(f) /\ Follows(f, g)
  /\ IF off = 1 THEN ~interrupted ELSE \E f \in frames : Data(f) /\ IsLast(f)

\* The end markers of the connection are the ends of pdus.
Closed(f) == [at |-> f.at, msg |-> [pdu |-> f.pdu, interrupted |-> f.broken]]

EndsMarked ==
  /\ \A f \in frames : OfPdu(f) /\ f.len = 0 => \E i \in 1..Len(pdus) : pdus[i] = Closed(f)
  /\ \A i \in 1..Len(pdus) :
       \E f \in frames : OfPdu(f) /\ f.len = 0 /\ pdus[i] = Closed(f)
  /\ \A i, j \in 1..Len(pdus) : i < j => pdus[i].at < pdus[j].at

\* k of the PDUs end before pos.
EndedIs(k) == k \in 0..Len(pdus) /\ \A i \in 1..Len(pdus) : i <= k <=> pdus[i].at < pos

-----------------------------------------------------------------------------
(* The assembler *)

\* The PDU of frame f from byte a + 1 on has been collected.
Collected(f, a) ==
  /\ a \in 1..(Upto(f) - 1)
  /\ fragments = <<f.pdu[1]>> \o SubSeq(f.pdu, a + 1, Upto(f))
  /\ IF a = 1 THEN ~f.broken ELSE f.broken \/ Upto(f) > MaxPduBytes

\* What is collected is of the PDU whose frame is before pos; nothing is only
\* if the cap was exceeded there.
Progress ==
  /\ fragments # <<>> =>
       /\ Len(fragments) <= MaxPduBytes
       /\ \E f \in frames : Data(f) /\ End(f) = pos /\ \E a \in Nat : Collected(f, a)
  /\ fragments = <<>> =>
       \A f \in frames : Data(f) /\ End(f) = pos => Upto(f) > MaxPduBytes

IInv ==
  /\ TypeOK /\ Layout /\ AtBoundary /\ Chained /\ EndsMarked
  /\ \E k \in Nat : EndedIs(k)
  /\ Progress

-----------------------------------------------------------------------------
(* Sequences *)

\* The bytes of two sequences, one behind the other.
LEMMA ConcatFacts ==
  ASSUME NEW s \in Seq(Byte), NEW t \in Seq(Byte)
  PROVE  /\ s \o t \in Seq(Byte) /\ Len(s \o t) = Len(s) + Len(t)
         /\ \A i \in 1..Len(s) : (s \o t)[i] = s[i]
         /\ \A j \in 1..Len(t) : (s \o t)[Len(s) + j] = t[j]
OBVIOUS

\* The bytes of a part of a sequence.
LEMMA SubSeqFacts ==
  ASSUME NEW s \in Seq(Byte), NEW a \in Nat \ {0}, NEW b \in Nat, a <= b + 1, b <= Len(s)
  PROVE  /\ SubSeq(s, a, b) \in Seq(Byte) /\ Len(SubSeq(s, a, b)) = b + 1 - a
         /\ \A j \in 1..(b + 1 - a) : SubSeq(s, a, b)[j] = s[a + j - 1]
<1>1. /\ \A j \in a..b : s[j] \in Byte
      /\ SubSeq(s, a, b) = [j \in 1..(b + 1 - a) |-> s[a + j - 1]]
  OBVIOUS
<1>2. SubSeq(s, a, b) \in Seq(Byte) /\ Len(SubSeq(s, a, b)) = b + 1 - a
  OBVIOUS
<1> QED
  BY <1>1, <1>2

\* Sequences of the same bytes are the same.
LEMMA SameSequence ==
  ASSUME NEW s \in Seq(Byte), NEW t \in Seq(Byte), Len(s) = Len(t),
         \A i \in 1..Len(s) : s[i] = t[i]
  PROVE  s = t
OBVIOUS

\* A byte in front of a sequence.
LEMMA HeadOn ==
  ASSUME NEW v \in Byte, NEW s \in Seq(Byte)
  PROVE  /\ <<v>> \o s \in Seq(Byte) /\ Len(<<v>> \o s) = 1 + Len(s)
         /\ (<<v>> \o s)[1] = v
         /\ \A j \in 1..Len(s) : (<<v>> \o s)[1 + j] = s[j]
<1>1. <<v>> \in Seq(Byte) /\ Len(<<v>>) = 1 /\ <<v>>[1] = v
  OBVIOUS
<1> HIDE <1>1
<1> QED
  BY <1>1, ConcatFacts

\* A PDU is its version and its data.
LEMMA WholePdu ==
  ASSUME NEW p \in Seq(Byte), Len(p) >= 1
  PROVE  <<p[1]>> \o SubSeq(p, 2, Len(p)) = p
<1> DEFINE d == SubSeq(p, 2, Len(p))
           w == <<p[1]>> \o d
<1>1. d \in Seq(Byte) /\ Len(d) = Len(p) - 1 /\ \A j \in 1..(Len(p) - 1) : d[j] = p[1 + j]
  <2>1. /\ d \in Seq(Byte) /\ Len(d) = Len(p) + 1 - 2
        /\ \A j \in 1..(Len(p) + 1 - 2) : d[j] = p[2 + j - 1]
    <3>1. 2 \in Nat \ {0} /\ Len(p) \in Nat /\ 2 <= Len(p) + 1
      OBVIOUS
    <3> HIDE DEF w
    <3>2. SubSeq(p, 2, Len(p)) \in Seq(Byte)
      BY <3>1, SubSeqFacts
    <3>3. Len(SubSeq(p, 2, Len(p))) = Len(p) + 1 - 2
      OBVIOUS
    <3>4. \A j \in 1..(Len(p) + 1 - 2) : SubSeq(p, 2, Len(p))[j] = p[2 + j - 1]
      BY <3>1, SubSeqFacts
    <3> QED
      BY <3>2, <3>3, <3>4
  <2> HIDE DEF d
  <2>2. \A j \in 1..(Len(p) - 1) : 2 + j - 1 = 1 + j
    OBVIOUS
  <2> QED
    BY <2>1, <2>2
<1>2. p[1] \in Byte
  OBVIOUS
<1> HIDE DEF d
<1>3. /\ w \in Seq(Byte) /\ Len(w) = Len(p) /\ w[1] = p[1]
      /\ \A j \in 1..(Len(p) - 1) : w[1 + j] = p[1 + j]
  BY <1>1, <1>2, HeadOn
<1> HIDE DEF w
<1>4. \A i \in 1..Len(w) : w[i] = p[i]
  <2> TAKE i \in 1..Len(w)
  <2>1. i = 1 \/ (i - 1 \in 1..(Len(p) - 1) /\ 1 + (i - 1) = i)
    BY <1>3
  <2> QED
    BY <2>1, <1>3
<1>5. w = p
  BY <1>3, <1>4, SameSequence
<1> QED
  BY <1>5 DEF w, d

\* What is collected up to byte m, and the data of the next frame.
LEMMA NextData ==
  ASSUME NEW v \in Byte, NEW p \in Seq(Byte),
         NEW a \in Nat, NEW m \in Nat, NEW n \in Nat, a <= m, m <= n, n <= Len(p)
  PROVE  (<<v>> \o SubSeq(p, a + 1, m)) \o SubSeq(p, m + 1, n) = <<v>> \o SubSeq(p, a + 1, n)
<1> DEFINE x == SubSeq(p, a + 1, m)
           y == SubSeq(p, m + 1, n)
           z == SubSeq(p, a + 1, n)
           u == <<v>> \o x
           l == u \o y
           r == <<v>> \o z
<1>1. /\ x \in Seq(Byte) /\ Len(x) = m - a /\ \A j \in 1..(m - a) : x[j] = p[a + j]
      /\ y \in Seq(Byte) /\ Len(y) = n - m /\ \A j \in 1..(n - m) : y[j] = p[m + j]
      /\ z \in Seq(Byte) /\ Len(z) = n - a /\ \A j \in 1..(n - a) : z[j] = p[a + j]
  BY SubSeqFacts
<1> HIDE DEF x, y, z
<1>2. /\ u \in Seq(Byte) /\ Len(u) = 1 + (m - a) /\ u[1] = v
      /\ \A j \in 1..(m - a) : u[1 + j] = p[a + j]
  BY <1>1, HeadOn
<1>3. /\ r \in Seq(Byte) /\ Len(r) = 1 + (n - a) /\ r[1] = v
      /\ \A j \in 1..(n - a) : r[1 + j] = p[a + j]
  BY <1>1, HeadOn
<1> HIDE DEF r, u
<1>4. /\ l \in Seq(Byte) /\ Len(l) = Len(u) + Len(y)
      /\ \A i \in 1..Len(u) : l[i] = u[i]
      /\ \A j \in 1..Len(y) : l[Len(u) + j] = y[j]
  BY <1>1, <1>2, ConcatFacts
<1> HIDE DEF l
<1>5. Len(l) = Len(r)
  BY <1>1, <1>2, <1>3, <1>4
<1>6. \A i \in 1..Len(l) : l[i] = r[i]
  <2> TAKE i \in 1..Len(l)
  <2>1. CASE i = 1
    BY <2>1, <1>2, <1>3, <1>4
  <2>2. CASE i > 1 /\ i <= 1 + (m - a)
    <3>1. i - 1 \in 1..(m - a) /\ 1 + (i - 1) = i /\ i - 1 \in 1..(n - a)
      BY <2>2
    <3>2. i \in 1..Len(u)
      BY <2>2, <1>2
    <3>3. l[i] = u[1 + (i - 1)]
      BY <3>1, <3>2, <1>4
    <3>4. u[1 + (i - 1)] = p[a + (i - 1)]
      BY <3>1, <1>2
    <3> QED
      BY <3>1, <3>3, <3>4, <1>3
  <2>3. CASE i > 1 + (m - a)
    <3> DEFINE j == i - (1 + (m - a))
    <3>1. j \in 1..(n - m) /\ (1 + (m - a)) + j = i /\ m + j = a + (i - 1)
      BY <2>3, <1>1, <1>2, <1>4
    <3>2. i - 1 \in 1..(n - a) /\ 1 + (i - 1) = i
      BY <2>3, <1>1, <1>2, <1>4
    <3> HIDE DEF j
    <3>3. l[i] = p[m + j]
      BY <3>1, <1>1, <1>2, <1>4
    <3> QED
      BY <3>1, <3>2, <3>3, <1>3
  <2> QED
    BY <2>1, <2>2, <2>3
<1>7. l = r
  BY <1>3, <1>4, <1>5, <1>6, SameSequence
<1> QED
  BY <1>7 DEF l, r, u, x, y, z

\* The bytes of a frame.
IsFrame(b, v, d) ==
  /\ b \in Seq(Byte) /\ Len(b) = 4 + Len(d)
  /\ b[1] = SYNC /\ b[2] = v /\ 256 * b[3] + b[4] = Len(d)
  /\ \A j \in 1..Len(d) : b[4 + j] = d[j]

\* Frame gives them.
LEMMA FrameBytes ==
  ASSUME NEW v \in Byte, NEW d \in Seq(Byte), Len(d) <= MaxFrameData
  PROVE  IsFrame(Frame(v, d), v, d)
<1> DEFINE h == <<SYNC, v, Len(d) \div 256, Len(d) % 256>>
<1> HIDE DEF h
<1>1. /\ Len(d) \div 256 \in Byte /\ Len(d) % 256 \in Byte /\ SYNC \in Byte
      /\ 256 * (Len(d) \div 256) + (Len(d) % 256) = Len(d)
  <2>1. \A n \in Nat : n <= 65535 => n \div 256 \in 0..255 /\ n % 256 \in 0..255
                                 /\ 256 * (n \div 256) + (n % 256) = n
    OBVIOUS
  <2>2. Len(d) \in Nat /\ Len(d) <= 65535
    BY DEF MaxFrameData
  <2> DEFINE n == Len(d)
  <2> HIDE DEF n
  <2>3. n \in Nat /\ n <= 65535
    BY <2>2 DEF n
  <2>4. n \div 256 \in 0..255 /\ n % 256 \in 0..255 /\ 256 * (n \div 256) + (n % 256) = n
    BY <2>1, <2>3
  <2> QED
    BY <2>4 DEF n, Byte, SYNC
<1>2. /\ h \in Seq(Byte) /\ Len(h) = 4
      /\ h[1] = SYNC /\ h[2] = v /\ 256 * h[3] + h[4] = Len(d)
  BY <1>1 DEF h
<1>3. /\ h \o d \in Seq(Byte) /\ Len(h \o d) = 4 + Len(d)
      /\ \A i \in 1..4 : (h \o d)[i] = h[i]
      /\ \A j \in 1..Len(d) : (h \o d)[4 + j] = d[j]
  <2>1. /\ h \o d \in Seq(Byte) /\ Len(h \o d) = Len(h) + Len(d)
        /\ \A i \in 1..Len(h) : (h \o d)[i] = h[i]
        /\ \A j \in 1..Len(d) : (h \o d)[Len(h) + j] = d[j]
    BY <1>2, ConcatFacts
  <2> QED
    BY <2>1, <1>2
<1> QED
  BY <1>2, <1>3 DEF Frame, IsFrame, h

-----------------------------------------------------------------------------
(* Sending *)

\* Sent bytes are behind those sent before.
LEMMA StreamGrows ==
  ASSUME TypeOK, NEW b \in Seq(Byte), stream' = stream \o b
  PROVE  /\ stream' \in Seq(Byte) /\ Len(stream') = Len(stream) + Len(b)
         /\ \A i \in 1..Len(stream) : stream'[i] = stream[i]
         /\ \A j \in 1..Len(b) : stream'[Len(stream) + j] = b[j]
BY ConcatFacts DEF TypeOK

\* A frame behind the end of the stream.
NewFrame(pdu, from, n) ==
  [at |-> Len(stream), pdu |-> pdu, from |-> from, len |-> n, broken |-> interrupted]

\* The stream has a frame more.
SentAs(v, p, from, n) ==
  /\ stream' \in Seq(Byte) /\ Len(stream') = Len(stream) + 4 + n
  /\ \A i \in 1..Len(stream) : stream'[i] = stream[i]
  /\ stream'[Len(stream) + 1] = SYNC /\ stream'[Len(stream) + 2] = v
  /\ 256 * stream'[Len(stream) + 3] + stream'[Len(stream) + 4] = n
  /\ \A j \in 1..n : stream'[Len(stream) + 4 + j] = p[from + j]

\* What SendFrame puts on the wire.
LEMMA FrameSent ==
  ASSUME TypeOK, NEW v \in Byte, NEW p \in Seq(Byte), NEW from \in Nat, NEW n \in Nat, NEW pdu,
         from + n <= Len(p), n <= MaxFrameData, SendFrame(v, p, from, n, pdu)
  PROVE  SentAs(v, p, from, n)
<1> DEFINE d == SubSeq(p, from + 1, from + n)
           b == Frame(v, d)
           L == Len(stream)
<1>1. d \in Seq(Byte) /\ Len(d) = n /\ \A j \in 1..n : d[j] = p[from + j]
  <2>1. /\ from + 1 \in Nat \ {0} /\ from + n \in Nat
        /\ from + 1 <= (from + n) + 1 /\ from + n <= Len(p)
    OBVIOUS
  <2>2. /\ d \in Seq(Byte) /\ Len(d) = (from + n) + 1 - (from + 1)
        /\ \A j \in 1..((from + n) + 1 - (from + 1)) : d[j] = p[(from + 1) + j - 1]
    BY <2>1, SubSeqFacts
  <2> HIDE DEF d
  <2>3. (from + n) + 1 - (from + 1) = n /\ \A j \in 1..n : (from + 1) + j - 1 = from + j
    OBVIOUS
  <2> QED
    BY <2>2, <2>3
<1> HIDE DEF d
<1>2. /\ b \in Seq(Byte) /\ Len(b) = 4 + Len(d)
      /\ b[1] = SYNC /\ b[2] = v /\ 256 * b[3] + b[4] = Len(d)
      /\ \A j \in 1..Len(d) : b[4 + j] = d[j]
  <2>1. IsFrame(b, v, d)
    BY <1>1, FrameBytes
  <2> QED
    BY <2>1 DEF IsFrame
<1>3. stream' = stream \o b
  BY DEF SendFrame, d
<1> HIDE DEF b
<1>4. /\ stream' \in Seq(Byte) /\ Len(stream') = Len(stream) + Len(b)
      /\ \A i \in 1..Len(stream) : stream'[i] = stream[i]
      /\ \A j \in 1..Len(b) : stream'[Len(stream) + j] = b[j]
  BY <1>2, <1>3, StreamGrows
<1>5. L \in Nat
  BY DEF TypeOK
<1>6. /\ stream'[L + 1] = b[1] /\ stream'[L + 2] = b[2]
      /\ stream'[L + 3] = b[3] /\ stream'[L + 4] = b[4]
  BY <1>1, <1>2, <1>4
<1>7. \A j \in 1..n : stream'[L + 4 + j] = p[from + j]
  <2> TAKE j \in 1..n
  <2>1. 4 + j \in 1..Len(b) /\ L + (4 + j) = L + 4 + j /\ j \in 1..Len(d)
    BY <1>1, <1>2, <1>5
  <2>2. stream'[L + (4 + j)] = b[4 + j]
    BY <2>1, <1>4
  <2> QED
    BY <2>1, <2>2, <1>1, <1>2
<1> QED
  BY <1>1, <1>2, <1>4, <1>6, <1>7 DEF SentAs

\* What is sent later changes nothing of the frames that are there.
LEMMA OldFrames ==
  ASSUME TypeOK, Layout, NEW f \in frames,
         Len(stream) <= Len(stream'), Len(stream') \in Nat,
         \A i \in 1..Len(stream) : stream'[i] = stream[i]
  PROVE  OnWire(f)'
<1>1. f.at \in Nat /\ f.len \in Nat /\ OnWire(f)
  BY DEF TypeOK, Layout
<1>2. Len(stream) \in Nat
  BY DEF TypeOK
<1>3. End(f) <= Len(stream) /\ End(f) = f.at + 4 + f.len
  BY <1>1 DEF OnWire, End
<1> DEFINE a == f.at
           n == f.len
<1>4. a \in Nat /\ n \in Nat /\ a + 4 + n <= Len(stream)
  BY <1>1, <1>3
<1> HIDE DEF a, n
<1>5. /\ a + 1 \in 1..Len(stream) /\ a + 2 \in 1..Len(stream)
      /\ a + 3 \in 1..Len(stream) /\ a + 4 \in 1..Len(stream)
      /\ \A j \in 1..n : a + 4 + j \in 1..Len(stream)
  BY <1>2, <1>4
<1>6. /\ stream'[a + 1] = stream[a + 1] /\ stream'[a + 2] = stream[a + 2]
      /\ stream'[a + 3] = stream[a + 3] /\ stream'[a + 4] = stream[a + 4]
      /\ \A j \in 1..n : stream'[a + 4 + j] = stream[a + 4 + j]
  BY <1>5
<1> QED
  BY <1>1, <1>2, <1>3, <1>6 DEF OnWire, End, IsEvent, OfPdu, Upto, a, n

\* A frame more at the end of the stream overlaps none.
LEMMA LayoutOfFrame ==
  ASSUME TypeOK, Layout, NEW f, f.at = Len(stream), f.len \in Nat, frames' = frames \cup {f},
         Len(stream') = Len(stream) + 4 + f.len,
         \A i \in 1..Len(stream) : stream'[i] = stream[i], OnWire(f)'
  PROVE  Layout'
<1>1. Len(stream) \in Nat /\ \A g \in frames : g.at \in Nat /\ g.len \in Nat
  BY DEF TypeOK
<1>2. \A g \in frames' : OnWire(g)'
  BY <1>1, OldFrames
<1>3. \A g \in frames : End(g) <= f.at
  BY DEF Layout, OnWire
<1>4. \A g, h \in frames' : g = h \/ End(g) <= h.at \/ End(h) <= g.at
  BY <1>3 DEF Layout
<1>5. ASSUME NEW i \in 1..Len(stream'), stream'[i] = SYNC
      PROVE  \E g \in frames' : g.at < i /\ i <= End(g)
  <2>1. CASE i <= Len(stream)
    <3>1. i \in 1..Len(stream) /\ stream[i] = SYNC
      BY <2>1, <1>1, <1>5
    <3> QED
      BY <3>1 DEF Layout
  <2>2. CASE i > Len(stream)
    BY <2>2, <1>1 DEF End
  <2> QED
    BY <2>1, <2>2, <1>1
<1> QED
  BY <1>2, <1>4, <1>5 DEF Layout, End

\* A frame at the end of the stream comes between no two others.
LEMMA FollowsKept ==
  ASSUME TypeOK, Layout, NEW f \in frames, NEW g \in frames, Follows(f, g),
         \A h \in frames' : h \in frames \/ h.at = Len(stream)
  PROVE  Follows(f, g)'
<1>1. g.at \in Nat /\ g.len \in Nat /\ Len(stream) \in Nat
  BY DEF TypeOK
<1>2. g.at <= Len(stream)
  BY <1>1 DEF Layout, OnWire, End
<1>3. \A h \in frames' : IsEvent(h) \/ h.at <= f.at \/ g.at <= h.at
  <2> TAKE h \in frames'
  <2>1. CASE h \in frames
    BY <2>1 DEF Follows
  <2>2. CASE h \notin frames
    <3>1. h.at = Len(stream)
      BY <2>2
    <3> QED
      BY <3>1, <1>1, <1>2
  <2> QED
    BY <2>1, <2>2
<1> QED
  BY <1>3 DEF Follows, End, Upto

\* The loop does not see what is sent.
LEMMA LoopUnmoved ==
  ASSUME TypeOK, AtBoundary, Progress, UNCHANGED <<recvd, pos, assembly>>, frames \subseteq frames',
         \A h \in frames' : h \in frames \/ (h.at = Len(stream) /\ h.len \in Nat)
  PROVE  AtBoundary' /\ Progress' /\ pos' <= Len(stream)
<1>1. pos' = pos /\ recvd' = recvd /\ fragments' = fragments
  BY DEF assembly
<1>2. Len(stream) \in Nat /\ pos \in Nat /\ pos <= Len(stream)
  BY DEF TypeOK
<1>3. AtBoundary'
  BY <1>1, <1>2 DEF AtBoundary, End
<1>4. \A h \in frames' : End(h) = pos => h \in frames
  BY <1>2 DEF End
<1>5. \A f : Data(f)' = Data(f) /\ End(f)' = End(f) /\ \A a : Collected(f, a)' <=> Collected(f, a)
  BY <1>1 DEF Collected, End, Upto, Data, OfPdu
<1>6. ASSUME fragments # <<>>
      PROVE  \E f \in frames' : Data(f) /\ End(f) = pos /\ \E a \in Nat : Collected(f, a)
  BY <1>6 DEF Progress
<1>7. ASSUME fragments = <<>>, NEW f \in frames', Data(f), End(f) = pos
      PROVE  Upto(f) > MaxPduBytes
  BY <1>4, <1>7 DEF Progress
<1>8. Progress'
  BY <1>1, <1>5, <1>6, <1>7 DEF Progress
<1> QED
  BY <1>1, <1>2, <1>3, <1>8

\* What PdusAssumption says of one PDU.
LEMMA PduBytes ==
  ASSUME NEW p \in Pdus
  PROVE  /\ p \in Seq(Byte) /\ Len(p) \in Nat /\ Len(p) >= 2 /\ p # <<>>
         /\ p[1] \in Byte /\ p[1] # SystemEventVersion
<1>1. p \in Seq(Byte) /\ Len(p) >= 2 /\ p[1] # SystemEventVersion
  BY PdusAssumption
<1> QED
  BY <1>1

\* A successor of the last frame follows it; the others keep theirs.
LEMMA ChainOfLast ==
  ASSUME TypeOK, Layout, Chained, NEW g \in frames', frames' = frames \cup {g},
         g.at = Len(stream), g.pdu = sending, g.from = off, g.broken = interrupted,
         NEW f \in frames, Data(f)
  PROVE  IF IsLast(f) THEN Follows(f, g)' ELSE \E h \in frames' : Follows(f, h)'
<1>1. CASE IsLast(f)
  <2>1. End(f) <= Len(stream) /\ f.at \in Nat /\ Len(stream) \in Nat
    BY DEF TypeOK, Layout, OnWire
  <2>2. g.broken <=> f.broken \/ End(f) < g.at
    BY <1>1 DEF IsLast
  <2>3. \A h \in frames' : IsEvent(h) \/ h.at <= f.at \/ g.at <= h.at
    BY <1>1, <2>1 DEF IsLast
  <2>4. g.pdu = f.pdu /\ g.from = Upto(f) /\ End(f) <= g.at
    BY <1>1, <2>1 DEF IsLast
  <2>5. Follows(f, g)'
    BY <2>2, <2>3, <2>4 DEF Follows, End, Upto, IsEvent
  <2> QED
    BY <1>1, <2>5
<1>2. CASE ~IsLast(f)
  <2>1. PICK h \in frames : Follows(f, h)
    BY <1>2 DEF Chained
  <2>2. Follows(f, h)'
    BY <2>1, FollowsKept
  <2> QED
    BY <1>2, <2>2
<1> QED
  BY <1>1, <1>2

\* What is not an end marker ends no PDU.
LEMMA EndsKept ==
  ASSUME EndsMarked, UNCHANGED <<pdus, pos>>, frames \subseteq frames',
         \A h \in frames' : h \in frames \/ ~(OfPdu(h) /\ h.len = 0)
  PROVE  EndsMarked' /\ \A k : EndedIs(k)' <=> EndedIs(k)
<1>1. EndsMarked'
  BY DEF EndsMarked, Closed, OfPdu
<1> QED
  BY <1>1 DEF EndedIs

\* A data frame of a PDU is sent: the next one, or the first of another.
LEMMA FragmentSent ==
  ASSUME IInv, NEW p \in Pdus, NEW n \in 1..Len(p), SendFragment(p, n)
  PROVE  IInv'
<1>0. PICK g : g = NewFrame(p, off, n)
  OBVIOUS
<1>1. /\ frames' = frames \cup {g} /\ sending' = p /\ off' = off + n
      /\ UNCHANGED <<interrupted, pdus, recvd, pos, assembly>>
      /\ off + n <= Len(p) /\ n <= MaxFrameData /\ sends' \in {sends, sends + 1}
      /\ off # 1 => p = sending
  BY <1>0 DEF SendFragment, SendFrame, NewFrame
<1>2. /\ g.at = Len(stream) /\ g.pdu = p /\ g.from = off /\ g.len = n
      /\ g.broken = interrupted
  BY <1>0 DEF NewFrame
<1>3. /\ p \in Seq(Byte) /\ Len(p) \in Nat /\ p # <<>> /\ p[1] \in Byte
      /\ off \in Nat \ {0} /\ n \in Nat /\ n > 0 /\ Len(stream) \in Nat
      /\ interrupted \in BOOLEAN
  BY PduBytes DEF IInv, TypeOK
<1>4. g \in [at : Nat, pdu : Pdus \cup {<<>>}, from : Nat, len : Nat, broken : BOOLEAN]
  BY <1>0, <1>3 DEF NewFrame
<1>5. /\ stream' \in Seq(Byte) /\ Len(stream') = Len(stream) + 4 + n
      /\ \A i \in 1..Len(stream) : stream'[i] = stream[i]
      /\ stream'[Len(stream) + 1] = SYNC /\ stream'[Len(stream) + 2] = p[1]
      /\ 256 * stream'[Len(stream) + 3] + stream'[Len(stream) + 4] = n
      /\ \A j \in 1..n : stream'[Len(stream) + 4 + j] = p[off + j]
  <2>1. SendFrame(p[1], p, off, n, p)
    BY DEF SendFragment
  <2>2. /\ TypeOK /\ p[1] \in Byte /\ p \in Seq(Byte) /\ off \in Nat /\ n \in Nat
        /\ off + n <= Len(p) /\ n <= MaxFrameData
    BY <1>1, <1>3 DEF IInv
  <2>3. SentAs(p[1], p, off, n)
    BY <2>1, <2>2, FrameSent
  <2> QED
    BY <2>3 DEF SentAs
<1>6. OnWire(g)'
  <2>1. g.from = 1 => ~g.broken
    BY <1>2 DEF IInv, Chained
  <2> QED
    BY <2>1, <1>1, <1>2, <1>3, <1>5 DEF OnWire, End, IsEvent, OfPdu, Upto
<1>7. Layout'
  BY <1>1, <1>2, <1>3, <1>5, <1>6, LayoutOfFrame DEF IInv
<1>8. TypeOK'
  <2>1. recvd \in 0..Len(stream') /\ sends' \in Nat
    BY <1>1, <1>3, <1>5 DEF IInv, TypeOK
  <2>2. sending' \in Pdus \cup {<<>>} /\ off' \in Nat \ {0} /\ interrupted' \in BOOLEAN
    BY <1>1, <1>3
  <2>3. frames' \subseteq
          [at : Nat, pdu : Pdus \cup {<<>>}, from : Nat, len : Nat, broken : BOOLEAN]
    BY <1>1, <1>4 DEF IInv, TypeOK
  <2>4. /\ pdus' = pdus /\ recvd' = recvd /\ pos' = pos
        /\ fragments' = fragments /\ pduBytes' = pduBytes
    BY <1>1 DEF assembly
  <2>5. /\ pdus \in Seq([at : Nat, msg : Message]) /\ pos \in 0..recvd
        /\ fragments \in Seq(Byte) /\ pduBytes = Len(fragments)
    BY DEF IInv, TypeOK
  <2>6. stream' \in Seq(Byte)
    BY <1>5
  <2> QED
    BY <2>1, <2>2, <2>3, <2>4, <2>5, <2>6 DEF TypeOK
<1>9. AtBoundary' /\ Progress'
  BY <1>1, <1>2, <1>3, LoopUnmoved DEF IInv
<1>10. EndsMarked' /\ \A k : EndedIs(k)' <=> EndedIs(k)
  BY <1>1, <1>2, <1>3, EndsKept DEF IInv
<1>11. IsLast(g)' /\ Data(g)
  <2>1. \A h \in frames' : h.at <= g.at
    BY <1>1, <1>2, <1>3 DEF IInv, TypeOK, Layout, OnWire, End
  <2>2. interrupted' <=> g.broken \/ End(g) < Len(stream')
    BY <1>1, <1>2, <1>3, <1>5 DEF End
  <2> QED
    BY <2>1, <2>2, <1>1, <1>2, <1>3 DEF IsLast, Data, OfPdu, Upto, End, IsEvent
<1>12. \A f \in frames :
         Data(f) => (IsLast(f) /\ Follows(f, g)') \/ \E h \in frames' : Follows(f, h)'
  <2> SUFFICES ASSUME NEW f \in frames, Data(f)
               PROVE  (IsLast(f) /\ Follows(f, g)') \/ \E h \in frames' : Follows(f, h)'
    OBVIOUS
  <2>1. CASE IsLast(f)
    <3>1. off > 1
      BY <2>1 DEF IsLast
    <3>2. g.pdu = sending
      BY <3>1, <1>1, <1>2
    <3> QED
      BY <2>1, <3>2, <1>1, <1>2, ChainOfLast DEF IInv
  <2>2. CASE ~IsLast(f)
    <3>1. PICK h \in frames : Follows(f, h)
      BY <2>2 DEF IInv, Chained
    <3>2. Follows(f, h)'
      BY <3>1, <1>1, <1>2, FollowsKept DEF IInv
    <3> QED
      BY <3>2, <1>1
  <2> QED
    BY <2>1, <2>2
<1>13. ASSUME NEW h \in frames', OfPdu(h), h.from > 1
       PROVE  \E f \in frames' : Data(f) /\ Follows(f, h)'
  <2>1. CASE h \in frames
    <3>1. PICK f \in frames : Data(f) /\ Follows(f, h)
      BY <2>1, <1>13 DEF IInv, Chained
    <3>2. Follows(f, h)'
      BY <2>1, <3>1, <1>1, <1>2, FollowsKept DEF IInv
    <3> QED
      BY <3>1, <3>2, <1>1
  <2>2. CASE h = g
    <3>1. PICK f \in frames : Data(f) /\ IsLast(f)
      BY <2>2, <1>13, <1>2 DEF IInv, Chained
    <3>2. g.pdu = sending
      BY <2>2, <1>13, <1>1, <1>2
    <3>3. Follows(f, g)'
      BY <3>1, <3>2, <1>1, <1>2, ChainOfLast DEF IInv
    <3> QED
      BY <2>2, <3>1, <3>3, <1>1
  <2> QED
    BY <2>1, <2>2, <1>1
<1>14. Chained'
  <2>1. off' # 1
    BY <1>1, <1>3
  <2>2. \A f \in frames' : Data(f)' => IsLast(f)' \/ \E h \in frames' : Follows(f, h)'
    BY <1>1, <1>11, <1>12 DEF Data, OfPdu
  <2> QED
    BY <2>1, <2>2, <1>1, <1>11, <1>13 DEF Chained, Data, OfPdu
<1> QED
  BY <1>7, <1>8, <1>9, <1>10, <1>14 DEF IInv

\* What is sent besides a PDU interrupts it and keeps the chain of its frames.
LEMMA ChainBesides ==
  ASSUME TypeOK, Layout, Chained, Besides, frames \subseteq frames',
         Len(stream') \in Nat, Len(stream) < Len(stream'),
         \A h \in frames' : \/ h \in frames
                            \/ h.at = Len(stream) /\ h.pdu = <<>> /\ (IsEvent(h) \/ off = 1)
  PROVE  Chained'
<1>1. sending' = sending /\ off' = off /\ (interrupted' <=> off > 1) /\ off \in Nat \ {0}
  BY DEF Besides, TypeOK
<1>2. \A f, g \in frames : Follows(f, g) => Follows(f, g)'
  <2> SUFFICES ASSUME NEW f \in frames, NEW g \in frames, Follows(f, g) PROVE Follows(f, g)'
    OBVIOUS
  <2>1. \A h \in frames' : h \in frames \/ h.at = Len(stream)
    OBVIOUS
  <2> QED
    BY <2>1, FollowsKept
<1>3. ASSUME NEW f \in frames, IsLast(f)
      PROVE  IsLast(f)'
  <2>1. off > 1
    BY <1>3 DEF IsLast
  <2>2. interrupted' <=> f.broken \/ End(f) < Len(stream')
    <3>1. End(f) <= Len(stream) /\ End(f) \in Nat /\ Len(stream) \in Nat
      BY DEF TypeOK, Layout, OnWire, End
    <3> QED
      BY <3>1, <2>1, <1>1
  <2>3. \A h \in frames' : IsEvent(h) \/ h.at <= f.at
    BY <2>1, <1>1, <1>3 DEF IsLast
  <2> QED
    BY <2>1, <2>2, <2>3, <1>1, <1>3 DEF IsLast, End, Upto, IsEvent
<1>4. \A f : Data(f) => f \notin frames' \/ f \in frames
  BY DEF Data, OfPdu
<1>5. \A f \in frames' : Data(f) => IsLast(f)' \/ \E g \in frames' : Follows(f, g)'
  BY <1>2, <1>3, <1>4 DEF Chained
<1>6. \A g \in frames' : OfPdu(g) /\ g.from > 1 => \E f \in frames' : Data(f) /\ Follows(f, g)'
  <2>1. \A g \in frames' : OfPdu(g) => g \in frames
    BY DEF OfPdu
  <2> QED
    BY <2>1, <1>2 DEF Chained
<1>7. IF off' = 1 THEN ~interrupted' ELSE \E f \in frames' : Data(f) /\ IsLast(f)'
  BY <1>1, <1>3 DEF Chained
<1> QED
  BY <1>5, <1>6, <1>7 DEF Chained, Data, OfPdu

\* An event, or a stray end marker, is sent.
LEMMA BesideSent ==
  ASSUME IInv, NEW d \in Seq(Byte), Len(d) <= MaxFrameData, Len(d) = 0 => off = 1,
         Besides, SendFrame(SystemEventVersion, d, 0, Len(d), <<>>)
  PROVE  IInv' /\ UNCHANGED <<pdus, pos, out>>
<1>0. PICK g : g = NewFrame(<<>>, 0, Len(d))
  OBVIOUS
<1>1. /\ frames' = frames \cup {g}
      /\ UNCHANGED <<sending, off, pdus, recvd, pos, assembly>>
      /\ sends' = sends + 1 /\ interrupted' \in BOOLEAN
  BY <1>0 DEF Besides, SendFrame, NewFrame
<1>2. g.at = Len(stream) /\ g.pdu = <<>> /\ g.len = Len(d)
  BY <1>0 DEF NewFrame
<1>3. Len(d) \in Nat /\ Len(stream) \in Nat /\ interrupted \in BOOLEAN
  BY DEF IInv, TypeOK
<1>4. g \in [at : Nat, pdu : Pdus \cup {<<>>}, from : Nat, len : Nat, broken : BOOLEAN]
  BY <1>0, <1>3 DEF NewFrame
<1>5. SentAs(SystemEventVersion, d, 0, Len(d))
  <2>1. TypeOK /\ SystemEventVersion \in Byte /\ 0 \in Nat /\ 0 + Len(d) <= Len(d)
    BY <1>3 DEF IInv, SystemEventVersion, Byte
  <2> QED
    BY <2>1, <1>3, FrameSent
<1>6. /\ stream' \in Seq(Byte) /\ Len(stream') = Len(stream) + 4 + Len(d)
      /\ \A i \in 1..Len(stream) : stream'[i] = stream[i]
  BY <1>5 DEF SentAs
<1>7. OnWire(g)'
  BY <1>2, <1>3, <1>5 DEF OnWire, SentAs, End, IsEvent, OfPdu
<1>8. Layout'
  BY <1>1, <1>2, <1>3, <1>6, <1>7, LayoutOfFrame DEF IInv
<1>9. TypeOK'
  <2>1. recvd \in 0..Len(stream') /\ sends' \in Nat
    BY <1>1, <1>3, <1>6 DEF IInv, TypeOK
  <2> QED
    BY <2>1, <1>1, <1>4, <1>6 DEF IInv, TypeOK, assembly
<1>10. AtBoundary' /\ Progress'
  BY <1>1, <1>2, <1>3, LoopUnmoved DEF IInv
<1>11. EndsMarked' /\ \A k : EndedIs(k)' <=> EndedIs(k)
  <2>1. ~OfPdu(g)
    BY <1>2 DEF OfPdu
  <2> QED
    BY <2>1, <1>1, EndsKept DEF IInv
<1>12. Chained'
  <2>1. IsEvent(g) \/ off = 1
    BY <1>2, <1>3 DEF IsEvent
  <2> QED
    BY <2>1, <1>1, <1>2, <1>3, <1>6, ChainBesides DEF IInv
<1> QED
  BY <1>1, <1>8, <1>9, <1>10, <1>11, <1>12 DEF IInv, assembly

\* Bytes of no frame are sent.
LEMMA JunkSent ==
  ASSUME IInv, NEW b \in Junk, SendJunk(b)
  PROVE  IInv' /\ UNCHANGED <<pdus, pos, out>>
<1>1. /\ UNCHANGED <<sending, off, pdus, recvd, pos, assembly, frames>>
      /\ sends' = sends + 1 /\ interrupted' \in BOOLEAN /\ Besides
  BY DEF SendJunk, Besides
<1>2. b \in Seq(Byte) /\ Len(b) \in Nat /\ Len(b) > 0 /\ \A j \in 1..Len(b) : b[j] # SYNC
  <2>1. b \in Seq(Byte \ {SYNC}) /\ b # <<>>
    BY JunkAssumption
  <2> QED
    BY <2>1
<1>3. /\ stream' \in Seq(Byte) /\ Len(stream') = Len(stream) + Len(b)
      /\ \A i \in 1..Len(stream) : stream'[i] = stream[i]
      /\ \A j \in 1..Len(b) : stream'[Len(stream) + j] = b[j]
  BY <1>2, StreamGrows DEF SendJunk, IInv
<1>4. Len(stream) \in Nat
  BY DEF IInv, TypeOK
<1>5. Layout'
  <2>1. \A f \in frames : OnWire(f)'
    BY <1>2, <1>3, <1>4, OldFrames DEF IInv
  <2>2. ASSUME NEW i \in 1..Len(stream'), stream'[i] = SYNC
        PROVE  i \in 1..Len(stream)
    <3>1. CASE i <= Len(stream)
      BY <3>1, <1>4
    <3>2. CASE i > Len(stream)
      <4>1. i - Len(stream) \in 1..Len(b) /\ Len(stream) + (i - Len(stream)) = i
        BY <3>2, <1>2, <1>3, <1>4
      <4> QED
        BY <4>1, <2>2, <1>2, <1>3
    <3> QED
      BY <3>1, <3>2, <1>4
  <2>3. ASSUME NEW i \in 1..Len(stream'), stream'[i] = SYNC
        PROVE  \E f \in frames : f.at < i /\ i <= End(f)
    <3>1. i \in 1..Len(stream) /\ stream[i] = SYNC
      BY <2>2, <2>3, <1>3
    <3> QED
      BY <3>1 DEF IInv, Layout
  <2> QED
    BY <2>1, <2>3, <1>1 DEF IInv, Layout, End
<1>6. TypeOK'
  <2>1. recvd \in 0..Len(stream') /\ sends' \in Nat
    BY <1>1, <1>2, <1>3, <1>4 DEF IInv, TypeOK
  <2> QED
    BY <2>1, <1>1, <1>3 DEF IInv, TypeOK, assembly
<1>7. AtBoundary' /\ Progress'
  BY <1>1, LoopUnmoved DEF IInv
<1>8. EndsMarked' /\ \A k : EndedIs(k)' <=> EndedIs(k)
  BY <1>1, EndsKept DEF IInv
<1>9. Chained'
  BY <1>1, <1>2, <1>3, <1>4, ChainBesides DEF IInv
<1> QED
  BY <1>1, <1>5, <1>6, <1>7, <1>8, <1>9 DEF IInv, assembly

\* The end marker of a PDU is sent.
LEMMA EndSent ==
  ASSUME IInv, SendEnd
  PROVE  /\ IInv' /\ UNCHANGED <<pos, out>> /\ sending \in Pdus
         /\ pdus' = Append(pdus, [at |-> Len(stream),
                                  msg |-> [pdu |-> sending, interrupted |-> interrupted]])
         /\ \A k : EndedIs(k) => EndedIs(k)'
<1>0. PICK g : g = NewFrame(sending, off, 0)
  OBVIOUS
<1>1. /\ frames' = frames \cup {g} /\ sending' = <<>> /\ off' = 1 /\ interrupted' = FALSE
      /\ UNCHANGED <<sends, recvd, pos, assembly>>
      /\ off > 1 /\ off = Len(sending)
      /\ pdus' = Append(pdus, [at |-> Len(stream),
                               msg |-> [pdu |-> sending, interrupted |-> interrupted]])
  BY <1>0 DEF SendEnd, SendFrame, NewFrame
<1>2. /\ g.at = Len(stream) /\ g.pdu = sending /\ g.from = off /\ g.len = 0
      /\ g.broken = interrupted
  BY <1>0 DEF NewFrame
<1>3. sending \in Pdus
  <2>1. sending # <<>>
    BY <1>1
  <2> QED
    BY <2>1 DEF IInv, TypeOK
<1>4. /\ sending \in Seq(Byte) /\ sending # <<>> /\ sending[1] \in Byte
      /\ off \in Nat /\ Len(stream) \in Nat /\ interrupted \in BOOLEAN
  BY <1>3, PduBytes DEF IInv, TypeOK
<1>5. g \in [at : Nat, pdu : Pdus \cup {<<>>}, from : Nat, len : Nat, broken : BOOLEAN]
  BY <1>0, <1>3, <1>4 DEF NewFrame
<1>6. SentAs(sending[1], sending, off, 0)
  <2>1. SendFrame(sending[1], sending, off, 0, sending)
    BY DEF SendEnd
  <2>2. TypeOK /\ 0 \in Nat /\ off + 0 <= Len(sending) /\ 0 <= MaxFrameData
    BY <1>1, <1>4 DEF IInv, MaxFrameData
  <2> QED
    BY <2>1, <2>2, <1>4, FrameSent
<1>7. /\ stream' \in Seq(Byte) /\ Len(stream') = Len(stream) + 4 + 0
      /\ \A i \in 1..Len(stream) : stream'[i] = stream[i]
  BY <1>6 DEF SentAs
<1>8. OnWire(g)'
  <2>1. End(g) <= Len(stream') /\ ~IsEvent(g)
    BY <1>2, <1>4, <1>7 DEF End, IsEvent
  <2>2. 1 <= g.from /\ Upto(g) = Len(g.pdu) /\ g.from = Len(g.pdu) /\ g.from # 1
    BY <1>1, <1>2, <1>4 DEF Upto
  <2>3. \A j \in 1..g.len : FALSE
    BY <1>2
  <2>4. /\ stream'[g.at + 1] = SYNC /\ stream'[g.at + 2] = g.pdu[1]
        /\ 256 * stream'[g.at + 3] + stream'[g.at + 4] = g.len
    BY <1>2, <1>6 DEF SentAs
  <2>5. Upto(g) <= Len(g.pdu)
    BY <2>2, <1>1, <1>2, <1>4
  <2> QED
    BY <2>1, <2>2, <2>3, <2>4, <2>5 DEF OnWire, End, IsEvent, Upto, OfPdu
<1>9. Layout'
  BY <1>1, <1>2, <1>4, <1>7, <1>8, LayoutOfFrame DEF IInv
<1> DEFINE e == [at |-> Len(stream), msg |-> [pdu |-> sending, interrupted |-> interrupted]]
           K == Len(pdus)
<1>10. e \in [at : Nat, msg : Message] /\ e.at = Len(stream) /\ e = Closed(g)
  BY <1>2, <1>3, <1>4 DEF Message, Closed
<1>11. pdus' = Append(pdus, e)
  BY <1>1
<1> HIDE DEF e
<1>12. /\ pdus' \in Seq([at : Nat, msg : Message]) /\ Len(pdus') = K + 1 /\ K \in Nat
       /\ \A i \in 1..K : pdus'[i] = pdus[i]
       /\ pdus'[K + 1] = e
  <2>1. pdus \in Seq([at : Nat, msg : Message])
    BY DEF IInv, TypeOK
  <2> QED
    BY <2>1, <1>10, <1>11
<1> HIDE DEF K
<1>13. TypeOK'
  <2>1. recvd \in 0..Len(stream')
    BY <1>4, <1>7 DEF IInv, TypeOK
  <2>2. frames' \subseteq
          [at : Nat, pdu : Pdus \cup {<<>>}, from : Nat, len : Nat, broken : BOOLEAN]
    BY <1>1, <1>5 DEF IInv, TypeOK
  <2>3. sending' \in Pdus \cup {<<>>} /\ off' \in Nat \ {0} /\ interrupted' \in BOOLEAN
    <3>1. <<>> \in {<<>>}
      OBVIOUS
    <3>2. 1 \in Nat \ {0} /\ FALSE \in BOOLEAN
      OBVIOUS
    <3> QED
      BY <3>1, <3>2, <1>1
  <2>4. pos' \in 0..recvd' /\ recvd' = recvd /\ sends' \in Nat
        /\ fragments' \in Seq(Byte) /\ pduBytes' = Len(fragments')
    BY <1>1 DEF IInv, TypeOK, assembly
  <2> QED
    BY <2>1, <2>2, <2>3, <2>4, <1>7, <1>12 DEF TypeOK
<1>14. AtBoundary' /\ Progress' /\ pos' <= Len(stream)
  BY <1>1, <1>2, LoopUnmoved DEF IInv
<1>15. \A i \in 1..K : pdus[i].at \in Nat /\ pdus[i].at < Len(stream)
  <2> TAKE i \in 1..K
  <2>1. PICK h \in frames : pdus[i] = Closed(h)
    BY DEF IInv, EndsMarked, K
  <2>2. h.at = pdus[i].at
    BY <2>1 DEF Closed
  <2>3. h.at \in Nat /\ h.len \in Nat /\ h.at + 4 + h.len <= Len(stream)
    BY DEF IInv, TypeOK, Layout, OnWire, End
  <2> QED
    BY <2>2, <2>3, <1>4
<1>16. EndsMarked'
  <2>1. ASSUME NEW f \in frames', OfPdu(f), f.len = 0
        PROVE  \E i \in 1..(K + 1) : pdus'[i] = Closed(f)
    <3>1. CASE f \in frames
      <4>1. PICK i \in 1..K : pdus[i] = Closed(f)
        BY <2>1, <3>1 DEF IInv, EndsMarked, K
      <4>2. i \in 1..(K + 1) /\ pdus'[i] = Closed(f)
        BY <4>1, <1>12
      <4> QED
        BY <4>2
    <3>2. CASE f = g
      BY <3>2, <1>10, <1>12
    <3> QED
      BY <3>1, <3>2, <1>1
  <2>2. ASSUME NEW i \in 1..(K + 1)
        PROVE  \E f \in frames' : OfPdu(f) /\ f.len = 0 /\ pdus'[i] = Closed(f)
    <3>1. CASE i \in 1..K
      <4>1. PICK f \in frames : OfPdu(f) /\ f.len = 0 /\ pdus[i] = Closed(f)
        BY <3>1 DEF IInv, EndsMarked, K
      <4> QED
        BY <4>1, <3>1, <1>1, <1>12
    <3>2. CASE i = K + 1
      BY <3>2, <1>1, <1>2, <1>4, <1>10, <1>12 DEF OfPdu
    <3> QED
      BY <3>1, <3>2, <1>12
  <2>3. ASSUME NEW i \in 1..(K + 1), NEW j \in 1..(K + 1), i < j
        PROVE  pdus'[i].at < pdus'[j].at
    <3>1. i \in 1..K
      BY <2>3, <1>12
    <3>2. CASE j \in 1..K
      BY <3>1, <3>2, <2>3, <1>12 DEF IInv, EndsMarked, K
    <3>3. CASE j = K + 1
      BY <3>1, <3>3, <1>10, <1>12, <1>15
    <3> QED
      BY <3>2, <3>3, <1>12
  <2> QED
    BY <2>1, <2>2, <2>3, <1>12 DEF EndsMarked, Closed, OfPdu
<1>17. ASSUME NEW k, EndedIs(k)
       PROVE  EndedIs(k)'
  <2>1. k \in 0..K /\ \A i \in 1..K : i <= k <=> pdus[i].at < pos
    BY <1>17 DEF EndedIs, K
  <2>2. pos \in Nat /\ pos <= Len(stream)
    BY DEF IInv, TypeOK
  <2>3. ASSUME NEW i \in 1..(K + 1)
        PROVE  i <= k <=> pdus'[i].at < pos
    <3>1. CASE i \in 1..K
      BY <3>1, <2>1, <1>12
    <3>2. CASE i = K + 1
      BY <3>2, <2>1, <2>2, <1>4, <1>10, <1>12
    <3> QED
      BY <3>1, <3>2, <1>12
  <2> QED
    BY <2>1, <2>3, <1>1, <1>12 DEF EndedIs
<1>18. Chained'
  <2>1. \A h \in frames' : h \in frames \/ h.at = Len(stream)
    BY <1>1, <1>2
  <2>2. \A f \in frames : Data(f) => \E h \in frames' : Follows(f, h)'
    BY <1>1, <1>2, ChainOfLast DEF IInv
  <2>3. \E f \in frames : Data(f) /\ Follows(f, g)'
    <3>1. PICK f \in frames : Data(f) /\ IsLast(f)
      BY <1>1 DEF IInv, Chained
    <3>2. Follows(f, g)'
      BY <3>1, <1>1, <1>2, ChainOfLast DEF IInv
    <3> QED
      BY <3>1, <3>2
  <2>4. \A f \in frames' : Data(f) => \E h \in frames' : Follows(f, h)'
    BY <2>2, <1>1, <1>2 DEF Data
  <2>5. ASSUME NEW h \in frames', OfPdu(h), h.from > 1
        PROVE  \E f \in frames' : Data(f) /\ Follows(f, h)'
    <3>1. CASE h \in frames
      <4>1. PICK f \in frames : Data(f) /\ Follows(f, h)
        BY <3>1, <2>5 DEF IInv, Chained
      <4>2. Follows(f, h)'
        BY <4>1, <3>1, <2>1, FollowsKept DEF IInv
      <4> QED
        BY <4>1, <4>2, <1>1
    <3>2. CASE h = g
      BY <3>2, <2>3, <1>1
    <3> QED
      BY <3>1, <3>2, <1>1
  <2> QED
    BY <2>4, <2>5, <1>1 DEF Chained, Data, OfPdu
<1>19. \E k \in Nat : EndedIs(k)'
  BY <1>17 DEF IInv
<1> QED
  BY <1>1, <1>3, <1>9, <1>13, <1>14, <1>16, <1>17, <1>18, <1>19 DEF IInv, assembly

-----------------------------------------------------------------------------
(* The loop *)

\* Each set of numbers has a smallest.
LEMMA Smallest ==
  ASSUME NEW S, S \subseteq Nat, S # {}
  PROVE  \E m \in S : \A n \in S : m <= n
<1> DEFINE Less == OpToRel(<, Nat)
<1>1. IsWellFoundedOn(Less, Nat)
  BY NatLessThanWellFounded DEF OpToRel, Less
<1>2. PICK m \in S : \A n \in S : ~ (<<n, m>> \in Less)
  BY <1>1, WFMin
<1>3. \A n \in S : n \in Nat /\ m \in Nat /\ ~(n < m)
  BY <1>2 DEF OpToRel, Less
<1>4. \A n \in S : m <= n
  BY <1>3
<1> QED
  BY <1>4

\* A SYNC byte at pos is the start of a frame.
LEMMA FrameAt ==
  ASSUME TypeOK, Layout, AtBoundary, Synced
  PROVE  \E f \in frames : f.at = pos
<1>1. pos \in Nat /\ pos + 1 \in 1..Len(stream) /\ stream[pos + 1] = SYNC
  BY DEF TypeOK, Synced
<1>2. PICK f \in frames : f.at < pos + 1 /\ pos + 1 <= End(f)
  BY <1>1 DEF Layout
<1>3. pos <= f.at \/ End(f) <= pos
  BY DEF AtBoundary
<1> QED
  BY <1>1, <1>2, <1>3 DEF TypeOK, End

\* What the loop reads of a frame that is there.
LEMMA FrameRead ==
  ASSUME TypeOK, Layout, AtBoundary, FrameHere
  PROVE  \E f \in frames : /\ f.at = pos /\ DataLen = f.len /\ Version = stream[f.at + 2]
                           /\ End(f) = pos + 4 + DataLen /\ End(f) <= recvd
<1>1. PICK f \in frames : f.at = pos
  BY FrameAt DEF FrameHere, Header
<1>2. DataLen = f.len
  BY <1>1 DEF Layout, OnWire, DataLen
<1>3. f.len \in Nat /\ pos \in Nat /\ recvd \in Nat /\ recvd - pos >= 4 + f.len
  BY <1>2 DEF FrameHere, TypeOK
<1> QED
  BY <1>1, <1>2, <1>3 DEF End, Version

\* Behind a frame is no other's inside, nor is the end of another there.
LEMMA Consumed ==
  ASSUME TypeOK, Layout, NEW f \in frames, f.at = pos, pos' = End(f), frames' = frames
  PROVE  /\ AtBoundary'
         /\ \A g \in frames : g = f \/ (End(g) # pos' /\ ~(pos <= g.at /\ g.at < pos'))
<1>1. \A g \in frames : g.at \in Nat /\ g.len \in Nat
  BY DEF TypeOK
<1>2. \A g \in frames : g = f \/ End(g) <= f.at \/ End(f) <= g.at
  BY DEF Layout
<1> QED
  BY <1>1, <1>2 DEF AtBoundary, End

\* From pos to the next SYNC byte there is none.
LEMMA NextSyncFacts ==
  ASSUME TypeOK, pos < recvd, stream[pos + 1] # SYNC
  PROVE  /\ NextSync \in Nat /\ pos < NextSync /\ NextSync <= recvd
         /\ \A i \in (pos + 1)..NextSync : stream[i] # SYNC
         /\ NextSync < recvd => stream[NextSync + 1] = SYNC
<1> DEFINE starts == {i \in (pos + 1)..recvd : stream[i] = SYNC}
           first == CHOOSE i \in starts : \A j \in starts : i <= j
<1>1. pos \in Nat /\ recvd \in Nat
  BY DEF TypeOK
<1>2. NextSync = IF starts = {} THEN recvd ELSE first - 1
  BY DEF NextSync
<1>3. CASE starts = {}
  BY <1>1, <1>2, <1>3
<1>4. CASE starts # {}
  <2>1. starts \subseteq Nat
    BY <1>1
  <2>2. \E i \in starts : \A j \in starts : i <= j
    BY <1>4, <2>1, Smallest
  <2>3. first \in starts /\ \A j \in starts : first <= j
    BY <2>2
  <2> DEFINE n == first
  <2>4. n \in (pos + 1)..recvd /\ stream[n] = SYNC /\ NextSync = n - 1
    BY <1>2, <1>4, <2>3
  <2>5. \A j \in (pos + 1)..recvd : stream[j] = SYNC => n <= j
    BY <2>3
  <2> HIDE DEF first
  <2>6. n # pos + 1
    BY <2>4
  <2> QED
    BY <1>1, <2>4, <2>5, <2>6
<1> QED
  BY <1>3, <1>4

\* Where the loop passes no end marker, no PDU ends.
LEMMA EndsPassed ==
  ASSUME TypeOK, EndsMarked, pos' \in Nat, pos <= pos', pdus' = pdus,
         \A h \in frames : OfPdu(h) /\ h.len = 0 => ~(pos <= h.at /\ h.at < pos'),
         NEW k, EndedIs(k)
  PROVE  EndedIs(k)'
<1>1. ASSUME NEW i \in 1..Len(pdus)
      PROVE  pdus[i].at < pos <=> pdus[i].at < pos'
  <2>1. PICK h \in frames : OfPdu(h) /\ h.len = 0 /\ pdus[i] = Closed(h)
    BY DEF EndsMarked
  <2>2. pdus[i].at = h.at
    BY <2>1 DEF Closed
  <2>3. h.at \in Nat /\ pos \in Nat
    BY DEF TypeOK
  <2> QED
    BY <2>1, <2>2, <2>3
<1> QED
  BY <1>1 DEF EndedIs

\* What a turn of the loop has to see to.
LEMMA TurnKeeps ==
  ASSUME IInv, UNCHANGED <<sender, recvd>>, pos' \in 0..recvd,
         fragments' \in Seq(Byte), pduBytes' = Len(fragments'),
         AtBoundary', Progress', \E k \in Nat : EndedIs(k)'
  PROVE  IInv'
<1>1. UNCHANGED <<stream, sending, off, interrupted, sends, frames, pdus, recvd>>
  BY DEF sender
<1>2. TypeOK'
  BY <1>1 DEF IInv, TypeOK
<1>3. Layout'
  BY <1>1 DEF IInv, Layout, OnWire, End, IsEvent, OfPdu, Upto
<1>4. EndsMarked'
  BY <1>1 DEF IInv, EndsMarked, Closed, OfPdu
<1>5. \A f, g : (Follows(f, g)' <=> Follows(f, g)) /\ (IsLast(f)' <=> IsLast(f))
  BY <1>1 DEF Follows, IsLast, End, Upto, IsEvent
<1>6. Chained'
  BY <1>1, <1>5 DEF IInv, Chained, Data, OfPdu
<1> QED
  BY <1>2, <1>3, <1>4, <1>6 DEF IInv

\* Resync skips no frame.
LEMMA ResyncStep ==
  ASSUME IInv, Resync
  PROVE  IInv' /\ UNCHANGED <<pdus, out>> /\ \A k : EndedIs(k) => EndedIs(k)'
<1>1. /\ UNCHANGED <<sender, recvd, out, frames, pdus>>
      /\ pos' = NextSync /\ fragments' = <<>> /\ pduBytes' = 0
  BY DEF Resync, DropPartialPdu, sender
<1>2. /\ pos \in Nat /\ recvd \in Nat
      /\ \A f \in frames : f.at \in Nat /\ f.len \in Nat /\ stream[f.at + 1] = SYNC
  BY DEF IInv, TypeOK, Layout, OnWire
<1>3. /\ pos' \in Nat /\ pos < pos' /\ pos' <= recvd
      /\ \A i \in (pos + 1)..pos' : stream[i] # SYNC
  BY <1>1, NextSyncFacts DEF IInv, Resync
<1>4. \A f \in frames : End(f) <= pos \/ pos' <= f.at
  <2> TAKE f \in frames
  <2>1. pos <= f.at \/ End(f) <= pos
    BY DEF IInv, AtBoundary
  <2>2. f.at + 1 \notin (pos + 1)..pos'
    BY <1>2, <1>3
  <2> QED
    BY <2>1, <2>2, <1>2, <1>3
<1>5. AtBoundary'
  BY <1>1, <1>2, <1>3, <1>4 DEF AtBoundary, End
<1>6. \A f \in frames : End(f) # pos'
  BY <1>2, <1>3, <1>4 DEF End
<1>7. Progress'
  BY <1>1, <1>6 DEF Progress, End
<1>8. ASSUME NEW k, EndedIs(k)
      PROVE  EndedIs(k)'
  <2>1. \A h \in frames : ~(pos <= h.at /\ h.at < pos')
    BY <1>2, <1>3, <1>4 DEF End
  <2> QED
    BY <2>1, <1>1, <1>2, <1>3, <1>8, EndsPassed DEF IInv
<1>9. IInv'
  <2>1. fragments' \in Seq(Byte) /\ pduBytes' = Len(fragments')
    BY <1>1
  <2>2. \E k \in Nat : EndedIs(k)'
    BY <1>8 DEF IInv
  <2>3. pos' \in 0..recvd
    BY <1>2, <1>3
  <2> QED
    BY <2>1, <2>2, <2>3, <1>1, <1>5, <1>7, TurnKeeps
<1> QED
  BY <1>1, <1>8, <1>9

\* Only the frame of a system event has its version.
LEMMA VersionTells ==
  ASSUME TypeOK, Layout, NEW f \in frames, f.len > 0
  PROVE  stream[f.at + 2] = SystemEventVersion <=> ~OfPdu(f)
<1>1. CASE OfPdu(f)
  <2>1. f.pdu \in Pdus /\ stream[f.at + 2] = f.pdu[1]
    BY <1>1 DEF TypeOK, Layout, OnWire, OfPdu
  <2> QED
    BY <2>1, <1>1, PduBytes
<1>2. CASE ~OfPdu(f)
  BY <1>2 DEF Layout, OnWire, IsEvent, OfPdu
<1> QED
  BY <1>1, <1>2

\* A system event is passed over, and the partial PDU dropped.
LEMMA SystemEventStep ==
  ASSUME IInv, SystemEvent
  PROVE  IInv' /\ UNCHANGED <<pdus, out>> /\ \A k : EndedIs(k) => EndedIs(k)'
<1>1. /\ UNCHANGED <<sender, recvd, out, frames, pdus>>
      /\ pos' = pos + 4 + DataLen /\ fragments' = <<>> /\ pduBytes' = 0
  BY DEF SystemEvent, DropPartialPdu, sender
<1>2. PICK f \in frames : /\ f.at = pos /\ DataLen = f.len /\ Version = stream[f.at + 2]
                          /\ End(f) = pos + 4 + DataLen /\ End(f) <= recvd
  BY FrameRead DEF IInv, SystemEvent
<1>3. ~OfPdu(f)
  BY <1>2, VersionTells DEF IInv, SystemEvent
<1>4. pos \in Nat /\ recvd \in Nat /\ f.len \in Nat
  BY DEF IInv, TypeOK
<1>5. /\ AtBoundary'
      /\ \A g \in frames : g = f \/ (End(g) # pos' /\ ~(pos <= g.at /\ g.at < pos'))
  BY <1>1, <1>2, Consumed DEF IInv
<1>6. Progress'
  BY <1>1, <1>3, <1>5 DEF Progress, End, Data, OfPdu
<1>7. pos' \in Nat /\ pos <= pos' /\ pos' <= recvd
  BY <1>1, <1>2, <1>4
<1>8. ASSUME NEW k, EndedIs(k)
      PROVE  EndedIs(k)'
  BY <1>1, <1>3, <1>5, <1>7, <1>8, EndsPassed DEF IInv
<1>9. IInv'
  <2>1. fragments' \in Seq(Byte) /\ pduBytes' = Len(fragments')
    BY <1>1
  <2>2. \E k \in Nat : EndedIs(k)'
    BY <1>8 DEF IInv
  <2>3. pos' \in 0..recvd
    BY <1>4, <1>7
  <2> QED
    BY <2>1, <2>2, <2>3, <1>1, <1>5, <1>6, TurnKeeps
<1> QED
  BY <1>1, <1>8, <1>9

\* What the invariant says of the frame of a PDU.
LEMMA FrameTypes ==
  ASSUME TypeOK, Layout, NEW f \in frames, OfPdu(f)
  PROVE  /\ f.pdu \in Pdus /\ f.pdu \in Seq(Byte) /\ Len(f.pdu) \in Nat /\ f.pdu[1] \in Byte
         /\ f.at \in Nat /\ f.len \in Nat /\ f.from \in Nat /\ f.broken \in BOOLEAN
         /\ Upto(f) = f.from + f.len /\ 1 <= f.from /\ Upto(f) <= Len(f.pdu)
<1>1. f.pdu \in Pdus /\ f.at \in Nat /\ f.len \in Nat /\ f.from \in Nat /\ f.broken \in BOOLEAN
  BY DEF TypeOK, OfPdu
<1>2. 1 <= f.from /\ Upto(f) <= Len(f.pdu)
  BY DEF Layout, OnWire
<1> QED
  BY <1>1, <1>2, PduBytes DEF Upto

\* The data of a frame, as push() reads them.
LEMMA DataRead ==
  ASSUME TypeOK, Layout, NEW f \in frames, Data(f), f.at = pos, DataLen = f.len
  PROVE  SubSeq(stream, pos + 5, pos + 4 + DataLen) = SubSeq(f.pdu, f.from + 1, Upto(f))
<1> DEFINE l == SubSeq(stream, pos + 5, pos + 4 + DataLen)
           r == SubSeq(f.pdu, f.from + 1, Upto(f))
           n == f.len
<1>1. /\ f.pdu \in Seq(Byte) /\ Len(f.pdu) \in Nat /\ n \in Nat /\ n > 0
      /\ f.from \in Nat /\ Upto(f) = f.from + n /\ Upto(f) <= Len(f.pdu)
  BY FrameTypes DEF Data
<1>2. pos \in Nat /\ stream \in Seq(Byte) /\ Len(stream) \in Nat /\ pos + 4 + n <= Len(stream)
  BY DEF TypeOK, Layout, OnWire, End
<1>3. \A j \in 1..n : stream[pos + 4 + j] = f.pdu[f.from + j]
  BY DEF Layout, OnWire, Data
<1>4. l \in Seq(Byte) /\ Len(l) = n /\ \A j \in 1..n : l[j] = stream[pos + 4 + j]
  <2> HIDE DEF l, r, n
  <2>1. /\ pos + 5 \in Nat \ {0} /\ pos + 4 + n \in Nat /\ pos + 5 <= (pos + 4 + n) + 1
        /\ (pos + 4 + n) + 1 - (pos + 5) = n
        /\ \A j \in 1..n : (pos + 5) + j - 1 = pos + 4 + j
    BY <1>1, <1>2
  <2>2. /\ SubSeq(stream, pos + 5, pos + 4 + n) \in Seq(Byte)
        /\ Len(SubSeq(stream, pos + 5, pos + 4 + n)) = (pos + 4 + n) + 1 - (pos + 5)
        /\ \A j \in 1..((pos + 4 + n) + 1 - (pos + 5)) :
             SubSeq(stream, pos + 5, pos + 4 + n)[j] = stream[(pos + 5) + j - 1]
    BY <2>1, <1>2, SubSeqFacts
  <2>3. l = SubSeq(stream, pos + 5, pos + 4 + n)
    BY DEF l, n
  <2>4. l \in Seq(Byte) /\ Len(l) = n
    BY <2>1, <2>2, <2>3
  <2>5. \A j \in 1..n : l[j] = stream[(pos + 5) + j - 1]
    BY <2>1, <2>2, <2>3
  <2> QED
    BY <2>1, <2>4, <2>5
<1>5. r \in Seq(Byte) /\ Len(r) = n /\ \A j \in 1..n : r[j] = f.pdu[f.from + j]
  <2> DEFINE a == f.from
             b == Upto(f)
             p == f.pdu
  <2>1. /\ a + 1 \in Nat \ {0} /\ b \in Nat /\ a + 1 <= b + 1 /\ b + 1 - (a + 1) = n
        /\ b <= Len(p) /\ p \in Seq(Byte)
        /\ \A j \in 1..n : (a + 1) + j - 1 = a + j
    BY <1>1
  <2> HIDE DEF a, b, p, n
  <2>2. /\ SubSeq(p, a + 1, b) \in Seq(Byte) /\ Len(SubSeq(p, a + 1, b)) = b + 1 - (a + 1)
        /\ \A j \in 1..(b + 1 - (a + 1)) : SubSeq(p, a + 1, b)[j] = p[(a + 1) + j - 1]
    BY <2>1, SubSeqFacts
  <2>3. r = SubSeq(p, a + 1, b)
    BY DEF a, b, p
  <2> HIDE DEF r
  <2>4. r \in Seq(Byte) /\ Len(r) = n /\ \A j \in 1..n : r[j] = p[a + j]
    BY <2>1, <2>2, <2>3
  <2> QED
    BY <2>4 DEF a, p
<1> HIDE DEF l, r
<1>6. l = r
  BY <1>3, <1>4, <1>5, SameSequence
<1> QED
  BY <1>6 DEF l, r

\* The frame of a PDU, or stray end marker, right behind data is their next.
LEMMA NextFollows ==
  ASSUME IInv, NEW g \in frames, Data(g), NEW f \in frames, f.at = End(g), ~IsEvent(f)
  PROVE  Follows(g, f)
<1>1. g.at \in Nat /\ g.len \in Nat /\ f.at \in Nat /\ f.len \in Nat /\ f.at > g.at
  BY DEF IInv, TypeOK, End
<1>2. ~IsLast(g)
  BY <1>1 DEF IsLast
<1>3. PICK h \in frames : Follows(g, h)
  BY <1>2 DEF IInv, Chained
<1>4. h.at \in Nat /\ h.len \in Nat /\ End(g) <= h.at /\ h.at <= f.at
  <2>1. f.at <= g.at \/ h.at <= f.at
    BY <1>3 DEF Follows
  <2>2. h.at \in Nat /\ h.len \in Nat
    BY DEF IInv, TypeOK
  <2>3. End(g) <= h.at
    BY <1>3 DEF Follows
  <2> QED
    BY <2>1, <2>2, <2>3, <1>1
<1>5. h = f
  <2>1. h = f \/ End(h) <= f.at \/ End(f) <= h.at
    BY DEF IInv, Layout
  <2> QED
    BY <2>1, <1>1, <1>4 DEF End
<1> QED
  BY <1>3, <1>5

\* How many bytes have been collected.
LEMMA CollectedBytes ==
  ASSUME IInv, NEW g \in frames, Data(g), NEW a, Collected(g, a)
  PROVE  a \in Nat /\ 1 <= a /\ a < Upto(g) /\ Len(fragments) = 1 + (Upto(g) - a)
<1>1. g.pdu \in Seq(Byte) /\ g.pdu[1] \in Byte /\ Upto(g) \in Nat /\ Upto(g) <= Len(g.pdu)
  BY FrameTypes DEF IInv, Data
<1>2. a \in Nat /\ 1 <= a /\ a < Upto(g)
  BY <1>1 DEF Collected
<1> DEFINE b == Upto(g)
           p == g.pdu
           s == SubSeq(p, a + 1, b)
<1>3. a + 1 \in Nat \ {0} /\ b \in Nat /\ a + 1 <= b + 1 /\ b <= Len(p) /\ p \in Seq(Byte)
  BY <1>1, <1>2
<1>4. fragments = <<p[1]>> \o s
  BY DEF Collected
<1> HIDE DEF b, p
<1>5. s \in Seq(Byte) /\ Len(s) = b + 1 - (a + 1)
  BY <1>3, SubSeqFacts
<1> HIDE DEF s
<1>6. Len(fragments) = 1 + Len(s)
  BY <1>1, <1>4, <1>5, HeadOn DEF p
<1>7. Len(fragments) = 1 + (b - a)
  BY <1>2, <1>3, <1>5, <1>6
<1> QED
  BY <1>2, <1>7 DEF b

\* What Fragment makes of the PDU and how long that is, cap aside.
Longer ==
  (IF fragments = <<>> THEN <<Version>> ELSE fragments)
    \o SubSeq(stream, pos + 5, pos + 4 + DataLen)
LongerBytes == (IF fragments = <<>> THEN 1 ELSE pduBytes) + DataLen

\* It is the PDU of the frame at pos, from its first byte or from one on behind
\* which some of it was lost.
LEMMA LongerIsOfPdu ==
  ASSUME IInv, NEW f \in frames, Data(f), f.at = pos, DataLen = f.len,
         Version = stream[f.at + 2]
  PROVE  \E a \in 1..(Upto(f) - 1) :
           /\ Longer = <<f.pdu[1]>> \o SubSeq(f.pdu, a + 1, Upto(f))
           /\ LongerBytes = 1 + (Upto(f) - a)
           /\ IF a = 1 THEN ~f.broken ELSE f.broken \/ Upto(f) > MaxPduBytes
<1> DEFINE d == SubSeq(stream, pos + 5, pos + 4 + DataLen)
<1>1. /\ f.pdu \in Seq(Byte) /\ Len(f.pdu) \in Nat /\ f.pdu[1] \in Byte
      /\ f.at \in Nat /\ f.len \in Nat /\ f.len > 0 /\ f.from \in Nat /\ f.broken \in BOOLEAN
      /\ Upto(f) = f.from + f.len /\ 1 <= f.from /\ Upto(f) <= Len(f.pdu)
  BY FrameTypes DEF IInv, Data
<1>2. d = SubSeq(f.pdu, f.from + 1, Upto(f))
  BY DataRead DEF IInv
<1>3. MaxPduBytes \in Nat
  BY BoundsAssumption
<1> HIDE DEF d
<1>4. CASE fragments = <<>>
  <2>1. Version = f.pdu[1]
    BY DEF IInv, Layout, OnWire, Data
  <2>2. Longer = <<f.pdu[1]>> \o SubSeq(f.pdu, f.from + 1, Upto(f))
    BY <1>2, <1>4, <2>1 DEF Longer, d
  <2>3. f.from \in 1..(Upto(f) - 1) /\ LongerBytes = 1 + (Upto(f) - f.from)
    BY <1>1, <1>4 DEF LongerBytes
  <2>4. CASE f.from = 1
    BY <2>2, <2>3, <2>4 DEF IInv, Layout, OnWire, Data
  <2>5. CASE f.from # 1
    <3>1. f.from > 1
      BY <2>5, <1>1
    <3>2. PICK g \in frames : Data(g) /\ Follows(g, f)
      BY <3>1 DEF IInv, Chained, Data
    <3>3. Upto(g) = f.from /\ (End(g) < f.at => f.broken) /\ End(g) <= f.at
      BY <3>2 DEF Follows
    <3>4. End(g) \in Nat
      BY DEF IInv, TypeOK, End
    <3>5. CASE End(g) = pos
      <4>1. f.from > MaxPduBytes
        BY <3>2, <3>3, <3>5, <1>4 DEF IInv, Progress
      <4>2. Upto(f) > MaxPduBytes
        BY <4>1, <1>1, <1>3
      <4> QED
        BY <2>2, <2>3, <2>5, <4>2
    <3>6. CASE End(g) # pos
      <4>1. f.broken
        BY <3>3, <3>4, <3>6, <1>1
      <4> QED
        BY <2>2, <2>3, <2>5, <4>1
    <3> QED
      BY <3>5, <3>6
  <2> QED
    BY <2>4, <2>5
<1>5. CASE fragments # <<>>
  <2>1. PICK g \in frames : Data(g) /\ End(g) = pos /\ \E a \in Nat : Collected(g, a)
    BY <1>5 DEF IInv, Progress
  <2>2. PICK a \in Nat : Collected(g, a)
    BY <2>1
  <2>3. Follows(g, f)
    BY <2>1, NextFollows DEF Data, OfPdu, IsEvent
  <2>4. g.pdu = f.pdu /\ f.from = Upto(g) /\ (f.broken <=> g.broken)
    <3>1. /\ f.pdu = g.pdu /\ f.from = Upto(g)
          /\ (f.broken <=> g.broken \/ End(g) < f.at)
      BY <2>3 DEF Follows
    <3>2. ~(End(g) < f.at)
      BY <2>1, <1>1
    <3> QED
      BY <3>1, <3>2
  <2>5. 1 <= a /\ a < Upto(g) /\ Len(fragments) = 1 + (Upto(g) - a)
    BY <2>1, <2>2, CollectedBytes
  <2>6. a \in 1..(Upto(f) - 1) /\ a <= f.from
    BY <2>4, <2>5, <1>1
  <2>7. LongerBytes = 1 + (Upto(f) - a)
    <3>1. pduBytes = Len(fragments) /\ LongerBytes = pduBytes + DataLen
      BY <1>5 DEF LongerBytes, IInv, TypeOK
    <3>2. LongerBytes = (1 + (Upto(g) - a)) + f.len
      BY <2>5, <3>1
    <3>3. Upto(g) = f.from
      BY <2>4
    <3> QED
      BY <3>2, <3>3, <1>1
  <2>8. fragments = <<f.pdu[1]>> \o SubSeq(f.pdu, a + 1, f.from)
    BY <2>2, <2>4 DEF Collected
  <2>9. Longer = fragments \o d
    BY <1>5 DEF Longer, d
  <2>10. Longer = <<f.pdu[1]>> \o SubSeq(f.pdu, a + 1, Upto(f))
    <3> DEFINE m == f.from
               n == Upto(f)
               p == f.pdu
    <3>1. /\ p[1] \in Byte /\ p \in Seq(Byte) /\ m \in Nat /\ n \in Nat
          /\ a <= m /\ m <= n /\ n <= Len(p)
      BY <1>1, <2>6
    <3>2. Longer = (<<p[1]>> \o SubSeq(p, a + 1, m)) \o SubSeq(p, m + 1, n)
      BY <1>2, <2>8, <2>9
    <3> HIDE DEF m, n, p
    <3>3. Longer = <<p[1]>> \o SubSeq(p, a + 1, n)
      BY <3>1, <3>2, NextData
    <3> QED
      BY <3>3 DEF n, p
  <2>11. IF a = 1 THEN ~f.broken ELSE f.broken \/ Upto(f) > MaxPduBytes
    <3>1. IF a = 1 THEN ~g.broken ELSE g.broken \/ Upto(g) > MaxPduBytes
      BY <2>2 DEF Collected
    <3>2. Upto(g) > MaxPduBytes => Upto(f) > MaxPduBytes
      BY <2>4, <1>1, <1>3
    <3> QED
      BY <3>1, <3>2, <2>4
  <2> QED
    BY <2>6, <2>7, <2>10, <2>11
<1> QED
  BY <1>4, <1>5

\* A data frame is added, or the PDU dropped at it.
LEMMA FragmentStep ==
  ASSUME IInv, Fragment
  PROVE  IInv' /\ UNCHANGED <<pdus, out>> /\ \A k : EndedIs(k) => EndedIs(k)'
<1>1. /\ UNCHANGED <<sender, recvd, out, frames, pdus>>
      /\ pos' = pos + 4 + DataLen
      /\ IF LongerBytes > MaxPduBytes
           THEN fragments' = <<>> /\ pduBytes' = 0
           ELSE fragments' = Longer /\ pduBytes' = LongerBytes
  BY DEF Fragment, DropPartialPdu, sender, Longer, LongerBytes
<1>2. PICK f \in frames : /\ f.at = pos /\ DataLen = f.len /\ Version = stream[f.at + 2]
                          /\ End(f) = pos + 4 + DataLen /\ End(f) <= recvd
  BY FrameRead DEF IInv, Fragment
<1>3. Data(f)
  BY <1>2, VersionTells DEF IInv, Fragment, Data
<1>4. /\ f.pdu \in Seq(Byte) /\ Len(f.pdu) \in Nat /\ f.pdu[1] \in Byte
      /\ f.len \in Nat /\ f.from \in Nat /\ f.broken \in BOOLEAN
      /\ Upto(f) = f.from + f.len /\ 1 <= f.from /\ Upto(f) <= Len(f.pdu)
      /\ pos \in Nat /\ recvd \in Nat /\ MaxPduBytes \in Nat
  BY <1>3, FrameTypes, BoundsAssumption DEF IInv, Data, TypeOK
<1>5. PICK a \in 1..(Upto(f) - 1) :
        /\ Longer = <<f.pdu[1]>> \o SubSeq(f.pdu, a + 1, Upto(f))
        /\ LongerBytes = 1 + (Upto(f) - a)
        /\ IF a = 1 THEN ~f.broken ELSE f.broken \/ Upto(f) > MaxPduBytes
  BY <1>2, <1>3, LongerIsOfPdu
<1>6. Longer \in Seq(Byte) /\ Len(Longer) = LongerBytes
  <2> DEFINE p == f.pdu
             b == Upto(f)
             s == SubSeq(p, a + 1, b)
  <2>1. /\ a + 1 \in Nat \ {0} /\ b \in Nat /\ a + 1 <= b + 1 /\ b <= Len(p) /\ p \in Seq(Byte)
        /\ p[1] \in Byte
    BY <1>4
  <2>2. Longer = <<p[1]>> \o s /\ LongerBytes = 1 + (b - a)
    BY <1>5
  <2> HIDE DEF p, b
  <2>3. s \in Seq(Byte) /\ Len(s) = b + 1 - (a + 1)
    BY <2>1, SubSeqFacts
  <2> HIDE DEF s
  <2>4. Longer \in Seq(Byte) /\ Len(Longer) = 1 + Len(s)
    BY <2>1, <2>2, <2>3, HeadOn
  <2>5. b + 1 - (a + 1) = b - a
    BY <2>1
  <2> QED
    BY <2>2, <2>3, <2>4, <2>5
<1>7. /\ AtBoundary'
      /\ \A g \in frames : g = f \/ (End(g) # pos' /\ ~(pos <= g.at /\ g.at < pos'))
  BY <1>1, <1>2, Consumed DEF IInv
<1>8. \A g \in frames : Data(g) /\ End(g) = pos' => g = f
  BY <1>7
<1>9. Progress'
  <2>1. \A g : Data(g)' = Data(g) /\ End(g)' = End(g) /\ Upto(g)' = Upto(g)
    BY DEF Data, OfPdu, End, Upto
  <2>2. CASE LongerBytes > MaxPduBytes
    <3>1. fragments' = <<>>
      BY <2>2, <1>1
    <3>2. Upto(f) > MaxPduBytes
      BY <2>2, <1>4, <1>5
    <3>3. \A g \in frames' : Data(g) /\ End(g) = pos' => Upto(g) > MaxPduBytes
      BY <3>2, <1>1, <1>8
    <3> QED
      BY <3>1, <3>3, <2>1 DEF Progress
  <2>3. CASE ~(LongerBytes > MaxPduBytes)
    <3>1. fragments' = Longer
      BY <2>3, <1>1
    <3>2. Len(fragments') <= MaxPduBytes /\ fragments' # <<>>
      <4>1. Upto(f) \in Nat /\ a \in 1..(Upto(f) - 1) /\ LongerBytes = 1 + (Upto(f) - a)
        BY <1>4, <1>5
      <4>2. LongerBytes \in Nat /\ LongerBytes > 0
        BY <4>1
      <4> QED
        BY <3>1, <4>2, <2>3, <1>4, <1>6
    <3>3. Collected(f, a)'
      BY <3>1, <1>5 DEF Collected, Upto
    <3>4. f \in frames' /\ Data(f) /\ End(f) = pos' /\ a \in Nat
      BY <1>1, <1>2, <1>3, <1>4
    <3> QED
      BY <3>2, <3>3, <3>4, <2>1 DEF Progress
  <2> QED
    BY <2>2, <2>3
<1>10. pos' \in Nat /\ pos <= pos' /\ pos' <= recvd
  BY <1>1, <1>2, <1>4
<1>11. ASSUME NEW k, EndedIs(k)
       PROVE  EndedIs(k)'
  BY <1>1, <1>3, <1>7, <1>10, <1>11, EndsPassed DEF IInv, Data
<1>12. IInv'
  <2>1. fragments' \in Seq(Byte) /\ pduBytes' = Len(fragments')
    <3>1. CASE LongerBytes > MaxPduBytes
      <4>1. fragments' = <<>> /\ pduBytes' = 0
        BY <3>1, <1>1
      <4> QED
        BY <4>1
    <3>2. CASE ~(LongerBytes > MaxPduBytes)
      BY <3>2, <1>1, <1>6
    <3> QED
      BY <3>1, <3>2
  <2>2. \E k \in Nat : EndedIs(k)'
    BY <1>11 DEF IInv
  <2>3. pos' \in 0..recvd
    BY <1>4, <1>10
  <2> QED
    BY <2>1, <2>2, <2>3, <1>1, <1>7, <1>9, TurnKeeps
<1> QED
  BY <1>1, <1>11, <1>12

\* What becomes of a PDU at its end.
Handed(m) ==
  IF Abstract!Damaged(m)
    THEN \/ out' = out
         \/ \E cut \in 2..(Len(m.pdu) - 1) : out' = Append(out, Abstract!Rest(m.pdu, cut))
    ELSE out' = Append(out, m.pdu)

\* At the end marker of an undamaged PDU all of it has been collected; of a damaged
\* one nothing, or what is behind a cut.
LEMMA HandedOn ==
  ASSUME IInv, NEW f \in frames, OfPdu(f), f.len = 0, f.at = pos,
         out' = (IF fragments = <<>> THEN out ELSE Append(out, fragments))
  PROVE  Handed([pdu |-> f.pdu, interrupted |-> f.broken])
<1> DEFINE m == [pdu |-> f.pdu, interrupted |-> f.broken]
           p == f.pdu
<1>1. /\ p \in Seq(Byte) /\ Len(p) \in Nat /\ Len(p) >= 2 /\ p[1] \in Byte
      /\ f.at \in Nat /\ f.from = Len(p)
  <2>1. f.pdu \in Pdus /\ f.at \in Nat
    BY DEF IInv, TypeOK, OfPdu
  <2>2. f.from = Len(p)
    BY DEF IInv, Layout, OnWire
  <2> QED
    BY <2>1, <2>2, PduBytes
<1>2. m.pdu = p /\ (Abstract!Damaged(m) <=> f.broken \/ Len(p) > MaxPduBytes)
  BY DEF Abstract!Damaged
<1>3. CASE fragments = <<>>
  <2>1. out' = out
    BY <1>3
  <2>2. PICK g \in frames : Data(g) /\ Follows(g, f)
    BY <1>1 DEF IInv, Chained
  <2>3. Upto(g) = f.from /\ (End(g) < f.at => f.broken) /\ End(g) <= f.at /\ End(g) \in Nat
    BY <2>2 DEF Follows, IInv, TypeOK, End
  <2>4. CASE End(g) = pos
    <3>1. Upto(g) > MaxPduBytes
      BY <1>3, <2>2, <2>4 DEF IInv, Progress
    <3> QED
      BY <3>1, <2>1, <2>3, <1>1, <1>2 DEF Handed
  <2>5. CASE End(g) # pos
    <3>1. f.broken
      BY <2>3, <2>5, <1>1
    <3> QED
      BY <3>1, <2>1, <1>2 DEF Handed
  <2> QED
    BY <2>4, <2>5
<1>4. CASE fragments # <<>>
  <2>1. out' = Append(out, fragments)
    BY <1>4
  <2>2. PICK g \in frames : Data(g) /\ End(g) = pos /\ \E a \in Nat : Collected(g, a)
    BY <1>4 DEF IInv, Progress
  <2>3. PICK a \in Nat : Collected(g, a)
    BY <2>2
  <2>4. Follows(g, f)
    BY <2>2, NextFollows DEF IsEvent
  <2>5. g.pdu = p /\ Upto(g) = Len(p) /\ (f.broken <=> g.broken)
    <3>1. f.pdu = g.pdu /\ f.from = Upto(g) /\ (f.broken <=> g.broken \/ End(g) < f.at)
      BY <2>4 DEF Follows
    <3>2. ~(End(g) < f.at)
      BY <2>2, <1>1
    <3> QED
      BY <3>1, <3>2, <1>1
  <2>6. /\ 1 <= a /\ a < Len(p) /\ Len(fragments) = 1 + (Len(p) - a)
        /\ Len(fragments) <= MaxPduBytes
    BY <2>2, <2>3, <2>5, <1>4, CollectedBytes DEF IInv, Progress
  <2>7. fragments = <<p[1]>> \o SubSeq(p, a + 1, Len(p))
    BY <2>3, <2>5 DEF Collected
  <2>8. IF a = 1 THEN ~f.broken ELSE f.broken \/ Len(p) > MaxPduBytes
    BY <2>3, <2>5 DEF Collected
  <2>9. CASE a = 1
    <3>1. fragments = p
      <4>1. fragments = <<p[1]>> \o SubSeq(p, 2, Len(p))
        BY <2>7, <2>9
      <4>2. p \in Seq(Byte) /\ Len(p) >= 1
        BY <1>1
      <4> HIDE DEF p
      <4> QED
        BY <4>1, <4>2, WholePdu
    <3>2. ~(Len(p) > MaxPduBytes)
      BY <2>6, <2>9, <1>1, BoundsAssumption
    <3> QED
      BY <3>1, <3>2, <2>1, <2>8, <2>9, <1>2 DEF Handed
  <2>10. CASE a # 1
    <3>1. a \in 2..(Len(p) - 1)
      BY <2>6, <2>10, <1>1
    <3>2. out' = Append(out, Abstract!Rest(p, a))
      BY <2>1, <2>7 DEF Abstract!Rest
    <3> QED
      BY <3>1, <3>2, <2>8, <2>10, <1>2 DEF Handed
  <2> QED
    BY <2>9, <2>10
<1> QED
  BY <1>3, <1>4

\* At an end marker a PDU more has ended, or none where the marker has none.
EndedMore ==
  \/ out' = out /\ \A k : EndedIs(k) => EndedIs(k)'
  \/ \E k \in Nat : /\ EndedIs(k) /\ k < Len(pdus) /\ EndedIs(k + 1)'
                    /\ Handed(pdus[k + 1].msg)

\* At most one PDU ends at an end marker, and is handed on.
LEMMA EndMarkerStep ==
  ASSUME IInv, EndMarker
  PROVE  IInv' /\ UNCHANGED pdus /\ EndedMore
<1>1. /\ UNCHANGED <<sender, recvd, frames, pdus>> /\ pos' = pos + 4
      /\ fragments' = <<>> /\ pduBytes' = 0
      /\ out' = (IF fragments = <<>> THEN out ELSE Append(out, fragments))
      /\ DataLen = 0
  <2>1. CASE fragments = <<>>
    <3>1. pduBytes = 0
      BY <2>1 DEF IInv, TypeOK
    <3> QED
      BY <2>1, <3>1 DEF EndMarker, assembly, sender
  <2>2. CASE fragments # <<>>
    BY <2>2 DEF EndMarker, DropPartialPdu, sender
  <2> QED
    BY <2>1, <2>2
<1>2. PICK f \in frames : /\ f.at = pos /\ DataLen = f.len /\ Version = stream[f.at + 2]
                          /\ End(f) = pos + 4 + DataLen /\ End(f) <= recvd
  BY FrameRead DEF IInv, EndMarker
<1>3. pos \in Nat /\ recvd \in Nat /\ f.len = 0 /\ pos' = End(f)
  BY <1>1, <1>2 DEF IInv, TypeOK
<1>4. /\ AtBoundary'
      /\ \A g \in frames : g = f \/ (End(g) # pos' /\ ~(pos <= g.at /\ g.at < pos'))
  BY <1>1, <1>2, <1>3, Consumed DEF IInv
<1>5. Progress'
  <2>1. \A g \in frames : ~(Data(g) /\ End(g) = pos')
    BY <1>3, <1>4 DEF Data
  <2> QED
    BY <1>1, <2>1 DEF Progress, End, Data, OfPdu
<1>6. pos' \in Nat /\ pos < pos' /\ pos <= pos' /\ pos' <= recvd
  BY <1>1, <1>2, <1>3
<1>7. ASSUME OfPdu(f)
      PROVE  EndedMore
  <2>1. PICK i \in 1..Len(pdus) : pdus[i] = Closed(f)
    BY <1>3, <1>7 DEF IInv, EndsMarked
  <2>2. pdus[i].at = pos /\ pdus[i].msg = [pdu |-> f.pdu, interrupted |-> f.broken]
    BY <2>1, <1>2 DEF Closed
  <2>3. PICK k \in Nat : EndedIs(k)
    BY DEF IInv
  <2> DEFINE K == Len(pdus)
  <2>4. k \in 0..K /\ K \in Nat /\ \A j \in 1..K : j <= k <=> pdus[j].at < pos
    BY <2>3 DEF EndedIs, IInv, TypeOK
  <2>5. \A j \in 1..K : pdus[j].at \in Nat
    <3> TAKE j \in 1..K
    <3>1. PICK h \in frames : pdus[j] = Closed(h)
      BY DEF IInv, EndsMarked
    <3> QED
      BY <3>1 DEF Closed, IInv, TypeOK
  <2>6. \A j, l \in 1..K : j < l => pdus[j].at < pdus[l].at
    BY DEF IInv, EndsMarked
  <2>7. i = k + 1
    <3>1. ~(i <= k)
      BY <2>2, <2>4, <1>3
    <3>2. ~(k + 1 < i)
      <4>1. SUFFICES ASSUME k + 1 < i PROVE FALSE
        OBVIOUS
      <4>2. k + 1 \in 1..K
        BY <4>1, <2>4
      <4>3. pdus[k + 1].at < pos
        BY <4>1, <4>2, <2>2, <2>6
      <4> QED
        BY <4>2, <4>3, <2>4
    <3> QED
      BY <3>1, <3>2, <2>4
  <2>8. \A j \in 1..K : j <= k + 1 <=> pdus[j].at < pos'
    <3> TAKE j \in 1..K
    <3>1. CASE j <= k
      BY <3>1, <2>4, <2>5, <1>3, <1>6
    <3>2. CASE j = k + 1
      BY <3>2, <2>2, <2>4, <2>7, <1>6
    <3>3. CASE j > k + 1
      <4>1. pos < pdus[j].at
        BY <3>3, <2>2, <2>4, <2>6, <2>7
      <4>2. PICK h \in frames : pdus[j] = Closed(h)
        BY DEF IInv, EndsMarked
      <4>3. pdus[j].at = h.at
        BY <4>2 DEF Closed
      <4>4. h # f
        BY <4>1, <4>3, <1>2, <1>3
      <4>5. ~(pos <= h.at /\ h.at < pos')
        BY <4>4, <1>4
      <4> QED
        BY <4>1, <4>3, <4>5, <3>3, <2>4, <2>5, <1>3, <1>6
    <3> QED
      BY <3>1, <3>2, <3>3, <2>4
  <2>9. EndedIs(k + 1)' /\ k < K
    BY <2>4, <2>7, <2>8, <1>1 DEF EndedIs
  <2>10. Handed([pdu |-> f.pdu, interrupted |-> f.broken])
    BY <1>1, <1>2, <1>3, <1>7, HandedOn
  <2>11. Handed(pdus[k + 1].msg)
    BY <2>2, <2>7, <2>10
  <2> QED
    BY <2>3, <2>9, <2>11 DEF EndedMore
<1>8. ASSUME ~OfPdu(f)
      PROVE  EndedMore
  <2>1. fragments = <<>>
    <3>1. SUFFICES ASSUME fragments # <<>> PROVE FALSE
      OBVIOUS
    <3>2. PICK g \in frames : Data(g) /\ End(g) = pos
      BY <3>1 DEF IInv, Progress
    <3>3. Follows(g, f)
      BY <3>2, <1>2, <1>3, NextFollows DEF IsEvent
    <3> QED
      BY <3>2, <3>3, <1>8 DEF Follows, Data, OfPdu
  <2>2. ASSUME NEW k, EndedIs(k)
        PROVE  EndedIs(k)'
    <3>1. \A h \in frames : OfPdu(h) /\ h.len = 0 => ~(pos <= h.at /\ h.at < pos')
      BY <1>4, <1>8
    <3> QED
      BY <2>2, <3>1, <1>1, <1>6, EndsPassed DEF IInv
  <2> QED
    BY <2>1, <2>2, <1>1 DEF EndedMore
<1>9. \E k \in Nat : EndedIs(k)'
  BY <1>7, <1>8 DEF EndedMore, IInv
<1>10. IInv'
  <2>1. fragments' \in Seq(Byte) /\ pduBytes' = Len(fragments')
    BY <1>1
  <2>2. pos' \in 0..recvd
    BY <1>3, <1>6
  <2> QED
    BY <2>1, <2>2, <1>1, <1>4, <1>5, <1>9, TurnKeeps
<1> QED
  BY <1>1, <1>7, <1>8, <1>10

\* A chunk arrives: the loop stands where it stood.
LEMMA PushStep ==
  ASSUME IInv, PushSome
  PROVE  IInv' /\ UNCHANGED <<pdus, pos, out>>
<1>1. PICK n \in 1..(Len(stream) - recvd) : Push(n)
  BY DEF PushSome
<1>2. /\ UNCHANGED <<stream, sending, off, interrupted, sends, frames, pdus>>
      /\ UNCHANGED <<pos, fragments, pduBytes, out>> /\ recvd' = recvd + n
  BY <1>1 DEF Push, sender, assembly
<1>3. TypeOK'
  <2>1. Len(stream) \in Nat /\ recvd \in Nat /\ recvd <= Len(stream) /\ pos \in 0..recvd
    BY DEF IInv, TypeOK
  <2>2. recvd' \in 0..Len(stream) /\ pos \in 0..recvd'
    BY <1>2, <2>1
  <2> QED
    BY <1>2, <2>2 DEF IInv, TypeOK
<1>4. Layout' /\ AtBoundary'
  <2>1. \A f : (OnWire(f)' <=> OnWire(f)) /\ End(f)' = End(f)
    BY <1>2 DEF OnWire, End, IsEvent, OfPdu, Upto
  <2> QED
    BY <1>2, <2>1 DEF IInv, Layout, AtBoundary
<1>5. \A f, g : (Follows(f, g)' <=> Follows(f, g)) /\ (IsLast(f)' <=> IsLast(f))
  BY <1>2 DEF Follows, IsLast, End, Upto, IsEvent
<1>6. Chained'
  BY <1>2, <1>5 DEF IInv, Chained, Data, OfPdu
<1>7. EndsMarked' /\ \A k : EndedIs(k)' <=> EndedIs(k)
  BY <1>2, EndsKept DEF IInv
<1>8. \A f, a : Collected(f, a)' <=> Collected(f, a)
  BY <1>2 DEF Collected, Upto
<1>9. Progress'
  BY <1>2, <1>8 DEF IInv, Progress, Data, End, Upto, OfPdu
<1> QED
  BY <1>2, <1>3, <1>4, <1>6, <1>7, <1>9 DEF IInv

\* A new connection starts like the first.
LEMMA ResetStep ==
  ASSUME IInv, Reset
  PROVE  IInv' /\ UNCHANGED out /\ pdus' = <<>> /\ EndedIs(0)'
<1>1. /\ stream' = <<>> /\ sending' = <<>> /\ off' = 1 /\ interrupted' = FALSE
      /\ frames' = {} /\ pdus' = <<>> /\ sends' = sends /\ recvd' = 0 /\ pos' = 0
      /\ fragments' = <<>> /\ pduBytes' = 0 /\ out' = out
  BY DEF Reset, NewStream, DropPartialPdu
<1>2. TypeOK'
  <2>1. <<>> \in Pdus \cup {<<>>} /\ 1 \in Nat \ {0} /\ FALSE \in BOOLEAN
    OBVIOUS
  <2>2. sends' \in Nat
    BY <1>1 DEF IInv, TypeOK
  <2>3. /\ stream' \in Seq(Byte) /\ fragments' \in Seq(Byte)
        /\ pdus' \in Seq([at : Nat, msg : Message])
    BY <1>1
  <2>4. recvd' \in 0..Len(stream') /\ pos' \in 0..recvd' /\ pduBytes' = Len(fragments')
    BY <1>1
  <2> QED
    BY <1>1, <2>1, <2>2, <2>3, <2>4 DEF TypeOK
<1>3. Layout' /\ AtBoundary' /\ Chained'
  BY <1>1 DEF Layout, AtBoundary, Chained
<1>4. EndsMarked' /\ EndedIs(0)'
  BY <1>1 DEF EndsMarked, EndedIs
<1>5. Progress'
  BY <1>1 DEF Progress
<1> QED
  BY <1>1, <1>2, <1>3, <1>4, <1>5 DEF IInv

\* The first connection starts empty.
LEMMA Initially ==
  ASSUME Init
  PROVE  IInv /\ EndedIs(0)
<1>1. TypeOK
  <2>1. <<>> \in Pdus \cup {<<>>} /\ 1 \in Nat \ {0} /\ FALSE \in BOOLEAN
    OBVIOUS
  <2>2. stream \in Seq(Byte) /\ fragments \in Seq(Byte) /\ pdus \in Seq([at : Nat, msg : Message])
    BY DEF Init
  <2>3. recvd \in 0..Len(stream) /\ pos \in 0..recvd /\ pduBytes = Len(fragments)
    BY DEF Init
  <2> QED
    BY <2>1, <2>2, <2>3 DEF Init, TypeOK
<1>2. Layout /\ AtBoundary /\ Chained
  BY DEF Init, Layout, AtBoundary, Chained
<1>3. EndsMarked /\ EndedIs(0)
  BY DEF Init, EndsMarked, EndedIs
<1>4. Progress
  BY DEF Init, Progress
<1> QED
  BY <1>1, <1>2, <1>3, <1>4 DEF IInv

\* What a step does to the PDUs that are in transit.
Sent ==
  /\ UNCHANGED out /\ sending \in Pdus /\ interrupted \in BOOLEAN
  /\ pdus' = Append(pdus, [at |-> Len(stream),
                           msg |-> [pdu |-> sending, interrupted |-> interrupted]])
  /\ \A k : EndedIs(k) => EndedIs(k)'
Kept == UNCHANGED <<pdus, out>> /\ \A k : EndedIs(k) => EndedIs(k)'
Lost == UNCHANGED out /\ pdus' = <<>> /\ EndedIs(0)'

\* The invariant is inductive, and what each step does to the PDUs in transit.
LEMMA Steps ==
  ASSUME IInv, [Next]_vars
  PROVE  IInv' /\ (Kept \/ Sent \/ Lost \/ (UNCHANGED pdus /\ EndedMore))
<1>0. UNCHANGED <<pdus, pos, out>> => Kept
  BY DEF Kept, EndedIs
<1>1. ASSUME NEW p \in Pdus, NEW n \in 1..Len(p), SendFragment(p, n)
      PROVE  IInv' /\ Kept
  <2>1. IInv'
    BY <1>1, FragmentSent
  <2>2. UNCHANGED <<pdus, pos, out>>
    BY <1>1 DEF SendFragment, SendFrame, assembly
  <2> QED
    BY <2>1, <2>2, <1>0
<1>2. ASSUME SendEnd
      PROVE  IInv' /\ Sent
  <2>1. interrupted \in BOOLEAN
    BY DEF IInv, TypeOK
  <2> QED
    BY <1>2, <2>1, EndSent DEF Sent
<1>3. ASSUME NEW d \in Events, SendEvent(d)
      PROVE  IInv' /\ Kept
  <2>1. d \in Seq(Byte) /\ Len(d) <= MaxFrameData /\ Len(d) # 0
    <3>1. d \in Seq(Byte) /\ Len(d) \in 1..MaxFrameData
      BY EventsAssumption
    <3> QED
      BY <3>1
  <2>2. Besides /\ SendFrame(SystemEventVersion, d, 0, Len(d), <<>>)
    BY <1>3 DEF SendEvent
  <2>3. IInv' /\ UNCHANGED <<pdus, pos, out>>
    BY <2>1, <2>2, BesideSent
  <2> QED
    BY <2>3, <1>0
<1>4. ASSUME SendStrayEnd
      PROVE  IInv' /\ Kept
  <2>1. Besides /\ off = 1 /\ SendFrame(SystemEventVersion, <<>>, 0, Len(<<>>), <<>>)
    BY <1>4 DEF SendStrayEnd
  <2>2. <<>> \in Seq(Byte) /\ Len(<<>>) <= MaxFrameData
    BY DEF MaxFrameData
  <2>3. IInv' /\ UNCHANGED <<pdus, pos, out>>
    BY <2>1, <2>2, BesideSent
  <2> QED
    BY <2>3, <1>0
<1>5. ASSUME NEW b \in Junk, SendJunk(b)
      PROVE  IInv' /\ Kept
  BY <1>5, <1>0, JunkSent
<1>6. CASE Resync
  BY <1>6, ResyncStep DEF Kept
<1>7. CASE EndMarker
  BY <1>7, EndMarkerStep
<1>8. CASE SystemEvent
  BY <1>8, SystemEventStep DEF Kept
<1>9. CASE Fragment
  BY <1>9, FragmentStep DEF Kept
<1>10. CASE PushSome
  BY <1>10, <1>0, PushStep
<1>11. CASE Reset
  BY <1>11, ResetStep DEF Lost
<1>12. CASE UNCHANGED vars
  <2>1. UNCHANGED <<pdus, pos, out>>
    BY <1>12 DEF vars, sender, assembly
  <2>2. UNCHANGED <<sender, recvd>> /\ pos' \in 0..recvd
        /\ fragments' \in Seq(Byte) /\ pduBytes' = Len(fragments')
    BY <1>12 DEF vars, assembly, IInv, TypeOK
  <2>3. UNCHANGED <<frames, pos, fragments>>
    BY <1>12 DEF vars, assembly, sender
  <2>4. AtBoundary' /\ Progress'
    BY <2>3 DEF IInv, AtBoundary, Progress, Collected, Data, OfPdu, End, Upto
  <2>5. \E k \in Nat : EndedIs(k)'
    BY <2>1 DEF IInv, EndedIs
  <2> QED
    BY <2>1, <2>2, <2>4, <2>5, <1>0, TurnKeeps
<1> QED
  BY <1>1, <1>2, <1>3, <1>4, <1>5, <1>6, <1>7, <1>8, <1>9, <1>10, <1>11, <1>12
     DEF Next, Send, LoopTurn

\* What is on the wire are the frames of PDUs, whole and in their order, with
\* events between them; what is collected is of the PDU in front of pos.
THEOREM StreamIsRead == Spec => []IInv
<1>1. Init => IInv
  BY Initially
<1>2. IInv /\ [Next]_vars => IInv'
  BY Steps
<1> QED
  BY <1>1, <1>2, PTL DEF Spec

-----------------------------------------------------------------------------
(* The abstract specification *)

\* The PDUs behind the first k.
Pending(ps, k) == [j \in 1..(Len(ps) - k) |-> ps[k + j].msg]

\* How many have ended is one number.
LEMMA EndedUnique ==
  ASSUME NEW ps, Len(ps) \in Nat, NEW q, NEW k \in 0..Len(ps),
         \A i \in 1..Len(ps) : i <= k <=> ps[i].at < q
  PROVE  (CHOOSE l \in 0..Len(ps) : \A i \in 1..Len(ps) : i <= l <=> ps[i].at < q) = k
<1> DEFINE Is(l) == l \in 0..Len(ps) /\ \A i \in 1..Len(ps) : i <= l <=> ps[i].at < q
<1>1. Is(k)
  OBVIOUS
<1>2. ASSUME NEW l, Is(l)
      PROVE  l = k
  <2>1. ~(l < k)
    <3>1. SUFFICES ASSUME l < k PROVE FALSE
      OBVIOUS
    <3>2. k \in 1..Len(ps) /\ k <= k /\ ~(k <= l)
      BY <3>1, <1>2
    <3> QED
      BY <3>2, <1>2
  <2>2. ~(k < l)
    <3>1. SUFFICES ASSUME k < l PROVE FALSE
      OBVIOUS
    <3>2. l \in 1..Len(ps) /\ l <= l /\ ~(l <= k)
      BY <3>1, <1>2
    <3> QED
      BY <3>2, <1>2
  <2> QED
    BY <2>1, <2>2, <1>2
<1> QED
  BY <1>1, <1>2

\* An element of a sequence.
LEMMA Element ==
  ASSUME NEW S, NEW s \in Seq(S), NEW i \in 1..Len(s)
  PROVE  s[i] \in S
OBVIOUS

\* The elements of what is pending.
LEMMA PendingFacts ==
  ASSUME NEW ps \in Seq([at : Nat, msg : Message]), NEW k \in 0..Len(ps)
  PROVE  /\ Pending(ps, k) \in Seq(Message) /\ Len(Pending(ps, k)) = Len(ps) - k
         /\ \A j \in 1..(Len(ps) - k) : Pending(ps, k)[j] = ps[k + j].msg
<1>1. \A j \in 1..(Len(ps) - k) : ps[k + j].msg \in Message
  <2> TAKE j \in 1..(Len(ps) - k)
  <2>1. k + j \in 1..Len(ps)
    OBVIOUS
  <2>2. ps[k + j] \in [at : Nat, msg : Message]
    BY <2>1, Element
  <2> QED
    BY <2>2
<1>2. Len(ps) - k \in Nat
  OBVIOUS
<1> DEFINE n == Len(ps) - k
           s == Pending(ps, k)
<1>3. s = [j \in 1..n |-> ps[k + j].msg]
  BY DEF Pending
<1> HIDE DEF n, s
<1>4. n \in Nat /\ \A j \in 1..n : ps[k + j].msg \in Message
  BY <1>1, <1>2 DEF n
<1>5. s \in Seq(Message) /\ Len(s) = n /\ \A j \in 1..n : s[j] = ps[k + j].msg
  BY <1>3, <1>4
<1> QED
  BY <1>5 DEF n, s

\* Sequences of the same messages are the same.
LEMMA SameMessages ==
  ASSUME NEW s \in Seq(Message), NEW t \in Seq(Message), Len(s) = Len(t),
         \A i \in 1..Len(s) : s[i] = t[i]
  PROVE  s = t
OBVIOUS

\* A PDU more is pending at the end.
LEMMA PendingSent ==
  ASSUME NEW ps \in Seq([at : Nat, msg : Message]), NEW k \in 0..Len(ps),
         NEW e \in [at : Nat, msg : Message]
  PROVE  Pending(Append(ps, e), k) = Append(Pending(ps, k), e.msg)
<1> DEFINE qs == Append(ps, e)
           s == Pending(ps, k)
           l == Pending(qs, k)
           r == Append(s, e.msg)
           n == Len(ps)
<1>1. /\ qs \in Seq([at : Nat, msg : Message]) /\ Len(qs) = n + 1 /\ n \in Nat /\ qs[n + 1] = e
      /\ \A i \in 1..n : qs[i] = ps[i]
  OBVIOUS
<1>2. k \in 0..n /\ k \in 0..Len(qs)
  BY <1>1
<1>3. s \in Seq(Message) /\ Len(s) = n - k /\ \A j \in 1..(n - k) : s[j] = ps[k + j].msg
  BY PendingFacts
<1> HIDE DEF qs, s, n
<1>4. /\ l \in Seq(Message) /\ Len(l) = (n + 1) - k
      /\ \A j \in 1..((n + 1) - k) : l[j] = qs[k + j].msg
  <2>1. /\ l \in Seq(Message) /\ Len(l) = Len(qs) - k
        /\ \A j \in 1..(Len(qs) - k) : l[j] = qs[k + j].msg
    BY <1>1, <1>2, PendingFacts
  <2> QED
    BY <1>1, <2>1
<1>5. /\ r \in Seq(Message) /\ Len(r) = Len(s) + 1 /\ r[Len(s) + 1] = e.msg
      /\ \A j \in 1..Len(s) : r[j] = s[j]
  BY <1>3
<1> HIDE DEF l, r
<1>6. Len(l) = Len(r)
  BY <1>1, <1>2, <1>3, <1>4, <1>5
<1>7. \A j \in 1..Len(l) : l[j] = r[j]
  <2> TAKE j \in 1..Len(l)
  <2>1. CASE j \in 1..(n - k)
    <3>1. k + j \in 1..n /\ j \in 1..((n + 1) - k) /\ j \in 1..Len(s)
      BY <2>1, <1>1, <1>2, <1>3
    <3>2. l[j] = qs[k + j].msg /\ qs[k + j] = ps[k + j]
      BY <3>1, <1>1, <1>4
    <3>3. r[j] = s[j] /\ s[j] = ps[k + j].msg
      BY <2>1, <3>1, <1>3, <1>5
    <3> QED
      BY <3>2, <3>3
  <2>2. CASE j = (n - k) + 1
    <3>1. k + j = n + 1 /\ j \in 1..((n + 1) - k) /\ j = Len(s) + 1
      BY <2>2, <1>1, <1>2, <1>3
    <3> QED
      BY <3>1, <1>1, <1>4, <1>5
  <2> QED
    BY <2>1, <2>2, <1>1, <1>2, <1>4
<1>8. l = r
  BY <1>4, <1>5, <1>6, <1>7, SameMessages
<1> QED
  BY <1>8 DEF l, r, s, qs

\* When a PDU has ended the others are pending.
LEMMA PendingPassed ==
  ASSUME NEW ps \in Seq([at : Nat, msg : Message]), NEW k \in Nat, k < Len(ps)
  PROVE  /\ Pending(ps, k) # <<>> /\ Head(Pending(ps, k)) = ps[k + 1].msg
         /\ Tail(Pending(ps, k)) = Pending(ps, k + 1)
<1> DEFINE n == Len(ps)
           s == Pending(ps, k)
           l == Tail(s)
           r == Pending(ps, k + 1)
<1>1. n \in Nat /\ k \in 0..n /\ k + 1 \in 0..n
  OBVIOUS
<1>2. s \in Seq(Message) /\ Len(s) = n - k /\ \A j \in 1..(n - k) : s[j] = ps[k + j].msg
  BY <1>1, PendingFacts
<1>3. /\ r \in Seq(Message) /\ Len(r) = n - (k + 1)
      /\ \A j \in 1..(n - (k + 1)) : r[j] = ps[(k + 1) + j].msg
  BY <1>1, PendingFacts
<1> HIDE DEF n, s, r
<1>4. Len(s) > 0 /\ s # <<>>
  BY <1>1, <1>2
<1>5. Head(s) = ps[k + 1].msg
  <2>1. 1 \in 1..(n - k) /\ Head(s) = s[1]
    BY <1>1, <1>2, <1>4
  <2> QED
    BY <2>1, <1>2
<1>6. l \in Seq(Message) /\ Len(l) = Len(s) - 1 /\ \A j \in 1..(Len(s) - 1) : l[j] = s[j + 1]
  BY <1>2, <1>4
<1> HIDE DEF l
<1>7. Len(l) = Len(r)
  BY <1>1, <1>2, <1>3, <1>6
<1>8. \A j \in 1..Len(l) : l[j] = r[j]
  <2> TAKE j \in 1..Len(l)
  <2>1. /\ j \in 1..(Len(s) - 1) /\ j + 1 \in 1..(n - k) /\ j \in 1..(n - (k + 1))
        /\ k + (j + 1) = (k + 1) + j
    BY <1>1, <1>2, <1>6
  <2> QED
    BY <2>1, <1>2, <1>3, <1>6
<1>9. l = r
  BY <1>3, <1>6, <1>7, <1>8, SameMessages
<1> QED
  BY <1>4, <1>5, <1>9 DEF l, r, s

\* Every step is one of the abstract specification, or none.
LEMMA Mapped ==
  ASSUME IInv, [Next]_vars
  PROVE  [Abstract!Next]_(Abstract!vars)
<1>1. IInv' /\ (Kept \/ Sent \/ Lost \/ (UNCHANGED pdus /\ EndedMore))
  BY Steps
<1>2. pdus \in Seq([at : Nat, msg : Message]) /\ pdus' \in Seq([at : Nat, msg : Message])
  BY <1>1 DEF IInv, TypeOK
<1>3. \A k : EndedIs(k) => k \in 0..Len(pdus) /\ InTransit = Pending(pdus, k)
  <2> TAKE k
  <2> HAVE EndedIs(k)
  <2>1. k \in 0..Len(pdus) /\ \A i \in 1..Len(pdus) : i <= k <=> pdus[i].at < pos
    BY DEF EndedIs
  <2>2. Len(pdus) \in Nat
    BY <1>2
  <2>3. Ended = k
    BY <2>1, <2>2, EndedUnique DEF Ended
  <2> QED
    BY <2>1, <2>3 DEF InTransit, Pending
<1>4. \A k : EndedIs(k)' => InTransit' = Pending(pdus', k)
  <2> TAKE k
  <2> HAVE EndedIs(k)'
  <2>1. k \in 0..Len(pdus') /\ \A i \in 1..Len(pdus') : i <= k <=> pdus'[i].at < pos'
    BY DEF EndedIs
  <2>2. Len(pdus') \in Nat
    BY <1>2
  <2>3. Ended' = k
    BY <2>1, <2>2, EndedUnique DEF Ended
  <2> QED
    BY <2>3 DEF InTransit, Pending
<1>5. PICK k \in Nat : EndedIs(k)
  BY DEF IInv
<1>6. k \in 0..Len(pdus) /\ InTransit = Pending(pdus, k)
  BY <1>3, <1>5
<1>7. CASE Kept
  <2>1. InTransit' = InTransit /\ out' = out
    BY <1>4, <1>5, <1>6, <1>7 DEF Kept
  <2> QED
    BY <2>1 DEF Abstract!vars
<1>8. CASE Sent
  <2> DEFINE e == [at |-> Len(stream), msg |-> [pdu |-> sending, interrupted |-> interrupted]]
  <2>1. /\ e \in [at : Nat, msg : Message]
        /\ e.msg = [pdu |-> sending, interrupted |-> interrupted]
    BY <1>8 DEF Sent, Message, IInv, TypeOK
  <2>2. pdus' = Append(pdus, e) /\ out' = out
    BY <1>8 DEF Sent
  <2> HIDE DEF e
  <2>3. InTransit' = Pending(pdus', k)
    BY <1>4, <1>5, <1>8 DEF Sent
  <2>4. InTransit' = Append(InTransit, e.msg)
    BY <2>1, <2>2, <2>3, <1>2, <1>6, PendingSent
  <2>5. Abstract!SendPdu(sending, interrupted)
    BY <2>1, <2>2, <2>4 DEF Abstract!SendPdu
  <2>6. sending \in Pdus /\ interrupted \in BOOLEAN
    BY <1>8 DEF Sent
  <2> QED
    BY <2>5, <2>6 DEF Abstract!Next
<1>9. CASE Lost
  <2>1. InTransit' = Pending(<<>>, 0) /\ out' = out
    BY <1>4, <1>9 DEF Lost
  <2>2. Pending(<<>>, 0) = <<>>
    BY DEF Pending
  <2> QED
    BY <2>1, <2>2 DEF Abstract!NewConnection, Abstract!Next
<1>10. ASSUME UNCHANGED pdus, EndedMore
       PROVE  [Abstract!Next]_(Abstract!vars)
  <2>1. CASE out' = out /\ \A l : EndedIs(l) => EndedIs(l)'
    <3>1. InTransit' = InTransit /\ out' = out
      BY <1>4, <1>5, <1>6, <1>10, <2>1
    <3> QED
      BY <3>1 DEF Abstract!vars
  <2>2. CASE \E l \in Nat : /\ EndedIs(l) /\ l < Len(pdus) /\ EndedIs(l + 1)'
                            /\ Handed(pdus[l + 1].msg)
    <3>1. PICK l \in Nat : /\ EndedIs(l) /\ l < Len(pdus) /\ EndedIs(l + 1)'
                           /\ Handed(pdus[l + 1].msg)
      BY <2>2
    <3> DEFINE m == pdus[l + 1].msg
    <3>2. InTransit = Pending(pdus, l) /\ InTransit' = Pending(pdus, l + 1)
      BY <1>3, <1>4, <1>10, <3>1
    <3>3. InTransit # <<>> /\ Head(InTransit) = m /\ InTransit' = Tail(InTransit)
      BY <1>2, <3>1, <3>2, PendingPassed
    <3>4. Handed(m)
      BY <3>1
    <3> HIDE DEF m
    <3>5. CASE ~Abstract!Damaged(m)
      BY <3>3, <3>4, <3>5 DEF Handed, Abstract!Dispatch, Abstract!Next
    <3>6. CASE Abstract!Damaged(m)
      BY <3>3, <3>4, <3>6 DEF Handed, Abstract!DropDamaged, Abstract!Next
    <3> QED
      BY <3>5, <3>6
  <2> QED
    BY <1>10, <2>1, <2>2 DEF EndedMore
<1> QED
  BY <1>1, <1>7, <1>8, <1>9, <1>10

\* The initial state is one of the abstract specification.
LEMMA InitMapped ==
  ASSUME Init
  PROVE  Abstract!Init
<1>1. pdus = <<>> /\ out = <<>>
  BY DEF Init
<1>2. Ended \in 0..0
  <2>1. 0 \in 0..Len(pdus) /\ \A i \in 1..Len(pdus) : i <= 0 <=> pdus[i].at < pos
    BY <1>1
  <2>2. Len(pdus) \in Nat
    BY <1>1
  <2>3. Ended = 0
    BY <2>1, <2>2, EndedUnique DEF Ended
  <2> QED
    BY <2>3
<1>3. InTransit = <<>>
  BY <1>1, <1>2 DEF InTransit
<1> QED
  BY <1>1, <1>3 DEF Abstract!Init

\* However the stream is cut into chunks and PDUs into frames, and whatever
\* comes between them, PDUs are handed on whole, in order and once each; a
\* damaged one is dropped, all of it or up to a cut.
THEOREM AssemblerDeliversPdus == Spec => DeliversPdus
<1>1. Init => Abstract!Init
  BY InitMapped
<1>2. IInv /\ [Next]_vars => [Abstract!Next]_(Abstract!vars)
  BY Mapped
<1>3. Spec => []IInv
  BY StreamIsRead
<1> QED
  BY <1>1, <1>2, <1>3, PTL DEF Spec, DeliversPdus, Abstract!Spec
====
