------------------------------ MODULE OtgUdp ------------------------------
(***************************************************************************)
(* The OTG header on its way from UDPOutPort::sendPacket() over UDP to     *)
(* UDPInPort::nextPacket(): how Packet stamps it into a buffer that is     *)
(* used again and again, and how it is extracted on the other side.        *)
(*                                                                         *)
(* A byte is a number below 256, an integer the sequence of its bytes,     *)
(* most significant first.  Of a buffer only the part the header may take  *)
(* is kept; offsets count from 0.                                          *)
(***************************************************************************)
EXTENDS Integers, Sequences, SequencesExt, FiniteSets

CONSTANTS
  FlowIds,          \* flow ids of the stream, 8 bytes each
  SeqNums,          \* the sequence numbers followed here, in increasing order, 4 bytes each
  PayloadSizes,     \* values of --cbr:size that sendto() takes: a negative one it refuses
  SenderBig, ReceiverBig,  \* WORDS_BIGENDIAN of the two hosts
  Legacy,           \* datagrams older OTGs send
  Junk,             \* what a fresh buffer holds
  MaxRecv           \* bound: calls of nextPacket()

DEFAULT_PAYLOAD_SIZE == 512
DEF_PKT_LENGTH == 1024
SYNC_BYTE == 170
HeaderSize == 17

Byte == 0..255

ASSUME HeaderAssumption == FlowIds \subseteq [1..8 -> Byte] /\ SeqNums \in Seq([1..4 -> Byte])
ASSUME PayloadSizesAssumption == PayloadSizes \subseteq Nat

\* A datagram of an older OTG carries the version 1.
ASSUME LegacyAssumption ==
  \A d \in Legacy :
    /\ d.len \in Nat /\ d.len >= 3 /\ 0..2 \subseteq DOMAIN d.payload
    /\ d.payload[0] = SYNC_BYTE /\ d.payload[1] = SYNC_BYTE /\ d.payload[2] = 1

VARIABLES
  out, in,    \* the Packet of the sender and of the receiver
  next,       \* index of the sequence number of the sender's next packet
  flowid,     \* Stream::streamid_
  net,        \* datagrams under way: each may arrive never, once or often, and in any order
  sent,       \* what was given to sendto(): the sender's udp_out measurements
  reports,    \* the receiver's udp_in measurements
  recvs       \* calls of nextPacket()

vars == <<out, in, next, flowid, net, sent, reports, recvs>>

Zero(n) == [i \in 1..n |-> 0]

-----------------------------------------------------------------------------
(* Packet *)

\* Packet(buffer_length): reset(), and a buffer nobody clears.
NewPacket ==
  [size |-> 0, length |-> DEFAULT_PAYLOAD_SIZE, offset |-> 0,
   payload |-> [i \in 0..HeaderSize - 1 |-> Junk]]

\* Packet::reset(), as far as the header goes.
Reset(p) == [p EXCEPT !.size = 0, !.offset = 0]

\* Mutant: setPayloadSize() keeps the buffer it has.
SetPayloadSizeOnly(p, size) == [p EXCEPT !.size = size]

\* Packet::setPayloadSize(): a longer packet gets a fresh buffer, half as long again.
SetPayloadSize(p, size) ==
  IF size > p.length
  THEN [p EXCEPT !.size = size, !.length = (3 * size) \div 2,
                 !.payload = [i \in DOMAIN p.payload |-> Junk]]
  ELSE [p EXCEPT !.size = size]

\* Packet::getBufferPtr(minLength, 0).
GetBuffer(p, minLength) ==
  IF p.length >= minLength THEN p
  ELSE [p EXCEPT !.length = minLength, !.payload = [i \in DOMAIN p.payload |-> Junk]]

\* The bytes of buf from offset off on, replaced by bytes.
Write(buf, off, bytes) ==
  [i \in DOMAIN buf |-> IF i \in off..off + Len(bytes) - 1 THEN bytes[i - off + 1] ELSE buf[i]]

\* Packet::stampPacket().
StampPacket(p, version) ==
  LET q == GetBuffer(p, 32)
  IN  [q EXCEPT !.payload = Write(@, 0, <<SYNC_BYTE, SYNC_BYTE, version>>), !.offset = 3]

\* htons(), htonl(), otg_htonll() and their inverses.
HostNet(big, bytes) == IF big THEN bytes ELSE Reverse(bytes)

\* Packet::stampInt32Val() and stampInt64Val() with offset -1: the value is appended.
StampVal(p, big, bytes) ==
  LET q == GetBuffer(p, Len(bytes) + p.offset)
  IN  [q EXCEPT !.payload = Write(@, q.offset, HostNet(big, bytes)), !.offset = @ + Len(bytes)]

\* Packet::stampInt16Val() with offset -1: offset_ has moved on before the bytes are written.
StampInt16Val(p, big, bytes) ==
  LET q == GetBuffer(p, 2 + p.offset + 2)
  IN  [q EXCEPT !.payload = Write(@, q.offset + 2, HostNet(big, bytes)), !.offset = @ + 2]

\* Packet::checkStamp(): the version, or -1 with nothing skipped.
Stamped(p) == p.size >= 3 /\ p.payload[0] = SYNC_BYTE /\ p.payload[1] = SYNC_BYTE
CheckStamp(p) == [version |-> IF Stamped(p) THEN p.payload[2] ELSE -1,
                  pkt |-> [p EXCEPT !.offset = IF Stamped(p) THEN 3 ELSE 0]]

\* Mutant: the extractors do not look at size_.
FitsAlways(p, n) == TRUE

\* The test every extractor begins with.
Fits(p, n) == p.size >= p.offset + n

\* Bytes added up as signed char, each shifted to its place: one above 127 is 256 too low, and borrows
\* from the byte before it, through bytes that are 0.
SignedSum(bytes) ==
  LET borrows(i) == \E j \in i+1..Len(bytes) : bytes[j] > 127 /\ \A k \in i+1..j-1 : bytes[k] = 0
  IN  [i \in 1..Len(bytes) |-> (bytes[i] - IF borrows(i) THEN 1 ELSE 0) % 256]

\* The n bytes at offset_, as they lie there.
Bytes(p, n) == [i \in 1..n |-> p.payload[p.offset + i - 1]]

\* Packet::extractInt32Val() and extractInt16Val(): 0 when the packet is too short.
ExtractSigned(p, big, n) ==
  IF Fits(p, n)
  THEN [val |-> HostNet(big, SignedSum(Bytes(p, n))), pkt |-> [p EXCEPT !.offset = @ + n]]
  ELSE [val |-> Zero(n), pkt |-> p]

\* Packet::extractInt64Val(), which reads unsigned char.
ExtractInt64(p, big) ==
  IF Fits(p, 8)
  THEN [val |-> HostNet(big, Bytes(p, 8)), pkt |-> [p EXCEPT !.offset = @ + 8]]
  ELSE [val |-> Zero(8), pkt |-> p]

-----------------------------------------------------------------------------
(* The ports *)

\* flowid % SHRT_MAX, and its two bytes.
FlowModulo(id) == FoldLeft(LAMBDA acc, b : (acc * 256 + b) % 32767, 0, id)
ShortFlow(id) == <<FlowModulo(id) \div 256, FlowModulo(id) % 256>>

\* UDPOutPort::sendPacket() up to sendto().
Stamp(p, seq, id) ==
  StampVal(StampVal(StampInt16Val(StampPacket(p, 2), SenderBig, ShortFlow(id)),
                    SenderBig, seq), SenderBig, id)

\* sendto(): the first size_ bytes of the buffer.
Datagram(p) ==
  [len |-> p.size, payload |-> [i \in {j \in DOMAIN p.payload : j < p.size} |-> p.payload[i]]]

Init ==
  /\ out = NewPacket /\ in = NewPacket
  /\ next = 1 /\ flowid \in FlowIds
  /\ net = Legacy /\ sent = {} /\ reports = {} /\ recvs = 0

\* One round of the sender's Stream::_run(): reset(), the generator's size, stamp, sendto().
\* The numbers between two followed ones are sent unseen.
SendPacket ==
  /\ next <= Len(SeqNums)
  /\ \E size \in PayloadSizes :
       /\ out' = Stamp(SetPayloadSize(Reset(out), size), SeqNums[next], flowid)
       /\ sent' = sent \cup {[size |-> size, seq |-> SeqNums[next], flow |-> flowid]}
  /\ next' = next + 1
  /\ net' = net \cup {Datagram(out')}
  /\ UNCHANGED <<in, flowid, reports, recvs>>

\* recvfrom() overwrites the front of the buffer and cuts the datagram to its length.
Received(p, d) ==
  LET len == IF d.len < p.length THEN d.len ELSE p.length
      copy == [i \in DOMAIN p.payload |-> IF i \in DOMAIN d.payload THEN d.payload[i] ELSE p.payload[i]]
  IN  SetPayloadSize([p EXCEPT !.payload = copy], len)

\* nextPacket(): flow id and sequence number by version; an unknown one is read as version 2.
Extract(p, version) ==
  IF version = 1
  THEN LET f == ExtractSigned(p, ReceiverBig, 2)
           s == ExtractSigned(f.pkt, ReceiverBig, 4)
       IN  [flow |-> f.val, seq |-> s.val, pkt |-> s.pkt]
  ELSE LET skip == ExtractSigned(p, ReceiverBig, 2)
           s == ExtractSigned(skip.pkt, ReceiverBig, 4)
           f == ExtractInt64(s.pkt, ReceiverBig)
       IN  [flow |-> f.val, seq |-> s.val, pkt |-> f.pkt]

\* One round of the receiver's Stream::_run(): reset(), then UDPInPort::nextPacket().
NextPacket ==
  /\ recvs < MaxRecv /\ recvs' = recvs + 1
  /\ \E d \in net :
       LET got == Received(GetBuffer(Reset(in), DEF_PKT_LENGTH), d)
           stamp == CheckStamp(got)
           e == Extract(stamp.pkt, stamp.version)
       IN  /\ in' = e.pkt
           /\ reports' = reports \cup {[size |-> got.size, seq |-> e.seq, flow |-> e.flow]}
  /\ UNCHANGED <<out, next, flowid, net, sent>>

\* recvfrom() fails: the packet is deleted, and the stream makes a new one.
RecvError ==
  /\ recvs < MaxRecv /\ recvs' = recvs + 1
  /\ in' = NewPacket
  /\ UNCHANGED <<out, next, flowid, net, sent, reports>>

Next == SendPacket \/ NextPacket \/ RecvError

Spec == Init /\ [][Next]_vars

-----------------------------------------------------------------------------
(* Properties *)

\* Sequence numbers of which, as they lie in the packet, only the first byte may be above 127: those
\* extractInt32Val() reads right.
LowSeqNums(big, seqs) == \A n \in DOMAIN seqs : \A k \in 2..4 : HostNet(big, seqs[n])[k] < 128

\* What the receiver should report of packet s: the fields that fit in what arrived, 0 for others.
Reported(s) ==
  LET len == IF s.size < DEF_PKT_LENGTH THEN s.size ELSE DEF_PKT_LENGTH
  IN  [size |-> len,
       seq |-> IF len >= 9 THEN s.seq ELSE Zero(4),
       flow |-> IF len >= HeaderSize THEN s.flow ELSE Zero(8)]

LegacyReport(r) == Len(r.flow) = 2

\* Every measurement of the receiver is that of a packet that was sent, however datagrams are
\* lost, repeated and reordered, and a short datagram never shows the bytes an earlier one
\* left in the reused buffer (nextPacket, checkStamp and the extractors).
ReportsFaithful ==
  \A r \in reports : LegacyReport(r) \/ \E s \in sent : r = Reported(s)

\* No packet is larger than its buffer: sendto() and recvfrom() stay inside it.
BuffersFit == out.size <= out.length /\ in.size <= in.length
=============================================================================
