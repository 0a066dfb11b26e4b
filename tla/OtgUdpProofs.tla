---------------------------- MODULE OtgUdpProofs ----------------------------
(***************************************************************************)
(* Proofs about OtgUdp, for every set of packet sizes, flow ids, sequence  *)
(* numbers and datagrams of older OTGs, and any number of receptions.      *)
(*                                                                         *)
(* The inductive invariant follows the header's bytes: a datagram under    *)
(* way holds, as far as it is long, the header of a packet that was sent,  *)
(* and the buffers of both ports are large enough to be kept, so that no   *)
(* stamp is lost with an old buffer.                                       *)
(***************************************************************************)
EXTENDS OtgUdp, SequenceTheorems, TLAPS

Offsets == 0..HeaderSize - 1

Pkt(size, length, offset, payload) ==
  [size |-> size, length |-> length, offset |-> offset, payload |-> payload]

\* A Packet as the ports use it: never smaller than what the header is stamped into.
IsPacket(p) ==
  /\ p = Pkt(p.size, p.length, p.offset, p.payload)
  /\ DOMAIN p.payload = Offsets
  /\ p.size \in Nat /\ p.length \in Nat /\ p.size <= p.length /\ p.length >= DEFAULT_PAYLOAD_SIZE

\* The first len bytes of buf hold the fields of packet s that are within them.
Carries(buf, len, s) ==
  /\ len >= 3 => buf[0] = SYNC_BYTE /\ buf[1] = SYNC_BYTE /\ buf[2] = 2
  /\ len >= 9 => \A k \in 1..4 : buf[4 + k] = HostNet(SenderBig, s.seq)[k]
  /\ len >= HeaderSize => \A k \in 1..8 : buf[8 + k] = HostNet(SenderBig, s.flow)[k]

\* d is what sendto() was given of packet s.
DatagramOf(d, s) ==
  d.len = s.size /\ DOMAIN d.payload = {j \in Offsets : j < d.len} /\ Carries(d.payload, d.len, s)

SentInv ==
  /\ flowid \in FlowIds /\ next \in Nat \ {0}
  /\ \A s \in sent : s.size \in Nat /\ s.flow \in FlowIds /\ \E n \in DOMAIN SeqNums : s.seq = SeqNums[n]

NetInv == \A d \in net : d \in Legacy \/ \E s \in sent : DatagramOf(d, s)

\* The receiver's buffer is never more than nextPacket() asks for.
PacketsInv == IsPacket(out) /\ IsPacket(in) /\ in.length <= DEF_PKT_LENGTH

Inv == PacketsInv /\ SentInv /\ NetInv

-----------------------------------------------------------------------------
(* Integers as bytes *)

\* A sequence of n bytes.
IsBytes(b, n) == b = [i \in 1..n |-> b[i]] /\ DOMAIN b = 1..n /\ Len(b) = n

\* What is defined on 1..n is a sequence of length n.
LEMMA BytesType ==
  /\ \A n \in Nat : \A S : \A b \in [1..n -> S] : IsBytes(b, n)
  /\ \A m, n : IsBytes(<<m, n>>, 2)
  /\ \A k, m, n : IsBytes(<<k, m, n>>, 3)
<1>1. ASSUME NEW n \in Nat, NEW S, NEW b \in [1..n -> S]
      PROVE  IsBytes(b, n)
  <2>1. b \in Seq(S) /\ Len(b) = n
    BY SMT
  <2>2. b = [i \in 1..n |-> b[i]] /\ DOMAIN b = 1..n
    BY Zenon
  <2> QED
    BY <2>1, <2>2 DEF IsBytes
<1>2. ASSUME NEW m, NEW n
      PROVE  IsBytes(<<m, n>>, 2)
  <2>1. <<m, n>> \in [1..2 -> {m, n}]
    BY SMT
  <2> QED
    BY <1>1, <2>1
<1>3. ASSUME NEW k, NEW m, NEW n
      PROVE  IsBytes(<<k, m, n>>, 3)
  <2>1. <<k, m, n>> \in [1..3 -> {k, m, n}]
    BY SMT
  <2> QED
    BY <1>1, <2>1
<1> QED
  BY <1>1, <1>2, <1>3

\* htonl() and its like keep the number of bytes, and undo themselves.
LEMMA HostNetType ==
  ASSUME NEW n \in Nat, NEW b, IsBytes(b, n), NEW big
  PROVE  IsBytes(HostNet(big, b), n) /\ HostNet(big, HostNet(big, b)) = b
<1>1. CASE big
  BY <1>1, Zenon DEF HostNet
<1>2. CASE ~big
  <2>1. Len(b) = n /\ b = [i \in 1..n |-> b[i]]
    BY Zenon DEF IsBytes
  <2> DEFINE c == [i \in 1..n |-> b[n - i + 1]]
  <2>2. HostNet(big, b) = c
    BY <1>2, <2>1, Zenon DEF HostNet, Reverse
  <2>3. c \in [1..n -> {b[n - i + 1] : i \in 1..n}]
    BY Zenon
  <2>4. IsBytes(c, n)
    BY <2>3, BytesType
  <2>5. \A i \in 1..n : c[n - i + 1] = b[i]
    BY SMT
  <2> HIDE DEF c
  <2>6. HostNet(big, c) = [i \in 1..n |-> c[n - i + 1]]
    BY <1>2, <2>4, Zenon DEF HostNet, Reverse, IsBytes
  <2>7. [i \in 1..n |-> c[n - i + 1]] = [i \in 1..n |-> b[i]]
    BY <2>5, Zenon
  <2> QED
    BY <2>1, <2>2, <2>4, <2>6, <2>7
<1> QED
  BY <1>1, <1>2

\* Adding up signed bytes gives as many bytes.
LEMMA SignedSumType ==
  ASSUME NEW n \in Nat, NEW b, IsBytes(b, n)
  PROVE  IsBytes(SignedSum(b), n)
<1> DEFINE borrows(i) == \E j \in i+1..Len(b) : b[j] > 127 /\ \A k \in i+1..j-1 : b[k] = 0
           e(i) == (b[i] - IF borrows(i) THEN 1 ELSE 0) % 256
<1>1. SignedSum(b) = [i \in 1..n |-> e(i)]
  BY Zenon DEF SignedSum, IsBytes
<1> HIDE DEF e
<1>2. [i \in 1..n |-> e(i)] \in [1..n -> {e(i) : i \in 1..n}]
  BY Zenon
<1> QED
  BY <1>1, <1>2, BytesType

\* Of four bytes, only the first of which may be above 127, the signed sum is right.
LEMMA SignedSumLow ==
  ASSUME NEW b, IsBytes(b, 4), \A i \in 1..4 : b[i] \in Byte, \A k \in 2..4 : b[k] < 128
  PROVE  SignedSum(b) = b
<1> DEFINE borrows(i) == \E j \in i+1..Len(b) : b[j] > 127 /\ \A k \in i+1..j-1 : b[k] = 0
           e(i) == (b[i] - IF borrows(i) THEN 1 ELSE 0) % 256
<1>1. Len(b) = 4 /\ b = [i \in 1..4 |-> b[i]]
  BY Zenon DEF IsBytes
<1>2. SignedSum(b) = [i \in 1..4 |-> e(i)]
  BY <1>1, Zenon DEF SignedSum
<1>3. \A i \in 1..4 : ~borrows(i)
  <2> SUFFICES ASSUME NEW i \in 1..4, NEW j \in i+1..4, b[j] > 127
               PROVE  FALSE
    BY <1>1, Zenon
  <2>1. j \in 2..4 /\ j \in 1..4
    BY SMT
  <2>2. b[j] \in Byte /\ b[j] < 128
    BY <2>1
  <2> QED
    BY <2>2, SMT DEF Byte
<1>4. \A i \in 1..4 : e(i) = (b[i] - 0) % 256
  BY <1>3, Zenon
<1> HIDE DEF e, borrows
<1>5. \A i \in 1..4 : e(i) = b[i]
  BY <1>4, SMT DEF Byte
<1>6. [i \in 1..4 |-> e(i)] = [i \in 1..4 |-> b[i]]
  BY <1>5, Zenon
<1> QED
  BY <1>1, <1>2, <1>6 DEF e

-----------------------------------------------------------------------------
(* Packet *)

\* The fields of a packet.
LEMMA PktFields ==
  ASSUME NEW s, NEW l, NEW o, NEW b
  PROVE  Pkt(s, l, o, b).size = s /\ Pkt(s, l, o, b).length = l /\ Pkt(s, l, o, b).offset = o
         /\ Pkt(s, l, o, b).payload = b
BY SMT DEF Pkt

\* The assignments to the fields that the handlers make.
WithSize(p, x) == [p EXCEPT !.size = x]
WithPayload(p, x) == [p EXCEPT !.payload = x]
WithOffset(p, x) == [p EXCEPT !.offset = x]
WithSizeOffset(p, x, y) == [p EXCEPT !.size = x, !.offset = y]
WithPayloadOffset(p, x, y) == [p EXCEPT !.payload = x, !.offset = y]
WithBuffer(p, x, y) == [p EXCEPT !.length = x, !.payload = y]
WithSizeBuffer(p, x, y, z) == [p EXCEPT !.size = x, !.length = y, !.payload = z]

\* A packet with some of its fields changed.
LEMMA PktSome ==
  ASSUME NEW p, p = Pkt(p.size, p.length, p.offset, p.payload)
  PROVE  /\ \A x : WithSize(p, x) = Pkt(x, p.length, p.offset, p.payload)
         /\ \A x : WithPayload(p, x) = Pkt(p.size, p.length, p.offset, x)
         /\ \A x : WithOffset(p, x) = Pkt(p.size, p.length, x, p.payload)
         /\ \A x, y : WithSizeOffset(p, x, y) = Pkt(x, p.length, y, p.payload)
         /\ \A x, y : WithPayloadOffset(p, x, y) = Pkt(p.size, p.length, y, x)
         /\ \A x, y : WithBuffer(p, x, y) = Pkt(p.size, x, p.offset, y)
         /\ \A x, y, z : WithSizeBuffer(p, x, y, z) = Pkt(x, y, p.offset, z)
<1> DEFINE s == p.size
           l == p.length
           o == p.offset
           b == p.payload
<1>0. p = Pkt(s, l, o, b)
  OBVIOUS
<1> HIDE DEF s, l, o, b
<1>1. ASSUME NEW x PROVE WithSize(p, x) = Pkt(x, l, o, b)
  BY <1>0, SMT DEF Pkt, WithSize
<1>2. ASSUME NEW x PROVE WithPayload(p, x) = Pkt(s, l, o, x)
  BY <1>0, SMT DEF Pkt, WithPayload
<1>3. ASSUME NEW x PROVE WithOffset(p, x) = Pkt(s, l, x, b)
  BY <1>0, SMT DEF Pkt, WithOffset
<1>4. ASSUME NEW x, NEW y PROVE WithSizeOffset(p, x, y) = Pkt(x, l, y, b)
  <2>1. [p EXCEPT !.size = x] = Pkt(x, l, o, b)
    BY <1>0, SMT DEF Pkt
  <2>2. [Pkt(x, l, o, b) EXCEPT !.offset = y] = Pkt(x, l, y, b)
    BY SMT DEF Pkt
  <2>3. WithSizeOffset(p, x, y) = [[p EXCEPT !.size = x] EXCEPT !.offset = y]
    BY Zenon DEF WithSizeOffset
  <2> QED
    BY <2>1, <2>2, <2>3, Zenon
<1>5. ASSUME NEW x, NEW y PROVE WithPayloadOffset(p, x, y) = Pkt(s, l, y, x)
  <2>1. [p EXCEPT !.payload = x] = Pkt(s, l, o, x)
    BY <1>0, SMT DEF Pkt
  <2>2. [Pkt(s, l, o, x) EXCEPT !.offset = y] = Pkt(s, l, y, x)
    BY SMT DEF Pkt
  <2>3. WithPayloadOffset(p, x, y) = [[p EXCEPT !.payload = x] EXCEPT !.offset = y]
    BY Zenon DEF WithPayloadOffset
  <2> QED
    BY <2>1, <2>2, <2>3, Zenon
<1>6. ASSUME NEW x, NEW y PROVE WithBuffer(p, x, y) = Pkt(s, x, o, y)
  <2>1. [p EXCEPT !.length = x] = Pkt(s, x, o, b)
    BY <1>0, SMT DEF Pkt
  <2>2. [Pkt(s, x, o, b) EXCEPT !.payload = y] = Pkt(s, x, o, y)
    BY SMT DEF Pkt
  <2>3. WithBuffer(p, x, y) = [[p EXCEPT !.length = x] EXCEPT !.payload = y]
    BY Zenon DEF WithBuffer
  <2> QED
    BY <2>1, <2>2, <2>3, Zenon
<1>7. ASSUME NEW x, NEW y, NEW z PROVE WithSizeBuffer(p, x, y, z) = Pkt(x, y, o, z)
  <2>1. [p EXCEPT !.size = x] = Pkt(x, l, o, b)
    BY <1>0, SMT DEF Pkt
  <2>2. [Pkt(x, l, o, b) EXCEPT !.length = y] = Pkt(x, y, o, b)
    BY SMT DEF Pkt
  <2>3. [Pkt(x, y, o, b) EXCEPT !.payload = z] = Pkt(x, y, o, z)
    BY SMT DEF Pkt
  <2>4. WithSizeBuffer(p, x, y, z) = [[[p EXCEPT !.size = x] EXCEPT !.length = y] EXCEPT !.payload = z]
    BY Zenon DEF WithSizeBuffer
  <2> QED
    BY <2>1, <2>2, <2>3, <2>4, Zenon
<1> QED
  BY <1>1, <1>2, <1>3, <1>4, <1>5, <1>6, <1>7 DEF s, l, o, b

\* A packet put together from its fields.
LEMMA PktType ==
  ASSUME NEW s \in Nat, NEW l \in Nat, NEW o, NEW b, DOMAIN b = Offsets, s <= l, l >= DEFAULT_PAYLOAD_SIZE
  PROVE  IsPacket(Pkt(s, l, o, b))
BY PktFields DEF IsPacket

\* A new packet is a packet.
LEMMA NewPacketType == IsPacket(NewPacket) /\ NewPacket.length = DEFAULT_PAYLOAD_SIZE
<1> DEFINE b == [i \in 0..HeaderSize - 1 |-> Junk]
<1>1. NewPacket = Pkt(0, DEFAULT_PAYLOAD_SIZE, 0, b)
  BY Zenon DEF NewPacket, Pkt
<1>2. DOMAIN b = Offsets
  BY Zenon DEF Offsets
<1>3. 0 \in Nat /\ DEFAULT_PAYLOAD_SIZE \in Nat /\ 0 <= DEFAULT_PAYLOAD_SIZE /\ DEFAULT_PAYLOAD_SIZE >= DEFAULT_PAYLOAD_SIZE
  BY SMT DEF DEFAULT_PAYLOAD_SIZE
<1> HIDE DEF b
<1> QED
  BY <1>1, <1>2, <1>3, PktType, PktFields

\* Packet::reset() leaves the buffer as it is.
LEMMA ResetType ==
  ASSUME NEW p, IsPacket(p)
  PROVE  IsPacket(Reset(p)) /\ Reset(p).length = p.length /\ Reset(p).size = 0 /\ Reset(p).offset = 0
<1> DEFINE l == p.length
           b == p.payload
<1>1. Reset(p) = Pkt(0, l, 0, b)
  <2>1. p = Pkt(p.size, l, p.offset, b) /\ Reset(p) = WithSizeOffset(p, 0, 0)
    BY Zenon DEF IsPacket, Reset, WithSizeOffset
  <2> QED
    BY <2>1, PktSome
<1>2. 0 \in Nat /\ 0 <= l
  BY SMT DEF IsPacket
<1>3. l \in Nat /\ DOMAIN b = Offsets /\ l >= DEFAULT_PAYLOAD_SIZE
  BY Zenon DEF IsPacket
<1> QED
  BY <1>1, <1>2, <1>3, PktType, PktFields

\* Packet::setPayloadSize() finds room for every size.
LEMMA SetPayloadSizeType ==
  ASSUME NEW p, IsPacket(p), NEW size \in Nat
  PROVE  /\ IsPacket(SetPayloadSize(p, size)) /\ SetPayloadSize(p, size).size = size
         /\ SetPayloadSize(p, size).offset = p.offset
         /\ size <= p.length => /\ SetPayloadSize(p, size).length = p.length
                                /\ SetPayloadSize(p, size).payload = p.payload
<1>0. p.length \in Nat /\ DOMAIN p.payload = Offsets /\ p.length >= DEFAULT_PAYLOAD_SIZE
  BY Zenon DEF IsPacket
<1>1. CASE size > p.length
  <2> DEFINE l == (3 * size) \div 2
             b == [i \in DOMAIN p.payload |-> Junk]
  <2>1. SetPayloadSize(p, size) = Pkt(size, l, p.offset, b)
    <3>1. SetPayloadSize(p, size) = WithSizeBuffer(p, size, l, b)
      BY <1>1, Zenon DEF SetPayloadSize, WithSizeBuffer
    <3>2. p = Pkt(p.size, p.length, p.offset, p.payload)
      BY Zenon DEF IsPacket
    <3> HIDE DEF l, b
    <3> QED
      BY <3>1, <3>2, PktSome
  <2>2. l \in Nat /\ size <= l /\ l >= DEFAULT_PAYLOAD_SIZE /\ ~(size <= p.length)
    BY <1>0, <1>1, SMT DEF DEFAULT_PAYLOAD_SIZE
  <2>3. DOMAIN b = Offsets
    BY <1>0, Zenon
  <2> HIDE DEF l, b
  <2> QED
    BY <2>1, <2>2, <2>3, PktType, PktFields
<1>2. CASE ~(size > p.length)
  <2>1. SetPayloadSize(p, size) = Pkt(size, p.length, p.offset, p.payload)
    <3>1. SetPayloadSize(p, size) = WithSize(p, size)
      BY <1>2, Zenon DEF SetPayloadSize, WithSize
    <3>2. p = Pkt(p.size, p.length, p.offset, p.payload)
      BY Zenon DEF IsPacket
    <3> QED
      BY <3>1, <3>2, PktSome
  <2>2. size <= p.length
    BY <1>0, <1>2, SMT
  <2> QED
    BY <1>0, <2>1, <2>2, PktType, PktFields
<1> QED
  BY <1>1, <1>2

\* A buffer that is large enough is kept.
LEMMA GetBufferKeeps ==
  ASSUME NEW p, NEW n \in Nat, p.length >= n
  PROVE  GetBuffer(p, n) = p
BY Zenon DEF GetBuffer

\* w is buf with the n bytes b from offset off on, as far as the part that is kept goes.
Written(w, buf, off, b, n) ==
  /\ DOMAIN w = Offsets
  /\ \A j \in Offsets : ~(off <= j /\ j < off + n) => w[j] = buf[j]
  /\ \A k \in 1..n : off + k - 1 \in Offsets => w[off + k - 1] = b[k]

\* Write() touches the bytes it is given and no others.
LEMMA WriteType ==
  ASSUME NEW buf, NEW off \in Nat, NEW n \in Nat, NEW b, IsBytes(b, n), DOMAIN buf = Offsets
  PROVE  Written(Write(buf, off, b), buf, off, b, n)
<1>1. Len(b) = n
  BY DEF IsBytes
<1>2. Write(buf, off, b) = [i \in Offsets |-> IF i \in off..off + n - 1 THEN b[i - off + 1] ELSE buf[i]]
  BY <1>1, Zenon DEF Write
<1>3. DOMAIN Write(buf, off, b) = Offsets
  BY <1>2, Zenon
<1>4. \A j \in Offsets : Write(buf, off, b)[j] = IF j \in off..off + n - 1 THEN b[j - off + 1] ELSE buf[j]
  BY <1>2, Zenon
<1>5. \A j \in Offsets : ~(off <= j /\ j < off + n) => Write(buf, off, b)[j] = buf[j]
  <2> SUFFICES ASSUME NEW j \in Offsets, ~(off <= j /\ j < off + n)
               PROVE  Write(buf, off, b)[j] = buf[j]
    OBVIOUS
  <2>1. j \notin off..off + n - 1
    BY SMT DEF Offsets
  <2> QED
    BY <1>4, <2>1, Zenon
<1>6. \A k \in 1..n : off + k - 1 \in Offsets => Write(buf, off, b)[off + k - 1] = b[k]
  <2> SUFFICES ASSUME NEW k \in 1..n, off + k - 1 \in Offsets
               PROVE  Write(buf, off, b)[off + k - 1] = b[k]
    OBVIOUS
  <2>1. off + k - 1 \in off..off + n - 1 /\ (off + k - 1) - off + 1 = k
    BY SMT
  <2> QED
    BY <1>4, <2>1, Zenon
<1> QED
  BY <1>3, <1>5, <1>6 DEF Written

\* q is packet p with the n bytes b stamped behind what was stamped before.
ValStamped(q, p, b, n) ==
  /\ IsPacket(q) /\ q.size = p.size /\ q.length = p.length /\ q.offset = p.offset + n
  /\ \A j \in Offsets : j < p.offset => q.payload[j] = p.payload[j]
  /\ \A k \in 1..n : q.payload[p.offset + k - 1] = b[k]

\* A stamp writes its bytes into the buffer of the packet, and moves the offset behind them.
LEMMA StampValType ==
  ASSUME NEW p, IsPacket(p), NEW big, NEW n \in Nat, NEW b, IsBytes(b, n),
         p.offset \in Nat, n + p.offset <= HeaderSize
  PROVE  ValStamped(StampVal(p, big, b), p, HostNet(big, b), n)
<1> DEFINE h == HostNet(big, b)
           o == p.offset
           w == Write(p.payload, o, h)
           q == Pkt(p.size, p.length, o + n, w)
<1>0. /\ p = Pkt(p.size, p.length, o, p.payload) /\ DOMAIN p.payload = Offsets /\ p.size \in Nat
      /\ p.length \in Nat /\ p.size <= p.length /\ p.length >= DEFAULT_PAYLOAD_SIZE
  BY Zenon DEF IsPacket
<1>1. Len(b) = n
  BY DEF IsBytes
<1>2. GetBuffer(p, n + o) = p
  <2>1. n + o \in Nat /\ p.length >= n + o
    BY <1>0, SMT DEF HeaderSize, DEFAULT_PAYLOAD_SIZE
  <2> QED
    BY <2>1, GetBufferKeeps, Zenon
<1>3. StampVal(p, big, b) = q
  <2>1. StampVal(p, big, b) = WithPayloadOffset(p, w, o + n)
    BY <1>1, <1>2, Zenon DEF StampVal, WithPayloadOffset
  <2> HIDE DEF w
  <2> QED
    BY <1>0, <2>1, PktSome
<1>4. IsBytes(h, n)
  BY HostNetType
<1> HIDE DEF h, o
<1>5. /\ DOMAIN w = Offsets
      /\ \A j \in Offsets : ~(o <= j /\ j < o + n) => w[j] = p.payload[j]
      /\ \A k \in 1..n : o + k - 1 \in Offsets => w[o + k - 1] = h[k]
  <2>1. o \in Nat
    BY DEF o
  <2>2. Written(w, p.payload, o, h, n)
    BY <1>0, <1>4, <2>1, WriteType
  <2> QED
    BY <2>2, Zenon DEF Written
<1> HIDE DEF w
<1>6. IsPacket(q) /\ q.size = p.size /\ q.length = p.length /\ q.offset = o + n /\ q.payload = w
  BY <1>0, <1>5, PktType, PktFields
<1> HIDE DEF q
<1>7. \A j \in Offsets : j < o => q.payload[j] = p.payload[j]
  <2> SUFFICES ASSUME NEW j \in Offsets, j < o
               PROVE  q.payload[j] = p.payload[j]
    OBVIOUS
  <2>1. ~(o <= j /\ j < o + n)
    BY SMT DEF o, Offsets
  <2> QED
    BY <1>5, <1>6, <2>1, Zenon
<1>8. \A k \in 1..n : q.payload[o + k - 1] = h[k]
  <2> SUFFICES ASSUME NEW k \in 1..n
               PROVE  q.payload[o + k - 1] = h[k]
    OBVIOUS
  <2>1. o \in Nat /\ n + o <= HeaderSize
    BY DEF o
  <2>2. o + k - 1 \in Offsets
    BY <2>1, SMT DEF Offsets, HeaderSize
  <2> QED
    BY <1>5, <1>6, <2>2, Zenon
<1> QED
  BY <1>3, <1>6, <1>7, <1>8, Zenon DEF h, o, ValStamped

\* sendPacket() stamps the whole header into every packet's buffer, whatever the size the packet has.
LEMMA StampType ==
  ASSUME NEW p, IsPacket(p), NEW seq, IsBytes(seq, 4), NEW id, IsBytes(id, 8)
  PROVE  LET q == Stamp(p, seq, id) IN
         /\ IsPacket(q) /\ q.size = p.size /\ q.length = p.length
         /\ \A s : s.seq = seq /\ s.flow = id => Carries(q.payload, q.size, s)
<1> DEFINE a == StampPacket(p, 2)
           b == StampInt16Val(a, SenderBig, ShortFlow(id))
           c == StampVal(b, SenderBig, seq)
           d == StampVal(c, SenderBig, id)
<1>0. /\ p = Pkt(p.size, p.length, p.offset, p.payload) /\ DOMAIN p.payload = Offsets /\ p.size \in Nat
      /\ p.length \in Nat /\ p.size <= p.length /\ p.length >= DEFAULT_PAYLOAD_SIZE
  BY Zenon DEF IsPacket
<1>1. /\ IsPacket(a) /\ a.size = p.size /\ a.length = p.length /\ a.offset = 3
      /\ a.payload[0] = SYNC_BYTE /\ a.payload[1] = SYNC_BYTE /\ a.payload[2] = 2
  <2> DEFINE t == <<SYNC_BYTE, SYNC_BYTE, 2>>
             w == Write(p.payload, 0, t)
             q == Pkt(p.size, p.length, 3, w)
  <2>1. IsBytes(t, 3) /\ t[1] = SYNC_BYTE /\ t[2] = SYNC_BYTE /\ t[3] = 2
    BY BytesType
  <2>2. a = q
    <3>1. GetBuffer(p, 32) = p
      <4>1. 32 \in Nat /\ p.length >= 32
        BY <1>0, SMT DEF DEFAULT_PAYLOAD_SIZE
      <4> QED
        BY <4>1, GetBufferKeeps, Zenon
    <3> QED
      <4>1. a = WithPayloadOffset(p, w, 3)
        BY <3>1, Zenon DEF StampPacket, WithPayloadOffset
      <4> HIDE DEF w, a
      <4> QED
        BY <1>0, <4>1, PktSome
  <2> HIDE DEF t
  <2>3. /\ DOMAIN w = Offsets
        /\ \A k \in 1..3 : 0 + k - 1 \in Offsets => w[0 + k - 1] = t[k]
    <3>1. 0 \in Nat /\ 3 \in Nat
      BY SMT
    <3>2. Written(w, p.payload, 0, t, 3)
      BY <1>0, <2>1, <3>1, WriteType
    <3> HIDE DEF w
    <3> QED
      BY <3>2, Zenon DEF Written
  <2> HIDE DEF w
  <2>4. w[0] = t[1] /\ w[1] = t[2] /\ w[2] = t[3]
    BY <2>3, SMT DEF Offsets, HeaderSize
  <2>5. IsPacket(q) /\ q.size = p.size /\ q.length = p.length /\ q.offset = 3 /\ q.payload = w
    BY <1>0, <2>3, PktType, PktFields
  <2> QED
    BY <2>1, <2>2, <2>4, <2>5, Zenon
<1> HIDE DEF a
<1>2. /\ IsPacket(b) /\ b.size = p.size /\ b.length = p.length /\ b.offset = 5
      /\ b.payload[0] = SYNC_BYTE /\ b.payload[1] = SYNC_BYTE /\ b.payload[2] = 2
  <2> DEFINE f == ShortFlow(id)
             h == HostNet(SenderBig, f)
             w == Write(a.payload, 5, h)
             q == Pkt(a.size, a.length, 5, w)
  <2>0. /\ a = Pkt(a.size, a.length, a.offset, a.payload) /\ DOMAIN a.payload = Offsets /\ a.size \in Nat
        /\ a.length \in Nat /\ a.size <= a.length /\ a.length >= DEFAULT_PAYLOAD_SIZE
    BY <1>1, Zenon DEF IsPacket
  <2>1. b = q
    <3>1. 2 + a.offset + 2 = 7 /\ a.offset + 2 = 5 /\ 7 \in Nat /\ a.length >= 7
      BY <1>1, <2>0, SMT DEF DEFAULT_PAYLOAD_SIZE
    <3>2. GetBuffer(a, 2 + a.offset + 2) = a
      BY <3>1, GetBufferKeeps, Zenon
    <3>3. b = [a EXCEPT !.payload = w, !.offset = 5]
      BY <3>1, <3>2, Zenon DEF StampInt16Val
    <3> QED
      <4>1. b = WithPayloadOffset(a, w, 5)
        BY <3>3, Zenon DEF WithPayloadOffset
      <4> HIDE DEF w, b
      <4> QED
        BY <2>0, <4>1, PktSome
  <2>2. IsBytes(f, 2)
    BY BytesType DEF ShortFlow
  <2> HIDE DEF f
  <2>3. 2 \in Nat
    BY SMT
  <2>4. IsBytes(h, 2)
    BY <2>2, <2>3, HostNetType
  <2> HIDE DEF h
  <2>5. DOMAIN w = Offsets /\ \A j \in Offsets : ~(5 <= j /\ j < 5 + 2) => w[j] = a.payload[j]
    <3>1. 5 \in Nat /\ 2 \in Nat
      BY SMT
    <3>2. Written(w, a.payload, 5, h, 2)
      BY <2>0, <2>4, <3>1, WriteType
    <3> HIDE DEF w
    <3> QED
      BY <3>2, Zenon DEF Written
  <2> HIDE DEF w
  <2>6. w[0] = a.payload[0] /\ w[1] = a.payload[1] /\ w[2] = a.payload[2]
    BY <2>5, SMT DEF Offsets, HeaderSize
  <2>7. IsPacket(q) /\ q.size = a.size /\ q.length = a.length /\ q.offset = 5 /\ q.payload = w
    BY <2>0, <2>5, PktType, PktFields
  <2> QED
    BY <1>1, <2>1, <2>6, <2>7, Zenon
<1> HIDE DEF b
<1>3. /\ IsPacket(c) /\ c.size = b.size /\ c.length = b.length /\ c.offset = 9
      /\ \A j \in Offsets : j < 5 => c.payload[j] = b.payload[j]
      /\ \A k \in 1..4 : c.payload[5 + k - 1] = HostNet(SenderBig, seq)[k]
  <2>1. 4 \in Nat /\ 4 + b.offset <= HeaderSize /\ b.offset \in Nat /\ b.offset + 4 = 9
    BY <1>2, SMT DEF HeaderSize
  <2>2. ValStamped(c, b, HostNet(SenderBig, seq), 4)
    BY <1>2, <2>1, StampValType
  <2> HIDE DEF c
  <2> QED
    BY <1>2, <2>1, <2>2, Zenon DEF ValStamped
<1> HIDE DEF c
<1>4. /\ IsPacket(d) /\ d.size = c.size /\ d.length = c.length
      /\ \A j \in Offsets : j < 9 => d.payload[j] = c.payload[j]
      /\ \A k \in 1..8 : d.payload[9 + k - 1] = HostNet(SenderBig, id)[k]
  <2>1. 8 \in Nat /\ 8 + c.offset <= HeaderSize /\ c.offset \in Nat
    BY <1>3, SMT DEF HeaderSize
  <2>2. ValStamped(d, c, HostNet(SenderBig, id), 8)
    BY <1>3, <2>1, StampValType
  <2> HIDE DEF d
  <2> QED
    BY <1>3, <2>1, <2>2, Zenon DEF ValStamped
<1>5. Stamp(p, seq, id) = d
  BY DEF Stamp, a, b, c
<1> HIDE DEF d
<1>6. d.payload[0] = SYNC_BYTE /\ d.payload[1] = SYNC_BYTE /\ d.payload[2] = 2
  <2>1. 0 \in Offsets /\ 1 \in Offsets /\ 2 \in Offsets
    BY SMT DEF Offsets, HeaderSize
  <2>2. d.payload[0] = b.payload[0] /\ d.payload[1] = b.payload[1] /\ d.payload[2] = b.payload[2]
    BY <1>3, <1>4, <2>1, SMT
  <2> QED
    BY <1>2, <2>2
<1>7. \A k \in 1..4 : d.payload[4 + k] = HostNet(SenderBig, seq)[k]
  <2> SUFFICES ASSUME NEW k \in 1..4
               PROVE  d.payload[4 + k] = HostNet(SenderBig, seq)[k]
    OBVIOUS
  <2>1. 4 + k \in Offsets /\ 4 + k < 9 /\ 4 + k = 5 + k - 1
    BY SMT DEF Offsets, HeaderSize
  <2> QED
    BY <1>3, <1>4, <2>1, Zenon
<1>8. \A k \in 1..8 : d.payload[8 + k] = HostNet(SenderBig, id)[k]
  <2> SUFFICES ASSUME NEW k \in 1..8
               PROVE  d.payload[8 + k] = HostNet(SenderBig, id)[k]
    OBVIOUS
  <2>1. 8 + k = 9 + k - 1
    BY SMT
  <2> QED
    BY <1>4, <2>1, Zenon
<1> QED
  BY <1>2, <1>3, <1>4, <1>5, <1>6, <1>7, <1>8, Zenon DEF Carries

-----------------------------------------------------------------------------
(* The ports *)

\* sendto() is given the front of the buffer, with the header as far as the packet is long.
LEMMA DatagramType ==
  ASSUME NEW q, IsPacket(q), NEW s, s.size = q.size, Carries(q.payload, q.size, s)
  PROVE  DatagramOf(Datagram(q), s)
<1> DEFINE z == q.size
           b == q.payload
           D == {j \in DOMAIN b : j < z}
           c == [i \in D |-> b[i]]
<1>1. Datagram(q) = [len |-> z, payload |-> c]
  BY Zenon DEF Datagram
<1>2. z \in Nat /\ DOMAIN b = Offsets
  BY DEF IsPacket
<1>3. D = {j \in Offsets : j < z} /\ DOMAIN c = D /\ \A i \in D : c[i] = b[i]
  BY <1>2, Zenon
<1>4. Carries(b, z, s)
  OBVIOUS
<1>5. s.size = z
  OBVIOUS
<1> HIDE DEF z, b, D, c
<1>6. Carries(c, z, s)
  <2>1. z >= 3 => 0 \in D /\ 1 \in D /\ 2 \in D
    BY <1>2, <1>3, SMT DEF Offsets, HeaderSize
  <2>2. z >= 9 => \A k \in 1..4 : 4 + k \in D
    BY <1>2, <1>3, SMT DEF Offsets, HeaderSize
  <2>3. z >= HeaderSize => \A k \in 1..8 : 8 + k \in D
    BY <1>2, <1>3, SMT DEF Offsets, HeaderSize
  <2> QED
    BY <1>3, <1>4, <2>1, <2>2, <2>3, Zenon DEF Carries
<1>7. Datagram(q).len = z /\ Datagram(q).payload = c
  BY <1>1, SMT
<1> QED
  BY <1>3, <1>5, <1>6, <1>7, Zenon DEF DatagramOf

\* nextPacket() begins with a buffer of DEF_PKT_LENGTH.
LEMMA ReceiveBuffer ==
  ASSUME NEW p, IsPacket(p), p.length <= DEF_PKT_LENGTH
  PROVE  LET q == GetBuffer(Reset(p), DEF_PKT_LENGTH) IN IsPacket(q) /\ q.length = DEF_PKT_LENGTH
<1> DEFINE r == Reset(p)
           b == [i \in DOMAIN r.payload |-> Junk]
<1>1. IsPacket(r) /\ r.length = p.length /\ r.size = 0
  BY ResetType
<1> HIDE DEF r
<1>2. /\ r = Pkt(r.size, r.length, r.offset, r.payload) /\ DOMAIN r.payload = Offsets
      /\ r.length \in Nat /\ r.length >= DEFAULT_PAYLOAD_SIZE
  BY <1>1, Zenon DEF IsPacket
<1>3. CASE r.length >= DEF_PKT_LENGTH
  <2>1. GetBuffer(r, DEF_PKT_LENGTH) = r
    BY <1>3, Zenon DEF GetBuffer
  <2>2. r.length = DEF_PKT_LENGTH
    BY <1>1, <1>2, <1>3, SMT DEF DEF_PKT_LENGTH
  <2> QED
    BY <1>1, <2>1, <2>2 DEF r
<1>4. CASE ~(r.length >= DEF_PKT_LENGTH)
  <2>1. GetBuffer(r, DEF_PKT_LENGTH) = WithBuffer(r, DEF_PKT_LENGTH, b)
    BY <1>4, Zenon DEF GetBuffer, WithBuffer
  <2>2. DOMAIN b = Offsets
    BY <1>2, Zenon
  <2> HIDE DEF b
  <2>3. WithBuffer(r, DEF_PKT_LENGTH, b) = Pkt(0, DEF_PKT_LENGTH, r.offset, b)
    BY <1>1, <1>2, PktSome
  <2>4. 0 \in Nat /\ DEF_PKT_LENGTH \in Nat /\ 0 <= DEF_PKT_LENGTH /\ DEF_PKT_LENGTH >= DEFAULT_PAYLOAD_SIZE
    BY SMT DEF DEF_PKT_LENGTH, DEFAULT_PAYLOAD_SIZE
  <2>5. IsPacket(Pkt(0, DEF_PKT_LENGTH, r.offset, b))
    BY <2>2, <2>4, PktType
  <2>6. Pkt(0, DEF_PKT_LENGTH, r.offset, b).length = DEF_PKT_LENGTH
    BY PktFields
  <2> QED
    BY <2>1, <2>3, <2>5, <2>6 DEF r
<1> QED
  BY <1>3, <1>4

\* The length recvfrom() cuts a datagram to.
CutTo(len) == IF len < DEF_PKT_LENGTH THEN len ELSE DEF_PKT_LENGTH

\* recvfrom() puts the datagram at the front of the buffer, and cuts it.
LEMMA ReceivedType ==
  ASSUME NEW p, IsPacket(p), p.length = DEF_PKT_LENGTH, NEW d, d.len \in Nat
  PROVE  /\ IsPacket(Received(p, d)) /\ Received(p, d).length = DEF_PKT_LENGTH
         /\ Received(p, d).size = CutTo(d.len)
         /\ \A i \in Offsets : i \in DOMAIN d.payload => Received(p, d).payload[i] = d.payload[i]
<1> DEFINE len == CutTo(d.len)
           copy == [i \in DOMAIN p.payload |-> IF i \in DOMAIN d.payload THEN d.payload[i] ELSE p.payload[i]]
           q == WithPayload(p, copy)
<1>1. Received(p, d) = SetPayloadSize(q, len)
  BY Zenon DEF Received, WithPayload, CutTo
<1>2. /\ p = Pkt(p.size, p.length, p.offset, p.payload) /\ DOMAIN p.payload = Offsets
      /\ p.length \in Nat /\ p.length >= DEFAULT_PAYLOAD_SIZE /\ p.size \in Nat /\ p.size <= p.length
  BY Zenon DEF IsPacket
<1>3. DOMAIN copy = Offsets /\ \A i \in Offsets : i \in DOMAIN d.payload => copy[i] = d.payload[i]
  BY <1>2, Zenon
<1>4. len \in Nat /\ len <= DEF_PKT_LENGTH
  BY SMT DEF CutTo, DEF_PKT_LENGTH
<1> HIDE DEF len, copy
<1>5. q = Pkt(p.size, p.length, p.offset, copy)
  BY <1>2, PktSome
<1>6. IsPacket(q)
  BY <1>2, <1>3, <1>5, PktType
<1>7. q.length = DEF_PKT_LENGTH /\ q.payload = copy
  BY <1>5, PktFields
<1> HIDE DEF q
<1>8. /\ IsPacket(SetPayloadSize(q, len)) /\ SetPayloadSize(q, len).size = len
      /\ SetPayloadSize(q, len).length = q.length /\ SetPayloadSize(q, len).payload = q.payload
  BY <1>4, <1>6, <1>7, SetPayloadSizeType
<1> QED
  BY <1>1, <1>3, <1>7, <1>8, Zenon DEF len

\* A packet in which only the offset has moved.
Moved(q, p) == IsPacket(q) /\ q.size = p.size /\ q.length = p.length /\ q.payload = p.payload

\* The offset is no part of what makes a packet.
LEMMA OffsetMoves ==
  ASSUME NEW p, IsPacket(p), NEW x
  PROVE  Moved(WithOffset(p, x), p) /\ WithOffset(p, x).offset = x
<1>1. /\ p = Pkt(p.size, p.length, p.offset, p.payload) /\ DOMAIN p.payload = Offsets
      /\ p.length \in Nat /\ p.length >= DEFAULT_PAYLOAD_SIZE /\ p.size \in Nat /\ p.size <= p.length
  BY Zenon DEF IsPacket
<1>2. WithOffset(p, x) = Pkt(p.size, p.length, x, p.payload)
  BY <1>1, PktSome
<1> QED
  BY <1>1, <1>2, PktType, PktFields DEF Moved

\* The extractors, by what they skip and give.
LEMMA ExtractSignedIs ==
  ASSUME NEW p, NEW big, NEW n
  PROVE  /\ Fits(p, n) => /\ ExtractSigned(p, big, n).val = HostNet(big, SignedSum(Bytes(p, n)))
                          /\ ExtractSigned(p, big, n).pkt = WithOffset(p, p.offset + n)
         /\ ~Fits(p, n) => ExtractSigned(p, big, n).val = Zero(n) /\ ExtractSigned(p, big, n).pkt = p
<1> DEFINE v == HostNet(big, SignedSum(Bytes(p, n)))
           q == [p EXCEPT !.offset = @ + n]
<1>1. Fits(p, n) => ExtractSigned(p, big, n) = [val |-> v, pkt |-> q]
  BY Zenon DEF ExtractSigned
<1>2. ~Fits(p, n) => ExtractSigned(p, big, n) = [val |-> Zero(n), pkt |-> p]
  BY Zenon DEF ExtractSigned
<1>3. q = WithOffset(p, p.offset + n)
  BY Zenon DEF WithOffset
<1> HIDE DEF v, q
<1>4. [val |-> v, pkt |-> q].val = v /\ [val |-> v, pkt |-> q].pkt = q
      /\ [val |-> Zero(n), pkt |-> p].val = Zero(n) /\ [val |-> Zero(n), pkt |-> p].pkt = p
  BY SMT
<1> QED
  BY <1>1, <1>2, <1>3, <1>4, Zenon DEF v

\* The same for extractInt64Val().
LEMMA ExtractInt64Is ==
  ASSUME NEW p, NEW big
  PROVE  /\ Fits(p, 8) => /\ ExtractInt64(p, big).val = HostNet(big, Bytes(p, 8))
                          /\ ExtractInt64(p, big).pkt = WithOffset(p, p.offset + 8)
         /\ ~Fits(p, 8) => ExtractInt64(p, big).val = Zero(8) /\ ExtractInt64(p, big).pkt = p
<1> DEFINE v == HostNet(big, Bytes(p, 8))
           q == [p EXCEPT !.offset = @ + 8]
<1>1. Fits(p, 8) => ExtractInt64(p, big) = [val |-> v, pkt |-> q]
  BY Zenon DEF ExtractInt64
<1>2. ~Fits(p, 8) => ExtractInt64(p, big) = [val |-> Zero(8), pkt |-> p]
  BY Zenon DEF ExtractInt64
<1>3. q = WithOffset(p, p.offset + 8)
  BY Zenon DEF WithOffset
<1> HIDE DEF v, q
<1>4. [val |-> v, pkt |-> q].val = v /\ [val |-> v, pkt |-> q].pkt = q
      /\ [val |-> Zero(8), pkt |-> p].val = Zero(8) /\ [val |-> Zero(8), pkt |-> p].pkt = p
  BY SMT
<1> QED
  BY <1>1, <1>2, <1>3, <1>4, Zenon DEF v

\* An extractor moves nothing but the offset.
LEMMA ExtractMoves ==
  ASSUME NEW p, IsPacket(p), NEW n
  PROVE  Moved(ExtractSigned(p, ReceiverBig, n).pkt, p) /\ Moved(ExtractInt64(p, ReceiverBig).pkt, p)
<1>1. Moved(p, p)
  BY Zenon DEF Moved
<1>2. Moved(ExtractSigned(p, ReceiverBig, n).pkt, p)
  BY <1>1, ExtractSignedIs, OffsetMoves
<1>3. Moved(ExtractInt64(p, ReceiverBig).pkt, p)
  BY <1>1, ExtractInt64Is, OffsetMoves
<1> QED
  BY <1>2, <1>3

\* checkStamp() moves nothing but the offset.
LEMMA CheckStampIs ==
  ASSUME NEW p, IsPacket(p)
  PROVE  /\ Moved(CheckStamp(p).pkt, p)
         /\ Stamped(p) => CheckStamp(p).version = p.payload[2] /\ CheckStamp(p).pkt.offset = 3
         /\ ~Stamped(p) => CheckStamp(p).version = -1 /\ CheckStamp(p).pkt.offset = 0
<1> DEFINE v == IF Stamped(p) THEN p.payload[2] ELSE -1
           o == IF Stamped(p) THEN 3 ELSE 0
           q == WithOffset(p, o)
<1>1. CheckStamp(p) = [version |-> v, pkt |-> q]
  BY Zenon DEF CheckStamp, WithOffset
<1>2. Moved(q, p) /\ q.offset = o
  BY OffsetMoves
<1> HIDE DEF v, q
<1>3. [version |-> v, pkt |-> q].version = v /\ [version |-> v, pkt |-> q].pkt = q
  BY SMT
<1> QED
  BY <1>1, <1>2, <1>3, Zenon DEF v

\* What Extract() leaves of the packet.
LEMMA ExtractKeeps ==
  ASSUME NEW p, IsPacket(p), NEW version
  PROVE  Moved(Extract(p, version).pkt, p)
<1> DEFINE f == ExtractSigned(p, ReceiverBig, 2)
           t == ExtractSigned(f.pkt, ReceiverBig, 4)
           g == ExtractInt64(t.pkt, ReceiverBig)
           r1 == [flow |-> f.val, seq |-> t.val, pkt |-> t.pkt]
           r2 == [flow |-> g.val, seq |-> t.val, pkt |-> g.pkt]
<1>1. Extract(p, version) = r1 \/ Extract(p, version) = r2
  BY Zenon DEF Extract
<1>2. Moved(f.pkt, p)
  BY ExtractMoves
<1> HIDE DEF f
<1>3. Moved(t.pkt, f.pkt)
  BY <1>2, ExtractMoves DEF Moved
<1> HIDE DEF t
<1>4. Moved(g.pkt, t.pkt)
  BY <1>3, ExtractMoves DEF Moved
<1> HIDE DEF g
<1>5. r1.pkt = t.pkt /\ r2.pkt = g.pkt
  BY SMT
<1> HIDE DEF r1, r2
<1> QED
  BY <1>1, <1>2, <1>3, <1>4, <1>5, Zenon DEF Moved

-----------------------------------------------------------------------------
(* Buffers *)

\* The inductive invariant without the header's bytes.
LEMMA BuffersInvariance == Spec => [](PacketsInv /\ SentInv /\ NetInv)
<1>1. Init => Inv
  <2> SUFFICES ASSUME Init
               PROVE  Inv
    OBVIOUS
  <2>1. PacketsInv
    <3>1. DEFAULT_PAYLOAD_SIZE <= DEF_PKT_LENGTH
      BY SMT DEF DEFAULT_PAYLOAD_SIZE, DEF_PKT_LENGTH
    <3> QED
      BY <3>1, NewPacketType DEF Init, PacketsInv
  <2>2. SentInv
    <3>1. next \in Nat \ {0}
      BY SMT DEF Init
    <3> QED
      BY <3>1, Zenon DEF Init, SentInv
  <2>3. NetInv
    BY Zenon DEF Init, NetInv
  <2> QED
    BY <2>1, <2>2, <2>3 DEF Inv
<1>2. Inv /\ [Next]_vars => Inv'
  <2> SUFFICES ASSUME Inv, [Next]_vars
               PROVE  Inv'
    OBVIOUS
  <2> USE DEF Inv
  <2>1. CASE SendPacket
    <3>1. PICK size \in PayloadSizes :
            /\ out' = Stamp(SetPayloadSize(Reset(out), size), SeqNums[next], flowid)
            /\ sent' = sent \cup {[size |-> size, seq |-> SeqNums[next], flow |-> flowid]}
      BY <2>1, Zenon DEF SendPacket
    <3> DEFINE q == SetPayloadSize(Reset(out), size)
               id == flowid
               seq == SeqNums[next]
               r == [size |-> size, seq |-> seq, flow |-> id]
    <3>2. size \in Nat
      BY PayloadSizesAssumption DEF PayloadSizesAssumption
    <3>3. IsPacket(q) /\ q.size = size
      BY <3>2, ResetType, SetPayloadSizeType DEF PacketsInv
    <3>4. next \in DOMAIN SeqNums /\ seq \in [1..4 -> Byte] /\ id \in [1..8 -> Byte] /\ id \in FlowIds
      <4>1. next \in Nat /\ next # 0 /\ next <= Len(SeqNums) /\ id \in FlowIds
        BY <2>1 DEF SendPacket, SentInv
      <4> DEFINE B == [1..4 -> Byte]
      <4>2. SeqNums \in Seq(B) /\ FlowIds \subseteq [1..8 -> Byte]
        BY HeaderAssumption DEF HeaderAssumption
      <4> HIDE DEF B
      <4>3. next \in DOMAIN SeqNums /\ SeqNums[next] \in B
        BY <4>1, <4>2, SMT
      <4> QED
        BY <4>1, <4>2, <4>3 DEF B
    <3>5. IsBytes(seq, 4) /\ IsBytes(id, 8)
      <4>1. 4 \in Nat /\ 8 \in Nat
        BY SMT
      <4> QED
        BY <3>4, <4>1, BytesType
    <3>6. out' = Stamp(q, seq, id)
      BY <3>1
    <3>7. r.size = size /\ r.seq = seq /\ r.flow = id
      BY SMT
    <3> HIDE DEF q, seq, r
    <3>8. IsPacket(out') /\ out'.size = size /\ Carries(out'.payload, out'.size, r)
      BY <3>3, <3>5, <3>6, <3>7, StampType
    <3>9. PacketsInv'
      BY <2>1, <3>8 DEF PacketsInv, SendPacket
    <3>10. sent' = sent \cup {r} /\ net' = net \cup {Datagram(out')}
      BY <2>1, <3>1 DEF SendPacket, r, seq
    <3>11. SentInv'
      <4>1. next' \in Nat \ {0} /\ flowid' = flowid
        BY <2>1, SMT DEF SendPacket, SentInv
      <4>2. r.size \in Nat /\ r.flow \in FlowIds /\ \E n \in DOMAIN SeqNums : r.seq = SeqNums[n]
        BY <3>2, <3>4, <3>7, Zenon DEF seq
      <4> QED
        BY <3>10, <4>1, <4>2, Zenon DEF SentInv
    <3>12. DatagramOf(Datagram(out'), r)
      BY <3>7, <3>8, DatagramType
    <3>13. NetInv'
      BY <3>10, <3>12, Zenon DEF NetInv
    <3> QED
      BY <3>9, <3>11, <3>13
  <2>2. CASE NextPacket
    <3>1. PICK d \in net : in' = LET got == Received(GetBuffer(Reset(in), DEF_PKT_LENGTH), d)
                                     stamp == CheckStamp(got)
                                 IN  Extract(stamp.pkt, stamp.version).pkt
      BY <2>2, Zenon DEF NextPacket
    <3> DEFINE b == GetBuffer(Reset(in), DEF_PKT_LENGTH)
               g == Received(b, d)
               c == CheckStamp(g)
    <3>2. d.len \in Nat
      BY LegacyAssumption, Zenon DEF LegacyAssumption, NetInv, DatagramOf, SentInv
    <3>3. IsPacket(b) /\ b.length = DEF_PKT_LENGTH
      BY ReceiveBuffer DEF PacketsInv
    <3> HIDE DEF b
    <3>4. IsPacket(g) /\ g.length = DEF_PKT_LENGTH
      BY <3>2, <3>3, ReceivedType
    <3> HIDE DEF g
    <3>5. IsPacket(c.pkt) /\ c.pkt.length = DEF_PKT_LENGTH
      BY <3>4, CheckStampIs DEF Moved
    <3>6. in' = Extract(c.pkt, c.version).pkt
      BY <3>1 DEF c, g, b
    <3> HIDE DEF c
    <3>7. IsPacket(in') /\ in'.length = DEF_PKT_LENGTH
      BY <3>5, <3>6, ExtractKeeps DEF Moved
    <3>8. in'.length <= DEF_PKT_LENGTH
      BY <3>7, SMT DEF DEF_PKT_LENGTH
    <3> QED
      BY <2>2, <3>7, <3>8, Zenon DEF NextPacket, PacketsInv, SentInv, NetInv
  <2>3. CASE RecvError
    <3>1. DEFAULT_PAYLOAD_SIZE <= DEF_PKT_LENGTH
      BY SMT DEF DEFAULT_PAYLOAD_SIZE, DEF_PKT_LENGTH
    <3> QED
      BY <2>3, <3>1, NewPacketType, Zenon DEF RecvError, PacketsInv, SentInv, NetInv
  <2>4. CASE UNCHANGED vars
    BY <2>4, Zenon DEF vars, PacketsInv, SentInv, NetInv
  <2> QED
    BY <2>1, <2>2, <2>3, <2>4 DEF Next
<1> QED
  BY <1>1, <1>2, PTL DEF Spec, Inv

\* No packet outgrows its buffer, for every set of packet sizes: sendto() reads and recvfrom() writes
\* inside it.
THEOREM BuffersLargeEnough == Spec => []BuffersFit
<1>1. PacketsInv => BuffersFit
  BY Zenon DEF PacketsInv, IsPacket, BuffersFit
<1> QED
  BY <1>1, BuffersInvariance, PTL

-----------------------------------------------------------------------------
(* What the receiver reports *)

\* A datagram of an older OTG has its flow id extracted as two bytes.
LEMMA LegacyExtracted ==
  ASSUME NEW p
  PROVE  Len(Extract(p, 1).flow) = 2
<1> DEFINE f == ExtractSigned(p, ReceiverBig, 2)
           t == ExtractSigned(f.pkt, ReceiverBig, 4)
<1>0. 2 \in Nat
  BY SMT
<1>1. Extract(p, 1) = [flow |-> f.val, seq |-> t.val, pkt |-> t.pkt]
  BY Zenon DEF Extract
<1>2. IsBytes(f.val, 2)
  <2>1. IsBytes(Zero(2), 2)
    <3>1. Zero(2) \in [1..2 -> {0}]
      BY Zenon DEF Zero
    <3> QED
      BY <1>0, <3>1, BytesType
  <2>2. IsBytes(Bytes(p, 2), 2)
    <3>1. Bytes(p, 2) \in [1..2 -> {p.payload[p.offset + i - 1] : i \in 1..2}]
      BY Zenon DEF Bytes
    <3> QED
      BY <1>0, <3>1, BytesType
  <2>3. IsBytes(SignedSum(Bytes(p, 2)), 2)
    BY <1>0, <2>2, SignedSumType
  <2>4. IsBytes(HostNet(ReceiverBig, SignedSum(Bytes(p, 2))), 2)
    BY <1>0, <2>3, HostNetType
  <2> QED
    BY <2>1, <2>4, ExtractSignedIs
<1> HIDE DEF f, t
<1>3. [flow |-> f.val, seq |-> t.val, pkt |-> t.pkt].flow = f.val
  BY SMT
<1> QED
  BY <1>1, <1>2, <1>3 DEF IsBytes

\* Of a packet that carries the header of s the receiver extracts what fits in it, and nothing else.
LEMMA HeaderExtracted ==
  ASSUME SenderBig = ReceiverBig,
         NEW p, IsPacket(p), NEW s, Carries(p.payload, p.size, s),
         IsBytes(s.seq, 4), IsBytes(s.flow, 8),
         \A k \in 1..4 : HostNet(SenderBig, s.seq)[k] \in Byte,
         \A k \in 2..4 : HostNet(SenderBig, s.seq)[k] < 128
  PROVE  LET c == CheckStamp(p)
             e == Extract(c.pkt, c.version)
         IN  /\ c.version # 1
             /\ e.seq = IF p.size >= 9 THEN s.seq ELSE Zero(4)
             /\ e.flow = IF p.size >= HeaderSize THEN s.flow ELSE Zero(8)
<1> DEFINE c == CheckStamp(p)
           a == ExtractSigned(c.pkt, ReceiverBig, 2)
           t == ExtractSigned(a.pkt, ReceiverBig, 4)
           g == ExtractInt64(t.pkt, ReceiverBig)
           z == p.size
           b == p.payload
<1>0. z \in Nat /\ Carries(b, z, s)
  BY DEF IsPacket
<1>1. c.version # 1
  <2>1. Stamped(p) => z >= 3
    BY DEF Stamped
  <2>2. Stamped(p) => c.version = 2
    BY <1>0, <2>1, CheckStampIs DEF Carries
  <2>3. ~Stamped(p) => c.version = -1
    BY CheckStampIs
  <2> HIDE DEF c
  <2> QED
    BY <2>2, <2>3, SMT
<1>2. Extract(c.pkt, c.version) = [flow |-> g.val, seq |-> t.val, pkt |-> g.pkt]
  BY <1>1, Zenon DEF Extract
<1>3. Moved(c.pkt, p) /\ ((c.pkt.offset = 3 /\ z >= 3) \/ (c.pkt.offset = 0 /\ z < 3))
  <2>1. z >= 3 => Stamped(p)
    BY <1>0, Zenon DEF Carries, Stamped
  <2>2. Stamped(p) => z >= 3
    BY DEF Stamped
  <2>3. Moved(c.pkt, p) /\ (Stamped(p) => c.pkt.offset = 3) /\ (~Stamped(p) => c.pkt.offset = 0)
    BY CheckStampIs
  <2>4. ~(z >= 3) => z < 3
    BY <1>0, SMT
  <2> HIDE DEF c, z
  <2>5. Stamped(p) => c.pkt.offset = 3 /\ z >= 3
    BY <2>2, <2>3
  <2>6. ~Stamped(p) => c.pkt.offset = 0 /\ z < 3
    BY <2>1, <2>3, <2>4
  <2> QED
    BY <2>3, <2>5, <2>6
<1>4. c.pkt.size = z /\ IsPacket(c.pkt)
  BY <1>3 DEF Moved
<1>5. Moved(a.pkt, c.pkt)
  BY <1>4, ExtractMoves
<1> HIDE DEF c, z, b
<1>6. /\ a.pkt.offset \in Nat
      /\ z >= 9 => a.pkt.offset = 5
      /\ z < 9 => z < a.pkt.offset + 4
  <2>1. CASE Fits(c.pkt, 2)
    <3>1. a.pkt.offset = c.pkt.offset + 2
      BY <1>4, <2>1, ExtractSignedIs, OffsetMoves
    <3>2. z >= c.pkt.offset + 2
      BY <1>4, <2>1 DEF Fits
    <3> HIDE DEF a
    <3> QED
      BY <1>0, <1>3, <3>1, <3>2, SMT
  <2>2. CASE ~Fits(c.pkt, 2)
    <3>1. a.pkt.offset = c.pkt.offset
      BY <2>2, ExtractSignedIs
    <3>2. ~(z >= c.pkt.offset + 2)
      BY <1>4, <2>2 DEF Fits
    <3> HIDE DEF a
    <3> QED
      BY <1>0, <1>3, <3>1, <3>2, SMT
  <2> QED
    BY <2>1, <2>2
<1>7. a.pkt.size = z /\ a.pkt.payload = b /\ IsPacket(a.pkt)
  BY <1>3, <1>5 DEF Moved, z, b
<1> HIDE DEF a
<1>8. z < 9 => t.val = Zero(4) /\ g.val = Zero(8)
  <2> SUFFICES ASSUME z < 9
               PROVE  t.val = Zero(4) /\ g.val = Zero(8)
    OBVIOUS
  <2>1. ~(z >= a.pkt.offset + 4) /\ ~(z >= a.pkt.offset + 8)
    BY <1>0, <1>6, SMT
  <2>2. ~Fits(a.pkt, 4) /\ ~Fits(a.pkt, 8)
    BY <1>7, <2>1 DEF Fits
  <2>3. t.val = Zero(4) /\ t.pkt = a.pkt
    BY <2>2, ExtractSignedIs
  <2> HIDE DEF t
  <2> QED
    BY <2>2, <2>3, ExtractInt64Is
<1>9. ASSUME z >= 9
      PROVE  t.val = s.seq /\ t.pkt.offset = 9 /\ t.pkt.size = z /\ t.pkt.payload = b
  <2> DEFINE h == HostNet(SenderBig, s.seq)
  <2>1. a.pkt.offset = 5 /\ Fits(a.pkt, 4)
    <3>1. z >= 5 + 4
      BY <1>9, SMT
    <3> QED
      BY <1>6, <1>7, <1>9, <3>1 DEF Fits
  <2>2. IsBytes(h, 4) /\ HostNet(SenderBig, h) = s.seq
    <3>1. 4 \in Nat
      BY SMT
    <3> QED
      BY <3>1, HostNetType
  <2>3. \A k \in 1..4 : b[4 + k] = h[k]
    BY <1>0, <1>9 DEF Carries
  <2>4. (\A k \in 1..4 : h[k] \in Byte) /\ \A k \in 2..4 : h[k] < 128
    OBVIOUS
  <2> HIDE DEF h
  <2>5. Bytes(a.pkt, 4) = h
    <3>1. Bytes(a.pkt, 4) = [i \in 1..4 |-> b[5 + i - 1]]
      BY <1>7, <2>1, Zenon DEF Bytes
    <3>2. \A i \in 1..4 : b[5 + i - 1] = h[i]
      <4> SUFFICES ASSUME NEW i \in 1..4
                   PROVE  b[5 + i - 1] = h[i]
        OBVIOUS
      <4>1. 5 + i - 1 = 4 + i
        BY SMT
      <4> QED
        BY <2>3, <4>1, Zenon
    <3>3. h = [i \in 1..4 |-> h[i]]
      BY <2>2, Zenon DEF IsBytes
    <3>4. [i \in 1..4 |-> b[5 + i - 1]] = [i \in 1..4 |-> h[i]]
      BY <3>2, Zenon
    <3> QED
      BY <3>1, <3>3, <3>4
  <2>6. SignedSum(h) = h
    BY <2>2, <2>4, SignedSumLow
  <2>7. t.val = HostNet(ReceiverBig, h) /\ t.pkt = WithOffset(a.pkt, 5 + 4)
    BY <2>1, <2>5, <2>6, ExtractSignedIs
  <2>8. t.val = s.seq
    BY <2>2, <2>7
  <2>9. t.pkt.offset = 5 + 4 /\ Moved(t.pkt, a.pkt)
    BY <1>7, <2>7, OffsetMoves
  <2> HIDE DEF t
  <2>10. t.pkt.offset = 9
    BY <2>9, SMT
  <2> QED
    BY <1>7, <2>8, <2>9, <2>10 DEF Moved
<1>10. ASSUME z >= 9, ~(z >= HeaderSize)
       PROVE  g.val = Zero(8)
  <2>1. ~Fits(t.pkt, 8)
    <3>1. ~(z >= 9 + 8)
      BY <1>10, SMT DEF HeaderSize
    <3> QED
      BY <1>9, <1>10, <3>1 DEF Fits
  <2> HIDE DEF t
  <2> QED
    BY <2>1, ExtractInt64Is
<1>11. ASSUME z >= HeaderSize
       PROVE  z >= 9 /\ g.val = s.flow
  <2> DEFINE h == HostNet(SenderBig, s.flow)
  <2>1. z >= 9
    BY <1>0, <1>11, SMT DEF HeaderSize
  <2>2. t.pkt.offset = 9 /\ t.pkt.size = z /\ t.pkt.payload = b
    BY <1>9, <2>1
  <2> HIDE DEF t
  <2>3. Fits(t.pkt, 8)
    <3>1. z >= 9 + 8
      BY <1>11, SMT DEF HeaderSize
    <3> QED
      BY <2>2, <3>1 DEF Fits
  <2>4. IsBytes(h, 8) /\ HostNet(SenderBig, h) = s.flow
    <3>1. 8 \in Nat
      BY SMT
    <3> QED
      BY <3>1, HostNetType
  <2>5. \A k \in 1..8 : b[8 + k] = h[k]
    BY <1>0, <1>11 DEF Carries
  <2> HIDE DEF h
  <2>6. Bytes(t.pkt, 8) = h
    <3>1. Bytes(t.pkt, 8) = [i \in 1..8 |-> b[9 + i - 1]]
      BY <2>2, Zenon DEF Bytes
    <3>2. \A i \in 1..8 : b[9 + i - 1] = h[i]
      <4> SUFFICES ASSUME NEW i \in 1..8
                   PROVE  b[9 + i - 1] = h[i]
        OBVIOUS
      <4>1. 9 + i - 1 = 8 + i
        BY SMT
      <4> QED
        BY <2>5, <4>1, Zenon
    <3>3. h = [i \in 1..8 |-> h[i]]
      BY <2>4, Zenon DEF IsBytes
    <3>4. [i \in 1..8 |-> b[9 + i - 1]] = [i \in 1..8 |-> h[i]]
      BY <3>2, Zenon
    <3> QED
      BY <3>1, <3>3, <3>4
  <2>7. g.val = HostNet(ReceiverBig, h)
    BY <2>3, <2>6, ExtractInt64Is
  <2> QED
    BY <2>1, <2>4, <2>7
<1> HIDE DEF t, g
<1>12. t.val = IF z >= 9 THEN s.seq ELSE Zero(4)
  <2>1. ~(z >= 9) => z < 9
    BY <1>0, SMT
  <2> QED
    BY <1>8, <1>9, <2>1, Zenon
<1>13. g.val = IF z >= HeaderSize THEN s.flow ELSE Zero(8)
  <2>1. ~(z >= 9) => z < 9
    BY <1>0, SMT
  <2> QED
    BY <1>8, <1>10, <1>11, <2>1, Zenon
<1>14. [flow |-> g.val, seq |-> t.val, pkt |-> g.pkt].flow = g.val
       /\ [flow |-> g.val, seq |-> t.val, pkt |-> g.pkt].seq = t.val
  BY SMT
<1> QED
  BY <1>1, <1>2, <1>12, <1>13, <1>14, Zenon DEF c, z

\* The sequence numbers followed, as they lie in the packet.
LEMMA SeqNumsType ==
  ASSUME NEW n \in DOMAIN SeqNums, LowSeqNums(SenderBig, SeqNums)
  PROVE  /\ IsBytes(SeqNums[n], 4)
         /\ \A k \in 1..4 : HostNet(SenderBig, SeqNums[n])[k] \in Byte
         /\ \A k \in 2..4 : HostNet(SenderBig, SeqNums[n])[k] < 128
<1> DEFINE seq == SeqNums[n]
           B == [1..4 -> Byte]
<1>0. 4 \in Nat
  BY SMT
<1>1. seq \in B
  <2>1. SeqNums \in Seq(B)
    BY HeaderAssumption DEF HeaderAssumption
  <2> HIDE DEF B
  <2> QED
    BY <2>1, SMT
<1>2. IsBytes(seq, 4)
  BY <1>0, <1>1, BytesType
<1>3. \A k \in 2..4 : HostNet(SenderBig, seq)[k] < 128
  BY DEF LowSeqNums
<1>4. \A k \in 1..4 : seq[k] \in Byte
  BY <1>1
<1> HIDE DEF seq
<1>5. \A k \in 1..4 : HostNet(SenderBig, seq)[k] \in Byte
  <2>1. CASE SenderBig
    BY <1>4, <2>1, Zenon DEF HostNet
  <2>2. CASE ~SenderBig
    <3>1. HostNet(SenderBig, seq) = [i \in 1..4 |-> seq[4 - i + 1]]
      BY <1>2, <2>2, Zenon DEF HostNet, Reverse, IsBytes
    <3>2. \A k \in 1..4 : 4 - k + 1 \in 1..4
      BY SMT
    <3> QED
      BY <1>4, <3>1, <3>2, Zenon
  <2> QED
    BY <2>1, <2>2
<1> QED
  BY <1>2, <1>3, <1>5 DEF seq

\* A datagram of packet s still carries its header when recvfrom() has cut it.
LEMMA ReceivedCarries ==
  ASSUME NEW p, IsPacket(p), p.length = DEF_PKT_LENGTH, NEW s, s.size \in Nat, NEW d, DatagramOf(d, s)
  PROVE  /\ Received(p, d).size = CutTo(s.size)
         /\ Carries(Received(p, d).payload, Received(p, d).size, s)
<1> DEFINE q == Received(p, d)
           z == q.size
           b == q.payload
           c == d.payload
<1>1. d.len = s.size /\ DOMAIN c = {j \in Offsets : j < d.len} /\ Carries(c, d.len, s)
  BY Zenon DEF DatagramOf
<1>2. d.len \in Nat
  BY <1>1
<1>3. z = CutTo(d.len) /\ \A i \in Offsets : i \in DOMAIN c => b[i] = c[i]
  BY <1>2, ReceivedType
<1> HIDE DEF b, c, q, z
<1>4. z \in Nat /\ z <= d.len
  BY <1>2, <1>3, SMT DEF CutTo, DEF_PKT_LENGTH
<1>5. \A i \in Offsets : i < d.len => b[i] = c[i]
  BY <1>1, <1>3, Zenon
<1>6. z >= 3 => d.len >= 3 /\ b[0] = c[0] /\ b[1] = c[1] /\ b[2] = c[2]
  BY <1>2, <1>4, <1>5, SMT DEF Offsets, HeaderSize
<1>7. z >= 9 => d.len >= 9 /\ \A k \in 1..4 : b[4 + k] = c[4 + k]
  <2> SUFFICES ASSUME z >= 9
               PROVE  d.len >= 9 /\ \A k \in 1..4 : 4 + k \in Offsets /\ 4 + k < d.len
    BY <1>5, Zenon
  <2> QED
    BY <1>2, <1>4, SMT DEF Offsets, HeaderSize
<1>8. z >= HeaderSize => d.len >= HeaderSize /\ \A k \in 1..8 : b[8 + k] = c[8 + k]
  <2> SUFFICES ASSUME z >= HeaderSize
               PROVE  d.len >= HeaderSize /\ \A k \in 1..8 : 8 + k \in Offsets /\ 8 + k < d.len
    BY <1>5, Zenon
  <2> QED
    BY <1>2, <1>4, SMT DEF Offsets, HeaderSize
<1>9. Carries(b, z, s)
  BY <1>1, <1>6, <1>7, <1>8, Zenon DEF Carries
<1> QED
  BY <1>1, <1>3, <1>9 DEF b, z, q

\* A datagram of an older OTG is seen as one.
LEMMA ReceivedLegacy ==
  ASSUME NEW p, IsPacket(p), p.length = DEF_PKT_LENGTH, NEW d \in Legacy
  PROVE  CheckStamp(Received(p, d)).version = 1
<1> DEFINE q == Received(p, d)
<1>1. /\ d.len \in Nat /\ d.len >= 3 /\ 0..2 \subseteq DOMAIN d.payload
      /\ d.payload[0] = SYNC_BYTE /\ d.payload[1] = SYNC_BYTE /\ d.payload[2] = 1
  BY LegacyAssumption, Zenon DEF LegacyAssumption
<1>2. /\ IsPacket(q) /\ q.size = CutTo(d.len)
      /\ \A i \in Offsets : i \in DOMAIN d.payload => q.payload[i] = d.payload[i]
  BY <1>1, ReceivedType
<1> HIDE DEF q
<1>3. q.size >= 3
  BY <1>1, <1>2, SMT DEF CutTo, DEF_PKT_LENGTH
<1>4. \A i \in {0, 1, 2} : i \in Offsets /\ i \in 0..2
  BY SMT DEF Offsets, HeaderSize
<1>5. q.payload[0] = SYNC_BYTE /\ q.payload[1] = SYNC_BYTE /\ q.payload[2] = 1
  BY <1>1, <1>2, <1>4, Zenon
<1>6. Stamped(q)
  BY <1>3, <1>5, Zenon DEF Stamped
<1>7. CheckStamp(q).version = 1
  BY <1>2, <1>5, <1>6, CheckStampIs
<1> QED
  BY <1>7 DEF q

\* Between hosts of one byte order, with sequence numbers the receiver reads right, every
\* measurement of the receiver is that of a packet that was sent, whatever is lost, repeated or
\* reordered, for every set of packet sizes and flow ids (nextPacket() and the extractors).
THEOREM ReportsRight ==
  ASSUME SenderBig = ReceiverBig, LowSeqNums(SenderBig, SeqNums)
  PROVE  Spec => []ReportsFaithful
<1>1. Init => ReportsFaithful
  BY Zenon DEF Init, ReportsFaithful
<1>2. Inv /\ ReportsFaithful /\ [Next]_vars => ReportsFaithful'
  <2> SUFFICES ASSUME Inv, ReportsFaithful, [Next]_vars
               PROVE  ReportsFaithful'
    OBVIOUS
  <2>1. CASE SendPacket
    <3>1. reports' = reports /\ \A s \in sent : s \in sent'
      BY <2>1, Zenon DEF SendPacket
    <3> QED
      BY <3>1, Zenon DEF ReportsFaithful
  <2>2. CASE NextPacket
    <3> DEFINE p == GetBuffer(Reset(in), DEF_PKT_LENGTH)
               got(d) == Received(p, d)
               c(d) == CheckStamp(got(d))
               e(d) == Extract(c(d).pkt, c(d).version)
               r(d) == [size |-> got(d).size, seq |-> e(d).seq, flow |-> e(d).flow]
    <3>1. PICK d \in net : reports' = reports \cup {r(d)}
      BY <2>2, Zenon DEF NextPacket
    <3>2. sent' = sent
      BY <2>2, Zenon DEF NextPacket
    <3>3. r(d).size = got(d).size /\ r(d).seq = e(d).seq /\ r(d).flow = e(d).flow
      BY SMT
    <3>4. IsPacket(p) /\ p.length = DEF_PKT_LENGTH
      BY ReceiveBuffer DEF Inv, PacketsInv
    <3> HIDE DEF p
    <3>5. CASE d \in Legacy
      <4>1. c(d).version = 1
        BY <3>4, <3>5, ReceivedLegacy
      <4>2. LegacyReport(r(d))
        BY <3>3, <4>1, LegacyExtracted DEF LegacyReport
      <4> HIDE DEF r
      <4> QED
        BY <3>1, <3>2, <4>2, Zenon DEF ReportsFaithful
    <3>6. CASE \E s \in sent : DatagramOf(d, s)
      <4>1. PICK s \in sent : DatagramOf(d, s)
        BY <3>6
      <4>2. PICK n \in DOMAIN SeqNums : s.seq = SeqNums[n]
        BY DEF Inv, SentInv
      <4>3. s.size \in Nat /\ s.flow \in [1..8 -> Byte]
        BY HeaderAssumption DEF HeaderAssumption, Inv, SentInv
      <4>4. IsBytes(s.flow, 8)
        <5>1. 8 \in Nat
          BY SMT
        <5> QED
          BY <4>3, <5>1, BytesType
      <4>5. /\ IsBytes(s.seq, 4)
            /\ \A k \in 1..4 : HostNet(SenderBig, s.seq)[k] \in Byte
            /\ \A k \in 2..4 : HostNet(SenderBig, s.seq)[k] < 128
        BY <4>2, SeqNumsType
      <4>6. IsPacket(got(d))
        BY <3>4, <4>1, <4>3, ReceivedType DEF DatagramOf
      <4>7. got(d).size = CutTo(s.size) /\ Carries(got(d).payload, got(d).size, s)
        BY <3>4, <4>1, <4>3, ReceivedCarries
      <4>8. /\ e(d).seq = IF got(d).size >= 9 THEN s.seq ELSE Zero(4)
            /\ e(d).flow = IF got(d).size >= HeaderSize THEN s.flow ELSE Zero(8)
        <5> HIDE DEF got
        <5> QED
          BY <4>4, <4>5, <4>6, <4>7, HeaderExtracted
      <4>9. r(d) = Reported(s)
        <5> HIDE DEF got, e
        <5> QED
          BY <4>7, <4>8, Zenon DEF Reported, CutTo
      <4> HIDE DEF r
      <4> QED
        BY <3>1, <3>2, <4>9, Zenon DEF ReportsFaithful
    <3> QED
      BY <3>5, <3>6 DEF Inv, NetInv
  <2>3. CASE RecvError
    BY <2>3, Zenon DEF RecvError, ReportsFaithful
  <2>4. CASE UNCHANGED vars
    BY <2>4, Zenon DEF vars, ReportsFaithful
  <2> QED
    BY <2>1, <2>2, <2>3, <2>4 DEF Next
<1>3. Inv <=> PacketsInv /\ SentInv /\ NetInv
  BY Zenon DEF Inv
<1> QED
  BY <1>1, <1>2, <1>3, BuffersInvariance, PTL DEF Spec
=============================================================================
