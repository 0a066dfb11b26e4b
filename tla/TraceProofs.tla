---------------------------- MODULE TraceProofs ----------------------------
(***************************************************************************)
(* Proofs about Trace, for any number of packets, any extension headers    *)
(* and any number of captured bytes.                                       *)
(***************************************************************************)
EXTENDS Trace, TLAPS

\* per_packet() is at work on the packet in hand.
InHand == pc \in {"link", "ip", "ip6", "walk", "transport"}

\* An identifier is given out for each packet read but the one quit_handler() may have overtaken, so
\* that the records of the n-th packet carry identifier n.
NumberInv ==
  /\ guids <= nread
  /\ pc \in {"main", "open"} => nread = 0
  /\ pc \in {"main", "open", "read"} => guids = nread
  /\ pc = "test" => guids + 1 = nread
  /\ InHand => guids = nread /\ pktid = nread
  /\ \A r \in reported : r.pktid = r.of /\ r.of <= guids

\* The packet in hand when the first signal comes is the last one to get an identifier.
QuitInv ==
  /\ pc = "main" => ~stop_loop
  /\ stop_loop /\ InHand => quitAt = nread
  /\ QuitStopsReports

\* What is known of the packet in hand at each step of per_packet().
PacketInv ==
  /\ pc \in {"test", "link"} => packet = NoPacket
  /\ pc = "ip" => packet.l3 = "ip"
  /\ pc \in {"ip6", "walk"} => packet.l3 = "ip6"
  /\ pc \in {"ip", "ip6", "walk"} => packet.top = "none"
  /\ pc = "transport" => packet.l3 \in {"ip", "ip6"}

\* The IP record is there when the transport record is added.
LinkInv ==
  /\ pc = "transport" => \E s \in reported : s.pktid = pktid /\ s.mp \in {"ip", "ip6"}
  /\ \A r \in reported : r.mp \in {"tcp", "udp", "icmp", "icmp6"} =>
       \E s \in reported : s.pktid = r.pktid /\ s.mp \in {"ip", "ip6"}

\* The measurement points the packet in hand has a record in.
Current == {r.mp : r \in {s \in reported : s.of = nread}}

LinkLayer(p) ==
  CASE p.link = "eth" -> {"ethernet"} [] p.link = "80211_radio" /\ radiotap -> {"radiotap"} [] OTHER -> {}

\* The layers reported at each step: the walk may have reported an IPv6 header inside the first one,
\* and mobility headers.
LayersInv ==
  /\ pc = "link" => Current = {}
  /\ pc \in {"ip", "ip6"} => Current = LinkLayer(packet)
  /\ pc = "walk" => Current \ {"ip6", "ip6_mh"} = LinkLayer(packet)
  /\ pc = "transport" => Current \ {"ip6_mh"} = LinkLayer(packet) \cup {packet.l3}
  /\ LayersReported

Inv == TypeOK /\ NumberInv /\ QuitInv /\ PacketInv /\ LinkInv /\ LayersInv

-----------------------------------------------------------------------------
\* A record of the packet in hand has the type of one.
LEMMA RecordType ==
  ASSUME TypeOK, NEW mp \in MPs
  PROVE  Record(mp) \in [mp : MPs, pktid : Nat, of : Nat]
BY DEF TypeOK, Record

\* Every step keeps the types; of a length field hdr_len keeps 8 bits.
LEMMA TypeStep == TypeOK /\ PacketInv /\ [Next]_vars => TypeOK'
<1> SUFFICES ASSUME TypeOK, PacketInv, [Next]_vars PROVE TypeOK'
  OBVIOUS
<1> USE DEF walkVars
<1>1. CASE Main \/ Open \/ Quit \/ Close \/ Test
  <2>1. CASE Main \/ Open \/ Close
    BY <2>1 DEF TypeOK, Main, Open, Close
  <2>2. CASE Quit
    BY <2>2 DEF TypeOK, Quit
  <2>3. CASE Test
    BY <2>3 DEF TypeOK, Test
  <2> QED
    BY <1>1, <2>1, <2>2, <2>3
<1>2. CASE ReadPacket
  BY <1>2 DEF TypeOK, ReadPacket, NoPacket, Packets, Links, Transports
<1>3. CASE Link
  <2>1. packet' \in Packets
    BY <1>3 DEF TypeOK, Link, Packets
  <2>2. reported' \subseteq [mp : MPs, pktid : Nat, of : Nat]
    <3>1. /\ RadiotapRecords \subseteq [mp : MPs, pktid : Nat, of : Nat]
          /\ EthernetRecords \subseteq [mp : MPs, pktid : Nat, of : Nat]
      BY RecordType DEF RadiotapRecords, EthernetRecords, MPs
    <3> QED
      BY <1>3, <3>1 DEF TypeOK, Link
  <2> QED
    BY <1>3, <2>1, <2>2 DEF TypeOK, Link
<1>4. ASSUME NEW t \in Transports, ReportIp(t), packet.l3 \in {"ip", "ip6"}
      PROVE  /\ reported' \subseteq [mp : MPs, pktid : Nat, of : Nat] /\ packet' \in Packets
             /\ pc' \in {"read", "transport"}
  <2>1. Record(packet.l3) \in [mp : MPs, pktid : Nat, of : Nat]
    BY <1>4, RecordType DEF MPs
  <2>2. packet' \in Packets
    BY <1>4 DEF TypeOK, ReportIp, Packets
  <2> QED
    BY <1>4, <2>1, <2>2 DEF TypeOK, ReportIp
<1>5. CASE Ip
  BY <1>4, <1>5 DEF Ip, TypeOK, PacketInv
<1>6. CASE Ip6
  <2>1. ip6' \in Nat /\ hdr' \in Nat /\ hdr_len' \in 0..31 /\ hdr_next' \in NextHeaders
    BY <1>6 DEF Ip6, WalkFrom
  <2>2. resume' \in BOOLEAN
    BY <1>6 DEF Ip6, WalkFrom
  <2> QED
    BY <1>6, <2>1, <2>2 DEF TypeOK, Ip6
<1>7. CASE Walk
  <2>1. CASE hdr + hdr_len >= CaptureUnits /\ pc' = "crashed" /\ UNCHANGED <<walkVars, reported>>
    BY <1>7, <2>1 DEF TypeOK, Walk
  <2>2. ASSUME NEW e \in Exts \cup {[nxt |-> hdr_next, len |-> 31]}, WalkHeader(hdr + hdr_len, e) PROVE TypeOK'
    <3>1. e.nxt \in NextHeaders /\ ExtLen(e) \in 0..31
      <4>1. e.nxt \in NextHeaders /\ e.len \in 0..255
        <5>1. CASE e \in Exts
          BY <5>1, LensAssumption DEF Exts
        <5>2. CASE e = [nxt |-> hdr_next, len |-> 31]
          BY <5>2 DEF TypeOK
        <5> QED
          BY <2>2, <5>1, <5>2
      <4> QED
        BY <4>1 DEF ExtLen
    <3>2. Record("ip6") \in [mp : MPs, pktid : Nat, of : Nat] /\ Record("ip6_mh") \in [mp : MPs, pktid : Nat, of : Nat]
      BY RecordType DEF MPs
    <3>3. reported' \subseteq [mp : MPs, pktid : Nat, of : Nat]
      BY <2>2, <3>2 DEF WalkHeader, TypeOK
    <3>4. ip6' \in Nat /\ hdr' \in Nat /\ hdr_len' \in 0..31 /\ hdr_next' \in NextHeaders
      BY <2>2, <3>1 DEF TypeOK, WalkHeader, WalkFrom
    <3>5. pc' \in {"walk", "crashed"}
      BY <2>2 DEF WalkHeader, MobilityOutcomes
    <3>6. resume' \in BOOLEAN
      BY <2>2 DEF WalkHeader, WalkFrom
    <3> QED
      BY <1>7, <3>3, <3>4, <3>5, <3>6 DEF TypeOK, Walk
  <2> QED
    BY <1>7, <2>1, <2>2 DEF Walk
<1>8. CASE WalkEnd
  <2>1. PICK t \in Transports : ReportIp(t)
    BY <1>8 DEF WalkEnd
  <2>2. /\ reported' \subseteq [mp : MPs, pktid : Nat, of : Nat] /\ packet' \in Packets
        /\ pc' \in {"read", "transport"}
    BY <1>4, <1>8, <2>1 DEF WalkEnd, PacketInv
  <2>3. ip6' \in Nat /\ hdr' \in Nat /\ hdr_len' \in 0..31 /\ hdr_next' \in NextHeaders
    BY <1>8 DEF WalkEnd, WalkReturn, NextHeaders
  <2>4. resume' \in BOOLEAN
    BY <1>8 DEF WalkEnd, WalkReturn
  <2> QED
    BY <1>8, <2>2, <2>3, <2>4 DEF WalkEnd, TypeOK
<1>9. CASE Transport
  <2>1. TcpUdpRecords \subseteq [mp : MPs, pktid : Nat, of : Nat]
    BY RecordType DEF TcpUdpRecords, MPs
  <2>2. IcmpRecords \subseteq [mp : MPs, pktid : Nat, of : Nat]
    BY RecordType DEF IcmpRecords, MPs
  <2> QED
    BY <1>9, <2>1, <2>2 DEF TypeOK, Transport
<1>10. CASE UNCHANGED vars
  BY <1>10 DEF TypeOK, vars
<1> QED
  BY <1>1, <1>2, <1>3, <1>5, <1>6, <1>7, <1>8, <1>9, <1>10 DEF Next, PerPacket

\* What the walk makes of a packet is settled before its transport header is looked at.
LEMMA PacketStep == TypeOK /\ PacketInv /\ [Next]_vars => PacketInv'
<1> SUFFICES ASSUME TypeOK, PacketInv, [Next]_vars PROVE PacketInv'
  OBVIOUS
<1> USE DEF TypeOK, PacketInv, walkVars
<1>1. CASE Main \/ Open \/ Quit \/ ReadPacket \/ Close \/ Test
  BY <1>1 DEF Main, Open, Quit, ReadPacket, Close, Test
<1>2. CASE Link
  BY <1>2 DEF Link, NoPacket, Packets
<1>3. CASE Ip
  BY <1>3 DEF Ip, ReportIp, Packets
<1>4. CASE Ip6
  BY <1>4 DEF Ip6
<1>5. CASE Walk
  BY <1>5 DEF Walk, WalkHeader, MobilityOutcomes
<1>6. CASE WalkEnd
  BY <1>6 DEF WalkEnd, ReportIp, Packets
<1>7. CASE Transport
  BY <1>7 DEF Transport
<1>8. CASE UNCHANGED vars
  BY <1>8 DEF vars
<1> QED
  BY <1>1, <1>2, <1>3, <1>4, <1>5, <1>6, <1>7, <1>8 DEF Next, PerPacket

\* Records are added for the packet in hand alone, by steps that change none of the numbers.
LEMMA RecordsAdded ==
  ASSUME TypeOK, [Next]_vars
  PROVE  /\ reported \subseteq reported'
         /\ \A r \in reported' \ reported : r.pktid = pktid /\ r.of = nread
         /\ reported' = reported \/ (InHand /\ UNCHANGED <<nread, guids, pktid, stop_loop, quitAt>>)
<1> USE DEF walkVars, Record, InHand
<1>1. CASE Main \/ Open \/ Quit \/ ReadPacket \/ Close \/ Test \/ Ip6
  BY <1>1 DEF Main, Open, Quit, ReadPacket, Close, Test, Ip6
<1>2. CASE Link
  BY <1>2 DEF Link, RadiotapRecords, EthernetRecords
<1>3. CASE Ip
  BY <1>3 DEF Ip, ReportIp
<1>4. CASE Walk
  BY <1>4 DEF Walk, WalkHeader
<1>5. CASE WalkEnd
  BY <1>5 DEF WalkEnd, ReportIp
<1>6. CASE Transport
  BY <1>6 DEF Transport, TcpUdpRecords, IcmpRecords
<1>7. CASE UNCHANGED vars
  BY <1>7 DEF vars
<1> QED
  BY <1>1, <1>2, <1>3, <1>4, <1>5, <1>6, <1>7 DEF Next, PerPacket

\* Where per_packet() may go without the numbers changing.
LEMMA NumbersKept ==
  ASSUME TypeOK, Link \/ Ip \/ Ip6 \/ Walk \/ WalkEnd \/ Transport \/ UNCHANGED vars
  PROVE  /\ UNCHANGED <<nread, guids, pktid, stop_loop, quitAt, radiotap>>
         /\ pc' = pc \/ (InHand /\ (InHand' \/ pc' \in {"read", "crashed"}))
<1>1. CASE Link \/ Ip \/ Ip6 \/ Transport \/ UNCHANGED vars
  BY <1>1 DEF Link, Ip, Ip6, ReportIp, Transport, vars, InHand
<1>2. CASE Walk
  BY <1>2 DEF Walk, WalkHeader, MobilityOutcomes, InHand
<1>3. CASE WalkEnd
  BY <1>3 DEF WalkEnd, ReportIp, InHand
<1> QED
  BY <1>1, <1>2, <1>3

\* The n-th packet gets identifier n, if it gets one.
LEMMA NumberStep == TypeOK /\ PacketInv /\ NumberInv /\ [Next]_vars => NumberInv'
<1> SUFFICES ASSUME TypeOK, PacketInv, NumberInv, [Next]_vars PROVE NumberInv'
  OBVIOUS
<1> DEFINE NumbersInv == /\ guids <= nread
                         /\ pc \in {"main", "open"} => nread = 0
                         /\ pc \in {"main", "open", "read"} => guids = nread
                         /\ pc = "test" => guids + 1 = nread
                         /\ InHand => guids = nread /\ pktid = nread
<1>1. NumbersInv' /\ guids <= guids'
  <2>0. guids \in Nat /\ nread \in Nat
    BY DEF TypeOK
  <2>1. CASE Main \/ Open \/ Close
    <3>1. /\ UNCHANGED <<nread, guids>> /\ ~InHand' /\ pc' # "test"
          /\ pc' \in {"main", "open", "read"} => pc \in {"main", "open"}
      BY <2>1 DEF Main, Open, Close, InHand
    <3> QED
      BY <3>1, <2>0 DEF NumberInv, InHand
  <2>5. CASE Quit
    BY <2>5 DEF TypeOK, NumberInv, Quit, InHand
  <2>4. CASE ReadPacket
    BY <2>4 DEF TypeOK, NumberInv, ReadPacket, InHand
  <2>2. CASE Test
    BY <2>2 DEF TypeOK, NumberInv, Test, InHand
  <2>3. CASE Link \/ Ip \/ Ip6 \/ Walk \/ WalkEnd \/ Transport \/ UNCHANGED vars
    BY <2>3, NumbersKept DEF TypeOK, NumberInv, InHand
  <2> QED
    BY <2>1, <2>2, <2>3, <2>4, <2>5 DEF Next, PerPacket
<1>2. \A r \in reported' : r.pktid = r.of /\ r.of <= guids'
  <2> SUFFICES ASSUME NEW r \in reported' PROVE r.pktid = r.of /\ r.of <= guids'
    OBVIOUS
  <2>1. guids \in Nat /\ guids' \in Nat /\ guids <= guids'
    BY <1>1, TypeStep DEF TypeOK
  <2>2. CASE r \in reported
    <3>1. r.pktid = r.of /\ r.of <= guids /\ r.of \in Nat
      BY <2>2 DEF NumberInv, TypeOK
    <3> QED
      BY <2>1, <3>1
  <2>3. CASE r \notin reported
    <3>1. InHand /\ UNCHANGED guids /\ r.pktid = pktid /\ r.of = nread
      BY <2>3, RecordsAdded
    <3> QED
      BY <2>1, <3>1 DEF NumberInv, TypeOK
  <2> QED
    BY <2>2, <2>3
<1> QED
  BY <1>1, <1>2 DEF NumberInv

\* After the first signal no packet but the one in hand then gets an identifier.
LEMMA QuitStep == TypeOK /\ NumberInv /\ QuitInv /\ [Next]_vars => QuitInv'
<1> SUFFICES ASSUME TypeOK, NumberInv, QuitInv, [Next]_vars PROVE QuitInv'
  OBVIOUS
<1>1. /\ pc' = "main" => ~stop_loop'
      /\ stop_loop' /\ InHand' => quitAt' = nread'
  <2>1. CASE Main \/ Open \/ Close \/ ReadPacket \/ Test
    <3>1. UNCHANGED stop_loop /\ pc' # "main"
      BY <2>1 DEF Main, Open, ReadPacket, Close, Test
    <3>2. InHand' => Test /\ ~stop_loop
      BY <2>1 DEF Main, Open, ReadPacket, Close, Test, InHand
    <3> QED
      BY <3>1, <3>2 DEF QuitInv
  <2>3. CASE Quit
    BY <2>3 DEF TypeOK, QuitInv, Quit, InHand
  <2>2. CASE Link \/ Ip \/ Ip6 \/ Walk \/ WalkEnd \/ Transport \/ UNCHANGED vars
    BY <2>2, NumbersKept DEF QuitInv, InHand
  <2> QED
    BY <2>1, <2>2, <2>3 DEF Next, PerPacket
<1>2. ASSUME stop_loop', NEW r \in reported' PROVE r.of <= quitAt'
  <2>1. CASE r \notin reported
    <3>1. InHand /\ UNCHANGED <<stop_loop, quitAt>> /\ r.of = nread
      BY <2>1, RecordsAdded
    <3> QED
      BY <1>2, <3>1 DEF TypeOK, QuitInv
  <2>2. CASE r \in reported /\ stop_loop
    <3>1. quitAt' = quitAt
      <4>1. CASE Main \/ Open \/ Quit \/ ReadPacket \/ Close \/ Test
        BY <2>2, <4>1 DEF Main, Open, Quit, ReadPacket, Close, Test
      <4>2. CASE Link \/ Ip \/ Ip6 \/ Walk \/ WalkEnd \/ Transport \/ UNCHANGED vars
        BY <4>2, NumbersKept
      <4> QED
        BY <4>1, <4>2 DEF Next, PerPacket
    <3> QED
      BY <2>2, <3>1 DEF QuitInv, QuitStopsReports
  <2>3. CASE r \in reported /\ ~stop_loop
    <3>1. Quit
      <4>1. ~(Main \/ Open \/ ReadPacket \/ Close \/ Test)
        BY <1>2, <2>3 DEF Main, Open, ReadPacket, Close, Test
      <4>2. ~(Link \/ Ip \/ Ip6 \/ Walk \/ WalkEnd \/ Transport \/ UNCHANGED vars)
        BY <1>2, <2>3, NumbersKept
      <4> QED
        BY <4>1, <4>2 DEF Next, PerPacket
    <3> QED
      BY <2>3, <3>1 DEF Quit, TypeOK, NumberInv
  <2> QED
    BY <2>1, <2>2, <2>3
<1> QED
  BY <1>1, <1>2 DEF QuitInv, QuitStopsReports

\* A transport record follows the record of an IP header of the same packet.
LEMMA LinkStep == TypeOK /\ PacketInv /\ LinkInv /\ [Next]_vars => LinkInv'
<1> SUFFICES ASSUME TypeOK, PacketInv, LinkInv, [Next]_vars PROVE LinkInv'
  OBVIOUS
<1> DEFINE Ips == {"ip", "ip6"}
           Tops == {"tcp", "udp", "icmp", "icmp6"}
<1>1. ASSUME NEW t \in Transports, ReportIp(t), packet.l3 \in Ips, UNCHANGED pktid
      PROVE  /\ \E s \in reported' : s.pktid = pktid' /\ s.mp \in Ips
             /\ \A r \in reported' \ reported : r.mp \notin Tops
  <2> DEFINE new == Record(packet.l3)
  <2>1. new.mp = packet.l3 /\ new.pktid = pktid
    BY DEF Record
  <2>2. reported' = reported \cup {new}
    BY <1>1 DEF ReportIp
  <2> HIDE DEF new
  <2> QED
    BY <1>1, <2>1, <2>2
<1>2. pc' = "transport" => \E s \in reported' : s.pktid = pktid' /\ s.mp \in Ips
  <2>1. CASE Ip \/ WalkEnd
    BY <1>1, <2>1 DEF Ip, WalkEnd, PacketInv
  <2>2. CASE ~(Ip \/ WalkEnd)
    <3>1. pc' = "transport" => pc = "transport" /\ UNCHANGED pktid
      <4>1. CASE Main \/ Open \/ Quit \/ ReadPacket \/ Close \/ Test
        BY <4>1 DEF Main, Open, Quit, ReadPacket, Close, Test
      <4>2. CASE Link \/ Ip6 \/ Transport \/ UNCHANGED vars
        BY <4>2 DEF Link, Ip6, Transport, vars
      <4>3. CASE Walk
        BY <4>3 DEF Walk, WalkHeader, MobilityOutcomes
      <4> QED
        BY <2>2, <4>1, <4>2, <4>3 DEF Next, PerPacket
    <3> QED
      BY <3>1, RecordsAdded DEF LinkInv
  <2> QED
    BY <2>1, <2>2
<1>3. ASSUME NEW r \in reported', r.mp \in Tops PROVE \E s \in reported' : s.pktid = r.pktid /\ s.mp \in Ips
  <2>1. CASE r \in reported
    BY <1>3, <2>1, RecordsAdded DEF LinkInv
  <2>2. CASE r \notin reported
    <3>1. pc = "transport"
      <4>1. ~(Main \/ Open \/ Quit \/ ReadPacket \/ Close \/ Test \/ Ip6 \/ UNCHANGED vars)
        BY <1>3, <2>2 DEF Main, Open, Quit, ReadPacket, Close, Test, Ip6, vars
      <4>2. ~Link
        <5>1. ASSUME Link PROVE r = Record("radiotap") \/ r = Record("ethernet")
          BY <2>2, <5>1, <1>3 DEF Link, RadiotapRecords, EthernetRecords
        <5> QED
          BY <1>3, <5>1 DEF Record
      <4>3. ~(Ip \/ WalkEnd)
        BY <1>1, <1>3, <2>2 DEF Ip, WalkEnd, PacketInv
      <4>4. ~Walk
        BY <1>3, <2>2 DEF Walk, WalkHeader, Record
      <4> QED
        BY <4>1, <4>2, <4>3, <4>4 DEF Next, PerPacket, Transport
    <3> QED
      BY <2>2, <3>1, RecordsAdded DEF LinkInv
  <2> QED
    BY <2>1, <2>2
<1> QED
  BY <1>2, <1>3 DEF LinkInv

\* Records of the packet in hand add their measurement points to it.
LEMMA CurrentGrows ==
  ASSUME NEW M, UNCHANGED nread, reported' = reported \cup {Record(mp) : mp \in M}
  PROVE  Current' = Current \cup M
<1>1. \A mp \in M : Record(mp).mp = mp /\ Record(mp).of = nread
  BY DEF Record
<1>2. ASSUME NEW mp \in Current' PROVE mp \in Current \cup M
  BY <1>1, <1>2 DEF Current
<1>3. ASSUME NEW mp \in Current PROVE mp \in Current'
  BY <1>3 DEF Current
<1>4. ASSUME NEW mp \in M PROVE mp \in Current'
  <2>1. Record(mp) \in reported' /\ Record(mp).mp = mp /\ Record(mp).of = nread'
    BY <1>1, <1>4
  <2> HIDE DEF Record
  <2> QED
    BY <2>1 DEF Current
<1> QED
  BY <1>2, <1>3, <1>4

\* The layers reported at each step of per_packet(): the one the step stands for, and no other.
LEMMA LayersStep == TypeOK /\ NumberInv /\ PacketInv /\ LayersInv /\ [Next]_vars => LayersInv'
<1> SUFFICES ASSUME TypeOK, NumberInv, PacketInv, LayersInv, [Next]_vars PROVE LayersInv'
  OBVIOUS
<1>1. CASE Main \/ Open \/ Close
  <2>1. pc' \notin {"link", "ip", "ip6", "walk", "transport"} /\ (pc' = "read" => guids' = 0)
    BY <1>1 DEF Main, Open, Close, NumberInv
  <2> QED
    BY <2>1 DEF LayersInv, LayersReported, TypeOK
<1>2. CASE ReadPacket
  BY <1>2 DEF ReadPacket, LayersInv, LayersReported
<1>3. CASE Test
  <2>1. pc' = "link" => Current' = {}
    <3>1. \A r \in reported : r.of # nread
      BY <1>3 DEF Test, NumberInv, TypeOK
    <3> QED
      BY <1>3, <3>1 DEF Test, Current
  <2> QED
    BY <1>3, <2>1 DEF Test, LayersInv, LayersReported
<1>4. CASE Link
  <2>1. PICK l \in Links, t \in {"none", "ip", "ip6", "other"} :
          /\ packet' = [packet EXCEPT !.link = l, !.l3 = t]
          /\ reported' = reported \cup
               CASE l = "80211_radio" -> RadiotapRecords [] l = "eth" -> EthernetRecords [] OTHER -> {}
          /\ pc' = IF t \in {"ip", "ip6"} THEN t ELSE "read"
    BY <1>4 DEF Link
  <2>2. packet'.link = l /\ packet'.l3 = t /\ packet'.top = "none"
    <3>1. packet \in Packets /\ packet = NoPacket
      BY <1>4 DEF Link, TypeOK, PacketInv
    <3>2. packet'.link = l /\ packet'.l3 = t /\ packet'.top = packet.top
      BY <2>1, <3>1 DEF Packets
    <3>3. packet.top = "none"
      BY <3>1 DEF NoPacket
    <3> QED
      BY <3>2, <3>3
  <2>3. UNCHANGED <<nread, radiotap>>
    BY <1>4 DEF Link
  <2>4. reported' = reported \cup {Record(mp) : mp \in LinkLayer(packet)'}
    BY <2>1, <2>2, <2>3 DEF LinkLayer, RadiotapRecords, EthernetRecords, Links
  <2>5. Current' = LinkLayer(packet)'
    BY <1>4, <2>3, <2>4, CurrentGrows DEF Link, LayersInv
  <2>6. LinkLayer(packet)' \ {"ip6_mh"} = LinkLayer(packet)'
    BY DEF LinkLayer
  <2>7. pc' = "read" => LayersOf(packet)' = LinkLayer(packet)'
    BY <2>1, <2>2 DEF LayersOf, LinkLayer
  <2> QED
    BY <2>1, <2>5, <2>6, <2>7 DEF LayersInv, LayersReported, Current
<1>5. ASSUME NEW t \in Transports, ReportIp(t), packet.l3 \in {"ip", "ip6"}, packet.top = "none",
             UNCHANGED <<nread, radiotap>>,
             Current \ {packet.l3, "ip6_mh"} = LinkLayer(packet)
      PROVE  LayersInv'
  <2>1. /\ packet'.link = packet.link /\ packet'.l3 = packet.l3 /\ packet'.top = t
        /\ reported' = reported \cup {Record(mp) : mp \in {packet.l3}}
        /\ pc' = IF t = "none" THEN "read" ELSE "transport"
    BY <1>5 DEF ReportIp, TypeOK, Packets
  <2>2. Current' = Current \cup {packet.l3}
    BY <1>5, <2>1, CurrentGrows
  <2>3. LinkLayer(packet)' = LinkLayer(packet)
    BY <1>5, <2>1 DEF LinkLayer
  <2>4. Current' \ {"ip6_mh"} = LinkLayer(packet)' \cup {packet'.l3}
    BY <1>5, <2>1, <2>2, <2>3 DEF LinkLayer
  <2>5. t = "none" => LayersOf(packet)' = LinkLayer(packet)' \cup {packet'.l3}
    BY <1>5, <2>1 DEF LayersOf, LinkLayer
  <2> QED
    BY <2>1, <2>4, <2>5 DEF LayersInv, LayersReported, Current
<1>6. CASE Ip
  <2>1. Current \ {packet.l3, "ip6_mh"} = LinkLayer(packet)
    BY <1>6 DEF Ip, LayersInv, PacketInv, LinkLayer
  <2> QED
    BY <1>5, <1>6, <2>1 DEF Ip, PacketInv
<1>7. CASE Ip6
  <2>1. UNCHANGED <<Current, LinkLayer(packet)>> /\ pc' = "walk"
    BY <1>7 DEF Ip6, Current, LinkLayer
  <2>2. Current \ {"ip6", "ip6_mh"} = LinkLayer(packet)
    BY <1>7 DEF Ip6, LayersInv, LinkLayer
  <2> QED
    BY <2>1, <2>2 DEF LayersInv, LayersReported
<1>8. CASE Walk
  <2>1. UNCHANGED <<nread, radiotap, packet>> /\ pc' \in {"walk", "crashed"}
    BY <1>8 DEF Walk, WalkHeader, MobilityOutcomes
  <2>2. \E M \in SUBSET {"ip6", "ip6_mh"} : reported' = reported \cup {Record(mp) : mp \in M}
    <3>1. CASE UNCHANGED reported
      <4>1. reported' = reported \cup {Record(mp) : mp \in {}}
        BY <3>1
      <4> QED
        BY <4>1
    <3>2. CASE reported' = reported \cup {Record("ip6")}
      <4>1. reported' = reported \cup {Record(mp) : mp \in {"ip6"}}
        BY <3>2
      <4> QED
        BY <4>1
    <3>3. CASE reported' = reported \cup {Record("ip6_mh")}
      <4>1. reported' = reported \cup {Record(mp) : mp \in {"ip6_mh"}}
        BY <3>3
      <4> QED
        BY <4>1
    <3> QED
      BY <1>8, <3>1, <3>2, <3>3 DEF Walk, WalkHeader
  <2>3. Current' \ {"ip6", "ip6_mh"} = Current \ {"ip6", "ip6_mh"}
    BY <2>1, <2>2, CurrentGrows
  <2>4. UNCHANGED LinkLayer(packet)
    BY <2>1 DEF LinkLayer
  <2> QED
    BY <1>8, <2>1, <2>3, <2>4 DEF Walk, LayersInv, LayersReported
<1>9. CASE WalkEnd
  <2>1. Current \ {packet.l3, "ip6_mh"} = LinkLayer(packet)
    BY <1>9 DEF WalkEnd, LayersInv, PacketInv
  <2> QED
    BY <1>5, <1>9, <2>1 DEF WalkEnd, PacketInv
<1>10. CASE Transport
  <2> DEFINE M == CASE packet.top = "icmp_ping" -> {"icmp"} [] packet.top = "icmp6_ping" -> {"icmp6"}
                    [] packet.top \in {"tcp", "udp"} -> {packet.top} [] OTHER -> {}
  <2>1. UNCHANGED <<nread, radiotap, packet>> /\ pc' \in {"read", "crashed"}
    BY <1>10 DEF Transport
  <2>2. reported' = reported \cup {Record(mp) : mp \in M}
    BY <1>10 DEF Transport, TcpUdpRecords, IcmpRecords
  <2>3. Current' = Current \cup M
    BY <2>1, <2>2, CurrentGrows
  <2>4. M \ {"ip6_mh"} = M
    OBVIOUS
  <2>5. LayersOf(packet)' = LinkLayer(packet) \cup {packet.l3} \cup M
    BY <1>10, <2>1 DEF Transport, PacketInv, LayersOf, LinkLayer
  <2>6. Current' \ {"ip6_mh"} = LayersOf(packet)'
    BY <1>10, <2>3, <2>4, <2>5 DEF Transport, LayersInv
  <2> QED
    BY <2>1, <2>6 DEF LayersInv, LayersReported, Current
<1>11. CASE Quit \/ UNCHANGED vars
  BY <1>11 DEF Quit, vars, LayersInv, LayersReported, Current, LinkLayer, LayersOf
<1> QED
  BY <1>1, <1>2, <1>3, <1>4, <1>6, <1>7, <1>8, <1>9, <1>10, <1>11 DEF Next, PerPacket

-----------------------------------------------------------------------------
\* The inductive invariant holds throughout.
LEMMA Invariance == Spec => []Inv
<1>1. Init => Inv
  <2> SUFFICES ASSUME Init PROVE Inv
    OBVIOUS
  <2>1. TypeOK
    <3>1. packet \in Packets /\ reported = {} /\ hdr_next \in NextHeaders
      BY DEF Init, NoPacket, Packets, Links, Transports, NextHeaders
    <3>2. stop_loop \in BOOLEAN /\ radiotap \in BOOLEAN /\ resume \in BOOLEAN
      BY DEF Init
    <3> QED
      BY <3>1, <3>2 DEF Init, TypeOK
  <2>2. NumberInv /\ QuitInv /\ PacketInv /\ LinkInv /\ LayersInv
    BY DEF Init, NumberInv, InHand, QuitInv, QuitStopsReports, PacketInv, LinkInv, LayersInv, LayersReported
  <2> QED
    BY <2>1, <2>2 DEF Inv
<1>2. Inv /\ [Next]_vars => Inv'
  BY TypeStep, NumberStep, QuitStep, PacketStep, LinkStep, LayersStep DEF Inv
<1> QED
  BY <1>1, <1>2, PTL DEF Spec

\* Every variable keeps its type: however long a header's length field says it is, hdr_len stays
\* below 256 bytes and the walk goes on from natural positions (trace_oml_parse_ip6_hdrs()).
THEOREM TypeCorrect == Spec => []TypeOK
<1>1. Inv => TypeOK
  BY DEF Inv
<1> QED
  BY <1>1, Invariance, PTL

\* The pktid of a record is its packet's and of no other, and a transport record never lacks its
\* IP record (run()'s omlc_guid_generate(), per_packet()).
THEOREM RecordsLinked == Spec => []PktidLinks
<1>1. Inv => PktidLinks
  BY DEF Inv, NumberInv, LinkInv, PktidLinks
<1> QED
  BY <1>1, Invariance, PTL

\* No packet that arrives after quit_handler() is reported, wherever the signal meets run() and
\* per_packet().
THEOREM NothingAfterQuit == Spec => []QuitStopsReports
<1>1. Inv => QuitStopsReports
  BY DEF Inv, QuitInv
<1> QED
  BY <1>1, Invariance, PTL

\* per_packet() reports the layers of each packet and no others, whatever the walk over its
\* headers meets.
THEOREM NoLayerLost == Spec => []LayersReported
<1>1. Inv => LayersReported
  BY DEF Inv, LayersInv
<1> QED
  BY <1>1, Invariance, PTL
=============================================================================
