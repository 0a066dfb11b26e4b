------------------------------- MODULE Trace -------------------------------
(***************************************************************************)
(* trace: the capture loop, the report of one packet layer by layer, and   *)
(* the walk over the headers of an IPv6 packet in search of mobility       *)
(* headers, with quit_handler() at any moment.                             *)
(*                                                                         *)
(* A packet is what libtrace finds in it when it is asked.  The bytes the  *)
(* walk looks at are counted in units of 8, the unit of the length field,  *)
(* from the start of the IPv6 header, and chosen when they are first read. *)
(***************************************************************************)
EXTENDS Integers

CONSTANTS
  Lens,         \* values of an extension header's length field, of 0..255
  CaptureUnits, \* units of an IPv6 packet that were captured
  MappedUnits,  \* bound: units of memory that can be read from the start of the packet
  MaxPackets    \* bound: packets captured

ASSUME LensAssumption == Lens \subseteq 0..255
ASSUME UnitsAssumption == CaptureUnits \in Nat /\ MappedUnits \in Nat /\ CaptureUnits <= MappedUnits
ASSUME PacketsAssumption == MaxPackets \in Nat

VARIABLES
  pc,           \* control of the process
  stop_loop,    \* set by quit_handler()
  radiotap,     \* g_opts->radiotap
  packet,       \* the packet in hand
  nread, guids, \* packets read; identifiers omlc_guid_generate() has given out
  pktid,        \* identifier of the packet in hand
  ip6, hdr, hdr_len, hdr_next, resume,  \* trace_oml_parse_ip6_hdrs(): positions and lengths in units
  reported,     \* records injected: measurement point, pktid, and the packet they are of
  quitAt        \* ghost: packets read when the first signal came

walkVars == <<ip6, hdr, hdr_len, hdr_next, resume>>
vars == <<pc, stop_loop, radiotap, packet, nread, guids, pktid, walkVars, reported, quitAt>>

Links == {"80211_radio", "eth", "other"}
Transports == {"none", "icmp_ping", "icmp_other", "tcp", "udp", "icmp6_ping", "icmp6_other", "other",
               "truncated"}   \* what follows the IP header; the last is the start of one of the others
Packets == [link : Links, l3 : {"none", "ip", "ip6", "other"}, top : Transports]
NoPacket == [link |-> "other", l3 |-> "none", top |-> "none"]
NextHeaders == {"none", "ipv6", "routing", "mobil", "other"}   \* DSTOPTS is skipped like ROUTING
Exts == [nxt : NextHeaders, len : Lens]

Ended == pc \in {"done", "failed", "crashed"}

Init ==
  /\ pc = "main" /\ stop_loop = FALSE /\ radiotap \in BOOLEAN
  /\ packet = NoPacket
  /\ nread = 0 /\ guids = 0 /\ pktid = 0
  /\ ip6 = 0 /\ hdr = 0 /\ hdr_len = 0 /\ hdr_next = "none" /\ resume = FALSE
  /\ reported = {} /\ quitAt = 0

\* One oml_inject_*() of the packet in hand; the fields of the record are not told apart.
Record(mp) == [mp |-> mp, pktid |-> pktid, of |-> nread]

-----------------------------------------------------------------------------
(* Start-up and the capture loop *)

\* main(): without OML or an interface there is nothing to do; without the device's dev_type
\* file the radiotap reports are switched off.  The handlers come after omlc_start().
Main ==
  /\ pc = "main"
  /\ \/ pc' = "failed" /\ UNCHANGED radiotap
     \/ pc' = "open" /\ radiotap' \in {radiotap, FALSE}
  /\ UNCHANGED <<stop_loop, packet, nread, guids, pktid, walkVars, reported, quitAt>>

\* run(): trace_create() fails and run() returns; a bad filter or a failed start ends the process;
\* the other options only warn.
Open ==
  /\ pc = "open"
  /\ pc' \in {"close", "failed", "read"}
  /\ UNCHANGED <<stop_loop, radiotap, packet, nread, guids, pktid, walkVars, reported, quitAt>>

\* quit_handler().
Quit ==
  /\ pc # "main" /\ ~Ended
  /\ stop_loop' = TRUE
  /\ quitAt' = IF stop_loop THEN quitAt ELSE nread
  /\ UNCHANGED <<pc, radiotap, packet, nread, guids, pktid, walkVars, reported>>

\* Mutant: the loop tests stop_loop before it waits for a packet.
ReadPacketTestFirst ==
  /\ pc = "read"
  /\ \/ stop_loop /\ pc' = "close" /\ UNCHANGED <<packet, nread, guids, pktid>>
     \/ /\ nread < MaxPackets
        /\ nread' = nread + 1 /\ guids' = guids + 1 /\ pktid' = guids' /\ pc' = "link"
        /\ packet' = NoPacket
  /\ UNCHANGED <<stop_loop, radiotap, walkVars, reported, quitAt>>

\* trace_read_packet(): a packet, or the end of the trace or an error.
ReadPacket ==
  /\ pc = "read"
  /\ \/ pc' = "close" /\ UNCHANGED <<packet, nread>>
     \/ /\ nread < MaxPackets
        /\ packet' = NoPacket /\ nread' = nread + 1 /\ pc' = "test"
  /\ UNCHANGED <<stop_loop, radiotap, guids, pktid, walkVars, reported, quitAt>>

\* Mutant: one identifier for the whole run.
TestOneGuid ==
  /\ pc = "test"
  /\ \/ stop_loop /\ pc' = "close" /\ UNCHANGED pktid
     \/ ~stop_loop /\ pktid' = 1 /\ pc' = "link"
  /\ UNCHANGED <<stop_loop, radiotap, packet, nread, guids, walkVars, reported, quitAt>>

\* The second half of the loop's condition, and the identifier for per_packet().
Test ==
  /\ pc = "test"
  /\ \/ stop_loop /\ pc' = "close" /\ UNCHANGED <<guids, pktid>>
     \/ ~stop_loop /\ guids' = guids + 1 /\ pktid' = guids' /\ pc' = "link"
  /\ UNCHANGED <<stop_loop, radiotap, packet, nread, walkVars, reported, quitAt>>

\* trace_destroy() and omlc_close().
Close ==
  /\ pc = "close" /\ pc' = "done"
  /\ UNCHANGED <<stop_loop, radiotap, packet, nread, guids, pktid, walkVars, reported, quitAt>>

-----------------------------------------------------------------------------
(* per_packet() *)

\* trace_oml_inject_radiotap(), whose fields stay unset when the header lacks them.
RadiotapRecords == IF radiotap THEN {Record("radiotap")} ELSE {}

\* trace_oml_inject_ethernet().
EthernetRecords == {Record("ethernet")}

\* The link layer; then the switch on the layer 3 type.
Link ==
  /\ pc = "link"
  /\ \E l \in Links, t \in {"none", "ip", "ip6", "other"} :
       /\ packet' = [packet EXCEPT !.link = l, !.l3 = t]
       /\ reported' = reported \cup
            CASE l = "80211_radio" -> RadiotapRecords [] l = "eth" -> EthernetRecords [] OTHER -> {}
       /\ pc' = IF t \in {"ip", "ip6"} THEN t ELSE "read"
  /\ UNCHANGED <<stop_loop, radiotap, nread, guids, pktid, walkVars, quitAt>>

\* The IP header is reported, whether or not a transport header t follows it.
ReportIp(t) ==
  /\ reported' = reported \cup {Record(packet.l3)}
  /\ packet' = [packet EXCEPT !.top = t]
  /\ pc' = IF t = "none" THEN "read" ELSE "transport"

\* IPv4: trace_get_payload_from_ip() and trace_oml_inject_ip().
Ip ==
  /\ pc = "ip"
  /\ \E t \in Transports : ReportIp(t)
  /\ UNCHANGED <<stop_loop, radiotap, nread, guids, pktid, walkVars, quitAt>>

\* trace_oml_parse_ip6_hdrs() of the IPv6 header at position p: hdr_len is the size of a pointer,
\* one unit, and not of the header.
WalkFrom(p) ==
  /\ ip6' = p /\ hdr' = p /\ hdr_len' = 1 /\ hdr_next' \in NextHeaders /\ resume' = FALSE

\* IPv6: the walk comes first.
Ip6 ==
  /\ pc = "ip6"
  /\ WalkFrom(0) /\ pc' = "walk"
  /\ UNCHANGED <<stop_loop, radiotap, packet, nread, guids, pktid, reported, quitAt>>

\* A mobility header that is neither a BU nor a BAck leaves the type a wild pointer.
MobilityOutcomes == {"walk", "crashed"}

\* Mutant: the length does not wrap.
ExtLenWide(e) == e.len + 1

\* hdr_len is a uint8_t: of 8 * len + 8 bytes it keeps what is left modulo 256.
ExtLen(e) == (e.len + 1) % 32

\* One header of type hdr_next at position h, with bytes e: what the switch does with it.
WalkHeader(h, e) ==
  \/ /\ hdr_next = "ipv6"
     /\ reported' = reported \cup {Record("ip6")}
     /\ WalkFrom(h) /\ pc' = "walk"
  \/ /\ hdr_next # "ipv6"
     /\ hdr' = h /\ hdr_len' = ExtLen(e) /\ hdr_next' = e.nxt
     /\ resume' = (hdr_next = "other")
     /\ reported' = reported \cup IF hdr_next = "mobil" THEN {Record("ip6_mh")} ELSE {}
     /\ pc' \in IF hdr_next = "mobil" THEN MobilityOutcomes ELSE {"walk"}
     /\ UNCHANGED ip6

\* Mutant: the pointer is not moved on.
WalkStandsStill ==
  /\ pc = "walk" /\ hdr_next # "none" /\ ~resume
  /\ \E e \in Exts : WalkHeader(hdr, e)
  /\ UNCHANGED <<stop_loop, radiotap, packet, nread, guids, pktid, quitAt>>

\* while (hdr_next != NONE && !resume): the pointer moves by hdr_len; when it stays, the bytes are
\* the ones that gave hdr_next and hdr_len.  Nothing compares it with the end of the packet.
Walk ==
  /\ pc = "walk" /\ hdr_next # "none" /\ ~resume
  /\ LET h == hdr + hdr_len
     IN  \/ /\ h < MappedUnits
            /\ \E e \in IF hdr_len = 0 THEN {[nxt |-> hdr_next, len |-> 31]} ELSE Exts : WalkHeader(h, e)
         \/ /\ h >= CaptureUnits
            /\ pc' = "crashed" /\ UNCHANGED <<walkVars, reported>>
  /\ UNCHANGED <<stop_loop, radiotap, packet, nread, guids, pktid, quitAt>>

\* trace_oml_parse_ip6_hdrs() returns.
WalkReturn == ip6' = 0 /\ hdr' = 0 /\ hdr_len' = 0 /\ hdr_next' = "none" /\ resume' = FALSE

\* Mutant: a packet whose walk met a header it does not know is not reported.
WalkEndDrops ==
  /\ pc = "walk" /\ (hdr_next = "none" \/ resume)
  /\ \/ resume /\ pc' = "read" /\ UNCHANGED <<reported, packet>>
     \/ ~resume /\ \E t \in Transports : ReportIp(t)
  /\ WalkReturn
  /\ UNCHANGED <<stop_loop, radiotap, nread, guids, pktid, quitAt>>

\* The walk is over: trace_get_payload_from_ip6() and the record of the packet's own IPv6 header.
WalkEnd ==
  /\ pc = "walk" /\ (hdr_next = "none" \/ resume)
  /\ \E t \in Transports : ReportIp(t)
  /\ WalkReturn
  /\ UNCHANGED <<stop_loop, radiotap, nread, guids, pktid, quitAt>>

\* trace_oml_inject_tcp() and trace_oml_inject_udp(), with or without a payload.
TcpUdpRecords == IF packet.top \in {"tcp", "udp"} THEN {Record(packet.top)} ELSE {}

\* trace_oml_inject_icmp(): of ICMP only echo requests and replies are reported.
IcmpRecords ==
  CASE packet.top = "icmp_ping" -> {Record("icmp")}
    [] packet.top = "icmp6_ping" -> {Record("icmp6")}
    [] OTHER -> {}

\* The transport header; of a truncated one libtrace returns NULL, which is dereferenced.
Transport ==
  /\ pc = "transport"
  /\ reported' = reported \cup TcpUdpRecords \cup IcmpRecords
  /\ pc' = IF packet.top = "truncated" THEN "crashed" ELSE "read"
  /\ UNCHANGED <<stop_loop, radiotap, packet, nread, guids, pktid, walkVars, quitAt>>

-----------------------------------------------------------------------------
PerPacket == Test \/ Link \/ Ip \/ Ip6 \/ Walk \/ WalkEnd \/ Transport

Next == Main \/ Open \/ Quit \/ ReadPacket \/ PerPacket \/ Close

Spec == Init /\ [][Next]_vars

\* The process runs on while it has a packet in hand; that there is another packet nobody promises.
FairSpec == Spec /\ WF_vars(PerPacket)

-----------------------------------------------------------------------------
(* Properties *)

MPs == {"ethernet", "radiotap", "ip", "ip6", "ip6_mh", "tcp", "udp", "icmp", "icmp6"}

\* The types of the process's state and of the walk's.
TypeOK ==
  /\ pc \in {"main", "open", "read", "test", "link", "ip", "ip6", "walk", "transport", "close",
             "done", "failed", "crashed"}
  /\ stop_loop \in BOOLEAN /\ radiotap \in BOOLEAN /\ packet \in Packets
  /\ nread \in Nat /\ guids \in Nat /\ pktid \in Nat /\ quitAt \in Nat
  /\ ip6 \in Nat /\ hdr \in Nat /\ hdr_len \in 0..31 /\ hdr_next \in NextHeaders
  /\ resume \in BOOLEAN
  /\ reported \subseteq [mp : MPs, pktid : Nat, of : Nat]

\* "The pktid field in all MPs can be used to link information about the multiple protocols
\* encapsulated in the same packet": one identifier is one packet, and whoever finds a transport
\* record finds the IP record it belongs to, however the walk over the headers went.
PktidLinks ==
  /\ \A r, s \in reported : r.pktid = s.pktid <=> r.of = s.of
  /\ \A r \in reported : r.mp \in {"tcp", "udp", "icmp", "icmp6"} =>
       \E s \in reported : s.pktid = r.pktid /\ s.mp \in {"ip", "ip6"}

\* Nothing of a packet that arrived after quit_handler() is reported: trace_read_packet() may
\* have been waiting for it since before the signal.
QuitStopsReports == stop_loop => \A r \in reported : r.of <= quitAt

\* The layers the documentation promises for a packet; the walk adds mobility headers to them.
LayersOf(p) ==
  (CASE p.link = "eth" -> {"ethernet"} [] p.link = "80211_radio" /\ radiotap -> {"radiotap"} [] OTHER -> {})
  \cup (IF p.l3 \in {"ip", "ip6"} THEN {p.l3} ELSE {})
  \cup (CASE p.top = "icmp_ping" -> {"icmp"} [] p.top = "icmp6_ping" -> {"icmp6"}
          [] p.top \in {"tcp", "udp"} -> {p.top} [] OTHER -> {})

\* per_packet() reports every layer of a packet and no other: nothing that the walk over an
\* IPv6 packet's headers runs into makes it leave one out.
LayersReported ==
  pc = "read" /\ guids > 0 =>
    {r.mp : r \in {s \in reported : s.of = nread}} \ {"ip6_mh"} = LayersOf(packet)

\* Each packet is done with, or the process ends, unless the walk meets a length field of which
\* the 8 bits of hdr_len keep nothing and stays on that header for ever.
PacketsDone == pc = "link" ~> (pc = "read" \/ Ended \/ (pc = "walk" /\ hdr_len = 0))

\* "it's fine as long as the loop below advances the pointer to the real option before accessing
\* any field": no header the walk reads lies inside the 5 units of an IPv6 header.
WalkOnHeaders == hdr = ip6 \/ hdr >= ip6 + 5
=============================================================================
