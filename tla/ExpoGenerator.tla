--------------------------- MODULE ExpoGenerator ---------------------------
(***************************************************************************)
(* Expo_Generator: bursts of packets with idle times in between, made by   *)
(* the stream thread's nextPacket() while the main thread sets the size of *)
(* the packets.                                                            *)
(*                                                                         *)
(* Time is counted in the bits the flow's rate lets through, so that a     *)
(* packet lasts 8 units per byte.  The rate and the two mean times are     *)
(* doubles, of which popt writes 4 bytes when it stores an option as a     *)
(* float, the low ones of the mantissa: they stay what they were built as. *)
(***************************************************************************)
EXTENDS Integers, Sequences

CONSTANTS
  Sizes,            \* values of --exp:size
  Ontime, Offtime,  \* mean length of a burst and of an idle time
  Word,             \* how many values rem_ has, a power of 2
  Samples,          \* values of -log(rand() / RAND_MAX), taken to be whole numbers
  Unset,            \* what pktInterval_ may hold when nothing has set it
  MaxPkts,          \* bound: packets made
  MaxSets           \* bound: sizes set while the stream runs

VARIABLES
  pc, t, payload,   \* nextPacket(): control, the interval it began with, the packet's size
  pktSize_, pktInterval_, lastPktStamp_, rem_,
  sets,             \* counter for the bound
  raced,            \* ghost: the size was set between nextPacket()'s two readings of it
  made, pkts,       \* ghosts: how many packets were made, and the last two of them
  bursts            \* ghost: of the last two bursts, the length drawn and the packets made

vars == <<pc, t, payload, pktSize_, pktInterval_, lastPktStamp_, rem_, sets, raced, made, pkts, bursts>>

LastTwo(s) == IF Len(s) <= 2 THEN s ELSE SubSeq(s, Len(s) - 1, Len(s))

\* ExponentialRandomVariable::getSample(): any sample; that two of one second are the same, as
\* rand() is seeded with the time, is among the choices.
GetSample(mean) == {mean * n : n \in Samples}

\* int(burstLength_.getSample() + .5).  Packets that last no time make the mean infinite, and the
\* conversion to int undefined: it yields 0, or the largest or the smallest int.
BurstLengths ==
  IF pktInterval_' = 0
  THEN {0, Word \div 2 - 1, Word \div 2}
  ELSE {(2 * b + pktInterval_') \div (2 * pktInterval_') : b \in GetSample(Ontime)}

\* The constructor, the options and init().
Init ==
  /\ pc = "size" /\ t = 0 /\ payload = 0
  /\ pktSize_ \in Sizes /\ pktInterval_ \in Unset /\ lastPktStamp_ = 0 /\ rem_ = 0
  /\ sets = 0 /\ raced = FALSE
  /\ made = 0 /\ pkts = <<>> /\ bursts = <<>>

\* nextPacket(): the interval of the packet before, and setPayloadSize().
NextSize ==
  /\ pc = "size" /\ made < MaxPkts
  /\ t' = pktInterval_ /\ payload' = pktSize_
  /\ pc' = "interval"
  /\ UNCHANGED <<pktSize_, pktInterval_, lastPktStamp_, rem_, sets, raced, made, pkts, bursts>>

\* Mutant: a burst may be of no packet.
DrawBurstEmpty(n) == rem_' = n /\ bursts' = LastTwo(Append(bursts, [drawn |-> n, made |-> 0]))

\* The number of packets in the next burst: n, but 1 at least.
DrawBurst(n) ==
  /\ rem_' = IF n = 0 THEN 1 ELSE n
  /\ bursts' = LastTwo(Append(bursts, [drawn |-> rem_', made |-> 0]))

\* nextPacket(): the interval of this packet, from pktSize_ as it is now; with rem_ = 0 a new burst.
NextInterval ==
  /\ pc = "interval"
  /\ pktInterval_' = 8 * pktSize_
  /\ \/ rem_ = 0 /\ (\E n \in BurstLengths : DrawBurst(n)) /\ pc' = "idle"
     \/ rem_ # 0 /\ pc' = "stamp" /\ UNCHANGED <<rem_, bursts>>
  /\ UNCHANGED <<t, payload, pktSize_, lastPktStamp_, sets, raced, made, pkts>>

\* nextPacket(): the idle time before a burst.
NextIdle ==
  /\ pc = "idle"
  /\ \E idle \in GetSample(Offtime) : lastPktStamp_' = lastPktStamp_ + idle
  /\ pc' = "stamp"
  /\ UNCHANGED <<t, payload, pktSize_, pktInterval_, rem_, sets, raced, made, pkts, bursts>>

\* Mutant: the packet waits for its own interval and not for that of the one before.
NextStampOwn ==
  /\ pc = "stamp"
  /\ rem_' = (rem_ - 1) % Word
  /\ lastPktStamp_' = lastPktStamp_ + pktInterval_
  /\ made' = made + 1
  /\ pkts' = LastTwo(Append(pkts, [size |-> payload, tx |-> lastPktStamp_', raced |-> raced]))
  /\ bursts' = [bursts EXCEPT ![Len(bursts)].made = @ + 1]
  /\ pc' = "size" /\ t' = 0 /\ payload' = 0 /\ raced' = FALSE
  /\ UNCHANGED <<pktSize_, pktInterval_, sets>>

\* nextPacket(): rem_--, and the time to send; _run() then waits for it and sends the packet.
NextStamp ==
  /\ pc = "stamp"
  /\ rem_' = (rem_ - 1) % Word
  /\ lastPktStamp_' = lastPktStamp_ + t
  /\ made' = made + 1
  /\ pkts' = LastTwo(Append(pkts, [size |-> payload, tx |-> lastPktStamp_', raced |-> raced]))
  /\ bursts' = [bursts EXCEPT ![Len(bursts)].made = @ + 1]
  /\ pc' = "size" /\ t' = 0 /\ payload' = 0 /\ raced' = FALSE
  /\ UNCHANGED <<pktSize_, pktInterval_, sets>>

\* --exp:size, from the main thread; the update() that follows sets a mean to what it is already.
OptSize ==
  /\ sets < MaxSets /\ sets' = sets + 1
  /\ pktSize_' \in Sizes
  /\ raced' = (raced \/ pc = "interval")
  /\ UNCHANGED <<pc, t, payload, pktInterval_, lastPktStamp_, rem_, made, pkts, bursts>>

Next == NextSize \/ NextInterval \/ NextIdle \/ NextStamp \/ OptSize

-----------------------------------------------------------------------------
(* Properties *)

\* "Data rate of the flow": no packet is due before the one before it has passed at that rate,
\* within a burst and across an idle time and whatever the sizes, unless a size was set between
\* the two readings of it for the one before.  What pktInterval_ held at first concerns no pair of packets.
RateKept ==
  \A n \in 2..Len(pkts) :
    pkts[n - 1].raced \/ pkts[n].tx >= pkts[n - 1].tx + 8 * pkts[n - 1].size

\* A burst is over when it has as many packets as were drawn for it, and has one at least: rem_ is
\* unsigned, and never counts down past 0.
BurstsWhole ==
  \A n \in 1..Len(bursts) :
    LET over == n < Len(bursts) \/ (pc = "size" /\ rem_ = 0)
    IN  /\ bursts[n].made <= bursts[n].drawn
        /\ over => bursts[n].made = bursts[n].drawn
=============================================================================
