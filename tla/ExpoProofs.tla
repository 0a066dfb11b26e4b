----------------------------- MODULE ExpoProofs -----------------------------
(***************************************************************************)
(* Proofs about the exponential generator of MCParts, for any sizes, mean  *)
(* times and samples, any number of packets and of sizes set.              *)
(***************************************************************************)
EXTENDS MCParts, TLAPS

PktRecords == [size : Nat, tx : Int, raced : BOOLEAN]
BurstRecords == [drawn : Nat, made : Nat]

GeneratorTypes ==
  /\ ePc \in {"size", "interval", "idle", "stamp"}
  /\ eT \in Int /\ ePayload \in Nat /\ eSize \in Nat /\ eInterval \in Int /\ eStamp \in Int
  /\ eRem \in 0..RemWord - 1 /\ eRaced \in BOOLEAN
  /\ ePkts \in Seq(PktRecords) /\ Len(ePkts) <= 2
  /\ eBursts \in Seq(BurstRecords) /\ Len(eBursts) <= 2

Last(s) == s[Len(s)]

\* The interval nextPacket() waits for is that of the packet before, unless a size was set between its
\* two readings of pktSize_; what is in the making is of the size and interval it began with.
RateInv ==
  /\ ePc = "size" => ~eRaced
  /\ ePc = "interval" => eRaced \/ eSize = ePayload
  /\ ePc \in {"idle", "stamp"} => eRaced \/ eInterval = 8 * ePayload
  /\ ePc \in {"idle", "stamp"} => eInterval >= 0
  /\ ePkts # <<>> /\ ePc = "size" =>
       eStamp = Last(ePkts).tx /\ (Last(ePkts).raced \/ eInterval = 8 * Last(ePkts).size)
  /\ ePkts # <<>> /\ ePc # "size" =>
       eStamp >= Last(ePkts).tx /\ (Last(ePkts).raced \/ eT = 8 * Last(ePkts).size)
  /\ E!RateKept

\* rem_ is what is left of the last burst, and is not 0 when it is counted down.
BurstInv ==
  /\ ePc \in {"idle", "stamp"} => eRem # 0
  /\ eBursts = <<>> => eRem = 0
  /\ eBursts # <<>> => Last(eBursts).made + eRem = Last(eBursts).drawn
  /\ Len(eBursts) = 2 => eBursts[1].made = eBursts[1].drawn

Inv == GeneratorTypes /\ RateInv /\ BurstInv

-----------------------------------------------------------------------------
\* The step of MCParts is one of the generator's, or leaves its variables alone.
LEMMA ExpoSteps == (Init => E!Init) /\ ([Next]_vars => [E!Next]_E!vars)
BY DEF Init, Next, vars, Wpamon, NMetrics, GpsLogger, RipwaveMon, Expo, eVars, E!vars

\* The last element of a sequence is one of its elements.
LEMMA LastIn ==
  ASSUME NEW S, NEW s \in Seq(S), s # <<>>
  PROVE  Len(s) \in Nat \ {0} /\ Last(s) \in S
BY DEF Last

\* Of a history of two and a new element, the new one and the one before it are kept.
LEMMA LastTwoKept ==
  ASSUME NEW S, NEW s \in Seq(S), Len(s) <= 2, NEW e \in S
  PROVE  /\ E!LastTwo(Append(s, e)) \in Seq(S)
         /\ Len(E!LastTwo(Append(s, e))) <= 2 /\ E!LastTwo(Append(s, e)) # <<>>
         /\ Last(E!LastTwo(Append(s, e))) = e
         /\ Len(E!LastTwo(Append(s, e))) = 2 => s # <<>> /\ E!LastTwo(Append(s, e))[1] = Last(s)
<1> DEFINE a == Append(s, e)
<1>1. /\ a \in Seq(S) /\ Len(a) = Len(s) + 1 /\ Len(s) \in Nat
      /\ a[Len(s) + 1] = e /\ \A i \in 1..Len(s) : a[i] = s[i]
  OBVIOUS
<1> HIDE DEF a
<1>2. CASE Len(s) < 2
  <2>1. E!LastTwo(a) = a
    BY <1>1, <1>2 DEF E!LastTwo
  <2> QED
    BY <1>1, <1>2, <2>1 DEF Last, a
<1>3. CASE Len(s) = 2
  <2>1. E!LastTwo(a) = SubSeq(a, 2, 3)
    BY <1>1, <1>3 DEF E!LastTwo
  <2>2. /\ SubSeq(a, 2, 3) \in Seq(S) /\ Len(SubSeq(a, 2, 3)) = 2
        /\ SubSeq(a, 2, 3)[1] = a[2] /\ SubSeq(a, 2, 3)[2] = a[3]
    BY <1>1, <1>3
  <2> QED
    BY <1>1, <1>3, <2>1, <2>2 DEF Last, a
<1>4. Len(s) < 2 \/ Len(s) = 2
  <2>1. Len(s) \in Nat
    OBVIOUS
  <2> QED
    BY <2>1
<1> QED
  BY <1>2, <1>3, <1>4

\* A mean burst of b bits is b packets at most, however short they are.
LEMMA BurstFits ==
  ASSUME NEW b \in Nat, NEW I \in Nat \ {0}
  PROVE  (2 * b + I) \div (2 * I) \in 0..b
<1> DEFINE n == (2 * b + I) \div (2 * I)
<1>1. n \in Int /\ (2 * I) * n <= 2 * b + I /\ 2 * b + I < (2 * I) * n + 2 * I
  OBVIOUS
<1> HIDE DEF n
<1>2. n >= 0
  <2>1. ASSUME n <= -1 PROVE FALSE
    <3>1. (2 * I) * n <= (2 * I) * (-1)
      BY <1>1, <2>1
    <3> QED
      BY <1>1, <3>1
  <2> QED
    BY <1>1, <2>1
<1>3. n <= b
  <2>1. ASSUME n >= b + 1 PROVE FALSE
    <3>1. (2 * I) * n >= (2 * I) * (b + 1)
      BY <1>1, <2>1
    <3>2. (2 * I) * (b + 1) = 2 * (I * b) + 2 * I
      OBVIOUS
    <3>3. I * b >= b
      OBVIOUS
    <3> QED
      BY <1>1, <3>1, <3>2, <3>3
  <2> QED
    BY <1>1, <2>1
<1> QED
  BY <1>1, <1>2, <1>3 DEF n

\* What DrawBurst puts into rem_ fits there, and is never 0.
LEMMA BurstDrawn ==
  ASSUME GeneratorTypes, E!NextInterval, eRem = 0
  PROVE  \E n \in 1..RemWord - 1 :
           /\ eRem' = n /\ eBursts' = E!LastTwo(Append(eBursts, [drawn |-> n, made |-> 0]))
           /\ ePc' = "idle"
<1>1. PICK n \in E!BurstLengths : E!DrawBurst(n) /\ ePc' = "idle"
  BY DEF E!NextInterval
<1>2. n \in 0..RemWord - 1
  <2>1. RemWord \in Nat /\ RemWord >= 2
    BY BurstsAssumption
  <2>2. CASE eInterval' = 0
    <3>1. n \in {0, RemWord \div 2 - 1, RemWord \div 2}
      BY <1>1, <2>2 DEF E!BurstLengths
    <3> QED
      BY <2>1, <3>1
  <2>3. CASE eInterval' # 0
    <3>1. eInterval' \in Nat \ {0}
      BY <2>3 DEF E!NextInterval, GeneratorTypes
    <3>2. PICK s \in Samples : n = (2 * (Ontime * s) + eInterval') \div (2 * eInterval')
      BY <1>1, <2>3 DEF E!BurstLengths, E!GetSample
    <3>3. Ontime * s \in Nat /\ Ontime * s < RemWord
      BY FlowAssumption, BurstsAssumption
    <3>4. n \in 0..Ontime * s
      BY <3>1, <3>2, <3>3, BurstFits
    <3> QED
      BY <2>1, <3>3, <3>4
  <2> QED
    BY <2>2, <2>3
<1> DEFINE m == IF n = 0 THEN 1 ELSE n
<1>3. eRem' = m /\ m \in 1..RemWord - 1
  BY <1>1, <1>2, BurstsAssumption DEF E!DrawBurst
<1> QED
  BY <1>1, <1>3 DEF E!DrawBurst

-----------------------------------------------------------------------------
\* The types, the rate and the burst after each step of nextPacket().
LEMMA SizeStep == Inv /\ E!NextSize => Inv'
<1> SUFFICES ASSUME Inv, E!NextSize PROVE Inv'
  OBVIOUS
<1>1. GeneratorTypes'
  BY DEF Inv, GeneratorTypes, E!NextSize
<1>2. RateInv'
  BY DEF Inv, GeneratorTypes, RateInv, E!RateKept, E!NextSize, Last
<1>3. BurstInv'
  BY DEF Inv, BurstInv, E!NextSize, Last
<1> QED
  BY <1>1, <1>2, <1>3 DEF Inv

\* The interval is computed from the payload in hand, unless an option came between.
LEMMA IntervalStep == Inv /\ E!NextInterval => Inv'
<1> SUFFICES ASSUME Inv, E!NextInterval PROVE Inv'
  OBVIOUS
<1>1. /\ ePc = "interval" /\ ePc' \in {"idle", "stamp"} /\ eInterval' = 8 * eSize
      /\ UNCHANGED <<eT, ePayload, eSize, eStamp, eSets, eRaced, eMade, ePkts>>
  BY DEF E!NextInterval
<1>2. RateInv'
  BY <1>1 DEF Inv, GeneratorTypes, RateInv, E!RateKept, Last
<1>3. CASE eRem # 0
  <2>1. UNCHANGED <<eRem, eBursts>>
    BY <1>3 DEF E!NextInterval
  <2> QED
    BY <1>1, <1>2, <1>3, <2>1 DEF Inv, GeneratorTypes, BurstInv, Last
<1>4. CASE eRem = 0
  <2>1. PICK n \in 1..RemWord - 1 :
          eRem' = n /\ eBursts' = E!LastTwo(Append(eBursts, [drawn |-> n, made |-> 0])) /\ ePc' = "idle"
    BY <1>4, BurstDrawn DEF Inv
  <2>2. n \in Nat /\ n # 0 /\ n \in 0..RemWord - 1
    BY BurstsAssumption
  <2>3. [drawn |-> n, made |-> 0] \in BurstRecords /\ eBursts \in Seq(BurstRecords) /\ Len(eBursts) <= 2
    BY <2>2 DEF BurstRecords, Inv, GeneratorTypes
  <2>4. /\ eBursts' \in Seq(BurstRecords) /\ Len(eBursts') <= 2 /\ eBursts' # <<>>
        /\ Last(eBursts') = [drawn |-> n, made |-> 0]
        /\ Len(eBursts') = 2 => eBursts # <<>> /\ eBursts'[1] = Last(eBursts)
    BY <2>1, <2>3, LastTwoKept
  <2>5. GeneratorTypes'
    <3>1. eRaced' \in BOOLEAN /\ Len(eBursts') <= 2
      BY <1>1, <2>4 DEF Inv, GeneratorTypes
    <3> QED
      BY <1>1, <2>1, <2>2, <2>4, <3>1 DEF Inv, GeneratorTypes
  <2>6. eBursts # <<>> => Last(eBursts).made = Last(eBursts).drawn
    <3>1. eBursts # <<>> => Last(eBursts) \in BurstRecords
      BY <2>3 DEF Last
    <3> QED
      BY <1>4, <3>1 DEF Inv, BurstInv, BurstRecords
  <2>7. BurstInv'
    <3>1. Last(eBursts').made = 0 /\ Last(eBursts').drawn = n
      BY <2>4
    <3> QED
      BY <2>1, <2>2, <2>4, <2>6, <3>1 DEF BurstInv
  <2> QED
    BY <1>2, <2>5, <2>7 DEF Inv
<1> QED
  BY <1>3, <1>4

\* A silence only moves the stamp forward.
LEMMA IdleStep == Inv /\ E!NextIdle => Inv'
<1> SUFFICES ASSUME Inv, E!NextIdle PROVE Inv'
  OBVIOUS
<1>1. PICK n \in Samples : eStamp' = eStamp + Offtime * n
  BY DEF E!NextIdle, E!GetSample
<1>2. Offtime * n \in Nat
  BY FlowAssumption
<1>3. /\ ePc = "idle" /\ ePc' = "stamp" /\ eStamp' \in Int /\ eStamp' >= eStamp
      /\ UNCHANGED <<eT, ePayload, eSize, eInterval, eRem, eSets, eRaced, eMade, ePkts, eBursts>>
  BY <1>1, <1>2 DEF E!NextIdle, Inv, GeneratorTypes
<1>4. GeneratorTypes'
  BY <1>3 DEF Inv, GeneratorTypes
<1>5. RateInv'
  <2>1. ePkts # <<>> => Last(ePkts).tx \in Int
    <3>1. ePkts # <<>> => Last(ePkts) \in PktRecords
      BY LastIn DEF Inv, GeneratorTypes
    <3> QED
      BY <3>1 DEF PktRecords
  <2>2. eStamp \in Int
    BY DEF Inv, GeneratorTypes
  <2> QED
    BY <1>3, <2>1, <2>2 DEF Inv, RateInv, E!RateKept, Last
<1>6. BurstInv'
  BY <1>3 DEF Inv, BurstInv, Last
<1> QED
  BY <1>4, <1>5, <1>6 DEF Inv

\* A stamped packet is due after the one before it has passed, and takes one off its burst.
LEMMA StampStep == Inv /\ E!NextStamp => Inv'
<1> SUFFICES ASSUME Inv, E!NextStamp PROVE Inv'
  OBVIOUS
<1> DEFINE new == [size |-> ePayload, tx |-> eStamp + eT, raced |-> eRaced]
           n == Len(eBursts)
<1>1. /\ ePc = "stamp" /\ ePc' = "size" /\ eStamp' = eStamp + eT /\ eT' = 0 /\ ePayload' = 0
      /\ eRaced' = FALSE /\ UNCHANGED <<eSize, eInterval>>
      /\ eRem' = (eRem - 1) % RemWord /\ ePkts' = E!LastTwo(Append(ePkts, new))
      /\ eBursts' = [eBursts EXCEPT ![n].made = @ + 1]
  BY DEF E!NextStamp
<1>2. eRem' = eRem - 1 /\ eRem' \in 0..RemWord - 1 /\ eRem \in Nat
  <2>1. eRem \in 0..RemWord - 1 /\ eRem # 0 /\ RemWord \in Nat /\ RemWord > 0
    BY <1>1, BurstsAssumption DEF Inv, GeneratorTypes, BurstInv
  <2>2. eRem - 1 = RemWord * 0 + (eRem - 1) /\ (eRem - 1) \in 0..RemWord - 1
    BY <2>1
  <2>3. (eRem - 1) % RemWord = eRem - 1
    BY <2>1, <2>2
  <2> QED
    BY <1>1, <2>1, <2>3
<1>3. /\ eBursts \in Seq(BurstRecords) /\ n <= 2 /\ n \in Nat \ {0} /\ eBursts[n] \in BurstRecords
      /\ eBursts[n].made + eRem = eBursts[n].drawn
  <2>1. eBursts \in Seq(BurstRecords) /\ Len(eBursts) <= 2 /\ eBursts # <<>>
    BY <1>1 DEF Inv, GeneratorTypes, BurstInv
  <2>2. Len(eBursts) \in Nat \ {0} /\ Last(eBursts) \in BurstRecords
    BY <2>1, LastIn
  <2>3. Last(eBursts).made + eRem = Last(eBursts).drawn
    BY <2>1 DEF Inv, BurstInv
  <2> QED
    BY <2>1, <2>2, <2>3 DEF Last
<1>4. /\ eBursts' \in Seq(BurstRecords) /\ Len(eBursts') = n
      /\ eBursts'[n] = [eBursts[n] EXCEPT !.made = eBursts[n].made + 1]
      /\ \A i \in 1..n : i # n => eBursts'[i] = eBursts[i]
  <2>1. [eBursts[n] EXCEPT !.made = eBursts[n].made + 1] \in BurstRecords
    BY <1>3 DEF BurstRecords
  <2>2. eBursts \in [1..n -> BurstRecords]
    BY <1>3
  <2>3. eBursts' \in [1..n -> BurstRecords]
    BY <1>1, <2>1, <2>2, Zenon
  <2>4. eBursts' \in Seq(BurstRecords) /\ Len(eBursts') = n
    BY <1>3, <2>3
  <2> QED
    BY <1>1, <1>3, <2>2, <2>4
<1>5. new \in PktRecords /\ ePkts \in Seq(PktRecords) /\ Len(ePkts) <= 2
  BY DEF Inv, GeneratorTypes, PktRecords
<1>6. /\ ePkts' \in Seq(PktRecords) /\ Len(ePkts') <= 2 /\ ePkts' # <<>> /\ Last(ePkts') = new
      /\ Len(ePkts') = 2 => ePkts # <<>> /\ ePkts'[1] = Last(ePkts)
  BY <1>1, <1>5, LastTwoKept
<1>7. GeneratorTypes'
  <2>1. eRaced' \in BOOLEAN
    BY <1>1
  <2>2. eStamp' \in Int /\ eSize' \in Nat /\ eInterval' \in Int
    BY <1>1 DEF Inv, GeneratorTypes
  <2> QED
    BY <1>1, <1>2, <1>3, <1>4, <1>6, <2>1, <2>2 DEF GeneratorTypes
<1>8. RateInv'
  <2>1. Last(ePkts').size = ePayload /\ Last(ePkts').tx = eStamp' /\ Last(ePkts').raced = eRaced
    BY <1>1, <1>6
  <2>2. eRaced \/ eInterval = 8 * ePayload
    BY <1>1 DEF Inv, RateInv
  <2>3. E!RateKept'
    <3>1. ePkts # <<>> =>
            Last(ePkts).tx \in Int /\ Last(ePkts).size \in Nat /\ eStamp \in Int /\ eT \in Int
      <4>1. ePkts # <<>> => Last(ePkts) \in PktRecords
        BY <1>5, LastIn
      <4>2. eStamp \in Int /\ eT \in Int
        BY DEF Inv, GeneratorTypes
      <4> QED
        BY <4>1, <4>2 DEF PktRecords
    <3>2. ePkts # <<>> => Last(ePkts).raced \/ eStamp + eT >= Last(ePkts).tx + 8 * Last(ePkts).size
      BY <1>1, <3>1 DEF Inv, RateInv
    <3>3. Len(ePkts') = 2 =>
            ePkts'[1].raced \/ ePkts'[2].tx >= ePkts'[1].tx + 8 * ePkts'[1].size
      BY <1>1, <1>6, <2>1, <3>2 DEF Last
    <3>4. ASSUME NEW i \in 2..Len(ePkts')
          PROVE  ePkts'[i - 1].raced \/ ePkts'[i].tx >= ePkts'[i - 1].tx + 8 * ePkts'[i - 1].size
      <4>1. ePkts' \in Seq(PktRecords) /\ Len(ePkts') <= 2
        BY <1>6
      <4>2. i = 2 /\ Len(ePkts') = 2
        BY <3>4, <4>1
      <4> QED
        BY <3>3, <4>2
    <3> QED
      BY <3>4 DEF E!RateKept
  <2> QED
    BY <1>1, <2>1, <2>2, <2>3 DEF RateInv
<1>9. BurstInv'
  <2>1. Last(eBursts').made = eBursts[n].made + 1 /\ Last(eBursts').drawn = eBursts[n].drawn
    BY <1>3, <1>4 DEF Last, BurstRecords
  <2>2. Last(eBursts').made + eRem' = Last(eBursts').drawn
    BY <1>2, <1>3, <2>1 DEF BurstRecords
  <2>3. Len(eBursts') = 2 => eBursts'[1] = eBursts[1]
    BY <1>4
  <2> QED
    BY <1>1, <1>3, <1>4, <2>2, <2>3 DEF Inv, BurstInv
<1> QED
  BY <1>7, <1>8, <1>9 DEF Inv

\* An option for the size changes nothing of the packets made.
LEMMA OptStep == Inv /\ E!OptSize => Inv'
<1> SUFFICES ASSUME Inv, E!OptSize PROVE Inv'
  OBVIOUS
<1>1. /\ eSize' \in Nat /\ eRaced' = (eRaced \/ ePc = "interval")
      /\ UNCHANGED <<ePc, eT, ePayload, eInterval, eStamp, eRem, eMade, ePkts, eBursts>>
  BY FlowAssumption DEF E!OptSize
<1>2. eRaced' \in BOOLEAN
  BY <1>1
<1>3. GeneratorTypes'
  BY <1>1, <1>2 DEF Inv, GeneratorTypes
<1>4. RateInv'
  BY <1>1 DEF Inv, RateInv, E!RateKept, Last
<1>5. BurstInv'
  BY <1>1 DEF Inv, BurstInv, Last
<1> QED
  BY <1>3, <1>4, <1>5 DEF Inv

\* The inductive invariant holds throughout.
LEMMA Invariance == Spec => []Inv
<1>1. Init => Inv
  <2> SUFFICES ASSUME E!Init PROVE Inv
    BY ExpoSteps
  <2>1. GeneratorTypes
    <3>1. eRaced \in BOOLEAN
      BY DEF E!Init
    <3>2. eSize \in Nat /\ eInterval \in Int /\ 0 \in 0..RemWord - 1
      BY FlowAssumption, BurstsAssumption DEF E!Init
    <3> QED
      BY <3>1, <3>2 DEF E!Init, GeneratorTypes
  <2> QED
    BY <2>1 DEF E!Init, Inv, RateInv, BurstInv, E!RateKept
<1>2. Inv /\ [Next]_vars => Inv'
  <2> SUFFICES ASSUME Inv, [E!Next]_E!vars PROVE Inv'
    BY ExpoSteps
  <2>1. CASE UNCHANGED E!vars
    BY <2>1 DEF E!vars, Inv, GeneratorTypes, RateInv, BurstInv, E!RateKept, Last
  <2> QED
    BY <2>1, SizeStep, IntervalStep, IdleStep, StampStep, OptStep DEF E!Next
<1> QED
  BY <1>1, <1>2, PTL DEF Spec

\* No packet is due before the one before it has passed at the flow's rate, within a burst and
\* across an idle time, unless its size was set between nextPacket()'s two readings of it
\* (Expo_Generator::nextPacket()).
THEOREM RateNotExceeded == Spec => []ExpoRateKept
<1>1. Inv => ExpoRateKept
  BY DEF Inv, RateInv, ExpoRateKept
<1> QED
  BY <1>1, Invariance, PTL

\* A burst has as many packets as were drawn for it: the unsigned rem_ never counts down past 0,
\* whatever sizes are set, zero included (Expo_Generator::nextPacket()).
THEOREM BurstsAsDrawn == Spec => []ExpoBurstsWhole
<1>1. Inv => ExpoBurstsWhole
  <2> SUFFICES ASSUME Inv, NEW n \in 1..Len(eBursts)
               PROVE  /\ eBursts[n].made <= eBursts[n].drawn
                      /\ n < Len(eBursts) \/ (ePc = "size" /\ eRem = 0) => eBursts[n].made = eBursts[n].drawn
    BY DEF ExpoBurstsWhole, E!BurstsWhole
  <2>1. eBursts \in Seq(BurstRecords) /\ Len(eBursts) <= 2 /\ eRem \in Nat /\ eBursts # <<>>
    <3>1. eBursts \in Seq(BurstRecords) /\ Len(eBursts) <= 2
      BY DEF Inv, GeneratorTypes
    <3>2. eRem \in Nat
      BY BurstsAssumption DEF Inv, GeneratorTypes
    <3> QED
      BY <3>1, <3>2
  <2>2. eBursts[n].made \in Nat /\ eBursts[n].drawn \in Nat
    <3>1. eBursts[n] \in BurstRecords
      BY <2>1
    <3> QED
      BY <3>1 DEF BurstRecords
  <2>3. CASE n < Len(eBursts)
    <3> DEFINE m == Len(eBursts)
    <3>1. m \in Nat /\ m <= 2
      BY <2>1, LastIn
    <3>2. n \in 1..m /\ n < m
      BY <2>3
    <3> HIDE DEF m
    <3>3. n = 1 /\ m = 2
      BY <3>1, <3>2
    <3> QED
      BY <2>2, <3>3 DEF m, Inv, BurstInv
  <2>4. CASE n = Len(eBursts)
    BY <2>1, <2>2, <2>4 DEF Inv, BurstInv, Last
  <2> QED
    BY <2>1, <2>3, <2>4
<1> QED
  BY <1>1, Invariance, PTL
=============================================================================
