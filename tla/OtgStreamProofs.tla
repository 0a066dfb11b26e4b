-------------------------- MODULE OtgStreamProofs --------------------------
(***************************************************************************)
(* Proofs about OtgStream, for all sets of option values and all bounds.   *)
(***************************************************************************)
EXTENDS OtgStream, TLAPS

\* The interval CBR_Generator::update() computes is an integer when the rate is not 0.
LEMMA IntervalInt ==
  ASSUME NEW size \in Int, NEW rate \in Int, rate # 0
  PROVE  Interval(size, rate) \in Int
<1>1. CASE rate > 0
  BY <1>1 DEF Interval
<1>2. CASE rate < 0
  <2>1. -rate \in Int /\ -rate > 0
    BY <1>2
  <2> QED
    BY <1>2, <2>1 DEF Interval
<1> QED
  BY <1>1, <1>2

\* The quotient and the remainder of a division by a positive number.
LEMMA Division ==
  ASSUME NEW a \in Int, NEW n \in Nat \ {0}
  PROVE  /\ a \div n \in Int /\ a % n \in 0..(n - 1)
         /\ a = n * (a \div n) + (a % n)
  OBVIOUS

\* A larger integer has a larger product with a positive one.
LEMMA Products ==
  ASSUME NEW n \in Nat \ {0}, NEW a \in Int, NEW b \in Int, a < b
  PROVE  n * a + n <= n * b
  OBVIOUS

\* Cutting a time due to whole ticks, and a wait to the width of usleep()'s parameter: what the
\* former drops does not bring it below a clock reading it was above, and the latter keeps a wait
\* that is short enough.
LEMMA Conversions ==
  ASSUME NEW tx \in Int, NEW t \in Int
  PROVE  /\ Micros(tx) \in Int
         /\ tx > Grain * t => Micros(tx) >= t
         /\ tx <= Grain * t => Micros(tx) <= t
         /\ (Micros(tx) - t) % SleepRange \in 0..(SleepRange - 1)
         /\ Micros(tx) - t \in 0..(SleepRange - 1) => (Micros(tx) - t) % SleepRange = Micros(tx) - t
<1> DEFINE m == Micros(tx)
           rest == tx % Grain
<1>1. m \in Int /\ rest \in 0..(Grain - 1) /\ tx = Grain * m + rest
  BY Division, SleepAssumption DEF Micros
<1>2. Grain \in Nat \ {0} /\ SleepRange \in Nat \ {0}
  BY SleepAssumption
<1> HIDE DEF m, rest
<1>3. Grain * m \in Int /\ Grain * t \in Int
  BY <1>1, <1>2
<1>4. ASSUME tx > Grain * t PROVE m >= t
  <2>1. m < t => Grain * m + Grain <= Grain * t
    BY <1>1, <1>2, Products
  <2> QED
    BY <1>1, <1>2, <1>3, <1>4, <2>1
<1>5. ASSUME tx <= Grain * t PROVE m <= t
  <2>1. t < m => Grain * t + Grain <= Grain * m
    BY <1>1, <1>2, Products
  <2> QED
    BY <1>1, <1>2, <1>3, <1>5, <2>1
<1>6. m - t \in Int
  BY <1>1
<1>7. (m - t) % SleepRange \in 0..(SleepRange - 1)
  BY <1>2, <1>6, Division
<1>8. m - t \in 0..(SleepRange - 1) => (m - t) % SleepRange = m - t
  BY <1>2, <1>6
<1> QED
  BY <1>1, <1>4, <1>5, <1>7, <1>8 DEF m

\* A step of OtgStream preserves the types.
LEMMA TypeStep == TypeOK /\ [Next]_vars => TypeOK'
<1> SUFFICES ASSUME TypeOK, [Next]_vars PROVE TypeOK'
  OBVIOUS
<1> USE DEF TypeOK, clockVars, streamVars, genVars, mainVars, threadVars, ghostVars
<1>1. ASSUME NEW next \in MainStates, UpdateThen(next) PROVE TypeOK'
  BY <1>1, IntervalInt DEF UpdateThen, MainThrows
<1>0. ASSUME NEW t \in Int, SleepFrom(t) PROVE nap' \in 0..(SleepRange - 1)
  <2>1. pkt.tx \in Int
    BY DEF Packets
  <2>2. (Micros(pkt.tx) - t) % SleepRange \in 0..(SleepRange - 1)
    BY <2>1, Conversions
  <2>3. 0 \in 0..(SleepRange - 1)
    BY SleepAssumption
  <2> QED
    BY <1>0, <2>2, <2>3 DEF SleepFrom
<1>2. CASE SourceInit
  BY <1>2, <1>1 DEF SourceInit, MainStates
<1>3. CASE StreamRun
  <2>1. main' \in MainStates
    BY <1>3 DEF StreamRun, SenderThrows, MainThrows, MainStates
  <2>2. pc' \in StreamStates
    BY <1>3 DEF StreamRun, SenderThrows, MainThrows, StreamStates
  <2> QED
    BY <1>3, <2>1, <2>2 DEF StreamRun, SenderThrows, MainThrows
<1>4. CASE ReadLine
  <2>1. main' \in MainStates
    BY <1>4 DEF ReadLine, MainStates
  <2> QED
    BY <1>4, <2>1 DEF ReadLine
<1>5. CASE Update
  BY <1>5, <1>1 DEF Update, MainStates
<1>6. CASE OptPause
  <2>1. main' \in MainStates
    BY <1>6 DEF OptPause, MainStates
  <2> QED
    BY <1>6, <2>1 DEF OptPause, NextOpt
<1>7. CASE PauseRead
  <2>1. main' \in MainStates
    BY <1>7 DEF PauseRead, MainStates
  <2> QED
    BY <1>7, <2>1 DEF PauseRead
<1>8. CASE PauseStore
  <2>1. main' \in MainStates
    BY <1>8 DEF PauseStore, MainStates
  <2> QED
    BY <1>8, <2>1 DEF PauseStore
<1>9. CASE PauseFlag
  <2>1. main' \in MainStates
    BY <1>9 DEF PauseFlag, MainStates
  <2> QED
    BY <1>9, <2>1 DEF PauseFlag
<1>10. CASE OptResume
  <2>1. main' \in MainStates
    BY <1>10 DEF OptResume, MainStates
  <2>2. paused_' \in BOOLEAN /\ clockPaused' \in BOOLEAN
    BY <1>10 DEF OptResume
  <2> QED
    BY <1>10, <2>1, <2>2 DEF OptResume, NextOpt
<1>11. CASE ResumeRead
  <2>1. main' \in MainStates
    BY <1>11 DEF ResumeRead, MainStates
  <2>2. frozen' \in BOOLEAN
    BY <1>11 DEF ResumeRead
  <2>3. mx' \in Int
    BY <1>11 DEF ResumeRead
  <2> QED
    BY <1>11, <2>1, <2>2, <2>3 DEF ResumeRead
<1>12. CASE ResumeShift
  <2>1. main' \in MainStates
    BY <1>12 DEF ResumeShift, MainStates
  <2> QED
    BY <1>12, <2>1 DEF ResumeShift
<1>13. CASE OptExit
  <2>1. main' \in MainStates
    BY <1>13 DEF OptExit, MainStates
  <2>2. active_' \in BOOLEAN
    BY <1>13 DEF OptExit
  <2> QED
    BY <1>13, <2>1, <2>2 DEF OptExit, NextOpt
<1>14. CASE OptGenerator
  <2>1. pktSize_' \in Int /\ pktRate_' \in Int
    BY <1>14, OptionAssumption DEF OptGenerator
  <2>2. pktInterval_' \in Int
    BY <1>14, OptionAssumption DEF OptGenerator
  <2> QED
    BY <1>14, <2>1, <2>2 DEF OptGenerator, NextOpt
<1>15. CASE Exit
  BY <1>15 DEF Exit
<1>16. CASE Loop
  <2>1. pc' \in StreamStates
    BY <1>16 DEF Loop, StreamStates
  <2>2. pkt' \in Packets
    BY <1>16 DEF Loop, NoPacket, Packets
  <2> QED
    BY <1>16, <2>1, <2>2 DEF Loop
<1>17. CASE NextSize
  <2>1. pc' \in StreamStates
    BY <1>17 DEF NextSize, StreamStates
  <2>2. pkt' \in Packets
    BY <1>17 DEF NextSize, Packets
  <2> QED
    BY <1>17, <2>1, <2>2 DEF NextSize
<1>18. CASE NextStamp
  <2>1. lastPktStamp_' \in Int /\ seqno_' \in Nat
    BY <1>18 DEF NextStamp
  <2>2. pc' \in StreamStates
    BY <1>18 DEF NextStamp, StreamStates
  <2>3. pkt' \in Packets
    BY <1>18, <2>1 DEF NextStamp, Packets
  <2> QED
    BY <1>18, <2>1, <2>2, <2>3 DEF NextStamp
<1>19. CASE ReadPaused
  <2>1. pc' \in StreamStates
    BY <1>19 DEF ReadPaused, StreamStates
  <2>2. pkt' \in Packets
    BY <1>19 DEF ReadPaused, Packets
  <2> QED
    BY <1>19, <2>1, <2>2 DEF ReadPaused
<1>20. CASE ReadTimeOfDay
  <2>1. pc' \in StreamStates
    BY <1>20 DEF ReadTimeOfDay, StreamStates
  <2> QED
    BY <1>20, <2>1 DEF ReadTimeOfDay
<1>21. CASE Wake
  <2>1. pc' \in StreamStates
    BY <1>21 DEF Wake, StreamStates
  <2> QED
    BY <1>21, <2>1 DEF Wake
<1>22. CASE ReadInstant
  <2>1. pc' \in StreamStates
    BY <1>22 DEF ReadInstant, SleepFrom, StreamStates
  <2>2. nap' \in 0..(SleepRange - 1)
    BY <1>22, <1>0 DEF ReadInstant
  <2> QED
    BY <1>22, <2>1, <2>2 DEF ReadInstant, SleepFrom
<1>23. CASE ReadOrigin
  <2>1. pc' \in StreamStates
    BY <1>23 DEF ReadOrigin, SleepFrom, StreamStates
  <2>2. nap' \in 0..(SleepRange - 1)
    BY <1>23, <1>0 DEF ReadOrigin
  <2> QED
    BY <1>23, <2>1, <2>2 DEF ReadOrigin, SleepFrom
<1>24. CASE Send
  <2>1. pc' \in StreamStates
    BY <1>24 DEF Send, StreamStates
  <2>2. [seq |-> pkt.seq, tx |-> pkt.tx, at |-> now, read |-> x, stood |-> pkt.stood] \in SentPackets
    BY DEF Packets, SentPackets
  <2>3. sent' = sent \/ sent' = Append(sent, [seq |-> pkt.seq, tx |-> pkt.tx, at |-> now, read |-> x, stood |-> pkt.stood])
    BY <1>24 DEF Send
  <2>4. sent' \in Seq(SentPackets)
    BY <2>2, <2>3
  <2> QED
    BY <1>24, <2>1, <2>4 DEF Send
<1>25. CASE Tick
  <2>1. nap' \in 0..(SleepRange - 1)
    BY <1>25, SleepAssumption DEF Tick
  <2>2. now' \in Nat /\ ran' \in Nat
    BY <1>25 DEF Tick
  <2> QED
    BY <1>25, <2>1, <2>2 DEF Tick
<1>26. CASE UNCHANGED vars
  BY <1>26 DEF vars
<1> QED
  BY <1>2, <1>3, <1>4, <1>5, <1>6, <1>7, <1>8, <1>9, <1>10, <1>11, <1>12, <1>13, <1>14,
     <1>15, <1>16, <1>17, <1>18, <1>19, <1>20, <1>21, <1>22, <1>23, <1>24, <1>25, <1>26
     DEF Next, MainThread, StreamThread

\* The types hold in every reachable state.
THEOREM TypeCorrect == Spec => []TypeOK
<1>1. Init => TypeOK
  <2> SUFFICES ASSUME Init PROVE TypeOK
    OBVIOUS
  <2>1. main \in MainStates /\ pc \in StreamStates
    BY DEF Init, MainStates, StreamStates
  <2>2. pkt \in Packets
    BY DEF Init, NoPacket, Packets
  <2>3. pktInterval_ \in Int /\ pktSize_ \in Int /\ pktRate_ \in Int
    BY OptionAssumption DEF Init
  <2>4. clockPaused \in BOOLEAN /\ paused_ \in BOOLEAN /\ active_ \in BOOLEAN /\ frozen \in BOOLEAN
    BY DEF Init
  <2>5. sent \in Seq(SentPackets)
    BY DEF Init
  <2>6. nap \in 0..(SleepRange - 1)
    BY SleepAssumption DEF Init
  <2> QED
    BY <2>1, <2>2, <2>3, <2>4, <2>5, <2>6 DEF Init, TypeOK, Uninit
<1> QED
  BY <1>1, TypeStep, PTL DEF Spec

-----------------------------------------------------------------------------
(* The stream clock *)

\* Where each of the two threads' half-finished clock operations leaves the clock.
ClockInv ==
  /\ ran <= now
  /\ frozen <=> (clockPaused \/ main \in {"pause_store", "pause_flag", "resume_read"})
  /\ main \in {"pause_read", "pause_store", "pause_flag", "resume_read", "resume_shift"} => ~clockPaused
  /\ main = "pause_store" => mx = ran
  /\ main \in {"pause_flag", "resume_read"} \/ clockPaused => pauseinstant_ = ran
  /\ main = "resume_shift" => now - (origin_ + mx) = ran
  /\ ~frozen /\ main # "resume_shift" => now - origin_ = ran

\* The packet in hand leaves at least in rest ticks, if usleep() could count its wait.
DueIn(rest) == Micros(pkt.tx) - x < SleepRange => Micros(pkt.tx) <= now + rest - pkt.stood

\* The origin stands at the pauses that are over, no stored instant or reading is ahead of the
\* clock, and a sleeping thread sleeps long enough.
PaceInv ==
  /\ stood = origin_ /\ 0 <= origin_ /\ origin_ <= now - ran
  /\ pauseinstant_ <= ran /\ tod <= now
  /\ 0 <= pkt.stood /\ pkt.stood <= origin_
  /\ pc = "sleep" => DueIn(nap)
  /\ pc = "send" => DueIn(0)
  /\ pc = "instant" => pauseinstant_ # Uninit
  /\ NeverEarly

\* Before Stream::run() has created the thread.
NotStarted == main \in {"init", "source_ready"}

\* The packet in hand, once numbered, is the one after the last sent.
NumberInv ==
  /\ NotStarted => pc = "unborn"
  /\ pc \in {"size", "stamp"} => pkt.seq = 0
  /\ pc \in {"wait", "instant", "timeofday", "origin", "sleep", "send"} =>
       pkt.seq = seqno_ /\ seqno_ = Len(sent) + 1
  /\ pc \in {"unborn", "loop", "size", "stamp", "done"} => seqno_ = Len(sent)
  /\ SeqInOrder

\* What ClockInv and VirtualClock speak of.
clockState == <<now, clockVars, main, mx, frozen, ran>>

\* Only the main thread's clock commands and the passing of time move the clock's state.
LEMMA ClockStep == TypeOK /\ ClockInv /\ [Next]_vars => ClockInv'
<1> SUFFICES ASSUME TypeOK, ClockInv, [Next]_vars PROVE ClockInv'
  OBVIOUS
<1> USE DEF clockVars, streamVars, genVars, mainVars, threadVars, ghostVars
<1>1. ASSUME UNCHANGED clockState PROVE ClockInv'
  BY <1>1 DEF ClockInv, clockState
<1>2. ASSUME StreamThread \/ OptGenerator \/ Exit \/ UNCHANGED vars PROVE UNCHANGED clockState
  BY <1>2 DEF StreamThread, Loop, NextSize, NextStamp, ReadPaused, ReadInstant, ReadTimeOfDay,
              ReadOrigin, SleepFrom, Wake, Send, OptGenerator, NextOpt, Exit, vars, clockState
<1>3. CASE SourceInit \/ StreamRun \/ ReadLine \/ Update \/ OptExit
  <2>1. /\ UNCHANGED <<now, clockVars, mx, frozen, ran>>
        /\ main \in {"init", "source_ready", "readline", "opts"}
        /\ main' \in {"init", "source_ready", "readline", "opts", "exiting"}
    BY <1>3 DEF SourceInit, StreamRun, ReadLine, Update, OptExit, NextOpt, UpdateThen, SenderThrows, MainThrows
  <2> QED
    BY <2>1 DEF ClockInv
<1>4. CASE OptPause
  BY <1>4 DEF OptPause, NextOpt, TypeOK, ClockInv
<1>5. CASE PauseRead
  BY <1>5 DEF PauseRead, TypeOK, ClockInv
<1>6. CASE PauseStore
  BY <1>6 DEF PauseStore, TypeOK, ClockInv
<1>7. CASE PauseFlag
  BY <1>7 DEF PauseFlag, TypeOK, ClockInv
<1>8. CASE OptResume
  BY <1>8 DEF OptResume, NextOpt, TypeOK, ClockInv
<1>9. CASE ResumeRead
  BY <1>9 DEF ResumeRead, TypeOK, ClockInv
<1>10. CASE ResumeShift
  BY <1>10 DEF ResumeShift, TypeOK, ClockInv
<1>11. CASE Tick
  BY <1>11 DEF Tick, TypeOK, ClockInv
<1> QED
  BY <1>1, <1>2, <1>3, <1>4, <1>5, <1>6, <1>7, <1>8, <1>9, <1>10, <1>11 DEF Next, MainThread

\* Between two commands the stream clock shows the time that passed while it was not paused.
THEOREM ClockIsVirtual == Spec => []VirtualClock
<1>1. Init => ClockInv
  BY DEF Init, ClockInv
<1>2. TypeOK /\ ClockInv => VirtualClock
  BY DEF TypeOK, ClockInv, VirtualClock
<1> QED
  BY <1>1, <1>2, TypeCorrect, ClockStep, PTL DEF Spec

\* Seen through the mapping, the clock is at the ticks it was meant to count.
LEMMA ClockMapped == TypeOK /\ ClockInv => clockValue = ran /\ clockRunning = ~frozen
<1> SUFFICES ASSUME TypeOK, ClockInv PROVE clockValue = ran /\ clockRunning = ~frozen
  OBVIOUS
<1>1. clockRunning = ~frozen
  BY DEF TypeOK, ClockInv, clockRunning
<1>2. clockValue = ran
  BY DEF TypeOK, ClockInv, clockValue
<1> QED
  BY <1>1, <1>2

\* UnixTime implements PausableClock: only a tick of a running clock moves what it shows.
THEOREM ClockImplements == Spec => ClockRefines
<1>1. Init => Clock!Init
  BY DEF Init, Clock!Init, clockValue, clockRunning
<1>2. Init => ClockInv
  BY DEF Init, ClockInv
<1>3. (TypeOK /\ ClockInv => clockValue = ran /\ clockRunning = ~frozen)'
  BY ClockMapped, PTL
<1>4. ASSUME TypeOK, TypeOK', ClockInv, ClockInv', [Next]_vars
      PROVE  [Clock!Next]_<<clockValue, clockRunning>>
  <2>1. clockValue = ran /\ clockRunning = ~frozen
    BY <1>4, ClockMapped
  <2>2. clockValue' = ran' /\ clockRunning' = ~frozen'
    BY <1>3, <1>4
  <2> USE DEF clockVars, streamVars, genVars, mainVars, threadVars, ghostVars
  <2>3. ASSUME UNCHANGED <<frozen, ran>> PROVE UNCHANGED <<clockValue, clockRunning>>
    BY <2>1, <2>2, <2>3
  <2>4. CASE StreamThread
    <3>1. UNCHANGED <<frozen, ran>>
      BY <2>4 DEF StreamThread, Loop, NextSize, NextStamp, ReadPaused, ReadInstant, ReadTimeOfDay,
                  ReadOrigin, Wake, Send
    <3> QED
      BY <2>3, <3>1
  <2>5. CASE \/ SourceInit \/ StreamRun \/ ReadLine \/ Update \/ OptPause \/ PauseStore \/ PauseFlag
             \/ OptResume \/ ResumeShift \/ OptExit \/ OptGenerator \/ Exit \/ UNCHANGED vars
    <3>1. UNCHANGED <<frozen, ran>>
      BY <2>5 DEF SourceInit, StreamRun, ReadLine, Update, UpdateThen, SenderThrows, MainThrows, vars,
                  OptPause, PauseStore, PauseFlag, OptResume, ResumeShift, OptExit, OptGenerator, Exit
    <3> QED
      BY <2>3, <3>1
  <2>6. CASE PauseRead
    <3>1. ~frozen /\ frozen' /\ ran' = ran
      BY <1>4, <2>6 DEF PauseRead, ClockInv, TypeOK
    <3> QED
      BY <2>1, <2>2, <3>1 DEF Clock!Next, Clock!Pause
  <2>7. CASE ResumeRead
    <3>1. frozen /\ ~frozen' /\ ran' = ran
      BY <1>4, <2>7 DEF ResumeRead, ClockInv, TypeOK
    <3> QED
      BY <2>1, <2>2, <3>1 DEF Clock!Next, Clock!Resume
  <2>8. CASE Tick
    <3>1. frozen' = frozen /\ ran' = IF frozen THEN ran ELSE ran + 1
      BY <2>8 DEF Tick
    <3>2. CASE frozen
      BY <2>3, <3>1, <3>2
    <3>3. CASE ~frozen
      BY <2>1, <2>2, <3>1, <3>3 DEF Clock!Next, Clock!Count
    <3> QED
      BY <3>2, <3>3
  <2> QED
    BY <1>4, <2>4, <2>5, <2>6, <2>7, <2>8 DEF Next, MainThread
<1> QED
  BY <1>1, <1>2, <1>4, TypeCorrect, ClockStep, PTL DEF Spec, ClockRefines, Clock!Spec

-----------------------------------------------------------------------------
(* Pacing *)

\* What PaceInv speaks of.
paceState == <<now, origin_, pauseinstant_, pc, pkt, tod, x, nap, sent, ran, stood>>

\* PaceInv rests on ClockInv for what the main thread stores: pauseinstant_ and origin_.
LEMMA PaceStep == TypeOK /\ ClockInv /\ PaceInv /\ [Next]_vars => PaceInv'
<1> SUFFICES ASSUME TypeOK, ClockInv, PaceInv, [Next]_vars PROVE PaceInv'
  OBVIOUS
<1> USE DEF clockVars, streamVars, genVars, mainVars, threadVars, ghostVars
<1>a. /\ now \in Nat /\ ran \in Nat /\ stood \in Int /\ tod \in Nat
      /\ origin_ \in Int /\ pauseinstant_ \in Int /\ mx \in Int
      /\ x \in Int /\ nap \in 0..(SleepRange - 1) /\ pkt \in Packets
  BY DEF TypeOK
<1>b. pkt.tx \in Int /\ pkt.stood \in Int /\ Micros(pkt.tx) \in Int
  BY <1>a, Conversions DEF Packets
<1>1. ASSUME UNCHANGED paceState PROVE PaceInv'
  BY <1>1 DEF PaceInv, DueIn, NeverEarly, paceState
<1>2. ASSUME \/ SourceInit \/ ReadLine \/ Update \/ OptPause \/ PauseRead \/ PauseFlag
             \/ OptResume \/ ResumeRead \/ OptExit \/ OptGenerator \/ Exit \/ UNCHANGED vars
      PROVE  UNCHANGED paceState
  BY <1>2 DEF SourceInit, ReadLine, Update, UpdateThen, MainThrows, OptPause, PauseRead, PauseFlag,
              OptResume, ResumeRead, OptExit, OptGenerator, NextOpt, Exit, vars, paceState
<1>3. CASE StreamRun
  BY <1>3 DEF StreamRun, SenderThrows, MainThrows, PaceInv, DueIn, NeverEarly
<1>4. CASE PauseStore
  <2>1. pauseinstant_' = ran /\ pauseinstant_' # Uninit
    BY <1>a, <1>4 DEF PauseStore, ClockInv, Uninit
  <2> QED
    BY <1>a, <1>4, <2>1 DEF PauseStore, PaceInv, DueIn, NeverEarly
<1>5. CASE ResumeShift
  <2>1. origin_' = now - ran /\ stood' = now - ran
    BY <1>a, <1>5 DEF ResumeShift, ClockInv
  <2>2. UNCHANGED <<now, ran, pauseinstant_, tod, x, nap, pc, pkt, sent>>
    BY <1>5 DEF ResumeShift
  <2> QED
    BY <1>a, <1>b, <2>1, <2>2 DEF PaceInv, DueIn, NeverEarly
<1>6. CASE Loop \/ NextSize
  <2>1. pkt'.stood = 0 \/ pkt'.stood = pkt.stood
    BY <1>a, <1>6 DEF Loop, NextSize, NoPacket, Packets
  <2>2. /\ UNCHANGED <<now, ran, stood, origin_, pauseinstant_, tod, x, nap, sent>>
        /\ pc' \in {"size", "stamp", "done"}
    BY <1>6 DEF Loop, NextSize
  <2> QED
    BY <1>a, <1>b, <2>1, <2>2 DEF PaceInv, NeverEarly
<1>7. CASE NextStamp
  <2>1. /\ UNCHANGED <<now, ran, stood, origin_, pauseinstant_, tod, x, nap, sent>>
        /\ pc' \in {"wait", "send"}
    BY <1>7 DEF NextStamp
  <2>2. pkt'.stood = pkt.stood /\ pkt'.tx = lastPktStamp_'
    BY <1>a, <1>7 DEF NextStamp, Packets
  <2>3. pc' = "send" => lastPktStamp_' \in Int /\ lastPktStamp_' <= 0
    BY <1>7 DEF NextStamp, TypeOK
  <2>4. ASSUME pc' = "send" PROVE Micros(pkt'.tx) \in Int /\ Micros(pkt'.tx) <= 0
    <3>1. Grain * 0 = 0
      BY SleepAssumption
    <3> QED
      BY <2>2, <2>3, <2>4, <3>1, Conversions
  <2>5. pc' = "send" => DueIn(0)'
    BY <1>a, <1>b, <2>1, <2>2, <2>4 DEF PaceInv, DueIn
  <2> QED
    BY <2>1, <2>2, <2>5 DEF PaceInv, NeverEarly
<1>8. CASE ReadPaused
  <2>1. pkt'.stood = stood /\ pc' \in {"instant", "timeofday"}
    BY <1>a, <1>8 DEF ReadPaused, Packets
  <2>2. pc' = "instant" => pauseinstant_ = ran
    BY <1>8 DEF ReadPaused, ClockInv
  <2>3. UNCHANGED <<now, ran, stood, origin_, pauseinstant_, tod, x, nap, sent>>
    BY <1>8 DEF ReadPaused
  <2> QED
    BY <1>a, <2>1, <2>2, <2>3 DEF PaceInv, NeverEarly, Uninit
<1>9. CASE ReadTimeOfDay
  BY <1>9, <1>a DEF ReadTimeOfDay, PaceInv, NeverEarly
<1>10. ASSUME NEW t \in Int, t <= now - pkt.stood, SleepFrom(t),
              UNCHANGED <<now, ran, stood, origin_, pauseinstant_, pkt, tod, sent>>
       PROVE  PaceInv'
  <2>1. CASE pkt.tx > Grain * t
    <3>1. x' = t /\ pc' = "sleep" /\ nap' = (Micros(pkt.tx) - t) % SleepRange
      BY <1>10, <1>b, <2>1, SleepAssumption DEF SleepFrom
    <3>2. Micros(pkt.tx) >= t
      BY <1>b, <2>1, Conversions
    <3>3. Micros(pkt.tx) - t < SleepRange => nap' = Micros(pkt.tx) - t
      <4>1. Micros(pkt.tx) - t < SleepRange => Micros(pkt.tx) - t \in 0..(SleepRange - 1)
        BY <1>b, <3>2, SleepAssumption
      <4>2. Micros(pkt.tx) - t \in 0..(SleepRange - 1)
              => (Micros(pkt.tx) - t) % SleepRange = Micros(pkt.tx) - t
        BY <1>b, Conversions
      <4> QED
        BY <3>1, <4>1, <4>2
    <3>4. DueIn(nap)'
      BY <1>a, <1>b, <1>10, <3>1, <3>3 DEF DueIn
    <3> QED
      BY <1>10, <3>1, <3>4 DEF PaceInv, NeverEarly
  <2>2. CASE pkt.tx <= Grain * t
    <3>1. x' = t /\ pc' = "send"
      BY <1>10, <1>b, <2>2, SleepAssumption DEF SleepFrom
    <3>2. Micros(pkt.tx) <= t
      BY <1>b, <2>2, Conversions
    <3>3. DueIn(0)'
      BY <1>a, <1>b, <1>10, <3>2 DEF DueIn
    <3> QED
      BY <1>10, <3>1, <3>3 DEF PaceInv, NeverEarly
  <2> QED
    BY <1>10, <2>1, <2>2 DEF SleepFrom
<1>11. CASE ReadInstant
  <2>1. pauseinstant_ <= now - pkt.stood
    BY <1>a, <1>b DEF PaceInv
  <2> QED
    BY <1>a, <1>10, <1>11, <2>1 DEF ReadInstant
<1>12. CASE ReadOrigin
  <2>1. tod - origin_ \in Int /\ tod - origin_ <= now - pkt.stood
    BY <1>a, <1>b DEF PaceInv
  <2> QED
    BY <1>10, <1>12, <2>1 DEF ReadOrigin
<1>13. CASE Wake
  BY <1>13, <1>a, <1>b DEF Wake, PaceInv, DueIn, NeverEarly
<1>14. CASE Send
  <2>1. CASE UNCHANGED <<sent, pc>>
    BY <1>14, <2>1 DEF Send, PaceInv, DueIn, NeverEarly
  <2>2. CASE /\ sent' = Append(sent, [seq |-> pkt.seq, tx |-> pkt.tx, at |-> now, read |-> x, stood |-> pkt.stood])
             /\ pc' = "loop"
    <3> DEFINE new == [seq |-> pkt.seq, tx |-> pkt.tx, at |-> now, read |-> x, stood |-> pkt.stood]
    <3>1. sent \in Seq(SentPackets) /\ sent' = Append(sent, new)
      BY <2>2 DEF TypeOK
    <3>2. Micros(new.tx) - new.read < SleepRange => Micros(new.tx) <= new.at - new.stood
      BY <1>a, <1>b, <1>14 DEF Send, PaceInv, DueIn
    <3> HIDE DEF new
    <3>3. /\ Len(sent') = Len(sent) + 1 /\ sent'[Len(sent) + 1] = new
          /\ \A i \in 1..Len(sent) : sent'[i] = sent[i]
      BY <3>1
    <3>4. Len(sent) \in Nat
      BY <3>1
    <3>5. NeverEarly'
      <4> SUFFICES ASSUME NEW i \in 1..Len(sent')
                   PROVE  Micros(sent'[i].tx) - sent'[i].read < SleepRange
                            => Micros(sent'[i].tx) <= sent'[i].at - sent'[i].stood
        BY DEF NeverEarly
      <4>1. CASE i \in 1..Len(sent)
        BY <3>3, <4>1 DEF PaceInv, NeverEarly
      <4>2. CASE i = Len(sent) + 1
        BY <3>2, <3>3, <4>2
      <4> QED
        BY <3>3, <3>4, <4>1, <4>2
    <3> QED
      BY <1>14, <2>2, <3>5 DEF Send, PaceInv
  <2> QED
    BY <1>14, <2>1, <2>2 DEF Send
<1>15. CASE Tick
  <2>1. /\ now' = now + 1 /\ nap' \in Int /\ nap' >= nap - 1 /\ ran' \in Int /\ ran <= ran' /\ ran' <= ran + 1
        /\ UNCHANGED <<stood, origin_, pauseinstant_, tod, x, pc, pkt, sent>>
    BY <1>15, <1>a DEF Tick
  <2>2. /\ pc = "sleep" => DueIn(nap)'
        /\ pc = "send" => DueIn(0)'
    BY <1>a, <1>b, <2>1 DEF PaceInv, DueIn
  <2>3. NeverEarly' /\ (pc' = "instant" => pauseinstant_' # Uninit)
    BY <2>1 DEF PaceInv, NeverEarly
  <2>4. /\ stood = origin_ /\ 0 <= origin_ /\ origin_ <= now - ran
        /\ pauseinstant_ <= ran /\ tod <= now
        /\ 0 <= pkt.stood /\ pkt.stood <= origin_
    BY DEF PaceInv
  <2>5. origin_ <= now' - ran' /\ pauseinstant_ <= ran' /\ tod <= now'
    <3>1. now' = now + 1 /\ (ran' = ran \/ ran' = ran + 1)
      BY <1>15 DEF Tick
    <3>2. now \in Nat /\ ran \in Nat /\ origin_ \in Int /\ pauseinstant_ \in Int /\ tod \in Nat
      BY <1>a
    <3>3. CASE ran' = ran
      BY <2>4, <3>1, <3>2, <3>3
    <3>4. CASE ran' = ran + 1
      BY <2>4, <3>1, <3>2, <3>4
    <3> QED
      BY <3>1, <3>3, <3>4
  <2> QED
    BY <2>1, <2>2, <2>3, <2>4, <2>5 DEF PaceInv
<1> QED
  BY <1>1, <1>2, <1>3, <1>4, <1>5, <1>6, <1>7, <1>8, <1>9, <1>11, <1>12, <1>13, <1>14, <1>15
     DEF Next, MainThread, StreamThread

\* No packet leaves before the clock, set back by the pauses that were over when its wait began,
\* shows its time, and no thread reads an instant that was never stored, whatever pauses and
\* resumes interleave with the steps of waitAt().
THEOREM PacketsOnTime == Spec => [](NeverEarly /\ InstantStored)
<1>1. Init => ClockInv /\ PaceInv
  BY DEF Init, ClockInv, PaceInv, NeverEarly, NoPacket, Uninit
<1>2. PaceInv => NeverEarly /\ InstantStored
  BY DEF PaceInv, InstantStored
<1> QED
  BY <1>1, <1>2, TypeCorrect, ClockStep, PaceStep, PTL DEF Spec

\* The order of pauseClock()'s two stores keeps a stream thread from reading an instant that
\* was never stored.
THEOREM InstantsStored == Spec => []InstantStored
  BY PacketsOnTime, PTL

-----------------------------------------------------------------------------
(* Numbering *)

\* What NumberInv speaks of.
numberState == <<seqno_, pc, pkt, sent>>

\* Only the stream thread numbers packets, and it numbers one only after reset().
LEMMA NumberStep == TypeOK /\ NumberInv /\ [Next]_vars => NumberInv'
<1> SUFFICES ASSUME TypeOK, NumberInv, [Next]_vars PROVE NumberInv'
  OBVIOUS
<1> USE DEF clockVars, streamVars, genVars, mainVars, threadVars, ghostVars
<1>1. ASSUME UNCHANGED numberState, NotStarted' => NotStarted PROVE NumberInv'
  BY <1>1 DEF NumberInv, SeqInOrder, numberState
<1>2. ASSUME \/ SourceInit \/ ReadLine \/ Update \/ OptPause \/ PauseRead \/ PauseStore \/ PauseFlag
             \/ OptResume \/ ResumeRead \/ ResumeShift \/ OptExit \/ OptGenerator \/ Exit \/ Tick
             \/ UNCHANGED vars
      PROVE  UNCHANGED numberState /\ (NotStarted' => NotStarted)
  BY <1>2 DEF SourceInit, ReadLine, Update, UpdateThen, MainThrows, OptPause, PauseRead, PauseStore,
              PauseFlag, OptResume, ResumeRead, ResumeShift, OptExit, OptGenerator, NextOpt, Exit,
              Tick, vars, numberState, NotStarted
<1>3. CASE StreamRun
  BY <1>3 DEF StreamRun, SenderThrows, MainThrows, NumberInv, SeqInOrder, NotStarted
<1>4. CASE Loop
  BY <1>4 DEF Loop, NoPacket, NumberInv, SeqInOrder, NotStarted
<1>5. CASE NextSize
  <2>1. pkt'.seq = pkt.seq
    BY <1>5 DEF NextSize, TypeOK, Packets
  <2> QED
    BY <1>5, <2>1 DEF NextSize, NumberInv, SeqInOrder, NotStarted
<1>6. CASE NextStamp
  <2>1. seqno_' = seqno_ + 1 /\ pkt'.seq = seqno_'
    BY <1>6 DEF NextStamp, NumberInv, TypeOK, Packets
  <2> QED
    BY <1>6, <2>1 DEF NextStamp, NumberInv, SeqInOrder, NotStarted
<1>7. CASE ReadPaused \/ ReadTimeOfDay \/ ReadInstant \/ ReadOrigin \/ Wake
  <2>1. pkt'.seq = pkt.seq
    BY <1>7 DEF ReadPaused, ReadTimeOfDay, ReadInstant, ReadOrigin, Wake, TypeOK, Packets
  <2>2. /\ pc \in {"wait", "instant", "timeofday", "origin", "sleep"}
        /\ pc' \in {"instant", "timeofday", "origin", "sleep", "send"}
        /\ UNCHANGED <<seqno_, sent, main>>
    BY <1>7 DEF ReadPaused, ReadTimeOfDay, ReadInstant, ReadOrigin, SleepFrom, Wake
  <2> QED
    BY <2>1, <2>2 DEF NumberInv, SeqInOrder, NotStarted
<1>8. CASE Send
  <2>1. CASE UNCHANGED <<sent, pc>>
    BY <1>8, <2>1 DEF Send, NumberInv, SeqInOrder, NotStarted
  <2>2. CASE sent' = Append(sent, [seq |-> pkt.seq, tx |-> pkt.tx, at |-> now, read |-> x, stood |-> pkt.stood]) /\ pc' = "loop"
    <3>1. Len(sent') = Len(sent) + 1 /\ SeqInOrder'
      BY <1>8, <2>2 DEF Send, NumberInv, SeqInOrder, TypeOK
    <3> QED
      BY <1>8, <2>2, <3>1 DEF Send, NumberInv, NotStarted
  <2> QED
    BY <1>8, <2>1, <2>2 DEF Send
<1> QED
  BY <1>1, <1>2, <1>3, <1>4, <1>5, <1>6, <1>7, <1>8 DEF Next, MainThread, StreamThread

\* The packets handed to sendto() are numbered 1, 2, 3, ... without a gap or a repetition.
THEOREM PacketsNumbered == Spec => []SeqInOrder
<1>1. Init => NumberInv
  BY DEF Init, NumberInv, SeqInOrder, NotStarted
<1>2. NumberInv => SeqInOrder
  BY DEF NumberInv
<1> QED
  BY <1>1, <1>2, TypeCorrect, NumberStep, PTL DEF Spec
=============================================================================
