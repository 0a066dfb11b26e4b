--------------------------- MODULE WattsupProofs ---------------------------
(***************************************************************************)
(* Proofs about Wattsup, for every set of command lines, every bound on    *)
(* the line and the records, and every --count.                            *)
(*                                                                         *)
(* The inductive invariant says how far main() has come, as a shape of     *)
(* `calls': before wu_start_log(), about to start the log, in the loop of  *)
(* wu_read_data(), which a reset of the meter has main() leave for three   *)
(* calls, between the loop and wu_stop_log(), and over.                    *)
(***************************************************************************)
EXTENDS Wattsup, SequenceTheorems, TLAPS

SetupCalls == Shows \cup Stores \cup {"clear"}
RunCalls == <<"count", "start", "signal", "read_data", "stop">>
StartCalls == <<"start", "signal", "read_data", "stop">>
SignalCalls == <<"signal", "read_data", "stop">>
ReadCalls == <<"read_data", "stop">>

\* The reset of the meter in front of the loop's next read, call by call.
StopToReset == <<"stop", "clear", "restart", "read_data", "stop">>
ClearToReset == <<"clear", "restart", "read_data", "stop">>
StartAgain == <<"restart", "read_data", "stop">>
ResetCalls == {StopToReset, ClearToReset, StartAgain}
LoopCalls == ResetCalls \cup {ReadCalls}

\* main() has some of the setup to do, with the log after it or not.
Setup(cs) == \E s \in Seq(SetupCalls) : cs = s \/ cs = s \o RunCalls

\* The loop has met one of its ends: a signal, three failures, all the packets asked for.
Done == stop_loop \/ retry = 3 \/ (opts.count > 0 /\ i = opts.count)

Unstarted == i = 0 /\ retry = 0 /\ failures = 0 /\ restarts = 0 /\ taken = <<>>

\* The options are being stored and shown, or main() never came to that.
Before ==
  /\ Setup(calls)
  /\ pc # "record" /\ last = "none" /\ Unstarted

\* The count is known; the log is about to be started, or the handlers installed.
Starting ==
  /\ calls \in {StartCalls, SignalCalls}
  /\ pc \in {"main"} \cup Ended /\ opts.count >= 0 /\ Unstarted

\* wu_read_data(): no end is met but, perhaps, the signal.
Looping ==
  /\ calls \in LoopCalls
  /\ pc \in {"main", "reply", "record"} \cup Ended
  /\ pc = "record" => calls \notin ResetCalls
  /\ opts.count >= 0 /\ retry <= wu_max_retry /\ (opts.count > 0 => i < opts.count)

\* After the loop, wu_stop_log() has to be called or to return.
Leaving ==
  /\ calls = <<"stop">> /\ Done
  /\ pc \in {"main", "reply"} \cup Ended
  /\ pc = "reply" => last \in {"stopped", "stop failed"}

\* Nothing is left to do but to close: the log was not started, or was stopped.
Over ==
  /\ calls = <<>> /\ pc \in {"main"} \cup Ended
  /\ last # "started" /\ (last \in {"stopped", "stop failed"} => Done)

CallsInv == Before \/ Starting \/ Looping \/ Leaving \/ Over

\* What wu_read_data() counts: failures in a row, resets since the first of them, packets.
LoopInv ==
  /\ retry \in 0..wu_max_retry + 1 /\ failures = retry
  /\ restarts = IF retry >= wu_max_retry THEN 1 ELSE 0
  /\ i = IF opts.count > 0 THEN Len(taken) ELSE 0
  /\ opts.count > 0 => i <= opts.count

\* The command that stopped the log is still under way, with none behind it that starts it, or was obeyed.
StopComes == \E n \in 1..Len(line) : line[n] = <<"L", "R">> /\ \A m \in n+1..Len(line) : line[m][1] # "L"
StopObeyed == ~logging /\ \A m \in 1..Len(line) : line[m][1] # "L"
LineInv == last = "stopped" => StopComes \/ StopObeyed

PcInv ==
  /\ pc = "closed" => calls = <<>>
  /\ pc = "reply" => calls # <<>> /\ Head(calls) \in Shows \cup {"clear", "stop"}

Inv == TypeOK /\ CallsInv /\ LoopInv /\ LineInv /\ PcInv

-----------------------------------------------------------------------------
(* Sequences *)

\* The tail of a sequence that is not empty.
LEMMA TailType ==
  ASSUME NEW S, NEW s \in Seq(S), s # <<>>
  PROVE  Head(s) \in S /\ Tail(s) \in Seq(S) /\ Len(Tail(s)) = Len(s) - 1 /\ Len(s) > 0
BY SMT

\* A sequence followed by another gives up the first one's head.
LEMMA ConcatStep ==
  ASSUME NEW S, NEW T, NEW s \in Seq(S), NEW t \in Seq(T), s # <<>>
  PROVE  s \o t # <<>> /\ Head(s \o t) = Head(s) /\ Tail(s \o t) = Tail(s) \o t
<1>1. Len(s) > 0 /\ Len(s \o t) = Len(s) + Len(t)
  BY SMT
<1>2. Tail(s) \in Seq(S) /\ Len(Tail(s)) = Len(s) - 1
  BY SMT
<1>3. Len(Tail(s) \o t) = Len(Tail(s \o t))
  BY <1>1, <1>2, SMT
<1>4. \A n \in 1..Len(Tail(s) \o t) : (Tail(s) \o t)[n] = Tail(s \o t)[n]
  BY <1>1, <1>2, SMT
<1>5. Tail(s) \o t \in Seq(S \cup T) /\ Tail(s \o t) \in Seq(S \cup T)
  BY <1>1, <1>2, SMT
<1> QED
  BY <1>1, <1>3, <1>4, <1>5, SMT

\* What CallIf() adds to the calls.
LEMMA CallIfType ==
  ASSUME NEW S, NEW c \in S, NEW made
  PROVE  CallIf(made, c) \in Seq(S) /\ Len(CallIf(made, c)) <= 1
<1>1. <<c>> \in Seq(S) /\ Len(<<c>>) = 1 /\ <<>> \in Seq(S) /\ Len(<<>>) = 0
  BY SMT
<1> QED
  BY <1>1, SMT DEF CallIf

\* The calls that set the meter up: at most nine.
LEMMA SetupType ==
  ASSUME NEW o
  PROVE  LET s == <<"clear">> \o StoreCalls(o) \o ShowCalls(o) IN s \in Seq(SetupCalls) /\ Len(s) <= 9
<1>1. StoreCalls(o) \in Seq(SetupCalls) /\ Len(StoreCalls(o)) <= 3
  <2> DEFINE a == CallIf(o.interval # "no", "set_interval")
             b == CallIf(o.mode # "no", "set_mode")
             c == CallIf(o.user # "no", "set_user")
  <2>1. a \in Seq(SetupCalls) /\ Len(a) <= 1 /\ b \in Seq(SetupCalls) /\ Len(b) <= 1
        /\ c \in Seq(SetupCalls) /\ Len(c) <= 1
    BY CallIfType, Zenon DEF SetupCalls, Stores
  <2>2. StoreCalls(o) = a \o b \o c
    BY DEF StoreCalls
  <2> HIDE DEF a, b, c
  <2> QED
    BY <2>1, <2>2, SMT
<1>2. ShowCalls(o) \in Seq(SetupCalls) /\ Len(ShowCalls(o)) <= 5
  <2> DEFINE asked(v) == o.info_all \/ (v # "no" /\ ~o.set_only)
             a == CallIf(o.info_all \/ o.cal, "cal")
             b == CallIf(o.info_all \/ o.header, "header")
             c == CallIf(asked(o.interval), "interval")
             d == CallIf(asked(o.mode), "mode")
             e == CallIf(asked(o.user), "user")
  <2>1. a \in Seq(SetupCalls) /\ Len(a) <= 1 /\ b \in Seq(SetupCalls) /\ Len(b) <= 1
        /\ c \in Seq(SetupCalls) /\ Len(c) <= 1 /\ d \in Seq(SetupCalls) /\ Len(d) <= 1
        /\ e \in Seq(SetupCalls) /\ Len(e) <= 1
    BY CallIfType, Zenon DEF SetupCalls, Shows
  <2>2. ShowCalls(o) = a \o b \o c \o d \o e
    BY DEF ShowCalls
  <2> HIDE DEF a, b, c, d, e
  <2> QED
    BY <2>1, <2>2, SMT
<1>3. <<"clear">> \in Seq(SetupCalls) /\ Len(<<"clear">>) = 1
  BY SMT DEF SetupCalls
<1> DEFINE p == StoreCalls(o)
           q == ShowCalls(o)
           r == <<"clear">>
<1> HIDE DEF p, q, r
<1>4. r \o p \o q \in Seq(SetupCalls) /\ Len(r \o p \o q) = Len(r) + Len(p) + Len(q)
      /\ Len(p) \in Nat /\ Len(q) \in Nat
  BY <1>1, <1>2, <1>3, SMT DEF p, q, r
<1> QED
  BY <1>1, <1>2, <1>3, <1>4, SMT DEF p, q, r

\* What main() has to call, when it calls anything: at most 14 calls.
LEMMA MainCallsType ==
  ASSUME NEW o
  PROVE  /\ MainCalls(o) \in Seq(Calls) /\ Len(MainCalls(o)) <= 14
         /\ Setup(MainCalls(o))
<1> DEFINE s == <<"clear">> \o StoreCalls(o) \o ShowCalls(o)
<1>1. s \in Seq(SetupCalls) /\ Len(s) <= 9
  BY SetupType
<1>2. s \in Seq(Calls)
  <2>1. SetupCalls \subseteq Calls
    BY Zenon DEF SetupCalls, Calls
  <2> QED
    BY <1>1, <2>1, SMT
<1>3. RunCalls \in Seq(Calls) /\ Len(RunCalls) = 5
  BY SMT DEF RunCalls, Calls
<1>4. MainCalls(o) = s \o (IF o.no_data THEN <<>> ELSE RunCalls)
  BY DEF MainCalls, RunCalls
<1> HIDE DEF s
<1>5. s \o <<>> = s
  BY <1>1, SMT
<1>6. s \o RunCalls \in Seq(Calls) /\ Len(s \o RunCalls) = Len(s) + 5
  <2>1. s \o RunCalls \in Seq(Calls) /\ Len(s \o RunCalls) = Len(s) + Len(RunCalls)
    BY <1>2, <1>3, ConcatProperties, Zenon
  <2> QED
    BY <1>3, <2>1
<1> QED
  BY <1>1, <1>2, <1>4, <1>5, <1>6, SMT DEF Setup

-----------------------------------------------------------------------------
(* Types *)

\* The lines to and from the meter have their types.
LineType == line \in Seq(Packets \X {"R", "W"}) /\ Len(line) <= MaxLine
AnswersType == answers \in Seq(Packets) /\ Len(answers) <= MaxLine
CallsType == calls \in Seq(Calls) /\ Len(calls) <= 14

\* wu_write() puts at most one command on the line, and no more than the line holds.
LEMMA WrittenType ==
  ASSUME LineType, NEW c \in Calls \ {"count", "signal", "read_data"}, Written(c)
  PROVE  LineType'
<1>1. CommandOf(c) \in Packets \X {"R", "W"}
  BY SMT DEF Calls, Shows, Stores, CommandOf, Packets
<1> DEFINE k == CommandOf(c)
<1> HIDE DEF k
<1>2. CASE Len(line) < MaxLine /\ line' = Append(line, k)
  <2> DEFINE P == Packets \X {"R", "W"}
  <2>1. line \in Seq(P) /\ k \in P
    BY <1>1 DEF LineType, k
  <2> HIDE DEF P
  <2>2. Append(line, k) \in Seq(P) /\ Len(Append(line, k)) = Len(line) + 1 /\ Len(line) \in Nat
    BY <2>1, SMT
  <2> QED
    BY <1>2, <2>2, BoundsAssumption, SMT DEF LineType, P, BoundsAssumption
<1>3. CASE UNCHANGED line
  BY <1>3 DEF LineType
<1> QED
  BY <1>2, <1>3 DEF Written, k

\* A packet that arrives finds room; read() takes packets away.
LEMMA AnswersStep ==
  ASSUME AnswersType
  PROVE  /\ \A p \in Packets : Arrives(p) => AnswersType'
         /\ ReadSome => AnswersType'
         /\ ReadError => AnswersType'
         /\ \A p : ReadPacket(p) => AnswersType'
<1>1. ASSUME NEW p \in Packets, Arrives(p)
      PROVE  AnswersType'
  <2>1. \A a \in Packets : Append(answers, a) \in Seq(Packets) /\ Len(Append(answers, a)) = Len(answers) + 1
    BY SMT DEF AnswersType
  <2>2. "garbled" \in Packets /\ Len(answers) \in Nat
    BY SMT DEF Packets, AnswersType
  <2> QED
    BY <1>1, <2>1, <2>2, BoundsAssumption, SMT DEF AnswersType, Arrives, BoundsAssumption
<1>2. ReadSome => AnswersType'
  BY BoundsAssumption, SMT DEF ReadSome, AnswersType, BoundsAssumption
<1>3. ReadError => AnswersType'
  BY <1>2 DEF ReadError, AnswersType
<1> QED
  BY <1>1, <1>2, <1>3 DEF ReadPacket

\* A call main() has made leaves the others.
LEMMA NextCallType ==
  ASSUME CallsType, calls # <<>>, NextCall \/ GotoClose
  PROVE  CallsType'
<1>1. CASE NextCall
  <2>1. Tail(calls) \in Seq(Calls) /\ Len(Tail(calls)) = Len(calls) - 1 /\ Len(calls) \in Nat
    BY TailType, SMT DEF CallsType
  <2> QED
    BY <1>1, <2>1, SMT DEF CallsType, NextCall
<1>2. CASE GotoClose
  BY <1>2, SMT DEF CallsType, GotoClose
<1> QED
  BY <1>1, <1>2

\* --count is a number, or the -1 that stands for a bad one.
LEMMA CountType ==
  ASSUME NEW o \in Options
  PROVE  o.count \in Int /\ o.count <= MaxCount /\ (o.count # BadCount => o.count >= 0)
<1>1. o.count \in {BadCount} \cup 0..MaxCount
  BY SMT DEF Options
<1> QED
  BY <1>1, BoundsAssumption, SMT DEF BadCount, BoundsAssumption

\* The history of packets drops the oldest one when it is full.
LEMMA TakenType ==
  ASSUME NEW t \in Seq(Packets), Len(t) <= MaxCount + 1, NEW p \in Packets
  PROVE  LET u == IF Len(t) > MaxCount THEN Append(Tail(t), p) ELSE Append(t, p)
         IN  u \in Seq(Packets) /\ Len(u) <= MaxCount + 1
<1>1. Len(t) \in Nat /\ Append(t, p) \in Seq(Packets) /\ Len(Append(t, p)) = Len(t) + 1
  BY SMT
<1>2. CASE Len(t) > MaxCount
  <2>1. t # <<>>
    BY <1>2, BoundsAssumption, SMT DEF BoundsAssumption
  <2>2. Tail(t) \in Seq(Packets) /\ Len(Tail(t)) = Len(t) - 1
    BY <2>1, TailType
  <2>3. Append(Tail(t), p) \in Seq(Packets) /\ Len(Append(Tail(t), p)) = Len(Tail(t)) + 1
    BY <2>2, SMT
  <2> QED
    BY <1>1, <1>2, <2>2, <2>3, BoundsAssumption, SMT DEF BoundsAssumption
<1>3. CASE ~(Len(t) > MaxCount)
  BY <1>1, <1>3, BoundsAssumption, SMT DEF BoundsAssumption
<1> QED
  BY <1>2, <1>3

\* The calls from wu_start_log() on, one by one.
LEMMA RunSequences ==
  /\ Head(RunCalls) = "count" /\ Tail(RunCalls) = StartCalls /\ RunCalls # <<>>
  /\ Head(StartCalls) = "start" /\ Tail(StartCalls) = SignalCalls
  /\ Head(SignalCalls) = "signal" /\ Tail(SignalCalls) = ReadCalls
  /\ Head(ReadCalls) = "read_data" /\ Tail(ReadCalls) = <<"stop">> /\ ReadCalls # <<>>
  /\ Head(<<"stop">>) = "stop" /\ Tail(<<"stop">>) = <<>>
  /\ <<"stop">> \in Seq(Calls) /\ Len(<<"stop">>) <= 14
<1>1. Head(RunCalls) = "count" /\ Tail(RunCalls) = StartCalls /\ RunCalls # <<>>
  BY SMT DEF RunCalls, StartCalls
<1>2. Head(StartCalls) = "start" /\ Tail(StartCalls) = SignalCalls
  BY SMT DEF StartCalls, SignalCalls
<1>3. Head(SignalCalls) = "signal" /\ Tail(SignalCalls) = ReadCalls
  BY SMT DEF SignalCalls, ReadCalls
<1>4. Head(ReadCalls) = "read_data" /\ Tail(ReadCalls) = <<"stop">> /\ ReadCalls # <<>>
  BY SMT DEF ReadCalls
<1>5. Head(<<"stop">>) = "stop" /\ Tail(<<"stop">>) = <<>>
  BY SMT
<1>6. <<"stop">> \in Seq(Calls) /\ Len(<<"stop">>) <= 14
  BY SMT DEF Calls
<1> QED
  BY <1>1, <1>2, <1>3, <1>4, <1>5, <1>6

\* The reset of the meter in front of the loop, and its calls one by one.
LEMMA ResetSequences ==
  /\ <<"stop", "clear", "restart">> \o ReadCalls = StopToReset
  /\ StopToReset \in Seq(Calls) /\ Len(StopToReset) <= 14
  /\ Head(StopToReset) = "stop" /\ Tail(StopToReset) = ClearToReset
  /\ Head(ClearToReset) = "clear" /\ Tail(ClearToReset) = StartAgain
  /\ Head(StartAgain) = "restart" /\ Tail(StartAgain) = ReadCalls
<1>1. StopToReset \in Seq(Calls) /\ Len(StopToReset) = 5
  BY SMT DEF Calls, StopToReset
<1>2. <<"stop", "clear", "restart">> \o ReadCalls = StopToReset
  <2> DEFINE a == <<"stop", "clear", "restart">>
             b == ReadCalls
             c == StopToReset
  <2>1. a \in Seq(Calls) /\ Len(a) = 3
    BY SMT DEF Calls
  <2>2. b \in Seq(Calls) /\ Len(b) = 2
    BY SMT DEF Calls, ReadCalls
  <2>3. c[1] = a[1] /\ c[2] = a[2] /\ c[3] = a[3] /\ c[4] = b[1] /\ c[5] = b[2]
    BY SMT DEF StopToReset, ReadCalls
  <2> HIDE DEF a, b, c
  <2>4. /\ a \o b \in Seq(Calls) /\ Len(a \o b) = Len(a) + Len(b)
        /\ \A n \in 1..Len(a) + Len(b) : (a \o b)[n] = IF n <= Len(a) THEN a[n] ELSE b[n - Len(a)]
    BY <2>1, <2>2, ConcatProperties, Zenon
  <2>5. \A n \in 1..5 : (a \o b)[n] = c[n]
    BY <2>1, <2>2, <2>3, <2>4, SMT
  <2>6. c \in Seq(Calls) /\ Len(c) = 5
    BY <1>1 DEF c
  <2>7. a \o b = c
    BY <2>1, <2>2, <2>4, <2>5, <2>6, SeqEqual, SMT
  <2> QED
    BY <2>7 DEF a, b, c
<1>3. Head(StopToReset) = "stop" /\ Tail(StopToReset) = ClearToReset
  BY SMT DEF StopToReset, ClearToReset
<1>4. Head(ClearToReset) = "clear" /\ Tail(ClearToReset) = StartAgain
  BY SMT DEF ClearToReset, StartAgain
<1>5. Head(StartAgain) = "restart" /\ Tail(StartAgain) = ReadCalls
  BY SMT DEF StartAgain, ReadCalls
<1> QED
  BY <1>1, <1>2, <1>3, <1>4, <1>5, SMT

\* The calls of every stage, and the facts about `calls' each action relies on, have their types.
LEMMA TypeStep ==
  ASSUME Inv, Next
  PROVE  TypeOK'
<1> USE DEF Inv
<1>0. LineType /\ AnswersType /\ CallsType
  BY DEF TypeOK, LineType, AnswersType, CallsType
<1>1. CASE ParseArgs
  BY <1>1 DEF TypeOK, ParseArgs, program, loop, meter, Ended
<1>2. CASE OpenDevice
  BY <1>2 DEF TypeOK, OpenDevice, program, loop, meter, Ended
<1>3. CASE SetupSerial
  <2>1. CallsType'
    <3>1. <<>> \in Seq(Calls) /\ Len(<<>>) <= 14
      BY SMT
    <3>2. calls' = <<>> \/ calls' = MainCalls(opts)
      BY <1>3 DEF SetupSerial
    <3> QED
      BY <3>1, <3>2, MainCallsType, Zenon DEF CallsType
  <2>2. AnswersType'
    <3>1. <<>> \in Seq(Packets) /\ Len(<<>>) <= MaxLine
      BY BoundsAssumption, SMT DEF BoundsAssumption
    <3>2. answers' = <<>> \/ answers' = answers
      BY <1>3 DEF SetupSerial
    <3> QED
      BY <1>0, <3>1, <3>2, Zenon DEF AnswersType
  <2> QED
    BY <1>3, <2>1, <2>2 DEF TypeOK, SetupSerial, program, loop, meter, Ended, CallsType, AnswersType
<1>4. ASSUME NEW c \in {"set_interval", "set_mode"}, StoreNumber(c)
      PROVE  TypeOK'
  <2>1. CallsType'
    BY <1>0, <1>4, NextCallType DEF StoreNumber, AtCall, CallsType
  <2>2. LineType'
    <3>1. c \in Calls \ {"count", "signal", "read_data"}
      BY SMT DEF Calls, Stores
    <3> QED
      BY <1>0, <1>4, <3>1, WrittenType DEF StoreNumber, NotWritten, LineType
  <2> QED
    BY <1>4, <2>1, <2>2 DEF TypeOK, StoreNumber, program, loop, meter, Ended, CallsType, LineType
<1>5. CASE StoreUser
  <2>1. CallsType'
    BY <1>0, <1>5, NextCallType DEF StoreUser, AtCall, CallsType
  <2>2. LineType'
    <3>1. "set_user" \in Calls \ {"count", "signal", "read_data"}
      BY SMT DEF Calls, Stores
    <3> QED
      BY <1>0, <1>5, <3>1, WrittenType DEF StoreUser, NotWritten, LineType
  <2> QED
    BY <1>5, <2>1, <2>2 DEF TypeOK, StoreUser, program, loop, meter, Ended, CallsType, LineType
<1>6. CASE StoreCount
  <2>1. CallsType'
    BY <1>0, <1>6, NextCallType DEF StoreCount, AtCall
  <2> QED
    BY <1>6, <2>1 DEF TypeOK, StoreCount, program, loop, meter, CallsType
<1>7. ASSUME NEW c \in Shows \cup {"clear", "stop"}, Request(c)
      PROVE  TypeOK'
  <2>1. CallsType'
    BY <1>0, <1>7, NextCallType DEF Request, AtCall, CallsType
  <2>2. LineType'
    <3>1. c \in Calls \ {"count", "signal", "read_data"}
      BY SMT DEF Calls, Shows
    <3> QED
      BY <1>0, <1>7, <3>1, WrittenType DEF Request, NotWritten, LineType
  <2> QED
    BY <1>7, <2>1, <2>2 DEF TypeOK, Request, program, loop, meter, CallsType, LineType
<1>8. CASE Reply
  <2>1. CallsType' /\ AnswersType'
    BY <1>0, <1>8, NextCallType, AnswersStep DEF Reply, PcInv
  <2> QED
    BY <1>8, <2>1 DEF TypeOK, Reply, program, loop, meter, CallsType, AnswersType
<1>9. ASSUME NEW c \in {"start", "restart"}, StartLog(c)
      PROVE  TypeOK'
  <2>1. CallsType'
    BY <1>0, <1>9, NextCallType DEF StartLog, AtCall
  <2>2. LineType'
    <3>1. c \in Calls \ {"count", "signal", "read_data"}
      BY SMT DEF Calls
    <3> QED
      BY <1>0, <1>9, <3>1, WrittenType DEF StartLog, NotWritten, LineType
  <2> QED
    BY <1>9, <2>1, <2>2 DEF TypeOK, StartLog, program, loop, meter, CallsType, LineType
<1>10. CASE InstallHandlers
  <2>1. CallsType'
    BY <1>0, <1>10, NextCallType DEF InstallHandlers, AtCall
  <2> QED
    BY <1>10, <2>1 DEF TypeOK, InstallHandlers, loop, meter, CallsType
<1>11. CASE LoopTest
  <2>1. CallsType'
    BY <1>0, <1>11, NextCallType DEF LoopTest, AtCall, CallsType
  <2> QED
    BY <1>11, <2>1 DEF TypeOK, LoopTest, program, loop, meter, CallsType
<1>12. CASE RecordError
  <2>1. pc = "record" /\ Looping /\ calls = ReadCalls
    BY <1>12, SMT DEF RecordError, CallsInv, Before, Starting, Looping, Leaving, Over, LoopCalls, Ended
  <2>2. retry' \in 0..wu_max_retry + 1
    <3>1. retry \in 0..wu_max_retry + 1 /\ retry <= wu_max_retry
      BY <2>1, Zenon DEF TypeOK, Looping
    <3>2. retry' = retry + 1
      BY <1>12 DEF RecordError, ResetMeter, GiveUp
    <3> QED
      BY <3>1, <3>2, SMT DEF wu_max_retry
  <2>3. AnswersType'
    BY <1>0, <1>12, AnswersStep DEF RecordError
  <2>4. CallsType'
    <3>1. calls' \in {calls, Tail(calls), <<"stop", "clear", "restart">> \o calls}
      BY <1>12 DEF RecordError, ResetMeter, GiveUp, NextCall
    <3> QED
      BY <1>0, <2>1, <3>1, RunSequences, ResetSequences, Zenon DEF CallsType
  <2>5. i' = i
    BY <1>12 DEF RecordError, ResetMeter, GiveUp
  <2> QED
    BY <1>12, <2>2, <2>3, <2>4, <2>5 DEF TypeOK, RecordError, program, meter, CallsType, AnswersType
<1>13. CASE RecordRead
  <2>1. pc = "record" /\ Looping /\ calls = ReadCalls
    BY <1>13, SMT DEF RecordRead, CallsInv, Before, Starting, Looping, Leaving, Over, LoopCalls, Ended
  <2>2. AnswersType'
    BY <1>0, <1>13, AnswersStep DEF RecordRead
  <2>3. CallsType'
    BY <1>0, <1>13, <2>1, NextCallType, RunSequences DEF RecordRead, CallsType
  <2>4. PICK p \in Packets : RecordRead!2!(p)
    BY <1>13, Zenon DEF RecordRead
  <2>5. i' \in 0..MaxCount
    <3>1. opts.count \in Int /\ opts.count <= MaxCount
      BY CountType DEF TypeOK
    <3>2. i \in 0..MaxCount /\ opts.count >= 0 /\ (opts.count > 0 => i < opts.count)
      BY <2>1 DEF Looping, TypeOK
    <3>3. i' = i \/ (i' = i + 1 /\ opts.count # 0)
      BY <2>4
    <3> QED
      BY <3>1, <3>2, <3>3, BoundsAssumption, SMT DEF BoundsAssumption
  <2>6. taken' \in Seq(Packets) /\ Len(taken') <= MaxCount + 1
    <3>1. taken \in Seq(Packets) /\ Len(taken) <= MaxCount + 1
      BY DEF TypeOK
    <3>2. taken' = taken \/ taken' = IF Len(taken) > MaxCount THEN Append(Tail(taken), p) ELSE Append(taken, p)
      BY <2>4
    <3> QED
      BY <3>1, <3>2, TakenType
  <2>7. full' \in BOOLEAN
    BY <2>4, Zenon DEF TypeOK
  <2>8. retry' \in 0..wu_max_retry + 1
    BY <1>13, SMT DEF RecordRead, RetryReset, wu_max_retry
  <2>9. pc' \in {"main"} \cup Ended
    BY <2>4, SMT DEF Ended
  <2> QED
    BY <1>13, <2>2, <2>3, <2>5, <2>6, <2>7, <2>8, <2>9
    DEF TypeOK, RecordRead, program, meter, CallsType, AnswersType
<1>14. CASE Close
  BY <1>14 DEF TypeOK, Close, program, loop, meter, Ended
<1>15. CASE Signal
  BY <1>15 DEF TypeOK, Signal, program, loop, meter, Ended
<1>16. CASE Obey
  <2>1. LineType'
    <3> DEFINE P == Packets \X {"R", "W"}
    <3>1. line \in Seq(P) /\ line # <<>>
      BY <1>0, <1>16 DEF Obey, LineType
    <3> HIDE DEF P
    <3>2. Tail(line) \in Seq(P) /\ Len(Tail(line)) = Len(line) - 1 /\ Len(line) \in Nat
      BY <3>1, SMT
    <3> QED
      BY <1>0, <1>16, <3>2, BoundsAssumption, SMT DEF Obey, LineType, P, BoundsAssumption
  <2>2. AnswersType'
    <3>1. Head(line) \in Packets \X {"R", "W"}
      BY <1>0, <1>16, TailType, Zenon DEF Obey, LineType
    <3> QED
      BY <1>0, <1>16, <3>1, AnswersStep DEF Obey, AnswersType
  <2>3. logging' \in BOOLEAN
    BY <1>16, Zenon DEF Obey, TypeOK
  <2> QED
    BY <1>16, <2>1, <2>2, <2>3 DEF TypeOK, Obey, program, loop, LineType, AnswersType
<1>17. CASE Record
  <2>1. AnswersType'
    <3>1. "d" \in Packets
      BY SMT DEF Packets
    <3> QED
      BY <1>0, <1>17, <3>1, AnswersStep DEF Record
  <2>2. records' \in 0..MaxRecords
    <3>1. records \in 0..MaxRecords /\ records < MaxRecords /\ records' = records + 1
      BY <1>17 DEF Record, TypeOK
    <3> QED
      BY <3>1, BoundsAssumption, SMT DEF BoundsAssumption
  <2> QED
    BY <1>17, <2>1, <2>2 DEF TypeOK, Record, program, loop, AnswersType
<1> QED
  BY <1>1, <1>2, <1>3, <1>4, <1>5, <1>6, <1>7, <1>8, <1>9, <1>10, <1>11, <1>12, <1>13, <1>14, <1>15,
     <1>16, <1>17 DEF Next, Main

-----------------------------------------------------------------------------
(* How far main() has come *)

\* The setup goes on call by call, and is over or followed by wu_store_count().
LEMMA SetupStep ==
  ASSUME NEW cs, Setup(cs), cs # <<>>
  PROVE  (Head(cs) \in SetupCalls /\ Setup(Tail(cs))) \/ cs = RunCalls
<1>1. PICK s \in Seq(SetupCalls) : cs = s \/ cs = s \o RunCalls
  BY DEF Setup
<1>2. RunCalls \in Seq(Calls)
  BY SMT DEF RunCalls, Calls
<1>3. CASE s = <<>>
  <2>1. <<>> \o RunCalls = RunCalls
    BY <1>2, ConcatEmptySeq, Zenon
  <2> QED
    BY <1>1, <1>3, <2>1
<1>4. CASE s # <<>>
  <2>1. Head(s) \in SetupCalls /\ Tail(s) \in Seq(SetupCalls)
    BY <1>4, TailType, Zenon
  <2>2. Head(s \o RunCalls) = Head(s) /\ Tail(s \o RunCalls) = Tail(s) \o RunCalls
    <3>1. s \in Seq(SetupCalls) /\ RunCalls \in Seq(Calls) /\ s # <<>>
      BY <1>1, <1>2, <1>4
    <3> QED
      BY <3>1, ConcatStep, SMT
  <2> QED
    BY <1>1, <2>1, <2>2, Zenon DEF Setup
<1> QED
  BY <1>3, <1>4

\* Nothing left of the setup is a setup.
LEMMA SetupEmpty == Setup(<<>>)
<1>1. <<>> \in Seq(SetupCalls)
  BY SMT
<1> QED
  BY <1>1, Zenon DEF Setup

\* The next call in each stage, and what follows it.
LEMMA StageHead ==
  ASSUME CallsInv, calls # <<>>
  PROVE  /\ Before => \/ Head(calls) \in SetupCalls /\ Setup(Tail(calls))
                      \/ Head(calls) = "count" /\ Tail(calls) = StartCalls
         /\ Starting => \/ calls = StartCalls /\ Head(calls) = "start" /\ Tail(calls) = SignalCalls
                        \/ calls = SignalCalls /\ Head(calls) = "signal" /\ Tail(calls) = ReadCalls
         /\ Looping => \/ Head(calls) = "stop" /\ Tail(calls) = ClearToReset
                       \/ Head(calls) = "clear" /\ Tail(calls) = StartAgain
                       \/ Head(calls) = "restart" /\ Tail(calls) = ReadCalls
                       \/ calls = ReadCalls /\ Head(calls) = "read_data" /\ Tail(calls) = <<"stop">>
         /\ Leaving => Head(calls) = "stop" /\ Tail(calls) = <<>>
         /\ ~Over
<1>1. Before => \/ Head(calls) \in SetupCalls /\ Setup(Tail(calls))
                \/ Head(calls) = "count" /\ Tail(calls) = StartCalls
  BY SetupStep, RunSequences, Zenon DEF Before
<1>2. Starting => \/ calls = StartCalls /\ Head(calls) = "start" /\ Tail(calls) = SignalCalls
                  \/ calls = SignalCalls /\ Head(calls) = "signal" /\ Tail(calls) = ReadCalls
  BY RunSequences, Zenon DEF Starting
<1>3. Looping => \/ Head(calls) = "stop" /\ Tail(calls) = ClearToReset
                 \/ Head(calls) = "clear" /\ Tail(calls) = StartAgain
                 \/ Head(calls) = "restart" /\ Tail(calls) = ReadCalls
                 \/ calls = ReadCalls /\ Head(calls) = "read_data" /\ Tail(calls) = <<"stop">>
  BY ResetSequences, RunSequences, Zenon DEF Looping, LoopCalls, ResetCalls
<1>4. Leaving => Head(calls) = "stop" /\ Tail(calls) = <<>>
  BY RunSequences, Zenon DEF Leaving
<1> QED
  BY <1>1, <1>2, <1>3, <1>4, Zenon DEF Over

\* The loop's next read is not a call of the reset.
LEMMA ReadNotReset == ReadCalls \notin ResetCalls
<1>1. ReadCalls # StopToReset
  BY ResetSequences, RunSequences, Zenon
<1>2. ReadCalls # ClearToReset
  BY ResetSequences, RunSequences, Zenon
<1>3. ReadCalls # StartAgain
  BY ResetSequences, RunSequences, Zenon
<1> QED
  BY <1>1, <1>2, <1>3, Zenon DEF ResetCalls

\* The stages between the setup and the end have calls to make.
LEMMA NotEmpty ==
  /\ \A cs \in {StartCalls, SignalCalls} \cup LoopCalls : cs # <<>>
  /\ <<"stop">> # <<>>
BY SMT DEF LoopCalls, ResetCalls, StartCalls, SignalCalls, ReadCalls, StopToReset, ClearToReset, StartAgain

\* main() before the line to the meter is open.
LEMMA OpenCalls ==
  ASSUME Inv, ParseArgs \/ OpenDevice \/ SetupSerial
  PROVE  CallsInv'
<1>1. Before
  BY Zenon DEF Inv, CallsInv, ParseArgs, OpenDevice, SetupSerial, Starting, Looping, Leaving, Over, Ended
<1>2. Setup(calls')
  BY <1>1, SetupEmpty, MainCallsType, Zenon DEF Before, ParseArgs, OpenDevice, SetupSerial
<1>3. pc' # "record"
  BY SMT DEF ParseArgs, OpenDevice, SetupSerial
<1>4. UNCHANGED <<loop, last>>
  BY DEF ParseArgs, OpenDevice, SetupSerial
<1> QED
  BY <1>1, <1>2, <1>3, <1>4, Zenon DEF CallsInv, Before, Unstarted, loop

\* The calls that store the options.
LEMMA StoreCallsKept ==
  ASSUME Inv, StoreUser \/ StoreCount \/ \E c \in {"set_interval", "set_mode"} : StoreNumber(c)
  PROVE  CallsInv'
<1>1. /\ calls # <<>> /\ pc = "main" /\ Head(calls) \in {"set_user", "count", "set_interval", "set_mode"}
      /\ UNCHANGED <<opts, loop, last>> /\ pc' # "record"
  BY SMT DEF StoreUser, StoreCount, StoreNumber, AtCall, program
<1>2. Before
  BY <1>1, StageHead, SMT DEF Inv, CallsInv
<1>3. CASE StoreCount /\ opts.count # BadCount
  <2>1. calls' = StartCalls
    BY <1>2, <1>3, StageHead, SMT DEF Inv, StoreCount, AtCall, NextCall, SetupCalls, Shows, Stores
  <2>2. opts.count >= 0
    BY <1>3, CountType DEF Inv, TypeOK
  <2> QED
    BY <1>1, <1>2, <1>3, <2>1, <2>2, Zenon DEF CallsInv, Before, Starting, StoreCount, Unstarted, loop
<1>4. CASE ~(StoreCount /\ opts.count # BadCount)
  <2>1. Setup(calls')
    <3>1. StoreUser \/ (\E c \in {"set_interval", "set_mode"} : StoreNumber(c))
          => Head(calls) # "count" /\ calls' \in {<<>>, Tail(calls), calls}
      BY SMT DEF StoreUser, StoreNumber, AtCall, NextCall, GotoClose
    <3>2. StoreCount => calls' = <<>>
      BY <1>4 DEF StoreCount, GotoClose
    <3> QED
      BY <1>1, <1>2, <3>1, <3>2, SetupEmpty, StageHead, Zenon DEF Inv, Before
  <2> QED
    BY <1>1, <1>2, <2>1, Zenon DEF CallsInv, Before, Unstarted, loop
<1> QED
  BY <1>3, <1>4

\* The calls that are answered, while they write.
LEMMA RequestCalls ==
  ASSUME Inv, NEW c \in Shows \cup {"clear", "stop"}, Request(c)
  PROVE  CallsInv'
<1>1. /\ calls # <<>> /\ pc = "main" /\ Head(calls) = c /\ UNCHANGED <<opts, loop, stop_loop>>
      /\ (calls' = calls /\ pc' = "reply") \/ (calls' = Tail(calls) /\ pc' = "main" /\ line' = line)
      /\ last' = IF c # "stop" THEN last ELSE IF line' # line THEN "stopped" ELSE "stop failed"
  BY DEF Request, AtCall, program, NextCall, NotWritten
<1>2. CASE Before
  <2>1. c \in SetupCalls /\ Setup(calls) /\ Setup(Tail(calls)) /\ c # "stop"
    BY <1>1, <1>2, StageHead, Zenon DEF Inv, SetupCalls, Shows, Stores, Before
  <2> QED
    BY <1>1, <1>2, <2>1, Zenon DEF CallsInv, Before, Unstarted, loop
<1>3. ~Starting
  BY <1>1, StageHead, Zenon DEF Inv, Shows
<1>4. CASE Looping
  <2>1. calls \in LoopCalls /\ Tail(calls) \in LoopCalls
    BY <1>1, <1>4, StageHead, Zenon DEF Inv, Shows, Looping, LoopCalls, ResetCalls
  <2> QED
    BY <1>1, <1>4, <2>1, Zenon DEF CallsInv, Looping, loop
<1>5. CASE Leaving
  <2>1. c = "stop" /\ Tail(calls) = <<>>
    BY <1>1, <1>5, StageHead DEF Inv
  <2>2. last' \in {"stopped", "stop failed"} /\ Done'
    BY <1>1, <1>5, <2>1, Zenon DEF Leaving, Done, loop
  <2> QED
    BY <1>1, <1>5, <2>1, <2>2, Zenon DEF CallsInv, Leaving, Over
<1> QED
  BY <1>1, <1>2, <1>3, <1>4, <1>5, StageHead DEF Inv, CallsInv

\* The calls that are answered, when the answer has come or has not.
LEMMA ReplyCalls ==
  ASSUME Inv, Reply
  PROVE  CallsInv'
<1>1. /\ calls # <<>> /\ pc = "reply" /\ pc' = "main" /\ Head(calls) \in Shows \cup {"clear", "stop"}
      /\ calls' = Tail(calls) /\ UNCHANGED <<opts, loop, stop_loop, last>>
  BY DEF Inv, PcInv, Reply, NextCall, program
<1>2. CASE Before
  <2>1. Setup(Tail(calls))
    BY <1>1, <1>2, StageHead, Zenon DEF Inv, Shows
  <2> QED
    BY <1>1, <1>2, <2>1, Zenon DEF CallsInv, Before, Unstarted, loop
<1>3. ~Starting
  BY <1>1, Zenon DEF Starting, Ended
<1>4. CASE Looping
  <2>1. Tail(calls) \in LoopCalls
    BY <1>1, <1>4, StageHead, Zenon DEF Inv, Shows, LoopCalls, ResetCalls
  <2> QED
    BY <1>1, <1>4, <2>1, Zenon DEF CallsInv, Looping, loop
<1>5. CASE Leaving
  <2>1. calls' = <<>> /\ Done'
    BY <1>1, <1>5, StageHead, Zenon DEF Inv, Leaving, Done, loop
  <2> QED
    BY <1>1, <1>5, <2>1, Zenon DEF CallsInv, Leaving, Over
<1> QED
  BY <1>1, <1>2, <1>3, <1>4, <1>5, StageHead DEF Inv, CallsInv

\* wu_start_log(), of main() and of the reset.
LEMMA StartLogCalls ==
  ASSUME Inv, NEW c \in {"start", "restart"}, StartLog(c)
  PROVE  CallsInv'
<1>1. /\ calls # <<>> /\ pc = "main" /\ pc' = "main" /\ Head(calls) = c /\ UNCHANGED <<opts, loop, stop_loop>>
      /\ calls' = Tail(calls) \/ (c = "start" /\ calls' = <<>> /\ line' = line)
      /\ last' = IF line' # line THEN "started" ELSE "start failed"
  BY DEF StartLog, AtCall, program, NextCall, GotoClose, NotWritten
<1>2. ~Before /\ ~Leaving /\ ~Over
  BY <1>1, StageHead, Zenon DEF Inv, SetupCalls, Shows, Stores
<1>3. CASE Starting
  <2>1. Tail(calls) = SignalCalls
    BY <1>1, <1>3, StageHead, Zenon DEF Inv
  <2>2. CASE calls' = Tail(calls)
    BY <1>1, <1>3, <2>1, <2>2, Zenon DEF CallsInv, Starting, Unstarted, loop
  <2>3. CASE calls' = <<>> /\ line' = line
    BY <1>1, <2>3, Zenon DEF CallsInv, Over
  <2> QED
    BY <1>1, <2>2, <2>3
<1>4. CASE Looping
  <2>1. c = "restart" /\ Tail(calls) = ReadCalls
    BY <1>1, <1>4, StageHead, Zenon DEF Inv
  <2>2. calls' = ReadCalls /\ ReadCalls \in LoopCalls
    BY <1>1, <2>1, Zenon DEF LoopCalls
  <2> QED
    BY <1>1, <1>4, <2>2, Zenon DEF CallsInv, Looping, loop
<1> QED
  BY <1>2, <1>3, <1>4 DEF Inv, CallsInv

\* A record is read in the loop only, with the read still the next call.
LEMMA AtRecord ==
  ASSUME Inv, pc = "record"
  PROVE  /\ Looping /\ calls = ReadCalls /\ opts.count \in Int /\ opts.count >= 0
         /\ retry \in 0..wu_max_retry /\ i \in Nat /\ (opts.count > 0 => i < opts.count)
<1>1. Looping
  BY Zenon DEF Inv, CallsInv, Before, Starting, Leaving, Over, Ended
<1>2. calls = ReadCalls
  BY <1>1, Zenon DEF Looping, LoopCalls
<1>3. opts.count \in Int
  BY CountType DEF Inv, TypeOK
<1>4. retry \in 0..wu_max_retry + 1 /\ retry <= wu_max_retry
  BY <1>1, Zenon DEF Inv, TypeOK, Looping
<1>5. i \in 0..MaxCount
  BY Zenon DEF Inv, TypeOK
<1> QED
  BY <1>1, <1>2, <1>3, <1>4, <1>5, BoundsAssumption, SMT DEF Looping, wu_max_retry, BoundsAssumption

\* The handlers, and the loop's test for the signal.
LEMMA LoopTestCalls ==
  ASSUME Inv, InstallHandlers \/ LoopTest
  PROVE  CallsInv'
<1>1. /\ calls # <<>> /\ pc = "main" /\ UNCHANGED <<opts, loop, stop_loop, last>>
      /\ \/ Head(calls) = "signal" /\ calls' = Tail(calls) /\ pc' = "main"
         \/ Head(calls) = "read_data" /\ stop_loop /\ calls' = Tail(calls) /\ pc' = "main"
         \/ Head(calls) = "read_data" /\ calls' = calls /\ pc' = "record"
  BY Zenon DEF InstallHandlers, LoopTest, AtCall, program, NextCall
<1>2. ~Before /\ ~Leaving /\ ~Over
  BY <1>1, StageHead, Zenon DEF Inv, SetupCalls, Shows, Stores
<1>3. CASE Starting
  <2>1. calls' = ReadCalls /\ pc' = "main"
    BY <1>1, <1>3, StageHead, Zenon DEF Inv
  <2>2. opts.count \in Int
    BY CountType DEF Inv, TypeOK
  <2>3. opts'.count >= 0 /\ retry' <= wu_max_retry /\ (opts'.count > 0 => i' < opts'.count)
    BY <1>1, <1>3, <2>2, SMT DEF Starting, Unstarted, loop, wu_max_retry
  <2> QED
    BY <2>1, <2>3, ReadNotReset, Zenon DEF CallsInv, Looping, LoopCalls
<1>4. CASE Looping
  <2>1. calls = ReadCalls /\ Tail(calls) = <<"stop">> /\ Head(calls) = "read_data"
    BY <1>1, <1>4, StageHead, Zenon DEF Inv
  <2>2. CASE calls' = Tail(calls)
    BY <1>1, <1>4, <2>1, <2>2, RunSequences, Zenon DEF CallsInv, Leaving, Done
  <2>3. CASE calls' = calls /\ pc' = "record"
    BY <1>1, <1>4, <2>1, <2>3, ReadNotReset, Zenon DEF CallsInv, Looping, loop
  <2> QED
    BY <1>1, <2>1, <2>2, <2>3
<1> QED
  BY <1>2, <1>3, <1>4 DEF Inv, CallsInv

\* A read that failed leads to another one, to a reset, or out of the loop.
LEMMA RecordErrorCalls ==
  ASSUME Inv, RecordError
  PROVE  CallsInv'
<1>1. Looping /\ calls = ReadCalls /\ retry \in 0..wu_max_retry /\ UNCHANGED <<opts, i>> /\ pc' = "main"
  BY AtRecord, Zenon DEF RecordError, ResetMeter, GiveUp, program
<1>2. CASE calls' \in LoopCalls /\ retry' <= wu_max_retry
  BY <1>1, <1>2, Zenon DEF CallsInv, Looping
<1>3. CASE calls' = <<"stop">> /\ retry' = 3
  BY <1>1, <1>3, Zenon DEF CallsInv, Leaving, Done
<1>4. CASE retry + 1 < wu_max_retry /\ retry' = retry + 1 /\ calls' = calls
  <2>1. retry' <= wu_max_retry
    BY <1>1, <1>4, SMT DEF wu_max_retry
  <2> QED
    BY <1>1, <1>2, <1>4, <2>1, Zenon DEF LoopCalls
<1>5. CASE ResetMeter
  <2>1. retry' <= wu_max_retry
    BY <1>1, <1>5, SMT DEF ResetMeter, wu_max_retry
  <2>2. calls' = StopToReset
    BY <1>1, <1>5, ResetSequences, Zenon DEF ResetMeter
  <2> QED
    BY <1>2, <2>1, <2>2, Zenon DEF LoopCalls, ResetCalls
<1>6. CASE GiveUp
  <2>1. retry' = 3
    <3>1. retry + 1 > wu_max_retry /\ retry' = retry + 1
      BY <1>6 DEF GiveUp
    <3> QED
      BY <1>1, <3>1, SMT DEF wu_max_retry
  <2>2. calls' = <<"stop">>
    BY <1>1, <1>6, RunSequences, Zenon DEF GiveUp, NextCall
  <2> QED
    BY <1>3, <2>1, <2>2
<1> QED
  BY <1>4, <1>5, <1>6, Zenon DEF RecordError

\* A packet counts, and the last one of --count ends the loop.
LEMMA RecordReadCalls ==
  ASSUME Inv, RecordRead
  PROVE  CallsInv'
<1>1. /\ Looping /\ calls = ReadCalls /\ opts.count \in Int /\ opts.count >= 0
      /\ i \in Nat /\ (opts.count > 0 => i < opts.count)
  BY AtRecord, Zenon DEF RecordRead
<1>2. opts' = opts /\ retry' = 0 /\ retry' <= wu_max_retry
  BY SMT DEF RecordRead, program, RetryReset, wu_max_retry
<1>3. CASE pc' = "crashed" /\ calls' = calls /\ i' = i
  BY <1>1, <1>2, <1>3, Zenon DEF CallsInv, Looping, Ended
<1>4. CASE /\ pc' = "main" /\ i' = IF opts.count = 0 THEN i ELSE i + 1
           /\ IF opts.count # 0 /\ i' = opts.count THEN calls' = Tail(calls) ELSE calls' = calls
  <2>1. CASE opts.count # 0 /\ i' = opts.count
    <3>1. opts.count > 0
      BY <1>1, <2>1, SMT
    <3>2. calls' = <<"stop">>
      BY <1>1, <1>4, <2>1, RunSequences, Zenon
    <3> QED
      BY <1>2, <1>4, <2>1, <3>1, <3>2, Zenon DEF CallsInv, Leaving, Done
  <2>2. CASE ~(opts.count # 0 /\ i' = opts.count)
    <3>1. opts.count > 0 => i' < opts.count
      BY <1>1, <1>4, <2>2, SMT
    <3> QED
      BY <1>1, <1>2, <1>4, <2>2, <3>1, Zenon DEF CallsInv, Looping
  <2> QED
    BY <2>1, <2>2
<1> QED
  BY <1>3, <1>4, Zenon DEF RecordRead, NextCall

\* The end of main(), and the signals.
LEMMA EndCalls ==
  ASSUME Inv, Close \/ Signal
  PROVE  CallsInv'
<1>1. /\ UNCHANGED <<opts, calls, loop, last>> /\ (stop_loop => stop_loop')
      /\ pc' = pc \/ pc' = "killed" \/ (pc' = "closed" /\ calls = <<>>)
  <2>1. CASE Close
    BY <2>1, Zenon DEF Close, program
  <2>2. CASE Signal
    BY <2>2, Zenon DEF Signal, program
  <2> QED
    BY <2>1, <2>2
<1>2. UNCHANGED <<i, retry, failures, restarts, taken>> /\ (Done => Done')
  BY <1>1, Zenon DEF loop, Done
<1>3. CASE Before
  BY <1>1, <1>2, <1>3, Zenon DEF CallsInv, Before, Unstarted
<1>4. CASE Starting
  BY <1>1, <1>2, <1>4, Zenon DEF CallsInv, Starting, Unstarted, Ended
<1>5. CASE Looping
  BY <1>1, <1>2, <1>5, Zenon DEF CallsInv, Looping, Ended
<1>6. CASE Leaving
  BY <1>1, <1>2, <1>6, Zenon DEF CallsInv, Leaving, Ended
<1>7. CASE Over
  BY <1>1, <1>2, <1>7, Zenon DEF CallsInv, Over, Ended
<1> QED
  BY <1>3, <1>4, <1>5, <1>6, <1>7 DEF Inv, CallsInv

\* The stages are kept by every step.
LEMMA CallsStep ==
  ASSUME Inv, Next
  PROVE  CallsInv' /\ PcInv'
<1>1. CallsInv'
  <2>1. CASE Obey \/ Record
    <3>1. UNCHANGED <<opts, pc, calls, stop_loop, loop, last>>
      BY <2>1 DEF Obey, Record, program
    <3> QED
      BY <3>1, Zenon
      DEF Inv, CallsInv, Before, Starting, Looping, Leaving, Over, Done, Unstarted, loop
  <2> QED
    BY <2>1, OpenCalls, StoreCallsKept, RequestCalls, ReplyCalls, StartLogCalls, LoopTestCalls,
       RecordErrorCalls, RecordReadCalls, EndCalls, Zenon DEF Next, Main
<1>2. PcInv'
  <2>1. CASE \E c \in Shows \cup {"clear", "stop"} : Request(c)
    BY <2>1, Zenon DEF PcInv, Request, AtCall
  <2>2. CASE Close \/ Signal \/ Obey \/ Record
    BY <2>2, Zenon DEF Inv, PcInv, Close, Signal, Obey, Record
  <2>3. CASE /\ ~(\E c \in Shows \cup {"clear", "stop"} : Request(c))
             /\ ~(Close \/ Signal \/ Obey \/ Record)
    <3>1. pc' \notin {"reply", "closed"}
      <4>1. ParseArgs \/ OpenDevice \/ SetupSerial => pc' \notin {"reply", "closed"}
        BY Zenon DEF ParseArgs, OpenDevice, SetupSerial
      <4>2. StoreUser \/ StoreCount \/ (\E c \in {"set_interval", "set_mode"} : StoreNumber(c))
            => pc' \notin {"reply", "closed"}
        BY Zenon DEF StoreUser, StoreCount, StoreNumber, AtCall
      <4>3. Reply \/ InstallHandlers \/ LoopTest \/ (\E c \in {"start", "restart"} : StartLog(c))
            => pc' \notin {"reply", "closed"}
        BY Zenon DEF Reply, InstallHandlers, LoopTest, StartLog, AtCall
      <4>4. RecordError \/ RecordRead => pc' \notin {"reply", "closed"}
        BY Zenon DEF RecordError, RecordRead
      <4> QED
        BY <2>3, <4>1, <4>2, <4>3, <4>4, Zenon DEF Next, Main
    <3> QED
      BY <3>1, Zenon DEF PcInv
  <2> QED
    BY <2>1, <2>2, <2>3
<1> QED
  BY <1>1, <1>2

-----------------------------------------------------------------------------
(* What the loop counts *)

\* The counters of wu_read_data() agree: every failed read is one of retry's, the reset follows the
\* second, every packet taken is one of i's.
LEMMA LoopStep ==
  ASSUME Inv, Next
  PROVE  LoopInv'
<1>0. /\ retry \in 0..wu_max_retry + 1 /\ failures = retry
      /\ restarts = IF retry >= wu_max_retry THEN 1 ELSE 0
      /\ i = IF opts.count > 0 THEN Len(taken) ELSE 0
      /\ opts.count > 0 => i <= opts.count
  BY DEF Inv, LoopInv
<1>1. CASE UNCHANGED <<opts, i, retry, failures, restarts, taken>>
  BY <1>0, <1>1, Zenon DEF LoopInv
<1>2. CASE RecordError
  <2>1. retry \in 0..wu_max_retry /\ UNCHANGED <<opts, i, taken>>
    BY <1>2, AtRecord, Zenon DEF RecordError, ResetMeter, GiveUp, program
  <2>2. retry' = retry + 1 /\ failures' = OneMore(failures)
    BY <1>2, Zenon DEF RecordError, ResetMeter, GiveUp
  <2>3. retry' \in 0..wu_max_retry + 1 /\ failures' = retry'
    BY <1>0, <2>1, <2>2, SMT DEF OneMore, HistoryBound, wu_max_retry
  <2>4. restarts' = IF retry' >= wu_max_retry THEN 1 ELSE 0
    <3>1. \/ retry + 1 < wu_max_retry /\ restarts' = restarts
          \/ retry + 1 = wu_max_retry /\ restarts' = OneMore(restarts)
          \/ retry + 1 > wu_max_retry /\ restarts' = restarts
      BY <1>2, Zenon DEF RecordError, ResetMeter, GiveUp
    <3> QED
      BY <1>0, <2>1, <2>2, <3>1, SMT DEF OneMore, HistoryBound, wu_max_retry
  <2> QED
    BY <1>0, <2>1, <2>3, <2>4, Zenon DEF LoopInv
<1>3. CASE RecordRead
  <2>1. /\ opts.count \in Int /\ opts.count >= 0 /\ i \in Nat /\ (opts.count > 0 => i < opts.count)
        /\ opts' = opts
    BY <1>3, AtRecord, Zenon DEF RecordRead, program
  <2>2. retry' = 0 /\ failures' = 0 /\ restarts' = 0
    BY <1>3 DEF RecordRead, RetryReset
  <2>3. PICK p \in Packets : RecordRead!2!(p)
    BY <1>3, Zenon DEF RecordRead
  <2>4. CASE UNCHANGED <<i, taken>>
    BY <1>0, <2>1, <2>2, <2>4, SMT DEF LoopInv, wu_max_retry
  <2>5. CASE /\ i' = IF opts.count = 0 THEN i ELSE i + 1
             /\ taken' = IF Len(taken) > MaxCount THEN Append(Tail(taken), p) ELSE Append(taken, p)
    <3>1. opts.count > 0 => Len(taken') = Len(taken) + 1
      <4> SUFFICES ASSUME opts.count > 0
                   PROVE  Len(taken') = Len(taken) + 1
        OBVIOUS
      <4>1. opts.count <= MaxCount
        BY CountType DEF Inv, TypeOK
      <4>2. ~(Len(taken) > MaxCount)
        BY <1>0, <2>1, <4>1, BoundsAssumption, SMT DEF BoundsAssumption
      <4>3. taken \in Seq(Packets)
        BY DEF Inv, TypeOK
      <4>4. taken' = Append(taken, p)
        BY <2>5, <4>2
      <4> QED
        BY <4>3, <4>4, SMT
    <3>2. i' = IF opts'.count > 0 THEN Len(taken') ELSE 0
      <4>1. CASE opts.count > 0
        BY <1>0, <2>1, <2>5, <3>1, <4>1, SMT
      <4>2. CASE ~(opts.count > 0)
        BY <1>0, <2>1, <2>5, <4>2, SMT
      <4> QED
        BY <4>1, <4>2
    <3>3. opts'.count > 0 => i' <= opts'.count
      BY <2>1, <2>5, SMT
    <3> QED
      BY <2>2, <3>2, <3>3, SMT DEF LoopInv, wu_max_retry
  <2> QED
    BY <2>3, <2>4, <2>5, Zenon
<1>4. CASE ~RecordError /\ ~RecordRead
  <2>1. ParseArgs \/ OpenDevice \/ SetupSerial => UNCHANGED <<opts, loop>>
    BY Zenon DEF ParseArgs, OpenDevice, SetupSerial, program
  <2>2. StoreUser \/ StoreCount \/ (\E c \in {"set_interval", "set_mode"} : StoreNumber(c))
        => UNCHANGED <<opts, loop>>
    BY Zenon DEF StoreUser, StoreCount, StoreNumber, program
  <2>3. Reply \/ (\E c \in Shows \cup {"clear", "stop"} : Request(c)) => UNCHANGED <<opts, loop>>
    BY Zenon DEF Reply, Request, program
  <2>4. InstallHandlers \/ LoopTest \/ (\E c \in {"start", "restart"} : StartLog(c))
        => UNCHANGED <<opts, loop>>
    BY Zenon DEF InstallHandlers, LoopTest, StartLog, program
  <2>5. Close \/ Signal => UNCHANGED <<opts, loop>>
    BY Zenon DEF Close, Signal, program
  <2>6. Obey \/ Record => UNCHANGED <<opts, loop>>
    BY Zenon DEF Obey, Record, program
  <2>7. UNCHANGED <<opts, loop>>
    BY <1>4, <2>1, <2>2, <2>3, <2>4, <2>5, <2>6, Zenon DEF Next, Main
  <2> QED
    BY <1>1, <2>7, Zenon DEF loop
<1> QED
  BY <1>2, <1>3, <1>4

-----------------------------------------------------------------------------
(* The line to the meter *)

\* A command that does not touch the log leaves what the line says of it.
LEMMA LineKept ==
  ASSUME line \in Seq(Packets \X {"R", "W"}), NEW c, CommandOf(c)[1] # "L",
         Written(c) \/ NotWritten, logging' = logging, StopComes \/ StopObeyed
  PROVE  StopComes' \/ StopObeyed'
<1>1. CASE line' = line
  BY <1>1, Zenon DEF StopComes, StopObeyed
<1>2. CASE line' = Append(line, CommandOf(c))
  <2> DEFINE k == CommandOf(c)
             n0 == Len(line)
  <2>1. Len(line') = n0 + 1 /\ n0 \in Nat /\ line'[n0 + 1] = k /\ \A m \in 1..n0 : line'[m] = line[m]
    <3>1. k \in Packets \X {"R", "W"} \cup {k}
      BY Zenon
    <3>2. line \in Seq(Packets \X {"R", "W"} \cup {k})
      BY SMT
    <3> HIDE DEF k
    <3> QED
      BY <1>2, <3>1, <3>2, AppendProperties, SMT DEF k
  <2>2. k[1] # "L"
    OBVIOUS
  <2> HIDE DEF k, n0
  <2>3. CASE StopComes
    <3>1. PICK n \in 1..n0 : line[n] = <<"L", "R">> /\ \A m \in n+1..n0 : line[m][1] # "L"
      BY <2>3 DEF StopComes, n0
    <3>2. n \in 1..n0 + 1 /\ line'[n] = <<"L", "R">>
      BY <2>1, <3>1, SMT
    <3>3. \A m \in n+1..n0 + 1 : line'[m][1] # "L"
      <4> SUFFICES ASSUME NEW m \in n+1..n0 + 1
                   PROVE  line'[m][1] # "L"
        OBVIOUS
      <4>1. CASE m = n0 + 1
        BY <2>1, <2>2, <4>1
      <4>2. CASE m # n0 + 1
        <5>1. m \in n+1..n0 /\ m \in 1..n0
          BY <2>1, <3>1, <4>2, SMT
        <5> QED
          BY <2>1, <3>1, <5>1, Zenon
      <4> QED
        BY <4>1, <4>2
    <3> QED
      BY <2>1, <3>2, <3>3, Zenon DEF StopComes
  <2>4. CASE StopObeyed
    <3>1. ~logging' /\ \A m \in 1..n0 : line[m][1] # "L"
      BY <2>4, Zenon DEF StopObeyed, n0
    <3>2. \A m \in 1..n0 + 1 : line'[m][1] # "L"
      <4> SUFFICES ASSUME NEW m \in 1..n0 + 1
                   PROVE  line'[m][1] # "L"
        OBVIOUS
      <4>1. CASE m = n0 + 1
        BY <2>1, <2>2, <4>1
      <4>2. CASE m # n0 + 1
        <5>1. m \in 1..n0
          BY <2>1, <4>2, SMT
        <5> QED
          BY <2>1, <3>1, <5>1, Zenon
      <4> QED
        BY <4>1, <4>2
    <3> QED
      BY <2>1, <3>1, <3>2, Zenon DEF StopObeyed
  <2> QED
    BY <2>3, <2>4
<1> QED
  BY <1>1, <1>2 DEF Written, NotWritten

\* The meter obeys the oldest command; a log it stopped stays stopped.
LEMMA LineObeyed ==
  ASSUME line \in Seq(Packets \X {"R", "W"}), Obey, StopComes \/ StopObeyed
  PROVE  StopComes' \/ StopObeyed'
<1> DEFINE n0 == Len(line)
<1>1. n0 \in Nat /\ n0 > 0 /\ Len(line') = n0 - 1 /\ \A m \in 1..n0 - 1 : line'[m] = line[m + 1]
  <2> DEFINE P == Packets \X {"R", "W"}
  <2>1. line \in Seq(P) /\ line # <<>> /\ line' = Tail(line)
    BY DEF Obey
  <2> HIDE DEF P
  <2> QED
    BY <2>1, SMT
<1>2. logging' = IF line[1][1] = "L" THEN line[1][2] = "W" ELSE logging
  <2>1. Head(line) = line[1]
    BY <1>1, SMT
  <2> QED
    BY <2>1, Zenon DEF Obey
<1> HIDE DEF n0
<1>3. CASE StopComes
  <2>1. PICK n \in 1..n0 : line[n] = <<"L", "R">> /\ \A m \in n+1..n0 : line[m][1] # "L"
    BY <1>3 DEF StopComes, n0
  <2>2. \A m \in n..n0 - 1 : line'[m][1] # "L"
    <3> SUFFICES ASSUME NEW m \in n..n0 - 1
                 PROVE  line'[m][1] # "L"
      OBVIOUS
    <3>1. m \in 1..n0 - 1 /\ m + 1 \in n+1..n0
      BY <1>1, <2>1, SMT
    <3> QED
      BY <1>1, <2>1, <3>1, Zenon
  <2>3. CASE n = 1
    <3>1. line[1][1] = "L" /\ line[1][2] = "R"
      BY <2>1, <2>3, SMT
    <3>2. ~logging'
      BY <1>2, <3>1, Zenon
    <3> QED
      BY <1>1, <2>2, <2>3, <3>2, Zenon DEF StopObeyed
  <2>4. CASE n # 1
    <3>1. n - 1 \in 1..n0 - 1 /\ (n - 1) + 1 = n
      BY <1>1, <2>1, <2>4, SMT
    <3>2. line'[n - 1] = <<"L", "R">>
      BY <1>1, <2>1, <3>1, Zenon
    <3> QED
      BY <1>1, <2>2, <3>1, <3>2, Zenon DEF StopComes
  <2> QED
    BY <2>3, <2>4
<1>4. CASE StopObeyed
  <2>1. \A m \in 1..n0 - 1 : line'[m][1] # "L"
    <3> SUFFICES ASSUME NEW m \in 1..n0 - 1
                 PROVE  line'[m][1] # "L"
      OBVIOUS
    <3>1. m + 1 \in 1..n0
      BY <1>1, SMT
    <3> QED
      BY <1>1, <1>4, <3>1, Zenon DEF StopObeyed, n0
  <2>2. line[1][1] # "L"
    <3>1. 1 \in 1..n0
      BY <1>1, SMT
    <3> QED
      BY <1>4, <3>1, Zenon DEF StopObeyed, n0
  <2> QED
    BY <1>1, <1>2, <1>4, <2>1, <2>2, Zenon DEF StopObeyed
<1> QED
  BY <1>3, <1>4

\* Once the command that stops the log is written, it is on its way or obeyed, until the log is started again.
LEMMA LineStep ==
  ASSUME Inv, Next
  PROVE  LineInv'
<1> SUFFICES ASSUME last' = "stopped"
             PROVE  StopComes' \/ StopObeyed'
  BY Zenon DEF LineInv
<1>0. line \in Seq(Packets \X {"R", "W"}) /\ (last = "stopped" => StopComes \/ StopObeyed)
  BY DEF Inv, TypeOK, LineInv
<1>1. CASE UNCHANGED <<line, logging, last>>
  BY <1>0, <1>1, Zenon DEF StopComes, StopObeyed
<1>2. ASSUME NEW c \in {"set_interval", "set_mode"}, StoreNumber(c)
      PROVE  StopComes' \/ StopObeyed'
  <2>1. (Written(c) \/ NotWritten) /\ UNCHANGED <<logging, last>>
    BY <1>2, Zenon DEF StoreNumber, meter
  <2>2. CommandOf(c)[1] # "L"
    BY SMT DEF CommandOf
  <2> QED
    BY <1>0, <2>1, <2>2, LineKept
<1>3. CASE StoreUser
  <2>1. (Written("set_user") \/ NotWritten) /\ UNCHANGED <<logging, last>>
    BY <1>3, Zenon DEF StoreUser, meter
  <2>2. CommandOf("set_user")[1] # "L"
    BY SMT DEF CommandOf
  <2> QED
    BY <1>0, <2>1, <2>2, LineKept
<1>4. ASSUME NEW c \in Shows \cup {"clear"}, Request(c)
      PROVE  StopComes' \/ StopObeyed'
  <2>1. (Written(c) \/ NotWritten) /\ UNCHANGED <<logging, last>>
    BY <1>4, Zenon DEF Request, Shows, meter
  <2>2. CommandOf(c)[1] # "L"
    BY SMT DEF CommandOf, Shows
  <2> QED
    BY <1>0, <2>1, <2>2, LineKept
<1>5. CASE Request("stop")
  <2> DEFINE k == CommandOf("stop")
             P == Packets \X {"R", "W"}
  <2>1. line' = Append(line, k)
    BY <1>5, Zenon DEF Request, Written, NotWritten
  <2>2. k = <<"L", "R">> /\ k \in P
    BY SMT DEF CommandOf, Packets
  <2> HIDE DEF k, P
  <2>3. line \in Seq(P)
    BY <1>0 DEF P
  <2>4. Len(line') = Len(line) + 1 /\ Len(line) \in Nat /\ line'[Len(line) + 1] = k
    BY <2>1, <2>2, <2>3, AppendProperties, SMT
  <2>5. Len(line') \in 1..Len(line') /\ Len(line') + 1..Len(line') = {}
    BY <2>4, SMT
  <2> QED
    BY <2>2, <2>4, <2>5, Zenon DEF StopComes
<1>6. ASSUME NEW c \in {"start", "restart"}, StartLog(c)
      PROVE  FALSE
  BY <1>6, Zenon DEF StartLog
<1>7. CASE Obey
  BY <1>0, <1>7, LineObeyed DEF Obey
<1>8. CASE ParseArgs \/ OpenDevice \/ SetupSerial \/ StoreCount \/ Reply
  BY <1>1, <1>8, Zenon DEF ParseArgs, OpenDevice, SetupSerial, StoreCount, Reply, meter
<1>9. CASE InstallHandlers \/ LoopTest \/ RecordError \/ RecordRead
  BY <1>1, <1>9, Zenon DEF InstallHandlers, LoopTest, RecordError, RecordRead, meter
<1>10. CASE Close \/ Signal \/ Record
  BY <1>1, <1>10, Zenon DEF Close, Signal, Record, meter
<1> QED
  BY <1>2, <1>3, <1>4, <1>5, <1>6, <1>7, <1>8, <1>9, <1>10, Zenon DEF Next, Main

-----------------------------------------------------------------------------
(* Theorems *)

\* The inductive invariant.
LEMMA Invariance == Spec => []Inv
<1>1. Init => Inv
  <2> SUFFICES ASSUME Init
               PROVE  Inv
    OBVIOUS
  <2>1. TypeOK
    <3>1. opts \in Options /\ logging \in BOOLEAN
      BY CommandLinesAssumption, Zenon DEF Init, CommandLinesAssumption
    <3>2. calls \in Seq(Calls) /\ Len(calls) <= 14
      BY SMT DEF Init
    <3>3. line \in Seq(Packets \X {"R", "W"}) /\ Len(line) <= MaxLine
      BY BoundsAssumption, SMT DEF Init, BoundsAssumption
    <3>4. answers \in Seq(Packets) /\ Len(answers) <= MaxLine
      BY BoundsAssumption, SMT DEF Init, BoundsAssumption
    <3>5. taken \in Seq(Packets) /\ Len(taken) <= MaxCount + 1
      BY BoundsAssumption, SMT DEF Init, BoundsAssumption
    <3>6. i \in 0..MaxCount /\ retry \in 0..wu_max_retry + 1 /\ records \in 0..MaxRecords
      BY BoundsAssumption, SMT DEF Init, BoundsAssumption, wu_max_retry
    <3> QED
      BY <3>1, <3>2, <3>3, <3>4, <3>5, <3>6, Zenon DEF Init, TypeOK
  <2>2. CallsInv
    BY SetupEmpty, Zenon DEF Init, CallsInv, Before, Unstarted
  <2>3. LoopInv
    <3>1. opts.count \in Int
      BY <2>1, CountType DEF TypeOK
    <3>2. Len(taken) = 0
      BY SMT DEF Init
    <3> QED
      BY <3>1, <3>2, SMT DEF Init, LoopInv, wu_max_retry
  <2>4. LineInv /\ PcInv
    BY Zenon DEF Init, LineInv, PcInv
  <2> QED
    BY <2>1, <2>2, <2>3, <2>4 DEF Inv
<1>2. Inv /\ [Next]_vars => Inv'
  <2>1. ASSUME Inv, Next
        PROVE  Inv'
    BY <2>1, TypeStep, CallsStep, LoopStep, LineStep DEF Inv
  <2>2. ASSUME Inv, UNCHANGED vars
        PROVE  Inv'
    <3>1. UNCHANGED <<opts, oml_enabled, opened, handlers, pc, calls, stop_loop, i, retry, full, taken,
                      failures, restarts, logging, records, line, answers, last>>
      BY <2>2 DEF vars, program, loop, meter
    <3>2. TypeOK'
      BY <2>2, <3>1 DEF Inv, TypeOK
    <3>3. CallsInv' /\ PcInv'
      BY <2>2, <3>1, Zenon
      DEF Inv, CallsInv, PcInv, Before, Starting, Looping, Leaving, Over, Done, Unstarted
    <3>4. LoopInv' /\ LineInv'
      BY <2>2, <3>1, Zenon DEF Inv, LoopInv, LineInv, StopComes, StopObeyed
    <3> QED
      BY <3>2, <3>3, <3>4 DEF Inv
  <2> QED
    BY <2>1, <2>2
<1> QED
  BY <1>1, <1>2, PTL DEF Spec

\* Every variable has its type, whatever the meter and the signals do; main() never has more than
\* fourteen calls to make, whatever resets wu_read_data() puts in front of them.
THEOREM TypeCorrect == Spec => []TypeOK
<1>1. Inv => TypeOK
  BY DEF Inv
<1> QED
  BY <1>1, Invariance, PTL

\* wu_read_data() gives up only after three failed reads in a row with one reset of the meter in
\* between, on a line of any capacity.
THEOREM ResetBeforeGivingUp == Spec => []GivesUpAfterReset
<1>1. Inv => GivesUpAfterReset
  <2> SUFFICES ASSUME LoopInv
               PROVE  GivesUpAfterReset
    BY DEF Inv
  <2>1. /\ retry \in 0..3 /\ failures = retry /\ restarts = IF retry >= 2 THEN 1 ELSE 0
    BY SMT DEF LoopInv, wu_max_retry
  <2> QED
    BY <2>1, SMT DEF GivesUpAfterReset, wu_max_retry
<1> QED
  BY <1>1, Invariance, PTL

\* With --count=n wu_read_data() takes n packets, for every n, unless a signal or three failed reads end it.
THEOREM CountTaken == Spec => []CountHonoured
<1>1. Inv => CountHonoured
  <2> SUFFICES ASSUME Inv, opts.count > 0
               PROVE  /\ Len(taken) <= opts.count
                      /\ pc = "closed" /\ last \in {"stopped", "stop failed"} /\ ~stop_loop
                           /\ failures <= wu_max_retry => Len(taken) = opts.count
    BY Zenon DEF CountHonoured
  <2>1. Len(taken) <= opts.count /\ i = Len(taken) /\ failures = retry
    BY Zenon DEF Inv, LoopInv
  <2>2. ASSUME pc = "closed", last \in {"stopped", "stop failed"}, ~stop_loop, failures <= wu_max_retry
        PROVE  Len(taken) = opts.count
    <3>1. Done
      <4>1. calls = <<>>
        BY <2>2 DEF Inv, PcInv
      <4>2. ~Before
        BY <2>2, Zenon DEF Before
      <4>3. ~Starting /\ ~Looping /\ ~Leaving
        BY <4>1, NotEmpty, Zenon DEF Starting, Looping, Leaving
      <4>4. Over
        BY <4>2, <4>3 DEF Inv, CallsInv
      <4> QED
        BY <2>2, <4>4 DEF Over
    <3>2. retry # 3
      <4>1. failures # 3
        <5>1. failures <= wu_max_retry
          BY <2>2
        <5> QED
          BY <5>1, SMT DEF wu_max_retry
      <4> QED
        BY <2>1, <4>1
    <3> QED
      BY <2>1, <2>2, <3>1, <3>2, Zenon DEF Done
  <2> QED
    BY <2>1, <2>2
<1> QED
  BY <1>1, Invariance, PTL

\* Every exit of the loop is followed by wu_stop_log(): a meter the program leaves is not logging,
\* unless the command was not written, for lines of every capacity.
THEOREM MeterStopped == Spec => []MeterLeftQuiet
<1>1. Inv => MeterLeftQuiet
  <2> SUFFICES ASSUME Inv, pc = "closed", line = <<>>, logging
               PROVE  last \in {"none", "start failed", "stop failed"}
    BY Zenon DEF MeterLeftQuiet
  <2>1. last # "stopped"
    <3> SUFFICES ASSUME StopComes \/ StopObeyed
                 PROVE  FALSE
      BY Zenon DEF Inv, LineInv
    <3>1. Len(line) = 0
      BY SMT
    <3>2. ~StopComes
      BY <3>1, SMT DEF StopComes
    <3> QED
      BY <3>2, Zenon DEF StopObeyed
  <2>2. last # "started"
    <3>1. calls = <<>>
      BY DEF Inv, PcInv
    <3>2. ~Starting /\ ~Looping /\ ~Leaving
      BY <3>1, NotEmpty, Zenon DEF Starting, Looping, Leaving
    <3> QED
      BY <3>2, Zenon DEF Inv, CallsInv, Before, Over
  <2> QED
    BY <2>1, <2>2, Zenon DEF Inv, TypeOK
<1> QED
  BY <1>1, Invariance, PTL
=============================================================================
