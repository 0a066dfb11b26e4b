----------------------------- MODULE OtgStream -----------------------------
(***************************************************************************)
(* One OTG2 process: the main thread that reads commands from standard     *)
(* input (Application), the stream thread that generates, paces and sends  *)
(* packets (Stream), the stream clock both of them touch without a lock    *)
(* (UnixTime), and the constant bit rate generator (CBR_Generator).        *)
(*                                                                         *)
(* A step is one access to state the two threads share; what a thread does *)
(* on its own variables between two such accesses belongs to the same      *)
(* step.  A tick is a microsecond, the unit of gettimeofday() and usleep(), *)
(* counted since the stream was constructed.  The time a packet is due is  *)
(* a fraction of seconds in the code and is counted in parts of a tick.    *)
(***************************************************************************)
EXTENDS Integers, Sequences

CONSTANTS
  Sizes,      \* values of --cbr:size
  Rates,      \* values of --cbr:rate, in bits per part of a tick
  Intervals,  \* values of --cbr:interval, in parts of a tick
  Grain,      \* parts of a tick in which times due are counted
  SleepRange, \* number of values of useconds_t: 2^32
  MaxTime,    \* bound: ticks that pass while nobody sleeps
  MaxPkts,    \* bound: packets generated
  MaxOpts     \* bound: run-time options read

ASSUME BoundsAssumption == MaxTime \in Nat /\ MaxPkts \in Nat /\ MaxOpts \in Nat
ASSUME OptionAssumption == Sizes \subseteq Int /\ Rates \subseteq Int /\ Intervals \subseteq Int
ASSUME SleepAssumption == Grain \in Nat \ {0} /\ SleepRange \in Nat \ {0}

VARIABLES
  now,            \* gettimeofday()
  origin_, pauseinstant_, clockPaused,        \* UnixTime: origin_, pauseinstant_, paused_
  paused_, active_, seqno_,                   \* Stream
  pktSize_, pktRate_, pktInterval_, lastPktStamp_,  \* CBR_Generator
  main, mx, cin, nopts,    \* main thread: control, local clock value, input stream, options read
  pc, pkt, tod, x, nap,    \* stream thread: control, packet, gettimeofday value, clock reading, rest of usleep
  sent,           \* packets handed to sendto(), in order
  proc,           \* the process as the operating system sees it
  frozen, ran, stood  \* ghosts: the clock is meant to stand still; ticks it was meant to count;
                      \* ticks of the pauses whose resumeClock() is over

clockVars == <<origin_, pauseinstant_, clockPaused>>
streamVars == <<paused_, active_, seqno_>>
genVars == <<pktSize_, pktRate_, pktInterval_, lastPktStamp_>>
mainVars == <<main, mx, cin, nopts>>
threadVars == <<pc, pkt, tod, x, nap>>
ghostVars == <<frozen, ran, stood>>
vars == <<now, clockVars, streamVars, genVars, mainVars, threadVars, sent, proc, ghostVars>>

Uninit == -1         \* pauseinstant_ before the first pause: the constructor leaves it unset
NoPacket == [seq |-> 0, tx |-> 0, size |-> 0, held |-> FALSE, stood |-> 0]

\* CBR_Generator::update(): the time between packets; popt takes negative sizes and rates too.
Interval(size, rate) == IF rate > 0 THEN (8 * size) \div rate ELSE (-8 * size) \div (-rate)

Running == proc = "running"

\* Options are parsed, components built, the stream thread not yet started.
Init ==
  /\ now = 0
  /\ origin_ = 0 /\ pauseinstant_ = Uninit /\ clockPaused = FALSE
  /\ paused_ = FALSE /\ active_ = TRUE /\ seqno_ = 0
  /\ pktSize_ \in Sizes /\ pktRate_ \in Rates
  /\ pktInterval_ \in Intervals \cup {1}
  /\ lastPktStamp_ = 0
  /\ main = "init" /\ mx = 0 /\ cin = "good" /\ nopts = 0
  /\ pc = "unborn" /\ pkt = NoPacket /\ tod = 0 /\ x = 0 /\ nap = 0
  /\ sent = <<>> /\ proc = "running"
  /\ frozen = FALSE /\ ran = 0 /\ stood = 0

-----------------------------------------------------------------------------
(* Main thread: start-up *)

\* A const char* exception thrown in the main thread is caught in main(), which returns.
MainThrows ==
  /\ proc' = "exited"
  /\ UNCHANGED <<now, clockVars, streamVars, genVars, mainVars, threadVars, sent, ghostVars>>

\* CBR_Generator::update(), with where the main thread goes next.
UpdateThen(next) ==
  \/ pktRate_ = 0 /\ MainThrows
  \/ /\ pktRate_ # 0
     /\ pktInterval_' = Interval(pktSize_, pktRate_)
     /\ main' = next
     /\ UNCHANGED <<now, clockVars, streamVars, pktSize_, pktRate_, lastPktStamp_,
                    mx, cin, nopts, threadVars, sent, proc, ghostVars>>

\* source_->getConfigurable()->init(): lastPktStamp_ is 0 already; then update().
SourceInit == Running /\ main = "init" /\ UpdateThen("source_ready")

\* UDPOutPort::init() without a destination, or with one that has no address; a socket or bind error.
SenderThrows == MainThrows

\* The sender's init(), then Stream::run(), which throws as well when there is no thread to be had.
StreamRun ==
  /\ Running /\ main = "source_ready"
  /\ \/ SenderThrows
     \/ /\ main' = "readline" /\ pc' = "loop"
        /\ UNCHANGED <<now, clockVars, streamVars, genVars, mx, cin, nopts,
                       pkt, tod, x, nap, sent, proc, ghostVars>>

(* Main thread: run-time commands *)

\* A line with at least one option.  A line that fills the buffer, or the end of the input,
\* leaves cin failed, and every later getline() yields an empty line: the loop then spins.
ReadLine ==
  /\ Running /\ main = "readline" /\ cin = "good" /\ nopts < MaxOpts
  /\ main' = "opts"
  /\ cin' \in {"good", "failed"}
  /\ UNCHANGED <<now, clockVars, streamVars, genVars, mx, nopts, threadVars, sent, proc, ghostVars>>

\* poptGetNextOpt() delivers one more option of the line.
NextOpt == Running /\ main = "opts" /\ nopts < MaxOpts /\ nopts' = nopts + 1

\* Mutant: pauseClock() raises the flag before it records the instant.
OptPauseFlagFirst ==
  /\ NextOpt
  /\ paused_' = TRUE /\ clockPaused' = TRUE
  /\ main' = IF clockPaused THEN "opts" ELSE "pause_read"
  /\ UNCHANGED <<now, origin_, pauseinstant_, active_, seqno_, genVars, mx, cin, threadVars, sent, proc, ghostVars>>

\* --pause: pauseStream(), and pauseClock() as far as its first test.
OptPause ==
  /\ NextOpt
  /\ paused_' = TRUE
  /\ main' = IF clockPaused THEN "opts" ELSE "pause_read"
  /\ UNCHANGED <<now, clockVars, active_, seqno_, genVars, mx, cin, threadVars, sent, proc, ghostVars>>

\* pauseClock(): getCurrentTime() reads the wall clock.
PauseRead ==
  /\ Running /\ main = "pause_read"
  /\ mx' = now - origin_
  /\ frozen' = TRUE
  /\ main' = "pause_store"
  /\ UNCHANGED <<now, clockVars, streamVars, genVars, cin, nopts, threadVars, sent, proc, ran, stood>>

\* pauseClock(): pauseinstant_ = ...
PauseStore ==
  /\ Running /\ main = "pause_store"
  /\ pauseinstant_' = mx
  /\ main' = "pause_flag"
  /\ UNCHANGED <<now, origin_, clockPaused, streamVars, genVars, mx, cin, nopts, threadVars, sent, proc, ghostVars>>

\* pauseClock(): paused_ = true.
PauseFlag ==
  /\ Running /\ main = "pause_flag"
  /\ clockPaused' = TRUE
  /\ main' = "opts"
  /\ UNCHANGED <<now, origin_, pauseinstant_, streamVars, genVars, mx, cin, nopts, threadVars, sent, proc, ghostVars>>

\* --resume: resumeStream(), and resumeClock() up to paused_ = false.
OptResume ==
  /\ NextOpt
  /\ paused_' = FALSE
  /\ clockPaused' = FALSE
  /\ main' = IF clockPaused THEN "resume_read" ELSE "opts"
  /\ UNCHANGED <<now, origin_, pauseinstant_, active_, seqno_, genVars, mx, cin, threadVars, sent, proc, ghostVars>>

\* Mutant: resumeClock() reads the clock before it clears paused_ and gets pauseinstant_ back.
ResumeReadPaused ==
  /\ Running /\ main = "resume_read"
  /\ mx' = 0
  /\ frozen' = FALSE
  /\ main' = "resume_shift"
  /\ UNCHANGED <<now, clockVars, streamVars, genVars, cin, nopts, threadVars, sent, proc, ran, stood>>

\* resumeClock(): getCurrentTime() - pauseinstant_, with paused_ already false.
ResumeRead ==
  /\ Running /\ main = "resume_read"
  /\ mx' = now - origin_ - pauseinstant_
  /\ frozen' = FALSE
  /\ main' = "resume_shift"
  /\ UNCHANGED <<now, clockVars, streamVars, genVars, cin, nopts, threadVars, sent, proc, ran, stood>>

\* resumeClock(): shiftOrigin().
ResumeShift ==
  /\ Running /\ main = "resume_shift"
  /\ origin_' = origin_ + mx
  /\ stood' = now - ran
  /\ main' = "opts"
  /\ UNCHANGED <<now, pauseinstant_, clockPaused, streamVars, genVars, mx, cin, nopts, threadVars, sent, proc,
                 frozen, ran>>

\* --exit: exitStream(), before exit(0).
OptExit ==
  /\ NextOpt
  /\ active_' = FALSE
  /\ main' = "exiting"
  /\ UNCHANGED <<now, clockVars, paused_, seqno_, genVars, mx, cin, threadVars, sent, proc, ghostVars>>

\* --cbr:size, --cbr:rate, --cbr:interval: popt stores the value, the stream thread may read it at once.
OptGenerator ==
  /\ NextOpt
  /\ \/ pktSize_' \in Sizes /\ UNCHANGED <<pktRate_, pktInterval_>>
     \/ pktRate_' \in Rates /\ UNCHANGED <<pktSize_, pktInterval_>>
     \/ pktInterval_' \in Intervals /\ UNCHANGED <<pktSize_, pktRate_>>
  /\ UNCHANGED <<now, clockVars, streamVars, lastPktStamp_, main, mx, cin, threadVars, sent, proc, ghostVars>>

\* The line ends, or holds a bad option: the components' update() runs either way.
Update == Running /\ main = "opts" /\ UpdateThen("readline")

\* exit(0) of --exit, or of quit_handler on SIGTERM, SIGQUIT, SIGINT once run() is under way.
Exit ==
  /\ Running
  /\ proc' = "exited"
  /\ UNCHANGED <<now, clockVars, streamVars, genVars, mainVars, threadVars, sent, ghostVars>>

-----------------------------------------------------------------------------
(* Stream thread: Stream::_run() *)

\* Mutant: the packet is used again without reset().
LoopNoReset ==
  /\ Running /\ pc = "loop"
  /\ pc' = IF active_ THEN "size" ELSE "done"
  /\ UNCHANGED <<now, clockVars, streamVars, genVars, mainVars, pkt, tod, x, nap, sent, proc, ghostVars>>

\* Mutant: the loop's condition tests paused_ as well, so that a pause ends the stream.
LoopWhilePaused ==
  /\ Running /\ pc = "loop"
  /\ pc' = IF active_ /\ ~paused_ THEN "size" ELSE "done"
  /\ pkt' = NoPacket
  /\ UNCHANGED <<now, clockVars, streamVars, genVars, mainVars, tod, x, nap, sent, proc, ghostVars>>

\* while (active_): take a fresh packet or reset the old one; or delete it, close the sender and end.
Loop ==
  /\ Running /\ pc = "loop"
  /\ pc' = IF active_ THEN "size" ELSE "done"
  /\ pkt' = NoPacket
  /\ UNCHANGED <<now, clockVars, streamVars, genVars, mainVars, tod, x, nap, sent, proc, ghostVars>>

\* CBR_Generator::nextPacket(): setPayloadSize(pktSize_).
NextSize ==
  /\ Running /\ pc = "size" /\ seqno_ < MaxPkts
  /\ pkt' = [pkt EXCEPT !.size = pktSize_]
  /\ pc' = "stamp"
  /\ UNCHANGED <<now, clockVars, streamVars, genVars, mainVars, tod, x, nap, sent, proc, ghostVars>>

\* nextPacket(): the time to send; then _run() numbers the packet if it has no number yet.
NextStamp ==
  /\ Running /\ pc = "stamp"
  /\ lastPktStamp_' = lastPktStamp_ + pktInterval_
  /\ seqno_' = IF pkt.seq = 0 THEN seqno_ + 1 ELSE seqno_
  /\ pkt' = [pkt EXCEPT !.tx = lastPktStamp_', !.seq = IF @ = 0 THEN seqno_' ELSE @, !.held = paused_]
  /\ pc' = IF lastPktStamp_' > 0 THEN "wait" ELSE "send"
  /\ UNCHANGED <<now, clockVars, paused_, active_, pktSize_, pktRate_, pktInterval_, mainVars,
                 tod, x, nap, sent, proc, ghostVars>>

\* waitAt() -> getCurrentTime(): read paused_.
ReadPaused ==
  /\ Running /\ pc = "wait"
  /\ pc' = IF clockPaused THEN "instant" ELSE "timeofday"
  /\ pkt' = [pkt EXCEPT !.stood = stood]
  /\ UNCHANGED <<now, clockVars, streamVars, genVars, mainVars, tod, x, nap, sent, proc, ghostVars>>

\* The whole ticks in a time due.
Micros(tx) == tx \div Grain

\* Mutant: the test timestamp > x is missing, so a late packet asks for a negative sleep.
SleepFromUnguarded(t) ==
  /\ x' = t
  /\ nap' = Micros(pkt.tx) - t
  /\ pc' = "sleep"

\* waitAt() once it has the clock reading t: usleep() the difference, if any, cut to whole
\* microseconds by the conversion to unsigned long and to 32 bits by usleep()'s parameter.
SleepFrom(t) ==
  /\ x' = t
  /\ \/ /\ pkt.tx > Grain * t
        /\ nap' = (Micros(pkt.tx) - t) % SleepRange
        /\ pc' = "sleep"
     \/ /\ pkt.tx <= Grain * t
        /\ nap' = 0
        /\ pc' = "send"

\* getCurrentTime() of a paused clock: return pauseinstant_.
ReadInstant ==
  /\ Running /\ pc = "instant"
  /\ SleepFrom(pauseinstant_)
  /\ UNCHANGED <<now, clockVars, streamVars, genVars, mainVars, pkt, tod, sent, proc, ghostVars>>

\* getCurrentTime() of a running clock: gettimeofday().
ReadTimeOfDay ==
  /\ Running /\ pc = "timeofday"
  /\ tod' = now
  /\ pc' = "origin"
  /\ UNCHANGED <<now, clockVars, streamVars, genVars, mainVars, pkt, x, nap, sent, proc, ghostVars>>

\* Mutant: the reading of a running clock is not set back by origin_.
ReadOriginAbsolute ==
  /\ Running /\ pc = "origin"
  /\ SleepFrom(tod)
  /\ UNCHANGED <<now, clockVars, streamVars, genVars, mainVars, pkt, tod, sent, proc, ghostVars>>

\* getCurrentTime() of a running clock: subtract origin_.
ReadOrigin ==
  /\ Running /\ pc = "origin"
  /\ SleepFrom(tod - origin_)
  /\ UNCHANGED <<now, clockVars, streamVars, genVars, mainVars, pkt, tod, sent, proc, ghostVars>>

\* usleep() returns, on time or later.
Wake ==
  /\ Running /\ pc = "sleep" /\ nap = 0
  /\ pc' = "send"
  /\ UNCHANGED <<now, clockVars, streamVars, genVars, mainVars, pkt, tod, x, nap, sent, proc, ghostVars>>

\* sender_->sendPacket(): sendto() takes the packet, or fails, as it does for a negative size, and
\* the exception, which no frame of this thread catches, terminates the process.
Send ==
  /\ Running /\ pc = "send"
  /\ \/ /\ sent' = Append(sent, [seq |-> pkt.seq, tx |-> pkt.tx, at |-> now, read |-> x, stood |-> pkt.stood])
        /\ pc' = "loop"
        /\ UNCHANGED proc
     \/ /\ proc' = "aborted"
        /\ UNCHANGED <<sent, pc>>
  /\ UNCHANGED <<now, clockVars, streamVars, genVars, mainVars, pkt, tod, x, nap, ghostVars>>

\* A tick passes.
Tick ==
  /\ Running
  /\ now < MaxTime \/ nap > 0
  /\ now' = now + 1
  /\ nap' = IF nap > 0 THEN nap - 1 ELSE 0
  /\ ran' = IF frozen THEN ran ELSE ran + 1
  /\ UNCHANGED <<clockVars, streamVars, genVars, mainVars, pc, pkt, tod, x, sent, proc, frozen, stood>>

-----------------------------------------------------------------------------
MainThread ==
  \/ SourceInit \/ StreamRun \/ ReadLine \/ Update
  \/ OptPause \/ PauseRead \/ PauseStore \/ PauseFlag
  \/ OptResume \/ ResumeRead \/ ResumeShift
  \/ OptExit \/ OptGenerator \/ Exit

StreamThread ==
  \/ Loop \/ NextSize \/ NextStamp \/ ReadPaused \/ ReadInstant
  \/ ReadTimeOfDay \/ ReadOrigin \/ Wake \/ Send

Next == MainThread \/ StreamThread \/ Tick

Spec == Init /\ [][Next]_vars

\* The scheduler runs the stream thread, time passes, and a main thread that is past the
\* last option it will take reaches its next call.
FairSpec ==
  /\ Spec
  /\ WF_vars(StreamThread) /\ WF_vars(Tick)
  /\ WF_vars(main = "exiting" /\ Exit)

-----------------------------------------------------------------------------
(* Properties *)

MainStates == {"init", "source_ready", "readline", "opts", "pause_read", "pause_store",
               "pause_flag", "resume_read", "resume_shift", "exiting"}
StreamStates == {"unborn", "loop", "size", "stamp", "wait", "instant", "timeofday",
                 "origin", "sleep", "send", "done"}
Packets == [seq : Nat, tx : Int, size : Int, held : BOOLEAN, stood : Int]
SentPackets == [seq : Nat, tx : Int, at : Nat, read : Int, stood : Int]

\* The types of Application, Stream, UnixTime, CBR_Generator and of the two threads' locals;
\* waitAt() asks usleep() for a time it can count, never for a negative one.
TypeOK ==
  /\ now \in Nat
  /\ origin_ \in Int /\ pauseinstant_ \in Int /\ clockPaused \in BOOLEAN
  /\ paused_ \in BOOLEAN /\ active_ \in BOOLEAN /\ seqno_ \in Nat
  /\ pktSize_ \in Int /\ pktRate_ \in Int /\ pktInterval_ \in Int /\ lastPktStamp_ \in Int
  /\ main \in MainStates /\ mx \in Int /\ cin \in {"good", "failed"} /\ nopts \in Nat
  /\ pc \in StreamStates /\ pkt \in Packets /\ tod \in Nat /\ x \in Int
  /\ nap \in 0..(SleepRange - 1)
  /\ sent \in Seq(SentPackets)
  /\ proc \in {"running", "exited", "aborted"}
  /\ frozen \in BOOLEAN /\ ran \in Nat /\ stood \in Int

\* The packets that reach sendto() carry 1, 2, 3, ...: _run() reuses one Packet object, and only
\* reset() makes nextPacket()'s caller number it again.
SeqInOrder == \A i \in 1..Len(sent) : sent[i].seq = i

\* Whatever pauses and resumes came before, between two commands the stream clock shows exactly
\* the time that passed while it was not paused (pauseClock, resumeClock, shiftOrigin).
VirtualClock ==
  main \in {"readline", "opts"} =>
    ran = IF clockPaused THEN pauseinstant_ ELSE now - origin_

\* No packet leaves before its time by the clock: to the microsecond, and without counting the
\* pauses that were over when waitAt() began, whatever commands move the clock between its steps.
\* (A command that is under way during the wait is ResumeExcludesPause's subject; a wait of
\* SleepRange or more is one usleep() cannot be asked for.)
NeverEarly ==
  \A i \in 1..Len(sent) :
    LET p == sent[i]
    IN  Micros(p.tx) - p.read < SleepRange => Micros(p.tx) <= p.at - p.stood

\* A stream thread that found the clock paused reads an instant pauseClock() has stored: the
\* comment there says the order of its two stores "cannot be reversed".
InstantStored == pc = "instant" => pauseinstant_ # Uninit

\* What the clock stands at, seen past a pauseClock() or resumeClock() that is half done: it
\* stops with pauseClock()'s reading of the time and goes on with resumeClock()'s.
clockValue ==
  CASE main = "pause_store" -> mx
    [] main = "resume_shift" -> now - (origin_ + mx)
    [] clockPaused \/ main \in {"pause_flag", "resume_read"} -> pauseinstant_
    [] OTHER -> now - origin_
clockRunning == ~(clockPaused \/ main \in {"pause_store", "pause_flag", "resume_read"})

Clock == INSTANCE PausableClock WITH value <- clockValue, running <- clockRunning

\* UnixTime implements a clock that can be paused: no command, and no half-done command, makes it
\* jump, count while it is paused or lose a tick while it runs (pauseClock, resumeClock,
\* shiftOrigin).
ClockRefines == Clock!Spec

\* A started stream that is not paused goes on until it has sent all its packets, unless it is
\* paused or the process ends: wherever in _run() and waitAt() a pause and a resume fall, and
\* whatever they do to the clock the thread waits on, the thread neither ends nor gets stuck.
Progress ==
  (pc # "unborn" /\ ~paused_) ~> (Len(sent) = MaxPkts \/ ~Running \/ paused_)

\* --pause: no packet made while the stream is paused leaves while it is paused.
PauseHoldsPackets == [][sent' # sent => ~(paused_ /\ pkt.held)]_vars

\* While resumeClock() is under way, no reading of the clock counts the time of the pause.
ResumeExcludesPause ==
  [][x' # x /\ main \in {"resume_read", "resume_shift"} => x' <= ran]_vars
=============================================================================
