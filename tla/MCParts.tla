------------------------------ MODULE MCParts ------------------------------
(***************************************************************************)
(* The four monitors and OTG2's exponential generator side by side: one of *)
(* the five is chosen to run, and the others never start.  Each keeps its  *)
(* own variables, so that a behaviour is one of the chosen part alone.     *)
(***************************************************************************)
EXTENDS Integers, Sequences

CONSTANTS
  Procs, MaxStarts, MaxEvents,                  \* wpamon
  Ifs, Word, Steps, MaxRounds, MaxTraffic,      \* nmetrics
  Seconds, MaxReads,                            \* gpslogger
  MaxDatagrams, MaxErrors,                      \* ripwavemon
  Sizes, Ontime, Offtime, RemWord, Samples, Unset, MaxPkts, MaxSets   \* Expo_Generator

\* What a counter of the kernel counts are whole packets or bytes.
ASSUME CountersAssumption == Word \in Nat \ {0} /\ Steps \subseteq Nat

\* Sizes, mean times and samples are not negative; what pktInterval_ is built with may be.
ASSUME FlowAssumption ==
  Sizes \subseteq Nat /\ Unset \subseteq Int /\ Ontime \in Nat /\ Offtime \in Nat /\ Samples \subseteq Nat

\* A burst drawn while packets last any time is one that the conversion to int is defined for.
ASSUME BurstsAssumption == RemWord \in Nat \ {0, 1} /\ \A s \in Samples : Ontime * s < RemWord

VARIABLES
  program,      \* the part that runs
  wPath, wPc, wExit, wTemp, wInbox, wStr, wBefore, wReported, wMissed, wStarts, wEvents, wLast,
  nPc, nStop, nList, nK, nCounter, nIs, nNotFirst, nStart, nSample, nSince, nFirst, nRound, nTraffic,
  gPc, gStop, gFix, gOld, gLog, gGpsd, gReceived, gReads,
  rPc, rStop, rReport, rLen, rDatagrams, rErrors, rInjected, rQuitAt,
  ePc, eT, ePayload, eSize, eInterval, eStamp, eRem, eSets, eRaced, eMade, ePkts, eBursts

wVars == <<wPath, wPc, wExit, wTemp, wInbox, wStr, wBefore, wReported, wMissed, wStarts, wEvents, wLast>>
nVars == <<nPc, nStop, nList, nK, nCounter, nIs, nNotFirst, nStart, nSample, nSince, nFirst, nRound, nTraffic>>
gVars == <<gPc, gStop, gFix, gOld, gLog, gGpsd, gReceived, gReads>>
rVars == <<rPc, rStop, rReport, rLen, rDatagrams, rErrors, rInjected, rQuitAt>>
eVars == <<ePc, eT, ePayload, eSize, eInterval, eStamp, eRem, eSets, eRaced, eMade, ePkts, eBursts>>
vars == <<program, wVars, nVars, gVars, rVars, eVars>>

W == INSTANCE Wpamon WITH
       path <- wPath, pc <- wPc, exit_loop <- wExit, temp <- wTemp, inbox <- wInbox, str <- wStr,
       before <- wBefore, reported <- wReported, missed <- wMissed, starts <- wStarts,
       events <- wEvents, last <- wLast
N == INSTANCE NMetrics WITH
       pc <- nPc, stop_loop <- nStop, list <- nList, k <- nK, counter <- nCounter, is <- nIs,
       not_first <- nNotFirst, start <- nStart, sample <- nSample, since <- nSince, first <- nFirst,
       round <- nRound, traffic <- nTraffic
G == INSTANCE GpsLogger WITH
       pc <- gPc, stop_loop <- gStop, fix <- gFix, old_int_time <- gOld, log <- gLog, gpsd <- gGpsd,
       received <- gReceived, reads <- gReads
R == INSTANCE RipwaveMon WITH
       pc <- rPc, stop_loop <- rStop, report <- rReport, len <- rLen, datagrams <- rDatagrams,
       errors <- rErrors, injected <- rInjected, quitAt <- rQuitAt
E == INSTANCE ExpoGenerator WITH
       Word <- RemWord,
       pc <- ePc, t <- eT, payload <- ePayload, pktSize_ <- eSize, pktInterval_ <- eInterval,
       lastPktStamp_ <- eStamp, rem_ <- eRem, sets <- eSets, raced <- eRaced,
       made <- eMade, pkts <- ePkts, bursts <- eBursts

\* A part that is not chosen is in one initial state of its own.
Init ==
  /\ program \in {"wpamon", "nmetrics", "gpslogger", "ripwavemon", "expo"}
  /\ W!Init /\ N!Init /\ G!Init /\ R!Init /\ E!Init
  /\ program # "nmetrics" => nList = <<>> /\ nIs = 0 /\ \A i \in Ifs : nCounter[i] = 0
  /\ program # "gpslogger" => gFix = CHOOSE f \in G!Fixes : TRUE
  /\ program # "expo" => /\ eSize = CHOOSE n \in Sizes : TRUE
                         /\ eInterval = CHOOSE n \in Unset : TRUE

\* A step of one part leaves the others alone.
Wpamon(A) == program = "wpamon" /\ A /\ UNCHANGED <<program, nVars, gVars, rVars, eVars>>
NMetrics(A) == program = "nmetrics" /\ A /\ UNCHANGED <<program, wVars, gVars, rVars, eVars>>
GpsLogger(A) == program = "gpslogger" /\ A /\ UNCHANGED <<program, wVars, nVars, rVars, eVars>>
RipwaveMon(A) == program = "ripwavemon" /\ A /\ UNCHANGED <<program, wVars, nVars, gVars, eVars>>
Expo(A) == program = "expo" /\ A /\ UNCHANGED <<program, wVars, nVars, gVars, rVars>>

Next == Wpamon(W!Next) \/ NMetrics(N!Next) \/ GpsLogger(G!Next) \/ RipwaveMon(R!Next) \/ Expo(E!Next)

Spec ==
  /\ Init /\ [][Next]_vars
  /\ \A p \in Procs : WF_vars(Wpamon(W!Process(p)))
  /\ WF_vars(NMetrics(N!Run)) /\ WF_vars(GpsLogger(G!Run))

-----------------------------------------------------------------------------
(* Properties of the parts, under the names the runs use *)

\* wpamon reports an event if and only if it differs from the message received just before.
WpamonReportsChanges == W!ReportsChanges

\* wpamon leaves no socket in the way of the next start, unless it is killed.
WpamonLeavesNoSocket == W!LeavesNoSocket

\* wpamon ends when interrupted, unless the signal falls between its test and recv().
WpamonInterruptEnds == W!InterruptEnds

\* nmetrics reports what an interface counted since its first reading, whatever readings fail.
NMetricsDeltaReported == N!DeltaReported

\* nmetrics ends on a signal.
NMetricsQuitEnds == N!QuitEnds

\* gpslogger logs one fix per second, and leaves none out.
GpsLoggerOneFixPerSecond == G!OneFixPerSecond

\* gpslogger ends on a signal, whether or not gpsd has anything to say.
GpsLoggerQuitEnds == G!QuitEnds

\* ripwavemon injects one datagram at a time, from end to end.
RipwaveMonWholeReports == R!WholeReports

\* ripwavemon takes at most one more report once a signal has come.
RipwaveMonOneMoreReport == R!OneMoreReport

\* The exponential generator never exceeds the flow's rate.
ExpoRateKept == E!RateKept

\* The exponential generator's bursts are as long as drawn.
ExpoBurstsWhole == E!BurstsWhole
=============================================================================
