--------------------------- MODULE MonitorProofs ---------------------------
(***************************************************************************)
(* Proofs about the four monitors of MCParts: wpamon for any number of     *)
(* processes, nmetrics for any interfaces and counters, gpslogger for any  *)
(* times of fixes, ripwavemon.                                             *)
(***************************************************************************)
EXTENDS MCParts, TLAPS

-----------------------------------------------------------------------------
(* A behaviour of MCParts is, for each part, one of the part's *)

\* In a behaviour of MCParts the wpamon processes take steps of their own module or none.
LEMMA WpamonSteps == (Init => W!Init) /\ ([Next]_vars => [W!Next]_W!vars)
BY DEF Init, Next, vars, Wpamon, NMetrics, GpsLogger, RipwaveMon, Expo, wVars, W!vars, W!procVars

\* The same for nmetrics.
LEMMA NMetricsSteps == (Init => N!Init) /\ ([Next]_vars => [N!Next]_N!vars)
BY DEF Init, Next, vars, Wpamon, NMetrics, GpsLogger, RipwaveMon, Expo, nVars, N!vars, N!counters

\* The same for gpslogger.
LEMMA GpsLoggerSteps == (Init => G!Init) /\ ([Next]_vars => [G!Next]_G!vars)
BY DEF Init, Next, vars, Wpamon, NMetrics, GpsLogger, RipwaveMon, Expo, gVars, G!vars

\* The same for ripwavemon.
LEMMA RipwaveMonSteps == (Init => R!Init) /\ ([Next]_vars => [R!Next]_R!vars)
BY DEF Init, Next, vars, Wpamon, NMetrics, GpsLogger, RipwaveMon, Expo, rVars, R!vars

-----------------------------------------------------------------------------
(* ripwavemon *)

\* recv() says that it filled the buffer only when one datagram did.
BufferInv ==
  /\ rDatagrams \in Nat /\ rReport \in [head : Nat, tail : Nat]
  /\ rLen = "full" => rReport.head = rReport.tail /\ rReport.head # 0
  /\ R!WholeReports

\* Between the signal and the next test of stop_loop there is one recv() at most.
LastReportInv ==
  /\ rDatagrams \in Nat /\ rQuitAt \in Nat
  /\ rStop => rQuitAt <= rDatagrams /\ rDatagrams <= rQuitAt + 1
  /\ rStop /\ rPc = "recv" => rDatagrams = rQuitAt

\* A failed recv() leaves the buffer, a datagram fills both halves.
LEMMA BufferStep == BufferInv /\ [Next]_vars => BufferInv'
<1> SUFFICES ASSUME BufferInv, [R!Next]_R!vars PROVE BufferInv'
  BY RipwaveMonSteps
<1> USE DEF BufferInv, R!WholeReports
<1>1. CASE R!PrepareSocket \/ R!PrepareOml \/ R!Loop \/ R!Quit \/ R!Check
  BY <1>1 DEF R!PrepareSocket, R!PrepareOml, R!Loop, R!Quit, R!Check
<1>2. CASE R!Datagram
  <2>1. rReport' \in [head : Nat, tail : Nat] /\ rDatagrams' \in Nat /\ rDatagrams' # 0
    BY <1>2 DEF R!Datagram
  <2>2. rLen' = "full" => rReport'.head = rReport'.tail /\ rReport'.head # 0
    BY <1>2, <2>1 DEF R!Datagram
  <2> QED
    BY <1>2, <2>1, <2>2 DEF R!Datagram
<1>3. CASE R!Failure
  BY <1>3 DEF R!Failure
<1>4. CASE UNCHANGED R!vars
  BY <1>4 DEF R!vars
<1> QED
  BY <1>1, <1>2, <1>3, <1>4 DEF R!Next

\* After the signal one more recv() returns, then the loop sees the flag.
LEMMA LastReportStep == LastReportInv /\ [Next]_vars => LastReportInv'
<1> SUFFICES ASSUME LastReportInv, [R!Next]_R!vars PROVE LastReportInv'
  BY RipwaveMonSteps
<1> USE DEF LastReportInv
<1>1. CASE R!PrepareSocket \/ R!PrepareOml
  BY <1>1 DEF R!PrepareSocket, R!PrepareOml
<1>2. CASE R!Loop \/ R!Check
  BY <1>2 DEF R!Loop, R!Check
<1>3. CASE R!Datagram \/ R!Failure
  BY <1>3 DEF R!Datagram, R!Failure
<1>4. CASE R!Quit
  BY <1>4 DEF R!Quit
<1>5. CASE UNCHANGED R!vars
  BY <1>5 DEF R!vars
<1> QED
  BY <1>1, <1>2, <1>3, <1>4, <1>5 DEF R!Next

\* No report is made of parts of two datagrams: a short datagram, which leaves the end of an earlier
\* one in the buffer, is never injected (ripwavemon's recv() loop).
THEOREM ReportsWhole == Spec => []RipwaveMonWholeReports
<1>1. Init => BufferInv
  BY RipwaveMonSteps DEF BufferInv, R!Init, R!WholeReports
<1>2. BufferInv => RipwaveMonWholeReports
  BY DEF BufferInv, RipwaveMonWholeReports
<1> QED
  BY <1>1, <1>2, BufferStep, PTL DEF Spec

\* After quit_handler() at most one report is taken, wherever in the loop the signal falls.
THEOREM OneMoreReportOnly == Spec => []RipwaveMonOneMoreReport
<1>1. Init => LastReportInv
  BY RipwaveMonSteps DEF LastReportInv, R!Init
<1>2. LastReportInv => RipwaveMonOneMoreReport
  BY DEF LastReportInv, RipwaveMonOneMoreReport, R!OneMoreReport
<1> QED
  BY <1>1, <1>2, LastReportStep, PTL DEF Spec

-----------------------------------------------------------------------------
(* gpslogger *)

\* old_int_time is the second of the fix logged last; the fix at hand, once looked at, is not to be
\* logged any more; and only the fix malloc() left there may be one gpsd never sent.
FixInv ==
  /\ gFix \in G!Fixes /\ gLog \in Seq(G!Fixes) /\ gReads \in Nat
  /\ gLog = <<>> => gOld = G!NoTime
  /\ gLog # <<>> => gLog[Len(gLog)].time = gOld
  /\ gReads > 0 /\ gFix.fixed => gFix.time = gOld
  /\ gFix \notin gReceived => gLog = <<>> \/ ~gFix.fixed \/ gFix.time = gOld
  /\ \A n \in 2..Len(gLog) : gLog[n] \in gReceived
  /\ \A n \in 2..Len(gLog) : gLog[n].time # gLog[n - 1].time

\* conditionally_log_fix() keeps old_int_time and the log together.
LEMMA LogFixStep == FixInv /\ G!Data => FixInv'
<1> SUFFICES ASSUME FixInv, G!Data PROVE FixInv'
  OBVIOUS
<1> USE DEF FixInv
<1>1. /\ gFix' \in G!Fixes /\ gReads' \in Nat /\ gReads' > 0
      /\ gReceived \subseteq gReceived' /\ (gFix' \in gReceived' \/ UNCHANGED <<gFix, gReceived>>)
  BY DEF G!Data
<1>2. CASE gFix'.time # gOld /\ gFix'.fixed
  <2>1. gOld' = gFix'.time /\ gLog' = Append(gLog, gFix')
    BY <1>2 DEF G!Data, G!LogFix
  <2>2. /\ gLog' \in Seq(G!Fixes) /\ Len(gLog') = Len(gLog) + 1 /\ gLog' # <<>>
        /\ gLog'[Len(gLog) + 1] = gFix' /\ \A n \in 1..Len(gLog) : gLog'[n] = gLog[n]
    BY <1>1, <2>1
  <2>3. ASSUME NEW n \in 2..Len(gLog') PROVE gLog'[n] \in gReceived' /\ gLog'[n].time # gLog'[n - 1].time
    <3>1. CASE n \in 2..Len(gLog)
      BY <1>1, <2>2, <3>1
    <3>2. CASE n = Len(gLog) + 1
      <4>1. Len(gLog) \in Nat /\ Len(gLog) >= 1 /\ gLog # <<>>
        BY <2>3, <3>2
      <4>2. gLog'[n] = gFix' /\ gLog'[n - 1] = gLog[Len(gLog)]
        BY <2>2, <3>2, <4>1
      <4>3. gFix' \in gReceived'
        BY <1>1, <1>2, <4>1
      <4> QED
        BY <1>2, <4>1, <4>2, <4>3
    <3> QED
      BY <2>2, <2>3, <3>1, <3>2
  <2> QED
    BY <1>1, <2>1, <2>2, <2>3
<1>3. CASE ~(gFix'.time # gOld /\ gFix'.fixed)
  <2>1. UNCHANGED <<gOld, gLog>>
    BY <1>3 DEF G!Data, G!LogFix
  <2> QED
    BY <1>1, <1>3, <2>1
<1> QED
  BY <1>2, <1>3

\* gpslogger logs one fix per second and leaves none out, though reads fail or bring no position and
\* the fix found before is processed again (process(), conditionally_log_fix()).
THEOREM OneFixPerSecond == Spec => []GpsLoggerOneFixPerSecond
<1>1. Init => FixInv
  BY GpsLoggerSteps DEF FixInv, G!Init
<1>2. FixInv /\ [Next]_vars => FixInv'
  <2> SUFFICES ASSUME FixInv, [G!Next]_G!vars PROVE FixInv'
    BY GpsLoggerSteps
  <2>1. CASE G!Data
    BY <2>1, LogFixStep
  <2>2. CASE ~G!Data
    <3>1. UNCHANGED <<gFix, gOld, gLog, gReceived, gReads>>
      BY <2>2 DEF G!Next, G!Run, G!Main, G!Open, G!Loop, G!Enter, G!Timeout, G!Quit, G!GpsdGone, G!vars
    <3> QED
      BY <3>1 DEF FixInv
  <2> QED
    BY <2>1, <2>2
<1>3. FixInv => GpsLoggerOneFixPerSecond
  BY DEF FixInv, GpsLoggerOneFixPerSecond, G!OneFixPerSecond
<1> QED
  BY <1>1, <1>2, <1>3, PTL DEF Spec

-----------------------------------------------------------------------------
(* wpamon *)

WpamonTypes ==
  /\ wPc \in [Procs -> {"off", "bind", "connect", "test", "enter", "recv", "cleanup"}]
  /\ wTemp \in [Procs -> {W!Nothing, "OK, first word"} \cup W!Messages]
  /\ wStr \in [Procs -> {W!Nothing} \cup W!Messages]
  /\ wBefore \in [Procs -> {W!Nothing} \cup W!Messages]
  /\ wReported \in [Procs -> BOOLEAN]
  /\ wInbox \in [Procs -> {<<>>} \cup {<<m>> : m \in W!Messages}]

\* temp is the last message received, or what strtok_r() left of one that is never reported.
KeptInv ==
  /\ WpamonTypes
  /\ \A p \in Procs : IF wStr[p] = "OK" THEN wTemp[p] \notin W!ToReport ELSE wTemp[p] = wStr[p]
  /\ W!ReportsChanges

\* The path is free after an orderly end, until another process binds it; that one is then running.
PathInv ==
  /\ WpamonTypes
  /\ wLast = "exited" => wPath = "absent" \/ (wPath \in Procs /\ wPc[wPath] # "off")

\* The first element of a sequence of one.
LEMMA HeadOfOne ==
  ASSUME NEW m
  PROVE  Head(<<m>>) = m
BY SMT

\* Every step keeps the types, a process that ends forgetting all it had.
LEMMA WpamonTypeStep == WpamonTypes /\ [Next]_vars => WpamonTypes'
<1> SUFFICES ASSUME WpamonTypes, [W!Next]_W!vars PROVE WpamonTypes'
  BY WpamonSteps
<1> USE DEF WpamonTypes, W!Goto
<1>1. CASE W!Event
  <2>1. PICK m \in W!Messages : wInbox' = [wInbox EXCEPT ![wPath] = <<m>>]
    BY <1>1 DEF W!Event
  <2>2. wInbox' \in [Procs -> {<<>>} \cup {<<n>> : n \in W!Messages}]
    BY <1>1, <2>1 DEF W!Event
  <2> QED
    BY <1>1, <2>2 DEF W!Event
<1>2. ASSUME NEW p \in Procs, W!Start(p) \/ W!Bind(p) \/ W!Connect(p) PROVE WpamonTypes'
  BY <1>2 DEF W!Start, W!Bind, W!Connect, W!Fails
<1>3. ASSUME NEW p \in Procs, W!Test(p) \/ W!Enter(p) \/ W!ReceiveFails(p) \/ W!Interrupt(p) PROVE WpamonTypes'
  BY <1>3 DEF W!Test, W!Enter, W!ReceiveFails, W!Interrupt
<1>4. ASSUME NEW p \in Procs, W!Overrun(p) \/ W!Kill(p) \/ W!Cleanup(p) PROVE WpamonTypes'
  <2>1. \E how : W!Gone(p, how)
    BY <1>4 DEF W!Overrun, W!Kill, W!Cleanup, W!Killed
  <2> QED
    BY <2>1 DEF W!Gone
<1>5. ASSUME NEW p \in Procs, W!Receive(p) PROVE WpamonTypes'
  <2>1. PICK m \in W!Messages : wInbox[p] = <<m>>
    BY <1>5 DEF W!Receive
  <2>2. Head(wInbox[p]) = m
    BY <2>1, HeadOfOne, Zenon
  <2>3. wReported' \in [Procs -> BOOLEAN]
    BY <1>5 DEF W!Receive
  <2>4. W!Kept(p, m) \in {W!Nothing, "OK, first word"} \cup W!Messages
    BY DEF W!Kept
  <2> QED
    BY <1>5, <2>2, <2>3, <2>4 DEF W!Receive
<1>6. CASE UNCHANGED W!vars
  BY <1>6 DEF W!vars, W!procVars
<1> QED
  BY <1>1, <1>2, <1>3, <1>4, <1>5, <1>6 DEF W!Next, W!Process

\* A message that may be reported is in temp if and only if it is the last one received.
LEMMA KeptStep == KeptInv /\ [Next]_vars => KeptInv'
<1> SUFFICES ASSUME KeptInv, [W!Next]_W!vars, WpamonTypes' PROVE KeptInv'
  BY WpamonSteps, WpamonTypeStep DEF KeptInv
<1> USE DEF KeptInv, WpamonTypes, W!ReportsChanges
<1>1. ASSUME UNCHANGED <<wTemp, wStr, wBefore, wReported>> PROVE KeptInv'
  BY <1>1
<1>2. ASSUME NEW p \in Procs, NEW how, W!Gone(p, how) PROVE KeptInv'
  <2>1. /\ wStr'[p] = W!Nothing /\ wTemp'[p] = W!Nothing /\ W!Nothing # "OK"
        /\ \A q \in Procs \ {p} : /\ wStr'[q] = wStr[q] /\ wTemp'[q] = wTemp[q]
                                  /\ wBefore'[q] = wBefore[q] /\ wReported'[q] = wReported[q]
    BY <1>2 DEF W!Gone, W!Nothing
  <2> QED
    BY <2>1
<1>3. ASSUME NEW p \in Procs, W!Receive(p) PROVE KeptInv'
  <2> DEFINE m == Head(wInbox[p])
  <2>1. /\ wBefore'[p] = wStr[p] /\ wStr'[p] = m
        /\ wReported'[p] <=> wTemp[p] # m /\ m \in W!ToReport
        /\ wTemp'[p] = IF wTemp[p] # m THEN W!Kept(p, m) ELSE wTemp[p]
        /\ \A q \in Procs \ {p} : /\ wStr'[q] = wStr[q] /\ wTemp'[q] = wTemp[q]
                                  /\ wBefore'[q] = wBefore[q] /\ wReported'[q] = wReported[q]
    BY <1>3 DEF W!Receive
  <2> HIDE DEF m
  <2>2. IF wStr'[p] = "OK" THEN wTemp'[p] \notin W!ToReport ELSE wTemp'[p] = wStr'[p]
    BY <2>1 DEF W!Kept, W!ToReport
  <2>3. wReported'[p] <=> wStr'[p] \in W!ToReport /\ wStr'[p] # wBefore'[p]
    BY <2>1 DEF W!ToReport
  <2>4. ASSUME NEW q \in Procs
        PROVE  /\ IF wStr'[q] = "OK" THEN wTemp'[q] \notin W!ToReport ELSE wTemp'[q] = wStr'[q]
               /\ wStr'[q] # W!Nothing => (wReported'[q] <=> wStr'[q] \in W!ToReport /\ wStr'[q] # wBefore'[q])
    <3>1. CASE q = p
      BY <2>2, <2>3, <3>1
    <3>2. CASE q # p
      BY <2>1, <3>2
    <3> QED
      BY <3>1, <3>2
  <2> QED
    BY <2>4
<1>4. CASE W!Event \/ UNCHANGED W!vars
  BY <1>1, <1>4 DEF W!Event, W!vars, W!procVars
<1>5. ASSUME NEW p \in Procs,
             \/ W!Start(p) \/ W!Bind(p) \/ W!Connect(p) \/ W!Test(p) \/ W!Enter(p)
             \/ W!ReceiveFails(p) \/ W!Interrupt(p)
      PROVE  KeptInv'
  BY <1>1, <1>5 DEF W!Start, W!Bind, W!Connect, W!Test, W!Enter, W!ReceiveFails, W!Interrupt
<1>6. ASSUME NEW p \in Procs, W!Overrun(p) \/ W!Kill(p) \/ W!Cleanup(p) PROVE KeptInv'
  BY <1>2, <1>6 DEF W!Overrun, W!Kill, W!Cleanup, W!Killed
<1> QED
  BY <1>3, <1>4, <1>5, <1>6 DEF W!Next, W!Process

\* Whoever ends removes what is at the path, be it another's, or is killed.
LEMMA PathStep == PathInv /\ [Next]_vars => PathInv'
<1> SUFFICES ASSUME PathInv, [W!Next]_W!vars, WpamonTypes' PROVE PathInv'
  BY WpamonSteps, WpamonTypeStep DEF PathInv
<1> USE DEF PathInv, WpamonTypes
<1>1. CASE W!Event \/ UNCHANGED W!vars
  BY <1>1 DEF W!Event, W!vars, W!procVars
<1>2. ASSUME NEW p \in Procs, W!Bind(p) PROVE PathInv'
  BY <1>2 DEF W!Bind, W!Goto, W!Fails
<1>3. ASSUME NEW p \in Procs,
             \/ W!Start(p) \/ W!Connect(p) \/ W!Test(p) \/ W!Enter(p)
             \/ W!Receive(p) \/ W!ReceiveFails(p) \/ W!Interrupt(p)
      PROVE  PathInv'
  <2>1. UNCHANGED <<wPath, wLast>> /\ \A q \in Procs : wPc[q] # "off" => wPc'[q] # "off"
    BY <1>3 DEF W!Start, W!Connect, W!Test, W!Enter, W!Receive, W!ReceiveFails, W!Interrupt, W!Goto, W!Fails
  <2> QED
    BY <2>1
<1>4. ASSUME NEW p \in Procs, W!Overrun(p) \/ W!Kill(p) \/ W!Cleanup(p) PROVE PathInv'
  BY <1>4 DEF W!Overrun, W!Kill, W!Cleanup, W!Killed, W!Gone
<1> QED
  BY <1>1, <1>2, <1>3, <1>4 DEF W!Next, W!Process

\* At first no process runs and none has received anything.
LEMMA WpamonInit == Init => KeptInv /\ PathInv
<1> SUFFICES ASSUME W!Init PROVE KeptInv /\ PathInv
  BY WpamonSteps
<1>1. WpamonTypes
  BY DEF W!Init, WpamonTypes, W!Nothing
<1> QED
  BY <1>1 DEF W!Init, KeptInv, PathInv, W!ReportsChanges, W!Nothing

\* A message is reported if and only if it is an event to report and not the one received just
\* before, for any number of processes that start, fail and die (wpamon's recv() loop).
THEOREM ChangesReported == Spec => []WpamonReportsChanges
<1>1. KeptInv => WpamonReportsChanges
  BY DEF KeptInv, WpamonReportsChanges
<1> QED
  BY <1>1, WpamonInit, KeptStep, PTL DEF Spec

\* When the last process to go exited by itself, nothing is left at the path to keep the next from
\* starting, however many shared the path (wpamon's cleanup_socket).
THEOREM NoSocketLeft == Spec => []WpamonLeavesNoSocket
<1>1. PathInv => WpamonLeavesNoSocket
  BY DEF PathInv, WpamonTypes, WpamonLeavesNoSocket, W!LeavesNoSocket
<1> QED
  BY <1>1, WpamonInit, PathStep, PTL DEF Spec

-----------------------------------------------------------------------------
(* nmetrics *)

\* A quotient and a remainder are unique.
LEMMA RemainderUnique ==
  ASSUME NEW M \in Nat \ {0}, NEW a \in Int, NEW q \in Int, NEW r \in 0..M - 1, a = M * q + r
  PROVE  a % M = r
<1>1. a % M \in 0..M - 1 /\ a = M * (a \div M) + (a % M) /\ (a \div M) \in Int
  OBVIOUS
<1>2. ASSUME NEW x \in Int, NEW y \in Int, NEW s \in 0..M - 1, M * x + s = M * y + r PROVE s = r
  BY <1>2
<1> QED
  BY <1>1, <1>2

\* Multiples of M make no difference to a remainder.
LEMMA RemainderShift ==
  ASSUME NEW M \in Nat \ {0}, NEW a \in Int, NEW q \in Int
  PROVE  (a + M * q) % M = a % M
<1>1. a % M \in 0..M - 1 /\ a = M * (a \div M) + (a % M) /\ (a \div M) \in Int
  OBVIOUS
<1> DEFINE d == a \div M
           r == a % M
<1> HIDE DEF d, r
<1>2. a + M * q = M * (d + q) + r /\ d + q \in Int /\ a + M * q \in Int
  BY <1>1 DEF d, r
<1> QED
  BY <1>1, <1>2, RemainderUnique DEF r, d

\* Counting n more before taking a difference modulo M is counting n more in the difference.
LEMMA DifferenceGrows ==
  ASSUME NEW M \in Nat \ {0}, NEW c \in Int, NEW n \in Int, NEW s \in Int, NEW d \in Int,
         (c - s) % M = d % M
  PROVE  (((c + n) % M) - s) % M = (d + n) % M
<1> DEFINE p == (c + n) \div M
           q == (c - s) \div M
           u == d \div M
<1>1. p \in Int /\ q \in Int /\ u \in Int
  OBVIOUS
<1>2. (c + n) % M = c + n - M * p /\ (c - s) % M = c - s - M * q /\ d % M = d - M * u
  OBVIOUS
<1> HIDE DEF p, q, u
<1>3. ((c + n) % M) - s = (d + n) + M * (q - u - p)
  BY <1>1, <1>2
<1>4. ((d + n) + M * (q - u - p)) % M = (d + n) % M
  <2>1. d + n \in Int /\ q - u - p \in Int
    BY <1>1
  <2> HIDE DEF p, q, u
  <2> QED
    BY <2>1, RemainderShift
<1> QED
  BY <1>3, <1>4

CounterTypes ==
  /\ nList \in Seq(Ifs) /\ nCounter \in [Ifs -> N!Values] /\ nIs \in N!Values
  /\ nNotFirst \in [N!Entries -> BOOLEAN] /\ nStart \in [N!Entries -> N!Values]
  /\ nSince \in [N!Entries -> Nat] /\ nFirst \in [N!Entries -> {"none", "read", "failed"}]

\* Once an interface's first reading succeeded, its counter is ahead of the start value by what it
\* has counted since, modulo the counter's width.
CounterInv ==
  /\ CounterTypes
  /\ \A e \in N!Entries : nNotFirst[e] <=> nFirst[e] # "none"
  /\ \A e \in N!Entries : nFirst[e] = "none" => nSince[e] = 0
  /\ \A e \in N!Entries : nFirst[e] = "read" =>
       (nCounter[nList[e]] - nStart[e]) % Word = nSince[e] % Word

\* A reading takes the start value when it is the first one, and changes no other interface's.
LEMMA ReadingStep == CounterInv /\ N!Interface => CounterInv'
<1> SUFFICES ASSUME CounterInv, N!Interface PROVE CounterInv'
  OBVIOUS
<1> USE DEF CounterInv, CounterTypes, N!Entries
<1>0. /\ UNCHANGED <<nList, nCounter, nSince>> /\ nK \in N!Entries /\ Word \in Nat \ {0}
      /\ \A e \in N!Entries : nList[e] \in Ifs
  BY CountersAssumption DEF N!Interface
<1>1. PICK read \in BOOLEAN :
        /\ nIs' = IF read THEN nCounter[nList[nK]] ELSE nIs
        /\ \/ nNotFirst[nK] /\ UNCHANGED <<nNotFirst, nStart>>
           \/ ~nNotFirst[nK] /\ N!StartTaken /\ nStart' = [nStart EXCEPT ![nK] = nIs']
        /\ nFirst' = [nFirst EXCEPT ![nK] = IF @ # "none" THEN @ ELSE IF read THEN "read" ELSE "failed"]
  BY DEF N!Interface
<1>2. nIs' \in N!Values
  BY <1>0, <1>1
<1>3. CASE nNotFirst[nK]
  <2>1. UNCHANGED <<nNotFirst, nStart, nFirst>>
    BY <1>0, <1>1, <1>3
  <2> QED
    BY <1>0, <1>2, <2>1
<1>4. CASE ~nNotFirst[nK]
  <2>1. /\ nNotFirst' = [nNotFirst EXCEPT ![nK] = TRUE] /\ nStart' = [nStart EXCEPT ![nK] = nIs']
        /\ nFirst' = [nFirst EXCEPT ![nK] = IF read THEN "read" ELSE "failed"] /\ nSince[nK] = 0
    BY <1>0, <1>1, <1>4 DEF N!StartTaken
  <2>2. nNotFirst' \in [N!Entries -> BOOLEAN]
    BY <2>1
  <2>3. nStart' \in [N!Entries -> N!Values] /\ nFirst' \in [N!Entries -> {"none", "read", "failed"}]
    BY <1>2, <2>1
  <2>4. read => (nCounter[nList[nK]] - nIs') % Word = 0 % Word
    <3>1. nCounter[nList[nK]] \in Int
      BY <1>0 DEF N!Values
    <3> QED
      BY <1>1, <3>1
  <2>5. ASSUME NEW e \in N!Entries
        PROVE  /\ nNotFirst'[e] <=> nFirst'[e] # "none"
               /\ nFirst'[e] = "none" => nSince[e] = 0
               /\ nFirst'[e] = "read" => (nCounter[nList[e]] - nStart'[e]) % Word = nSince[e] % Word
    <3>1. CASE e = nK
      BY <1>0, <2>1, <2>4, <3>1
    <3>2. CASE e # nK
      BY <1>0, <2>1, <3>2
    <3> QED
      BY <3>1, <3>2
  <2> QED
    BY <1>0, <1>2, <2>2, <2>3, <2>5
<1> QED
  BY <1>3, <1>4

\* The counter and what is counted since the first report grow together.
LEMMA TrafficStep == CounterInv /\ N!Traffic => CounterInv'
<1> SUFFICES ASSUME CounterInv, N!Traffic PROVE CounterInv'
  OBVIOUS
<1>1. PICK i \in Ifs, n \in Steps :
        /\ nCounter' = [nCounter EXCEPT ![i] = (@ + n) % Word]
        /\ nSince' = [e \in N!Entries |->
                        IF nList[e] = i /\ nFirst[e] # "none" THEN nSince[e] + n ELSE nSince[e]]
  BY DEF N!Traffic
<1>2. n \in Int /\ n \in Nat /\ Word \in Nat \ {0} /\ N!Values \subseteq Int
  BY CountersAssumption DEF N!Values
<1>3. /\ UNCHANGED <<nList, nIs, nNotFirst, nStart, nFirst>> /\ N!Entries' = N!Entries
      /\ CounterTypes /\ \A e \in N!Entries : nList[e] \in Ifs
  BY DEF N!Traffic, CounterInv, CounterTypes, N!Entries
<1>4. nCounter' \in [Ifs -> N!Values]
  <2>1. (nCounter[i] + n) % Word \in N!Values
    BY <1>2, <1>3, CountersAssumption DEF N!Values, CounterTypes
  <2> QED
    BY <1>1, <1>3, <2>1 DEF CounterTypes
<1>5. nSince' \in [N!Entries -> Nat]
  BY <1>1, <1>2, <1>3 DEF CounterTypes
<1>6. CounterTypes'
  BY <1>3, <1>4, <1>5 DEF CounterTypes
<1>7. ASSUME NEW e \in N!Entries
      PROVE  /\ nFirst[e] = "none" => nSince'[e] = 0
             /\ nFirst[e] = "read" => (nCounter'[nList[e]] - nStart[e]) % Word = nSince'[e] % Word
  <2>1. nCounter[nList[e]] \in Int /\ nStart[e] \in Int /\ nSince[e] \in Int
    <3>1. nCounter[nList[e]] \in N!Values /\ nStart[e] \in N!Values /\ nSince[e] \in Nat
      BY <1>3 DEF CounterTypes
    <3> QED
      BY <3>1, CountersAssumption DEF N!Values
  <2>2. /\ nFirst[e] = "none" => nSince[e] = 0
        /\ nFirst[e] = "read" => (nCounter[nList[e]] - nStart[e]) % Word = nSince[e] % Word
    BY DEF CounterInv
  <2>3. CASE nList[e] = i /\ nFirst[e] # "none"
    <3>1. nCounter'[nList[e]] = (nCounter[nList[e]] + n) % Word /\ nSince'[e] = nSince[e] + n
      BY <1>1, <1>3, <2>3 DEF CounterTypes
    <3>2. nFirst[e] = "read" =>
            (((nCounter[nList[e]] + n) % Word) - nStart[e]) % Word = (nSince[e] + n) % Word
      <4> HIDE DEF CounterInv
      <4>1. SUFFICES ASSUME nFirst[e] = "read"
                     PROVE  (((nCounter[nList[e]] + n) % Word) - nStart[e]) % Word = (nSince[e] + n) % Word
        OBVIOUS
      <4>2. (nCounter[nList[e]] - nStart[e]) % Word = nSince[e] % Word
        BY <2>2, <4>1
      <4> DEFINE c == nCounter[nList[e]]
                 s == nStart[e]
                 d == nSince[e]
      <4>3. Word \in Nat \ {0} /\ c \in Int /\ n \in Int /\ s \in Int /\ d \in Int /\ (c - s) % Word = d % Word
        BY <1>2, <2>1, <4>2
      <4> HIDE DEF c, s, d
      <4>4. (((c + n) % Word) - s) % Word = (d + n) % Word
        BY <4>3, DifferenceGrows
      <4> QED
        BY <4>4 DEF c, s, d
    <3> QED
      BY <2>3, <3>1, <3>2
  <2>4. CASE ~(nList[e] = i /\ nFirst[e] # "none")
    <3>1. nSince'[e] = nSince[e] /\ (nFirst[e] # "none" => nCounter'[nList[e]] = nCounter[nList[e]])
      BY <1>1, <1>3, <2>4 DEF CounterTypes
    <3> QED
      BY <2>2, <3>1
  <2> QED
    BY <2>3, <2>4
<1>8. \A e \in N!Entries : nNotFirst[e] <=> nFirst[e] # "none"
  BY DEF CounterInv
<1> QED
  BY <1>3, <1>6, <1>7, <1>8 DEF CounterInv

\* No other step touches what the reports are made from.
LEMMA CounterStep == CounterInv /\ [Next]_vars => CounterInv'
<1> SUFFICES ASSUME CounterInv, [N!Next]_N!vars PROVE CounterInv'
  BY NMetricsSteps
<1>1. CASE N!Loop \/ N!ListEnd \/ N!Wake \/ N!Quit \/ UNCHANGED N!vars
  BY <1>1 DEF CounterInv, CounterTypes, N!Entries, N!Loop, N!ListEnd, N!Wake, N!Quit, N!vars, N!counters
<1> QED
  BY <1>1, ReadingStep, TrafficStep DEF N!Next, N!Run

\* A successful reading is reported as what was counted since the first one.
LEMMA DeltaStep ==
  CounterInv /\ [Next]_vars =>
    [nSample' # nSample /\ nSample'.read /\ nFirst'[nSample'.entry] = "read"
       => nSample'.value = nSince'[nSample'.entry] % Word]_N!vars
<1> SUFFICES ASSUME CounterInv, CounterInv', [N!Next]_N!vars, nSample' # nSample, nSample'.read,
                    nFirst'[nSample'.entry] = "read"
             PROVE  nSample'.value = nSince'[nSample'.entry] % Word
  BY CounterStep, NMetricsSteps
<1>1. N!Interface
  BY DEF N!Next, N!Run, N!Loop, N!ListEnd, N!Wake, N!Quit, N!Traffic, N!vars, N!counters
<1>2. /\ nSample'.entry = nK /\ nSample'.value = (nIs' - nStart'[nK]) % Word /\ nK \in N!Entries
      /\ nIs' = nCounter[nList[nK]] /\ UNCHANGED <<nList, nCounter, nSince>>
  BY <1>1 DEF N!Interface
<1> QED
  BY <1>2 DEF CounterInv, CounterTypes, N!Entries

\* A successful reading is reported as what the interface counted since its first one, modulo the
\* width of a counter, whatever readings of any interface fail (nmetrics' run()).
THEOREM DeltasReported == Spec => NMetricsDeltaReported
<1>1. Init => CounterInv
  <2> SUFFICES ASSUME N!Init PROVE CounterInv
    BY NMetricsSteps
  <2>1. nList \in Seq(Ifs)
    <3>1. PICK n \in 0..2 : nList \in [1..n -> Ifs]
      BY DEF N!Init
    <3> QED
      BY <3>1
  <2>2. nNotFirst \in [N!Entries -> BOOLEAN]
    BY DEF N!Init
  <2>3. 0 \in N!Values
    BY CountersAssumption DEF N!Values
  <2> QED
    BY <2>1, <2>2, <2>3 DEF N!Init, CounterInv, CounterTypes
<1> QED
  BY <1>1, CounterStep, DeltaStep, PTL DEF Spec, NMetricsDeltaReported, N!DeltaReported
=============================================================================
