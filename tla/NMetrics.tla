------------------------------ MODULE NMetrics ------------------------------
(***************************************************************************)
(* nmetrics: at every interval, the load of the host and what each         *)
(* interface has counted since it was first read, until a signal.  One     *)
(* counter stands for the twelve that are reported relative to the first   *)
(* reading; the reports of the processor and the memory keep no state.     *)
(***************************************************************************)
EXTENDS Integers, Sequences

CONSTANTS
  Ifs,        \* interfaces of the host
  Word,       \* how many values a counter has, a power of 2
  Steps,      \* what a counter may grow by at a time
  MaxRounds,  \* bound: rounds of reports
  MaxTraffic  \* bound: times a counter grows

VARIABLES
  pc, stop_loop,
  list, k,          \* the interfaces given with -i; the one whose turn it is
  counter,          \* the kernel's counter of each interface
  is,               \* the one buffer for an interface's statistics
  not_first, start, \* if_monitor_t: start values taken; the start values
  sample,           \* the last network record: interface, value, and was the reading successful
  since, first,     \* ghosts: growth since the first report; what the reading for that one did
  round, traffic    \* counters for the bounds

counters == <<round, traffic>>
vars == <<pc, stop_loop, list, k, counter, is, not_first, start, sample, since, first, counters>>

Values == 0..Word - 1
Entries == 1..Len(list)

\* main(): the options are read, OML is up, the handlers are in place.  Each -i puts its
\* interface in front of the list, twice if it is given twice; is holds what was on the stack.
Init ==
  /\ pc = "loop" /\ stop_loop = FALSE
  /\ list \in UNION {[1..n -> Ifs] : n \in 0..2} /\ k = 1
  /\ counter \in [Ifs -> Values] /\ is \in Values
  /\ not_first = [e \in Entries |-> FALSE] /\ start = [e \in Entries |-> 0]
  /\ sample = [entry |-> 0, value |-> 0, read |-> FALSE, round |-> 0]
  /\ since = [e \in Entries |-> 0] /\ first = [e \in Entries |-> "none"]
  /\ round = 0 /\ traffic = 0

\* Mutant: stop_loop is tested once, before the loop.
LoopTestedOnce ==
  /\ pc = "loop"
  /\ \/ stop_loop /\ round = 0 /\ pc' = "done" /\ UNCHANGED <<k, round>>
     \/ round < MaxRounds /\ round' = round + 1 /\ k' = 1 /\ pc' = "interfaces"
  /\ UNCHANGED <<stop_loop, list, counter, is, not_first, start, sample, since, first, traffic>>

\* while (!stop_loop): a new round, which begins with sigar_open() and the host's load.
Loop ==
  /\ pc = "loop"
  /\ \/ stop_loop /\ pc' = "done" /\ UNCHANGED <<k, round>>
     \/ ~stop_loop /\ round < MaxRounds /\ round' = round + 1 /\ k' = 1 /\ pc' = "interfaces"
  /\ UNCHANGED <<stop_loop, list, counter, is, not_first, start, sample, since, first, traffic>>

\* Mutant: not_first is not set.
StartTakenAgain == UNCHANGED not_first

\* not_first = 1, for the entry whose turn it is.
StartTaken == not_first' = [not_first EXCEPT ![k] = TRUE]

\* sigar_net_interface_stat_get() fills is, or fails and leaves in it what was there; nobody
\* looks at its result.  The first reading gives the start values; the report is the difference,
\* in unsigned arithmetic.
Interface ==
  /\ pc = "interfaces" /\ k \in Entries
  /\ \E read \in BOOLEAN :
       /\ is' = IF read THEN counter[list[k]] ELSE is
       /\ \/ not_first[k] /\ UNCHANGED <<not_first, start>>
          \/ ~not_first[k] /\ StartTaken /\ start' = [start EXCEPT ![k] = is']
       /\ first' = [first EXCEPT ![k] = IF @ # "none" THEN @ ELSE IF read THEN "read" ELSE "failed"]
       /\ sample' = [entry |-> k, value |-> (is' - start'[k]) % Word, read |-> read, round |-> round]
  /\ k' = k + 1
  /\ UNCHANGED <<pc, stop_loop, list, counter, since, counters>>

\* The end of the list: sigar_close().
ListEnd ==
  /\ pc = "interfaces" /\ k \notin Entries /\ pc' = "sleep"
  /\ UNCHANGED <<stop_loop, list, k, counter, is, not_first, start, sample, since, first, counters>>

\* sleep() returns: the interval is over, or a signal came.
Wake ==
  /\ pc = "sleep" /\ pc' = "loop"
  /\ UNCHANGED <<stop_loop, list, k, counter, is, not_first, start, sample, since, first, counters>>

\* quit_handler().
Quit ==
  /\ pc # "done" /\ stop_loop' = TRUE
  /\ UNCHANGED <<pc, list, k, counter, is, not_first, start, sample, since, first, counters>>

\* Packets: the kernel's counter grows, and wraps.
Traffic ==
  /\ pc # "done" /\ traffic < MaxTraffic /\ traffic' = traffic + 1
  /\ \E i \in Ifs, n \in Steps :
       /\ counter' = [counter EXCEPT ![i] = (@ + n) % Word]
       /\ since' = [e \in Entries |-> IF list[e] = i /\ first[e] # "none" THEN since[e] + n ELSE since[e]]
  /\ UNCHANGED <<pc, stop_loop, list, k, is, not_first, start, sample, first, round>>

Run == Loop \/ Interface \/ ListEnd \/ Wake

Next == Run \/ Quit \/ Traffic

-----------------------------------------------------------------------------
(* Properties *)

\* A successful reading of an interface whose first one succeeded too is reported as what the
\* interface counted in between, up to the width of a counter: whatever readings of this and of
\* the other interfaces failed and left the shared buffer as it was.
DeltaReported ==
  [][sample' # sample /\ sample'.read /\ first'[sample'.entry] = "read"
       => sample'.value = since'[sample'.entry] % Word]_vars

\* A signal ends the program, wherever it meets it.
QuitEnds == stop_loop ~> pc = "done"
=============================================================================
