------------------------------ MODULE Wattsup ------------------------------
(***************************************************************************)
(* wattsup: main() reads a Watts Up? power meter over a serial line and    *)
(* reports its records to OML.  The program is sequential; what races with *)
(* it are the meter, whose answers come late, garbled or never, and the    *)
(* signals that end it.                                                    *)
(*                                                                         *)
(* `calls' holds the calls main() has still to make, the next one first:   *)
(* an error that is fatal empties it (goto Close), the reset of a silent   *)
(* meter puts three calls in front of it.  A packet on the line is the     *)
(* letter of its command; a data record is "d".                            *)
(***************************************************************************)
EXTENDS Integers, Sequences, FiniteSets

CONSTANTS
  CommandLines,  \* the command lines followed, records as in Options below
  LeftLogging,   \* the meter may be logging already, since an earlier run
  MaxCount,      \* bound: the largest --count
  MaxRecords,    \* bound: records the meter sends
  MaxLine        \* bound: packets under way in each direction

\* An option with a parameter may be absent, given without one ("bare"), or with a bad or a good value.
Param == {"no", "bare", "bad", "set"}
BadCount == -1
Options ==
  [args: {"ok", "help", "bad"}, device: {"tty", "notdir", "missing"},
   interval: Param, mode: Param, user: Param, cal: BOOLEAN, header: BOOLEAN,
   set_only: BOOLEAN, info_all: BOOLEAN, no_data: BOOLEAN, count: {BadCount} \cup 0..MaxCount]

ASSUME CommandLinesAssumption == CommandLines \subseteq Options
ASSUME BoundsAssumption == MaxCount \in Nat /\ MaxRecords \in Nat /\ MaxLine \in Nat

VARIABLES
  opts,         \* wu_options[], as parse_args() leaves it
  oml_enabled,
  pc,           \* where main() is
  opened,       \* fd is the meter's, not the 0 it is initialised with
  calls,        \* calls main() has still to make
  handlers,     \* quit_handler() is installed
  stop_loop,
  i, retry,     \* of wu_read_data()
  full,         \* of wu_read_data()'s packet: all field[] pointers are set
  logging,      \* the meter sends a record every interval
  line,         \* commands on their way to the meter
  answers,      \* packets waiting to be read
  records,      \* records the meter has sent
  taken,        \* packets wu_read_data() took for records, the last MaxCount + 1 of them
  failures,     \* reads of wu_read_data() that failed since the last one that did not
  restarts,     \* resets of the meter since then
  last          \* what became of the last command that starts or stops the log

program == <<opts, oml_enabled, opened, handlers>>
loop == <<i, retry, full, taken, failures, restarts>>
meter == <<logging, records>>
vars == <<program, pc, calls, stop_loop, loop, meter, line, answers, last>>

Shows == {"cal", "header", "interval", "mode", "user"}
Stores == {"set_interval", "set_mode", "set_user"}
Calls == Shows \cup Stores
         \cup {"clear", "count", "start", "restart", "signal", "read_data", "stop"}
Packets == {"d", "F", "H", "S", "M", "U", "L", "R", "garbled"}
Ended == {"returned", "closed", "crashed", "killed"}

-----------------------------------------------------------------------------
(* The order of main() *)

\* The option a ->store() call is about.
OptionOf(c) == CASE c = "set_interval" -> "interval" [] c = "set_mode" -> "mode"

\* A call main() makes only on a condition.
CallIf(made, c) == IF made THEN <<c>> ELSE <<>>

\* wu_check_store() of the options that set the meter up.
StoreCalls(o) ==
  CallIf(o.interval # "no", "set_interval") \o CallIf(o.mode # "no", "set_mode")
  \o CallIf(o.user # "no", "set_user")

\* wu_check_show(): an option that is set is shown too, unless --set-only.
ShowCalls(o) ==
  LET asked(v) == o.info_all \/ (v # "no" /\ ~o.set_only)
  IN  CallIf(o.info_all \/ o.cal, "cal") \o CallIf(o.info_all \/ o.header, "header")
      \o CallIf(asked(o.interval), "interval") \o CallIf(asked(o.mode), "mode")
      \o CallIf(asked(o.user), "user")

\* What main() does between setup_serial_device() and Close.
MainCalls(o) ==
  <<"clear">> \o StoreCalls(o) \o ShowCalls(o)
  \o IF o.no_data THEN <<>> ELSE <<"count", "start", "signal", "read_data", "stop">>

\* The command a call writes: the letter, and whether it reads or writes.
CommandOf(c) ==
  CASE c = "clear" -> <<"R", "W">>
    [] c = "set_interval" -> <<"S", "W">>
    [] c = "set_mode" -> <<"M", "W">>
    [] c = "set_user" -> <<"U", "R">>        \* and no parameters: they are in label[]
    [] c = "cal" -> <<"F", "R">>
    [] c = "header" -> <<"H", "R">>
    [] c = "interval" -> <<"S", "R">>
    [] c = "mode" -> <<"M", "R">>
    [] c = "user" -> <<"U", "R">>
    [] c \in {"start", "restart"} -> <<"L", "W">>
    [] c = "stop" -> <<"L", "R">>

-----------------------------------------------------------------------------
(* The meter and the line to it *)

\* The parameters of each packet; parse_packet() rejects one that has none.
FieldCount(p) ==
  CASE p \in {"d", "H"} -> 18 [] p = "F" -> 14 [] p = "U" -> 4 [] p \in {"S", "L"} -> 2 [] p = "M" -> 1
    [] OTHER -> 0

\* An answer arrives whole, garbled, or not at all.
Arrives(p) ==
  \/ UNCHANGED answers
  \/ Len(answers) < MaxLine /\ \E a \in {p, "garbled"} : answers' = Append(answers, a)

\* The meter carries out a command.  It answers those that read, and perhaps the one that clears.
Obey ==
  /\ line # <<>>
  /\ LET c == Head(line) IN
       /\ line' = Tail(line)
       /\ logging' = IF c[1] = "L" THEN c[2] = "W" ELSE logging
       /\ IF c[2] = "R" \/ c[1] = "R" THEN Arrives(c[1]) ELSE UNCHANGED answers
  /\ UNCHANGED <<program, pc, calls, stop_loop, loop, records, last>>

\* The meter logs a record.
Record ==
  /\ logging /\ records < MaxRecords
  /\ Arrives("d")
  /\ records' = records + 1
  /\ UNCHANGED <<program, pc, calls, stop_loop, loop, logging, line, last>>

\* wu_write() returns 0: the command is under way, unless write() was short, which is no error, or fd
\* is not the meter's but 0.
Written(c) ==
  \/ opened /\ Len(line) < MaxLine /\ line' = Append(line, CommandOf(c))
  \/ UNCHANGED line

\* wu_write() fails.
NotWritten == UNCHANGED line

\* read() takes some of what has arrived; parse_packet() looks at the first packet of it, the rest is lost.
ReadSome ==
  /\ opened /\ answers # <<>>
  /\ \E n \in 1..Len(answers) : answers' = SubSeq(answers, n + 1, Len(answers))

\* wu_read() returns 0, with packet p.
ReadPacket(p) == ReadSome /\ Head(answers) = p /\ FieldCount(p) > 0

\* wu_read() fails: select() times out or meets a signal, or what is read does not parse.
ReadError ==
  \/ (opened => answers = <<>>) /\ UNCHANGED answers
  \/ stop_loop /\ UNCHANGED answers
  \/ ReadSome /\ FieldCount(Head(answers)) = 0

-----------------------------------------------------------------------------
(* main() up to the serial line *)

Init ==
  /\ opts \in CommandLines
  /\ oml_enabled \in BOOLEAN        \* omlc_init() and omlc_start() succeed, or not
  /\ logging \in IF LeftLogging THEN BOOLEAN ELSE {FALSE}
  /\ pc = "args" /\ opened = FALSE /\ calls = <<>> /\ handlers = FALSE /\ stop_loop = FALSE
  /\ i = 0 /\ retry = 0 /\ full = FALSE
  /\ line = <<>> /\ answers = <<>> /\ records = 0
  /\ taken = <<>> /\ failures = 0 /\ restarts = 0 /\ last = "none"

\* parse_args(): without a device, and after --help or --version, main() is over, and OML is not closed.
ParseArgs ==
  /\ pc = "args"
  /\ pc' = IF opts.args = "ok" THEN "open" ELSE "returned"
  /\ UNCHANGED <<program, calls, stop_loop, loop, meter, line, answers, last>>

\* open_device(): it fails, but reports no error for what /sys/class/tty does not have as a directory.
OpenDevice ==
  /\ pc = "open"
  /\ \/ opts.device = "tty" /\ opened' = TRUE /\ pc' = "setup"
     \/ opts.device \in {"tty", "missing"} /\ pc' = "returned" /\ UNCHANGED opened
     \/ opts.device = "notdir" /\ pc' = "setup" /\ UNCHANGED opened
  /\ UNCHANGED <<opts, oml_enabled, handlers, calls, stop_loop, loop, meter, line, answers, last>>

\* setup_serial_device(): flushes the input, or sends main() to Close.
SetupSerial ==
  /\ pc = "setup"
  /\ pc' = "main"
  /\ \/ calls' = MainCalls(opts) /\ answers' = IF opened THEN <<>> ELSE answers
     \/ calls' = <<>> /\ UNCHANGED answers
  /\ UNCHANGED <<program, stop_loop, loop, meter, line, last>>

-----------------------------------------------------------------------------
(* Calls of main() *)

AtCall(c) == pc = "main" /\ calls # <<>> /\ Head(calls) = c
NextCall == calls' = Tail(calls)
GotoClose == calls' = <<>>

\* wu_store_interval() and wu_store_mode(): without a value, strtol() is given NULL.
StoreNumber(c) ==
  /\ AtCall(c)
  /\ LET v == opts[OptionOf(c)] IN
       \/ v = "set" /\ Written(c) /\ NextCall /\ UNCHANGED pc
       \/ v \in {"set", "bad"} /\ NotWritten /\ GotoClose /\ UNCHANGED pc
       \/ v = "bare" /\ NotWritten /\ pc' = "crashed" /\ UNCHANGED calls
  /\ UNCHANGED <<program, stop_loop, loop, meter, answers, last>>

\* wu_store_user(): behind the last number it looks for another digit, past the end of the string,
\* and finds one or crashes.
StoreUser ==
  /\ AtCall("set_user")
  /\ \/ opts.user = "set" /\ Written("set_user") /\ NextCall /\ UNCHANGED pc
     \/ NotWritten /\ GotoClose /\ UNCHANGED pc
     \/ opts.user = "set" /\ NotWritten /\ pc' = "crashed" /\ UNCHANGED calls
  /\ UNCHANGED <<program, stop_loop, loop, meter, answers, last>>

\* wu_store_count().
StoreCount ==
  /\ AtCall("count")
  /\ IF opts.count = BadCount THEN GotoClose ELSE NextCall
  /\ UNCHANGED <<program, pc, stop_loop, loop, meter, line, answers, last>>

\* The commands that are answered: wu_clear() reads even when it could not write, the others give up.
Request(c) ==
  /\ AtCall(c)
  /\ \/ Written(c) /\ pc' = "reply" /\ UNCHANGED calls
     \/ NotWritten /\ c = "clear" /\ pc' = "reply" /\ UNCHANGED calls
     \/ NotWritten /\ c # "clear" /\ NextCall /\ UNCHANGED pc
  /\ last' = IF c # "stop" THEN last ELSE IF line' # line THEN "stopped" ELSE "stop failed"
  /\ UNCHANGED <<program, stop_loop, loop, meter, answers>>

\* Their wu_read(): neither its result nor its packet matters to main().
Reply ==
  /\ pc = "reply"
  /\ ReadError \/ \E p \in Packets : ReadPacket(p)
  /\ pc' = "main" /\ NextCall
  /\ UNCHANGED <<program, stop_loop, loop, meter, line, last>>

\* wu_start_log(): of main(), where failing is fatal, and of wu_read_data(), where it is not.
StartLog(c) ==
  /\ AtCall(c)
  /\ \/ Written(c) /\ NextCall
     \/ NotWritten /\ IF c = "start" THEN GotoClose ELSE NextCall
  /\ last' = IF line' # line THEN "started" ELSE "start failed"
  /\ UNCHANGED <<program, pc, stop_loop, loop, meter, answers>>

\* signal(SIGTERM, quit_handler), ...
InstallHandlers ==
  /\ AtCall("signal")
  /\ handlers' = TRUE /\ NextCall
  /\ UNCHANGED <<opts, oml_enabled, opened, pc, stop_loop, loop, meter, line, answers, last>>

\* The end of main(): close() and omlc_close().
Close ==
  /\ pc = "main" /\ calls = <<>>
  /\ pc' = "closed"
  /\ UNCHANGED <<program, calls, stop_loop, loop, meter, line, answers, last>>

-----------------------------------------------------------------------------
(* wu_read_data() *)

wu_max_retry == 2

\* History counters stop at HistoryBound, one above what the properties allow.
HistoryBound == wu_max_retry + 2
OneMore(n) == IF n < HistoryBound THEN n + 1 ELSE n

\* while (!stop_loop)
LoopTest ==
  /\ AtCall("read_data")
  /\ IF stop_loop THEN NextCall /\ UNCHANGED pc ELSE pc' = "record" /\ UNCHANGED calls
  /\ UNCHANGED <<program, stop_loop, loop, meter, line, answers, last>>

\* Mutant: a reset begins the count of records again.
ResetRecount ==
  /\ retry + 1 = wu_max_retry
  /\ calls' = <<"stop", "clear", "restart">> \o calls
  /\ restarts' = OneMore(restarts) /\ i' = 0 /\ retry' = retry + 1

\* Mutant: a reset begins the count of failures again.
ResetForgets ==
  /\ retry + 1 = wu_max_retry
  /\ calls' = <<"stop", "clear", "restart">> \o calls
  /\ retry' = 0 /\ UNCHANGED <<i, restarts>>

\* The second failure in a row: the meter is stopped, cleared and started again.
ResetMeter ==
  /\ retry + 1 = wu_max_retry
  /\ calls' = <<"stop", "clear", "restart">> \o calls
  /\ restarts' = OneMore(restarts) /\ retry' = retry + 1 /\ UNCHANGED i

\* Mutant: giving up is an error main() goes to Close for.
GiveUpClose ==
  /\ retry + 1 > wu_max_retry
  /\ calls' = <<>>
  /\ retry' = retry + 1 /\ UNCHANGED <<i, restarts>>

\* Mutant: the loop goes on.
GiveUpNever ==
  /\ retry + 1 > wu_max_retry
  /\ retry' = retry + 1 /\ UNCHANGED <<calls, i, restarts>>

\* The third: break.
GiveUp ==
  /\ retry + 1 > wu_max_retry
  /\ NextCall
  /\ retry' = retry + 1 /\ UNCHANGED <<i, restarts>>

\* A read that fails: retried once, then followed by a reset, then the end of the loop.
RecordError ==
  /\ pc = "record"
  /\ ReadError
  /\ \/ retry + 1 < wu_max_retry /\ retry' = retry + 1 /\ UNCHANGED <<calls, i, restarts>>
     \/ ResetMeter
     \/ GiveUp
  /\ pc' = "main" /\ failures' = OneMore(failures)
  /\ UNCHANGED <<program, stop_loop, full, taken, meter, line, last>>

\* Mutant: a good record does not end a row of failures.
RetryKept == UNCHANGED retry

\* else if (retry) retry = 0.
RetryReset == retry' = 0

\* A packet, whatever its command, is printed and, with OML, reported: report_packet_filter() reads all
\* 18 field[] pointers, set by this packet or an earlier one or never.
RecordRead ==
  /\ pc = "record"
  /\ \E p \in Packets :
       /\ ReadPacket(p)
       /\ full' = (full \/ FieldCount(p) = 18)
       /\ IF oml_enabled /\ ~full'
          THEN pc' = "crashed" /\ UNCHANGED <<calls, i, taken>>
          ELSE /\ pc' = "main"
               /\ taken' = IF Len(taken) > MaxCount THEN Append(Tail(taken), p) ELSE Append(taken, p)
               /\ i' = IF opts.count = 0 THEN i ELSE i + 1
               /\ IF opts.count # 0 /\ i' = opts.count THEN NextCall ELSE UNCHANGED calls
  /\ RetryReset
  /\ failures' = 0 /\ restarts' = 0
  /\ UNCHANGED <<program, stop_loop, meter, line, last>>

\* SIGINT, SIGTERM or SIGQUIT: quit_handler(), or the end of the process.
Signal ==
  /\ pc \notin Ended /\ ~stop_loop
  /\ IF handlers THEN stop_loop' = TRUE /\ UNCHANGED pc ELSE pc' = "killed" /\ UNCHANGED stop_loop
  /\ UNCHANGED <<program, calls, loop, meter, line, answers, last>>

Main ==
  \/ ParseArgs \/ OpenDevice \/ SetupSerial
  \/ \E c \in {"set_interval", "set_mode"} : StoreNumber(c)
  \/ StoreUser
  \/ StoreCount
  \/ \E c \in Shows \cup {"clear", "stop"} : Request(c)
  \/ Reply
  \/ \E c \in {"start", "restart"} : StartLog(c)
  \/ InstallHandlers \/ LoopTest \/ RecordError \/ RecordRead \/ Close

Next == Main \/ Signal \/ Obey \/ Record

Spec == Init /\ [][Next]_vars

\* main() keeps running: its sleeps end, and no select() waits longer than its timeout.
FairSpec == Spec /\ WF_vars(Main)

-----------------------------------------------------------------------------
(* Properties *)

\* Every variable has its type; in particular the calls still to make never pile up.
TypeOK ==
  /\ opts \in Options /\ oml_enabled \in BOOLEAN /\ opened \in BOOLEAN /\ handlers \in BOOLEAN
  /\ pc \in {"args", "open", "setup", "main", "reply", "record"} \cup Ended
  /\ calls \in Seq(Calls) /\ Len(calls) <= 14
  /\ stop_loop \in BOOLEAN /\ full \in BOOLEAN /\ logging \in BOOLEAN
  /\ i \in 0..MaxCount /\ retry \in 0..wu_max_retry + 1
  /\ records \in 0..MaxRecords
  /\ line \in Seq(Packets \X {"R", "W"}) /\ Len(line) <= MaxLine
  /\ answers \in Seq(Packets) /\ Len(answers) <= MaxLine
  /\ taken \in Seq(Packets) /\ Len(taken) <= MaxCount + 1
  /\ last \in {"none", "started", "start failed", "stopped", "stop failed"}

\* A program that ends by itself or by a signal to quit_handler() does not leave the meter logging: the
\* loop's every exit, giving up after a failed reset too, is followed by wu_stop_log().  Only a write
\* that failed or was short, or a log that was on before and this run never started, can leave it on.
MeterLeftQuiet ==
  pc = "closed" /\ opened /\ line = <<>> /\ logging => last \in {"none", "start failed", "stop failed"}

\* With --count=n the loop takes n packets and no more, resets of the meter in between or not.
CountHonoured ==
  opts.count > 0 =>
    /\ Len(taken) <= opts.count
    /\ pc = "closed" /\ last \in {"stopped", "stop failed"} /\ ~stop_loop /\ failures <= wu_max_retry
         => Len(taken) = opts.count

\* The loop gives up only on a meter it has reset, once, and that three reads in a row got nothing from.
GivesUpAfterReset ==
  failures <= wu_max_retry + 1 /\ restarts <= 1 /\ (retry > wu_max_retry => failures = 3 /\ restarts = 1)

\* A run with --count, and a run whose quit_handler() was called, ends, whatever the meter does.
Finishes == (pc = "record" /\ opts.count > 0) \/ stop_loop ~> pc \in Ended

\* "Specify number of data samples": what the loop takes are samples.
OnlySamples == \A n \in 1..Len(taken) : taken[n] = "d"
=============================================================================
