# TLA+ models of the OML applications

This directory holds TLA+ models of the programs in this repository (`oml-apps`: small applications
that instrument something and report it through the OML client library), the TLC configurations
that check them, and proofs TLAPS checks. File names below are relative to `src/`; `PROJECT.json` maps
every definition to its lines.

    tlc -workers 2 -config OtgStream.cfg MCOtgStream    # model-check a module
    tlapm OtgStreamProofs.tla                           # check the proofs of a module

## 1. The system

The repository is a collection of independent processes. They share no code except `otg2/lib`; each is
linked with liboml2, described by a `.rb.in` file from which `oml2-scaffold` generates the option table
and the `oml_inject_*` functions.

| component | state | operations | interacts with |
|---|---|---|---|
| OTG2 application (`otg2/otg2.cpp`, `otg2/lib/app/`) | option tables, standard input, the components it owns | two-phase option parsing, `run()`, `parseRuntimeOptions()` for each line typed, `quit_handler` | writes the generator's fields and the stream's clock and flags, which the stream thread reads |
| stream (`core/stream.cpp`) | `seqno_`, `paused_`, `active_`, one reused `Packet` | `run`, `pauseStream`, `resumeStream`, `exitStream`, `_run` | calls source, clock and sender in its own thread |
| stream clock (`core/unixtime.cpp`) | `origin_`, `pauseinstant_`, `paused_` | `getCurrentTime`, `pauseClock`, `resumeClock`, `waitAt` | two threads, no lock |
| CBR generator (`generator/cbr_generator.cpp`) | size, rate, interval, `lastPktStamp_` | `init`, `update`, `nextPacket` | options written by the main thread, read by the stream thread |
| exponential generator (`generator/expo_generator.cpp`) | on/off phase, random variables | `nextPacket` | as CBR |
| packet (`core/packet.cpp`) | buffer, size, offset | stamping, extraction, buffer growth | the wire |
| UDP ports (`port/udp_outport.cpp`, `udp_inport.cpp`, `socket.cpp`) | socket | `init`, `sendPacket`, `nextPacket` | the network: loss, duplication, reordering |
| OTR2 (`otg2/otr2.cpp`, `app/otr2_app.cpp`) | as OTG2 with UDP source and null sender | as OTG2 | receives from OTG2 |
| collectd writer (`collectd/write_oml/write_oml.c`) | `session`: settings, list of measurement points, `session_lock`, each point's `mp_lock` | `oml_config`, `oml_init`, `oml_write`, `oml_cleanup` | collectd's main and write threads; liboml2 |
| wattsup (`wattsup/wattsup.c`) | options, the data loop's counters, `stop_loop` | `main`'s sequence of commands, `wu_read_data` with retry and reset | a power meter on a serial line, signals |
| trace (`trace/trace.c`) | `stop_loop`, the packet in hand, the position of the header walk | `run`, `per_packet`, `trace_oml_parse_ip6_hdrs` | libtrace, signals |
| wpamon (`wpamon/wpamon.c`) | `exit_loop`, the last message, a socket in the file system | bind, attach, the receive loop | wpa_supplicant, other wpamon processes, signals |
| nmetrics (`nmetrics/nmetrics.c`) | `stop_loop`, the first counters of each interface, one statistics buffer | the sampling loop | sigar, signals |
| gpslogger (`gpslogger/gpslogger.c`) | `stop_loop`, the fix, the second logged last | the `select()` loop | gpsd, signals |
| ripwavemon (`ripwavemon/ripwavemon.c`) | `stop_loop`, one report buffer | the receive loop | a modem over UDP, signals |

What is hard about them, and what makes them correct:

* **OTG2**: two threads touch clock, generator and flags without a lock, and a packet's send time is computed
  before a sleep during which commands may move the clock. Correct means: packets are numbered without gap, none
  leaves early, the clock counts running time only, the stream makes progress.
* **OTG2/OTR2 header**: one buffer is used for every packet at each end, datagrams are lost, repeated, reordered
  and truncated, integers are assembled from signed bytes. Correct means: what is reported was sent.
* **collectd writer**: several write threads create measurement points on the fly while `oml_init()`
  still connects. Correct means: one point per name, one thread at a time in a point, nothing injected into a client
  that is down, no thread stuck.
* **wattsup**: answers come late, garbled or never; the loop retries, resets the meter and gives up; signals
  come at any time. Correct means: the count is honoured, the meter is left stopped, the program ends.
* **trace**: a packet's bytes steer a walk over its headers that nothing keeps inside the packet. Correct means: all records of a
  packet belong together, no layer is left out, each packet is done with.
* **the monitors**: one buffer or one remembered message is compared and reused from round to round, calls fail without being noticed,
  signals come between a test and a blocking call. Correct means: what is reported was received, and a signal ends the program.

`PROJECT.json` lists the hazards at their lines, with the properties that cover it.

## 2. Modules

### OtgStream: main thread, stream thread, clock and generator of one OTG2 process

A step is one access to state the two threads share. The stream thread's `pc` follows `Stream::_run()` and, inside
it, `waitAt()` and `getCurrentTime()`, which read `paused_`, `pauseinstant_`, `gettimeofday()` and `origin_` in
separate steps (`ReadPaused`, `ReadInstant`, `ReadTimeOfDay`, `ReadOrigin`, `Wake`). The main thread's `main` follows
`Application::run()`; `--pause` is `OptPause`, `PauseRead`, `PauseStore`, `PauseFlag` and `--resume` is `OptResume`,
`ResumeRead`, `ResumeShift`, in the order of `pauseClock()` and `resumeClock()`. `Update` is the `update()` that follows
every line. An exception in the main thread ends the process through `main()` (`MainThrows`), one in the stream
thread terminates it (second disjunct of `Send`). `Exit` is `exit(0)`, of `--exit` or of `quit_handler`, at any time.

A tick is a microsecond, the unit of `gettimeofday()` and `usleep()`; a sleep (`nap`) counts down with the ticks and may return late,
never early. The time a packet is due is a fraction in the code and is counted in parts of a tick, `Grain` to one. `SleepFrom` keeps the
two conversions of `waitAt()`: to whole microseconds (`Micros`), and from `unsigned long` to the 32 bits of `usleep()`'s parameter
(modulo `SleepRange`). The rounding of `double` is left out. Options may be negative, as popt accepts them. `frozen`, `ran`, `stood` and what a
packet keeps in `held`, `stood`, `at` and `read` are history: when the clock is meant to stand still (from the reading in `pauseClock()` to
the one in `resumeClock()`), how many ticks it should have counted, and how long the pauses lasted whose `resumeClock()` is over. Loads and stores of a field are atomic and in program order; a weaker
memory model is not considered.

`SeqInOrder`, `VirtualClock`, `NeverEarly` and `InstantStored` are invariants, `Progress` is liveness. `NeverEarly` compares the time a packet
is due with the stream's own time when it left: real time less the pauses that were over when `waitAt()` began, so that a pause delays
every packet after it by its length. It grants two exceptions, which the code has: a command still under way when the wait begins, or given
during it, may not delay that packet (`stream_resume`, `stream_pause`), and a wait of 2^32 microseconds or more is cut short (section 5). `Progress` promises
nothing to a stream that stays paused; one that is not paused goes on until it is, wherever in `waitAt()` earlier commands fell.

### PausableClock: what the stream clock promises

A clock that counts while it runs, stands still while it is paused and never jumps. OtgStream implements it (`ClockRefines`) under the
mapping `clockValue`, `clockRunning`: in the middle of `pauseClock()` the clock stands at the reading in `mx`, in the middle of
`resumeClock()` at what `origin_` is about to make it show. The clock's reader in the stream thread is not part of the promise; that it can
see a half-done `resumeClock()` is what the run `stream_resume` shows.

### ExpoGenerator: the other source of packets

`nextPacket()` of `Expo_Generator` in four steps, `NextSize`, `NextInterval`, `NextIdle` and `NextStamp`, between which the main thread
may set the size (`OptSize`). The samples are inputs, taken to be whole multiples of the mean and finite. Time is counted in bits at the flow's
rate. The rate and the mean times are constants although there are options for them: popt stores a float in the first four bytes of the
double, which on a little-endian host are the low half of the mantissa. The size 0 gives an infinite mean, whose conversion to
`int` is undefined (`BurstLengths`). `ExpoRateKept`: no packet is due before the one before it has passed at the flow's rate;
`ExpoBurstsWhole`: bursts are as long as drawn and never empty, so the unsigned `rem_` never wraps.

### OtgUdp: the header on its way

`Packet` is a record of size, buffer length, offset and the 17 bytes a header may take; integers are sequences of bytes,
so that signed extraction (`SignedSum`) and byte order (`HostNet`) are what the code computes. `SendPacket` is a round of
the sender's loop with `UDPOutPort::sendPacket()`, `NextPacket` a round of the receiver's with `UDPInPort::nextPacket()`,
`RecvError` its failure. A datagram in `net` may arrive never, once or often, in any order; datagrams of version 1
senders (`Legacy`) are in it from the start. `SeqNums` lists the sequence numbers followed; those between are sent
unseen. Measurement times are left out.

`ReportsFaithful` says that each report equals what `Reported` computes for a packet that was sent, in particular when
a short datagram follows a long one in the same buffer; `BuffersFit` that sizes stay inside buffers. `LowSeqNums` names the sequence
numbers for which the former can hold: those of which no byte but the one that lies first in the packet is above 127.

### WriteOml: the collectd plugin

A step of a write thread is a section under a lock, or the access that takes or releases one: `Lookup` and `FindDone` are the
two halves of `find_mpoint()` under `session_lock`, `Check` the test of `oml_initialized` under the lock again,
`LockPoint` and `Inject` the injection under `mp_lock`. An `MPoint*` is its position in `mpoint`. `InitOml` keeps
`session_lock` while OML connects, `InitDone` records the outcome. collectd itself is external: it reads the configuration
before its threads start, may dispatch values before `oml_init()` has run, and calls `oml_cleanup()` when no write is under way.
Allocation failures are left out.

`UniqueNames`, `InjectExclusive` and `InjectWhileUp` are invariants, `WritesReturn` is liveness (no lock left taken, none taken
crosswise).

### OmlClient: how OML wants to be used

The client library seen from its calls: opened and closed once, no name added twice, an injection in progress only while the client is open,
one at a time per thread and per point. WriteOml implements it (`ClientRefines`) under the mapping `addedNames`, `injections`. That points may be
added to a client that is not up is allowed here; the run `write_oml_add` is about it.

### Wattsup: the meter program

`calls` holds the calls `main()` has still to make. A fatal error empties it (`goto Close`), the reset inside `wu_read_data()`
puts `wu_stop_log()`, `wu_clear()` and `wu_start_log()` in front of it. `Request` and `Reply` are the commands that are answered,
`StoreNumber`, `StoreUser` and `StoreCount` the `store` functions, `LoopTest`, `RecordError` and `RecordRead` the data loop.
The meter (`Obey`, `Record`) and the line (`Arrives`) are external; packets are reduced to the letter of their command, a
broken one is "garbled". `ReadSome` keeps the fact that `wu_read()` parses the first packet of what `read()` returns and
drops the rest. `Signal` runs `quit_handler()` or, before the handlers are installed, kills the program. `failures`,
`restarts`, `taken` and `last` are history variables (the first two stop at `HistoryBound`). Printing and the fields' values are left out.

`MeterLeftQuiet`, `CountHonoured` and `GivesUpAfterReset` are invariants, `Finishes` is liveness.

### Trace: packets and their headers

`ReadPacket` and `Test` are the two halves of the capture loop's condition, `Link`, `Ip`, `Ip6` and `Transport` the stages of `per_packet()`.
Which layers a packet has is chosen stage by stage, as libtrace answers. The walk of `trace_oml_parse_ip6_hdrs()` (`Walk`, `WalkHeader`, `WalkEnd`)
counts positions in units of 8 bytes; the bytes it reads are chosen when read, up to `MappedUnits`, and reading past `CaptureUnits` may also
crash. `hdr_len` keeps its eight bits (`ExtLen`), so that a header of 256 bytes has length 0. The recursive call for an inner IPv6 header is the
last thing its caller does and is modelled as a jump. The records' fields are left out.

`PktidLinks`, `QuitStopsReports` and `LayersReported` are invariants, `PacketsDone` is liveness: it allows for the one walk that
never ends, on a header whose length comes out as 0.

### Wpamon, NMetrics, GpsLogger, RipwaveMon: the monitors

* `Wpamon`: several processes, one path in the file system. `Bind` fails when the path exists, `Cleanup` removes whatever is there, also when it
  was `Bind` that failed; `Kill` and `Overrun` leave the socket behind. A message is one of four kinds; `Kept` is what the comparison buffer holds
  afterwards, the first word only when there was no second.
* `NMetrics`: one counter of width `Word` stands for the twelve that are reported as differences; `is` is the one buffer all
  interfaces are read into, a failed reading leaves it as it was.
* `GpsLogger`: a fix is a second and whether it has a position; `Data` also processes the last fix again when `gps_read()` fails.
* `RipwaveMon`: the buffer is two halves, each with the number of the datagram it came from.

In all of them the call that waits has two steps, or the handler two cases, where a signal between the test of the flag and the
call makes a difference.

`MCParts` instantiates these four and ExpoGenerator side by side; one of the five is chosen at first and the others stand still, so
that one run checks them all. `MCOtgStream`, `MCOtgUdp` and `MCWattsup` define rates, header values and command lines for the runs; the other modules
take their constants from the cfg alone.

## 3. Runs

| run | expects | instance | shows |
|---|---|---|---|
| `stream` | pass | 4 options, 2 packets, 2 ticks besides sleeps; rates -8, 0 and 8, packets 1.5 ticks apart, waits counted modulo 2 | numbering, clock, pacing, pause instant, the clock implements PausableClock, progress |
| `write_oml` | pass | 2 threads, 2 data sets, 4 writes | unique points, exclusive injection, client up, the plugin implements OmlClient, writes return |
| `udp` | pass | 4 sequence numbers up to 32767, 2 flow ids, sizes 4, 16, 17, 1500, a version 1 datagram, 3 receptions | faithful reports, buffers |
| `wattsup` | pass | 18 command lines, counts 0 to 2, 2 records, 2 packets each way | retry, reset, count, final stop, termination |
| `trace` | pass | 2 packets, length fields 0, 3 and 31, 6 units captured, 7 mapped | records that belong together, no layer left out, signals, packets done with |
| `parts` | pass | wpamon: 2 processes, 3 starts, 3 messages; nmetrics: up to 2 of 2 interfaces, 3 rounds; gpslogger: 4 reads, 3 seconds; ripwavemon: 4 datagrams, 1 failure; generator: 4 packets, sizes 0 to 2, 1 option | reports, sockets, counters, fixes, bursts; a signal ends the program |
| `stream_pause` | violation of `PauseHoldsPackets` | | a paused stream goes on sending |
| `stream_resume` | violation of `ResumeExcludesPause` | | a clock reading inside `resumeClock()` counts the pause |
| `write_oml_add` | violation of `AddedWhileUp` | | an early write adds its point to a client that is not up |
| `udp_seq` | violation of `ReportsFaithful` | sequence numbers 32767 and 32768 | the receiver reports 32768 wrong |
| `wattsup_samples` | violation of `OnlySamples` | `--header --count=1` | a late answer to another command is taken for a sample |
| `trace_walk` | violation of `WalkOnHeaders` | | the walk over IPv6 headers begins inside the IPv6 header |

The lines of docs, comments and messages the violations contradict are quoted under "findings" in `PROJECT.json`.

**Bounds.** Four options are enough for pause, resume, pause, resume around one sleeping packet, or an option and a full
pause; two packets are enough to reuse the `Packet` object; ticks beyond `MaxTime` pass only while a sleep lasts. The first packet is due at 1.5
ticks and cut to 1, the second at 3, which is too far for `usleep()` from a clock that shows 0 or 1 and near enough from 2; a negative rate makes
packets due at once. The proofs of
section 4 lift these bounds, and all that follow, for the safety properties. Two write threads meet in every pair of places of `oml_write()`; the
proofs cover any number. Three receptions let a short datagram follow a long one and a repeat follow both; the sizes are
those around the ends of the header fields and one beyond both buffers. For wattsup two records and two packets per direction are
enough for a late answer to meet the next command; the loop needs three failed reads and a reset, which cost no
record. For trace the length fields are an empty extension, one that ends at the border of the captured bytes and the one that wraps; two packets
are enough for a record of one to be taken for the other's. Three messages are enough for wpamon to repeat one after another that was not
reported; two processes and three starts for one to be killed and two more to find what it left. Counters of two values (`Word`) wrap within a
round; two interfaces share the buffer. `MaxLine` full means that the serial line takes no more, which the model treats as a short write.

**Fairness.** OtgStream: weak fairness of the stream thread (the scheduler runs it; `usleep()` and `sendto()` return) and of
time, and of `exit(0)` once `--exit` was taken; none of the user, who may type nothing. WriteOml: weak fairness of each write
thread inside `oml_write()` and of the end of `oml_init()`; enough because a lock is free again whenever its holder moves, and
in the bounded instance the competitors for it are finitely many. Wattsup: weak fairness of `main()`, whose every wait is a
`sleep()` or a `select()` with a timeout of two seconds; none of the meter. Trace: weak fairness of the steps with a packet in hand; none of
`trace_read_packet()`, which waits for the network. The monitors: weak fairness of the program's own steps, where the wait is `sleep()` or a
`select()` with a timeout (nmetrics, gpslogger), and for wpamon of the process up to `recv()`, which a signal ends; ripwavemon has none, as
its `recv()` is restarted and nobody promises another report. The generator has safety properties only.

**Deadlock** is not checked: every process here may end, and the bounds stop the environment.

## 4. Proofs

Every invariant and every action property a passing run checks is a theorem as well, for all values of the constants that the
assumptions below allow. What is not proved is liveness.

| module | theorem | property | inductive invariant |
|---|---|---|---|
| `OtgStreamProofs` | `TypeCorrect` | `TypeOK` | `TypeOK`; `SleepFrom`'s test and conversion (`Conversions`) are what keep `nap` in range |
| | `ClockIsVirtual` | `VirtualClock` | `ClockInv` |
| | `PacketsOnTime`, `InstantsStored` | `NeverEarly`, `InstantStored` | `ClockInv /\ PaceInv` |
| | `PacketsNumbered` | `SeqInOrder` | `NumberInv` |
| | `ClockImplements` | `ClockRefines` | `TypeOK /\ ClockInv` |
| `WriteOmlProofs` | `PointsCorrect`, `TypeCorrect` | `TypeOK`, `UniqueNames` | `SessionInv /\ PointInv` |
| | `InjectionsSafe`, `InjectionsWhileUp` | `InjectExclusive`, `InjectWhileUp` | the above with `MpLockInv /\ UpInv` |
| | `ClientImplements` | `ClientRefines` | `Inv`, all of the above |
| `OtgUdpProofs` | `BuffersLargeEnough` | `BuffersFit` | `Inv`: `PacketsInv /\ SentInv /\ NetInv` |
| | `ReportsRight` | `ReportsFaithful` | `Inv` and the property itself |
| `WattsupProofs` | `TypeCorrect`, `CountTaken` | `TypeOK`, `CountHonoured` | `Inv`: `TypeOK /\ CallsInv /\ LoopInv /\ LineInv /\ PcInv` |
| | `ResetBeforeGivingUp` | `GivesUpAfterReset` | the same |
| | `MeterStopped` | `MeterLeftQuiet` | the same |
| `TraceProofs` | `TypeCorrect`, `RecordsLinked` | `TypeOK`, `PktidLinks` | `Inv`: `TypeOK /\ NumberInv /\ QuitInv /\ PacketInv /\ LinkInv /\ LayersInv` |
| | `NothingAfterQuit`, `NoLayerLost` | `QuitStopsReports`, `LayersReported` | the same |
| `MonitorProofs` | `ReportsWhole`, `OneMoreReportOnly` | `RipwaveMonWholeReports`, `RipwaveMonOneMoreReport` | `BufferInv`, `LastReportInv` |
| | `OneFixPerSecond` | `GpsLoggerOneFixPerSecond` | `FixInv` |
| | `ChangesReported`, `NoSocketLeft` | `WpamonReportsChanges`, `WpamonLeavesNoSocket` | `KeptInv`, `PathInv` |
| | `DeltasReported` | `NMetricsDeltaReported` | `CounterInv` |
| `ExpoProofs` | `RateNotExceeded`, `BurstsAsDrawn` | `ExpoRateKept`, `ExpoBurstsWhole` | `Inv`: `GeneratorTypes /\ RateInv /\ BurstInv` |

Along which argument:

* `VirtualClock` speaks of the moments between two commands; `ClockInv` adds what holds in the middle of each: which of `mx`,
  `pauseinstant_` and `origin_` carries the time counted so far at each step of `pauseClock()` and `resumeClock()`.
* `ClockImplements`: `ClockMapped` shows that under `ClockInv` the mapped clock is `ran` and `~frozen`, which only `Tick`, `PauseRead` and
  `ResumeRead` change; those are `Count` (or a stutter), `Pause` and `Resume`, every other step stutters.
* `NeverEarly`: `PaceInv` says that the origin stands at the pauses that are over (from `ClockInv`: the pause added to it is the time the
  clock did not count), that it only moves forward, so no reading taken during a wait is ahead of real time less the pauses over when it
  began; and that a sleeping thread has at least the rest of its time left (`DueIn`). `Conversions` is the arithmetic of cutting and wrapping.
* `SeqInOrder` needs to know where `seqno_` and `Len(sent)` differ by one: exactly while a numbered packet is in hand.
* `UniqueNames` needs that a thread between the look-up and the creation holds `session_lock` and that its look-up is still true.
* `InjectWhileUp`: `oml_initialized` is never reset, and `oml_cleanup()` does not run while a write is under way, so the test made under
  the lock stays true after the lock is released. That collectd joins its write threads first is an assumption on collectd,
  in the guard of `Cleanup`.
* `ClientImplements`: `FindDone` is `Add`, because the look-up that found no point is still true; `LockPoint` is `Begin`, because the point's lock was
  free and its holder is the only one to inject; `Inject` is `End`; `InitDone`'s and `Cleanup`'s calls are `Open` and `Close`.
* `ReportsFaithful`: `Carries(buf, len, s)` says that the first `len` bytes of a buffer hold what fits of the header of `s`. `StampType` shows that
  stamping achieves it for any size (the buffer is never replaced between two stamps: it has 512 bytes at least), `DatagramType` and
  `ReceivedCarries` that cutting keeps it, at `sendto()` and at `recvfrom()`, and `HeaderExtracted` that the extractors invert it up to where
  the packet ends, and give 0 from there on. What the buffer held before plays no part in any of these: that is why no old byte shows.
* wattsup: `CallsInv` tells where `main()` is by the shape of `calls`, in five stages (`Before`, `Starting`, `Looping`, `Leaving`, `Over`) that follow
  each other; a reset puts its three calls in front of the same loop and so stays inside `Looping`. `LoopInv` ties `retry` to the failures in a row and
  `i` to what was taken. For `MeterLeftQuiet`, `LineInv` follows the command that stops the log over the line: it is under way with nothing behind it
  that starts the log, or has been obeyed.
* trace: `NumberInv` is where `guids` and `nread` differ: only between the reading of a packet and the test of `stop_loop`. `LayersInv` says
  which layers are reported at each stage, the walk over IPv6 headers excepted, which may add the records of inner headers.
* nmetrics: `CounterInv` says that counter minus start value and what was counted are congruent modulo `Word`; `RemainderShift` and `DifferenceGrows`
  are the arithmetic.
* wpamon: `KeptInv` ties the comparison buffer to the last message received, except for the messages `strtok_r()` cuts short, which are never
  reported; `PathInv` ties the path to the processes that run.
* gpslogger: `FixInv` ties `old_int_time` to the log; the fix in hand, once looked at, is not logged again.
* the generator: `RateInv` carries the interval from the packet it belongs to over the next call, `BurstInv` says that `rem_` is what the last burst lacks.
* `MCParts` composes independent parts, so that a step of it is one of the part's own or leaves it alone (`WpamonSteps` and its like).

The assumptions, each named where its constants are declared and evaluated by the runs:

* bounds are naturals: `BoundsAssumption` (OtgStream, Wattsup), `WritesAssumption`, `PacketsAssumption`, `UnitsAssumption` (and no more
  bytes are captured than are mapped);
* option values and command lines have the types the parsers give them: `OptionAssumption` (numbers of either sign, floats being finite),
  `CommandLinesAssumption`; `PayloadSizesAssumption` is about the sizes `sendto()` takes, as it refuses negative ones;
* `SleepAssumption`: a microsecond has parts, and `usleep()`'s parameter has values;
* `ThreadAssumption`: the main thread, "nobody" and the write threads are distinct;
* `LensAssumption`: a length field is a byte. `HeaderAssumption`: flow ids have 8 bytes, sequence numbers 4;
* `LegacyAssumption`: a datagram of an older OTG carries the two sync bytes and version 1. Nothing is assumed about the rest of it;
* `CountersAssumption`, `FlowAssumption`: counters have a width, and times, sizes and samples are not negative. The first value of
  `pktInterval_` may be anything;
* `BurstsAssumption`: the burst drawn for the longest on-time is in the range of the `int` it is converted to; beyond it the conversion is
  undefined.

`ReportsRight` has two hypotheses of its own: the hosts have the same byte order, and the sequence numbers are those of `LowSeqNums`. The code needs both:
section 5 has the first, the run `udp_seq` refutes the property without the second. The run `udp` is an instance, as `MCSeqNumsLow` checks.

Only model-checked: `Progress`, `WritesReturn`, `Finishes`, `PacketsDone`, `WpamonInterruptEnds`, `NMetricsQuitEnds` and `GpsLoggerQuitEnds`,
which are liveness under fairness and out of the prover's reach.

## 5. Seen while modelling, without a run

* A big-endian sender and a little-endian receiver (or the reverse) disagree on every header field, because `stampInt32Val()` and its kin
  convert with `htonl()` and then write byte by byte; two big-endian hosts disagree from 128 on (`HostNet`, `SignedSum`).
* `stampInt16Val()` writes behind the place it should; the flow id meant for older receivers is not where they look (`StampInt16Val`).
* wattsup: a device name that is no directory under `/sys/class/tty` is reported but not treated as an error, and the program goes
  on with file descriptor 0 (`OpenDevice`). `--interval` and `--mode` without a value crash (`StoreNumber`). `--user` sends a
  request for the parameters (`CommandOf`). `make_shortopt()` appends `;` where getopt expects `:`, so short options get no value, and
  numbers are formatted with `%ud`, which appends a `d`.
* `waitAt()` hands an `unsigned long` to `usleep()`, whose parameter has 32 bits: a packet due 2^32 microseconds (about 72 minutes) or more
  after the clock reading leaves early by a multiple of that (`SleepFrom`; `NeverEarly` names the case).
* `--cbr:size` and `--cbr:rate` may be negative. A negative interval makes every packet due at once (`NextStamp`); a negative size is refused by
  `sendto()`, which ends the process (`Send`).
* `--cbr:interval` has no effect: `init()` and the `update()` after every line overwrite the interval with one computed from size and rate
  (`SourceInit`, `Update`).
* write_oml: the settings are copied without their terminator, so `omlc_init()` may be given more than was configured (`InitOml`); `oml_cleanup()` of a
  session with a point frees string literals and walks past the terminator (`Cleanup`).
* `--exp:rate`, `--exp:ontime` and `--exp:offtime` store a float into a double and so change nothing one would notice. The two random samples of a
  burst are one and the same within a second, since `getSample()` seeds with the time.
* trace: a header of 256 bytes stops the walk for ever (`PacketsDone` names it); `ip_off` is masked before it is put into host order, and a 32-bit
  TCP sequence number goes through `ntohs()`; a truncated transport header is dereferenced as NULL (`Transport`).
* wpamon: `exit_loop`, set by the handler, is overwritten when `recv()` returns with `EINTR`; a signal between the test and `recv()` waits for the next
  message (`missed`); a second process that fails to start removes the first one's socket and leaves it deaf (`Cleanup`).
* gpslogger: `source.device` is never set, so the filter in `process()` never applies, and the structure that `main()` clears is not the one used.
* nmetrics: `tx_carrier` is reported as it is though its start value is kept; the result of `poptGetNextOpt()` is kept in a `char`.

## 6. Not modelled, and the plan

Left out for good: generated code and its descriptions (`*.rb.in`), the build system, the ontologies, option help texts, the
dissection of packets below trace (libtrace's work), the inside of liboml2, collectd, gpsd, sigar and wpa_supplicant.

Order of work:

1. *done* OtgStream, its runs and proofs: the only program with two threads of its own.
2. *done* WriteOml, its runs and proofs.
3. *done* OtgUdp.
4. *done* Wattsup.
5. *done* Trace, and the receive loops of the monitors.
6. *done* The exponential generator.
7. *done* PausableClock and OmlClient, with the refinements proved.
8. *done* Proofs about OtgUdp, Wattsup, Trace, the monitors and the exponential generator.
9. A composition of OtgStream's sender with OTR2's stream, whose waits are in `recvfrom()`.

Not planned: factories and option tables, which hold no state that changes, and `Address`, which no port uses.
