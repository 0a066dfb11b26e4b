----------------------------- MODULE GpsLogger -----------------------------
(***************************************************************************)
(* gpslogger: waits for gpsd a quarter of a second at a time and logs one  *)
(* fix per second.  A fix is its second and whether it is at least 2D.     *)
(***************************************************************************)
EXTENDS Naturals, Sequences

CONSTANTS
  Seconds,    \* values of the integral part of a fix's time
  MaxReads    \* bound: answers of gpsd

VARIABLES
  pc, stop_loop,
  fix,          \* gpsdata->fix
  old_int_time, \* the second logged last
  log,          \* the fixes injected
  gpsd,         \* gpsd's end of the connection
  received,     \* ghost: fixes gpsd has sent
  reads         \* counter for the bound

vars == <<pc, stop_loop, fix, old_int_time, log, gpsd, received, reads>>

Fixes == [time : Seconds, fixed : BOOLEAN]
NoTime == 0     \* old_int_time at first

\* malloc() leaves in gpsdata->fix whatever was there: main() clears another structure.
Init ==
  /\ pc = "main" /\ stop_loop = FALSE
  /\ fix \in Fixes /\ old_int_time = NoTime /\ log = <<>>
  /\ gpsd = "up" /\ received = {} /\ reads = 0

\* main(): OML's initialisation or an option may end the process; then the handlers.
Main ==
  /\ pc = "main" /\ pc' \in {"open", "done"}
  /\ UNCHANGED <<stop_loop, fix, old_int_time, log, gpsd, received, reads>>

\* socket_mainloop(): without memory or gpsd the process ends.
Open ==
  /\ pc = "open" /\ pc' \in {"loop", "done"}
  /\ UNCHANGED <<stop_loop, fix, old_int_time, log, gpsd, received, reads>>

\* while (!stop_loop); at the end omlc_close() and exit().
Loop ==
  /\ pc = "loop" /\ pc' = IF stop_loop THEN "done" ELSE "enter"
  /\ UNCHANGED <<stop_loop, fix, old_int_time, log, gpsd, received, reads>>

\* The call of select(): from here on a signal interrupts it.
Enter ==
  /\ pc = "enter" /\ pc' = "select"
  /\ UNCHANGED <<stop_loop, fix, old_int_time, log, gpsd, received, reads>>

\* Mutant: the time is taken note of whether the fix is logged or not.
LogFixAlways ==
  /\ old_int_time' = fix'.time
  /\ log' = IF fix'.time # old_int_time /\ fix'.fixed THEN Append(log, fix') ELSE log

\* process() and conditionally_log_fix(); no device is ever set to filter by.
LogFix ==
  \/ /\ fix'.time # old_int_time /\ fix'.fixed
     /\ old_int_time' = fix'.time /\ log' = Append(log, fix')
  \/ /\ ~(fix'.time # old_int_time /\ fix'.fixed)
     /\ UNCHANGED <<old_int_time, log>>

\* select() finds data: gps_read() takes a fix; or it takes another message, or fails, and the
\* fix it found before is processed again.
Data ==
  /\ pc = "select" /\ reads < MaxReads /\ reads' = reads + 1
  /\ \/ gpsd = "up" /\ fix' \in Fixes /\ received' = received \cup {fix'}
     \/ UNCHANGED <<fix, received>>
  /\ LogFix
  /\ pc' = "loop" /\ UNCHANGED <<stop_loop, gpsd>>

\* Mutant: after a timeout select() is called again.
TimeoutRetried ==
  /\ pc = "select" /\ pc' = "select"
  /\ UNCHANGED <<stop_loop, fix, old_int_time, log, gpsd, received, reads>>

\* select() times out.
Timeout ==
  /\ pc = "select" /\ pc' = "loop"
  /\ UNCHANGED <<stop_loop, fix, old_int_time, log, gpsd, received, reads>>

\* quit_handler().  select() is not restarted after a signal: it fails and the loop is left.
\* Between the test of stop_loop and select() the signal is noticed after the timeout only.
Quit ==
  /\ pc \notin {"main", "done"} /\ stop_loop' = TRUE
  /\ pc' = IF pc = "select" THEN "done" ELSE pc
  /\ UNCHANGED <<fix, old_int_time, log, gpsd, received, reads>>

\* gpsd goes away; from here on there is always data to read, and none to be had.
GpsdGone ==
  /\ gpsd = "up" /\ gpsd' = "gone"
  /\ UNCHANGED <<pc, stop_loop, fix, old_int_time, log, received, reads>>

Run == Main \/ Open \/ Loop \/ Enter \/ Data \/ Timeout

Next == Run \/ Quit \/ GpsdGone

-----------------------------------------------------------------------------
(* Properties *)

\* One fix per second and none left out: no two fixes logged one after the other are of one
\* second, and after a fix that is 2D at least, its second is the one logged last, though fixes
\* without a position and failed reads came in between.  Only the first can be one that gpsd
\* never sent.
OneFixPerSecond ==
  /\ \A n \in 2..Len(log) : log[n] \in received
  /\ \A n \in 2..Len(log) : log[n].time # log[n - 1].time
  /\ pc = "loop" /\ reads > 0 /\ fix.fixed /\ fix.time # NoTime =>
       log # <<>> /\ log[Len(log)].time = fix.time

\* A signal ends the program, whether or not gpsd has anything to say.
QuitEnds == stop_loop ~> pc = "done"
=============================================================================
