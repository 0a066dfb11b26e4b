----------------------------- MODULE RipwaveMon -----------------------------
(***************************************************************************)
(* ripwavemon: receives the modem's reports in one buffer and injects the  *)
(* ones of the right size.  A report is two halves of the buffer, each     *)
(* with the number of the datagram that it is from.                        *)
(***************************************************************************)
EXTENDS Naturals

CONSTANTS
  MaxDatagrams,  \* bound: datagrams received
  MaxErrors      \* bound: failures of recv()

VARIABLES
  pc, stop_loop,
  report,       \* the buffer
  len,          \* what recv() returned
  datagrams, errors,   \* datagrams received; failures of recv()
  injected,     \* the buffers injected
  quitAt        \* ghost: datagrams received when the signal came

vars == <<pc, stop_loop, report, len, datagrams, errors, injected, quitAt>>

\* The buffer is on the stack: 0 stands for what was there.
Init ==
  /\ pc = "main" /\ stop_loop = FALSE
  /\ report = [head |-> 0, tail |-> 0] /\ len = "error"
  /\ datagrams = 0 /\ errors = 0 /\ injected = {} /\ quitAt = 0

\* prepare_socket(), and exit(1) when it fails.
PrepareSocket ==
  /\ pc = "main" /\ pc' \in {"oml", "failed"}
  /\ UNCHANGED <<stop_loop, report, len, datagrams, errors, injected, quitAt>>

\* prepare_oml(), and exit(2) when it fails; then the handlers.  Datagrams wait in the socket.
PrepareOml ==
  /\ pc = "oml" /\ pc' \in {"loop", "failed"}
  /\ UNCHANGED <<stop_loop, report, len, datagrams, errors, injected, quitAt>>

\* while (!stop_loop); at the end omlc_close().
Loop ==
  /\ pc = "loop" /\ pc' = IF stop_loop THEN "done" ELSE "recv"
  /\ UNCHANGED <<stop_loop, report, len, datagrams, errors, injected, quitAt>>

\* recv(): a datagram of the right size or a longer one fills the buffer, a shorter one its start.
Datagram ==
  /\ pc = "recv" /\ datagrams < MaxDatagrams /\ datagrams' = datagrams + 1
  /\ \/ len' = "full" /\ report' = [head |-> datagrams', tail |-> datagrams']
     \/ len' = "short" /\ report' = [report EXCEPT !.head = datagrams']
  /\ pc' = "check"
  /\ UNCHANGED <<stop_loop, errors, injected, quitAt>>

\* recv() fails.
Failure ==
  /\ pc = "recv" /\ errors < MaxErrors /\ errors' = errors + 1
  /\ len' = "error" /\ pc' = "check"
  /\ UNCHANGED <<stop_loop, report, datagrams, injected, quitAt>>

\* Mutant: only a failure of recv() is told from a report.
CheckError ==
  /\ pc = "check" /\ pc' = "loop"
  /\ injected' = IF len # "error" THEN injected \cup {report} ELSE injected
  /\ UNCHANGED <<stop_loop, report, len, datagrams, errors, quitAt>>

\* Mutant: after a warning the loop goes back to recv() and not to its test.
CheckNoTest ==
  /\ pc = "check" /\ pc' = IF len = "full" THEN "loop" ELSE "recv"
  /\ injected' = IF len = "full" THEN injected \cup {report} ELSE injected
  /\ UNCHANGED <<stop_loop, report, len, datagrams, errors, quitAt>>

\* A report of an unexpected size, and a failure, only gives a warning; the others are injected.
Check ==
  /\ pc = "check" /\ pc' = "loop"
  /\ injected' = IF len = "full" THEN injected \cup {report} ELSE injected
  /\ UNCHANGED <<stop_loop, report, len, datagrams, errors, quitAt>>

\* quit_handler(), after which recv() is restarted.
Quit ==
  /\ pc \notin {"main", "oml", "failed", "done"} /\ stop_loop' = TRUE
  /\ quitAt' = IF stop_loop THEN quitAt ELSE datagrams
  /\ UNCHANGED <<pc, report, len, datagrams, errors, injected>>

Next == PrepareSocket \/ PrepareOml \/ Loop \/ Datagram \/ Failure \/ Check \/ Quit

-----------------------------------------------------------------------------
(* Properties *)

\* What is injected is one datagram from end to end: the part of an earlier report that a shorter
\* datagram leaves in the buffer never gets out.
WholeReports == \A r \in injected : r.head = r.tail /\ r.head # 0

\* Once a signal has come, recv() takes at most one more report.
OneMoreReport == stop_loop => datagrams <= quitAt + 1
=============================================================================
