------------------------------- MODULE Wpamon -------------------------------
(***************************************************************************)
(* wpamon: processes that monitor one interface, each through a socket it  *)
(* binds to the same path in the file system, and the wpa_supplicant that  *)
(* sends its events to that path.  Processes are started, interrupted,     *)
(* killed and started again.                                               *)
(***************************************************************************)
EXTENDS Naturals, Sequences

CONSTANTS
  Procs,      \* wpamon processes for one interface
  MaxStarts,  \* bound: starts of all of them
  MaxEvents   \* bound: messages wpa_supplicant sends

VARIABLES
  path,       \* local_path: absent, left behind by a dead process, or a process' socket
  pc, exit_loop, temp,  \* the process: control, exit_loop is not 0, last message kept to compare with
  inbox,      \* datagrams in the process' socket
  str, before, reported,  \* ghosts: last message received, the one before, was the last one reported
  missed,     \* ghost: a signal fell between the test of exit_loop and recv()
  starts, events,  \* counters for the bounds
  last        \* ghost: how the last process to end did so

procVars == <<pc, exit_loop, temp, inbox, str, before, reported, missed>>
vars == <<path, procVars, starts, events, last>>

\* An event to report; scan results, or another message that is not; a message without a second
\* word, such as the reply to ATTACH; and an event to report that fills the buffer.
Messages == {"event", "scan", "OK", "full"}
ToReport == {"event", "full"}
Nothing == ""

\* No process, no message, nothing at the path.
Init ==
  /\ path = "absent"
  /\ pc = [p \in Procs |-> "off"] /\ exit_loop = [p \in Procs |-> FALSE] /\ temp = [p \in Procs |-> Nothing]
  /\ inbox = [p \in Procs |-> <<>>]
  /\ str = [p \in Procs |-> Nothing] /\ before = [p \in Procs |-> Nothing]
  /\ reported = [p \in Procs |-> FALSE] /\ missed = [p \in Procs |-> FALSE]
  /\ starts = 0 /\ events = 0 /\ last = "none"

Goto(p, l) == pc' = [pc EXCEPT ![p] = l]

\* The process is gone and with it all it had in memory; how is how it ended.
Gone(p, how) ==
  /\ Goto(p, "off") /\ last' = how
  /\ exit_loop' = [exit_loop EXCEPT ![p] = FALSE] /\ temp' = [temp EXCEPT ![p] = Nothing]
  /\ inbox' = [inbox EXCEPT ![p] = <<>>]
  /\ str' = [str EXCEPT ![p] = Nothing] /\ before' = [before EXCEPT ![p] = Nothing]
  /\ reported' = [reported EXCEPT ![p] = FALSE] /\ missed' = [missed EXCEPT ![p] = FALSE]

\* Killed or crashed: its socket is left behind.
Killed(p) ==
  /\ Gone(p, "killed")
  /\ path' = IF path = p THEN "left behind" ELSE path

\* A failure at start-up: exit_loop is set to 2 or 3; goto cleanup_socket.
Fails(p) == Goto(p, "cleanup") /\ exit_loop' = [exit_loop EXCEPT ![p] = TRUE]

\* main(): the options, OML's initialisation and socket().
Start(p) ==
  /\ pc[p] = "off" /\ starts < MaxStarts /\ starts' = starts + 1
  /\ \/ Goto(p, "bind") /\ UNCHANGED exit_loop
     \/ Fails(p)
  /\ UNCHANGED <<path, temp, inbox, str, before, reported, missed, events, last>>

\* bind(): fails when there is anything at the path, and may fail otherwise.
Bind(p) ==
  /\ pc[p] = "bind"
  /\ \/ path = "absent" /\ path' = p /\ Goto(p, "connect") /\ UNCHANGED exit_loop
     \/ Fails(p) /\ UNCHANGED path
  /\ UNCHANGED <<temp, inbox, str, before, reported, missed, starts, events, last>>

\* connect() and send(ATTACH), whose answer nobody looks at; then OML's start and sigaction().
Connect(p) ==
  /\ pc[p] = "connect"
  /\ \/ Goto(p, "test") /\ UNCHANGED exit_loop
     \/ Fails(p)
  /\ UNCHANGED <<path, temp, inbox, str, before, reported, missed, starts, events, last>>

\* wpa_supplicant sends a message to the path it was given by ATTACH.
Event ==
  /\ events < MaxEvents /\ events' = events + 1
  /\ path \in Procs /\ inbox[path] = <<>>
  /\ \E m \in Messages : inbox' = [inbox EXCEPT ![path] = <<m>>]
  /\ UNCHANGED <<path, pc, exit_loop, temp, str, before, reported, missed, starts, last>>

\* while (!exit_loop).
Test(p) ==
  /\ pc[p] = "test"
  /\ Goto(p, IF ~exit_loop[p] THEN "enter" ELSE "cleanup")
  /\ UNCHANGED <<path, exit_loop, temp, inbox, str, before, reported, missed, starts, events, last>>

\* The call of recv(): from here on a signal interrupts it.
Enter(p) ==
  /\ pc[p] = "enter" /\ Goto(p, "recv")
  /\ UNCHANGED <<path, exit_loop, temp, inbox, str, before, reported, missed, starts, events, last>>

\* Mutant: a message is kept for comparison only when it was reported.
KeptIfReported(p, m) == IF m \in ToReport THEN m ELSE temp[p]

\* What temp holds after message m that differs from it: without a second word the loop goes on
\* with the first word that strtok_r() left there, and otherwise the message is copied back.
Kept(p, m) == IF m = "OK" THEN "OK, first word" ELSE m

\* recv() returns a message: it is reported if it is not the one in temp and its event is one to
\* report.
Receive(p) ==
  /\ pc[p] = "recv" /\ inbox[p] # <<>>
  /\ LET m == Head(inbox[p])
         new == temp[p] # m
     IN  /\ before' = [before EXCEPT ![p] = str[p]] /\ str' = [str EXCEPT ![p] = m]
         /\ reported' = [reported EXCEPT ![p] = new /\ m \in ToReport]
         /\ temp' = IF new THEN [temp EXCEPT ![p] = Kept(p, m)] ELSE temp
  /\ inbox' = [inbox EXCEPT ![p] = <<>>] /\ Goto(p, "test")
  /\ UNCHANGED <<path, exit_loop, missed, starts, events, last>>

\* A message that fills the buffer: its terminator is written past the end, which may crash.
Overrun(p) ==
  /\ pc[p] = "recv" /\ inbox[p] = <<"full">>
  /\ Killed(p)
  /\ UNCHANGED <<starts, events>>

\* recv() fails, or returns 0 when the other end has gone.
ReceiveFails(p) ==
  /\ pc[p] = "recv"
  /\ exit_loop' = [exit_loop EXCEPT ![p] = TRUE]
  /\ Goto(p, "test")
  /\ UNCHANGED <<path, temp, inbox, str, before, reported, missed, starts, events, last>>

\* Mutant: the handler is installed to restart recv().
InterruptRestarts(p) ==
  /\ pc[p] \in {"test", "enter", "recv"}
  /\ exit_loop' = [exit_loop EXCEPT ![p] = TRUE]
  /\ missed' = [missed EXCEPT ![p] = @ \/ pc[p] = "enter"]
  /\ UNCHANGED <<path, pc, temp, inbox, str, before, reported, starts, events, last>>

\* sigfun() on SIGINT.  In recv() the signal makes it fail, which becomes the exit status;
\* between the test of exit_loop and recv() it is noticed with the next message only.
Interrupt(p) ==
  /\ \/ /\ pc[p] \in {"test", "enter"}
        /\ exit_loop' = [exit_loop EXCEPT ![p] = TRUE]
        /\ missed' = [missed EXCEPT ![p] = @ \/ pc[p] = "enter"]
        /\ UNCHANGED pc
     \/ /\ pc[p] = "recv" /\ Goto(p, "test")
        /\ exit_loop' = [exit_loop EXCEPT ![p] = TRUE]
        /\ UNCHANGED missed
  /\ UNCHANGED <<path, temp, inbox, str, before, reported, starts, events, last>>

\* Any other signal, or SIGINT before sigaction().
Kill(p) == pc[p] # "off" /\ Killed(p) /\ UNCHANGED <<starts, events>>

\* Mutant: a process that could not bind leaves the path alone.
CleanupOwn(p) ==
  /\ pc[p] = "cleanup" /\ Gone(p, "exited")
  /\ path' = IF path = p THEN "absent" ELSE path
  /\ UNCHANGED <<starts, events>>

\* omlc_close() if the loop was entered; cleanup_socket: remove() whatever is at the path; exit().
Cleanup(p) ==
  /\ pc[p] = "cleanup" /\ Gone(p, "exited")
  /\ path' = "absent"
  /\ UNCHANGED <<starts, events>>

-----------------------------------------------------------------------------
Process(p) == Bind(p) \/ Connect(p) \/ Test(p) \/ Enter(p) \/ Receive(p) \/ Cleanup(p)

Next ==
  \/ Event
  \/ \E p \in Procs : Start(p) \/ Process(p) \/ Overrun(p) \/ ReceiveFails(p) \/ Interrupt(p) \/ Kill(p)

-----------------------------------------------------------------------------
(* Properties *)

\* "Avoid duplicate messages": a message is reported if and only if it is an event to report and
\* not the same as the one received just before it, whatever came in between the earlier ones.
ReportsChanges ==
  \A p \in Procs : str[p] # Nothing => (reported[p] <=> str[p] \in ToReport /\ str[p] # before[p])

\* A process that could not start because of a socket left behind has removed it: unless the
\* last to go was killed, nothing is in the way of the next start.
LeavesNoSocket == (\A p \in Procs : pc[p] = "off") /\ last = "exited" => path = "absent"

\* An interrupted process ends, unless the signal fell between the test of exit_loop and recv().
InterruptEnds == \A p \in Procs : exit_loop[p] ~> (pc[p] = "off" \/ missed[p])
=============================================================================
