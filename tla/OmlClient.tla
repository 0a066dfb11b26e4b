----------------------------- MODULE OmlClient -----------------------------
(***************************************************************************)
(* How the OML client library wants to be used, seen from its calls: it is *)
(* opened and closed once, no name is given to omlc_add_mp() twice, and    *)
(* omlc_inject() is only in progress while the client is open, once per    *)
(* thread and once per measurement point.                                  *)
(***************************************************************************)
EXTENDS Naturals, Sequences

CONSTANTS Threads, Names

VARIABLES
  client,     \* between omlc_init() and omlc_close()
  added,      \* the names omlc_add_mp() was given, in order
  injecting   \* <<thread, name>> for each omlc_inject() in progress

Init == client = "none" /\ added = <<>> /\ injecting = {}

\* omlc_init() and omlc_start().
Open ==
  /\ client = "none" /\ client' \in {"started", "failed"}
  /\ UNCHANGED <<added, injecting>>

\* omlc_add_mp().
Add(n) ==
  /\ \A i \in 1..Len(added) : added[i] # n
  /\ added' = Append(added, n)
  /\ UNCHANGED <<client, injecting>>

\* omlc_inject() is entered.
Begin(t, n) ==
  /\ client = "started"
  /\ \E i \in 1..Len(added) : added[i] = n
  /\ \A p \in injecting : p[1] # t /\ p[2] # n
  /\ injecting' = injecting \cup {<<t, n>>}
  /\ UNCHANGED <<client, added>>

\* omlc_inject() returns.
End(t, n) ==
  /\ <<t, n>> \in injecting
  /\ injecting' = injecting \ {<<t, n>>}
  /\ UNCHANGED <<client, added>>

\* omlc_close().
Close ==
  /\ client \in {"started", "failed"} /\ client' = "closed"
  /\ injecting = {}
  /\ UNCHANGED <<added, injecting>>

Next ==
  \/ Open \/ Close
  \/ \E n \in Names : Add(n) \/ \E t \in Threads : Begin(t, n) \/ End(t, n)

Spec == Init /\ [][Next]_<<client, added, injecting>>
=============================================================================
