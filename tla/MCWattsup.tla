------------------------------ MODULE MCWattsup ------------------------------
(* Command lines for the runs of Wattsup: each sets the options one question is about. *)
EXTENDS Wattsup

Plain == [args |-> "ok", device |-> "tty", interval |-> "no", mode |-> "no", user |-> "no", cal |-> FALSE,
          header |-> FALSE, set_only |-> FALSE, info_all |-> FALSE, no_data |-> FALSE, count |-> 0]

\* Refused command lines and devices.
Refused == {[Plain EXCEPT !.args = "help"], [Plain EXCEPT !.args = "bad"],
            [Plain EXCEPT !.device = "missing"], [Plain EXCEPT !.count = BadCount]}

\* Everything is set, and shown or not; and a bad value.
SetUp == {[Plain EXCEPT !.interval = "set", !.mode = "set", !.user = v, !.header = a, !.count = 1,
                        !.info_all = a, !.no_data = n, !.set_only = n]
          : v \in {"set", "bare"}, a \in BOOLEAN, n \in BOOLEAN}
         \cup {[Plain EXCEPT !.mode = "bad"]}

Counted == {[Plain EXCEPT !.count = n] : n \in 0..MaxCount}

\* The command lines of the single questions, and of the run that follows the whole program.
NotDir == {[Plain EXCEPT !.device = "notdir"]}
BareInterval == {[Plain EXCEPT !.interval = "bare"]}
HeaderFirst == {[Plain EXCEPT !.header = TRUE, !.count = 1]}
AllCommandLines == Refused \cup SetUp \cup Counted \cup NotDir \cup BareInterval
=============================================================================
