--------------------------- MODULE PausableClock ---------------------------
(***************************************************************************)
(* What UnixTime promises a stream: a clock that counts the ticks that     *)
(* pass while it runs, stands still while it is paused, and never jumps,   *)
(* neither when it is paused nor when it is resumed.                       *)
(***************************************************************************)
EXTENDS Naturals

VARIABLES
  value,    \* what the clock shows
  running   \* it is not paused

Init == value = 0 /\ running = TRUE

Count == running /\ value' = value + 1 /\ UNCHANGED running

Pause == running /\ running' = FALSE /\ UNCHANGED value

Resume == ~running /\ running' = TRUE /\ UNCHANGED value

Next == Count \/ Pause \/ Resume

Spec == Init /\ [][Next]_<<value, running>>
=============================================================================
