---------------------------- MODULE MCOtgStream ----------------------------
(* Option values for the runs of OtgStream: a rate that update() refuses, and one below zero. *)
EXTENDS OtgStream

SignedRates == {0, 8, -8}
=============================================================================
