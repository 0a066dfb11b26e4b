----------------------------- MODULE MCOtgUdp -----------------------------
(* Instances of OtgUdp: values of the header at the borders of its bytes. *)
EXTENDS OtgUdp

MCFlowIds == {<<0, 0, 0, 0, 0, 0, 1, 2>>, <<255, 128, 127, 1, 0, 129, 200, 254>>}

\* 1, 255, 256, 32767: every byte but the last stays below 128.
MCSeqNums == <<<<0, 0, 0, 1>>, <<0, 0, 0, 255>>, <<0, 0, 1, 0>>, <<0, 0, 127, 255>>>>

ASSUME MCSeqNumsLow == LowSeqNums(FALSE, MCSeqNums)

\* 32767 and 32768.
MCSeqNumsHigh == <<<<0, 0, 127, 255>>, <<0, 0, 128, 0>>>>

\* A version 1 header: flow id 5, sequence number 7.
MCLegacy == {[len |-> 100, payload |-> [i \in 0..16 |-> <<170, 170, 1, 5, 0, 7, 0, 0, 0, 0, 0, 0, 0, 0, 0, 0, 0>>[i + 1]]]}

MCNone == {}
=============================================================================
