---------------------------- MODULE MCSendQueue ----------------------------
(* Instances of SendQueue for TLC: which work requests are posted. *)
EXTENDS SendQueue

Wr(op, n, sig) == [opcode |-> op, total |-> n, signaled |-> sig]

Mixed == {Wr("send", 2, TRUE), Wr("write", 1, FALSE), Wr("read", 1, TRUE)}
SendAndRead == {Wr("send", 1, TRUE), Wr("read", 1, TRUE)}

==============================================================================
