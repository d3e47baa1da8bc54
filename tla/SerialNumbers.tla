---------------------------- MODULE SerialNumbers ----------------------------
(***************************************************************************)
(* Packet sequence numbers (PSNs) and the serial-number comparisons of      *)
(* src/src/liburdma/interface.c.  In the code a PSN is a uint32_t and Half  *)
(* is 2^31; a run takes a small Half so that PSNs wrap around.              *)
(*                                                                          *)
(* A PSN is written unwrapped, as the integer it would be if it never       *)
(* overflowed; Psn(x) is the value the program holds.  Every test below     *)
(* looks only at Psn(x), so it decides exactly what the program decides.    *)
(***************************************************************************)
EXTENDS Integers

CONSTANT Half

ASSUME HalfAssumption == Half \in Nat /\ Half > 0

PsnMod == 2 * Half

Psn(x) == x % PsnMod

\* ctx.psn == ep->recv_ack_psn and the like: equality of uint32_t values.
SamePsn(x, y) == Psn(x) = Psn(y)

\* A comparison that forgets the wrap-around.
PlainLess(x, y) == Psn(x) < Psn(y)

SerialLess(x, y) ==
    LET s1 == Psn(x)
        s2 == Psn(y)
    IN  \/ s1 < s2 /\ s2 - s1 < Half
        \/ s1 > s2 /\ s1 - s2 > Half

SerialGreater(x, y) ==
    LET s1 == Psn(x)
        s2 == Psn(y)
    IN  \/ s1 < s2 /\ s2 - s1 > Half
        \/ s1 > s2 /\ s1 - s2 < Half

==============================================================================
