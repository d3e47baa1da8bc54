------------------------------ MODULE TrpProofs ------------------------------
(***************************************************************************)
(* Proofs about TRP for any number of segments, any window, any faults and  *)
(* PSNs that wrap around: the sweep preserves Inv, so Inv is an inductive   *)
(* invariant of Trp, and what follows from it.                              *)
(***************************************************************************)
EXTENDS TrpSending

------------------------------------------------------------------------------
\* sweep_unacked_packets.

\* The test against send_last_acked_psn is exact for every pending segment.
LEMMA AcknowledgedTest ==
    ASSUME TypeOK, NEW e \in Endpoint, NEW f \in Endpoint,
           SenderInv(e), LinkInv(e, f), NEW p \in tx_pending[e]
    PROVE  p \in Nat /\ (p \in Acknowledged(e) <=> p < send_last_acked_psn[e])
<1>1. /\ send_next_psn[e] \in Nat /\ tx_head[e] \in Nat /\ recv_ack_psn[f] \in Nat
      /\ send_last_acked_psn[e] \in Nat /\ p \in Nat
      /\ p \in tx_head[e] .. send_next_psn[e] - 1
  <2>1. /\ send_next_psn[e] \in Nat /\ tx_head[e] \in Nat
        /\ recv_ack_psn[f] \in Nat /\ send_last_acked_psn[e] \in Nat
    BY NumberTypes
  <2>2. p \in tx_head[e] .. send_next_psn[e] - 1
    BY DEF SenderInv
  <2> QED BY <2>1, <2>2
<1>2. /\ send_next_psn[e] - send_last_acked_psn[e] < Half
      /\ send_next_psn[e] <= tx_head[e] + TxPendingSize
      /\ send_last_acked_psn[e] <= recv_ack_psn[f]
      /\ recv_ack_psn[f] <= send_next_psn[e]
  BY DEF SenderInv, LinkInv
<1>3. p - send_last_acked_psn[e] < Half /\ send_last_acked_psn[e] - p < Half
  BY <1>1, <1>2, Sizes
<1> QED BY <1>1, <1>3, SerialLessIsLess DEF Acknowledged

\* Where a sweep ends: h is the first PSN the peer has not acknowledged, and
\* tx_head goes further only when the connection has failed.
LEMMA SweepEnds ==
    ASSUME TypeOK, NEW e \in Endpoint, NEW f \in Endpoint,
           SenderInv(e), LinkInv(e, f),
           NEW h \in tx_head[e] .. send_next_psn[e],
           NEW g \in h .. send_next_psn[e], NEW R, NEW F, Sweep(e, h, g, R, F)
    PROVE  /\ h = tx_head[e] \/ h <= send_last_acked_psn[e]
           /\ send_last_acked_psn[e] <= h
           /\ F = {} => g = h
<1>1. /\ send_next_psn[e] \in Nat /\ tx_head[e] \in Nat /\ h \in Nat /\ g \in Nat
      /\ send_last_acked_psn[e] \in Nat /\ recv_ack_psn[f] \in Nat
      /\ tx_pending[e] = tx_head[e] .. send_next_psn[e] - 1
      /\ send_last_acked_psn[e] <= recv_ack_psn[f]
      /\ recv_ack_psn[f] <= send_next_psn[e]
  <2>1. /\ send_next_psn[e] \in Nat /\ tx_head[e] \in Nat
        /\ send_last_acked_psn[e] \in Nat /\ recv_ack_psn[f] \in Nat
    BY NumberTypes
  <2>2. h \in Nat /\ g \in Nat
    BY <2>1
  <2> QED BY <2>1, <2>2 DEF SenderInv, LinkInv
<1>2. /\ \A p \in tx_head[e] .. h - 1 : p \in Acknowledged(e)
      /\ h \notin Acknowledged(e)
      /\ \A p \in h .. g - 1 : p \in F
  BY DEF Sweep, IsRun
<1>3. h = tx_head[e] \/ h <= send_last_acked_psn[e]
  <2>1. SUFFICES ASSUME h # tx_head[e] PROVE h <= send_last_acked_psn[e]
    OBVIOUS
  <2>2. h - 1 \in tx_head[e] .. h - 1 /\ h - 1 \in tx_pending[e]
    BY <1>1, <2>1
  <2>3. h - 1 < send_last_acked_psn[e]
    BY <1>2, <2>2, AcknowledgedTest
  <2> QED BY <1>1, <2>3
<1>4. send_last_acked_psn[e] <= h
  <2>1. CASE h \in tx_pending[e]
    <3>1. ~(h < send_last_acked_psn[e])
      BY <1>2, <2>1, AcknowledgedTest
    <3> QED BY <1>1, <3>1
  <2>2. CASE h \notin tx_pending[e]
    BY <1>1, <2>2
  <2> QED BY <2>1, <2>2
<1>5. F = {} => g = h
  <2>1. SUFFICES ASSUME g # h PROVE F # {}
    OBVIOUS
  <2>2. h \in h .. g - 1
    BY <1>1, <2>1
  <2> QED BY <1>2, <2>2
<1> QED BY <1>3, <1>4, <1>5

\* A sweep retires what was acknowledged and retransmits the rest.
LEMMA SweepInv ==
    ASSUME Inv, NEW e \in Endpoint,
           NEW h \in tx_head[e] .. send_next_psn[e], NEW R \in SUBSET tx_pending[e],
           NEW F \in SUBSET R, NEW g \in h .. send_next_psn[e], Sweep(e, h, g, R, F)
    PROVE  Inv'
<1> DEFINE f == Peer(e)
           out == {Packet(e, "data", p, recv_ack_psn[e], p \in terms[e], p - h + 1) :
                       p \in R \ F}
<1>1. f \in Endpoint /\ f # e /\ Endpoint = {e, f} /\ f = Peer(e)
  BY Peers
<1>2. TypeOK /\ PairInv(e, f)
  BY InvIsPairInv
<1> HIDE DEF f
<1>3. /\ SenderInv(e) /\ LinkInv(e, f) /\ SenderInv(f) /\ LinkInv(f, e)
      /\ ReceiverInv(e, f) /\ ReceiverInv(f, e) /\ NetInv(e, f) /\ NetInv(f, e)
  BY <1>2 DEF PairInv
<1>4. /\ send_next_psn[e] \in Nat /\ tx_head[e] \in Nat /\ h \in Nat /\ g \in Nat
      /\ send_last_acked_psn[e] \in Nat /\ recv_ack_psn[f] \in Nat
      /\ send_max_psn[e] \in Nat /\ recv_ack_psn[e] \in Nat
      /\ tx_pending[e] = tx_head[e] .. send_next_psn[e] - 1
      /\ StartPsn <= tx_head[e] /\ tx_head[e] <= h /\ h <= g
      /\ g <= send_next_psn[e]
  <2>1. /\ send_next_psn[e] \in Nat /\ tx_head[e] \in Nat
        /\ send_last_acked_psn[e] \in Nat /\ recv_ack_psn[f] \in Nat
        /\ send_max_psn[e] \in Nat /\ recv_ack_psn[e] \in Nat
    BY <1>1, <1>2, NumberTypes
  <2>2. /\ h \in Nat /\ g \in Nat /\ tx_head[e] <= h /\ h <= g
        /\ g <= send_next_psn[e]
    BY <2>1
  <2>3. /\ tx_pending[e] = tx_head[e] .. send_next_psn[e] - 1
        /\ StartPsn <= tx_head[e]
    BY <1>3 DEF SenderInv
  <2> QED BY <2>1, <2>2, <2>3
<1>5. /\ h = tx_head[e] \/ h <= send_last_acked_psn[e]
      /\ send_last_acked_psn[e] <= h
      /\ F = {} => g = h
  BY <1>1, <1>2, <1>3, SweepEnds
<1>6. /\ phase[e] = "rx" /\ Live(e)
      /\ UNCHANGED <<send_next_psn, terms, send_last_acked_psn, send_max_psn,
                     recv_ack_psn, recv_sack_min, recv_sack_max, recv_missing,
                     nLost, delivered, sacked>>
      /\ tx_head' = [tx_head EXCEPT ![e] = g]
      /\ acked' = [acked EXCEPT ![e] = @ \cup tx_head[e] .. h - 1]
      /\ conn' = [conn EXCEPT ![e] = IF F = {} THEN @ ELSE "error"]
      /\ phase' = [phase EXCEPT ![e] = "tx"]
      /\ Exchange(e, {}, out)
  BY Zenon DEF Sweep, Live, windowVars, recvVars
<1>7. tx_pending' = [tx_pending EXCEPT ![e] = g .. send_next_psn[e] - 1]
  <2>1. KeepFrom({p \in tx_pending[e] : p >= h}, g) = g .. send_next_psn[e] - 1
    BY <1>4 DEF KeepFrom
  <2> QED BY <2>1, Zenon DEF Sweep
<1>8. acked'[e] = StartPsn .. h - 1
  <2>1. acked[e] = StartPsn .. tx_head[e] - 1
    BY <1>3, <1>6 DEF LinkInv
  <2>2. (StartPsn .. tx_head[e] - 1) \cup (tx_head[e] .. h - 1) = StartPsn .. h - 1
    <3>1. /\ StartPsn \in Nat /\ tx_head[e] \in Nat /\ h \in Nat
          /\ StartPsn <= tx_head[e] /\ tx_head[e] <= h
      BY <1>4, Sizes
    <3>2. ASSUME NEW a \in Nat, NEW b \in Nat, NEW c \in Nat, a <= b, b <= c
          PROVE  (a .. b - 1) \cup (b .. c - 1) = a .. c - 1
      BY <3>2
    <3> QED BY <3>1, <3>2
  <2>3. acked \in [Endpoint -> SUBSET Nat]
    BY <1>2 DEF TypeOK
  <2> QED BY <1>6, <2>1, <2>2, <2>3
<1>9. \A m \in out : /\ PacketOK(m) /\ m.kind = "data" /\ m.ack = recv_ack_psn[e]
                     /\ StartPsn <= m.psn /\ m.psn < send_next_psn[e]
  <2>1. SUFFICES ASSUME NEW p \in R
                 PROVE  LET m == Packet(e, "data", p, recv_ack_psn[e],
                                        p \in terms[e], p - h + 1)
                        IN  /\ PacketOK(m) /\ m.kind = "data"
                            /\ m.ack = recv_ack_psn[e]
                            /\ StartPsn <= m.psn /\ m.psn < send_next_psn[e]
    OBVIOUS
  <2>2. p \in Nat /\ StartPsn <= p /\ p < send_next_psn[e]
    BY <1>4, Sizes
  <2> QED BY <1>4, <2>2 DEF Packet, PacketOK, Kind
<1>10. /\ DOMAIN net' = Endpoint /\ net'[e] \subseteq net[e]
       /\ net'[f] = net[f] \cup out
  BY <1>1, <1>2, <1>6, ExchangeNet, Zenon
<1> HIDE DEF out
<1>11. TypeOK'
  <2>1. \A x \in Endpoint : \A m \in net'[x] : PacketOK(m)
    BY <1>1, <1>2, <1>9, <1>10, NetTypes
  <2>2. transmit_count' \in [Endpoint -> [Index -> Nat]]
    BY <1>2 DEF TypeOK, Sweep
  <2>3. ack_update' \in [Endpoint -> BOOLEAN]
    BY <1>2, StateTypes DEF Sweep
  <2>4. /\ tx_pending' \in [Endpoint -> SUBSET Nat]
        /\ tx_head' \in [Endpoint -> Nat]
        /\ acked' \in [Endpoint -> SUBSET Nat]
    <3>1. /\ g .. send_next_psn[e] - 1 \subseteq Nat
          /\ tx_head[e] .. h - 1 \subseteq Nat
      BY <1>4
    <3>2. tx_pending' \in [Endpoint -> SUBSET Nat]
      <4>1. tx_pending \in [Endpoint -> SUBSET Nat]
        BY <1>2 DEF TypeOK
      <4> QED BY <1>7, <3>1, <4>1
    <3>3. tx_head' \in [Endpoint -> Nat]
      BY <1>2, <1>4, <1>6 DEF TypeOK
    <3>4. acked' \in [Endpoint -> SUBSET Nat]
      BY <1>2, <1>6, <3>1 DEF TypeOK
    <3> QED BY <3>2, <3>3, <3>4
  <2>5. /\ conn' \in [Endpoint -> {"running", "error", "assert", "crashed"}]
        /\ phase' \in [Endpoint -> {"rx", "tx", "shutdown", "done"}]
    BY <1>2, <1>6, StateTypes
  <2> QED BY <1>2, <1>6, <1>10, <2>1, <2>2, <2>3, <2>4, <2>5 DEF TypeOK
<1>12. /\ tx_head'[e] = g /\ tx_pending'[e] = g .. send_next_psn[e] - 1
       /\ phase'[e] = "tx" /\ (Live(e)' => g = h)
       /\ UNCHANGED <<tx_head[f], tx_pending[f], acked[f], conn[f], phase[f]>>
  <2>1. /\ tx_head \in [Endpoint -> Nat]
        /\ tx_pending \in [Endpoint -> SUBSET Nat]
        /\ acked \in [Endpoint -> SUBSET Nat]
    BY <1>2 DEF TypeOK
  <2>2. /\ tx_head'[e] = g /\ tx_pending'[e] = g .. send_next_psn[e] - 1
        /\ UNCHANGED <<tx_head[f], tx_pending[f], acked[f]>>
    BY <1>1, <1>6, <1>7, <2>1
  <2>3. /\ phase'[e] = "tx" /\ (conn'[e] = "running" => F = {})
        /\ UNCHANGED <<conn[f], phase[f]>>
    BY <1>1, <1>2, <1>6, StateTypes
  <2> QED BY <1>5, <2>2, <2>3 DEF Live
<1>13. SenderInv(e)'
  <2>1. /\ send_next_psn[e] <= g + TxPendingSize
        /\ g = h => g - send_last_acked_psn[e] < Half - TxPendingSize
    <3>1. /\ send_next_psn[e] <= tx_head[e] + TxPendingSize
          /\ tx_head[e] - send_last_acked_psn[e] < Half - TxPendingSize
      BY <1>3, <1>6 DEF SenderInv
    <3>2. send_next_psn[e] <= g + TxPendingSize
      BY <1>4, <3>1, Sizes
    <3>3. h - send_last_acked_psn[e] < Half - TxPendingSize
      <4>1. CASE h = tx_head[e]
        BY <3>1, <4>1
      <4>2. CASE h <= send_last_acked_psn[e]
        BY <1>4, <4>2, Sizes
      <4> QED BY <1>5, <4>1, <4>2
    <3> QED BY <3>2, <3>3
  <2>2. /\ StartPsn <= g /\ g <= send_next_psn[e]
        /\ send_last_acked_psn[e] <= g
    BY <1>4, <1>5, Sizes
  <2>3. /\ send_next_psn'[e] = send_next_psn[e] /\ send_max_psn'[e] = send_max_psn[e]
        /\ send_last_acked_psn'[e] = send_last_acked_psn[e]
    BY <1>6
  <2> QED BY <1>3, <1>12, <2>1, <2>2, <2>3 DEF SenderInv
<1>14. LinkInv(e, f)'
  <2>1. h <= recv_ack_psn[f]
    BY <1>3, <1>4, <1>5, <1>6 DEF LinkInv
  <2>2. acked'[e] \subseteq StartPsn .. recv_ack_psn[f] - 1
    BY <1>4, <1>8, <2>1, Sizes
  <2>3. Live(e)' => g <= recv_ack_psn[f] /\ acked'[e] = StartPsn .. g - 1
    BY <1>8, <1>12, <2>1
  <2> QED BY <1>3, <1>6, <1>12, <2>2, <2>3 DEF LinkInv
<1>15. SenderInv(f)' /\ LinkInv(f, e)'
  BY <1>3, <1>6, <1>12 DEF SenderInv, LinkInv, Live
<1>16. ReceiverInv(e, f)' /\ ReceiverInv(f, e)'
  BY <1>3, <1>6, Zenon DEF ReceiverInv, Received
<1>17. NetInv(e, f)' /\ NetInv(f, e)'
  BY <1>3, <1>4, <1>6, <1>9, <1>10 DEF NetInv
<1>18. PairInv(e, f)'
  BY <1>13, <1>14, <1>15, <1>16, <1>17 DEF PairInv
<1> QED BY <1>1, <1>11, <1>18, InvIsPairInv

------------------------------------------------------------------------------
\* The theorems.

\* A stuttering step keeps the invariant.
LEMMA StutterInv == Inv /\ UNCHANGED vars => Inv'
<1> SUFFICES ASSUME Inv, UNCHANGED vars PROVE Inv'
  OBVIOUS
<1>1. TypeOK
  BY DEF Inv
<1>2. NumbersKept
  BY DEF vars, histVars, NumbersKept
<1>3. StateTypesKept
  BY <1>1, StateTypes DEF vars, histVars, StateTypesKept
<1>4. NoneRevived
  BY DEF vars, NoneRevived, Live
<1>5. NoSegmentSent
  BY <1>1, NetTypes DEF vars, NoSegmentSent
<1> QED BY <1>2, <1>3, <1>4, <1>5, NumbersUnchanged

\* Every step does: one case per action.
LEMMA NextInv == Inv /\ [Next]_vars => Inv'
<1> SUFFICES ASSUME Inv, Next PROVE Inv'
  BY StutterInv
<1>1. PICK e \in Endpoint :
          \/ ReceiveAny(e) \/ SweepAny(e) \/ SendSegment(e) \/ EndTx(e)
          \/ Shutdown(e) \/ \E m \in net[e] : Lose(e, m)
  BY DEF Next
<1>2. CASE ReceiveAny(e)
  <2>1. PICK m \in net[e] : Receive(e, m)
    BY <1>2 DEF ReceiveAny
  <2>2. phase[e] = "rx" /\ m \in Arriving(e) /\ UNCHANGED <<tx_head, nLost>>
    BY <2>1 DEF Receive
  <2>3. CASE ReceiveAck(e, m)
    BY <2>2, <2>3, ReceiveAckInv
  <2>4. CASE ReceiveSegment(e, m)
    BY <2>2, <2>4, ReceiveSegmentInv
  <2>5. CASE ReceiveSack(e, m)
    BY <2>2, <2>5, ReceiveSackInv
  <2>6. CASE ReceiveFin(e, m)
    <3>1. /\ QpShutdown(e, {m}, FALSE)
          /\ UNCHANGED <<windowVars, tx_head, recvVars, nLost, histVars, phase>>
      BY <2>2, <2>6, Zenon DEF ReceiveFin
    <3> QED BY <2>2, <3>1, QpShutdownInv, Zenon
  <2> QED BY <2>1, <2>3, <2>4, <2>5, <2>6 DEF Receive
<1>3. CASE SweepAny(e)
  BY <1>3, SweepInv DEF SweepAny
<1>4. CASE SendSegment(e)
  BY <1>4, SendSegmentInv
<1>5. CASE EndTx(e)
  BY <1>5, EndTxInv
<1>6. CASE Shutdown(e)
  <2>1. /\ phase[e] = "shutdown" /\ phase' = [phase EXCEPT ![e] = "done"]
        /\ QpShutdown(e, {}, FALSE)
        /\ UNCHANGED <<windowVars, tx_head, recvVars, nLost, histVars>>
    BY <1>6, Zenon DEF Shutdown
  <2> QED BY <2>1, QpShutdownInv, Zenon
<1>7. CASE \E m \in net[e] : Lose(e, m)
  BY <1>7, LoseInv
<1> QED BY <1>1, <1>2, <1>3, <1>4, <1>5, <1>6, <1>7

\* TRP's numbers stay right for ever: Inv holds in every reachable state, for
\* any number of segments, any window below a quarter of the sequence space
\* and any combination of loss, duplication, reordering, retransmission,
\* allocation failure, TERMINATE and shutdown.
THEOREM InvHolds == Spec => []Inv
  BY InitInv, NextInv, PTL DEF Spec

\* The fields of struct ee_state and of every packet in flight have their types.
THEOREM TypeCorrect == Spec => []TypeOK
<1>1. Inv => TypeOK
  BY DEF Inv
<1> QED BY <1>1, InvHolds, PTL

\* process_data_packet hands every segment to DDP at most once, and the
\* cumulative PSN and the SACK range say exactly which.
THEOREM ReceiveExact == Spec => []ReceiveStateExact
<1>1. Inv => ReceiveStateExact
  <2> SUFFICES ASSUME Inv, NEW e \in Endpoint, NEW p \in Index
               PROVE  delivered[e][p] = IF Received(e, p) THEN 1 ELSE 0
    BY DEF ReceiveStateExact
  <2>1. ReceiverInv(Peer(e), e)
    BY Peers DEF Inv
  <2> QED BY <2>1 DEF ReceiverInv
<1> QED BY <1>1, InvHolds, PTL

\* sweep_unacked_packets frees a segment, and completes its work request, only
\* after the peer has accepted it.
THEOREM AckedDelivered == Spec => []AckedWereDelivered
<1>1. Inv => AckedWereDelivered
  <2> SUFFICES ASSUME Inv, NEW e \in Endpoint, NEW p \in acked[e]
               PROVE  delivered[Peer(e)][p] > 0
    BY DEF AckedWereDelivered
  <2>1. /\ Peer(e) \in Endpoint /\ SenderInv(e) /\ LinkInv(e, Peer(e))
        /\ ReceiverInv(e, Peer(e))
    BY Peers DEF Inv
  <2>2. /\ recv_ack_psn[Peer(e)] \in Nat /\ send_next_psn[e] \in Nat
        /\ recv_missing[Peer(e)] \in BOOLEAN
    BY <2>1 DEF Inv, TypeOK
  <2>3. p \in Index /\ p < recv_ack_psn[Peer(e)]
    <3>1. /\ p \in StartPsn .. recv_ack_psn[Peer(e)] - 1
          /\ recv_ack_psn[Peer(e)] <= send_next_psn[e]
          /\ send_next_psn[e] <= StartPsn + Load[e]
      BY <2>1 DEF LinkInv, SenderInv
    <3> QED BY <2>2, <3>1, Sizes DEF Index
  <2> QED BY <2>1, <2>3 DEF ReceiverInv, Received
<1> QED BY <1>1, InvHolds, PTL

\* While a connection runs, every segment sent is acknowledged or pending, and
\* none is both.
THEOREM NoneForgotten == Spec => []NothingForgotten
<1>1. Inv => NothingForgotten
  <2> SUFFICES ASSUME Inv, NEW e \in Endpoint, conn[e] = "running"
               PROVE  /\ acked[e] \cup tx_pending[e] = Sent(e)
                      /\ acked[e] \cap tx_pending[e] = {}
    BY DEF NothingForgotten
  <2>1. SenderInv(e) /\ LinkInv(e, Peer(e)) /\ Live(e)
    BY DEF Inv, Live
  <2>2. /\ tx_head[e] \in Nat /\ send_next_psn[e] \in Nat /\ StartPsn <= tx_head[e]
        /\ tx_head[e] <= send_next_psn[e]
        /\ acked[e] = StartPsn .. tx_head[e] - 1
        /\ tx_pending[e] = tx_head[e] .. send_next_psn[e] - 1
    BY <2>1 DEF Inv, TypeOK, SenderInv, LinkInv
  <2>3. ASSUME NEW a \in Nat, NEW b \in Nat, NEW c \in Nat, a <= b, b <= c
        PROVE  /\ (a .. b - 1) \cup (b .. c - 1) = a .. c - 1
               /\ (a .. b - 1) \cap (b .. c - 1) = {}
    BY <2>3
  <2> QED BY <2>2, <2>3, Sizes DEF Sent
<1> QED BY <1>1, InvHolds, PTL

\* The assertion of send_ddp_segment holds whenever the send loops call it: an
\* open window implies a free slot.
THEOREM OpenWindowHasSlots == Spec => []WindowHasSlots
<1>1. Inv => WindowHasSlots
  <2> SUFFICES ASSUME Inv, NEW e \in Endpoint, phase[e] = "tx", WindowOpen(e)
               PROVE  SlotFree(e, send_next_psn[e])
    BY DEF WindowHasSlots
  <2>1. TypeOK /\ SenderInv(e)
    BY DEF Inv
  <2>2. /\ send_next_psn[e] \in Nat /\ send_max_psn[e] \in Nat
        /\ send_last_acked_psn[e] \in Nat /\ tx_head[e] \in Nat
    BY <2>1, NumberTypes
  <2>3. /\ send_next_psn[e] - send_last_acked_psn[e] < Half
        /\ send_last_acked_psn[e] < send_max_psn[e]
        /\ send_max_psn[e] <= send_last_acked_psn[e] + TxPendingSize
        /\ send_last_acked_psn[e] <= tx_head[e] /\ tx_head[e] <= send_next_psn[e]
    BY <2>1 DEF SenderInv
  <2>4. /\ send_next_psn[e] - send_max_psn[e] < Half
        /\ send_max_psn[e] - send_next_psn[e] < Half
    BY <2>2, <2>3, Sizes
  <2>5. send_next_psn[e] < send_max_psn[e]
    BY <2>2, <2>4, SerialLessIsLess DEF WindowOpen
  <2>6. send_next_psn[e] < tx_head[e] + TxPendingSize
    BY <2>2, <2>3, <2>5, Sizes
  <2> QED BY <2>1, <2>6, RoomSlot
<1> QED BY <1>1, InvHolds, PTL

==============================================================================
