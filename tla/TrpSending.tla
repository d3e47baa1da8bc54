----------------------------- MODULE TrpSending ------------------------------
(***************************************************************************)
(* The steps of TRP that may send a segment preserve Inv: the send loops,   *)
(* and the receipt of a segment, which may be answered by a TERMINATE.      *)
(***************************************************************************)
EXTENDS TrpReceiving

\* A free slot for the next PSN leaves room in the ring: the slot that PSN
\* shares with the oldest pending one is taken when tx_pending is full.
LEMMA SlotRoom ==
    ASSUME TypeOK, NEW e \in Endpoint, SenderInv(e), SlotFree(e, send_next_psn[e])
    PROVE  send_next_psn[e] < tx_head[e] + TxPendingSize
<1>1. /\ send_next_psn[e] \in Nat /\ tx_head[e] \in Nat
      /\ tx_head[e] <= send_next_psn[e]
      /\ send_next_psn[e] <= tx_head[e] + TxPendingSize
      /\ tx_pending[e] = tx_head[e] .. send_next_psn[e] - 1
  BY NumberTypes DEF SenderInv
<1>2. SUFFICES ASSUME send_next_psn[e] = tx_head[e] + TxPendingSize PROVE FALSE
  BY <1>1, Sizes
<1>3. tx_head[e] \in tx_pending[e]
  BY <1>1, <1>2, Sizes
<1>4. tx_head[e] % TxPendingSize = send_next_psn[e] % TxPendingSize
  <2>1. tx_head[e] = send_next_psn[e] - TxPendingSize
    BY <1>1, <1>2, Sizes
  <2>2. /\ TxPendingSize \in Nat /\ TxPendingSize > 0
        /\ send_next_psn[e] \in Int /\ tx_head[e] \in Int
    BY <1>1, Sizes
  <2> QED BY <2>1, <2>2, ResidueShift, Zenon
<1> QED BY <1>3, <1>4 DEF SlotFree

\* Conversely, with room in the ring the slot is free.
LEMMA RoomSlot ==
    ASSUME TypeOK, NEW e \in Endpoint, SenderInv(e),
           send_next_psn[e] < tx_head[e] + TxPendingSize
    PROVE  SlotFree(e, send_next_psn[e])
<1>1. /\ send_next_psn[e] \in Nat /\ tx_head[e] \in Nat
      /\ tx_pending[e] = tx_head[e] .. send_next_psn[e] - 1
  BY NumberTypes DEF SenderInv
<1>2. SUFFICES ASSUME NEW q \in tx_pending[e],
                      q % TxPendingSize = send_next_psn[e] % TxPendingSize
               PROVE  FALSE
  BY DEF SlotFree
<1>3. /\ q \in Int /\ q < send_next_psn[e]
      /\ send_next_psn[e] - q < TxPendingSize /\ q - send_next_psn[e] < TxPendingSize
  BY <1>1, Sizes
<1>4. q = send_next_psn[e]
  <2>1. TxPendingSize \in Nat /\ TxPendingSize > 0 /\ send_next_psn[e] \in Int
    BY <1>1, Sizes
  <2> QED BY <1>2, <1>3, <2>1, SameResidue, Zenon
<1> QED BY <1>1, <1>3, <1>4

\* What a step that may call send_ddp_segment does: it appends one PSN for which
\* there is room, or sends nothing and leaves the sender's numbers alone.
Appends(e) ==
    /\ UNCHANGED <<conn[e], phase[e]>>
    /\ send_next_psn'[e] = send_next_psn[e] + 1
    /\ tx_pending'[e] = tx_pending[e] \cup {send_next_psn[e]}
    /\ send_next_psn[e] < StartPsn + Load[e]
    /\ send_next_psn[e] < tx_head[e] + TxPendingSize

SendsNothing(e) ==
    /\ \/ phase'[e] = phase[e] /\ conn'[e] \in {conn[e], "error"}
       \/ phase'[e] = "done" /\ conn'[e] = "assert"
    /\ UNCHANGED <<send_next_psn[e], tx_pending[e]>>

SendTypes ==
    /\ conn' \in [Endpoint -> {"running", "error", "assert", "crashed"}]
    /\ phase' \in [Endpoint -> {"rx", "tx", "shutdown", "done"}]
    /\ ack_update' \in [Endpoint -> BOOLEAN]
    /\ send_next_psn' \in [Endpoint -> Nat]
    /\ tx_pending' \in [Endpoint -> SUBSET Nat]
    /\ transmit_count' \in [Endpoint -> [Index -> Nat]]
    /\ terms' \in [Endpoint -> SUBSET Nat]

SendNet(e, f) ==
    /\ DOMAIN net' = Endpoint /\ net'[e] \subseteq net[e]
    /\ \A m \in net'[f] :
           \/ m \in net[f]
           \/ /\ PacketOK(m) /\ m.ack = recv_ack_psn'[e]
              /\ m.kind = "data" => /\ m.psn = send_next_psn[e]
                                    /\ send_next_psn'[e] = send_next_psn[e] + 1

SendEffect(e, f) ==
    /\ SendTypes
    /\ UNCHANGED <<conn[f], phase[f], send_next_psn[f], tx_pending[f]>>
    /\ Appends(e) \/ SendsNothing(e)
    /\ SendNet(e, f)

\* send_ddp_segment does one or the other, depending on the slot.
LEMMA SendEffects ==
    ASSUME TypeOK, NEW e \in Endpoint, SenderInv(e), NEW in,
           NEW term \in BOOLEAN, SendDdpSegment(e, in, term),
           recv_missing'[e] \in BOOLEAN, recv_ack_psn'[e] \in Nat
    PROVE  SendEffect(e, Peer(e))
<1> DEFINE psn == send_next_psn[e]
           seg == Packet(e, "data", psn, recv_ack_psn'[e], term, 1)
<1>1. psn \in Nat /\ psn \in Index /\ psn < StartPsn + Load[e]
  <2>1. psn \in Nat /\ psn \in Work(e)
    BY NumberTypes DEF SendDdpSegment
  <2> QED BY <2>1, Sizes DEF Work, Index
<1>2. PacketOK(seg) /\ seg.kind = "data" /\ seg.psn = psn
      /\ seg.ack = recv_ack_psn'[e]
  BY <1>1 DEF Packet, PacketOK, Kind
<1> HIDE DEF seg
<1>3. CASE SlotFree(e, psn)
  <2>1. /\ send_next_psn' = [send_next_psn EXCEPT ![e] = psn + 1]
        /\ tx_pending' = [tx_pending EXCEPT ![e] = @ \cup {psn}]
        /\ transmit_count' = [transmit_count EXCEPT ![e][psn] = 1]
        /\ terms' = [terms EXCEPT ![e] = IF term THEN @ \cup {psn} ELSE @]
        /\ UNCHANGED <<conn, phase>>
        /\ ack_update' \in [Endpoint -> BOOLEAN]
    BY <1>3, StateTypes, Zenon DEF SendDdpSegment, Piggyback
  <2>2. Exchange(e, in, {seg}) \/ Exchange(e, in, {})
    BY <1>3 DEF SendDdpSegment, seg
  <2>3. /\ DOMAIN net' = Endpoint /\ net'[e] \subseteq net[e]
        /\ net'[Peer(e)] \subseteq net[Peer(e)] \cup {seg}
    <3>1. CASE Exchange(e, in, {seg})
      BY <3>1, ExchangeNet
    <3>2. CASE Exchange(e, in, {})
      BY <3>2, ExchangeNet
    <3> QED BY <2>2, <3>1, <3>2
  <2>4. psn < tx_head[e] + TxPendingSize
    BY <1>3, SlotRoom
  <2>5. SendTypes
    BY <1>1, <2>1 DEF TypeOK, SendTypes
  <2>6. /\ Appends(e)
        /\ UNCHANGED <<conn[Peer(e)], phase[Peer(e)], send_next_psn[Peer(e)],
                       tx_pending[Peer(e)]>>
    <3>1. /\ send_next_psn \in [Endpoint -> Nat]
          /\ tx_pending \in [Endpoint -> SUBSET Nat]
      BY DEF TypeOK
    <3> QED BY <1>1, <2>1, <2>4, <3>1, Peers DEF Appends
  <2>7. SendNet(e, Peer(e))
    BY <1>2, <2>3, <2>6 DEF SendNet, Appends
  <2> QED BY <2>5, <2>6, <2>7 DEF SendEffect
<1>4. CASE ~SlotFree(e, psn)
  <2>1. /\ conn' = [conn EXCEPT ![e] = "assert"]
        /\ phase' = [phase EXCEPT ![e] = "done"]
        /\ Exchange(e, in, {})
        /\ UNCHANGED <<send_next_psn, tx_pending, transmit_count, terms, ack_update>>
    BY <1>4 DEF SendDdpSegment, sendVars
  <2>2. /\ DOMAIN net' = Endpoint /\ net'[e] \subseteq net[e]
        /\ net'[Peer(e)] = net[Peer(e)]
    <3>1. Exchange(e, in, {})
      BY <2>1
    <3>2. /\ DOMAIN net' = Endpoint /\ net'[e] \subseteq net[e]
          /\ net'[Peer(e)] = net[Peer(e)] \cup {}
      BY <3>1, ExchangeNet, Zenon
    <3> QED BY <3>2
  <2>3. SendTypes
    BY <2>1 DEF TypeOK, SendTypes
  <2>4. /\ SendsNothing(e)
        /\ UNCHANGED <<conn[Peer(e)], phase[Peer(e)], send_next_psn[Peer(e)],
                       tx_pending[Peer(e)]>>
    BY <2>1, Peers, StateTypes DEF SendsNothing
  <2> QED BY <2>2, <2>3, <2>4 DEF SendEffect, SendNet
<1> QED BY <1>3, <1>4

\* A step may take an acknowledgement, in the receive loop, ...
TakesAck(e, f) ==
    \/ UNCHANGED <<send_last_acked_psn[e], send_max_psn[e]>>
    \/ \E ack \in Nat : /\ ack <= recv_ack_psn[f]
                        /\ send_next_psn[e] - ack < Half - TxPendingSize
                        /\ send_last_acked_psn'[e] = ack
                        /\ send_max_psn'[e] = ack + TxPendingSize - 1
                        /\ phase[e] = "rx"

\* ... and may append a segment that fits the ring and the receiver's window.
AppendsInWindow(e, f) ==
    /\ send_next_psn'[e] = send_next_psn[e] + 1
    /\ tx_pending'[e] = tx_pending[e] \cup {send_next_psn[e]}
    /\ send_next_psn[e] < StartPsn + Load[e]
    /\ send_next_psn[e] < tx_head[e] + TxPendingSize
    /\ send_next_psn[e] < recv_ack_psn[f] + TxPendingSize
    /\ send_next_psn[e] + 1 - send_last_acked_psn'[e] < Half

MayAppend(e, f) ==
    UNCHANGED <<send_next_psn[e], tx_pending[e]>> \/ AppendsInWindow(e, f)

SweepsNothing(e, f) ==
    /\ UNCHANGED <<tx_head[e], acked[e], recv_ack_psn[f]>>
    /\ Live(e)' => Live(e)
    /\ phase'[e] = "tx" => phase[e] = "tx"

SenderAdvances(e, f) ==
    send_next_psn[e] <= send_next_psn'[e] /\ SenderInv(e)' /\ LinkInv(e, f)'

\* Such a step keeps the sending half of the invariant.
LEMMA SenderStep ==
    ASSUME TypeOK, NEW e \in Endpoint, NEW f \in Endpoint, SenderInv(e),
           LinkInv(e, f), SweepsNothing(e, f), TakesAck(e, f), MayAppend(e, f)
    PROVE  SenderAdvances(e, f)
<1>1. /\ send_next_psn[e] \in Nat /\ send_last_acked_psn[e] \in Nat
      /\ send_max_psn[e] \in Nat /\ tx_head[e] \in Nat /\ recv_ack_psn[f] \in Nat
      /\ Load[e] \in Nat
  BY NumberTypes, Sizes
<1>2. /\ send_next_psn'[e] \in {send_next_psn[e], send_next_psn[e] + 1}
      /\ send_next_psn'[e] \in Nat /\ send_next_psn[e] <= send_next_psn'[e]
  BY <1>1 DEF MayAppend, AppendsInWindow
<1>3. /\ tx_pending'[e] = tx_head[e] .. send_next_psn'[e] - 1
      /\ send_next_psn'[e] <= StartPsn + Load[e]
      /\ send_next_psn'[e] <= tx_head[e] + TxPendingSize
      /\ send_next_psn'[e] <= recv_ack_psn[f] + TxPendingSize
  <2>1. CASE UNCHANGED <<send_next_psn[e], tx_pending[e]>>
    BY <2>1 DEF SenderInv, LinkInv
  <2>2. CASE AppendsInWindow(e, f)
    <3>1. /\ tx_pending[e] = tx_head[e] .. send_next_psn[e] - 1
          /\ tx_head[e] <= send_next_psn[e]
      BY DEF SenderInv
    <3>2. (tx_head[e] .. send_next_psn[e] - 1) \cup {send_next_psn[e]}
              = tx_head[e] .. (send_next_psn[e] + 1) - 1
      BY <1>1, <3>1
    <3>3. tx_pending'[e] = tx_head[e] .. send_next_psn'[e] - 1
      BY <2>2, <3>1, <3>2 DEF AppendsInWindow
    <3>4. /\ send_next_psn'[e] <= StartPsn + Load[e]
          /\ send_next_psn'[e] <= tx_head[e] + TxPendingSize
          /\ send_next_psn'[e] <= recv_ack_psn[f] + TxPendingSize
      BY <1>1, <2>2, Sizes DEF AppendsInWindow
    <3> QED BY <3>3, <3>4
  <2> QED BY <2>1, <2>2 DEF MayAppend
<1>4. /\ send_last_acked_psn'[e] \in Nat /\ send_max_psn'[e] \in Nat
      /\ send_last_acked_psn'[e] < send_max_psn'[e]
      /\ send_max_psn'[e] <= send_last_acked_psn'[e] + TxPendingSize
      /\ send_last_acked_psn'[e] <= recv_ack_psn[f]
      /\ send_next_psn[e] - send_last_acked_psn'[e] < Half
      /\ Live(e) => tx_head[e] - send_last_acked_psn'[e] < Half - TxPendingSize
      /\ phase[e] = "tx" => send_last_acked_psn'[e] <= tx_head[e]
  <2>1. CASE UNCHANGED <<send_last_acked_psn[e], send_max_psn[e]>>
    BY <1>1, <2>1 DEF SenderInv, LinkInv
  <2>2. CASE ~UNCHANGED <<send_last_acked_psn[e], send_max_psn[e]>>
    <3>1. PICK ack \in Nat : /\ ack <= recv_ack_psn[f]
                             /\ send_next_psn[e] - ack < Half - TxPendingSize
                             /\ send_last_acked_psn'[e] = ack
                             /\ send_max_psn'[e] = ack + TxPendingSize - 1
                             /\ phase[e] = "rx"
      BY <2>2 DEF TakesAck
    <3>2. tx_head[e] <= send_next_psn[e]
      BY DEF SenderInv
    <3> QED BY <1>1, <3>1, <3>2, Sizes
  <2> QED BY <2>1, <2>2
<1>5. send_next_psn'[e] - send_last_acked_psn'[e] < Half
  <2>1. CASE UNCHANGED <<send_next_psn[e], tx_pending[e]>>
    BY <1>4, <2>1
  <2>2. CASE AppendsInWindow(e, f)
    BY <1>1, <1>4, <2>2, Sizes DEF AppendsInWindow
  <2> QED BY <2>1, <2>2 DEF MayAppend
<1>6. SenderInv(e)'
  <2>1. StartPsn <= tx_head[e] /\ tx_head[e] <= send_next_psn'[e]
    <3>1. StartPsn <= tx_head[e] /\ tx_head[e] <= send_next_psn[e]
      BY DEF SenderInv
    <3> QED BY <1>1, <1>2, <3>1
  <2> QED BY <1>3, <1>4, <1>5, <2>1 DEF SenderInv, SweepsNothing
<1>7. LinkInv(e, f)'
  <2>1. recv_ack_psn[f] <= send_next_psn'[e]
    BY <1>1, <1>2 DEF LinkInv
  <2> QED BY <1>3, <1>4, <2>1 DEF LinkInv, SweepsNothing
<1> QED BY <1>2, <1>6, <1>7 DEF SenderAdvances

SenderKept(f) ==
    UNCHANGED <<conn[f], phase[f], send_next_psn[f], tx_pending[f],
                send_last_acked_psn[f], send_max_psn[f], tx_head[f], acked[f]>>

\* A step of e that may take an acknowledgement, accept a segment and send one
\* preserves the invariant: its two directions are independent.
LEMMA DuplexStep ==
    ASSUME TypeOK, NEW e \in Endpoint, NEW f \in Endpoint, f = Peer(e),
           PairInv(e, f), TypeOK', SenderAdvances(e, f), SenderKept(f),
           Receives(e, f), ReceiverInv(f, e)', SendNet(e, f)
    PROVE  Inv'
<1>1. /\ SenderInv(e) /\ LinkInv(e, f) /\ ReceiverInv(e, f) /\ NetInv(e, f)
      /\ SenderInv(f) /\ LinkInv(f, e) /\ ReceiverInv(f, e) /\ NetInv(f, e)
  BY DEF PairInv
<1>2. /\ send_next_psn[e] \in Nat /\ send_next_psn'[e] \in Nat
      /\ send_next_psn[e] <= send_next_psn'[e] /\ send_next_psn'[f] = send_next_psn[f]
  <2>1. send_next_psn'[e] \in Nat
    BY DEF TypeOK
  <2> QED BY <2>1, NumberTypes DEF SenderAdvances, SenderKept
<1>3. /\ recv_ack_psn[e] \in Nat /\ recv_ack_psn'[e] \in Nat
      /\ recv_ack_psn[e] <= recv_ack_psn'[e] /\ recv_ack_psn'[e] <= send_next_psn[f]
  <2>1. recv_ack_psn'[e] \in Nat
    BY DEF Receives
  <2> QED BY <2>1, NumberTypes DEF Receives
<1>4. SenderInv(f)'
  BY <1>1 DEF SenderKept, SenderInv, Live
<1>5. LinkInv(f, e)'
  <2>1. /\ Live(f)' = Live(f)
        /\ UNCHANGED <<send_next_psn[f], send_last_acked_psn[f], tx_head[f], acked[f]>>
    BY DEF SenderKept, Live
  <2>2. /\ send_next_psn[f] \in Nat /\ send_last_acked_psn[f] \in Nat
        /\ tx_head[f] \in Nat
    BY NumberTypes
  <2>3. acked[f] \subseteq StartPsn .. recv_ack_psn'[e] - 1
    <3>1. acked[f] \subseteq StartPsn .. recv_ack_psn[e] - 1
      BY <1>1 DEF LinkInv
    <3> QED BY <1>3, <3>1, Sizes
  <2>4. /\ StartPsn <= recv_ack_psn'[e] /\ send_last_acked_psn[f] <= recv_ack_psn'[e]
        /\ send_next_psn[f] <= recv_ack_psn'[e] + TxPendingSize
        /\ Live(f) => tx_head[f] <= recv_ack_psn'[e]
    <3>1. /\ StartPsn <= recv_ack_psn[e] /\ send_last_acked_psn[f] <= recv_ack_psn[e]
          /\ send_next_psn[f] <= recv_ack_psn[e] + TxPendingSize
          /\ Live(f) => tx_head[f] <= recv_ack_psn[e]
      BY <1>1 DEF LinkInv
    <3> QED BY <1>3, <2>2, <3>1, Sizes
  <2>5. Live(f) => acked[f] = StartPsn .. tx_head[f] - 1
    BY <1>1 DEF LinkInv
  <2> QED BY <1>3, <2>1, <2>3, <2>4, <2>5 DEF LinkInv
<1>6. ReceiverInv(e, f)'
  <2>1. /\ UNCHANGED <<recv_ack_psn[f], recv_sack_min[f], recv_sack_max[f],
                       recv_missing[f], delivered[f]>>
        /\ recv_sack_max[f] \in Nat
    BY NumberTypes DEF Receives
  <2>2. recv_missing[f] => /\ recv_ack_psn[f] < recv_sack_min[f]
                           /\ recv_sack_min[f] < recv_sack_max[f]
                           /\ recv_sack_max[f] <= send_next_psn'[e]
    BY <1>1, <1>2, <2>1 DEF ReceiverInv
  <2>3. \A p \in Index : delivered[f][p] = IF Received(f, p) THEN 1 ELSE 0
    BY <1>1, Zenon DEF ReceiverInv
  <2>4. \A p \in Index : Received(f, p)' <=> Received(f, p)
    BY <2>1, Zenon DEF Received
  <2> QED BY <2>1, <2>2, <2>3, <2>4 DEF ReceiverInv
<1>7. NetInv(e, f)'
  <2>1. \A m \in net[f] : m.psn \in Nat /\ m.ack \in Nat
    BY NetTypes DEF PacketOK
  <2>2. StartPsn <= send_next_psn[e]
    <3>1. StartPsn <= tx_head[e] /\ tx_head[e] <= send_next_psn[e]
      BY <1>1 DEF SenderInv
    <3> QED BY <3>1, NumberTypes, Sizes
  <2>3. ASSUME NEW m \in net'[f]
        PROVE  /\ m.kind = "data" => StartPsn <= m.psn /\ m.psn < send_next_psn'[e]
               /\ m.kind \in {"data", "ack"} => m.ack <= recv_ack_psn'[e]
    <3>1. CASE m \in net[f]
      BY <1>1, <1>2, <1>3, <2>1, <3>1, Sizes DEF NetInv
    <3>2. CASE m \notin net[f]
      BY <1>2, <1>3, <2>2, <3>2 DEF SendNet
    <3> QED BY <3>1, <3>2
  <2> QED BY <2>3 DEF NetInv
<1>8. NetInv(f, e)'
  <2>1. net'[e] \subseteq net[e] /\ UNCHANGED <<send_next_psn[f], recv_ack_psn[f]>>
    BY DEF SendNet, SenderKept, Receives
  <2> QED BY <1>1, <2>1, Zenon DEF NetInv
<1>9. SenderInv(e)' /\ LinkInv(e, f)'
  BY DEF SenderAdvances
<1> QED BY <1>4, <1>5, <1>6, <1>7, <1>8, <1>9, InvIsPairInv DEF PairInv

\* A pass of the send loops posts at most one segment, inside the window.
LEMMA SendSegmentInv ==
    ASSUME Inv, NEW e \in Endpoint, SendSegment(e)
    PROVE  Inv'
<1> DEFINE f == Peer(e)
<1>1. f \in Endpoint /\ f # e /\ Endpoint = {e, f} /\ f = Peer(e)
  BY Peers
<1>2. TypeOK /\ PairInv(e, f)
  BY InvIsPairInv
<1> HIDE DEF f
<1>3. /\ SenderInv(e) /\ LinkInv(e, f) /\ LinkInv(f, e) /\ ReceiverInv(f, e)
  BY <1>2 DEF PairInv
<1>4. /\ UNCHANGED <<recv_ack_psn, recv_sack_min, recv_sack_max, recv_missing>>
      /\ UNCHANGED <<send_last_acked_psn, send_max_psn, tx_head, nLost>>
      /\ UNCHANGED <<delivered, acked, sacked>>
      /\ phase[e] = "tx" /\ WindowOpen(e) /\ SendDdpSegment(e, {}, FALSE)
  BY Zenon DEF SendSegment, recvVars, windowVars, histVars
<1>5. SendEffect(e, f)
  <2>1. recv_missing'[e] \in BOOLEAN /\ recv_ack_psn'[e] \in Nat
    BY <1>2, <1>4, ReceiverTypes
  <2> QED BY <1>1, <1>2, <1>3, <1>4, <2>1, SendEffects, Zenon
<1>6. TypeOK'
  <2>1. SendTypes /\ DOMAIN net' = Endpoint
    BY <1>5 DEF SendEffect, SendNet
  <2>2. \A x \in Endpoint : \A m \in net'[x] : PacketOK(m)
    BY <1>1, <1>2, <1>5, NetTypes DEF SendEffect, SendNet
  <2> QED BY <1>2, <1>4, <2>1, <2>2 DEF TypeOK, SendTypes
<1>7. send_next_psn[e] < send_last_acked_psn[e] + TxPendingSize
  <2>1. /\ send_next_psn[e] \in Nat /\ send_max_psn[e] \in Nat
        /\ send_last_acked_psn[e] \in Nat /\ tx_head[e] \in Nat
    BY <1>2, NumberTypes
  <2>2. /\ send_last_acked_psn[e] < send_max_psn[e]
        /\ send_max_psn[e] <= send_last_acked_psn[e] + TxPendingSize
        /\ send_next_psn[e] - send_last_acked_psn[e] < Half
        /\ send_last_acked_psn[e] <= tx_head[e] /\ tx_head[e] <= send_next_psn[e]
    BY <1>3, <1>4 DEF SenderInv
  <2>3. /\ send_next_psn[e] - send_max_psn[e] < Half
        /\ send_max_psn[e] - send_next_psn[e] < Half
    BY <2>1, <2>2, Sizes
  <2>4. send_next_psn[e] < send_max_psn[e]
    BY <1>4, <2>1, <2>3, SerialLessIsLess DEF WindowOpen
  <2> QED BY <2>1, <2>2, <2>4, Sizes
<1>8. SenderAdvances(e, f)
  <2>1. SweepsNothing(e, f) /\ TakesAck(e, f)
    <3>1. /\ Live(e)' => Live(e)
          /\ phase'[e] = "tx" => phase[e] = "tx"
      BY <1>4, <1>5 DEF Live, SendEffect, Appends, SendsNothing
    <3> QED BY <1>4, <3>1, Zenon DEF SweepsNothing, TakesAck
  <2>2. /\ send_next_psn[e] < recv_ack_psn[f] + TxPendingSize
        /\ send_next_psn[e] + 1 - send_last_acked_psn'[e] < Half
    <3>1. send_last_acked_psn[e] <= recv_ack_psn[f]
      BY <1>3 DEF LinkInv
    <3> QED BY <1>1, <1>2, <1>4, <1>7, <3>1, NumberTypes, Sizes
  <2>3. MayAppend(e, f)
    BY <1>5, <2>2, Zenon
       DEF SendEffect, Appends, SendsNothing, MayAppend, AppendsInWindow
  <2> QED BY <1>1, <1>2, <1>3, <2>1, <2>3, SenderStep
<1>9. SenderKept(f)
  BY <1>4, <1>5 DEF SendEffect, SenderKept
<1>10. Receives(e, f)
  <2>1. recv_ack_psn[e] <= send_next_psn[f] /\ recv_ack_psn[e] \in Nat
    BY <1>2, <1>3, NumberTypes DEF LinkInv
  <2> QED BY <1>2, <1>4, <2>1, ReceiverTypes DEF Receives
<1>11. ReceiverInv(f, e)'
  BY <1>3, <1>4, <1>9, Zenon DEF ReceiverInv, Received, SenderKept
<1> QED BY <1>1, <1>2, <1>5, <1>6, <1>8, <1>9, <1>10, <1>11, DuplexStep DEF SendEffect

\* Whatever becomes of a segment, at most one segment is sent in answer.
LEMMA DispatchEffect ==
    ASSUME TypeOK, NEW e \in Endpoint, NEW f \in Endpoint, f = Peer(e),
           SenderInv(e), NEW m,
           recv_missing' \in [Endpoint -> BOOLEAN], recv_ack_psn'[e] \in Nat,
           \/ Dispatch(e, m)
           \/ Exchange(e, {m}, {}) /\ UNCHANGED <<conn, phase, sendVars, ack_update>>
    PROVE  SendEffect(e, f)
<1>1. recv_missing'[e] \in BOOLEAN
  OBVIOUS
<1>2. ASSUME Exchange(e, {m}, {}), UNCHANGED <<conn, phase, sendVars>>,
             ack_update' \in [Endpoint -> BOOLEAN]
      PROVE  SendEffect(e, f)
  <2>1. SendTypes
    BY <1>2 DEF SendTypes, TypeOK, sendVars
  <2>2. /\ SendsNothing(e)
        /\ UNCHANGED <<conn[f], phase[f], send_next_psn[f], tx_pending[f]>>
    <3>1. UNCHANGED <<conn, phase, send_next_psn, tx_pending>>
      BY <1>2 DEF sendVars
    <3> QED BY <3>1 DEF SendsNothing
  <2>3. SendNet(e, f)
    <3>1. /\ DOMAIN net' = Endpoint
          /\ net'[e] \subseteq net[e] /\ net'[f] = net[f] \cup {}
      BY <1>2, ExchangeNet, Zenon
    <3> QED BY <3>1 DEF SendNet
  <2> QED BY <2>1, <2>2, <2>3 DEF SendEffect
<1>3. ASSUME Exchange(e, {m}, {}), UNCHANGED <<conn, phase, sendVars>>,
             ack_update' = [ack_update EXCEPT ![e] = TRUE]
      PROVE  SendEffect(e, f)
  <2>1. ack_update' \in [Endpoint -> BOOLEAN]
    BY <1>3, StateTypes
  <2> QED BY <1>2, <1>3, <2>1
<1>4. ASSUME Exchange(e, {m}, {}), UNCHANGED <<conn, phase, sendVars, ack_update>>
      PROVE  SendEffect(e, f)
  BY <1>2, <1>4, StateTypes
<1>5. ASSUME SendDdpSegment(e, {m}, TRUE)
      PROVE  SendEffect(e, f)
  BY <1>1, <1>5, SendEffects, Zenon
<1>6. ASSUME QpShutdown(e, {m}, TRUE), UNCHANGED phase
      PROVE  SendEffect(e, f)
  <2> DEFINE fin == FinPacket(e)
  <2>1. Exchange(e, {m}, {fin})
    BY <1>6 DEF QpShutdown
  <2>2. PacketOK(fin) /\ fin.kind = "fin" /\ fin.ack = recv_ack_psn'[e]
    BY NumberTypes DEF FinPacket, Packet, PacketOK, Kind
  <2> HIDE DEF fin
  <2>3. SendTypes
    BY <1>6 DEF QpShutdown, SendTypes, TypeOK, sendVars
  <2>4. /\ SendsNothing(e)
        /\ UNCHANGED <<conn[f], phase[f], send_next_psn[f], tx_pending[f]>>
    <3>1. UNCHANGED <<phase, send_next_psn, tx_pending>>
      BY <1>6 DEF QpShutdown, sendVars
    <3>2. conn'[f] = conn[f] /\ conn'[e] = "error"
      BY <1>6, Peers, StateTypes DEF QpShutdown
    <3> QED BY <3>1, <3>2 DEF SendsNothing
  <2>5. SendNet(e, f)
    BY <2>1, <2>2, ExchangeNet DEF SendNet
  <2> QED BY <2>3, <2>4, <2>5 DEF SendEffect
<1> QED BY <1>3, <1>4, <1>5, <1>6, Zenon DEF Dispatch

\* The acknowledgement that a segment carries.
WindowSlides(e, f, ack) ==
    /\ ack \in Nat /\ ack <= recv_ack_psn[f]
    /\ send_next_psn[e] - ack < Half - TxPendingSize
    /\ send_last_acked_psn' = [send_last_acked_psn EXCEPT ![e] = ack]
    /\ send_max_psn' = [send_max_psn EXCEPT ![e] = ack + TxPendingSize - 1]
    /\ UNCHANGED <<tx_head, nLost, acked, sacked>>

\* A segment that is received, with the acknowledgement it carries and the
\* answer it may provoke, preserves the invariant.
LEMMA SegmentStep ==
    ASSUME TypeOK, NEW e \in Endpoint, NEW f \in Endpoint, f = Peer(e),
           PairInv(e, f), phase[e] = "rx", NEW ack, WindowSlides(e, f, ack),
           SendEffect(e, f), Receives(e, f), ReceiverInv(f, e)'
    PROVE  Inv'
<1>1. f # e /\ Endpoint = {e, f}
  BY Peers
<1>2. SenderInv(e) /\ LinkInv(e, f)
  BY DEF PairInv
<1>3. /\ SendTypes /\ SendNet(e, f) /\ (Appends(e) \/ SendsNothing(e))
      /\ UNCHANGED <<conn[f], phase[f], send_next_psn[f], tx_pending[f]>>
  BY DEF SendEffect
<1>4. /\ send_last_acked_psn' \in [Endpoint -> Nat]
      /\ send_max_psn' \in [Endpoint -> Nat]
      /\ send_last_acked_psn'[e] = ack /\ send_max_psn'[e] = ack + TxPendingSize - 1
      /\ UNCHANGED <<send_last_acked_psn[f], send_max_psn[f]>>
  <2>1. /\ send_last_acked_psn \in [Endpoint -> Nat]
        /\ send_max_psn \in [Endpoint -> Nat]
    BY DEF TypeOK
  <2>2. ack \in Nat /\ ack + TxPendingSize - 1 \in Nat
    BY Sizes DEF WindowSlides
  <2> QED BY <1>1, <2>1, <2>2 DEF WindowSlides
<1>5. TypeOK'
  <2>1. DOMAIN net' = Endpoint /\ \A x \in Endpoint : \A k \in net'[x] : PacketOK(k)
    BY <1>1, <1>3, NetTypes DEF SendNet
  <2>2. UNCHANGED <<tx_head, nLost, acked, sacked>>
    BY DEF WindowSlides
  <2> QED BY <1>3, <1>4, <2>1, <2>2, Zenon DEF TypeOK, Receives, SendTypes
<1>6. SweepsNothing(e, f)
  <2>1. UNCHANGED <<tx_head[e], acked[e], recv_ack_psn[f]>>
    BY DEF Receives, WindowSlides
  <2>2. /\ Live(e)' => Live(e)
        /\ phase'[e] = "tx" => phase[e] = "tx"
    BY <1>3 DEF Live, Appends, SendsNothing
  <2> QED BY <2>1, <2>2 DEF SweepsNothing
<1>7. TakesAck(e, f)
  BY <1>4 DEF TakesAck, WindowSlides
<1>8. MayAppend(e, f)
  <2>1. CASE SendsNothing(e)
    BY <2>1 DEF SendsNothing, MayAppend
  <2>2. CASE Appends(e)
    <3>1. tx_head[e] <= recv_ack_psn[f]
      BY <1>2 DEF LinkInv, Live
    <3>2. /\ send_next_psn[e] < recv_ack_psn[f] + TxPendingSize
          /\ send_next_psn[e] + 1 - send_last_acked_psn'[e] < Half
      <4>1. /\ send_next_psn[e] < tx_head[e] + TxPendingSize
            /\ ack \in Nat /\ send_next_psn[e] - ack < Half - TxPendingSize
        BY <2>2 DEF Appends, WindowSlides
      <4> QED BY <1>4, <3>1, <4>1, NumberTypes, Sizes
    <3> QED BY <2>2, <3>2, Zenon DEF Appends, MayAppend, AppendsInWindow
  <2> QED BY <1>3, <2>1, <2>2
<1>9. SenderAdvances(e, f)
  BY <1>2, <1>6, <1>7, <1>8, SenderStep
<1>10. SenderKept(f)
  BY <1>3, <1>4 DEF SenderKept, WindowSlides
<1> QED BY <1>3, <1>5, <1>9, <1>10, DuplexStep

\* process_data_packet on a segment, accepted or dropped.
LEMMA ReceiveSegmentInv ==
    ASSUME Inv, NEW e \in Endpoint, NEW m \in Arriving(e), phase[e] = "rx",
           ReceiveSegment(e, m), UNCHANGED <<tx_head, nLost>>
    PROVE  Inv'
<1> DEFINE f == Peer(e)
<1>1. f \in Endpoint /\ f # e /\ f = Peer(e)
  BY Peers
<1>2. TypeOK /\ PairInv(e, f)
  BY InvIsPairInv
<1> HIDE DEF f
<1>3. /\ SenderInv(e) /\ SenderInv(f) /\ LinkInv(f, e) /\ ReceiverInv(f, e)
      /\ NetInv(f, e)
  BY <1>2 DEF PairInv
<1>4. /\ m.ack \in Nat /\ m.psn \in Nat
      /\ m.ack <= recv_ack_psn[f] /\ StartPsn <= m.psn /\ m.psn < send_next_psn[f]
      /\ send_next_psn[e] - m.ack < Half - TxPendingSize
      /\ recv_ack_psn[e] - m.psn < Half
  <2>1. m \in net[e] /\ m.kind = "data" /\ Fresh(e, m)
    BY DEF Arriving, ReceiveSegment
  <2>2. PacketOK(m)
    BY <1>2, <2>1, NetTypes
  <2> QED BY <1>3, <2>1, <2>2 DEF Fresh, PacketOK, NetInv
<1>5. WindowSlides(e, f, m.ack)
  BY <1>4 DEF ReceiveSegment, UpdateWindow, NewSendMax, WindowSlides
<1>6. ASSUME SendEffect(e, f), Receives(e, f), ReceiverInv(f, e)'
      PROVE  Inv'
  BY <1>1, <1>2, <1>5, <1>6, SegmentStep, Zenon
<1>7. CASE /\ Accept(e, m.psn) /\ Dispatch(e, m)
           /\ delivered' = [delivered EXCEPT ![e][m.psn] = @ + 1]
  <2>1. send_next_psn'[f] = send_next_psn[f]
    <3>1. \/ send_next_psn' = send_next_psn
          \/ send_next_psn' = [send_next_psn EXCEPT ![e] = send_next_psn[e] + 1]
      BY <1>7, Zenon DEF Dispatch, SendDdpSegment, QpShutdown, sendVars
    <3>2. send_next_psn \in [Endpoint -> Nat]
      BY <1>2 DEF TypeOK
    <3> QED BY <1>1, <3>1, <3>2
  <2>2. Receives(e, f) /\ ReceiverInv(f, e)'
    BY <1>1, <1>2, <1>3, <1>4, <1>7, <2>1, AcceptStep, Zenon
  <2>3. recv_missing' \in [Endpoint -> BOOLEAN] /\ recv_ack_psn'[e] \in Nat
    BY <2>2 DEF Receives
  <2>4. SendEffect(e, f)
    BY <1>1, <1>2, <1>3, <1>7, <2>3, DispatchEffect, Zenon
  <2> QED BY <1>6, <2>2, <2>4
<1>8. CASE /\ Drop(e, m.psn) /\ Exchange(e, {m}, {})
           /\ UNCHANGED <<conn, phase, sendVars, ack_update, delivered>>
  <2>1. UNCHANGED <<recv_ack_psn, recv_sack_min, recv_sack_max, recv_missing,
                    delivered>>
    BY <1>8, Zenon DEF Drop, recvVars
  <2>2. Receives(e, f)
    <3>1. recv_ack_psn[e] <= send_next_psn[f] /\ recv_ack_psn[e] \in Nat
      BY <1>2, <1>3, NumberTypes DEF LinkInv
    <3> QED BY <1>2, <2>1, <3>1, ReceiverTypes DEF Receives
  <2>3. recv_missing' \in [Endpoint -> BOOLEAN] /\ recv_ack_psn'[e] \in Nat
    BY <2>2 DEF Receives
  <2>4. SendEffect(e, f)
    BY <1>1, <1>2, <1>3, <1>8, <2>3, DispatchEffect
  <2>5. send_next_psn'[f] = send_next_psn[f]
    BY <1>8 DEF sendVars
  <2>6. ReceiverInv(f, e)'
    BY <1>3, <2>1, <2>5, Zenon DEF ReceiverInv, Received
  <2> QED BY <1>6, <2>2, <2>4, <2>6
<1> QED BY <1>7, <1>8, Zenon DEF ReceiveSegment

==============================================================================
