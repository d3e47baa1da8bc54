---------------------------- MODULE TrpReceiving -----------------------------
(***************************************************************************)
(* The receiver of TRP, and the steps that leave the sequence numbers alone,*)
(* preserve Inv: for any window, any faults and PSNs that wrap around.      *)
(***************************************************************************)
EXTENDS Trp, SerialTheorems

\* A connection has two ends.
LEMMA Peers ==
    ASSUME NEW e \in Endpoint
    PROVE  /\ Peer(e) \in Endpoint /\ Peer(e) # e /\ Peer(Peer(e)) = e
           /\ Endpoint = {e, Peer(e)}
  BY TrpAssumption DEF Peer, Endpoint

\* The parts of the assumption that arithmetic needs.
LEMMA Sizes ==
    /\ TxPendingSize \in Nat /\ TxPendingSize > 1
    /\ Half \in Nat /\ Half > 2 * TxPendingSize
    /\ StartPsn \in Nat /\ MaxLoad \in Nat
    /\ \A e \in Endpoint : Load[e] \in Nat /\ Load[e] <= MaxLoad
  BY TrpAssumption, HalfAssumption

\* TypeOK, in the pieces that the proofs below need.
LEMMA NumberTypes ==
    ASSUME TypeOK, NEW e \in Endpoint
    PROVE  /\ send_next_psn[e] \in Nat /\ send_last_acked_psn[e] \in Nat
           /\ send_max_psn[e] \in Nat /\ tx_head[e] \in Nat
           /\ recv_ack_psn[e] \in Nat
           /\ recv_sack_min[e] \in Nat /\ recv_sack_max[e] \in Nat
  BY DEF TypeOK

LEMMA ReceiverTypes ==
    ASSUME TypeOK
    PROVE  /\ recv_ack_psn \in [Endpoint -> Nat]
           /\ recv_sack_min \in [Endpoint -> Nat]
           /\ recv_sack_max \in [Endpoint -> Nat]
           /\ recv_missing \in [Endpoint -> BOOLEAN]
           /\ delivered \in [Endpoint -> [Index -> Nat]]
  BY DEF TypeOK

LEMMA StateTypes ==
    ASSUME TypeOK
    PROVE  /\ conn \in [Endpoint -> {"running", "error", "assert", "crashed"}]
           /\ phase \in [Endpoint -> {"rx", "tx", "shutdown", "done"}]
           /\ ack_update \in [Endpoint -> BOOLEAN]
           /\ nLost \in 0 .. MaxLoss /\ sacked \in [Endpoint -> SUBSET Nat]
  BY DEF TypeOK

LEMMA NetTypes ==
    ASSUME TypeOK
    PROVE  /\ DOMAIN net = Endpoint
           /\ \A e \in Endpoint : \A m \in net[e] : PacketOK(m)
  BY DEF TypeOK

\* The invariant seen from one endpoint and its peer.
PairInv(e, f) ==
    /\ SenderInv(e) /\ LinkInv(e, f) /\ ReceiverInv(e, f) /\ NetInv(e, f)
    /\ SenderInv(f) /\ LinkInv(f, e) /\ ReceiverInv(f, e) /\ NetInv(f, e)

\* Inv quantifies over the ends: naming one of them names the other.
LEMMA InvIsPairInv ==
    ASSUME NEW e \in Endpoint
    PROVE  /\ Inv <=> TypeOK /\ PairInv(e, Peer(e))
           /\ Inv' <=> TypeOK' /\ PairInv(e, Peer(e))'
  BY Peers DEF Inv, PairInv

\* Everything a step of e puts on the network is in "out".
LEMMA ExchangeNet ==
    ASSUME TypeOK, NEW e \in Endpoint, NEW in, NEW out, Exchange(e, in, out)
    PROVE  /\ DOMAIN net' = Endpoint
           /\ net'[e] \subseteq net[e]
           /\ net'[Peer(e)] = net[Peer(e)] \cup out
  BY Peers, NetTypes DEF Exchange

\* The state after the handshake satisfies the invariant.
LEMMA InitInv == Init => Inv
<1> SUFFICES ASSUME Init PROVE Inv
  OBVIOUS
<1>1. TypeOK
  BY TrpAssumption DEF Init, TypeOK, Index
<1>2. ASSUME NEW e \in Endpoint, NEW f \in Endpoint
      PROVE  SenderInv(e) /\ LinkInv(e, f) /\ ReceiverInv(e, f) /\ NetInv(e, f)
  <2>1. SenderInv(e)
    BY Sizes DEF Init, SenderInv, Live
  <2>2. LinkInv(e, f)
    BY Sizes DEF Init, LinkInv
  <2>3. ReceiverInv(e, f)
    BY TrpAssumption DEF Init, ReceiverInv, Received, Index
  <2>4. NetInv(e, f)
    BY DEF Init, NetInv
  <2> QED BY <2>1, <2>2, <2>3, <2>4
<1> QED BY <1>1, <1>2, Peers DEF Inv

------------------------------------------------------------------------------
\* The receiver.

\* The tests of process_data_packet are exact for a packet e may receive.
LEMMA ReceiverTests ==
    ASSUME TypeOK, NEW e \in Endpoint, NEW f \in Endpoint,
           LinkInv(f, e), ReceiverInv(f, e),
           NEW psn \in Nat, psn < send_next_psn[f], recv_ack_psn[e] - psn < Half
    PROVE  /\ SamePsn(psn, recv_ack_psn[e]) <=> psn = recv_ack_psn[e]
           /\ SerialLess(recv_ack_psn[e], psn) <=> recv_ack_psn[e] < psn
           /\ recv_missing[e] =>
                  (SamePsn(recv_ack_psn[e] + 1, recv_sack_min[e])
                      <=> recv_ack_psn[e] + 1 = recv_sack_min[e])
           /\ recv_missing[e] /\ recv_ack_psn[e] < psn =>
                  /\ SamePsn(psn, recv_sack_max[e]) <=> psn = recv_sack_max[e]
                  /\ SamePsn(psn + 1, recv_sack_min[e])
                         <=> psn + 1 = recv_sack_min[e]
<1>1. /\ recv_ack_psn[e] \in Nat /\ recv_sack_min[e] \in Nat
      /\ recv_sack_max[e] \in Nat /\ send_next_psn[f] \in Nat
      /\ send_next_psn[f] <= recv_ack_psn[e] + TxPendingSize
      /\ recv_missing[e] => /\ recv_ack_psn[e] < recv_sack_min[e]
                            /\ recv_sack_min[e] < recv_sack_max[e]
                            /\ recv_sack_max[e] <= send_next_psn[f]
  BY NumberTypes DEF LinkInv, ReceiverInv
<1>2. SamePsn(psn, recv_ack_psn[e]) <=> psn = recv_ack_psn[e]
  BY <1>1, SamePsnIsEqual, Sizes
<1>3. SerialLess(recv_ack_psn[e], psn) <=> recv_ack_psn[e] < psn
  BY <1>1, SerialLessIsLess, Sizes
<1>4. ASSUME recv_missing[e]
      PROVE  SamePsn(recv_ack_psn[e] + 1, recv_sack_min[e])
                 <=> recv_ack_psn[e] + 1 = recv_sack_min[e]
  <2>1. /\ recv_ack_psn[e] + 1 - recv_sack_min[e] < Half
        /\ recv_sack_min[e] - (recv_ack_psn[e] + 1) < Half
    BY <1>1, <1>4, Sizes
  <2> QED BY <1>1, <2>1, SamePsnIsEqual
<1>5. ASSUME recv_missing[e], recv_ack_psn[e] < psn
      PROVE  /\ SamePsn(psn, recv_sack_max[e]) <=> psn = recv_sack_max[e]
             /\ SamePsn(psn + 1, recv_sack_min[e]) <=> psn + 1 = recv_sack_min[e]
  <2>1. /\ psn - recv_sack_max[e] < Half /\ recv_sack_max[e] - psn < Half
        /\ psn + 1 - recv_sack_min[e] < Half /\ recv_sack_min[e] - (psn + 1) < Half
    BY <1>1, <1>5, Sizes
  <2>2. SamePsn(psn, recv_sack_max[e]) <=> psn = recv_sack_max[e]
    BY <1>1, <2>1, SamePsnIsEqual
  <2>3. SamePsn(psn + 1, recv_sack_min[e]) <=> psn + 1 = recv_sack_min[e]
    BY <1>1, <2>1, SamePsnIsEqual
  <2> QED BY <2>2, <2>3
<1> QED BY <1>2, <1>3, <1>4, <1>5

\* What a segment from f does to the receiver at e, whether accepted or dropped:
\* the cumulative PSN moves forward only, and never past what f has sent.
Receives(e, f) ==
    /\ recv_ack_psn' \in [Endpoint -> Nat]
    /\ recv_sack_min' \in [Endpoint -> Nat]
    /\ recv_sack_max' \in [Endpoint -> Nat]
    /\ recv_missing' \in [Endpoint -> BOOLEAN]
    /\ delivered' \in [Endpoint -> [Index -> Nat]]
    /\ UNCHANGED <<recv_ack_psn[f], recv_sack_min[f], recv_sack_max[f],
                   recv_missing[f], delivered[f]>>
    /\ recv_ack_psn[e] <= recv_ack_psn'[e]
    /\ recv_ack_psn'[e] <= send_next_psn[f]

\* Accepting a segment keeps the receiver's numbers exact.
LEMMA AcceptStep ==
    ASSUME TypeOK, NEW e \in Endpoint, NEW f \in Endpoint, f # e,
           SenderInv(f), LinkInv(f, e), ReceiverInv(f, e),
           NEW psn \in Nat, StartPsn <= psn, psn < send_next_psn[f],
           recv_ack_psn[e] - psn < Half,
           Accept(e, psn),
           delivered' = [delivered EXCEPT ![e][psn] = @ + 1],
           send_next_psn'[f] = send_next_psn[f]
    PROVE  Receives(e, f) /\ ReceiverInv(f, e)'
<1>1. /\ recv_ack_psn \in [Endpoint -> Nat] /\ recv_sack_min \in [Endpoint -> Nat]
      /\ recv_sack_max \in [Endpoint -> Nat] /\ send_next_psn[f] \in Nat
      /\ recv_missing \in [Endpoint -> BOOLEAN]
      /\ recv_ack_psn[e] <= send_next_psn[f]
      /\ recv_missing[e] => /\ recv_ack_psn[e] < recv_sack_min[e]
                            /\ recv_sack_min[e] < recv_sack_max[e]
                            /\ recv_sack_max[e] <= send_next_psn[f]
  BY ReceiverTypes, NumberTypes DEF LinkInv, ReceiverInv
<1>2. psn \in Index
  <2>1. send_next_psn[f] <= StartPsn + Load[f]
    BY DEF SenderInv
  <2> QED BY <1>1, <2>1, Sizes DEF Index
<1>3. /\ delivered' \in [Endpoint -> [Index -> Nat]]
      /\ delivered'[f] = delivered[f]
      /\ \A p \in Index : delivered'[e][p] = IF p = psn THEN delivered[e][p] + 1
                                             ELSE delivered[e][p]
  BY <1>2, ReceiverTypes
<1> DEFINE Frame ==
      /\ recv_ack_psn' \in [Endpoint -> Nat] /\ recv_sack_min' \in [Endpoint -> Nat]
      /\ recv_sack_max' \in [Endpoint -> Nat]
      /\ recv_missing' \in [Endpoint -> BOOLEAN]
      /\ UNCHANGED <<recv_ack_psn[f], recv_sack_min[f], recv_sack_max[f],
                     recv_missing[f]>>
      Exact ==
      /\ recv_ack_psn[e] <= recv_ack_psn'[e] /\ recv_ack_psn'[e] <= send_next_psn[f]
      /\ recv_missing'[e] => /\ recv_ack_psn'[e] < recv_sack_min'[e]
                             /\ recv_sack_min'[e] < recv_sack_max'[e]
                             /\ recv_sack_max'[e] <= send_next_psn[f]
      /\ ~Received(e, psn)
      /\ \A p \in Index : Received(e, p)' <=> Received(e, p) \/ p = psn
<1>4. Frame /\ Exact
  <2>1. CASE AcceptInOrder(e, psn)
    <3>1. psn = recv_ack_psn[e]
      BY <2>1, ReceiverTests DEF AcceptInOrder
    <3>2. CASE recv_missing[e] /\ recv_ack_psn[e] + 1 = recv_sack_min[e]
      <4>1. /\ recv_ack_psn' = [recv_ack_psn EXCEPT ![e] = recv_sack_max[e]]
            /\ recv_missing' = [recv_missing EXCEPT ![e] = FALSE]
            /\ UNCHANGED <<recv_sack_min, recv_sack_max>>
        BY <1>1, <2>1, <3>2, ReceiverTests, Zenon DEF AcceptInOrder, Joins
      <4> QED BY <1>1, <3>1, <3>2, <4>1 DEF Received, Index
    <3>3. CASE ~(recv_missing[e] /\ recv_ack_psn[e] + 1 = recv_sack_min[e])
      <4>1. ~Joins(e, recv_ack_psn[e] + 1)
        BY <3>3, ReceiverTests DEF Joins
      <4>2. /\ recv_ack_psn' = [recv_ack_psn EXCEPT ![e] = recv_ack_psn[e] + 1]
            /\ UNCHANGED <<recv_missing, recv_sack_min, recv_sack_max>>
        BY <1>1, <2>1, <4>1 DEF AcceptInOrder
      <4> QED BY <1>1, <3>1, <3>3, <4>2 DEF Received, Index
    <3> QED BY <3>2, <3>3
  <2>2. CASE AcceptGap(e, psn)
    <3>1. recv_ack_psn[e] < psn /\ ~recv_missing[e]
      BY <2>2, ReceiverTests DEF AcceptGap
    <3>2. /\ recv_missing' = [recv_missing EXCEPT ![e] = TRUE]
          /\ recv_sack_min' = [recv_sack_min EXCEPT ![e] = psn]
          /\ recv_sack_max' = [recv_sack_max EXCEPT ![e] = psn + 1]
          /\ UNCHANGED recv_ack_psn
      BY <2>2 DEF AcceptGap
    <3> QED BY <1>1, <3>1, <3>2 DEF Received, Index
  <2>3. CASE AcceptAbove(e, psn)
    <3>1. recv_ack_psn[e] < psn /\ recv_missing[e] /\ psn = recv_sack_max[e]
      BY <2>3, ReceiverTests DEF AcceptAbove
    <3>2. /\ recv_sack_max' = [recv_sack_max EXCEPT ![e] = psn + 1]
          /\ UNCHANGED <<recv_ack_psn, recv_sack_min, recv_missing>>
      BY <2>3 DEF AcceptAbove
    <3> QED BY <1>1, <3>1, <3>2 DEF Received, Index
  <2>4. CASE AcceptBelow(e, psn)
    <3>1. recv_ack_psn[e] < psn /\ recv_missing[e] /\ psn + 1 = recv_sack_min[e]
      BY <2>4, ReceiverTests DEF AcceptBelow
    <3>2. ~SamePsn(psn, recv_ack_psn[e])
      BY <1>1, <3>1, ReceiverTests
    <3>3. /\ recv_sack_min' = [recv_sack_min EXCEPT ![e] = psn]
          /\ recv_ack_psn' = [recv_ack_psn EXCEPT ![e] = recv_ack_psn[e]]
          /\ recv_missing' = [recv_missing EXCEPT ![e] = TRUE]
          /\ UNCHANGED recv_sack_max
      BY <2>4, <3>2, Zenon DEF AcceptBelow
    <3> QED BY <1>1, <3>1, <3>3 DEF Received, Index
  <2> QED BY <2>1, <2>2, <2>3, <2>4 DEF Accept
<1> HIDE DEF Frame
<1>5. \A p \in Index : delivered'[e][p] = IF Received(e, p)' THEN 1 ELSE 0
  <2>1. \A p \in Index : delivered[e][p] = IF Received(e, p) THEN 1 ELSE 0
    BY DEF ReceiverInv
  <2>2. \A p \in Index : /\ Received(e, p)' <=> Received(e, p) \/ p = psn
                         /\ p = psn => ~Received(e, p)
    BY <1>4
  <2> QED BY <1>3, <2>1, <2>2
<1>6. ReceiverInv(f, e)'
  BY <1>4, <1>5 DEF ReceiverInv
<1> QED BY <1>3, <1>4, <1>6 DEF Receives, Frame

\* An ACK slides the window and leaves the rest of the sender alone.
LEMMA ReceiveAckInv ==
    ASSUME Inv, NEW e \in Endpoint, NEW m \in Arriving(e),
           ReceiveAck(e, m), UNCHANGED <<tx_head, nLost>>, phase[e] = "rx"
    PROVE  Inv'
<1> DEFINE f == Peer(e)
<1>1. f \in Endpoint /\ f # e /\ Endpoint = {e, f}
  BY Peers
<1>2. TypeOK /\ PairInv(e, f)
  BY InvIsPairInv
<1> HIDE DEF f
<1>3. /\ SenderInv(e) /\ LinkInv(e, f) /\ ReceiverInv(e, f) /\ NetInv(e, f)
      /\ SenderInv(f) /\ LinkInv(f, e) /\ ReceiverInv(f, e) /\ NetInv(f, e)
  BY <1>2 DEF PairInv
<1>4. m \in net[e] /\ m.kind = "ack" /\ m.ack \in Nat /\ m.ack <= recv_ack_psn[f]
      /\ send_next_psn[e] - m.ack < Half - TxPendingSize
  <2>1. m \in net[e] /\ m.kind = "ack" /\ Fresh(e, m)
    BY DEF Arriving, ReceiveAck
  <2>2. PacketOK(m)
    BY <1>2, <2>1, NetTypes
  <2> QED BY <1>3, <2>1, <2>2 DEF Fresh, PacketOK, NetInv
<1>5. /\ send_last_acked_psn' = [send_last_acked_psn EXCEPT ![e] = m.ack]
      /\ send_max_psn' = [send_max_psn EXCEPT ![e] = m.ack + TxPendingSize - 1]
      /\ Exchange(e, {m}, {})
      /\ UNCHANGED <<conn, phase, sendVars, tx_head, recvVars, ack_update, nLost,
                     histVars>>
  BY DEF ReceiveAck, UpdateWindow, NewSendMax
<1>6. /\ DOMAIN net' = Endpoint /\ net'[e] \subseteq net[e] /\ net'[f] = net[f]
  <2>1. /\ DOMAIN net' = Endpoint
        /\ net'[e] \subseteq net[e] /\ net'[f] = net[f] \cup {}
    BY <1>2, <1>5, ExchangeNet, Zenon DEF f
  <2> QED BY <2>1
<1>7. TypeOK'
  <2>1. \A x \in Endpoint : \A k \in net'[x] : PacketOK(k)
    BY <1>1, <1>2, <1>6, NetTypes
  <2>2. m.ack + TxPendingSize - 1 \in Nat
    BY <1>4, Sizes
  <2> QED BY <1>2, <1>4, <1>5, <1>6, <2>1, <2>2
          DEF TypeOK, sendVars, recvVars, histVars
<1>8. /\ UNCHANGED <<send_next_psn, tx_head, tx_pending, acked, delivered>>
      /\ UNCHANGED <<recv_ack_psn, recv_sack_min, recv_sack_max, recv_missing>>
      /\ \A x \in Endpoint : UNCHANGED phase[x] /\ Live(x)' = Live(x)
  BY <1>5 DEF sendVars, recvVars, histVars, Live
<1>9. /\ send_last_acked_psn'[e] = m.ack
      /\ send_max_psn'[e] = m.ack + TxPendingSize - 1
      /\ UNCHANGED <<send_last_acked_psn[f], send_max_psn[f]>>
  <2>1. /\ send_last_acked_psn \in [Endpoint -> Nat]
        /\ send_max_psn \in [Endpoint -> Nat]
    BY <1>2 DEF TypeOK
  <2> QED BY <1>1, <1>5, <2>1
<1>10. SenderInv(e)'
  <2>1. tx_head[e] <= send_next_psn[e]
    BY <1>3 DEF SenderInv
  <2>2. /\ m.ack < m.ack + TxPendingSize - 1
        /\ m.ack + TxPendingSize - 1 <= m.ack + TxPendingSize
        /\ send_next_psn[e] - m.ack < Half
        /\ tx_head[e] - m.ack < Half - TxPendingSize
    BY <1>2, <1>4, <2>1, Sizes, NumberTypes
  <2> QED BY <1>3, <1>8, <1>9, <2>2 DEF SenderInv
<1>11. SenderInv(f)'
  BY <1>1, <1>3, <1>8, <1>9 DEF SenderInv
<1>12. LinkInv(e, f)' /\ LinkInv(f, e)'
  <2>1. LinkInv(e, f)'
    BY <1>3, <1>4, <1>8, <1>9 DEF LinkInv
  <2>2. LinkInv(f, e)'
    BY <1>1, <1>3, <1>8, <1>9 DEF LinkInv
  <2> QED BY <2>1, <2>2
<1>13. ReceiverInv(e, f)' /\ ReceiverInv(f, e)'
  BY <1>3, <1>8, Zenon DEF ReceiverInv, Received
<1>14. NetInv(e, f)' /\ NetInv(f, e)'
  BY <1>3, <1>6, <1>8, Zenon DEF NetInv
<1> QED BY <1>7, <1>10, <1>11, <1>12, <1>13, <1>14, InvIsPairInv DEF PairInv, f

------------------------------------------------------------------------------
\* Steps that leave the numbers alone.

NumbersKept ==
    UNCHANGED <<sendVars, windowVars, tx_head, recvVars, delivered, acked>>

StateTypesKept ==
    /\ conn' \in [Endpoint -> {"running", "error", "assert", "crashed"}]
    /\ phase' \in [Endpoint -> {"rx", "tx", "shutdown", "done"}]
    /\ ack_update' \in [Endpoint -> BOOLEAN]
    /\ nLost' \in 0 .. MaxLoss /\ sacked' \in [Endpoint -> SUBSET Nat]

\* No end comes back to life or starts its send loops.
NoneRevived ==
    \A x \in Endpoint : /\ Live(x)' => Live(x)
                        /\ phase'[x] = "tx" => phase[x] = "tx"

\* What is new on the network is no segment, and an ACK is up to date.
NoSegmentSent ==
    /\ DOMAIN net' = Endpoint
    /\ \A x \in Endpoint : \A m \in net'[x] :
           m \in net[x] \/ /\ PacketOK(m) /\ m.kind # "data"
                           /\ m.kind = "ack" => m.ack = recv_ack_psn[Peer(x)]

\* Such a step preserves the invariant, whatever else it does.
LEMMA NumbersUnchanged ==
    ASSUME Inv, NumbersKept, StateTypesKept, NoneRevived, NoSegmentSent
    PROVE  Inv'
<1>1. TypeOK
  BY DEF Inv
<1>2. TypeOK'
  <2>1. DOMAIN net' = Endpoint /\ \A x \in Endpoint : \A m \in net'[x] : PacketOK(m)
    BY <1>1, NetTypes DEF NoSegmentSent
  <2> QED BY <1>1, <2>1
          DEF NumbersKept, StateTypesKept, TypeOK, sendVars, windowVars, recvVars
<1>3. /\ UNCHANGED <<send_next_psn, send_last_acked_psn, send_max_psn, tx_head,
                     tx_pending>>
      /\ UNCHANGED <<recv_ack_psn, recv_sack_min, recv_sack_max, recv_missing>>
      /\ UNCHANGED <<delivered, acked>>
  BY DEF NumbersKept, sendVars, windowVars, recvVars
<1>4. ASSUME NEW e \in Endpoint, NEW f \in Endpoint, f = Peer(e)
      PROVE  (SenderInv(e) /\ LinkInv(e, f) /\ ReceiverInv(e, f) /\ NetInv(e, f))'
  <2>1. Peer(f) = e
    BY <1>4, Peers
  <2>2. SenderInv(e) /\ LinkInv(e, f) /\ ReceiverInv(e, f) /\ NetInv(e, f)
    BY <1>4 DEF Inv
  <2>3. /\ Live(e)' => Live(e)
        /\ phase'[e] = "tx" => phase[e] = "tx"
    BY DEF NoneRevived
  <2>4. SenderInv(e)'
    BY <1>3, <2>2, <2>3 DEF SenderInv
  <2>5. LinkInv(e, f)'
    BY <1>3, <2>2, <2>3 DEF LinkInv
  <2>6. ReceiverInv(e, f)'
    BY <1>3, <2>2, Zenon DEF ReceiverInv, Received
  <2>7. NetInv(e, f)'
    <3>1. recv_ack_psn[e] \in Nat
      BY <1>1, NumberTypes
    <3>2. \A m \in net'[f] : m \in net[f] \/ /\ m.kind # "data"
                                             /\ m.kind = "ack" => m.ack = recv_ack_psn[e]
      BY <2>1 DEF NoSegmentSent
    <3> QED BY <1>3, <2>2, <3>1, <3>2 DEF NetInv
  <2> QED BY <2>4, <2>5, <2>6, <2>7
<1> QED BY <1>2, <1>4, Peers DEF Inv

\* The network loses a packet.
LEMMA LoseInv ==
    ASSUME Inv, NEW e \in Endpoint, NEW m \in net[e], Lose(e, m)
    PROVE  Inv'
<1>1. TypeOK
  BY DEF Inv
<1>2. NumbersKept
  BY DEF Lose, histVars, NumbersKept
<1>3. StateTypesKept
  <2>1. nLost' \in 0 .. MaxLoss
    <3>1. MaxLoss \in Nat
      BY TrpAssumption
    <3> QED BY <1>1, <3>1, StateTypes DEF Lose
  <2> QED BY <1>1, <2>1, StateTypes DEF Lose, histVars, StateTypesKept
<1>4. NoneRevived
  BY DEF Lose, NoneRevived, Live
<1>5. NoSegmentSent
  BY <1>1, NetTypes DEF Lose, NoSegmentSent
<1> QED BY <1>2, <1>3, <1>4, <1>5, NumbersUnchanged

\* The end of a pass of the progress thread, with the ACK or SACK it may send.
LEMMA EndTxInv ==
    ASSUME Inv, NEW e \in Endpoint, EndTx(e)
    PROVE  Inv'
<1>1. TypeOK /\ Peer(e) \in Endpoint /\ Peer(e) # e /\ Endpoint = {e, Peer(e)}
      /\ Peer(Peer(e)) = e
  BY Peers DEF Inv
<1>2. NumbersKept
  BY DEF EndTx, histVars, NumbersKept
<1>3. StateTypesKept
  BY <1>1, StateTypes DEF EndTx, histVars, StateTypesKept
<1>4. NoneRevived
  BY <1>1, StateTypes DEF EndTx, NoneRevived, Live
<1> DEFINE out ==
      IF ~ack_update[e] THEN {}
      ELSE {IF recv_missing[e] THEN SackPacket(e) ELSE AckPacket(e)}
<1>5. /\ Exchange(e, {}, out)
      /\ \A m \in out : /\ PacketOK(m) /\ m.kind # "data"
                        /\ m.kind = "ack" => m.ack = recv_ack_psn[e]
  <2>1. Exchange(e, {}, out)
    BY DEF EndTx
  <2>2. /\ recv_sack_min[e] \in Nat /\ recv_sack_max[e] \in Nat
        /\ send_next_psn[e] \in Nat /\ recv_ack_psn[e] \in Nat
    BY <1>1, NumberTypes
  <2> DEFINE sack == SackPacket(e)
             ack == AckPacket(e)
  <2>3. PacketOK(sack) /\ sack.kind = "sack"
    BY <2>2 DEF SackPacket, Packet, PacketOK, Kind
  <2>4. PacketOK(ack) /\ ack.kind = "ack" /\ ack.ack = recv_ack_psn[e]
    BY <2>2 DEF AckPacket, Packet, PacketOK, Kind
  <2>5. out = {} \/ out = {sack} \/ out = {ack}
    BY Zenon
  <2> HIDE DEF out, sack, ack
  <2> QED BY <2>1, <2>3, <2>4, <2>5
<1> HIDE DEF out
<1>6. /\ DOMAIN net' = Endpoint
      /\ net'[e] \subseteq net[e] /\ net'[Peer(e)] = net[Peer(e)] \cup out
  BY <1>1, <1>5, ExchangeNet
<1>7. NoSegmentSent
  BY <1>1, <1>5, <1>6 DEF NoSegmentSent
<1> QED BY <1>2, <1>3, <1>4, <1>7, NumbersUnchanged

\* Shutdown and ReceiveFin.
LEMMA QpShutdownInv ==
    ASSUME Inv, NEW e \in Endpoint, NEW in, QpShutdown(e, in, FALSE),
           UNCHANGED <<windowVars, tx_head, recvVars, nLost, histVars>>,
           \/ phase[e] = "rx" /\ phase' = phase
           \/ phase[e] = "shutdown" /\ phase' = [phase EXCEPT ![e] = "done"]
    PROVE  Inv'
<1>1. TypeOK /\ Peer(e) \in Endpoint /\ Peer(e) # e /\ Endpoint = {e, Peer(e)}
      /\ Peer(Peer(e)) = e
  BY Peers DEF Inv
<1>2. NumbersKept
  BY DEF QpShutdown, histVars, NumbersKept
<1>3. StateTypesKept
  <2>1. recv_missing'[e] \in BOOLEAN
    BY <1>1, ReceiverTypes DEF recvVars
  <2> QED BY <1>1, <2>1, StateTypes DEF QpShutdown, histVars, StateTypesKept
<1>4. NoneRevived
  BY <1>1, StateTypes DEF QpShutdown, NoneRevived, Live
<1> DEFINE out == {FinPacket(e)}
<1>5. /\ Exchange(e, in, out)
      /\ \A m \in out : PacketOK(m) /\ m.kind = "fin"
  <2>1. Exchange(e, in, out)
    BY DEF QpShutdown
  <2>2. send_next_psn[e] \in Nat /\ recv_ack_psn'[e] \in Nat
    BY <1>1, NumberTypes DEF recvVars
  <2> DEFINE fin == FinPacket(e)
  <2>3. PacketOK(fin) /\ fin.kind = "fin"
    BY <2>2 DEF FinPacket, Packet, PacketOK, Kind
  <2>4. out = {fin}
    OBVIOUS
  <2> HIDE DEF out, fin
  <2> QED BY <2>1, <2>3, <2>4
<1> HIDE DEF out
<1>6. /\ DOMAIN net' = Endpoint
      /\ net'[e] \subseteq net[e] /\ net'[Peer(e)] = net[Peer(e)] \cup out
  BY <1>1, <1>5, ExchangeNet
<1>7. NoSegmentSent
  BY <1>1, <1>5, <1>6 DEF NoSegmentSent
<1> QED BY <1>2, <1>3, <1>4, <1>7, NumbersUnchanged

\* A SACK marks segments and moves no number.
LEMMA ReceiveSackInv ==
    ASSUME Inv, NEW e \in Endpoint, NEW m \in Arriving(e), phase[e] = "rx",
           ReceiveSack(e, m), UNCHANGED <<tx_head, nLost>>
    PROVE  Inv'
<1>1. TypeOK /\ Peer(e) \in Endpoint /\ Peer(e) # e /\ Endpoint = {e, Peer(e)}
      /\ Peer(Peer(e)) = e
  BY Peers DEF Inv
<1>2. NumbersKept
  BY DEF ReceiveSack, NumbersKept
<1>3. StateTypesKept
  <2>1. sacked' \in [Endpoint -> SUBSET Nat]
    <3>1. tx_pending[e] \subseteq Nat
      BY <1>1 DEF TypeOK
    <3> QED BY <1>1, <3>1, StateTypes DEF ReceiveSack
  <2> QED BY <1>1, <2>1, StateTypes DEF ReceiveSack, StateTypesKept
<1>4. NoneRevived
  BY <1>1, StateTypes DEF ReceiveSack, NoneRevived, Live
<1>5. /\ DOMAIN net' = Endpoint
      /\ net'[e] \subseteq net[e] /\ net'[Peer(e)] = net[Peer(e)]
  <2>1. Exchange(e, {m}, {})
    BY Zenon DEF ReceiveSack
  <2>2. /\ DOMAIN net' = Endpoint
        /\ net'[e] \subseteq net[e] /\ net'[Peer(e)] = net[Peer(e)] \cup {}
    BY <1>1, <2>1, ExchangeNet, Zenon
  <2> QED BY <2>2
<1>6. NoSegmentSent
  BY <1>1, <1>5 DEF NoSegmentSent
<1> QED BY <1>2, <1>3, <1>4, <1>6, NumbersUnchanged

==============================================================================
