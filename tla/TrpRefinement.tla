---------------------------- MODULE TrpRefinement ----------------------------
(***************************************************************************)
(* TRP implements ReliableChannel in each direction, for every value of the *)
(* constants: the initial state maps to an initial state, and every step of *)
(* Trp leaves a direction alone or sends, delivers or confirms in it.       *)
(***************************************************************************)
EXTENDS TrpProofs

\* A step of ReliableChannel, or a stutter, in the direction from e.
Sends(e) ==
    /\ send_next_psn'[e] = send_next_psn[e] + 1
    /\ UNCHANGED <<Arrived(e), acked[e]>>
Delivers(e) ==
    /\ \E p \in (StartPsn .. send_next_psn[e] - 1) \ Arrived(e) :
           Arrived(e)' = Arrived(e) \cup {p}
    /\ UNCHANGED <<send_next_psn[e], acked[e]>>
Confirms(e) ==
    /\ \E k \in StartPsn .. send_next_psn[e] : acked'[e] = StartPsn .. k - 1
    /\ acked[e] \subseteq acked'[e] /\ acked'[e] \subseteq Arrived(e)
    /\ UNCHANGED <<send_next_psn[e], Arrived(e)>>
ChannelStep(e) ==
    \/ UNCHANGED <<send_next_psn[e], Arrived(e), acked[e]>>
    \/ Sends(e) \/ Delivers(e) \/ Confirms(e)

\* send_ddp_segment, for whatever reason it is called, sends the next segment.
SendNumber(e) ==
    \/ send_next_psn' = send_next_psn
    \/ send_next_psn' = [send_next_psn EXCEPT ![e] = @ + 1]

LEMMA SendsOnly ==
    ASSUME TypeOK, NEW e \in Endpoint, NEW x \in Endpoint, SendNumber(e),
           UNCHANGED <<delivered[Peer(x)], acked>>
    PROVE  ChannelStep(x)
<1>1. UNCHANGED <<Arrived(x), acked[x]>>
  BY DEF Arrived
<1>2. UNCHANGED send_next_psn[x] \/ send_next_psn'[x] = send_next_psn[x] + 1
  BY DEF SendNumber, TypeOK
<1> QED BY <1>1, <1>2 DEF ChannelStep, Sends

\* Accepting a segment delivers it, and never for the second time: otherwise
\* the receiver's numbers would not be exact afterwards.
LEMMA DeliverStep ==
    ASSUME Inv, Inv', NEW e \in Endpoint, NEW m \in Arriving(e),
           ReceiveSegment(e, m)
    PROVE  \A x \in Endpoint : ChannelStep(x)
<1> DEFINE f == Peer(e)
<1>1. f \in Endpoint /\ f # e /\ Endpoint = {e, f} /\ Peer(f) = e
  BY Peers
<1>2. TypeOK /\ ReceiverInv(f, e) /\ SenderInv(f) /\ NetInv(f, e)
  BY <1>1 DEF Inv
<1>3. TypeOK' /\ ReceiverInv(f, e)'
  BY <1>1 DEF Inv
<1> HIDE DEF f
<1>4. SendNumber(e) /\ acked' = acked
  BY DEF ReceiveSegment, Dispatch, SendDdpSegment, QpShutdown, sendVars, SendNumber
<1>5. /\ m.psn \in Nat /\ send_next_psn[f] \in Nat
      /\ m.psn \in StartPsn .. send_next_psn[f] - 1 /\ m.psn \in Index
  <2>1. /\ m.psn \in Nat /\ StartPsn <= m.psn /\ m.psn < send_next_psn[f]
        /\ send_next_psn[f] \in Nat /\ send_next_psn[f] <= StartPsn + Load[f]
    <3>1. m \in net[e] /\ m.kind = "data"
      BY DEF ReceiveSegment, Arriving
    <3>2. PacketOK(m)
      BY <1>1, <1>2, <3>1, NetTypes
    <3>3. send_next_psn[f] <= StartPsn + Load[f] /\ send_next_psn[f] \in Nat
      BY <1>1, <1>2, NumberTypes DEF SenderInv
    <3> QED BY <1>2, <3>1, <3>2, <3>3 DEF NetInv, PacketOK
  <2> QED BY <1>1, <2>1, Sizes DEF Index
<1>6. CASE delivered' = delivered
  BY <1>1, <1>2, <1>4, <1>6, SendsOnly
<1>7. CASE delivered' = [delivered EXCEPT ![e][m.psn] = @ + 1]
  <2>1. delivered'[f] = delivered[f]
    BY <1>1, <1>2, <1>7 DEF TypeOK
  <2>2. ChannelStep(e)
    BY <1>1, <1>2, <1>4, <2>1, SendsOnly DEF f
  <2>3. /\ delivered[e] \in [Index -> Nat] /\ delivered'[e] \in [Index -> Nat]
        /\ \A p \in Index : delivered'[e][p] =
               IF p = m.psn THEN delivered[e][p] + 1 ELSE delivered[e][p]
    BY <1>1, <1>2, <1>3, <1>7 DEF TypeOK
  <2>4. delivered[e][m.psn] \in Nat /\ delivered'[e][m.psn] <= 1
    BY <1>3, <1>5, <2>3 DEF ReceiverInv
  <2>5. delivered[e][m.psn] = 0
    BY <1>5, <2>3, <2>4
  <2>6. m.psn \notin Arrived(f) /\ Arrived(f)' = Arrived(f) \cup {m.psn}
    <3>1. Arrived(f) = {p \in Index : delivered[e][p] > 0}
          /\ Arrived(f)' = {p \in Index : delivered'[e][p] > 0}
      BY <1>1 DEF Arrived
    <3> QED BY <1>5, <2>3, <2>5, <3>1
  <2>7. UNCHANGED <<send_next_psn[f], acked[f]>>
    BY <1>1, <1>2, <1>4 DEF SendNumber, TypeOK
  <2>8. Delivers(f)
    BY <1>5, <2>6, <2>7 DEF Delivers
  <2> QED BY <1>1, <2>2, <2>8 DEF ChannelStep
<1> QED BY <1>6, <1>7 DEF ReceiveSegment

\* A sweep confirms the segments it frees as acknowledged.
LEMMA ConfirmStep ==
    ASSUME Inv, Inv', NEW e \in Endpoint, NEW R, NEW F,
           NEW h \in tx_head[e] .. send_next_psn[e],
           NEW g \in h .. send_next_psn[e], Sweep(e, h, g, R, F)
    PROVE  \A x \in Endpoint : ChannelStep(x)
<1> DEFINE f == Peer(e)
<1>1. f \in Endpoint /\ f # e /\ Endpoint = {e, f} /\ Peer(f) = e
  BY Peers
<1>2. TypeOK /\ SenderInv(e) /\ LinkInv(e, f) /\ Live(e)
  BY DEF Inv, Sweep, Live
<1>3. LinkInv(e, f)' /\ ReceiverInv(e, f)' /\ TypeOK' /\ SenderInv(e)'
  BY DEF Inv
<1>4. /\ UNCHANGED <<send_next_psn, delivered, recv_ack_psn, recv_missing>>
      /\ acked' = [acked EXCEPT ![e] = @ \cup tx_head[e] .. h - 1]
  BY DEF Sweep, recvVars
<1> HIDE DEF f
<1>5. /\ acked[e] = StartPsn .. tx_head[e] - 1
      /\ acked'[e] = acked[e] \cup tx_head[e] .. h - 1 /\ acked'[f] = acked[f]
      /\ StartPsn \in Nat /\ tx_head[e] \in Nat /\ send_next_psn[e] \in Nat
      /\ StartPsn <= tx_head[e] /\ tx_head[e] <= h /\ h <= send_next_psn[e]
      /\ h \in Nat
  <2>1. StartPsn \in Nat /\ tx_head[e] \in Nat /\ send_next_psn[e] \in Nat
    BY <1>2, Sizes DEF TypeOK
  <2>2. h \in Nat /\ tx_head[e] <= h /\ h <= send_next_psn[e]
    BY <2>1
  <2>3. acked[e] = StartPsn .. tx_head[e] - 1 /\ StartPsn <= tx_head[e]
    BY <1>2 DEF LinkInv, SenderInv
  <2>4. acked'[e] = acked[e] \cup tx_head[e] .. h - 1 /\ acked'[f] = acked[f]
    BY <1>1, <1>2, <1>4 DEF TypeOK
  <2> QED BY <2>1, <2>2, <2>3, <2>4
<1>6. acked'[e] = StartPsn .. h - 1 /\ acked[e] \subseteq acked'[e]
      /\ h \in StartPsn .. send_next_psn[e]
  <2>1. ASSUME NEW a \in Nat, NEW b \in Nat, NEW c \in Nat, a <= b, b <= c
        PROVE  (a .. b - 1) \cup (b .. c - 1) = a .. c - 1
    BY <2>1
  <2>2. acked'[e] = StartPsn .. h - 1
    BY <1>5, <2>1
  <2>3. acked[e] \subseteq acked'[e] /\ h \in StartPsn .. send_next_psn[e]
    BY <1>5
  <2> QED BY <2>2, <2>3
<1>7. acked'[e] \subseteq Arrived(e)
  <2> SUFFICES ASSUME NEW p \in acked'[e] PROVE p \in Arrived(e)
    OBVIOUS
  <2>1. /\ p \in StartPsn .. recv_ack_psn[f] - 1 /\ recv_ack_psn[f] \in Nat
        /\ recv_ack_psn[f] <= send_next_psn[e]
        /\ send_next_psn[e] <= StartPsn + Load[e]
    <3>1. /\ acked'[e] \subseteq StartPsn .. recv_ack_psn'[f] - 1
          /\ UNCHANGED recv_ack_psn
      BY <1>3, <1>4 DEF LinkInv
    <3>2. /\ recv_ack_psn[f] <= send_next_psn[e]
          /\ send_next_psn[e] <= StartPsn + Load[e]
      BY <1>2 DEF LinkInv, SenderInv
    <3> QED BY <1>1, <1>2, <3>1, <3>2, NumberTypes
  <2>2. p \in Index /\ p < recv_ack_psn[f]
    <3>1. Load[e] \in Nat /\ Load[e] <= MaxLoad /\ MaxLoad \in Nat
      BY Sizes
    <3> QED BY <1>5, <2>1, <3>1 DEF Index
  <2>3. delivered[f][p] = 1
    BY <1>3, <1>4, <2>2 DEF ReceiverInv, Received
  <2> QED BY <2>2, <2>3 DEF Arrived, f
<1>8. UNCHANGED <<send_next_psn[e], Arrived(e), send_next_psn[f], Arrived(f)>>
  BY <1>4 DEF Arrived
<1>9. Confirms(e)
  BY <1>6, <1>7, <1>8 DEF Confirms
<1> QED BY <1>1, <1>5, <1>8, <1>9 DEF ChannelStep

\* Every step of TRP is a step of each channel or leaves it alone.
LEMMA NextChannel ==
    ASSUME Inv, Inv', [Next]_vars
    PROVE  \A x \in Endpoint : ChannelStep(x)
<1>1. TypeOK
  BY DEF Inv
<1>2. ASSUME UNCHANGED <<send_next_psn, delivered, acked>>
      PROVE  \A x \in Endpoint : ChannelStep(x)
  BY <1>2 DEF ChannelStep, Arrived
<1>3. CASE UNCHANGED vars
  BY <1>2, <1>3 DEF vars, sendVars, histVars
<1>4. CASE Next
  <2>1. PICK e \in Endpoint :
            \/ ReceiveAny(e) \/ SweepAny(e) \/ SendSegment(e) \/ EndTx(e)
            \/ Shutdown(e) \/ \E m \in net[e] : Lose(e, m)
    BY <1>4 DEF Next
  <2>2. CASE ReceiveAny(e)
    <3>1. PICK m \in net[e] : Receive(e, m)
      BY <2>2 DEF ReceiveAny
    <3>2. CASE ReceiveSegment(e, m)
      BY <3>1, <3>2, DeliverStep DEF Receive
    <3>3. CASE ReceiveAck(e, m) \/ ReceiveSack(e, m) \/ ReceiveFin(e, m)
      BY <1>2, <3>3 DEF ReceiveAck, ReceiveSack, ReceiveFin, QpShutdown,
         sendVars, histVars
    <3> QED BY <3>1, <3>2, <3>3 DEF Receive
  <2>3. CASE SweepAny(e)
    BY <2>3, ConfirmStep DEF SweepAny
  <2>4. CASE SendSegment(e)
    <3>1. SendNumber(e) /\ UNCHANGED <<delivered, acked>>
      BY <2>4 DEF SendSegment, SendDdpSegment, sendVars, histVars, SendNumber
    <3> QED BY <1>1, <3>1, SendsOnly
  <2>5. CASE EndTx(e) \/ Shutdown(e) \/ \E m \in net[e] : Lose(e, m)
    BY <1>2, <2>5 DEF EndTx, Shutdown, QpShutdown, Lose, sendVars, histVars
  <2> QED BY <2>1, <2>2, <2>3, <2>4, <2>5
<1> QED BY <1>3, <1>4

\* Each direction of a connection is the channel DDP relies on: every segment
\* is handed up at most once, and confirmed only after it and all segments
\* before it have been, whatever the network and the timers do.
THEOREM TrpImplementsChannel == Spec => ImplementsChannel
<1>1. Init => ChannelAB!Init /\ ChannelBA!Init
  BY Peers, Sizes DEF Init, ChannelAB!Init, ChannelBA!Init, Arrived, Endpoint
<1>2. Inv /\ Inv' /\ [Next]_vars => [ChannelAB!Next]_(ChannelAB!channelVars)
  <2> SUFFICES ASSUME Inv, Inv', [Next]_vars
               PROVE  [ChannelAB!Next]_(ChannelAB!channelVars)
    OBVIOUS
  <2>1. ChannelStep(A)
    BY NextChannel DEF Endpoint
  <2> QED BY <2>1 DEF ChannelStep, Sends, Delivers, Confirms, ChannelAB!Next,
          ChannelAB!Send, ChannelAB!Deliver, ChannelAB!Confirm,
          ChannelAB!channelVars
<1>3. Inv /\ Inv' /\ [Next]_vars => [ChannelBA!Next]_(ChannelBA!channelVars)
  <2> SUFFICES ASSUME Inv, Inv', [Next]_vars
               PROVE  [ChannelBA!Next]_(ChannelBA!channelVars)
    OBVIOUS
  <2>1. ChannelStep(B)
    BY NextChannel DEF Endpoint
  <2> QED BY <2>1 DEF ChannelStep, Sends, Delivers, Confirms, ChannelBA!Next,
          ChannelBA!Send, ChannelBA!Deliver, ChannelBA!Confirm,
          ChannelBA!channelVars
<1> QED BY <1>1, <1>2, <1>3, InvHolds, PTL
        DEF Spec, ImplementsChannel, ChannelAB!Spec, ChannelBA!Spec

==============================================================================
