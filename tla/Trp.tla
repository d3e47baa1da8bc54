--------------------------------- MODULE Trp ---------------------------------
(***************************************************************************)
(* TRP, the trivial reliability protocol of src/src/liburdma/interface.c:    *)
(* two queue pairs exchange numbered DDP segments over a network that may   *)
(* lose, duplicate and reorder UDP datagrams.  Each endpoint is one queue   *)
(* pair polled by the progress thread (kni_loop); one iteration of          *)
(* progress_qp is                                                           *)
(*                                                                          *)
(*     Receive*   "rx": the packets of one receive burst                    *)
(*     Sweep      sweep_unacked_packets: free what is acknowledged,         *)
(*                retransmit what is overdue                                *)
(*     SendSegment*  "tx": new segments while the window is open            *)
(*     EndTx      the SACK or ACK that is still owed, flush                 *)
(*                                                                          *)
(* DDP and RDMAP contents are abstracted to one bit: whether a segment is a *)
(* TERMINATE.  The variables keep the names of struct ee_state.             *)
(***************************************************************************)
EXTENDS SerialNumbers, FiniteSets

CONSTANTS
    A, B,            \* the two queue pairs of a connection
    TxPendingSize,   \* ep->tx_pending_size, half the transmit descriptors
    RetransmitMax,   \* RETRANSMIT_MAX (5 in the code)
    StartPsn,        \* 0, or a quiescent point later in the connection
    Load, MaxLoad,   \* how many segments each endpoint may send (bounds)
    StrayWords,      \* what process_trp_sack may find where it looks for a PSN
    Faults,          \* what may go wrong, see the ASSUME
    Lossy, MaxLoss   \* which packets the network loses, and how many (bound)

Endpoint == {A, B}
Kind == {"data", "ack", "sack", "fin"}

\* "dup": packets stay deliverable for ever.  "reorder": in any order.
\* "impatient": retransmission timers may expire at any time, not only when
\* the connection has gone quiet.  "nomem": tx_hdr_mempool may run out.
\* "close": the application may ask for a shutdown.  "terminate": a segment
\* may turn out invalid and be answered by a TERMINATE.
\* tx_pending_entry masks a PSN with tx_pending_size - 1: that is a remainder
\* because the size is taken to divide 2^32, hence to be a power of two.
ASSUME TrpAssumption ==
    /\ A # B
    /\ TxPendingSize \in Nat /\ TxPendingSize > 1
    /\ Half > 2 * TxPendingSize /\ PsnMod % TxPendingSize = 0
    /\ RetransmitMax \in Nat /\ StartPsn \in Nat /\ MaxLoss \in Nat
    /\ MaxLoad \in Nat /\ Load \in [Endpoint -> 0 .. MaxLoad]
    /\ StrayWords \subseteq 0 .. PsnMod - 1
    /\ Faults \subseteq {"dup", "reorder", "impatient", "nomem", "close",
                         "terminate"}
    /\ Lossy \subseteq Kind

VARIABLES
    conn,                  \* shm_qp->conn_state
    phase,                 \* where progress_qp is
    send_next_psn, send_last_acked_psn, send_max_psn,
    tx_head,               \* PSN of the slot ep->tx_head points to
    tx_pending,            \* PSNs whose slot of ep->tx_pending is not NULL
    transmit_count,        \* pending->transmit_count
    terms,                 \* PSNs of the TERMINATE segments sent
    recv_ack_psn, recv_sack_min, recv_sack_max,
    recv_missing,          \* trp_flags & trp_recv_missing
    ack_update,            \* trp_flags & trp_ack_update
    net,                   \* packets on their way to each endpoint
    nLost,                 \* packets lost so far
    delivered,             \* history: how often each segment was accepted
    acked,                 \* history: PSNs freed as acknowledged
    sacked                 \* history: pending PSNs covered by a received SACK

sendVars == <<send_next_psn, tx_pending, transmit_count, terms>>
windowVars == <<send_last_acked_psn, send_max_psn>>
recvVars == <<recv_ack_psn, recv_sack_min, recv_sack_max, recv_missing>>
histVars == <<delivered, acked, sacked>>
vars == <<conn, phase, sendVars, windowVars, tx_head, recvVars, ack_update,
          net, nLost, histVars>>

Peer(e) == IF e = A THEN B ELSE A
Index == StartPsn .. StartPsn + MaxLoad - 1
Work(e) == StartPsn .. StartPsn + Load[e] - 1

Init ==
    /\ conn = [e \in Endpoint |-> "running"]
    /\ phase = [e \in Endpoint |-> "rx"]
    /\ send_next_psn = [e \in Endpoint |-> StartPsn]
    /\ send_last_acked_psn = [e \in Endpoint |-> StartPsn]
    /\ send_max_psn = [e \in Endpoint |->
           IF StartPsn = 0 THEN TxPendingSize ELSE StartPsn + TxPendingSize - 1]
    /\ tx_head = [e \in Endpoint |-> StartPsn]
    /\ tx_pending = [e \in Endpoint |-> {}]
    /\ transmit_count = [e \in Endpoint |-> [p \in Index |-> 0]]
    /\ terms = [e \in Endpoint |-> {}]
    /\ recv_ack_psn = [e \in Endpoint |-> StartPsn]
    /\ recv_sack_min = [e \in Endpoint |-> 0]
    /\ recv_sack_max = [e \in Endpoint |-> 0]
    /\ recv_missing = [e \in Endpoint |-> FALSE]
    /\ ack_update = [e \in Endpoint |-> FALSE]
    /\ net = [e \in Endpoint |-> {}]
    /\ nLost = 0
    /\ delivered = [e \in Endpoint |-> [p \in Index |-> 0]]
    /\ acked = [e \in Endpoint |-> {}]
    /\ sacked = [e \in Endpoint |-> {}]

------------------------------------------------------------------------------
\* The network.  A packet is a TRP header; "at" is its place in the queue and
\* is used only when packets arrive in order.

Unordered == Faults \cap {"dup", "reorder"} # {}

Last(S) == IF S = {} THEN 0
           ELSE (CHOOSE m \in S : \A k \in S : k.at <= m.at).at

Packet(e, kind, psn, ack, term, i) ==
    [kind |-> kind, psn |-> psn, ack |-> ack, term |-> term,
     at |-> IF Unordered THEN 0 ELSE Last(net[Peer(e)]) + i]

\* e consumes the packets "in" and emits the packets "out".
Exchange(e, in, out) ==
    net' = [net EXCEPT ![e] = IF "dup" \in Faults THEN @ ELSE @ \ in,
                       ![Peer(e)] = @ \cup out]

\* No datagram outlives half of the sequence space.
Fresh(e, m) ==
    /\ m.kind \in {"data", "ack"} =>
           send_next_psn[e] - m.ack < Half - TxPendingSize
    /\ m.kind = "data" => recv_ack_psn[e] - m.psn < Half

Arriving(e) ==
    {m \in net[e] : Fresh(e, m) /\ (Unordered \/ \A k \in net[e] : m.at <= k.at)}

Lose(e, m) ==
    /\ m.kind \in Lossy /\ nLost < MaxLoss
    /\ nLost' = nLost + 1
    /\ net' = [net EXCEPT ![e] = @ \ {m}]
    /\ UNCHANGED <<conn, phase, sendVars, windowVars, tx_head, recvVars,
                   ack_update, histVars>>

\* Nothing is in flight and no acknowledgement is owed.
Quiet == \A e \in Endpoint : net[e] = {} /\ ~ack_update[e]

------------------------------------------------------------------------------
\* Sending.

SlotFree(e, psn) ==
    \A q \in tx_pending[e] : q % TxPendingSize # psn % TxPendingSize

\* A data packet or an ACK tells the peer all of recv_ack_psn, so none is owed
\* afterwards; a SACK is still owed while a segment is missing.
Piggyback(e) == ack_update' = [ack_update EXCEPT ![e] = recv_missing'[e]]

\* send_ddp_segment and the resend_ddp_segment it ends with.  A failed assert
\* ends the process; an allocation failure leaves the segment pending.
SendDdpSegment(e, in, term) ==
    LET psn == send_next_psn[e]
    IN  /\ psn \in Work(e)
        /\ IF SlotFree(e, psn)
           THEN /\ send_next_psn' = [send_next_psn EXCEPT ![e] = psn + 1]
                /\ tx_pending' = [tx_pending EXCEPT ![e] = @ \cup {psn}]
                /\ transmit_count' = [transmit_count EXCEPT ![e][psn] = 1]
                /\ terms' = [terms EXCEPT ![e] = IF term THEN @ \cup {psn} ELSE @]
                /\ \/ /\ Exchange(e, in, {Packet(e, "data", psn,
                                                 recv_ack_psn'[e], term, 1)})
                      /\ Piggyback(e)
                   \/ /\ "nomem" \in Faults
                      /\ Exchange(e, in, {})
                      /\ ack_update' = [ack_update EXCEPT ![e] = @ \/ in # {}]
                /\ UNCHANGED <<conn, phase>>
           ELSE /\ conn' = [conn EXCEPT ![e] = "assert"]
                /\ phase' = [phase EXCEPT ![e] = "done"]
                /\ Exchange(e, in, {})
                /\ UNCHANGED <<sendVars, ack_update>>

\* send_trp_sack, send_trp_ack and send_trp_fin.
SackPacket(e) == Packet(e, "sack", recv_sack_min[e], recv_sack_max[e], FALSE, 1)
AckPacket(e) == Packet(e, "ack", send_next_psn[e], recv_ack_psn[e], FALSE, 1)
FinPacket(e) == Packet(e, "fin", send_next_psn[e], recv_ack_psn'[e], FALSE, 1)

\* qp_shutdown: send_trp_fin, then the error state.  The queue pair leaves the
\* progress thread when the thread next looks at its state.  "owed": the packet
\* being processed has just made an acknowledgement due.
QpShutdown(e, in, owed) ==
    /\ Exchange(e, in, {FinPacket(e)})
    /\ conn' = [conn EXCEPT ![e] = "error"]
    /\ ack_update' = [ack_update EXCEPT ![e] = recv_missing'[e] /\ (@ \/ owed)]
    /\ UNCHANGED sendVars

------------------------------------------------------------------------------
\* Receiving: process_data_packet.

\* Mutant: all descriptors, not half of them, are used.
NewSendMaxAllDescs(ack) == ack + 2 * TxPendingSize - 1

NewSendMax(ack) == ack + TxPendingSize - 1

\* Every packet with opcode 0 overwrites the sender's window.
UpdateWindow(e, ack) ==
    /\ send_last_acked_psn' = [send_last_acked_psn EXCEPT ![e] = ack]
    /\ send_max_psn' = [send_max_psn EXCEPT ![e] = NewSendMax(ack)]

ReceiveAck(e, m) ==
    /\ m.kind = "ack"
    /\ UpdateWindow(e, m.ack)
    /\ Exchange(e, {m}, {})
    /\ UNCHANGED <<conn, phase, sendVars, recvVars, ack_update, histVars>>

\* Mutant: the gap is taken for closed by any PSN in order.
JoinsAlways(e, psn) == recv_missing[e]

Joins(e, psn) == recv_missing[e] /\ SamePsn(psn, recv_sack_min[e])

\* The next PSN in order; it may close the gap before the SACK range.
AcceptInOrder(e, psn) ==
    LET next == recv_ack_psn[e] + 1
        joins == Joins(e, next)
    IN  /\ SamePsn(psn, recv_ack_psn[e])
        /\ recv_ack_psn' = [recv_ack_psn EXCEPT ![e] =
                                IF joins THEN recv_sack_max[e] ELSE next]
        /\ recv_missing' = [recv_missing EXCEPT ![e] = @ /\ ~joins]
        /\ UNCHANGED <<recv_sack_min, recv_sack_max>>

\* Mutant: what is not next in order is taken to come later.
AcceptGapAnyPsn(e, psn) ==
    /\ ~SamePsn(psn, recv_ack_psn[e]) /\ ~recv_missing[e]
    /\ recv_missing' = [recv_missing EXCEPT ![e] = TRUE]
    /\ recv_sack_min' = [recv_sack_min EXCEPT ![e] = psn]
    /\ recv_sack_max' = [recv_sack_max EXCEPT ![e] = psn + 1]
    /\ UNCHANGED recv_ack_psn

\* A gap: the first PSN of a new SACK range.
AcceptGap(e, psn) ==
    /\ SerialLess(recv_ack_psn[e], psn) /\ ~recv_missing[e]
    /\ recv_missing' = [recv_missing EXCEPT ![e] = TRUE]
    /\ recv_sack_min' = [recv_sack_min EXCEPT ![e] = psn]
    /\ recv_sack_max' = [recv_sack_max EXCEPT ![e] = psn + 1]
    /\ UNCHANGED recv_ack_psn

\* The PSN just after the SACK range.
AcceptAbove(e, psn) ==
    /\ SerialLess(recv_ack_psn[e], psn) /\ recv_missing[e]
    /\ SamePsn(psn, recv_sack_max[e])
    /\ recv_sack_max' = [recv_sack_max EXCEPT ![e] = psn + 1]
    /\ UNCHANGED <<recv_ack_psn, recv_sack_min, recv_missing>>

\* The PSN just before the SACK range.
AcceptBelow(e, psn) ==
    LET joins == SamePsn(psn, recv_ack_psn[e])
    IN  /\ SerialLess(recv_ack_psn[e], psn) /\ recv_missing[e]
        /\ ~SamePsn(psn, recv_sack_max[e]) /\ SamePsn(psn + 1, recv_sack_min[e])
        /\ recv_sack_min' = [recv_sack_min EXCEPT ![e] = psn]
        /\ recv_ack_psn' = [recv_ack_psn EXCEPT ![e] =
                                IF joins THEN recv_sack_max[e] ELSE @]
        /\ recv_missing' = [recv_missing EXCEPT ![e] = ~joins]
        /\ UNCHANGED recv_sack_max

Accept(e, psn) ==
    \/ AcceptInOrder(e, psn) \/ AcceptGap(e, psn)
    \/ AcceptAbove(e, psn) \/ AcceptBelow(e, psn)

\* Out of the SACK range, already in it, or already acknowledged.  Nothing is
\* recorded; in particular no acknowledgement becomes due.
Drop(e, psn) ==
    /\ ~SamePsn(psn, recv_ack_psn[e])
    /\ SerialLess(recv_ack_psn[e], psn) =>
           /\ recv_missing[e]
           /\ ~SamePsn(psn, recv_sack_max[e])
           /\ ~SamePsn(psn + 1, recv_sack_min[e])
    /\ UNCHANGED recvVars

\* What becomes of an accepted segment: placed, answered by a TERMINATE, or,
\* if it is itself a TERMINATE, matched to a work request or fatal.
Dispatch(e, m) ==
    \/ /\ Exchange(e, {m}, {})
       /\ ack_update' = [ack_update EXCEPT ![e] = TRUE]
       /\ UNCHANGED <<conn, phase, sendVars>>
    \/ ~m.term /\ "terminate" \in Faults /\ SendDdpSegment(e, {m}, TRUE)
    \/ m.term /\ QpShutdown(e, {m}, TRUE) /\ UNCHANGED phase

ReceiveSegment(e, m) ==
    /\ m.kind = "data"
    /\ UpdateWindow(e, m.ack)
    /\ \/ /\ Accept(e, m.psn)
          /\ delivered' = [delivered EXCEPT ![e][m.psn] = @ + 1]
          /\ Dispatch(e, m)
       \/ /\ Drop(e, m.psn)
          /\ Exchange(e, {m}, {})
          /\ UNCHANGED <<conn, phase, sendVars, ack_update, delivered>>
    /\ UNCHANGED <<acked, sacked>>

\* maybe_sack_pending's test of a PSN against the range of a SACK.
InSackRange(p, min, max) ==
    (SamePsn(min, p) \/ SerialLess(min, p)) /\ SerialLess(p, max)

\* process_trp_sack takes the address of the slot for the address of the mbuf,
\* so what it compares with the range is not the PSN of a pending segment but a
\* stray word of memory, and a match overwrites a slot.
ReceiveSack(e, m) ==
    /\ m.kind = "sack"
    /\ sacked' = [sacked EXCEPT ![e] =
           @ \cup {p \in tx_pending[e] : InSackRange(p, m.psn, m.ack)}]
    /\ Exchange(e, {m}, {})
    /\ \/ UNCHANGED <<conn, phase>>
       \/ /\ tx_pending[e] # {}
          /\ \E w \in StrayWords : InSackRange(w, m.psn, m.ack)
          /\ conn' = [conn EXCEPT ![e] = "crashed"]
          /\ phase' = [phase EXCEPT ![e] = "done"]
    /\ UNCHANGED <<sendVars, windowVars, recvVars, ack_update, delivered, acked>>

ReceiveFin(e, m) ==
    /\ m.kind = "fin"
    /\ UNCHANGED <<recvVars, windowVars, phase, histVars>>
    /\ QpShutdown(e, {m}, FALSE)

Receive(e, m) ==
    /\ phase[e] = "rx" /\ m \in Arriving(e)
    /\ \/ ReceiveAck(e, m) \/ ReceiveSegment(e, m)
       \/ ReceiveSack(e, m) \/ ReceiveFin(e, m)
    /\ UNCHANGED <<tx_head, nLost>>

------------------------------------------------------------------------------
\* The rest of an iteration of progress_qp.

\* Mutant: takes the PSN the peer expects next for one it has.
AcknowledgedOneMore(e) ==
    {p \in tx_pending[e] : ~SerialGreater(p, send_last_acked_psn[e])}

Acknowledged(e) == {p \in tx_pending[e] : SerialLess(p, send_last_acked_psn[e])}

\* resend_ddp_segment counts the transmissions of a segment and gives up.
GivesUp(e, p) == transmit_count[e][p] > RetransmitMax

\* lo .. hi - 1 is the longest run of PSNs from lo on that are in S.
IsRun(lo, hi, S) == lo .. hi - 1 \subseteq S /\ hi \notin S

\* Segments whose timers have expired: any of those still pending, or, with
\* patient timers, all of them once the connection has gone quiet.
MayExpire(R, left) ==
    IF "impatient" \in Faults THEN R \subseteq left
    ELSE R = IF Quiet THEN left ELSE {}

\* Mutant: tx_head is advanced past a segment nobody has acknowledged.
KeepAfter(S, g) == {p \in S : p > g}

KeepFrom(S, g) == {p \in S : p >= g}

\* sweep_unacked_packets.  h: where the acknowledged run from tx_head ends;
\* R: the overdue segments; F: those among them that cannot be sent again,
\* which ends the connection; a run of them at the head is discarded (up to g).
Sweep(e, h, g, R, F) ==
    LET left == {p \in tx_pending[e] : p >= h}
    IN  /\ phase[e] = "rx"
        /\ IsRun(tx_head[e], h, Acknowledged(e))
        /\ MayExpire(R, left)
        /\ F \subseteq R /\ {p \in R : GivesUp(e, p)} \subseteq F
        /\ "nomem" \in Faults \/ F = {p \in R : GivesUp(e, p)}
        /\ IsRun(h, g, F)
        /\ acked' = [acked EXCEPT ![e] = @ \cup tx_head[e] .. h - 1]
        /\ tx_head' = [tx_head EXCEPT ![e] = g]
        /\ tx_pending' = [tx_pending EXCEPT ![e] = KeepFrom(left, g)]
        /\ transmit_count' = [transmit_count EXCEPT ![e] =
               [p \in Index |-> IF p \in R THEN @[p] + 1 ELSE @[p]]]
        /\ conn' = [conn EXCEPT ![e] = IF F = {} THEN @ ELSE "error"]
        /\ ack_update' = [ack_update EXCEPT ![e] =
               @ /\ (R = F \/ recv_missing[e])]
        /\ Exchange(e, {}, {Packet(e, "data", p, recv_ack_psn[e],
                                   p \in terms[e], p - h + 1) : p \in R \ F})
        /\ phase' = [phase EXCEPT ![e] = "tx"]
        /\ UNCHANGED <<send_next_psn, terms, windowVars, recvVars, nLost,
                       delivered, sacked>>

WindowOpen(e) == SerialLess(send_next_psn[e], send_max_psn[e])

\* One turn of the loops of do_rdmap_send, do_rdmap_write and
\* respond_rdma_read, or a do_rdmap_read_request.
SendSegment(e) ==
    /\ phase[e] = "tx" /\ WindowOpen(e)
    /\ UNCHANGED <<recvVars, windowVars, tx_head, nLost, histVars>>
    /\ SendDdpSegment(e, {}, FALSE)

\* The end of progress_qp: send_trp_sack or send_trp_ack, if one is owed.  The
\* progress thread then finds the queue pair running, in error, or with a
\* request of the application to shut it down.
EndTx(e) ==
    /\ phase[e] = "tx"
    /\ Exchange(e, {},
           IF ~ack_update[e] THEN {}
           ELSE {IF recv_missing[e] THEN SackPacket(e) ELSE AckPacket(e)})
    /\ ack_update' = [ack_update EXCEPT ![e] = FALSE]
    /\ \/ conn[e] = "running" /\ phase' = [phase EXCEPT ![e] = "rx"]
       \/ conn[e] # "running" /\ phase' = [phase EXCEPT ![e] = "done"]
       \/ /\ "close" \in Faults /\ conn[e] = "running"
          /\ phase' = [phase EXCEPT ![e] = "shutdown"]
    /\ UNCHANGED <<conn, sendVars, windowVars, tx_head, recvVars, nLost, histVars>>

\* kni_loop's case usiw_qp_shutdown.
Shutdown(e) ==
    /\ phase[e] = "shutdown"
    /\ UNCHANGED <<windowVars, tx_head, recvVars, nLost, histVars>>
    /\ QpShutdown(e, {}, FALSE)
    /\ phase' = [phase EXCEPT ![e] = "done"]

SweepAny(e) ==
    \E h \in tx_head[e] .. send_next_psn[e] :
    \E R \in SUBSET tx_pending[e] : \E F \in SUBSET R :
    \E g \in h .. send_next_psn[e] : Sweep(e, h, g, R, F)

ReceiveAny(e) == \E m \in net[e] : Receive(e, m)

Next ==
    \E e \in Endpoint :
        \/ ReceiveAny(e) \/ SweepAny(e) \/ SendSegment(e) \/ EndTx(e)
        \/ Shutdown(e) \/ \E m \in net[e] : Lose(e, m)

Spec == Init /\ [][Next]_vars

------------------------------------------------------------------------------
\* Fairness: kni_loop polls every running queue pair for ever, so an iteration
\* that has begun ends; the send loops run in every iteration, so work that the
\* window admits is sent; a packet that the network keeps is polled in some
\* later burst.  Nothing is assumed of Lose or Shutdown.
Fairness ==
    \A e \in Endpoint :
        /\ WF_vars(SweepAny(e)) /\ WF_vars(EndTx(e))
        /\ SF_vars(SendSegment(e)) /\ SF_vars(ReceiveAny(e))

FairSpec == Spec /\ Fairness

------------------------------------------------------------------------------
\* Properties.

Sent(e) == StartPsn .. send_next_psn[e] - 1

PacketOK(m) ==
    m.kind \in Kind /\ m.psn \in Nat /\ m.ack \in Nat /\ m.term \in BOOLEAN

\* The types of the variables of struct ee_state and of the packets in flight.
TypeOK ==
    /\ conn \in [Endpoint -> {"running", "error", "assert", "crashed"}]
    /\ phase \in [Endpoint -> {"rx", "tx", "shutdown", "done"}]
    /\ send_next_psn \in [Endpoint -> Nat]
    /\ send_last_acked_psn \in [Endpoint -> Nat]
    /\ send_max_psn \in [Endpoint -> Nat]
    /\ tx_head \in [Endpoint -> Nat]
    /\ tx_pending \in [Endpoint -> SUBSET Nat]
    /\ transmit_count \in [Endpoint -> [Index -> Nat]]
    /\ terms \in [Endpoint -> SUBSET Nat]
    /\ recv_ack_psn \in [Endpoint -> Nat]
    /\ recv_sack_min \in [Endpoint -> Nat]
    /\ recv_sack_max \in [Endpoint -> Nat]
    /\ recv_missing \in [Endpoint -> BOOLEAN]
    /\ ack_update \in [Endpoint -> BOOLEAN]
    /\ DOMAIN net = Endpoint /\ \A e \in Endpoint : \A m \in net[e] : PacketOK(m)
    /\ nLost \in 0 .. MaxLoss
    /\ delivered \in [Endpoint -> [Index -> Nat]]
    /\ acked \in [Endpoint -> SUBSET Nat]
    /\ sacked \in [Endpoint -> SUBSET Nat]

\* What the receiver believes it has: below recv_ack_psn, or in the SACK range.
Received(e, p) ==
    \/ p < recv_ack_psn[e]
    \/ recv_missing[e] /\ recv_sack_min[e] <= p /\ p < recv_sack_max[e]

\* process_data_packet hands a segment to DDP exactly when it records its PSN,
\* and at most once: whatever is lost, duplicated, reordered or retransmitted,
\* the cumulative PSN and the single SACK range describe what was delivered.
ReceiveStateExact ==
    \A e \in Endpoint : \A p \in Index :
        delivered[e][p] = IF Received(e, p) THEN 1 ELSE 0

\* sweep_unacked_packets frees a segment, and completes its work request, only
\* if the peer has accepted it, however stale the acknowledgement is.
AckedWereDelivered ==
    \A e \in Endpoint : \A p \in acked[e] : delivered[Peer(e)][p] > 0

\* While a connection runs, every segment sent is acknowledged or still in
\* tx_pending: none is dropped from both.
NothingForgotten ==
    \A e \in Endpoint : conn[e] = "running" =>
        /\ acked[e] \cup tx_pending[e] = Sent(e)
        /\ acked[e] \cap tx_pending[e] = {}

\* Whenever the send loops find the window open, the slot of the next PSN is
\* free, so the assertion of send_ddp_segment holds for them.
WindowHasSlots ==
    \A e \in Endpoint :
        phase[e] = "tx" /\ WindowOpen(e) => SlotFree(e, send_next_psn[e])

Arrived(e) == {p \in Index : delivered[Peer(e)][p] > 0}

ChannelAB == INSTANCE ReliableChannel WITH
    First <- StartPsn, next <- send_next_psn[A], arrived <- Arrived(A),
    confirmed <- acked[A]
ChannelBA == INSTANCE ReliableChannel WITH
    First <- StartPsn, next <- send_next_psn[B], arrived <- Arrived(B),
    confirmed <- acked[B]

\* Each direction of the connection implements the channel DDP relies on.
ImplementsChannel == ChannelAB!Spec /\ ChannelBA!Spec

\* The promise of progress_qp: polled regularly, with an operational network
\* and peer, every segment is eventually acknowledged.
EverythingAcked == \A e \in Endpoint : <>(acked[e] = Work(e))

\* Work is left and nothing is pending, but the window is shut and no packet is
\* on its way that could open it.
Stalled(e) ==
    /\ conn[e] = "running" /\ send_next_psn[e] \in Work(e)
    /\ tx_pending[e] = {} /\ ~WindowOpen(e) /\ Quiet

\* The same promise, where nothing is lost: a queue pair does not stay stalled.
NeverStuck == \A e \in Endpoint : []<>~Stalled(e)

\* The assertion of send_ddp_segment: the slot of a new PSN is empty.
SlotAssertion == \A e \in Endpoint : conn[e] # "assert"

\* A SACK lowers the number of retransmissions: a segment that a received SACK
\* covers is not sent again.
SackedNotResent ==
    [][\A e \in Endpoint : \A p \in sacked[e] :
           transmit_count'[e][p] = transmit_count[e][p]]_vars

------------------------------------------------------------------------------
\* The inductive invariant.

\* No failed retransmission has moved tx_head yet.
Live(e) == phase[e] = "rx" \/ conn[e] = "running"

\* The sender's own numbers: tx_pending is the run of PSNs from tx_head on, it
\* fits its slots, and every difference the code takes is below Half.
SenderInv(e) ==
    /\ StartPsn <= tx_head[e] /\ tx_head[e] <= send_next_psn[e]
    /\ send_next_psn[e] <= StartPsn + Load[e]
    /\ tx_pending[e] = tx_head[e] .. send_next_psn[e] - 1
    /\ send_next_psn[e] <= tx_head[e] + TxPendingSize
    /\ send_last_acked_psn[e] < send_max_psn[e]
    /\ send_max_psn[e] <= send_last_acked_psn[e] + TxPendingSize
    /\ send_next_psn[e] - send_last_acked_psn[e] < Half
    /\ Live(e) => tx_head[e] - send_last_acked_psn[e] < Half - TxPendingSize
    /\ phase[e] = "tx" => send_last_acked_psn[e] <= tx_head[e]

\* The sender against the receiver f = Peer(e): acknowledgements lag behind
\* what the receiver has, and the sender is at most a window ahead of it.
LinkInv(e, f) ==
    /\ StartPsn <= recv_ack_psn[f]
    /\ send_last_acked_psn[e] <= recv_ack_psn[f]
    /\ recv_ack_psn[f] <= send_next_psn[e]
    /\ send_next_psn[e] <= recv_ack_psn[f] + TxPendingSize
    /\ acked[e] \subseteq StartPsn .. recv_ack_psn[f] - 1
    /\ Live(e) => /\ tx_head[e] <= recv_ack_psn[f]
                  /\ acked[e] = StartPsn .. tx_head[e] - 1

\* The receiver f: its SACK range lies beyond a gap and below what e has sent,
\* and its numbers describe what was delivered.
ReceiverInv(e, f) ==
    /\ recv_missing[f] => /\ recv_ack_psn[f] < recv_sack_min[f]
                          /\ recv_sack_min[f] < recv_sack_max[f]
                          /\ recv_sack_max[f] <= send_next_psn[e]
    /\ \A p \in Index : delivered[f][p] = IF Received(f, p) THEN 1 ELSE 0

\* Packets from e to f: a segment was sent, an acknowledgement was due.
NetInv(e, f) ==
    \A m \in net[f] :
        /\ m.kind = "data" => StartPsn <= m.psn /\ m.psn < send_next_psn[e]
        /\ m.kind \in {"data", "ack"} => m.ack <= recv_ack_psn[e]

\* TRP's numbers are right for every interleaving of two endpoints and every
\* behaviour of the network that respects packet lifetimes.
Inv ==
    /\ TypeOK
    /\ \A e \in Endpoint : /\ SenderInv(e) /\ LinkInv(e, Peer(e))
                           /\ ReceiverInv(e, Peer(e)) /\ NetInv(e, Peer(e))

==============================================================================
