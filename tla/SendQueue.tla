------------------------------ MODULE SendQueue ------------------------------
(***************************************************************************)
(* The send queue of one queue pair (struct usiw_send_wqe_queue): work       *)
(* requests of the application travel in a fixed pool of entries            *)
(*                                                                          *)
(*     free --get--> app --enqueue--> ring --take--> active --retire--> free *)
(*                                                                          *)
(* between the application thread (usiw_post_send, the urdma_accl_post_*     *)
(* calls, usiw_poll_cq, usiw_modify_qp) and the progress thread (kni_loop,   *)
(* progress_qp).  A step is what one thread does between two accesses to a   *)
(* ring, a completion queue or conn_state that the other thread shares.      *)
(*                                                                          *)
(* TRP below is what ReliableChannel promises: a segment arrives at the peer *)
(* in any order, and a prefix of the segments sent is acknowledged once it   *)
(* has arrived.  Lengths count segments of one MTU.                          *)
(***************************************************************************)
EXTENDS Integers, FiniteSets, SequencesExt

CONSTANTS
    MaxWr,         \* sq.max_wr: entries of the pool
    CqSize,        \* cq->capacity of the send completion queue
    Window,        \* how many unacknowledged segments TRP admits
    OrdMax,        \* shm_qp->ord_max
    Requests,      \* the work requests the application may post
    MaxRequests,   \* how many it posts (bound)
    Faults         \* what may go wrong, see the ASSUME

Entry == 1 .. MaxWr
Opcode == {"send", "write", "read"}
None == 0
Region == 1        \* the STag of the only region a side registers; 0 is none

\* "accl": requests may be posted with urdma_accl_post_*.  "inline": inline
\* data may exceed max_inline.  "reject": the sink of a READ may lack a
\* memory region.  "terminate": the peer may answer a request by a TERMINATE.
\* "timeout": TRP may give up on a segment.  "fin": the peer or a fatal
\* TERMINATE may end the connection.  "close": the application may.
ASSUME SendQueueAssumption ==
    /\ MaxWr \in Nat \ {0} /\ CqSize \in Nat \ {0} /\ Window \in Nat \ {0}
    /\ OrdMax \in Nat \ {0} /\ MaxRequests \in Nat
    /\ Requests \subseteq [opcode : Opcode, total : Nat, signaled : BOOLEAN]
    /\ Faults \subseteq {"accl", "inline", "reject", "terminate", "timeout",
                         "fin", "close"}

VARIABLES
    conn,          \* shm_qp->conn_state: "running", "shutdown" or "error"
    app,           \* the application thread: where it is, whether in one of
                   \* urdma_accl_post_*, the entry it holds, and the producer
                   \* index it read in an unlocked enqueue
    free,          \* sq.free_ring
    ring,          \* sq.ring
    active,        \* sq.active_head
    wqe,           \* sq.storage
    cqes,          \* completions not yet polled
    pc,            \* where the progress thread is
    freed,         \* entry whose opcode try_complete_wqe has yet to read
    walk,          \* entries the loop over the active list has yet to visit
    busy,          \* scount # 0
    pending,       \* the segments of tx_pending, from tx_head
    acked,         \* how many of them send_last_acked_psn covers
    give_up_at,    \* where the retransmission loop of the sweep is
    heap,          \* READ responses in recv_rresp_last_psn, all received
    ord_active,
    next_read_msn,
    peer,          \* what it received and may answer, READs it answered
    requests,      \* history: the requests accepted, in posting order
    done,          \* history: the requests retired, in order, with status
    arrived,       \* history: segments of each request that reached the peer
    replied,       \* history: READs whose response has arrived
    refused,       \* history: requests the peer answered by a TERMINATE
    stopped        \* history: requests accepted when the connection ended

appVars == <<app, requests>>
poolVars == <<free, active, cqes, done>>
walkVars == <<walk, busy>>
peerVars == <<peer, arrived, replied, refused>>
vars == <<conn, appVars, poolVars, ring, wqe, pc, freed, walkVars, pending,
          acked, give_up_at, heap, ord_active, next_read_msn, peerVars, stopped>>

Idle == [at |-> "idle", accl |-> FALSE, wqe |-> None, head |-> 0]

\* storage comes from calloc; usiw_send_wqe_queue_init puts it on free_ring.
Init ==
    /\ conn = "running" /\ app = Idle
    /\ free = [i \in Entry |-> i] /\ ring = <<>> /\ active = <<>>
    /\ wqe = [e \in Entry |-> [opcode |-> "send", state |-> "init", id |-> 0,
                               signaled |-> FALSE, total |-> 0, sent |-> 0,
                               acked |-> 0, msn |-> 0, stag |-> 0]]
    /\ cqes = 0 /\ pc = "top" /\ freed = None /\ walk = <<>> /\ busy = FALSE
    /\ pending = <<>> /\ acked = 0 /\ give_up_at = 1 /\ heap = 0
    /\ ord_active = 0 /\ next_read_msn = 1
    /\ peer = [has |-> {}, answered |-> 0]
    /\ requests = <<>> /\ done = <<>>
    /\ arrived = [n \in 1 .. MaxRequests |-> 0] 
    /\ replied = {} /\ refused = {} /\ stopped = 0

------------------------------------------------------------------------------
\* The application thread.

progressVars == <<pc, freed, walkVars, pending, acked, give_up_at, heap,
                  ord_active, next_read_msn, peerVars, stopped>>

\* rte_ring_enqueue on free_ring, which holds MaxWr entries.
BackToFree(e) == free' = IF Len(free) < MaxWr THEN Append(free, e) ELSE free

\* usiw_post_send tests conn_state once for the whole list of requests.
\* urdma_accl_post_* skip the test when they are given an address handle.
PostBegin(accl) ==
    /\ app.at = "idle" /\ Len(requests) < MaxRequests
    /\ IF accl THEN "accl" \in Faults ELSE conn = "running"
    /\ app' = [Idle EXCEPT !.at = "get", !.accl = accl]
    /\ UNCHANGED <<conn, requests, poolVars, ring, wqe, progressVars>>

\* qp_get_next_send_wqe; -ENOSPC ends the call.
GetNextSendWqe ==
    /\ app.at = "get"
    /\ IF free = <<>>
       THEN app' = Idle /\ UNCHANGED free
       ELSE /\ app' = [app EXCEPT !.at = "fill", !.wqe = Head(free)]
            /\ free' = Tail(free)
    /\ UNCHANGED <<conn, requests, active, cqes, done, ring, wqe, progressVars>>

\* What usiw_post_send writes into the entry.
VerbsFilled(r) ==
    [opcode |-> r.opcode, state |-> "init", id |-> Len(requests) + 1,
     signaled |-> r.signaled, total |-> r.total, sent |-> 0, acked |-> 0,
     msn |-> 0, stag |-> Region]

\* The urdma_accl_post_* calls leave the flags alone, and urdma_accl_post_read
\* also bytes_acked; its READ names no region.
AcclFilled(w, r) ==
    LET read == r.opcode = "read"
    IN  [VerbsFilled(r) EXCEPT !.signaled = w.signaled,
                               !.acked = IF read THEN w.acked ELSE 0,
                               !.stag = IF read THEN 0 ELSE Region]

\* The request is complete and is put on the ring; the call returns or goes
\* on with the next request of its list.
Enqueue(r) ==
    /\ app.at = "fill"
    /\ wqe' = [wqe EXCEPT ![app.wqe] =
               IF app.accl THEN AcclFilled(@, r) ELSE VerbsFilled(r)]
    /\ ring' = Append(ring, app.wqe)
    /\ requests' = Append(requests, r)
    /\ \/ app' = Idle
       \/ ~app.accl /\ Len(requests) + 1 < MaxRequests
          /\ app' = [Idle EXCEPT !.at = "get"]
    /\ UNCHANGED <<conn, poolVars, progressVars>>

\* do_inline fails, or a READ is inline: the call returns without giving the
\* entry back.
RejectInline(r) ==
    /\ app.at = "fill" /\ ~app.accl /\ "inline" \in Faults
    /\ wqe' = [wqe EXCEPT ![app.wqe].opcode = IF r.opcode = "read" THEN @ ELSE r.opcode,
                          ![app.wqe].signaled = r.signaled]
    /\ app' = Idle
    /\ UNCHANGED <<conn, requests, poolVars, ring, progressVars>>

\* A READ into memory without a region: free_wqe gives the entry back with an
\* enqueue on free_ring that is not under sq.lock and not atomic.
RejectRead(r) ==
    /\ app.at = "fill" /\ ~app.accl /\ "reject" \in Faults /\ r.opcode = "read"
    /\ wqe' = [wqe EXCEPT ![app.wqe].opcode = "read",
                          ![app.wqe].signaled = r.signaled]
    /\ app' = [app EXCEPT !.at = "free", !.head = Len(free)]
    /\ UNCHANGED <<conn, requests, poolVars, ring, progressVars>>

\* If the progress thread used the same slot of the ring meanwhile, either
\* entry may be the one that stays in it.
FreeUnlocked ==
    /\ app.at = "free"
    /\ app' = Idle
    /\ LET raced == Len(free) > app.head
       IN  \/ BackToFree(app.wqe)
           \/ raced /\ free' = [free EXCEPT ![app.head + 1] = app.wqe]
           \/ raced /\ UNCHANGED free
    /\ UNCHANGED <<conn, requests, active, cqes, done, ring, wqe, progressVars>>

\* usiw_poll_cq.
PollCq ==
    /\ cqes > 0
    /\ cqes' = cqes - 1
    /\ UNCHANGED <<conn, appVars, free, active, done, ring, wqe, progressVars>>

\* usiw_modify_qp to SQD or ERR.
ModifyQp ==
    /\ "close" \in Faults /\ conn = "running" /\ app.at = "idle"
    /\ conn' = "shutdown"
    /\ stopped' = Len(requests)
    /\ UNCHANGED <<appVars, poolVars, ring, wqe, pc, freed, walkVars, pending,
                   acked, give_up_at, heap, ord_active, next_read_msn, peerVars>>

AppNext ==
    \/ \E accl \in BOOLEAN : PostBegin(accl)
    \/ GetNextSendWqe \/ FreeUnlocked \/ PollCq \/ ModifyQp
    \/ \E r \in Requests : Enqueue(r) \/ RejectInline(r) \/ RejectRead(r)

------------------------------------------------------------------------------
\* Retiring a request.  All of it is under sq.lock.

Retired(e, status) == [id |-> wqe[e].id, status |-> status]

\* Mutant: the entry stays on the active list.
FreeSendWqeInactive(e, status) ==
    /\ BackToFree(e)
    /\ done' = Append(done, Retired(e, status))
    /\ UNCHANGED active

\* qp_free_send_wqe with still_active.
FreeSendWqe(e, status) ==
    /\ active' = RemoveFirst(active, e)
    /\ BackToFree(e)
    /\ done' = Append(done, Retired(e, status))

\* With the completion queue full the call fails and changes nothing; none of
\* its callers looks at the result.
PostSendCqe(e, status) ==
    IF cqes < CqSize
    THEN cqes' = cqes + 1 /\ FreeSendWqe(e, status)
    ELSE UNCHANGED poolVars

\* Mutant: a request need not be the first of the active list.
TryCompleteWqeAny(e) ==
    /\ IF wqe[e].signaled
       THEN PostSendCqe(e, "success")
       ELSE FreeSendWqe(e, "silent") /\ UNCHANGED cqes
    /\ freed' = e

\* try_complete_wqe up to the unlock; ReadOpcode is what follows it.
TryCompleteWqe(e) ==
    IF active # <<>> /\ Head(active) = e
    THEN /\ IF wqe[e].signaled
            THEN PostSendCqe(e, "success")
            ELSE FreeSendWqe(e, "silent") /\ UNCHANGED cqes
         /\ freed' = e
    ELSE UNCHANGED <<poolVars, freed>>

\* The opcode is read after the entry went back to free_ring.
ReadOpcode ==
    /\ freed # None
    /\ freed' = None
    /\ ord_active' = IF wqe[freed].opcode = "read" THEN (ord_active - 1) % 256
                     ELSE ord_active
    /\ UNCHANGED <<conn, appVars, poolVars, ring, wqe, pc, walkVars, pending,
                   acked, give_up_at, heap, next_read_msn, peerVars, stopped>>

\* Mutant: only the active list is flushed.
SqFlushActive ==
    LET n == Min({Len(active), CqSize - cqes})
    IN  /\ active' = SubSeq(active, n + 1, Len(active))
        /\ free' = free \o SubSeq(active, 1, n)
        /\ cqes' = cqes + n
        /\ done' = done \o [i \in 1 .. n |-> Retired(active[i], "flush")]
        /\ UNCHANGED ring

\* sq_flush: the ring moves to the active list and every request is completed
\* with a flush error, as far as the completion queue has room.
SqFlush ==
    LET all == active \o ring
        n == Min({Len(all), CqSize - cqes})
    IN  /\ ring' = <<>>
        /\ active' = SubSeq(all, n + 1, Len(all))
        /\ free' = SubSeq(free \o SubSeq(all, 1, n), 1, Min({Len(free) + n, MaxWr}))
        /\ cqes' = cqes + n
        /\ done' = done \o [i \in 1 .. n |-> Retired(all[i], "flush")]

------------------------------------------------------------------------------
\* The progress thread: kni_loop and the phases of progress_qp.

At(p) == pc = p /\ freed = None

StartIteration ==
    /\ At("top")
    /\ \/ conn = "running" /\ pc' = "receive" /\ UNCHANGED conn
       \/ conn = "shutdown" /\ pc' = "flush" /\ conn' = "error"
       \/ conn = "error" /\ pc' = "dead" /\ UNCHANGED conn
    /\ UNCHANGED <<appVars, poolVars, ring, wqe, freed, walkVars, pending, acked,
                   give_up_at, heap, ord_active, next_read_msn, peerVars, stopped>>

\* qp_shutdown in kni_loop or, "flush_rx", in the middle of a receive burst.
Flush ==
    /\ At("flush") \/ At("flush_rx")
    /\ SqFlush
    /\ pc' = IF pc = "flush" THEN "dead" ELSE "receive"
    /\ UNCHANGED <<conn, appVars, wqe, freed, walkVars, pending, acked, give_up_at,
                   heap, ord_active, next_read_msn, peerVars, stopped>>

\* A FIN, or a TERMINATE that names no request.
ReceiveFin ==
    /\ At("receive") /\ "fin" \in Faults /\ conn # "error"
    /\ conn' = "error" /\ pc' = "flush_rx"
    /\ stopped' = IF conn = "running" THEN Len(requests) ELSE stopped
    /\ UNCHANGED <<appVars, poolVars, ring, wqe, freed, walkVars, pending, acked,
                   give_up_at, heap, ord_active, next_read_msn, peerVars>>

ReceiveAck ==
    /\ At("receive")
    /\ \E n \in acked + 1 .. Len(pending) :
           /\ \A i \in 1 .. n : pending[i].there
           /\ acked' = n
    /\ UNCHANGED <<conn, appVars, poolVars, ring, wqe, pc, freed, walkVars, pending,
                   give_up_at, heap, ord_active, next_read_msn, peerVars, stopped>>


\* usiw_send_wqe_queue_lookup, by the STag of the segment.
SendWqeLookup(opcode, stag) ==
    LET Matches(e) == wqe[e].opcode = opcode /\ wqe[e].stag = stag
        i == SelectInSeq(active, Matches)
    IN  IF i = 0 THEN None ELSE active[i]

FindFirstRdmaRead ==
    LET IsRead(e) == wqe[e].opcode = "read"
        i == SelectInSeq(active, IsRead)
    IN  IF i = 0 THEN None ELSE active[i]

\* What the peer sends in answer to the segment r acknowledges it, if it had
\* arrived without a gap before it.
Acknowledges(r) ==
    acked' = Max({acked} \cup {i \in DOMAIN pending :
                 r.in_order /\ pending[i].id = r.id /\ pending[i].msn = r.msn})

\* The last segment of the next READ response; the peer answers the requests
\* in the order of their message numbers.  Without a region to place it in, the
\* response is refused and the READ waits for ever.
ReceiveReadResponse ==
    /\ At("receive")
    /\ \E r \in peer.has :
           /\ r.opcode = "read" /\ r.msn = peer.answered + 1
           /\ Acknowledges(r)
           /\ LET placed == r.stag = Region
              IN  /\ replied' = IF placed THEN replied \cup {r.id} ELSE replied
                  /\ heap' = IF placed /\ SendWqeLookup("read", r.stag) # None
                             THEN heap + 1 ELSE heap
    /\ peer' = [peer EXCEPT !.answered = @ + 1]
    /\ UNCHANGED <<conn, appVars, poolVars, ring, wqe, pc, freed, walkVars, pending,
                   give_up_at, ord_active, next_read_msn, arrived, refused, stopped>>

\* process_terminate for a READ request or a WRITE segment that the peer has
\* refused: the first active request with its STag fails.  A refused READ is
\* never answered.
ReceiveTerminate(r) ==
    /\ At("receive") /\ "terminate" \in Faults
    /\ r \in peer.has
    /\ r.opcode = "read" => r.msn > peer.answered
    /\ peer' = [peer EXCEPT !.has = @ \ {r}]
    /\ refused' = refused \cup {r.id}
    /\ Acknowledges(r)
    /\ LET e == SendWqeLookup(r.opcode, r.stag)
       IN  IF e = None THEN UNCHANGED poolVars ELSE PostSendCqe(e, "access")
    /\ UNCHANGED <<conn, appVars, ring, wqe, pc, freed, walkVars, pending,
                   give_up_at, heap, ord_active, next_read_msn, arrived, replied,
                   stopped>>

EndReceive ==
    /\ At("receive")
    /\ pc' = "sweep"
    /\ UNCHANGED <<conn, appVars, poolVars, ring, wqe, freed, walkVars, pending, acked,
                   give_up_at, heap, ord_active, next_read_msn, peerVars, stopped>>

\* Mutant: the acknowledgement of a READ's request completes it.
AllAckedRead(w) == w.opcode = "read" \/ w.acked = w.total

AllAcked(w) == w.opcode # "read" /\ w.acked = w.total

\* The first loop of sweep_unacked_packets, with do_process_ack.
SweepAcked ==
    /\ At("sweep") /\ acked > 0
    /\ LET e == Head(pending).wqe
           w == [wqe[e] EXCEPT !.acked = @ + Head(pending).bytes]
       IN  IF AllAcked(w)
           THEN /\ wqe' = [wqe EXCEPT ![e] = [w EXCEPT !.state = "complete"]]
                /\ TryCompleteWqe(e)
           ELSE /\ wqe' = [wqe EXCEPT ![e] = w]
                /\ UNCHANGED <<poolVars, freed>>
    /\ pending' = Tail(pending)
    /\ acked' = acked - 1
    /\ UNCHANGED <<conn, appVars, ring, pc, walkVars, give_up_at, heap, ord_active,
                   next_read_msn, peerVars, stopped>>

EndSweepAcked ==
    /\ At("sweep") /\ acked = 0
    /\ pc' = "expire" /\ give_up_at' = 1
    /\ UNCHANGED <<conn, appVars, poolVars, ring, wqe, freed, walkVars, pending, acked,
                   heap, ord_active, next_read_msn, peerVars, stopped>>

\* The second loop: the segment at i has been sent too often.  Only the segment
\* at tx_head is taken out.
GiveUp(i) ==
    /\ At("expire") /\ "timeout" \in Faults
    /\ i \in give_up_at .. Len(pending)
    /\ PostSendCqe(pending[i].wqe, "retry")
    /\ conn' = "error"
    /\ stopped' = IF conn = "running" THEN Len(requests) ELSE stopped
    /\ IF i = 1 THEN pending' = Tail(pending) /\ UNCHANGED give_up_at
                ELSE give_up_at' = i + 1 /\ UNCHANGED pending
    /\ UNCHANGED <<appVars, ring, wqe, pc, freed, walkVars, acked, heap, ord_active,
                   next_read_msn, peerVars>>

EndSweep ==
    /\ At("expire")
    /\ pc' = "responses"
    /\ UNCHANGED <<conn, appVars, poolVars, ring, wqe, freed, walkVars, pending, acked,
                   give_up_at, heap, ord_active, next_read_msn, peerVars, stopped>>

\* The loop over recv_rresp_last_psn.
CompleteRead ==
    /\ At("responses") /\ heap > 0
    /\ heap' = heap - 1
    /\ LET e == FindFirstRdmaRead
       IN  IF e = None
           THEN UNCHANGED <<wqe, poolVars, freed>>
           ELSE /\ wqe' = [wqe EXCEPT ![e].state = "complete"]
                /\ TryCompleteWqe(e)
    /\ UNCHANGED <<conn, appVars, ring, pc, walkVars, pending, acked, give_up_at,
                   ord_active, next_read_msn, peerVars, stopped>>

EndResponses ==
    /\ At("responses") /\ heap = 0
    /\ pc' = "walk" /\ walk' = active /\ busy' = FALSE
    /\ UNCHANGED <<conn, appVars, poolVars, ring, wqe, freed, pending, acked,
                   give_up_at, heap, ord_active, next_read_msn, peerVars, stopped>>

\* Mutant: the request of a READ counts as data.
SegmentCounted(e, w, bytes, n) ==
    [wqe |-> e, bytes |-> 1, there |-> FALSE, opcode |-> w.opcode, msn |-> n,
     id |-> w.id, stag |-> w.stag]

\* send_ddp_segment, with the length that do_process_ack will count.
Segment(e, w, bytes, n) ==
    [wqe |-> e, bytes |-> bytes, there |-> FALSE, opcode |-> w.opcode,
     msn |-> n, id |-> w.id, stag |-> w.stag]

Credits == Max({Window - Len(pending), 0})

\* do_rdmap_send and do_rdmap_write: as many segments as the window admits.
DoRdmapSend(e, w) ==
    LET n == Min({w.total - w.sent, Credits})
        sent == w.sent + n
    IN  /\ pending' = pending \o
               [i \in 1 .. n |-> Segment(e, w, 1, w.sent + i)]
        /\ wqe' = [wqe EXCEPT ![e] =
               [w EXCEPT !.sent = sent,
                         !.state = IF sent = w.total THEN "wait" ELSE @]]
        /\ UNCHANGED ord_active

\* Mutant: the READ is counted before the window is tested.
DoRdmapReadRequestEarly(e, w) ==
    IF w.state = "transfer" /\ ord_active < OrdMax
    THEN /\ ord_active' = ord_active + 1
         /\ IF Credits > 0
            THEN /\ pending' = Append(pending, Segment(e, w, 0, w.msn))
                 /\ wqe' = [wqe EXCEPT ![e] = [w EXCEPT !.state = "wait"]]
            ELSE wqe' = [wqe EXCEPT ![e] = w] /\ UNCHANGED pending
    ELSE wqe' = [wqe EXCEPT ![e] = w] /\ UNCHANGED <<ord_active, pending>>

DoRdmapReadRequest(e, w) ==
    IF w.state = "transfer" /\ ord_active < OrdMax /\ Credits > 0
    THEN /\ ord_active' = ord_active + 1
         /\ pending' = Append(pending, Segment(e, w, 0, w.msn))
         /\ wqe' = [wqe EXCEPT ![e] = [w EXCEPT !.state = "wait"]]
    ELSE wqe' = [wqe EXCEPT ![e] = w] /\ UNCHANGED <<ord_active, pending>>

\* progress_send_wqe, for an entry with contents w.
Transmit(e, w) ==
    IF w.opcode = "read" THEN DoRdmapReadRequest(e, w) ELSE DoRdmapSend(e, w)

\* Mutant: a complete request is left alone.
RetryCompletionNever(e) == UNCHANGED <<poolVars, freed>>

\* The start of progress_send_wqe, for what could not be completed before.
RetryCompletion(e) == TryCompleteWqe(e)

\* One turn of the loop over the active list.
Walk ==
    /\ At("walk") /\ walk # <<>>
    /\ LET e == Head(walk)
       IN  IF wqe[e].state = "complete"
           THEN RetryCompletion(e) /\ UNCHANGED <<wqe, pending, ord_active, busy>>
           ELSE /\ Transmit(e, wqe[e])
                /\ busy' = (busy \/ wqe'[e].state = "transfer")
                /\ UNCHANGED <<poolVars, freed>>
    /\ walk' = Tail(walk)
    /\ UNCHANGED <<conn, appVars, ring, pc, acked, give_up_at, heap, next_read_msn,
                   peerVars, stopped>>

\* Mutant: scount is not looked at.
MayTakeNextBusy == ring # <<>>

MayTakeNext == ~busy /\ ring # <<>>

\* With nothing in transfer the next request is taken from the ring, numbered
\* and started.
TakeNext ==
    /\ At("walk") /\ walk = <<>>
    /\ IF ~MayTakeNext
       THEN UNCHANGED <<ring, active, wqe, pending, ord_active, next_read_msn>>
       ELSE LET e == Head(ring)
                read == wqe[e].opcode = "read"
            IN  /\ ring' = Tail(ring)
                /\ active' = Append(active, e)
                /\ next_read_msn' = IF read THEN next_read_msn + 1 ELSE next_read_msn
                /\ Transmit(e, [wqe[e] EXCEPT !.state = "transfer",
                                    !.msn = IF read THEN next_read_msn ELSE @])
    /\ pc' = "top"
    /\ UNCHANGED <<conn, appVars, free, cqes, done, freed, walkVars, acked, give_up_at,
                   heap, peerVars, stopped>>

ProgressNext ==
    \/ ReadOpcode \/ StartIteration \/ Flush
    \/ ReceiveFin \/ ReceiveAck \/ ReceiveReadResponse
    \/ \E r \in peer.has : ReceiveTerminate(r)
    \/ EndReceive \/ SweepAcked \/ EndSweepAcked
    \/ \E i \in 1 .. Len(pending) : GiveUp(i)
    \/ EndSweep \/ CompleteRead \/ EndResponses \/ Walk \/ TakeNext

------------------------------------------------------------------------------
\* The network: a segment reaches the peer.

Arrive(i) ==
    /\ ~pending[i].there
    /\ LET s == pending[i]
       IN  /\ pending' = [pending EXCEPT ![i].there = TRUE]
           /\ arrived' = [arrived EXCEPT ![s.id] = @ + 1]
           /\ peer' = IF s.opcode = "read" \/ (s.opcode = "write" /\ "terminate" \in Faults)
                      THEN [peer EXCEPT !.has = @ \cup
                                {[opcode |-> s.opcode, msn |-> s.msn, id |-> s.id, stag |-> s.stag,
                                  in_order |-> \A j \in 1 .. i - 1 : pending[j].there]}]
                      ELSE peer
    /\ UNCHANGED <<conn, appVars, poolVars, ring, wqe, pc, freed, walkVars, acked,
                   give_up_at, heap, ord_active, next_read_msn, replied, refused,
                   stopped>>

Next == AppNext \/ ProgressNext \/ \E i \in 1 .. Len(pending) : Arrive(i)

Spec == Init /\ [][Next]_vars

\* kni_loop polls for ever; a packet waits in the receive queue until it is
\* polled; TRP retransmits; the application finishes its calls and polls.
Fairness ==
    /\ WF_vars(ProgressNext)
    /\ SF_vars(ReceiveAck) /\ SF_vars(ReceiveReadResponse)
    /\ WF_vars(\E i \in 1 .. Len(pending) : Arrive(i))
    /\ WF_vars(GetNextSendWqe) /\ WF_vars(\E r \in Requests : Enqueue(r))
    /\ WF_vars(PollCq)

LiveSpec == Spec /\ Fairness

------------------------------------------------------------------------------
\* Properties.

Wqe == [opcode : Opcode, state : {"init", "transfer", "wait", "complete"},
        id : 0 .. MaxRequests, signaled : BOOLEAN, total : Nat, sent : Nat,
        acked : Nat, msn : Nat, stag : {0, Region}]

\* The rings and lists hold entries of the pool, counters are within the
\* capacities that usiw_create_qp and usiw_create_cq set.
TypeOK ==
    /\ conn \in {"running", "shutdown", "error"}
    /\ app.at \in {"idle", "get", "fill", "free"} /\ app.wqe \in Entry \cup {None}
    /\ {free, ring, active, walk} \subseteq Seq(Entry)
    /\ Len(free) <= MaxWr /\ cqes \in 0 .. CqSize
    /\ wqe \in [Entry -> Wqe]
    /\ freed \in Entry \cup {None} /\ busy \in BOOLEAN
    /\ acked \in 0 .. Len(pending) /\ Len(pending) <= Window
    /\ ord_active \in 0 .. 255 /\ heap \in Nat

Holds(q, e) == Cardinality({i \in DOMAIN q : q[i] = e})

\* An entry is always in exactly one place: in free_ring, with the application,
\* in sq.ring or on the active list.  None is lost and none is used twice,
\* whatever usiw_post_send and the progress thread interleave.
EntriesConserved ==
    /\ TypeOK
    /\ \A e \in Entry :
          Holds(free, e) + Holds(ring, e) + Holds(active, e)
              + (IF app.wqe = e THEN 1 ELSE 0) = 1

\* Requests retire in posting order, the flush included: try_complete_wqe does
\* not let a request overtake an earlier one.
CompletionsInOrder ==
    \A i \in 1 .. Len(done) - 1 : done[i].id < done[i + 1].id

\* A request that completes without an error has had its effect: all of its
\* segments reached the peer, and a READ has its own response.
SuccessIsTruthful ==
    \A i \in DOMAIN done :
        LET n == done[i].id
        IN  done[i].status \in {"success", "silent"} =>
                IF requests[n].opcode = "read" THEN n \in replied
                ELSE arrived[n] = requests[n].total

\* Until the connection ends, ord_active is the number of READ requests that
\* are issued and not retired, so that it bounds them by ord_max and returns to
\* zero.
OrdExact ==
    LET issued == {i \in DOMAIN active : /\ wqe[active[i]].opcode = "read"
                                         /\ wqe[active[i]].state # "transfer"}
        owed == IF freed # None /\ freed \notin ToSet(active)
                   /\ wqe[freed].opcode = "read" THEN 1 ELSE 0
    IN  conn # "error" =>
            ord_active = Cardinality(issued) + owed /\ ord_active <= OrdMax

\* Segments go to the wire in posting order: the next request is not started
\* while an earlier one still has segments to send.
WireOrder ==
    /\ \A i \in 1 .. Len(pending) - 1 : pending[i].id <= pending[i + 1].id
    /\ \A i \in 1 .. Len(active) - 1 : wqe[active[i]].state \in {"wait", "complete"}

\* When the queue pair has been shut down, every request accepted before its
\* state changed has been retired: sq_flush misses none of them.
FlushIsComplete ==
    pc = "dead" =>
        \A n \in 1 .. stopped : \E i \in DOMAIN done : done[i].id = n

\* Every request that was accepted is retired in the end.
EveryRequestRetires ==
    \A n \in 1 .. MaxRequests :
        Len(requests) >= n ~> \E i \in DOMAIN done : done[i].id = n

\* The assertions of do_process_ack: no more is acknowledged than was sent, and
\* a request whose last segment is acknowledged was waiting for that.
AckAssertion ==
    At("sweep") /\ acked > 0 =>
        LET w == wqe[Head(pending).wqe]
            sum == w.acked + Head(pending).bytes
        IN  /\ w.sent >= sum
            /\ w.opcode # "read" /\ sum = w.total => w.state = "wait"

\* The assertion of try_complete_wqe before it decrements ord_active.
OrdAssertion ==
    freed # None /\ wqe[freed].opcode = "read" => ord_active > 0


==============================================================================
