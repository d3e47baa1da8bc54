------------------------------ MODULE Receiver ------------------------------
(***************************************************************************)
(* The receiving half of a queue pair: what process_data_packet does with    *)
(* the segments of one connection (SENDs into posted receives, WRITEs and    *)
(* READ responses into registered memory, READ requests), the receive queue, *)
(* the responder of RDMA READs, the completion queue and its notification.   *)
(*                                                                          *)
(* The progress thread and the application share the rings of the receive    *)
(* queue and of the completion queue, the memory regions, notify_flag and    *)
(* conn_state; a step is what one thread does between two of its accesses    *)
(* that the other can come between.  The peer sends a fixed stream of        *)
(* segments; the network delivers them in any order and more than once.      *)
(* Lengths count segments of one MTU.                                        *)
(***************************************************************************)
EXTENDS Integers, FiniteSets, SequencesExt, SerialNumbers, BinHeap

CONSTANTS
    Streams,       \* what the peer may send: the segments, the first PSN, its ORD,
                   \* and how many receives and (de)registrations go with it
                   \* (bounds)
    MaxWr,         \* rq0.max_wr
    BufSizes,      \* total_request_size of the receives
    CqSize,        \* cq->capacity
    IrdMax,        \* shm_qp->ird_max
    OrdMax,        \* shm_qp->ord_max
    Window,        \* how many response segments TRP admits
    Regions        \* the memory regions: an id, a key and a length

ASSUME ReceiverAssumption ==
    /\ MaxWr \in Nat \ {0} /\ CqSize \in Nat \ {0} /\ IrdMax \in Nat \ {0}
    /\ OrdMax \in Nat \ {0} /\ Window \in Nat \ {0}
    /\ Regions \subseteq [id : Nat, rkey : Nat, length : Nat]

VARIABLES
    stream,        \* what the peer sends
    conn,          \* conn_state: running, error; dropped once kni_loop forgets it
    rx,            \* recv_ack_psn and the SACK range, in unwrapped PSNs
    got,           \* history: the segments handed to RDMAP
    rq,            \* the receive queue; missed counts what rq_flush leaves
    cq,            \* the completion queue
    app,           \* the application: where it is, receives posted so far
    polled,        \* history: the completions it has taken
    mrs,           \* the regions of the protection domain, the newest first
    mrOps,
    readresp,      \* readresp_store, readresp_head_msn, expected_read_msn
    window,        \* response segments TRP still admits
    sent,          \* history: the response segments, by request
    heap,          \* recv_rresp_last_psn
    done,          \* history: last PSNs of the READs completed, in order
    refused,       \* history: the TERMINATEs sent
    pc,            \* the progress thread
    broken         \* failed assertions and undefined behaviour

netVars == <<stream, rx, got>>
appVars == <<app, polled>>
mrVars == <<mrs, mrOps>>
readVars == <<readresp, window, sent>>
heapVars == <<heap, done>>
vars == <<netVars, conn, rq, cq, appVars, mrVars, readVars, heapVars, refused, pc,
          broken>>
------------------------------------------------------------------------------
(* The stream *)

Segments == 1..Len(stream.segs)
Seg(i) == stream.segs[i]
PsnOf(i) == stream.first + i - 1
SegsOf(kind, msn) == {i \in Segments : Seg(i).kind = kind /\ Seg(i).msn = msn}
LengthOf(msn) == Cardinality({i \in SegsOf("send", msn) : Seg(i).len = 1})

Idle == [at |-> "idle", seg |-> 0, region |-> 0, back |-> "idle", k |-> 0]
NoRead == [active |-> FALSE, size |-> 0, msn |-> 0]

\* usiw_create_qp and start_qp.
Init ==
    /\ stream \in Streams
    /\ conn = "running" /\ got = {}
    /\ rx = [ack |-> stream.first, missing |-> FALSE, min |-> 0, max |-> 0]
    /\ rq = [free |-> MaxWr, ring |-> <<>>, active |-> <<>>, next_msn |-> 1,
             missed |-> 0]
    /\ cq = [free |-> CqSize, ring |-> <<>>, notify_flag |-> FALSE, events |-> 0]
    /\ app = [at |-> "run", posts |-> 0, size |-> 0] /\ polled = <<>>
    /\ mrs = <<>> /\ mrOps = 0
    /\ readresp = [store |-> [s \in 0..(IrdMax - 1) |-> NoRead],
                   head_msn |-> 1, expected |-> 1]
    /\ window = Window /\ sent = <<>> /\ heap = <<>> /\ done = <<>>
    /\ refused = {} /\ pc = Idle /\ broken = {}

\* The ORD of the peer and of this side bound the READs in flight.
Answered == Cardinality({k \in DOMAIN sent : sent[k].last})
Sent(i) == \A j \in 1..i :
    /\ Seg(j).kind = "read" => Seg(j).msn <= Answered + stream.ord
    /\ Seg(j).kind = "rresp" => Seg(j).msn <= Len(done) + OrdMax

Sound == broken = {}
At(step) == Sound /\ pc.at = step
Goto(step) == pc' = [pc EXCEPT !.at = step]
Return == pc' = Idle
Terminate(error, i) == refused' = refused \cup {[error |-> error, seg |-> i]}
------------------------------------------------------------------------------
(* process_data_packet *)

\* The sequence number of a segment: the state after it, or the same state when
\* the segment is dropped.
RxAfter(p) ==
    LET next == [rx EXCEPT !.ack = p + 1]
    IN  IF SamePsn(p, rx.ack)
        THEN IF rx.missing /\ SamePsn(p + 1, rx.min)
             THEN [next EXCEPT !.ack = rx.max, !.missing = FALSE] ELSE next
        ELSE IF ~SerialLess(rx.ack, p) THEN rx
        ELSE IF ~rx.missing
        THEN [rx EXCEPT !.missing = TRUE, !.min = p, !.max = p + 1]
        ELSE IF SamePsn(p, rx.max) THEN [rx EXCEPT !.max = p + 1]
        ELSE IF SamePsn(p + 1, rx.min) THEN [rx EXCEPT !.min = p]
        ELSE rx

\* usiw_mr_lookup: the newest region with the key.
Found(rkey) == {k \in DOMAIN mrs : mrs[k].rkey = rkey}
Lookup(rkey) == mrs[CHOOSE k \in Found(rkey) : \A j \in Found(rkey) : k <= j]

\* dequeue_recv_wqes: the receives of the ring get the next message numbers.
Dequeued_One(q) ==
    IF q.ring = <<>> THEN q
    ELSE [q EXCEPT !.active = Append(q.active, [q.ring[1] EXCEPT !.msn = q.next_msn]),
                   !.ring = Tail(q.ring), !.next_msn = q.next_msn + 1]
Dequeued(q) ==
    [q EXCEPT !.active = q.active \o [k \in DOMAIN q.ring |->
                            [q.ring[k] EXCEPT !.msn = q.next_msn + k - 1]],
              !.ring = <<>>, !.next_msn = q.next_msn + Len(q.ring)]

\* The tests on the message number of a READ request.
OutOfRange(msn) == msn < readresp.expected \/ msn >= readresp.head_msn + IrdMax

\* A segment arrives.  A SEND goes on in process_send; the others look up the
\* region of their key, and then use it.
Receive(i) ==
    LET s == Seg(i)
        tagged == s.kind # "send"
    IN  /\ At("idle") /\ conn # "dropped" /\ Sent(i)
        /\ rx' = RxAfter(PsnOf(i)) /\ rx' # rx
        /\ got' = got \cup {i}
        /\ \/ /\ s.kind = "send"
              /\ rq' = IF rq.active = <<>> /\ rq.ring # <<>> THEN Dequeued(rq) ELSE rq
              /\ pc' = [pc EXCEPT !.at = "send", !.seg = i]
              /\ UNCHANGED <<readresp, refused>>
           \/ /\ s.kind = "read" /\ OutOfRange(s.msn)
              /\ Terminate("invalid_msn", i)
              /\ UNCHANGED <<rq, pc, readresp>>
           \/ /\ tagged /\ ~(s.kind = "read" /\ OutOfRange(s.msn))
              /\ readresp' = IF s.kind = "read" /\ s.msn = readresp.expected
                             THEN [readresp EXCEPT !.expected = @ + 1] ELSE readresp
              /\ IF Found(s.rkey) = {}
                 THEN Terminate("stag_invalid", i) /\ UNCHANGED pc
                 ELSE /\ pc' = [pc EXCEPT !.at = "place", !.seg = i,
                                          !.region = Lookup(s.rkey).id]
                      /\ UNCHANGED refused
              /\ UNCHANGED rq
        /\ UNCHANGED <<stream, conn, cq, appVars, mrVars, window, sent, heapVars, broken>>

\* The end of process_rdma_read_request: the READ gets its slot.
Taken(slot) == readresp.store[slot].active
StoreRead(i) ==
    LET s == Seg(i)
        slot == s.msn % IrdMax
    IN  IF Taken(slot)
        THEN Terminate("catastrophic", i) /\ UNCHANGED readresp
        ELSE /\ readresp' = [readresp EXCEPT !.store[slot] =
                                [active |-> TRUE, size |-> s.len, msn |-> s.msn]]
             /\ UNCHANGED refused

\* process_rdma_read_response (of a READ that was asked for).
HeapAfter(i) == IF Seg(i).kind = "rresp" /\ Seg(i).last
                THEN BinheapInsert(heap, OrdMax, Psn(PsnOf(i))) ELSE heap

\* The rest of ddp_place_tagged_data and of process_rdma_read_request, which test
\* the bounds alike.  A region deregistered since the lookup is freed memory.
Region(id) == CHOOSE r \in Regions : r.id = id
Place ==
    LET s == Seg(pc.seg)
        fits == s.off + s.len <= Region(pc.region).length
    IN  /\ At("place") /\ Return
        /\ \/ /\ \A k \in DOMAIN mrs : mrs[k].id # pc.region
              /\ broken' = {"freed region"}
              /\ UNCHANGED <<readresp, heap, refused>>
           \/ /\ \E k \in DOMAIN mrs : mrs[k].id = pc.region
              /\ \/ /\ ~fits /\ Terminate("bounds", pc.seg)
                    /\ UNCHANGED <<readresp, heap>>
                 \/ /\ fits /\ heap' = HeapAfter(pc.seg)
                    /\ IF s.kind = "read" THEN StoreRead(pc.seg)
                       ELSE UNCHANGED <<readresp, refused>>
              /\ UNCHANGED broken
        /\ UNCHANGED <<netVars, conn, rq, cq, appVars, mrVars, window, sent, done>>

\* The active receives with a message number.
RecvWqeLookup(msn) == {k \in DOMAIN rq.active : rq.active[k].msn = msn}

\* process_send after dequeue_recv_wqes.  Completions are posted only when no
\* segment before this one is missing.
NotYet_Newest(psn) == psn + 1 # rx.ack
NotYet(psn) == ~SerialLess(psn, rx.ack)
IsComplete_Last(recv, input) == input # 0
IsComplete(recv, input) == recv = input
ProcessSend ==
    LET s == Seg(pc.seg)
        hits == RecvWqeLookup(s.msn)
        k == CHOOSE j \in hits : TRUE
        w == rq.active[k]
        size == w.recv_size + s.len
        input == IF s.last THEN s.off + s.len ELSE w.input_size
        again == s.last /\ w.input_size # 0
    IN  /\ At("send")
        /\ \/ /\ hits = {} /\ rq.active # <<>>
              /\ Terminate("invalid_msn", pc.seg)
              /\ Return /\ UNCHANGED <<rq, broken>>
           \/ /\ hits = {} /\ rq.active = <<>>
              /\ IF rq.ring # <<>>
                 THEN broken' = {"ring not empty"} /\ UNCHANGED refused
                 ELSE Terminate("no_buffer", pc.seg) /\ UNCHANGED broken
              /\ Return /\ UNCHANGED rq
           \/ /\ hits # {} /\ s.off + s.len > w.size
              /\ Terminate("too_long", pc.seg)
              /\ Return /\ UNCHANGED <<rq, broken>>
           \/ /\ hits # {} /\ s.off + s.len <= w.size
              /\ rq' = [rq EXCEPT !.active[k] =
                            IF again THEN w
                            ELSE [w EXCEPT !.recv_size = size, !.input_size = input,
                                           !.complete = IsComplete(size, input)]]
              /\ IF again \/ NotYet(PsnOf(pc.seg)) THEN Return ELSE Goto("walk")
              /\ UNCHANGED <<refused, broken>>
        /\ UNCHANGED <<netVars, conn, cq, appVars, mrVars, readVars, heapVars>>

\* get_next_cqe finds an entry; qp_free_recv_wqe of the k-th active receive.
HasCqe == cq.free > 0
FreeRecvWqe(k) == [rq EXCEPT !.active = RemoveAt(@, k), !.free = @ + 1]

\* post_recv_cqe of the k-th active receive up to rte_ring_enqueue in
\* finish_post_cqe, and the rest of it.
PostRecvCqe(k, status, at) ==
    LET w == rq.active[k]
    IN  /\ rq' = FreeRecvWqe(k)
        /\ cq' = [cq EXCEPT !.free = @ - 1,
                            !.ring = Append(@, [wr |-> w.wr, msn |-> w.msn,
                                                status |-> status, len |-> w.input_size])]
        /\ pc' = [pc EXCEPT !.at = "posted", !.back = at]
Notified_Keep(c) == c
Notified(c) == IF c.notify_flag
               THEN [c EXCEPT !.notify_flag = FALSE, !.events = @ + 1] ELSE c
FinishPostCqe ==
    /\ At("posted")
    /\ cq' = Notified(cq)
    /\ Goto(pc.back)
    /\ UNCHANGED <<netVars, conn, rq, appVars, mrVars, readVars, heapVars, refused,
                   broken>>

\* The loop at the end of process_send.  With a full completion queue it spins.
Walk ==
    LET complete == rq.active # <<>> /\ rq.active[1].complete
    IN  /\ At("walk")
        /\ \/ ~complete /\ Return /\ UNCHANGED <<rq, cq>>
           \/ complete /\ HasCqe /\ PostRecvCqe(1, "success", "walk")
        /\ UNCHANGED <<netVars, conn, appVars, mrVars, readVars, heapVars, refused,
                       broken>>

\* qp_shutdown (a FIN has come), rq_flush: a receive that finds the completion
\* queue full is passed over.
QpShutdown ==
    /\ At("idle") /\ conn = "running"
    /\ conn' = "error"
    /\ Goto("drain")
    /\ UNCHANGED <<netVars, rq, cq, appVars, mrVars, readVars, heapVars, refused, broken>>
Drain ==
    /\ At("drain")
    /\ rq' = Dequeued(rq)
    /\ pc' = [pc EXCEPT !.at = "flush", !.k = 1]
    /\ UNCHANGED <<netVars, conn, cq, appVars, mrVars, readVars, heapVars, refused,
                   broken>>
Flush ==
    /\ At("flush")
    /\ \/ pc.k > Len(rq.active) /\ Return /\ UNCHANGED <<rq, cq>>
       \/ pc.k <= Len(rq.active) /\ HasCqe /\ PostRecvCqe(pc.k, "flushed", "flush")
       \/ /\ pc.k <= Len(rq.active) /\ ~HasCqe
          /\ pc' = [pc EXCEPT !.k = @ + 1]
          /\ rq' = [rq EXCEPT !.missed = @ + 1] /\ UNCHANGED cq
    /\ UNCHANGED <<netVars, conn, appVars, mrVars, readVars, heapVars, refused, broken>>

\* The rest of the pass ends, and kni_loop takes the queue pair off its list.
EndPass ==
    /\ At("idle") /\ conn = "error"
    /\ conn' = "dropped"
    /\ UNCHANGED <<netVars, rq, cq, appVars, mrVars, readVars, heapVars, refused, pc,
                   broken>>
------------------------------------------------------------------------------
(* The rest of progress_qp *)

\* The loop over recv_rresp_last_psn, one READ at a time.
AllBefore_Any(psn) == TRUE
AllBefore(psn) == psn < Psn(rx.ack)
CompleteRead ==
    /\ At("idle") /\ conn # "dropped"
    /\ heap # <<>> /\ AllBefore(BinheapPeek(heap))
    /\ done' = Append(done, BinheapPeek(heap))
    /\ heap' = BinheapPop(heap)
    /\ UNCHANGED <<netVars, conn, rq, cq, appVars, mrVars, readVars, refused, pc, broken>>

\* respond_rdma_read: from readresp_head_msn on, as far as the window goes.
RespSlot_FromZero(n) == n
RespSlot(n) == (readresp.head_msn + n) % IrdMax
Unfinished_Once(size, count) == FALSE
Unfinished(size, count) == size # count
RespondTo(r, n) ==
    LET slot == RespSlot(n)
        q == r.store[slot]
        count == IF q.size < r.window THEN q.size ELSE r.window
    IN  IF r.stop \/ ~q.active THEN [r EXCEPT !.stop = TRUE]
        ELSE [r EXCEPT !.store[slot].size = @ - count,
                       !.store[slot].active = Unfinished(q.size, count),
                       !.window = @ - count,
                       !.head_msn = IF q.size = count THEN @ + 1 ELSE @,
                       !.sent = @ \o [k \in 1..count |->
                                        [msn |-> q.msn, last |-> k = q.size]]]
Responded ==
    FoldLeft(RespondTo,
             [store |-> readresp.store, head_msn |-> readresp.head_msn,
              window |-> window, sent |-> sent, stop |-> FALSE],
             [n \in 1..IrdMax |-> n - 1])
RespondRdmaRead ==
    LET r == Responded
    IN  /\ At("idle") /\ conn # "dropped"
        /\ r.sent # sent \/ r.head_msn # readresp.head_msn
        /\ readresp' = [readresp EXCEPT !.store = r.store, !.head_msn = r.head_msn]
        /\ window' = r.window /\ sent' = r.sent
        /\ UNCHANGED <<netVars, conn, rq, cq, appVars, mrVars, heapVars, refused, pc,
                       broken>>
\* The peer acknowledges what it has received.
WindowOpens ==
    /\ Sound /\ window < Window
    /\ window' = Window
    /\ UNCHANGED <<netVars, conn, rq, cq, appVars, mrVars, readresp, sent, heapVars,
                   refused, pc, broken>>
------------------------------------------------------------------------------
(* The application *)

appOnly == <<netVars, conn, readVars, heapVars, refused, pc, broken>>

\* usiw_post_recv: the entry is taken, under the lock, after conn_state was
\* tested, and enqueued later.  urdma_accl_post_recvv does not test it.
RqLocked == pc.at \in {"posted", "drain", "flush"}
GetNextRecvWqe ==
    /\ Sound /\ app.at = "run" /\ app.posts < stream.posts
    /\ ~RqLocked /\ rq.free > 0
    /\ rq' = [rq EXCEPT !.free = @ - 1]
    /\ \E size \in BufSizes : app' = [at |-> "post", posts |-> app.posts + 1, size |-> size]
    /\ UNCHANGED <<appOnly, cq, polled, mrVars>>
PostRecv == conn = "running" /\ GetNextRecvWqe
AcclPostRecv == GetNextRecvWqe
EnqueueRecv ==
    /\ Sound /\ app.at = "post"
    /\ rq' = [rq EXCEPT !.ring = Append(@, [wr |-> app.posts, size |-> app.size, msn |-> 0,
                                           recv_size |-> 0, input_size |-> 0,
                                           complete |-> FALSE]),
                       !.missed = IF conn # "running" /\ pc.at # "drain" THEN @ + 1 ELSE @]
    /\ app' = [app EXCEPT !.at = "run", !.size = 0]
    /\ UNCHANGED <<appOnly, cq, polled, mrVars>>

\* usiw_poll_cq; usiw_req_notify_cq, after which the application polls until the
\* queue is empty and then waits for an event.
Poll ==
    /\ Sound /\ app.at \in {"run", "armed"}
    /\ \/ /\ cq.ring # <<>>
          /\ polled' = Append(polled, Head(cq.ring))
          /\ cq' = [cq EXCEPT !.ring = Tail(@), !.free = @ + 1]
          /\ UNCHANGED app
       \/ /\ cq.ring = <<>> /\ app.at = "armed"
          /\ app' = [app EXCEPT !.at = "wait"]
          /\ UNCHANGED <<polled, cq>>
    /\ UNCHANGED <<appOnly, rq, mrVars>>
ReqNotify ==
    /\ Sound /\ app.at = "run"
    /\ cq' = [cq EXCEPT !.notify_flag = TRUE]
    /\ app' = [app EXCEPT !.at = "armed"]
    /\ UNCHANGED <<appOnly, rq, polled, mrVars>>
GetEvent ==
    /\ Sound /\ app.at = "wait" /\ cq.events > 0
    /\ cq' = [cq EXCEPT !.events = @ - 1]
    /\ app' = [app EXCEPT !.at = "run"]
    /\ UNCHANGED <<appOnly, rq, polled, mrVars>>

\* usiw_reg_mr puts the region in front of its chain; usiw_dereg_mr removes it
\* only when the lookup of its key finds it.
Registered(r) == \E k \in DOMAIN mrs : mrs[k].id = r.id
RegMr(r) ==
    /\ Sound /\ app.at = "run" /\ mrOps < stream.mrOps /\ ~Registered(r)
    /\ mrs' = <<r>> \o mrs /\ mrOps' = mrOps + 1
    /\ UNCHANGED <<appOnly, rq, cq, appVars>>
Removes(r) == IF Lookup(r.rkey) = r THEN SelectSeq(mrs, LAMBDA m : m # r) ELSE mrs
DeregMr(r) ==
    /\ Sound /\ app.at = "run" /\ mrOps < stream.mrOps /\ Registered(r)
    /\ mrs' = Removes(r) /\ mrOps' = mrOps + 1
    /\ UNCHANGED <<appOnly, rq, cq, appVars>>
------------------------------------------------------------------------------
Progress == Place \/ ProcessSend \/ FinishPostCqe \/ Walk \/ Drain \/ Flush
            \/ EndPass \/ CompleteRead \/ RespondRdmaRead

Next ==
    \/ \E i \in Segments : Receive(i)
    \/ Progress \/ QpShutdown \/ WindowOpens
    \/ PostRecv \/ AcclPostRecv \/ EnqueueRecv \/ Poll \/ ReqNotify \/ GetEvent
    \/ \E r \in Regions : RegMr(r) \/ DeregMr(r)

Spec == Init /\ [][Next]_vars

\* The progress thread never stops and TRP delivers every segment to it (each
\* once: these steps are finitely many), the peer acknowledges, and the
\* application polls, or waits for an event when it has polled in vain.
Fairness ==
    /\ WF_vars(Progress \/ \E i \in Segments : Receive(i))
    /\ WF_vars(WindowOpens)
    /\ WF_vars(EnqueueRecv) /\ WF_vars(Poll) /\ WF_vars(ReqNotify) /\ WF_vars(GetEvent)
LiveSpec == Spec /\ Fairness
------------------------------------------------------------------------------
(* Properties *)

Statuses == {"success", "flushed"}
Completions == polled \o cq.ring
\* Every variable keeps its type.
TypeOK ==
    /\ stream \in Streams /\ got \subseteq Segments
    /\ conn \in {"running", "error", "dropped"}
    /\ rx.ack \in Nat /\ rx.missing \in BOOLEAN
    /\ rq.free \in 0..MaxWr /\ Len(rq.ring) <= MaxWr /\ Len(rq.active) <= MaxWr
    /\ cq.free \in 0..CqSize /\ Len(cq.ring) <= CqSize
    /\ app.at \in {"run", "post", "armed", "wait"} /\ app.posts \in 0..stream.posts
    /\ window \in 0..Window
    /\ \A k \in DOMAIN Completions : Completions[k].status \in Statuses
    /\ broken \subseteq {"freed region", "ring not empty"}

\* No entry of the receive queue and no entry of the completion queue is lost or
\* there twice, whichever thread has it: the enqueues that assert they succeed
\* (usiw_post_recv, finish_post_cqe, do_poll_cq) do.
EntriesConserved ==
    /\ rq.free + Len(rq.ring) + Len(rq.active)
            + (IF app.at = "post" THEN 1 ELSE 0) = MaxWr
    /\ cq.free + Len(cq.ring) = CqSize

Refused(i) == \E t \in refused : t.seg = i
Received(i) == i \in got /\ ~Refused(i) /\ ~(pc.seg = i /\ pc.at \in {"send", "place"})

\* process_send: a receive completes successfully only when its message and
\* every SEND before it are here in full; receives complete in the order they
\* were posted, the k-th with the k-th message, and no entry is lost.
ReceivesExact ==
    /\ TypeOK /\ EntriesConserved
    /\ \A k \in DOMAIN Completions :
        LET c == Completions[k] IN
        /\ c.wr = c.msn
        /\ \A l \in 1..(k - 1) : Completions[l].wr < c.wr
        /\ c.status = "success" =>
              /\ SegsOf("send", c.msn) # {} /\ c.len = LengthOf(c.msn)
              /\ \A i \in SegsOf("send", c.msn) : ~Refused(i)
              /\ \A m \in 1..c.msn : SegsOf("send", m) \subseteq got
    /\ \A k \in DOMAIN rq.active :
        LET w == rq.active[k] IN
        /\ w.recv_size = Cardinality({i \in SegsOf("send", w.msn) :
                                            Received(i) /\ Seg(i).len = 1})
        /\ w.input_size = 0 \/ w.recv_size <= w.input_size

\* The comment in process_send: a completion is posted "only if there are no
\* holes in the LLP packet sequence".
NoHoles ==
    \A k \in DOMAIN Completions :
        Completions[k].status = "success" =>
            \A i \in SegsOf("send", Completions[k].msn) : 1..i \subseteq got

\* rq_flush: every receive completes when the connection ends, except the one
\* whose usiw_post_recv tested conn_state before and enqueues it after, and the
\* ones that found the completion queue full.
RecvFlushComplete ==
    conn = "dropped" => Len(rq.ring) + Len(rq.active) <= rq.missed

\* finish_post_cqe and usiw_req_notify_cq: an application that armed the
\* completion queue, found it empty and waits, is or will be told of what has
\* been posted since.
NoLostWakeup ==
    Sound /\ app.at = "wait" /\ cq.ring # <<>> =>
        cq.events > 0 \/ (pc.at = "posted" /\ cq.notify_flag)

ReadLen(m) == Seg(CHOOSE i \in SegsOf("read", m) : TRUE).len
SentOf(m) == {k \in DOMAIN sent : sent[k].msn = m}
ReadMsns == {Seg(i).msn : i \in {j \in Segments : Seg(j).kind = "read"}}
\* respond_rdma_read: the responses to a READ are sent once, in full, the last
\* segment marked, and after those of every READ before it.
ResponsesInOrder ==
    \A k \in DOMAIN sent :
        LET m == sent[k].msn IN
        /\ Cardinality({l \in SentOf(m) : l <= k}) <= ReadLen(m)
        /\ sent[k].last = (Cardinality({l \in SentOf(m) : l <= k}) = ReadLen(m))
        /\ \A n \in ReadMsns : n < m =>
              Cardinality({l \in SentOf(n) : l < k}) = ReadLen(n)

\* A READ without data behind one the window holds up moves readresp_head_msn
\* past it, and it is never answered.
Overtaken == \E s \in DOMAIN readresp.store :
    readresp.store[s].active /\ readresp.store[s].msn < readresp.head_msn
Unanswered(m) == \E i \in SegsOf("read", m) : Cardinality(SentOf(m)) < Seg(i).len

\* process_rdma_read_request and respond_rdma_read: a READ that was accepted
\* keeps its slot, with what is left of it, until it is answered; the order in
\* which READs arrive does not matter.
SlotsExact ==
    Sound => \A i \in got :
        Seg(i).kind = "read" /\ Received(i) /\ Unanswered(Seg(i).msn) =>
            readresp.store[Seg(i).msn % IrdMax] =
                [active |-> TRUE, msn |-> Seg(i).msn,
                 size |-> Seg(i).len - Cardinality(SentOf(Seg(i).msn))]

\* The responder of READs answers each accepted one exactly, in order.
ReadsInOrder == ResponsesInOrder /\ SlotsExact

\* binheap.c: the heap keeps its order and loses nothing.
HeapExact ==
    Sound =>
    /\ IsHeap(heap)
    /\ Range(heap) \cup Range(done) =
            {Psn(PsnOf(i)) : i \in {j \in got : Seg(j).kind = "rresp" /\ Seg(j).last
                                                /\ Received(j)}}

\* progress_qp's comment: a READ is completed when all its data and everything
\* before it has been received, in the order of the responses (unless one was
\* refused: find_first_rdma_read then takes the next one for it), and the heap
\* forgets none.
ReadsArePlaced ==
    /\ HeapExact
    /\ \A k \in DOMAIN done :
          \E i \in got : /\ Psn(PsnOf(i)) = done[k] /\ Seg(i).kind = "rresp"
                         /\ 1..i \subseteq got
                         /\ refused = {} => Seg(i).msn = k

OnlySends == \A i \in Segments : Seg(i).kind = "send"
Ends == conn # "running" \/ ~Sound \/ refused # {}
\* With SENDs only, a message that is here with all that precedes it completes
\* its receive (when the application polls).
SendsComplete ==
    LET Owed == \E m \in {Seg(i).msn : i \in Segments} :
                    /\ \A i \in SegsOf("send", m) : 1..i \subseteq got
                    /\ \A k \in DOMAIN polled : polled[k].msn # m
    IN  OnlySends /\ Owed ~> Ends \/ ~Owed

\* A READ request that was accepted is answered.
ReadsAnswered ==
    LET Owed == \E i \in got : Seg(i).kind = "read" /\ Unanswered(Seg(i).msn)
    IN  Owed ~> Ends \/ Overtaken \/ ~Owed
=============================================================================
