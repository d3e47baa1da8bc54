----------------------------- MODULE ConnManager -----------------------------
(***************************************************************************)
(* The connection manager of the kernel module: connection end points        *)
(* (struct siw_cep), the queue pairs they serve, the work queue and timers   *)
(* of cm.c, and the character device through which urdmad learns of a         *)
(* connection (read) and answers that it is set up (write).                  *)
(*                                                                          *)
(*   connect --TRP request--> listener --CONNECT_REQUEST--> accept           *)
(*   reply  <--TRP accept----  siw_qp_rtr  <--write-- urdmad <--read--        *)
(*                                                                          *)
(* There is a client host and a server host, joined by UDP sockets.          *)
(* A handler that holds in_use of its end point is one step.  The places     *)
(* where it does not hold it are steps of their own: a work item that waits  *)
(* for in_use, the window around siw_qp_llp_close, siw_accept_newconn after  *)
(* siw_cep_set_free, the write of urdmad between the lookup and siw_qp_rtr,  *)
(* and siw_qp_cm_drop, which waits for in_use under state_lock.              *)
(* Every connection has a queue pair of its own, named like its end point;   *)
(* the states IDLE and RTR of a queue pair are one, no code tells them apart.*)
(***************************************************************************)
EXTENDS Integers, FiniteSets, FiniteSetsExt, SequencesExt

CONSTANTS
    Clients,       \* end points of siw_connect, on the client host
    Children,      \* end points siw_accept_newconn can allocate
    Backlog,       \* work items of the listener
    MaxDepth,      \* attrs.max_ird and attrs.max_ord of both devices
    ClientDepths,  \* the <<ird, ord>> a client asks for
    ServerDepths,  \* the <<ird, ord>> the server accepts with
    MaxFaults,     \* repeated datagrams plus deaths of urdmad (bound)
    Failures       \* calls that may fail, see the ASSUME

Listener == "listener"
Ends == Clients \cup Children
Ceps == Ends \cup {Listener}
Hosts == {"client", "server"}
HostOf(c) == IF c \in Clients THEN "client" ELSE "server"

\* "connect": siw_connect after the CEP was allocated.  "upcall": the event
\* handler of the IWCM.  "send": the TRP accept.  "route": the lookup of the
\* destination address in a read by urdmad.  "accept": siw_accept before or
\* after the queue pair is moved to RTS.
ASSUME ConnManagerAssumption ==
    /\ Clients \cap Children = {} /\ Listener \notin Ends
    /\ Backlog \in Nat /\ MaxDepth \in Nat \ {0}
    /\ ClientDepths \subseteq Nat \X Nat /\ ServerDepths \subseteq Nat \X Nat
    /\ MaxFaults \in Nat
    /\ Failures \subseteq {"connect", "upcall", "send", "route", "accept"}

VARIABLES
    cep,           \* struct siw_cep
    qp,            \* struct siw_qp of each connection
    wq,            \* siw_cm_wq of each host: work items in order
    delayed,       \* end points whose TIMEOUT item is still counting down
    run,           \* the work item a host executes, and how far it is
    established,   \* file->established_list of each host
    rtr_wait,      \* file->rtr_wait_list of each host
    urdmad,        \* queue pairs urdmad has read and not yet answered
    rtr,           \* the queue pair a write has looked up
    net,           \* datagrams in flight
    sock,          \* datagrams received and not yet read
    faults,        \* repetitions and deaths so far
    told,          \* history: the events the IWCM got for an end point
    unanswered,    \* history: clients closed before the IWCM was answered
    broken         \* what undefined behaviour a host met, if any: it stops

vars == <<cep, qp, wq, delayed, run, established, rtr_wait, urdmad, rtr, net,
          sock, faults, told, unanswered, broken>>

NoCep == [life |-> "new", st |-> "IDLE", ref |-> 0, cm_id |-> FALSE,
          qp |-> FALSE, sock |-> "none", timer |-> FALSE, iwcm |-> FALSE,
          works |-> 0, ird |-> 0, ord |-> 0, peer |-> "none"]
NewQp == [st |-> "IDLE", cep |-> FALSE, ref |-> 1, irq |-> 0, orq |-> 0,
          user |-> TRUE, drop |-> "no"]
NoRun == [cep |-> "none", type |-> "none", at |-> "idle", child |-> "none"]

Item(c, type) == [cep |-> c, type |-> type]
OnLists(c) == c \in Range(established[HostOf(c)] \o rtr_wait[HostOf(c)])
Up(c) == broken[HostOf(c)] = "no"
Live(c) == cep[c].life = "live"

\* kref_get and kref_put of n references; the last put frees the end point.
Get(r, n) == [r EXCEPT !.ref = @ + n]
Freed(r) == [NoCep EXCEPT !.life = "freed", !.st = "CLOSED", !.peer = r.peer]
Put(r, n) == IF r.ref > n THEN [r EXCEPT !.ref = @ - n]
             ELSE [Freed(r) EXCEPT !.ref = r.ref - n]
Tell(c, event) == told' = [told EXCEPT ![c] = Append(@, event)]

\* siw_socket_disassoc and sock_release: the socket's reference is put.
CloseSocket(r) == IF r.sock = "none" THEN r
                  ELSE Put([r EXCEPT !.sock = "none"], 1)
\* rem_ref of the IWCM id and the put that goes with it.
DropId(r) == IF r.cm_id THEN Put([r EXCEPT !.cm_id = FALSE], 1) ELSE r

\* siw_cm_alloc_work: the work items of an end point that is not a listener.
WorkItems == 5
\* siw_get_work: work items are preallocated, the list may be empty.
HasWork(r) == r.works > 0
\* siw_cm_queue_work(cep, SIW_CM_WORK_TIMEOUT): silently nothing without a
\* free work item.
ArmTimer(r) == IF HasWork(r)
               THEN Get([r EXCEPT !.works = @ - 1, !.timer = TRUE], 1) ELSE r
\* siw_cancel_timer: an item that already executes cannot be cancelled, and
\* keeps its reference; a cancelled item is freed, not put back.
Executing(c) == run[HostOf(c)].cep = c /\ run[HostOf(c)].type = "TIMEOUT"
CancelTimer_Always(c, r) ==
    IF r.timer THEN Put([r EXCEPT !.timer = FALSE], 1) ELSE r
CancelTimer(c, r) ==
    IF ~r.timer THEN r
    ELSE IF Executing(c) THEN [r EXCEPT !.timer = FALSE]
    ELSE Put([r EXCEPT !.timer = FALSE], 1)
WithoutTimer(c, queue) == SelectSeq(queue, LAMBDA w : w # Item(c, "TIMEOUT"))

QpPut(q, n) == [q EXCEPT !.ref = @ - n]
\* qp->cep is put and cleared.
Unlink(q) == [q EXCEPT !.cep = FALSE]
AtLeastOne(n) == IF n = 0 THEN 1 ELSE n
\* siw_qp_modify IDLE/RTR -> RTS, and notify_established (which adds a
\* reference to the end point and an entry to established_list).
ToRts(q, irq, orq) == [q EXCEPT !.st = "RTS", !.irq = AtLeastOne(irq),
                                !.orq = AtLeastOne(orq)]
Notify(c) ==
    established' = [established EXCEPT ![HostOf(c)] = Append(@, c)]

Init ==
    /\ cep = [c \in Ceps |-> NoCep]
    /\ qp = [c \in Ends |-> NewQp]
    /\ wq = [h \in Hosts |-> <<>>]
    /\ delayed = {}
    /\ run = [h \in Hosts |-> NoRun]
    /\ established = [h \in Hosts |-> <<>>]
    /\ rtr_wait = [h \in Hosts |-> <<>>]
    /\ urdmad = [h \in Hosts |-> {}]
    /\ rtr = [h \in Hosts |-> "none"]
    /\ net = {}
    /\ sock = [c \in Ceps |-> <<>>]
    /\ faults = 0
    /\ told = [c \in Ends |-> <<>>]
    /\ unanswered = {}
    /\ broken = [h \in Hosts |-> "no"]

devVars == <<established, rtr_wait, urdmad, rtr>>
workVars == <<wq, delayed, run>>
netVars == <<net, sock>>
------------------------------------------------------------------------------
(* The listener and the sockets *)

\* siw_listen_address up to siw_cep_socket_assoc: the socket is bound and its
\* data_ready is ours, the state is still IDLE.
Bind ==
    /\ cep[Listener].life = "new" /\ Up(Listener)
    /\ cep' = [cep EXCEPT ![Listener] =
                  [NoCep EXCEPT !.life = "live", !.ref = 2, !.sock = "own"]]
    /\ UNCHANGED <<qp, workVars, devVars, netVars, faults, told, unanswered, broken>>

\* The rest of siw_listen_address.
Listen ==
    /\ Live(Listener) /\ cep[Listener].st = "IDLE" /\ Up(Listener)
    /\ cep' = [cep EXCEPT ![Listener] =
                  [@ EXCEPT !.st = "LISTENING", !.cm_id = TRUE,
                            !.works = Backlog]]
    /\ UNCHANGED <<qp, workVars, devVars, netVars, faults, told, unanswered, broken>>

\* siw_drop_listeners.
CloseListener(r) ==
    Put(CloseSocket([r EXCEPT !.cm_id = FALSE, !.st = "CLOSED"]), 1)

\* The error path of siw_listen_address; siw_create_listen then has no listener
\* of its own to drop.
ListenFails ==
    /\ Live(Listener) /\ cep[Listener].st = "IDLE" /\ Up(Listener)
    /\ cep' = [cep EXCEPT ![Listener] = CloseListener(@)]
    /\ sock' = [sock EXCEPT ![Listener] = <<>>]
    /\ UNCHANGED <<qp, workVars, devVars, net, faults, told, unanswered, broken>>

\* siw_create_listen, on a device with one address.
CreateListen == Bind \/ Listen \/ ListenFails

\* siw_destroy_listen: waits for in_use, which the work queue holds while it
\* accepts.
DestroyListen ==
    /\ Live(Listener) /\ cep[Listener].st = "LISTENING" /\ Up(Listener)
    /\ run["server"].at # "hookup"
    /\ cep' = [cep EXCEPT ![Listener] = CloseListener(@)]
    /\ sock' = [sock EXCEPT ![Listener] = <<>>]
    /\ UNCHANGED <<qp, workVars, devVars, net, faults, told, unanswered, broken>>

\* siw_cm_llp_data_ready: the datagram is in the socket whether or not a work
\* item can be queued for it.
DataReady(m, lost) ==
    LET c == m.to
        type == CASE cep[c].st = "LISTENING" -> "ACCEPT"
                  [] cep[c].st = "AWAIT_MPAREP" -> "READ_MPAHDR"
                  [] OTHER -> "none"
        queued == type # "none" /\ HasWork(cep[c])
    IN  /\ Up(c) /\ Live(c) /\ cep[c].sock = "own"
        /\ net' = IF lost THEN net \ {m} ELSE net
        /\ faults' = IF lost THEN faults ELSE faults + 1
        /\ sock' = [sock EXCEPT ![c] = Append(@, m)]
        /\ IF queued
           THEN /\ wq' = [wq EXCEPT ![HostOf(c)] = Append(@, Item(c, type))]
                /\ cep' = [cep EXCEPT ![c] =
                              Get([@ EXCEPT !.works = @ - 1], 1)]
           ELSE UNCHANGED <<wq, cep>>
        /\ UNCHANGED <<qp, delayed, run, devVars, told, unanswered, broken>>

\* The network delivers a datagram, once or leaving a copy behind.
Deliver ==
    \E m \in net : \/ DataReady(m, TRUE)
                   \/ faults < MaxFaults /\ DataReady(m, FALSE)
------------------------------------------------------------------------------
(* Connecting *)

\* siw_connect: the queue pair lookup takes a reference; the end point is
\* held by the queue pair, the socket, the IWCM id and the timer.
Connect(c) ==
    /\ cep[c].life = "new" /\ qp[c].user /\ qp[c].drop = "no" /\ Up(c)
    /\ \E d \in ClientDepths :
        /\ cep' = [cep EXCEPT ![c] =
              ArmTimer([NoCep EXCEPT !.life = "live", !.ref = 3,
                  !.st = "AWAIT_MPAREP", !.cm_id = TRUE, !.qp = TRUE,
                  !.sock = "own", !.works = WorkItems, !.ird = d[1], !.ord = d[2]])]
        /\ net' = net \cup {[type |-> "req", to |-> Listener, from |-> c,
                             ird |-> d[1], ord |-> d[2]]}
    /\ qp' = [qp EXCEPT ![c].cep = TRUE, ![c].ref = @ + 1]
    /\ delayed' = delayed \cup {c}
    /\ UNCHANGED <<wq, run, devVars, sock, faults, told, unanswered, broken>>

\* The error path of siw_connect once the end point is associated with the
\* queue pair: the socket's reference and three more are put.
ConnectFails(c) ==
    /\ "connect" \in Failures
    /\ cep[c].life = "new" /\ qp[c].user /\ qp[c].drop = "no" /\ Up(c)
    /\ cep' = [cep EXCEPT ![c] =
                  Put(CloseSocket([NoCep EXCEPT !.life = "live", !.ref = 3,
                          !.sock = "own", !.st = "CLOSED"]), 3)]
    /\ Tell(c, "connect_error")
    /\ UNCHANGED <<qp, workVars, devVars, netVars, faults, unanswered, broken>>

\* siw_accept, called by the IWCM for the CONNECT_REQUEST of end point c.
\* The put of the IWCM's reference comes first on every path.
CanAnswer(c) ==
    /\ Live(c) /\ cep[c].iwcm /\ Up(c)
    /\ cep[c].sock = "own"
\* The end point belongs to the IWCM id and the queue pair from now on.
Attach(r) == [r EXCEPT !.cm_id = TRUE, !.qp = TRUE, !.st = "ACCEPTING"]
Accept(c) ==
    /\ CanAnswer(c) /\ qp[c].user /\ qp[c].drop = "no"
    /\ \E d \in ServerDepths :
        LET r == Put([cep[c] EXCEPT !.iwcm = FALSE], 1)
            ok == qp[c].st = "IDLE" /\ d[2] <= cep[c].ord /\ d[1] <= MaxDepth
        IN  IF ok
            THEN /\ cep' = [cep EXCEPT ![c] =
                       ArmTimer(Get(Attach(r), 2))]
                 /\ qp' = [qp EXCEPT ![c] =
                       [ToRts(@, d[1], d[2]) EXCEPT !.cep = TRUE,
                                                    !.ref = @ + 1]]
                 /\ Notify(c)
                 /\ delayed' = delayed \cup {c}
            ELSE /\ cep' = [cep EXCEPT ![c] =
                       Put(CloseSocket([r EXCEPT !.st = "CLOSED"]), 1)]
                 /\ UNCHANGED <<qp, established, delayed>>
    /\ UNCHANGED <<wq, run, rtr_wait, urdmad, rtr, netVars, faults, told,
                   unanswered, broken>>


\* The error path of siw_accept: connecting the UDP socket fails before the
\* queue pair is in RTS, or (late) the copy of the private data fails after,
\* when the end point is already on established_list.
AcceptFails(c, late) ==
    /\ "accept" \in Failures /\ CanAnswer(c)
    /\ qp[c].user /\ qp[c].drop = "no" /\ qp[c].st = "IDLE"
    /\ cep' = [cep EXCEPT ![c] =
           LET r == Get([@ EXCEPT !.iwcm = FALSE, !.st = "CLOSED"],
                        IF late THEN 1 ELSE 0)
           IN  Put(CloseSocket(r), 2)]
    /\ IF late THEN qp' = [qp EXCEPT ![c] = ToRts(@, 0, 0)] /\ Notify(c)
               ELSE UNCHANGED <<qp, established>>
    /\ UNCHANGED <<workVars, rtr_wait, urdmad, rtr, netVars, faults, told, unanswered, broken>>

Rejection(c, to) == [type |-> "reject", to |-> to, from |-> c,
                     ird |-> 0, ord |-> 0]
\* siw_reject.
Reject(c) ==
    /\ CanAnswer(c)
    /\ net' = net \cup {Rejection(c, cep[c].peer)}
    /\ cep' = [cep EXCEPT ![c] =
                  Put(CloseSocket([@ EXCEPT !.iwcm = FALSE,
                                            !.st = "CLOSED"]), 2)]
    /\ UNCHANGED <<qp, workVars, devVars, sock, faults, told, unanswered, broken>>

\* siw_accept or siw_reject while siw_accept_newconn has yet to give the end
\* point its own socket: llp.sock is the listener's, which is connected to
\* this peer, or released.
AnswerEarly(c) ==
    /\ Live(c) /\ cep[c].iwcm /\ Up(c) /\ cep[c].sock = "listener"
    /\ broken' = [broken EXCEPT !["server"] = "listener_socket"]
    /\ UNCHANGED <<cep, qp, workVars, devVars, netVars, faults, told, unanswered>>
------------------------------------------------------------------------------
(* The work queue *)

\* The delay of a TIMEOUT item is over: it is queued, still cancellable.
TimerFires(c) ==
    /\ c \in delayed /\ Up(c)
    /\ delayed' = delayed \ {c}
    /\ wq' = [wq EXCEPT ![HostOf(c)] = Append(@, Item(c, "TIMEOUT"))]
    /\ UNCHANGED <<cep, qp, run, devVars, netVars, faults, told, unanswered, broken>>

\* siw_cm_work_handler is entered; from here on the item cannot be cancelled.
WorkBegin(h) ==
    /\ run[h] = NoRun /\ wq[h] # <<>> /\ broken[h] = "no"
    /\ run' = [run EXCEPT ![h] = [NoRun EXCEPT !.cep = Head(wq[h]).cep,
                     !.type = Head(wq[h]).type, !.at = "start"]]
    /\ wq' = [wq EXCEPT ![h] = Tail(@)]
    /\ UNCHANGED <<cep, qp, delayed, devVars, netVars, faults, told, unanswered, broken>>

Starting(h, type) ==
    broken[h] = "no" /\ run[h].at = "start" /\ run[h].type = type
\* siw_put_work and the put of the item's reference.
WorkDone(r) == Put([r EXCEPT !.works = @ + 1], 1)
EndWork(h) == run' = [run EXCEPT ![h] = NoRun]

\* siw_proc_trpreq, siw_proc_trpreply: depths the device does not have.
TooDeep(m) == m.ord > MaxDepth \/ m.ird > MaxDepth
\* siw_recv_trp_rr: the datagram the handler reads from its socket.
Received(c) == Head(sock[c])

\* siw_accept_newconn up to siw_cep_set_free of the new end point ch: it is
\* live when the IWCM has got the CONNECT_REQUEST, else already freed again.
\* Its timer was queued and cancelled, which costs one of five work items.
NewConn(ch) ==
    LET m == Received(Listener)
        fits == ~TooDeep(m)
    IN  /\ Starting("server", "ACCEPT") /\ cep[Listener].st = "LISTENING"
        /\ sock[Listener] # <<>> /\ cep[ch].life = "new"
        /\ sock' = [sock EXCEPT ![Listener] = Tail(@)]
        /\ \/ /\ fits
              /\ cep' = [cep EXCEPT ![ch] =
                    [NoCep EXCEPT !.life = "live", !.st = "RECVD_MPAREQ",
                        !.ref = 2, !.iwcm = TRUE, !.sock = "listener",
                        !.works = WorkItems - 1, !.ird = m.ord, !.ord = m.ird,
                        !.peer = m.from]]
              /\ run' = [run EXCEPT !["server"].at = "hookup",
                                    !["server"].child = ch]
              /\ UNCHANGED <<net>>
           \/ /\ fits /\ "upcall" \in Failures
              /\ cep' = [cep EXCEPT ![ch].life = "freed",
                                    ![Listener] = WorkDone(@)]
              /\ EndWork("server")
              /\ UNCHANGED net
           \/ /\ ~fits
              /\ cep' = [cep EXCEPT ![ch].life = "freed",
                                    ![Listener] = WorkDone(@)]
              /\ net' = net \cup {Rejection(Listener, m.from)}
              /\ EndWork("server")
        /\ UNCHANGED <<qp, wq, delayed, devVars, faults, told, unanswered, broken>>

\* siw_accept_newconn after the listener is closed, or without memory.
NoNewConn ==
    /\ Starting("server", "ACCEPT")
    /\ \/ cep[Listener].st # "LISTENING"
       \/ \A ch \in Children : cep[ch].life # "new"
    /\ cep' = [cep EXCEPT ![Listener] = WorkDone(@)]
    /\ EndWork("server")
    /\ UNCHANGED <<qp, wq, delayed, devVars, netVars, faults, told, unanswered, broken>>

\* The end of siw_accept_newconn: the new end point gets its own socket.
Hookup ==
    LET ch == run["server"].child
    IN  /\ Up(Listener) /\ run["server"].at = "hookup"
        /\ cep' = [cep EXCEPT ![ch] = Get([@ EXCEPT !.sock = "own"], 1),
                              ![Listener] = WorkDone(@)]
        /\ EndWork("server")
        /\ UNCHANGED <<qp, wq, delayed, devVars, netVars, faults, told, unanswered, broken>>

\* release_cep, up to siw_cep_set_free; without a queue pair it is all there
\* is, with one siw_qp_llp_close comes next, outside in_use.
Release(c, r) ==
    LET h == HostOf(c)
        closed == [r EXCEPT !.st = "CLOSED"]
    IN  IF r.qp
        THEN /\ cep' = [cep EXCEPT ![c] = closed]
             /\ qp' = [qp EXCEPT ![c].ref = @ + 1]
             /\ run' = [run EXCEPT ![h].at = "close"]
        ELSE /\ cep' = [cep EXCEPT ![c] = WorkDone(DropId(CloseSocket(closed)))]
             /\ EndWork(h)
             /\ UNCHANGED qp

\* siw_cm_work_handler for READ_MPAHDR: a datagram that comes after the
\* handshake is ignored.
ReadIgnored(c) ==
    /\ Starting(HostOf(c), "READ_MPAHDR") /\ run[HostOf(c)].cep = c
    /\ cep[c].st # "AWAIT_MPAREP"
    /\ cep' = [cep EXCEPT ![c] = WorkDone(@)]
    /\ EndWork(HostOf(c))
    /\ UNCHANGED <<qp, wq, delayed, devVars, netVars, faults, told, unanswered, broken>>

\* siw_proc_trpreply: the depths of the client's queues.
ReplyIrq(c, m) == Max({m.ord, cep[c].ird})
ReplyOrq(c, m) == Min({m.ird, cep[c].ord})
\* siw_proc_trpreply: the outcome of the reply.
Accepted(c, m) == m.type = "accept" /\ ~TooDeep(m) /\ qp[c].st = "IDLE"
ProcTrpReply(c) ==
    LET h == HostOf(c)
        m == Received(c)
        r == CancelTimer(c, cep[c])
    IN  /\ Starting(h, "READ_MPAHDR") /\ run[h].cep = c
        /\ cep[c].st = "AWAIT_MPAREP" /\ sock[c] # <<>>
        /\ sock' = [sock EXCEPT ![c] = Tail(@)]
        /\ wq' = [wq EXCEPT ![h] = WithoutTimer(c, @)]
        /\ IF Accepted(c, m)
           THEN /\ qp' = [qp EXCEPT ![c] = ToRts(@, ReplyIrq(c, m), ReplyOrq(c, m))]
                /\ Notify(c)
                /\ LET armed == ArmTimer(Get([r EXCEPT !.st = "RECVD_MPAREP",
                                                       !.peer = m.from], 1))
                   IN  /\ cep' = [cep EXCEPT ![c] = WorkDone(armed)]
                       /\ delayed' = (delayed \ {c}) \cup
                                     (IF armed.timer THEN {c} ELSE {})
                /\ EndWork(h)
                /\ UNCHANGED told
           ELSE /\ delayed' = delayed \ {c}
                /\ IF m.type = "accept" /\ TooDeep(m) THEN UNCHANGED told
                   ELSE Tell(c, "reply_error")
                /\ Release(c, r)
                /\ UNCHANGED established
        /\ UNCHANGED <<rtr_wait, urdmad, rtr, net, faults, unanswered, broken>>

TimeoutEvent(st) ==
    CASE st \in {"AWAIT_MPAREP", "RECVD_MPAREP"} -> "reply_error"
      [] st = "ACCEPTING" -> "established_error"
      [] OTHER -> "none"
Timeout(c) ==
    LET r == [cep[c] EXCEPT !.timer = FALSE]
    IN  /\ Starting(HostOf(c), "TIMEOUT") /\ run[HostOf(c)].cep = c
        /\ IF TimeoutEvent(r.st) = "none" THEN UNCHANGED told
           ELSE Tell(c, TimeoutEvent(r.st))
        /\ Release(c, r)
        /\ UNCHANGED <<wq, delayed, devVars, netVars, faults, unanswered, broken>>

\* siw_qp_llp_close, which waits for state_lock, and the end of release_cep.
LlpClose(c) ==
    LET h == HostOf(c)
        st == CASE qp[c].st \in {"IDLE", "RTS"} -> "ERROR"
                [] qp[c].st = "CLOSING" -> "IDLE"
                [] OTHER -> qp[c].st
        r == Put(cep[c], IF qp[c].cep THEN 1 ELSE 0)
    IN  /\ Up(c) /\ run[h].at = "close" /\ run[h].cep = c /\ qp[c].drop = "no"
        /\ qp' = [qp EXCEPT ![c] = [QpPut(Unlink(@), 2) EXCEPT !.st = st]]
        /\ cep' = [cep EXCEPT ![c] =
                     WorkDone(DropId(CloseSocket([r EXCEPT !.qp = FALSE])))]
        /\ sock' = [sock EXCEPT ![c] = <<>>]
        /\ EndWork(h)
        /\ UNCHANGED <<wq, delayed, devVars, net, faults, told, unanswered, broken>>
------------------------------------------------------------------------------
(* The character device *)

Null(h) == broken' = [broken EXCEPT ![h] = "null"]

\* urdma_chardev_poll: urdmad reads only when there is an event.
Readable(h) == established[h] # <<>>
\* fetch_dest_hwaddr.
RouteFails == "route" \in Failures

\* urdma_chardev_read, do_read_established_event: cep->qp is followed under
\* file->lock, which does not protect it.  The end point changes lists even
\* when the route lookup then fails the read.
ChardevRead(h) ==
    LET c == Head(established[h])
    IN  /\ Readable(h) /\ broken[h] = "no"
        /\ IF cep[c].qp
           THEN /\ established' = [established EXCEPT ![h] = Tail(@)]
                /\ rtr_wait' = [rtr_wait EXCEPT ![h] = Append(@, c)]
                /\ \/ /\ urdmad' = [urdmad EXCEPT ![h] = @ \cup {c}]
                   \/ /\ RouteFails
                      /\ UNCHANGED urdmad
                /\ UNCHANGED broken
           ELSE Null(h) /\ UNCHANGED <<established, rtr_wait, urdmad>>
        /\ UNCHANGED <<cep, qp, workVars, rtr, netVars, faults, told, unanswered>>

\* urdma_chardev_write of an RTR event for queue pair q: the list is searched
\* through cep->qp, and the entry removed through qp->cep.
ChardevWrite(h, q) ==
    LET list == rtr_wait[h]
        visited == {i \in DOMAIN list :
                       \A j \in 1 .. i - 1 : ~(list[j] = q /\ cep[q].qp)}
        found == q \in Range(list) /\ cep[q].qp
        null == \/ \E i \in visited : ~cep[list[i]].qp
                \/ found /\ ~qp[q].cep
    IN  /\ q \in urdmad[h] /\ rtr[h] = "none" /\ broken[h] = "no"
        /\ urdmad' = [urdmad EXCEPT ![h] = @ \ {q}]
        /\ IF null THEN Null(h) ELSE UNCHANGED broken
        /\ IF found /\ ~null
           THEN /\ rtr_wait' = [rtr_wait EXCEPT ![h] =
                                   SelectSeq(@, LAMBDA c : c # q)]
                /\ rtr' = [rtr EXCEPT ![h] = q]
                /\ qp' = [qp EXCEPT ![q].ref = @ + 1]
           ELSE UNCHANGED <<rtr_wait, rtr, qp>>
        /\ UNCHANGED <<cep, workVars, established, netVars, faults, told, unanswered>>

\* siw_qp_rtr, called by the write for qp->cep, which may be gone by now.  On
\* every path the reference of the lists is put last.
TrpAccept(c) == [type |-> "accept", to |-> cep[c].peer, from |-> c,
                 ird |-> qp[c].irq, ord |-> qp[c].orq]
QpRtr(h) ==
    LET c == rtr[h]
        r == CancelTimer(c, cep[c])
        Back(r1) == cep' = [cep EXCEPT ![c] = Put(r1, 1)]
                    /\ qp' = [qp EXCEPT ![c] = QpPut(@, 1)]
    IN  /\ c # "none" /\ broken[h] = "no" /\ qp[c].cep
        /\ rtr' = [rtr EXCEPT ![h] = "none"]
        /\ delayed' = delayed \ {c}
        /\ wq' = [wq EXCEPT ![h] = WithoutTimer(c, @)]
        /\ \/ /\ r.st = "ACCEPTING"
              /\ net' = net \cup {TrpAccept(c)}
              /\ Tell(c, "established")
              /\ Back([r EXCEPT !.st = "RDMA_MODE"])
           \/ /\ r.st = "ACCEPTING" /\ "upcall" \in Failures  \* accept_error
              /\ net' = net \cup {TrpAccept(c)}
              /\ cep' = [cep EXCEPT ![c] =
                    Put(CloseSocket([r EXCEPT !.st = "CLOSED", !.cm_id = FALSE,
                                              !.qp = FALSE]), 3)]
              /\ qp' = [qp EXCEPT ![c] = QpPut(Unlink(@), 2)]
              /\ Tell(c, "refused")
           \/ /\ r.st = "ACCEPTING" /\ "send" \in Failures
              /\ Back(r)
              /\ UNCHANGED <<net, told>>
           \/ /\ r.st = "RECVD_MPAREP"
              /\ Tell(c, "reply")
              /\ Back([r EXCEPT !.st = "RDMA_MODE"])
              /\ UNCHANGED <<net>>
           \/ /\ r.st = "RECVD_MPAREP" /\ "upcall" \in Failures
              /\ Tell(c, "refused")
              /\ Back(r)
              /\ UNCHANGED net
           \/ /\ r.st \notin {"ACCEPTING", "RECVD_MPAREP"}
              /\ Back(r)
              /\ UNCHANGED <<net, told>>
        /\ UNCHANGED <<run, established, rtr_wait, urdmad, sock, faults, unanswered, broken>>

\* siw_qp_rtr is handed the null qp->cep of a queue pair that lost its end
\* point since the lookup.
QpRtrNull(h) ==
    /\ rtr[h] # "none" /\ broken[h] = "no" /\ ~qp[rtr[h]].cep
    /\ Null(h)
    /\ UNCHANGED <<cep, qp, workVars, devVars, netVars, faults, told, unanswered>>

\* urdma_chardev_release: urdmad died.  Its successor finds empty lists.
ChardevRelease(h) ==
    /\ faults < MaxFaults /\ rtr[h] = "none" /\ broken[h] = "no"
    /\ faults' = faults + 1
    /\ cep' = [c \in Ceps |-> IF HostOf(c) = h /\ OnLists(c)
                              THEN Put(cep[c], 1) ELSE cep[c]]
    /\ established' = [established EXCEPT ![h] = <<>>]
    /\ rtr_wait' = [rtr_wait EXCEPT ![h] = <<>>]
    /\ urdmad' = [urdmad EXCEPT ![h] = {}]
    /\ UNCHANGED <<qp, workVars, rtr, netVars, told, unanswered, broken>>
------------------------------------------------------------------------------
(* Disconnecting *)

\* siw_qp_modify: the transitions that drop the connection.
Drops_AnyState(q) == q.st \in {"IDLE", "RTS"}
Drops(q) == q.st = "RTS"
\* siw_qp_modify: the new state; a transition it does not know is ignored.
NextState(q, state) ==
    CASE q.st = "IDLE" /\ state = "CLOSING" -> "IDLE"
      [] q.st = "ERROR" -> "ERROR"
      [] OTHER -> state

\* siw_ofed_modify_qp and siw_destroy_qp take state_lock and call
\* siw_qp_modify.  From RTS the connection is dropped, which first waits for
\* in_use; in the other states the call is over at once.
ModifyQp(c, state, op) ==
    LET q == qp[c]
        drops == Drops(q)
        unlinks == q.cep /\ ~drops
                   /\ (op = "destroy" \/ (q.st = "IDLE" /\ state = "ERROR"))
    IN  /\ q.user /\ q.drop = "no" /\ Up(c)
        /\ cep' = IF unlinks THEN [cep EXCEPT ![c] = Put(@, 1)] ELSE cep
        /\ qp' = [qp EXCEPT ![c] =
                    [@ EXCEPT !.st = NextState(q, state),
                              !.drop = IF drops /\ q.cep THEN op ELSE "no",
                              !.cep = @ /\ ~unlinks,
                              !.user = op = "modify" \/ (drops /\ q.cep),
                              !.ref = IF op = "modify" \/ (drops /\ q.cep)
                                      THEN @ ELSE @ - 1]]
        /\ UNCHANGED <<workVars, devVars, netVars, faults, told, unanswered, broken>>

\* siw_destroy_qp.
DestroyQp(c) == ModifyQp(c, "ERROR", "destroy")

\* siw_qp_cm_drop: CLOSE is for a connection the IWCM believes in.
TellsClose_AnyState(r) == r.cm_id
TellsClose(r) == r.cm_id /\ r.st = "RDMA_MODE"

\* siw_qp_cm_drop(qp, 0) once in_use is free, and the end of the call that
\* holds state_lock.
CmDrop(c) ==
    LET r == cep[c]
        closed == r.st = "CLOSED"
        destroys == qp[c].drop = "destroy"
        dropped == IF closed THEN r
                   ELSE CloseSocket(DropId([r EXCEPT !.st = "CLOSED",
                                                     !.qp = FALSE]))
    IN  /\ qp[c].drop # "no" /\ Up(c) /\ Live(c)
        /\ IF TellsClose(r) THEN Tell(c, "close")
           ELSE UNCHANGED told
        /\ cep' = [cep EXCEPT ![c] = IF destroys /\ qp[c].cep
                                     THEN Put(dropped, 1) ELSE dropped]
        /\ qp' = [qp EXCEPT ![c] =
                    [@ EXCEPT !.drop = "no",
                              !.user = ~destroys,
                              !.cep = @ /\ ~destroys,
                              !.ref = @ - (IF ~closed /\ r.qp THEN 1 ELSE 0)
                                        - (IF destroys THEN 1 ELSE 0)]]
        /\ unanswered' = IF c \in Clients /\ r.st = "RECVD_MPAREP"
                         THEN unanswered \cup {c} ELSE unanswered
        /\ sock' = IF closed THEN sock ELSE [sock EXCEPT ![c] = <<>>]
        /\ UNCHANGED <<workVars, devVars, net, faults, broken>>

\* siw_qp_cm_drop read qp->cep before it waited for in_use; meanwhile
\* accept_error of siw_qp_rtr has put the last reference.
CmDropFreed(c) ==
    /\ qp[c].drop # "no" /\ Up(c) /\ ~Live(c)
    /\ broken' = [broken EXCEPT ![HostOf(c)] = "freed"]
    /\ UNCHANGED <<cep, qp, workVars, devVars, netVars, faults, told, unanswered>>
------------------------------------------------------------------------------
Next ==
    \/ CreateListen \/ DestroyListen \/ Deliver
    \/ \E c \in Clients : Connect(c) \/ ConnectFails(c)
    \/ \E c \in Children :
          \/ Accept(c) \/ Reject(c) \/ AnswerEarly(c) \/ NewConn(c)
          \/ \E late \in BOOLEAN : AcceptFails(c, late)
    \/ NoNewConn \/ Hookup
    \/ \E h \in Hosts :
          \/ WorkBegin(h) \/ ChardevRead(h) \/ QpRtr(h) \/ QpRtrNull(h)
          \/ ChardevRelease(h)
          \/ \E q \in Ends : ChardevWrite(h, q)
    \/ \E c \in Ends :
          \/ TimerFires(c) \/ Timeout(c) \/ LlpClose(c) \/ CmDrop(c)
          \/ CmDropFreed(c)
          \/ ModifyQp(c, "CLOSING", "modify")
          \/ ModifyQp(c, "ERROR", "modify")
          \/ DestroyQp(c)
    \/ \E c \in Clients : ReadIgnored(c) \/ ProcTrpReply(c)

Spec == Init /\ [][Next]_vars

\* The work queue runs its items and timers expire; a thread in the kernel
\* returns.  Nothing is assumed of the network, of urdmad or of the IWCM.
Work(h) ==
    \/ WorkBegin(h) \/ QpRtr(h)
    \/ h = "server" /\ (NoNewConn \/ Hookup \/ \E c \in Children : NewConn(c))
    \/ \E c \in Ends : HostOf(c) = h /\ (Timeout(c) \/ LlpClose(c))
    \/ \E c \in Clients : HostOf(c) = h /\ (ReadIgnored(c) \/ ProcTrpReply(c))
LiveSpec == /\ Spec
            /\ \A h \in Hosts : WF_vars(Work(h))
            /\ \A c \in Ends : WF_vars(TimerFires(c)) /\ WF_vars(CmDrop(c))
------------------------------------------------------------------------------
(* Properties *)

Life == {"new", "live", "freed"}
CepState == {"IDLE", "LISTENING", "RECVD_MPAREQ", "AWAIT_MPAREP",
             "RECVD_MPAREP", "ACCEPTING", "RDMA_MODE", "CLOSED"}
Message == [type : {"req", "accept", "reject"}, to : Ceps, from : Ceps,
            ird : Nat, ord : Nat]
\* Types of the end points, queue pairs, queues and lists of both hosts.
TypeOK ==
    /\ cep \in [Ceps -> [life : Life, st : CepState, ref : Int,
                         cm_id : BOOLEAN, qp : BOOLEAN, timer : BOOLEAN,
                         iwcm : BOOLEAN, sock : {"none", "own", "listener"},
                         works : Nat, ird : Nat, ord : Nat,
                         peer : Clients \cup Children \cup {"none"}]]
    /\ qp \in [Ends -> [st : {"IDLE", "RTS", "CLOSING", "ERROR"},
                        cep : BOOLEAN, ref : Nat, irq : Nat, orq : Nat,
                        user : BOOLEAN, drop : {"no", "modify", "destroy"}]]
    /\ delayed \subseteq Ends /\ net \subseteq Message
    /\ unanswered \subseteq Clients
    /\ \A h \in Hosts :
        /\ \A w \in Range(wq[h]) :
              w \in [cep : Ceps, type : {"ACCEPT", "READ_MPAHDR", "TIMEOUT"}]
        /\ run[h].at \in {"idle", "start", "hookup", "close"}
        /\ Range(established[h]) \cup Range(rtr_wait[h]) \subseteq Ends
        /\ urdmad[h] \subseteq Ends /\ rtr[h] \in Ends \cup {"none"}
        /\ broken[h] \in {"no", "null", "freed", "listener_socket"}
    /\ faults \in 0 .. MaxFaults

One(b) == IF b THEN 1 ELSE 0
Occurrences(c, list) == Cardinality({i \in DOMAIN list : list[i] = c})
\* Who holds a reference to an end point: the IWCM id, or the code that has
\* not yet handed it over to one; the IWCM for an unanswered request; the
\* socket; the queue pair; the lists of the device, or a write that took it
\* off; every work item, waiting, counting down or executing.
Holders(c) ==
    LET h == HostOf(c)
    IN  One((c # Listener /\ cep[c].cm_id)
            \/ cep[c].st \in {"IDLE", "LISTENING", "RECVD_MPAREQ"})
        + One(cep[c].iwcm) + One(cep[c].sock = "own")
        + One(c # Listener /\ qp[c].cep)
        + Occurrences(c, established[h] \o rtr_wait[h]) + One(rtr[h] = c)
        + Cardinality({i \in DOMAIN wq[h] : wq[h][i].cep = c})
        + One(c \in delayed) + One(run[h].cep = c)
QpHolders(c) ==
    One(qp[c].user) + One(cep[c].qp) + One(rtr[HostOf(c)] = c)
    + One(run[HostOf(c)].cep = c /\ run[HostOf(c)].at = "close")
\* The error path of siw_connect is left out: it puts one reference more than
\* it took.
CountsHolders ==
    \A c \in Ceps : cep[c].life # "new" /\ Up(c) =>
        /\ (c = Listener \/ told[c] # <<"connect_error">>) =>
              /\ cep[c].ref = (IF cep[c].life = "freed" THEN 0 ELSE Holders(c))
              /\ cep[c].life = "freed" =>
                    ~OnLists(c) /\ (c = Listener \/ ~qp[c].cep)
                    /\ run[HostOf(c)].cep # c /\ c \notin delayed
        /\ c # Listener => qp[c].ref = QpHolders(c)

\* The character device and siw_qp_cm_drop follow pointers without the lock
\* that protects them.  That goes wrong in two cases only: a connection was
\* closed before urdmad has answered for it, or the IWCM refused to be told of
\* an established one.
UndefinedOnlyIf ==
    \A h \in Hosts :
        /\ broken[h] = "null" =>
              \E c \in Ends : /\ HostOf(c) = h /\ cep[c].st = "CLOSED"
                              /\ (OnLists(c) \/ rtr[h] = c)
        /\ broken[h] = "freed" =>
              \E c \in Ends : HostOf(c) = h /\ told[c] = <<"refused">>

\* The reference counts of end points and queue pairs (siw_cep_get and
\* siw_cep_put in cm.c, qp.c, main.c and verbs.c) are exact: an object is
\* freed when its last user is gone and not before, whatever the order of
\* replies, timeouts, urdmad's reads, writes and death, and of calls to close
\* the queue pair; and a freed one is used only as UndefinedOnlyIf says.
ReferencesExact == TypeOK /\ CountsHolders /\ UndefinedOnlyIf

\* What siw_proc_trpreply and siw_accept negotiate: neither side may have more
\* RDMA READs outstanding than the other side has room for.
DepthsAgree ==
    \A c \in Clients : qp[c].st = "RTS" =>
        LET s == cep[c].peer
        IN  qp[s].irq >= qp[c].orq /\ qp[c].irq >= qp[s].orq

\* A client is told that it is connected only by a server end point that has
\* itself been reported established to its IWCM (siw_qp_rtr on both sides),
\* even if that one refused to hear of it.
ConnectedMeansAccepted ==
    \A c \in Clients : "reply" \in Range(told[c]) =>
        /\ cep[c].peer \in Children
        /\ {"established", "refused"} \cap Range(told[cep[c].peer]) # {}


\* The IWCM gets at most one answer to a connect and to an accept, and CLOSE
\* only after a successful one and only once, although the timer, urdmad's
\* write, the reply and a close of the queue pair race for it.
\* Only an answer it refused may be followed by a timeout.
OneAnswer ==
    \A c \in Ends :
        /\ Len(told[c]) <= 2 /\ told[c] # <<"close">>
        /\ Len(told[c]) = 2 => told[c] \in {<<"reply", "close">>,
                                            <<"established", "close">>,
                                            <<"refused", "reply_error">>}

\* siw_proc_trpreply takes state_lock while it holds in_use; siw_qp_cm_drop
\* takes in_use while its caller holds state_lock.  They never do so for the
\* same connection, so neither waits for the other for ever.
LockOrder ==
    \A c \in Ends : qp[c].drop # "no" =>
        cep[c].st \notin {"AWAIT_MPAREP", "RECVD_MPAREQ"}

==============================================================================
