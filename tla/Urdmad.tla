------------------------------- MODULE Urdmad -------------------------------
(***************************************************************************)
(* The urdmad daemon and the verbs processes it serves.                      *)
(*                                                                          *)
(* urdmad owns the NIC: it hands out hardware queue pairs and lcores over a  *)
(* SOCK_SEQPACKET socket, and sets up the filter and the queues of a queue    *)
(* pair when the kernel reports its connection.  All of this is one thread,  *)
(* event_loop: an action of the daemon is one handler it calls.  A process   *)
(* starts its driver (our_eal_master_thread), greets urdmad and then         *)
(* creates and destroys queue pairs; it may end at any time, which closes    *)
(* its socket and its kernel objects, in no particular order.                *)
(*                                                                          *)
(* A send to a process that has closed its socket raises SIGPIPE, which      *)
(* urdmad neither blocks nor handles: it ends the daemon.                    *)
(***************************************************************************)
EXTENDS PortConfig, FiniteSets, SequencesExt

CONSTANTS
    Procs,         \* processes that use urdma, each a verbs application
    Files,         \* configuration file entries urdmad may be started with
    Nics,          \* the NICs it may find, each with the lcores of its host that
                   \* have ROLE_OFF in the daemon's EAL
    Threads,       \* threads of a process that create queue pairs at once
    MaxCreates,    \* queue pairs a process asks for (bound)
    MaxFaults      \* failing calls (bound)

ASSUME UrdmadAssumption ==
    /\ Threads \in Nat \ {0} /\ MaxCreates \in Nat /\ MaxFaults \in Nat
    /\ \A n \in Nics : IsFiniteSet(n.lcores) /\ n.lcores \subseteq Nat
    /\ Procs \cap {"none", "lost"} = {}

Qps == 1..Max({0} \cup {f.max_qp : f \in Files})

VARIABLES
    daemon,        \* off, init, up; or how it ended: exit, null, sigpipe
    nic,           \* the NIC and the lcores it was started on
    port,          \* struct usiw_port
    addr,          \* port->ipv4_addr is set and the KNI interface has it
    avail,         \* port->avail_qp
    owner,         \* the process on whose owned_qps a queue pair is; "lost"
                   \* when that list went with a freed struct urdma_process
    hw,            \* filter and queues of each queue pair in the NIC
    conn,          \* conn_state: "unbound" or the process it is set up for
    core_mask,     \* lcores urdmad has left
    core_avail,    \* and their number
    served,        \* struct urdma_process of each process: none, open, freed
    mask,          \* its core_mask
    backlog,       \* connections listen_data_ready has yet to accept
    req, resp,     \* messages in each process's socket, per direction
    lib,           \* each process: how far its driver is, and what it holds
    kernel,        \* kernel queue pairs <<process, qp>> that are not connected
    events,        \* the ones whose CONNECTED event urdmad has yet to read
    stale,         \* history: queue pairs an event was applied to after their
                   \* process had lost them
    faults

vars == <<daemon, nic, port, addr, avail, owner, hw, conn, core_mask,
          core_avail, served, mask, backlog, req, resp, lib, kernel, events,
          stale, faults>>
portVars == <<nic, port, addr>>
poolVars == <<avail, owner, hw, conn>>
coreVars == <<core_mask, core_avail, mask>>
sockVars == <<served, backlog, req, resp>>
kernelVars == <<kernel, events, stale>>

NoPort == [max_qp |-> 0]
\* The filters that steer to the queue, each named for the process whose
\* connection it is for; the one local_udp_port names; the queues that run.
Idle == [filters |-> {}, port |-> "none", on |-> "off"]
NewLib == [at |-> "new", mask |-> {}, qps |-> {}, waiting |-> 0, asked |-> 0,
           sock |-> "none"]

Init ==
    /\ daemon = "off"
    /\ nic \in Nics
    /\ port = NoPort /\ addr = FALSE
    /\ avail = <<>>
    /\ owner = [q \in Qps |-> "none"]
    /\ hw = [q \in Qps |-> Idle]
    /\ conn = [q \in Qps |-> "unbound"]
    /\ core_mask = {} /\ core_avail = 0
    /\ served = [p \in Procs |-> "none"]
    /\ mask = [p \in Procs |-> {}]
    /\ backlog = <<>>
    /\ req = [p \in Procs |-> <<>>] /\ resp = [p \in Procs |-> <<>>]
    /\ lib = [p \in Procs |-> NewLib]
    /\ kernel = {} /\ events = {} /\ stale = {}
    /\ faults = 0

Down == daemon \in {"exit", "null", "sigpipe"}
Fault == faults < MaxFaults /\ faults' = faults + 1
NoFault == faults' = faults
\* The client's end of its socket has been closed, by the process or by its end.
Closed(p) == lib[p].sock = "closed"
\* A send of the process fails, and raises SIGPIPE: fatal to a process that
\* does not ignore it.
Gone(p) == served[p] = "freed" \/ Down
Killed(p) ==
    lib' = [lib EXCEPT ![p] = [NewLib EXCEPT !.at = "exited", !.sock = lib[p].sock]]
\* recv returns 0 on the client's end: the daemon closed its end, or is gone.
Eof(p) == resp[p] = <<>> /\ Gone(p)
------------------------------------------------------------------------------
(* Starting the daemon *)

\* main up to setup_socket: from then on clients can connect.
InitCoreMask == core_mask' = nic.lcores /\ core_avail' = Cardinality(nic.lcores)
Start ==
    /\ daemon = "off"
    /\ InitCoreMask
    /\ \/ NoFault /\ daemon' = "init"
       \/ Fault /\ daemon' = "exit"
    /\ UNCHANGED <<portVars, poolVars, mask, sockVars, lib, kernelVars>>

\* do_init_driver: the ports.  Any failure is rte_exit.
InitPorts(file) ==
    LET conf == GetPort(file)
    IN  /\ daemon = "init"
        /\ IF ParseFails(conf) \/ PortExits(conf, nic)
           THEN /\ daemon' = "exit"
                /\ UNCHANGED <<port, avail>>
           ELSE /\ daemon' = "up"
                /\ port' = PortInit(conf, nic)
                /\ avail' = [i \in 1..MaxQp(conf, nic) |-> i]
        /\ UNCHANGED <<nic, addr, owner, hw, conn, coreVars, sockVars, lib,
                       kernelVars, faults>>

\* usiw_driver_setup_netlink and usiw_set_ipv4_addr, while event_loop runs.
SetAddr ==
    /\ daemon = "up" /\ ~addr
    /\ \/ NoFault /\ addr' = TRUE /\ UNCHANGED daemon
       \/ Fault /\ daemon' = "exit" /\ UNCHANGED addr
    /\ UNCHANGED <<nic, port, poolVars, coreVars, sockVars, lib, kernelVars>>
------------------------------------------------------------------------------
(* Starting the driver of a process *)

\* urdma_device_alloc, once per process: do_init_driver starts the thread.
\* A failure leaves driver NULL for good.
StartDriver(p) ==
    /\ lib[p].at = "new"
    /\ \/ NoFault /\ lib' = [lib EXCEPT ![p].at = "config"]
       \/ Fault /\ lib' = [lib EXCEPT ![p].at = "failed"]
    /\ UNCHANGED <<daemon, portVars, poolVars, coreVars, sockVars, kernelVars>>

\* do_config and setup_socket of our_eal_master_thread.
OpenSocket(p) ==
    /\ lib[p].at = "config"
    /\ \/ /\ NoFault /\ daemon \in {"init", "up"}
          /\ lib' = [lib EXCEPT ![p].at = "hello", ![p].sock = "open"]
          /\ backlog' = Append(backlog, p)
       \/ /\ \/ Fault
             \/ NoFault /\ (daemon = "off" \/ Down)
          /\ lib' = [lib EXCEPT ![p].at = "failed"]
          /\ UNCHANGED backlog
    /\ UNCHANGED <<daemon, portVars, poolVars, coreVars, served, req, resp,
                   kernelVars>>

\* The first half of do_hello: the request asks for one lcore.
SendHello(p) ==
    /\ lib[p].at = "hello"
    /\ IF Gone(p)
       THEN /\ \/ lib' = [lib EXCEPT ![p].at = "failed", ![p].sock = "closed"]
               \/ Killed(p)
            /\ UNCHANGED req
       ELSE lib' = [lib EXCEPT ![p].at = "wait"]
            /\ req' = [req EXCEPT ![p] = Append(@, <<"hello", 1>>)]
    /\ UNCHANGED <<daemon, portVars, poolVars, coreVars, served, backlog, resp,
                   kernelVars, faults>>

\* The second half of do_hello and the rest of our_eal_master_thread, up to
\* sem_post: every failure closes the socket and posts the semaphore too.
RecvHello(p) ==
    /\ lib[p].at = "wait"
    /\ \/ /\ resp[p] # <<>> /\ NoFault
          /\ lib' = [lib EXCEPT ![p].at = "ready", ![p].mask = Head(resp[p])[2]]
          /\ resp' = [resp EXCEPT ![p] = Tail(@)]
       \/ /\ \/ Eof(p) /\ NoFault
             \/ resp[p] # <<>> /\ Fault
          /\ lib' = [lib EXCEPT ![p].at = "failed", ![p].sock = "closed"]
          /\ resp' = [resp EXCEPT ![p] = <<>>]
    /\ UNCHANGED <<daemon, portVars, poolVars, coreVars, served, backlog, req,
                   kernelVars>>

\* usiw_driver_init: the KNI interface must have its address by now.
OpenDevice(p) ==
    /\ lib[p].at = "ready"
    /\ lib' = [lib EXCEPT ![p].at = IF addr THEN "open" ELSE "nodevice"]
    /\ UNCHANGED <<daemon, portVars, poolVars, coreVars, sockVars, kernelVars,
                   faults>>
------------------------------------------------------------------------------
(* Queue pairs of a process *)

\* port_get_next_qp up to recv: threads share the socket.
CreateQp(p) ==
    /\ lib[p].at = "open" /\ lib[p].waiting < Threads
    /\ lib[p].asked < MaxCreates
    /\ IF Gone(p)
       THEN Killed(p) /\ UNCHANGED req
       ELSE lib' = [lib EXCEPT ![p].waiting = @ + 1, ![p].asked = @ + 1]
            /\ req' = [req EXCEPT ![p] = Append(@, <<"create", 0>>)]
    /\ UNCHANGED <<daemon, portVars, poolVars, coreVars, served, backlog, resp,
                   kernelVars, faults>>

Unbound_Kept(states, q) == states
Unbound(states, q) == [states EXCEPT ![q] = "unbound"]
\* The rest of port_get_next_qp and usiw_create_qp: the kernel queue pair is
\* created, then conn_state is reset; a failure gives the queue pair back.
CreateQpResp(p) ==
    /\ lib[p].at = "open" /\ lib[p].waiting > 0
    /\ \/ /\ Eof(p) /\ NoFault
          /\ lib' = [lib EXCEPT ![p].waiting = @ - 1]
          /\ UNCHANGED <<conn, req, resp, kernel>>
       \/ /\ resp[p] # <<>>
          /\ resp' = [resp EXCEPT ![p] = Tail(@)]
          /\ LET q == Head(resp[p])[2]
             IN  \/ /\ NoFault
                    /\ lib' = [lib EXCEPT ![p].waiting = @ - 1,
                                          ![p].qps = @ \cup {q}]
                    /\ kernel' = kernel \cup {<<p, q>>}
                    /\ conn' = Unbound(conn, q)
                    /\ UNCHANGED req
                 \/ /\ Fault
                    /\ lib' = [lib EXCEPT ![p].waiting = @ - 1]
                    /\ req' = [req EXCEPT ![p] = Append(@, <<"destroy", q>>)]
                    /\ UNCHANGED <<conn, kernel>>
    /\ UNCHANGED <<daemon, portVars, avail, owner, hw, coreVars, served, backlog,
                   events, stale>>

\* The kernel connection manager moves a queue pair to RTS.
Connected(p, q) ==
    /\ <<p, q>> \in kernel /\ addr
    /\ kernel' = kernel \ {<<p, q>>} /\ events' = events \cup {<<p, q>>}
    /\ UNCHANGED <<daemon, portVars, poolVars, coreVars, sockVars, lib, stale,
                   faults>>

\* usiw_destroy_qp and usiw_do_destroy_qp: the kernel queue pair goes first.
DestroyQp(p, q) ==
    /\ lib[p].at = "open" /\ q \in lib[p].qps
    /\ IF Gone(p)
       THEN /\ \/ lib' = [lib EXCEPT ![p].qps = @ \ {q}]
               \/ Killed(p)
            /\ UNCHANGED req
       ELSE /\ lib' = [lib EXCEPT ![p].qps = @ \ {q}]
            /\ req' = [req EXCEPT ![p] = Append(@, <<"destroy", q>>)]
    /\ kernel' = kernel \ {<<p, q>>} /\ events' = events \ {<<p, q>>}
    /\ UNCHANGED <<daemon, portVars, poolVars, coreVars, served, backlog, resp,
                   stale, faults>>

\* The process ends; the kernel closes its socket and its verbs context.
Exit(p) ==
    /\ lib[p].at \notin {"new", "exited"}
    /\ Killed(p)
    /\ UNCHANGED <<daemon, portVars, poolVars, coreVars, sockVars, kernelVars,
                   faults>>
ExitSocket(p) ==
    /\ lib[p].at = "exited" /\ lib[p].sock = "open"
    /\ lib' = [lib EXCEPT ![p].sock = "closed"]
    /\ resp' = [resp EXCEPT ![p] = <<>>]
    /\ UNCHANGED <<daemon, portVars, poolVars, coreVars, served, backlog, req,
                   kernelVars, faults>>
ExitContext(p) ==
    /\ lib[p].at = "exited" /\ \E k \in kernel \cup events : k[1] = p
    /\ kernel' = {k \in kernel : k[1] # p}
    /\ events' = {k \in events : k[1] # p}
    /\ UNCHANGED <<daemon, portVars, poolVars, coreVars, sockVars, lib, stale,
                   faults>>
------------------------------------------------------------------------------
(* The handlers of event_loop *)

\* listen_data_ready.
ListenReady ==
    /\ daemon = "up" /\ backlog # <<>>
    /\ served' = [served EXCEPT ![Head(backlog)] = "open"]
    /\ backlog' = Tail(backlog)
    /\ UNCHANGED <<daemon, portVars, poolVars, coreVars, req, resp, lib,
                   kernelVars, faults>>

\* return_lcores and reserve_cores (lowest lcores first).
ReturnLcores_NotCounted(cores) ==
    core_mask' = core_mask \cup cores /\ UNCHANGED core_avail
ReturnLcores(cores) ==
    /\ core_mask' = core_mask \cup cores
    /\ core_avail' = core_avail + Cardinality(cores)
Lowest(n) == CHOOSE s \in kSubset(n, core_mask) :
                 \A a \in s, b \in core_mask \ s : a < b

\* return_qp's effect on the NIC.  A filter that cannot be deleted (or that
\* was never added) makes the 2-tuple mode skip the rest.
Quiet(r, deleted) ==
    IF port.mode = "2tuple" /\ (~deleted \/ r.port \notin r.filters) THEN r
    ELSE [r EXCEPT !.filters = IF deleted THEN @ \ {r.port} ELSE @, !.on = "off"]

\* The error path of process_data_ready: the lists and the lcores of the
\* process are forgotten with it.
Forget(p) ==
    /\ served' = [served EXCEPT ![p] = "freed"]
    /\ owner' = [q \in Qps |-> IF owner[q] = p THEN "lost" ELSE owner[q]]

\* process_data_ready on a process that has closed its socket: all it has is
\* returned.
Owned(p) == {q \in Qps : owner[q] = p}
AtEof(p) == req[p] = <<>> /\ Closed(p)
ProcessEof(p) ==
    LET mine == Owned(p)
    IN  /\ daemon = "up" /\ served[p] = "open" /\ AtEof(p)
        /\ \E s \in SetToSeqs(mine) : avail' = avail \o s
        /\ owner' = [q \in Qps |-> IF q \in mine THEN "none" ELSE owner[q]]
        /\ \E bad \in SUBSET mine :
              /\ IF bad = {} THEN NoFault ELSE Fault
              /\ hw' = [q \in Qps |-> IF q \in mine THEN Quiet(hw[q], q \notin bad)
                                      ELSE hw[q]]
        /\ ReturnLcores(mask[p])
        /\ mask' = [mask EXCEPT ![p] = {}]
        /\ served' = [served EXCEPT ![p] = "freed"]
        /\ UNCHANGED <<daemon, portVars, conn, backlog, req, resp, lib,
                       kernelVars>>

Take(queue) == Tail(queue)
\* send_create_qp_resp.
QpResp_None(queue, q) == queue
QpResp(queue, q) == Append(queue, <<"qp", q>>)
ProcessCreate(p) ==
    /\ daemon = "up" /\ served[p] = "open"
    /\ req[p] # <<>> /\ Head(req[p])[1] = "create"
    /\ req' = [req EXCEPT ![p] = Tail(@)]
    /\ IF avail = <<>>
       THEN /\ daemon' = "null" /\ NoFault
            /\ UNCHANGED <<avail, owner, served, resp>>
       ELSE LET q == Head(avail)
            IN  /\ avail' = Take(avail)
                /\ \/ /\ ~Closed(p) /\ NoFault
                      /\ owner' = [owner EXCEPT ![q] = p]
                      /\ resp' = [resp EXCEPT ![p] = QpResp(@, q)]
                      /\ UNCHANGED <<daemon, served>>
                   \/ /\ ~Closed(p) /\ Fault       \* send fails, say EAGAIN
                      /\ served' = [served EXCEPT ![p] = "freed"]
                      /\ owner' = [r \in Qps |-> IF owner[r] = p \/ r = q
                                                 THEN "lost" ELSE owner[r]]
                      /\ UNCHANGED <<daemon, resp>>
                   \/ /\ Closed(p) /\ NoFault
                      /\ daemon' = "sigpipe"
                      /\ owner' = [owner EXCEPT ![q] = p]
                      /\ UNCHANGED <<served, resp>>
    /\ UNCHANGED <<portVars, hw, conn, coreVars, backlog, lib, kernelVars>>

\* urdma_sock_destroy_qp_req: return_qp, whoever the owner is.
ProcessDestroy(p) ==
    /\ daemon = "up" /\ served[p] = "open"
    /\ req[p] # <<>> /\ Head(req[p])[1] = "destroy"
    /\ LET q == Head(req[p])[2]
       IN  /\ avail' = Append(SelectSeq(avail, LAMBDA r : r # q), q)
           /\ owner' = [owner EXCEPT ![q] = "none"]
           /\ \E deleted \in BOOLEAN :
                 /\ IF deleted THEN NoFault ELSE Fault
                 /\ hw' = [hw EXCEPT ![q] = Quiet(@, deleted)]
    /\ req' = [req EXCEPT ![p] = Tail(@)]
    /\ UNCHANGED <<daemon, portVars, conn, coreVars, served, backlog, resp, lib,
                   kernelVars>>

\* handle_hello.
ProcessHello(p) ==
    LET n == Head(req[p])[2]
    IN  /\ daemon = "up" /\ served[p] = "open"
        /\ req[p] # <<>> /\ Head(req[p])[1] = "hello"
        /\ req' = [req EXCEPT ![p] = Tail(@)]
        /\ IF n > core_avail
           THEN /\ Forget(p) /\ NoFault
                /\ UNCHANGED <<daemon, coreVars, resp>>
           ELSE /\ core_mask' = core_mask \ Lowest(n)
                /\ core_avail' = core_avail - n
                /\ mask' = [mask EXCEPT ![p] = @ \cup Lowest(n)]
                /\ \/ /\ ~Closed(p) /\ NoFault
                      /\ resp' = [resp EXCEPT ![p] = Append(@, <<"hello", mask'[p]>>)]
                      /\ UNCHANGED <<daemon, served, owner>>
                   \/ /\ ~Closed(p) /\ Fault
                      /\ Forget(p)
                      /\ UNCHANGED <<daemon, resp>>
                   \/ /\ Closed(p) /\ NoFault
                      /\ daemon' = "sigpipe"
                      /\ UNCHANGED <<served, owner, resp>>
        /\ UNCHANGED <<portVars, avail, hw, conn, backlog, lib, kernelVars>>

\* chardev_data_ready and do_setup_qp.  ENOTSUP for a 5-tuple filter makes the
\* port fall back to 2-tuple filters for good.  On a failure the kernel is not
\* told, and what was set up before it stays.
SetupMode == IF port.mode = "5tuple" /\ ~port.five THEN "2tuple" ELSE port.mode
ChardevReady(p, q) ==
    LET steered == [hw[q] EXCEPT !.port = p, !.filters =
                       IF port.mode = "none" THEN @ ELSE @ \cup {p}]
    IN  /\ daemon = "up" /\ <<p, q>> \in events
        /\ events' = events \ {<<p, q>>}
        /\ stale' = IF owner[q] = p THEN stale ELSE stale \cup {q}
        /\ port' = [port EXCEPT !.mode = SetupMode]
        /\ \/ /\ NoFault
              /\ hw' = [hw EXCEPT ![q] = [steered EXCEPT !.on = "both"]]
              /\ conn' = [conn EXCEPT ![q] = p]
           \/ /\ Fault              \* the filter
              /\ hw' = [hw EXCEPT ![q].port = p]
              /\ UNCHANGED conn
           \/ /\ Fault              \* the receive queue, or the transmit queue
              /\ \E on \in {hw[q].on, "rx"} :
                    hw' = [hw EXCEPT ![q] = [steered EXCEPT !.on = on]]
              /\ UNCHANGED conn
        /\ UNCHANGED <<daemon, nic, addr, avail, owner, coreVars, sockVars, lib,
                       kernel>>
------------------------------------------------------------------------------
Serve(p) == ProcessEof(p) \/ ProcessCreate(p) \/ ProcessDestroy(p) \/ ProcessHello(p)
Driver(p) == OpenSocket(p) \/ SendHello(p) \/ RecvHello(p)

Next ==
    \/ Start
    \/ \E f \in Files : InitPorts(f)
    \/ SetAddr
    \/ ListenReady
    \/ \E p \in Procs :
        \/ StartDriver(p) \/ OpenDevice(p) \/ CreateQp(p) \/ CreateQpResp(p)
        \/ Driver(p) \/ Serve(p)
        \/ Exit(p) \/ ExitSocket(p) \/ ExitContext(p)
        \/ \E q \in Qps : Connected(p, q) \/ DestroyQp(p, q) \/ ChardevReady(p, q)

Spec == Init /\ [][Next]_vars

\* epoll_wait reports every ready descriptor in turn, and a handler always
\* returns; the thread that starts a driver runs; the kernel finishes ending
\* a process.  Nothing says that an application creates, destroys or exits.
Fairness ==
    /\ WF_vars(\E f \in Files : InitPorts(f))
    /\ WF_vars(ListenReady)
    /\ \A p \in Procs :
        /\ WF_vars(Serve(p)) /\ WF_vars(Driver(p)) /\ WF_vars(CreateQpResp(p))
        /\ WF_vars(ExitSocket(p))
LiveSpec == Spec /\ Fairness
------------------------------------------------------------------------------
(* Properties *)

Modes == {"5tuple", "2tuple", "fdir", "none"}
\* Every variable keeps its type.
TypeOK ==
    /\ daemon \in {"off", "init", "up", "exit", "null", "sigpipe"}
    /\ nic \in Nics
    /\ port.max_qp \in {0} \cup Qps
    /\ addr \in BOOLEAN
    /\ avail \in Seq(Qps)
    /\ owner \in [Qps -> Procs \cup {"none", "lost"}]
    /\ hw \in [Qps -> [filters : SUBSET Procs, port : Procs \cup {"none"},
                       on : {"off", "rx", "both"}]]
    /\ conn \in [Qps -> Procs \cup {"unbound"}]
    /\ core_mask \subseteq nic.lcores /\ core_avail \in 0..Cardinality(nic.lcores)
    /\ served \in [Procs -> {"none", "open", "freed"}]
    /\ mask \in [Procs -> SUBSET nic.lcores]
    /\ backlog \in Seq(Procs)
    /\ \A p \in Procs :
        /\ lib[p].at \in {"new", "config", "hello", "wait", "ready", "open",
                          "nodevice", "failed", "exited"}
        /\ lib[p].mask \subseteq nic.lcores /\ lib[p].qps \subseteq Qps
        /\ lib[p].waiting \in 0..Threads /\ lib[p].asked \in 0..MaxCreates
        /\ lib[p].sock \in {"none", "open", "closed"}
    /\ kernel \cup events \subseteq Procs \X Qps /\ stale \subseteq Qps
    /\ faults \in 0..MaxFaults

\* A queue pair that a living process holds is on its list in urdmad, or on
\* none that urdmad can still reach; it is never available to another one.
\* usiw_create_qp and port_return_qp against avail_qp and owned_qps.
HeldIsOwned ==
    \A p \in Procs :
        \A q \in lib[p].qps : owner[q] \in {p, "lost"} /\ q \notin Range(avail)

\* Once the port is up every queue pair is on avail_qp, once, or on the list
\* of a process urdmad serves; it is on none only when a reply could not be
\* sent, because process_data_ready then frees the process without returning
\* what it owns.
QueuesExact ==
    daemon = "up" =>
        /\ IsInjective(avail)
        /\ \A q \in 1..port.max_qp :
            /\ (q \in Range(avail)) <=> (owner[q] = "none")
            /\ owner[q] \in Procs => served[owner[q]] = "open"
            /\ owner[q] = "lost" => faults > 0


\* An lcore is urdmad's or belongs to one process, core_avail counts the
\* ones that are left, and the lcores a driver runs on are the ones urdmad
\* reserved for it.  They come back with the socket, except when the reply to
\* the hello could not be sent.
LcoresExact ==
    daemon # "off" =>
        /\ core_avail = Cardinality(core_mask)
        /\ \A p \in Procs :
            /\ mask[p] \cap core_mask = {}
            /\ \A o \in Procs \ {p} : mask[p] \cap mask[o] = {}
            /\ lib[p].at \in {"ready", "open", "nodevice"} =>
                   lib[p].mask = mask[p] /\ mask[p] # {}
            /\ served[p] = "freed" /\ mask[p] # {} => faults > 0
        /\ core_mask \cup UNION {mask[p] : p \in Procs} = nic.lcores

\* An available queue pair receives nothing: no filter steers to it and its
\* queues are stopped.  The exceptions are calls into the NIC that failed, and
\* a queue pair that was set up for a process that no longer had it:
\* handle_qp_connected_event does not ask who owns the queue pair, and return_qp
\* only deletes the filter of the last connection.
QuietWhenFree ==
    faults = 0 => \A q \in Range(avail) \ stale :
                      hw[q].filters = {} /\ hw[q].on = "off"

\* A queue pair whose conn_state says connected was set up for the process
\* that holds it, with the same exception; and the exception needs a process
\* whose socket was closed before its verbs context, or one that urdmad let go
\* because a reply failed.
OwnersConnected ==
    /\ \A p \in Procs : \A q \in lib[p].qps \ stale : conn[q] \in {"unbound", p}
    /\ stale # {} => faults > 0 \/ \E p \in Procs : lib[p].at = "exited"

\* handle_qp_connected_event and return_qp: what the NIC and conn_state say of a
\* queue pair is what its owner set up, and nothing when it has none.
ConnectedToOwn == QuietWhenFree /\ OwnersConnected


\* do_init_driver waits on a semaphore without a timeout: the thread it starts
\* posts it in every case, as urdmad answers a hello or closes the socket.
StartupEnds ==
    \A p \in Procs : lib[p].at = "config" ~>
        lib[p].at \in {"ready", "open", "nodevice", "failed", "exited"}

\* port_get_next_qp waits in recv without a timeout: it returns.
CreateAnswered ==
    \A p \in Procs : lib[p].waiting > 0 ~>
        lib[p].waiting = 0 \/ lib[p].at = "exited"

\* urdmad lets go of every process that ended, unless it ended itself.
EndedIsFreed ==
    \A p \in Procs : lib[p].at = "exited" /\ lib[p].sock # "none" ~>
        served[p] = "freed" \/ Down

\* Nobody waits for urdmad for ever, and urdmad for nobody: the three waits of
\* do_init_driver, port_get_next_qp and process_data_ready end.
RequestsAnswered == StartupEnds /\ CreateAnswered /\ EndedIsFreed
=============================================================================
