----------------------------- MODULE QpLifecycle -----------------------------
(***************************************************************************)
(* The life of a queue pair in a verbs process: who may free it, when.       *)
(*                                                                          *)
(* A queue pair is shared by the application (one thread per queue pair      *)
(* here), the progress thread (kni_loop), and urdmad, which marks it         *)
(* connected.  conn_state is an atomic variable in shared memory;            *)
(* conn_event_lock is held by usiw_destroy_qp, start_qp, qp_shutdown and     *)
(* urdmad's do_setup_qp, but not by usiw_modify_qp.  The list qp_active is    *)
(* changed by usiw_create_qp and by the progress thread without a lock: an   *)
(* insertion that overlaps another change may be lost, or leave pointers to   *)
(* memory that is freed.                                                     *)
(***************************************************************************)
EXTENDS Integers, FiniteSets, SequencesExt

CONSTANTS
    Qps,           \* struct usiw_qp, each with its struct urdmad_qp
    Cqs,           \* completion queues
    Pairs,         \* the <<send_cq, recv_cq>> queue pairs are created with
    UINT_MAX,      \* largest value of an atomic_uint
    MaxCreates,    \* calls of usiw_create_qp (bound)
    MaxFaults      \* failing calls (bound)

ASSUME QpLifecycleAssumption ==
    /\ IsFiniteSet(Qps) /\ UINT_MAX \in Nat \ {0}
    /\ MaxCreates \in Nat /\ MaxFaults \in Nat
    /\ Pairs \subseteq Cqs \X Cqs
    /\ Qps \cap {"none", "late"} = {}

VARIABLES
    ctx,           \* struct usiw_context: none, open, closed (h->ctxp is 0)
    handle,        \* its struct usiw_context_handle: none, ring, list, freed
    qp_init_count,
    cq,            \* each completion queue
    qp,            \* each queue pair
    pc,            \* the call its application thread is in
    qp_active,     \* the list, as the progress thread can follow it
    loop,          \* the progress thread: where it is, qp and qp_next
    event,         \* the queue pair whose CONNECTED event urdmad has read
    raced,         \* history: the queue pairs whose insertion overlapped another
                   \* change; "late" when a destroyed queue pair was connected
    broken,        \* undefined behaviour that has happened
    creates, faults

appVars == <<ctx, cq, pc, creates>>
listVars == <<qp_active, raced>>
vars == <<appVars, handle, qp_init_count, qp, listVars, loop, event,
          broken, faults>>

None == "none"
Order == [unbound |-> 0, connected |-> 1, running |-> 2, shutdown |-> 3, error |-> 4]
Rank(s) == Order[s]

\* mem: none, live, freed.  user: the application has it.  store: what start_qp
\* allocates.  kernel: the kernel can still connect it.  returned: the messages
\* that gave it back to urdmad.  seen: conn_state as usiw_destroy_qp found it.
NoQp == [mem |-> "none", conn |-> "unbound", refcnt |-> 0, user |-> FALSE,
         send |-> "none", recv |-> "none", store |-> "none", kernel |-> FALSE,
         returned |-> 0, seen |-> "none"]
\* leaked: queue pairs counted by a usiw_create_qp that then failed.
NoCq == [mem |-> "none", user |-> FALSE, refcnt |-> 0, qp_count |-> 0, leaked |-> 0]
AtTop == [at |-> "top", qp |-> None, next |-> None]

Init ==
    /\ ctx = "none" /\ handle = "none" /\ qp_init_count = 0
    /\ cq = [c \in Cqs |-> NoCq] /\ qp = [q \in Qps |-> NoQp]
    /\ pc = [q \in Qps |-> "idle"]
    /\ qp_active = <<>> /\ loop = AtTop /\ event = "none"
    /\ raced = {} /\ broken = {} /\ creates = 0 /\ faults = 0

Fault == faults < MaxFaults /\ faults' = faults + 1
NoFault == faults' = faults
\* usiw_destroy_qp holds conn_event_lock; the others hold it for one step.
Locked(q) == pc[q] = "cas"
\* The thread of q is at the step; nothing runs on after undefined behaviour.
Sound == broken = {}
In(q, step) == Sound /\ pc[q] = step
CqsOf(q) == {qp[q].send, qp[q].recv}
Wrap(n) == n % (UINT_MAX + 1)

\* qp_count++ and qp_count-- are not atomic: when two threads are at it at once
\* the count may be wrong from then on, and the model stops.
Counted(q, n) ==
    [c \in Cqs |-> IF c \in CqsOf(q) THEN [cq[c] EXCEPT !.qp_count = Wrap(@ + n)]
                   ELSE cq[c]]
Miscount(q) ==
    \/ UNCHANGED broken
    \/ /\ \E o \in Qps \ {q} : pc[o] \in {"count", "cas"} /\ CqsOf(o) \cap CqsOf(q) # {}
       /\ broken' = {"miscount"}

\* atomic_fetch_sub on the queue pair's refcnt, usiw_do_destroy_qp for the last
\* one: the references to the completion queues go, each freed with its last,
\* the stores of start_qp are freed, and urdmad gets its queue pair back.
CqUnref_Early(cqs) ==
    [c \in Cqs |-> IF c \notin cqs THEN cq[c]
                   ELSE [cq[c] EXCEPT !.refcnt = @ - 1,
                                      !.mem = IF cq[c].refcnt <= 2 THEN "freed" ELSE @]]
CqUnref(cqs) ==
    [c \in Cqs |-> IF c \notin cqs THEN cq[c]
                   ELSE [cq[c] EXCEPT !.refcnt = @ - 1,
                                      !.mem = IF cq[c].refcnt = 1 THEN "freed" ELSE @]]
PutQp(q) ==
    LET r == qp[q] IN
    IF r.refcnt > 1
    THEN /\ qp' = [qp EXCEPT ![q].refcnt = @ - 1]
         /\ UNCHANGED <<cq, broken>>
    ELSE /\ qp' = [qp EXCEPT ![q] = [NoQp EXCEPT !.mem = "freed",
                                                 !.returned = r.returned + 1]]
         /\ cq' = CqUnref(CqsOf(q))
         /\ broken' = IF r.store = "freed" THEN {"double free"} ELSE broken
------------------------------------------------------------------------------
(* Contexts and completion queues *)

\* urdma_alloc_context.
AddContext == handle' = "ring"
AllocContext ==
    /\ Sound /\ ctx = "none"
    /\ \/ NoFault /\ ctx' = "open" /\ AddContext
       \/ Fault /\ ctx' = "closed" /\ UNCHANGED handle
    /\ UNCHANGED <<qp_init_count, cq, qp, pc, listVars, loop, event,
                   broken, creates>>

\* urdma_free_context, by an application that has destroyed its objects.
FreeContext ==
    /\ Sound /\ ctx = "open"
    /\ \A q \in Qps : pc[q] = "idle" /\ ~qp[q].user
    /\ \A c \in Cqs : ~cq[c].user
    /\ ctx' = "closed"
    /\ UNCHANGED <<handle, qp_init_count, cq, qp, pc, listVars, loop,
                   event, broken, creates, faults>>

\* usiw_create_cq, each queue once.
CreateCq(c) ==
    /\ Sound /\ ctx = "open" /\ cq[c].mem = "none"
    /\ cq' = [cq EXCEPT ![c] = [NoCq EXCEPT !.mem = "live", !.user = TRUE,
                                            !.refcnt = 1]]
    /\ UNCHANGED <<ctx, handle, qp_init_count, qp, pc, listVars, loop,
                   event, broken, creates, faults>>

\* usiw_destroy_cq: EBUSY while a queue pair uses it.
DestroyCq(c) ==
    /\ Sound /\ cq[c].user /\ cq[c].qp_count = 0
    /\ \A q \in Qps : c \in CqsOf(q) => pc[q] = "idle"
    /\ cq' = [CqUnref({c}) EXCEPT ![c].user = FALSE]
    /\ UNCHANGED <<ctx, handle, qp_init_count, qp, pc, listVars, loop,
                   event, broken, creates, faults>>
------------------------------------------------------------------------------
(* The application's calls *)

\* usiw_create_qp up to the counters.  The hardware queue pair comes from
\* urdmad, which must not be inside a handler.
CreateQp(q, send, recv) ==
    /\ In(q, "idle") /\ qp[q].mem # "live" /\ creates < MaxCreates
    /\ ctx = "open" /\ cq[send].user /\ cq[recv].user
    /\ event = "none"
    /\ creates' = creates + 1
    /\ \/ /\ NoFault
          /\ qp' = [qp EXCEPT ![q] = [NoQp EXCEPT !.mem = "live", !.kernel = TRUE,
                                                 !.send = send, !.recv = recv]]
          /\ pc' = [pc EXCEPT ![q] = "count"]
       \/ Fault /\ UNCHANGED <<qp, pc>>
    /\ UNCHANGED <<ctx, handle, qp_init_count, cq, listVars, loop, event, broken>>

\* The counters and the work queues; when those cannot be allocated the counters
\* keep their new values.
Linking == {q \in Qps : pc[q] = "link"}
\* Two references: the list's and the user's.
FirstRefs == 2
Publish(q) ==
    LET Refs(leaked) == [c \in Cqs |->
            IF c \in CqsOf(q) THEN [Counted(q, 1)[c] EXCEPT !.refcnt = @ + 1,
                                                            !.leaked = @ + leaked]
            ELSE cq[c]]
    IN  /\ In(q, "count")
        /\ \/ /\ NoFault
              /\ cq' = Refs(0)
              /\ qp' = [qp EXCEPT ![q].refcnt = FirstRefs]
              /\ qp_init_count' = Wrap(qp_init_count + 1)
              /\ raced' = IF Linking = {} /\ loop.at # "unlink" THEN raced
                          ELSE raced \cup Linking \cup {q}
              /\ pc' = [pc EXCEPT ![q] = "link"]
           \/ /\ Fault
              /\ cq' = Refs(1)
              /\ qp' = [qp EXCEPT ![q] = [NoQp EXCEPT !.mem = "freed", !.returned = 1]]
              /\ pc' = [pc EXCEPT ![q] = "idle"]
              /\ UNCHANGED <<qp_init_count, raced>>
        /\ Miscount(q)
        /\ UNCHANGED <<ctx, handle, qp_active, loop, event, creates>>
\* list_add_tail, whose first access is part of Publish.
Link(q) ==
    /\ In(q, "link")
    /\ \/ qp_active' = Append(qp_active, q) /\ UNCHANGED broken
       \/ q \in raced /\ UNCHANGED <<qp_active, broken>>
       \/ q \in raced /\ broken' = {"dangling node"} /\ UNCHANGED qp_active
    /\ qp' = [qp EXCEPT ![q].user = TRUE]
    /\ pc' = [pc EXCEPT ![q] = "idle"]
    /\ UNCHANGED <<ctx, handle, qp_init_count, cq, raced, loop, event, creates,
                   faults>>

\* usiw_modify_qp to SQD or ERR: the compare-and-exchange loop is one step.
Modified(state) == CASE state \in {"unbound", "connected", "error"} -> "error"
                     [] OTHER -> "shutdown"
ModifyQp(q) ==
    /\ In(q, "idle") /\ qp[q].user /\ qp[q].conn # "error"
    /\ qp' = [qp EXCEPT ![q].conn = Modified(@), ![q].kernel = FALSE]
    /\ UNCHANGED <<appVars, handle, qp_init_count, listVars, loop, event,
                   broken, faults>>

\* usiw_destroy_qp.  Under the lock: the kernel queue pair goes, conn_state is
\* read, the counters change.
Decrements_Connected(state) == state \in {"unbound", "connected"}
Decrements(state) == state = "unbound"
DestroyQp(q) ==
    /\ In(q, "idle") /\ qp[q].user
    /\ qp' = [qp EXCEPT ![q].kernel = FALSE, ![q].user = FALSE, ![q].seen = qp[q].conn]
    /\ IF Decrements(qp[q].conn)
       THEN /\ broken' = IF qp_init_count = 0 THEN {"assert"} ELSE broken
            /\ qp_init_count' = Wrap(qp_init_count - 1)
       ELSE UNCHANGED <<broken, qp_init_count>>
    /\ pc' = [pc EXCEPT ![q] = "cas"]
    /\ UNCHANGED <<ctx, handle, cq, listVars, loop, event, creates, faults>>
Errored(seen, now) ==
    IF Rank(seen) \in 1..2 /\ Rank(now) < Rank("shutdown") THEN "error" ELSE now
DestroyCas(q) ==
    /\ In(q, "cas")
    /\ cq' = Counted(q, -1) /\ Miscount(q)
    /\ qp' = [qp EXCEPT ![q].conn = Errored(qp[q].seen, @), ![q].seen = "none"]
    /\ pc' = [pc EXCEPT ![q] = "put"]
    /\ UNCHANGED <<ctx, handle, qp_init_count, listVars, loop, event, creates, faults>>
DestroyPut(q) ==
    /\ In(q, "put")
    /\ PutQp(q)
    /\ pc' = [pc EXCEPT ![q] = "idle"]
    /\ UNCHANGED <<ctx, handle, qp_init_count, listVars, loop, event,
                   creates, faults>>
------------------------------------------------------------------------------
(* Connections *)

\* The kernel connects the queue pair, and urdmad's chardev_data_ready reads
\* the event.  do_setup_qp waits for the lock (what it does to a queue pair that
\* has been given back by then is urdmad's own affair).
ReadEvent(q) ==
    /\ In(q, "idle") /\ qp[q].user /\ qp[q].kernel /\ event = "none"
    /\ event' = q
    /\ qp' = [qp EXCEPT ![q].kernel = FALSE]
    /\ UNCHANGED <<appVars, handle, qp_init_count, listVars, loop, broken,
                   faults>>
SetupQp(q) ==
    /\ Sound /\ event = q /\ ~Locked(q)
    /\ event' = "none"
    /\ \/ /\ NoFault /\ qp[q].mem = "live"
          /\ qp' = [qp EXCEPT ![q].conn = "connected"]
          /\ raced' = IF qp[q].user THEN raced ELSE raced \cup {"late"}
       \/ /\ \/ Fault
             \/ NoFault /\ qp[q].mem # "live"
          /\ UNCHANGED <<qp, raced>>
    /\ UNCHANGED <<appVars, handle, qp_init_count, qp_active, loop, broken>>
------------------------------------------------------------------------------
(* The progress thread: kni_loop *)

\* The next round of list_for_each_safe, which has read qp_next already.
NextOf(q) == LET i == CHOOSE j \in 1..Len(qp_active) : qp_active[j] = q
             IN  IF i < Len(qp_active) THEN qp_active[i + 1] ELSE None
Visit(q) == IF q = None THEN AtTop ELSE [at |-> "load", qp |-> q, next |-> NextOf(q)]
Advance == loop' = Visit(loop.next)
At(step) == Sound /\ loop.at = step
Goto(step) == loop' = [loop EXCEPT !.at = step]

\* qp_shutdown.
QpShutdown(q) ==
    /\ ~Locked(q)
    /\ qp' = [qp EXCEPT ![q].conn = "error", ![q].kernel = FALSE]

\* A new context is taken from new_ctxs; a closed one is dropped with its list.
TakeContext ==
    /\ At("top") /\ handle = "ring"
    /\ handle' = "list"
    /\ UNCHANGED <<appVars, qp_init_count, qp, listVars, loop, event, broken,
                   faults>>
BeginPass ==
    /\ At("top") /\ handle = "list"
    /\ \/ /\ ctx = "closed" /\ handle' = "freed"
          /\ UNCHANGED loop
       \/ /\ ctx = "open" /\ qp_active # <<>>
          /\ loop' = Visit(qp_active[1])
          /\ UNCHANGED handle
    /\ UNCHANGED <<appVars, qp_init_count, qp, listVars, event, broken, faults>>

\* The switch on conn_state; qp_shutdown and list_del for SHUTDOWN.
LoadState ==
    LET q == loop.qp
    IN  /\ At("load")
        /\ \/ qp[q].conn = "unbound" /\ Advance /\ UNCHANGED qp
           \/ qp[q].conn = "connected" /\ Goto("start") /\ UNCHANGED qp
           \/ qp[q].conn = "running" /\ Goto("progress") /\ UNCHANGED qp
           \/ qp[q].conn = "error" /\ Goto("del") /\ UNCHANGED qp
           \/ qp[q].conn = "shutdown" /\ Goto("del") /\ QpShutdown(q)
        /\ UNCHANGED <<appVars, handle, qp_init_count, listVars, event, broken, faults>>

\* start_qp, then progress_qp unless the state is error.  A failure after the
\* first allocation frees what was allocated and leaves the pointers.
Started_Store(state) == "running"
Started(state) == IF state = "connected" THEN "running" ELSE state
StartQp ==
    LET q == loop.qp
    IN  /\ At("start") /\ ~Locked(q)
        /\ \/ /\ NoFault
              /\ qp' = [qp EXCEPT ![q].store = "ok", ![q].conn = Started(@)]
              /\ qp_init_count' = Wrap(qp_init_count - 1)
              /\ IF qp'[q].conn = "error" THEN Advance ELSE Goto("progress")
           \/ /\ Fault
              /\ \E s \in {"none", "freed"} :
                    qp' = [qp EXCEPT ![q].store = s, ![q].conn = "error"]
              /\ Advance
              /\ UNCHANGED qp_init_count
        /\ UNCHANGED <<appVars, handle, listVars, event, broken>>

\* progress_qp as far as it matters here: nothing ends the connection, a FIN or
\* a TERMINATE arrives, or a retransmission fails for good.
ProgressQp ==
    /\ At("progress")
    /\ \/ NoFault /\ UNCHANGED qp
       \/ NoFault /\ QpShutdown(loop.qp)
       \/ Fault /\ qp' = [qp EXCEPT ![loop.qp].conn = "error"]
    /\ Advance
    /\ UNCHANGED <<appVars, handle, qp_init_count, listVars, event, broken>>

\* list_del, from its first access to its last one, and the list's reference.
Del ==
    /\ At("del")
    /\ raced' = raced \cup Linking
    /\ Goto("unlink")
    /\ UNCHANGED <<appVars, handle, qp_init_count, qp, qp_active, event, broken,
                   faults>>
Unlinked(q) == SelectSeq(qp_active, LAMBDA o : o # q)
Unlink ==
    /\ At("unlink")
    /\ qp_active' = Unlinked(loop.qp)
    /\ PutQp(loop.qp)
    /\ Advance
    /\ UNCHANGED <<ctx, pc, creates, handle, qp_init_count, raced, event, faults>>
------------------------------------------------------------------------------
Call(q) == Publish(q) \/ Link(q) \/ DestroyCas(q) \/ DestroyPut(q)
Progress == TakeContext \/ BeginPass \/ LoadState \/ StartQp \/ ProgressQp
            \/ Del \/ Unlink

Next ==
    \/ AllocContext \/ FreeContext
    \/ \E c \in Cqs : CreateCq(c) \/ DestroyCq(c)
    \/ \E q \in Qps :
        \/ \E u \in Pairs : CreateQp(q, u[1], u[2])
        \/ Call(q) \/ ModifyQp(q) \/ DestroyQp(q)
        \/ ReadEvent(q) \/ SetupQp(q)
    \/ Progress

Spec == Init /\ [][Next]_vars

\* The progress thread never sleeps, a call that has begun goes on, and urdmad
\* gets the lock it waits for.
Fairness ==
    /\ WF_vars(Progress)
    /\ \A q \in Qps : WF_vars(Call(q)) /\ WF_vars(SetupQp(q))
LiveSpec == Spec /\ Fairness
------------------------------------------------------------------------------
(* Properties *)

States == DOMAIN Order
\* Every variable keeps its type.
TypeOK ==
    /\ ctx \in {"none", "open", "closed"}
    /\ handle \in {"none", "ring", "list", "freed"}
    /\ qp_init_count \in 0..UINT_MAX
    /\ cq \in [Cqs -> [mem : {"none", "live", "freed"}, user : BOOLEAN,
                       refcnt : 0..(MaxCreates + 1), qp_count : 0..UINT_MAX,
                       leaked : 0..MaxFaults]]
    /\ qp \in [Qps -> [mem : {"none", "live", "freed"}, conn : States, refcnt : 0..2,
                       user : BOOLEAN, send : Cqs \cup {"none"},
                       recv : Cqs \cup {"none"}, store : {"none", "ok", "freed"},
                       kernel : BOOLEAN, returned : 0..1, seen : States \cup {"none"}]]
    /\ pc \in [Qps -> {"idle", "count", "link", "cas", "put"}]
    /\ qp_active \in Seq(Qps)
    /\ loop.qp \in Qps \cup {None} /\ loop.next \in Qps \cup {None}
    /\ event \in Qps \cup {"none"}
    /\ raced \subseteq Qps \cup {"late"}
    /\ broken \subseteq {"double free", "dangling node", "miscount", "assert"}
    /\ creates \in 0..MaxCreates /\ faults \in 0..MaxFaults

\* The queue pair has been published and usiw_destroy_qp has not returned.
UserRef(q) == qp[q].user \/ pc[q] \in {"link", "cas", "put"}
ListRef(q) == pc[q] = "link" \/ q \in Range(qp_active)
Published(q) == qp[q].mem = "live" /\ pc[q] # "count"

\* refcnt counts the user's reference and the list's: it is freed when neither
\* is left, and only then (usiw_create_qp, usiw_destroy_qp, kni_loop).  After an
\* insertion that overlapped another change the list's may be held for ever.
QpRefsExact ==
    Sound => \A q \in Qps :
        /\ Published(q) /\ q \notin raced =>
               /\ qp[q].refcnt = Cardinality({UserRef(q)} \cap {TRUE})
                                 + Cardinality({ListRef(q)} \cap {TRUE})
               /\ qp[q].refcnt > 0
        /\ UserRef(q) \/ ListRef(q) \/ loop.qp = q => qp[q].mem = "live"

\* The progress thread can complete work requests of a queue pair until it is
\* off the list, whatever the application has destroyed in the meantime: the
\* completion queues' memory lasts as long as the queue pair's.
CqsOutliveQps ==
    \A q \in Qps : Published(q) => \A c \in CqsOf(q) : cq[c].mem = "live"

\* qp_count and refcnt of a completion queue count the queue pairs that use it
\* and the ones that have it in memory, and the ones usiw_create_qp counted and
\* then failed to create: such a queue can never be destroyed again.
CqCountsExact ==
    Sound => \A c \in Cqs : cq[c].mem = "live" =>
        LET uses == {q \in Qps : Published(q) /\ c \in CqsOf(q)}
        IN  /\ cq[c].qp_count = cq[c].leaked
                + Cardinality({q \in uses : qp[q].user \/ pc[q] \in {"link", "cas"}})
            /\ cq[c].refcnt = cq[c].leaked + Cardinality(uses)
                              + Cardinality({cq[c].user} \cap {TRUE})

\* usiw_create_qp, usiw_destroy_qp, usiw_destroy_cq and kni_loop: queue pairs and
\* completion queues are freed by whoever is last to use them, whatever the
\* interleaving of application, progress thread and urdmad.
RefsExact == TypeOK /\ QpRefsExact /\ CqsOutliveQps /\ CqCountsExact

\* progress_qp, and send_trp_fin in qp_shutdown, use what start_qp allocated:
\* a queue pair that is running or shutting down has been started.
RunningIsStarted ==
    \A q \in Qps :
        /\ qp[q].conn \in {"running", "shutdown"} => qp[q].store = "ok"
        /\ loop.qp = q /\ loop.at = "progress" => qp[q].store = "ok"

\* The assertion of usiw_destroy_qp and more: qp_init_count is at least the
\* number of queue pairs in the INIT state, unless urdmad connected one that
\* had been destroyed (it waits for the lock usiw_destroy_qp holds, and then
\* stores CONNECTED whatever the state is).
InitCounted ==
    "late" \notin raced =>
        /\ qp_init_count >= Cardinality({q \in Qps : qp[q].user /\ qp[q].conn = "unbound"})
        /\ "assert" \notin broken

\* start_qp, usiw_modify_qp, usiw_destroy_qp and do_setup_qp move conn_state
\* concurrently: what they allocate and count agrees with it.
StatesExact == RunningIsStarted /\ InitCounted

\* A queue pair in the error state stays there, except when urdmad's store
\* overtakes usiw_modify_qp, which does not take conn_event_lock.
ErrorIsFinal ==
    [][\A q \in Qps : qp[q].mem = "live" /\ qp[q].conn = "error" =>
            \/ qp'[q].mem = "freed" \/ qp'[q].conn = "error"
            \/ event = q /\ event' = "none"]_vars

\* A destroyed queue pair that was connected is freed and returned to urdmad,
\* unless the context is closed first: kni_loop then drops the whole list.
Destroyed(q) == Published(q) /\ ~UserRef(q)
DestroyedIsFreed ==
    \A q \in Qps : Destroyed(q) /\ qp[q].conn \in {"shutdown", "error"} ~>
        qp[q].mem = "freed" \/ ctx = "closed" \/ raced # {} \/ ~Sound

\* usiw_modify_qp only asks for the shutdown: the progress thread does it.
ShutdownHappens ==
    \A q \in Qps : qp[q].conn = "shutdown" ~>
        qp[q].conn # "shutdown" \/ ctx = "closed" \/ raced # {} \/ ~Sound

\* kni_loop, usiw_modify_qp and usiw_destroy_qp: a queue pair that is shut down
\* or destroyed comes to its end, and does not come back.
TeardownEnds == ErrorIsFinal /\ DestroyedIsFreed /\ ShutdownHappens
=============================================================================
