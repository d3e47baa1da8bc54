--------------------------- MODULE KernelObjects ---------------------------
(***************************************************************************)
(* The objects of the kernel module: its set-up, the device of a KNI          *)
(* interface and what the events of the interface do to it, the verbs objects *)
(* (contexts, protection domains, completion queues, queue pairs) with their  *)
(* counters, identifiers and references, and the event file through which    *)
(* liburdma announces completions.                                           *)
(*                                                                          *)
(* Calls of user programs come in through uverbs, which is not part of the   *)
(* module: it keeps an object while a call uses it, does not destroy what    *)
(* another object needs, and destroys what is left when a context is closed  *)
(* or the device goes away.  The event file and the connection manager are   *)
(* outside its reach.  Every object is created at most once.                 *)
(***************************************************************************)
EXTENDS Integers, FiniteSets, Sequences

CONSTANTS
    Callers,       \* threads in a verbs call
    Ctx,           \* the context of the user program
    Pds, Cqs, Qps, \* what it may create
    Limit,           \* SIW_MAX_CONTEXT, _PD, _CQ, _QP
    MaxNet,        \* events of the interface (bound)
    MaxFaults      \* allocations and copies that fail (bound)

Kinds == {"ctx", "pd", "cq", "qp"}
ASSUME KernelAssumption ==
    /\ Limit \in [Kinds -> Nat] /\ MaxNet \in Nat /\ MaxFaults \in Nat
    /\ IsFiniteSet(Pds) /\ IsFiniteSet(Cqs) /\ IsFiniteSet(Qps) /\ IsFiniteSet(Callers)
    /\ Pds \cap Cqs = {} /\ Pds \cap Qps = {} /\ Cqs \cap Qps = {}
    /\ Ctx \notin Pds \cup Cqs \cup Qps

Objects == {Ctx} \cup Pds \cup Cqs \cup Qps
Kind(o) == IF o = Ctx THEN "ctx" ELSE IF o \in Pds THEN "pd"
           ELSE IF o \in Cqs THEN "cq" ELSE "qp"

VARIABLES
    module,        \* loaded or not, and what siw_init_module has set up
    net,           \* the KNI interface: there, up, its address; events so far
    sdev,          \* its struct siw_dev
    num,           \* num_ctx, num_pd, num_cq, num_qp
    obj,           \* the objects
    call,          \* where each caller is
    core,          \* uverbs closing the context, or the device going away
    file,          \* the event file and the context's pointer to it
    writer,        \* liburdma's progress thread in write(event_fd)
    closer,        \* the last close of event_fd
    cm,            \* queue pairs the connection manager has a reference to
    warned,        \* history: the WARN_ONs of siw_device_deregister
    faults,
    races,         \* history: what happened at the same time
    broken         \* undefined behaviour

netVars == <<module, net>>
userVars == <<call, core>>
fileVars == <<file, writer, closer>>
vars == <<netVars, sdev, num, obj, userVars, fileVars, cm, warned, faults, races,
          broken>>

NoObject == [st |-> "none", ref |-> 0, idr |-> FALSE, user |-> FALSE, uses |-> <<>>]
NoCall == [at |-> "idle", obj |-> Ctx, over |-> FALSE, uses |-> <<>>]
NoDevice == [st |-> "none", state |-> "none", guid |-> 0]

Init ==
    /\ module = [st |-> "unloaded", up |-> {}]
    /\ net = [there |-> FALSE, up |-> FALSE, addr |-> 0, events |-> 0]
    /\ sdev = NoDevice /\ num = [k \in Kinds |-> 0]
    /\ obj = [o \in Objects |-> NoObject]
    /\ call = [t \in Callers |-> NoCall] /\ core = [at |-> "idle", then |-> "none"]
    /\ file = [st |-> "none", ctx |-> FALSE, held |-> FALSE, ptr |-> FALSE]
    /\ writer = [at |-> "idle", cq |-> Ctx] /\ closer = "open"
    /\ cm = {} /\ warned = {} /\ faults = 0 /\ races = {}
    /\ broken = {}

Sound == broken = {}
Fault == faults < MaxFaults /\ faults' = faults + 1
Alive(o) == obj[o].st = "live"
------------------------------------------------------------------------------
(* siw_init_module and siw_exit_module *)

Setup == <<"data", "chrdev", "bus", "device", "cm", "debug", "notifier">>
Done(k) == {Setup[j] : j \in 1..(k - 1)}
\* What is left when step k fails: the labels fall through, and nobody frees
\* chardev_data once the character device is registered.
OutNobus == {"chrdev", "cm"}
OutNodev == OutNobus \cup {"bus"}
OutUnregister == OutNodev \cup {"device"}
Left(k) ==
    Done(k) \ CASE Setup[k] = "data" -> {}
                [] Setup[k] = "chrdev" -> {"data"}
                [] Setup[k] = "bus" -> OutNobus
                [] Setup[k] = "device" -> OutNodev
                [] Setup[k] = "cm" -> OutUnregister
                [] Setup[k] = "notifier" -> OutUnregister \cup {"debug"}
InitModule ==
    /\ Sound /\ module.st = "unloaded"
    /\ \/ /\ module' = [st |-> "loaded", up |-> Done(Len(Setup) + 1)]
          /\ UNCHANGED faults
       \/ \E k \in DOMAIN Setup :
            /\ Setup[k] # "debug" /\ Fault
            /\ module' = [st |-> "failed", up |-> Left(k)]
    /\ UNCHANGED <<net, sdev, num, obj, userVars, fileVars, cm, warned, races, broken>>
------------------------------------------------------------------------------
(* obj.c *)

\* kref_put of every object of a sequence; the last put frees.
Times(o, seq) == Cardinality({k \in DOMAIN seq : seq[k] = o})
PutAll(objs, seq) ==
    [o \in Objects |->
        LET n == Times(o, seq)
        IN  IF n = 0 THEN objs[o]
            ELSE IF objs[o].ref = n
            THEN [objs[o] EXCEPT !.st = "freed", !.ref = 0,
                                 !.idr = IF o \in Qps THEN FALSE ELSE @]
            ELSE [objs[o] EXCEPT !.ref = @ - n]]
\* siw_free_*: one less of its kind on the device.
Uncount(objs) ==
    [k \in Kinds |->
        num[k] - Cardinality({o \in Objects \ {Ctx} :
                    Kind(o) = k /\ obj[o].st = "live" /\ objs[o].st = "freed"})]
\* The device is read by the put that frees.
Puts(objs, seq) ==
    LET after == PutAll(objs, seq)
    IN  /\ obj' = after
        /\ num' = Uncount(after)
        /\ broken' = IF num' # num /\ sdev.st = "freed"
                     THEN {"freed device"} ELSE broken
GetAll(objs, seq) == [o \in Objects |-> [objs[o] EXCEPT !.ref = @ + Times(o, seq)]]
Get(seq) == obj' = GetAll(obj, seq)
\* kfree of an object that nobody else knows of.
Kfree(o) == [obj EXCEPT ![o].st = "freed", ![o].ref = 0, ![o].idr = FALSE]
\* siw_add_obj, and siw_qp_add, siw_cq_add and siw_pd_add, which call it.
NewObject(uses) == [st |-> "live", ref |-> 1, idr |-> TRUE, user |-> FALSE, uses |-> uses]
Added(o, uses) == [obj EXCEPT ![o] = NewObject(uses)]
Removed(objs, o) == [objs EXCEPT ![o].idr = FALSE]
------------------------------------------------------------------------------
(* The verbs that create *)

Visible == sdev.st \in {"visible", "registered"}
Quiet == \A t \in Callers : call[t].at = "idle"
Unused(o) == \A t \in Callers : call[t].at # "idle" =>
                call[t].obj # o /\ Times(o, call[t].uses) = 0
\* uverbs lets a call in: what it uses exists and is not being destroyed.
Usable(o) == obj[o].user /\ \A t \in Callers : call[t].at # "idle" => call[t].obj # o
Uses(o) == CASE Kind(o) = "ctx" -> {<<>>}
             [] Kind(o) \in {"pd", "cq"} -> {<<Ctx>>}
             [] Kind(o) = "qp" -> Cqs \X Cqs \X Pds

\* atomic_inc_return of the counter, compared with the limit.
OverLimit_OffByOne(k) == num[k] > Limit[k]
OverLimit(k) == num[k] + 1 > Limit[k]
Begin(t, o) ==
    /\ Sound /\ call[t].at = "idle" /\ core.at = "idle" /\ Visible
    /\ obj[o].st = "none" /\ Unused(o)
    /\ \E uses \in Uses(o) :
        /\ \A k \in DOMAIN uses : Usable(uses[k])
        /\ call' = [call EXCEPT ![t] = [at |-> "check", obj |-> o,
                                       over |-> OverLimit(Kind(o)), uses |-> uses]]
    /\ num' = [num EXCEPT ![Kind(o)] = @ + 1]
    /\ UNCHANGED <<netVars, sdev, obj, core, fileVars, cm, warned, faults, races, broken>>

Return(t) == call' = [call EXCEPT ![t] = NoCall]
Goto(t, at) == call' = [call EXCEPT ![t].at = at]
CqRefs(uses) == SubSeq(uses, 1, 2)

Uncounted(t) == [num EXCEPT ![Kind(call[t].obj)] = @ - 1]

\* The limit, the attributes and the allocations.
CreateFails(t) ==
    /\ Sound /\ call[t].at = "check" /\ Return(t)
    /\ IF call[t].over THEN UNCHANGED faults ELSE Fault
    /\ num' = Uncounted(t)
    /\ UNCHANGED <<netVars, sdev, obj, core, fileVars, cm, warned, races, broken>>

\* The context is in no idr; its event file points to it and it to the file.
EventFileNew == [st |-> "open", ctx |-> TRUE, held |-> FALSE, ptr |-> TRUE]
AllocUcontext(t) ==
    /\ call[t].obj = Ctx /\ Goto(t, "copy")
    /\ obj' = [obj EXCEPT ![Ctx] = [NewObject(<<>>) EXCEPT !.idr = FALSE]]
    /\ file' = EventFileNew
AllocPd(t) ==
    /\ call[t].obj \in Pds /\ Goto(t, "copy")
    /\ obj' = Added(call[t].obj, <<>>) /\ UNCHANGED file
CreateCq(t) ==
    /\ call[t].obj \in Cqs /\ Goto(t, "copy")
    /\ obj' = Added(call[t].obj, <<>>) /\ UNCHANGED file
\* siw_create_qp looks up its completion queues first.
CreateQp(t) ==
    /\ call[t].obj \in Qps /\ Goto(t, "cqs")
    /\ Get(CqRefs(call[t].uses)) /\ UNCHANGED file
Create(t) ==
    /\ Sound /\ call[t].at = "check" /\ ~call[t].over
    /\ AllocUcontext(t) \/ AllocPd(t) \/ CreateCq(t) \/ CreateQp(t)
    /\ UNCHANGED <<netVars, sdev, num, core, writer, closer, cm, warned, faults, races,
                   broken>>

\* siw_create_qp: kzalloc and siw_qp_add, or the puts of its error path.
AddQp(t) ==
    /\ Sound /\ call[t].at = "cqs"
    /\ \/ /\ obj' = Added(call[t].obj, call[t].uses) /\ Goto(t, "copy")
          /\ UNCHANGED <<num, faults, broken>>
       \/ /\ Fault /\ Return(t)
          /\ obj' = PutAll(obj, CqRefs(call[t].uses))
          /\ num' = Uncounted(t) /\ UNCHANGED broken
    /\ UNCHANGED <<netVars, sdev, core, fileVars, cm, warned, races>>

\* ib_copy_to_udata: the object is the program's.  siw_create_qp takes its
\* reference to the protection domain last.
PdRef(uses) == <<uses[3]>>
Created(t) ==
    LET o == call[t].obj
        known == [obj EXCEPT ![o].user = TRUE]
    IN  /\ Sound /\ call[t].at = "copy" /\ Return(t)
        /\ obj' = IF o \in Qps THEN GetAll(known, PdRef(call[t].uses)) ELSE known
        /\ UNCHANGED <<netVars, sdev, num, core, fileVars, cm, warned, faults, races,
                       broken>>
\* It fails.  siw_alloc_ucontext frees the event file, which fput has its release
\* function free again.
CopyFails(t) ==
    LET o == call[t].obj
    IN  /\ Sound /\ call[t].at = "copy" /\ Fault /\ Return(t)
        /\ obj' = IF o \in Qps THEN PutAll(Kfree(o), CqRefs(call[t].uses)) ELSE Kfree(o)
        /\ num' = Uncounted(t)
        /\ broken' = IF o = Ctx THEN {"file freed twice"} ELSE broken
        /\ UNCHANGED <<netVars, sdev, core, fileVars, cm, warned, races>>
------------------------------------------------------------------------------
(* The verbs that destroy *)

Rest == Objects \ {Ctx}
InUse(o) == \E q \in Qps : obj[q].user /\ Times(o, obj[q].uses) > 0
Race(name, cond) == races' = IF cond THEN races \cup {name} ELSE races

\* siw_destroy_qp (the part of the connection manager left out) and
\* siw_dealloc_pd.
Drops_OneCq(q) == <<obj[q].uses[1], obj[q].uses[3], q>>
Drops(q) == obj[q].uses \o <<q>>
Destroy(t, o) ==
    LET gone == [obj EXCEPT ![o].user = FALSE]
    IN  /\ Sound /\ call[t].at = "idle" /\ obj[o].user /\ Unused(o) /\ ~InUse(o)
        /\ \/ o \in Qps /\ Puts(gone, Drops(o))
           \/ o \in Pds /\ Puts(Removed(gone, o), <<o>>)
        /\ UNCHANGED <<netVars, sdev, userVars, fileVars, cm, warned, faults, races>>

\* siw_destroy_cq: siw_remove_obj, then siw_cq_put; a write to the event file may
\* have found the queue before, and have it still.
DestroyCq(t, o) ==
    /\ Sound /\ call[t].at = "idle" /\ obj[o].user /\ Unused(o) /\ ~InUse(o)
    /\ obj' = Removed(obj, o)
    /\ call' = [call EXCEPT ![t] = [at |-> "put", obj |-> o, over |-> FALSE, uses |-> <<>>]]
    /\ Race("destroy during write", writer.cq = o)
    /\ UNCHANGED <<netVars, sdev, num, core, fileVars, cm, warned, faults, broken>>
PutCq(t) ==
    LET o == call[t].obj
    IN  /\ Sound /\ call[t].at = "put" /\ Return(t)
        /\ Puts([obj EXCEPT ![o].user = FALSE], <<o>>)
        /\ UNCHANGED <<netVars, sdev, core, fileVars, cm, warned, faults, races>>

\* The program closes the context: uverbs destroys what is left of it.
Close ==
    /\ Sound /\ core.at = "idle" /\ Quiet /\ obj[Ctx].user
    /\ core' = [at |-> "closing", then |-> "none"]
    /\ UNCHANGED <<netVars, sdev, num, obj, call, fileVars, cm, warned, faults, races,
                   broken>>

\* siw_dealloc_ucontext: the pointer to the file is read, then used.
ReadEventFile ==
    /\ Sound /\ core.at = "closing" /\ Quiet /\ \A o \in Rest : ~obj[o].user
    /\ core' = [core EXCEPT !.at = IF file.ptr THEN "detach" ELSE "free"]
    /\ Race("two closes", closer = "clear")
    /\ UNCHANGED <<netVars, sdev, num, obj, call, fileVars, cm, warned, faults, broken>>
Detached(f) == [f EXCEPT !.ctx = FALSE]
DetachFile ==
    /\ Sound /\ core.at = "detach" /\ ~file.held
    /\ IF file.st = "freed" THEN broken' = {"freed file"} /\ UNCHANGED file
       ELSE file' = Detached(file) /\ UNCHANGED broken
    /\ core' = [core EXCEPT !.at = "free"]
    /\ UNCHANGED <<netVars, sdev, num, obj, call, writer, closer, cm, warned, faults,
                   races>>
FreeContext ==
    /\ Sound /\ core.at = "free"
    /\ obj' = [obj EXCEPT ![Ctx].st = "freed", ![Ctx].user = FALSE]
    /\ num' = [num EXCEPT !["ctx"] = @ - 1]
    /\ \/ /\ core.then = "none" /\ core' = [at |-> "idle", then |-> "none"]
          /\ UNCHANGED sdev
       \/ /\ core.then = "unregister" /\ core' = [core EXCEPT !.at = "deregister"]
          /\ UNCHANGED sdev
       \/ /\ core.then = "register" /\ core' = [at |-> "idle", then |-> "none"]
          /\ sdev' = [sdev EXCEPT !.st = "created"]
    /\ UNCHANGED <<netVars, call, fileVars, cm, warned, faults, races, broken>>
------------------------------------------------------------------------------
(* The event file *)

\* siw_event_file_write for a queue that liburdma knows, under file->lock, which
\* nobody takes to destroy the queue; without a context, or without the queue,
\* the write fails.
EventFileWrite(o) ==
    /\ Sound /\ writer.at = "idle" /\ closer = "open" /\ file.st = "open" /\ ~file.held
    /\ file.ctx /\ obj[o].idr /\ obj[o].user
    /\ writer' = [at |-> "found", cq |-> o] /\ file' = [file EXCEPT !.held = TRUE]
    /\ UNCHANGED <<netVars, sdev, num, obj, userVars, closer, cm, warned, faults, races,
                   broken>>
\* siw_get_obj after idr_find, comp_handler, siw_cq_put.
WriteGet ==
    /\ Sound /\ writer.at = "found"
    /\ IF obj[writer.cq].st = "freed" THEN broken' = {"freed cq"} /\ UNCHANGED obj
       ELSE Get(<<writer.cq>>) /\ UNCHANGED broken
    /\ writer' = [writer EXCEPT !.at = "handler"]
    /\ UNCHANGED <<netVars, sdev, num, userVars, file, closer, cm, warned, faults, races>>
CompHandler ==
    /\ Sound /\ writer.at = "handler"
    /\ broken' = IF obj[writer.cq].user THEN broken ELSE {"late handler"}
    /\ writer' = [writer EXCEPT !.at = "put"]
    /\ UNCHANGED <<netVars, sdev, num, obj, userVars, file, closer, cm, warned, faults,
                   races>>
Unlocked(f) == [f EXCEPT !.held = FALSE]
WritePut ==
    /\ Sound /\ writer.at = "put"
    /\ Puts(obj, <<writer.cq>>)
    /\ writer' = [at |-> "idle", cq |-> Ctx] /\ file' = Unlocked(file)
    /\ UNCHANGED <<netVars, sdev, userVars, closer, cm, warned, faults, races>>

\* siw_event_file_release: file->ctx is read, then used, without the lock.
Release ==
    /\ Sound /\ closer = "open" /\ file.st = "open" /\ writer.at = "idle"
    /\ obj[Ctx].st = "freed" \/ obj[Ctx].user
    /\ IF file.ctx THEN closer' = "clear" /\ UNCHANGED file
       ELSE closer' = "done" /\ file' = [file EXCEPT !.st = "freed"]
    /\ Race("two closes", core.at \in {"detach", "free"})
    /\ UNCHANGED <<netVars, sdev, num, obj, userVars, writer, cm, warned, faults, broken>>
ReleaseClear ==
    /\ Sound /\ closer = "clear"
    /\ closer' = "done"
    /\ IF obj[Ctx].st = "freed" THEN broken' = {"freed context"} /\ UNCHANGED file
       ELSE file' = [file EXCEPT !.ptr = FALSE, !.st = "freed"] /\ UNCHANGED broken
    /\ UNCHANGED <<netVars, sdev, num, obj, userVars, writer, cm, warned, faults, races>>

\* siw_qp_id2obj and siw_qp_put of the connection manager.
CmGet(q) ==
    /\ Sound /\ obj[q].user /\ q \notin cm
    /\ Get(<<q>>) /\ cm' = cm \cup {q}
    /\ UNCHANGED <<netVars, sdev, num, userVars, fileVars, warned, faults, races, broken>>
CmPut(q) ==
    /\ Sound /\ q \in cm
    /\ Puts(obj, <<q>>) /\ cm' = cm \ {q}
    /\ UNCHANGED <<netVars, sdev, userVars, fileVars, warned, faults, races>>
------------------------------------------------------------------------------
(* siw_netdev_event; rtnl_lock lets one event in at a time *)

objVars == <<num, obj, call, fileVars, cm>>
NetEvent == /\ Sound /\ module.st = "loaded" /\ core.then = "none"
            /\ sdev.st # "visible" /\ net.events < MaxNet
Happens(n) == net' = [n EXCEPT !.events = @ + 1]

\* NETDEV_REGISTER of a KNI interface.
DeviceCreate == [st |-> "created", state |-> "init", guid |-> net.addr]
NetdevRegister ==
    /\ NetEvent /\ ~net.there /\ sdev.st = "none"
    /\ Happens([net EXCEPT !.there = TRUE])
    /\ \/ /\ sdev' = DeviceCreate /\ UNCHANGED faults
       \/ Fault /\ UNCHANGED sdev
    /\ UNCHANGED <<module, objVars, core, warned, races, broken>>

\* NETDEV_UP, with an address or without.  ib_register_device comes before the
\* end of siw_device_register: programs can open the device from then on.
Reassigned_Keep(d) == d
Reassigned(d) == [d EXCEPT !.guid = net.addr]
NetdevUp ==
    /\ NetEvent /\ net.there /\ ~net.up
    /\ Happens([net EXCEPT !.up = TRUE])
    /\ \/ sdev.st \in {"none", "freed"} /\ UNCHANGED <<sdev, faults>>
       \/ /\ sdev.st = "registered" /\ sdev' = [sdev EXCEPT !.state = "active"]
          /\ UNCHANGED faults
       \/ /\ sdev.st = "created" /\ sdev' = [sdev EXCEPT !.state = "init"]
          /\ UNCHANGED faults
       \/ /\ sdev.st = "created"
          /\ LET active == Reassigned([sdev EXCEPT !.state = "active"])
             IN  \/ sdev' = [active EXCEPT !.st = "visible"] /\ UNCHANGED faults
                 \/ sdev' = active /\ Fault
    /\ UNCHANGED <<module, objVars, core, warned, races, broken>>
Registered ==
    /\ Sound /\ sdev.st = "visible" /\ core.then = "none"
    /\ sdev' = [sdev EXCEPT !.st = "registered"]
    /\ UNCHANGED <<netVars, objVars, core, warned, faults, races, broken>>
\* device_create_file fails: ib_unregister_device closes what was opened.
RegisterFails ==
    /\ Sound /\ sdev.st = "visible" /\ core.at = "idle" /\ Quiet /\ Fault
    /\ IF obj[Ctx].user
       THEN core' = [at |-> "closing", then |-> "register"] /\ UNCHANGED sdev
       ELSE sdev' = [sdev EXCEPT !.st = "created"] /\ UNCHANGED core
    /\ UNCHANGED <<netVars, objVars, warned, races, broken>>

\* NETDEV_DOWN, NETDEV_CHANGEADDR.
NetdevDown ==
    /\ NetEvent /\ net.up
    /\ Happens([net EXCEPT !.up = FALSE])
    /\ sdev' = IF sdev.st = "registered" THEN [sdev EXCEPT !.state = "down"] ELSE sdev
    /\ UNCHANGED <<module, objVars, core, warned, faults, races, broken>>
NetdevChangeAddr ==
    /\ NetEvent /\ net.there
    /\ Happens([net EXCEPT !.addr = @ + 1])
    /\ sdev' = IF sdev.st = "registered" THEN [sdev EXCEPT !.guid = net.addr + 1] ELSE sdev
    /\ UNCHANGED <<module, objVars, core, warned, faults, races, broken>>

\* siw_device_deregister after ib_unregister_device, and siw_device_destroy.
Held == cm # {} \/ writer.at # "idle"
Leftovers == {k \in Kinds : num[k] # 0}
Destroyed == /\ sdev' = [sdev EXCEPT !.st = "freed"]
             /\ Race("device in use", Held)
             /\ warned' = IF sdev.st = "registered" THEN Leftovers ELSE warned
\* NETDEV_UNREGISTER of an interface that is down.
NetdevUnregister ==
    /\ NetEvent /\ net.there /\ ~net.up /\ core.at = "idle" /\ Quiet
    /\ Happens([net EXCEPT !.there = FALSE])
    /\ \/ sdev.st \in {"none", "freed"} /\ UNCHANGED <<sdev, core, warned, races>>
       \/ sdev.st = "created" /\ Destroyed /\ UNCHANGED core
       \/ /\ sdev.st = "registered"
          /\ core' = [at |-> IF obj[Ctx].user THEN "closing" ELSE "deregister",
                      then |-> "unregister"]
          /\ UNCHANGED <<sdev, warned, races>>
    /\ UNCHANGED <<module, objVars, faults, broken>>
Deregister ==
    /\ Sound /\ core.at = "deregister"
    /\ Destroyed /\ core' = [at |-> "idle", then |-> "none"]
    /\ UNCHANGED <<netVars, objVars, faults, broken>>

\* siw_exit_module, once no program has the device or an event file open.
ExitModule ==
    /\ Sound /\ module.st = "loaded" /\ core.at = "idle" /\ Quiet
    /\ obj[Ctx].st # "live" /\ file.st # "open" /\ sdev.st # "visible"
    /\ module' = [st |-> "exited", up |-> {}]
    /\ IF sdev.st \in {"created", "registered"} THEN Destroyed
       ELSE UNCHANGED <<sdev, warned, races>>
    /\ UNCHANGED <<net, objVars, core, faults, broken>>
------------------------------------------------------------------------------
Device == NetdevRegister \/ NetdevUp \/ RegisterFails \/ NetdevDown
          \/ NetdevChangeAddr \/ NetdevUnregister
Finish(t) == CreateFails(t) \/ Create(t) \/ AddQp(t) \/ Created(t) \/ CopyFails(t)
             \/ PutCq(t)
CoreStep == ReadEventFile \/ DetachFile \/ FreeContext \/ Deregister \/ Registered
FileStep == WriteGet \/ CompHandler \/ WritePut \/ ReleaseClear

Next ==
    \/ InitModule \/ ExitModule \/ Device \/ CoreStep \/ FileStep
    \/ Close \/ Release
    \/ \E t \in Callers : Finish(t)
    \/ \E t \in Callers, o \in Objects : Begin(t, o)
    \/ \E t \in Callers, o \in Qps \cup Pds : Destroy(t, o)
    \/ \E t \in Callers, o \in Cqs : DestroyCq(t, o)
    \/ \E o \in Cqs : EventFileWrite(o)
    \/ \E q \in Qps : CmGet(q) \/ CmPut(q)
Spec == Init /\ [][Next]_vars

\* Kernel threads run; a context being closed is emptied; the connection manager
\* drops its references in the end.
Emptying ==
    /\ core.at = "closing"
    /\ \E t \in Callers : \/ \E o \in Qps \cup Pds : Destroy(t, o)
                          \/ \E o \in Cqs : DestroyCq(t, o)
Fairness ==
    /\ WF_vars(CoreStep) /\ WF_vars(FileStep) /\ WF_vars(Emptying)
    /\ WF_vars(\E t \in Callers : Finish(t))
    /\ WF_vars(\E q \in Qps : CmPut(q) /\ ~obj[q].user)
LiveSpec == Spec /\ Fairness
------------------------------------------------------------------------------
(* Properties *)

\* Every variable keeps its type; no counter of the device is negative.
TypeOK ==
    /\ module.st \in {"unloaded", "failed", "loaded", "exited"}
    /\ sdev.st \in {"none", "created", "visible", "registered", "freed"}
    /\ \A k \in Kinds : num[k] \in 0..Cardinality(Objects)
    /\ \A o \in Objects : obj[o].ref \in Nat /\ obj[o].st \in {"none", "live", "freed"}
    /\ writer.at \in {"idle", "found", "handler", "put"}
    /\ closer \in {"open", "clear", "done"}
    /\ core.at \in {"idle", "closing", "detach", "free", "deregister"}
    /\ cm \subseteq Qps /\ warned \subseteq Kinds

Calls(at) == {t \in Callers : call[t].at \in at}
One(cond) == IF cond THEN 1 ELSE 0
\* obj.c: the reference count of an object is the number of those who hold it:
\* the program, the queue pairs made of it (a queue pair with one completion
\* queue holds it twice), a call that creates one, a write to the event file,
\* the connection manager; and no object that is freed is found by its number.
CountsHolders ==
    Sound => \A o \in Rest :
        /\ obj[o].idr => Alive(o)
        /\ Alive(o) => obj[o].ref =
              One(obj[o].user \/ \E t \in Calls({"copy"}) : call[t].obj = o)
              + Cardinality({h \in Qps \X (1..3) :
                                obj[h[1]].user /\ obj[h[1]].uses[h[2]] = o})
              + Cardinality({h \in Callers \X (1..2) :
                                /\ call[h[1]].obj \in Qps
                                /\ call[h[1]].at \in {"cqs", "copy"}
                                /\ call[h[1]].uses[h[2]] = o})
              + One(writer.cq = o /\ writer.at \in {"handler", "put"})
              + One(o \in cm)

\* The atomic counters of the device: what lives and what is being created, on
\* every path of every call.
CountersExact ==
    Sound => \A k \in Kinds :
        num[k] = Cardinality({o \in Objects : Kind(o) = k /\ Alive(o)})
                 + Cardinality({t \in Calls({"check", "cqs"}) : Kind(call[t].obj) = k})

\* siw_dealloc_ucontext and siw_event_file_release: the event file never points
\* to a context that is gone, nor an open context to a file that is gone.
FileAndContext ==
    Sound /\ "two closes" \notin races =>
        /\ file.st = "open" /\ file.ctx => Alive(Ctx)
        /\ Alive(Ctx) /\ file.ptr => file.st = "open"

\* siw_device_deregister: one of its WARN_ONs fires only when somebody outside
\* the reach of uverbs still has the object.
WarnsOnlyIfHeld == warned # {} => "device in use" \in races /\ warned \subseteq {"cq", "qp"}

\* Memory is used after it is freed only if a completion queue is destroyed in
\* the middle of a write to the event file, if the event file and the context
\* are closed at the same time, if the device goes while a write or the
\* connection manager holds an object, or (at once) if siw_alloc_ucontext cannot
\* copy its answer.
UndefinedOnlyIf ==
    /\ broken \cap {"freed cq", "late handler"} # {} => "destroy during write" \in races
    /\ broken \cap {"freed file", "freed context"} # {} => "two closes" \in races
    /\ "freed device" \in broken => "device in use" \in races

\* verbs.c, obj.c: every path of every call leaves counters, references and
\* pointers exact, with several callers, the event file and the connection
\* manager at work; what goes wrong needs one of the races UndefinedOnlyIf and
\* WarnsOnlyIfHeld name.
RefsExact == /\ TypeOK /\ CountsHolders /\ CountersExact /\ FileAndContext
             /\ WarnsOnlyIfHeld /\ UndefinedOnlyIf

\* The limits hold, although they are tested by several callers at once.
LimitsHold ==
    \A k \in Kinds : Cardinality({o \in Objects : Kind(o) = k /\ Alive(o)}) <= Limit[k]

\* siw_netdev_event: while the device is registered its port is active exactly
\* when the interface is up, and its GUID is the interface's address.
PortFollowsNetdev ==
    sdev.st \in {"visible", "registered"} /\ module.st = "loaded" =>
        /\ sdev.guid = net.addr
        /\ (sdev.state = "active") = net.up

\* siw_init_module: a failed set-up leaves nothing registered (chardev_data
\* alone is not freed); siw_exit_module leaves nothing at all.
InitUnwinds ==
    /\ module.st = "failed" => module.up \subseteq {"data"}
    /\ module.st = "exited" => module.up = {} /\ sdev.st \in {"none", "freed"}

\* siw_netdev_event, siw_init_module and siw_exit_module: in whatever order the
\* interface and the module come and go, and whichever step of the set-up fails,
\* the device is what the interface says and nothing is left behind.
DeviceExact == PortFollowsNetdev /\ InitUnwinds

\* An object the program has destroyed is freed in the end.
DestroyedIsFreed ==
    LET Lingers == \E o \in Rest : /\ Alive(o) /\ ~obj[o].user
                                    /\ \A t \in Callers : call[t].obj # o
    IN  Lingers ~> ~Lingers \/ ~Sound

\* A device that is deregistered is destroyed.
DeregisterEnds == core.then = "unregister" ~> sdev.st = "freed" \/ ~Sound

\* siw_destroy_qp, siw_destroy_cq and siw_device_deregister take effect.
TeardownEnds == DestroyedIsFreed /\ DeregisterEnds
=============================================================================
