---------------------------- MODULE KernelProofs ----------------------------
(***************************************************************************)
(* Proofs about KernelObjects, for any number of callers and objects, any  *)
(* limits and any number of failures:                                      *)
(*                                                                         *)
(*   DeviceIsExact      Spec => []DeviceExact                              *)
(*   LimitsAlwaysHold   Spec => []LimitsHold                               *)
(*                                                                         *)
(* LimitsHold is about what exists; the code counts before it makes, tests *)
(* the counter after counting, and counts down where it frees and where it *)
(* gives up.  Counted relates the counter to what exists and to the calls in*)
(* between; KernelShape says what these calls are about to make.           *)
(***************************************************************************)
EXTENDS KernelShape

(* The device *)

Netdev == [there : BOOLEAN, up : BOOLEAN, addr : Nat, events : Nat]
\* An event of the interface.
LEMMA HappensSets ==
    ASSUME NEW n \in Netdev, Happens(n)
    PROVE  net' \in Netdev /\ net'.up = n.up /\ net'.addr = n.addr
BY DEF Happens, Netdev
\* One field of the interface changes.
LEMMA NetdevFields ==
    ASSUME net \in Netdev, NEW b \in BOOLEAN
    PROVE  /\ [net EXCEPT !.there = b] \in Netdev
           /\ [net EXCEPT !.there = b].up = net.up
           /\ [net EXCEPT !.there = b].addr = net.addr
           /\ [net EXCEPT !.up = b] \in Netdev /\ [net EXCEPT !.up = b].up = b
           /\ [net EXCEPT !.up = b].addr = net.addr
           /\ [net EXCEPT !.addr = @ + 1] \in Netdev
           /\ [net EXCEPT !.addr = @ + 1].up = net.up
           /\ [net EXCEPT !.addr = @ + 1].addr = net.addr + 1
BY DEF Netdev

\* The device, the interface and the module have their types; only a device that
\* is not registered in full is taken back; a device needs a loaded module.
DevInv ==
    /\ module.st \in {"unloaded", "failed", "loaded", "exited"}
    /\ net \in Netdev
    /\ sdev \in [st : {"none", "created", "visible", "registered", "freed"},
                 state : {"none", "init", "active", "down"}, guid : Nat]
    /\ core \in [at : {"idle", "closing", "detach", "free", "deregister"},
                 then : {"none", "register", "unregister"}]
    /\ core.at = "idle" => core.then = "none"
    /\ core.then = "register" => sdev.st = "visible"
    /\ module.st # "loaded" => sdev.st \notin {"visible", "registered"}
    /\ PortFollowsNetdev /\ InitUnwinds

\* The labels of siw_init_module undo what was done, except for chardev_data.
LEMMA LeftIsData ==
    ASSUME NEW k \in DOMAIN Setup, Setup[k] # "debug"
    PROVE  Left(k) \subseteq {"data"}
<1>1. k \in 1..7 /\ DOMAIN Setup = 1..7
  BY DEF Setup
<1>2. \A s \in Done(k) : \E j \in 1..(k - 1) : s = Setup[j]
  BY DEF Done
<1>3. CASE Setup[k] = "data"
  <2>1. k = 1
    BY <1>1, <1>3 DEF Setup
  <2> QED BY <1>2, <2>1 DEF Left
<1>4. CASE Setup[k] = "chrdev"
  <2>1. k = 2
    BY <1>1, <1>4 DEF Setup
  <2> QED BY <1>2, <1>4, <2>1 DEF Left, Setup
<1>5. CASE Setup[k] = "bus"
  <2>1. k = 3
    BY <1>1, <1>5 DEF Setup
  <2>2. Left(k) = Done(k) \ OutNobus
    BY <1>5 DEF Left
  <2> QED BY <1>2, <2>1, <2>2 DEF OutNobus, Setup
<1>6. CASE Setup[k] = "device"
  <2>1. k = 4
    BY <1>1, <1>6 DEF Setup
  <2>2. Left(k) = Done(k) \ OutNodev
    BY <1>6 DEF Left
  <2> QED BY <1>2, <2>1, <2>2 DEF OutNobus, OutNodev, Setup
<1>7. CASE Setup[k] = "cm"
  <2>1. k = 5
    BY <1>1, <1>7 DEF Setup
  <2>2. Left(k) = Done(k) \ OutUnregister
    BY <1>7 DEF Left
  <2> QED BY <1>2, <2>1, <2>2 DEF OutNobus, OutNodev, OutUnregister, Setup
<1>8. CASE Setup[k] = "notifier"
  <2>1. k = 7
    BY <1>1, <1>8 DEF Setup
  <2>2. Left(k) = Done(k) \ (OutUnregister \cup {"debug"})
    BY <1>8 DEF Left
  <2> QED BY <1>2, <2>1, <2>2 DEF OutNobus, OutNodev, OutUnregister, Setup
<1>9. Setup[k] \in {"data", "chrdev", "bus", "device", "cm", "notifier"}
  BY <1>1 DEF Setup
<1> QED BY <1>3, <1>4, <1>5, <1>6, <1>7, <1>8, <1>9

\* DevInv is inductive; only the events, the module and the closing of a device
\* that is taken back matter.
LEMMA DevInvNext == DevInv /\ [Next]_vars => DevInv'
<1> SUFFICES ASSUME DevInv, [Next]_vars PROVE DevInv'
  OBVIOUS
<1> USE DEF netVars, fileVars, userVars, objVars
<1>1. CASE UNCHANGED <<netVars, sdev, core>>
  BY <1>1 DEF DevInv, PortFollowsNetdev, InitUnwinds
<1>2. CASE InitModule
  <2>1. CASE module'.st = "loaded"
    BY <1>2, <2>1 DEF InitModule, DevInv, PortFollowsNetdev, InitUnwinds
  <2>2. CASE \E k \in DOMAIN Setup : /\ Setup[k] # "debug"
                                     /\ module' = [st |-> "failed", up |-> Left(k)]
    BY <1>2, <2>2, LeftIsData DEF InitModule, DevInv, PortFollowsNetdev, InitUnwinds
  <2> QED BY <1>2, <2>1, <2>2 DEF InitModule
<1>3. CASE ExitModule
  BY <1>3 DEF ExitModule, Destroyed, DevInv, PortFollowsNetdev, InitUnwinds
<1>4. CASE NetdevRegister
  <2>1. net' \in Netdev /\ net'.addr = net.addr /\ net'.up = net.up
    BY Zenon, <1>4, HappensSets, NetdevFields DEF NetdevRegister, DevInv
  <2>2. net.addr \in Nat
    BY DEF DevInv, Netdev
  <2> QED BY <1>4, <2>1, <2>2 DEF NetdevRegister, NetEvent, DeviceCreate, DevInv,
                                   PortFollowsNetdev, InitUnwinds
<1>5. CASE NetdevUp
  <2>1. net' \in Netdev /\ net'.addr = net.addr /\ net'.up = TRUE /\ net.addr \in Nat
    <3>1. net \in Netdev
      BY DEF DevInv
    <3>2. Happens([net EXCEPT !.up = TRUE])
      BY <1>5 DEF NetdevUp
    <3>3. net.addr \in Nat
      BY <3>1 DEF Netdev
    <3> QED BY Zenon, <3>1, <3>2, <3>3, HappensSets, NetdevFields
  <2>2. UNCHANGED <<module, core>> /\ module.st = "loaded" /\ core.then = "none"
    BY <1>5 DEF NetdevUp, NetEvent
  <2>3. /\ sdev' \in [st : {"none", "created", "visible", "registered", "freed"},
                     state : {"none", "init", "active", "down"}, guid : Nat]
        /\ sdev'.st \in {"visible", "registered"} =>
             sdev'.state = "active" /\ sdev'.guid = net.addr
    BY Zenon, <1>5, <2>1 DEF NetdevUp, NetEvent, Reassigned, DevInv, PortFollowsNetdev
  <2> QED BY Zenon, <2>1, <2>2, <2>3 DEF DevInv, PortFollowsNetdev, InitUnwinds
<1>6. CASE RegisterFails
  BY <1>6 DEF RegisterFails, DevInv, PortFollowsNetdev, InitUnwinds
<1>7. CASE NetdevDown
  <2>1. net' \in Netdev /\ net'.addr = net.addr /\ net'.up = FALSE
    BY Zenon, <1>7, HappensSets, NetdevFields DEF NetdevDown, DevInv
  <2>2. UNCHANGED <<module, core>> /\ module.st = "loaded" /\ core.then = "none"
    BY <1>7 DEF NetdevDown, NetEvent
  <2>3. /\ sdev' \in [st : {"none", "created", "visible", "registered", "freed"},
                     state : {"none", "init", "active", "down"}, guid : Nat]
        /\ sdev'.st \in {"visible", "registered"} =>
             sdev'.state # "active" /\ sdev'.guid = net.addr
    BY Zenon, <1>7 DEF NetdevDown, NetEvent, DevInv, PortFollowsNetdev
  <2> QED BY Zenon, <2>1, <2>2, <2>3 DEF DevInv, PortFollowsNetdev, InitUnwinds
<1>8. CASE NetdevChangeAddr
  <2>1. net' \in Netdev /\ net'.addr = net.addr + 1 /\ net'.up = net.up /\ net.addr \in Nat
    <3>1. net \in Netdev
      BY DEF DevInv
    <3>2. Happens([net EXCEPT !.addr = @ + 1])
      BY <1>8 DEF NetdevChangeAddr
    <3>3. net.addr \in Nat
      BY <3>1 DEF Netdev
    <3> QED BY Zenon, <3>1, <3>2, <3>3, HappensSets, NetdevFields
  <2>2. UNCHANGED <<module, core>> /\ module.st = "loaded" /\ core.then = "none"
    BY <1>8 DEF NetdevChangeAddr, NetEvent
  <2>3. /\ sdev' \in [st : {"none", "created", "visible", "registered", "freed"},
                     state : {"none", "init", "active", "down"}, guid : Nat]
        /\ sdev'.st \in {"visible", "registered"} =>
             sdev'.state = sdev.state /\ sdev'.guid = net.addr + 1 /\ sdev.st = "registered"
    BY <1>8, <2>1 DEF NetdevChangeAddr, NetEvent, DevInv, PortFollowsNetdev
  <2> QED BY <2>1, <2>2, <2>3 DEF DevInv, PortFollowsNetdev, InitUnwinds
<1>9. CASE NetdevUnregister
  <2>1. net' \in Netdev /\ net'.addr = net.addr /\ net'.up = net.up
    BY Zenon, <1>9, HappensSets, NetdevFields DEF NetdevUnregister, DevInv
  <2>2. module' = module /\ module.st = "loaded" /\ core.then = "none"
    BY <1>9 DEF NetdevUnregister, NetEvent
  <2>3. CASE sdev.st = "registered"
    <3>1. sdev' = sdev /\ core'.then = "unregister"
          /\ core' \in [at : {"closing", "deregister"}, then : {"unregister"}]
      BY <1>9, <2>3 DEF NetdevUnregister, Destroyed
    <3> QED BY <2>1, <2>2, <3>1 DEF DevInv, PortFollowsNetdev, InitUnwinds
  <2>4. CASE sdev.st # "registered"
    <3>1. core' = core /\ (sdev' = sdev \/ sdev' = [sdev EXCEPT !.st = "freed"])
      BY <1>9, <2>4 DEF NetdevUnregister, Destroyed
    <3> QED BY <2>1, <2>2, <3>1 DEF DevInv, PortFollowsNetdev, InitUnwinds
  <2> QED BY <2>3, <2>4
<1>10. CASE ReadEventFile \/ DetachFile
  BY <1>10 DEF ReadEventFile, DetachFile, DevInv, PortFollowsNetdev, InitUnwinds
<1>11. CASE FreeContext
  BY <1>11 DEF FreeContext, DevInv, PortFollowsNetdev, InitUnwinds
<1>12. CASE Deregister
  BY <1>12 DEF Deregister, Destroyed, DevInv, PortFollowsNetdev, InitUnwinds
<1>13. CASE Registered
  BY <1>13 DEF Registered, DevInv, PortFollowsNetdev, InitUnwinds
<1>14. CASE Close
  BY <1>14 DEF Close, DevInv, PortFollowsNetdev, InitUnwinds
<1>15. CASE Release \/ FileStep
  BY <1>1, <1>15 DEF Release, FileStep, WriteGet, CompHandler, WritePut, ReleaseClear
<1>16. ASSUME NEW t \in Callers,
              Finish(t) \/ \E o \in Objects : Begin(t, o) \/ Destroy(t, o) \/ DestroyCq(t, o)
       PROVE  DevInv'
  BY Zenon, <1>1, <1>16 DEF Finish, CreateFails, Create, AddQp, Created, CopyFails, PutCq, Begin,
                     Destroy, DestroyCq
<1>17. ASSUME NEW o, EventFileWrite(o) \/ CmGet(o) \/ CmPut(o) PROVE DevInv'
  BY <1>1, <1>17 DEF EventFileWrite, CmGet, CmPut
<1>18. CASE UNCHANGED vars
  BY <1>1, <1>18 DEF vars
<1> QED BY <1>2, <1>3, <1>4, <1>5, <1>6, <1>7, <1>8, <1>9, <1>10, <1>11, <1>12, <1>13,
           <1>14, <1>15, <1>16, <1>17, <1>18 DEF Next, Device, CoreStep, Objects

\* main.c: in whatever order the interface and the module come and go, the GUID
\* and the port state of a registered device are those of its interface, a set-up
\* that fails leaves nothing registered, and siw_exit_module leaves no device.
THEOREM DeviceIsExact == Spec => []DeviceExact
<1>1. Init => DevInv
  BY SMTT(30) DEF Init, DevInv, NoDevice, Netdev, PortFollowsNetdev, InitUnwinds
<1>2. DevInv => DeviceExact
  BY DEF DevInv, DeviceExact
<1> QED BY <1>1, <1>2, DevInvNext, PTL DEF Spec
------------------------------------------------------------------------------
(* Counters and limits *)

\* What exists of a kind, the calls that have counted one and not made it, and
\* those of them that found room.
Made(k) == {o \in Objects : Kind(o) = k /\ Alive(o)}
Busy(k) == {t \in Callers : call[t].at \in {"check", "cqs"} /\ Kind(call[t].obj) = k}
Admitted(k) == {t \in Busy(k) : ~call[t].over}
CountOf(k) == /\ Cardinality(Made(k)) + Cardinality(Busy(k)) <= num[k]
              /\ Cardinality(Made(k)) + Cardinality(Admitted(k)) <= Limit[k]
Counted == num \in [Kinds -> Int] /\ \A k \in Kinds : CountOf(k)

\* The sets that are counted are finite.
LEMMA AllFinite ==
    ASSUME NEW k
    PROVE  /\ IsFiniteSet(Made(k)) /\ IsFiniteSet(Busy(k)) /\ IsFiniteSet(Admitted(k))
           /\ Cardinality(Made(k)) \in Nat /\ Cardinality(Busy(k)) \in Nat
           /\ Cardinality(Admitted(k)) \in Nat
           /\ Cardinality(Admitted(k)) <= Cardinality(Busy(k))
<1>1. IsFiniteSet(Objects)
  BY ZenonT(30), KernelAssumption, FS_Singleton, FS_Union DEF Objects
<1>2. IsFiniteSet(Made(k))
  BY <1>1, FS_Subset DEF Made
<1>3. IsFiniteSet(Busy(k))
  BY KernelAssumption, FS_Subset DEF Busy
<1>4. Admitted(k) \in SUBSET Busy(k)
  BY DEF Admitted
<1> QED BY <1>2, <1>3, <1>4, FS_Subset, FS_CardinalityType

\* Objects are freed and counted down.
LEMMA ShrinkStep ==
    ASSUME Counted, NEW k \in Kinds, NEW D \in SUBSET Made(k),
           Made(k)' \subseteq Made(k) \ D, Busy(k)' \subseteq Busy(k),
           Admitted(k)' \subseteq Admitted(k), num'[k] = num[k] - Cardinality(D)
    PROVE  CountOf(k)'
<1>1. /\ IsFiniteSet(Made(k)) /\ IsFiniteSet(Busy(k)) /\ IsFiniteSet(Admitted(k))
      /\ Cardinality(Made(k)) \in Nat /\ Cardinality(Busy(k)) \in Nat
      /\ Cardinality(Admitted(k)) \in Nat
  BY AllFinite
<1>2. /\ IsFiniteSet(D) /\ Cardinality(D) \in Nat
      /\ IsFiniteSet(Made(k) \ D)
      /\ Cardinality(Made(k) \ D) = Cardinality(Made(k)) - Cardinality(D)
  <2>1. Made(k) \cap D = D
    OBVIOUS
  <2>2. IsFiniteSet(D) /\ Cardinality(D) \in Nat
    BY <1>1, FS_Subset, FS_CardinalityType
  <2>3. /\ IsFiniteSet(Made(k) \ D)
        /\ Cardinality(Made(k) \ D) = Cardinality(Made(k)) - Cardinality(Made(k) \cap D)
    BY ZenonT(30), <1>1, FS_Difference
  <2> QED BY ZenonT(30), <2>1, <2>2, <2>3
<1>3. /\ Cardinality(Made(k)') \in Nat
      /\ Cardinality(Made(k)') <= Cardinality(Made(k)) - Cardinality(D)
  BY <1>2, FS_Subset, FS_CardinalityType
<1>4. /\ Cardinality(Busy(k)') \in Nat /\ Cardinality(Busy(k)') <= Cardinality(Busy(k))
  BY <1>1, FS_Subset, FS_CardinalityType
<1>5. /\ Cardinality(Admitted(k)') \in Nat
      /\ Cardinality(Admitted(k)') <= Cardinality(Admitted(k))
  BY <1>1, FS_Subset, FS_CardinalityType
<1>6. num[k] \in Int /\ Limit[k] \in Nat /\ CountOf(k)
  BY KernelAssumption DEF Counted
<1> QED BY <1>1, <1>2, <1>3, <1>4, <1>5, <1>6 DEF CountOf

\* A call gives up and is counted down.
LEMMA LeaveStep ==
    ASSUME Counted, NEW k \in Kinds, NEW t \in Busy(k), Made(k)' \subseteq Made(k),
           Busy(k)' \subseteq Busy(k) \ {t}, Admitted(k)' \subseteq Admitted(k),
           num'[k] = num[k] - 1
    PROVE  CountOf(k)'
<1>1. /\ IsFiniteSet(Made(k)) /\ IsFiniteSet(Busy(k)) /\ IsFiniteSet(Admitted(k))
      /\ Cardinality(Made(k)) \in Nat /\ Cardinality(Busy(k)) \in Nat
      /\ Cardinality(Admitted(k)) \in Nat
  BY AllFinite
<1>2. IsFiniteSet(Busy(k) \ {t}) /\ Cardinality(Busy(k) \ {t}) = Cardinality(Busy(k)) - 1
  BY <1>1, FS_RemoveElement
<1>3. /\ Cardinality(Made(k)') \in Nat /\ Cardinality(Made(k)') <= Cardinality(Made(k))
  BY <1>1, FS_Subset, FS_CardinalityType
<1>4. /\ Cardinality(Busy(k)') \in Nat /\ Cardinality(Busy(k)') <= Cardinality(Busy(k)) - 1
  BY <1>2, FS_Subset, FS_CardinalityType
<1>5. /\ Cardinality(Admitted(k)') \in Nat
      /\ Cardinality(Admitted(k)') <= Cardinality(Admitted(k))
  BY <1>1, FS_Subset, FS_CardinalityType
<1>6. num[k] \in Int /\ Limit[k] \in Nat /\ CountOf(k)
  BY KernelAssumption DEF Counted
<1> QED BY <1>1, <1>3, <1>4, <1>5, <1>6 DEF CountOf

\* A call that was let in makes its object.
LEMMA MadeStep ==
    ASSUME Counted, NEW k \in Kinds, NEW t \in Admitted(k), NEW o,
           Made(k)' \subseteq Made(k) \cup {o}, Busy(k)' \subseteq Busy(k) \ {t},
           Admitted(k)' \subseteq Admitted(k) \ {t}, num'[k] = num[k]
    PROVE  CountOf(k)'
<1>1. /\ IsFiniteSet(Made(k)) /\ IsFiniteSet(Busy(k)) /\ IsFiniteSet(Admitted(k))
      /\ Cardinality(Made(k)) \in Nat /\ Cardinality(Busy(k)) \in Nat
      /\ Cardinality(Admitted(k)) \in Nat
  BY AllFinite
<1>2. t \in Busy(k)
  BY DEF Admitted
<1>3. /\ IsFiniteSet(Busy(k) \ {t}) /\ Cardinality(Busy(k) \ {t}) = Cardinality(Busy(k)) - 1
      /\ IsFiniteSet(Admitted(k) \ {t})
      /\ Cardinality(Admitted(k) \ {t}) = Cardinality(Admitted(k)) - 1
  BY <1>1, <1>2, FS_RemoveElement
<1>4. /\ IsFiniteSet(Made(k) \cup {o})
      /\ Cardinality(Made(k) \cup {o}) <= Cardinality(Made(k)) + 1
  <2>1. /\ IsFiniteSet(Made(k) \cup {o})
        /\ Cardinality(Made(k) \cup {o}) = IF o \in Made(k) THEN Cardinality(Made(k))
                                           ELSE Cardinality(Made(k)) + 1
    BY Zenon, <1>1, FS_AddElement
  <2> QED BY <1>1, <2>1
<1>5. /\ Cardinality(Made(k)') \in Nat /\ Cardinality(Made(k)') <= Cardinality(Made(k)) + 1
  <2>1. /\ IsFiniteSet(Made(k)')
        /\ Cardinality(Made(k)') <= Cardinality(Made(k) \cup {o})
    BY <1>4, FS_Subset
  <2>2. Cardinality(Made(k)') \in Nat /\ Cardinality(Made(k) \cup {o}) \in Nat
    BY <1>4, <2>1, FS_CardinalityType
  <2> QED BY <1>1, <1>4, <2>1, <2>2
<1>6. /\ Cardinality(Busy(k)') \in Nat /\ Cardinality(Busy(k)') <= Cardinality(Busy(k)) - 1
  BY <1>3, FS_Subset, FS_CardinalityType
<1>7. /\ Cardinality(Admitted(k)') \in Nat
      /\ Cardinality(Admitted(k)') <= Cardinality(Admitted(k)) - 1
  BY <1>3, FS_Subset, FS_CardinalityType
<1>8. num[k] \in Int /\ Limit[k] \in Nat /\ CountOf(k)
  BY KernelAssumption DEF Counted
<1> QED BY <1>1, <1>5, <1>6, <1>7, <1>8 DEF CountOf

\* A call is counted and let in if there is room.
LEMMA EnterStep ==
    ASSUME Counted, NEW k \in Kinds, NEW t, t \notin Busy(k), Made(k)' = Made(k),
           Busy(k)' = Busy(k) \cup {t}, num'[k] = num[k] + 1,
           \/ Admitted(k)' = Admitted(k)
           \/ Admitted(k)' = Admitted(k) \cup {t} /\ num[k] + 1 <= Limit[k]
    PROVE  CountOf(k)'
<1>1. /\ IsFiniteSet(Made(k)) /\ IsFiniteSet(Busy(k)) /\ IsFiniteSet(Admitted(k))
      /\ Cardinality(Made(k)) \in Nat /\ Cardinality(Busy(k)) \in Nat
      /\ Cardinality(Admitted(k)) \in Nat
      /\ Cardinality(Admitted(k)) <= Cardinality(Busy(k))
  BY AllFinite
<1>2. Cardinality(Busy(k)') = Cardinality(Busy(k)) + 1
  BY ZenonT(30), <1>1, FS_AddElement
<1>3. num[k] \in Int /\ Limit[k] \in Nat /\ CountOf(k)
  BY KernelAssumption DEF Counted
<1>4. t \notin Admitted(k)
  BY DEF Admitted
<1>5. CASE Admitted(k)' = Admitted(k)
  BY <1>1, <1>2, <1>3, <1>5 DEF CountOf
<1>6. CASE Admitted(k)' = Admitted(k) \cup {t} /\ num[k] + 1 <= Limit[k]
  <2>1. Cardinality(Admitted(k)') = Cardinality(Admitted(k)) + 1
    BY ZenonT(30), <1>1, <1>4, <1>6, FS_AddElement
  <2> QED BY <1>1, <1>2, <1>3, <1>6, <2>1 DEF CountOf
<1> QED BY <1>5, <1>6

\* The sets of a step that changes no call, or only those that hold no place.
LEMMA BusySame ==
    ASSUME \A t \in Callers : \/ call'[t] = call[t]
                              \/ call'[t].at \notin {"check", "cqs"}
    PROVE  \A k : Busy(k)' \subseteq Busy(k) /\ Admitted(k)' \subseteq Admitted(k)
BY DEF Busy, Admitted
\* Likewise for objects, of which none is new.
LEMMA MadeSame ==
    ASSUME \A o \in Objects : obj'[o].st = "live" => obj[o].st = "live"
    PROVE  \A k : Made(k)' \subseteq Made(k)
BY DEF Made, Alive

\* Nothing is counted and nothing is new.
LEMMA SameOf ==
    ASSUME Counted, NEW k \in Kinds, num'[k] = num[k], Made(k)' \subseteq Made(k),
           Busy(k)' \subseteq Busy(k), Admitted(k)' \subseteq Admitted(k)
    PROVE  CountOf(k)'
<1>1. Made(k)' \subseteq Made(k) \ {} /\ {} \in SUBSET Made(k)
  OBVIOUS
<1>2. Cardinality({}) = 0 /\ num[k] \in Int
  BY FS_EmptySet DEF Counted
<1>3. num'[k] = num[k] - Cardinality({})
  BY <1>2
<1> QED BY <1>1, <1>3, ShrinkStep

\* The same for all kinds.
LEMMA SameCount ==
    ASSUME Counted, num' = num,
           \A t \in Callers : call'[t] = call[t] \/ call'[t].at \notin {"check", "cqs"},
           \A o \in Objects : obj'[o].st = "live" => obj[o].st = "live"
    PROVE  Counted'
<1> SUFFICES ASSUME NEW k \in Kinds PROVE CountOf(k)'
  BY DEF Counted
<1>1. Made(k)' \subseteq Made(k)
  BY MadeSame
<1>2. Busy(k)' \subseteq Busy(k) /\ Admitted(k)' \subseteq Admitted(k)
  BY BusySame
<1> QED BY <1>1, <1>2, SameOf

\* siw_free_*: the puts count down what they free.
LEMMA PutsCount ==
    ASSUME Counted, obj \in [Objects -> Object], NEW objs \in [Objects -> Object],
           NEW seq \in Seq(Objects), \A o \in Objects : objs[o].st = obj[o].st,
           Puts(objs, seq),
           \A t \in Callers : call'[t] = call[t] \/ call'[t].at \notin {"check", "cqs"}
    PROVE  Counted'
<1>1. /\ obj' = PutAll(objs, seq)
      /\ num' = Uncount(obj')
  BY DEF Puts
<1>2. \A o \in Objects : obj'[o].st = obj[o].st \/ obj'[o].st = "freed"
  BY <1>1, PutAllFrees
<1> SUFFICES ASSUME NEW k \in Kinds PROVE num'[k] \in Int /\ CountOf(k)'
  BY ZenonT(30), <1>1 DEF Counted, Uncount
<1> DEFINE D == {o \in Objects \ {Ctx} :
                    Kind(o) = k /\ obj[o].st = "live" /\ obj'[o].st = "freed"}
<1>3. D \in SUBSET Made(k)
  BY DEF Made, Alive
<1>4. num'[k] = num[k] - Cardinality(D)
  BY <1>1 DEF Uncount
<1>5. Cardinality(D) \in Nat
  BY ZenonT(30), <1>3, AllFinite, FS_Subset, FS_CardinalityType
<1>6. Made(k)' \subseteq Made(k) \ D
  BY <1>2 DEF Made, Alive
<1>7. Busy(k)' \subseteq Busy(k) /\ Admitted(k)' \subseteq Admitted(k)
  BY BusySame
<1>8. num[k] \in Int
  BY DEF Counted
<1> HIDE DEF D
<1> QED BY <1>3, <1>4, <1>5, <1>6, <1>7, <1>8, ShrinkStep

\* Every object is of some kind.
LEMMA KindIsKind == \A o : Kind(o) \in Kinds
BY DEF Kind, Kinds

\* atomic_inc_return and the test of the limit.
LEMMA BeginCount ==
    ASSUME Shape, Counted, NEW t \in Callers, NEW o \in Objects, Begin(t, o)
    PROVE  Counted'
<1> DEFINE m == Kind(o)
<1>1. PICK uses : call' = [call EXCEPT ![t] = [at |-> "check", obj |-> o,
                                       over |-> OverLimit(m), uses |-> uses]]
  BY Zenon DEF Begin
<1>2. /\ call[t].at = "idle" /\ obj' = obj /\ num' = [num EXCEPT ![m] = @ + 1]
      /\ call \in [Callers -> Call] /\ m \in Kinds
  BY KindIsKind DEF Begin, Shape, KType
<1>3. /\ call'[t].at = "check" /\ call'[t].obj = o /\ (call'[t].over <=> OverLimit(m))
      /\ \A u \in Callers : u # t => call'[u] = call[u]
  BY <1>1, <1>2
<1>4. num' \in [Kinds -> Int] /\ num \in [Kinds -> Int]
  BY <1>2 DEF Counted
<1> SUFFICES ASSUME NEW k \in Kinds PROVE CountOf(k)'
  BY <1>4 DEF Counted
<1>5. Made(k)' = Made(k)
  BY <1>2 DEF Made, Alive
<1>6. CASE k # m
  <2>1. num'[k] = num[k] /\ Busy(k)' \subseteq Busy(k) /\ Admitted(k)' \subseteq Admitted(k)
    BY <1>2, <1>3, <1>4, <1>6 DEF Busy, Admitted
  <2> QED BY <1>5, <2>1, SameOf
<1>7. CASE k = m
  <2>1. t \notin Busy(k) /\ Busy(k)' = Busy(k) \cup {t} /\ num'[k] = num[k] + 1
    BY <1>2, <1>3, <1>4, <1>7 DEF Busy
  <2>2. IF OverLimit(m) THEN Admitted(k)' = Admitted(k)
                        ELSE Admitted(k)' = Admitted(k) \cup {t}
    <3>1. \A u \in Busy(k) : u \in Callers /\ u # t /\ call'[u] = call[u]
      BY <1>3, <2>1 DEF Busy
    <3> QED BY <1>3, <2>1, <3>1 DEF Admitted
  <2>3. ~OverLimit(m) => num[k] + 1 <= Limit[k]
    BY <1>4, <1>7, KernelAssumption DEF OverLimit
  <2> QED BY ZenonT(30), <1>5, <2>1, <2>2, <2>3, EnterStep
<1> QED BY <1>6, <1>7

\* err_out of the calls that create.
LEMMA GiveUpCount ==
    ASSUME Shape, Counted, NEW t \in Callers, call[t].at \in {"check", "cqs"},
           Return(t), num' = Uncounted(t),
           \A o \in Objects : obj'[o].st = "live" => obj[o].st = "live"
    PROVE  Counted'
<1> DEFINE m == Kind(call[t].obj)
<1>1. call \in [Callers -> Call] /\ m \in Kinds
  BY KindIsKind DEF Shape, KType
<1>2. call'[t].at = "idle" /\ \A u \in Callers : u # t => call'[u] = call[u]
  BY <1>1 DEF Return, NoCall
<1>3. num' = [num EXCEPT ![m] = @ - 1] /\ num \in [Kinds -> Int]
  BY DEF Uncounted, Counted
<1>4. num' \in [Kinds -> Int]
  BY <1>1, <1>3
<1> SUFFICES ASSUME NEW k \in Kinds PROVE CountOf(k)'
  BY <1>4 DEF Counted
<1>5. Made(k)' \subseteq Made(k)
  BY MadeSame
<1>6. /\ Busy(k)' \subseteq Busy(k) \ {t} /\ Admitted(k)' \subseteq Admitted(k)
  BY <1>2 DEF Busy, Admitted
<1>7. CASE k # m
  BY <1>3, <1>5, <1>6, <1>7, SameOf
<1>8. CASE k = m
  <2>1. t \in Busy(k) /\ num'[k] = num[k] - 1
    BY <1>3, <1>8 DEF Busy
  <2> QED BY <1>5, <1>6, <2>1, LeaveStep
<1> QED BY <1>7, <1>8

\* The call makes the object it has counted.
LEMMA MakeCount ==
    ASSUME Shape, Counted, NEW t \in Callers, call[t].at \in {"check", "cqs"},
           ~call[t].over, Goto(t, "copy"), num' = num,
           \A o \in Objects : o # call[t].obj => obj'[o] = obj[o]
    PROVE  Counted'
<1> DEFINE m == Kind(call[t].obj)
<1>1. call \in [Callers -> Call] /\ call[t] \in Call
  BY DEF Shape, KType
<1>2. call'[t].at = "copy" /\ \A u \in Callers : u # t => call'[u] = call[u]
  BY <1>1 DEF Goto, Call
<1> SUFFICES ASSUME NEW k \in Kinds PROVE CountOf(k)'
  BY DEF Counted
<1>3. /\ Busy(k)' \subseteq Busy(k) \ {t} /\ Admitted(k)' \subseteq Admitted(k) \ {t}
  BY <1>2 DEF Busy, Admitted
<1>4. CASE k # m
  <2>1. Made(k)' \subseteq Made(k)
    BY <1>4 DEF Made, Alive
  <2> QED BY <1>3, <2>1, SameOf
<1>5. CASE k = m
  <2>1. Made(k)' \subseteq Made(k) \cup {call[t].obj}
    BY DEF Made, Alive
  <2>2. t \in Admitted(k)
    BY <1>5 DEF Busy, Admitted
  <2> QED BY ZenonT(30), <1>3, <2>1, <2>2, MadeStep
<1> QED BY <1>4, <1>5

\* The steps of a call after the first.
LEMMA FinishCount ==
    ASSUME Shape, Counted, NEW t \in Callers, Finish(t)
    PROVE  Counted'
<1>1. /\ obj \in [Objects -> Object] /\ call \in [Callers -> Call] /\ call[t] \in Call
      /\ call[t].uses \in Seq(Objects) /\ call[t].obj \in Objects
  BY DEF Shape, KType, Call
<1>2. Return(t) => /\ call'[t].at = "idle"
                   /\ \A u \in Callers : u # t => call'[u] = call[u]
  BY <1>1 DEF Return, NoCall
<1>3. CASE CreateFails(t)
  <2>1. obj' = obj /\ call[t].at = "check" /\ Return(t) /\ num' = Uncounted(t)
    BY <1>3 DEF CreateFails
  <2> QED BY <2>1, GiveUpCount
<1>4. CASE Create(t)
  <2>1. call[t].at = "check" /\ ~call[t].over /\ num' = num
    BY <1>4 DEF Create
  <2>2. CASE AllocUcontext(t) \/ AllocPd(t) \/ CreateCq(t)
    <3>1. Goto(t, "copy") /\ \A o \in Objects : o # call[t].obj => obj'[o] = obj[o]
      BY <1>1, <2>2 DEF AllocUcontext, AllocPd, CreateCq, Added
    <3> QED BY <2>1, <3>1, MakeCount
  <2>3. CASE CreateQp(t)
    <3>1. /\ call[t].obj \in Qps /\ call' = [call EXCEPT ![t].at = "cqs"]
          /\ obj' = GetAll(obj, CqRefs(call[t].uses))
      BY <2>3 DEF CreateQp, Goto, Get
    <3>2. CqRefs(call[t].uses) \in Seq(Objects)
      BY <1>1, <2>1, <3>1, InCqRefs DEF Shape, CallsMake, Being
    <3>3. \A o \in Objects : obj'[o].st = obj[o].st
      BY <1>1, <3>1, <3>2, GetAllKeeps
    <3>4. /\ call'[t].at = "cqs" /\ call'[t].obj = call[t].obj
          /\ call'[t].over = call[t].over
          /\ \A u \in Callers : u # t => call'[u] = call[u]
      BY <1>1, <3>1 DEF Call
    <3> SUFFICES ASSUME NEW k \in Kinds PROVE CountOf(k)'
      BY <2>1 DEF Counted
    <3>5. Busy(k)' \subseteq Busy(k) /\ Admitted(k)' \subseteq Admitted(k)
      BY <2>1, <3>4 DEF Busy, Admitted
    <3>6. Made(k)' \subseteq Made(k)
      BY <3>3, MadeSame
    <3> QED BY <2>1, <3>5, <3>6, SameOf
  <2> QED BY <1>4, <2>2, <2>3 DEF Create
<1>5. CASE AddQp(t)
  <2>1. call[t].at = "cqs" /\ ~call[t].over /\ call[t].obj \in Qps
    BY ZenonT(30), <1>5 DEF AddQp, Shape, CallsMake
  <2>2. CASE obj' = Added(call[t].obj, call[t].uses) /\ Goto(t, "copy") /\ num' = num
    <3>1. \A o \in Objects : o # call[t].obj => obj'[o] = obj[o]
      BY <1>1, <2>2 DEF Added
    <3> QED BY <2>1, <2>2, <3>1, MakeCount
  <2>3. CASE /\ Return(t) /\ num' = Uncounted(t)
             /\ obj' = PutAll(obj, CqRefs(call[t].uses))
    <3>1. CqRefs(call[t].uses) \in Seq(Objects)
      BY <1>1, <2>1, InCqRefs DEF Shape, CallsMake, Being
    <3>2. \A o \in Objects : obj'[o].st = "live" => obj[o].st = "live"
      BY <1>1, <2>3, <3>1, PutAllFrees
    <3> QED BY <2>1, <2>3, <3>2, GiveUpCount
  <2> QED BY ZenonT(30), <1>5, <2>2, <2>3 DEF AddQp
<1>6. CASE Created(t)
  <2> DEFINE known == [obj EXCEPT ![call[t].obj].user = TRUE]
  <2>1. call[t].at = "copy" /\ Return(t) /\ num' = num
    BY <1>6 DEF Created
  <2>2. known \in [Objects -> Object] /\ \A x \in Objects : known[x].st = obj[x].st
    <3>1. obj[call[t].obj] \in Object
      BY <1>1
    <3> QED BY ZenonT(30), <1>1, <3>1, SetUser
  <2> HIDE DEF known
  <2>3. \A x \in Objects : obj'[x].st = obj[x].st
    <3>1. CASE call[t].obj \in Qps
      <4>1. call[t].uses[3] \in Objects
        BY SMTT(30), <1>1, <2>1, <3>1 DEF Shape, CallsMake, Being
      <4>2. PdRef(call[t].uses) \in Seq(Objects)
        BY <4>1 DEF PdRef
      <4>3. obj' = GetAll(known, PdRef(call[t].uses))
        BY <1>6, <3>1 DEF Created, known
      <4> QED BY <2>2, <4>2, <4>3, GetAllKeeps
    <3>2. CASE call[t].obj \notin Qps
      <4>1. obj' = known
        BY <1>6, <3>2 DEF Created, known
      <4> QED BY <2>2, <4>1
    <3> QED BY <3>1, <3>2
  <2>4. \A u \in Callers : call'[u] = call[u] \/ call'[u].at \notin {"check", "cqs"}
    BY <1>2, <2>1
  <2> QED BY <2>1, <2>3, <2>4, SameCount
<1>7. CASE PutCq(t)
  <2> DEFINE gone == [obj EXCEPT ![call[t].obj].user = FALSE]
  <2>1. /\ gone \in [Objects -> Object] /\ \A x \in Objects : gone[x].st = obj[x].st
    <3>1. obj[call[t].obj] \in Object
      BY <1>1
    <3> QED BY Zenon, <1>1, <3>1, SetUser
  <2>2. Puts(gone, <<call[t].obj>>) /\ Return(t)
    BY <1>7 DEF PutCq
  <2>3. <<call[t].obj>> \in Seq(Objects)
    BY <1>1
  <2>4. \A u \in Callers : call'[u] = call[u] \/ call'[u].at \notin {"check", "cqs"}
    BY <1>2, <2>2
  <2> HIDE DEF gone
  <2> QED BY Zenon, <1>1, <2>1, <2>2, <2>3, <2>4, PutsCount
<1>8. CASE CopyFails(t)
  <2> DEFINE o == call[t].obj
             m == Kind(o)
  <2>1. call[t].at = "copy" /\ Return(t) /\ num' = Uncounted(t) /\ obj[o].st = "live"
    BY Zenon, <1>8 DEF CopyFails, Shape, CallsMake
  <2>2. /\ Kfree(o) \in [Objects -> Object]
        /\ Kfree(o)[o].st = "freed"
        /\ \A x \in Objects : x # o => Kfree(o)[x] = obj[x]
    <3> DEFINE r == [obj[o] EXCEPT !.st = "freed", !.ref = 0, !.idr = FALSE]
    <3>1. obj[o] \in Object
      BY <1>1
    <3>2. r \in Object /\ r.st = "freed"
      BY ZenonT(30), <3>1, FreedRecord DEF SameButSt
    <3>3. Kfree(o) = [obj EXCEPT ![o] = r]
      BY Zenon DEF Kfree
    <3> HIDE DEF r
    <3> QED BY <1>1, <3>2, <3>3
  <2>3. \A x \in Objects : obj'[x].st = Kfree(o)[x].st \/ obj'[x].st = "freed"
    <3>1. CASE o \in Qps
      <4>1. CqRefs(call[t].uses) \in Seq(Objects)
        BY <1>1, <2>1, <3>1, InCqRefs DEF Shape, CallsMake, Being
      <4>2. obj' = PutAll(Kfree(o), CqRefs(call[t].uses))
        BY ZenonT(30), <1>8, <3>1 DEF CopyFails
      <4> QED BY ZenonT(30), <2>2, <4>1, <4>2, PutAllFrees
    <3>2. CASE o \notin Qps
      BY ZenonT(30), <1>8, <3>2 DEF CopyFails
    <3> QED BY <3>1, <3>2
  <2>4. /\ num' = [num EXCEPT ![m] = @ - 1] /\ num \in [Kinds -> Int] /\ m \in Kinds
    BY Zenon, <2>1, KindIsKind DEF Uncounted, Counted
  <2>5. num' \in [Kinds -> Int]
    BY <2>4
  <2> SUFFICES ASSUME NEW k \in Kinds PROVE CountOf(k)'
    BY <2>5 DEF Counted
  <2>6. \A u \in Callers : call'[u] = call[u] \/ call'[u].at \notin {"check", "cqs"}
    BY <1>2, <2>1
  <2>7. Busy(k)' \subseteq Busy(k) /\ Admitted(k)' \subseteq Admitted(k)
    BY <2>6, BusySame
  <2>8. Made(k)' \subseteq Made(k) \ {o}
    BY <2>2, <2>3 DEF Made, Alive
  <2>9. CASE k # m
    BY <2>4, <2>7, <2>8, <2>9, SameOf
  <2>10. CASE k = m
    <3>1. {o} \in SUBSET Made(k)
      BY <1>1, <2>1, <2>10 DEF Made, Alive
    <3>2. num'[k] = num[k] - Cardinality({o})
      BY Zenon, <2>4, <2>10, FS_Singleton
    <3> QED BY ZenonT(30), <2>7, <2>8, <3>1, <3>2, ShrinkStep
  <2> QED BY <2>9, <2>10
<1> QED BY <1>3, <1>4, <1>5, <1>6, <1>7, <1>8 DEF Finish

\* num_ctx goes down with the context.
LEMMA FreeContextCount ==
    ASSUME Shape, Counted, FreeContext
    PROVE  Counted'
<1> DEFINE r == [obj[Ctx] EXCEPT !.st = "freed", !.user = FALSE]
<1>1. /\ core.at = "free" /\ call' = call /\ num' = [num EXCEPT !["ctx"] = @ - 1]
      /\ obj' = [obj EXCEPT ![Ctx] = r]
  BY Zenon DEF FreeContext
<1>2. obj \in [Objects -> Object] /\ Ctx \in Objects /\ obj[Ctx] \in Object
  BY DEF Shape, KType, Objects
<1>3. r.st = "freed"
  BY <1>2 DEF Object
<1> HIDE DEF r
<1>4. obj[Ctx].st = "live" /\ Kind(Ctx) = "ctx"
  BY <1>1 DEF Shape, CtxInv, Closing, Alive, Kind
<1>5. num \in [Kinds -> Int] /\ "ctx" \in Kinds
  BY DEF Counted, Kinds
<1>6. num' \in [Kinds -> Int]
  BY <1>1, <1>5
<1> SUFFICES ASSUME NEW k \in Kinds PROVE CountOf(k)'
  BY <1>6 DEF Counted
<1>7. Made(k)' \subseteq Made(k) \ {Ctx}
  BY <1>1, <1>2, <1>3 DEF Made, Alive
<1>8. Busy(k)' \subseteq Busy(k) /\ Admitted(k)' \subseteq Admitted(k)
  BY <1>1 DEF Busy, Admitted
<1>9. CASE k # "ctx"
  BY <1>1, <1>5, <1>7, <1>8, <1>9, SameOf
<1>10. CASE k = "ctx"
  <2>1. {Ctx} \in SUBSET Made(k)
    BY <1>2, <1>4, <1>10 DEF Made, Alive
  <2>2. num'[k] = num[k] - Cardinality({Ctx})
    BY Zenon, <1>1, <1>5, <1>10, FS_Singleton
  <2> QED BY <1>7, <1>8, <2>1, <2>2, ShrinkStep
<1> QED BY <1>9, <1>10

\* siw_destroy_qp and siw_dealloc_pd.
LEMMA DestroyCount ==
    ASSUME Shape, Counted, NEW t \in Callers, NEW o \in Qps \cup Pds, Destroy(t, o)
    PROVE  Counted'
<1> USE DEF userVars
<1> DEFINE gone == [obj EXCEPT ![o].user = FALSE]
<1>1. /\ obj \in [Objects -> Object] /\ o \in Objects /\ obj[o] \in Object
      /\ obj[o].uses \in Seq(Objects)
  BY DEF Shape, KType, Objects, Object
<1>2. /\ gone \in [Objects -> Object] /\ \A x \in Objects : gone[x].st = obj[x].st
  BY ZenonT(30), <1>1, SetUser
<1>3. \A u \in Callers : call'[u] = call[u]
  BY DEF Destroy
<1>4. CASE Puts(gone, Drops(o))
  <2>1. Drops(o) \in Seq(Objects)
    BY <1>1, InDrops DEF Drops
  <2> HIDE DEF gone
  <2> QED BY <1>1, <1>2, <1>3, <1>4, <2>1, PutsCount
<1>5. CASE Puts(Removed(gone, o), <<o>>)
  <2> DEFINE r == [gone[o] EXCEPT !.idr = FALSE]
             objs == Removed(gone, o)
  <2> HIDE DEF gone
  <2>1. gone[o] \in Object
    BY <1>1, <1>2
  <2>2. r \in Object /\ r.st = gone[o].st
    BY Zenon, <2>1, SetIdr DEF SameButSt
  <2>3. objs = [gone EXCEPT ![o] = r]
    BY DEF Removed
  <2> HIDE DEF r
  <2>4. objs \in [Objects -> Object] /\ \A x \in Objects : objs[x].st = obj[x].st
    BY <1>1, <1>2, <2>2, <2>3
  <2>5. <<o>> \in Seq(Objects)
    BY <1>1
  <2> HIDE DEF objs
  <2>6. Puts(objs, <<o>>)
    BY <1>5 DEF objs
  <2> QED BY Zenon, <1>1, <1>3, <2>4, <2>5, <2>6, PutsCount
<1> QED BY <1>4, <1>5 DEF Destroy

\* Counted is inductive, given Shape.
LEMMA CountedNext ==
    ASSUME Shape, Counted, [Next]_vars
    PROVE  Counted'
<1> USE DEF netVars, fileVars, userVars, objVars
<1>1. /\ obj \in [Objects -> Object] /\ call \in [Callers -> Call]
      /\ writer.cq \in Objects
  BY DEF Shape, KType
<1>2. CASE UNCHANGED <<obj, call, num>>
  BY <1>2, SameCount
<1>3. CASE \/ InitModule \/ ExitModule \/ Device \/ Close \/ Release \/ ReadEventFile
           \/ DetachFile \/ Deregister \/ Registered \/ CompHandler \/ ReleaseClear
           \/ UNCHANGED vars
  <2>1. UNCHANGED <<obj, call, num>>
    BY Zenon, <1>3 DEF InitModule, ExitModule, Device, NetdevRegister, NetdevUp, RegisterFails,
         NetdevDown, NetdevChangeAddr, NetdevUnregister, Close, Release, ReadEventFile,
         DetachFile, Deregister, Registered, CompHandler, ReleaseClear, vars
  <2> QED BY <1>2, <2>1
<1>4. CASE FreeContext
  BY <1>4, FreeContextCount
<1>5. CASE WriteGet
  <2>1. UNCHANGED <<call, num>> /\ (obj' = obj \/ obj' = GetAll(obj, <<writer.cq>>))
    BY <1>5 DEF WriteGet, Get
  <2>2. <<writer.cq>> \in Seq(Objects)
    BY <1>1
  <2>3. \A o \in Objects : GetAll(obj, <<writer.cq>>)[o].st = obj[o].st
    BY Zenon, <1>1, <2>2, GetAllKeeps
  <2>4. \A o \in Objects : obj'[o].st = obj[o].st
    BY <2>1, <2>3
  <2> QED BY <2>1, <2>4, SameCount
<1>6. CASE WritePut
  <2>1. Puts(obj, <<writer.cq>>) /\ call' = call
    BY <1>6 DEF WritePut
  <2> QED BY Zenon, <1>1, <2>1, InOne, PutsCount
<1>7. ASSUME NEW t \in Callers, Finish(t) PROVE Counted'
  BY <1>7, FinishCount
<1>8. ASSUME NEW t \in Callers, NEW o \in Objects, Begin(t, o) PROVE Counted'
  BY <1>8, BeginCount
<1>9. ASSUME NEW t \in Callers, NEW o \in Qps \cup Pds, Destroy(t, o) PROVE Counted'
  BY <1>9, DestroyCount
<1>10. ASSUME NEW t \in Callers, NEW o \in Cqs, DestroyCq(t, o) PROVE Counted'
  <2>1. num' = num
    BY <1>10 DEF DestroyCq
  <2>2. \A x \in Objects : obj'[x].st = obj[x].st
    <3>1. obj[o] \in Object /\ o \in Objects
      BY <1>1 DEF Objects
    <3>2. [obj[o] EXCEPT !.idr = FALSE].st = obj[o].st
      BY <3>1, SetIdr
    <3>3. obj' = [obj EXCEPT ![o] = [obj[o] EXCEPT !.idr = FALSE]]
      BY <1>10 DEF DestroyCq, Removed
    <3> QED BY <1>1, <3>1, <3>2, <3>3
  <2>3. \A u \in Callers : call'[u] = call[u] \/ call'[u].at \notin {"check", "cqs"}
    <3>1. call' = [call EXCEPT ![t] = [at |-> "put", obj |-> o, over |-> FALSE,
                                       uses |-> <<>>]]
      BY <1>10 DEF DestroyCq
    <3> QED BY <1>1, <3>1
  <2> QED BY <2>1, <2>2, <2>3, SameCount
<1>11. ASSUME NEW o \in Cqs, EventFileWrite(o) PROVE Counted'
  BY <1>2, <1>11 DEF EventFileWrite
<1>12. ASSUME NEW q \in Qps, CmGet(q) PROVE Counted'
  <2>1. UNCHANGED <<call, num>> /\ obj' = GetAll(obj, <<q>>) /\ q \in Objects
    BY <1>12 DEF CmGet, Get, Objects
  <2>2. <<q>> \in Seq(Objects)
    BY <2>1
  <2>3. \A o \in Objects : obj'[o].st = obj[o].st
    BY ZenonT(30), <1>1, <2>1, <2>2, GetAllKeeps
  <2> QED BY <2>1, <2>3, SameCount
<1>13. ASSUME NEW q \in Qps, CmPut(q) PROVE Counted'
  <2>1. Puts(obj, <<q>>) /\ call' = call /\ q \in Objects
    BY <1>13 DEF CmPut, Objects
  <2> QED BY <1>1, <2>1, InOne, PutsCount
<1> QED BY <1>3, <1>4, <1>5, <1>6, <1>7, <1>8, <1>9, <1>10, <1>11, <1>12, <1>13
        DEF Next, CoreStep, FileStep

\* verbs.c: whatever the number of callers that count and test at once, and
\* whatever fails, no more contexts, protection domains, completion queues or
\* queue pairs exist than SIW_MAX_CONTEXT, _PD, _CQ and _QP allow.
THEOREM LimitsAlwaysHold == Spec => []LimitsHold
<1>1. Init => Shape /\ Counted
  <2> SUFFICES ASSUME Init PROVE Counted
    BY ShapeInit
  <2>1. num = [k \in Kinds |-> 0]
    BY DEF Init
  <2> SUFFICES ASSUME NEW k \in Kinds PROVE CountOf(k)
    BY <2>1 DEF Counted
  <2>2. Made(k) = {}
    BY DEF Init, Made, Alive, NoObject
  <2>3. Busy(k) = {} /\ Admitted(k) = {}
    BY Zenon DEF Init, Busy, Admitted, NoCall
  <2>4. num[k] = 0 /\ Limit[k] \in Nat
    BY <2>1, KernelAssumption
  <2> QED BY <2>2, <2>3, <2>4, FS_EmptySet DEF CountOf
<1>2. Shape /\ Counted /\ [Next]_vars => Shape' /\ Counted'
  BY ShapeNext, CountedNext
<1>3. Counted => LimitsHold
  <2> SUFFICES ASSUME Counted, NEW k \in Kinds
               PROVE  Cardinality(Made(k)) <= Limit[k]
    BY DEF LimitsHold, Made
  <2>1. Cardinality(Made(k)) + Cardinality(Admitted(k)) <= Limit[k] /\ Limit[k] \in Nat
    BY KernelAssumption DEF Counted, CountOf
  <2>2. Cardinality(Made(k)) \in Nat /\ Cardinality(Admitted(k)) \in Nat
    BY AllFinite
  <2> QED BY <2>1, <2>2
<1> QED BY <1>1, <1>2, <1>3, PTL DEF Spec
=============================================================================
