---------------------------- MODULE KernelShape -----------------------------
(***************************************************************************)
(* The inductive invariant of KernelObjects that the proofs about its counters*)
(* rest on, for any number of callers and objects.                         *)
(*                                                                         *)
(* Shape types the objects and the calls, and says of an object that is being*)
(* made that nobody else refers to it (Fresh) and that one call makes it   *)
(* (CallsMake), and of the context that closing it is what frees it (CtxInv).*)
(* So a call that cannot copy its answer frees an object nobody else has, and*)
(* a put frees only what has been made.                                    *)
(***************************************************************************)
EXTENDS KernelObjects, FiniteSetTheorems, TLAPS

(* The records and what a change of one field leaves alone *)

Object == [st : {"none", "live", "freed"}, ref : Int, idr : BOOLEAN, user : BOOLEAN,
           uses : Seq(Objects)]
Call == [at : {"idle", "check", "cqs", "copy", "put"}, obj : Objects, over : BOOLEAN,
         uses : Seq(Objects)]
In(o, seq) == \E k \in DOMAIN seq : seq[k] = o

\* What siw_create_qp and the others are given to make an object of.
LEMMA UsesAreObjects ==
    ASSUME NEW o \in Objects, NEW uses \in Uses(o)
    PROVE  /\ uses \in Seq(Objects)
           /\ o \in Qps => Len(uses) = 3 /\ ~In(Ctx, uses)
<1>1. CASE o = Ctx
  <2>1. uses = <<>>
    BY <1>1 DEF Uses, Kind
  <2> QED BY <1>1, <2>1, KernelAssumption
<1>2. CASE o \in Pds \cup Cqs
  <2>1. Kind(o) \in {"pd", "cq"}
    BY <1>2, KernelAssumption DEF Kind
  <2>2. uses = <<Ctx>>
    BY <2>1 DEF Uses
  <2> QED BY <1>2, <2>2, KernelAssumption DEF Objects
<1>3. CASE o \in Qps
  <2>1. Kind(o) = "qp"
    BY <1>3, KernelAssumption DEF Kind
  <2>2. uses \in Cqs \X Cqs \X Pds
    BY <2>1 DEF Uses
  <2>3. PICK a \in Cqs, b \in Cqs, c \in Pds : uses = <<a, b, c>>
    BY <2>2
  <2>4. uses \in Seq(Objects) /\ Len(uses) = 3
    BY <2>3 DEF Objects
  <2>5. DOMAIN uses = 1..3
    BY <2>3
  <2>6. ~In(Ctx, uses)
    BY <2>3, <2>5, KernelAssumption DEF In
  <2> QED BY <2>4, <2>6
<1> QED BY <1>1, <1>2, <1>3 DEF Objects

\* Times counts, and counts nothing that is not there.
LEMMA TimesIsNat ==
    ASSUME NEW o, NEW seq \in Seq(Objects)
    PROVE  Times(o, seq) \in Nat /\ (~In(o, seq) => Times(o, seq) = 0)
<1>1. IsFiniteSet(DOMAIN seq)
  BY FS_Interval, Len(seq) \in Nat, DOMAIN seq = 1..Len(seq)
<1>2. IsFiniteSet({k \in DOMAIN seq : seq[k] = o})
  BY <1>1, FS_Subset
<1>3. Times(o, seq) \in Nat
  BY <1>2, FS_CardinalityType DEF Times
<1>4. ASSUME ~In(o, seq) PROVE {k \in DOMAIN seq : seq[k] = o} = {}
  BY <1>4 DEF In
<1> QED BY Zenon, <1>3, <1>4, FS_EmptySet DEF Times

\* All but the state is the same.
SameButSt(r, s) == s \in Object /\ s.user = r.user /\ s.uses = r.uses
\* The records keep their type when a field is set.
LEMMA SetSt ==
    ASSUME NEW r \in Object, NEW s \in {"none", "live", "freed"}
    PROVE  SameButSt(r, [r EXCEPT !.st = s]) /\ [r EXCEPT !.st = s].st = s
BY DEF Object, SameButSt
LEMMA SetRef ==
    ASSUME NEW r \in Object, NEW n \in Int
    PROVE  SameButSt(r, [r EXCEPT !.ref = n]) /\ [r EXCEPT !.ref = n].st = r.st
BY DEF Object, SameButSt
LEMMA SetIdr ==
    ASSUME NEW r \in Object, NEW c \in BOOLEAN
    PROVE  SameButSt(r, [r EXCEPT !.idr = c]) /\ [r EXCEPT !.idr = c].st = r.st
BY DEF Object, SameButSt
LEMMA SetUser ==
    ASSUME NEW r \in Object, NEW c \in BOOLEAN
    PROVE  LET s == [r EXCEPT !.user = c]
           IN  s \in Object /\ s.user = c /\ s.st = r.st /\ s.uses = r.uses
BY DEF Object

\* kfree, and the last kref_put.
LEMMA FreedRecord ==
    ASSUME NEW r \in Object, NEW c \in BOOLEAN
    PROVE  LET freed == [r EXCEPT !.st = "freed", !.ref = 0, !.idr = c]
           IN  SameButSt(r, freed) /\ freed.st = "freed"
<1> DEFINE a == [r EXCEPT !.st = "freed"]
           b == [a EXCEPT !.ref = 0]
           d == [b EXCEPT !.idr = c]
<1>1. SameButSt(r, a) /\ a.st = "freed"
  BY Zenon, SetSt
<1> HIDE DEF a
<1>2. SameButSt(a, b) /\ b.st = a.st
  BY <1>1, SetRef DEF SameButSt
<1> HIDE DEF b
<1>3. SameButSt(b, d) /\ d.st = b.st
  BY <1>2, SetIdr DEF SameButSt
<1>4. d = [r EXCEPT !.st = "freed", !.ref = 0, !.idr = c]
  BY DEF a, b
<1> HIDE DEF d
<1> QED BY <1>1, <1>2, <1>3, <1>4 DEF SameButSt

\* PutAll frees some of the objects in the sequence and changes no other field
\* that matters.
LEMMA PutAllFrees ==
    ASSUME NEW objs \in [Objects -> Object], NEW seq \in Seq(Objects)
    PROVE  /\ PutAll(objs, seq) \in [Objects -> Object]
           /\ \A o \in Objects :
                /\ PutAll(objs, seq)[o].user = objs[o].user
                /\ PutAll(objs, seq)[o].uses = objs[o].uses
                /\ \/ PutAll(objs, seq)[o].st = objs[o].st
                   \/ PutAll(objs, seq)[o].st = "freed" /\ In(o, seq)
<1> SUFFICES ASSUME NEW o \in Objects
             PROVE  /\ PutAll(objs, seq)[o] \in Object
                    /\ PutAll(objs, seq)[o].user = objs[o].user
                    /\ PutAll(objs, seq)[o].uses = objs[o].uses
                    /\ \/ PutAll(objs, seq)[o].st = objs[o].st
                       \/ PutAll(objs, seq)[o].st = "freed" /\ In(o, seq)
  BY Zenon DEF PutAll
<1> DEFINE n == Times(o, seq)
           freed == [objs[o] EXCEPT !.st = "freed", !.ref = 0,
                                    !.idr = IF o \in Qps THEN FALSE ELSE @]
           less == [objs[o] EXCEPT !.ref = @ - n]
<1>1. n \in Nat /\ (~In(o, seq) => n = 0)
  BY TimesIsNat
<1>2. PutAll(objs, seq)[o] = IF n = 0 THEN objs[o]
                             ELSE IF objs[o].ref = n THEN freed ELSE less
  BY DEF PutAll
<1>3. objs[o] \in Object
  OBVIOUS
<1>4. SameButSt(objs[o], freed) /\ freed.st = "freed"
  <2>1. (IF o \in Qps THEN FALSE ELSE objs[o].idr) \in BOOLEAN
    BY Zenon, <1>3 DEF Object
  <2> QED BY Zenon, <1>3, <2>1, FreedRecord
<1>5. SameButSt(objs[o], less) /\ less.st = objs[o].st
  <2>1. objs[o].ref - n \in Int
    BY <1>1, <1>3 DEF Object
  <2> QED BY <1>3, <2>1, SetRef
<1> QED BY <1>1, <1>2, <1>3, <1>4, <1>5 DEF SameButSt

\* kref_get frees nothing.
LEMMA GetAllKeeps ==
    ASSUME NEW objs \in [Objects -> Object], NEW seq \in Seq(Objects)
    PROVE  /\ GetAll(objs, seq) \in [Objects -> Object]
           /\ \A o \in Objects :
                /\ GetAll(objs, seq)[o].user = objs[o].user
                /\ GetAll(objs, seq)[o].uses = objs[o].uses
                /\ GetAll(objs, seq)[o].st = objs[o].st
<1> SUFFICES ASSUME NEW o \in Objects
             PROVE  SameButSt(objs[o], GetAll(objs, seq)[o])
                    /\ GetAll(objs, seq)[o].st = objs[o].st
  BY DEF GetAll, SameButSt
<1>1. objs[o] \in Object /\ objs[o].ref + Times(o, seq) \in Int
  BY TimesIsNat DEF Object
<1> QED BY Zenon, <1>1, SetRef DEF GetAll

\* What siw_destroy_qp puts, what siw_create_qp gets, and a single object.
LEMMA InDrops ==
    ASSUME NEW seq \in Seq(Objects), NEW q \in Objects, NEW o
    PROVE  seq \o <<q>> \in Seq(Objects) /\ (In(o, seq \o <<q>>) => o = q \/ In(o, seq))
BY DEF In
LEMMA InCqRefs ==
    ASSUME NEW seq \in Seq(Objects), Len(seq) = 3, NEW o
    PROVE  CqRefs(seq) \in Seq(Objects) /\ (In(o, CqRefs(seq)) => In(o, seq))
BY DEF In, CqRefs
LEMMA InOne ==
    ASSUME NEW q \in Objects, NEW o
    PROVE  <<q>> \in Seq(Objects) /\ (In(o, <<q>>) => o = q)
BY DEF In
------------------------------------------------------------------------------
(* Which objects may be referred to *)

Closing == core.at \in {"closing", "detach", "free"}
Being(t) == call[t].at \in {"check", "cqs", "copy"}
KType ==
    /\ obj \in [Objects -> Object] /\ call \in [Callers -> Call]
    /\ core \in [at : {"idle", "closing", "detach", "free", "deregister"},
                 then : {"none", "register", "unregister"}]
    /\ writer \in [at : {"idle", "found", "handler", "put"}, cq : Objects]

Referenced(o) ==
    \/ obj[o].user
    \/ \E t \in Callers : \/ call[t].at # "idle" /\ In(o, call[t].uses)
                          \/ call[t].at = "put" /\ call[t].obj = o
    \/ \E x \in Objects : In(o, obj[x].uses)
    \/ writer.at # "idle" /\ writer.cq = o
    \/ o \in cm
    \/ o = Ctx /\ Closing
Unmade(o) == obj[o].st = "none" \/ \E t \in Callers : Being(t) /\ call[t].obj = o
Fresh == \A o \in Objects : Unmade(o) => ~Referenced(o)

CallsMake ==
    /\ \A t \in Callers :
        /\ call[t].at \in {"check", "cqs"} => obj[call[t].obj].st = "none"
        /\ call[t].at = "copy" => obj[call[t].obj].st = "live"
        /\ call[t].at = "cqs" => ~call[t].over /\ call[t].obj \in Qps
        /\ call[t].at = "put" => call[t].obj \in Cqs
        /\ Being(t) /\ call[t].obj \in Qps =>
              Len(call[t].uses) = 3 /\ ~In(Ctx, call[t].uses)
    /\ \A t, u \in Callers :
        Being(t) /\ Being(u) /\ call[t].obj = call[u].obj => t = u
CtxInv ==
    /\ obj[Ctx].user => Alive(Ctx)
    /\ Closing => obj[Ctx].user
    /\ \A o \in Objects : ~In(Ctx, obj[o].uses)
    /\ writer.at # "idle" => writer.cq \in Cqs
    /\ cm \subseteq Qps
Shape == KType /\ CallsMake /\ Fresh /\ CtxInv

\* A step that makes no object: some of those in S are freed, references are
\* dropped or taken of what is referred to already.
LEMMA SettleStep ==
    ASSUME Shape, KType', NEW S,
           \A o \in Objects : /\ obj'[o].uses = obj[o].uses
                              /\ obj'[o].user => obj[o].user
                              /\ \/ obj'[o].st = obj[o].st
                                 \/ o \in S /\ obj'[o].st = "freed",
           \A o \in S : o # Ctx /\ Referenced(o),
           obj'[Ctx].user = obj[Ctx].user,
           \/ call' = call
           \/ \E t \in Callers : call' = [call EXCEPT ![t] = NoCall],
           Closing' => obj[Ctx].user,
           writer'.at # "idle" => writer'.cq \in Cqs /\ Referenced(writer'.cq),
           cm' \subseteq Qps, \A q \in cm' : Referenced(q)
    PROVE  Shape'
<1>1. \A t \in Callers : call'[t] = call[t] \/ call'[t] = NoCall
  BY DEF Shape, KType
<1>2. \A t \in Callers : call'[t].at = "idle" \/ call'[t] = call[t]
  BY <1>1 DEF NoCall
<1>3. \A o \in Objects : Referenced(o)' => Referenced(o)
  BY <1>2 DEF Referenced, Shape, KType
<1>4. \A o \in Objects : Unmade(o)' => Unmade(o)
  BY <1>2 DEF Unmade, Being
<1>5. Fresh'
  BY <1>3, <1>4 DEF Shape, Fresh
<1>6. \A t \in Callers : Being(t) => obj'[call[t].obj].st = obj[call[t].obj].st
  <2> SUFFICES ASSUME NEW t \in Callers, Being(t)
               PROVE  obj'[call[t].obj].st = obj[call[t].obj].st
    OBVIOUS
  <2>1. call[t].obj \in Objects
    BY DEF Shape, KType, Call
  <2>2. ~Referenced(call[t].obj)
    BY <2>1 DEF Shape, Fresh, Unmade
  <2> QED BY <2>1, <2>2
<1>7. CallsMake'
  BY <1>2, <1>6 DEF Shape, CallsMake, Being
<1>8. CtxInv'
  BY DEF Shape, CtxInv, Alive, Objects
<1> QED BY <1>5, <1>7, <1>8 DEF Shape

\* A step that changes neither objects nor calls.
LEMMA StillStep ==
    ASSUME Shape, UNCHANGED <<obj, call, writer, cm>>,
           core' \in [at : {"idle", "closing", "detach", "free", "deregister"},
                      then : {"none", "register", "unregister"}],
           Closing' => obj[Ctx].user
    PROVE  Shape'
<1>1. KType'
  BY DEF Shape, KType
<1>2. writer'.at # "idle" => writer'.cq \in Cqs /\ Referenced(writer'.cq)
  BY DEF Shape, CtxInv, Referenced
<1>3. cm' \subseteq Qps /\ \A q \in cm' : Referenced(q)
  BY DEF Shape, CtxInv, Referenced
<1> DEFINE S == {}
<1>4. \A o \in S : o # Ctx /\ Referenced(o)
  OBVIOUS
<1>5. \A o \in Objects : /\ obj'[o].uses = obj[o].uses
                          /\ obj'[o].user = obj[o].user /\ obj'[o].st = obj[o].st
  OBVIOUS
<1>6. obj'[Ctx].user = obj[Ctx].user
  OBVIOUS
<1> HIDE DEF S
<1> QED BY <1>1, <1>2, <1>3, <1>4, <1>5, <1>6, SettleStep

\* The module, the device and the closing of the context and of the file.
LEMMA DeviceSteps ==
    ASSUME Shape, InitModule \/ ExitModule \/ Device \/ Close \/ Release
                  \/ ReadEventFile \/ DetachFile \/ Deregister \/ Registered
                  \/ ReleaseClear
    PROVE  Shape'
<1> USE DEF objVars, netVars, fileVars, userVars
<1>1. core \in [at : {"idle", "closing", "detach", "free", "deregister"},
                then : {"none", "register", "unregister"}]
  BY DEF Shape, KType
<1>2. UNCHANGED <<obj, call, writer, cm>>
  BY Zenon DEF InitModule, ExitModule, Device, NetdevRegister, NetdevUp, RegisterFails,
         NetdevDown, NetdevChangeAddr, NetdevUnregister, Close, Release, ReadEventFile,
         DetachFile, Deregister, Registered, ReleaseClear, Happens
<1>3. CASE core' = core
  <2>1. Closing' => obj[Ctx].user
    BY <1>3 DEF Shape, CtxInv, Closing
  <2> QED BY <1>1, <1>2, <1>3, <2>1, StillStep
<1>4. CASE Close \/ RegisterFails \/ NetdevUnregister
  <2>1. /\ core' \in [at : {"idle", "closing", "detach", "free", "deregister"},
                     then : {"none", "register", "unregister"}]
        /\ Closing' => obj[Ctx].user
    <3>1. CASE Close
      BY <3>1 DEF Close, Closing
    <3>2. CASE RegisterFails
      BY <1>1, <3>2 DEF RegisterFails, Closing
    <3>3. CASE NetdevUnregister /\ core' # core
      BY <3>3 DEF NetdevUnregister, Closing
    <3>4. CASE core' = core
      BY <1>1, <3>4 DEF Closing, Shape, CtxInv
    <3> QED BY <1>4, <3>1, <3>2, <3>3, <3>4
  <2> QED BY <1>2, <2>1, StillStep
<1>5. CASE ReadEventFile \/ DetachFile \/ Deregister
  <2>1. /\ core' \in [at : {"idle", "closing", "detach", "free", "deregister"},
                     then : {"none", "register", "unregister"}]
        /\ Closing' => Closing
    <3>1. CASE ReadEventFile
      BY <1>1, <3>1 DEF ReadEventFile, Closing
    <3>2. CASE DetachFile
      BY <1>1, <3>2 DEF DetachFile, Closing
    <3>3. CASE Deregister
      BY <3>3 DEF Deregister, Closing
    <3> QED BY <1>5, <3>1, <3>2, <3>3
  <2>2. Closing' => obj[Ctx].user
    BY <2>1 DEF Shape, CtxInv
  <2> QED BY <1>2, <2>1, <2>2, StillStep
<1>6. CASE InitModule \/ ExitModule \/ NetdevRegister \/ NetdevUp \/ NetdevDown
           \/ NetdevChangeAddr \/ Release \/ Registered \/ ReleaseClear
  <2>1. core' = core
    BY Zenon, <1>6 DEF InitModule, ExitModule, NetdevRegister, NetdevUp, NetdevDown,
                NetdevChangeAddr, Release, Registered, ReleaseClear
  <2> QED BY <1>3, <2>1
<1> QED BY <1>4, <1>5, <1>6 DEF Device

\* The puts of a step: what is put is referred to and is not the context.
LEMMA PutStep ==
    ASSUME Shape, NEW objs \in [Objects -> Object], NEW seq \in Seq(Objects),
           \A o \in Objects : /\ objs[o].uses = obj[o].uses /\ objs[o].st = obj[o].st
                              /\ objs[o].user => obj[o].user,
           objs[Ctx].user = obj[Ctx].user,
           \A o : In(o, seq) => o # Ctx /\ Referenced(o),
           obj' = PutAll(objs, seq),
           call' = call \/ \E t \in Callers : call' = [call EXCEPT ![t] = NoCall],
           call' \in [Callers -> Call], core' = core,
           writer' = writer \/ writer' = [at |-> "idle", cq |-> Ctx],
           cm' \subseteq cm
    PROVE  Shape'
<1> DEFINE S == {o \in Objects : In(o, seq)}
<1>1. /\ obj' \in [Objects -> Object]
      /\ \A o \in Objects : /\ obj'[o].uses = obj[o].uses
                            /\ obj'[o].user = objs[o].user
                            /\ \/ obj'[o].st = obj[o].st
                               \/ o \in S /\ obj'[o].st = "freed"
  BY PutAllFrees
<1>2. Ctx \in Objects
  BY DEF Objects
<1>3. KType'
  BY <1>1, <1>2 DEF Shape, KType
<1>4. \A o \in S : o # Ctx /\ Referenced(o)
  OBVIOUS
<1>5. Closing' => obj[Ctx].user
  BY DEF Shape, CtxInv, Closing
<1>6. writer'.at # "idle" => writer'.cq \in Cqs /\ Referenced(writer'.cq)
  BY DEF Shape, CtxInv, Referenced
<1>7. cm' \subseteq Qps /\ \A q \in cm' : Referenced(q)
  BY DEF Shape, CtxInv, Referenced
<1> HIDE DEF S
<1> QED BY ZenonT(30), <1>1, <1>2, <1>3, <1>4, <1>5, <1>6, <1>7, SettleStep

\* A call returns.
LEMMA ReturnType ==
    ASSUME KType, NEW t \in Callers, Return(t)
    PROVE  /\ call' = [call EXCEPT ![t] = NoCall] /\ call' \in [Callers -> Call]
<1>1. NoCall \in Call
  BY DEF NoCall, Call, Objects
<1> QED BY <1>1 DEF KType, Return

\* The calls that destroy, and the puts of the event file and of the connection
\* manager.
LEMMA DestroySteps ==
    ASSUME Shape, NEW t \in Callers, NEW o \in Objects,
           \/ o \in Qps \cup Pds /\ Destroy(t, o)
           \/ PutCq(t) /\ o = call[t].obj
    PROVE  Shape'
<1> USE DEF netVars, fileVars, userVars
<1>1. KType /\ obj[o] \in Object
  BY DEF Shape, KType
<1>2. \A x \in Objects : In(x, obj[o].uses) => x # Ctx /\ Referenced(x)
  BY DEF Shape, CtxInv, Referenced
<1> DEFINE gone == [obj EXCEPT ![o].user = FALSE]
<1>3. /\ gone \in [Objects -> Object]
      /\ \A x \in Objects : /\ gone[x].uses = obj[x].uses /\ gone[x].st = obj[x].st
                            /\ gone[x].user => obj[x].user
      /\ \A x \in Objects : x # o => gone[x] = obj[x]
  BY ZenonT(30), <1>1, SetUser DEF KType
<1> HIDE DEF gone
<1>4. CASE o \in Qps /\ Destroy(t, o) /\ Puts(gone, Drops(o))
  <2>1. Drops(o) \in Seq(Objects) /\ \A x : In(x, Drops(o)) => x = o \/ In(x, obj[o].uses)
    BY <1>1, InDrops DEF Drops, Object
  <2>2. \A x : In(x, Drops(o)) => x \in Objects
    BY <2>1 DEF In
  <2>3. \A x : In(x, Drops(o)) => x # Ctx /\ Referenced(x)
    BY <1>2, <1>4, <2>1, <2>2, KernelAssumption DEF Destroy, Referenced
  <2>4. /\ obj' = PutAll(gone, Drops(o)) /\ call' = call /\ core' = core
        /\ writer' = writer /\ cm' = cm /\ gone[Ctx] = obj[Ctx]
    BY <1>3, <1>4, KernelAssumption DEF Destroy, Puts, Objects
  <2> QED BY <1>1, <1>3, <2>1, <2>3, <2>4, PutStep DEF KType
<1>5. CASE o \in Pds /\ Destroy(t, o) /\ Puts(Removed(gone, o), <<o>>)
  <2> DEFINE objs == Removed(gone, o)
  <2>1. /\ objs \in [Objects -> Object]
        /\ \A x \in Objects : /\ objs[x].uses = obj[x].uses /\ objs[x].st = obj[x].st
                              /\ objs[x].user => obj[x].user
        /\ \A x \in Objects : x # o => objs[x] = obj[x]
    <3> DEFINE r == [gone[o] EXCEPT !.idr = FALSE]
    <3>1. gone[o] \in Object
      BY <1>3
    <3>2. SameButSt(gone[o], r) /\ r.st = gone[o].st
      BY Zenon, <3>1, SetIdr
    <3>3. objs = [gone EXCEPT ![o] = r]
      BY DEF Removed
    <3> HIDE DEF r, objs
    <3> QED BY <1>3, <3>2, <3>3 DEF SameButSt
  <2>2. \A x : In(x, <<o>>) => x # Ctx /\ Referenced(x)
    BY <1>5, InOne, KernelAssumption DEF Destroy, Referenced
  <2>3. /\ obj' = PutAll(objs, <<o>>) /\ call' = call /\ core' = core
        /\ writer' = writer /\ cm' = cm /\ objs[Ctx] = obj[Ctx]
    BY <1>5, <2>1, KernelAssumption DEF Destroy, Puts, Objects
  <2> HIDE DEF objs
  <2> QED BY Zenon, <1>1, <2>1, <2>2, <2>3, InOne, PutStep DEF KType
<1>6. CASE PutCq(t) /\ o = call[t].obj
  <2>1. o \in Cqs /\ o # Ctx /\ Referenced(o)
    BY <1>6, KernelAssumption DEF PutCq, Shape, CallsMake, Referenced
  <2>2. \A x : In(x, <<o>>) => x # Ctx /\ Referenced(x)
    BY <2>1, InOne
  <2>3. /\ obj' = PutAll(gone, <<o>>) /\ core' = core /\ Return(t)
        /\ writer' = writer /\ cm' = cm
    BY <1>6 DEF PutCq, Puts, gone
  <2>4. gone[Ctx] = obj[Ctx]
    BY <1>3, <2>1 DEF Objects
  <2> QED BY Zenon, <1>1, <1>3, <2>2, <2>3, <2>4, InOne, ReturnType, PutStep DEF KType
<1> QED BY <1>4, <1>5, <1>6 DEF Destroy, gone

\* siw_cq_put of the event file and siw_qp_put of the connection manager.
LEMMA PutSteps ==
    ASSUME Shape, NEW o \in Objects,
           (o = writer.cq /\ WritePut) \/ (o \in Qps /\ CmPut(o))
    PROVE  Shape'
<1> USE DEF netVars, fileVars, userVars
<1>1. KType
  BY DEF Shape
<1>2. CASE o = writer.cq /\ WritePut
  <2>1. o # Ctx /\ Referenced(o)
    BY <1>2, KernelAssumption DEF WritePut, Shape, CtxInv, Referenced
  <2>2. \A x : In(x, <<o>>) => x # Ctx /\ Referenced(x)
    BY <2>1, InOne
  <2>3. /\ obj' = PutAll(obj, <<o>>) /\ core' = core /\ call' = call
        /\ writer' = [at |-> "idle", cq |-> Ctx] /\ cm' = cm
    BY <1>2 DEF WritePut, Puts
  <2> QED BY Zenon, <1>1, <2>2, <2>3, InOne, PutStep DEF KType
<1>3. CASE o \in Qps /\ CmPut(o)
  <2>1. o # Ctx /\ Referenced(o)
    BY <1>3, KernelAssumption DEF CmPut, Referenced
  <2>2. \A x : In(x, <<o>>) => x # Ctx /\ Referenced(x)
    BY <2>1, InOne
  <2>3. /\ obj' = PutAll(obj, <<o>>) /\ core' = core /\ call' = call
        /\ writer' = writer /\ cm' \subseteq cm
    BY <1>3 DEF CmPut, Puts
  <2> QED BY Zenon, <1>1, <2>2, <2>3, InOne, PutStep DEF KType
<1> QED BY <1>2, <1>3

\* References that are taken of what is referred to.
LEMMA GetStep ==
    ASSUME Shape, NEW seq \in Seq(Objects), obj' = GetAll(obj, seq),
           core' = core, call' = call,
           writer' \in [at : {"idle", "found", "handler", "put"}, cq : Objects],
           writer'.at # "idle" => writer'.cq \in Cqs /\ Referenced(writer'.cq),
           cm' \subseteq Qps, \A q \in cm' : Referenced(q)
    PROVE  Shape'
<1> DEFINE S == {}
<1>1. /\ obj' \in [Objects -> Object]
      /\ \A o \in Objects : /\ obj'[o].uses = obj[o].uses /\ obj'[o].st = obj[o].st
                            /\ obj'[o].user = obj[o].user
  BY GetAllKeeps DEF Shape, KType
<1>2. obj'[Ctx].user = obj[Ctx].user
  BY <1>1 DEF Objects
<1>3. KType'
  BY <1>1 DEF Shape, KType
<1>4. \A o \in S : o # Ctx /\ Referenced(o)
  OBVIOUS
<1>5. Closing' => obj[Ctx].user
  BY DEF Shape, CtxInv, Closing
<1> HIDE DEF S
<1> QED BY Zenon, <1>1, <1>2, <1>3, <1>4, <1>5, SettleStep

\* The event file and the connection manager take references.
LEMMA WriterAndCmSteps ==
    ASSUME Shape, \/ \E o \in Cqs : EventFileWrite(o)
                  \/ WriteGet \/ CompHandler
                  \/ \E q \in Qps : CmGet(q)
    PROVE  Shape'
<1> USE DEF netVars, fileVars, userVars
<1>1. /\ obj \in [Objects -> Object] /\ call \in [Callers -> Call]
      /\ writer \in [at : {"idle", "found", "handler", "put"}, cq : Objects]
      /\ KType
  BY DEF Shape, KType
<1>2. /\ writer.at # "idle" => writer.cq \in Cqs /\ Referenced(writer.cq)
      /\ cm \subseteq Qps /\ \A q \in cm : Referenced(q)
  BY DEF Shape, CtxInv, Referenced
<1>3. Closing => obj[Ctx].user
  BY DEF Shape, CtxInv
<1>4. CASE UNCHANGED <<obj, core, call, cm>>
           /\ writer' \in [at : {"idle", "found", "handler", "put"}, cq : Objects]
           /\ writer'.cq \in Cqs /\ Referenced(writer'.cq)
  <2> DEFINE S == {}
  <2>1. \A o \in S : o # Ctx /\ Referenced(o)
    OBVIOUS
  <2>2. KType' /\ (Closing' => obj[Ctx].user)
    BY <1>1, <1>3, <1>4 DEF KType, Closing
  <2>3. \A o \in Objects : /\ obj'[o].uses = obj[o].uses /\ obj'[o].st = obj[o].st
                           /\ obj'[o].user = obj[o].user
    BY <1>4
  <2>4. obj'[Ctx].user = obj[Ctx].user /\ call' = call
        /\ cm' \subseteq Qps /\ \A q \in cm' : Referenced(q)
    BY <1>2, <1>4
  <2> HIDE DEF S
  <2> QED BY <1>4, <2>1, <2>2, <2>3, <2>4, SettleStep
<1>5. ASSUME NEW o \in Cqs, EventFileWrite(o) PROVE Shape'
  <2>1. Referenced(o) /\ o \in Objects
    BY <1>5 DEF EventFileWrite, Referenced, Objects
  <2>2. writer' = [at |-> "found", cq |-> o] /\ UNCHANGED <<obj, core, call, cm>>
    BY <1>5 DEF EventFileWrite
  <2> QED BY <1>4, <2>1, <2>2
<1>6. CASE CompHandler
  <2>1. writer.at = "handler" /\ writer' = [writer EXCEPT !.at = "put"]
        /\ UNCHANGED <<obj, core, call, cm>>
    BY <1>6 DEF CompHandler
  <2>2. writer'.cq = writer.cq
    BY <1>1, <2>1
  <2> QED BY <1>1, <1>2, <1>4, <2>1, <2>2
<1>7. CASE WriteGet
  <2>1. /\ writer.at = "found" /\ writer' = [writer EXCEPT !.at = "handler"]
        /\ UNCHANGED <<core, call, cm>>
        /\ obj' = obj \/ obj' = GetAll(obj, <<writer.cq>>)
    BY <1>7 DEF WriteGet, Get
  <2>2. /\ writer'.cq = writer.cq
        /\ writer' \in [at : {"idle", "found", "handler", "put"}, cq : Objects]
    BY <1>1, <2>1
  <2>3. <<writer.cq>> \in Seq(Objects)
    BY <1>1
  <2>4. CASE obj' = obj
    BY <1>2, <1>4, <2>1, <2>2, <2>4
  <2>5. CASE obj' = GetAll(obj, <<writer.cq>>)
    BY Zenon, <1>2, <2>1, <2>2, <2>3, <2>5, GetStep
  <2> QED BY <2>1, <2>4, <2>5
<1>8. ASSUME NEW q \in Qps, CmGet(q) PROVE Shape'
  <2>1. Referenced(q) /\ <<q>> \in Seq(Objects)
    BY <1>8 DEF CmGet, Referenced, Objects
  <2>2. /\ obj' = GetAll(obj, <<q>>) /\ UNCHANGED <<core, call, writer>>
        /\ cm' = cm \cup {q}
    BY <1>8 DEF CmGet, Get
  <2>3. cm' \subseteq Qps /\ \A x \in cm' : Referenced(x)
    BY <1>2, <2>1, <2>2
  <2> QED BY Zenon, <1>1, <1>2, <2>1, <2>2, <2>3, GetStep
<1> QED BY <1>5, <1>6, <1>7, <1>8

\* A call begins with objects the program has.
LEMMA BeginStep ==
    ASSUME Shape, NEW t \in Callers, NEW o \in Objects, Begin(t, o)
    PROVE  Shape'
<1> USE DEF netVars, fileVars, userVars
<1>1. PICK uses \in Uses(o) :
        /\ \A k \in DOMAIN uses : Usable(uses[k])
        /\ call' = [call EXCEPT ![t] = [at |-> "check", obj |-> o,
                                       over |-> OverLimit(Kind(o)), uses |-> uses]]
  BY Zenon DEF Begin
<1>2. /\ UNCHANGED <<obj, core, writer, cm>> /\ call[t].at = "idle"
      /\ obj[o].st = "none" /\ Unused(o)
  BY DEF Begin
<1>3. uses \in Seq(Objects) /\ (o \in Qps => Len(uses) = 3 /\ ~In(Ctx, uses))
  BY UsesAreObjects
<1>4. OverLimit(Kind(o)) \in BOOLEAN
  BY DEF OverLimit
<1> DEFINE c == [at |-> "check", obj |-> o, over |-> OverLimit(Kind(o)), uses |-> uses]
<1>5. c \in Call /\ c.at = "check" /\ c.obj = o /\ c.uses = uses
  BY <1>3, <1>4 DEF Call
<1>6. call' = [call EXCEPT ![t] = c]
  BY <1>1
<1> HIDE DEF c
<1>7. call \in [Callers -> Call]
  BY DEF Shape, KType
<1>8. KType'
  BY <1>2, <1>5, <1>6, <1>7 DEF Shape, KType
<1>9. \A x \in Objects : Referenced(x)' => Referenced(x)
  <2>1. \A x : In(x, uses) => obj[x].user
    BY <1>1 DEF In, Usable
  <2> QED BY <1>2, <1>5, <1>6, <1>7, <2>1 DEF Referenced, Closing
<1>10. \A x \in Objects : Unmade(x)' => Unmade(x)
  BY <1>2, <1>5, <1>6, <1>7 DEF Unmade, Being
<1>11. Fresh'
  BY <1>9, <1>10 DEF Shape, Fresh
<1>12. \A u \in Callers : u # t => call'[u] = call[u]
                              /\ (call[u].at # "idle" => call[u].obj # o)
  BY <1>2, <1>6, <1>7 DEF Unused
<1>13. call'[t] = c
  BY <1>6, <1>7
<1>14. CallsMake'
  BY SMTT(30), <1>2, <1>3, <1>5, <1>12, <1>13 DEF Shape, CallsMake, Being
<1>15. CtxInv'
  BY <1>2 DEF Shape, CtxInv, Closing, Alive
<1> QED BY <1>8, <1>11, <1>14, <1>15 DEF Shape

\* A call makes its object.
LEMMA MakeStep ==
    ASSUME Shape, NEW t \in Callers, call[t].at \in {"check", "cqs"}, NEW r \in Object,
           r.st = "live", ~r.user,
           \A x : In(x, r.uses) => In(x, call[t].uses) /\ x # Ctx,
           obj' = [obj EXCEPT ![call[t].obj] = r],
           call' = [call EXCEPT ![t].at = "copy"], UNCHANGED <<core, writer, cm>>
    PROVE  Shape'
<1> DEFINE o == call[t].obj
<1>1. /\ obj \in [Objects -> Object] /\ call \in [Callers -> Call] /\ o \in Objects
      /\ call[t] \in Call
  BY DEF Shape, KType, Call
<1>2. /\ call'[t].at = "copy" /\ call'[t].obj = o /\ call'[t].uses = call[t].uses
      /\ call'[t] \in Call
  BY Zenon, <1>1 DEF Call
<1>3. \A u \in Callers : u # t => call'[u] = call[u]
  BY <1>1
<1>4. obj'[o] = r /\ \A x \in Objects : x # o => obj'[x] = obj[x]
  BY <1>1
<1>5. KType'
  BY <1>1, <1>2 DEF Shape, KType
<1>6. Being(t) /\ Unmade(o) /\ ~Referenced(o)
  BY <1>1 DEF Being, Unmade, Shape, Fresh
<1>7. \A x \in Objects : Referenced(x)' => Referenced(x)
  BY <1>1, <1>2, <1>3, <1>4 DEF Referenced, Closing
<1>8. \A x \in Objects : Unmade(x)' => Unmade(x)
  BY <1>1, <1>2, <1>3, <1>4, <1>6 DEF Unmade, Being
<1>9. Fresh'
  BY <1>7, <1>8 DEF Shape, Fresh
<1>10. \A u \in Callers : Being(u) /\ u # t => call[u].obj # o
  BY <1>6 DEF Shape, CallsMake
<1>11. CallsMake'
  <2> SUFFICES ASSUME NEW u \in Callers
               PROVE  /\ call'[u].at \in {"check", "cqs"} => obj'[call'[u].obj].st = "none"
                      /\ call'[u].at = "copy" => obj'[call'[u].obj].st = "live"
                      /\ call'[u].at = "cqs" => ~call'[u].over /\ call'[u].obj \in Qps
                      /\ call'[u].at = "put" => call'[u].obj \in Cqs
                      /\ Being(u)' /\ call'[u].obj \in Qps =>
                            Len(call'[u].uses) = 3 /\ ~In(Ctx, call'[u].uses)
                      /\ \A w \in Callers :
                            Being(u)' /\ Being(w)' /\ call'[u].obj = call'[w].obj => u = w
    BY DEF CallsMake
  <2>1. CASE u = t
    BY <1>2, <1>3, <1>4, <1>6, <1>10, <2>1 DEF Shape, CallsMake, Being
  <2>2. CASE u # t
    <3>1. call'[u] = call[u] /\ call[u] \in Call /\ call[u].obj \in Objects
      BY <1>1, <1>3, <2>2 DEF Call
    <3>2. Being(u) => obj'[call[u].obj] = obj[call[u].obj]
      BY <1>4, <1>10, <2>2, <3>1
    <3> QED BY <1>2, <1>3, <1>6, <2>2, <3>1, <3>2 DEF Shape, CallsMake, Being
  <2> QED BY <2>1, <2>2
<1>12. CtxInv'
  <2>1. Closing => o # Ctx
    BY <1>6 DEF Referenced
  <2> QED BY <1>4, <2>1 DEF Shape, CtxInv, Closing, Alive, Objects
<1> QED BY <1>5, <1>9, <1>11, <1>12 DEF Shape

\* A new object is live and not yet the program's.
LEMMA NewObjectIs ==
    ASSUME NEW uses \in Seq(Objects)
    PROVE  /\ NewObject(uses) \in Object /\ NewObject(uses).st = "live"
           /\ ~NewObject(uses).user /\ NewObject(uses).uses = uses
           /\ [NewObject(uses) EXCEPT !.idr = FALSE] \in Object
           /\ [NewObject(uses) EXCEPT !.idr = FALSE].st = "live"
           /\ ~[NewObject(uses) EXCEPT !.idr = FALSE].user
           /\ [NewObject(uses) EXCEPT !.idr = FALSE].uses = uses
<1>1. /\ NewObject(uses) \in Object /\ NewObject(uses).st = "live"
      /\ ~NewObject(uses).user /\ NewObject(uses).uses = uses
  BY DEF NewObject, Object
<1> QED BY Zenon, <1>1, SetIdr DEF SameButSt

\* siw_alloc_ucontext, siw_alloc_pd, do_siw_create_cq, and siw_create_qp, which
\* gets its completion queues first.
LEMMA CreateStep ==
    ASSUME Shape, NEW t \in Callers, Create(t)
    PROVE  Shape'
<1> USE DEF netVars, fileVars, userVars
<1>1. /\ call[t].at = "check" /\ UNCHANGED <<core, writer, cm>> /\ ~call[t].over
  BY DEF Create
<1>2. /\ <<>> \in Seq(Objects) /\ \A x : ~In(x, <<>>)
  BY DEF In
<1>3. CASE AllocUcontext(t)
  <2> DEFINE r == [NewObject(<<>>) EXCEPT !.idr = FALSE]
  <2>1. r \in Object /\ r.st = "live" /\ ~r.user /\ r.uses = <<>>
    BY Zenon, <1>2, NewObjectIs
  <2>2. obj' = [obj EXCEPT ![call[t].obj] = r] /\ call' = [call EXCEPT ![t].at = "copy"]
    BY <1>3 DEF AllocUcontext, Goto
  <2> HIDE DEF r
  <2> QED BY Zenon, <1>1, <1>2, <2>1, <2>2, MakeStep
<1>4. CASE AllocPd(t) \/ CreateCq(t)
  <2> DEFINE r == NewObject(<<>>)
  <2>1. r \in Object /\ r.st = "live" /\ ~r.user /\ r.uses = <<>>
    BY Zenon, <1>2, NewObjectIs
  <2>2. obj' = [obj EXCEPT ![call[t].obj] = r] /\ call' = [call EXCEPT ![t].at = "copy"]
    BY <1>4 DEF AllocPd, CreateCq, Added, Goto
  <2> HIDE DEF r
  <2> QED BY Zenon, <1>1, <1>2, <2>1, <2>2, MakeStep
<1>5. CASE CreateQp(t)
  <2>1. call \in [Callers -> Call] /\ call[t] \in Call
    BY DEF Shape, KType
  <2>2. /\ call[t].obj \in Qps /\ call' = [call EXCEPT ![t].at = "cqs"]
        /\ obj' = GetAll(obj, CqRefs(call[t].uses))
    BY <1>5 DEF CreateQp, Goto, Get
  <2>3. Len(call[t].uses) = 3 /\ call[t].uses \in Seq(Objects)
    BY <1>1, <2>1, <2>2 DEF Shape, CallsMake, Being, Call
  <2>4. /\ obj' \in [Objects -> Object]
        /\ \A o \in Objects : /\ obj'[o].uses = obj[o].uses /\ obj'[o].st = obj[o].st
                              /\ obj'[o].user = obj[o].user
    <3>1. obj \in [Objects -> Object]
      BY DEF Shape, KType
    <3>2. CqRefs(call[t].uses) \in Seq(Objects)
      BY <2>3, InCqRefs
    <3> QED BY <2>2, <3>1, <3>2, GetAllKeeps
  <2>5. /\ call'[t].at = "cqs" /\ call'[t].obj = call[t].obj
        /\ call'[t].uses = call[t].uses /\ call'[t].over = call[t].over
        /\ call'[t] \in Call
    BY <2>1, <2>2 DEF Call
  <2>6. \A u \in Callers : u # t => call'[u] = call[u]
    BY <2>1, <2>2
  <2>7. KType'
    BY <1>1, <2>1, <2>2, <2>4, <2>5 DEF Shape, KType
  <2>8. \A u \in Callers : /\ call'[u].obj = call[u].obj /\ call'[u].uses = call[u].uses
                           /\ call'[u].over = call[u].over /\ (Being(u)' <=> Being(u))
                           /\ call[u].obj \in Objects
    BY <1>1, <2>1, <2>5, <2>6 DEF Being, Call
  <2>9. \A x \in Objects : Referenced(x)' => Referenced(x)
    BY <1>1, <2>4, <2>5, <2>6 DEF Referenced, Closing
  <2>10. \A x \in Objects : Unmade(x)' => Unmade(x)
    BY <2>4, <2>8 DEF Unmade
  <2>11. Fresh'
    BY <2>9, <2>10 DEF Shape, Fresh
  <2>12. CallsMake'
    <3>1. \A u \in Callers : obj'[call'[u].obj].st = obj[call[u].obj].st
      BY <2>4, <2>8
    <3>2. \A u \in Callers : call'[u].at = call[u].at \/ u = t
      BY <2>6
    <3> QED BY SMTT(30), <1>1, <2>2, <2>5, <2>8, <3>1, <3>2 DEF Shape, CallsMake
  <2>13. CtxInv'
    BY <1>1, <2>4 DEF Shape, CtxInv, Closing, Alive, Objects
  <2> QED BY <2>7, <2>11, <2>12, <2>13 DEF Shape
<1> QED BY <1>3, <1>4, <1>5 DEF Create

\* A call gives up before it has made anything.
LEMMA CreateFailsStep ==
    ASSUME Shape, NEW t \in Callers, CreateFails(t)
    PROVE  Shape'
<1> USE DEF netVars, fileVars, userVars
<1> DEFINE S == {}
<1>1. UNCHANGED <<obj, core, writer, cm>> /\ Return(t)
  BY DEF CreateFails
<1>2. call' = [call EXCEPT ![t] = NoCall] /\ call' \in [Callers -> Call]
  BY <1>1, ReturnType DEF Shape
<1>3. KType'
  BY <1>1, <1>2 DEF Shape, KType
<1>4. \A o \in S : o # Ctx /\ Referenced(o)
  OBVIOUS
<1>5. \A o \in Objects : /\ obj'[o].uses = obj[o].uses /\ obj'[o].st = obj[o].st
                         /\ obj'[o].user = obj[o].user
  BY <1>1
<1>6. /\ Closing' => obj[Ctx].user
      /\ writer'.at # "idle" => writer'.cq \in Cqs /\ Referenced(writer'.cq)
      /\ cm' \subseteq Qps /\ \A q \in cm' : Referenced(q)
      /\ obj'[Ctx].user = obj[Ctx].user
  BY <1>1 DEF Shape, CtxInv, Closing, Referenced
<1> HIDE DEF S
<1> QED BY Zenon, <1>2, <1>3, <1>4, <1>5, <1>6, SettleStep

\* siw_create_qp adds its queue pair, or puts the completion queues.
LEMMA AddQpStep ==
    ASSUME Shape, NEW t \in Callers, AddQp(t)
    PROVE  Shape'
<1> USE DEF netVars, fileVars, userVars
<1>1. call[t].at = "cqs" /\ UNCHANGED <<core, writer, cm>>
  BY Zenon DEF AddQp
<1>2. /\ call[t].uses \in Seq(Objects) /\ Len(call[t].uses) = 3
      /\ ~In(Ctx, call[t].uses)
  BY <1>1 DEF Shape, CallsMake, Being, KType, Call
<1>3. CASE obj' = Added(call[t].obj, call[t].uses) /\ Goto(t, "copy")
  <2> DEFINE r == NewObject(call[t].uses)
  <2>1. r \in Object /\ r.st = "live" /\ ~r.user /\ r.uses = call[t].uses
    BY Zenon, <1>2, NewObjectIs
  <2>2. obj' = [obj EXCEPT ![call[t].obj] = r] /\ call' = [call EXCEPT ![t].at = "copy"]
    BY <1>3 DEF Added, Goto
  <2> HIDE DEF r
  <2>3. \A x : In(x, r.uses) => In(x, call[t].uses) /\ x # Ctx
    BY <1>2, <2>1
  <2> QED BY Zenon, <1>1, <2>1, <2>2, <2>3, MakeStep
<1>4. CASE Return(t) /\ obj' = PutAll(obj, CqRefs(call[t].uses))
  <2>1. call' = [call EXCEPT ![t] = NoCall] /\ call' \in [Callers -> Call]
    BY <1>4, ReturnType DEF Shape
  <2>2. /\ CqRefs(call[t].uses) \in Seq(Objects)
        /\ \A x : In(x, CqRefs(call[t].uses)) => x # Ctx /\ Referenced(x)
    BY <1>1, <1>2, InCqRefs DEF Referenced
  <2>3. obj \in [Objects -> Object]
    BY DEF Shape, KType
  <2> QED BY Zenon, <1>1, <1>4, <2>1, <2>2, <2>3, PutStep
<1> QED BY ZenonT(30), <1>3, <1>4 DEF AddQp

\* A call ends: what it made is the program's, or is freed.
LEMMA CreatedStep ==
    ASSUME Shape, NEW t \in Callers, Created(t)
    PROVE  Shape'
<1> USE DEF netVars, fileVars, userVars
<1> DEFINE o == call[t].obj
           known == [obj EXCEPT ![o].user = TRUE]
<1>1. call[t].at = "copy" /\ UNCHANGED <<core, writer, cm>> /\ Return(t)
  BY DEF Created
<1>2. /\ obj \in [Objects -> Object] /\ call \in [Callers -> Call] /\ o \in Objects
      /\ call[t].uses \in Seq(Objects) /\ call[t] \in Call /\ KType
  BY DEF Shape, KType, Call
<1>3. call' = [call EXCEPT ![t] = NoCall] /\ call' \in [Callers -> Call]
  BY <1>1, <1>2, ReturnType
<1>4. call'[t].at = "idle" /\ \A u \in Callers : u # t => call'[u] = call[u]
  BY <1>2, <1>3 DEF NoCall
<1>5. /\ known \in [Objects -> Object]
      /\ known[o].user /\ known[o].st = obj[o].st /\ known[o].uses = obj[o].uses
      /\ \A x \in Objects : x # o => known[x] = obj[x]
  <2>1. obj[o] \in Object
    BY <1>2
  <2> QED BY ZenonT(30), <1>2, <2>1, SetUser
<1> HIDE DEF known
<1>6. /\ obj' \in [Objects -> Object]
      /\ \A x \in Objects : /\ obj'[x].user = known[x].user
                            /\ obj'[x].st = known[x].st /\ obj'[x].uses = known[x].uses
  <2>1. CASE o \in Qps
    <3>1. call[t].uses[3] \in Objects
      BY SMTT(30), <1>1, <1>2, <2>1 DEF Shape, CallsMake, Being
    <3>2. PdRef(call[t].uses) \in Seq(Objects)
      BY <3>1 DEF PdRef
    <3>3. obj' = GetAll(known, PdRef(call[t].uses))
      BY <2>1 DEF Created, known
    <3> QED BY ZenonT(30), <1>5, <3>2, <3>3, GetAllKeeps
  <2>2. CASE o \notin Qps
    <3>1. obj' = known
      BY <2>2 DEF Created, known
    <3> QED BY <1>5, <3>1
  <2> QED BY <2>1, <2>2
<1>7. /\ \A x \in Objects : obj'[x].st = obj[x].st /\ obj'[x].uses = obj[x].uses
      /\ \A x \in Objects : x # o => obj'[x].user = obj[x].user
  BY <1>5, <1>6
<1>8. KType'
  BY <1>1, <1>2, <1>3, <1>6 DEF KType
<1>9. Being(t) /\ obj[o].st = "live" /\ \A u \in Callers : Being(u) /\ u # t => call[u].obj # o
  BY <1>1 DEF Shape, CallsMake, Being
<1>10. \A x \in Objects : Unmade(x)' => Unmade(x) /\ x # o
  BY <1>4, <1>7, <1>9 DEF Unmade, Being
<1>11. \A x \in Objects : x # o /\ Referenced(x)' => Referenced(x)
  BY ZenonT(30), <1>1, <1>4, <1>7 DEF Referenced, Closing
<1>12. Fresh'
  BY <1>10, <1>11 DEF Shape, Fresh
<1>13. CallsMake'
  <2>1. \A u \in Callers : call'[u].at # "idle" =>
            call'[u] = call[u] /\ obj'[call[u].obj].st = obj[call[u].obj].st
    BY Zenon, <1>2, <1>4, <1>7 DEF Call
  <2> QED BY SMTT(30), <2>1 DEF Shape, CallsMake, Being
<1>14. CtxInv'
  <2>1. Closing => obj[Ctx].user
    BY DEF Shape, CtxInv
  <2>2. obj[Ctx].user => obj'[Ctx].user
    BY Zenon, <1>5, <1>6 DEF Objects
  <2> QED BY <1>1, <1>7, <1>9, <2>1, <2>2 DEF Shape, CtxInv, Closing, Alive, Objects
<1> QED BY <1>8, <1>12, <1>13, <1>14 DEF Shape

\* ib_copy_to_udata fails: the object is freed, and nobody else has it.
LEMMA CopyFailsStep ==
    ASSUME Shape, NEW t \in Callers, CopyFails(t)
    PROVE  Shape'
<1> USE DEF netVars, fileVars, userVars
<1> DEFINE o == call[t].obj
           S == {x \in Objects : o \in Qps /\ In(x, CqRefs(call[t].uses))}
<1>1. call[t].at = "copy" /\ UNCHANGED <<core, writer, cm>> /\ Return(t)
  BY ZenonT(30) DEF CopyFails
<1>2. /\ obj \in [Objects -> Object] /\ call \in [Callers -> Call] /\ o \in Objects
      /\ call[t].uses \in Seq(Objects) /\ call[t] \in Call /\ KType
  BY DEF Shape, KType, Call
<1>3. call' = [call EXCEPT ![t] = NoCall] /\ call' \in [Callers -> Call]
  BY <1>1, <1>2, ReturnType
<1>4. call'[t].at = "idle" /\ \A u \in Callers : u # t => call'[u] = call[u]
  BY <1>2, <1>3 DEF NoCall
<1>5. /\ Kfree(o) \in [Objects -> Object]
      /\ Kfree(o)[o].st = "freed"
      /\ \A x \in Objects : /\ Kfree(o)[x].user = obj[x].user
                            /\ Kfree(o)[x].uses = obj[x].uses
                            /\ x # o => Kfree(o)[x] = obj[x]
  <2> DEFINE r == [obj[o] EXCEPT !.st = "freed", !.ref = 0, !.idr = FALSE]
  <2>1. obj[o] \in Object
    BY <1>2
  <2>2. SameButSt(obj[o], r) /\ r.st = "freed"
    BY ZenonT(30), <2>1, FreedRecord
  <2>3. Kfree(o) = [obj EXCEPT ![o] = r]
    BY Zenon DEF Kfree
  <2> HIDE DEF r
  <2> QED BY <1>2, <2>2, <2>3 DEF SameButSt
<1>6. o \in Qps => /\ CqRefs(call[t].uses) \in Seq(Objects)
                   /\ \A x : In(x, CqRefs(call[t].uses)) => x # Ctx /\ Referenced(x)
  BY ZenonT(30), <1>1, <1>2, InCqRefs DEF Shape, CallsMake, Being, Referenced
<1>7. /\ obj' \in [Objects -> Object]
      /\ \A x \in Objects : /\ obj'[x].user = obj[x].user /\ obj'[x].uses = obj[x].uses
                            /\ \/ obj'[x].st = Kfree(o)[x].st
                               \/ obj'[x].st = "freed" /\ x \in S
  <2>1. CASE o \in Qps
    <3>1. obj' = PutAll(Kfree(o), CqRefs(call[t].uses))
      BY ZenonT(30), <2>1 DEF CopyFails
    <3> QED BY ZenonT(30), <1>5, <1>6, <2>1, <3>1, PutAllFrees
  <2>2. CASE o \notin Qps
    BY <1>5, <2>2 DEF CopyFails
  <2> QED BY Zenon, <2>1, <2>2
<1>8. \A x \in S : x # Ctx /\ Referenced(x)
  BY <1>6
<1> HIDE DEF S
<1>9. KType'
  BY ZenonT(30), <1>1, <1>2, <1>3, <1>7 DEF KType
<1>10. /\ Being(t) /\ Unmade(o) /\ ~Referenced(o)
       /\ \A u \in Callers : Being(u) /\ u # t => call[u].obj # o
  BY <1>1, <1>2 DEF Shape, CallsMake, Being, Unmade, Fresh
<1>11. \A x \in Objects : Unmade(x)' => Unmade(x)
  BY ZenonT(30), <1>4, <1>5, <1>7, <1>10 DEF Unmade, Being
<1>12. \A x \in Objects : Referenced(x)' => Referenced(x)
  BY ZenonT(30), <1>1, <1>4, <1>7 DEF Referenced, Closing
<1>13. Fresh'
  BY <1>11, <1>12 DEF Shape, Fresh
<1>14. \A u \in Callers : Being(u) /\ u # t => obj'[call[u].obj].st = obj[call[u].obj].st
  <2> SUFFICES ASSUME NEW u \in Callers, Being(u), u # t
               PROVE  obj'[call[u].obj].st = obj[call[u].obj].st
    OBVIOUS
  <2>1. call[u].obj \in Objects /\ call[u].obj # o
    BY <1>2, <1>10 DEF Call
  <2>2. ~Referenced(call[u].obj)
    BY <2>1 DEF Shape, Fresh, Unmade
  <2> QED BY ZenonT(30), <1>5, <1>7, <1>8, <2>1, <2>2
<1>15. CallsMake'
  BY SMTT(30), <1>4, <1>14 DEF Shape, CallsMake, Being
<1>16. CtxInv'
  <2>1. obj[Ctx].user => o # Ctx
    BY <1>10 DEF Referenced
  <2>2. Ctx \notin S /\ Ctx \in Objects
    BY <1>8 DEF Objects
  <2> QED BY ZenonT(30), <1>1, <1>5, <1>7, <2>1, <2>2 DEF Shape, CtxInv, Closing, Alive
<1> QED BY <1>9, <1>13, <1>15, <1>16 DEF Shape

\* siw_destroy_cq takes the queue out of the idr.
LEMMA DestroyCqStep ==
    ASSUME Shape, NEW t \in Callers, NEW o \in Cqs, DestroyCq(t, o)
    PROVE  Shape'
<1> USE DEF netVars, fileVars, userVars
<1> DEFINE r == [obj[o] EXCEPT !.idr = FALSE]
           c == [at |-> "put", obj |-> o, over |-> FALSE, uses |-> <<>>]
<1>1. /\ call[t].at = "idle" /\ obj[o].user /\ UNCHANGED <<core, writer, cm>>
      /\ obj' = [obj EXCEPT ![o] = r] /\ call' = [call EXCEPT ![t] = c]
  BY DEF DestroyCq, Removed
<1>2. /\ obj \in [Objects -> Object] /\ call \in [Callers -> Call] /\ o \in Objects
      /\ obj[o] \in Object
  BY DEF Shape, KType, Objects
<1>3. SameButSt(obj[o], r) /\ r.st = obj[o].st
  BY Zenon, <1>2, SetIdr
<1>5. /\ c \in Call /\ c.at = "put" /\ c.obj = o /\ \A x : ~In(x, c.uses)
  BY <1>2 DEF Call, In
<1> HIDE DEF r, c
<1>6. /\ obj' \in [Objects -> Object] /\ call' \in [Callers -> Call]
      /\ \A x \in Objects : /\ obj'[x].user = obj[x].user /\ obj'[x].uses = obj[x].uses
                            /\ obj'[x].st = obj[x].st
  BY ZenonT(30), <1>1, <1>2, <1>3, <1>5 DEF SameButSt
<1>7. call'[t] = c /\ \A u \in Callers : u # t => call'[u] = call[u]
  BY <1>1, <1>2
<1>8. KType'
  BY <1>1, <1>6 DEF Shape, KType
<1>9. \A x \in Objects : Referenced(x)' => Referenced(x)
  BY SMTT(30), <1>1, <1>5, <1>6, <1>7 DEF Referenced, Closing
<1>10. \A x \in Objects : Unmade(x)' => Unmade(x)
  BY Zenon, <1>5, <1>6, <1>7 DEF Unmade, Being
<1>11. Fresh'
  BY <1>9, <1>10 DEF Shape, Fresh
<1>12. CallsMake'
  <2>1. \A u \in Callers : u # t => call'[u] = call[u] /\ obj'[call[u].obj].st = obj[call[u].obj].st
    BY Zenon, <1>2, <1>6, <1>7 DEF Call
  <2> QED BY SMTT(30), <1>5, <1>7, <2>1 DEF Shape, CallsMake, Being
<1>13. CtxInv'
  BY <1>1, <1>6 DEF Shape, CtxInv, Closing, Alive, Objects
<1> QED BY <1>8, <1>11, <1>12, <1>13 DEF Shape

\* siw_dealloc_ucontext frees the context.
LEMMA FreeContextStep ==
    ASSUME Shape, FreeContext
    PROVE  Shape'
<1> USE DEF netVars, fileVars, userVars
<1> DEFINE r == [obj[Ctx] EXCEPT !.st = "freed", !.user = FALSE]
<1>1. /\ core.at = "free" /\ UNCHANGED <<call, writer, cm>>
      /\ obj' = [obj EXCEPT ![Ctx] = r]
  BY Zenon DEF FreeContext
<1>2. /\ obj \in [Objects -> Object] /\ Ctx \in Objects /\ obj[Ctx] \in Object
      /\ call \in [Callers -> Call]
  BY DEF Shape, KType, Objects
<1>3. r \in Object /\ r.st = "freed" /\ r.uses = obj[Ctx].uses /\ ~r.user
  <2> DEFINE a == [obj[Ctx] EXCEPT !.st = "freed"]
  <2>1. SameButSt(obj[Ctx], a) /\ a.st = "freed"
    BY Zenon, <1>2, SetSt
  <2> HIDE DEF a
  <2>2. LET s == [a EXCEPT !.user = FALSE]
        IN  s \in Object /\ s.user = FALSE /\ s.st = a.st /\ s.uses = a.uses
    BY Zenon, <2>1, SetUser DEF SameButSt
  <2>3. r = [a EXCEPT !.user = FALSE]
    BY DEF a
  <2> QED BY <2>1, <2>2, <2>3 DEF SameButSt
<1> HIDE DEF r
<1>4. /\ obj' \in [Objects -> Object] /\ obj'[Ctx] = r
      /\ \A x \in Objects : x # Ctx => obj'[x] = obj[x]
  BY <1>1, <1>2, <1>3
<1>5. /\ core' \in [at : {"idle", "closing", "detach", "free", "deregister"},
                   then : {"none", "register", "unregister"}]
      /\ ~Closing'
  <2>1. core \in [at : {"idle", "closing", "detach", "free", "deregister"},
                  then : {"none", "register", "unregister"}]
    BY DEF Shape, KType
  <2> QED BY <2>1 DEF FreeContext, Closing
<1>6. KType'
  BY <1>1, <1>4, <1>5 DEF Shape, KType
<1>7. Referenced(Ctx)
  BY <1>1 DEF Referenced, Closing
<1>8. \A x \in Objects : Referenced(x)' => Referenced(x)
  BY ZenonT(30), <1>1, <1>3, <1>4, <1>5, <1>7 DEF Referenced
<1>9. \A x \in Objects : Unmade(x)' => Unmade(x)
  BY <1>1, <1>3, <1>4 DEF Unmade, Being
<1>10. Fresh'
  BY <1>8, <1>9 DEF Shape, Fresh
<1>11. \A u \in Callers : Being(u) => call[u].obj # Ctx /\ call[u].obj \in Objects
  BY <1>2, <1>7 DEF Shape, Fresh, Unmade, Call
<1>12. CallsMake'
  BY ZenonT(30), <1>1, <1>4, <1>11 DEF Shape, CallsMake, Being
<1>13. CtxInv'
  BY <1>1, <1>3, <1>4, <1>5 DEF Shape, CtxInv
<1> QED BY <1>6, <1>10, <1>12, <1>13 DEF Shape

\* Shape is inductive.
LEMMA ShapeInit == Init => Shape
<1> SUFFICES ASSUME Init PROVE Shape
  OBVIOUS
<1> USE DEF Init
<1>1. NoObject \in Object /\ NoObject.st = "none" /\ ~NoObject.user
      /\ \A x : ~In(x, NoObject.uses)
  BY SMTT(30) DEF NoObject, Object, In
<1>2. NoCall \in Call /\ NoCall.at = "idle"
  BY SMTT(30) DEF NoCall, Call, Objects
<1>3. KType
  BY ZenonT(30), <1>1, <1>2 DEF KType, Objects
<1>4. (\A t \in Callers : call[t].at = "idle") /\ \A o \in Objects : obj[o] = NoObject
  BY ZenonT(30), <1>2
<1>5. CallsMake
  BY ZenonT(30), <1>4 DEF CallsMake, Being
<1>6. ~Closing /\ writer.at = "idle" /\ cm = {}
  BY DEF Closing
<1>7. Fresh
  BY ZenonT(30), <1>1, <1>4, <1>6 DEF Fresh, Referenced
<1>8. CtxInv
  BY ZenonT(30), <1>1, <1>4, <1>6 DEF CtxInv, Objects
<1> QED BY <1>3, <1>5, <1>7, <1>8 DEF Shape

\* One case for each action.
LEMMA ShapeNext == Shape /\ [Next]_vars => Shape'
<1> SUFFICES ASSUME Shape, [Next]_vars PROVE Shape'
  OBVIOUS
<1>1. CASE InitModule \/ ExitModule \/ Device \/ Close \/ Release
  BY <1>1, DeviceSteps
<1>2. CASE CoreStep
  BY <1>2, DeviceSteps, FreeContextStep DEF CoreStep
<1>3. CASE FileStep
  <2>1. CASE WritePut
    <3>1. writer.cq \in Objects
      BY DEF Shape, KType
    <3> QED BY <2>1, <3>1, PutSteps
  <2> QED BY <1>3, <2>1, DeviceSteps, WriterAndCmSteps DEF FileStep
<1>4. ASSUME NEW t \in Callers, Finish(t) PROVE Shape'
  <2>1. CASE PutCq(t)
    <3>1. call[t].obj \in Objects
      BY DEF Shape, KType, Call
    <3> QED BY <2>1, <3>1, DestroySteps
  <2> QED BY <1>4, <2>1, CreateFailsStep, CreateStep, AddQpStep, CreatedStep,
             CopyFailsStep DEF Finish
<1>5. ASSUME NEW t \in Callers, NEW o \in Objects, Begin(t, o) PROVE Shape'
  BY <1>5, BeginStep
<1>6. ASSUME NEW t \in Callers, NEW o \in Qps \cup Pds, Destroy(t, o) PROVE Shape'
  <2>1. o \in Objects
    BY DEF Objects
  <2> QED BY <1>6, <2>1, DestroySteps
<1>7. ASSUME NEW t \in Callers, NEW o \in Cqs, DestroyCq(t, o) PROVE Shape'
  BY <1>7, DestroyCqStep
<1>8. ASSUME NEW o \in Cqs, EventFileWrite(o) PROVE Shape'
  BY <1>8, WriterAndCmSteps
<1>9. ASSUME NEW q \in Qps, CmGet(q) PROVE Shape'
  BY <1>9, WriterAndCmSteps
<1>10. ASSUME NEW q \in Qps, CmPut(q) PROVE Shape'
  <2>1. q \in Objects
    BY DEF Objects
  <2> QED BY <1>10, <2>1, PutSteps
<1>11. CASE UNCHANGED vars
  BY Zenon, <1>11, StillStep DEF vars, fileVars, userVars, Shape, KType, CtxInv, Closing
<1> QED BY <1>1, <1>2, <1>3, <1>4, <1>5, <1>6, <1>7, <1>8, <1>9, <1>10, <1>11 DEF Next
=============================================================================
