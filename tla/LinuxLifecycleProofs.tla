------------------------- MODULE LinuxLifecycleProofs -------------------------
(***************************************************************************)
(* Theorems about LinuxLifecycle, for any numbers of objects, threads,     *)
(* names, descriptors and files:                                           *)
(*   - types are kept;                                                     *)
(*   - no error path of open() leaks a descriptor, whatever clients do;    *)
(*   - when open() and close() of an object do not overlap, no descriptor  *)
(*     of an interface is ever lost;                                       *)
(*   - when, besides, only what was opened is closed, every descriptor the *)
(*     library stores, uses for a quiet client or closes is one that its   *)
(*     own open() made, and open() and close() implement DeviceContract.   *)
(***************************************************************************)
EXTENDS LinuxLifecycle, DescriptorTableProofs

(* A thread in a call executes a method of an object; in open() it has a   *)
(* descriptor number.                                                      *)
FramesSound ==
  \A t \in Threads :
    /\ pc[t] = "idle" => obj[t] = NoObject
    /\ pc[t] # "idle" => obj[t] \in Objects
    /\ pc[t] \in {"setiff", "undo", "assign"} => fd[t] \in Fds

OneLifecycleCall ==
  \A t, u \in Threads :
    /\ pc[t] \in LifecyclePcs
    /\ pc[u] \in LifecyclePcs
    /\ obj[t] = obj[u]
    => t = u

(* The descriptor of an interface is known to an open() about to store it, *)
(* or to an object in which no open() is about to overwrite it.            *)
Tracked(n, name) ==
  \/ \E t \in Threads : pc[t] = "assign" /\ fd[t] = n /\ NameOf[obj[t]] = name
  \/ \E o \in Objects :
       /\ handle[o] = n
       /\ NameOf[o] = name
       /\ \A t \in Threads : ~(pc[t] = "assign" /\ obj[t] = o)

AttachedTracked ==
  \A n \in Fds :
    IsTun(n) /\ file[fdTable[n]].iface # NoName =>
      Tracked(n, file[fdTable[n]].iface)

IInv == TableSound /\ FramesSound /\ OneLifecycleCall /\ AttachedTracked
-----------------------------------------------------------------------------
(* Types                                                                   *)

USE KernelAssumption, LifecycleAssumption

LEMMA InitTyped == Init => TypeOK
BY DEF Init, KernelInit, TypeOK, KernelTypeOK, FileState, Unused

LEMMA NextIsKernelStep ==
  ASSUME TypeOK, FramesSound, [Next]_vars
  PROVE  KernelStep
<1> USE DEF KernelStep, kernel, NoHandle, NoFd
<1>1. ASSUME NEW t \in Threads, NEW o \in Objects,
             \/ OpenClone(t, o) \/ CallClose(t, o) \/ CallRead(t, o)
             \/ CallWrite(t, o) \/ CallIsOpen(t, o)
      PROVE  KernelStep
  BY <1>1 DEF OpenClone, CallClose, CallRead, CallWrite, CallIsOpen
<1>2. ASSUME NEW t \in Threads, SetIff(t)
      PROVE  KernelStep
  BY <1>2 DEF SetIff, FramesSound, TypeOK
<1>3. ASSUME NEW t \in Threads,
             \/ SetIffFails(t) \/ UndoOpen(t) \/ Assign(t) \/ DoClose(t)
             \/ DoRead(t) \/ ReadReturns(t) \/ DoWrite(t) \/ DoIsOpen(t)
      PROVE  KernelStep
  <2>1. fd[t] \in Fds \cup {NoHandle}
    BY DEF TypeOK
  <2> QED
    BY <1>3, <2>1 DEF SetIffFails, UndoOpen, Assign, DoClose, DoRead,
                      ReadReturns, DoWrite, DoIsOpen
<1>4. CASE JvmOpen \/ JvmClose
  BY <1>4 DEF JvmOpen, JvmClose, TypeOK
<1>5. CASE UNCHANGED vars
  BY <1>5 DEF vars
<1> QED
  BY <1>1, <1>2, <1>3, <1>4, <1>5 DEF Next

(* A call is entered and left with a sound frame.                          *)
LEMMA StepsKeepFrames ==
  ASSUME TypeOK, FramesSound, NEW t \in Threads,
         \/ \E o \in Objects, n \in Fds \cup {NoHandle},
               next \in {"setiff", "close", "read", "write", "isOpen"} :
              (next = "setiff" => n \in Fds) /\ Enter(t, o, n, next)
         \/ pc[t] = "setiff" /\ (Goto(t, "assign") \/ Goto(t, "undo"))
         \/ pc[t] = "read" /\ Goto(t, "reading")
         \/ Return(t)
         \/ UNCHANGED thread
  PROVE  FramesSound' /\ pc' \in [Threads -> {"idle"} \cup LifecyclePcs \cup CallPcs]
           /\ obj' \in [Threads -> Objects \cup {NoObject}]
           /\ fd' \in [Threads -> Fds \cup {NoHandle}]
BY DEF TypeOK, FramesSound, Enter, Goto, Return, thread, LifecyclePcs, CallPcs

LEMMA InitFrames == Init => FramesSound
BY DEF Init, FramesSound

LEMMA NextTyped == TypeOK /\ FramesSound /\ [Next]_vars => TypeOK' /\ FramesSound'
<1> SUFFICES ASSUME TypeOK, FramesSound, [Next]_vars
             PROVE  TypeOK' /\ FramesSound'
  OBVIOUS
<1> USE DEF TypeOK
<1>1. KernelTypeOK'
  BY NextIsKernelStep, KernelKeepsTypes
<1>2. ASSUME NEW t \in Threads, NEW o \in Objects,
             \/ OpenClone(t, o) \/ CallClose(t, o) \/ CallRead(t, o)
             \/ CallWrite(t, o) \/ CallIsOpen(t, o)
      PROVE  TypeOK' /\ FramesSound'
  BY <1>1, <1>2, StepsKeepFrames
  DEF OpenClone, CallClose, CallRead, CallWrite, CallIsOpen
<1>3. ASSUME NEW t \in Threads,
             \/ SetIff(t) \/ SetIffFails(t) \/ UndoOpen(t) \/ DoClose(t)
             \/ DoRead(t) \/ ReadReturns(t) \/ DoWrite(t) \/ DoIsOpen(t)
      PROVE  TypeOK' /\ FramesSound'
  BY <1>1, <1>3, StepsKeepFrames
  DEF SetIff, SetIffFails, UndoOpen, DoClose, DoRead, ReadReturns, DoWrite,
      DoIsOpen
<1>4. ASSUME NEW t \in Threads, Assign(t)
      PROVE  TypeOK' /\ FramesSound'
  <2>1. fd[t] \in Fds /\ obj[t] \in Objects
    BY <1>4 DEF Assign, FramesSound
  <2> QED
    BY <1>1, <1>4, <2>1, StepsKeepFrames DEF Assign
<1>5. CASE JvmOpen \/ JvmClose
  BY <1>1, <1>5 DEF JvmOpen, JvmClose, FramesSound
<1>6. CASE UNCHANGED vars
  BY <1>1, <1>6 DEF vars, FramesSound
<1> QED
  BY <1>2, <1>3, <1>4, <1>5, <1>6 DEF Next

LEMMA TypedAndFramed == Spec => [](TypeOK /\ FramesSound)
BY InitTyped, InitFrames, NextTyped, PTL DEF Spec

(* Every variable of the model keeps its type: a thread's descriptor is a  *)
(* number of the table, a handle -1 or such a number.                      *)
THEOREM TypeCorrect == Spec => []TypeOK
BY TypedAndFramed, PTL

(* The descriptor table is in order, whatever the clients do.              *)
LEMMA KernelAlwaysSound == Spec => []KernelInv
<1>1. Init => KernelInv
  BY KernelInvInit DEF Init
<1>2. TypeOK /\ FramesSound /\ KernelInv /\ [Next]_vars => KernelInv'
  BY NextIsKernelStep, KernelInvKept
<1> QED
  BY <1>1, <1>2, TypedAndFramed, PTL DEF Spec

LEMMA TableAlwaysSound == Spec => []TableSound
<1>1. KernelInv => TableSound
  BY DEF KernelInv
<1> QED
  BY <1>1, KernelAlwaysSound, PTL

-----------------------------------------------------------------------------
(* No descriptor is left behind by an error path of open().                *)

HalfOpener(n) == \E t \in Threads : pc[t] \in {"setiff", "undo"} /\ fd[t] = n

HalfOpenAt(n) == IsTun(n) /\ file[fdTable[n]].iface = NoName => HalfOpener(n)

(* It is enough that the entry is closed or kept, and its opener stays.    *)
LEMMA HalfOpenKept ==
  ASSUME NEW n \in Fds, HalfOpenAt(n),
         fdTable'[n] = NoFile \/ Kept(n),
         HalfOpener(n) => HalfOpener(n)'
  PROVE  HalfOpenAt(n)'
BY DEF HalfOpenAt, IsTun, Kept

LEMMA HalfOpenInductive ==
  ASSUME TypeOK, FramesSound, TableSound, HalfOpenInFlight, [Next]_vars
  PROVE  HalfOpenInFlight'
<1> SUFFICES ASSUME NEW n \in Fds PROVE HalfOpenAt(n)'
  BY DEF HalfOpenInFlight, HalfOpenAt, HalfOpener
<1>0. HalfOpenAt(n)
  BY DEF HalfOpenInFlight, HalfOpenAt, HalfOpener
<1> USE DEF TypeOK
<1>1. ASSUME NEW t \in Threads, NEW o \in Objects, OpenClone(t, o)
      PROVE  HalfOpenAt(n)'
  <2> PICK k \in Fds, f \in Files : OpenFile(k, f, o) /\ Enter(t, o, k, "setiff")
    BY <1>1 DEF OpenClone
  <2>1. CASE n = k
    BY <2>1 DEF Enter, HalfOpenAt, HalfOpener
  <2>2. CASE n # k
    <3>1. Kept(n)
      BY <2>2, OpenFileEffect
    <3>2. HalfOpener(n) => HalfOpener(n)'
      BY DEF Enter, HalfOpener
    <3> QED
      BY <1>0, <3>1, <3>2, HalfOpenKept
  <2> QED
    BY <2>1, <2>2
<1>2. ASSUME NEW t \in Threads, NEW o \in Objects,
             CallClose(t, o) \/ CallRead(t, o) \/ CallWrite(t, o) \/ CallIsOpen(t, o)
      PROVE  HalfOpenAt(n)'
  <2>1. Kept(n)
    BY <1>2 DEF CallClose, CallRead, CallWrite, CallIsOpen, Kept
  <2>2. HalfOpener(n) => HalfOpener(n)'
    BY <1>2 DEF CallClose, CallRead, CallWrite, CallIsOpen, Enter, HalfOpener
  <2> QED
    BY <1>0, <2>1, <2>2, HalfOpenKept
<1>3. ASSUME NEW t \in Threads, SetIff(t)
      PROVE  HalfOpenAt(n)'
  <2>1. /\ fd[t] \in Fds
        /\ NameOf[obj[t]] \in Names
        /\ AttachFile(fd[t], NameOf[obj[t]])
    BY <1>3 DEF SetIff, FramesSound
  <2>2. CASE n = fd[t]
    <3>1. fdTable'[n] = fdTable[n] /\ file'[fdTable[n]].iface = NameOf[obj[t]]
      BY <2>1, <2>2, AttachFileEffect
    <3> QED
      BY <2>1, <3>1 DEF HalfOpenAt
  <2>3. CASE n # fd[t]
    <3>1. Kept(n)
      BY <2>1, <2>3, AttachFileEffect
    <3>2. HalfOpener(n) => HalfOpener(n)'
      BY <1>3, <2>3 DEF SetIff, Goto, HalfOpener
    <3> QED
      BY <1>0, <3>1, <3>2, HalfOpenKept
  <2> QED
    BY <2>2, <2>3
<1>4. ASSUME NEW t \in Threads,
             \/ SetIffFails(t) \/ Assign(t) \/ DoRead(t) \/ ReadReturns(t)
             \/ DoWrite(t) \/ DoIsOpen(t)
      PROVE  HalfOpenAt(n)'
  <2>1. Kept(n)
    BY <1>4, TransferEffect
    DEF SetIffFails, Assign, DoRead, ReadReturns, DoWrite, DoIsOpen, kernel,
        NoHandle, NoFd
  <2>2. HalfOpener(n) => HalfOpener(n)'
    BY <1>4 DEF SetIffFails, Assign, DoRead, ReadReturns, DoWrite, DoIsOpen,
                Goto, Return, HalfOpener
  <2> QED
    BY <1>0, <2>1, <2>2, HalfOpenKept
<1>5. ASSUME NEW t \in Threads, UndoOpen(t)
      PROVE  HalfOpenAt(n)'
  <2>1. CASE n = fd[t]
    <3>1. fdTable'[n] = NoFile
      BY <1>5, <2>1, CloseFdEffect DEF UndoOpen
    <3> QED
      BY <3>1 DEF HalfOpenAt, IsTun
  <2>2. CASE n # fd[t]
    <3>1. Kept(n)
      BY <1>5, <2>2, CloseFdEffect DEF UndoOpen
    <3>2. HalfOpener(n) => HalfOpener(n)'
      BY <1>5, <2>2 DEF UndoOpen, Return, HalfOpener
    <3> QED
      BY <1>0, <3>1, <3>2, HalfOpenKept
  <2> QED
    BY <2>1, <2>2
<1>6. ASSUME NEW t \in Threads, DoClose(t)
      PROVE  HalfOpenAt(n)'
  <2>1. fdTable'[n] = NoFile \/ Kept(n)
    BY <1>6, CloseFdEffect DEF DoClose
  <2>2. HalfOpener(n) => HalfOpener(n)'
    BY <1>6 DEF DoClose, Return, HalfOpener
  <2> QED
    BY <1>0, <2>1, <2>2, HalfOpenKept
<1>7. CASE JvmOpen
  <2> PICK k \in Fds, f \in Files : OpenFile(k, f, Jvm)
    BY <1>7 DEF JvmOpen
  <2>1. CASE n = k
    <3>1. fdTable'[n] = f /\ file'[f] = Made(Jvm)
      BY <2>1, OpenFileEffect
    <3>2. file'[fdTable'[n]].maker = Jvm
      BY <3>1 DEF Made
    <3> QED
      BY <3>2 DEF HalfOpenAt, IsTun
  <2>2. CASE n # k
    <3>1. Kept(n)
      BY <2>2, OpenFileEffect
    <3> QED
      BY <1>0, <1>7, <3>1, HalfOpenKept DEF JvmOpen, HalfOpener
  <2> QED
    BY <2>1, <2>2
<1>8. CASE JvmClose
  <2>1. fdTable'[n] = NoFile \/ Kept(n)
    BY <1>8, CloseFdEffect DEF JvmClose
  <2> QED
    BY <1>0, <1>8, <2>1, HalfOpenKept DEF JvmClose, HalfOpener
<1>9. CASE UNCHANGED vars
  BY <1>0, <1>9 DEF vars, HalfOpenAt, HalfOpener, IsTun
<1> QED
  BY <1>1, <1>2, <1>3, <1>4, <1>5, <1>6, <1>7, <1>8, <1>9 DEF Next

(* A descriptor of /dev/net/tun without an interface always belongs to an  *)
(* open() in progress, which attaches or closes it.  Nothing is assumed of *)
(* the clients.                                                            *)
THEOREM NoHalfOpenLeak == Spec => []HalfOpenInFlight
<1>1. Init => HalfOpenInFlight
  BY DEF Init, KernelInit, HalfOpenInFlight, IsTun
<1> QED
  BY <1>1, HalfOpenInductive, TypedAndFramed, TableAlwaysSound, PTL DEF Spec

-----------------------------------------------------------------------------
(* No descriptor of an interface is lost by clients that serialize open()  *)
(* and close() of an object.                                               *)

LEMMA SerialInductive ==
  ASSUME "serial" \in Discipline,
         TypeOK, FramesSound, OneLifecycleCall, [Next]_vars
  PROVE  OneLifecycleCall'
<1> USE DEF OneLifecycleCall, TypeOK, LifecyclePcs
<1>1. ASSUME NEW t \in Threads, NEW o \in Objects,
             OpenClone(t, o) \/ CallClose(t, o)
      PROVE  OneLifecycleCall'
  <2>1. \A u \in Threads : pc[u] \in LifecyclePcs => obj[u] # o
    BY <1>1 DEF OpenClone, CallClose, MayClose, MayOpen, Busy
  <2>2. /\ \A u \in Threads \ {t} : pc'[u] = pc[u] /\ obj'[u] = obj[u]
        /\ obj'[t] = o
    BY <1>1 DEF OpenClone, CallClose, Enter
  <2> QED
    BY <2>1, <2>2
<1>2. ASSUME NEW t \in Threads, NEW o \in Objects,
             CallRead(t, o) \/ CallWrite(t, o) \/ CallIsOpen(t, o)
      PROVE  OneLifecycleCall'
  BY <1>2 DEF CallRead, CallWrite, CallIsOpen, Enter
<1>3. ASSUME NEW t \in Threads, SetIff(t) \/ SetIffFails(t) \/ DoRead(t)
      PROVE  OneLifecycleCall'
  BY <1>3 DEF SetIff, SetIffFails, DoRead, Goto, Return
<1>4. ASSUME NEW t \in Threads,
             \/ UndoOpen(t) \/ Assign(t) \/ DoClose(t) \/ ReadReturns(t)
             \/ DoWrite(t) \/ DoIsOpen(t)
      PROVE  OneLifecycleCall'
  BY <1>4 DEF UndoOpen, Assign, DoClose, ReadReturns, DoWrite, DoIsOpen, Return
<1>5. CASE JvmOpen \/ JvmClose
  BY <1>5 DEF JvmOpen, JvmClose
<1>6. CASE UNCHANGED vars
  BY <1>6 DEF vars
<1> QED
  BY <1>1, <1>2, <1>3, <1>4, <1>5, <1>6 DEF Next

(* Nothing that tracks a descriptor goes away in a step in which no open() *)
(* gets an interface and none stores its descriptor.                       *)
LEMMA TrackingStays ==
  ASSUME TypeOK, FramesSound, NEW n \in Fds, NEW name, Tracked(n, name),
         UNCHANGED handle, NEW t \in Threads, pc[t] # "assign",
         pc'[t] # "assign",
         \A u \in Threads \ {t} : pc'[u] = pc[u] /\ obj'[u] = obj[u] /\ fd'[u] = fd[u]
  PROVE  Tracked(n, name)'
BY DEF Tracked

TrackedAt(n) ==
  IsTun(n) /\ file[fdTable[n]].iface # NoName =>
    Tracked(n, file[fdTable[n]].iface)

LEMMA TrackedInductive ==
  ASSUME TypeOK, FramesSound, TableSound, OneLifecycleCall, AttachedTracked,
         [Next]_vars
  PROVE  AttachedTracked'
<1> SUFFICES ASSUME NEW n \in Fds PROVE TrackedAt(n)'
  BY DEF AttachedTracked, TrackedAt
<1>0. TrackedAt(n)
  BY DEF AttachedTracked, TrackedAt
<1> USE DEF TypeOK
<1>1. ASSUME NEW t \in Threads, NEW o \in Objects, OpenClone(t, o)
      PROVE  TrackedAt(n)'
  <2> PICK k \in Fds, f \in Files : OpenFile(k, f, o) /\ Enter(t, o, k, "setiff")
    BY <1>1 DEF OpenClone
  <2>1. CASE n = k
    <3>1. fdTable'[n] = f /\ file'[f] = Made(o)
      BY <2>1, OpenFileEffect
    <3>2. file'[fdTable'[n]].iface = NoName
      BY <3>1 DEF Made
    <3> QED
      BY <3>2 DEF TrackedAt
  <2>2. CASE n # k
    <3>1. Kept(n)
      BY <2>2, OpenFileEffect
    <3>2. ASSUME NEW name, Tracked(n, name) PROVE Tracked(n, name)'
      BY <1>1, <3>2, TrackingStays DEF Enter, OpenClone
    <3> QED
      BY <1>0, <3>1, <3>2 DEF TrackedAt, Kept, IsTun
  <2> QED
    BY <2>1, <2>2
<1>2. ASSUME NEW t \in Threads, NEW o \in Objects,
             CallClose(t, o) \/ CallRead(t, o) \/ CallWrite(t, o) \/ CallIsOpen(t, o)
      PROVE  TrackedAt(n)'
  <2>1. Kept(n)
    BY <1>2 DEF CallClose, CallRead, CallWrite, CallIsOpen, Kept
  <2>2. ASSUME NEW name, Tracked(n, name) PROVE Tracked(n, name)'
    BY <1>2, <2>2, TrackingStays
    DEF CallClose, CallRead, CallWrite, CallIsOpen, Enter
  <2> QED
    BY <1>0, <2>1, <2>2 DEF TrackedAt, Kept, IsTun
<1>3. ASSUME NEW t \in Threads, SetIff(t)
      PROVE  TrackedAt(n)'
  <2>1. /\ fd[t] \in Fds
        /\ NameOf[obj[t]] \in Names
        /\ AttachFile(fd[t], NameOf[obj[t]])
    BY <1>3 DEF SetIff, FramesSound
  <2>2. /\ pc'[t] = "assign"
        /\ UNCHANGED <<obj, fd, handle>>
        /\ \A u \in Threads \ {t} : pc'[u] = pc[u]
    BY <1>3 DEF SetIff, Goto
  <2>3. CASE n = fd[t]
    <3>1. fdTable'[n] = fdTable[n] /\ file'[fdTable[n]].iface = NameOf[obj[t]]
      BY <2>1, <2>3, AttachFileEffect
    <3> QED
      BY <2>2, <2>3, <3>1 DEF TrackedAt, Tracked
  <2>4. CASE n # fd[t]
    <3>1. Kept(n)
      BY <2>1, <2>4, AttachFileEffect
    <3>2. IsTun(n) => file[fdTable[n]].iface # NameOf[obj[t]]
      BY <2>1 DEF AttachFile, CanAttach, Attached, IsTun, KernelTypeOK
    <3>3. ASSUME NEW name, name # NameOf[obj[t]], Tracked(n, name)
          PROVE  Tracked(n, name)'
      BY <1>3, <2>2, <3>3 DEF Tracked, SetIff
    <3> QED
      BY <1>0, <3>1, <3>2, <3>3 DEF TrackedAt, Kept, IsTun
  <2> QED
    BY <2>3, <2>4
<1>4. ASSUME NEW t \in Threads,
             SetIffFails(t) \/ DoRead(t) \/ ReadReturns(t) \/ DoWrite(t) \/ DoIsOpen(t)
      PROVE  TrackedAt(n)'
  <2>1. Kept(n)
    BY <1>4, TransferEffect
    DEF SetIffFails, DoRead, ReadReturns, DoWrite, DoIsOpen, kernel, NoHandle, NoFd
  <2>2. ASSUME NEW name, Tracked(n, name) PROVE Tracked(n, name)'
    BY <1>4, <2>2, TrackingStays
    DEF SetIffFails, DoRead, ReadReturns, DoWrite, DoIsOpen, Goto, Return
  <2> QED
    BY <1>0, <2>1, <2>2 DEF TrackedAt, Kept, IsTun
<1>5. ASSUME NEW t \in Threads, UndoOpen(t) \/ DoClose(t)
      PROVE  TrackedAt(n)'
  <2>1. fdTable'[n] = NoFile \/ Kept(n)
    BY <1>5, CloseFdEffect DEF UndoOpen, DoClose
  <2>2. ASSUME NEW name, Tracked(n, name) PROVE Tracked(n, name)'
    BY <1>5, <2>2, TrackingStays DEF UndoOpen, DoClose, Return
  <2> QED
    BY <1>0, <2>1, <2>2 DEF TrackedAt, Kept, IsTun
<1>6. ASSUME NEW t \in Threads, Assign(t)
      PROVE  TrackedAt(n)'
  <2>1. Kept(n)
    BY <1>6 DEF Assign, Kept
  <2>2. /\ obj[t] \in Objects
        /\ handle' = [handle EXCEPT ![obj[t]] = fd[t]]
        /\ pc[t] = "assign" /\ pc'[t] # "assign"
        /\ \A u \in Threads \ {t} :
             pc'[u] = pc[u] /\ obj'[u] = obj[u] /\ fd'[u] = fd[u]
    BY <1>6 DEF Assign, FramesSound, Return
  <2>3. \A u \in Threads \ {t} : ~(pc[u] = "assign" /\ obj[u] = obj[t])
    BY <2>2 DEF OneLifecycleCall, LifecyclePcs
  <2>4. ASSUME NEW name, Tracked(n, name) PROVE Tracked(n, name)'
    <3>1. CASE fd[t] = n /\ NameOf[obj[t]] = name
      <4>1. handle'[obj[t]] = n
        BY <2>2, <3>1
      <4>2. \A u \in Threads : ~(pc'[u] = "assign" /\ obj'[u] = obj[t])
        BY <2>2, <2>3
      <4> QED
        BY <2>2, <3>1, <4>1, <4>2 DEF Tracked
    <3>2. CASE \E u \in Threads \ {t} :
                 pc[u] = "assign" /\ fd[u] = n /\ NameOf[obj[u]] = name
      BY <2>2, <3>2 DEF Tracked
    <3>3. CASE \E o \in Objects : /\ handle[o] = n /\ NameOf[o] = name
                                 /\ \A u \in Threads : ~(pc[u] = "assign" /\ obj[u] = o)
      <4> PICK o \in Objects : /\ handle[o] = n /\ NameOf[o] = name
                              /\ \A u \in Threads : ~(pc[u] = "assign" /\ obj[u] = o)
        BY <3>3
      <4>1. o # obj[t]
        BY <2>2
      <4>2. handle'[o] = n
        BY <2>2, <4>1
      <4>3. \A u \in Threads : ~(pc'[u] = "assign" /\ obj'[u] = o)
        BY <2>2
      <4> QED
        BY <4>2, <4>3 DEF Tracked
    <3> QED
      BY <2>4, <3>1, <3>2, <3>3 DEF Tracked
  <2> QED
    BY <1>0, <2>1, <2>4 DEF TrackedAt, Kept, IsTun
<1>7. CASE JvmOpen
  <2> PICK k \in Fds, f \in Files : OpenFile(k, f, Jvm)
    BY <1>7 DEF JvmOpen
  <2>1. CASE n = k
    <3>1. fdTable'[n] = f /\ file'[f] = Made(Jvm)
      BY <2>1, OpenFileEffect
    <3>2. file'[fdTable'[n]].iface = NoName
      BY <3>1 DEF Made
    <3> QED
      BY <3>2 DEF TrackedAt
  <2>2. CASE n # k
    <3>1. Kept(n)
      BY <2>2, OpenFileEffect
    <3> QED
      BY <1>0, <1>7, <3>1 DEF TrackedAt, Kept, IsTun, JvmOpen, Tracked
  <2> QED
    BY <2>1, <2>2
<1>8. CASE JvmClose
  <2>1. fdTable'[n] = NoFile \/ Kept(n)
    BY <1>8, CloseFdEffect DEF JvmClose
  <2> QED
    BY <1>0, <1>8, <2>1 DEF TrackedAt, Kept, IsTun, JvmClose, Tracked
<1>9. CASE UNCHANGED vars
  BY <1>0, <1>9 DEF vars, TrackedAt, IsTun, Tracked
<1> QED
  BY <1>1, <1>2, <1>3, <1>4, <1>5, <1>6, <1>7, <1>8, <1>9 DEF Next

(* Clients that do not overlap open() and close() of one object can always *)
(* close what they opened: every descriptor of an interface is the handle  *)
(* of an object of that name, or about to be stored as one.  Threads may   *)
(* read, write and close twice as they please.                             *)
THEOREM NoDescriptorLost ==
  ASSUME "serial" \in Discipline
  PROVE  Spec => []NoLostDescriptor
<1>1. Init => OneLifecycleCall /\ AttachedTracked
  BY DEF Init, KernelInit, OneLifecycleCall, LifecyclePcs, AttachedTracked, IsTun
<1>2. /\ TypeOK /\ FramesSound /\ TableSound
      /\ OneLifecycleCall /\ AttachedTracked /\ [Next]_vars
      => OneLifecycleCall' /\ AttachedTracked'
  BY SerialInductive, TrackedInductive
<1>3. AttachedTracked => NoLostDescriptor
  BY DEF AttachedTracked, Tracked, NoLostDescriptor
<1> QED
  BY <1>1, <1>2, <1>3, TypedAndFramed, TableAlwaysSound, PTL DEF Spec

-----------------------------------------------------------------------------
(* Clients that also close only what they opened: every descriptor the     *)
(* library acts on is one it owns.                                         *)

(* Number n is a descriptor that o's own open() made and has yet to attach. *)
HalfMade(o, n) == IsOpenFd(n) /\ file[fdTable[n]] = Made(o)

HeldOwned == \A o \in held : Owns(o, handle[o])

FrameOwns(t) ==
  /\ pc[t] \in {"setiff", "undo"} => HalfMade(obj[t], fd[t])
  /\ pc[t] = "assign" => Owns(obj[t], fd[t]) /\ obj[t] \notin held
  /\ pc[t] = "close" =>
       /\ Owns(obj[t], fd[t])
       /\ obj[t] \notin held
       /\ fd[t] = handle[obj[t]]

FramesOwn == \A t \in Threads : FrameOwns(t)

JvmOwns == \A n \in jvmFds : HalfMade(Jvm, n)

Ownership == HeldOwned /\ FramesOwn /\ JvmOwns

OwnedSoFar ==
  TypeOK /\ FramesSound /\ KernelInv /\ OneLifecycleCall /\ Ownership

(* What an entry is does not change with the other entries.                *)
LEMMA EntriesKept ==
  ASSUME NEW k, \A n \in Fds \ {k} : Kept(n)
  PROVE  /\ \A o, n : n # k => (Owns(o, n)' <=> Owns(o, n))
         /\ \A o, n : n # k /\ HalfMade(o, n) => HalfMade(o, n)'
<1>1. ASSUME NEW o, NEW n, n # k
      PROVE  /\ Owns(o, n)' <=> Owns(o, n)
             /\ HalfMade(o, n) => HalfMade(o, n)'
  <2>1. CASE n \in Fds
    BY <1>1, <2>1 DEF Owns, HalfMade, IsOpenFd, Kept
  <2>2. CASE n \notin Fds
    BY <2>2 DEF Owns, HalfMade, IsOpenFd
  <2> QED
    BY <2>1, <2>2
<1> QED
  BY <1>1

(* An entry is of one kind, and of one object.                             *)
LEMMA OneOwner ==
  ASSUME KernelTypeOK, NEW o \in Objects, NEW p \in Objects, NEW n
  PROVE  /\ ~(Owns(o, n) /\ HalfMade(p, n))
         /\ ~(Owns(o, n) /\ HalfMade(Jvm, n))
         /\ ~(HalfMade(o, n) /\ HalfMade(Jvm, n))
         /\ Owns(o, n) /\ Owns(p, n) => o = p
         /\ HalfMade(o, n) /\ HalfMade(p, n) => o = p
BY DEF Owns, HalfMade, Made

(* A device that is held, or about to be, keeps its name from all others.  *)
LEMMA OwnedNameTaken ==
  ASSUME KernelTypeOK, NEW o \in Objects, NEW n, Owns(o, n)
  PROVE  Attached(NameOf[o])
BY DEF Owns, IsOpenFd, Attached, KernelTypeOK

LEMMA InitOwned == Init => OneLifecycleCall /\ Ownership
BY DEF Init, OneLifecycleCall, LifecyclePcs, Ownership, HeldOwned, FramesOwn,
       FrameOwns, JvmOwns

(* The frame of a thread that does not move stays as it was, when the step *)
(* is about another number and another object.                             *)
LEMMA FrameKept ==
  ASSUME NEW u \in Threads, FrameOwns(u),
         pc'[u] = pc[u] /\ obj'[u] = obj[u] /\ fd'[u] = fd[u],
         NEW k, \A n \in Fds \ {k} : Kept(n),
         pc[u] \in LifecyclePcs =>
           /\ fd[u] # k
           /\ obj[u] \notin held => obj[u] \notin held'
           /\ handle'[obj[u]] = handle[obj[u]]
  PROVE  FrameOwns(u)'
<1>1. pc[u] \in LifecyclePcs =>
        /\ HalfMade(obj[u], fd[u]) => HalfMade(obj[u], fd[u])'
        /\ Owns(obj[u], fd[u]) => Owns(obj[u], fd[u])'
  <2>1. \A o, n : n # k => (Owns(o, n)' <=> Owns(o, n))
    BY EntriesKept
  <2>2. \A o, n : n # k /\ HalfMade(o, n) => HalfMade(o, n)'
    BY EntriesKept
  <2> QED
    BY <2>1, <2>2 DEF Owns, HalfMade
<1> QED
  BY <1>1 DEF FrameOwns, LifecyclePcs

(* No two of those that may close a number have the same one.              *)
LEMMA NumbersApart ==
  ASSUME OwnedSoFar, NEW t \in Threads, pc[t] \in LifecyclePcs
  PROVE  /\ \A u \in Threads \ {t} :
              pc[u] \in LifecyclePcs => fd[u] # fd[t] /\ obj[u] # obj[t]
         /\ \A o \in held : o # obj[t] => handle[o] # fd[t]
         /\ pc[t] # "close" => \A o \in held : handle[o] # fd[t]
         /\ fd[t] \notin jvmFds
<1> USE DEF OwnedSoFar, Ownership, TypeOK, KernelInv
<1>1. \A u \in Threads : pc[u] \in LifecyclePcs =>
        /\ obj[u] \in Objects
        /\ HalfMade(obj[u], fd[u]) \/ Owns(obj[u], fd[u])
  BY DEF FramesOwn, FrameOwns, FramesSound, LifecyclePcs
<1>2. \A u \in Threads \ {t} : pc[u] \in LifecyclePcs => obj[u] # obj[t]
  BY DEF OneLifecycleCall
<1>3. \A u \in Threads \ {t} : pc[u] \in LifecyclePcs => fd[u] # fd[t]
  BY <1>1, <1>2, OneOwner
<1>4. \A o \in held : o # obj[t] => handle[o] # fd[t]
  BY <1>1, OneOwner DEF HeldOwned
<1>5. pc[t] # "close" => obj[t] \notin held \/ HalfMade(obj[t], fd[t])
  BY DEF FramesOwn, FrameOwns, LifecyclePcs
<1>6. pc[t] # "close" => \A o \in held : handle[o] # fd[t]
  BY <1>1, <1>4, <1>5, OneOwner DEF HeldOwned
<1>7. fd[t] \notin jvmFds
  BY <1>1, OneOwner DEF JvmOwns
<1> QED
  BY <1>2, <1>3, <1>4, <1>6, <1>7

LEMMA OpenKeepsOwnership ==
  ASSUME OwnedSoFar, NEW t \in Threads, NEW o \in Objects, OpenClone(t, o)
  PROVE  Ownership'
<1> USE DEF OwnedSoFar, Ownership, TypeOK, KernelInv
<1> PICK n \in Fds, f \in Files : OpenFile(n, f, o) /\ Enter(t, o, n, "setiff")
  BY DEF OpenClone
<1>1. /\ \A k \in Fds \ {n} : Kept(k)
      /\ fdTable[n] = NoFile
      /\ HalfMade(o, n)'
  BY OpenFileEffect DEF HalfMade, IsOpenFd, Made
<1>2. \A p : ~Owns(p, n) /\ ~HalfMade(p, n)
  BY <1>1 DEF Owns, HalfMade, IsOpenFd
<1>3. UNCHANGED <<handle, held, jvmFds>>
  BY DEF OpenClone
<1>4. HeldOwned'
  BY <1>1, <1>2, <1>3, EntriesKept DEF HeldOwned
<1>5. ASSUME NEW u \in Threads
      PROVE  FrameOwns(u)'
  <2>1. CASE u = t
    BY <1>1, <2>1 DEF Enter, FrameOwns
  <2>2. CASE u # t
    <3>1. pc'[u] = pc[u] /\ obj'[u] = obj[u] /\ fd'[u] = fd[u]
      BY <2>2 DEF Enter
    <3>2. pc[u] \in LifecyclePcs => fd[u] # n
      BY <1>2 DEF FramesOwn, FrameOwns, LifecyclePcs
    <3> QED
      BY <1>1, <1>3, <3>1, <3>2, FrameKept DEF FramesOwn
  <2> QED
    BY <2>1, <2>2
<1>6. JvmOwns'
  BY <1>1, <1>2, <1>3, EntriesKept DEF JvmOwns
<1> QED
  BY <1>4, <1>5, <1>6 DEF FramesOwn

(* SetIff finds the name free, so its object is not held.                  *)
LEMMA SetIffKeepsOwnership ==
  ASSUME OwnedSoFar, NEW t \in Threads, SetIff(t)
  PROVE  Ownership'
<1> USE DEF OwnedSoFar, Ownership, TypeOK, KernelInv
<1>0. /\ pc[t] = "setiff" /\ pc[t] \in LifecyclePcs
      /\ fd[t] \in Fds /\ obj[t] \in Objects /\ NameOf[obj[t]] \in Names
      /\ AttachFile(fd[t], NameOf[obj[t]])
      /\ UNCHANGED <<handle, held, jvmFds>>
  BY DEF SetIff, FramesSound, LifecyclePcs
<1>1. \A k \in Fds \ {fd[t]} : Kept(k)
  BY <1>0, AttachFileEffect
<1>2. HalfMade(obj[t], fd[t])
  BY <1>0 DEF FramesOwn, FrameOwns
<1>3. Owns(obj[t], fd[t])'
  <2>1. /\ fdTable'[fd[t]] = fdTable[fd[t]] /\ fdTable[fd[t]] \in Files
        /\ file'[fdTable[fd[t]]].maker = obj[t]
        /\ file'[fdTable[fd[t]]].iface = NameOf[obj[t]]
    <3>1. file[fdTable[fd[t]]].maker = obj[t]
      BY <1>2 DEF HalfMade, Made
    <3> QED
      BY <1>0, <3>1, AttachFileEffect
  <2> QED
    BY <1>0, <2>1 DEF Owns, IsOpenFd, SetIff, Goto
<1>4. obj[t] \notin held
  BY <1>0, OwnedNameTaken DEF HeldOwned, AttachFile, CanAttach
<1>5. HeldOwned'
  BY <1>0, <1>1, NumbersApart, EntriesKept DEF HeldOwned
<1>6. ASSUME NEW u \in Threads
      PROVE  FrameOwns(u)'
  <2>1. CASE u = t
    BY <1>0, <1>3, <1>4, <2>1 DEF SetIff, Goto, FrameOwns, Owns
  <2>2. CASE u # t
    BY <1>0, <1>1, <2>2, NumbersApart, FrameKept DEF FramesOwn, SetIff, Goto
  <2> QED
    BY <2>1, <2>2
<1>7. JvmOwns'
  BY <1>0, <1>1, NumbersApart, EntriesKept DEF JvmOwns
<1> QED
  BY <1>5, <1>6, <1>7 DEF FramesOwn

LEMMA AssignKeepsOwnership ==
  ASSUME OwnedSoFar, NEW t \in Threads, Assign(t)
  PROVE  Ownership'
<1> USE DEF OwnedSoFar, Ownership, TypeOK, KernelInv
<1>0. /\ pc[t] = "assign" /\ pc[t] \in LifecyclePcs
      /\ obj[t] \in Objects
      /\ handle' = [handle EXCEPT ![obj[t]] = fd[t]]
      /\ held' = held \cup {obj[t]}
      /\ UNCHANGED <<fdTable, file, jvmFds>>
      /\ Return(t)
  BY DEF Assign, FramesSound, LifecyclePcs
<1>1. \A k \in Fds : Kept(k)
  BY <1>0 DEF Kept
<1>2. \A o, n : Owns(o, n)' <=> Owns(o, n)
  BY <1>0 DEF Owns, IsOpenFd
<1>3. HeldOwned'
  <2>1. Owns(obj[t], fd[t])
    BY <1>0 DEF FramesOwn, FrameOwns
  <2>2. handle'[obj[t]] = fd[t] /\ \A o \in held \ {obj[t]} : handle'[o] = handle[o]
    BY <1>0
  <2>3. \A o \in held' : Owns(o, handle'[o])
    BY <1>0, <2>1, <2>2 DEF HeldOwned
  <2> QED
    BY <1>2, <2>3 DEF HeldOwned
<1>4. ASSUME NEW u \in Threads
      PROVE  FrameOwns(u)'
  <2>1. CASE u = t
    BY <1>0, <2>1 DEF Return, FrameOwns
  <2>2. CASE u # t
    <3>1. pc'[u] = pc[u] /\ obj'[u] = obj[u] /\ fd'[u] = fd[u]
      BY <1>0, <2>2 DEF Return
    <3>2. pc[u] \in LifecyclePcs => obj[u] # obj[t] /\ obj[u] \in Objects
      BY <1>0, <2>2, NumbersApart DEF FramesSound, LifecyclePcs
    <3>3. pc[u] \in LifecyclePcs => fd[u] # fd[t]
      BY <1>0, <2>2, NumbersApart
    <3>4. pc[u] \in LifecyclePcs =>
            /\ obj[u] \notin held => obj[u] \notin held'
            /\ handle'[obj[u]] = handle[obj[u]]
      BY <1>0, <3>2
    <3> QED
      BY <1>1, <3>1, <3>3, <3>4, FrameKept DEF FramesOwn
  <2> QED
    BY <2>1, <2>2
<1>5. JvmOwns'
  BY <1>0 DEF JvmOwns, HalfMade, IsOpenFd
<1> QED
  BY <1>3, <1>4, <1>5 DEF FramesOwn

LEMMA CallCloseKeepsOwnership ==
  ASSUME "closeOnce" \in Discipline,
         OwnedSoFar, NEW t \in Threads, NEW o \in Objects, CallClose(t, o)
  PROVE  Ownership'
<1> USE DEF OwnedSoFar, Ownership, TypeOK, KernelInv
<1>0. /\ o \in held
      /\ Enter(t, o, handle[o], "close")
      /\ held' = held \ {o}
      /\ UNCHANGED <<fdTable, file, handle, jvmFds>>
  BY DEF CallClose, MayClose
<1>1. \A k \in Fds : Kept(k)
  BY <1>0 DEF Kept
<1>2. \A p, n : Owns(p, n)' <=> Owns(p, n)
  BY <1>0 DEF Owns, IsOpenFd
<1>3. HeldOwned'
  BY <1>0, <1>2 DEF HeldOwned
<1>4. ASSUME NEW u \in Threads
      PROVE  FrameOwns(u)'
  <2>1. CASE u = t
    <3>1. Owns(o, handle[o])'
      BY <1>0, <1>2 DEF HeldOwned
    <3> QED
      BY <1>0, <2>1, <3>1 DEF Enter, FrameOwns
  <2>2. CASE u # t
    BY <1>0, <1>1, <2>2, FrameKept DEF Enter, FramesOwn
  <2> QED
    BY <2>1, <2>2
<1>5. JvmOwns'
  BY <1>0 DEF JvmOwns, HalfMade, IsOpenFd
<1> QED
  BY <1>3, <1>4, <1>5 DEF FramesOwn

(* The number that UndoOpen or DoClose frees is the thread's own.          *)
LEMMA CloseKeepsOwnership ==
  ASSUME OwnedSoFar, NEW t \in Threads, UndoOpen(t) \/ DoClose(t)
  PROVE  Ownership'
<1> USE DEF OwnedSoFar, Ownership, TypeOK, KernelInv
<1>0. /\ pc[t] \in LifecyclePcs
      /\ pc[t] # "close" \/ obj[t] \notin held
      /\ CloseFd(fd[t])
      /\ Return(t)
      /\ UNCHANGED <<handle, held, jvmFds>>
  BY DEF UndoOpen, DoClose, LifecyclePcs, FramesOwn, FrameOwns
<1>1. \A k \in Fds \ {fd[t]} : Kept(k)
  BY <1>0, CloseFdEffect
<1>2. \A o \in held : handle[o] # fd[t]
  BY <1>0, NumbersApart
<1>3. HeldOwned'
  BY <1>0, <1>1, <1>2, EntriesKept DEF HeldOwned
<1>4. ASSUME NEW u \in Threads
      PROVE  FrameOwns(u)'
  <2>1. CASE u = t
    BY <1>0, <2>1 DEF Return, FrameOwns
  <2>2. CASE u # t
    <3>1. pc'[u] = pc[u] /\ obj'[u] = obj[u] /\ fd'[u] = fd[u]
      BY <1>0, <2>2 DEF Return
    <3>2. pc[u] \in LifecyclePcs => fd[u] # fd[t]
      BY <1>0, <2>2, NumbersApart
    <3> QED
      BY <1>0, <1>1, <3>1, <3>2, FrameKept DEF FramesOwn
  <2> QED
    BY <2>1, <2>2
<1>5. JvmOwns'
  BY <1>0, <1>1, NumbersApart, EntriesKept DEF JvmOwns
<1> QED
  BY <1>3, <1>4, <1>5 DEF FramesOwn

LEMMA JvmKeepsOwnership ==
  ASSUME OwnedSoFar, JvmOpen \/ JvmClose
  PROVE  Ownership'
<1> USE DEF OwnedSoFar, Ownership, TypeOK, KernelInv
<1>1. \E n \in Fds :
        /\ \A k \in Fds \ {n} : Kept(k)
        /\ \A o \in Objects : ~Owns(o, n) /\ ~HalfMade(o, n)
        /\ \A k \in jvmFds' : (k # n /\ k \in jvmFds) \/ HalfMade(Jvm, k)'
  <2>1. CASE JvmOpen
    <3> PICK n \in Fds, f \in Files :
               OpenFile(n, f, Jvm) /\ jvmFds' = jvmFds \cup {n}
      BY <2>1 DEF JvmOpen
    <3>1. /\ \A k \in Fds \ {n} : Kept(k)
          /\ fdTable[n] = NoFile
          /\ HalfMade(Jvm, n)'
      BY OpenFileEffect DEF HalfMade, IsOpenFd, Made
    <3>2. \A o \in Objects : ~Owns(o, n) /\ ~HalfMade(o, n)
      BY <3>1 DEF Owns, HalfMade, IsOpenFd
    <3> QED
      BY <3>1, <3>2
  <2>2. CASE JvmClose
    <3> PICK n \in jvmFds : CloseFd(n) /\ jvmFds' = jvmFds \ {n}
      BY <2>2 DEF JvmClose
    <3>1. \A o \in Objects : ~Owns(o, n) /\ ~HalfMade(o, n)
      BY OneOwner DEF JvmOwns
    <3> QED
      BY <3>1, CloseFdEffect
  <2> QED
    BY <2>1, <2>2
<1> PICK n \in Fds :
        /\ \A k \in Fds \ {n} : Kept(k)
        /\ \A o \in Objects : ~Owns(o, n) /\ ~HalfMade(o, n)
        /\ \A k \in jvmFds' : (k # n /\ k \in jvmFds) \/ HalfMade(Jvm, k)'
  BY <1>1
<1>2. UNCHANGED <<handle, held, pc, obj, fd>>
  BY DEF JvmOpen, JvmClose
<1>3. HeldOwned'
  BY <1>2, EntriesKept DEF HeldOwned
<1>4. ASSUME NEW u \in Threads
      PROVE  FrameOwns(u)'
  <2>1. pc[u] \in LifecyclePcs => fd[u] # n
    BY DEF FramesOwn, FrameOwns, FramesSound, LifecyclePcs
  <2> QED
    BY <1>2, <2>1, FrameKept DEF FramesOwn
<1>5. JvmOwns'
  BY EntriesKept DEF JvmOwns
<1> QED
  BY <1>3, <1>4, <1>5 DEF FramesOwn

(* The other steps change no entry and nothing that ownership speaks of.   *)
LEMMA OthersKeepOwnership ==
  ASSUME OwnedSoFar, NEW t \in Threads,
         \/ \E o \in Objects :
              CallRead(t, o) \/ CallWrite(t, o) \/ CallIsOpen(t, o)
         \/ SetIffFails(t) \/ DoRead(t) \/ ReadReturns(t)
         \/ DoWrite(t) \/ DoIsOpen(t)
  PROVE  Ownership'
<1> USE DEF OwnedSoFar, Ownership, TypeOK, KernelInv
<1>1. /\ \/ \E n \in Fds \cup {NoFd} : EnterKernel(t, n)
         \/ LeaveKernel(t)
         \/ UNCHANGED kernel
      /\ UNCHANGED <<handle, held, jvmFds>>
  BY DEF CallRead, CallWrite, CallIsOpen, SetIffFails, DoRead, ReadReturns,
         DoWrite, DoIsOpen, kernel, NoHandle, NoFd
<1>2. \A k \in Fds : Kept(k)
  BY <1>1, TransferEffect
<1>3. \A u \in Threads \ {t} :
        pc'[u] = pc[u] /\ obj'[u] = obj[u] /\ fd'[u] = fd[u]
  BY DEF CallRead, CallWrite, CallIsOpen, SetIffFails, DoRead, ReadReturns,
         DoWrite, DoIsOpen, Enter, Goto, Return
<1>4. \/ pc'[t] \notin LifecyclePcs
      \/ /\ pc'[t] = pc[t] \/ (pc'[t] = "undo" /\ pc[t] = "setiff")
         /\ obj'[t] = obj[t] /\ fd'[t] = fd[t]
  BY DEF CallRead, CallWrite, CallIsOpen, SetIffFails, DoRead, ReadReturns,
         DoWrite, DoIsOpen, Enter, Goto, Return, LifecyclePcs
<1>5. ASSUME NEW o, NEW n
      PROVE  /\ Owns(o, n)' <=> Owns(o, n)
             /\ HalfMade(o, n) => HalfMade(o, n)'
  <2>1. CASE n \in Fds
    BY <1>2, <2>1 DEF Owns, HalfMade, IsOpenFd, Kept
  <2>2. CASE n \notin Fds
    BY <2>2 DEF Owns, HalfMade, IsOpenFd
  <2> QED
    BY <2>1, <2>2
<1>6. HeldOwned' /\ JvmOwns'
  BY <1>1, <1>5 DEF HeldOwned, JvmOwns
<1>7. ASSUME NEW u \in Threads
      PROVE  FrameOwns(u)'
  <2>1. \/ pc'[u] \notin LifecyclePcs
        \/ /\ pc'[u] = pc[u] \/ (pc'[u] = "undo" /\ pc[u] = "setiff")
           /\ obj'[u] = obj[u] /\ fd'[u] = fd[u]
    BY <1>3, <1>4
  <2>2. /\ Owns(obj[u], fd[u]) /\ obj'[u] = obj[u] /\ fd'[u] = fd[u]
             => Owns(obj[u], fd[u])'
        /\ HalfMade(obj[u], fd[u]) /\ obj'[u] = obj[u] /\ fd'[u] = fd[u]
             => HalfMade(obj[u], fd[u])'
    BY <1>5 DEF Owns, HalfMade
  <2> QED
    BY <1>1, <2>1, <2>2 DEF FramesOwn, FrameOwns, LifecyclePcs
<1> QED
  BY <1>6, <1>7 DEF FramesOwn

LEMMA OwnershipInductive ==
  ASSUME "closeOnce" \in Discipline, OwnedSoFar, [Next]_vars
  PROVE  Ownership'
<1>1. CASE Next
  BY <1>1, OpenKeepsOwnership, SetIffKeepsOwnership, AssignKeepsOwnership,
     CallCloseKeepsOwnership, CloseKeepsOwnership, JvmKeepsOwnership,
     OthersKeepOwnership
  DEF Next
<1>2. CASE UNCHANGED vars
  BY <1>2 DEF OwnedSoFar, vars, Ownership, HeldOwned, FramesOwn, FrameOwns,
              JvmOwns, Owns, HalfMade, IsOpenFd
<1> QED
  BY <1>1, <1>2

LEMMA OwnedAlways ==
  ASSUME {"serial", "closeOnce"} \subseteq Discipline
  PROVE  Spec => []OwnedSoFar
<1>1. OwnedSoFar /\ [Next]_vars => OneLifecycleCall' /\ Ownership'
  BY SerialInductive, OwnershipInductive DEF OwnedSoFar
<1> QED
  BY <1>1, InitOwned, TypedAndFramed, KernelAlwaysSound, PTL DEF Spec, OwnedSoFar

(* An object that was opened and not closed since has a handle to its own  *)
(* interface: no call on another object, no failed second open() of this   *)
(* one and no close() of a number that changed hands takes it away.        *)
THEOREM HeldStayOpen ==
  ASSUME {"serial", "closeOnce"} \subseteq Discipline
  PROVE  Spec => []HeldDevicesStayOpen
<1>1. OwnedSoFar => HeldDevicesStayOpen
  BY DEF OwnedSoFar, TypeOK, Ownership, HeldOwned, HeldDevicesStayOpen, OpenDevices
<1> QED
  BY <1>1, OwnedAlways, PTL

-----------------------------------------------------------------------------
(* Calls on a device whose client is quiet.                                *)

(* No open() or close() of the device overlaps the call, which carries the *)
(* device's descriptor, or -1 when it was never opened; a read() that      *)
(* waits holds a file that the device's open() made.                       *)
QuietCall(t) ==
  obj[t] \in Quiet /\ pc[t] \in CallPcs =>
    /\ ~Busy(obj[t], LifecyclePcs)
    /\ fd[t] = handle[obj[t]]
    /\ obj[t] \in held \/ handle[obj[t]] = NoHandle
    /\ pc[t] = "reading" => ref[t] \in Files /\ file[ref[t]].maker = obj[t]

QuietApart == \A t \in Threads : QuietCall(t)

(* Another thread's step leaves a quiet call as it was when it is not an   *)
(* open() or close() of the same device.                                   *)
LEMMA QuietKept ==
  ASSUME TypeOK, KernelInv, KernelStep, NEW u \in Threads, QuietCall(u),
         pc'[u] = pc[u] /\ obj'[u] = obj[u] /\ fd'[u] = fd[u] /\ ref'[u] = ref[u],
         obj[u] \in Quiet /\ pc[u] \in CallPcs =>
           /\ ~Busy(obj[u], LifecyclePcs) => ~Busy(obj[u], LifecyclePcs)'
           /\ handle'[obj[u]] = handle[obj[u]]
           /\ obj[u] \in held => obj[u] \in held'
  PROVE  QuietCall(u)'
<1> SUFFICES ASSUME obj[u] \in Quiet, pc[u] \in CallPcs
             PROVE  QuietCall(u)'
  BY DEF QuietCall
<1>1. pc[u] = "reading" =>
        /\ ref[u] # NoFile /\ file[ref[u]] # Unused
        /\ ref[u] \in Files /\ file[ref[u]].maker = obj[u]
  BY DEF QuietCall, KernelInv, RefsSound
<1>2. pc[u] = "reading" => file'[ref[u]].maker = obj[u]
  BY <1>1, HeldFileKept DEF TypeOK
<1> QED
  BY <1>1, <1>2 DEF QuietCall, Busy

LEMMA QuietEntered ==
  ASSUME OwnedSoFar, QuietApart, NEW t \in Threads, NEW o \in Objects,
         CallRead(t, o) \/ CallWrite(t, o) \/ CallIsOpen(t, o)
  PROVE  QuietApart'
<1> USE DEF OwnedSoFar, TypeOK
<1>1. /\ MayCall(o)
      /\ \E next \in {"read", "write", "isOpen"} : Enter(t, o, handle[o], next)
      /\ UNCHANGED <<fdTable, file, ref, handle, held>>
  BY DEF CallRead, CallWrite, CallIsOpen
<1>2. \A p \in Objects : ~Busy(p, LifecyclePcs) => ~Busy(p, LifecyclePcs)'
  BY <1>1 DEF Enter, Busy, LifecyclePcs
<1>3. QuietCall(t)'
  BY <1>1, <1>2 DEF Enter, MayCall, QuietCall
<1>4. ASSUME NEW u \in Threads \ {t}
      PROVE  QuietCall(u)'
  <2>1. pc'[u] = pc[u] /\ obj'[u] = obj[u] /\ fd'[u] = fd[u]
    BY <1>1 DEF Enter
  <2>2. obj[u] \in Quiet /\ ~Busy(obj[u], LifecyclePcs)
          => ~Busy(obj[u], LifecyclePcs)'
    BY <1>2, <2>1 DEF Busy
  <2> QED
    BY <1>1, <2>1, <2>2, QuietKept DEF QuietApart, KernelStep, kernel
<1> QED
  BY <1>3, <1>4 DEF QuietApart

(* An open() or close() of a quiet client's device begins when none of its *)
(* calls is in progress.                                                   *)
LEMMA QuietLifecycle ==
  ASSUME OwnedSoFar, QuietApart, KernelStep, NEW t \in Threads,
         \/ \E o \in Objects : OpenClone(t, o) \/ CallClose(t, o)
         \/ SetIff(t) \/ SetIffFails(t) \/ UndoOpen(t) \/ Assign(t) \/ DoClose(t)
  PROVE  QuietApart'
<1> USE DEF OwnedSoFar, TypeOK
<1>1. \/ \E o \in Objects, n \in Fds \cup {NoHandle} :
           /\ OpenClone(t, o) \/ CallClose(t, o)
           /\ MayOpen(o)
           /\ Enter(t, o, n, "setiff") \/ Enter(t, o, n, "close")
      \/ pc[t] \in LifecyclePcs /\ (Goto(t, "assign") \/ Goto(t, "undo") \/ Return(t))
  BY DEF OpenClone, CallClose, MayClose, SetIff, SetIffFails, UndoOpen, Assign,
         DoClose, LifecyclePcs
<1>2. \A u \in Threads \ {t} :
        /\ pc'[u] = pc[u] /\ obj'[u] = obj[u] /\ fd'[u] = fd[u]
        /\ ref'[u] = ref[u]
  BY DEF OpenClone, CallClose, SetIff, SetIffFails, UndoOpen, Assign, DoClose,
         Enter, Goto, Return, OpenFile, AttachFile, CloseFd, kernel
<1>3. \A p \in Objects : p # obj[t] /\ p # obj'[t] =>
        /\ ~Busy(p, LifecyclePcs) => ~Busy(p, LifecyclePcs)'
        /\ handle'[p] = handle[p]
        /\ p \in held => p \in held'
  <2>1. /\ \A p \in Objects : p # obj[t] /\ p # obj'[t] => handle'[p] = handle[p]
        /\ \A p \in held : p # obj[t] /\ p # obj'[t] => p \in held'
    BY DEF OpenClone, CallClose, SetIff, SetIffFails, UndoOpen, Assign, DoClose, Enter
  <2> QED
    BY <1>2, <2>1 DEF Busy
<1>4. ASSUME NEW u \in Threads \ {t}, obj[u] \in Quiet, pc[u] \in CallPcs
      PROVE  obj[u] # obj[t] /\ obj[u] # obj'[t]
  <2>1. ~Busy(obj[u], LifecyclePcs)
    BY <1>4 DEF QuietApart, QuietCall
  <2>2. CASE pc[t] \in LifecyclePcs /\ UNCHANGED obj
    BY <2>1, <2>2 DEF Busy
  <2>3. CASE pc[t] \in LifecyclePcs /\ Return(t)
    BY <1>4, <2>1, <2>3 DEF Busy, Return
  <2>4. CASE \E o \in Objects, n \in Fds \cup {NoHandle} :
               /\ MayOpen(o)
               /\ Enter(t, o, n, "setiff") \/ Enter(t, o, n, "close")
    <3> PICK o \in Objects, n \in Fds \cup {NoHandle} :
               /\ MayOpen(o)
               /\ Enter(t, o, n, "setiff") \/ Enter(t, o, n, "close")
      BY <2>4
    <3>1. obj'[t] = o /\ obj[t] = NoObject
      BY DEF Enter, FramesSound
    <3>2. obj[u] # o
      BY <1>4 DEF MayOpen, Busy
    <3> QED
      BY <1>4, <3>1, <3>2
  <2> QED
    BY <1>1, <2>2, <2>3, <2>4 DEF Goto
<1>5. ASSUME NEW u \in Threads
      PROVE  QuietCall(u)'
  <2>1. CASE u = t
    <3>1. pc'[t] \notin CallPcs
      BY <1>1 DEF Enter, Goto, Return, CallPcs
    <3> QED
      BY <2>1, <3>1 DEF QuietCall
  <2>2. CASE u # t
    BY <1>2, <1>3, <1>4, <2>2, QuietKept DEF QuietApart
  <2> QED
    BY <2>1, <2>2
<1> QED
  BY <1>5 DEF QuietApart

(* A read() takes hold of the file its device owns, and lets it go.        *)
LEMMA QuietCalls ==
  ASSUME OwnedSoFar, QuietApart, KernelStep, NEW t \in Threads,
         DoRead(t) \/ ReadReturns(t) \/ DoWrite(t) \/ DoIsOpen(t)
  PROVE  QuietApart'
<1> USE DEF OwnedSoFar, TypeOK
<1>1. /\ \A u \in Threads \ {t} :
           /\ pc'[u] = pc[u] /\ obj'[u] = obj[u] /\ fd'[u] = fd[u]
           /\ ref'[u] = ref[u]
      /\ UNCHANGED <<handle, held>>
  BY DEF DoRead, ReadReturns, DoWrite, DoIsOpen, Goto, Return, EnterKernel,
         LeaveKernel, kernel, KernelTypeOK
<1>2. pc'[t] \notin LifecyclePcs
  BY DEF DoRead, ReadReturns, DoWrite, DoIsOpen, Goto, Return, LifecyclePcs
<1>3. \A p : ~Busy(p, LifecyclePcs) => ~Busy(p, LifecyclePcs)'
  BY <1>1, <1>2 DEF Busy
<1>4. ASSUME NEW u \in Threads \ {t}
      PROVE  QuietCall(u)'
  BY <1>1, <1>3, QuietKept DEF QuietApart
<1>5. QuietCall(t)'
  <2>1. CASE pc'[t] = "idle"
    BY <2>1 DEF QuietCall, CallPcs
  <2>2. CASE pc'[t] # "idle"
    <3>1. /\ pc[t] = "read" /\ pc[t] \in CallPcs
          /\ CanTransfer(fd[t]) /\ EnterKernel(t, fd[t]) /\ Goto(t, "reading")
      BY <2>2 DEF DoRead, ReadReturns, DoWrite, DoIsOpen, Return, CallPcs
    <3> SUFFICES ASSUME obj[t] \in Quiet
                 PROVE  QuietCall(t)'
      BY <3>1 DEF Goto, QuietCall
    <3>2. /\ ~Busy(obj[t], LifecyclePcs)
          /\ fd[t] = handle[obj[t]]
          /\ obj[t] \in held \/ handle[obj[t]] = NoHandle
      BY <3>1 DEF QuietApart, QuietCall
    <3>3. Owns(obj[t], fd[t])
      BY <3>1, <3>2 DEF EnterKernel, IsOpenFd, NoHandle, Ownership, HeldOwned
    <3>4. /\ ref'[t] \in Files
          /\ file'[ref'[t]].maker = obj[t]
      BY <3>1, <3>3 DEF EnterKernel, IsOpenFd, Owns, KernelTypeOK
    <3>5. obj'[t] = obj[t] /\ fd'[t] = fd[t] /\ ~Busy(obj[t], LifecyclePcs)'
      BY <1>3, <3>1, <3>2 DEF Goto
    <3> QED
      BY <1>1, <3>2, <3>4, <3>5 DEF QuietCall, Busy
  <2> QED
    BY <2>1, <2>2
<1> QED
  BY <1>4, <1>5 DEF QuietApart

LEMMA QuietInductive ==
  ASSUME OwnedSoFar, QuietApart, [Next]_vars
  PROVE  QuietApart'
<1>1. KernelStep
  BY NextIsKernelStep DEF OwnedSoFar
<1>2. CASE JvmOpen \/ JvmClose \/ UNCHANGED vars
  <2>1. UNCHANGED <<handle, held, pc, obj, fd, ref>>
    BY <1>2 DEF JvmOpen, JvmClose, vars, OpenFile, CloseFd, kernel
  <2>2. \A u \in Threads : QuietCall(u)'
    BY <1>1, <2>1, QuietKept DEF OwnedSoFar, QuietApart, Busy
  <2> QED
    BY <2>2 DEF QuietApart
<1> QED
  BY <1>1, <1>2, QuietEntered, QuietLifecycle, QuietCalls DEF Next

LEMMA QuietAlways ==
  ASSUME {"serial", "closeOnce"} \subseteq Discipline
  PROVE  Spec => [](OwnedSoFar /\ QuietApart)
<1>1. Init => QuietApart
  BY DEF Init, QuietApart, QuietCall, CallPcs
<1> QED
  BY <1>1, QuietInductive, OwnedAlways, PTL DEF Spec

(* read(), write() and close() of a device whose client is quiet act on    *)
(* the descriptor its own open() made, never on one that got the number    *)
(* later, whatever the clients of other devices do.                        *)
THEOREM QuietCallsReachOwnInterface ==
  ASSUME {"serial", "closeOnce"} \subseteq Discipline
  PROVE  Spec => []CallsReachOwnInterface
<1>1. OwnedSoFar /\ QuietApart => CallsReachOwnInterface
  <2> SUFFICES ASSUME OwnedSoFar, QuietApart,
                      NEW t \in Threads, obj[t] \in Quiet
               PROVE  /\ pc[t] \in {"read", "write", "close"} /\ fd[t] # NoHandle
                           => Owns(obj[t], fd[t])
                      /\ pc[t] = "reading" => file[ref[t]].maker = obj[t]
    BY DEF CallsReachOwnInterface
  <2>1. pc[t] \in {"read", "write"} /\ fd[t] # NoHandle => Owns(obj[t], fd[t])
    BY DEF QuietApart, QuietCall, CallPcs, OwnedSoFar, Ownership, HeldOwned
  <2>2. pc[t] = "close" => Owns(obj[t], fd[t])
    BY DEF OwnedSoFar, Ownership, FramesOwn, FrameOwns
  <2>3. pc[t] = "reading" => file[ref[t]].maker = obj[t]
    BY DEF QuietApart, QuietCall, CallPcs
  <2> QED
    BY <2>1, <2>2, <2>3
<1> QED
  BY <1>1, QuietAlways, PTL

(* isOpen() of such a device answers true exactly when the device is open, *)
(* although deviceHandle keeps the number after close().                   *)
THEOREM QuietIsOpenAccurate ==
  ASSUME {"serial", "closeOnce"} \subseteq Discipline
  PROVE  Spec => []IsOpenAccurate
<1>1. OwnedSoFar /\ QuietApart => IsOpenAccurate
  <2> SUFFICES ASSUME OwnedSoFar, QuietApart,
                      NEW t \in Threads, obj[t] \in Quiet, pc[t] = "isOpen"
               PROVE  IsOpenAnswer(fd[t]) <=> obj[t] \in OpenDevices
    BY DEF IsOpenAccurate
  <2>1. /\ obj[t] \in Objects
        /\ fd[t] = handle[obj[t]]
        /\ Owns(obj[t], handle[obj[t]]) \/ handle[obj[t]] = NoHandle
    BY DEF QuietApart, QuietCall, CallPcs, OwnedSoFar, Ownership, HeldOwned
  <2> QED
    BY <2>1 DEF IsOpenAnswer, OpenDevices, Owns, IsOpenFd, NoHandle
<1> QED
  BY <1>1, QuietAlways, PTL

-----------------------------------------------------------------------------
(* The refinement of DeviceContract.                                       *)

Opened == OpenDevices \cup Granted

LEMMA InitRefines == Init => Contract!Init
BY DEF Init, KernelInit, Contract!Init, OpenDevices, Granted, Opening, Closing,
       Busy, Owns, IsOpenFd, LifecyclePcs

(* A step in which no entry changes hands, no handle is stored and no      *)
(* thread goes on or leaves an open() or close() changes nothing the       *)
(* contract knows of.                                                      *)
LEMMA StutterRefines ==
  ASSUME OwnedSoFar, NEW t \in Threads,
         \/ \E o \in Objects :
              CallRead(t, o) \/ CallWrite(t, o) \/ CallIsOpen(t, o)
         \/ SetIffFails(t) \/ DoRead(t) \/ ReadReturns(t)
         \/ DoWrite(t) \/ DoIsOpen(t)
  PROVE  UNCHANGED Contract!contract
<1> USE DEF OwnedSoFar, TypeOK
<1>1. /\ \/ \E n \in Fds \cup {NoFd} : EnterKernel(t, n)
         \/ LeaveKernel(t)
         \/ UNCHANGED kernel
      /\ UNCHANGED handle
  BY DEF CallRead, CallWrite, CallIsOpen, SetIffFails, DoRead, ReadReturns,
         DoWrite, DoIsOpen, kernel, NoHandle, NoFd
<1>2. \A o, n : Owns(o, n)' <=> Owns(o, n)
  <2>1. \A n \in Fds : Kept(n)
    BY <1>1, TransferEffect
  <2> QED
    BY <2>1 DEF Owns, IsOpenFd, Kept
<1>3. /\ \A u \in Threads \ {t} : pc'[u] = pc[u] /\ obj'[u] = obj[u] /\ fd'[u] = fd[u]
      /\ \/ pc[t] \notin LifecyclePcs /\ pc'[t] \notin LifecyclePcs
         \/ pc[t] = "setiff" /\ pc'[t] = "undo" /\ obj'[t] = obj[t]
  BY DEF CallRead, CallWrite, CallIsOpen, SetIffFails, DoRead, ReadReturns,
         DoWrite, DoIsOpen, Enter, Goto, Return, LifecyclePcs
<1>4. OpenDevices' = OpenDevices
  BY <1>1, <1>2 DEF OpenDevices
<1>5. Granted' = Granted
  BY <1>2, <1>3 DEF Granted, LifecyclePcs
<1>6. Opening' = Opening /\ Closing' = Closing
  BY <1>3 DEF Opening, Closing, Busy, LifecyclePcs
<1> QED
  BY <1>4, <1>5, <1>6 DEF Contract!contract

(* The other threads' part of what the contract knows.                     *)
OthersStay(t) ==
  \A u \in Threads \ {t} : pc'[u] = pc[u] /\ obj'[u] = obj[u] /\ fd'[u] = fd[u]

LEMMA OpenRefines ==
  ASSUME "serial" \in Discipline,
         OwnedSoFar, NEW t \in Threads, NEW o \in Objects, OpenClone(t, o)
  PROVE  Contract!StartOpen(o)
<1> USE DEF OwnedSoFar, TypeOK, KernelInv
<1> PICK n \in Fds, f \in Files : OpenFile(n, f, o) /\ Enter(t, o, n, "setiff")
  BY DEF OpenClone
<1>1. \A p, k : Owns(p, k)' <=> Owns(p, k)
  <2>1. /\ \A k \in Fds \ {n} : Kept(k)
        /\ fdTable[n] = NoFile
        /\ fdTable'[n] = f /\ file'[f] = Made(o)
    BY OpenFileEffect
  <2>2. \A p \in Objects : ~Owns(p, n) /\ ~Owns(p, n)'
    BY <2>1 DEF Owns, IsOpenFd, Made
  <2>3. \A p : ~Owns(p, n) /\ ~Owns(p, n)'
    BY <2>1, <2>2 DEF Owns, IsOpenFd, Made
  <2> QED
    BY <2>1, <2>3, EntriesKept
<1>2. /\ pc[t] = "idle" /\ pc'[t] = "setiff" /\ obj'[t] = o
      /\ OthersStay(t)
      /\ UNCHANGED handle
  BY DEF OpenClone, Enter, OthersStay
<1>3. ~Busy(o, LifecyclePcs)
  BY DEF OpenClone, MayOpen
<1>4. OpenDevices' = OpenDevices /\ Granted' = Granted
  BY <1>1, <1>2 DEF OpenDevices, Granted, OthersStay
<1>5. Opening' = Opening \cup {o} /\ Closing' = Closing
  BY <1>2 DEF Opening, Closing, Busy, OthersStay
<1>6. o \notin Opening \cup Closing
  BY <1>3 DEF Opening, Closing, Busy, LifecyclePcs
<1> QED
  BY <1>4, <1>5, <1>6 DEF Contract!StartOpen

(* TUNSETIFF finds the name free, so no device of that name is open.       *)
LEMMA SetIffRefines ==
  ASSUME OwnedSoFar, NEW t \in Threads, SetIff(t)
  PROVE  Contract!Grant(obj[t])
<1> USE DEF OwnedSoFar, TypeOK, KernelInv
<1>1. /\ pc[t] = "setiff" /\ pc'[t] = "assign"
      /\ UNCHANGED <<obj, fd, handle>>
      /\ fd[t] \in Fds /\ obj[t] \in Objects /\ NameOf[obj[t]] \in Names
      /\ AttachFile(fd[t], NameOf[obj[t]])
      /\ OthersStay(t)
  BY DEF SetIff, FramesSound, Goto, OthersStay
<1>2. HalfMade(obj[t], fd[t])
  BY <1>1 DEF Ownership, FramesOwn, FrameOwns
<1>3. /\ \A k \in Fds \ {fd[t]} : Kept(k)
      /\ fdTable'[fd[t]] = fdTable[fd[t]] /\ fdTable[fd[t]] \in Files
      /\ file'[fdTable[fd[t]]].maker = file[fdTable[fd[t]]].maker
      /\ file'[fdTable[fd[t]]].iface = NameOf[obj[t]]
  BY <1>1, AttachFileEffect
<1>4. file[fdTable[fd[t]]].maker = obj[t]
  BY <1>2 DEF HalfMade, Made
<1>5. Owns(obj[t], fd[t])'
  BY <1>1, <1>3, <1>4 DEF Owns, IsOpenFd
<1>6. \A p, k : p # obj[t] => (Owns(p, k)' <=> Owns(p, k))
  <2>1. \A p : p # obj[t] => ~Owns(p, fd[t])
    BY <1>1, <1>4 DEF Owns
  <2>2. \A p : p # obj[t] => ~Owns(p, fd[t])'
    BY <1>1, <1>3, <1>4 DEF Owns
  <2> QED
    BY <1>1, <1>3, <2>1, <2>2, EntriesKept
<1>7. (OpenDevices \cup Granted)' = OpenDevices \cup Granted \cup {obj[t]}
  <2>1. obj[t] \in Granted'
    BY <1>1, <1>5 DEF Granted
  <2>2. ASSUME NEW p \in Objects, p # obj[t]
        PROVE  p \in (OpenDevices \cup Granted)' <=> p \in OpenDevices \cup Granted
    <3>1. Owns(p, handle[p])' <=> Owns(p, handle[p])
      BY <1>1, <1>6, <2>2 DEF Owns
    <3>2. (\E u \in Threads : pc[u] = "assign" /\ obj[u] = p /\ Owns(p, fd[u]))'
            <=> \E u \in Threads : pc[u] = "assign" /\ obj[u] = p /\ Owns(p, fd[u])
      <4>1. \A u \in Threads : Owns(p, fd[u])' <=> Owns(p, fd[u])
        BY <1>1, <1>6, <2>2 DEF Owns
      <4>2. \A u \in Threads :
              pc[u] = "assign" /\ obj[u] = p <=> pc'[u] = "assign" /\ obj'[u] = p
        BY <1>1, <2>2 DEF OthersStay
      <4> QED
        BY <4>1, <4>2
    <3> QED
      BY <3>1, <3>2 DEF OpenDevices, Granted
  <2> QED
    BY <1>1, <2>1, <2>2 DEF OpenDevices, Granted
<1>8. Opening' = Opening /\ Closing' = Closing /\ obj[t] \in Opening
  BY <1>1 DEF Opening, Closing, Busy, OthersStay
<1>9. \A p \in OpenDevices \cup Granted : NameOf[p] # NameOf[obj[t]]
  BY <1>1, OwnedNameTaken DEF OpenDevices, Granted, AttachFile, CanAttach
<1> QED
  BY <1>7, <1>8, <1>9 DEF Contract!Grant

(* The handle gets the descriptor that the device was granted.             *)
LEMMA AssignRefines ==
  ASSUME OwnedSoFar, NEW t \in Threads, Assign(t)
  PROVE  Contract!EndOpen(obj[t])
<1> USE DEF OwnedSoFar, TypeOK
<1>1. /\ pc[t] = "assign" /\ pc[t] \in LifecyclePcs /\ pc'[t] = "idle"
      /\ obj[t] \in Objects
      /\ handle' = [handle EXCEPT ![obj[t]] = fd[t]]
      /\ UNCHANGED <<fdTable, file>>
      /\ OthersStay(t)
  BY DEF Assign, Return, FramesSound, LifecyclePcs, OthersStay
<1>2. \A p, k : Owns(p, k)' <=> Owns(p, k)
  BY <1>1 DEF Owns, IsOpenFd
<1>3. \A u \in Threads \ {t} : pc[u] \in LifecyclePcs => obj[u] # obj[t]
  BY <1>1 DEF OneLifecycleCall
<1>4. Owns(obj[t], fd[t])
  BY <1>1 DEF Ownership, FramesOwn, FrameOwns
<1>5. (OpenDevices \cup Granted)' = OpenDevices \cup Granted
  <2>1. obj[t] \in OpenDevices' /\ obj[t] \in Granted
    BY <1>1, <1>2, <1>4 DEF OpenDevices, Granted
  <2>2. ASSUME NEW p \in Objects, p # obj[t]
        PROVE  p \in (OpenDevices \cup Granted)' <=> p \in OpenDevices \cup Granted
    <3>1. Owns(p, handle[p])' <=> Owns(p, handle[p])
      BY <1>1, <1>2, <2>2 DEF Owns
    <3>2. \A u \in Threads :
            pc[u] = "assign" /\ obj[u] = p <=> pc'[u] = "assign" /\ obj'[u] = p
      BY <1>1, <2>2 DEF OthersStay
    <3>3. \A u \in Threads : pc[u] = "assign" /\ obj[u] = p =>
            (Owns(p, fd[u])' <=> Owns(p, fd[u]))
      BY <1>1, <1>2, <2>2 DEF OthersStay, Owns
    <3>4. p \in Granted' <=> p \in Granted
      BY <3>2, <3>3 DEF Granted
    <3> QED
      BY <3>1, <3>4 DEF OpenDevices
  <2> QED
    BY <2>1, <2>2 DEF OpenDevices, Granted
<1>6. obj[t] \in Opening /\ Opening' = Opening \ {obj[t]}
  BY <1>1, <1>3 DEF Opening, Busy, OthersStay, LifecyclePcs
<1>7. Closing' = Closing
  BY <1>1 DEF Closing, Busy, OthersStay
<1> QED
  BY <1>5, <1>6, <1>7 DEF Contract!EndOpen

(* An entry of nobody's that is freed closes no device.                    *)
LEMMA UndoRefines ==
  ASSUME OwnedSoFar, NEW t \in Threads, UndoOpen(t)
  PROVE  Contract!EndOpen(obj[t])
<1> USE DEF OwnedSoFar, TypeOK, KernelInv
<1>1. /\ pc[t] = "undo" /\ pc[t] \in LifecyclePcs /\ pc'[t] = "idle"
      /\ obj[t] \in Objects /\ fd[t] \in Fds
      /\ UNCHANGED handle
      /\ CloseFd(fd[t])
      /\ OthersStay(t)
  BY DEF UndoOpen, Return, FramesSound, LifecyclePcs, OthersStay
<1>2. \A p \in Objects : ~Owns(p, fd[t])
  BY <1>1, OneOwner DEF Ownership, FramesOwn, FrameOwns
<1>3. /\ \A k \in Fds \ {fd[t]} : Kept(k)
      /\ fdTable'[fd[t]] = NoFile
  BY <1>1, CloseFdEffect
<1>4. ASSUME NEW p \in Objects, NEW k
      PROVE  Owns(p, k)' <=> Owns(p, k)
  <2>1. CASE k = fd[t]
    BY <1>2, <1>3, <2>1 DEF Owns, IsOpenFd
  <2>2. CASE k # fd[t]
    BY <1>3, <2>2, EntriesKept
  <2> QED
    BY <2>1, <2>2
<1>5. OpenDevices' = OpenDevices
  BY <1>1, <1>4 DEF OpenDevices
<1>6. Granted' = Granted
  BY <1>1, <1>4 DEF Granted, OthersStay
<1>7. \A u \in Threads \ {t} : pc[u] \in LifecyclePcs => obj[u] # obj[t]
  BY <1>1 DEF OneLifecycleCall
<1>8. obj[t] \in Opening /\ Opening' = Opening \ {obj[t]}
  BY <1>1, <1>7 DEF Opening, Busy, OthersStay, LifecyclePcs
<1>9. Closing' = Closing
  BY <1>1 DEF Closing, Busy, OthersStay
<1> QED
  BY <1>5, <1>6, <1>8, <1>9 DEF Contract!EndOpen

LEMMA CallCloseRefines ==
  ASSUME {"serial", "closeOnce"} \subseteq Discipline,
         OwnedSoFar, NEW t \in Threads, NEW o \in Objects, CallClose(t, o)
  PROVE  Contract!StartClose(o)
<1> USE DEF OwnedSoFar, TypeOK
<1>1. /\ pc[t] = "idle" /\ pc'[t] = "close" /\ obj'[t] = o
      /\ UNCHANGED <<fdTable, file, handle>>
      /\ OthersStay(t)
      /\ o \in held
      /\ ~Busy(o, LifecyclePcs)
  BY DEF CallClose, Enter, OthersStay, MayClose, MayOpen
<1>2. \A p, k : Owns(p, k)' <=> Owns(p, k)
  BY <1>1 DEF Owns, IsOpenFd
<1>3. OpenDevices' = OpenDevices
  BY <1>1, <1>2 DEF OpenDevices
<1>4. Granted' = Granted
  BY <1>1, <1>2 DEF Granted, OthersStay
<1>5. Opening' = Opening /\ Closing' = Closing \cup {o}
  BY <1>1 DEF Opening, Closing, Busy, OthersStay
<1>6. o \in OpenDevices /\ o \notin Opening \cup Closing
  BY <1>1 DEF Ownership, HeldOwned, OpenDevices, Opening, Closing, Busy, LifecyclePcs
<1> QED
  BY <1>3, <1>4, <1>5, <1>6 DEF Contract!StartClose

(* The number that is freed is the device's own, and no other device's.    *)
LEMMA DoCloseRefines ==
  ASSUME OwnedSoFar, NEW t \in Threads, DoClose(t)
  PROVE  Contract!EndClose(obj[t])
<1> USE DEF OwnedSoFar, TypeOK, KernelInv
<1>1. /\ pc[t] = "close" /\ pc[t] \in LifecyclePcs /\ pc'[t] = "idle"
      /\ obj[t] \in Objects
      /\ UNCHANGED handle
      /\ CloseFd(fd[t])
      /\ OthersStay(t)
  BY DEF DoClose, Return, FramesSound, LifecyclePcs, OthersStay
<1>2. Owns(obj[t], fd[t]) /\ fd[t] = handle[obj[t]] /\ fd[t] \in Fds
  BY <1>1 DEF Ownership, FramesOwn, FrameOwns, Owns, IsOpenFd
<1>3. /\ \A k \in Fds \ {fd[t]} : Kept(k)
      /\ fdTable'[fd[t]] = NoFile
  BY <1>1, <1>2, CloseFdEffect
<1>4. \A p, k : k = fd[t] => ~Owns(p, k)'
  BY <1>3 DEF Owns, IsOpenFd
<1>5. \A u \in Threads \ {t} : pc[u] \in LifecyclePcs => obj[u] # obj[t]
  BY <1>1 DEF OneLifecycleCall
<1>6. obj[t] \notin (OpenDevices \cup Granted)'
  <2>1. obj[t] \notin OpenDevices'
    BY <1>1, <1>2, <1>4 DEF OpenDevices
  <2>2. obj[t] \notin Granted'
    BY <1>1, <1>5 DEF Granted, OthersStay, LifecyclePcs
  <2> QED
    BY <2>1, <2>2
<1>7. ASSUME NEW p \in Objects, p # obj[t]
      PROVE  p \in (OpenDevices \cup Granted)' <=> p \in OpenDevices \cup Granted
  <2>1. ASSUME NEW k
        PROVE  Owns(p, k)' <=> Owns(p, k)
    <3>1. CASE k = fd[t]
      BY <1>2, <1>3, <1>7, <3>1, OneOwner DEF Owns, IsOpenFd
    <3>2. CASE k # fd[t]
      BY <1>3, <3>2, EntriesKept
    <3> QED
      BY <3>1, <3>2
  <2>2. p \in OpenDevices' <=> p \in OpenDevices
    BY <1>1, <2>1 DEF OpenDevices
  <2>3. p \in Granted' <=> p \in Granted
    BY <1>1, <1>7, <2>1 DEF Granted, OthersStay
  <2> QED
    BY <2>2, <2>3
<1>8. (OpenDevices \cup Granted)' = (OpenDevices \cup Granted) \ {obj[t]}
  BY <1>6, <1>7 DEF OpenDevices, Granted
<1>9. obj[t] \in Closing /\ Closing' = Closing \ {obj[t]} /\ Opening' = Opening
  BY <1>1, <1>5 DEF Opening, Closing, Busy, OthersStay, LifecyclePcs
<1> QED
  BY <1>8, <1>9 DEF Contract!EndClose

LEMMA JvmRefines ==
  ASSUME OwnedSoFar, JvmOpen \/ JvmClose
  PROVE  UNCHANGED Contract!contract
<1> USE DEF OwnedSoFar, TypeOK, KernelInv
<1>1. \E n \in Fds :
        /\ \A k \in Fds \ {n} : Kept(k)
        /\ \A o \in Objects : ~Owns(o, n) /\ ~Owns(o, n)'
  <2>1. CASE JvmOpen
    <3> PICK n \in Fds, f \in Files : OpenFile(n, f, Jvm)
      BY <2>1 DEF JvmOpen
    <3>1. /\ \A k \in Fds \ {n} : Kept(k)
          /\ fdTable[n] = NoFile
          /\ fdTable'[n] = f /\ file'[f] = Made(Jvm)
      BY OpenFileEffect
    <3> QED
      BY <3>1 DEF Owns, IsOpenFd, Made
  <2>2. CASE JvmClose
    <3> PICK n \in jvmFds : CloseFd(n)
      BY <2>2 DEF JvmClose
    <3>1. /\ \A k \in Fds \ {n} : Kept(k)
          /\ fdTable'[n] = NoFile
      BY CloseFdEffect
    <3>2. \A o \in Objects : ~Owns(o, n)
      BY OneOwner DEF Ownership, JvmOwns
    <3> QED
      BY <3>1, <3>2 DEF Owns, IsOpenFd
  <2> QED
    BY <2>1, <2>2
<1>2. \A p \in Objects : \A k : Owns(p, k)' <=> Owns(p, k)
  BY <1>1, EntriesKept
<1>3. UNCHANGED <<handle, pc, obj, fd>>
  BY DEF JvmOpen, JvmClose
<1>4. OpenDevices' = OpenDevices
  BY <1>2, <1>3 DEF OpenDevices
<1>5. Granted' = Granted
  BY <1>2, <1>3 DEF Granted
<1>6. Opening' = Opening /\ Closing' = Closing
  BY <1>3 DEF Opening, Closing, Busy
<1> QED
  BY <1>4, <1>5, <1>6 DEF Contract!contract

LEMMA NextRefines ==
  ASSUME {"serial", "closeOnce"} \subseteq Discipline,
         OwnedSoFar, [Next]_vars
  PROVE  [Contract!Next]_Contract!contract
<1>1. ASSUME NEW t \in Threads, NEW o \in Objects,
             OpenClone(t, o) \/ CallClose(t, o)
      PROVE  Contract!Next
  BY <1>1, OpenRefines, CallCloseRefines DEF Contract!Next
<1>2. ASSUME NEW t \in Threads,
             SetIff(t) \/ UndoOpen(t) \/ Assign(t) \/ DoClose(t)
      PROVE  Contract!Next
  <2>1. obj[t] \in Objects
    BY <1>2 DEF OwnedSoFar, FramesSound, SetIff, UndoOpen, Assign, DoClose
  <2> QED
    BY <1>2, <2>1, SetIffRefines, UndoRefines, AssignRefines, DoCloseRefines
    DEF Contract!Next
<1>3. ASSUME NEW t \in Threads,
             \/ \E o \in Objects :
                  CallRead(t, o) \/ CallWrite(t, o) \/ CallIsOpen(t, o)
             \/ SetIffFails(t) \/ DoRead(t) \/ ReadReturns(t)
             \/ DoWrite(t) \/ DoIsOpen(t)
      PROVE  UNCHANGED Contract!contract
  BY <1>3, StutterRefines
<1>4. CASE UNCHANGED vars
  BY <1>4 DEF vars, Contract!contract, OpenDevices, Granted, Opening, Closing,
              Busy, Owns, IsOpenFd
<1> QED
  BY <1>1, <1>2, <1>3, <1>4, JvmRefines DEF Next

(* Used as their clients promise to, devices behave as DeviceContract says: *)
(* TUNSETIFF is where open() is granted, close(2) where close() takes       *)
(* effect, and no other step, of any thread, opens or closes a device.      *)
THEOREM LinuxImplementsContract ==
  ASSUME {"serial", "closeOnce"} \subseteq Discipline
  PROVE  Spec => ImplementsContract
BY InitRefines, NextRefines, OwnedAlways, PTL DEF Spec, ImplementsContract, Contract!Spec

==============================================================================
