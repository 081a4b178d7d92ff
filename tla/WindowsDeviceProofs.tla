-------------------------- MODULE WindowsDeviceProofs --------------------------
(***************************************************************************)
(* Theorems about WindowsDevice, for any numbers of objects, threads,      *)
(* adapters, handles and registry keys.                                    *)
(***************************************************************************)
EXTENDS WindowsDevice, FiniteSetTheorems, TLAPS

USE WindowsAssumption

-----------------------------------------------------------------------------
(* Frames                                                                  *)

IPArgs == (Ips \cup {Unparsed}) \X (Masks \cup {Unparsed})

Args == {Nothing} \cup Mtus \cup IPArgs

Results == {Nothing, Threw, Done, Default, NoMtu} \cup Short \cup Addresses

Frame == [pc : Pcs, method : Methods \cup {Nothing},
          obj : Objects \cup {Nobody}, arg : Args,
          handle : Handles \cup {NoHandle}, count : Nat, i : Nat,
          name : Slots \cup {NoKey}, pending : BOOLEAN,
          ifIndex : Adapters \cup {Nothing}, list : SUBSET Addresses,
          result : Results]

Framed == frame \in [Threads -> Frame]

OnlyFrame(t) == \A u \in Threads \ {t} : frame'[u] = frame[u]

LEMMA IdleFrame == Idle \in Frame
BY DEF Idle, Frame, Pcs, Args, Results

LEMMA FieldsTyped ==
  ASSUME NEW f \in Frame
  PROVE  /\ \A x \in Pcs : [f EXCEPT !.pc = x] \in Frame
         /\ \A x \in Handles \cup {NoHandle} : [f EXCEPT !.handle = x] \in Frame
         /\ \A x \in Nat : [f EXCEPT !.count = x] \in Frame
         /\ \A x \in Nat : [f EXCEPT !.i = x] \in Frame
         /\ \A x \in Slots \cup {NoKey} : [f EXCEPT !.name = x] \in Frame
         /\ \A x \in BOOLEAN : [f EXCEPT !.pending = x] \in Frame
         /\ \A x \in Adapters \cup {Nothing} : [f EXCEPT !.ifIndex = x] \in Frame
         /\ \A x \in SUBSET Addresses : [f EXCEPT !.list = x] \in Frame
         /\ \A x \in Results : [f EXCEPT !.result = x] \in Frame
<1>1. \A x \in Pcs : [f EXCEPT !.pc = x] \in Frame
  BY DEF Frame
<1>2. \A x \in Handles \cup {NoHandle} : [f EXCEPT !.handle = x] \in Frame
  BY DEF Frame
<1>3. \A x \in Nat : [f EXCEPT !.count = x] \in Frame
  BY DEF Frame
<1>4. \A x \in Nat : [f EXCEPT !.i = x] \in Frame
  BY DEF Frame
<1>5. \A x \in Slots \cup {NoKey} : [f EXCEPT !.name = x] \in Frame
  BY DEF Frame
<1>6. \A x \in BOOLEAN : [f EXCEPT !.pending = x] \in Frame
  BY DEF Frame
<1>7. \A x \in Adapters \cup {Nothing} : [f EXCEPT !.ifIndex = x] \in Frame
  BY DEF Frame
<1>8. \A x \in SUBSET Addresses : [f EXCEPT !.list = x] \in Frame
  BY DEF Frame
<1>9. \A x \in Results : [f EXCEPT !.result = x] \in Frame
  BY DEF Frame
<1> QED
  BY <1>1, <1>2, <1>3, <1>4, <1>5, <1>6, <1>7, <1>8, <1>9

LEMMA Moved ==
  ASSUME Framed, NEW t \in Threads, NEW f \in Frame,
         frame' = [frame EXCEPT ![t] = f]
  PROVE  Framed' /\ OnlyFrame(t) /\ frame'[t] = f
BY DEF Framed, OnlyFrame

LEMMA GotoEffect ==
  ASSUME Framed, NEW t \in Threads, NEW next \in Pcs, Goto(t, next)
  PROVE  /\ Framed'
         /\ OnlyFrame(t)
         /\ frame'[t] = [frame[t] EXCEPT !.pc = next]
BY FieldsTyped, Moved DEF Framed, Goto

(* The frame of a call that is over.                                       *)
Over(f, r) ==
  [f EXCEPT !.pc = "returned", !.count = 0, !.i = 0, !.name = NoKey,
            !.pending = FALSE, !.result = r]

LEMMA OverFields ==
  ASSUME NEW f \in Frame, NEW r \in Results
  PROVE  /\ Over(f, r) \in Frame
         /\ Over(f, r).pc = "returned" /\ Over(f, r).result = r
         /\ Over(f, r).count = 0 /\ Over(f, r).i = 0
         /\ Over(f, r).method = f.method /\ Over(f, r).obj = f.obj
         /\ Over(f, r).arg = f.arg /\ Over(f, r).ifIndex = f.ifIndex
<1>1. Over(f, r) \in Frame
  BY DEF Over, Frame, Pcs
<1> QED
  BY <1>1 DEF Over, Frame

LEMMA FinishEffect ==
  ASSUME Framed, NEW t \in Threads, NEW r \in Results, Finish(t, r)
  PROVE  Framed' /\ OnlyFrame(t) /\ frame'[t] = Over(frame[t], r)
<1>1. frame[t] \in Frame
  BY DEF Framed
<1>2. Over(frame[t], r) \in Frame
  BY <1>1, OverFields
<1>3. frame' = [frame EXCEPT ![t] = Over(frame[t], r)]
  BY ZenonT(60) DEF Finish, Over
<1> QED
  BY <1>2, <1>3, Moved

(* What a frame gets at the start of a call, and of the walk.              *)
Same(g, f) ==
  /\ g.method = f.method /\ g.obj = f.obj /\ g.arg = f.arg
  /\ g.handle = f.handle /\ g.count = f.count /\ g.name = f.name
  /\ g.ifIndex = f.ifIndex

LEMMA NextKeyEffect ==
  ASSUME Framed, NEW t \in Threads, NEW p \in BOOLEAN, NextKey(t, p)
  PROVE  /\ Framed'
         /\ OnlyFrame(t)
         /\ Same(frame'[t], frame[t])
         /\ frame'[t].pc = "enum" /\ frame'[t].i = frame[t].i + 1
         /\ p => frame'[t].pending
<1> DEFINE f == [frame[t] EXCEPT !.pc = "enum"]
           g == [f EXCEPT !.i = @ + 1]
<1>1. f \in Frame
  BY FieldsTyped DEF Framed, Pcs
<1>2. f.i + 1 \in Nat
  BY <1>1 DEF Frame
<1>3. g \in Frame
  BY <1>1, <1>2, FieldsTyped
<1>4. [g EXCEPT !.pending = p] \in Frame
  BY <1>3, FieldsTyped
<1>5. frame' = [frame EXCEPT ![t] = [g EXCEPT !.pending = p]]
  BY ZenonT(60) DEF NextKey
<1> HIDE DEF g
<1>6. Framed' /\ OnlyFrame(t) /\ frame'[t] = [g EXCEPT !.pending = p]
  BY <1>4, <1>5, Moved
<1> USE DEF g
<1>7. frame[t] \in Frame
  BY DEF Framed
<1>8. /\ Same(frame'[t], frame[t])
      /\ frame'[t].pc = "enum" /\ frame'[t].i = frame[t].i + 1
  BY <1>6, <1>7 DEF Frame, Same
<1>9. p => frame'[t].pending
  BY <1>3, <1>6 DEF Frame
<1> QED
  BY <1>6, <1>8, <1>9

LEMMA ReturnEffect ==
  ASSUME Framed, NEW t \in Threads, Return(t)
  PROVE  Framed' /\ OnlyFrame(t) /\ frame'[t] = Idle
BY IdleFrame, Moved DEF Return

Begun(o, what, arg, next) ==
  [Idle EXCEPT !.pc = next, !.method = what, !.obj = o, !.arg = arg,
               !.handle = deviceHandle[o]]

LEMMA BeginEffect ==
  ASSUME Framed, deviceHandle \in [Objects -> Handles \cup {NoHandle}],
         NEW t \in Threads, NEW o \in Objects,
         NEW what \in Methods, NEW arg \in Args, NEW next \in Pcs,
         Begin(t, o, what, arg, next)
  PROVE  /\ Framed'
         /\ OnlyFrame(t)
         /\ frame'[t] = Begun(o, what, arg, next)
<1>1. Begun(o, what, arg, next) \in Frame
  BY IdleFrame DEF Begun, Frame, Idle
<1>2. frame' = [frame EXCEPT ![t] = Begun(o, what, arg, next)]
  BY DEF Begin, Begun
<1> QED
  BY <1>1, <1>2, Moved

(* What the step of a call and its other fields have to do with each other. *)
FrameSound(f) ==
  /\ f.pc = "idle" => f = Idle
  /\ f.pc # "idle" => f.obj \in Objects
  /\ f.pc # "idle" =>
       /\ f.pc \in {"create", "assign"} <=> f.method = "open"
       /\ f.pc = "closeHandle" <=> f.method = "close"
       /\ f.pc \in {"control", "io"} <=> f.method = "use"
  /\ f.pc = "assign" => f.handle \in Handles
  /\ f.pc \in {"count", "enum", "instance", "value"} =>
       f.method \in {"getMTU", "setMTU"}
  /\ f.pc \in {"resolve", "snapshot"} => f.method \in {"getIP", "setIP"}
  /\ f.pc = "delete" => f.method = "setIP"
  /\ f.pc = "returned" => f.method \in Configuring
  /\ f.count <= Cardinality(Slots) /\ f.i <= f.count
  /\ f.pc = "count" => f.i = 0
  /\ f.pc \in {"instance", "value"} => f.i < f.count
  /\ f.pc # "idle" /\ f.method = "setMTU" =>
       /\ f.arg \in Mtus
       /\ f.pc \in {"enum", "instance", "value"} => f.arg \in Short
  /\ f.pc # "idle" /\ f.method = "getIP" => f.arg = Nothing
  /\ f.pc # "idle" /\ f.method = "setIP" =>
       /\ f.arg \in IPArgs
       /\ f.pc \in {"snapshot", "delete"} => f.arg \in Ips \X Masks

FramesSound == \A t \in Threads : FrameSound(frame[t])

LEMMA KeysCounted ==
  /\ Cardinality(Slots) \in Nat
  /\ IsFiniteSet(Keys)
  /\ Cardinality(Keys) \in 0 .. Cardinality(Slots)
<1>1. Cardinality(Slots) \in Nat
  BY FS_CardinalityType
<1>2. Keys \subseteq Slots
  BY DEF Keys
<1>3. IsFiniteSet(Keys) /\ Cardinality(Keys) <= Cardinality(Slots)
  BY <1>2, FS_Subset
<1>4. Cardinality(Keys) \in Nat
  BY <1>3, FS_CardinalityType
<1> QED
  BY <1>1, <1>3, <1>4

LEMMA IdleSound == FrameSound(Idle)
BY KeysCounted DEF Idle, FrameSound

TypedSoFar ==
  /\ Framed /\ FramesSound
  /\ usage \in Usages
  /\ handleTable \in [Handles -> Objects \cup {Nobody}]
  /\ ref \in [Threads -> Objects \cup {Nobody}]
  /\ deviceHandle \in [Objects -> Handles \cup {NoHandle}]
  /\ held \subseteq Objects
  /\ reg \in [Slots -> Adapters \cup {Foreign, Nothing}]
  /\ mtu \in [Adapters -> Short \cup {NoMtu, Nothing}]
  /\ addrs \in [Adapters -> SUBSET Addresses]
  /\ disturbed \cup refused \cup moved \subseteq Threads

(* A step of thread t leaves the other frames as they are, and its own     *)
(* sound.                                                                  *)
FrameStep(t) == Framed' /\ OnlyFrame(t) /\ FrameSound(frame'[t])

(* A call goes on, or ends.                                                *)
GoesOn(t) ==
  /\ FrameStep(t)
  /\ \/ frame'[t] = Idle
     \/ /\ frame'[t].method = frame[t].method /\ frame'[t].obj = frame[t].obj
        /\ frame'[t].arg = frame[t].arg /\ frame'[t].pc # "idle"
  /\ frame[t].pc # "idle"

(* Only setMTU() ends the process.                                         *)
Dies(t) == Die /\ frame[t].method = "setMTU"

LEMMA CallFrames ==
  ASSUME TypedSoFar, NEW t \in Threads, NEW o \in Objects, Call(t, o)
  PROVE  FrameStep(t)
<1> DEFINE Starts(what, arg, next) ==
             /\ what \in Methods /\ arg \in Args /\ next \in Pcs \ {"idle"}
             /\ Begin(t, o, what, arg, next)
             /\ next \in {"create", "closeHandle", "control", "count", "resolve"}
             /\ next = "create" <=> what = "open"
             /\ next = "closeHandle" <=> what = "close"
             /\ next = "control" <=> what = "use"
             /\ next = "count" => what \in {"getMTU", "setMTU"}
             /\ next = "resolve" => what \in {"getIP", "setIP"}
             /\ what = "setMTU" => arg \in Mtus
             /\ what = "getIP" => arg = Nothing
             /\ what = "setIP" => arg \in IPArgs
<1>1. \E what, arg, next : Starts(what, arg, next)
  <2>1. CASE CallOpen(t, o)
    <3>1. Starts("open", Nothing, "create")
      BY <2>1 DEF CallOpen, Methods, Args, Pcs
    <3> QED
      BY <3>1
  <2>2. CASE CallClose(t, o)
    <3>1. Starts("close", Nothing, "closeHandle")
      BY <2>2 DEF CallClose, Methods, Args, Pcs
    <3> QED
      BY <3>1
  <2>3. CASE CallUse(t, o)
    <3>1. Starts("use", Nothing, "control")
      BY <2>3 DEF CallUse, Methods, Args, Pcs
    <3> QED
      BY <3>1
  <2>4. CASE GetMTU(t, o)
    <3>1. Starts("getMTU", Nothing, "count")
      BY <2>4 DEF GetMTU, Methods, Args, Pcs
    <3> QED
      BY <3>1
  <2>5. CASE SetMTU(t, o)
    <3>1. PICK m \in Mtus : Begin(t, o, "setMTU", m, "count")
      BY <2>5 DEF SetMTU
    <3>2. Starts("setMTU", m, "count")
      BY <3>1 DEF Methods, Args, Pcs
    <3> QED
      BY <3>2
  <2>6. CASE GetIPAddress(t, o)
    <3>1. Starts("getIP", Nothing, "resolve")
      BY <2>6 DEF GetIPAddress, Methods, Args, Pcs
    <3> QED
      BY <3>1
  <2>7. CASE SetIPAddress(t, o)
    <3>1. PICK x \in IPArgs : Begin(t, o, "setIP", x, "resolve")
      BY <2>7 DEF SetIPAddress, IPArgs
    <3>2. Starts("setIP", x, "resolve")
      BY <3>1 DEF Methods, Args, Pcs
    <3> QED
      BY <3>2
  <2> QED
    BY <2>1, <2>2, <2>3, <2>4, <2>5, <2>6, <2>7 DEF Call
<1> PICK what, arg, next : Starts(what, arg, next)
  BY <1>1
<1>2. /\ Framed' /\ OnlyFrame(t)
      /\ frame'[t] = Begun(o, what, arg, next)
  BY BeginEffect DEF TypedSoFar
<1>3. FrameSound(Begun(o, what, arg, next))
  BY KeysCounted DEF Begun, Idle, FrameSound
<1> QED
  BY <1>2, <1>3 DEF FrameStep

LEMMA CreateFileEffect ==
  ASSUME Framed, NEW t \in Threads, CreateFile(t)
  PROVE  \E h \in Handles :
           /\ handleTable[h] = Nobody
           /\ handleTable' = [handleTable EXCEPT ![h] = frame[t].obj]
           /\ Framed' /\ OnlyFrame(t)
           /\ frame'[t] = [frame[t] EXCEPT !.pc = "assign", !.handle = h]
<1> PICK h \in Handles :
      /\ handleTable[h] = Nobody
      /\ handleTable' = [handleTable EXCEPT ![h] = frame[t].obj]
      /\ frame' = [frame EXCEPT ![t].pc = "assign", ![t].handle = h]
  BY DEF CreateFile
<1> DEFINE f == [frame[t] EXCEPT !.pc = "assign"]
<1>1. f \in Frame
  BY FieldsTyped DEF Framed, Pcs
<1>2. [f EXCEPT !.handle = h] \in Frame
  BY <1>1, FieldsTyped
<1>3. frame' = [frame EXCEPT ![t] = [f EXCEPT !.handle = h]]
  OBVIOUS
<1>4. Framed' /\ OnlyFrame(t) /\ frame'[t] = [f EXCEPT !.handle = h]
  BY <1>2, <1>3, Moved
<1> QED
  BY <1>4

LEMMA CountKeysEffect ==
  ASSUME Framed, NEW t \in Threads, CountKeys(t)
  PROVE  /\ Framed' /\ OnlyFrame(t)
         /\ frame'[t] = [frame[t] EXCEPT !.pc = "enum", !.count = Cardinality(Keys)]
<1> DEFINE f == [frame[t] EXCEPT !.pc = "enum"]
<1>1. f \in Frame
  BY FieldsTyped DEF Framed, Pcs
<1>0. Cardinality(Keys) \in Nat
  BY KeysCounted
<1>2. [f EXCEPT !.count = Cardinality(Keys)] \in Frame
  BY <1>0, <1>1, FieldsTyped
<1>3. frame' = [frame EXCEPT ![t] = [f EXCEPT !.count = Cardinality(Keys)]]
  BY DEF CountKeys
<1>4. Framed' /\ OnlyFrame(t) /\ frame'[t] = [f EXCEPT !.count = Cardinality(Keys)]
  BY <1>2, <1>3, Moved
<1> QED
  BY <1>4

LEMMA EnumKeyEffect ==
  ASSUME Framed, NEW t \in Threads, EnumKey(t)
  PROVE  \E k \in Slots \cup {NoKey} :
           /\ disturbed' = IF k \in KeyAt(frame[t].i) THEN disturbed
                           ELSE disturbed \cup {t}
           /\ Framed' /\ OnlyFrame(t)
           /\ frame'[t] = [frame[t] EXCEPT !.pc = "instance", !.name = k]
<1> DEFINE i == frame[t].i
           f == [frame[t] EXCEPT !.pc = "instance"]
<1> PICK k \in KeyAt(i) \cup LastName(t) :
      /\ frame' = [frame EXCEPT ![t].pc = "instance", ![t].name = k]
      /\ disturbed' = IF k \in KeyAt(i) THEN disturbed ELSE disturbed \cup {t}
  BY DEF EnumKey
<1>1. f \in Frame
  BY FieldsTyped DEF Framed, Pcs
<1>2. frame[t].name \in Slots \cup {NoKey}
  BY DEF Framed, Frame
<1>3. k \in Slots \cup {NoKey}
  BY <1>2 DEF KeyAt, Keys, LastName
<1>4. [f EXCEPT !.name = k] \in Frame
  BY <1>1, <1>3, FieldsTyped
<1>5. frame' = [frame EXCEPT ![t] = [f EXCEPT !.name = k]]
  OBVIOUS
<1>6. Framed' /\ OnlyFrame(t) /\ frame'[t] = [f EXCEPT !.name = k]
  BY <1>4, <1>5, Moved
<1> QED
  BY <1>3, <1>6

(* Resolve() goes on only with strings that parse.                         *)
LEMMA ResolveEffect ==
  ASSUME TypedSoFar, NEW t \in Threads, Resolve(t)
  PROVE  /\ Framed' /\ OnlyFrame(t)
         /\ \/ \E g \in IndexOf(frame[t].obj) :
                 /\ Parses(frame[t].arg)
                 /\ frame'[t] = [frame[t] EXCEPT !.pc = "snapshot", !.ifIndex = g]
            \/ frame'[t] = Over(frame[t], Threw)
<1> USE DEF TypedSoFar
<1> PICK g \in IndexOf(frame[t].obj) :
      IF Parses(frame[t].arg)
      THEN frame' = [frame EXCEPT ![t].pc = "snapshot", ![t].ifIndex = g]
      ELSE Finish(t, Threw)
  BY DEF Resolve
<1>1. CASE Parses(frame[t].arg)
  <2> DEFINE f == [frame[t] EXCEPT !.pc = "snapshot"]
  <2>1. f \in Frame
    BY FieldsTyped DEF Framed, Pcs
  <2>2. g \in Adapters \cup {Nothing}
    <3>1. frame[t].obj \in Objects
      BY DEF Resolve, At, TypedSoFar, FramesSound, FrameSound
    <3> QED
      BY <3>1 DEF IndexOf
  <2>3. [f EXCEPT !.ifIndex = g] \in Frame
    BY <2>1, <2>2, FieldsTyped
  <2>4. frame' = [frame EXCEPT ![t] = [f EXCEPT !.ifIndex = g]]
    BY <1>1
  <2>5. Framed' /\ OnlyFrame(t) /\ frame'[t] = [f EXCEPT !.ifIndex = g]
    BY <2>3, <2>4, Moved
  <2> QED
    BY <1>1, <2>5
<1>2. CASE ~Parses(frame[t].arg)
  BY <1>2, FinishEffect DEF Results
<1> QED
  BY <1>1, <1>2

ListOf(f) == IF f.ifIndex \in Adapters THEN addrs[f.ifIndex] ELSE {}

(* The list is read for getIPAddress(), whose answer is taken from it, or  *)
(* for setIPAddress(), which keeps it.                                     *)
LEMMA SnapshotEffect ==
  ASSUME TypedSoFar, NEW t \in Threads, GetAdaptersInfo(t)
  PROVE  /\ Framed' /\ OnlyFrame(t)
         /\ \/ \E r \in Results :
                 /\ \/ r = Threw
                    \/ frame[t].method = "getIP" /\ r \in ListOf(frame[t])
                    \/ frame[t].method = "getIP" /\ r = Nothing /\ ListOf(frame[t]) = {}
                 /\ frame'[t] = Over(frame[t], r)
            \/ /\ frame[t].method = "setIP"
               /\ frame'[t] = [frame[t] EXCEPT !.pc = "delete", !.list = ListOf(frame[t])]
<1> USE DEF TypedSoFar
<1> DEFINE list == ListOf(frame[t])
<1>0. list \in SUBSET Addresses
  BY DEF ListOf
<1>1. CASE Finish(t, Threw)
  BY <1>1, FinishEffect DEF Results
<1>2. CASE /\ frame[t].method = "getIP"
           /\ \E x \in list \cup {Nothing} :
                /\ x = Nothing => list = {}
                /\ Finish(t, x)
  <2> PICK x \in list \cup {Nothing} : (x = Nothing => list = {}) /\ Finish(t, x)
    BY <1>2
  <2>1. x \in Results
    BY <1>0 DEF Results
  <2>2. /\ Framed' /\ OnlyFrame(t)
        /\ frame'[t] = Over(frame[t], x)
    BY <2>1, FinishEffect
  <2> QED
    BY <1>2, <2>1, <2>2
<1>3. CASE /\ frame[t].method = "setIP"
           /\ frame' = [frame EXCEPT ![t].pc = "delete", ![t].list = list]
  <2> DEFINE f == [frame[t] EXCEPT !.pc = "delete"]
  <2>1. f \in Frame
    BY FieldsTyped DEF Framed, Pcs
  <2>2. [f EXCEPT !.list = list] \in Frame
    BY <1>0, <2>1, FieldsTyped
  <2>3. frame' = [frame EXCEPT ![t] = [f EXCEPT !.list = list]]
    BY <1>3
  <2>4. Framed' /\ OnlyFrame(t) /\ frame'[t] = [f EXCEPT !.list = list]
    BY <2>2, <2>3, Moved
  <2> QED
    BY <1>3, <2>4
<1> QED
  BY <1>1, <1>2, <1>3 DEF GetAdaptersInfo, ListOf

LEMMA DeleteEffect ==
  ASSUME Framed, NEW t \in Threads, DeleteIPAddress(t)
  PROVE  \E x \in frame[t].list :
           /\ addrs' = IF x = Given THEN addrs
                       ELSE [addrs EXCEPT ![frame[t].ifIndex] = @ \ {x}]
           /\ Framed' /\ OnlyFrame(t)
           /\ frame'[t] = [frame[t] EXCEPT !.list = @ \ {x}]
<1> PICK x \in frame[t].list :
      /\ frame' = [frame EXCEPT ![t].list = @ \ {x}]
      /\ addrs' = IF x = Given THEN addrs
                  ELSE [addrs EXCEPT ![frame[t].ifIndex] = @ \ {x}]
  BY DEF DeleteIPAddress
<1>1. frame[t].list \ {x} \in SUBSET Addresses
  BY DEF Framed, Frame
<1>2. [frame[t] EXCEPT !.list = frame[t].list \ {x}] \in Frame
  BY <1>1, FieldsTyped DEF Framed
<1>3. frame' = [frame EXCEPT ![t] = [frame[t] EXCEPT !.list = frame[t].list \ {x}]]
  OBVIOUS
<1>4. /\ Framed' /\ OnlyFrame(t)
      /\ frame'[t] = [frame[t] EXCEPT !.list = frame[t].list \ {x}]
  BY <1>2, <1>3, Moved
<1> QED
  BY <1>4

LEMMA DieSound ==
  ASSUME Die
  PROVE  Framed' /\ FramesSound' /\ \A t \in Threads : frame'[t] = Idle
BY IdleFrame, IdleSound DEF Die, Framed, FramesSound

LEMMA StepFrames ==
  ASSUME TypedSoFar, NEW t \in Threads, Step(t)
  PROVE  GoesOn(t) \/ Dies(t)
<1> USE DEF TypedSoFar
<1>0. frame[t] \in Frame /\ FrameSound(frame[t])
  BY DEF Framed, FramesSound
<1>1. CASE CreateFile(t)
  <2> PICK h \in Handles :
         /\ Framed' /\ OnlyFrame(t)
         /\ frame'[t] = [frame[t] EXCEPT !.pc = "assign", !.handle = h]
    BY <1>1, CreateFileEffect
  <2>1. frame[t].pc = "create"
    BY <1>1 DEF CreateFile, At
  <2> QED
    BY <1>0, <2>1 DEF GoesOn, FrameStep, FrameSound, Frame
<1>2. CASE \/ CreateFails(t) \/ Assign(t) \/ CloseHandle(t) \/ ControlFails(t)
           \/ ControlReturns(t) \/ Leave(t)
  BY <1>2, ReturnEffect, IdleSound
  DEF GoesOn, FrameStep, CreateFails, Assign, CloseHandle, ControlFails,
      ControlReturns, Leave, At
<1>3. CASE Control(t) \/ (Compare(t) /\ Goto(t, "value"))
  <2>1. \/ Goto(t, "io") /\ frame[t].pc = "control"
        \/ Goto(t, "value") /\ frame[t].pc = "instance"
    BY <1>3 DEF Control, Compare, At
  <2>2. CASE Goto(t, "io") /\ frame[t].pc = "control"
    <3>1. Framed' /\ OnlyFrame(t) /\ frame'[t] = [frame[t] EXCEPT !.pc = "io"]
      BY <2>2, GotoEffect DEF Pcs
    <3> QED
      BY <1>0, <2>2, <3>1 DEF GoesOn, FrameStep, FrameSound, Frame
  <2>3. CASE Goto(t, "value") /\ frame[t].pc = "instance"
    <3>1. Framed' /\ OnlyFrame(t) /\ frame'[t] = [frame[t] EXCEPT !.pc = "value"]
      BY <2>3, GotoEffect DEF Pcs
    <3> QED
      BY <1>0, <2>3, <3>1 DEF GoesOn, FrameStep, FrameSound, Frame
  <2> QED
    BY <2>1, <2>2, <2>3
<1>4. CASE CountKeys(t)
  <2>1. /\ Framed' /\ OnlyFrame(t)
        /\ frame'[t] = [frame[t] EXCEPT !.pc = "enum", !.count = Cardinality(Keys)]
    BY <1>4, CountKeysEffect
  <2>2. frame[t].pc = "count" /\ Formatted(t)
    BY <1>4 DEF CountKeys, At
  <2> QED
    BY <1>0, <2>1, <2>2, KeysCounted DEF GoesOn, FrameStep, FrameSound, Frame, Formatted, Text
<1>5. CASE EnumKey(t)
  <2> PICK k \in Slots \cup {NoKey} :
         /\ Framed' /\ OnlyFrame(t)
         /\ frame'[t] = [frame[t] EXCEPT !.pc = "instance", !.name = k]
    BY <1>5, EnumKeyEffect
  <2>1. frame[t].pc = "enum" /\ frame[t].i < frame[t].count
    BY <1>5 DEF EnumKey, At
  <2>2. /\ frame'[t].method = frame[t].method /\ frame'[t].obj = frame[t].obj
        /\ frame'[t].arg = frame[t].arg /\ frame'[t].pc = "instance"
        /\ frame'[t].count = frame[t].count /\ frame'[t].i = frame[t].i
    BY <1>0 DEF Frame
  <2>3. FrameSound(frame'[t])
    BY <1>0, <2>1, <2>2 DEF FrameSound
  <2> QED
    BY <2>1, <2>2, <2>3 DEF GoesOn, FrameStep
<1>6. ASSUME NEW p \in BOOLEAN, NextKey(t, p), frame[t].pc \in {"instance", "value"}
      PROVE  GoesOn(t)
  <2>0. Framed
    OBVIOUS
  <2>1. /\ Framed' /\ OnlyFrame(t)
        /\ Same(frame'[t], frame[t])
        /\ frame'[t].pc = "enum" /\ frame'[t].i = frame[t].i + 1
        /\ p => frame'[t].pending
    <3> HIDE DEF TypedSoFar
    <3> QED
      BY <1>6, <2>0, NextKeyEffect, Zenon
  <2> QED
    BY <1>0, <1>6, <2>1 DEF GoesOn, FrameStep, FrameSound, Same, Frame
<1>7. ASSUME NEW r \in Results, Finish(t, r),
             frame[t].pc \in {"count", "enum", "instance", "value", "resolve",
                              "snapshot", "delete"}
      PROVE  GoesOn(t)
  <2>1. /\ Framed' /\ OnlyFrame(t)
        /\ frame'[t] = Over(frame[t], r)
    BY <1>7, FinishEffect
  <2>2. frame[t].method \in Configuring
    BY <1>0, <1>7 DEF FrameSound, Configuring
  <2> QED
    <3>1. /\ frame'[t].pc = "returned"
          /\ frame'[t].count = 0 /\ frame'[t].i = 0
          /\ frame'[t].method = frame[t].method /\ frame'[t].obj = frame[t].obj
          /\ frame'[t].arg = frame[t].arg
      BY <1>0, <2>1, OverFields
    <3>2. FrameSound(frame'[t])
      BY <1>0, <1>7, <2>2, <3>1, KeysCounted DEF FrameSound, Configuring
    <3> QED
      BY <1>7, <2>1, <3>1, <3>2 DEF GoesOn, FrameStep
<1>8. CASE RegistryFails(t) \/ EnumEnds(t) \/ ReadValue(t) \/ AddIPAddress(t)
  <2>1. \E r \in Results : Finish(t, r)
    <3>1. CASE RegistryFails(t) \/ EnumEnds(t)
      BY <3>1 DEF RegistryFails, EnumEnds, Results
    <3>2. CASE AddIPAddress(t)
      BY <3>2 DEF AddIPAddress, Results
    <3>3. CASE ReadValue(t)
      BY <3>3 DEF ReadValue, Results
    <3> QED
      BY <1>8, <3>1, <3>2, <3>3
  <2>2. frame[t].pc \in {"count", "enum", "value", "delete"}
    BY <1>8 DEF RegistryFails, EnumEnds, ReadValue, AddIPAddress, At
  <2> QED
    BY <1>7, <2>1, <2>2
<1>9. CASE Unreadable(t) \/ WriteFails(t)
  <2>1. frame[t].pc \in {"instance", "value"}
    BY <1>9 DEF Unreadable, WriteFails, At
  <2>2. Finish(t, Threw) \/ NextKey(t, TRUE) \/ Dies(t)
    BY <1>0, <1>9
    DEF Unreadable, WriteFails, ThrowAndGoOn, Dies, FrameSound, At
  <2> QED
    BY <1>6, <1>7, <2>1, <2>2 DEF Results
<1>10. CASE WriteValue(t) \/ (Compare(t) /\ NextKey(t, frame[t].pending))
  <2>1. /\ frame[t].pc \in {"instance", "value"}
        /\ NextKey(t, frame[t].pending)
        /\ frame[t].pending \in BOOLEAN
    BY <1>0, <1>10 DEF WriteValue, Compare, At, Frame
  <2> QED
    BY <1>6, <2>1
<1>11. CASE Resolve(t)
  <2>1. frame[t].pc = "resolve"
    BY <1>11 DEF Resolve, At
  <2>2. /\ Framed' /\ OnlyFrame(t)
        /\ \/ \E g \in IndexOf(frame[t].obj) :
                /\ Parses(frame[t].arg)
                /\ frame'[t] = [frame[t] EXCEPT !.pc = "snapshot", !.ifIndex = g]
           \/ frame'[t] = Over(frame[t], Threw)
    BY <1>11, ResolveEffect
  <2>3. frame[t].method = "setIP" /\ Parses(frame[t].arg) =>
          frame[t].arg \in Ips \X Masks
    BY <1>0, <2>1 DEF FrameSound, Parses, IPArgs
  <2>4. /\ frame'[t].method = frame[t].method /\ frame'[t].obj = frame[t].obj
        /\ frame'[t].arg = frame[t].arg
        /\ \/ frame'[t].count = frame[t].count /\ frame'[t].i = frame[t].i
           \/ frame'[t].count = 0 /\ frame'[t].i = 0
        /\ \/ frame'[t].pc = "snapshot" /\ Parses(frame[t].arg)
           \/ frame'[t].pc = "returned"
    <3>1. frame[t] \in Frame
      BY <1>0
    <3>2. CASE frame'[t] = Over(frame[t], Threw)
      BY <3>1, <3>2, OverFields DEF Results
    <3>3. CASE \E g \in IndexOf(frame[t].obj) :
                 /\ Parses(frame[t].arg)
                 /\ frame'[t] = [frame[t] EXCEPT !.pc = "snapshot", !.ifIndex = g]
      BY <3>1, <3>3 DEF Frame
    <3> QED
      BY <2>2, <3>2, <3>3
  <2> QED
    <3>0. frame[t].method \in {"getIP", "setIP"} /\ FrameSound(frame[t])
      BY <1>0, <2>1 DEF FrameSound
    <3>1. FrameSound(frame'[t])
      <4>1. CASE frame'[t].pc = "returned"
        BY <2>1, <2>4, <3>0, <4>1, KeysCounted DEF FrameSound, Configuring
      <4>2. CASE frame'[t].pc = "snapshot" /\ Parses(frame[t].arg)
        BY <2>1, <2>3, <2>4, <3>0, <4>2, KeysCounted DEF FrameSound
      <4> QED
        BY <2>4, <4>1, <4>2
    <3>2. frame'[t].pc # "idle" /\ Framed' /\ OnlyFrame(t)
      BY <2>2, <2>4
    <3> QED
      BY <2>1, <2>4, <3>1, <3>2 DEF GoesOn, FrameStep
<1>12. CASE GetAdaptersInfo(t)
  <2>1. frame[t].pc = "snapshot"
    BY <1>12 DEF GetAdaptersInfo, At
  <2>3. /\ Framed' /\ OnlyFrame(t)
        /\ \/ \E r \in Results :
                frame'[t] = Over(frame[t], r)
           \/ /\ frame[t].method = "setIP"
              /\ frame'[t] = [frame[t] EXCEPT !.pc = "delete",
                                              !.list = ListOf(frame[t])]
    BY <1>12, SnapshotEffect
  <2>4. /\ frame'[t].method = frame[t].method /\ frame'[t].obj = frame[t].obj
        /\ frame'[t].arg = frame[t].arg
        /\ \/ frame'[t].count = frame[t].count /\ frame'[t].i = frame[t].i
           \/ frame'[t].count = 0 /\ frame'[t].i = 0
        /\ \/ frame'[t].pc = "delete" /\ frame[t].method = "setIP"
           \/ frame'[t].pc = "returned"
    <3>1. frame[t] \in Frame
      BY <1>0
    <3>2. CASE \E r \in Results :
                 frame'[t] = Over(frame[t], r)
      BY <3>1, <3>2, OverFields DEF Results
    <3>3. CASE /\ frame[t].method = "setIP"
               /\ frame'[t] = [frame[t] EXCEPT !.pc = "delete", !.list = ListOf(frame[t])]
      <4>1. \A list : \A f \in Frame :
              LET g == [f EXCEPT !.pc = "delete", !.list = list]
              IN  /\ g.method = f.method /\ g.obj = f.obj /\ g.arg = f.arg
                  /\ g.count = f.count /\ g.i = f.i /\ g.pc = "delete"
        BY DEF Frame
      <4> QED
        BY <3>1, <3>3, <4>1
    <3> QED
      BY <2>3, <3>2, <3>3
  <2> QED
    BY <1>0, <2>1, <2>3, <2>4, KeysCounted
    DEF GoesOn, FrameStep, FrameSound, Configuring
<1>13. CASE DeleteIPAddress(t)
  <2> PICK x \in frame[t].list :
         /\ Framed' /\ OnlyFrame(t)
         /\ frame'[t] = [frame[t] EXCEPT !.list = @ \ {x}]
    BY <1>13, DeleteEffect
  <2>1. frame[t].pc = "delete"
    BY <1>13 DEF DeleteIPAddress, At
  <2> QED
    BY <1>0, <2>1 DEF GoesOn, FrameStep, FrameSound, Frame
<1>14. CASE Overflow(t)
  BY <1>14 DEF Overflow, Formatted, Dies
<1>15. Compare(t) => Goto(t, "value") \/ NextKey(t, frame[t].pending)
  BY DEF Compare
<1> QED
  BY <1>1, <1>2, <1>3, <1>4, <1>5, <1>8, <1>9, <1>10, <1>11, <1>12, <1>13, <1>14,
     <1>15
  DEF Step

-----------------------------------------------------------------------------
(* Types                                                                   *)

LEMMA InitTyped == Init => TypedSoFar
BY IdleFrame, IdleSound
DEF Init, TypedSoFar, Framed, FramesSound, Fresh, Addresses

(* The steps that change another variable keep its type.                   *)
LEMMA DataTyped ==
  ASSUME TypedSoFar, [Next]_vars
  PROVE  /\ usage' \in Usages
         /\ handleTable' \in [Handles -> Objects \cup {Nobody}]
         /\ ref' \in [Threads -> Objects \cup {Nobody}]
         /\ deviceHandle' \in [Objects -> Handles \cup {NoHandle}]
         /\ held' \subseteq Objects
         /\ reg' \in [Slots -> Adapters \cup {Foreign, Nothing}]
         /\ mtu' \in [Adapters -> Short \cup {NoMtu, Nothing}]
         /\ addrs' \in [Adapters -> SUBSET Addresses]
         /\ disturbed' \cup refused' \cup moved' \subseteq Threads
<1> DEFINE Data ==
         /\ usage \in Usages
         /\ handleTable \in [Handles -> Objects \cup {Nobody}]
         /\ ref \in [Threads -> Objects \cup {Nobody}]
         /\ deviceHandle \in [Objects -> Handles \cup {NoHandle}]
         /\ held \subseteq Objects
         /\ reg \in [Slots -> Adapters \cup {Foreign, Nothing}]
         /\ mtu \in [Adapters -> Short \cup {NoMtu, Nothing}]
         /\ addrs \in [Adapters -> SUBSET Addresses]
         /\ disturbed \cup refused \cup moved \subseteq Threads
<1>0. Data
  BY DEF TypedSoFar
<1> USE DEF handles, registry, history, system
<1>a. \A t \in Threads : frame[t] \in Frame /\ FrameSound(frame[t])
  BY DEF TypedSoFar, Framed, FramesSound
<1>1. ASSUME NEW t \in Threads, NEW o \in Objects, Call(t, o)
      PROVE  Data'
  <2>1. UNCHANGED <<usage, handleTable, ref, deviceHandle, registry, addrs, history>>
    BY <1>1 DEF Call, CallOpen, CallClose, CallUse, GetMTU, SetMTU,
                GetIPAddress, SetIPAddress, Begin
  <2>2. held' \subseteq held
    BY <1>1 DEF Call, CallOpen, CallClose, CallUse, GetMTU, SetMTU,
                GetIPAddress, SetIPAddress
  <2> QED
    BY <1>0, <2>1, <2>2
<1>2. CASE Die
  BY <1>0, <1>2 DEF Die
<1>3. ASSUME NEW t \in Threads,
             CreateFile(t) \/ Assign(t) \/ CloseHandle(t) \/ Control(t)
             \/ ControlReturns(t) \/ CreateFails(t) \/ ControlFails(t) \/ Leave(t)
      PROVE  Data'
  <2>1. CASE CreateFile(t)
    <3>1. frame[t].obj \in Objects
      BY <1>a, <2>1 DEF CreateFile, At, FrameSound
    <3> QED
      BY <1>0, <2>1, <3>1 DEF CreateFile
  <2>2. CASE Assign(t)
    <3>1. frame[t].obj \in Objects /\ frame[t].handle \in Handles
      BY <1>a, <2>2 DEF Assign, At, FrameSound
    <3> QED
      BY <1>0, <2>2, <3>1 DEF Assign, Return
  <2>3. CASE Control(t)
    BY <1>0, <2>3 DEF Control
  <2>4. CASE \/ CloseHandle(t) \/ ControlReturns(t)
             \/ CreateFails(t) \/ ControlFails(t) \/ Leave(t)
    BY <1>0, <2>4 DEF CloseHandle, ControlReturns, CreateFails, ControlFails,
                      Leave, Return
  <2> QED
    BY <1>3, <2>1, <2>2, <2>3, <2>4
<1>4. ASSUME NEW t \in Threads,
             \/ CountKeys(t) \/ RegistryFails(t) \/ EnumKey(t) \/ EnumEnds(t)
             \/ Unreadable(t) \/ Compare(t) \/ ReadValue(t) \/ WriteFails(t)
      PROVE  Data'
  BY <1>0, <1>2, <1>4
  DEF CountKeys, RegistryFails, EnumKey, EnumEnds, Unreadable, Compare,
      ReadValue, WriteFails, ThrowAndGoOn
<1>5. ASSUME NEW t \in Threads, WriteValue(t)
      PROVE  Data'
  <2>1. Text(frame[t].arg) \in Short \cup {Nothing}
    BY DEF Text
  <2> QED
    BY <1>0, <1>5, <2>1 DEF WriteValue, Concerned
<1>6. ASSUME NEW t \in Threads,
             Resolve(t) \/ GetAdaptersInfo(t) \/ DeleteIPAddress(t) \/ AddIPAddress(t)
      PROVE  Data'
  <2>1. CASE Resolve(t) \/ GetAdaptersInfo(t)
    BY <1>0, <2>1 DEF Resolve, GetAdaptersInfo
  <2>2. CASE DeleteIPAddress(t)
    <3>1. PICK x \in frame[t].list :
            addrs' = IF x = Given THEN addrs
                     ELSE [addrs EXCEPT ![frame[t].ifIndex] = @ \ {x}]
      BY <2>2 DEF DeleteIPAddress
    <3>2. \A g \in Adapters : addrs[g] \ {x} \in SUBSET Addresses
      BY <1>0
    <3>3. addrs' \in [Adapters -> SUBSET Addresses]
      BY <1>0, <3>1, <3>2
    <3> QED
      BY <1>0, <2>2, <3>3 DEF DeleteIPAddress
  <2>3. CASE AddIPAddress(t)
    <3>1. frame[t].arg \in Addresses
      BY <1>a, <2>3 DEF AddIPAddress, At, FrameSound, Addresses
    <3> QED
      BY <1>0, <2>3, <3>1 DEF AddIPAddress
  <2> QED
    BY <1>6, <2>1, <2>2, <2>3
<1>7. ASSUME NEW k \in Slots, Uninstall(k) \/ \E g \in Adapters : Install(g, k)
      PROVE  Data'
  <2>1. disturbed' \cup refused' \cup moved' \subseteq Threads
    BY <1>0, <1>7 DEF Uninstall, Install, Moves, InCall, Concerned
  <2>2. CASE Uninstall(k)
    BY <1>0, <2>1, <2>2 DEF Uninstall
  <2>3. CASE \E g \in Adapters : Install(g, k)
    <3> PICK g \in Adapters : Install(g, k)
      BY <2>3
    <3>1. Fresh(g) \in SUBSET Addresses
      BY DEF Fresh, Addresses
    <3> QED
      BY <1>0, <2>1, <3>1 DEF Install
  <2> QED
    BY <1>7, <2>2, <2>3
<1>8. CASE UNCHANGED vars
  BY <1>0, <1>8 DEF vars
<1>9. Data'
  BY <1>1, <1>2, <1>3, <1>4, <1>5, <1>6, <1>7, <1>8 DEF Next, Step, Overflow
<1> QED
  BY <1>9

LEMMA NextTyped == TypedSoFar /\ [Next]_vars => TypedSoFar'
<1> SUFFICES ASSUME TypedSoFar, [Next]_vars
             PROVE  Framed' /\ FramesSound'
  BY DataTyped DEF TypedSoFar
<1>1. ASSUME NEW t \in Threads, FrameStep(t)
      PROVE  Framed' /\ FramesSound'
  BY <1>1 DEF TypedSoFar, FrameStep, OnlyFrame, FramesSound
<1>2. CASE UNCHANGED frame
  BY <1>2 DEF TypedSoFar, Framed, FramesSound
<1>3. (\E k \in Slots : Uninstall(k) \/ \E g \in Adapters : Install(g, k))
        \/ UNCHANGED vars => UNCHANGED frame
  BY DEF Uninstall, Install, vars
<1> QED
  BY <1>1, <1>2, <1>3, CallFrames, StepFrames, DieSound
  DEF Next, GoesOn, Dies

LEMMA TypedAlways == Spec => []TypedSoFar
BY InitTyped, NextTyped, PTL DEF Spec

(* Every variable keeps its type; the index of a walk over the registry    *)
(* never passes the number of keys it was told.                            *)
THEOREM TypeCorrect == Spec => []TypeOK
<1>1. TypedSoFar => TypeOK
  BY KeysCounted DEF TypedSoFar, TypeOK, Framed, Frame, FramesSound, FrameSound
<1> QED
  BY <1>1, TypedAlways, PTL

-----------------------------------------------------------------------------
(* Handles                                                                 *)

Lifecycle == {"create", "assign", "closeHandle"}

OneLifecycleCall ==
  \A t, u \in InCall(Lifecycle) : frame[t].obj = frame[u].obj => t = u

(* Who has opened a device owns the handle in its field.  An open() that   *)
(* has its handle, and a close() that is about to give its own back, own   *)
(* it though nobody holds the device.                                      *)
HandlesOwned ==
  /\ \A o \in held : Owns(o, deviceHandle[o])
  /\ \A t \in InCall({"assign", "closeHandle"}) :
       Owns(frame[t].obj, frame[t].handle) /\ frame[t].obj \notin held
  /\ \A t \in InCall({"closeHandle"}) :
       frame[t].handle = deviceHandle[frame[t].obj]

Ownership == OneLifecycleCall /\ HandlesOwned

LEMMA InitOwned == Init => Ownership
BY DEF Init, Ownership, OneLifecycleCall, HandlesOwned, InCall, Idle, Lifecycle

(* A step outside open() and close() that leaves the handles alone.        *)
LEMMA ElsewhereKeeps ==
  ASSUME Ownership, Framed, NEW t \in Threads, OnlyFrame(t),
         frame[t].pc \notin Lifecycle, frame'[t].pc \notin Lifecycle,
         UNCHANGED <<handleTable, deviceHandle, held>>
  PROVE  /\ Ownership'
         /\ UNCHANGED <<OpenDevices, Opening, Closing>>
<1>1. \A u \in Threads : frame[u].pc \in Lifecycle \/ frame'[u].pc \in Lifecycle =>
        frame'[u] = frame[u]
  BY DEF OnlyFrame
<1>2. ASSUME NEW pcs, pcs \subseteq Lifecycle
      PROVE  InCall(pcs)' = InCall(pcs) /\ \A u \in InCall(pcs) : frame'[u] = frame[u]
  BY <1>1, <1>2 DEF InCall
<1>a. {"create", "assign"} \subseteq Lifecycle /\ {"assign", "closeHandle"} \subseteq Lifecycle
      /\ {"assign"} \subseteq Lifecycle /\ {"closeHandle"} \subseteq Lifecycle
  BY DEF Lifecycle
<1>4. OneLifecycleCall'
  BY <1>2 DEF Ownership, OneLifecycleCall
<1>5. HandlesOwned'
  BY <1>2, <1>a DEF Ownership, HandlesOwned, Owns
<1>6. UNCHANGED <<OpenDevices, Opening, Closing>>
  BY <1>2, <1>a DEF OpenDevices, Opening, Closing, Owns
<1> QED
  BY <1>4, <1>5, <1>6 DEF Ownership

Carefully == {"serial", "closeOnce"} \subseteq Discipline

(* open() starts: nobody else opens or closes the device.                  *)
LEMMA CallOpenKeeps ==
  ASSUME Carefully, TypedSoFar, Ownership, NEW t \in Threads, NEW o \in Objects,
         CallOpen(t, o)
  PROVE  Ownership' /\ Contract!StartOpen(o)
<1> USE DEF TypedSoFar
<1>1. /\ Framed' /\ OnlyFrame(t)
      /\ frame'[t] = Begun(o, "open", Nothing, "create")
      /\ frame[t].pc = "idle"
      /\ UNCHANGED <<handleTable, deviceHandle, held>>
  <2>1. Begin(t, o, "open", Nothing, "create") /\ UNCHANGED held
    BY DEF CallOpen
  <2>2. "open" \in Methods /\ Nothing \in Args /\ "create" \in Pcs
    BY DEF Methods, Args, Pcs
  <2>3. /\ Framed' /\ OnlyFrame(t)
        /\ frame'[t] = Begun(o, "open", Nothing, "create")
    BY <2>1, <2>2, BeginEffect
  <2> QED
    BY <2>1, <2>3 DEF Begin, At
<1>2. frame'[t].pc = "create" /\ frame'[t].obj = o
  BY <1>1 DEF Begun, Idle
<1>3. o \notin Opening \cup Closing
  BY DEF CallOpen, Serial, Carefully
<1>4. \A u \in Threads \ {t} : frame'[u] = frame[u]
  BY <1>1 DEF OnlyFrame
<1>5. OneLifecycleCall'
  BY <1>1, <1>2, <1>3, <1>4
  DEF Ownership, OneLifecycleCall, InCall, Lifecycle, Opening, Closing
<1>6. HandlesOwned'
  BY <1>1, <1>2, <1>4 DEF Ownership, HandlesOwned, InCall, Owns
<1>7. Opening' = Opening \cup {o} /\ UNCHANGED <<Closing, OpenDevices>>
  BY <1>1, <1>2, <1>4 DEF Opening, Closing, OpenDevices, InCall, Owns
<1> QED
  BY <1>3, <1>5, <1>6, <1>7 DEF Ownership, Contract!StartOpen

(* CreateFile() succeeds: the device is open, and no other device has a    *)
(* file of its adapter.                                                    *)
LEMMA CreateFileKeeps ==
  ASSUME TypedSoFar, Ownership, NEW t \in Threads, CreateFile(t)
  PROVE  Ownership' /\ Contract!Grant(frame[t].obj)
<1> DEFINE o == frame[t].obj
<1> USE DEF TypedSoFar
<1>1. PICK h \in Handles :
        /\ handleTable[h] = Nobody
        /\ handleTable' = [handleTable EXCEPT ![h] = o]
        /\ Framed' /\ OnlyFrame(t)
        /\ frame'[t] = [frame[t] EXCEPT !.pc = "assign", !.handle = h]
  BY CreateFileEffect
<1>2. frame[t] \in Frame /\ frame[t].pc = "create" /\ o \in Objects
  BY DEF CreateFile, At, Framed, FramesSound, FrameSound
<1>3. frame'[t].pc = "assign" /\ frame'[t].obj = o /\ frame'[t].handle = h
  BY <1>1, <1>2 DEF Frame
<1>4. \A u \in Threads \ {t} : frame'[u] = frame[u]
  BY <1>1 DEF OnlyFrame
<1>5. UNCHANGED <<deviceHandle, held>>
  BY DEF CreateFile
<1>6. \A p \in Objects, n \in Handles : handleTable[n] = p => NameOf[p] # NameOf[o]
  BY DEF CreateFile, InUse, FileExists
<1>7. \A p \in Objects : \A n :
        /\ Owns(p, n) => Owns(p, n)' /\ p # o
        /\ Owns(p, n)' => Owns(p, n) \/ p = o
  BY <1>1, <1>2, <1>6 DEF Owns
<1>8. Owns(o, h)'
  BY <1>1 DEF Owns
<1>9. o \notin held
  BY <1>2, <1>7 DEF Ownership, HandlesOwned
<1>10. \A u \in Threads : frame[u].pc # "idle" => frame[u].obj \in Objects
  BY DEF FramesSound, FrameSound
<1>11. OneLifecycleCall'
  BY <1>2, <1>3, <1>4 DEF Ownership, OneLifecycleCall, InCall, Lifecycle
<1>12. HandlesOwned'
  <2>1. \A p \in held' : Owns(p, deviceHandle[p])'
    BY <1>5, <1>7 DEF Ownership, HandlesOwned
  <2>2. ASSUME NEW u \in InCall({"assign", "closeHandle"})'
        PROVE  /\ Owns(frame[u].obj, frame[u].handle)' /\ frame'[u].obj \notin held'
               /\ u \in InCall({"closeHandle"})' =>
                    frame'[u].handle = deviceHandle'[frame'[u].obj]
    <3>1. CASE u = t
      BY <1>3, <1>5, <1>8, <1>9, <3>1 DEF Owns, InCall
    <3>2. CASE u # t
      <4>1. /\ u \in InCall({"assign", "closeHandle"}) /\ frame'[u] = frame[u]
            /\ frame[u].obj \in Objects
        BY <1>4, <1>10, <3>2 DEF InCall
      <4>2. Owns(frame[u].obj, frame[u].handle) /\ frame[u].obj \notin held
        BY <4>1 DEF Ownership, HandlesOwned
      <4>3. Owns(frame[u].obj, frame[u].handle)'
        BY <1>7, <4>1, <4>2 DEF Owns
      <4> QED
        BY <1>5, <4>1, <4>2, <4>3 DEF Ownership, HandlesOwned, InCall
    <3> QED
      BY <3>1, <3>2
  <2> QED
    BY <2>1, <2>2 DEF HandlesOwned, InCall
<1>13. Opening' = Opening /\ Closing' = Closing /\ o \in Opening
  BY <1>2, <1>3, <1>4 DEF Opening, Closing, InCall
<1>14. OpenDevices' = OpenDevices \cup {o}
  BY <1>2, <1>3, <1>4, <1>5, <1>7 DEF OpenDevices, InCall
<1>15. \A p \in OpenDevices : NameOf[p] # NameOf[o]
  <2> SUFFICES ASSUME NEW p \in OpenDevices PROVE NameOf[p] # NameOf[o]
    OBVIOUS
  <2>1. \E n : p \in Objects /\ Owns(p, n)
    BY <1>10 DEF OpenDevices, Ownership, HandlesOwned, InCall
  <2> QED
    BY <1>6, <2>1 DEF Owns
<1> QED
  BY <1>11, <1>12, <1>13, <1>14, <1>15 DEF Ownership, Contract!Grant

LEMMA CreateFailsKeeps ==
  ASSUME TypedSoFar, Ownership, NEW t \in Threads, CreateFails(t)
  PROVE  Ownership' /\ Contract!EndOpen(frame[t].obj)
<1> DEFINE o == frame[t].obj
<1>1. /\ frame[t].pc = "create" /\ OnlyFrame(t) /\ frame'[t].pc = "idle"
      /\ UNCHANGED <<handleTable, deviceHandle, held>>
  BY ReturnEffect DEF CreateFails, At, TypedSoFar, Idle, system, handles
<1>2. \A u \in Threads \ {t} : frame'[u] = frame[u]
  BY <1>1 DEF OnlyFrame
<1>3. OneLifecycleCall'
  BY <1>1, <1>2 DEF Ownership, OneLifecycleCall, InCall, Lifecycle
<1>4. HandlesOwned'
  BY <1>1, <1>2 DEF Ownership, HandlesOwned, InCall, Owns
<1>5. o \in Opening /\ Opening' = Opening \ {o} /\ Closing' = Closing
  BY <1>1, <1>2 DEF Ownership, OneLifecycleCall, InCall, Lifecycle, Opening, Closing
<1>6. OpenDevices' = OpenDevices
  BY <1>1, <1>2 DEF OpenDevices, InCall, Owns
<1> QED
  BY <1>3, <1>4, <1>5, <1>6 DEF Ownership, Contract!EndOpen

(* open() returns: the client holds the device, and the field the handle.  *)
LEMMA AssignKeeps ==
  ASSUME TypedSoFar, Ownership, NEW t \in Threads, Assign(t)
  PROVE  Ownership' /\ Contract!EndOpen(frame[t].obj)
<1> DEFINE o == frame[t].obj
<1>1. /\ frame[t].pc = "assign" /\ OnlyFrame(t) /\ frame'[t].pc = "idle"
      /\ handleTable' = handleTable
      /\ deviceHandle' = [deviceHandle EXCEPT ![o] = frame[t].handle]
      /\ held' = held \cup {o}
  BY ReturnEffect DEF Assign, At, TypedSoFar, Idle
<1>2. \A u \in Threads \ {t} : frame'[u] = frame[u]
  BY <1>1 DEF OnlyFrame
<1>3. /\ o \in Objects /\ deviceHandle \in [Objects -> Handles \cup {NoHandle}]
      /\ held \subseteq Objects
      /\ t \in InCall({"assign", "closeHandle"})
  BY <1>1 DEF TypedSoFar, FramesSound, FrameSound, InCall
<1>4. Owns(o, frame[t].handle) /\ deviceHandle'[o] = frame[t].handle
  BY <1>1, <1>3 DEF Ownership, HandlesOwned
<1>5. \A u \in Threads \ {t} :
        frame[u].pc \in Lifecycle => frame[u].obj \in Objects \ {o}
  BY <1>1 DEF Ownership, OneLifecycleCall, InCall, Lifecycle, TypedSoFar,
              FramesSound, FrameSound
<1>6. \A p \in Objects \ {o} : deviceHandle'[p] = deviceHandle[p]
  BY <1>1, <1>3
<1>7. OneLifecycleCall'
  BY <1>1, <1>2 DEF Ownership, OneLifecycleCall, InCall, Lifecycle
<1>8. HandlesOwned'
  BY <1>1, <1>2, <1>3, <1>4, <1>5, <1>6
  DEF Ownership, HandlesOwned, InCall, Owns, Lifecycle
<1>9. o \in Opening /\ Opening' = Opening \ {o} /\ Closing' = Closing
  BY <1>1, <1>2, <1>5 DEF InCall, Lifecycle, Opening, Closing
<1>10. OpenDevices' = OpenDevices
  BY <1>1, <1>2, <1>3, <1>4, <1>6 DEF OpenDevices, InCall, Owns
<1> QED
  BY <1>7, <1>8, <1>9, <1>10 DEF Ownership, Contract!EndOpen

(* close() starts: the client gives the device up, the handle still owned. *)
LEMMA CallCloseKeeps ==
  ASSUME Carefully, TypedSoFar, Ownership, NEW t \in Threads, NEW o \in Objects,
         CallClose(t, o)
  PROVE  Ownership' /\ Contract!StartClose(o)
<1> USE DEF TypedSoFar
<1>1. /\ Framed' /\ OnlyFrame(t)
      /\ frame'[t] = Begun(o, "close", Nothing, "closeHandle")
      /\ frame[t].pc = "idle"
      /\ held' = held \ {o}
      /\ UNCHANGED <<handleTable, deviceHandle>>
  <2>1. Begin(t, o, "close", Nothing, "closeHandle") /\ held' = held \ {o}
    BY DEF CallClose
  <2>2. "close" \in Methods /\ Nothing \in Args /\ "closeHandle" \in Pcs
    BY DEF Methods, Args, Pcs
  <2>3. /\ Framed' /\ OnlyFrame(t)
        /\ frame'[t] = Begun(o, "close", Nothing, "closeHandle")
    BY <2>1, <2>2, BeginEffect
  <2> QED
    BY <2>1, <2>3 DEF Begin, At
<1>2. frame'[t].pc = "closeHandle" /\ frame'[t].obj = o
      /\ frame'[t].handle = deviceHandle[o]
  BY <1>1 DEF Begun, Idle
<1>3. o \notin Opening \cup Closing /\ o \in held
  BY DEF CallClose, Serial, MayClose, Carefully
<1>4. \A u \in Threads \ {t} : frame'[u] = frame[u]
  BY <1>1 DEF OnlyFrame
<1>5. Owns(o, deviceHandle[o])
  BY <1>3 DEF Ownership, HandlesOwned
<1>6. OneLifecycleCall'
  BY <1>1, <1>2, <1>3, <1>4
  DEF Ownership, OneLifecycleCall, InCall, Lifecycle, Opening, Closing
<1>7. HandlesOwned'
  BY <1>1, <1>2, <1>4, <1>5 DEF Ownership, HandlesOwned, InCall, Owns
<1>8. Closing' = Closing \cup {o} /\ UNCHANGED <<Opening, OpenDevices>>
  BY <1>1, <1>2, <1>4 DEF Opening, Closing, OpenDevices, InCall, Owns
<1> QED
  BY <1>3, <1>5, <1>6, <1>7, <1>8 DEF Ownership, Contract!StartClose, OpenDevices

(* CloseHandle() gives back the handle of the device, and no other.        *)
LEMMA CloseHandleKeeps ==
  ASSUME TypedSoFar, Ownership, NEW t \in Threads, CloseHandle(t)
  PROVE  Ownership' /\ Contract!EndClose(frame[t].obj)
<1> DEFINE o == frame[t].obj
           h == frame[t].handle
<1>1. /\ frame[t].pc = "closeHandle" /\ OnlyFrame(t) /\ frame'[t].pc = "idle"
      /\ handleTable' = [n \in Handles |-> IF n = h THEN Nobody ELSE handleTable[n]]
      /\ UNCHANGED <<deviceHandle, held>>
  BY ReturnEffect DEF CloseHandle, At, TypedSoFar, Idle
<1>2. \A u \in Threads \ {t} : frame'[u] = frame[u]
  BY <1>1 DEF OnlyFrame
<1>3. o \in Objects /\ t \in InCall({"closeHandle"})
      /\ t \in InCall({"assign", "closeHandle"})
  BY <1>1 DEF TypedSoFar, FramesSound, FrameSound, InCall
<1>4. Owns(o, h) /\ o \notin held /\ h = deviceHandle[o]
  BY <1>3 DEF Ownership, HandlesOwned
<1>5. \A u \in Threads \ {t} :
        frame[u].pc \in Lifecycle => frame[u].obj \in Objects \ {o}
  BY <1>1 DEF Ownership, OneLifecycleCall, InCall, Lifecycle, TypedSoFar,
              FramesSound, FrameSound
<1>6. /\ \A p \in Objects \ {o} : \A n : Owns(p, n)' <=> Owns(p, n)
      /\ handleTable'[h] # o
  BY <1>1, <1>3, <1>4 DEF Owns
<1>7. OneLifecycleCall'
  BY <1>1, <1>2 DEF Ownership, OneLifecycleCall, InCall, Lifecycle
<1>8. HandlesOwned'
  <2>1. \A p \in held' : Owns(p, deviceHandle[p])'
    <3>1. \A p \in held : p \in Objects \ {o} /\ Owns(p, deviceHandle[p])
      BY <1>4 DEF TypedSoFar, Ownership, HandlesOwned
    <3> QED
      BY <1>1, <1>6, <3>1 DEF Owns
  <2>2. ASSUME NEW u \in InCall({"assign", "closeHandle"})'
        PROVE  /\ Owns(frame[u].obj, frame[u].handle)' /\ frame'[u].obj \notin held'
               /\ u \in InCall({"closeHandle"})' =>
                    frame'[u].handle = deviceHandle'[frame'[u].obj]
    <3>1. /\ u # t /\ u \in InCall({"assign", "closeHandle"}) /\ frame'[u] = frame[u]
          /\ frame[u].obj \in Objects \ {o}
      BY <1>1, <1>2, <1>5 DEF InCall, Lifecycle
    <3>2. Owns(frame[u].obj, frame[u].handle) /\ frame[u].obj \notin held
      BY <3>1 DEF Ownership, HandlesOwned
    <3>3. Owns(frame[u].obj, frame[u].handle)'
      BY <1>6, <3>1, <3>2 DEF Owns
    <3> QED
      BY <1>1, <3>1, <3>2, <3>3 DEF Ownership, HandlesOwned, InCall
  <2> QED
    BY <2>1, <2>2 DEF HandlesOwned, InCall
<1>9. o \in Closing /\ Closing' = Closing \ {o} /\ Opening' = Opening
  BY <1>1, <1>2, <1>5 DEF InCall, Lifecycle, Opening, Closing
<1>10. OpenDevices' = OpenDevices \ {o}
  <2>1. \A p \in Objects : Owns(p, deviceHandle[p])' <=>
                             p # o /\ Owns(p, deviceHandle[p])
    BY <1>1, <1>4, <1>6 DEF Owns
  <2>2. \A u \in Threads : u \in InCall({"assign"})' <=> u \in InCall({"assign"})
    BY <1>1, <1>2 DEF InCall
  <2>3. \A u \in InCall({"assign"}) : frame'[u] = frame[u] /\ frame[u].obj # o
    BY <1>1, <1>2, <1>5 DEF InCall, Lifecycle
  <2>4. InCall({"assign"})' = InCall({"assign"})
    BY <2>2 DEF InCall
  <2> QED
    BY <2>1, <2>3, <2>4 DEF OpenDevices
<1> QED
  BY <1>7, <1>8, <1>9, <1>10 DEF Ownership, Contract!EndClose

(* The death of the process closes every handle and ends every call.       *)
LEMMA DieKeeps == Die => Ownership'
<1> SUFFICES ASSUME Die PROVE Ownership'
  OBVIOUS
<1>1. \A t \in Threads : frame'[t].pc = "idle"
  BY DieSound DEF Idle
<1>2. held' = {}
  BY DEF Die
<1> QED
  BY <1>1, <1>2 DEF Ownership, OneLifecycleCall, HandlesOwned, InCall, Lifecycle

(* The steps outside open() and close().                                   *)
OtherCall(t, o) ==
  \/ CallUse(t, o) \/ GetMTU(t, o) \/ SetMTU(t, o)
  \/ GetIPAddress(t, o) \/ SetIPAddress(t, o)

OtherStep(t) ==
  \/ Control(t) \/ ControlFails(t) \/ ControlReturns(t)
  \/ Overflow(t) \/ CountKeys(t) \/ RegistryFails(t)
  \/ EnumKey(t) \/ EnumEnds(t) \/ Unreadable(t) \/ Compare(t)
  \/ ReadValue(t) \/ WriteValue(t) \/ WriteFails(t)
  \/ Resolve(t) \/ GetAdaptersInfo(t) \/ DeleteIPAddress(t) \/ AddIPAddress(t)
  \/ Leave(t)

SystemStep == \E k \in Slots : Uninstall(k) \/ \E g \in Adapters : Install(g, k)

HandlesStay == Ownership' /\ UNCHANGED <<OpenDevices, Opening, Closing>>

LEMMA OtherCallKeeps ==
  ASSUME TypedSoFar, Ownership, NEW t \in Threads, NEW o \in Objects,
         OtherCall(t, o)
  PROVE  HandlesStay
<1>1. FrameStep(t)
  BY CallFrames DEF OtherCall, Call
<1>2. \E what, arg, next :
        /\ Begin(t, o, what, arg, next) /\ next \in {"control", "count", "resolve"}
        /\ UNCHANGED held
  BY DEF OtherCall, CallUse, GetMTU, SetMTU, GetIPAddress, SetIPAddress
<1> PICK what, arg, next :
      /\ Begin(t, o, what, arg, next) /\ next \in {"control", "count", "resolve"}
      /\ UNCHANGED held
  BY <1>2
<1>3. /\ frame[t].pc = "idle" /\ frame'[t].pc = next
      /\ UNCHANGED <<handleTable, deviceHandle, held>>
  BY DEF Begin, At, TypedSoFar, Framed, Idle
<1> QED
  BY <1>1, <1>3, ElsewhereKeeps DEF TypedSoFar, FrameStep, Lifecycle, HandlesStay

LEMMA OtherStepKeeps ==
  ASSUME TypedSoFar, Ownership, NEW t \in Threads, OtherStep(t)
  PROVE  HandlesStay \/ Dies(t)
<1> SUFFICES ASSUME ~Dies(t) PROVE HandlesStay
  OBVIOUS
<1> USE DEF system, handles
<1>1. GoesOn(t)
  BY StepFrames DEF OtherStep, Step
<1>2. Framed /\ frame[t] \in Frame
  BY DEF TypedSoFar, Framed
<1>3. UNCHANGED <<handleTable, deviceHandle, held>>
  <2>1. FrameSound(frame[t])
    BY DEF TypedSoFar, FramesSound
  <2>2. ~Overflow(t)
    BY DEF Overflow, Formatted, Dies
  <2>3. Unreadable(t) \/ WriteFails(t) => UNCHANGED system
    BY <2>1 DEF Unreadable, WriteFails, ThrowAndGoOn, Dies, FrameSound, At
  <2> QED
    BY <2>2, <2>3
    DEF OtherStep, Control, ControlFails, ControlReturns, CountKeys,
        RegistryFails, EnumKey, EnumEnds, Compare, ReadValue, WriteValue,
        Resolve, GetAdaptersInfo, DeleteIPAddress, AddIPAddress, Leave
<1>4. frame[t].pc \in Pcs \ (Lifecycle \cup {"idle"})
  BY <1>2
  DEF OtherStep, Control, ControlFails, ControlReturns, Overflow, CountKeys,
      RegistryFails, EnumKey, EnumEnds, Unreadable, Compare, ReadValue,
      WriteValue, WriteFails, Resolve, GetAdaptersInfo, DeleteIPAddress,
      AddIPAddress, Leave, At, Lifecycle, Pcs
<1>5. frame'[t].pc \notin Lifecycle
  <2>1. FrameSound(frame[t])
    BY DEF TypedSoFar, FramesSound
  <2> QED
    BY <1>1, <1>2, <1>4, <2>1
    DEF GoesOn, FrameStep, FrameSound, Frame, Lifecycle, Idle
<1> QED
  BY <1>1, <1>3, <1>4, <1>5, ElsewhereKeeps
  DEF TypedSoFar, GoesOn, FrameStep, HandlesStay

LEMMA SystemStepKeeps ==
  ASSUME Ownership, SystemStep \/ UNCHANGED vars
  PROVE  HandlesStay
<1>1. UNCHANGED <<handleTable, deviceHandle, held, frame>>
  BY DEF SystemStep, Install, Uninstall, vars, system, handles
<1> QED
  BY <1>1 DEF HandlesStay, Ownership, OneLifecycleCall, HandlesOwned, InCall, Owns,
              OpenDevices, Opening, Closing

LEMMA OwnershipKept ==
  ASSUME Carefully, TypedSoFar, Ownership, [Next]_vars
  PROVE  Ownership'
<1>1. ASSUME NEW t \in Threads, NEW o \in Objects, Call(t, o)
      PROVE  Ownership'
  BY <1>1, CallOpenKeeps, CallCloseKeeps, OtherCallKeeps
  DEF Call, OtherCall, HandlesStay
<1>2. ASSUME NEW t \in Threads, Step(t)
      PROVE  Ownership'
  BY <1>2, CreateFileKeeps, CreateFailsKeeps, AssignKeeps, CloseHandleKeeps,
     OtherStepKeeps, DieKeeps
  DEF Dies, Step, OtherStep, HandlesStay
<1> QED
  BY <1>1, <1>2, SystemStepKeeps DEF Next, SystemStep, HandlesStay

LEMMA OwnershipAlways ==
  ASSUME Carefully
  PROVE  Spec => [](TypedSoFar /\ Ownership)
BY InitTyped, NextTyped, InitOwned, OwnershipKept, PTL DEF Spec

(* Whatever numbers other devices give back, a call on a device that is    *)
(* open and not being closed, and the CloseHandle() of its close(), have   *)
(* the handle of a file of its own.                                        *)
THEOREM HandlesReachOwnAdapter ==
  ASSUME Carefully
  PROVE  Spec => []UseReachesOwnAdapter
<1>1. Ownership => UseReachesOwnAdapter
  BY DEF Ownership, HandlesOwned, UseReachesOwnAdapter, At, InCall
<1> QED
  BY <1>1, OwnershipAlways, PTL

(* The methods in use, and the traces of open(): a client that opens       *)
(* nothing holds nothing.                                                  *)
CallsInUse == \A t \in Threads : frame[t].pc # "idle" => frame[t].method \in usage

NothingOpen == held = {} /\ \A h \in Handles : handleTable[h] = Nobody

UsageFollowed == CallsInUse /\ ("open" \notin usage => NothingOpen)

LEMMA UsageStays == [Next]_vars => usage' = usage
  BY ZenonT(60) DEF Next, Call, CallOpen, CallClose, CallUse, GetMTU, SetMTU, GetIPAddress,
         SetIPAddress, Begin, Step, Overflow, Die, CreateFile, CreateFails, Assign,
         CloseHandle, Control, ControlFails, ControlReturns, CountKeys,
         RegistryFails, EnumKey, EnumEnds, Unreadable, Compare, ReadValue,
         WriteValue, WriteFails, ThrowAndGoOn, Resolve, GetAdaptersInfo,
         DeleteIPAddress, AddIPAddress, Leave, Install, Uninstall, vars,
         system

LEMMA CallsInUseKept ==
  ASSUME TypedSoFar, CallsInUse, [Next]_vars
  PROVE  CallsInUse'
<1> USE DEF system, handles, registry
<1>1. ASSUME NEW t \in Threads, NEW o \in Objects, Call(t, o)
      PROVE  CallsInUse'
  <2>1. FrameStep(t)
    BY <1>1, CallFrames
  <2>2. \E what, arg, next : Begin(t, o, what, arg, next)
    BY <1>1
    DEF Call, CallOpen, CallClose, CallUse, GetMTU, SetMTU, GetIPAddress,
        SetIPAddress
  <2> PICK what, arg, next : Begin(t, o, what, arg, next)
    BY <2>2
  <2>3. frame'[t].method \in usage /\ usage' = usage
    BY DEF Begin, TypedSoFar, Framed, Idle
  <2> QED
    BY <2>1, <2>3 DEF CallsInUse, FrameStep, OnlyFrame
<1>2. CASE Die
  BY <1>2, DieSound DEF CallsInUse, Idle
<1>3. usage' = usage
  BY UsageStays
<1>4. ASSUME NEW t \in Threads, GoesOn(t)
      PROVE  CallsInUse'
  BY <1>3, <1>4 DEF CallsInUse, GoesOn, FrameStep, OnlyFrame, Idle
<1>5. CASE SystemStep \/ UNCHANGED vars
  BY <1>3, <1>5 DEF SystemStep, Install, Uninstall, CallsInUse, vars
<1> QED
  BY <1>1, <1>2, <1>4, <1>5, StepFrames DEF Next, SystemStep, Dies

LEMMA NothingOpenKept ==
  ASSUME Carefully, TypedSoFar, Ownership, UsageFollowed, "open" \notin usage,
         [Next]_vars
  PROVE  NothingOpen' /\ UNCHANGED <<OpenDevices, Opening, Closing>>
<1> USE DEF system, handles, registry
<1>1. \A t \in Threads : frame[t].pc \notin {"create", "assign"}
  BY DEF UsageFollowed, CallsInUse, TypedSoFar, FramesSound, FrameSound
<1>2. ASSUME NEW t \in Threads PROVE frame[t].pc # "closeHandle"
  <2> SUFFICES ASSUME frame[t].pc = "closeHandle" PROVE FALSE
    OBVIOUS
  <2>1. Owns(frame[t].obj, frame[t].handle)
    BY DEF Ownership, HandlesOwned, InCall
  <2>2. frame[t].obj \in Objects
    BY DEF TypedSoFar, FramesSound, FrameSound
  <2> QED
    BY <2>1, <2>2 DEF Owns, UsageFollowed, NothingOpen
<1>3. Opening = {} /\ Closing = {} /\ OpenDevices = {}
  BY <1>1, <1>2
  DEF Opening, Closing, OpenDevices, InCall, Owns, UsageFollowed, NothingOpen
<1>4. \A t \in Threads :
        ~(CreateFile(t) \/ CreateFails(t) \/ Assign(t) \/ CloseHandle(t))
  BY <1>1, <1>2 DEF CreateFile, CreateFails, Assign, CloseHandle, At
<1>5. \A t \in Threads, o \in Objects : ~CallOpen(t, o) /\ ~CallClose(t, o)
  BY DEF CallOpen, CallClose, Begin, MayClose, Carefully, UsageFollowed, NothingOpen
<1>6. HandlesStay \/ Die
  BY <1>4, <1>5, OtherCallKeeps, OtherStepKeeps, SystemStepKeeps
  DEF Next, Call, OtherCall, Step, OtherStep, SystemStep, Dies
<1>7. CASE Die
  <2>1. \A t \in Threads : frame'[t].pc = "idle"
    BY <1>7, DieSound DEF Idle
  <2>2. NothingOpen'
    BY <1>7 DEF Die, NothingOpen
  <2> QED
    BY <1>3, <2>1, <2>2 DEF Opening, Closing, OpenDevices, InCall, Owns, NothingOpen
<1>8. CASE HandlesStay /\ ~Die
  <2>1. UNCHANGED <<handleTable, held>>
    <3>1. ASSUME NEW t \in Threads, NEW o \in Objects, OtherCall(t, o)
          PROVE  UNCHANGED <<handleTable, held>>
      BY <3>1 DEF OtherCall, CallUse, GetMTU, SetMTU, GetIPAddress, SetIPAddress, Begin
    <3>2. ASSUME NEW t \in Threads, OtherStep(t)
          PROVE  UNCHANGED <<handleTable, held>>
      BY <1>8, <3>2
      DEF OtherStep, Overflow, Control, ControlFails, ControlReturns, CountKeys,
          RegistryFails, EnumKey, EnumEnds, Unreadable, Compare, ReadValue,
          WriteValue, WriteFails, ThrowAndGoOn, Resolve, GetAdaptersInfo,
          DeleteIPAddress, AddIPAddress, Leave
    <3>3. SystemStep \/ UNCHANGED vars => UNCHANGED <<handleTable, held>>
      BY DEF SystemStep, Install, Uninstall, vars
    <3> QED
      BY <1>4, <1>5, <3>1, <3>2, <3>3
      DEF Next, Call, OtherCall, Step, OtherStep, SystemStep
  <2> QED
    BY <1>8, <2>1 DEF HandlesStay, UsageFollowed, NothingOpen
<1> QED
  BY <1>6, <1>7, <1>8

(* The contract says nothing of the death of a process.  The system shows  *)
(* one in setMTU() only.                                                   *)
DiesUnopened == \A u \in Usages : "setMTU" \in u => "open" \notin u

LEMMA ContractStep ==
  ASSUME Carefully, DiesUnopened, TypedSoFar, Ownership, UsageFollowed, [Next]_vars
  PROVE  [Contract!Next]_<<OpenDevices, Opening, Closing>>
<1>0. CASE "open" \notin usage
  BY <1>0, NothingOpenKept
<1>a. CASE "open" \in usage
  <2>1. "setMTU" \notin usage
    BY <1>a DEF DiesUnopened, TypedSoFar
  <2>2. ASSUME NEW t \in Threads, OtherStep(t) PROVE ~Dies(t)
    <3>1. frame[t].pc = "idle" => ~OtherStep(t)
      BY DEF OtherStep, Overflow, Control, ControlFails, ControlReturns, CountKeys,
             RegistryFails, EnumKey, EnumEnds, Unreadable, Compare, ReadValue,
             WriteValue, WriteFails, Resolve, GetAdaptersInfo, DeleteIPAddress,
             AddIPAddress, Leave, At
    <3> QED
      BY <2>1, <2>2, <3>1 DEF Dies, UsageFollowed, CallsInUse
  <2>3. ASSUME NEW t \in Threads, NEW o \in Objects, Call(t, o)
        PROVE  Contract!StartOpen(o) \/ Contract!StartClose(o) \/ HandlesStay
    BY <2>3, CallOpenKeeps, CallCloseKeeps, OtherCallKeeps DEF Call, OtherCall
  <2>4. ASSUME NEW t \in Threads, Step(t)
        PROVE  \/ HandlesStay
               \/ /\ frame[t].obj \in Objects
                  /\ \/ Contract!Grant(frame[t].obj)
                     \/ Contract!EndOpen(frame[t].obj)
                     \/ Contract!EndClose(frame[t].obj)
    <3>1. CASE OtherStep(t)
      BY <2>2, <3>1, OtherStepKeeps
    <3>2. CASE CreateFile(t) \/ CreateFails(t) \/ Assign(t) \/ CloseHandle(t)
      <4>1. frame[t].obj \in Objects
        BY <3>2 DEF CreateFile, CreateFails, Assign, CloseHandle, At, TypedSoFar,
                    FramesSound, FrameSound
      <4> QED
        BY <3>2, <4>1, CreateFileKeeps, CreateFailsKeeps, AssignKeeps, CloseHandleKeeps
    <3> QED
      BY <2>4, <3>1, <3>2 DEF Step, OtherStep
  <2>5. CASE \E t \in Threads, o \in Objects : Call(t, o)
    BY <2>3, <2>5 DEF Contract!Next, HandlesStay
  <2>6. CASE \E t \in Threads : Step(t)
    BY <2>4, <2>6 DEF Contract!Next, HandlesStay
  <2>7. CASE SystemStep \/ UNCHANGED vars
    BY <2>7, SystemStepKeeps DEF HandlesStay
  <2> QED
    BY <2>5, <2>6, <2>7 DEF Next, SystemStep
<1> QED
  BY <1>0, <1>a

LEMMA UsageAlways ==
  ASSUME Carefully
  PROVE  Spec => [](TypedSoFar /\ Ownership /\ UsageFollowed)
<1>1. Init => UsageFollowed
  BY DEF Init, UsageFollowed, CallsInUse, NothingOpen, Idle
<1>2. TypedSoFar /\ Ownership /\ UsageFollowed /\ [Next]_vars => UsageFollowed'
  <2>1. TypedSoFar /\ [Next]_vars => usage' = usage
    BY UsageStays
  <2> QED
    BY <2>1, CallsInUseKept, NothingOpenKept DEF UsageFollowed
<1> QED
  BY <1>1, <1>2, OwnershipAlways, PTL DEF Spec

(* open() and close() on Windows keep the contract that they keep on the   *)
(* other platforms: CreateFile() is the moment an open() is granted at,    *)
(* CloseHandle() the one a close() ends at.                                *)
THEOREM WindowsImplementsContract ==
  ASSUME Carefully, DiesUnopened
  PROVE  Spec => ImplementsContract
<1>1. Init => Contract!Init
  BY DEF Init, Contract!Init, OpenDevices, Opening, Closing, InCall, Owns, Idle
<1>2. TypedSoFar /\ Ownership /\ UsageFollowed /\ [Next]_vars
        => [Contract!Next]_<<OpenDevices, Opening, Closing>>
  BY ContractStep
<1> QED
  BY <1>1, <1>2, UsageAlways, PTL
  DEF Spec, ImplementsContract, Contract!Spec, Contract!contract

-----------------------------------------------------------------------------
(* Settings                                                                *)

Own(t) == NameOf[frame[t].obj]

(* An adapter has one key; a walk that has found its adapter, or an index  *)
(* that has been resolved, is about the own adapter.                       *)
KeysUnique ==
  \A j, k \in Slots : reg[j] = reg[k] /\ reg[j] \in Adapters => j = k

FoundOwn(t) ==
  At(t, "value") /\ t \notin moved =>
    frame[t].name \in Slots /\ reg[frame[t].name] = Own(t)

ResolvedOwn(t) ==
  t \in InCall({"snapshot", "delete"}) /\ ~strayed => frame[t].ifIndex = Own(t)

AboutOwn == KeysUnique /\ \A t \in Threads : FoundOwn(t) /\ ResolvedOwn(t)

(* With "config": one call at a time is about the settings of an adapter.  *)
OneConfigurator ==
  \A t, u \in Threads :
    frame[t].method \in Configuring /\ frame[u].method \in Configuring
      /\ Own(t) = Own(u) => t = u

Rank(k) == Cardinality({j \in Keys : j < k})

(* The walk has the key of its adapter still ahead of it, or it has set    *)
(* the value or is going to throw.                                         *)
Ahead(t) ==
  \E k \in Slots :
    /\ reg[k] = Own(t) /\ frame[t].count = Cardinality(Keys)
    /\ At(t, "enum") => Rank(k) >= frame[t].i
    /\ At(t, "instance") => Rank(k) > frame[t].i \/ frame[t].name = k

Settled(t) ==
  /\ frame[t].method = "setMTU"
  /\ frame[t].pending \/ mtu[Own(t)] = frame[t].arg \/ t \in refused

WalkSound(t) ==
  t \in InCall({"enum", "instance"}) /\ Installed(Own(t))
      /\ t \notin disturbed \cup moved =>
    Ahead(t) \/ Settled(t)

(* What setIPAddress() has left to delete.                                 *)
ListSound(t) ==
  At(t, "delete") /\ ~strayed /\ t \notin moved =>
    addrs[Own(t)] \ {Given} \subseteq frame[t].list

MTUAnswerSound(t) ==
  At(t, "returned") /\ frame[t].result # Threw /\ t \notin moved =>
    /\ frame[t].method = "getMTU" =>
         \/ Installed(Own(t)) /\ frame[t].result = mtu[Own(t)]
         \/ frame[t].result = Default /\ (~Installed(Own(t)) \/ t \in disturbed)
    /\ frame[t].method = "setMTU" =>
         \/ mtu[Own(t)] = frame[t].arg \/ ~Installed(Own(t))
         \/ t \in disturbed \cup refused

IPAnswerSound(t) ==
  At(t, "returned") /\ frame[t].result # Threw /\ ~strayed /\ t \notin moved =>
    /\ frame[t].method = "getIP" =>
         \/ frame[t].result \in addrs[Own(t)]
         \/ frame[t].result = Nothing /\ addrs[Own(t)] = {}
    /\ frame[t].method = "setIP" => addrs[Own(t)] \ {Given} = {frame[t].arg}

ConfigSound(t) ==
  WalkSound(t) /\ ListSound(t) /\ MTUAnswerSound(t) /\ IPAnswerSound(t)

Configured == OneConfigurator /\ \A t \in Threads : ConfigSound(t)

LEMMA OwnAdapter ==
  ASSUME TypedSoFar, NEW t \in Threads, frame[t].pc # "idle"
  PROVE  Own(t) \in Adapters
BY DEF TypedSoFar, FramesSound, FrameSound, Own

(* What is left alone around a thread that does not move, unless its       *)
(* adapter does.                                                           *)
Untouched(u) ==
  /\ \A k \in Slots : reg'[k] = Own(u) <=> reg[k] = Own(u)
  /\ mtu'[Own(u)] = mtu[Own(u)]
  /\ ~strayed' => addrs'[Own(u)] = addrs[Own(u)]
  /\ reg' = reg \/ (u \in InCall({"enum", "instance"}) => u \in disturbed')

Unmoved(u) ==
  /\ frame'[u] = frame[u]
  /\ ~strayed' => ~strayed
  /\ u \in disturbed => u \in disturbed'
  /\ u \in refused => u \in refused'
  /\ u \in moved => u \in moved'
  /\ u \in moved' \/ Untouched(u)

LEMMA UnmovedKeeps ==
  ASSUME NEW u \in Threads, Unmoved(u), FoundOwn(u), ResolvedOwn(u)
  PROVE  /\ FoundOwn(u)' /\ ResolvedOwn(u)'
         /\ ConfigSound(u) => ConfigSound(u)'
<1>1. /\ Own(u)' = Own(u)
      /\ \A pcs : (u \in InCall(pcs))' <=> u \in InCall(pcs)
      /\ \A pc : At(u, pc)' <=> At(u, pc)
  BY DEF Unmoved, Own, InCall, At
<1>a. Untouched(u) => (Installed(Own(u))' <=> Installed(Own(u)))
  BY <1>1 DEF Untouched, Installed
<1>2. FoundOwn(u)' /\ ResolvedOwn(u)'
  BY <1>1 DEF Unmoved, Untouched, FoundOwn, ResolvedOwn
<1>3. ASSUME WalkSound(u) PROVE WalkSound(u)'
  <2> SUFFICES ASSUME (u \in InCall({"enum", "instance"}))', Installed(Own(u))',
                      u \notin disturbed', u \notin moved'
               PROVE  Ahead(u)' \/ Settled(u)'
    BY DEF WalkSound
  <2>0. Untouched(u)
    BY DEF Unmoved
  <2>1. reg' = reg /\ (Ahead(u) \/ Settled(u))
    BY <1>1, <1>a, <1>3, <2>0 DEF Unmoved, Untouched, WalkSound
  <2>2. Keys' = Keys /\ \A k : Rank(k)' = Rank(k)
    BY <2>1 DEF Keys, Rank
  <2>3. Ahead(u) => Ahead(u)'
    BY <1>1, <2>1, <2>2 DEF Ahead, Unmoved
  <2>4. Settled(u) => Settled(u)'
    BY <1>1, <2>0 DEF Settled, Unmoved, Untouched
  <2> QED
    BY <2>1, <2>3, <2>4
<1>4. ListSound(u) => ListSound(u)'
  BY <1>1 DEF ListSound, Unmoved, Untouched
<1>5. MTUAnswerSound(u) => MTUAnswerSound(u)'
  BY <1>1, <1>a DEF MTUAnswerSound, Unmoved, Untouched
<1>6. IPAnswerSound(u) => IPAnswerSound(u)'
  BY <1>1 DEF IPAnswerSound, Unmoved, Untouched
<1> QED
  BY <1>2, <1>3, <1>4, <1>5, <1>6 DEF ConfigSound

(* An adapter that comes or goes moves the calls that are about it.        *)
LEMMA SystemUnmoves ==
  ASSUME TypedSoFar, SystemStep \/ UNCHANGED vars, NEW u \in Threads,
         frame[u].method \in Configuring, frame[u].pc # "idle"
  PROVE  Unmoved(u)
<1> USE DEF system, registry, history
<1>1. Own(u) \in Adapters
  BY OwnAdapter
<1>2. CASE UNCHANGED vars
  BY <1>2 DEF vars, Unmoved, Untouched
<1>3. ASSUME NEW k \in Slots, NEW g \in Adapters, Install(g, k)
      PROVE  Unmoved(u)
  <2>1. /\ frame' = frame /\ UNCHANGED <<refused, strayed>>
        /\ disturbed' = disturbed \cup InCall({"enum", "instance", "value"})
        /\ moved' = moved \cup Concerned(g)
    BY <1>3 DEF Install, Moves
  <2>2. CASE g = Own(u)
    BY <2>1, <2>2 DEF Unmoved, Concerned, Own
  <2>3. CASE g # Own(u)
    <3>1. Untouched(u)
      BY <1>1, <1>3, <2>1, <2>3 DEF Install, Untouched, InCall, TypedSoFar
    <3> QED
      BY <2>1, <3>1 DEF Unmoved
  <2> QED
    BY <2>2, <2>3
<1>4. ASSUME NEW k \in Slots, Uninstall(k)
      PROVE  Unmoved(u)
  <2>1. /\ frame' = frame /\ UNCHANGED <<refused, strayed>>
        /\ disturbed' = disturbed \cup InCall({"enum", "instance", "value"})
        /\ moved' = moved \cup Concerned(reg[k])
    BY <1>4 DEF Uninstall, Moves
  <2>2. CASE reg[k] = Own(u)
    BY <2>1, <2>2 DEF Unmoved, Concerned, Own
  <2>3. CASE reg[k] # Own(u)
    <3>1. Untouched(u)
      BY <1>1, <1>4, <2>1, <2>3 DEF Uninstall, Untouched, InCall, TypedSoFar
    <3> QED
      BY <2>1, <3>1 DEF Unmoved
  <2> QED
    BY <2>2, <2>3
<1> QED
  BY <1>2, <1>3, <1>4 DEF SystemStep

(* What has happened to the calls of other threads is not forgotten.       *)
Remembered(t) ==
  \A u \in Threads \ {t} :
    /\ u \in disturbed => u \in disturbed'
    /\ u \in refused => u \in refused'
    /\ u \in moved => u \in moved'

(* What the steps of a call do to the settings.                            *)
LEMMA StepSettings ==
  ASSUME TypedSoFar, NEW t \in Threads, Step(t)
  PROVE  /\ reg' = reg
         /\ mtu' = mtu \/ WriteValue(t)
         /\ addrs' = addrs \/ DeleteIPAddress(t) \/ AddIPAddress(t)
         /\ ~strayed' => ~strayed
         /\ ~Dies(t) => Remembered(t)
<1> USE DEF system, registry, history, Remembered
<1>0. frame[t] \in Frame /\ FrameSound(frame[t])
  BY DEF TypedSoFar, Framed, FramesSound
<1>1. CASE \/ CreateFile(t) \/ CreateFails(t) \/ Assign(t) \/ CloseHandle(t)
           \/ Control(t) \/ ControlFails(t) \/ ControlReturns(t) \/ Leave(t)
  BY <1>1 DEF CreateFile, CreateFails, Assign, CloseHandle, Control, ControlFails,
              ControlReturns, Leave, Return
<1>2. CASE \/ CountKeys(t) \/ RegistryFails(t) \/ EnumKey(t) \/ EnumEnds(t)
           \/ Compare(t) \/ ReadValue(t) \/ WriteValue(t)
  BY <1>2 DEF CountKeys, RegistryFails, EnumKey, EnumEnds, Compare, ReadValue, WriteValue
<1>3. CASE Overflow(t) \/ Unreadable(t) \/ WriteFails(t)
  <2>1. Overflow(t) => Dies(t)
    BY DEF Overflow, Formatted, Dies
  <2>2. Unreadable(t) \/ WriteFails(t) => Dies(t) \/ UNCHANGED <<system, history>>
    BY <1>0 DEF Unreadable, WriteFails, ThrowAndGoOn, Dies, FrameSound, At
  <2>3. Dies(t) => UNCHANGED <<reg, mtu, addrs, strayed>>
    BY DEF Dies, Die
  <2> QED
    BY <1>3, <2>1, <2>2, <2>3
<1>4. CASE GetAdaptersInfo(t) \/ DeleteIPAddress(t) \/ AddIPAddress(t)
  BY <1>4 DEF GetAdaptersInfo, DeleteIPAddress, AddIPAddress
<1>5. CASE Resolve(t)
  <2>1. ~strayed' => ~strayed
    BY <1>5, Zenon DEF Resolve
  <2>2. UNCHANGED <<registry, addrs, disturbed, refused, moved>>
    BY <1>5 DEF Resolve
  <2> QED
    BY <2>1, <2>2
<1> QED
  BY <1>1, <1>2, <1>3, <1>4, <1>5 DEF Step

(* A call changes the settings of its own adapter only.                    *)
LEMMA StepsAboutOwn ==
  ASSUME TypedSoFar, AboutOwn, NEW t \in Threads, Step(t),
         NEW g \in Adapters, g # Own(t)
  PROVE  /\ mtu'[g] = mtu[g] \/ t \in moved
         /\ ~strayed => addrs'[g] = addrs[g]
<1>1. ASSUME t \notin moved PROVE mtu'[g] = mtu[g]
  <2>1. CASE WriteValue(t)
    <3>1. Instance(t) = Own(t)
      BY <1>1, <2>1 DEF AboutOwn, FoundOwn, WriteValue, Instance
    <3> QED
      BY <2>1, <3>1 DEF WriteValue, TypedSoFar
  <2> QED
    BY <2>1, StepSettings
<1>2. ASSUME ~strayed PROVE addrs'[g] = addrs[g]
  <2>2. CASE DeleteIPAddress(t) \/ AddIPAddress(t)
    <3>1. frame[t].ifIndex = Own(t)
      BY <1>2, <2>2 DEF AboutOwn, ResolvedOwn, DeleteIPAddress, AddIPAddress, At, InCall
    <3> QED
      BY <2>2, <3>1 DEF DeleteIPAddress, AddIPAddress, TypedSoFar
  <2> QED
    BY <2>2, StepSettings
<1> QED
  BY <1>1, <1>2

LEMMA StepUnmoves ==
  ASSUME TypedSoFar, AboutOwn, NEW t \in Threads, Step(t), ~Dies(t),
         NEW u \in Threads \ {t}, frame[u].pc # "idle",
         frame[u].method \in Configuring, Own(t) # Own(u)
  PROVE  Unmoved(u)
<1>1. Own(u) \in Adapters
  BY OwnAdapter
<1>2. frame'[u] = frame[u]
  BY StepFrames DEF GoesOn, FrameStep, OnlyFrame
<1>3. ~strayed => addrs'[Own(u)] = addrs[Own(u)]
  BY <1>1, StepsAboutOwn
<1>4. u \in moved' \/ mtu'[Own(u)] = mtu[Own(u)]
  <2>1. CASE WriteValue(t)
    <3>1. CASE Instance(t) = Own(u)
      <4>1. u \in Concerned(Instance(t)) /\ Instance(t) # NameOf[frame[t].obj]
        BY <3>1 DEF Concerned, Own
      <4> QED
        BY <2>1, <4>1 DEF WriteValue
    <3>2. CASE Instance(t) # Own(u)
      BY <1>1, <2>1, <3>2 DEF WriteValue, TypedSoFar
    <3> QED
      BY <3>1, <3>2
  <2> QED
    BY <2>1, StepSettings
<1> QED
  BY <1>2, <1>3, <1>4, StepSettings DEF Unmoved, Untouched, Remembered

Sound(t) == FoundOwn(t) /\ ResolvedOwn(t) /\ ConfigSound(t)

LEMMA QuietMove ==
  ASSUME NEW t \in Threads,
         frame'[t].pc \notin {"enum", "instance", "value", "snapshot", "delete"},
         frame'[t].pc = "returned" => frame'[t].result = Threw
  PROVE  Sound(t)'
BY DEF Sound, FoundOwn, ResolvedOwn, ConfigSound, WalkSound, ListSound,
       MTUAnswerSound, IPAnswerSound, At, InCall

LEMMA RankType ==
  ASSUME NEW k \in Slots
  PROVE  /\ Rank(k) \in Nat
         /\ k \in Keys => Rank(k) < Cardinality(Keys)
<1> DEFINE S == {j \in Keys : j < k}
<1>1. IsFiniteSet(S) /\ Cardinality(S) \in Nat
  <2>1. S \subseteq Keys
    OBVIOUS
  <2> QED
    BY <2>1, KeysCounted, FS_Subset, FS_CardinalityType
<1>2. ASSUME k \in Keys PROVE Cardinality(S) < Cardinality(Keys)
  <2>1. S \subseteq Keys /\ k \notin S
    <3>1. k \in Nat
      OBVIOUS
    <3>2. ~(k < k)
      BY <3>1
    <3> QED
      BY <3>2
  <2>2. S # Keys
    BY <1>2, <2>1
  <2>3. Cardinality(S) <= Cardinality(Keys) /\ Cardinality(S) # Cardinality(Keys)
    BY <2>1, <2>2, KeysCounted, FS_Subset
  <2> QED
    BY <1>1, <2>3, KeysCounted
<1> QED
  BY <1>1, <1>2 DEF Rank

(* Two keys never have the same rank.                                      *)
LEMMA RankInjective ==
  ASSUME NEW j \in Keys, NEW k \in Keys, Rank(j) = Rank(k)
  PROVE  j = k
<1>0. j \in Slots /\ k \in Slots
  BY DEF Keys
<1>1. ASSUME NEW x \in Keys, NEW y \in Keys, x < y
      PROVE  Rank(x) < Rank(y)
  <2> DEFINE S == {i \in Keys : i < x}
             T == {i \in Keys : i < y}
  <2>1. IsFiniteSet(T)
    <3>1. T \subseteq Keys
      OBVIOUS
    <3> QED
      BY <3>1, KeysCounted, FS_Subset
  <2>a. x \in Nat /\ y \in Nat /\ \A i \in Keys : i \in Nat
    BY DEF Keys
  <2>b. \A i \in Keys : i < x => i < y
    BY <1>1, <2>a
  <2>2. S \subseteq T /\ x \in T /\ x \notin S
    <3>1. x \notin S
      BY <2>a
    <3> QED
      BY <1>1, <2>b, <3>1
  <2>3. IsFiniteSet(S) /\ Cardinality(S) <= Cardinality(T)
        /\ (Cardinality(S) = Cardinality(T) => S = T)
    BY <2>1, <2>2, FS_Subset
  <2>4. Cardinality(S) \in Nat /\ Cardinality(T) \in Nat
    BY <2>1, <2>3, FS_CardinalityType
  <2>5. S # T
    BY <2>2
  <2> QED
    BY <2>3, <2>4, <2>5 DEF Rank
<1>2. Rank(j) \in Nat /\ Rank(k) \in Nat
  BY <1>0, RankType
<1> QED
  BY <1>0, <1>1, <1>2

(* The walk starts: the key of the adapter is among those it is going to   *)
(* ask for.                                                                *)
LEMMA CountKeysSound ==
  ASSUME TypedSoFar, NEW t \in Threads, CountKeys(t)
  PROVE  Sound(t)'
<1>1. /\ frame'[t] = [frame[t] EXCEPT !.pc = "enum", !.count = Cardinality(Keys)]
      /\ frame[t] \in Frame /\ frame[t].i = 0
  BY CountKeysEffect
  DEF TypedSoFar, Framed, FramesSound, FrameSound, CountKeys, At
<1>2. /\ frame'[t].pc = "enum" /\ frame'[t].count = Cardinality(Keys)
      /\ frame'[t].i = 0 /\ frame'[t].obj = frame[t].obj
  BY <1>1 DEF Frame
<1>3. UNCHANGED reg
  BY DEF CountKeys, system, registry
<1>4. Own(t)' = Own(t) /\ Keys' = Keys /\ \A k : Rank(k)' = Rank(k)
  BY <1>2, <1>3 DEF Own, Keys, Rank
<1>5. Installed(Own(t))' => Ahead(t)'
  BY <1>2, <1>3, <1>4, RankType DEF Installed, Ahead, At
<1> QED
  BY <1>2, <1>5
  DEF Sound, FoundOwn, ResolvedOwn, ConfigSound, WalkSound, ListSound,
      MTUAnswerSound, IPAnswerSound, At, InCall

(* RegEnumKey() reads the key of the adapter, or one before it.            *)
LEMMA EnumKeySound ==
  ASSUME TypedSoFar, NEW t \in Threads, Sound(t), EnumKey(t)
  PROVE  Sound(t)'
<1>1. frame[t] \in Frame /\ frame[t].pc = "enum"
  BY DEF TypedSoFar, Framed, EnumKey, At
<1>2. PICK k \in Slots \cup {NoKey} :
        /\ disturbed' = IF k \in KeyAt(frame[t].i) THEN disturbed
                        ELSE disturbed \cup {t}
        /\ frame'[t] = [frame[t] EXCEPT !.pc = "instance", !.name = k]
  BY EnumKeyEffect DEF TypedSoFar
<1>3. /\ frame'[t].pc = "instance" /\ frame'[t].name = k
      /\ frame'[t].i = frame[t].i /\ frame'[t].count = frame[t].count
      /\ frame'[t].obj = frame[t].obj /\ frame'[t].method = frame[t].method
      /\ frame'[t].pending = frame[t].pending /\ frame'[t].arg = frame[t].arg
      /\ frame[t].i \in Nat
  BY <1>1, <1>2 DEF Frame
<1>4. UNCHANGED <<reg, mtu, refused, moved>>
  BY DEF EnumKey, system, registry
<1>5. Own(t)' = Own(t) /\ Keys' = Keys /\ \A j : Rank(j)' = Rank(j)
  BY <1>3, <1>4 DEF Own, Keys, Rank
<1>6. k \in KeyAt(frame[t].i) /\ Ahead(t) => Ahead(t)'
  <2> SUFFICES ASSUME k \in KeyAt(frame[t].i), Ahead(t) PROVE Ahead(t)'
    OBVIOUS
  <2>1. PICK j \in Slots : /\ reg[j] = Own(t) /\ frame[t].count = Cardinality(Keys)
                           /\ Rank(j) >= frame[t].i
    BY <1>1 DEF Ahead, At
  <2>2. j \in Keys /\ Rank(j) \in Nat
    <3>1. Own(t) \in Adapters
      BY <1>1, OwnAdapter
    <3> QED
      BY <2>1, <3>1, RankType DEF Keys
  <2>3. Rank(j) > frame[t].i \/ k = j
    <3>1. CASE Rank(j) = frame[t].i
      <4>2. k \in Keys /\ Rank(k) = Rank(j)
        BY <3>1 DEF KeyAt, Rank
      <4> QED
        BY <2>2, <4>2, RankInjective
    <3> QED
      BY <1>3, <2>1, <2>2, <3>1
  <2> QED
    BY <1>3, <1>4, <1>5, <2>1, <2>3 DEF Ahead, At
<1>7. Settled(t) => Settled(t)'
  BY <1>3, <1>4, <1>5 DEF Settled
<1>8. WalkSound(t)'
  BY <1>1, <1>2, <1>3, <1>4, <1>5, <1>6, <1>7
  DEF Sound, ConfigSound, WalkSound, Installed, InCall
<1> QED
  BY <1>3, <1>8
  DEF Sound, FoundOwn, ResolvedOwn, ConfigSound, ListSound,
      MTUAnswerSound, IPAnswerSound, At, InCall

(* The walk ends: it has passed the key of its adapter.                    *)
LEMMA EnumEndsSound ==
  ASSUME TypedSoFar, NEW t \in Threads, Sound(t), EnumEnds(t)
  PROVE  Sound(t)'
<1>1. frame[t] \in Frame /\ frame[t].pc = "enum" /\ frame[t].i = frame[t].count
      /\ frame[t].method \in {"getMTU", "setMTU"}
  BY DEF TypedSoFar, Framed, EnumEnds, At, FramesSound, FrameSound
<1> DEFINE r == IF frame[t].pending THEN Threw
                ELSE IF frame[t].method = "getMTU" THEN Default ELSE Done
<1>2. frame'[t] = Over(frame[t], r)
  <2>1. r \in Results /\ Finish(t, r)
    BY DEF EnumEnds, Results
  <2> QED
    BY <2>1, FinishEffect DEF TypedSoFar
<1>3. /\ frame'[t].pc = "returned" /\ frame'[t].result = r
      /\ frame'[t].obj = frame[t].obj /\ frame'[t].method = frame[t].method
      /\ frame'[t].arg = frame[t].arg
  BY <1>1, <1>2, OverFields DEF Results
<1>4. UNCHANGED <<reg, mtu, disturbed>>
  BY DEF EnumEnds, system, registry, history
<1>4a. UNCHANGED <<refused, moved>>
  BY DEF EnumEnds, history
<1>5. ~Ahead(t)
  <2>1. \A k \in Slots : reg[k] = Own(t) => Rank(k) < Cardinality(Keys)
    <3>1. Own(t) \in Adapters
      BY <1>1, OwnAdapter
    <3> QED
      BY <3>1, RankType DEF Keys
  <2> QED
    BY <1>1, <2>1, KeysCounted, RankType DEF Ahead, At, Frame
<1>6. Own(t)' = Own(t) /\ (Installed(Own(t))' <=> Installed(Own(t)))
  BY <1>3, <1>4 DEF Own, Installed
<1>7. Installed(Own(t)) /\ t \notin disturbed \cup moved => Settled(t)
  BY <1>1, <1>5 DEF Sound, ConfigSound, WalkSound, InCall
<1>8. MTUAnswerSound(t)'
  BY <1>1, <1>3, <1>4, <1>4a, <1>6, <1>7 DEF MTUAnswerSound, Settled
<1> QED
  BY <1>1, <1>3, <1>8
  DEF Sound, FoundOwn, ResolvedOwn, ConfigSound, WalkSound, ListSound,
      IPAnswerSound, At, InCall

(* On with the loop, past a key that is not the adapter's.                 *)
LEMMA PassSound ==
  ASSUME TypedSoFar, NEW t \in Threads, Sound(t), At(t, "instance"),
         Instance(t) # Own(t), NEW p \in BOOLEAN, NextKey(t, p),
         frame[t].pending => p, UNCHANGED <<reg, mtu, disturbed, refused, moved>>
  PROVE  Sound(t)'
<1>1. /\ frame'[t].pc = "enum" /\ frame'[t].i = frame[t].i + 1
      /\ Same(frame'[t], frame[t])
      /\ p => frame'[t].pending
  BY NextKeyEffect, Zenon DEF TypedSoFar
<1>2. Own(t)' = Own(t) /\ Keys' = Keys /\ \A k : Rank(k)' = Rank(k)
  BY <1>1 DEF Same, Own, Keys, Rank
<1>3. Ahead(t) => Ahead(t)'
  <2> SUFFICES ASSUME Ahead(t) PROVE Ahead(t)'
    OBVIOUS
  <2>1. PICK k \in Slots : /\ reg[k] = Own(t) /\ frame[t].count = Cardinality(Keys)
                           /\ Rank(k) > frame[t].i \/ frame[t].name = k
    BY DEF Ahead
  <2>2. Rank(k) > frame[t].i
    BY <2>1 DEF Instance
  <2>3. Rank(k) \in Nat /\ frame[t].i \in Nat
    BY RankType DEF TypedSoFar, Framed, Frame
  <2>4. Rank(k) >= frame[t].i + 1
    BY <2>2, <2>3
  <2> QED
    BY <1>1, <1>2, <2>1, <2>4 DEF Ahead, At, Same
<1>4. Settled(t) => Settled(t)'
  BY <1>1, <1>2 DEF Settled, Same
<1>5. WalkSound(t)'
  BY <1>1, <1>2, <1>3, <1>4 DEF Sound, ConfigSound, WalkSound, Installed, InCall, At
<1> QED
  BY <1>1, <1>5
  DEF Sound, FoundOwn, ResolvedOwn, ConfigSound, ListSound,
      MTUAnswerSound, IPAnswerSound, At, InCall

(* On with the loop, settled.                                              *)
LEMMA SettledSound ==
  ASSUME NEW t \in Threads, frame'[t].pc = "enum", Settled(t)'
  PROVE  Sound(t)'
BY DEF Sound, FoundOwn, ResolvedOwn, ConfigSound, WalkSound, ListSound,
       MTUAnswerSound, IPAnswerSound, At, InCall

LEMMA InstanceSound ==
  ASSUME TypedSoFar, NEW t \in Threads, Sound(t), ~Dies(t),
         Unreadable(t) \/ Compare(t)
  PROVE  Sound(t)'
<1>1. /\ frame[t] \in Frame /\ frame[t].pc = "instance" /\ At(t, "instance")
      /\ FrameSound(frame[t])
  BY DEF TypedSoFar, Framed, FramesSound, Unreadable, Compare, At
<1>2. Own(t) \in Adapters
  BY <1>1, OwnAdapter
<1>3. Own(t) = NameOf[frame[t].obj]
  BY DEF Own
<1> USE DEF system, registry, history
<1>4. CASE Finish(t, Threw)
  <2>0. frame'[t] = Over(frame[t], Threw)
    BY <1>4, FinishEffect DEF TypedSoFar, Results
  <2>1. frame'[t].pc = "returned" /\ frame'[t].result = Threw
    BY <1>1, <2>0, OverFields DEF Results
  <2> QED
    BY <2>1, QuietMove
<1>5. CASE Compare(t) /\ Instance(t) = Own(t)
  <2>1. frame'[t] = [frame[t] EXCEPT !.pc = "value"] /\ UNCHANGED reg
    BY <1>3, <1>5, GotoEffect DEF Compare, TypedSoFar, Pcs
  <2>2. frame'[t].pc = "value" /\ frame'[t].name = frame[t].name
        /\ frame'[t].obj = frame[t].obj
    BY <1>1, <2>1 DEF Frame
  <2>3. FoundOwn(t)'
    BY <1>2, <1>5, <2>1, <2>2 DEF FoundOwn, Own, Instance
  <2> QED
    BY <2>2, <2>3
    DEF Sound, ResolvedOwn, ConfigSound, WalkSound, ListSound,
        MTUAnswerSound, IPAnswerSound, At, InCall
<1>6. CASE \E p \in BOOLEAN : /\ NextKey(t, p) /\ (frame[t].pending => p)
                              /\ Instance(t) # Own(t)
                              /\ UNCHANGED <<reg, mtu, disturbed, refused, moved>>
  BY <1>1, <1>6, PassSound, Zenon
<1>7. frame[t].pending \in BOOLEAN
  BY <1>1 DEF Frame
<1>8. CASE Compare(t)
  BY <1>3, <1>5, <1>6, <1>7, <1>8 DEF Compare
<1>9. CASE Unreadable(t)
  <2>1. \/ Finish(t, Threw)
        \/ frame[t].method = "setMTU" /\ NextKey(t, TRUE)
    BY <1>1, <1>9 DEF Unreadable, ThrowAndGoOn, Dies, FrameSound
  <2>2. CASE frame[t].method = "setMTU" /\ NextKey(t, TRUE)
    <3>1. /\ frame'[t].pc = "enum" /\ Same(frame'[t], frame[t])
          /\ frame'[t].pending
      BY <2>2, NextKeyEffect, Zenon DEF TypedSoFar
    <3>2. Settled(t)'
      BY <2>2, <3>1 DEF Settled, Same
    <3> QED
      BY <3>1, <3>2, SettledSound
  <2> QED
    BY <1>4, <2>1, <2>2
<1> QED
  BY <1>8, <1>9

LEMMA ReadValueSound ==
  ASSUME TypedSoFar, NEW t \in Threads, Sound(t), ReadValue(t)
  PROVE  Sound(t)'
<1>1. /\ frame[t] \in Frame /\ frame[t].pc = "value" /\ frame[t].method = "getMTU"
      /\ Own(t) \in Adapters
  BY OwnAdapter DEF TypedSoFar, Framed, ReadValue, At
<1>2. PICK r \in Results :
        /\ Finish(t, r)
        /\ r = Threw \/ (Instance(t) \in Adapters /\ r = mtu[Instance(t)])
  BY DEF ReadValue, Results, TypedSoFar
<1>3. frame'[t] = Over(frame[t], r)
  BY <1>2, FinishEffect DEF TypedSoFar
<1>4. /\ frame'[t].pc = "returned" /\ frame'[t].result = r
      /\ frame'[t].obj = frame[t].obj /\ frame'[t].method = "getMTU"
  BY <1>1, <1>3, OverFields
<1>5. UNCHANGED <<reg, mtu, moved>> /\ Own(t)' = Own(t)
  BY <1>4 DEF ReadValue, system, registry, history, Own
<1>6. t \notin moved =>
        frame[t].name \in Slots /\ reg[frame[t].name] = Own(t) /\ Instance(t) = Own(t)
  BY <1>1 DEF Sound, FoundOwn, At, Instance
<1>7. MTUAnswerSound(t)'
  BY <1>1, <1>2, <1>4, <1>5, <1>6 DEF MTUAnswerSound, Installed
<1> QED
  BY <1>4, <1>7
  DEF Sound, FoundOwn, ResolvedOwn, ConfigSound, WalkSound, ListSound,
      IPAnswerSound, At, InCall

(* RegSetValueEx() sets the value, or is refused; if the key could not be  *)
(* opened for it, an exception is pending.                                 *)
LEMMA SetValueSound ==
  ASSUME TypedSoFar, NEW t \in Threads, Sound(t), ~Dies(t),
         WriteValue(t) \/ WriteFails(t)
  PROVE  Sound(t)'
<1>1. /\ frame[t] \in Frame /\ frame[t].pc = "value" /\ frame[t].method = "setMTU"
      /\ frame[t].arg \in Short /\ Own(t) \in Adapters
  BY OwnAdapter
  DEF TypedSoFar, Framed, FramesSound, FrameSound, WriteValue, WriteFails, At
<1>2. t \notin moved => Instance(t) = Own(t)
  BY <1>1 DEF Sound, FoundOwn, Instance, At
<1>3. \E p \in BOOLEAN : NextKey(t, p) /\ (WriteFails(t) => p)
  BY <1>1 DEF WriteValue, WriteFails, ThrowAndGoOn, Dies, Frame
<1>4. PICK p \in BOOLEAN : NextKey(t, p) /\ (WriteFails(t) => p)
  BY <1>3
<1>5. /\ frame'[t].pc = "enum" /\ Same(frame'[t], frame[t])
      /\ WriteFails(t) => frame'[t].pending
  BY <1>4, NextKeyEffect, Zenon DEF TypedSoFar
<1>6. Own(t)' = Own(t)
  BY <1>5 DEF Own, Same
<1>7. CASE t \in moved
  <2>1. moved' = moved \/ moved \subseteq moved'
    BY <1>1 DEF WriteValue, WriteFails, ThrowAndGoOn, Dies, history
  <2> QED
    BY <1>5, <1>7, <2>1
    DEF Sound, FoundOwn, ResolvedOwn, ConfigSound, WalkSound, ListSound,
        MTUAnswerSound, IPAnswerSound, At, InCall
<1>8. CASE t \notin moved
  <2>1. WriteValue(t) => mtu'[Own(t)] = frame[t].arg \/ t \in refused'
    BY <1>1, <1>2, <1>8 DEF WriteValue, Text, TypedSoFar
  <2>2. Settled(t)'
    BY <1>1, <1>5, <1>6, <2>1 DEF Settled, Same
  <2> QED
    BY <1>5, <2>2, SettledSound
<1> QED
  BY <1>7, <1>8

LEMMA ResolveSound ==
  ASSUME TypedSoFar, NEW t \in Threads, Sound(t), Resolve(t)
  PROVE  Sound(t)'
<1>1. frame[t] \in Frame /\ frame[t].pc = "resolve" /\ frame[t].obj \in Objects
  BY DEF TypedSoFar, Framed, Resolve, At, FramesSound, FrameSound
<1>2. \/ \E g \in IndexOf(frame[t].obj) :
           frame'[t] = [frame[t] EXCEPT !.pc = "snapshot", !.ifIndex = g]
      \/ frame'[t] = Over(frame[t], Threw)
  BY ResolveEffect
<1>3. CASE frame'[t] = Over(frame[t], Threw)
  <2>1. frame'[t].pc = "returned" /\ frame'[t].result = Threw
    BY <1>1, <1>3, OverFields DEF Results
  <2> QED
    BY <2>1, QuietMove
<1>4. CASE \E g \in IndexOf(frame[t].obj) :
             frame'[t] = [frame[t] EXCEPT !.pc = "snapshot", !.ifIndex = g]
  <2> PICK g \in IndexOf(frame[t].obj) :
             frame'[t] = [frame[t] EXCEPT !.pc = "snapshot", !.ifIndex = g]
    BY <1>4
  <2>1. frame'[t].pc = "snapshot" /\ frame'[t].ifIndex = g
        /\ frame'[t].obj = frame[t].obj
    BY <1>1 DEF Frame
  <2>2. ~strayed' => Installed(NameOf[frame[t].obj])
    BY Zenon DEF Resolve
  <2>3. ~strayed' => g = Own(t)
    BY <2>2 DEF IndexOf, Own
  <2>4. ResolvedOwn(t)'
    BY <2>1, <2>3 DEF ResolvedOwn, Own
  <2> QED
    BY <2>1, <2>4
    DEF Sound, FoundOwn, ConfigSound, WalkSound, ListSound,
        MTUAnswerSound, IPAnswerSound, At, InCall
<1> QED
  BY <1>2, <1>3, <1>4

LEMMA SnapshotSound ==
  ASSUME TypedSoFar, NEW t \in Threads, Sound(t), GetAdaptersInfo(t)
  PROVE  Sound(t)'
<1>1. frame[t] \in Frame /\ frame[t].pc = "snapshot" /\ Own(t) \in Adapters
  BY OwnAdapter DEF TypedSoFar, Framed, GetAdaptersInfo, At
<1>2. UNCHANGED <<addrs, strayed, moved>>
  BY DEF GetAdaptersInfo, system, history
<1>3. ~strayed => ListOf(frame[t]) = addrs[Own(t)]
  BY <1>1 DEF Sound, ResolvedOwn, InCall, ListOf
<1>4. ASSUME NEW r \in Results,
             \/ r = Threw
             \/ frame[t].method = "getIP" /\ r \in ListOf(frame[t])
             \/ frame[t].method = "getIP" /\ r = Nothing /\ ListOf(frame[t]) = {},
             frame'[t] = Over(frame[t], r)
      PROVE  Sound(t)'
  <2>1. /\ frame'[t].pc = "returned" /\ frame'[t].result = r
        /\ frame'[t].obj = frame[t].obj /\ frame'[t].method = frame[t].method
    BY <1>1, <1>4, OverFields DEF Results
  <2>2. CASE r = Threw
    BY <2>1, <2>2, QuietMove
  <2>3. CASE frame[t].method = "getIP" /\ \/ r \in ListOf(frame[t])
                                          \/ r = Nothing /\ ListOf(frame[t]) = {}
    <3>1. Own(t)' = Own(t)
      BY <2>1 DEF Own
    <3>2. IPAnswerSound(t)'
      BY <1>2, <1>3, <2>1, <2>3, <3>1 DEF IPAnswerSound
    <3>3. MTUAnswerSound(t)'
      BY <2>1, <2>3 DEF MTUAnswerSound
    <3> QED
      BY <2>1, <3>2, <3>3
      DEF Sound, FoundOwn, ResolvedOwn, ConfigSound, WalkSound, ListSound, At, InCall
  <2> QED
    BY <1>4, <2>2, <2>3
<1>5. ASSUME frame'[t] = [frame[t] EXCEPT !.pc = "delete", !.list = ListOf(frame[t])]
      PROVE  Sound(t)'
  <2>1. /\ frame'[t].pc = "delete" /\ frame'[t].list = ListOf(frame[t])
        /\ frame'[t].obj = frame[t].obj /\ frame'[t].ifIndex = frame[t].ifIndex
    BY <1>1, <1>5 DEF Frame
  <2>2. Own(t)' = Own(t)
    BY <2>1 DEF Own
  <2>3. ResolvedOwn(t)'
    BY <1>1, <1>2, <2>1, <2>2 DEF Sound, ResolvedOwn, InCall
  <2>4. ListSound(t)'
    BY <1>2, <1>3, <2>1, <2>2 DEF ListSound
  <2> QED
    BY <2>1, <2>3, <2>4
    DEF Sound, FoundOwn, ConfigSound, WalkSound, MTUAnswerSound, IPAnswerSound,
        At, InCall
<1> QED
  BY <1>4, <1>5, SnapshotEffect

LEMMA DeleteSound ==
  ASSUME TypedSoFar, NEW t \in Threads, Sound(t), DeleteIPAddress(t)
  PROVE  Sound(t)'
<1>1. frame[t] \in Frame /\ frame[t].pc = "delete" /\ Own(t) \in Adapters
  BY OwnAdapter DEF TypedSoFar, Framed, DeleteIPAddress, At
<1>2. PICK x \in frame[t].list :
        /\ addrs' = IF x = Given THEN addrs
                    ELSE [addrs EXCEPT ![frame[t].ifIndex] = @ \ {x}]
        /\ frame'[t] = [frame[t] EXCEPT !.list = @ \ {x}]
  BY DeleteEffect DEF TypedSoFar
<1>3. /\ frame'[t].pc = "delete" /\ frame'[t].list = frame[t].list \ {x}
      /\ frame'[t].obj = frame[t].obj /\ frame'[t].ifIndex = frame[t].ifIndex
  BY <1>1, <1>2 DEF Frame
<1>4. Own(t)' = Own(t) /\ UNCHANGED <<strayed, moved>>
  BY <1>3 DEF Own, DeleteIPAddress, history
<1>5. ~strayed => frame[t].ifIndex = Own(t)
  BY <1>1 DEF Sound, ResolvedOwn, InCall
<1>6. ResolvedOwn(t)'
  BY <1>3, <1>4, <1>5 DEF ResolvedOwn
<1>7. ~strayed => addrs'[Own(t)] \ {Given} \subseteq (addrs[Own(t)] \ {Given}) \ {x}
  BY <1>1, <1>2, <1>5 DEF TypedSoFar
<1>8. ListSound(t)'
  BY <1>1, <1>3, <1>4, <1>7 DEF Sound, ConfigSound, ListSound, At
<1> QED
  BY <1>3, <1>6, <1>8
  DEF Sound, FoundOwn, ConfigSound, WalkSound, MTUAnswerSound, IPAnswerSound,
      At, InCall

(* AddIPAddress(): by now no address is left that a call gave the adapter. *)
LEMMA AddSound ==
  ASSUME TypedSoFar, NEW t \in Threads, Sound(t), AddIPAddress(t)
  PROVE  Sound(t)'
<1>1. /\ frame[t] \in Frame /\ frame[t].pc = "delete" /\ Own(t) \in Adapters
      /\ frame[t].method = "setIP" /\ frame[t].arg \in Ips \X Masks
  BY OwnAdapter DEF TypedSoFar, Framed, AddIPAddress, At, FramesSound, FrameSound
<1>2. \E r \in Results : Finish(t, r)
  BY DEF AddIPAddress, Results
<1>3. PICK r \in Results : Finish(t, r)
  BY <1>2
<1>4. frame'[t] = Over(frame[t], r)
  BY <1>3, FinishEffect DEF TypedSoFar
<1>5. /\ frame'[t].pc = "returned" /\ frame'[t].result = r
      /\ frame'[t].obj = frame[t].obj /\ frame'[t].method = "setIP"
      /\ frame'[t].arg = frame[t].arg
  BY <1>1, <1>4, OverFields DEF Results
<1>6. CASE r = Threw
  BY <1>5, <1>6, QuietMove
<1>7. CASE r # Threw
  <2>1. /\ frame[t].list = {}
        /\ frame[t].ifIndex \in Adapters
        /\ addrs' = [addrs EXCEPT ![frame[t].ifIndex] = @ \cup {frame[t].arg}]
        /\ UNCHANGED <<strayed, moved>>
    <3>1. \/ Finish(t, Threw)
          \/ /\ frame[t].ifIndex \in Adapters
             /\ addrs' = [addrs EXCEPT ![frame[t].ifIndex] = @ \cup {frame[t].arg}]
      BY DEF AddIPAddress
    <3>2. ~Finish(t, Threw)
      <4> SUFFICES ASSUME Finish(t, Threw) PROVE FALSE
        OBVIOUS
      <4>1. Threw \in Results
        BY DEF Results
      <4>2. frame'[t] = Over(frame[t], Threw)
        BY <4>1, FinishEffect DEF TypedSoFar
      <4> QED
        BY <1>1, <1>5, <1>7, <4>2, OverFields DEF Results
    <3> QED
      BY <3>1, <3>2 DEF AddIPAddress, history
  <2>2. ~strayed /\ t \notin moved =>
          addrs[Own(t)] \subseteq {Given} /\ frame[t].ifIndex = Own(t)
    BY <1>1, <2>1 DEF Sound, ConfigSound, ListSound, ResolvedOwn, InCall, At
  <2>3. frame[t].arg # Given
    BY <1>1
  <2>4. ~strayed /\ t \notin moved => addrs'[Own(t)] \ {Given} = {frame[t].arg}
    BY <1>1, <2>1, <2>2, <2>3 DEF TypedSoFar
  <2>5. Own(t)' = Own(t)
    BY <1>5 DEF Own
  <2>6. IPAnswerSound(t)'
    BY <1>5, <2>1, <2>4, <2>5 DEF IPAnswerSound
  <2> QED
    BY <1>5, <2>6
    DEF Sound, FoundOwn, ResolvedOwn, ConfigSound, WalkSound, ListSound,
        MTUAnswerSound, At, InCall
<1> QED
  BY <1>6, <1>7

LEMMA MoveSound ==
  ASSUME TypedSoFar, NEW t \in Threads, Sound(t), Step(t), ~Dies(t)
  PROVE  Sound(t)'
<1>1. frame[t] \in Frame /\ frame'[t] \in Frame
  BY StepFrames DEF TypedSoFar, Framed, GoesOn, FrameStep
<1>2. CASE \/ CreateFails(t) \/ Assign(t) \/ CloseHandle(t) \/ ControlFails(t)
           \/ ControlReturns(t) \/ Leave(t)
  <2>1. Return(t)
    BY <1>2 DEF CreateFails, Assign, CloseHandle, ControlFails, ControlReturns, Leave
  <2>2. frame'[t].pc = "idle"
    BY <2>1, ReturnEffect DEF TypedSoFar, Idle
  <2> QED
    BY <2>2, QuietMove
<1>3. CASE CreateFile(t)
  <2>1. PICK h \in Handles :
          frame'[t] = [frame[t] EXCEPT !.pc = "assign", !.handle = h]
    BY <1>3, CreateFileEffect DEF TypedSoFar
  <2>2. frame'[t].pc = "assign"
    BY <1>1, <2>1 DEF Frame
  <2> QED
    BY <2>2, QuietMove
<1>4. CASE Control(t)
  <2>1. frame'[t] = [frame[t] EXCEPT !.pc = "io"]
    BY <1>4, GotoEffect DEF TypedSoFar, Control, Pcs
  <2>2. frame'[t].pc = "io"
    BY <1>1, <2>1 DEF Frame
  <2> QED
    BY <2>2, QuietMove
<1>5. CASE RegistryFails(t)
  <2>1. frame'[t] = Over(frame[t], Threw)
    BY <1>5, FinishEffect DEF TypedSoFar, RegistryFails, Results
  <2>2. frame'[t].pc = "returned" /\ frame'[t].result = Threw
    BY <1>1, <2>1, OverFields DEF Results
  <2> QED
    BY <2>2, QuietMove
<1>6. ~Overflow(t)
  BY DEF Overflow, Formatted, Dies
<1> QED
  BY <1>2, <1>3, <1>4, <1>5, <1>6, CountKeysSound, EnumKeySound, EnumEndsSound,
     InstanceSound, ReadValueSound, SetValueSound, ResolveSound, SnapshotSound,
     DeleteSound, AddSound
  DEF Step

(* The part of it that does without "config".                              *)
LEMMA MoveAbout ==
  ASSUME TypedSoFar, NEW t \in Threads, FoundOwn(t), ResolvedOwn(t), Step(t),
         ~Dies(t)
  PROVE  FoundOwn(t)' /\ ResolvedOwn(t)'
<1>1. frame[t] \in Frame /\ frame'[t] \in Frame
  BY StepFrames DEF TypedSoFar, Framed, GoesOn, FrameStep
<1>2. CASE \/ CreateFails(t) \/ Assign(t) \/ CloseHandle(t) \/ ControlFails(t)
           \/ ControlReturns(t) \/ Leave(t)
  <2>1. Return(t)
    BY <1>2 DEF CreateFails, Assign, CloseHandle, ControlFails, ControlReturns, Leave
  <2> QED
    BY <2>1, ReturnEffect DEF TypedSoFar, Idle, FoundOwn, ResolvedOwn, At, InCall
<1>3. ASSUME frame'[t].pc \notin {"value", "snapshot", "delete"}
      PROVE  FoundOwn(t)' /\ ResolvedOwn(t)'
  BY <1>3 DEF FoundOwn, ResolvedOwn, At, InCall
<1>4. CASE CreateFile(t) \/ Control(t) \/ CountKeys(t) \/ EnumKey(t)
  <2>1. \/ \E h : frame'[t] = [frame[t] EXCEPT !.pc = "assign", !.handle = h]
        \/ frame'[t] = [frame[t] EXCEPT !.pc = "io"]
        \/ \E n : frame'[t] = [frame[t] EXCEPT !.pc = "enum", !.count = n]
        \/ \E k : frame'[t] = [frame[t] EXCEPT !.pc = "instance", !.name = k]
    <3>1. Framed
      BY DEF TypedSoFar
    <3>2. CASE CreateFile(t)
      BY <3>1, <3>2, CreateFileEffect
    <3>3. CASE Control(t)
      BY <3>1, <3>3, GotoEffect DEF Control, Pcs
    <3>4. CASE CountKeys(t)
      BY <3>1, <3>4, CountKeysEffect
    <3>5. CASE EnumKey(t)
      BY <3>1, <3>5, EnumKeyEffect
    <3> QED
      BY <1>4, <3>2, <3>3, <3>4, <3>5
  <2>2. frame'[t].pc \in {"assign", "io", "enum", "instance"}
    BY <1>1, <2>1 DEF Frame
  <2> QED
    BY <1>3, <2>2
<1>5. ASSUME NEW r \in Results, Finish(t, r)
      PROVE  FoundOwn(t)' /\ ResolvedOwn(t)'
  <2>1. frame'[t] = Over(frame[t], r)
    BY <1>5, FinishEffect DEF TypedSoFar
  <2>2. frame'[t].pc = "returned"
    BY <1>1, <2>1, OverFields DEF Results
  <2> QED
    BY <1>3, <2>2
<1>6. ASSUME NEW p \in BOOLEAN, NextKey(t, p)
      PROVE  FoundOwn(t)' /\ ResolvedOwn(t)'
  <2>1. frame'[t].pc = "enum"
    BY <1>6, NextKeyEffect, Zenon DEF TypedSoFar
  <2> QED
    BY <1>3, <2>1
<1>7. CASE \/ RegistryFails(t) \/ EnumEnds(t) \/ ReadValue(t) \/ AddIPAddress(t)
  <2>1. \E r \in Results : Finish(t, r)
    <3>1. CASE ReadValue(t)
      BY <3>1 DEF TypedSoFar, ReadValue, Results
    <3> QED
      BY <1>7, <3>1 DEF RegistryFails, EnumEnds, AddIPAddress, Results
  <2> QED
    BY <1>5, <2>1
<1>8. CASE Unreadable(t) \/ WriteFails(t) \/ WriteValue(t)
  <2>1. frame[t].pending \in BOOLEAN /\ FrameSound(frame[t])
    BY <1>1 DEF Frame, TypedSoFar, FramesSound
  <2>2. Finish(t, Threw) \/ NextKey(t, TRUE) \/ NextKey(t, frame[t].pending)
    BY <1>8, <2>1 DEF Unreadable, WriteFails, WriteValue, ThrowAndGoOn, Dies,
                      FrameSound, At
  <2> QED
    BY <1>5, <1>6, <2>1, <2>2 DEF Results
<1>9. CASE Compare(t)
  <2>1. frame[t].pending \in BOOLEAN /\ Own(t) \in Adapters
    BY <1>1, <1>9, OwnAdapter DEF Frame, Compare, At
  <2>2. CASE Instance(t) = Own(t)
    <3>1. frame'[t] = [frame[t] EXCEPT !.pc = "value"] /\ UNCHANGED reg
      BY <1>9, <2>2, GotoEffect
      DEF Compare, TypedSoFar, Pcs, Own, system, registry
    <3>2. frame'[t].pc = "value" /\ frame'[t].name = frame[t].name
          /\ frame'[t].obj = frame[t].obj
      BY <1>1, <3>1 DEF Frame
    <3> QED
      BY <2>1, <2>2, <3>1, <3>2 DEF FoundOwn, ResolvedOwn, Own, Instance, InCall
  <2>3. CASE Instance(t) # Own(t)
    BY <1>6, <1>9, <2>1, <2>3 DEF Compare, Own
  <2> QED
    BY <2>2, <2>3
<1>10. CASE Resolve(t)
  <2>1. frame[t].obj \in Objects
    BY <1>10 DEF Resolve, At, TypedSoFar, FramesSound, FrameSound
  <2>2. ~strayed' => Installed(NameOf[frame[t].obj])
    BY <1>10, Zenon DEF Resolve
  <2>3. CASE \E g \in IndexOf(frame[t].obj) :
               frame'[t] = [frame[t] EXCEPT !.pc = "snapshot", !.ifIndex = g]
    <3> PICK g \in IndexOf(frame[t].obj) :
               frame'[t] = [frame[t] EXCEPT !.pc = "snapshot", !.ifIndex = g]
      BY <2>3
    <3>1. frame'[t].pc = "snapshot" /\ frame'[t].ifIndex = g
          /\ frame'[t].obj = frame[t].obj
      BY <1>1 DEF Frame
    <3>2. ~strayed' => g = Own(t)
      BY <2>2 DEF IndexOf, Own
    <3> QED
      BY <3>1, <3>2 DEF FoundOwn, ResolvedOwn, Own, At
  <2>4. CASE frame'[t] = Over(frame[t], Threw)
    BY <1>1, <1>3, <2>4, OverFields DEF Results
  <2> QED
    BY <1>10, <2>3, <2>4, ResolveEffect
<1>11. CASE GetAdaptersInfo(t) \/ DeleteIPAddress(t)
  <2>1. strayed' = strayed /\ frame[t].pc \in {"snapshot", "delete"}
    BY <1>11 DEF GetAdaptersInfo, DeleteIPAddress, history, At
  <2>2. \/ \E r \in Results :
             frame'[t] = Over(frame[t], r)
        \/ \E list : frame'[t] = [frame[t] EXCEPT !.pc = "delete", !.list = list]
        \/ \E list : frame'[t] = [frame[t] EXCEPT !.list = list] /\ frame[t].pc = "delete"
    <3>1. CASE GetAdaptersInfo(t)
      BY <3>1, SnapshotEffect
    <3>2. CASE DeleteIPAddress(t)
      <4>1. frame[t].pc = "delete"
        BY <3>2 DEF DeleteIPAddress, At
      <4>2. \E list : frame'[t] = [frame[t] EXCEPT !.list = list]
        BY <1>1, <3>2, DeleteEffect DEF TypedSoFar
      <4> QED
        BY <4>1, <4>2
    <3> QED
      BY <1>11, <3>1, <3>2
  <2>3. \/ frame'[t].pc = "returned"
        \/ /\ frame'[t].pc = "delete" /\ frame'[t].ifIndex = frame[t].ifIndex
           /\ frame'[t].obj = frame[t].obj
    <3>1. frame[t] \in Frame
      BY <1>1
    <3>2. CASE \E r \in Results :
                 frame'[t] = Over(frame[t], r)
      BY <3>1, <3>2, OverFields DEF Results
    <3>3. CASE \E list : frame'[t] = [frame[t] EXCEPT !.pc = "delete", !.list = list]
      BY <3>1, <3>3 DEF Frame
    <3>4. CASE \E list : frame'[t] = [frame[t] EXCEPT !.list = list] /\ frame[t].pc = "delete"
      BY <3>1, <3>4 DEF Frame
    <3> QED
      BY <2>2, <3>2, <3>3, <3>4
  <2> QED
    BY <1>3, <2>1, <2>3 DEF FoundOwn, ResolvedOwn, Own, At, InCall
<1>12. ~Overflow(t)
  BY DEF Overflow, Formatted, Dies
<1> QED
  BY <1>2, <1>4, <1>7, <1>8, <1>9, <1>10, <1>11, <1>12 DEF Step

LEMMA InitAbout == Init => AboutOwn
<1> SUFFICES ASSUME Init PROVE AboutOwn
  OBVIOUS
<1>1. \A t \in Threads : FoundOwn(t) /\ ResolvedOwn(t)
  BY DEF Init, FoundOwn, ResolvedOwn, At, InCall, Idle
<1>2. KeysUnique
  BY DEF Init, KeysUnique
<1> QED
  BY <1>1, <1>2 DEF AboutOwn

LEMMA AboutKept ==
  ASSUME TypedSoFar, AboutOwn, [Next]_vars
  PROVE  AboutOwn'
<1>1. CASE SystemStep \/ UNCHANGED vars
  <2>1. \A t \in Threads : FoundOwn(t)' /\ ResolvedOwn(t)'
    <3> SUFFICES ASSUME NEW t \in Threads PROVE FoundOwn(t)' /\ ResolvedOwn(t)'
      OBVIOUS
    <3>1. frame' = frame
      BY <1>1 DEF SystemStep, Install, Uninstall, vars
    <3>2. CASE frame[t].pc \notin {"value", "snapshot", "delete"}
      BY <3>1, <3>2 DEF FoundOwn, ResolvedOwn, At, InCall
    <3>3. CASE frame[t].pc \in {"value", "snapshot", "delete"}
      <4>1. frame[t].method \in Configuring /\ frame[t].pc # "idle"
        BY <3>3 DEF TypedSoFar, FramesSound, FrameSound, Configuring
      <4> QED
        BY <1>1, <4>1, SystemUnmoves, UnmovedKeeps DEF AboutOwn
    <3> QED
      BY <3>2, <3>3
  <2>2. KeysUnique'
    <3>1. CASE UNCHANGED vars
      BY <3>1 DEF AboutOwn, KeysUnique, vars, system, registry
    <3>2. ASSUME NEW k \in Slots, NEW g \in Adapters, Install(g, k)
          PROVE  KeysUnique'
      BY <3>2 DEF AboutOwn, KeysUnique, Install, Installed, TypedSoFar
    <3>3. ASSUME NEW k \in Slots, Uninstall(k)
          PROVE  KeysUnique'
      BY <3>3 DEF AboutOwn, KeysUnique, Uninstall, TypedSoFar
    <3> QED
      BY <1>1, <3>1, <3>2, <3>3 DEF SystemStep
  <2> QED
    BY <2>1, <2>2 DEF AboutOwn
<1>2. ASSUME NEW t \in Threads, NEW o \in Objects, Call(t, o)
      PROVE  AboutOwn'
  <2>1. UNCHANGED <<reg, strayed, moved>> /\ FrameStep(t)
    BY <1>2, CallFrames
    DEF Call, CallOpen, CallClose, CallUse, GetMTU, SetMTU, GetIPAddress,
        SetIPAddress, Begin, registry, history
  <2>2. \E what, arg, next :
          /\ Begin(t, o, what, arg, next)
          /\ next \in {"create", "closeHandle", "control", "count", "resolve"}
    BY <1>2
    DEF Call, CallOpen, CallClose, CallUse, GetMTU, SetMTU, GetIPAddress, SetIPAddress
  <2> PICK what, arg, next :
          /\ Begin(t, o, what, arg, next)
          /\ next \in {"create", "closeHandle", "control", "count", "resolve"}
    BY <2>2
  <2>3. frame'[t].pc = next
    BY DEF Begin, TypedSoFar, Framed, Idle
  <2> QED
    BY <2>1, <2>3
    DEF AboutOwn, KeysUnique, FoundOwn, ResolvedOwn, FrameStep, OnlyFrame, At,
        InCall, Own
<1>3. ASSUME NEW t \in Threads, Step(t), ~Dies(t)
      PROVE  AboutOwn'
  <2>1. reg' = reg /\ (~strayed' => ~strayed) /\ Remembered(t)
    BY <1>3, StepSettings
  <2>2. FoundOwn(t)' /\ ResolvedOwn(t)'
    BY <1>3, MoveAbout DEF AboutOwn
  <2>3. ASSUME NEW u \in Threads \ {t} PROVE FoundOwn(u)' /\ ResolvedOwn(u)'
    <3>1. frame'[u] = frame[u]
      BY <1>3, StepFrames DEF GoesOn, FrameStep, OnlyFrame
    <3> QED
      BY <2>1, <3>1 DEF AboutOwn, FoundOwn, ResolvedOwn, At, InCall, Own, Remembered
  <2> QED
    BY <2>1, <2>2, <2>3 DEF AboutOwn, KeysUnique
<1>4. CASE Die
  <2>1. \A t \in Threads : frame'[t].pc = "idle"
    BY <1>4, DieSound DEF Idle
  <2>2. reg' = reg
    BY <1>4 DEF Die, registry
  <2> QED
    BY <2>1, <2>2 DEF AboutOwn, KeysUnique, FoundOwn, ResolvedOwn, At, InCall
<1> QED
  BY <1>1, <1>2, <1>3, <1>4 DEF Next, SystemStep, Dies

LEMMA AboutAlways == Spec => [](TypedSoFar /\ AboutOwn)
BY InitTyped, NextTyped, InitAbout, AboutKept, PTL DEF Spec

(* A step of a call that writes a setting is seen in the frame.            *)
LEMMA WritersMove ==
  ASSUME TypedSoFar, NEW t \in Threads,
         WriteValue(t) \/ DeleteIPAddress(t) \/ AddIPAddress(t)
  PROVE  frame'[t] # frame[t]
<1>1. frame[t] \in Frame
  BY DEF TypedSoFar, Framed
<1>2. CASE WriteValue(t)
  <2>1. frame[t].pending \in BOOLEAN /\ NextKey(t, frame[t].pending)
        /\ frame[t].pc = "value"
    BY <1>1, <1>2 DEF Frame, WriteValue, At
  <2>2. frame'[t].pc = "enum"
    BY <2>1, NextKeyEffect, Zenon DEF TypedSoFar
  <2> QED
    BY <2>1, <2>2
<1>3. CASE DeleteIPAddress(t)
  <2>1. PICK x \in frame[t].list : frame'[t] = [frame[t] EXCEPT !.list = @ \ {x}]
    BY <1>3, DeleteEffect DEF TypedSoFar
  <2>2. x \notin frame'[t].list
    BY <1>1, <2>1 DEF Frame
  <2> QED
    BY <2>1, <2>2
<1>4. CASE AddIPAddress(t)
  <2>1. \E r \in Results : Finish(t, r)
    BY <1>4 DEF AddIPAddress, Results
  <2>2. \E r \in Results : frame'[t] = Over(frame[t], r)
    BY <2>1, FinishEffect DEF TypedSoFar
  <2>3. frame'[t].pc = "returned" /\ frame[t].pc = "delete"
    BY <1>1, <1>4, <2>2, OverFields DEF AddIPAddress, At
  <2> QED
    BY <2>3
<1> QED
  BY <1>2, <1>3, <1>4

LEMMA SettingsStep ==
  ASSUME TypedSoFar, AboutOwn, [Next]_vars, NEW g \in Adapters,
         Installed(g), Installed(g)', ~strayed,
         \A t \in Threads : frame'[t] # frame[t] =>
                                NameOf[frame[t].obj] # g /\ t \notin moved
  PROVE  mtu'[g] = mtu[g] /\ addrs'[g] = addrs[g]
<1>1. ASSUME NEW t \in Threads, Step(t)
      PROVE  mtu'[g] = mtu[g] /\ addrs'[g] = addrs[g]
  <2>1. CASE g # Own(t) /\ t \notin moved
    BY <1>1, <2>1, StepsAboutOwn
  <2>2. CASE g = Own(t) \/ t \in moved
    <3>1. ~(WriteValue(t) \/ DeleteIPAddress(t) \/ AddIPAddress(t))
      BY <2>2, WritersMove DEF Own
    <3> QED
      BY <1>1, <3>1, StepSettings
  <2> QED
    BY <2>1, <2>2
<1>2. ASSUME NEW t \in Threads, NEW o \in Objects, Call(t, o)
      PROVE  UNCHANGED <<mtu, addrs>>
  BY <1>2
  DEF Call, CallOpen, CallClose, CallUse, GetMTU, SetMTU, GetIPAddress,
      SetIPAddress, Begin, registry
<1>3. ASSUME NEW k \in Slots, Uninstall(k)
      PROVE  mtu'[g] = mtu[g] /\ addrs'[g] = addrs[g]
  <2>1. reg[k] # g
    BY <1>3 DEF AboutOwn, KeysUnique, Uninstall, Installed, TypedSoFar
  <2> QED
    BY <1>3, <2>1 DEF Uninstall, TypedSoFar
<1>4. ASSUME NEW k \in Slots, NEW x \in Adapters, Install(x, k)
      PROVE  mtu'[g] = mtu[g] /\ addrs'[g] = addrs[g]
  BY <1>4 DEF Install, TypedSoFar
<1>5. CASE UNCHANGED vars
  BY <1>5 DEF vars, system, registry
<1> QED
  BY <1>1, <1>2, <1>3, <1>4, <1>5 DEF Next

(* Whatever the clients and the system do, an adapter's MTU and addresses  *)
(* change in the calls of its own devices only, as long as no getIfIndex() *)
(* has answered at random and no call has lost its adapter on the way.     *)
THEOREM SettingsIsolated == Spec => SettingsAreIsolated
<1>1. ASSUME TypedSoFar, AboutOwn, [Next]_vars
      PROVE  [\A g \in Adapters :
                LET before == <<Installed(g), mtu[g], addrs[g]>>
                IN Installed(g) /\ Installed(g)' /\ before' # before =>
                     \/ strayed
                     \/ \E t \in Threads :
                          /\ frame'[t] # frame[t]
                          /\ NameOf[frame[t].obj] = g \/ t \in moved]_vars
  <2>1. ASSUME NEW g \in Adapters, Installed(g), Installed(g)', ~strayed,
               \A t \in Threads : frame'[t] # frame[t] =>
                                NameOf[frame[t].obj] # g /\ t \notin moved
        PROVE  <<Installed(g)', mtu'[g], addrs'[g]>> = <<Installed(g), mtu[g], addrs[g]>>
    <3>1. mtu'[g] = mtu[g] /\ addrs'[g] = addrs[g]
      BY <1>1, <2>1, SettingsStep
    <3>2. Installed(g)' = Installed(g)
      <4>1. Installed(g) = TRUE
        BY <2>1 DEF Installed
      <4>2. Installed(g)' = TRUE
        BY <2>1 DEF Installed
      <4> QED
        BY <4>1, <4>2
    <3> QED
      BY <3>1, <3>2
  <2> QED
    BY <2>1
<1> QED
  BY <1>1, AboutAlways, PTL DEF SettingsAreIsolated, Spec

LEMMA OneConfiguratorKept ==
  ASSUME "config" \in Discipline, TypedSoFar, OneConfigurator, [Next]_vars
  PROVE  OneConfigurator'
<1>0. Idle.method \notin Configuring
  BY MethodAssumption DEF Idle, Configuring, Methods
<1>1. ASSUME NEW t \in Threads, NEW o \in Objects, Call(t, o)
      PROVE  OneConfigurator'
  <2>1. FrameStep(t)
    BY <1>1, CallFrames
  <2>2. \E what, arg, next :
          /\ Begin(t, o, what, arg, next)
          /\ what \in Configuring => MayConfigure(o)
    <3>1. CASE CallOpen(t, o) \/ CallClose(t, o) \/ CallUse(t, o)
      <4>1. \E what \in {"open", "close", "use"} : \E next :
              Begin(t, o, what, Nothing, next)
        BY <3>1 DEF CallOpen, CallClose, CallUse
      <4> QED
        BY <4>1 DEF Configuring
    <3>2. CASE \/ GetMTU(t, o) \/ SetMTU(t, o) \/ GetIPAddress(t, o)
               \/ SetIPAddress(t, o)
      BY <3>2 DEF GetMTU, SetMTU, GetIPAddress, SetIPAddress
    <3> QED
      BY <1>1, <3>1, <3>2 DEF Call
  <2> PICK what, arg, next :
          /\ Begin(t, o, what, arg, next)
          /\ what \in Configuring => MayConfigure(o)
    BY <2>2
  <2>3. frame'[t].method = what /\ frame'[t].obj = o
    BY DEF Begin, TypedSoFar, Framed, Idle
  <2>4. \A u \in Threads \ {t} : frame'[u] = frame[u]
    BY <2>1 DEF FrameStep, OnlyFrame
  <2>5. what \in Configuring =>
          \A u \in Threads : frame[u].method \in Configuring => Own(u) # NameOf[o]
    BY DEF MayConfigure, Concerned, Own
  <2> QED
    BY <2>3, <2>4, <2>5 DEF OneConfigurator, Own
<1>2. ASSUME NEW t \in Threads, Step(t), ~Dies(t)
      PROVE  OneConfigurator'
  <2>1. \A u \in Threads :
          frame'[u].method \in Configuring =>
            frame[u].method \in Configuring /\ frame'[u].obj = frame[u].obj
    BY <1>0, <1>2, StepFrames DEF GoesOn, FrameStep, OnlyFrame
  <2> QED
    BY <2>1 DEF OneConfigurator, Own
<1>3. CASE SystemStep \/ UNCHANGED vars
  <2>1. frame' = frame
    BY <1>3 DEF SystemStep, Install, Uninstall, vars
  <2> QED
    BY <2>1 DEF OneConfigurator, Own
<1>4. CASE Die
  BY <1>0, <1>4, DieSound DEF OneConfigurator
<1> QED
  BY <1>1, <1>2, <1>3, <1>4 DEF Next, SystemStep, Dies

LEMMA ConfigStep ==
  ASSUME TypedSoFar, AboutOwn, Configured, [Next]_vars, NEW u \in Threads
  PROVE  ConfigSound(u)'
<1>1. ASSUME frame'[u].pc \notin {"enum", "instance", "value", "snapshot", "delete",
                                  "returned"}
      PROVE  ConfigSound(u)'
  BY <1>1, QuietMove DEF Sound
<1>2. ASSUME Unmoved(u) PROVE ConfigSound(u)'
  BY <1>2, UnmovedKeeps DEF AboutOwn, Configured
<1>3. CASE SystemStep \/ UNCHANGED vars
  <2>1. frame' = frame
    BY <1>3 DEF SystemStep, Install, Uninstall, vars
  <2>2. CASE frame[u].pc = "idle" \/ frame[u].method \notin Configuring
    <3>1. FrameSound(frame[u])
      BY DEF TypedSoFar, FramesSound
    <3> QED
      BY <1>1, <2>1, <2>2, <3>1 DEF FrameSound, Configuring
  <2> QED
    BY <1>2, <1>3, <2>2, SystemUnmoves
<1>4. ASSUME NEW t \in Threads, NEW o \in Objects, Call(t, o)
      PROVE  ConfigSound(u)'
  <2>1. UNCHANGED <<reg, mtu, addrs, history>> /\ FrameStep(t)
    BY <1>4, CallFrames
    DEF Call, CallOpen, CallClose, CallUse, GetMTU, SetMTU, GetIPAddress,
        SetIPAddress, Begin, registry, history
  <2>2. CASE u # t
    BY <1>2, <2>1, <2>2 DEF Unmoved, Untouched, FrameStep, OnlyFrame, history
  <2>3. CASE u = t
    <3>1. \E what, arg, next :
            /\ Begin(t, o, what, arg, next)
            /\ next \in {"create", "closeHandle", "control", "count", "resolve"}
      BY <1>4
      DEF Call, CallOpen, CallClose, CallUse, GetMTU, SetMTU, GetIPAddress, SetIPAddress
    <3> PICK what, arg, next :
            /\ Begin(t, o, what, arg, next)
            /\ next \in {"create", "closeHandle", "control", "count", "resolve"}
      BY <3>1
    <3>2. frame'[t].pc = next
      BY DEF Begin, TypedSoFar, Framed, Idle
    <3> QED
      BY <1>1, <2>3, <3>2
  <2> QED
    BY <2>2, <2>3
<1>5. ASSUME NEW t \in Threads, Step(t), ~Dies(t)
      PROVE  ConfigSound(u)'
  <2>1. CASE u = t
    BY <1>5, <2>1, MoveSound DEF Sound, AboutOwn, Configured
  <2>2. CASE u # t
    <3>1. frame'[u] = frame[u]
      BY <1>5, <2>2, StepFrames DEF GoesOn, FrameStep, OnlyFrame
    <3>2. FrameSound(frame[u]) /\ FrameSound(frame[t])
      BY DEF TypedSoFar, FramesSound
    <3>3. CASE frame[u].method \notin Configuring \/ frame[u].pc = "idle"
      BY <1>1, <3>1, <3>2, <3>3 DEF FrameSound, Configuring
    <3>4. CASE /\ frame[u].pc # "idle" /\ frame[u].method \in Configuring
               /\ Own(t) # Own(u)
      BY <1>2, <1>5, <2>2, <3>4, StepUnmoves
    <3>5. CASE frame[t].method \notin Configuring
      <4>1. ~WriteValue(t) /\ ~DeleteIPAddress(t) /\ ~AddIPAddress(t)
        BY <3>2, <3>5
        DEF WriteValue, DeleteIPAddress, AddIPAddress, At, FrameSound, Configuring
      <4>2. Unmoved(u)
        BY <1>5, <2>2, <3>1, <4>1, StepSettings DEF Unmoved, Untouched, Remembered
      <4> QED
        BY <1>2, <4>2
    <3> QED
      BY <2>2, <3>3, <3>4, <3>5 DEF Configured, OneConfigurator
  <2> QED
    BY <2>1, <2>2
<1>6. CASE Die
  BY <1>1, <1>6, DieSound DEF Idle
<1> QED
  BY <1>3, <1>4, <1>5, <1>6 DEF Next, SystemStep, Dies

LEMMA ConfiguredAlways ==
  ASSUME "config" \in Discipline
  PROVE  Spec => [](TypedSoFar /\ AboutOwn /\ Configured)
<1>1. Init => Configured
  BY MethodAssumption
  DEF Init, Configured, OneConfigurator, ConfigSound, WalkSound, ListSound,
      MTUAnswerSound, IPAnswerSound, At, InCall, Idle, Configuring, Methods
<1>2. TypedSoFar /\ AboutOwn /\ Configured /\ [Next]_vars => Configured'
  BY OneConfiguratorKept, ConfigStep DEF Configured
<1> QED
  BY <1>1, <1>2, AboutAlways, PTL DEF Spec

(* getMTU() answers the value of its own adapter, or 1500 when a change of *)
(* the registry or a key that could not be read has hidden it, or there is *)
(* no adapter.                                                             *)
THEOREM GetMTUOwn ==
  ASSUME "config" \in Discipline
  PROVE  Spec => []GetMTUIsOwn
<1>1. Configured => GetMTUIsOwn
  BY DEF Configured, ConfigSound, MTUAnswerSound, GetMTUIsOwn, Answered, Own, At
<1> QED
  BY <1>1, ConfiguredAlways, PTL

(* A setMTU() that does not throw has set the value, unless a change of    *)
(* the registry or a key that could not be read has hidden the adapter's,  *)
(* there is no adapter, or the registry has refused the value.             *)
THEOREM SetMTUEffective ==
  ASSUME "config" \in Discipline
  PROVE  Spec => []SetMTUTakesEffect
<1>1. Configured => SetMTUTakesEffect
  BY DEF Configured, ConfigSound, MTUAnswerSound, SetMTUTakesEffect, Answered, Own, At
<1> QED
  BY <1>1, ConfiguredAlways, PTL

(* getIPAddress() answers an address of its own adapter; setIPAddress()    *)
(* leaves the one it was given and none of an earlier call.                *)
THEOREM IPCallsOwn ==
  ASSUME "config" \in Discipline
  PROVE  Spec => []IPCallsAreAboutOwnAdapter
<1>1. Configured => IPCallsAreAboutOwnAdapter
  BY DEF Configured, ConfigSound, IPAnswerSound, IPCallsAreAboutOwnAdapter, Answered,
         Own, At
<1> QED
  BY <1>1, ConfiguredAlways, PTL

==============================================================================
