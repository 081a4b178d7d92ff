-------------------------- MODULE DeviceListingProofs --------------------------
(***************************************************************************)
(* Theorems about DeviceListing, for any numbers of listers, devices and   *)
(* places: what is listed was available, what was free throughout is       *)
(* listed, nothing is listed twice, and no device stays open.              *)
(***************************************************************************)
EXTENDS DeviceListing, FiniteSetTheorems, TLAPS

USE ListingAssumption

-----------------------------------------------------------------------------
(* Types.  In a round of the loop the index is below the count, and from   *)
(* the moment a device has been found the frame names one.                 *)

Frame == [pc : Pcs, count : 0 .. Cardinality(Slots), i : Nat,
          key : Slots \cup {-1}, device : Devices \cup {Nothing},
          pending : BOOLEAN, list : Seq(Devices)]

Found == {"probe", "name", "close", "stat", "kind"}

Round == Found \cup {"component", "guid"}

FrameSound(f) ==
  /\ f.i <= f.count
  /\ f.pc \in Round => f.i < f.count
  /\ f.pc \in Found => f.device \in Devices
  /\ f.pc = "idle" => f = Idle
  /\ f.pc \in {"component", "guid"} => System = "windows" /\ f.key \in Slots
  /\ f.pc \in {"probe", "close"} => System # "linux"
  /\ f.pc = "name" => listing = <<"macos", "tun">>
  /\ f.pc \in {"stat", "kind"} => System = "linux"

TypedSoFar ==
  /\ listing \in Listings /\ kindOf \in Kinds
  /\ place \in [Slots -> Devices \cup {Nothing}]
  /\ holder \in [Devices -> Threads \cup {User, Nobody}]
  /\ frame \in [Threads -> Frame]
  /\ \A t \in Threads : FrameSound(frame[t])
  /\ seen \in [Watched -> SUBSET Devices]
  /\ due \in [Watched -> SUBSET Devices]
  /\ failed \in [Watched -> SUBSET Devices]
  /\ mistaken \in [Watched -> SUBSET Devices]
  /\ came \subseteq Watched

(* What a watched thread knows of the devices it is to list.               *)
Vouched(t) == seen[t] \cup {d \in mistaken[t] : LooksRight(d)}

KindKnown(t) ==
  frame[t].pc = "kind" /\ LooksRight(frame[t].device) =>
    frame[t].device \in Vouched(t)

SeenSoFar ==
  \A t \in Watched :
    /\ Calling(t) => Available \subseteq seen[t]
    /\ frame[t].pc \in {"name", "close"} => frame[t].device \in seen[t]
    /\ KindKnown(t)
    /\ Listed(t) \subseteq Vouched(t)

(* When the walk comes to the key k.                                       *)
Turn(k) == IF System = "windows"
           THEN Cardinality({j \in Installed : j < k}) ELSE k

Reached(t) == IF At(t, "next") THEN frame[t].i ELSE frame[t].i + 1

Ahead(t, d) == \E k \in Slots : place[k] = d /\ Turn(k) >= Reached(t)

AtHand(t, d) ==
  \/ frame[t].pc \in Found /\ frame[t].device = d
  \/ frame[t].pc \in {"component", "guid"} /\ place[frame[t].key] = d

DueSoFar ==
  \A t \in Watched : System # "linux" =>
    /\ due[t] \subseteq failed[t] \/ frame[t].count = Rounds
    /\ At(t, "close") /\ listing # <<"macos", "tap">> =>
         frame[t].device \in Listed(t) \cup failed[t]
    /\ \A d \in due[t] :
         /\ Present(d) /\ kindOf[d] = Kind /\ holder[d] \in {Nobody, t}
         /\ \/ d \in Listed(t) \cup failed[t]
            \/ AtHand(t, d)
            \/ ~At(t, "returned") /\ Ahead(t, d)

(* A device is at hand and in the list already.                            *)
Added(t) == At(t, "close") /\ listing # <<"macos", "tap">>

(* A thread is done with the devices at the places below.                  *)
Bound(t) ==
  IF System = "windows"
  THEN IF frame[t].pc \in {"component", "guid", "probe"}
       THEN frame[t].key ELSE frame[t].key + 1
  ELSE IF Added(t) THEN frame[t].i + 1 ELSE frame[t].i

Position(t) == IF System = "windows" THEN frame[t].key ELSE frame[t].i

KeysBehind(t) == Cardinality({k \in Installed : k <= frame[t].key})

Counted(t) == /\ IsFiniteSet(Listed(t))
              /\ Len(frame[t].list) = Cardinality(Listed(t))

Behind(t) == \A k \in Slots : place[k] \in Listed(t) => k < Bound(t)

NotYet(t) ==
  frame[t].pc \in Found /\ ~Added(t) => frame[t].device \notin Listed(t)

InPlace(t) ==
  frame[t].pc \in Found =>
    \A k \in Slots : place[k] = frame[t].device => k = Position(t)

KeysPassed(t) ==
  System = "windows" =>
    KeysBehind(t) <=
      IF frame[t].pc \in Round THEN frame[t].i + 1 ELSE frame[t].i

OnceOf(t) ==
  Counted(t) /\ Behind(t) /\ NotYet(t) /\ InPlace(t) /\ KeysPassed(t)

OnceSoFar == \A t \in Watched \ came : OnceOf(t)

Placed == \A j, k \in Slots :
            place[j] = place[k] /\ place[j] # Nothing => j = k

-----------------------------------------------------------------------------
(* Frames                                                                  *)

OnlyFrame(t) == \A u \in Threads \ {t} : frame'[u] = frame[u]

Framed == frame \in [Threads -> Frame]

LEMMA SlotsCounted == Cardinality(Slots) \in Nat
BY FS_CardinalityType

LEMMA SlotsNat == Slots \subseteq Nat
BY SlotsCounted

LEMMA FieldsTyped ==
  ASSUME NEW f \in Frame
  PROVE  /\ \A x \in Pcs : [f EXCEPT !.pc = x] \in Frame
         /\ \A x \in 0 .. Cardinality(Slots) : [f EXCEPT !.count = x] \in Frame
         /\ \A x \in Nat : [f EXCEPT !.i = x] \in Frame
         /\ \A x \in Slots \cup {-1} : [f EXCEPT !.key = x] \in Frame
         /\ \A x \in Devices \cup {Nothing} : [f EXCEPT !.device = x] \in Frame
         /\ \A x \in BOOLEAN : [f EXCEPT !.pending = x] \in Frame
         /\ \A x \in Seq(Devices) : [f EXCEPT !.list = x] \in Frame
<1>1. \A x \in Pcs : [f EXCEPT !.pc = x] \in Frame
  BY DEF Frame
<1>2. \A x \in 0 .. Cardinality(Slots) : [f EXCEPT !.count = x] \in Frame
  BY DEF Frame
<1>3. \A x \in Nat : [f EXCEPT !.i = x] \in Frame
  BY DEF Frame
<1>4. \A x \in Slots \cup {-1} : [f EXCEPT !.key = x] \in Frame
  BY DEF Frame
<1>5. \A x \in Devices \cup {Nothing} : [f EXCEPT !.device = x] \in Frame
  BY DEF Frame
<1>6. \A x \in BOOLEAN : [f EXCEPT !.pending = x] \in Frame
  BY DEF Frame
<1>7. \A x \in Seq(Devices) : [f EXCEPT !.list = x] \in Frame
  BY DEF Frame
<1> QED
  BY <1>1, <1>2, <1>3, <1>4, <1>5, <1>6, <1>7

LEMMA IdleFrame == Idle \in Frame
BY SlotsCounted DEF Idle, Frame, Pcs

LEMMA Moved ==
  ASSUME Framed, NEW t \in Threads, NEW f \in Frame,
         frame' = [frame EXCEPT ![t] = f]
  PROVE  Framed' /\ OnlyFrame(t) /\ frame'[t] = f
BY DEF Framed, OnlyFrame

(* All that g keeps of f but its list.                                     *)
SameWalk(g, f) == g.count = f.count /\ g.i = f.i /\ g.key = f.key

LEMMA AdvanceEffect ==
  ASSUME NEW f \in Frame
  PROVE  /\ Advance(f) \in Frame
         /\ Advance(f).pc = "next"
         /\ Advance(f).i = f.i + 1
         /\ Advance(f).count = f.count
         /\ Advance(f).key = f.key
         /\ Advance(f).device = Nothing
         /\ Advance(f).list = f.list
<1> DEFINE g == [f EXCEPT !.pc = "next"]
           h == [g EXCEPT !.i = @ + 1]
<1>1. g \in Frame
  BY FieldsTyped DEF Pcs
<1>2. g.i + 1 \in Nat
  BY <1>1 DEF Frame
<1>3. h \in Frame
  BY <1>1, <1>2, FieldsTyped
<1>4. [h EXCEPT !.device = Nothing] \in Frame
  BY <1>3, FieldsTyped
<1>5. Advance(f) = [h EXCEPT !.device = Nothing]
  BY DEF Advance
<1> QED
  BY <1>4, <1>5 DEF Frame

LEMMA AddEffect ==
  ASSUME NEW f \in Frame, NEW d \in Devices
  PROVE  /\ Add(f, d) \in Frame
         /\ Add(f, d).list = Append(f.list, d)
         /\ Add(f, d).pc = f.pc /\ Add(f, d).device = f.device
         /\ SameWalk(Add(f, d), f)
<1>1. Append(f.list, d) \in Seq(Devices)
  BY DEF Frame
<1> QED
  BY <1>1, FieldsTyped DEF Add, Frame, SameWalk

(* The devices of a list                                                   *)
Elements(l) == {l[j] : j \in 1 .. Len(l)}

LEMMA AppendElements ==
  ASSUME NEW l \in Seq(Devices), NEW d \in Devices
  PROVE  /\ Len(Append(l, d)) = Len(l) + 1
         /\ Elements(Append(l, d)) = Elements(l) \cup {d}
<1>1. /\ Len(l) \in Nat /\ Len(Append(l, d)) = Len(l) + 1
      /\ \A j \in 1 .. Len(l) : Append(l, d)[j] = l[j]
      /\ Append(l, d)[Len(l) + 1] = d
  OBVIOUS
<1>2. 1 .. (Len(l) + 1) = (1 .. Len(l)) \cup {Len(l) + 1}
  BY <1>1
<1> QED
  BY <1>1, <1>2 DEF Elements

LEMMA ElementsTyped ==
  ASSUME NEW l \in Seq(Devices)
  PROVE  Elements(l) \subseteq Devices
BY DEF Elements

-----------------------------------------------------------------------------
(* What the steps of a call do to its frame                                *)

Keeps(t) == Framed' /\ OnlyFrame(t) /\ UNCHANGED <<machine, place>>

Stays(t) ==
  /\ Keeps(t) /\ holder' = holder
  /\ SameWalk(frame'[t], frame[t]) /\ frame'[t].list = frame[t].list

(* On to the next round                                                    *)
Passes(t) ==
  /\ Keeps(t)
  /\ frame'[t].pc = "next" /\ frame'[t].i = frame[t].i + 1
  /\ frame'[t].count = frame[t].count /\ frame'[t].key = frame[t].key

PassesBy(t) == Passes(t) /\ holder' = holder /\ frame'[t].list = frame[t].list

LEMMA SkipEffect ==
  ASSUME Framed, NEW t \in Threads, Skip(t)
  PROVE  PassesBy(t)
<1>1. frame[t] \in Frame
  BY DEF Framed
<1>2. Framed' /\ OnlyFrame(t) /\ frame'[t] = Advance(frame[t])
  BY <1>1, AdvanceEffect, Moved DEF Skip
<1> QED
  BY <1>1, <1>2, AdvanceEffect DEF Skip, PassesBy, Passes, Keeps

LEMMA GotoEffect ==
  ASSUME Framed, NEW t \in Threads, NEW next \in Pcs, Goto(t, next),
         UNCHANGED <<machine, place, holder>>
  PROVE  /\ Stays(t)
         /\ frame'[t].pc = next /\ frame'[t].device = frame[t].device
<1>1. frame[t] \in Frame
  BY DEF Framed
<1>2. Framed' /\ OnlyFrame(t) /\ frame'[t] = [frame[t] EXCEPT !.pc = next]
  BY <1>1, FieldsTyped, Moved DEF Goto, Framed
<1> QED
  BY <1>1, <1>2 DEF Frame, Stays, Keeps, SameWalk

AtDevice(f, next, d) == [[f EXCEPT !.pc = next] EXCEPT !.device = d]

LEMMA AtDeviceEffect ==
  ASSUME NEW f \in Frame, NEW next \in Pcs, NEW d \in Devices
  PROVE  /\ AtDevice(f, next, d) \in Frame
         /\ AtDevice(f, next, d).pc = next
         /\ AtDevice(f, next, d).device = d
         /\ AtDevice(f, next, d).list = f.list
         /\ SameWalk(AtDevice(f, next, d), f)
<1> DEFINE g == [f EXCEPT !.pc = next]
<1>1. g \in Frame
  BY FieldsTyped
<1>2. [g EXCEPT !.device = d] \in Frame
  BY <1>1, FieldsTyped
<1>3. AtDevice(f, next, d) = [g EXCEPT !.device = d]
  BY DEF AtDevice
<1>4. AtDevice(f, next, d) \in Frame
  BY <1>2, <1>3
<1> QED
  BY <1>3, <1>4 DEF Frame, SameWalk

LEMMA DeviceFound ==
  ASSUME Framed, NEW t \in Threads, NEW next \in Pcs, NEW d \in Devices,
         frame' = [frame EXCEPT ![t].pc = next, ![t].device = d],
         UNCHANGED <<machine, place, holder>>
  PROVE  Stays(t) /\ frame'[t].pc = next /\ frame'[t].device = d
<1>1. frame[t] \in Frame
  BY DEF Framed
<1>2. frame' = [frame EXCEPT ![t] = AtDevice(frame[t], next, d)]
  BY DEF Framed, AtDevice
<1>3. /\ Framed' /\ OnlyFrame(t)
      /\ frame'[t] = AtDevice(frame[t], next, d)
  BY <1>1, <1>2, AtDeviceEffect, Moved
<1> QED
  BY <1>1, <1>3, AtDeviceEffect DEF Stays, Keeps

LEMMA CallListEffect ==
  ASSUME TypedSoFar, NEW t \in Threads, CallList(t)
  PROVE  /\ Keeps(t) /\ holder' = holder /\ At(t, "idle")
         /\ frame'[t].pc = "next" /\ frame'[t].count = Rounds
         /\ frame'[t].i = 0 /\ frame'[t].key = -1 /\ frame'[t].list = <<>>
         /\ Rounds \in 0 .. Cardinality(Slots)
<1> DEFINE f == [Idle EXCEPT !.pc = "next"]
<1>1. Rounds \in 0 .. Cardinality(Slots)
  <2>1. Installed \subseteq Slots
    BY DEF Installed
  <2>2. /\ Cardinality(Installed) \in Nat
        /\ Cardinality(Installed) <= Cardinality(Slots)
    BY <2>1, FS_Subset, FS_CardinalityType
  <2> QED
    BY <2>2, SlotsCounted DEF Rounds
<1>2. f \in Frame
  BY IdleFrame, FieldsTyped DEF Pcs
<1>3. [f EXCEPT !.count = Rounds] \in Frame
  BY <1>1, <1>2, FieldsTyped
<1>4. frame' = [frame EXCEPT ![t] = [f EXCEPT !.count = Rounds]]
  BY DEF CallList
<1>5. /\ Framed' /\ OnlyFrame(t)
      /\ frame'[t] = [f EXCEPT !.count = Rounds]
  BY <1>3, <1>4, Moved DEF TypedSoFar, Framed
<1>6. /\ frame'[t].pc = "next" /\ frame'[t].count = Rounds
      /\ frame'[t].i = 0 /\ frame'[t].key = -1 /\ frame'[t].list = <<>>
  BY <1>5 DEF Idle
<1> QED
  BY <1>1, <1>5, <1>6 DEF CallList, Keeps

LEMMA ListFailsEffect ==
  ASSUME Framed, NEW t \in Threads, ListFails(t)
  PROVE  /\ Keeps(t) /\ holder' = holder /\ At(t, "idle")
         /\ frame'[t].pc = "returned" /\ frame'[t].count = 0
         /\ frame'[t].i = 0 /\ frame'[t].key = -1 /\ frame'[t].list = <<>>
         /\ frame'[t].device = Nothing
<1> DEFINE f == [Idle EXCEPT !.pc = "returned"]
           b == System = "linux"
<1>1. f \in Frame
  BY IdleFrame, FieldsTyped DEF Pcs
<1>2. [f EXCEPT !.pending = b] \in Frame
  BY <1>1, FieldsTyped
<1>3. frame' = [frame EXCEPT ![t] = [f EXCEPT !.pending = b]]
  BY DEF ListFails
<1>4. Framed' /\ OnlyFrame(t) /\ frame'[t] = [f EXCEPT !.pending = b]
  BY <1>2, <1>3, Moved
<1>5. /\ frame'[t].pc = "returned" /\ frame'[t].count = 0
      /\ frame'[t].i = 0 /\ frame'[t].key = -1 /\ frame'[t].list = <<>>
      /\ frame'[t].device = Nothing
  BY <1>4 DEF Idle
<1> QED
  BY <1>4, <1>5 DEF ListFails, Keeps

(* A query that fails                                                      *)
LEMMA GivenUp ==
  ASSUME Framed, NEW t \in Threads,
         EnumKeyFails(t) \/ GetValueFails(t) \/ ProbeFails(t)
  PROVE  PassesBy(t)
BY SkipEffect DEF EnumKeyFails, GetValueFails, ProbeFails

LEMMA LeaveEffect ==
  ASSUME Framed, NEW t \in Threads, Leave(t)
  PROVE  Keeps(t) /\ holder' = holder /\ frame'[t] = Idle
BY IdleFrame, Moved DEF Leave, Keeps

LEMMA UnitEffect ==
  ASSUME Framed, NEW t \in Threads, Unit(t)
  PROVE  /\ More(t, "macos")
         /\ \/ /\ Stays(t) /\ frame'[t].pc = "probe"
               /\ place[frame[t].i] \in Devices
               /\ frame'[t].device = place[frame[t].i]
            \/ /\ PassesBy(t)
               /\ ~(/\ place[frame[t].i] \in Devices
                    /\ kindOf[place[frame[t].i]] = Kind)
<1> DEFINE d == place[frame[t].i]
<1>1. CASE d \in Devices /\ kindOf[d] = Kind
  <2>1. /\ More(t, "macos")
        /\ frame' = [frame EXCEPT ![t].pc = "probe", ![t].device = d]
        /\ UNCHANGED <<machine, place, holder>>
    BY <1>1 DEF Unit
  <2>2. Stays(t) /\ frame'[t].pc = "probe" /\ frame'[t].device = d
    BY <1>1, <2>1, DeviceFound DEF Pcs
  <2> QED
    BY <1>1, <2>1, <2>2
<1>2. CASE ~(d \in Devices /\ kindOf[d] = Kind)
  BY <1>2, SkipEffect DEF Unit
<1> QED
  BY <1>1, <1>2

LEMMA EnumKeyEffect ==
  ASSUME Framed, NEW t \in Threads, EnumKey(t)
  PROVE  /\ More(t, "windows")
         /\ \/ \E k \in KeyAt(frame[t].i) :
                 /\ Keeps(t) /\ holder' = holder
                 /\ frame'[t].pc = "component" /\ frame'[t].key = k
                 /\ frame'[t].i = frame[t].i
                 /\ frame'[t].count = frame[t].count
                 /\ frame'[t].list = frame[t].list
            \/ PassesBy(t) /\ KeyAt(frame[t].i) = {}
<1>1. ASSUME NEW k \in KeyAt(frame[t].i),
             frame' = [frame EXCEPT ![t].pc = "component", ![t].key = k],
             UNCHANGED <<machine, place, holder>>
      PROVE  /\ Keeps(t) /\ holder' = holder
             /\ frame'[t].pc = "component" /\ frame'[t].key = k
             /\ frame'[t].i = frame[t].i
             /\ frame'[t].count = frame[t].count
             /\ frame'[t].list = frame[t].list
  <2> DEFINE f == [frame[t] EXCEPT !.pc = "component"]
  <2>1. frame[t] \in Frame /\ k \in Slots
    BY DEF Framed, KeyAt, Installed
  <2>2. f \in Frame
    BY <2>1, FieldsTyped DEF Pcs
  <2>3. [f EXCEPT !.key = k] \in Frame
    BY <2>1, <2>2, FieldsTyped
  <2>4. frame' = [frame EXCEPT ![t] = [f EXCEPT !.key = k]]
    BY <1>1 DEF Framed
  <2>5. Framed' /\ OnlyFrame(t) /\ frame'[t] = [f EXCEPT !.key = k]
    BY <2>3, <2>4, Moved
  <2>6. /\ frame'[t].pc = "component" /\ frame'[t].key = k
        /\ frame'[t].i = frame[t].i /\ frame'[t].count = frame[t].count
        /\ frame'[t].list = frame[t].list
    BY <2>1, <2>5 DEF Frame
  <2> QED
    BY <1>1, <2>5, <2>6 DEF Keeps
<1>2. CASE KeyAt(frame[t].i) = {} /\ Skip(t)
  BY <1>2, SkipEffect DEF EnumKey
<1> QED
  BY <1>1, <1>2 DEF EnumKey

LEMMA ReadComponentEffect ==
  ASSUME Framed, NEW t \in Threads, ReadComponent(t)
  PROVE  \/ /\ Stays(t) /\ frame'[t].pc = "guid"
         \/ /\ PassesBy(t)
            /\ ~(Named(t) \in Devices /\ kindOf[Named(t)] = "tap")
<1>1. CASE Named(t) \in Devices /\ kindOf[Named(t)] = "tap"
  BY <1>1, GotoEffect DEF ReadComponent, Pcs
<1>2. CASE ~(Named(t) \in Devices /\ kindOf[Named(t)] = "tap")
  BY <1>2, SkipEffect DEF ReadComponent
<1> QED
  BY <1>1, <1>2

LEMMA ReadGuidEffect ==
  ASSUME Framed, NEW t \in Threads, ReadGuid(t)
  PROVE  \/ /\ Stays(t) /\ frame'[t].pc = "probe"
            /\ frame'[t].device = Named(t) /\ Named(t) \in Devices
         \/ PassesBy(t) /\ Named(t) \notin Devices
<1>1. CASE Named(t) \in Devices
  BY <1>1, DeviceFound DEF ReadGuid, Pcs
<1>2. CASE Named(t) \notin Devices
  BY <1>2, SkipEffect DEF ReadGuid
<1> QED
  BY <1>1, <1>2

(* A device is put in the list, on the way to the next step or round.      *)
Appends(t, d) == frame'[t].list = Append(frame[t].list, d)

LEMMA WindowsTap ==
  ASSUME listing \in Listings, System = "windows"
  PROVE  Kind = "tap"
BY DEF System, Kind

LEMMA ProbeEffect ==
  ASSUME Framed, listing \in Listings, NEW t \in Threads, Probe(t), frame[t].device \in Devices
  PROVE  /\ Keeps(t) /\ CanTake(frame[t].device)
         /\ holder' = [holder EXCEPT ![frame[t].device] = t]
         /\ SameWalk(frame'[t], frame[t])
         /\ frame'[t].device = frame[t].device
         /\ \/ /\ System = "windows" /\ frame'[t].pc = "close"
               /\ Appends(t, frame[t].device)
            \/ /\ System # "windows" /\ Kind = "tun" /\ frame'[t].pc = "name"
               /\ frame'[t].list = frame[t].list
            \/ /\ System # "windows" /\ Kind # "tun" /\ frame'[t].pc = "close"
               /\ frame'[t].list = frame[t].list
<1> DEFINE f == frame[t]
           d == frame[t].device
           g == Add(f, d)
           x == [g EXCEPT !.pc = "close"]
           y == [f EXCEPT !.pc = "name"]
           z == [f EXCEPT !.pc = "close"]
           next == CASE System = "windows" -> x
                     [] Kind = "tun" -> y [] OTHER -> z
<1>1. f \in Frame
  BY DEF Framed
<1>2. /\ g \in Frame /\ g.list = Append(f.list, d)
      /\ g.device = d /\ SameWalk(g, f)
  BY <1>1, AddEffect
<1>3. /\ [g EXCEPT !.pc = "close"] \in Frame
      /\ [f EXCEPT !.pc = "name"] \in Frame
      /\ [f EXCEPT !.pc = "close"] \in Frame
  BY <1>1, <1>2, FieldsTyped DEF Pcs
<1>4. /\ frame' = [frame EXCEPT ![t] = next]
      /\ CanTake(d) /\ holder' = [holder EXCEPT ![d] = t]
      /\ UNCHANGED <<machine, place>>
  BY DEF Probe
<1>5. CASE System = "windows"
  <2>1. Framed' /\ OnlyFrame(t) /\ frame'[t] = [g EXCEPT !.pc = "close"]
    <3> HIDE DEF x, y, z
    <3>0. Kind # "tun"
      BY <1>5, WindowsTap
    <3>1. next = x
      BY <1>5, <3>0
    <3> HIDE DEF next
    <3>2. frame' = [frame EXCEPT ![t] = x]
      BY <1>4, <3>1
    <3> USE DEF x
    <3> HIDE DEF g
    <3> QED
      BY <1>3, <3>2, Moved
  <2> HIDE DEF g, next
  <2>2. /\ frame'[t].pc = "close" /\ frame'[t].device = g.device
        /\ frame'[t].list = g.list /\ SameWalk(frame'[t], g)
    BY <1>2, <2>1 DEF Frame, SameWalk
  <2> QED
    BY <1>2, <1>4, <1>5, <2>1, <2>2 DEF Keeps, Appends, SameWalk
<1>6. CASE System # "windows" /\ Kind = "tun"
  <2>1. Framed' /\ OnlyFrame(t) /\ frame'[t] = [f EXCEPT !.pc = "name"]
    <3> HIDE DEF x, y, z
    <3>1. next = y
      BY <1>6
    <3> HIDE DEF next
    <3>2. frame' = [frame EXCEPT ![t] = y]
      BY <1>4, <3>1
    <3> USE DEF y
    <3> QED
      BY <1>3, <3>2, Moved
  <2>2. /\ frame'[t].pc = "name" /\ frame'[t].device = d
        /\ frame'[t].list = f.list /\ SameWalk(frame'[t], f)
    BY <1>1, <2>1 DEF Frame, SameWalk
  <2> HIDE DEF g, next
  <2> QED
    BY <1>4, <1>6, <2>1, <2>2 DEF Keeps
<1>7. CASE System # "windows" /\ Kind # "tun"
  <2>1. Framed' /\ OnlyFrame(t) /\ frame'[t] = [f EXCEPT !.pc = "close"]
    <3> HIDE DEF x, y, z
    <3>1. next = z
      BY <1>7
    <3> HIDE DEF next
    <3>2. frame' = [frame EXCEPT ![t] = z]
      BY <1>4, <3>1
    <3> USE DEF z
    <3> QED
      BY <1>3, <3>2, Moved
  <2>2. /\ frame'[t].pc = "close" /\ frame'[t].device = d
        /\ frame'[t].list = f.list /\ SameWalk(frame'[t], f)
    BY <1>1, <2>1 DEF Frame, SameWalk
  <2> HIDE DEF g, next
  <2> QED
    BY <1>4, <1>7, <2>1, <2>2 DEF Keeps
<1> QED
  BY <1>5, <1>6, <1>7

LEMMA AskNameEffect ==
  ASSUME Framed, NEW t \in Threads, AskName(t), frame[t].device \in Devices
  PROVE  /\ Keeps(t) /\ holder' = holder
         /\ SameWalk(frame'[t], frame[t])
         /\ frame'[t].pc = "close" /\ frame'[t].device = frame[t].device
         /\ Appends(t, frame[t].device)
<1> DEFINE d == frame[t].device
           g == Add(frame[t], d)
<1>1. frame[t] \in Frame
  BY DEF Framed
<1>2. /\ g \in Frame /\ g.list = Append(frame[t].list, d)
      /\ g.device = d /\ SameWalk(g, frame[t])
  BY <1>1, AddEffect
<1>3. [g EXCEPT !.pc = "close"] \in Frame
  BY <1>2, FieldsTyped DEF Pcs
<1>4. /\ frame' = [frame EXCEPT ![t] = [g EXCEPT !.pc = "close"]]
      /\ UNCHANGED <<machine, place, holder>>
  BY <1>1 DEF AskName, Framed
<1> HIDE DEF g
<1>5. Framed' /\ OnlyFrame(t) /\ frame'[t] = [g EXCEPT !.pc = "close"]
  BY <1>3, <1>4, Moved
<1>6. /\ frame'[t].pc = "close" /\ frame'[t].device = g.device
      /\ frame'[t].list = g.list /\ SameWalk(frame'[t], g)
  BY <1>2, <1>5 DEF Frame, SameWalk
<1> QED
  BY <1>2, <1>4, <1>5, <1>6 DEF Keeps, Appends, SameWalk

(* On to the next round with a device added                                *)
LEMMA AdvanceAddEffect ==
  ASSUME Framed, NEW t \in Threads, NEW d \in Devices,
         frame' = [frame EXCEPT ![t] = Add(Advance(@), d)],
         UNCHANGED <<machine, place>>
  PROVE  Passes(t) /\ Appends(t, d)
<1>1. frame[t] \in Frame
  BY DEF Framed
<1> DEFINE g == Advance(frame[t])
<1>2. /\ g \in Frame /\ g.pc = "next" /\ g.i = frame[t].i + 1
      /\ g.count = frame[t].count /\ g.key = frame[t].key
      /\ g.list = frame[t].list
  BY <1>1, AdvanceEffect
<1>3. frame' = [frame EXCEPT ![t] = Add(g, d)]
  OBVIOUS
<1> HIDE DEF g
<1>4. /\ Add(g, d) \in Frame /\ Add(g, d).list = Append(g.list, d)
      /\ Add(g, d).pc = g.pc /\ SameWalk(Add(g, d), g)
  BY <1>2, AddEffect
<1>5. Framed' /\ OnlyFrame(t) /\ frame'[t] = Add(g, d)
  BY <1>3, <1>4, Moved
<1> QED
  BY <1>2, <1>4, <1>5 DEF Passes, Keeps, Appends, SameWalk

LEMMA CloseProbeEffect ==
  ASSUME Framed, NEW t \in Threads, CloseProbe(t), frame[t].device \in Devices
  PROVE  /\ Passes(t)
         /\ holder' = [holder EXCEPT ![frame[t].device] = Nobody]
         /\ IF listing = <<"macos", "tap">> THEN Appends(t, frame[t].device)
            ELSE frame'[t].list = frame[t].list
<1>1. CASE listing = <<"macos", "tap">>
  <2>1. /\ frame' = [frame EXCEPT ![t] = Add(Advance(@), frame[t].device)]
        /\ UNCHANGED <<machine, place>>
        /\ holder' = [holder EXCEPT ![frame[t].device] = Nobody]
    BY <1>1 DEF CloseProbe
  <2> QED
    BY <1>1, <2>1, AdvanceAddEffect
<1>2. CASE listing # <<"macos", "tap">>
  <2>1. /\ frame' = [frame EXCEPT ![t] = Advance(@)]
        /\ UNCHANGED <<machine, place>>
        /\ holder' = [holder EXCEPT ![frame[t].device] = Nobody]
    BY <1>2 DEF CloseProbe
  <2>2. frame[t] \in Frame
    BY DEF Framed
  <2>3. Framed' /\ OnlyFrame(t) /\ frame'[t] = Advance(frame[t])
    BY <2>1, <2>2, AdvanceEffect, Moved
  <2> QED
    BY <1>2, <2>1, <2>2, <2>3, AdvanceEffect DEF Passes, Keeps
<1> QED
  BY <1>1, <1>2

LEMMA ReadDirEffect ==
  ASSUME Framed, NEW t \in Threads, ReadDir(t)
  PROVE  /\ More(t, "linux")
         /\ \/ /\ Stays(t) /\ frame'[t].pc = "stat"
               /\ place[frame[t].i] \in Devices
               /\ frame'[t].device = place[frame[t].i]
            \/ PassesBy(t)
<1> DEFINE d == place[frame[t].i]
<1>1. CASE d \in Devices
  <2>1. /\ More(t, "linux")
        /\ frame' = [frame EXCEPT ![t].pc = "stat", ![t].device = d]
        /\ UNCHANGED <<machine, place, holder>>
    BY <1>1 DEF ReadDir
  <2>2. Stays(t) /\ frame'[t].pc = "stat" /\ frame'[t].device = d
    BY <1>1, <2>1, DeviceFound DEF Pcs
  <2> QED
    BY <1>1, <2>1, <2>2
<1>2. CASE d \notin Devices
  BY <1>2, SkipEffect DEF ReadDir
<1> QED
  BY <1>1, <1>2

LEMMA DieEffect ==
  ASSUME Die
  PROVE  /\ Framed' /\ UNCHANGED <<machine, place>>
         /\ \A u \in Threads : frame'[u] = Idle
         /\ holder' = [d \in Devices |-> Nobody]
BY IdleFrame DEF Die, Framed

LEMMA StatEffect ==
  ASSUME Framed, NEW t \in Threads, Stat(t)
  PROVE  \/ /\ Stays(t) /\ frame'[t].pc = "kind"
            /\ frame'[t].device = frame[t].device
         \/ PassesBy(t)
         \/ Die
BY GotoEffect, SkipEffect DEF Stat, Pcs

LEMMA ReadKindEffect ==
  ASSUME Framed, NEW t \in Threads, ReadKind(t), frame[t].device \in Devices
  PROVE  \/ /\ Passes(t) /\ holder' = holder
            /\ LooksRight(frame[t].device)
            /\ Appends(t, frame[t].device)
         \/ PassesBy(t)
         \/ Die
<1> DEFINE d == frame[t].device
<1>1. CASE /\ LooksRight(d)
           /\ frame' = [frame EXCEPT ![t] = Add(Advance(@), d)]
           /\ UNCHANGED <<machine, place, holder>>
  BY <1>1, AdvanceAddEffect
<1>2. CASE Skip(t)
  BY <1>2, SkipEffect
<1> QED
  BY <1>1, <1>2 DEF ReadKind

LEMMA KindUnknownEffect ==
  ASSUME Framed, NEW t \in Threads, KindUnknown(t)
  PROVE  PassesBy(t) \/ Die
<1>3. CASE ~Die
  <2> DEFINE g == Advance(frame[t])
  <2>1. /\ frame' = [frame EXCEPT ![t] = [Advance(@) EXCEPT !.pending = TRUE]]
        /\ UNCHANGED <<machine, place, holder>>
    BY <1>3 DEF KindUnknown
  <2>2. frame' = [frame EXCEPT ![t] = [g EXCEPT !.pending = TRUE]]
    BY <2>1
  <2>3. frame[t] \in Frame
    BY DEF Framed
  <2>4. /\ g \in Frame /\ g.pc = "next" /\ g.i = frame[t].i + 1
        /\ g.count = frame[t].count /\ g.key = frame[t].key
        /\ g.list = frame[t].list
    BY <2>3, AdvanceEffect
  <2> HIDE DEF g
  <2>5. [g EXCEPT !.pending = TRUE] \in Frame
    BY <2>4, FieldsTyped
  <2>6. Framed' /\ OnlyFrame(t) /\ frame'[t] = [g EXCEPT !.pending = TRUE]
    BY <2>2, <2>5, Moved
  <2>7. /\ frame'[t].pc = g.pc /\ frame'[t].i = g.i
        /\ frame'[t].count = g.count /\ frame'[t].key = g.key
        /\ frame'[t].list = g.list
    BY <2>4, <2>6 DEF Frame
  <2>8. PassesBy(t)
    BY <2>1, <2>4, <2>6, <2>7 DEF PassesBy, Passes, Keeps
  <2> QED
    BY <2>8
<1> QED
  BY <1>3

-----------------------------------------------------------------------------
(* Types                                                                   *)

LEMMA IdleSound == FrameSound(Idle) /\ FrameSound(Idle)'
BY DEF FrameSound, Idle, Round, Found

LEMMA TypedInit ==
  ASSUME Init
  PROVE  TypedSoFar
BY IdleFrame, IdleSound DEF Init, TypedSoFar

LEMMA HistoryTyped ==
  ASSUME TypedSoFar, Observe, Framed',
         \A t \in Threads : FrameSound(frame'[t])
  PROVE  /\ seen' \in [Watched -> SUBSET Devices]
         /\ due' \in [Watched -> SUBSET Devices]
         /\ failed' \in [Watched -> SUBSET Devices]
         /\ mistaken' \in [Watched -> SUBSET Devices]
         /\ came' \subseteq Watched
<1>1. seen' \in [Watched -> SUBSET Devices]
  BY DEF Observe, TypedSoFar, Available
<1>2. due' \in [Watched -> SUBSET Devices]
  BY DEF Observe, TypedSoFar, Available
<1>3. failed' \in [Watched -> SUBSET Devices]
  <2>1. \A t \in Watched : Missed(t) \subseteq Devices
    BY DEF Missed
  <2> QED
    BY <2>1 DEF Observe, TypedSoFar
<1>4. mistaken' \in [Watched -> SUBSET Devices]
  <2>1. \A t \in Watched : TakenForTun(t) \subseteq Devices
    BY DEF TakenForTun
  <2> QED
    BY <2>1 DEF Observe, TypedSoFar
<1>5. came' \subseteq Watched
  BY DEF Observe
<1> QED
  BY <1>1, <1>2, <1>3, <1>4, <1>5

(* A step that moves one frame, to a sound one                             *)
LEMMA TypedMove ==
  ASSUME TypedSoFar, NEW t \in Threads, Keeps(t), FrameSound(frame'[t]),
         holder' \in [Devices -> Threads \cup {User, Nobody}], Observe
  PROVE  TypedSoFar'
<1>1. \A u \in Threads : FrameSound(frame'[u])
  BY DEF Keeps, OnlyFrame, TypedSoFar
<1>2. \A u \in Threads : FrameSound(frame[u])'
  BY <1>1 DEF Keeps, machine, FrameSound, System
<1>3. /\ listing' \in Listings /\ kindOf' \in Kinds
      /\ place' \in [Slots -> Devices \cup {Nothing}]
      /\ frame' \in [Threads -> Frame]
  BY DEF Keeps, Framed, TypedSoFar, machine
<1> QED
  BY <1>1, <1>2, <1>3, HistoryTyped DEF TypedSoFar, Keeps

LEMMA PassSound ==
  ASSUME TypedSoFar, NEW t \in Threads, frame[t].pc \in Round \cup {"next"},
         frame[t].i < frame[t].count, Passes(t)
  PROVE  FrameSound(frame'[t])
<1>1. frame[t] \in Frame /\ frame'[t] \in Frame
  BY DEF TypedSoFar, Passes, Keeps, Framed
<1> QED
  BY <1>1 DEF Passes, FrameSound, Frame, Round, Found

LEMMA TypedDie ==
  ASSUME TypedSoFar, Die, Observe
  PROVE  TypedSoFar'
<1>2. \A u \in Threads : FrameSound(frame[u])' /\ FrameSound(frame'[u])
  BY IdleSound, DieEffect
<1>3. holder' \in [Devices -> Threads \cup {User, Nobody}]
  BY DieEffect
<1>4. /\ listing' \in Listings /\ kindOf' \in Kinds
      /\ place' \in [Slots -> Devices \cup {Nothing}]
      /\ frame' \in [Threads -> Frame]
  BY DieEffect DEF Framed, TypedSoFar, machine
<1> QED
  BY <1>2, <1>3, <1>4, DieEffect, HistoryTyped DEF TypedSoFar

LEMMA MoreCounts ==
  ASSUME TypedSoFar, NEW t \in Threads, NEW s, More(t, s)
  PROVE  /\ frame[t].pc = "next" /\ frame[t].i < frame[t].count
         /\ System = s /\ frame[t].i \in Slots
<1>1. /\ frame[t].pc = "next" /\ frame[t].i < frame[t].count
      /\ frame[t].i \in Nat /\ frame[t].count \in 0 .. Cardinality(Slots)
      /\ System = s
  BY DEF More, At, TypedSoFar, Frame
<1> QED
  BY <1>1, SlotsCounted

LEMMA TypedStep ==
  ASSUME TypedSoFar, NEW t \in Threads, Step(t), Observe
  PROVE  TypedSoFar'
<1>0. /\ Framed /\ frame[t] \in Frame /\ FrameSound(frame[t])
      /\ holder \in [Devices -> Threads \cup {User, Nobody}]
  BY DEF TypedSoFar, Framed
<1>a. frame[t].pc \in Found => frame[t].device \in Devices
  BY <1>0 DEF FrameSound
<1>b. ASSUME PassesBy(t), frame[t].pc \in Round \cup {"next"},
             frame[t].i < frame[t].count
      PROVE  TypedSoFar'
  BY <1>0, <1>b, PassSound, TypedMove DEF PassesBy, Passes
<1>c. frame[t].pc \in Round => frame[t].i < frame[t].count
  BY <1>0 DEF FrameSound
<1>d. ASSUME PassesBy(t), frame[t].pc \in Round
      PROVE  TypedSoFar'
  BY <1>b, <1>c, <1>d
<1>e. ASSUME Keeps(t)
      PROVE  frame'[t] \in Frame
  BY <1>e DEF Keeps, Framed
<1>1. CASE CallList(t)
  <2>1. FrameSound(frame'[t])
    BY <1>1, CallListEffect DEF FrameSound, Round, Found
  <2> QED
    BY <1>0, <1>1, <2>1, CallListEffect, TypedMove
<1>2. CASE Return(t)
  <2>1. Stays(t) /\ frame'[t].pc = "returned"
    BY <1>0, <1>2, GotoEffect DEF Return, Pcs
  <2>2. FrameSound(frame'[t])
    BY <1>0, <2>1 DEF FrameSound, Round, Found, Stays, SameWalk
  <2> QED
    BY <1>0, <2>1, <2>2, TypedMove DEF Stays
<1>3. CASE Leave(t)
  <2>1. FrameSound(frame'[t])
    BY <1>0, <1>3, LeaveEffect, IdleSound
  <2> QED
    BY <1>0, <1>3, <2>1, LeaveEffect, TypedMove
<1>4. CASE Unit(t)
  <2>1. /\ frame[t].pc = "next" /\ frame[t].i < frame[t].count
        /\ System = "macos"
    BY <1>0, <1>4, UnitEffect, MoreCounts
  <2>2. CASE /\ Stays(t) /\ frame'[t].pc = "probe"
             /\ place[frame[t].i] \in Devices
             /\ frame'[t].device = place[frame[t].i]
    <3>1. FrameSound(frame'[t])
      BY <1>0, <2>1, <2>2 DEF FrameSound, Round, Found, Stays, SameWalk
    <3> QED
      BY <1>0, <2>2, <3>1, TypedMove DEF Stays
  <2> QED
    BY <1>0, <1>b, <1>4, <2>1, <2>2, UnitEffect
<1>5. CASE EnumKey(t)
  <2>1. /\ frame[t].pc = "next" /\ frame[t].i < frame[t].count
        /\ System = "windows"
    BY <1>0, <1>5, EnumKeyEffect, MoreCounts
  <2>2. ASSUME NEW k \in KeyAt(frame[t].i),
               Keeps(t), holder' = holder,
               frame'[t].pc = "component", frame'[t].key = k,
               frame'[t].i = frame[t].i, frame'[t].count = frame[t].count
        PROVE  TypedSoFar'
    <3>1. k \in Slots
      BY DEF KeyAt, Installed
    <3>2. FrameSound(frame'[t])
      BY <1>0, <2>1, <2>2, <3>1 DEF FrameSound, Round, Found, Frame
    <3> QED
      BY <1>0, <2>2, <3>2, TypedMove
  <2> QED
    BY <1>0, <1>b, <1>5, <2>1, <2>2, EnumKeyEffect
<1>6. CASE ReadComponent(t)
  <2>1. frame[t].pc = "component"
    BY <1>6 DEF ReadComponent, At
  <2>2. CASE Stays(t) /\ frame'[t].pc = "guid"
    <3>1. FrameSound(frame'[t])
      BY <1>0, <2>1, <2>2 DEF FrameSound, Round, Found, Stays, SameWalk
    <3> QED
      BY <1>0, <2>2, <3>1, TypedMove DEF Stays
  <2> QED
    BY <1>0, <1>d, <1>6, <2>1, <2>2, ReadComponentEffect DEF Round
<1>7. CASE ReadGuid(t)
  <2>1. frame[t].pc = "guid"
    BY <1>7 DEF ReadGuid, At
  <2>2. CASE /\ Stays(t) /\ frame'[t].pc = "probe"
             /\ frame'[t].device = Named(t) /\ Named(t) \in Devices
    <3>1. FrameSound(frame'[t])
      BY <1>0, <2>1, <2>2 DEF FrameSound, Round, Found, Stays, SameWalk
    <3> QED
      BY <1>0, <2>2, <3>1, TypedMove DEF Stays
  <2> QED
    BY <1>0, <1>d, <1>7, <2>1, <2>2, ReadGuidEffect DEF Round
<1>8. CASE Probe(t)
  <2>1. frame[t].pc = "probe"
    BY <1>8 DEF Probe, At
  <2>2. frame[t].device \in Devices
    BY <1>a, <2>1 DEF Found
  <2>3. /\ Keeps(t) /\ SameWalk(frame'[t], frame[t])
        /\ holder' = [holder EXCEPT ![frame[t].device] = t]
        /\ frame'[t].device = frame[t].device
        /\ \/ frame'[t].pc = "close"
           \/ frame'[t].pc = "name" /\ System # "windows" /\ Kind = "tun"
    BY <1>0, <1>8, <2>2, ProbeEffect DEF TypedSoFar
  <2>4. CanTake(frame[t].device)
    BY <1>8 DEF Probe
  <2>5. holder' \in [Devices -> Threads \cup {User, Nobody}]
    BY <1>0, <2>2, <2>3
  <2>6. FrameSound(frame'[t])
    <3>1. System # "linux"
      BY <1>0, <2>1 DEF FrameSound
    <3>2. System # "windows" /\ Kind = "tun" => listing = <<"macos", "tun">>
      BY <3>1 DEF System, Kind, TypedSoFar
    <3> QED
      BY <1>0, <2>1, <2>2, <2>3, <3>1, <3>2
      DEF FrameSound, Round, Found, SameWalk
  <2> QED
    BY <2>3, <2>5, <2>6, TypedMove
<1>9. CASE EnumKeyFails(t) \/ GetValueFails(t) \/ ProbeFails(t)
  <2>1. PassesBy(t)
    BY <1>0, <1>9, GivenUp
  <2>2. \/ frame[t].pc \in Round
        \/ frame[t].pc = "next" /\ frame[t].i < frame[t].count
    BY <1>9 DEF EnumKeyFails, GetValueFails, ProbeFails, More, At, Round, Found
  <2> QED
    BY <1>b, <1>c, <2>1, <2>2
<1>10. CASE AskName(t)
  <2>1. frame[t].pc = "name"
    BY <1>10 DEF AskName, At
  <2>2. frame[t].device \in Devices
    BY <1>a, <2>1 DEF Found
  <2>3. /\ Keeps(t) /\ holder' = holder /\ SameWalk(frame'[t], frame[t])
        /\ frame'[t].pc = "close" /\ frame'[t].device = frame[t].device
    BY <1>0, <1>10, <2>2, AskNameEffect
  <2>4. System # "linux"
    BY <1>0, <2>1 DEF FrameSound, System
  <2>5. FrameSound(frame'[t])
    BY <1>0, <2>1, <2>2, <2>3, <2>4 DEF FrameSound, Round, Found, SameWalk
  <2> QED
    BY <1>0, <2>3, <2>5, TypedMove
<1>11. CASE AskNameFails(t)
  <2>1. frame[t].pc = "name"
    BY <1>11 DEF AskNameFails, At
  <2>2. /\ Stays(t) /\ frame'[t].pc = "close"
        /\ frame'[t].device = frame[t].device
    BY <1>0, <1>11, GotoEffect DEF AskNameFails, Pcs
  <2>3. System # "linux"
    BY <1>0, <2>1 DEF FrameSound, System
  <2>4. FrameSound(frame'[t])
    BY <1>0, <1>a, <2>1, <2>2, <2>3
    DEF FrameSound, Round, Found, Stays, SameWalk
  <2> QED
    BY <1>0, <2>2, <2>4, TypedMove DEF Stays
<1>12. CASE CloseProbe(t)
  <2>1. frame[t].pc = "close"
    BY <1>12 DEF CloseProbe, At
  <2>2. frame[t].device \in Devices
    BY <1>a, <2>1 DEF Found
  <2>3. /\ Passes(t)
        /\ holder' = [holder EXCEPT ![frame[t].device] = Nobody]
    BY <1>0, <1>12, <2>2, CloseProbeEffect
  <2>4. FrameSound(frame'[t])
    BY <1>c, <2>1, <2>3, PassSound DEF Round, Found
  <2>5. holder' \in [Devices -> Threads \cup {User, Nobody}]
    BY <1>0, <2>2, <2>3
  <2> QED
    BY <2>3, <2>4, <2>5, TypedMove DEF Passes
<1>13. CASE ReadDir(t)
  <2>1. /\ frame[t].pc = "next" /\ frame[t].i < frame[t].count
        /\ System = "linux"
    BY <1>0, <1>13, ReadDirEffect, MoreCounts
  <2>2. CASE /\ Stays(t) /\ frame'[t].pc = "stat"
             /\ place[frame[t].i] \in Devices
             /\ frame'[t].device = place[frame[t].i]
    <3>1. FrameSound(frame'[t])
      BY <1>0, <2>1, <2>2 DEF FrameSound, Round, Found, Stays, SameWalk
    <3> QED
      BY <1>0, <2>2, <3>1, TypedMove DEF Stays
  <2> QED
    BY <1>0, <1>b, <1>13, <2>1, <2>2, ReadDirEffect
<1>14. CASE Stat(t)
  <2>1. frame[t].pc = "stat"
    BY <1>14 DEF Stat, At
  <2>2. CASE /\ Stays(t) /\ frame'[t].pc = "kind"
             /\ frame'[t].device = frame[t].device
    <3>1. FrameSound(frame'[t])
      BY <1>0, <1>a, <2>1, <2>2
      DEF FrameSound, Round, Found, Stays, SameWalk
    <3> QED
      BY <1>0, <2>2, <3>1, TypedMove DEF Stays
  <2> QED
    BY <1>0, <1>d, <1>14, <2>1, <2>2, StatEffect, TypedDie DEF Round, Found
<1>15. CASE ReadKind(t)
  <2>1. frame[t].pc = "kind"
    BY <1>15 DEF ReadKind, At
  <2>2. frame[t].device \in Devices
    BY <1>a, <2>1 DEF Found
  <2>3. CASE Passes(t) /\ holder' = holder
    <3>1. FrameSound(frame'[t])
      BY <1>c, <2>1, <2>3, PassSound DEF Round, Found
    <3> QED
      BY <1>0, <2>3, <3>1, TypedMove DEF Passes
  <2> QED
    BY <1>0, <1>15, <2>2, <2>3, ReadKindEffect, TypedDie DEF PassesBy
<1>16. CASE KindUnknown(t)
  <2>1. frame[t].pc = "kind"
    BY <1>16 DEF KindUnknown, At
  <2> QED
    BY <1>0, <1>d, <1>16, <2>1, KindUnknownEffect, TypedDie DEF Round, Found
<1>17. CASE ListFails(t)
  <2>1. FrameSound(frame'[t])
    BY <1>0, <1>17, ListFailsEffect DEF FrameSound, Round, Found
  <2> QED
    BY <1>0, <1>17, <2>1, ListFailsEffect, TypedMove
<1> QED
  BY <1>1, <1>2, <1>3, <1>4, <1>5, <1>6, <1>7, <1>8, <1>9, <1>10, <1>11,
     <1>12, <1>13, <1>14, <1>15, <1>16, <1>17 DEF Step

(* The others move no frame.                                               *)
LEMMA OthersEffect ==
  ASSUME TypedSoFar, Others
  PROVE  /\ frame' = frame /\ UNCHANGED machine
         /\ place' \in [Slots -> Devices \cup {Nothing}]
         /\ holder' \in [Devices -> Threads \cup {User, Nobody}]
         /\ \A d \in Devices, t \in Threads : holder'[d] = t <=> holder[d] = t
         /\ \/ place' = place
            \/ \E k \in Slots :
                 /\ place' = [place EXCEPT ![k] = Nothing]
                 /\ System # "macos"
            \/ \E k \in Slots, d \in Devices :
                 /\ ~Present(d) /\ place[k] = Nothing
                 /\ place' = [place EXCEPT ![k] = d]
                 /\ System # "macos"
<1>1. CASE \E d \in Devices : Open(d) \/ Close(d)
  BY <1>1 DEF Open, Close, TypedSoFar
<1>2. CASE \E k \in Slots : Remove(k)
  <2> PICK k \in Slots : Remove(k)
    BY <1>2
  <2>1. /\ place' = [place EXCEPT ![k] = Nothing] /\ System # "macos"
        /\ UNCHANGED <<machine, holder, frame>>
    BY DEF Remove
  <2>2. place' \in [Slots -> Devices \cup {Nothing}]
    BY <2>1 DEF TypedSoFar
  <2>3. QED
    BY <2>1, <2>2 DEF TypedSoFar
<1>3. CASE \E k \in Slots, d \in Devices : Install(d, k)
  <2> PICK k \in Slots, d \in Devices : Install(d, k)
    BY <1>3
  <2>1. /\ place' = [place EXCEPT ![k] = d] /\ System # "macos"
        /\ ~Present(d) /\ place[k] = Nothing
        /\ UNCHANGED <<machine, holder, frame>>
    BY DEF Install
  <2>2. place' \in [Slots -> Devices \cup {Nothing}]
    BY <2>1 DEF TypedSoFar
  <2>3. QED
    BY <2>1, <2>2 DEF TypedSoFar
<1> QED
  BY <1>1, <1>2, <1>3 DEF Others

LEMMA TypedOthers ==
  ASSUME TypedSoFar, Others, Observe
  PROVE  TypedSoFar'
<1>1. \A t \in Threads : FrameSound(frame'[t]) /\ FrameSound(frame[t])'
  BY OthersEffect DEF TypedSoFar, FrameSound, System, machine
<1>2. Framed'
  BY OthersEffect DEF TypedSoFar, Framed
<1> QED
  BY <1>1, <1>2, OthersEffect, HistoryTyped DEF TypedSoFar, machine, Framed

LEMMA TypedKept ==
  ASSUME TypedSoFar, [Next]_vars
  PROVE  TypedSoFar'
<1>1. CASE Next
  BY <1>1, TypedStep, TypedOthers DEF Next
<1>2. CASE UNCHANGED vars
  <2>1. \A t \in Threads : FrameSound(frame[t])'
    BY <1>2 DEF vars, machine, FrameSound, System, TypedSoFar
  <2> QED
    BY <1>2, <2>1 DEF vars, machine, history, TypedSoFar
<1> QED
  BY <1>1, <1>2

(* The variables have their types, and no index leaves its range, whatever *)
(* is installed and removed meanwhile.                                     *)
THEOREM TypeCorrect == Spec => []TypeOK
<1>1. TypedSoFar => TypeOK
  <2> SUFFICES ASSUME TypedSoFar PROVE TypeOK
    OBVIOUS
  <2>1. ASSUME NEW t \in Threads
        PROVE  /\ frame[t].pc \in Pcs
               /\ frame[t].count \in 0 .. Cardinality(Slots)
               /\ frame[t].i \in 0 .. frame[t].count
               /\ frame[t].key \in Slots \cup {-1}
               /\ frame[t].device \in Devices \cup {Nothing}
               /\ Listed(t) \subseteq Devices
    <3>1. frame[t] \in Frame /\ FrameSound(frame[t])
      BY DEF TypedSoFar
    <3>2. Listed(t) \subseteq Devices
      BY <3>1, ElementsTyped DEF Frame, Listed, Elements
    <3> QED
      BY <3>1, <3>2, SlotsCounted DEF Frame, FrameSound
  <2> QED
    BY <2>1 DEF TypeOK, TypedSoFar
<1> QED
  BY <1>1, TypedInit, TypedKept, PTL DEF Spec

-----------------------------------------------------------------------------
(* Who has a device open                                                   *)

Taking(t) == frame[t].pc \in {"name", "close"}

(* A step of t from elsewhere that opens and closes nothing                *)
LEMMA HeldAside ==
  ASSUME TypedSoFar, ProbesLeaveNoTrace, NEW t \in Threads, ~Taking(t),
         OnlyFrame(t), holder' = holder
  PROVE  ProbesLeaveNoTrace'
<1> SUFFICES ASSUME NEW d \in Devices, NEW u \in Threads, holder'[d] = u
             PROVE  /\ frame'[u].device = d
                    /\ frame'[u].pc \in {"name", "close"}
  BY DEF ProbesLeaveNoTrace, At
<1>1. frame[u].device = d /\ frame[u].pc \in {"name", "close"}
  BY DEF ProbesLeaveNoTrace, At
<1> QED
  BY <1>1 DEF OnlyFrame, Taking

(* A step of t that keeps, or comes to keep, the device it is about        *)
LEMMA HeldOwn ==
  ASSUME TypedSoFar, ProbesLeaveNoTrace, NEW t \in Threads,
         OnlyFrame(t), frame[t].device \in Devices,
         holder' = holder \/ (/\ holder' = [holder EXCEPT ![frame[t].device] = t]
                              /\ ~Taking(t)),
         frame'[t].device = frame[t].device,
         frame'[t].pc \in {"name", "close"}
  PROVE  ProbesLeaveNoTrace'
<1> SUFFICES ASSUME NEW d \in Devices, NEW u \in Threads, holder'[d] = u
             PROVE  /\ frame'[u].device = d
                    /\ frame'[u].pc \in {"name", "close"}
  BY DEF ProbesLeaveNoTrace, At
<1>1. CASE holder[d] = u
  <2>1. frame[u].device = d /\ frame[u].pc \in {"name", "close"}
    BY <1>1 DEF ProbesLeaveNoTrace, At
  <2> QED
    BY <2>1 DEF OnlyFrame
<1>2. CASE holder[d] # u
  <2>1. d = frame[t].device /\ u = t
    BY <1>2 DEF TypedSoFar
  <2> QED
    BY <2>1
<1> QED
  BY <1>1, <1>2

LEMMA HeldClose ==
  ASSUME TypedSoFar, ProbesLeaveNoTrace, NEW t \in Threads,
         OnlyFrame(t), frame[t].device \in Devices,
         holder' = [holder EXCEPT ![frame[t].device] = Nobody]
  PROVE  ProbesLeaveNoTrace'
<1> SUFFICES ASSUME NEW d \in Devices, NEW u \in Threads, holder'[d] = u
             PROVE  /\ frame'[u].device = d
                    /\ frame'[u].pc \in {"name", "close"}
  BY DEF ProbesLeaveNoTrace, At
<1>1. d # frame[t].device /\ holder[d] = u
  BY DEF TypedSoFar
<1>2. frame[u].device = d /\ frame[u].pc \in {"name", "close"}
  BY <1>1 DEF ProbesLeaveNoTrace, At
<1> QED
  BY <1>1, <1>2 DEF OnlyFrame

LEMMA HeldDie ==
  ASSUME Die
  PROVE  ProbesLeaveNoTrace'
BY DieEffect DEF ProbesLeaveNoTrace

LEMMA HeldStep ==
  ASSUME TypedSoFar, ProbesLeaveNoTrace, NEW t \in Threads, Step(t)
  PROVE  ProbesLeaveNoTrace'
<1>0. Framed /\ FrameSound(frame[t]) /\ listing \in Listings
  BY DEF TypedSoFar, Framed
<1>a. frame[t].pc \in Found => frame[t].device \in Devices
  BY <1>0 DEF FrameSound
<1>b. ASSUME PassesBy(t) \/ Stays(t), ~Taking(t)
      PROVE  ProbesLeaveNoTrace'
  BY <1>b, HeldAside DEF PassesBy, Passes, Stays, Keeps
<1>1. CASE CallList(t)
  BY <1>0, <1>1, CallListEffect, HeldAside DEF Taking, Keeps, At
<1>2. CASE Return(t)
  BY <1>0, <1>b, <1>2, GotoEffect DEF Return, Pcs, At, Taking
<1>3. CASE Leave(t)
  BY <1>0, <1>3, LeaveEffect, HeldAside DEF Leave, Taking, Keeps, At
<1>4. CASE Unit(t)
  BY <1>0, <1>b, <1>4, UnitEffect, MoreCounts DEF Taking
<1>5. CASE EnumKey(t)
  <2>1. frame[t].pc = "next"
    BY <1>0, <1>5, EnumKeyEffect, MoreCounts
  <2> QED
    BY <1>0, <1>b, <1>5, <2>1, EnumKeyEffect, HeldAside DEF Taking, Keeps
<1>6. CASE ReadComponent(t)
  BY <1>0, <1>b, <1>6, ReadComponentEffect DEF ReadComponent, At, Taking
<1>7. CASE ReadGuid(t)
  BY <1>0, <1>b, <1>7, ReadGuidEffect DEF ReadGuid, At, Taking
<1>8. CASE Probe(t)
  <2>1. frame[t].pc = "probe" /\ frame[t].device \in Devices
    BY <1>a, <1>8 DEF Probe, At, Found
  <2>2. /\ OnlyFrame(t)
        /\ holder' = [holder EXCEPT ![frame[t].device] = t]
        /\ frame'[t].device = frame[t].device
        /\ frame'[t].pc \in {"name", "close"}
    BY <1>0, <1>8, <2>1, ProbeEffect DEF Keeps
  <2> QED
    BY <2>1, <2>2, HeldOwn DEF Taking
<1>9. CASE EnumKeyFails(t) \/ GetValueFails(t) \/ ProbeFails(t)
  BY <1>0, <1>b, <1>9, GivenUp
  DEF EnumKeyFails, GetValueFails, ProbeFails, More, At, Taking
<1>10. CASE AskName(t)
  <2>1. frame[t].device \in Devices
    BY <1>a, <1>10 DEF AskName, At, Found
  <2> QED
    BY <1>0, <1>10, <2>1, AskNameEffect, HeldOwn DEF Keeps
<1>11. CASE AskNameFails(t)
  <2>1. frame[t].device \in Devices
    BY <1>a, <1>11 DEF AskNameFails, At, Found
  <2>2. /\ Stays(t) /\ frame'[t].pc = "close"
        /\ frame'[t].device = frame[t].device
    BY <1>0, <1>11, GotoEffect DEF AskNameFails, Pcs
  <2> QED
    BY <2>1, <2>2, HeldOwn DEF Stays, Keeps
<1>12. CASE CloseProbe(t)
  <2>1. frame[t].device \in Devices
    BY <1>a, <1>12 DEF CloseProbe, At, Found
  <2> QED
    BY <1>0, <1>12, <2>1, CloseProbeEffect, HeldClose DEF Passes, Keeps
<1>13. CASE ReadDir(t)
  BY <1>0, <1>b, <1>13, ReadDirEffect, MoreCounts DEF Taking
<1>14. CASE Stat(t)
  BY <1>0, <1>b, <1>14, StatEffect, HeldDie DEF Stat, At, Taking
<1>15. CASE ReadKind(t)
  <2>1. frame[t].pc = "kind" /\ frame[t].device \in Devices
    BY <1>a, <1>15 DEF ReadKind, At, Found
  <2> QED
    BY <1>0, <1>b, <1>15, <2>1, ReadKindEffect, HeldDie, HeldAside
    DEF Taking, Passes, Keeps
<1>16. CASE KindUnknown(t)
  BY <1>0, <1>b, <1>16, KindUnknownEffect, HeldDie DEF KindUnknown, At, Taking
<1>17. CASE ListFails(t)
  BY <1>0, <1>17, ListFailsEffect, HeldAside DEF Taking, Keeps, At
<1> QED
  BY <1>1, <1>2, <1>3, <1>4, <1>5, <1>6, <1>7, <1>8, <1>9, <1>10, <1>11,
     <1>12, <1>13, <1>14, <1>15, <1>16, <1>17 DEF Step

LEMMA HeldKept ==
  ASSUME TypedSoFar, ProbesLeaveNoTrace, [Next]_vars
  PROVE  ProbesLeaveNoTrace'
<1>1. CASE Next
  <2>1. CASE Others
    BY <2>1, OthersEffect DEF ProbesLeaveNoTrace, At
  <2> QED
    BY <1>1, <2>1, HeldStep DEF Next
<1>2. CASE UNCHANGED vars
  BY <1>2 DEF vars, ProbesLeaveNoTrace, At
<1> QED
  BY <1>1, <1>2

(* Whichever call of a probe fails, and whatever the others do meanwhile,  *)
(* a lister has no device open but the one it is asking about, and none at *)
(* the end.                                                                *)
THEOREM NothingLeftOpen == Spec => []ProbesLeaveNoTrace
<1>1. Init => ProbesLeaveNoTrace
  BY DEF Init, ProbesLeaveNoTrace
<1> QED
  BY <1>1, TypedInit, TypedKept, HeldKept, PTL DEF Spec

-----------------------------------------------------------------------------
(* What is listed was available.                                           *)

(* What a step must leave of what a thread lists and holds                 *)
SeenAlready(t) ==
  /\ Listed(t)' \subseteq Vouched(t)
  /\ Taking(t)' => frame'[t].device \in seen[t]
  /\ frame'[t].pc = "kind" /\ LooksRight(frame'[t].device) =>
       frame'[t].device \in Vouched(t) \cup TakenForTun(t)

(* The steps at which more is to be known of the device                    *)
Asking(t) == frame[t].pc \in {"name", "close", "kind"}

LEMMA LooksSame ==
  ASSUME UNCHANGED machine
  PROVE  \A d : LooksRight(d)' = LooksRight(d)
BY DEF machine, LooksRight, AddressLength, Kind

LEMMA SeenMove ==
  ASSUME TypedSoFar', Observe, UNCHANGED machine,
         \A t \in Watched : Calling(t)' => SeenAlready(t)
  PROVE  SeenSoFar'
<1> SUFFICES ASSUME NEW t \in Watched
             PROVE  /\ Calling(t)' => Available' \subseteq seen'[t]
                    /\ Taking(t)' => frame'[t].device \in seen'[t]
                    /\ KindKnown(t)'
                    /\ Listed(t)' \subseteq Vouched(t)'
  BY DEF SeenSoFar, Taking
<1>1. CASE Calling(t)'
  <2>1. seen'[t] = seen[t] \cup Available'
    BY <1>1 DEF Observe
  <2>2. mistaken'[t] = mistaken[t] \cup TakenForTun(t)
    BY <1>1 DEF Observe
  <2>3. Vouched(t) \subseteq Vouched(t)'
    BY <2>1, <2>2, LooksSame DEF Vouched
  <2>4. \A d \in TakenForTun(t) : LooksRight(d) => d \in Vouched(t)'
    BY <2>2, LooksSame DEF Vouched
  <2>5. KindKnown(t)'
    BY <1>1, <2>3, <2>4, LooksSame
    DEF SeenAlready, KindKnown, machine, LooksRight, AddressLength, Kind
  <2> QED
    BY <1>1, <2>1, <2>3, <2>5 DEF SeenAlready
<1>2. CASE ~Calling(t)'
  <2>1. frame'[t] = Idle /\ Listed(t)' = {}
    <3>1. frame'[t] = Idle
      BY <1>2 DEF TypedSoFar, FrameSound, Calling
    <3> QED
      BY <3>1 DEF Listed, Idle
  <2> QED
    BY <1>2, <2>1 DEF Idle, Taking, KindKnown
<1> QED
  BY <1>1, <1>2

LEMMA SeenSame ==
  ASSUME SeenSoFar, NEW t \in Watched, frame'[t] = frame[t]
  PROVE  SeenAlready(t)
BY DEF SeenSoFar, SeenAlready, Listed, Taking, KindKnown

LEMMA SeenStill ==
  ASSUME SeenSoFar, NEW t \in Threads, OnlyFrame(t), UNCHANGED machine,
         t \in Watched => SeenAlready(t), TypedSoFar', Observe
  PROVE  SeenSoFar'
<1>1. \A u \in Watched : u # t => SeenAlready(u)
  BY SeenSame DEF OnlyFrame
<1> QED
  BY <1>1, SeenMove

(* A step that adds no device, or one that is vouched for                  *)
LEMMA SeenList ==
  ASSUME TypedSoFar, SeenSoFar, NEW t \in Watched,
         \/ frame'[t].list = frame[t].list
         \/ \E d \in Vouched(t) : d \in Devices /\ Appends(t, d)
  PROVE  Listed(t)' \subseteq Vouched(t)
<1>1. frame[t].list \in Seq(Devices)
  BY DEF TypedSoFar, Frame
<1>2. Listed(t) = Elements(frame[t].list)
  BY DEF Listed, Elements
<1>3. Listed(t)' = Elements(frame'[t].list)
  BY DEF Listed, Elements
<1>4. Listed(t) \subseteq Vouched(t)
  BY DEF SeenSoFar
<1>5. CASE frame'[t].list = frame[t].list
  BY <1>2, <1>3, <1>4, <1>5
<1>6. ASSUME NEW d \in Vouched(t), d \in Devices, Appends(t, d)
      PROVE  Listed(t)' \subseteq Vouched(t)
  <2>1. Elements(frame'[t].list) = Elements(frame[t].list) \cup {d}
    BY <1>1, <1>6, AppendElements DEF Appends
  <2> QED
    BY <1>2, <1>3, <1>4, <2>1
<1> QED
  BY <1>5, <1>6

LEMMA SeenPass ==
  ASSUME TypedSoFar, SeenSoFar, NEW t \in Threads, TypedSoFar', Observe,
         \/ Passes(t) /\ frame'[t].list = frame[t].list
         \/ Stays(t) /\ ~Asking(t)'
         \/ /\ Passes(t)
            /\ \E d \in Devices : /\ Appends(t, d)
                                  /\ t \in Watched => d \in Vouched(t)
  PROVE  SeenSoFar'
<1>1. ~Asking(t)' /\ OnlyFrame(t) /\ UNCHANGED machine
  BY DEF PassesBy, Passes, Stays, Keeps, Asking
<1>2. ASSUME t \in Watched
      PROVE  \/ frame'[t].list = frame[t].list
             \/ \E d \in Vouched(t) : d \in Devices /\ Appends(t, d)
  BY <1>2 DEF PassesBy, Stays
<1>3. t \in Watched => SeenAlready(t)
  BY <1>1, <1>2, SeenList DEF SeenAlready, Asking, Taking
<1> QED
  BY <1>1, <1>3, SeenStill

LEMMA SeenDie ==
  ASSUME Die, TypedSoFar', Observe
  PROVE  SeenSoFar'
<1>1. (\A t \in Watched : ~Calling(t)') /\ UNCHANGED machine
  BY DieEffect DEF Calling, Idle
<1> QED
  BY <1>1, SeenMove

LEMMA SeenStep ==
  ASSUME TypedSoFar, SeenSoFar, NEW t \in Threads, Step(t),
         TypedSoFar', Observe
  PROVE  SeenSoFar'
<1>0. /\ Framed /\ FrameSound(frame[t]) /\ listing \in Listings
      /\ holder \in [Devices -> Threads \cup {User, Nobody}]
  BY DEF TypedSoFar, Framed
<1>a. frame[t].pc \in Found => frame[t].device \in Devices
  BY <1>0 DEF FrameSound
<1>b. ASSUME PassesBy(t) \/ (Stays(t) /\ ~Asking(t)')
      PROVE  SeenSoFar'
  BY <1>b, SeenPass DEF PassesBy
<1>c. t \in Watched /\ Taking(t) => frame[t].device \in seen[t]
  BY DEF SeenSoFar, Taking
<1>d. t \in Watched /\ Calling(t) => Available \subseteq seen[t]
  BY DEF SeenSoFar
<1>1. CASE CallList(t)
  <2>1. /\ OnlyFrame(t) /\ UNCHANGED machine
        /\ frame'[t].list = <<>> /\ frame'[t].pc = "next"
    BY <1>0, <1>1, CallListEffect DEF Keeps
  <2>2. Listed(t)' = {} /\ ~Asking(t)'
    BY <2>1 DEF Listed, Asking
  <2> QED
    BY <2>1, <2>2, SeenStill DEF SeenAlready, Asking, Taking
<1>2. CASE Return(t)
  BY <1>0, <1>b, <1>2, GotoEffect DEF Return, Pcs, Asking
<1>3. CASE Leave(t)
  <2>1. /\ OnlyFrame(t) /\ UNCHANGED machine
        /\ frame'[t].list = <<>> /\ frame'[t].pc = "idle"
    BY <1>0, <1>3, LeaveEffect DEF Keeps, Idle
  <2>2. Listed(t)' = {} /\ ~Asking(t)'
    BY <2>1 DEF Listed, Asking
  <2> QED
    BY <2>1, <2>2, SeenStill DEF SeenAlready, Asking, Taking
<1>4. CASE Unit(t)
  BY <1>0, <1>b, <1>4, UnitEffect DEF Asking
<1>5. CASE EnumKey(t)
  <2>1. CASE /\ Keeps(t) /\ frame'[t].pc = "component"
             /\ frame'[t].list = frame[t].list
    <3>1. t \in Watched => SeenAlready(t)
      BY <2>1, SeenList DEF SeenAlready, Taking
    <3> QED
      BY <2>1, <3>1, SeenStill DEF Keeps
  <2> QED
    BY <1>0, <1>b, <1>5, <2>1, EnumKeyEffect
<1>6. CASE ReadComponent(t)
  BY <1>0, <1>b, <1>6, ReadComponentEffect DEF Asking
<1>7. CASE ReadGuid(t)
  BY <1>0, <1>b, <1>7, ReadGuidEffect DEF Asking
<1>8. CASE Probe(t)
  <2>1. frame[t].pc = "probe" /\ frame[t].device \in Devices
    BY <1>a, <1>8 DEF Probe, At, Found
  <2>2. /\ OnlyFrame(t) /\ UNCHANGED machine /\ CanTake(frame[t].device)
        /\ frame'[t].device = frame[t].device
        /\ frame'[t].pc # "kind"
        /\ \/ Appends(t, frame[t].device)
           \/ frame'[t].list = frame[t].list
    BY <1>0, <1>8, <2>1, ProbeEffect DEF Keeps
  <2>3. ASSUME t \in Watched PROVE frame[t].device \in seen[t]
    <3>1. frame[t].device \in Available
      BY <2>1, <2>2 DEF CanTake, Available
    <3> QED
      BY <1>d, <2>1, <2>3, <3>1 DEF Calling
  <2>4. ASSUME t \in Watched PROVE SeenAlready(t)
    <3>1. Listed(t)' \subseteq Vouched(t)
      BY <2>1, <2>2, <2>3, <2>4, SeenList DEF Vouched
    <3> QED
      BY <2>2, <2>3, <2>4, <3>1 DEF SeenAlready
  <2> QED
    BY <2>2, <2>4, SeenStill
<1>9. CASE EnumKeyFails(t) \/ GetValueFails(t) \/ ProbeFails(t)
  BY <1>0, <1>b, <1>9, GivenUp
<1>10. CASE AskName(t)
  <2>1. frame[t].device \in Devices /\ Taking(t)
    BY <1>a, <1>10 DEF AskName, At, Found, Taking
  <2>2. /\ OnlyFrame(t) /\ UNCHANGED machine
        /\ frame'[t].device = frame[t].device /\ frame'[t].pc # "kind"
        /\ Appends(t, frame[t].device)
    BY <1>0, <1>10, <2>1, AskNameEffect DEF Keeps
  <2>3. ASSUME t \in Watched PROVE SeenAlready(t)
    <3>1. Listed(t)' \subseteq Vouched(t)
      BY <1>c, <2>1, <2>2, <2>3, SeenList DEF Vouched
    <3> QED
      BY <1>c, <2>1, <2>2, <2>3, <3>1 DEF SeenAlready
  <2> QED
    BY <2>2, <2>3, SeenStill
<1>11. CASE AskNameFails(t)
  <2>1. /\ Taking(t) /\ OnlyFrame(t) /\ UNCHANGED machine
        /\ frame'[t].device = frame[t].device /\ frame'[t].pc # "kind"
        /\ frame'[t].list = frame[t].list
    BY <1>0, <1>11, GotoEffect DEF AskNameFails, At, Taking, Pcs, Stays, Keeps
  <2>2. ASSUME t \in Watched PROVE SeenAlready(t)
    <3>1. Listed(t)' \subseteq Vouched(t)
      BY <2>1, <2>2, SeenList
    <3> QED
      BY <1>c, <2>1, <2>2, <3>1 DEF SeenAlready
  <2> QED
    BY <2>1, <2>2, SeenStill
<1>12. CASE CloseProbe(t)
  <2>1. frame[t].device \in Devices /\ Taking(t)
    BY <1>a, <1>12 DEF CloseProbe, At, Found, Taking
  <2>2. /\ Passes(t)
        /\ Appends(t, frame[t].device) \/ frame'[t].list = frame[t].list
    BY <1>0, <1>12, <2>1, CloseProbeEffect
  <2> QED
    BY <1>c, <2>1, <2>2, SeenPass DEF Vouched
<1>13. CASE ReadDir(t)
  BY <1>0, <1>b, <1>13, ReadDirEffect DEF Asking
<1>14. CASE Stat(t)
  <2>1. CASE /\ Stays(t) /\ frame'[t].pc = "kind"
             /\ frame'[t].device = frame[t].device
    <3> DEFINE d == frame[t].device
    <3>1. d \in Devices /\ frame[t].pc = "stat" /\ System = "linux"
      BY <1>0, <1>a, <1>14 DEF Stat, At, Found, FrameSound
    <3>2. ASSUME t \in Watched, LooksRight(d)
          PROVE  d \in Vouched(t) \cup TakenForTun(t)
      <4>1. CASE Present(d) /\ IsTunTap(d)
        <5>1. kindOf[d] = Kind
          BY <1>0, <3>2, <4>1
          DEF LooksRight, AddressLength, IsTunTap, Kind
        <5>2. d \in Available
          BY <3>1, <4>1, <5>1 DEF Available
        <5> QED
          BY <1>d, <3>1, <3>2, <5>2 DEF Calling, Vouched
      <4>2. CASE ~(Present(d) /\ IsTunTap(d))
        BY <1>14, <2>1, <3>1, <4>2 DEF TakenForTun, At
      <4> QED
        BY <4>1, <4>2
    <3>3. ASSUME t \in Watched PROVE SeenAlready(t)
      <4>1. Listed(t)' \subseteq Vouched(t)
        BY <2>1, <3>3, SeenList DEF Stays
      <4> QED
        BY <2>1, <3>2, <3>3, <4>1 DEF SeenAlready, Taking
    <3> QED
      BY <2>1, <3>3, SeenStill DEF Stays, Keeps
  <2> QED
    BY <1>0, <1>b, <1>14, <2>1, StatEffect, SeenDie
<1>15. CASE ReadKind(t)
  <2>1. frame[t].pc = "kind" /\ frame[t].device \in Devices
    BY <1>a, <1>15 DEF ReadKind, At, Found
  <2>2. CASE /\ Passes(t) /\ LooksRight(frame[t].device)
             /\ Appends(t, frame[t].device)
    <3>1. t \in Watched => frame[t].device \in Vouched(t)
      BY <2>1, <2>2 DEF SeenSoFar, KindKnown
    <3> QED
      BY <2>1, <2>2, <3>1, SeenPass
  <2> QED
    BY <1>0, <1>b, <1>15, <2>1, <2>2, ReadKindEffect, SeenDie
<1>16. CASE KindUnknown(t)
  BY <1>0, <1>b, <1>16, KindUnknownEffect, SeenDie
<1>17. CASE ListFails(t)
  <2>1. /\ OnlyFrame(t) /\ UNCHANGED machine
        /\ frame'[t].list = <<>> /\ frame'[t].pc = "returned"
    BY <1>0, <1>17, ListFailsEffect DEF Keeps
  <2>2. Listed(t)' = {} /\ ~Asking(t)'
    BY <2>1 DEF Listed, Asking
  <2> QED
    BY <2>1, <2>2, SeenStill DEF SeenAlready, Asking, Taking
<1> QED
  BY <1>1, <1>2, <1>3, <1>4, <1>5, <1>6, <1>7, <1>8, <1>9, <1>10, <1>11,
     <1>12, <1>13, <1>14, <1>15, <1>16, <1>17 DEF Step

LEMMA SeenKept ==
  ASSUME TypedSoFar, SeenSoFar, [Next]_vars
  PROVE  SeenSoFar'
<1>0. TypedSoFar'
  BY TypedKept
<1>1. CASE Next
  <2>1. CASE Others
    BY <1>0, <1>1, <2>1, OthersEffect, SeenSame, SeenMove DEF Next
  <2> QED
    BY <1>0, <1>1, <2>1, SeenStep DEF Next
<1>2. CASE UNCHANGED vars
  BY <1>2 DEF vars, machine, history, SeenSoFar, Calling, Listed, Available,
              Present, System, Kind, Vouched, LooksRight, AddressLength, KindKnown
<1> QED
  BY <1>1, <1>2

(* What is listed was to be had at some moment of the call, on Linux as a  *)
(* device of the kind, on macOS and Windows as a free one; what the bad    *)
(* path made stat() take for a tun device has addresses of the right       *)
(* length.                                                                 *)
THEOREM ListsWhatWasAvailable == Spec => []ListedWasAvailable
<1>1. Init => SeenSoFar
  BY DEF Init, SeenSoFar, Idle, Calling, Listed, KindKnown
<1>2. SeenSoFar => ListedWasAvailable
  BY DEF SeenSoFar, ListedWasAvailable, Vouched
<1> QED
  BY <1>1, <1>2, TypedInit, TypedKept, SeenKept, PTL DEF Spec

-----------------------------------------------------------------------------
(* The order of the walk                                                   *)

LEMMA InstalledCounted ==
  /\ Installed \subseteq Slots /\ IsFiniteSet(Installed)
  /\ Cardinality(Installed) \in Nat
BY FS_Subset, FS_CardinalityType DEF Installed

Below(k) == Cardinality({j \in Installed : j < k})

LEMMA BelowType ==
  ASSUME NEW k \in Slots
  PROVE  Below(k) \in Nat /\ (k \in Installed => Below(k) < Cardinality(Installed))
<1> DEFINE S == {j \in Installed : j < k}
<1>1. IsFiniteSet(S) /\ Cardinality(S) \in Nat
  <2>1. S \subseteq Installed
    OBVIOUS
  <2> QED
    BY <2>1, InstalledCounted, FS_Subset, FS_CardinalityType
<1>2. ASSUME k \in Installed PROVE Cardinality(S) < Cardinality(Installed)
  <2>1. S \subseteq Installed /\ k \notin S
    BY SlotsNat
  <2>2. S # Installed
    BY <1>2, <2>1
  <2>3. /\ Cardinality(S) <= Cardinality(Installed)
        /\ Cardinality(S) # Cardinality(Installed)
    BY <2>1, <2>2, InstalledCounted, FS_Subset
  <2> QED
    BY <1>1, <2>3, InstalledCounted
<1> QED
  BY <1>1, <1>2 DEF Below

LEMMA BelowInjective ==
  ASSUME NEW j \in Installed, NEW k \in Installed, Below(j) = Below(k)
  PROVE  j = k
<1>0. j \in Slots /\ k \in Slots
  BY DEF Installed
<1>1. ASSUME NEW x \in Installed, NEW y \in Installed, x < y
      PROVE  Below(x) < Below(y)
  <2> DEFINE S == {i \in Installed : i < x}
             T == {i \in Installed : i < y}
  <2>1. IsFiniteSet(T)
    <3>1. T \subseteq Installed
      OBVIOUS
    <3> QED
      BY <3>1, InstalledCounted, FS_Subset
  <2>a. x \in Nat /\ y \in Nat /\ \A i \in Installed : i \in Nat
    BY InstalledCounted, SlotsNat
  <2>2. S \subseteq T /\ x \in T /\ x \notin S
    <3>1. \A i \in Installed : i < x => i < y
      BY <1>1, <2>a
    <3>2. x \notin S
      BY <2>a
    <3> QED
      BY <1>1, <3>1, <3>2
  <2>3. IsFiniteSet(S) /\ Cardinality(S) <= Cardinality(T)
        /\ (Cardinality(S) = Cardinality(T) => S = T)
    BY <2>1, <2>2, FS_Subset
  <2>4. Cardinality(S) \in Nat /\ Cardinality(T) \in Nat
    BY <2>1, <2>3, FS_CardinalityType
  <2> QED
    BY <2>2, <2>3, <2>4 DEF Below
<1>2. Below(j) \in Nat /\ Below(k) \in Nat /\ j \in Nat /\ k \in Nat
  BY <1>0, BelowType, SlotsNat
<1> QED
  BY <1>0, <1>1, <1>2

LEMMA TurnType ==
  ASSUME NEW k \in Slots
  PROVE  /\ Turn(k) \in Nat
         /\ k \in Installed => Turn(k) < Rounds
<1>1. CASE System = "windows"
  BY <1>1, BelowType DEF Turn, Below, Rounds
<1>2. CASE System # "windows"
  BY <1>2, SlotsCounted DEF Turn, Rounds
<1> QED
  BY <1>1, <1>2

(* What the step's place and function leave alone                          *)
LEMMA OrderSame ==
  ASSUME UNCHANGED <<machine, place>>
  PROVE  /\ System' = System /\ Kind' = Kind /\ listing' = listing
         /\ kindOf' = kindOf
         /\ Installed' = Installed /\ Rounds' = Rounds
         /\ \A k : Turn(k)' = Turn(k)
         /\ \A d : Present(d)' = Present(d)
<1>1. /\ System' = System /\ Kind' = Kind /\ listing' = listing
      /\ kindOf' = kindOf /\ place' = place
  BY DEF machine, System, Kind
<1>2. Installed' = Installed
  BY <1>1 DEF Installed
<1>3. Rounds' = Rounds
  BY <1>1, <1>2 DEF Rounds
<1>4. \A k : Turn(k)' = Turn(k)
  BY <1>1, <1>2 DEF Turn
<1>5. \A d : Present(d)' = Present(d)
  BY <1>1 DEF Present
<1> QED
  BY <1>1, <1>2, <1>3, <1>4, <1>5

-----------------------------------------------------------------------------
(* What is free throughout is listed.                                      *)

Accounted(t, d) ==
  \/ d \in Listed(t) \cup failed[t]
  \/ AtHand(t, d)
  \/ ~At(t, "returned") /\ Ahead(t, d)

NameKept(t) ==
  At(t, "close") /\ listing # <<"macos", "tap">> =>
    frame[t].device \in Listed(t) \cup failed[t]

DueOf(t) ==
  /\ due[t] \subseteq failed[t] \/ frame[t].count = Rounds
  /\ NameKept(t)
  /\ \A d \in due[t] :
       /\ Present(d) /\ kindOf[d] = Kind /\ holder[d] \in {Nobody, t}
       /\ Accounted(t, d)

LEMMA DueEach ==
  DueSoFar <=> (System # "linux" => \A t \in Watched : DueOf(t))
BY DEF DueSoFar, DueOf, Accounted, NameKept

LEMMA FailedKept ==
  ASSUME Observe, NEW t \in Watched, Calling(t)'
  PROVE  failed[t] \subseteq failed'[t]
<1> QED
  BY DEF Observe

(* Nothing is due of a thread outside its call.                            *)
LEMMA DueIdle ==
  ASSUME Observe, NEW t \in Watched, ~Calling(t)'
  PROVE  DueOf(t)'
<1>1. due'[t] = {}
  BY DEF Observe
<1>2. frame'[t].pc = "idle"
  BY DEF Calling
<1> QED
  BY <1>1, <1>2 DEF DueOf, NameKept, At

(* A step during the call that leaves the devices where they are           *)
LEMMA DueMove ==
  ASSUME TypedSoFar, DueSoFar, System # "linux", NEW t \in Watched,
         UNCHANGED <<machine, place>>, Observe,
         Calling(t), Calling(t)', frame'[t].count = frame[t].count,
         NameKept(t)',
         \A d \in due[t] : d \in due'[t] => Accounted(t, d)'
  PROVE  DueOf(t)'
<1>1. due'[t] = {d \in due[t] : Present(d)' /\ holder'[d] \in {Nobody, t}}
  BY DEF Observe
<1>2. DueOf(t)
  BY DueEach
<1>3. /\ due[t] \subseteq failed[t] \/ frame[t].count = Rounds
      /\ \A d \in due[t] : kindOf[d] = Kind
  BY <1>2 DEF DueOf
<1>4. \A d \in due'[t] : d \in due[t] /\ Present(d)' /\ holder'[d] \in {Nobody, t}
  BY <1>1
<1>5. due'[t] \subseteq failed'[t] \/ frame'[t].count = Rounds'
  BY <1>3, <1>4, FailedKept, OrderSame
<1>6. \A d \in due'[t] : kindOf'[d] = Kind' /\ Accounted(t, d)'
  BY <1>3, <1>4, OrderSame
<1> QED
  BY <1>4, <1>5, <1>6 DEF DueOf

(* Such a step of another thread                                           *)
LEMMA DueOther ==
  ASSUME TypedSoFar, DueSoFar, System # "linux", NEW t \in Watched,
         UNCHANGED <<machine, place>>, Observe, frame'[t] = frame[t]
  PROVE  DueOf(t)'
<1>1. CASE ~Calling(t)'
  BY <1>1, DueIdle
<1>2. CASE Calling(t)'
  <2>1. Calling(t) /\ failed[t] \subseteq failed'[t]
    BY <1>2, FailedKept DEF Calling
  <2>2. DueOf(t)
    BY DueEach
  <2>3. Listed(t)' = Listed(t)
    BY DEF Listed
  <2>4. NameKept(t)'
    BY <2>1, <2>2, <2>3, OrderSame DEF DueOf, NameKept, At
  <2>5. ASSUME NEW d \in due[t]
        PROVE  Accounted(t, d)'
    <3>1. Accounted(t, d)
      BY <2>2 DEF DueOf
    <3>2. AtHand(t, d)' = AtHand(t, d) /\ At(t, "returned")' = At(t, "returned")
      BY DEF AtHand, At
    <3>3. Ahead(t, d) => Ahead(t, d)'
      BY OrderSame DEF Ahead, Reached, At
    <3> QED
      BY <2>1, <2>3, <3>1, <3>2, <3>3 DEF Accounted
  <2> QED
    BY <1>2, <2>1, <2>4, <2>5, DueMove
<1> QED
  BY <1>1, <1>2

LEMMA ListedAlso ==
  ASSUME TypedSoFar, NEW t \in Threads, NEW d \in Devices, Appends(t, d)
  PROVE  Listed(t)' = Listed(t) \cup {d}
<1>1. frame[t].list \in Seq(Devices)
  BY DEF TypedSoFar, Frame
<1>2. /\ Listed(t) = Elements(frame[t].list)
      /\ Listed(t)' = Elements(frame'[t].list)
  BY DEF Listed, Elements
<1> QED
  BY <1>1, <1>2, AppendElements DEF Appends

LEMMA ListedGrows ==
  ASSUME TypedSoFar, NEW t \in Threads,
         \/ frame'[t].list = frame[t].list
         \/ \E d \in Devices : Appends(t, d)
  PROVE  Listed(t) \subseteq Listed(t)'
<1>1. CASE frame'[t].list = frame[t].list
  BY <1>1 DEF Listed
<1>2. CASE \E d \in Devices : Appends(t, d)
  BY <1>2, ListedAlso
<1> QED
  BY <1>1, <1>2

(* A step to which the walk's order does not matter: what is ahead stays   *)
(* ahead, so only the device at hand has to be accounted for.              *)
LEMMA DueAlong ==
  ASSUME TypedSoFar, DueSoFar, System # "linux", NEW t \in Watched, Observe,
         Keeps(t), frame[t].pc \in Round,
         frame'[t].count = frame[t].count,
         \/ /\ frame'[t].pc \in Round /\ frame'[t].i = frame[t].i
         \/ /\ frame'[t].pc = "next" /\ frame'[t].i = frame[t].i + 1,
         Listed(t) \subseteq Listed(t)',
         NameKept(t)',
         \A d \in due[t] : d \in due'[t] /\ AtHand(t, d) =>
           AtHand(t, d)' \/ d \in Listed(t)' \cup failed'[t]
  PROVE  DueOf(t)'
<1>1. Calling(t) /\ Calling(t)'
  BY DEF Calling, Round, Found
<1>2. failed[t] \subseteq failed'[t]
  BY <1>1, FailedKept
<1>3. ASSUME NEW d \in due[t], d \in due'[t]
      PROVE  Accounted(t, d)'
  <2>1. Accounted(t, d)
    BY DueEach DEF DueOf
  <2>2. ~At(t, "returned")' /\ Reached(t)' = Reached(t)
    BY DEF Reached, At, Round, Found
  <2>3. Ahead(t, d) => Ahead(t, d)'
    BY <2>2, OrderSame DEF Ahead, Keeps
  <2> QED
    BY <1>2, <1>3, <2>1, <2>2, <2>3 DEF Accounted
<1> QED
  BY <1>1, <1>3, DueMove DEF Keeps

(* A round begins: the key whose turn it is is at hand, or cannot be due.  *)
LEMMA DueRound ==
  ASSUME TypedSoFar, DueSoFar, System # "linux", NEW t \in Watched, Observe,
         Keeps(t), At(t, "next"),
         frame'[t].count = frame[t].count,
         \/ /\ frame'[t].pc \in Round \ {"close"} /\ frame'[t].i = frame[t].i
         \/ /\ frame'[t].pc = "next" /\ frame'[t].i = frame[t].i + 1,
         Listed(t) \subseteq Listed(t)',
         \A k \in Slots :
           /\ Turn(k) = frame[t].i
           /\ place[k] \in due[t] /\ kindOf[place[k]] = Kind
           => AtHand(t, place[k])' \/ place[k] \in failed'[t]
  PROVE  DueOf(t)'
<1>1. Calling(t) /\ Calling(t)'
  BY DEF Calling, Round, Found, At
<1>2. failed[t] \subseteq failed'[t]
  BY <1>1, FailedKept
<1>3. ASSUME NEW d \in due[t], d \in due'[t]
      PROVE  Accounted(t, d)'
  <2>1. Accounted(t, d) /\ kindOf[d] = Kind
    BY DueEach DEF DueOf
  <2>2. ~At(t, "returned")' /\ Reached(t)' = frame[t].i + 1
    BY DEF Reached, At, Round, Found
  <2>3. ~AtHand(t, d)
    BY DEF AtHand, At, Found
  <2>4. ASSUME Ahead(t, d)
        PROVE  Ahead(t, d)' \/ AtHand(t, d)' \/ d \in failed'[t]
    <3>1. PICK k \in Slots : place[k] = d /\ Turn(k) >= frame[t].i
      BY <2>4 DEF Ahead, Reached, At
    <3>2. CASE Turn(k) = frame[t].i
      <4>1. place[k] \in due[t] /\ kindOf[place[k]] = Kind /\ place' = place
        BY <2>1, <3>1 DEF Keeps
      <4>2. AtHand(t, place[k])' \/ place[k] \in failed'[t]
        BY <3>2, <4>1
      <4> QED
        BY <3>1, <4>1, <4>2
    <3>3. CASE Turn(k) # frame[t].i
      <4>1. Turn(k) \in Nat /\ frame[t].i \in Nat
        BY TurnType DEF TypedSoFar, Frame
      <4>2. Turn(k)' >= Reached(t)' /\ place'[k] = d
        BY <2>2, <3>1, <3>3, <4>1, OrderSame DEF Keeps
      <4> QED
        BY <4>2 DEF Ahead
    <3> QED
      BY <3>2, <3>3
  <2> QED
    BY <1>2, <2>1, <2>2, <2>3, <2>4 DEF Accounted
<1>4. NameKept(t)'
  BY DEF NameKept, At
<1> QED
  BY <1>1, <1>3, <1>4, DueMove DEF Keeps

(* The call begins with every device ahead of it.                          *)
LEMMA DueCall ==
  ASSUME TypedSoFar, DueSoFar, System # "linux", NEW t \in Watched, Observe,
         CallList(t)
  PROVE  DueOf(t)'
<1>1. /\ Keeps(t) /\ holder' = holder /\ frame[t].pc = "idle"
      /\ frame'[t].pc = "next" /\ frame'[t].count = Rounds
      /\ frame'[t].i = 0
  BY CallListEffect DEF At
<1>2. due'[t] = Available
  BY <1>1 DEF Observe, Calling
<1>3. frame'[t].count = Rounds' /\ NameKept(t)'
  BY <1>1, OrderSame DEF Keeps, NameKept, At
<1>4. ASSUME NEW d \in due'[t]
      PROVE  /\ Present(d)' /\ kindOf'[d] = Kind'
             /\ holder'[d] \in {Nobody, t} /\ Accounted(t, d)'
  <2>1. Present(d) /\ kindOf[d] = Kind /\ holder[d] = Nobody
    BY <1>2 DEF Available
  <2>2. PICK k \in Slots : place[k] = d
    BY <2>1 DEF Present
  <2>3. Reached(t)' = 0 /\ ~At(t, "returned")'
    BY <1>1 DEF Reached, At
  <2>4. Turn(k)' >= 0 /\ place'[k] = d
    BY <1>1, <2>2, TurnType, OrderSame DEF Keeps
  <2>5. Accounted(t, d)'
    BY <2>3, <2>4 DEF Accounted, Ahead
  <2> QED
    BY <1>1, <2>1, <2>5, OrderSame DEF Keeps
<1> QED
  BY <1>3, <1>4 DEF DueOf

(* At the end none is ahead.                                               *)
LEMMA DueReturn ==
  ASSUME TypedSoFar, DueSoFar, System # "linux", NEW t \in Watched, Observe,
         Return(t)
  PROVE  DueOf(t)'
<1>1. /\ Stays(t) /\ frame'[t].pc = "returned"
      /\ frame[t].pc = "next" /\ frame[t].i = frame[t].count
  BY GotoEffect DEF Return, Pcs, TypedSoFar, Framed, At
<1>2. Calling(t) /\ Calling(t)'
  BY <1>1 DEF Calling
<1>3. failed[t] \subseteq failed'[t] /\ Listed(t)' = Listed(t)
  BY <1>1, <1>2, FailedKept DEF Stays, Listed
<1>4. ASSUME NEW d \in due[t]
      PROVE  Accounted(t, d)'
  <2>1. /\ Accounted(t, d)
        /\ d \in failed[t] \/ frame[t].count = Rounds
    BY DueEach DEF DueOf
  <2>2. ~AtHand(t, d)
    BY <1>1 DEF AtHand, Found
  <2>3. ASSUME frame[t].count = Rounds PROVE ~Ahead(t, d)
    <3>1. SUFFICES ASSUME NEW k \in Slots, place[k] = d, Turn(k) >= Rounds
                   PROVE  FALSE
      BY <1>1, <2>3 DEF Ahead, Reached, At
    <3>2. d \in Devices
      BY DEF TypedSoFar
    <3>3. k \in Installed
      BY <3>1, <3>2 DEF Installed
    <3>4. Rounds \in Nat
      BY InstalledCounted, SlotsCounted DEF Rounds
    <3> QED
      BY <3>1, <3>3, <3>4, TurnType
  <2> QED
    BY <1>3, <2>1, <2>2, <2>3 DEF Accounted
<1>5. NameKept(t)' /\ frame'[t].count = frame[t].count
  BY <1>1 DEF NameKept, At, Stays, SameWalk
<1> QED
  BY <1>1, <1>2, <1>4, <1>5, DueMove DEF Stays, Keeps

LEMMA DueUnit ==
  ASSUME TypedSoFar, DueSoFar, System # "linux", NEW t \in Watched, Observe,
         Unit(t)
  PROVE  DueOf(t)'
<1>1. /\ frame[t].pc = "next" /\ System = "macos" /\ Framed
      /\ \A k \in Slots : Turn(k) = k
  BY UnitEffect, MoreCounts DEF TypedSoFar, Framed, Turn
<1>2. CASE /\ Stays(t) /\ frame'[t].pc = "probe"
           /\ frame'[t].device = place[frame[t].i]
  <2>1. \A k \in Slots : Turn(k) = frame[t].i => AtHand(t, place[k])'
    BY <1>1, <1>2 DEF AtHand, Found, Stays, Keeps
  <2>2. Listed(t) \subseteq Listed(t)'
    BY <1>2 DEF Stays, Listed
  <2> QED
    BY <1>1, <1>2, <2>1, <2>2, DueRound
    DEF At, Stays, SameWalk, Round, Found
<1>3. CASE /\ PassesBy(t)
           /\ ~(/\ place[frame[t].i] \in Devices
                /\ kindOf[place[frame[t].i]] = Kind)
  <2>1. \A k \in Slots :
          /\ Turn(k) = frame[t].i
          /\ place[k] \in due[t] /\ kindOf[place[k]] = Kind
          => AtHand(t, place[k])'
    BY <1>1, <1>3 DEF TypedSoFar
  <2>2. Listed(t) \subseteq Listed(t)'
    BY <1>3 DEF PassesBy, Listed
  <2> QED
    BY <1>1, <1>3, <2>1, <2>2, DueRound DEF At, PassesBy, Passes
<1> QED
  BY <1>1, <1>2, <1>3, UnitEffect

LEMMA DueEnumKey ==
  ASSUME TypedSoFar, DueSoFar, System # "linux", NEW t \in Watched, Observe,
         EnumKey(t)
  PROVE  DueOf(t)'
<1>1. /\ frame[t].pc = "next" /\ System = "windows" /\ Framed
      /\ \A k \in Slots : Turn(k) = Below(k)
  BY EnumKeyEffect, MoreCounts DEF TypedSoFar, Framed, Turn, Below
<1>2. KeyAt(frame[t].i) = {k \in Installed : Below(k) = frame[t].i}
  BY DEF KeyAt, Below
<1>3. \A k \in Slots :
        /\ Turn(k) = frame[t].i
        /\ place[k] \in due[t]
        => k \in KeyAt(frame[t].i)
  BY <1>1, <1>2 DEF TypedSoFar, Installed
<1>4. ASSUME NEW n \in KeyAt(frame[t].i),
             Keeps(t), frame'[t].pc = "component", frame'[t].key = n,
             frame'[t].i = frame[t].i, frame'[t].count = frame[t].count,
             frame'[t].list = frame[t].list
      PROVE  DueOf(t)'
  <2>1. ASSUME NEW k \in KeyAt(frame[t].i)
        PROVE  AtHand(t, place[k])'
    <3>1. k = n
      BY <1>2, BelowInjective
    <3> QED
      BY <1>4, <3>1 DEF AtHand, Keeps
  <2>2. Listed(t) \subseteq Listed(t)'
    BY <1>4 DEF Listed
  <2> QED
    BY <1>1, <1>3, <1>4, <2>1, <2>2, DueRound DEF At, Round, Found
<1>5. CASE PassesBy(t) /\ KeyAt(frame[t].i) = {}
  <2>1. Listed(t) \subseteq Listed(t)'
    BY <1>5 DEF PassesBy, Listed
  <2> QED
    BY <1>1, <1>3, <1>5, <2>1, DueRound DEF At, PassesBy, Passes
<1> QED
  BY <1>1, <1>4, <1>5, EnumKeyEffect

LEMMA FailureNoted ==
  ASSUME Observe, NEW t \in Watched, Calling(t)', NEW d \in Missed(t)
  PROVE  d \in failed'[t]
BY DEF Observe

(* What a failed query was about is missed, and no other device is passed. *)
LEMMA DueListFails ==
  ASSUME TypedSoFar, DueSoFar, System # "linux", NEW t \in Watched, Observe,
         ListFails(t)
  PROVE  DueOf(t)'
<1>1. /\ Keeps(t) /\ frame[t].pc = "idle" /\ frame'[t].pc = "returned"
      /\ holder' = holder /\ frame'[t].count = 0
  BY ListFailsEffect DEF TypedSoFar, Framed, At
<1>2. due'[t] = Available
  BY <1>1 DEF Observe, Calling
<1>3. \A d \in Devices : d \in failed'[t]
  <2>1. Calling(t)'
    BY <1>1 DEF Calling
  <2>2. \A d \in Devices : d \in Missed(t)
    BY DEF Missed
  <2> QED
    BY <2>1, <2>2, FailureNoted
<1>4. NameKept(t)'
  BY <1>1 DEF NameKept, At
<1>5. ASSUME NEW d \in due'[t]
      PROVE  /\ Present(d)' /\ kindOf'[d] = Kind' /\ holder'[d] \in {Nobody, t}
             /\ Accounted(t, d)'
  <2>1. /\ d \in Devices /\ Present(d) /\ kindOf[d] = Kind
        /\ holder[d] = Nobody
    BY <1>2 DEF Available
  <2> QED
    BY <1>1, <1>3, <2>1, OrderSame DEF Accounted, Keeps
<1>6. due'[t] \subseteq failed'[t]
  BY <1>2, <1>3 DEF Available
<1> QED
  BY <1>4, <1>5, <1>6 DEF DueOf

LEMMA DueEnumKeyFails ==
  ASSUME TypedSoFar, DueSoFar, System # "linux", NEW t \in Watched, Observe,
         EnumKeyFails(t)
  PROVE  DueOf(t)'
<1>1. /\ frame[t].pc = "next" /\ System = "windows" /\ PassesBy(t)
      /\ \A k \in Slots : Turn(k) = Below(k)
  BY GivenUp DEF EnumKeyFails, More, At, TypedSoFar, Framed, Turn, Below
<1>2. Calling(t)'
  BY <1>1 DEF PassesBy, Passes, Calling
<1>3. \A k \in Slots :
        Turn(k) = frame[t].i /\ place[k] \in due[t] => place[k] \in failed'[t]
  <2> SUFFICES ASSUME NEW k \in Slots, Turn(k) = frame[t].i, place[k] \in due[t]
               PROVE  place[k] \in failed'[t]
    OBVIOUS
  <2>1. place[k] \in Devices
    BY DEF TypedSoFar
  <2>2. k \in KeyAt(frame[t].i)
    BY <1>1, <2>1 DEF KeyAt, Below, Installed
  <2>3. place[k] \in Missed(t)
    BY <2>1, <2>2 DEF Missed
  <2> QED
    BY <1>2, <2>3, FailureNoted
<1>4. Listed(t) \subseteq Listed(t)'
  BY <1>1 DEF PassesBy, Listed
<1> QED
  BY <1>1, <1>3, <1>4, DueRound DEF At, PassesBy, Passes

LEMMA DueGetValueFails ==
  ASSUME TypedSoFar, DueSoFar, System # "linux", NEW t \in Watched, Observe,
         GetValueFails(t)
  PROVE  DueOf(t)'
<1>1. /\ frame[t].pc \in {"component", "guid"} /\ FrameSound(frame[t])
      /\ PassesBy(t)
  BY GivenUp DEF GetValueFails, At, TypedSoFar, Framed
<1>2. frame[t].key \in Slots /\ Calling(t)'
  BY <1>1 DEF FrameSound, PassesBy, Passes, Calling
<1>3. ASSUME NEW d \in due[t], AtHand(t, d)
      PROVE  d \in failed'[t]
  <2>1. d = Named(t) /\ d \in Devices
    BY <1>1, <1>2, <1>3 DEF AtHand, Found, Named, TypedSoFar
  <2>2. d \in Missed(t)
    BY <2>1 DEF Missed
  <2> QED
    BY <1>2, <2>2, FailureNoted
<1>4. Listed(t) \subseteq Listed(t)' /\ NameKept(t)'
  BY <1>1 DEF PassesBy, Passes, Listed, NameKept, At
<1> QED
  BY <1>1, <1>3, <1>4, DueAlong DEF PassesBy, Passes, Round

LEMMA DueReadComponent ==
  ASSUME TypedSoFar, DueSoFar, System # "linux", NEW t \in Watched, Observe,
         ReadComponent(t)
  PROVE  DueOf(t)'
<1>1. frame[t].pc = "component" /\ Framed /\ FrameSound(frame[t])
  BY DEF ReadComponent, At, TypedSoFar, Framed
<1>2. frame[t].key \in Slots /\ Kind = "tap"
  BY <1>1, WindowsTap DEF FrameSound, TypedSoFar
<1>3. \A d \in due[t] : AtHand(t, d) => Named(t) = d /\ kindOf[d] = "tap"
  BY <1>1, <1>2, DueEach DEF AtHand, Found, Named, DueOf
<1>4. CASE Stays(t) /\ frame'[t].pc = "guid"
  <2>1. \A d \in due[t] : AtHand(t, d) => AtHand(t, d)'
    BY <1>1, <1>4 DEF AtHand, Found, Stays, Keeps, SameWalk
  <2>2. Listed(t) \subseteq Listed(t)' /\ NameKept(t)'
    BY <1>4 DEF Stays, Listed, NameKept, At
  <2> QED
    BY <1>1, <1>4, <2>1, <2>2, DueAlong DEF Stays, SameWalk, Round
<1>5. CASE /\ PassesBy(t)
           /\ ~(Named(t) \in Devices /\ kindOf[Named(t)] = "tap")
  <2>1. \A d \in due[t] : ~AtHand(t, d)
    BY <1>3, <1>5 DEF TypedSoFar
  <2>2. Listed(t) \subseteq Listed(t)' /\ NameKept(t)'
    BY <1>5 DEF PassesBy, Passes, Listed, NameKept, At
  <2> QED
    BY <1>1, <1>5, <2>1, <2>2, DueAlong DEF PassesBy, Passes, Round
<1> QED
  BY <1>1, <1>4, <1>5, ReadComponentEffect

LEMMA DueReadGuid ==
  ASSUME TypedSoFar, DueSoFar, System # "linux", NEW t \in Watched, Observe,
         ReadGuid(t)
  PROVE  DueOf(t)'
<1>1. frame[t].pc = "guid" /\ Framed /\ FrameSound(frame[t])
  BY DEF ReadGuid, At, TypedSoFar, Framed
<1>2. frame[t].key \in Slots
  BY <1>1 DEF FrameSound
<1>3. \A d \in due[t] : AtHand(t, d) => Named(t) = d
  BY <1>1, <1>2 DEF AtHand, Found, Named
<1>4. CASE /\ Stays(t) /\ frame'[t].pc = "probe"
           /\ frame'[t].device = Named(t)
  <2>1. \A d \in due[t] : AtHand(t, d) => AtHand(t, d)'
    BY <1>3, <1>4 DEF AtHand, Found
  <2>2. Listed(t) \subseteq Listed(t)' /\ NameKept(t)'
    BY <1>4 DEF Stays, Listed, NameKept, At
  <2> QED
    BY <1>1, <1>4, <2>1, <2>2, DueAlong DEF Stays, SameWalk, Round, Found
<1>5. CASE PassesBy(t) /\ Named(t) \notin Devices
  <2>1. \A d \in due[t] : ~AtHand(t, d)
    BY <1>3, <1>5 DEF TypedSoFar
  <2>2. Listed(t) \subseteq Listed(t)' /\ NameKept(t)'
    BY <1>5 DEF PassesBy, Passes, Listed, NameKept, At
  <2> QED
    BY <1>1, <1>5, <2>1, <2>2, DueAlong DEF PassesBy, Passes, Round
<1> QED
  BY <1>1, <1>4, <1>5, ReadGuidEffect

LEMMA DueProbe ==
  ASSUME TypedSoFar, DueSoFar, System # "linux", NEW t \in Watched, Observe,
         Probe(t)
  PROVE  DueOf(t)'
<1>1. /\ frame[t].pc = "probe" /\ frame[t].device \in Devices
      /\ Framed /\ listing \in Listings
  BY DEF Probe, At, TypedSoFar, Framed, FrameSound, Found
<1>2. /\ Keeps(t) /\ SameWalk(frame'[t], frame[t])
      /\ frame'[t].device = frame[t].device
      /\ \/ /\ System = "windows" /\ frame'[t].pc = "close"
            /\ Appends(t, frame[t].device)
         \/ /\ System # "windows" /\ Kind = "tun" /\ frame'[t].pc = "name"
            /\ frame'[t].list = frame[t].list
         \/ /\ System # "windows" /\ Kind # "tun" /\ frame'[t].pc = "close"
            /\ frame'[t].list = frame[t].list
  BY <1>1, ProbeEffect
<1>3. \A d \in due[t] : AtHand(t, d) => AtHand(t, d)'
  BY <1>1, <1>2 DEF AtHand, Found
<1>4. Listed(t) \subseteq Listed(t)'
  BY <1>1, <1>2, ListedGrows
<1>5. NameKept(t)'
  <2>1. CASE System = "windows"
    <3>1. Listed(t)' = Listed(t) \cup {frame[t].device}
      BY <1>1, <1>2, <2>1, ListedAlso
    <3> QED
      BY <1>2, <3>1 DEF NameKept
  <2>2. CASE System # "windows" /\ Kind = "tun"
    BY <1>2, <2>2 DEF NameKept, At
  <2>3. CASE System # "windows" /\ Kind # "tun"
    <3>1. listing = <<"macos", "tap">>
      BY <1>1, <2>3 DEF System, Kind
    <3>2. listing' = listing
      BY <1>2, OrderSame DEF Keeps
    <3> QED
      BY <3>1, <3>2 DEF NameKept
  <2> QED
    BY <2>1, <2>2, <2>3
<1>6. frame'[t].pc \in Round /\ frame[t].pc \in Round
  BY <1>1, <1>2 DEF Round, Found
<1> QED
  BY <1>2, <1>3, <1>4, <1>5, <1>6, DueAlong DEF SameWalk

LEMMA DueProbeFails ==
  ASSUME TypedSoFar, ProbesLeaveNoTrace, DueSoFar, System # "linux",
         NEW t \in Watched, Observe, ProbeFails(t)
  PROVE  DueOf(t)'
<1>1. frame[t].pc = "probe" /\ PassesBy(t)
  BY SkipEffect DEF ProbeFails, At, TypedSoFar, Framed
<1>2. Calling(t)'
  BY <1>1 DEF PassesBy, Passes, Calling
<1>3. ASSUME NEW d \in due[t], d \in due'[t], AtHand(t, d)
      PROVE  d \in failed'[t]
  <2>1. frame[t].device = d
    BY <1>1, <1>3 DEF AtHand, Found
  <2>2. Present(d) /\ kindOf[d] = Kind /\ holder[d] \in {Nobody, t}
    BY DueEach DEF DueOf
  <2>3. d \in Devices
    BY DEF TypedSoFar
  <2>4. holder[d] # t
    BY <1>1, <2>3 DEF ProbesLeaveNoTrace, At
  <2>5. CanTake(d)
    BY <2>2, <2>4 DEF CanTake
  <2>6. d \in Missed(t)
    BY <2>1, <2>3, <2>5 DEF Missed
  <2> QED
    BY <1>2, <2>6, FailureNoted
<1>4. Listed(t) \subseteq Listed(t)' /\ NameKept(t)'
  BY <1>1 DEF PassesBy, Passes, Listed, NameKept, At
<1> QED
  BY <1>1, <1>3, <1>4, DueAlong DEF PassesBy, Passes, Round, Found

LEMMA DueAskName ==
  ASSUME TypedSoFar, DueSoFar, System # "linux", NEW t \in Watched, Observe,
         AskName(t) \/ AskNameFails(t)
  PROVE  DueOf(t)'
<1>1. /\ frame[t].pc = "name" /\ frame[t].device \in Devices /\ Framed
  BY DEF AskName, AskNameFails, At, TypedSoFar, Framed, FrameSound, Found
<1>2. /\ Keeps(t) /\ SameWalk(frame'[t], frame[t])
      /\ frame'[t].pc = "close" /\ frame'[t].device = frame[t].device
      /\ \/ AskName(t) /\ Appends(t, frame[t].device)
         \/ AskNameFails(t) /\ frame'[t].list = frame[t].list
  <2>1. CASE AskName(t)
    BY <1>1, <2>1, AskNameEffect
  <2>2. CASE AskNameFails(t)
    BY <1>1, <2>2, GotoEffect DEF AskNameFails, Pcs, Stays
  <2> QED
    BY <2>1, <2>2
<1>3. Listed(t) \subseteq Listed(t)'
  BY <1>1, <1>2, ListedGrows
<1>4. frame[t].device \in Listed(t)' \cup failed'[t]
  <2>1. CASE Appends(t, frame[t].device)
    BY <1>1, <2>1, ListedAlso
  <2>2. CASE AskNameFails(t)
    <3>1. Calling(t)'
      BY <1>2 DEF Calling
    <3>2. frame[t].device \in Missed(t)
      BY <1>1, <2>2 DEF Missed
    <3> QED
      BY <3>1, <3>2, FailureNoted
  <2> QED
    BY <1>2, <2>1, <2>2
<1>5. NameKept(t)'
  BY <1>2, <1>4 DEF NameKept
<1>6. \A d \in due[t] : AtHand(t, d) => AtHand(t, d)'
  BY <1>1, <1>2 DEF AtHand, Found
<1> QED
  BY <1>1, <1>2, <1>3, <1>5, <1>6, DueAlong DEF SameWalk, Round, Found

LEMMA DueCloseProbe ==
  ASSUME TypedSoFar, DueSoFar, System # "linux", NEW t \in Watched, Observe,
         CloseProbe(t)
  PROVE  DueOf(t)'
<1>1. /\ frame[t].pc = "close" /\ frame[t].device \in Devices /\ Framed
  BY DEF CloseProbe, At, TypedSoFar, Framed, FrameSound, Found
<1>2. /\ Passes(t)
      /\ IF listing = <<"macos", "tap">> THEN Appends(t, frame[t].device)
         ELSE frame'[t].list = frame[t].list
  BY <1>1, CloseProbeEffect
<1>3. Listed(t) \subseteq Listed(t)'
  BY <1>1, <1>2, ListedGrows
<1>4. Calling(t)'
  BY <1>2 DEF Passes, Calling
<1>5. frame[t].device \in Listed(t)' \cup failed'[t]
  <2>1. CASE listing = <<"macos", "tap">>
    BY <1>1, <1>2, <2>1, ListedAlso
  <2>2. CASE listing # <<"macos", "tap">>
    <3>1. frame[t].device \in Listed(t) \cup failed[t]
      BY <1>1, <2>2, DueEach DEF DueOf, NameKept, At
    <3> QED
      BY <1>3, <1>4, <3>1, FailedKept
  <2> QED
    BY <2>1, <2>2
<1>6. \A d \in due[t] : AtHand(t, d) => d \in Listed(t)' \cup failed'[t]
  BY <1>1, <1>5 DEF AtHand
<1>7. NameKept(t)'
  BY <1>2 DEF Passes, NameKept, At
<1> QED
  BY <1>1, <1>2, <1>3, <1>6, <1>7, DueAlong DEF Passes, Round, Found

LEMMA DueOwnStep ==
  ASSUME TypedSoFar, ProbesLeaveNoTrace, DueSoFar, System # "linux",
         NEW t \in Watched, Step(t), Observe
  PROVE  DueOf(t)'
<1>0. Framed /\ FrameSound(frame[t])
  BY DEF TypedSoFar, Framed
<1>1. ~ReadDir(t)
  BY <1>0, ReadDirEffect, MoreCounts
<1>2. ~Stat(t) /\ ~ReadKind(t) /\ ~KindUnknown(t)
  BY <1>0 DEF Stat, ReadKind, KindUnknown, At, FrameSound
<1>3. CASE Leave(t)
  <2>1. ~Calling(t)'
    BY <1>0, <1>3, LeaveEffect DEF Calling, Idle
  <2> QED
    BY <2>1, DueIdle
<1> QED
  BY <1>1, <1>2, <1>3, DueCall, DueReturn, DueUnit, DueEnumKey,
     DueReadComponent, DueReadGuid, DueProbe, DueProbeFails, DueAskName,
     DueCloseProbe, DueListFails, DueEnumKeyFails, DueGetValueFails DEF Step

LEMMA StepKeeps ==
  ASSUME TypedSoFar, NEW t \in Threads, Step(t)
  PROVE  \/ Keeps(t)
         \/ Die /\ System = "linux"
<1>0. Framed /\ FrameSound(frame[t]) /\ listing \in Listings
  BY DEF TypedSoFar, Framed
<1>a. frame[t].pc \in Found => frame[t].device \in Devices
  BY <1>0 DEF FrameSound
<1>1. CASE CallList(t) \/ Return(t) \/ Leave(t)
  BY <1>0, <1>1, CallListEffect, GotoEffect, LeaveEffect DEF Return, Pcs, Stays
<1>2. CASE Unit(t) \/ EnumKey(t)
  BY <1>0, <1>2, UnitEffect, EnumKeyEffect DEF Stays, PassesBy, Passes
<1>3. CASE ReadComponent(t) \/ ReadGuid(t)
  BY <1>0, <1>3, ReadComponentEffect, ReadGuidEffect
  DEF Stays, PassesBy, Passes
<1>4. CASE Probe(t)
  <2>1. frame[t].device \in Devices
    BY <1>a, <1>4 DEF Probe, At, Found
  <2> QED
    BY <1>0, <1>4, <2>1, ProbeEffect
<1>5. CASE EnumKeyFails(t) \/ GetValueFails(t) \/ ProbeFails(t)
  BY <1>0, <1>5, GivenUp DEF PassesBy, Passes
<1>12. CASE ListFails(t)
  BY <1>0, <1>12, ListFailsEffect
<1>6. CASE AskName(t) \/ AskNameFails(t)
  <2>1. frame[t].device \in Devices
    BY <1>a, <1>6 DEF AskName, AskNameFails, At, Found
  <2>2. CASE AskName(t)
    BY <1>0, <2>1, <2>2, AskNameEffect
  <2>3. CASE AskNameFails(t)
    BY <1>0, <2>3, GotoEffect DEF AskNameFails, Pcs, Stays
  <2> QED
    BY <1>6, <2>2, <2>3
<1>7. CASE CloseProbe(t)
  <2>1. frame[t].device \in Devices
    BY <1>a, <1>7 DEF CloseProbe, At, Found
  <2> QED
    BY <1>0, <1>7, <2>1, CloseProbeEffect DEF Passes
<1>8. CASE ReadDir(t)
  BY <1>0, <1>8, ReadDirEffect DEF Stays, PassesBy, Passes
<1>9. CASE Stat(t)
  <2>1. System = "linux"
    BY <1>0, <1>9 DEF Stat, At, FrameSound
  <2> QED
    BY <1>0, <1>9, <2>1, StatEffect DEF Stays, PassesBy, Passes
<1>10. CASE ReadKind(t)
  <2>1. System = "linux" /\ frame[t].device \in Devices
    BY <1>0, <1>a, <1>10 DEF ReadKind, At, FrameSound, Found
  <2> QED
    BY <1>0, <1>10, <2>1, ReadKindEffect DEF PassesBy, Passes
<1>11. CASE KindUnknown(t)
  <2>1. System = "linux"
    BY <1>0, <1>11 DEF KindUnknown, At, FrameSound
  <2> QED
    BY <1>0, <1>11, <2>1, KindUnknownEffect DEF PassesBy, Passes
<1> QED
  BY <1>1, <1>2, <1>3, <1>4, <1>5, <1>6, <1>7, <1>8, <1>9, <1>10, <1>11,
     <1>12 DEF Step

(* When keys move, nothing is due of the calls of Windows.                 *)
LEMMA DueOthers ==
  ASSUME TypedSoFar, DueSoFar, System # "linux", Others, Observe,
         NEW t \in Watched
  PROVE  DueOf(t)'
<1>1. frame' = frame /\ UNCHANGED machine
  BY OthersEffect
<1>2. CASE place' = place
  BY <1>1, <1>2, DueOther
<1>3. CASE place' # place
  <2>1. System = "windows"
    BY <1>3, OthersEffect DEF TypedSoFar, System
  <2>2. CASE ~Calling(t)'
    BY <2>2, DueIdle
  <2>3. CASE Calling(t)'
    <3>1. Calling(t) /\ failed[t] \subseteq failed'[t] /\ Listed(t)' = Listed(t)
      BY <1>1, <2>3, FailedKept DEF Calling, Listed
    <3>2. due'[t] = {}
      BY <1>3, <2>1, <2>3, <3>1 DEF Observe
    <3>3. NameKept(t)'
      <4>1. NameKept(t) /\ listing' = listing
        BY <1>1, DueEach DEF DueOf, machine
      <4> QED
        BY <1>1, <3>1, <4>1 DEF NameKept, At
    <3> QED
      BY <3>2, <3>3 DEF DueOf
  <2> QED
    BY <2>2, <2>3
<1> QED
  BY <1>2, <1>3

LEMMA DueEachNext ==
  DueSoFar' <=> (System' # "linux" => \A t \in Watched : DueOf(t)')
BY DEF DueSoFar, DueOf, Accounted, NameKept

LEMMA DueKept ==
  ASSUME TypedSoFar, ProbesLeaveNoTrace, DueSoFar, [Next]_vars
  PROVE  DueSoFar'
<1>1. ASSUME Next, System # "linux", NEW t \in Watched
      PROVE  DueOf(t)'
  <2>1. CASE Others
    BY <1>1, <2>1, DueOthers DEF Next
  <2>2. ASSUME NEW u \in Threads, Step(u)
        PROVE  DueOf(t)'
    <3>1. Keeps(u) /\ Observe
      BY <1>1, <2>2, StepKeeps DEF Next
    <3>2. CASE u = t
      BY <1>1, <2>2, <3>1, <3>2, DueOwnStep
    <3>3. CASE u # t
      <4>1. frame'[t] = frame[t]
        BY <3>1, <3>3 DEF Keeps, OnlyFrame
      <4> QED
        BY <1>1, <3>1, <4>1, DueOther DEF Keeps
    <3> QED
      BY <3>2, <3>3
  <2> QED
    BY <1>1, <2>1, <2>2 DEF Next
<1>2. Next => System' = System
  <2>1. Die => UNCHANGED machine
    BY DEF Die
  <2> QED
    BY <2>1, StepKeeps, OthersEffect DEF Next, Keeps, machine, System
<1>3. CASE Next
  BY <1>1, <1>2, <1>3, DueEachNext
<1>4. CASE UNCHANGED vars
  <2>1. /\ frame' = frame /\ due' = due /\ failed' = failed /\ holder' = holder
        /\ UNCHANGED <<machine, place>>
    BY <1>4 DEF vars, history
  <2>2. Rounds' = Rounds /\ System' = System /\ Kind' = Kind
    BY <2>1, OrderSame
  <2>3. ASSUME NEW t \in Watched, System # "linux"
        PROVE  DueOf(t)'
    <3>1. DueOf(t)
      BY <2>3, DueEach
    <3>2. /\ Listed(t)' = Listed(t) /\ At(t, "returned")' = At(t, "returned")
          /\ \A d : AtHand(t, d)' = AtHand(t, d)
          /\ \A d : Ahead(t, d) => Ahead(t, d)'
      <4>1. Listed(t)' = Listed(t) /\ At(t, "returned")' = At(t, "returned")
            /\ Reached(t)' = Reached(t)
        BY <2>1 DEF Listed, At, Reached
      <4>2. \A d : AtHand(t, d)' = AtHand(t, d)
        BY <2>1 DEF AtHand
      <4>3. \A d : Ahead(t, d) => Ahead(t, d)'
        BY <2>1, <4>1, OrderSame DEF Ahead
      <4> QED
        BY <4>1, <4>2, <4>3
    <3>3. \A d : Accounted(t, d) => Accounted(t, d)'
      BY <2>1, <3>2 DEF Accounted
    <3>4. NameKept(t)'
      BY <2>1, <3>1, <3>2 DEF DueOf, NameKept, At, machine
    <3> QED
      BY <2>1, <2>2, <3>1, <3>3, <3>4, OrderSame DEF DueOf
  <2> QED
    BY <2>2, <2>3, DueEachNext
<1> QED
  BY <1>3, <1>4

(* On macOS and Windows what nobody else took during the call is listed    *)
(* when it returns, unless a query about it failed, or keys moved.         *)
THEOREM ListsWhatWasFree == Spec => []FreeIsListed
<1>1. Init => DueSoFar
  BY DEF Init, DueSoFar, At, Idle
<1>2. ASSUME DueSoFar PROVE FreeIsListed
  <2> SUFFICES ASSUME NEW t \in Watched, At(t, "returned"), System # "linux"
               PROVE  due[t] \subseteq Listed(t) \cup failed[t]
    BY DEF FreeIsListed
  <2> QED
    BY <1>2, DueEach DEF DueOf, Accounted, AtHand, At, Found
<1>3. Init => ProbesLeaveNoTrace
  BY DEF Init, ProbesLeaveNoTrace
<1> QED
  BY <1>1, <1>2, <1>3, TypedInit, TypedKept, HeldKept, DueKept, PTL DEF Spec

-----------------------------------------------------------------------------
(* Nothing is listed twice.                                                *)

LEMMA PlacedInit ==
  ASSUME Init
  PROVE  Placed
<1> SUFFICES ASSUME NEW j \in Slots, NEW k \in Slots,
                    place[j] = place[k], place[j] # Nothing
             PROVE  j = k
  BY DEF Placed
<1> DEFINE S == {x \in Slots : place[x] = place[j]}
<1>1. place[j] \in Devices
  BY DEF Init
<1>2. Cardinality(S) = 1
  BY <1>1 DEF Init
<1>3. IsFiniteSet(S)
  BY FS_Subset
<1>4. PICK x : S = {x}
  BY <1>2, <1>3, FS_Singleton
<1> QED
  BY <1>4

LEMMA PlacedKept ==
  ASSUME TypedSoFar, Placed, [Next]_vars
  PROVE  Placed'
<1>1. CASE \E t \in Threads : Step(t)
  <2>1. place' = place
    BY <1>1, StepKeeps DEF Keeps, Die
  <2> QED
    BY <2>1 DEF Placed
<1>2. CASE Others
  <2>1. CASE place' = place
    BY <2>1 DEF Placed
  <2>2. CASE \E k \in Slots : place' = [place EXCEPT ![k] = Nothing]
    BY <2>2 DEF Placed, TypedSoFar
  <2>3. ASSUME NEW k \in Slots, NEW d \in Devices, ~Present(d),
               place' = [place EXCEPT ![k] = d]
        PROVE  Placed'
    BY <2>3 DEF Placed, Present, TypedSoFar
  <2> QED
    BY <1>2, <2>1, <2>2, <2>3, OthersEffect
<1>3. CASE UNCHANGED vars
  BY <1>3 DEF vars, Placed
<1> QED
  BY <1>1, <1>2, <1>3 DEF Next

LEMMA CountedSame ==
  ASSUME NEW t, Counted(t), frame'[t].list = frame[t].list
  PROVE  Counted(t)'
BY DEF Counted, Listed

LEMMA CountedMore ==
  ASSUME TypedSoFar, NEW t \in Threads, Counted(t), NEW d \in Devices,
         d \notin Listed(t), Appends(t, d)
  PROVE  Counted(t)'
<1>1. Len(frame'[t].list) = Len(frame[t].list) + 1
  BY AppendElements DEF TypedSoFar, Frame, Appends
<1>2. Listed(t)' = Listed(t) \cup {d}
  BY ListedAlso
<1>3. /\ IsFiniteSet(Listed(t) \cup {d})
      /\ Cardinality(Listed(t) \cup {d}) = Cardinality(Listed(t)) + 1
  BY FS_AddElement DEF Counted
<1> QED
  BY <1>1, <1>2, <1>3 DEF Counted

LEMMA KeyType ==
  ASSUME NEW f \in Frame
  PROVE  f.key \in Int /\ f.i \in Nat
<1>1. f.key \in Slots \cup {-1} /\ f.i \in Nat
  BY DEF Frame
<1>2. Slots \cup {-1} \subseteq Int
  BY SlotsNat
<1> QED
  BY <1>1, <1>2

LEMMA BoundType ==
  ASSUME TypedSoFar, NEW t \in Threads
  PROVE  /\ Bound(t) \in Int /\ Position(t) \in Int
         /\ frame[t].key \in Int /\ frame[t].i \in Nat
<1>1. frame[t] \in Frame
  BY DEF TypedSoFar
<1>2. frame[t].key \in Int /\ frame[t].i \in Nat
  BY <1>1, KeyType
<1> QED
  BY <1>2 DEF Bound, Position

LEMMA BoundTypeNext ==
  ASSUME TypedSoFar', NEW t \in Threads
  PROVE  Bound(t)' \in Int
<1>1. frame'[t] \in Frame
  BY DEF TypedSoFar
<1>2. frame'[t].key \in Int /\ frame'[t].i \in Nat
  BY <1>1, KeyType
<1> QED
  BY <1>2 DEF Bound

LEMMA BehindSame ==
  ASSUME TypedSoFar, TypedSoFar', NEW t \in Threads, Behind(t),
         frame'[t].list = frame[t].list, place' = place, Bound(t) <= Bound(t)'
  PROVE  Behind(t)'
<1>1. Listed(t)' = Listed(t)
  BY DEF Listed
<1>2. Bound(t) \in Int /\ Bound(t)' \in Int /\ \A k \in Slots : k \in Int
  BY BoundType, BoundTypeNext, SlotsNat
<1> SUFFICES ASSUME NEW k \in Slots, place[k] \in Listed(t)
             PROVE  k < Bound(t)'
  BY <1>1 DEF Behind
<1> QED
  BY <1>2 DEF Behind

LEMMA BehindMore ==
  ASSUME TypedSoFar, TypedSoFar', NEW t \in Threads, Behind(t),
         NEW d \in Devices, Appends(t, d), place' = place,
         \A k \in Slots : place[k] = d => k < Bound(t)',
         Bound(t) <= Bound(t)'
  PROVE  Behind(t)'
<1>1. Listed(t)' = Listed(t) \cup {d}
  BY ListedAlso
<1>2. Bound(t) \in Int /\ Bound(t)' \in Int /\ \A k \in Slots : k \in Int
  BY BoundType, BoundTypeNext, SlotsNat
<1> SUFFICES ASSUME NEW k \in Slots, place[k] \in Listed(t) \cup {d}
             PROVE  k < Bound(t)'
  BY <1>1 DEF Behind
<1> QED
  BY <1>2 DEF Behind

LEMMA KeysBehindType ==
  ASSUME NEW t
  PROVE  /\ IsFiniteSet({k \in Installed : k <= frame[t].key})
         /\ KeysBehind(t) \in Nat
<1>1. {k \in Installed : k <= frame[t].key} \subseteq Installed
  OBVIOUS
<1> QED
  BY <1>1, InstalledCounted, FS_Subset, FS_CardinalityType DEF KeysBehind

LEMMA KeysBehindSame ==
  ASSUME NEW t, UNCHANGED <<machine, place>>, frame'[t].key = frame[t].key
  PROVE  KeysBehind(t)' = KeysBehind(t)
BY OrderSame DEF KeysBehind

LEMMA OncePass ==
  ASSUME TypedSoFar, TypedSoFar', NEW t \in Threads, OnceOf(t), Passes(t),
         frame[t].pc \in Round \cup {"next"},
         \/ frame'[t].list = frame[t].list
         \/ \E d \in Devices :
              /\ Appends(t, d) /\ d \notin Listed(t)
              /\ \A k \in Slots : place[k] = d => k = Position(t)
  PROVE  OnceOf(t)'
<1>1. /\ Bound(t) \in Int /\ frame[t].key \in Int /\ frame[t].i \in Nat
      /\ Position(t) \in Int
  BY BoundType
<1>2. /\ frame'[t].pc = "next" /\ frame'[t].i = frame[t].i + 1
      /\ frame'[t].key = frame[t].key /\ UNCHANGED <<machine, place>>
  BY DEF Passes, Keeps
<1>3. System' = System /\ ~Added(t)'
  BY <1>2, OrderSame DEF Added, At
<1>4. Bound(t)' = Position(t) + 1
  BY <1>2, <1>3 DEF Bound, Position
<1>5. Bound(t) <= Bound(t)'
  BY <1>1, <1>4 DEF Bound, Position
<1>6. Counted(t)' /\ Behind(t)'
  <2>1. CASE frame'[t].list = frame[t].list
    BY <1>2, <1>5, <2>1, CountedSame, BehindSame DEF OnceOf
  <2>2. ASSUME NEW d \in Devices, Appends(t, d), d \notin Listed(t),
               \A k \in Slots : place[k] = d => k = Position(t)
        PROVE  Counted(t)' /\ Behind(t)'
    <3>1. \A k \in Slots : place[k] = d => k < Bound(t)'
      BY <1>1, <1>4, <2>2
    <3> QED
      BY <1>2, <1>5, <2>2, <3>1, CountedMore, BehindMore DEF OnceOf
  <2> QED
    BY <2>1, <2>2
<1>7. NotYet(t)' /\ InPlace(t)'
  BY <1>2 DEF NotYet, InPlace, Found
<1>8. KeysPassed(t)'
  <2>1. SUFFICES ASSUME System = "windows"
                 PROVE  KeysBehind(t) <= frame[t].i + 1
    <3>1. KeysBehind(t)' = KeysBehind(t)
      BY <1>2, KeysBehindSame
    <3> QED
      BY <1>2, <1>3, <3>1 DEF KeysPassed, Round, Found
  <2>2. KeysBehind(t) \in Nat
    BY KeysBehindType
  <2> QED
    BY <1>1, <2>1, <2>2 DEF OnceOf, KeysPassed
<1> QED
  BY <1>6, <1>7, <1>8 DEF OnceOf

(* A step within a round, at the same place of the walk                    *)
LEMMA OnceWithin ==
  ASSUME TypedSoFar, TypedSoFar', NEW t \in Threads, OnceOf(t), Keeps(t),
         SameWalk(frame'[t], frame[t]),
         frame[t].pc \in Round \cup {"next"}, frame'[t].pc \in Round,
         System = "windows" => frame[t].pc # "next",
         Bound(t) <= Bound(t)',
         \/ frame'[t].list = frame[t].list
         \/ \E d \in Devices :
              /\ Appends(t, d) /\ d \notin Listed(t)
              /\ \A k \in Slots : place[k] = d => k < Bound(t)',
         NotYet(t)', InPlace(t)'
  PROVE  OnceOf(t)'
<1>1. /\ frame'[t].i = frame[t].i /\ frame'[t].key = frame[t].key
      /\ UNCHANGED <<machine, place>>
  BY DEF Keeps, SameWalk
<1>2. Counted(t)' /\ Behind(t)'
  <2>1. CASE frame'[t].list = frame[t].list
    BY <1>1, <2>1, CountedSame, BehindSame DEF OnceOf
  <2>2. ASSUME NEW d \in Devices, Appends(t, d), d \notin Listed(t),
               \A k \in Slots : place[k] = d => k < Bound(t)'
        PROVE  Counted(t)' /\ Behind(t)'
    BY <1>1, <2>2, CountedMore, BehindMore DEF OnceOf
  <2> QED
    BY <2>1, <2>2
<1>3. KeysPassed(t)'
  <2>1. KeysBehind(t)' = KeysBehind(t) /\ System' = System
    BY <1>1, KeysBehindSame, OrderSame
  <2> QED
    BY <1>1, <2>1 DEF OnceOf, KeysPassed
<1> QED
  BY <1>2, <1>3 DEF OnceOf

(* Outside a call, and at its start, there is nothing to repeat.           *)
LEMMA OnceEmpty ==
  ASSUME NEW t, frame'[t].list = <<>>,
         frame'[t].pc \in {"idle", "next", "returned"},
         frame'[t].key = -1, frame'[t].i = 0
  PROVE  OnceOf(t)'
<1>1. Listed(t)' = {}
  BY DEF Listed
<1>2. Counted(t)'
  BY <1>1, FS_EmptySet DEF Counted
<1>3. Behind(t)'
  BY <1>1 DEF Behind
<1>4. NotYet(t)' /\ InPlace(t)'
  BY DEF NotYet, InPlace, Found
<1>5. KeysPassed(t)'
  <2>1. \A k \in Installed' : k \in Nat
    BY SlotsNat DEF Installed
  <2>2. {k \in Installed' : k <= frame'[t].key} = {}
    BY <2>1
  <2>3. KeysBehind(t)' = 0
    BY <2>2, FS_EmptySet DEF KeysBehind
  <2> QED
    BY <2>3 DEF KeysPassed, Round, Found
<1> QED
  BY <1>2, <1>3, <1>4, <1>5 DEF OnceOf

(* The keys are visited in their order, even while some go: at most i of   *)
(* those that are left come up to the last, and i come before the next.    *)
LEMMA NextKeyHigher ==
  ASSUME TypedSoFar, NEW t \in Threads, OnceOf(t), At(t, "next"),
         System = "windows", NEW n \in KeyAt(frame[t].i)
  PROVE  /\ frame[t].key < n
         /\ Cardinality({k \in Installed : k <= n}) = frame[t].i + 1
<1> DEFINE S == {k \in Installed : k < n}
           T == {k \in Installed : k <= n}
           U == {k \in Installed : k <= frame[t].key}
<1>1. /\ n \in Installed /\ Cardinality(S) = frame[t].i
      /\ n \in Nat /\ \A k \in Installed : k \in Nat
      /\ frame[t].key \in Int /\ frame[t].i \in Nat
  BY BoundType, InstalledCounted, SlotsNat DEF KeyAt
<1>2. IsFiniteSet(S) /\ IsFiniteSet(U)
  <2>1. S \subseteq Installed /\ U \subseteq Installed
    OBVIOUS
  <2> QED
    BY <2>1, InstalledCounted, FS_Subset
<1>3. T = S \cup {n} /\ n \notin S
  <2>1. \A k \in Installed : k <= n <=> k < n \/ k = n
    BY <1>1
  <2>2. ~(n < n)
    BY <1>1
  <2> QED
    BY <1>1, <2>1, <2>2
<1>4. Cardinality(S \cup {n}) = frame[t].i + 1 /\ IsFiniteSet(S \cup {n})
  BY <1>1, <1>2, <1>3, FS_AddElement
<1>5. Cardinality(U) <= frame[t].i
  BY DEF OnceOf, KeysPassed, KeysBehind, At, Round, Found
<1>6. ASSUME ~(frame[t].key < n) PROVE FALSE
  <2>1. T \subseteq U
    <3>1. \A k \in Installed : k <= n => k <= frame[t].key
      BY <1>1, <1>6
    <3> QED
      BY <3>1
  <2>2. Cardinality(T) <= Cardinality(U)
    BY <1>2, <2>1, FS_Subset
  <2>3. Cardinality(U) \in Nat /\ Cardinality(T) = frame[t].i + 1
    BY <1>2, <1>3, <1>4, FS_CardinalityType
  <2> HIDE DEF T, U
  <2> QED
    BY <1>1, <1>5, <2>2, <2>3
<1> QED
  BY <1>3, <1>4, <1>6

LEMMA OnceEnumKey ==
  ASSUME TypedSoFar, TypedSoFar', NEW t \in Threads, OnceOf(t), EnumKey(t)
  PROVE  OnceOf(t)'
<1>1. frame[t].pc = "next" /\ System = "windows" /\ Framed
  BY EnumKeyEffect, MoreCounts DEF TypedSoFar, Framed
<1>2. ASSUME NEW n \in KeyAt(frame[t].i),
             Keeps(t), frame'[t].pc = "component", frame'[t].key = n,
             frame'[t].i = frame[t].i, frame'[t].list = frame[t].list
      PROVE  OnceOf(t)'
  <2>1. /\ frame[t].key < n
        /\ Cardinality({k \in Installed : k <= n}) = frame[t].i + 1
    BY <1>1, NextKeyHigher DEF At
  <2>2. System' = System /\ Installed' = Installed /\ place' = place
    BY <1>2, OrderSame DEF Keeps
  <2>3. /\ n \in Int /\ frame[t].key \in Int /\ frame[t].i \in Nat
    BY BoundType, InstalledCounted, SlotsNat DEF KeyAt
  <2>4. Bound(t) = frame[t].key + 1 /\ Bound(t)' = n
    BY <1>1, <1>2, <2>2 DEF Bound
  <2>5. Counted(t)' /\ Behind(t)'
    BY <1>2, <2>1, <2>2, <2>3, <2>4, CountedSame, BehindSame DEF OnceOf
  <2>6. NotYet(t)' /\ InPlace(t)'
    BY <1>2 DEF NotYet, InPlace, Found
  <2>7. KeysPassed(t)'
    <3>1. {k \in Installed' : k <= frame'[t].key} = {k \in Installed : k <= n}
      BY <1>2, <2>2
    <3>2. KeysBehind(t)' = frame[t].i + 1
      BY <2>1, <3>1 DEF KeysBehind
    <3> QED
      BY <1>2, <2>3, <3>2 DEF KeysPassed, Round
  <2> QED
    BY <2>5, <2>6, <2>7 DEF OnceOf
<1>3. CASE PassesBy(t)
  BY <1>1, <1>3, OncePass DEF PassesBy
<1> QED
  BY <1>1, <1>2, <1>3, EnumKeyEffect

(* A device found where the walk is has not been listed.                   *)
LEMMA FoundNew ==
  ASSUME TypedSoFar, NEW t \in Threads, OnceOf(t), NEW k \in Slots,
         place[k] \in Devices, ~(k < Bound(t))
  PROVE  place[k] \notin Listed(t)
BY DEF OnceOf, Behind

LEMMA OnceUnit ==
  ASSUME TypedSoFar, TypedSoFar', Placed, NEW t \in Threads, OnceOf(t),
         Unit(t) \/ ReadDir(t)
  PROVE  OnceOf(t)'
<1>1. /\ frame[t].pc = "next" /\ System \in {"macos", "linux"} /\ Framed
      /\ frame[t].i \in Slots
  BY UnitEffect, ReadDirEffect, MoreCounts DEF TypedSoFar, Framed
<1>2. CASE /\ Stays(t) /\ frame'[t].pc \in {"probe", "stat"}
           /\ place[frame[t].i] \in Devices
           /\ frame'[t].device = place[frame[t].i]
  <2>1. /\ System' = System /\ place' = place /\ frame'[t].i = frame[t].i
        /\ Listed(t)' = Listed(t) /\ frame[t].i \in Nat
    BY <1>2, OrderSame, BoundType DEF Stays, Keeps, SameWalk, Listed
  <2>2. Bound(t) = frame[t].i /\ Bound(t)' = frame[t].i
    BY <1>1, <1>2, <2>1 DEF Bound, Added, At
  <2>3. NotYet(t)'
    BY <1>1, <1>2, <2>1, <2>2, FoundNew DEF NotYet
  <2>4. InPlace(t)'
    <3>1. \A k \in Slots : place[k] = place[frame[t].i] => k = frame[t].i
      BY <1>1, <1>2 DEF Placed
    <3> QED
      BY <1>1, <1>2, <2>1, <3>1 DEF InPlace, Position
  <2> QED
    BY <1>1, <1>2, <2>1, <2>2, <2>3, <2>4, OnceWithin DEF Stays, Round, Found
<1>3. CASE PassesBy(t)
  BY <1>1, <1>3, OncePass DEF PassesBy
<1> QED
  BY <1>1, <1>2, <1>3, UnitEffect, ReadDirEffect

LEMMA OnceReadKey ==
  ASSUME TypedSoFar, TypedSoFar', Placed, NEW t \in Threads, OnceOf(t),
         ReadComponent(t) \/ ReadGuid(t)
  PROVE  OnceOf(t)'
<1>1. /\ frame[t].pc \in {"component", "guid"} /\ Framed
      /\ System = "windows" /\ frame[t].key \in Slots
  BY DEF ReadComponent, ReadGuid, At, TypedSoFar, Framed, FrameSound
<1>2. ASSUME Stays(t), frame'[t].pc \in {"guid", "probe"},
             frame'[t].pc = "probe" =>
               /\ place[frame[t].key] \in Devices
               /\ frame'[t].device = place[frame[t].key]
      PROVE  OnceOf(t)'
  <2>1. /\ System' = System /\ place' = place /\ frame'[t].key = frame[t].key
        /\ Listed(t)' = Listed(t) /\ frame[t].key \in Int
    BY <1>2, OrderSame, BoundType DEF Stays, Keeps, SameWalk, Listed
  <2>2. Bound(t) = frame[t].key /\ Bound(t)' = frame[t].key
    BY <1>1, <1>2, <2>1 DEF Bound
  <2>3. NotYet(t)'
    BY <1>1, <1>2, <2>1, <2>2, FoundNew DEF NotYet, Found
  <2>4. InPlace(t)'
    <3>1. CASE frame'[t].pc = "guid"
      BY <3>1 DEF InPlace, Found
    <3>2. CASE frame'[t].pc = "probe"
      <4>1. \A k \in Slots : place[k] = place[frame[t].key] => k = frame[t].key
        BY <1>1, <1>2, <3>2 DEF Placed
      <4> QED
        BY <1>1, <1>2, <2>1, <3>2, <4>1 DEF InPlace, Position
    <3> QED
      BY <1>2, <3>1, <3>2
  <2> QED
    BY <1>1, <1>2, <2>1, <2>2, <2>3, <2>4, OnceWithin DEF Stays, Round, Found
<1>3. ASSUME PassesBy(t)
      PROVE  OnceOf(t)'
  BY <1>1, <1>3, OncePass DEF PassesBy, Round
<1>4. CASE ReadComponent(t)
  BY <1>1, <1>2, <1>3, <1>4, ReadComponentEffect
<1>5. CASE ReadGuid(t)
  BY <1>1, <1>2, <1>3, <1>5, ReadGuidEffect DEF Named
<1> QED
  BY <1>4, <1>5

LEMMA OnceProbe ==
  ASSUME TypedSoFar, TypedSoFar', NEW t \in Threads, OnceOf(t), Probe(t)
  PROVE  OnceOf(t)'
<1> DEFINE d == frame[t].device
<1>1. /\ frame[t].pc = "probe" /\ d \in Devices /\ Framed
      /\ listing \in Listings /\ System # "linux"
  BY DEF Probe, At, TypedSoFar, Framed, FrameSound, Found
<1>2. /\ Keeps(t) /\ SameWalk(frame'[t], frame[t])
      /\ frame'[t].device = d
      /\ \/ /\ System = "windows" /\ frame'[t].pc = "close" /\ Appends(t, d)
         \/ /\ System # "windows" /\ Kind = "tun" /\ frame'[t].pc = "name"
            /\ frame'[t].list = frame[t].list
         \/ /\ System # "windows" /\ Kind # "tun" /\ frame'[t].pc = "close"
            /\ frame'[t].list = frame[t].list
  BY <1>1, ProbeEffect
<1>3. d \notin Listed(t)
  BY <1>1 DEF OnceOf, NotYet, Added, At, Found
<1>4. \A k \in Slots : place[k] = d => k = Position(t)
  BY <1>1 DEF OnceOf, InPlace, Found
<1>5. /\ System' = System /\ listing' = listing /\ place' = place
      /\ frame'[t].key = frame[t].key /\ frame'[t].i = frame[t].i
      /\ frame[t].key \in Int /\ frame[t].i \in Nat
  BY <1>2, OrderSame, BoundType DEF Keeps, SameWalk
<1>6. InPlace(t)'
  BY <1>2, <1>4, <1>5 DEF InPlace, Position
<1>7. frame[t].pc \in Round /\ frame'[t].pc \in Round
  BY <1>1, <1>2 DEF Round, Found
<1>8. CASE System = "windows"
  <2>1. /\ Bound(t) = frame[t].key /\ Bound(t)' = frame[t].key + 1
        /\ Position(t) = frame[t].key
    BY <1>1, <1>2, <1>5, <1>8 DEF Bound, Position
  <2>2. listing # <<"macos", "tap">>
    BY <1>8 DEF System
  <2>3. NotYet(t)'
    BY <1>2, <1>5, <1>8, <2>2 DEF NotYet, Added, At
  <2>4. \A k \in Slots : place[k] = d => k < Bound(t)'
    BY <1>4, <1>5, <2>1
  <2>5. Bound(t) <= Bound(t)'
    BY <1>5, <2>1
  <2> HIDE DEF d
  <2> QED
    BY <1>1, <1>2, <1>3, <1>6, <1>7, <1>8, <2>3, <2>4, <2>5, OnceWithin
<1>9. CASE System # "windows"
  <2>1. frame'[t].pc = "close" => listing = <<"macos", "tap">>
    BY <1>1, <1>2, <1>9 DEF System, Kind
  <2>2. Bound(t) = frame[t].i /\ Bound(t)' = frame[t].i
    BY <1>1, <1>5, <1>9, <2>1 DEF Bound, Added, At
  <2>3. NotYet(t)'
    <3>1. Listed(t)' = Listed(t)
      BY <1>2, <1>9 DEF Listed
    <3> QED
      BY <1>2, <1>3, <3>1 DEF NotYet
  <2>4. Bound(t) <= Bound(t)'
    BY <1>5, <2>2
  <2> QED
    BY <1>2, <1>6, <1>7, <1>9, <2>3, <2>4, OnceWithin
<1> QED
  BY <1>8, <1>9

LEMMA OnceAskName ==
  ASSUME TypedSoFar, TypedSoFar', NEW t \in Threads, OnceOf(t),
         AskName(t) \/ AskNameFails(t)
  PROVE  OnceOf(t)'
<1> DEFINE d == frame[t].device
<1>1. /\ frame[t].pc = "name" /\ d \in Devices /\ Framed
      /\ listing = <<"macos", "tun">>
  BY DEF AskName, AskNameFails, At, TypedSoFar, Framed, FrameSound, Found
<1>2. /\ Keeps(t) /\ SameWalk(frame'[t], frame[t])
      /\ frame'[t].pc = "close" /\ frame'[t].device = d
      /\ Appends(t, d) \/ frame'[t].list = frame[t].list
  <2>1. CASE AskName(t)
    BY <1>1, <2>1, AskNameEffect
  <2>2. CASE AskNameFails(t)
    BY <1>1, <2>2, GotoEffect DEF AskNameFails, Pcs, Stays
  <2> QED
    BY <2>1, <2>2
<1>3. d \notin Listed(t)
  BY <1>1 DEF OnceOf, NotYet, Added, At, Found
<1>4. \A k \in Slots : place[k] = d => k = Position(t)
  BY <1>1 DEF OnceOf, InPlace, Found
<1>5. /\ System' = System /\ listing' = listing /\ place' = place
      /\ frame'[t].key = frame[t].key /\ frame'[t].i = frame[t].i
      /\ frame[t].key \in Int /\ frame[t].i \in Nat
  BY <1>2, OrderSame, BoundType DEF Keeps, SameWalk
<1>6. /\ System = "macos" /\ listing # <<"macos", "tap">>
  BY <1>1 DEF System
<1>7. /\ Bound(t) = frame[t].i /\ Bound(t)' = frame[t].i + 1
      /\ Position(t) = frame[t].i
  BY <1>1, <1>2, <1>5, <1>6 DEF Bound, Added, At, Position
<1>8. NotYet(t)' /\ InPlace(t)'
  <2>1. Added(t)'
    BY <1>2, <1>5, <1>6 DEF Added, At
  <2> QED
    BY <1>2, <1>4, <1>5, <2>1 DEF NotYet, InPlace, Position
<1>9. \A k \in Slots : place[k] = d => k < Bound(t)'
  BY <1>4, <1>5, <1>7
<1>10. Bound(t) <= Bound(t)' /\ frame[t].pc \in Round /\ frame'[t].pc \in Round
  BY <1>1, <1>2, <1>5, <1>7 DEF Round, Found
<1> HIDE DEF d
<1> QED
  BY <1>1, <1>2, <1>3, <1>6, <1>8, <1>9, <1>10, OnceWithin

LEMMA OnceCloseProbe ==
  ASSUME TypedSoFar, TypedSoFar', NEW t \in Threads, OnceOf(t), CloseProbe(t)
  PROVE  OnceOf(t)'
<1>1. /\ frame[t].pc = "close" /\ frame[t].device \in Devices /\ Framed
  BY DEF CloseProbe, At, TypedSoFar, Framed, FrameSound, Found
<1>2. /\ Passes(t)
      /\ IF listing = <<"macos", "tap">> THEN Appends(t, frame[t].device)
         ELSE frame'[t].list = frame[t].list
  BY <1>1, CloseProbeEffect
<1>3. listing = <<"macos", "tap">> => frame[t].device \notin Listed(t)
  BY <1>1 DEF OnceOf, NotYet, Added, Found
<1>4. \A k \in Slots : place[k] = frame[t].device => k = Position(t)
  BY <1>1 DEF OnceOf, InPlace, Found
<1> QED
  BY <1>1, <1>2, <1>3, <1>4, OncePass DEF Round, Found

LEMMA OnceStat ==
  ASSUME TypedSoFar, TypedSoFar', NEW t \in Threads, OnceOf(t), Stat(t)
  PROVE  OnceOf(t)'
<1>1. /\ frame[t].pc = "stat" /\ Framed /\ System = "linux"
  BY DEF Stat, At, TypedSoFar, Framed, FrameSound
<1>2. CASE /\ Stays(t) /\ frame'[t].pc = "kind"
           /\ frame'[t].device = frame[t].device
  <2>1. /\ System' = System /\ place' = place /\ frame'[t].i = frame[t].i
        /\ Listed(t)' = Listed(t) /\ frame[t].i \in Nat
    BY <1>2, OrderSame, BoundType DEF Stays, Keeps, SameWalk, Listed
  <2>2. Bound(t) = frame[t].i /\ Bound(t)' = frame[t].i
    BY <1>1, <1>2, <2>1 DEF Bound, Added, At
  <2>3. NotYet(t)' /\ InPlace(t)'
    BY <1>1, <1>2, <2>1
    DEF OnceOf, NotYet, InPlace, Position, Added, At, Found
  <2> QED
    BY <1>1, <1>2, <2>1, <2>2, <2>3, OnceWithin DEF Stays, Round, Found
<1>3. CASE PassesBy(t)
  BY <1>1, <1>3, OncePass DEF PassesBy, Round, Found
<1>4. CASE Die
  BY <1>4, DieEffect, OnceEmpty DEF Idle
<1> QED
  BY <1>1, <1>2, <1>3, <1>4, StatEffect

LEMMA OnceReadKind ==
  ASSUME TypedSoFar, TypedSoFar', NEW t \in Threads, OnceOf(t),
         ReadKind(t) \/ KindUnknown(t)
  PROVE  OnceOf(t)'
<1>1. /\ frame[t].pc = "kind" /\ frame[t].device \in Devices /\ Framed
  BY DEF ReadKind, KindUnknown, At, TypedSoFar, Framed, FrameSound, Found
<1>2. CASE Passes(t) /\ Appends(t, frame[t].device)
  <2>1. frame[t].device \notin Listed(t)
    BY <1>1 DEF OnceOf, NotYet, Added, At, Found
  <2>2. \A k \in Slots : place[k] = frame[t].device => k = Position(t)
    BY <1>1 DEF OnceOf, InPlace, Found
  <2> QED
    BY <1>1, <1>2, <2>1, <2>2, OncePass DEF Round, Found
<1>3. CASE PassesBy(t)
  BY <1>1, <1>3, OncePass DEF PassesBy, Round, Found
<1>4. CASE Die
  BY <1>4, DieEffect, OnceEmpty DEF Idle
<1> QED
  BY <1>1, <1>2, <1>3, <1>4, ReadKindEffect, KindUnknownEffect

LEMMA OnceReturn ==
  ASSUME TypedSoFar, TypedSoFar', NEW t \in Threads, OnceOf(t), Return(t)
  PROVE  OnceOf(t)'
<1>1. /\ Stays(t) /\ frame'[t].pc = "returned" /\ frame[t].pc = "next"
  BY GotoEffect DEF Return, Pcs, At, TypedSoFar, Framed
<1>2. /\ System' = System /\ place' = place /\ frame'[t].i = frame[t].i
      /\ frame'[t].key = frame[t].key /\ KeysBehind(t)' = KeysBehind(t)
  BY <1>1, OrderSame, KeysBehindSame DEF Stays, Keeps, SameWalk
<1>3. Bound(t)' = Bound(t) /\ Bound(t) \in Int
  BY <1>1, <1>2, BoundType DEF Bound, Added, At
<1>4. Counted(t)' /\ Behind(t)'
  BY <1>1, <1>2, <1>3, CountedSame, BehindSame DEF OnceOf, Stays
<1>5. NotYet(t)' /\ InPlace(t)' /\ KeysPassed(t)'
  BY <1>1, <1>2 DEF OnceOf, NotYet, InPlace, KeysPassed, Round, Found
<1> QED
  BY <1>4, <1>5 DEF OnceOf

LEMMA OnceOwnStep ==
  ASSUME TypedSoFar, TypedSoFar', Placed, NEW t \in Threads, OnceOf(t), Step(t)
  PROVE  OnceOf(t)'
<1>0. Framed
  BY DEF TypedSoFar, Framed
<1>1. CASE CallList(t)
  BY <1>1, CallListEffect, OnceEmpty
<1>2. CASE Leave(t)
  BY <1>0, <1>2, LeaveEffect, OnceEmpty DEF Idle
<1>3. CASE EnumKeyFails(t) \/ GetValueFails(t) \/ ProbeFails(t)
  <2>1. frame[t].pc \in Round \cup {"next"}
    BY <1>3 DEF EnumKeyFails, GetValueFails, ProbeFails, More, At, Round, Found
  <2> QED
    BY <1>0, <1>3, <2>1, GivenUp, OncePass DEF PassesBy
<1>4. CASE ListFails(t)
  BY <1>0, <1>4, ListFailsEffect, OnceEmpty
<1> QED
  BY <1>1, <1>2, <1>3, <1>4, OnceReturn, OnceUnit, OnceEnumKey, OnceReadKey,
     OnceProbe, OnceAskName, OnceCloseProbe, OnceStat, OnceReadKind DEF Step

(* What the others do, as long as they install nothing                     *)
LEMMA OnceOther ==
  ASSUME TypedSoFar, NEW t \in Threads, OnceOf(t), UNCHANGED machine,
         frame'[t] = frame[t],
         \A k \in Slots : place'[k] = place[k] \/ place'[k] = Nothing
  PROVE  OnceOf(t)'
<1>1. /\ System' = System /\ listing' = listing /\ Listed(t)' = Listed(t)
      /\ Bound(t)' = Bound(t) /\ Position(t)' = Position(t)
      /\ Added(t)' = Added(t)
  BY DEF machine, System, Listed, Bound, Position, Added, At
<1>2. Listed(t) \subseteq Devices
  BY ElementsTyped DEF TypedSoFar, Frame, Listed, Elements
<1>3. frame[t].pc \in Found => frame[t].device \in Devices
  BY DEF TypedSoFar, FrameSound
<1>4. Counted(t)' /\ NotYet(t)'
  BY <1>1, CountedSame DEF OnceOf, NotYet
<1>5. Behind(t)'
  BY <1>1, <1>2 DEF OnceOf, Behind
<1>6. InPlace(t)'
  BY <1>1, <1>3 DEF OnceOf, InPlace
<1>7. KeysPassed(t)'
  <2> DEFINE S == {k \in Installed : k <= frame[t].key}
             T == {k \in Installed' : k <= frame'[t].key}
  <2>1. T \subseteq S
    BY DEF Installed
  <2>2. Cardinality(T) <= Cardinality(S) /\ IsFiniteSet(T)
    BY <2>1, KeysBehindType, FS_Subset
  <2>3. Cardinality(T) \in Nat /\ Cardinality(S) \in Nat
    BY <2>2, KeysBehindType, FS_CardinalityType DEF KeysBehind
  <2>4. KeysBehind(t)' = Cardinality(T) /\ KeysBehind(t) = Cardinality(S)
    BY DEF KeysBehind
  <2>5. frame[t].i \in Nat
    BY BoundType
  <2> HIDE DEF S, T
  <2>6. KeysBehind(t)' <= KeysBehind(t)
    BY <2>2, <2>4
  <2>7. CASE frame[t].pc \in Round
    BY <1>1, <2>3, <2>4, <2>5, <2>6, <2>7 DEF OnceOf, KeysPassed
  <2>8. CASE frame[t].pc \notin Round
    BY <1>1, <2>3, <2>4, <2>5, <2>6, <2>8 DEF OnceOf, KeysPassed
  <2> QED
    BY <2>7, <2>8
<1> QED
  BY <1>4, <1>5, <1>6, <1>7 DEF OnceOf

(* Nothing is to be said of a thread outside its call.                     *)
LEMMA OnceIdle ==
  ASSUME TypedSoFar', NEW t \in Threads, ~Calling(t)'
  PROVE  OnceOf(t)'
<1>1. frame'[t] = Idle
  BY DEF TypedSoFar, FrameSound, Calling
<1> QED
  BY <1>1, OnceEmpty DEF Idle

LEMMA OnceKept ==
  ASSUME TypedSoFar, Placed, OnceSoFar, [Next]_vars
  PROVE  OnceSoFar'
<1>0. TypedSoFar'
  BY TypedKept
<1>1. ASSUME Next, NEW t \in Watched, t \notin came'
      PROVE  OnceOf(t)'
  <2>1. CASE ~Calling(t)'
    BY <1>0, <2>1, OnceIdle
  <2>2. CASE Calling(t)'
    <3>1. t \notin came /\ ~(\E d \in Devices : Present(d)' /\ ~Present(d))
      BY <1>1, <2>2 DEF Next, Observe
    <3>2. OnceOf(t) /\ t \in Threads
      BY <3>1 DEF OnceSoFar
    <3>3. CASE Others
      <4>1. frame' = frame /\ UNCHANGED machine
        BY <3>3, OthersEffect
      <4>2. \A k \in Slots : place'[k] = place[k] \/ place'[k] = Nothing
        <5>1. ASSUME NEW k \in Slots, NEW d \in Devices, ~Present(d),
                     place' = [place EXCEPT ![k] = d]
              PROVE  FALSE
          <6>1. place'[k] = d
            BY <5>1 DEF TypedSoFar
          <6> QED
            BY <3>1, <5>1, <6>1 DEF Present
        <5> QED
          BY <3>3, <5>1, OthersEffect DEF TypedSoFar
      <4> QED
        BY <3>2, <4>1, <4>2, OnceOther
    <3>4. ASSUME NEW u \in Threads, Step(u)
          PROVE  OnceOf(t)'
      <4>1. CASE u = t
        BY <1>0, <3>2, <3>4, <4>1, OnceOwnStep
      <4>2. CASE u # t /\ Keeps(u)
        <5>1. frame'[t] = frame[t] /\ UNCHANGED machine /\ place' = place
          BY <3>2, <4>2 DEF Keeps, OnlyFrame
        <5> QED
          BY <3>2, <5>1, OnceOther
      <4>3. CASE Die
        BY <2>2, <3>2, <4>3, DieEffect DEF Calling, Idle
      <4> QED
        BY <3>4, <4>1, <4>2, <4>3, StepKeeps
    <3> QED
      BY <1>1, <3>3, <3>4 DEF Next
  <2> QED
    BY <2>1, <2>2
<1>2. ASSUME UNCHANGED vars, NEW t \in Watched, t \notin came'
      PROVE  OnceOf(t)'
  <2>1. frame' = frame /\ UNCHANGED machine /\ place' = place /\ came' = came
    BY <1>2 DEF vars, history
  <2> QED
    BY <1>2, <2>1, OnceOther DEF OnceSoFar
<1> QED
  BY <1>1, <1>2 DEF OnceSoFar

(* No device is in a list twice, though others be removed meanwhile and    *)
(* the keys of the registry be counted from its start in every round.      *)
THEOREM NothingListedTwice == Spec => []ListedOnce
<1>1. Init => OnceSoFar
  <2> SUFFICES ASSUME Init, NEW t \in Watched
               PROVE  OnceOf(t)
    BY DEF OnceSoFar
  <2>1. frame[t] = Idle /\ Listed(t) = {}
    BY DEF Init, Idle, Listed
  <2>2. Counted(t) /\ Behind(t) /\ NotYet(t) /\ InPlace(t)
    BY <2>1, FS_EmptySet DEF Counted, Behind, NotYet, InPlace, Idle, Found
  <2>3. {k \in Installed : k <= frame[t].key} = {}
    <3>1. frame[t].key = -1
      BY <2>1 DEF Idle
    <3>2. \A k \in Installed : k \in Nat
      BY InstalledCounted, SlotsNat
    <3> QED
      BY <3>1, <3>2
  <2>4. KeysBehind(t) = 0
    BY <2>3, FS_EmptySet DEF KeysBehind
  <2> QED
    BY <2>1, <2>2, <2>4 DEF OnceOf, KeysPassed, Idle, Round, Found
<1>2. OnceSoFar => ListedOnce
  BY DEF OnceSoFar, OnceOf, Counted, ListedOnce
<1> QED
  BY <1>1, <1>2, TypedInit, TypedKept, PlacedInit, PlacedKept, OnceKept,
     PTL DEF Spec

==============================================================================
