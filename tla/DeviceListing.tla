----------------------------- MODULE DeviceListing -----------------------------
(***************************************************************************)
(* getAvailableTunDevices() and getAvailableTapDevices() of the three      *)
(* libraries, while others use devices, list them too, or install them.    *)
(*                                                                         *)
(* macOS and Windows find out whether a device is free by taking it: a     *)
(* lister holds each free device for a moment.  macOS goes through fixed    *)
(* units.  Windows goes through the keys of the registry by index, counted *)
(* once, and Linux through a directory, where it only looks.  The path the  *)
(* Linux library looks at is made from an uninitialised pointer.  A query   *)
(* that fails leaves a device out of the list, and on Windows and macOS     *)
(* nobody is told.                                                         *)
(***************************************************************************)
EXTENDS Integers, FiniteSets, Sequences

CONSTANTS
  Threads,
  Listers,     \* Listers[s]: those that list on system s
  Watched,     \* the threads whose calls the properties are about
  Devices,
  Kinds,       \* what kinds the devices of a machine may have: "tun", "tap",
               \* or "ppp" and "ether", ordinary interfaces like the two
  Slots,       \* places in the order in which devices are visited
  Listings,    \* the functions, each a pair of a system and a kind
  User,        \* whoever has a device open and is not listing
  Nobody, Nothing

ASSUME ListingAssumption ==
  /\ Kinds \subseteq [Devices -> {"tun", "tap", "ppp", "ether"}]
  /\ IsFiniteSet(Slots) /\ Slots = 0 .. (Cardinality(Slots) - 1)
  /\ Listings \subseteq   \* Windows has no TUN devices and lists none
       {"linux", "macos"} \X {"tun", "tap"} \cup {<<"windows", "tap">>}
  /\ Listers \in [{"linux", "macos", "windows"} -> SUBSET Threads]
  /\ Watched \subseteq Threads
  /\ User \notin Threads /\ Nobody \notin Threads \cup {User}
  /\ Nothing \notin Devices

VARIABLES
  listing,   \* the function in use, the same from start to end
  kindOf,    \* kindOf[d]: the kind of device d, which it keeps
  place,     \* place[k]: the device at k
  holder,    \* holder[d]: who has device d open
  frame,     \* frame[t]: the call of thread t
  seen,      \* seen[t]: the devices that were free at some time of the call
  due,       \* due[t]: those that were free, but for t, all the time
  failed,    \* failed[t]: those a query about which failed by itself
  mistaken,  \* mistaken[t]: those that were taken for a tun device and were none
  came       \* the threads during whose call a device was installed

machine == <<listing, kindOf>>
history == <<seen, due, failed, mistaken, came>>
vars == <<machine, place, holder, frame, history>>

System == listing[1]
Kind == listing[2]

Present(d) == \E k \in Slots : place[k] = d

IsTunTap(d) == kindOf[d] \in {"tun", "tap"}

(* What the caller asks for: on Linux every device of the kind, elsewhere  *)
(* those that can be opened.                                               *)
Available ==
  {d \in Devices : /\ Present(d) /\ kindOf[d] = Kind
                   /\ System # "linux" => holder[d] = Nobody}

(* A thread's next step, the number of rounds and the index, the key and   *)
(* the device it is about, whether an exception is pending, the result.    *)
Idle == [pc |-> "idle", count |-> 0, i |-> 0, key |-> -1, device |-> Nothing,
         pending |-> FALSE, list |-> <<>>]

Pcs == {"idle", "next", "component", "guid", "probe", "name", "close", "stat",
        "kind", "returned"}

Listed(t) == {frame[t].list[j] : j \in 1 .. Len(frame[t].list)}

TypeOK ==
  /\ listing \in Listings /\ kindOf \in Kinds
  /\ place \in [Slots -> Devices \cup {Nothing}]
  /\ holder \in [Devices -> Threads \cup {User, Nobody}]
  /\ \A t \in Threads :
       /\ frame[t].pc \in Pcs
       /\ frame[t].count \in 0 .. Cardinality(Slots)
       /\ frame[t].i \in 0 .. frame[t].count
       /\ frame[t].key \in Slots \cup {-1}
       /\ frame[t].device \in Devices \cup {Nothing}
       /\ Listed(t) \subseteq Devices
  /\ seen \in [Watched -> SUBSET Devices]
  /\ due \in [Watched -> SUBSET Devices]
  /\ failed \in [Watched -> SUBSET Devices]
  /\ mistaken \in [Watched -> SUBSET Devices]

Init ==
  /\ listing \in Listings /\ kindOf \in Kinds
  /\ place \in [Slots -> Devices \cup {Nothing}]
  /\ \A d \in Devices : Cardinality({k \in Slots : place[k] = d}) = 1
  /\ holder = [d \in Devices |-> Nobody]
  /\ frame = [t \in Threads |-> Idle]
  /\ seen = [t \in Watched |-> {}]
  /\ due = [t \in Watched |-> {}]
  /\ failed = [t \in Watched |-> {}]
  /\ mistaken = [t \in Watched |-> {}]
  /\ came = {}

At(t, step) == frame[t].pc = step

Goto(t, next) == frame' = [frame EXCEPT ![t].pc = next]

-----------------------------------------------------------------------------
(* The system and other users of it.                                       *)

Open(d) ==
  /\ System # "linux"
  /\ Present(d) /\ IsTunTap(d) /\ holder[d] = Nobody
  /\ holder' = [holder EXCEPT ![d] = User]
  /\ UNCHANGED <<machine, place, frame>>

Close(d) ==
  /\ holder[d] = User
  /\ holder' = [holder EXCEPT ![d] = Nobody]
  /\ UNCHANGED <<machine, place, frame>>

Install(d, k) ==
  /\ System # "macos"
  /\ ~Present(d) /\ place[k] = Nothing
  /\ place' = [place EXCEPT ![k] = d]
  /\ UNCHANGED <<machine, holder, frame>>

Remove(k) ==
  /\ System # "macos"
  /\ place[k] # Nothing /\ holder[place[k]] = Nobody
  /\ place' = [place EXCEPT ![k] = Nothing]
  /\ UNCHANGED <<machine, holder, frame>>

-----------------------------------------------------------------------------
(* A call.                                                                 *)

Installed == {k \in Slots : place[k] # Nothing}

RoundsButLast ==
  Cardinality(IF System = "windows" THEN Installed ELSE Slots) - 1

(* How many rounds the loop makes: for Windows the number of keys at this  *)
(* moment.                                                                 *)
Rounds == Cardinality(IF System = "windows" THEN Installed ELSE Slots)

CallList(t) ==
  /\ t \in Listers[System]
  /\ At(t, "idle")
  /\ frame' = [frame EXCEPT ![t] =
                 [Idle EXCEPT !.pc = "next", !.count = Rounds]]
  /\ UNCHANGED <<machine, place, holder>>

(* There is nothing to go through: on Windows the list is empty, on Linux  *)
(* an exception says so.                                                   *)
ListFails(t) ==
  /\ t \in Listers[System] /\ System # "macos"
  /\ At(t, "idle")
  /\ frame' = [frame EXCEPT ![t] =
                 [Idle EXCEPT !.pc = "returned", !.pending = System = "linux"]]
  /\ UNCHANGED <<machine, place, holder>>

AdvanceTwice(f) == [f EXCEPT !.pc = "next", !.i = @ + 2]

(* The next round                                                          *)
Advance(f) == [f EXCEPT !.pc = "next", !.i = @ + 1, !.device = Nothing]

Skip(t) ==
  /\ frame' = [frame EXCEPT ![t] = Advance(@)]
  /\ UNCHANGED <<machine, place, holder>>

Add(f, d) == [f EXCEPT !.list = Append(@, d)]

(* The loop ends, on Linux also when readdir() fails.                      *)
Return(t) ==
  /\ At(t, "next")
  /\ frame[t].i = frame[t].count \/ System = "linux"
  /\ Goto(t, "returned")
  /\ UNCHANGED <<machine, place, holder>>

Leave(t) ==
  /\ At(t, "returned")
  /\ frame' = [frame EXCEPT ![t] = Idle]
  /\ UNCHANGED <<machine, place, holder>>

More(t, system) ==
  At(t, "next") /\ frame[t].i < frame[t].count /\ System = system

-----------------------------------------------------------------------------
(* macOS: each unit in turn.                                               *)

Unit(t) ==
  /\ More(t, "macos")
  /\ LET d == place[frame[t].i]
     IN IF d \in Devices /\ kindOf[d] = Kind
        THEN /\ frame' = [frame EXCEPT ![t].pc = "probe", ![t].device = d]
             /\ UNCHANGED <<machine, place, holder>>
        ELSE Skip(t)

(* Windows: RegEnumKey(i), then what its name leads to                     *)
KeyAt(i) == {k \in Installed : Cardinality({j \in Installed : j < k}) = i}

EnumKeyUnchecked(t) ==
  /\ More(t, "windows")
  /\ \E k \in IF KeyAt(frame[t].i) = {} THEN {frame[t].key}
              ELSE KeyAt(frame[t].i) :
       frame' = [frame EXCEPT ![t].pc = "component", ![t].key = k]
  /\ UNCHANGED <<machine, place, holder>>

EnumKey(t) ==
  /\ More(t, "windows")
  /\ \/ /\ \E k \in KeyAt(frame[t].i) :
             frame' = [frame EXCEPT ![t].pc = "component", ![t].key = k]
        /\ UNCHANGED <<machine, place, holder>>
     \/ KeyAt(frame[t].i) = {} /\ Skip(t)

(* The key is there and its name does not come.                            *)
EnumKeyFails(t) == More(t, "windows") /\ Skip(t)

Named(t) == IF frame[t].key \in Slots THEN place[frame[t].key] ELSE Nothing

(* RegGetValue(name, "ComponentId") is "tap0901".                          *)
ReadComponent(t) ==
  /\ At(t, "component")
  /\ IF Named(t) \in Devices /\ kindOf[Named(t)] = "tap"
     THEN Goto(t, "guid") /\ UNCHANGED <<machine, place, holder>>
     ELSE Skip(t)

(* RegGetValue(name, "NetCfgInstanceId"), of whatever has the name now     *)
ReadGuid(t) ==
  /\ At(t, "guid")
  /\ IF Named(t) \in Devices
     THEN /\ frame' = [frame EXCEPT ![t].pc = "probe", ![t].device = Named(t)]
          /\ UNCHANGED <<machine, place, holder>>
     ELSE Skip(t)

(* The key is there and its value does not come.                           *)
GetValueFails(t) == (At(t, "component") \/ At(t, "guid")) /\ Skip(t)

CanTake(d) == Present(d) /\ kindOf[d] = Kind /\ holder[d] = Nobody

(* connect(), open() or CreateFile(), of which each is exclusive: macOS    *)
(* goes on to ask for a TUN's name, Windows adds the GUID it has.          *)
Probe(t) ==
  LET d == frame[t].device
  IN /\ At(t, "probe") /\ CanTake(d)
     /\ holder' = [holder EXCEPT ![d] = t]
     /\ frame' = [frame EXCEPT ![t] =
                    CASE System = "windows" -> [Add(@, d) EXCEPT !.pc = "close"]
                      [] Kind = "tun" -> [@ EXCEPT !.pc = "name"]
                      [] OTHER -> [@ EXCEPT !.pc = "close"]]
     /\ UNCHANGED <<machine, place>>

ProbeFailsUnchecked(t) ==
  /\ At(t, "probe")
  /\ frame' = [frame EXCEPT ![t] = Add(Advance(@), frame[t].device)]
  /\ UNCHANGED <<machine, place, holder>>

(* The device is taken, or there is no descriptor to be had.  Nobody is    *)
(* told.                                                                   *)
ProbeFails(t) == At(t, "probe") /\ Skip(t)

(* getsockopt(fd, UTUN_OPT_IFNAME)                                         *)
AskName(t) ==
  /\ At(t, "name")
  /\ frame' = [frame EXCEPT ![t] =
                 [Add(@, frame[t].device) EXCEPT !.pc = "close"]]
  /\ UNCHANGED <<machine, place, holder>>

AskNameFailsOpen(t) == At(t, "name") /\ Skip(t)

AskNameFails(t) ==
  /\ At(t, "name") /\ Goto(t, "close")
  /\ UNCHANGED <<machine, place, holder>>

(* close() or CloseHandle(); the library of macOS adds a TAP after it.     *)
CloseProbe(t) ==
  LET d == frame[t].device
  IN /\ At(t, "close")
     /\ holder' = [holder EXCEPT ![d] = Nobody]
     /\ frame' = [frame EXCEPT ![t] =
                    IF listing = <<"macos", "tap">>
                    THEN Add(Advance(@), d) ELSE Advance(@)]
     /\ UNCHANGED <<machine, place>>

-----------------------------------------------------------------------------
(* Linux: readdir(), stat() and fopen()                                    *)

ReadDir(t) ==
  /\ More(t, "linux")
  /\ LET d == place[frame[t].i]
     IN IF d \in Devices
        THEN /\ frame' = [frame EXCEPT ![t].pc = "stat", ![t].device = d]
             /\ UNCHANGED <<machine, place, holder>>
        ELSE Skip(t)

(* The process ends with all that it has open.                             *)
Die ==
  /\ frame' = [t \in Threads |-> Idle]
  /\ holder' = [d \in Devices |-> Nobody]
  /\ UNCHANGED <<machine, place>>

(* tmp2 = concat(tmp2, "/tun_flags"): the old value of tmp2 is anything.   *)
(* It may happen to be the directory of a tun device, this one or another; *)
(* it may be a string that no file is named after, or no string at all.    *)
Stat(t) ==
  /\ At(t, "stat")
  /\ \/ Goto(t, "kind") /\ UNCHANGED <<machine, place, holder>>
     \/ Skip(t)
     \/ Die

ReadAnyKind(t) ==
  LET d == frame[t].device
  IN /\ At(t, "kind") /\ Present(d)
     /\ frame' = [frame EXCEPT ![t] = Add(Advance(@), d)]
     /\ UNCHANGED <<machine, place, holder>>

(* How addr_len begins: ordinary interfaces have addresses, too.           *)
AddressLength == [tun |-> "0", ppp |-> "0", tap |-> "6", ether |-> "6"]

LooksRight(d) == AddressLength[kindOf[d]] = AddressLength[Kind]

(* fgetc() is as for a device of the kind, or is not, or fails.  To call   *)
(* the list with an exception pending may end the process.                 *)
ReadKind(t) ==
  LET d == frame[t].device
  IN /\ At(t, "kind") /\ Present(d)
     /\ \/ /\ LooksRight(d)
           /\ frame' = [frame EXCEPT ![t] = Add(Advance(@), d)]
           /\ UNCHANGED <<machine, place, holder>>
        \/ LooksRight(d) /\ frame[t].pending /\ Die
        \/ Skip(t)

(* fopen() fails, because the device has gone or for another reason: an    *)
(* exception, and on with the loop                                         *)
KindUnknown(t) ==
  /\ At(t, "kind")
  /\ \/ /\ frame' = [frame EXCEPT ![t] = [Advance(@) EXCEPT !.pending = TRUE]]
        /\ UNCHANGED <<machine, place, holder>>
     \/ frame[t].pending /\ Die

-----------------------------------------------------------------------------

Step(t) ==
  \/ CallList(t) \/ ListFails(t) \/ Return(t) \/ Leave(t)
  \/ Unit(t) \/ EnumKey(t) \/ EnumKeyFails(t)
  \/ ReadComponent(t) \/ ReadGuid(t) \/ GetValueFails(t)
  \/ Probe(t) \/ ProbeFails(t) \/ AskName(t) \/ AskNameFails(t) \/ CloseProbe(t)
  \/ ReadDir(t) \/ Stat(t) \/ ReadKind(t) \/ KindUnknown(t)

Others ==
  \/ \E d \in Devices : Open(d) \/ Close(d)
  \/ \E k \in Slots : Remove(k) \/ \E d \in Devices : Install(d, k)

(* What an onlooker remembers of each call.                                *)
Calling(t) == frame[t].pc # "idle"

(* The devices that are left out because a query of the step fails         *)
Missed(t) ==
  {d \in Devices :
     \/ ListFails(t)
     \/ \E k \in KeyAt(frame[t].i) : EnumKeyFails(t) /\ d = place[k]
     \/ GetValueFails(t) /\ d = Named(t)
     \/ ProbeFails(t) /\ d = frame[t].device /\ CanTake(d)
     \/ AskNameFails(t) /\ d = frame[t].device}

(* The device that stat() makes a tun device of                            *)
TakenForTun(t) ==
  {d \in Devices : /\ Stat(t) /\ At(t, "kind")' /\ d = frame[t].device
                   /\ ~(Present(d) /\ IsTunTap(d))}

Observe ==
  /\ seen' = [t \in Watched |->
                IF Calling(t)' THEN seen[t] \cup Available' ELSE {}]
  /\ due' = [t \in Watched |->
               IF ~Calling(t)' THEN {}
               ELSE IF ~Calling(t) THEN Available
               ELSE IF System = "windows" /\ place' # place THEN {}
               ELSE {d \in due[t] : Present(d)' /\ holder'[d] \in {Nobody, t}}]
  /\ failed' = [t \in Watched |->
                  IF Calling(t)' THEN failed[t] \cup Missed(t) ELSE {}]
  /\ mistaken' = [t \in Watched |->
                    IF Calling(t)' THEN mistaken[t] \cup TakenForTun(t)
                    ELSE {}]
  /\ came' = {t \in Watched :
                /\ Calling(t)'
                /\ t \in came \/ \E d \in Devices : Present(d)' /\ ~Present(d)}

Next == ((\E t \in Threads : Step(t)) \/ Others) /\ Observe

Spec == Init /\ [][Next]_vars

-----------------------------------------------------------------------------
(* Properties                                                              *)

(* What is listed was to be had at some moment of the call: on macOS and   *)
(* Windows it was free, on Linux there was a device of the kind.  Only for *)
(* a device that was no tun device when stat() said so, which the bad path *)
(* may make it say, there is no more than the length of its addresses.     *)
ListedWasAvailable ==
  \A t \in Watched :
    Listed(t) \subseteq seen[t] \cup {d \in mistaken[t] : LooksRight(d)}

(* On macOS and Windows a device that nobody else took, not even another   *)
(* lister for its probe, is in the list at the end, unless a query about   *)
(* it failed or keys moved in the registry.                                *)
FreeIsListed ==
  \A t \in Watched :
    At(t, "returned") /\ System # "linux" =>
      due[t] \subseteq Listed(t) \cup failed[t]

(* No device is listed twice, not even when others are removed meanwhile;  *)
(* one that is installed may push its successors ahead of the walk.        *)
ListedOnce ==
  \A t \in Watched :
    t \in came \/ Len(frame[t].list) = Cardinality(Listed(t))

(* Listing leaves no device open: a lister holds the one it is probing     *)
(* and no other, whichever of its calls fails.                             *)
ProbesLeaveNoTrace ==
  \A d \in Devices, t \in Threads :
    holder[d] = t => frame[t].device = d /\ (At(t, "name") \/ At(t, "close"))

==============================================================================
