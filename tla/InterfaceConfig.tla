---------------------------- MODULE InterfaceConfig ----------------------------
(***************************************************************************)
(* Configuring an interface on Linux and macOS: setStatus(), getMTU(),     *)
(* setMTU(), getIPAddress(), setIPAddress(), getMACAddress() and           *)
(* setMACAddress().  Each native function fills a struct ifreq with a name *)
(* and makes one or two ioctls on a socket of its own.  The kernel looks   *)
(* the name up anew for each of them.  On Linux it is the name the device  *)
(* was given, cut to IFNAMSIZ as TUNSETIFF cuts it.  On macOS it is the    *)
(* name that a list of the open utun sockets has for the number in         *)
(* deviceHandle, which close() leaves there, and the name the device was   *)
(* given when the list does not have the number.                           *)
(*                                                                         *)
(* open() and close() are single steps here (LinuxLifecycle and            *)
(* MacLifecycle have their detail): one makes an interface, with fresh     *)
(* settings, the other takes it away.                                      *)
(***************************************************************************)
EXTENDS Integers

CONSTANTS
  Platforms,     \* some of "linux" and "macos"
  Objects,
  Threads,
  Interfaces,    \* the names interfaces may have
  DeviceNames,   \* those and the other names devices are given
  NameOf,        \* NameOf[o]: the deviceName of o
  Cut,           \* Cut[n]: what strncpy(.., n, IFNAMSIZ) puts into an ifreq
  Grants,        \* Grants[n]: the interfaces TUNSETIFF may make of n, Linux
  Connects,      \* Connects[n]: the units that a name n may lead to, macOS
  Numbers,       \* descriptor numbers
  NoHandle,      \* the deviceHandle of a device never opened, -1
  Taps,          \* the objects of class TapDevice
  Tap0,          \* the interface getMACAddress() of macOS asks about
  Calls,         \* the methods clients call
  ClosedCalls,   \* ClosedCalls[p]: those that clients of p also call on
                 \* devices that are not open
  SerialCalls,   \* SerialCalls[p]: the methods that clients of p do not
                 \* overlap with each other, open() and close() on one object
  AloneCalls,    \* AloneCalls[p]: the methods that clients of p do not
                 \* overlap with themselves, not even on two objects
  Mtus, Macs,
  Addresses, Masks,
  ClassMask,     \* the mask that comes with an address
  Zero,          \* 0.0.0.0
  Strings,       \* Strings[p]: what clients of p pass for addresses and
                 \* masks, and
  Unparsed,      \* a string inet_pton() rejects
  Shared,        \* the buffer all threads share
  NoInterface, NoObject, None, Threw, Done

Methods == {"setStatus", "getMTU", "setMTU", "getIP", "setIP", "getMAC",
            "setMAC"}

ASSUME ConfigAssumption ==
  /\ Platforms \subseteq {"linux", "macos"}
  /\ Interfaces \subseteq DeviceNames
  /\ NameOf \in [Objects -> DeviceNames]
  /\ Cut \in [DeviceNames -> DeviceNames] /\ \A i \in Interfaces : Cut[i] = i
  /\ Grants \in [DeviceNames -> SUBSET Interfaces]
  /\ Connects \in [DeviceNames -> SUBSET Interfaces]
  /\ NoHandle \notin Numbers
  /\ Taps \subseteq Objects
  /\ Tap0 \in Interfaces
  /\ Calls \subseteq Methods
  /\ ClosedCalls \in [Platforms -> SUBSET Methods]
  /\ SerialCalls \in [Platforms -> SUBSET Methods]
  /\ AloneCalls \in [Platforms -> SUBSET Methods]
  /\ Shared \notin Threads
  /\ NoInterface \notin DeviceNames /\ NoObject \notin Objects
  /\ Zero \notin Addresses \cup Masks
  /\ Unparsed \notin Addresses \cup Masks \cup {Zero}
  /\ Strings \in [Platforms -> SUBSET (Addresses \cup Masks \cup {Unparsed})]
  /\ ClassMask \in Masks
  /\ Done # None /\ Done # Threw

VARIABLES
  platform,  \* the library in use, the same from start to end
  conf,      \* conf[i]: the settings of interface i, NoInterface if it is gone
  bound,     \* bound[o]: the interface o's open() got and close() did not end
  handle,    \* handle[o]: its deviceHandle, which close() does not reset
  list,      \* list[n]: the ifName of the utunDevice whose fd is n
  pc,        \* pc[t]: the next step of thread t
  obj,       \* obj[t], method[t], args[t]: the call it executes
  method,
  args,
  ifr,       \* ifr[t]: the struct ifreq, a name and a union
  buffer,    \* buffer[b]: what inet_ntoa() has put into b
  text,      \* text[t]: the address getIPAddress() has copied from there
  result,    \* result[t]: what the method returns
  misled     \* history: misled[t] are the open devices whose number the
             \* closed device of t's call still had when the call began

devices == <<platform, bound, handle, list>>
call == <<obj, method, args, misled>>
frame == <<call, ifr, text, buffer>>
vars == <<devices, conf, pc, frame, result>>

-----------------------------------------------------------------------------
(* The kernel: the settings of an interface and the ioctls on them.        *)

Flags == {"up", "other"}

Settings == [flags : SUBSET Flags, mtu : Mtus, mac : Macs,
             addr : Addresses \cup {Zero},
             mask : Addresses \cup Masks \cup {Zero}]

ASSUME NoInterfaceAssumption == NoInterface \notin Settings

Fresh(s) == "up" \notin s.flags /\ s.addr = Zero /\ s.mask = Zero

Exists(i) == i \in Interfaces /\ conf[i] # NoInterface

(* A new address keeps the mask or brings that of its class, which differs *)
(* between kernels; a zero address takes address and mask away.            *)
WithAddress(s, a) ==
  {[s EXCEPT !.addr = a, !.mask = m] :
     m \in IF a = Zero THEN {Zero}
           ELSE {ClassMask} \cup ({s.mask} \ {Zero})}

(* Asking an interface without address is EADDRNOTAVAIL.                   *)
HasAddress(s) == s.addr # Zero

(* A mask needs an address, and Linux wants it to be a mask.               *)
TakesMask(s, m) ==
  /\ HasAddress(s)
  /\ platform = "linux" => m \in Masks

-----------------------------------------------------------------------------
(* Strings and names.                                                      *)

(* inet_pton(string, &addr->sin_addr): what it cannot parse leaves the     *)
(* union as it was, and the result of the call is not looked at.           *)
Parse(string, union) == IF string = Unparsed THEN union ELSE string

SharedBuffer(t) == Shared

(* Where inet_ntoa() writes: glibc has a buffer for each thread.           *)
BufferOf(t) == IF platform = "linux" THEN t ELSE Shared

UncutTarget(o) == NameOf[o]

(* ifr_name: the device name, as much as fits                              *)
LinuxTarget(o) == Cut[NameOf[o]]

Listed(n) == n \in Numbers /\ list[n] # NoInterface

(* getDeviceName(deviceHandle), or the name when the list has no such      *)
(* number                                                                  *)
MacTarget(o) ==
  Cut[IF Listed(handle[o]) THEN list[handle[o]] ELSE NameOf[o]]

Target(o) == IF platform = "linux" THEN LinuxTarget(o) ELSE MacTarget(o)

(* if_nametoindex("tap0") on macOS, and the name elsewhere                 *)
MacAddressTarget(o) == IF platform = "linux" THEN LinuxTarget(o) ELSE Tap0

(* setMACAddress() does not consult the list.                              *)
SetMacTarget(o) == Cut[NameOf[o]]

-----------------------------------------------------------------------------

Pcs == {"idle", "getFlags", "setFlags", "getMtu", "setMtu", "getAddr",
        "getMask", "copyAddr", "copyMask", "setAddr", "setMask", "getMac",
        "setMac", "returned"}

Union == Mtus \cup Macs \cup Addresses \cup Masks \cup {Zero, None}
         \cup SUBSET Flags

TypeOK ==
  /\ platform \in Platforms
  /\ conf \in [Interfaces -> Settings \cup {NoInterface}]
  /\ bound \in [Objects -> Interfaces \cup {NoInterface}]
  /\ handle \in [Objects -> Numbers \cup {NoHandle}]
  /\ list \in [Numbers -> Interfaces \cup {NoInterface}]
  /\ pc \in [Threads -> Pcs]
  /\ obj \in [Threads -> Objects \cup {NoObject}]
  /\ \A t \in Threads :
       /\ ifr[t].name \in DeviceNames \cup {NoInterface}
       /\ ifr[t].union \in Union
       /\ text[t] \in Addresses \cup Masks \cup {Zero, None}
  /\ buffer \in [Threads \cup {Shared} -> Addresses \cup Masks \cup {Zero, None}]
  /\ misled \in [Threads -> SUBSET Objects]

Empty == [name |-> NoInterface, union |-> None]

Init ==
  /\ platform \in Platforms
  /\ conf = [i \in Interfaces |-> NoInterface]
  /\ bound = [o \in Objects |-> NoInterface]
  /\ handle = [o \in Objects |-> NoHandle]
  /\ list = [n \in Numbers |-> NoInterface]
  /\ pc = [t \in Threads |-> "idle"]
  /\ obj = [t \in Threads |-> NoObject]
  /\ method = [t \in Threads |-> None]
  /\ args = [t \in Threads |-> None]
  /\ ifr = [t \in Threads |-> Empty]
  /\ text = [t \in Threads |-> None]
  /\ buffer = [b \in Threads \cup {Shared} |-> None]
  /\ result = [t \in Threads |-> None]
  /\ misled = [t \in Threads |-> {}]

InUse(o) ==
  \E t \in Threads : obj[t] = o /\ method[t] \in SerialCalls[platform]

IsOpen(o) == bound[o] # NoInterface

(* TUNSETIFF, /dev/<name>, or the unit atoi(name + 4) of a utun            *)
Creates(p, o) ==
  IF p = "linux" THEN Grants[Cut[NameOf[o]]]
  ELSE IF o \in Taps THEN {NameOf[o]} \cap Interfaces
  ELSE Connects[NameOf[o]]

(* What the list has for the number of o: only utuns are in it.            *)
Entry(o, i) == IF platform = "macos" /\ o \notin Taps THEN i ELSE NoInterface

(* open(): an interface of the object's name that does not exist yet, and  *)
(* a number that no open device has                                        *)
Open(o) ==
  /\ ~InUse(o)
  /\ ~IsOpen(o)
  /\ \E i \in Creates(platform, o), s \in Settings, n \in Numbers :
       /\ ~Exists(i)
       /\ Fresh(s)
       /\ \A q \in Objects : IsOpen(q) => handle[q] # n
       /\ conf' = [conf EXCEPT ![i] = s]
       /\ bound' = [bound EXCEPT ![o] = i]
       /\ handle' = [handle EXCEPT ![o] = n]
       /\ list' = [list EXCEPT ![n] = IF Entry(o, i) = NoInterface THEN @
                                      ELSE Entry(o, i)]
  /\ UNCHANGED <<platform, pc, frame, result>>

(* The interface goes with its descriptor; deviceHandle stays.             *)
Release(o) ==
  /\ ~InUse(o)
  /\ IsOpen(o)
  /\ conf' = [conf EXCEPT ![bound[o]] = NoInterface]
  /\ bound' = [bound EXCEPT ![o] = NoInterface]
  /\ UNCHANGED <<platform, handle, pc, frame, result>>

CloseKeepingEntry(o) == Release(o) /\ UNCHANGED list

(* close(): delete(deviceHandle), and the descriptor                       *)
Close(o) ==
  /\ Release(o)
  /\ list' = [list EXCEPT ![handle[o]] = NoInterface]

-----------------------------------------------------------------------------
(* A call: getDeviceName(), GetStringUTFChars, the ifreq and socket(); a   *)
(* socket() that fails throws and leaves everything as it was.  The device *)
(* may be closed.                                                          *)

(* The open utuns whose number a closed o still has in deviceHandle        *)
NumberTaken(o) ==
  {q \in Objects \ Taps : /\ platform = "macos"
                          /\ ~IsOpen(o) /\ IsOpen(q)
                          /\ handle[q] = handle[o]}

Begin(t, o, what, first, name, union, arg) ==
  /\ what \in Calls
  /\ IsOpen(o) \/ what \in ClosedCalls[platform]
  /\ pc[t] = "idle"
  /\ what \in SerialCalls[platform] => ~InUse(o)
  /\ what \in AloneCalls[platform] => \A u \in Threads : method[u] # what
  /\ pc' = [pc EXCEPT ![t] = first]
  /\ obj' = [obj EXCEPT ![t] = o]
  /\ method' = [method EXCEPT ![t] = what]
  /\ args' = [args EXCEPT ![t] = arg]
  /\ ifr' = [ifr EXCEPT ![t] = [name |-> name, union |-> union]]
  /\ misled' = [misled EXCEPT ![t] = NumberTaken(o)]
  /\ UNCHANGED <<devices, conf, text, buffer, result>>

SetStatus(t, o) ==
  \E isUp \in BOOLEAN :
    Begin(t, o, "setStatus", "getFlags", Target(o), None, isUp)

GetMTU(t, o) == Begin(t, o, "getMTU", "getMtu", Target(o), None, None)

SetMTU(t, o) ==
  \E m \in Mtus : Begin(t, o, "setMTU", "setMtu", Target(o), m, None)

GetIPAddress(t, o) == Begin(t, o, "getIP", "getAddr", Target(o), None, None)

(* The first inet_pton() precedes the first ioctl.                         *)
SetIPAddress(t, o) ==
  \E a \in Strings[platform] \ Masks, m \in Strings[platform] \ Addresses :
    Begin(t, o, "setIP", "setAddr", Target(o), Parse(a, Zero), <<a, m>>)

(* TUN devices throw UnsupportedOperationException before the native call. *)
GetMACAddress(t, o) ==
  /\ o \in Taps
  /\ Begin(t, o, "getMAC", "getMac", MacAddressTarget(o), None, None)

SetMACAddress(t, o) ==
  /\ o \in Taps
  /\ \E m \in Macs : Begin(t, o, "setMAC", "setMac", SetMacTarget(o), m, None)

-----------------------------------------------------------------------------
(* The steps of the native functions.  An ioctl may fail for reasons of    *)
(* its own and does when there is no such interface; the function then     *)
(* closes its socket and throws.                                           *)

At(t, step) == pc[t] = step

Goto(t, step) == pc' = [pc EXCEPT ![t] = step]

Finish(t, r) ==
  /\ Goto(t, "returned")
  /\ result' = [result EXCEPT ![t] = r]

Fail(t) ==
  /\ pc[t] \in {"getFlags", "setFlags", "getMtu", "setMtu", "getAddr",
                "getMask", "setAddr", "setMask", "getMac", "setMac"}
  /\ Finish(t, Threw)
  /\ UNCHANGED <<devices, conf, frame>>

(* An ioctl that asks: the answer goes into the union.                     *)
Ask(t, field) ==
  /\ Exists(ifr[t].name)
  /\ ifr' = [ifr EXCEPT ![t].union = conf[ifr[t].name][field]]
  /\ UNCHANGED <<devices, conf, call, text, buffer>>

(* An ioctl that sets: the settings of the interface become s.             *)
Tell(t, s) ==
  /\ conf' = [conf EXCEPT ![ifr[t].name] = s]
  /\ UNCHANGED <<devices, call, text, buffer>>

Current(t) == conf[ifr[t].name]

(* setStatus(): read, modify ...                                           *)
GetFlags(t) ==
  /\ At(t, "getFlags")
  /\ Ask(t, "flags")
  /\ Goto(t, "setFlags")
  /\ UNCHANGED result

SetFlagsAfresh(t) ==
  /\ At(t, "setFlags")
  /\ Exists(ifr[t].name)
  /\ Tell(t, [Current(t) EXCEPT !.flags = IF args[t] THEN {"up"} ELSE {}])
  /\ UNCHANGED ifr
  /\ Finish(t, Done)

(* ... write                                                               *)
SetFlags(t) ==
  /\ At(t, "setFlags")
  /\ Exists(ifr[t].name)
  /\ Tell(t, [Current(t) EXCEPT !.flags = IF args[t]
                                          THEN ifr[t].union \cup {"up"}
                                          ELSE ifr[t].union \ {"up"}])
  /\ UNCHANGED ifr
  /\ Finish(t, Done)

GetMtu(t) ==
  /\ At(t, "getMtu")
  /\ Ask(t, "mtu")
  /\ Finish(t, Done)

SetMtu(t) ==
  /\ At(t, "setMtu")
  /\ Exists(ifr[t].name)
  /\ Tell(t, [Current(t) EXCEPT !.mtu = ifr[t].union])
  /\ UNCHANGED ifr
  /\ Finish(t, Done)

(* getIPAddress(): two questions into one ifreq, and for each the answer   *)
(* put into words by inet_ntoa(), which has a buffer for it, and copied    *)
(* from the buffer by concat()                                             *)
AskInWords(t, field) ==
  /\ Exists(ifr[t].name)
  /\ HasAddress(Current(t))
  /\ ifr' = [ifr EXCEPT ![t].union = Current(t)[field]]
  /\ buffer' = [buffer EXCEPT ![BufferOf(t)] = Current(t)[field]]
  /\ UNCHANGED <<devices, conf, call, text, result>>

GetAddr(t) ==
  /\ At(t, "getAddr") /\ Goto(t, "copyAddr")
  /\ AskInWords(t, "addr")

CopyAddr(t) ==
  /\ At(t, "copyAddr") /\ Goto(t, "getMask")
  /\ text' = [text EXCEPT ![t] = buffer[BufferOf(t)]]
  /\ UNCHANGED <<devices, conf, call, ifr, buffer, result>>

GetMask(t) ==
  /\ At(t, "getMask") /\ Goto(t, "copyMask")
  /\ AskInWords(t, "mask")

CopyMask(t) ==
  /\ At(t, "copyMask")
  /\ Finish(t, <<text[t], buffer[BufferOf(t)]>>)
  /\ UNCHANGED <<devices, conf, frame>>

SetAddrUnchecked(t) ==
  /\ At(t, "setAddr")
  /\ Exists(ifr[t].name)
  /\ \E s \in WithAddress(Current(t), ifr[t].union) \cup {Current(t)} :
       Tell(t, s)
  /\ ifr' = [ifr EXCEPT ![t].union = Parse(args[t][2], @)]
  /\ Goto(t, "setMask")
  /\ UNCHANGED result

(* setIPAddress(): the address ...                                         *)
SetAddr(t) ==
  /\ At(t, "setAddr")
  /\ Exists(ifr[t].name)
  /\ \E s \in WithAddress(Current(t), ifr[t].union) : Tell(t, s)
  /\ ifr' = [ifr EXCEPT ![t].union = Parse(args[t][2], @)]
  /\ Goto(t, "setMask")
  /\ UNCHANGED result

(* ... and then the mask                                                   *)
SetMask(t) ==
  /\ At(t, "setMask")
  /\ Exists(ifr[t].name)
  /\ TakesMask(Current(t), ifr[t].union)
  /\ Tell(t, [Current(t) EXCEPT !.mask = ifr[t].union])
  /\ UNCHANGED ifr
  /\ Finish(t, Done)

(* On macOS getMACAddress() asks for the interfaces of index              *)
(* if_nametoindex(name), which is 0 for a name nobody has and stands for   *)
(* all of them: the answer is the first one's, whoever that is.            *)
AskFirst(t) ==
  /\ platform = "macos"
  /\ ~Exists(ifr[t].name)
  /\ \E m \in Macs : ifr' = [ifr EXCEPT ![t].union = m]
  /\ UNCHANGED <<devices, conf, call, text, buffer>>

GetMac(t) ==
  /\ At(t, "getMac")
  /\ Ask(t, "mac") \/ AskFirst(t)
  /\ Finish(t, Done)

SetMacIntoMtu(t) ==
  /\ At(t, "setMac")
  /\ Exists(ifr[t].name)
  /\ Tell(t, [Current(t) EXCEPT !.mtu = ifr[t].union])
  /\ UNCHANGED ifr
  /\ Finish(t, Done)

SetMac(t) ==
  /\ At(t, "setMac")
  /\ Exists(ifr[t].name)
  /\ Tell(t, [Current(t) EXCEPT !.mac = ifr[t].union])
  /\ UNCHANGED ifr
  /\ Finish(t, Done)

(* The method returns, or throws, and its frame goes; what a buffer of its *)
(* own holds is of no use to anyone.                                       *)
Return(t) ==
  /\ At(t, "returned")
  /\ Goto(t, "idle")
  /\ obj' = [obj EXCEPT ![t] = NoObject]
  /\ method' = [method EXCEPT ![t] = None]
  /\ args' = [args EXCEPT ![t] = None]
  /\ ifr' = [ifr EXCEPT ![t] = Empty]
  /\ text' = [text EXCEPT ![t] = None]
  /\ buffer' = [buffer EXCEPT ![t] = None]
  /\ result' = [result EXCEPT ![t] = None]
  /\ misled' = [misled EXCEPT ![t] = {}]
  /\ UNCHANGED <<devices, conf>>

-----------------------------------------------------------------------------

Call(t, o) ==
  \/ SetStatus(t, o)
  \/ GetMTU(t, o)
  \/ SetMTU(t, o)
  \/ GetIPAddress(t, o)
  \/ SetIPAddress(t, o)
  \/ GetMACAddress(t, o)
  \/ SetMACAddress(t, o)

Step(t) ==
  \/ Fail(t)
  \/ GetFlags(t)
  \/ SetFlags(t)
  \/ GetMtu(t)
  \/ SetMtu(t)
  \/ GetAddr(t)
  \/ CopyAddr(t)
  \/ GetMask(t)
  \/ CopyMask(t)
  \/ SetAddr(t)
  \/ SetMask(t)
  \/ GetMac(t)
  \/ SetMac(t)
  \/ Return(t)

Next ==
  \/ \E o \in Objects : Open(o) \/ Close(o)
  \/ \E t \in Threads, o \in Objects : Call(t, o)
  \/ \E t \in Threads : Step(t)

Spec == Init /\ [][Next]_vars

-----------------------------------------------------------------------------
(* Properties                                                              *)

(* A configuration call on an open device is about the interface its own   *)
(* open() got: though the name was cut or is no interface's, and though    *)
(* the number of the device was another's before.                          *)
ConfigReachesOwnInterface ==
  \A t \in Threads :
    pc[t] # "idle" /\ IsOpen(obj[t]) => ifr[t].name = bound[obj[t]]

(* While a device is open the settings of its interface change in calls on *)
(* this device only, not in those on another: except in a call on a closed *)
(* device, on macOS, that kept the number which this device, a TUN, had    *)
(* got when the call began.                                                *)
SettingsAreIsolated ==
  [][\A o \in Objects :
       LET i == bound[o]
       IN IsOpen(o) /\ bound'[o] = i /\ conf'[i] # conf[i] =>
            \E t \in Threads :
              (obj[t] = o \/ o \in misled[t]) /\ pc'[t] # pc[t]]_vars

(* setStatus() of either value leaves the other flags of the interface as  *)
(* they are.                                                               *)
StatusKeepsOtherFlags ==
  [][\A i \in Interfaces :
       Exists(i) /\ conf'[i] # NoInterface =>
         conf'[i].flags \ {"up"} = conf[i].flags \ {"up"}]_vars

(* A setIPAddress() that does not throw leaves the interface with the      *)
(* address and the mask it was given.                                      *)
SetIPTakesEffect ==
  \A t \in Threads :
    method[t] = "setIP" /\ result[t] = Done =>
      <<Current(t).addr, Current(t).mask>> = args[t]

(* getIPAddress() answers an address and a mask its own interface has at   *)
(* one moment, not halves of different answers and not what another thread *)
(* had put into words.                                                     *)
GetIPIsWhole ==
  \A t \in Threads :
    method[t] = "getIP" /\ pc[t] = "returned" /\ result[t] # Threw =>
      result[t] = <<Current(t).addr, Current(t).mask>>

==============================================================================
