------------------------- MODULE InterfaceConfigProofs -------------------------
(***************************************************************************)
(* Theorems about InterfaceConfig, for any numbers of objects, threads,    *)
(* interfaces and settings.  What they ask of the clients is stated first; *)
(* each theorem names what it needs.                                       *)
(***************************************************************************)
EXTENDS InterfaceConfig, TLAPS

USE ConfigAssumption, NoInterfaceAssumption

-----------------------------------------------------------------------------
(* What the clients keep to                                                *)

(* On Linux a name is the name of one interface, not a pattern (tun%d).    *)
OwnName ==
  "linux" \in Platforms =>
    \A o \in Objects : Grants[Cut[NameOf[o]]] \subseteq {Cut[NameOf[o]]}

(* The names of two objects lead to different interfaces.                  *)
Apart ==
  \A p \in Platforms, o, q \in Objects :
    o # q => \A i \in Creates(p, o) :
               i \notin Creates(p, q) /\ i # Cut[NameOf[q]]

(* getMACAddress() of macOS is asked of tap0 alone.                        *)
OneTap ==
  "macos" \in Platforms /\ "getMAC" \in Calls =>
    \A o \in Taps : Creates("macos", o) \subseteq {Tap0}

SeveralIoctls == {"setStatus", "getIP", "setIP"}

(* The calls that take several ioctls have the device to themselves, on    *)
(* macOS all calls do.                                                     *)
InTurn ==
  \A p \in Platforms :
    /\ SeveralIoctls \subseteq SerialCalls[p]
    /\ p = "macos" => Methods \subseteq SerialCalls[p]

(* On macOS they are not called on closed devices.                         *)
OnOpenDevices ==
  "macos" \in Platforms => ClosedCalls["macos"] \cap SeveralIoctls = {}

(* On macOS inet_ntoa() has one buffer, and all strings are addresses.     *)
OneAnswer == "macos" \in Platforms => "getIP" \in AloneCalls["macos"]

AllParsed == "macos" \in Platforms => Unparsed \notin Strings["macos"]

-----------------------------------------------------------------------------
(* Types: a step of a call belongs to one method, and what it finds in the *)
(* union is of the kind it passes on.                                      *)

Words == Addresses \cup Masks \cup {Zero, None}

Given ==
  ((Addresses \ Masks) \cup {Unparsed}) \X ((Masks \ Addresses) \cup {Unparsed})

Ifreq == [name : DeviceNames \cup {NoInterface}, union : Union]

StepsOf ==
  [setStatus |-> {"getFlags", "setFlags"}, getMTU |-> {"getMtu"},
   setMTU |-> {"setMtu"},
   getIP |-> {"getAddr", "copyAddr", "getMask", "copyMask"},
   setIP |-> {"setAddr", "setMask"}, getMAC |-> {"getMac"},
   setMAC |-> {"setMac"}]

CallSound(t) ==
  \/ At(t, "idle") /\ obj[t] = NoObject /\ method[t] = None
  \/ /\ obj[t] \in Objects /\ method[t] \in Methods
     /\ pc[t] \in StepsOf[method[t]] \cup {"returned"}

UnionSound(t) ==
  /\ At(t, "setFlags") => ifr[t].union \in SUBSET Flags
  /\ At(t, "setMtu") => ifr[t].union \in Mtus
  /\ At(t, "setMac") => ifr[t].union \in Macs
  /\ At(t, "setAddr") => ifr[t].union \in Addresses \cup {Zero}
  /\ At(t, "setMask") => ifr[t].union \in Addresses \cup Masks \cup {Zero}
  /\ At(t, "setAddr") \/ At(t, "setMask") => args[t] \in Given

TypedSoFar ==
  /\ platform \in Platforms
  /\ conf \in [Interfaces -> Settings \cup {NoInterface}]
  /\ bound \in [Objects -> Interfaces \cup {NoInterface}]
  /\ handle \in [Objects -> Numbers \cup {NoHandle}]
  /\ list \in [Numbers -> Interfaces \cup {NoInterface}]
  /\ pc \in [Threads -> Pcs]
  /\ obj \in [Threads -> Objects \cup {NoObject}]
  /\ method \in [Threads -> Methods \cup {None}]
  /\ DOMAIN args = Threads
  /\ ifr \in [Threads -> Ifreq]
  /\ text \in [Threads -> Words]
  /\ buffer \in [Threads \cup {Shared} -> Words]
  /\ DOMAIN result = Threads
  /\ misled \in [Threads -> SUBSET Objects]
  /\ \A t \in Threads : CallSound(t) /\ UnionSound(t)

-----------------------------------------------------------------------------
(* Whose interface is whose                                                *)

BoundSound ==
  /\ \A o \in Objects : bound[o] # NoInterface =>
       bound[o] \in Creates(platform, o) /\ Exists(bound[o])
  /\ \A o, q \in Objects :
       bound[o] = bound[q] /\ bound[o] # NoInterface => o = q
  /\ \A i \in Interfaces : Exists(i) => \E o \in Objects : bound[o] = i

(* A number is one open device's, and the list has those of the open utuns.*)
ListSound ==
  /\ \A o \in Objects : IsOpen(o) => handle[o] \in Numbers
  /\ \A o, q \in Objects :
       IsOpen(o) /\ IsOpen(q) /\ handle[o] = handle[q] => o = q
  /\ \A o \in Objects \ Taps :
       platform = "macos" /\ IsOpen(o) => list[handle[o]] = bound[o]
  /\ \A n \in Numbers : list[n] # NoInterface =>
       /\ platform = "macos"
       /\ \E q \in Objects \ Taps : IsOpen(q) /\ handle[q] = n

InCall(t) == ~At(t, "idle")

(* The interface a call of method what is about                            *)
About(o, what) ==
  IF platform = "macos" /\ what = "getMAC" THEN {Tap0}
  ELSE {Cut[NameOf[o]]}
       \cup IF platform = "linux" \/ o \in Taps THEN {}
            ELSE Creates(platform, o)

(* Or that of the utun which has the number of its closed device           *)
Astray(t) ==
  /\ platform = "macos" /\ method[t] \in ClosedCalls["macos"]
  /\ \E q \in misled[t] : ifr[t].name \in Creates("macos", q)

NameSound(t) ==
  InCall(t) =>
    /\ method[t] \in Calls
    /\ method[t] \in {"getMAC", "setMAC"} => obj[t] \in Taps
    /\ ifr[t].name \in About(obj[t], method[t]) \/ Astray(t)

OneSerialCall ==
  \A t, u \in Threads :
    /\ InCall(t) /\ InCall(u) /\ obj[t] = obj[u]
    /\ method[t] \in SerialCalls[platform]
    /\ method[u] \in SerialCalls[platform]
    => t = u

OneAsker ==
  \A t, u \in Threads :
    /\ InCall(t) /\ InCall(u) /\ method[t] = method[u]
    /\ method[t] \in AloneCalls[platform]
    => t = u

Reaching ==
  /\ BoundSound /\ ListSound /\ OneSerialCall /\ OneAsker
  /\ \A t \in Threads : NameSound(t)

-----------------------------------------------------------------------------
(* What a call has done so far                                             *)

StatusSoFar(t) ==
  At(t, "setFlags") /\ Exists(ifr[t].name) =>
    ifr[t].union \ {"up"} = Current(t).flags \ {"up"}

SetIPSoFar(t) ==
  /\ ~At(t, "returned") => result[t] # Done
  /\ (At(t, "setAddr") \/ At(t, "setMask")) /\ Unparsed \notin Strings[platform]
       => args[t][2] # Unparsed
  /\ At(t, "setAddr") => ifr[t].union = Parse(args[t][1], Zero)
  /\ At(t, "setMask") =>
       /\ Exists(ifr[t].name)
       /\ Current(t).addr = Parse(args[t][1], Zero)
       /\ ifr[t].union = Parse(args[t][2], Parse(args[t][1], Zero))
  /\ method[t] = "setIP" /\ result[t] = Done =>
       /\ At(t, "returned") /\ Exists(ifr[t].name)
       /\ <<Current(t).addr, Current(t).mask>> = args[t]

GetIPSoFar(t) ==
  /\ At(t, "copyAddr") =>
       Exists(ifr[t].name) /\ buffer[BufferOf(t)] = Current(t).addr
  /\ At(t, "getMask") =>
       Exists(ifr[t].name) /\ text[t] = Current(t).addr
  /\ At(t, "copyMask") =>
       /\ Exists(ifr[t].name) /\ text[t] = Current(t).addr
       /\ buffer[BufferOf(t)] = Current(t).mask
  /\ At(t, "returned") /\ method[t] = "getIP" /\ result[t] # Threw =>
       /\ Exists(ifr[t].name)
       /\ result[t] = <<Current(t).addr, Current(t).mask>>

-----------------------------------------------------------------------------
(* The settings of an interface, one of them changed                       *)

LEMMA FlagsChanged ==
  ASSUME NEW s \in Settings, NEW f \in SUBSET Flags
  PROVE  /\ [s EXCEPT !.flags = f] \in Settings
         /\ [s EXCEPT !.flags = f].flags = f
         /\ [s EXCEPT !.flags = f].addr = s.addr
         /\ [s EXCEPT !.flags = f].mask = s.mask
BY DEF Settings

LEMMA MtuChanged ==
  ASSUME NEW s \in Settings, NEW m \in Mtus
  PROVE  /\ [s EXCEPT !.mtu = m] \in Settings
         /\ [s EXCEPT !.mtu = m].flags = s.flags
         /\ [s EXCEPT !.mtu = m].addr = s.addr
         /\ [s EXCEPT !.mtu = m].mask = s.mask
BY DEF Settings

LEMMA MacChanged ==
  ASSUME NEW s \in Settings, NEW m \in Macs
  PROVE  /\ [s EXCEPT !.mac = m] \in Settings
         /\ [s EXCEPT !.mac = m].flags = s.flags
         /\ [s EXCEPT !.mac = m].addr = s.addr
         /\ [s EXCEPT !.mac = m].mask = s.mask
BY DEF Settings

LEMMA MaskChanged ==
  ASSUME NEW s \in Settings, NEW m \in Addresses \cup Masks \cup {Zero}
  PROVE  /\ [s EXCEPT !.mask = m] \in Settings
         /\ [s EXCEPT !.mask = m].flags = s.flags
         /\ [s EXCEPT !.mask = m].addr = s.addr
         /\ [s EXCEPT !.mask = m].mask = m
BY DEF Settings

LEMMA AddressChanged ==
  ASSUME NEW s \in Settings, NEW a \in Addresses \cup {Zero},
         NEW r \in WithAddress(s, a)
  PROVE  r \in Settings /\ r.flags = s.flags /\ r.addr = a
<1>1. PICK m \in IF a = Zero THEN {Zero} ELSE {ClassMask} \cup ({s.mask} \ {Zero}) :
        r = [s EXCEPT !.addr = a, !.mask = m]
  BY DEF WithAddress
<1>2. m \in Addresses \cup Masks \cup {Zero}
  BY <1>1 DEF Settings
<1> DEFINE q == [s EXCEPT !.addr = a]
<1>3. q \in Settings /\ q.flags = s.flags /\ q.addr = a
  BY DEF Settings
<1>4. r = [q EXCEPT !.mask = m]
  BY <1>1 DEF Settings
<1> HIDE DEF q
<1>5. QED
  BY <1>2, <1>3, <1>4, MaskChanged

LEMMA UnionChanged ==
  ASSUME NEW f \in [Threads -> Ifreq], NEW t \in Threads, NEW v \in Union
  PROVE  /\ [f EXCEPT ![t].union = v] \in [Threads -> Ifreq]
         /\ [f EXCEPT ![t].union = v][t].union = v
         /\ [f EXCEPT ![t].union = v][t].name = f[t].name
         /\ \A u \in Threads \ {t} : [f EXCEPT ![t].union = v][u] = f[u]
BY DEF Ifreq

LEMMA FieldsAreUnions ==
  ASSUME NEW s \in Settings
  PROVE  /\ s.flags \in SUBSET Flags /\ s.flags \in Union
         /\ s.mtu \in Mtus /\ s.mtu \in Union
         /\ s.mac \in Macs /\ s.mac \in Union
         /\ s.addr \in Addresses \cup {Zero} /\ s.addr \in Union
         /\ s.mask \in Addresses \cup Masks \cup {Zero} /\ s.mask \in Union
         /\ s # NoInterface
BY DEF Settings, Union

LEMMA Parsed ==
  /\ \A s \in (Addresses \ Masks) \cup {Unparsed} :
       Parse(s, Zero) \in (Addresses \ Masks) \cup {Zero}
  /\ \A s \in (Masks \ Addresses) \cup {Unparsed}, u \in Addresses \cup {Zero} :
       Parse(s, u) \in Addresses \cup Masks \cup {Zero}
BY DEF Parse

-----------------------------------------------------------------------------
(* What a step of a call changes, thread by thread                         *)

Onward(t, step) ==
  /\ platform' = platform /\ bound' = bound /\ handle' = handle
  /\ list' = list /\ misled' = misled
  /\ obj' = obj /\ method' = method /\ args' = args
  /\ pc' \in [Threads -> Pcs] /\ pc'[t] = step /\ pc[t] # step
  /\ ifr' \in [Threads -> Ifreq] /\ ifr'[t].name = ifr[t].name
  /\ DOMAIN result' = Threads
  /\ \A u \in Threads \ {t} :
       /\ pc'[u] = pc[u] /\ ifr'[u] = ifr[u]
       /\ text'[u] = text[u] /\ result'[u] = result[u]

Silent == UNCHANGED <<text, buffer>>

(* The settings of the interface the call is about become s.               *)
Sets(t, s) ==
  /\ Exists(ifr[t].name)
  /\ s \in Settings
  /\ conf' \in [Interfaces -> Settings \cup {NoInterface}]
  /\ conf'[ifr[t].name] = s
  /\ \A i \in Interfaces \ {ifr[t].name} : conf'[i] = conf[i]

LEMMA Moved ==
  ASSUME TypedSoFar, NEW t \in Threads, NEW step \in Pcs, Goto(t, step)
  PROVE  /\ pc' \in [Threads -> Pcs] /\ pc'[t] = step
         /\ \A u \in Threads \ {t} : pc'[u] = pc[u]
BY DEF TypedSoFar, Goto

LEMMA Finished ==
  ASSUME TypedSoFar, NEW t \in Threads, NEW r, Finish(t, r)
  PROVE  /\ pc' \in [Threads -> Pcs] /\ pc'[t] = "returned"
         /\ DOMAIN result' = Threads /\ result'[t] = r
         /\ \A u \in Threads \ {t} : pc'[u] = pc[u] /\ result'[u] = result[u]
<1>1. Goto(t, "returned") /\ "returned" \in Pcs
  BY DEF Finish, Pcs
<1>2. /\ DOMAIN result' = Threads /\ result'[t] = r
      /\ \A u \in Threads \ {t} : result'[u] = result[u]
  BY DEF Finish, TypedSoFar
<1>3. QED
  BY <1>1, <1>2, Moved

LEMMA CurrentType ==
  ASSUME TypedSoFar, NEW t \in Threads, Exists(ifr[t].name)
  PROVE  Current(t) \in Settings
BY DEF TypedSoFar, Exists, Current

LEMMA Told ==
  ASSUME TypedSoFar, NEW t \in Threads, Exists(ifr[t].name),
         NEW s \in Settings, Tell(t, s)
  PROVE  Sets(t, s)
BY DEF TypedSoFar, Exists, Tell, Sets

LEMMA Asked ==
  ASSUME TypedSoFar, NEW t \in Threads, NEW v \in Union,
         ifr' = [ifr EXCEPT ![t].union = v]
  PROVE  /\ ifr' \in [Threads -> Ifreq] /\ ifr'[t].name = ifr[t].name
         /\ ifr'[t].union = v
         /\ \A u \in Threads \ {t} : ifr'[u] = ifr[u]
<1>1. ifr \in [Threads -> Ifreq]
  BY DEF TypedSoFar
<1>2. QED
  BY <1>1, UnionChanged

LEMMA CreatesInterfaces ==
  ASSUME NEW p \in Platforms, NEW o \in Objects
  PROVE  Creates(p, o) \subseteq Interfaces
BY DEF Creates

LEMMA FailDoes ==
  ASSUME TypedSoFar, NEW t \in Threads, Fail(t)
  PROVE  /\ ~At(t, "idle") /\ Onward(t, "returned") /\ Silent
         /\ conf' = conf /\ result'[t] = Threw
         /\ ifr' = ifr
<1>1. Finish(t, Threw) /\ pc[t] # "returned" /\ ~At(t, "idle")
  BY DEF Fail, At
<1>2. QED
  BY <1>1, Finished DEF Fail, frame, devices, call, Onward, Silent, TypedSoFar

LEMMA GetFlagsDoes ==
  ASSUME TypedSoFar, NEW t \in Threads, GetFlags(t)
  PROVE  /\ At(t, "getFlags") /\ Onward(t, "setFlags") /\ Silent
         /\ conf' = conf /\ result' = result
         /\ Exists(ifr[t].name) /\ ifr'[t].union = Current(t).flags
<1>1. Exists(ifr[t].name) /\ Goto(t, "setFlags") /\ "setFlags" \in Pcs
  BY DEF GetFlags, Ask, Pcs
<1>2. Current(t).flags \in Union
  BY <1>1, CurrentType, FieldsAreUnions
<1>3. ifr' = [ifr EXCEPT ![t].union = Current(t).flags]
  BY DEF GetFlags, Ask, Current
<1>4. /\ pc' \in [Threads -> Pcs] /\ pc'[t] = "setFlags"
      /\ \A u \in Threads \ {t} : pc'[u] = pc[u]
  BY <1>1, Moved
<1>5. /\ ifr' \in [Threads -> Ifreq] /\ ifr'[t].name = ifr[t].name
      /\ ifr'[t].union = Current(t).flags
      /\ \A u \in Threads \ {t} : ifr'[u] = ifr[u]
  BY <1>2, <1>3, Asked
<1>6. UNCHANGED <<devices, conf, call, text, result, buffer>>
  BY DEF GetFlags, Ask
<1>7. At(t, "getFlags") /\ DOMAIN result = Threads
  BY DEF GetFlags, TypedSoFar
<1>8. QED
  BY <1>1, <1>4, <1>5, <1>6, <1>7 DEF At, devices, call, Onward, Silent

LEMMA GetMtuDoes ==
  ASSUME TypedSoFar, NEW t \in Threads, GetMtu(t)
  PROVE  /\ At(t, "getMtu") /\ Onward(t, "returned") /\ Silent
         /\ conf' = conf
<1>1. Exists(ifr[t].name) /\ Finish(t, Done)
  BY DEF GetMtu, Ask
<1>2. Current(t).mtu \in Union
  BY <1>1, CurrentType, FieldsAreUnions
<1>3. ifr' = [ifr EXCEPT ![t].union = Current(t).mtu]
  BY DEF GetMtu, Ask, Current
<1>4. /\ ifr' \in [Threads -> Ifreq] /\ ifr'[t].name = ifr[t].name
      /\ \A u \in Threads \ {t} : ifr'[u] = ifr[u]
  BY <1>2, <1>3, Asked
<1>5. UNCHANGED <<devices, conf, call, text, buffer>>
  BY DEF GetMtu, Ask
<1>6. At(t, "getMtu")
  BY DEF GetMtu
<1>7. QED
  BY <1>1, <1>4, <1>5, <1>6, Finished DEF At, devices, call, Onward, Silent

LEMMA GetMacDoes ==
  ASSUME TypedSoFar, NEW t \in Threads, GetMac(t)
  PROVE  /\ At(t, "getMac") /\ Onward(t, "returned") /\ Silent
         /\ conf' = conf
<1>1. Finish(t, Done) /\ At(t, "getMac")
  BY DEF GetMac
<1>2. \E v \in Union : ifr' = [ifr EXCEPT ![t].union = v]
  <2>1. CASE Ask(t, "mac")
    <3>1. Exists(ifr[t].name)
      BY <2>1 DEF Ask
    <3>2. Current(t).mac \in Union
      BY <3>1, CurrentType, FieldsAreUnions
    <3>3. QED
      BY <2>1, <3>2 DEF Ask, Current
  <2>2. CASE AskFirst(t)
    BY <2>2 DEF AskFirst, Union
  <2>3. QED
    BY <2>1, <2>2 DEF GetMac
<1>3. UNCHANGED <<devices, conf, call, text, buffer>>
  BY DEF GetMac, Ask, AskFirst
<1>4. /\ ifr' \in [Threads -> Ifreq] /\ ifr'[t].name = ifr[t].name
      /\ \A u \in Threads \ {t} : ifr'[u] = ifr[u]
  BY <1>2, Asked
<1>5. /\ pc' \in [Threads -> Pcs] /\ pc'[t] = "returned"
      /\ DOMAIN result' = Threads
      /\ \A u \in Threads \ {t} : pc'[u] = pc[u] /\ result'[u] = result[u]
  BY <1>1, Finished
<1>6. QED
  BY <1>1, <1>3, <1>4, <1>5 DEF At, devices, call, Onward, Silent

LEMMA GetAddrDoes ==
  ASSUME TypedSoFar, NEW t \in Threads, GetAddr(t)
  PROVE  /\ At(t, "getAddr") /\ Onward(t, "copyAddr")
         /\ conf' = conf /\ result' = result /\ text' = text
         /\ Exists(ifr[t].name)
         /\ buffer' = [buffer EXCEPT ![BufferOf(t)] = Current(t).addr]
<1>1. Exists(ifr[t].name) /\ Goto(t, "copyAddr") /\ "copyAddr" \in Pcs
  BY DEF GetAddr, AskInWords, Pcs
<1>2. Current(t).addr \in Union
  BY <1>1, CurrentType, FieldsAreUnions
<1>3. /\ ifr' = [ifr EXCEPT ![t].union = Current(t).addr]
      /\ buffer' = [buffer EXCEPT ![BufferOf(t)] = Current(t).addr]
  BY DEF GetAddr, AskInWords
<1>4. /\ pc' \in [Threads -> Pcs] /\ pc'[t] = "copyAddr"
      /\ \A u \in Threads \ {t} : pc'[u] = pc[u]
  BY <1>1, Moved
<1>5. /\ ifr' \in [Threads -> Ifreq] /\ ifr'[t].name = ifr[t].name
      /\ ifr'[t].union = Current(t).addr
      /\ \A u \in Threads \ {t} : ifr'[u] = ifr[u]
  BY <1>2, <1>3, Asked
<1>6. UNCHANGED <<devices, conf, call, text, result>>
  BY DEF GetAddr, AskInWords
<1>7. At(t, "getAddr") /\ DOMAIN result = Threads
  BY DEF GetAddr, TypedSoFar
<1>8. QED
  BY <1>1, <1>3, <1>4, <1>5, <1>6, <1>7 DEF At, devices, call, Onward

LEMMA GetMaskDoes ==
  ASSUME TypedSoFar, NEW t \in Threads, GetMask(t)
  PROVE  /\ At(t, "getMask") /\ Onward(t, "copyMask")
         /\ conf' = conf /\ result' = result /\ text' = text
         /\ Exists(ifr[t].name)
         /\ buffer' = [buffer EXCEPT ![BufferOf(t)] = Current(t).mask]
<1>1. Exists(ifr[t].name) /\ Goto(t, "copyMask") /\ "copyMask" \in Pcs
  BY DEF GetMask, AskInWords, Pcs
<1>2. Current(t).mask \in Union
  BY <1>1, CurrentType, FieldsAreUnions
<1>3. /\ ifr' = [ifr EXCEPT ![t].union = Current(t).mask]
      /\ buffer' = [buffer EXCEPT ![BufferOf(t)] = Current(t).mask]
  BY DEF GetMask, AskInWords
<1>4. /\ pc' \in [Threads -> Pcs] /\ pc'[t] = "copyMask"
      /\ \A u \in Threads \ {t} : pc'[u] = pc[u]
  BY <1>1, Moved
<1>5. /\ ifr' \in [Threads -> Ifreq] /\ ifr'[t].name = ifr[t].name
      /\ ifr'[t].union = Current(t).mask
      /\ \A u \in Threads \ {t} : ifr'[u] = ifr[u]
  BY <1>2, <1>3, Asked
<1>6. UNCHANGED <<devices, conf, call, text, result>>
  BY DEF GetMask, AskInWords
<1>7. At(t, "getMask") /\ DOMAIN result = Threads
  BY DEF GetMask, TypedSoFar
<1>8. QED
  BY <1>1, <1>3, <1>4, <1>5, <1>6, <1>7 DEF At, devices, call, Onward

LEMMA CopyAddrDoes ==
  ASSUME TypedSoFar, NEW t \in Threads, CopyAddr(t)
  PROVE  /\ At(t, "copyAddr") /\ Onward(t, "getMask")
         /\ conf' = conf /\ result' = result /\ buffer' = buffer
         /\ ifr' = ifr /\ text'[t] = buffer[BufferOf(t)]
<1>1. Goto(t, "getMask") /\ "getMask" \in Pcs
  BY DEF CopyAddr, Pcs
<1>2. QED
  BY <1>1, Moved DEF CopyAddr, At, devices, call, Onward, TypedSoFar

LEMMA CopyMaskDoes ==
  ASSUME TypedSoFar, NEW t \in Threads, CopyMask(t)
  PROVE  /\ At(t, "copyMask") /\ Onward(t, "returned") /\ Silent
         /\ conf' = conf /\ ifr' = ifr
         /\ result'[t] = <<text[t], buffer[BufferOf(t)]>>
<1>1. Finish(t, <<text[t], buffer[BufferOf(t)]>>) /\ At(t, "copyMask")
  BY DEF CopyMask
<1>2. QED
  BY <1>1, Finished DEF CopyMask, At, frame, devices, call, Onward, Silent, TypedSoFar

LEMMA SetFlagsDoes ==
  ASSUME TypedSoFar, NEW t \in Threads, SetFlags(t)
  PROVE  /\ At(t, "setFlags") /\ Onward(t, "returned") /\ Silent /\ ifr' = ifr
         /\ \E s \in Settings :
              /\ Sets(t, s)
              /\ s.flags \ {"up"} = ifr[t].union \ {"up"}
              /\ s.addr = Current(t).addr /\ s.mask = Current(t).mask
<1> DEFINE f == IF args[t] THEN ifr[t].union \cup {"up"}
                ELSE ifr[t].union \ {"up"}
           s == [Current(t) EXCEPT !.flags = f]
<1>1. /\ Exists(ifr[t].name) /\ Tell(t, s) /\ Finish(t, Done)
      /\ At(t, "setFlags") /\ ifr' = ifr
  BY DEF SetFlags
<1>2. ifr[t].union \in SUBSET Flags
  BY <1>1 DEF TypedSoFar, UnionSound
<1>3. f \in SUBSET Flags /\ f \ {"up"} = ifr[t].union \ {"up"}
  BY <1>2 DEF Flags
<1>4. Current(t) \in Settings
  BY <1>1, CurrentType
<1> HIDE DEF f
<1>5. /\ s \in Settings /\ s.flags = f
      /\ s.addr = Current(t).addr /\ s.mask = Current(t).mask
  BY <1>3, <1>4, FlagsChanged
<1> HIDE DEF s
<1>6. Sets(t, s)
  BY <1>1, <1>5, Told
<1>7. Onward(t, "returned") /\ Silent
  BY <1>1, Finished DEF Tell, At, devices, call, Onward, Silent, TypedSoFar
<1>8. QED
  BY <1>1, <1>3, <1>5, <1>6, <1>7

(* setMTU() and setMACAddress() leave flags, address and mask alone.       *)
LEMMA SetMtuDoes ==
  ASSUME TypedSoFar, NEW t \in Threads, SetMtu(t)
  PROVE  /\ At(t, "setMtu") /\ Onward(t, "returned") /\ Silent /\ ifr' = ifr
         /\ \E s \in Settings :
              /\ Sets(t, s) /\ s.flags = Current(t).flags
              /\ s.addr = Current(t).addr /\ s.mask = Current(t).mask
<1> DEFINE s == [Current(t) EXCEPT !.mtu = ifr[t].union]
<1>1. /\ Exists(ifr[t].name) /\ Tell(t, s) /\ Finish(t, Done)
      /\ At(t, "setMtu") /\ ifr' = ifr
  BY DEF SetMtu
<1>2. ifr[t].union \in Mtus
  BY <1>1 DEF TypedSoFar, UnionSound
<1>3. /\ s \in Settings /\ s.flags = Current(t).flags
      /\ s.addr = Current(t).addr /\ s.mask = Current(t).mask
  BY <1>1, <1>2, CurrentType, MtuChanged
<1> HIDE DEF s
<1>4. Sets(t, s)
  BY <1>1, <1>3, Told
<1>5. Onward(t, "returned") /\ Silent
  BY <1>1, Finished DEF Tell, At, devices, call, Onward, Silent, TypedSoFar
<1>6. QED
  BY <1>1, <1>3, <1>4, <1>5

LEMMA SetMacDoes ==
  ASSUME TypedSoFar, NEW t \in Threads, SetMac(t)
  PROVE  /\ At(t, "setMac") /\ Onward(t, "returned") /\ Silent /\ ifr' = ifr
         /\ \E s \in Settings :
              /\ Sets(t, s) /\ s.flags = Current(t).flags
              /\ s.addr = Current(t).addr /\ s.mask = Current(t).mask
<1> DEFINE s == [Current(t) EXCEPT !.mac = ifr[t].union]
<1>1. /\ Exists(ifr[t].name) /\ Tell(t, s) /\ Finish(t, Done)
      /\ At(t, "setMac") /\ ifr' = ifr
  BY DEF SetMac
<1>2. ifr[t].union \in Macs
  BY <1>1 DEF TypedSoFar, UnionSound
<1>3. /\ s \in Settings /\ s.flags = Current(t).flags
      /\ s.addr = Current(t).addr /\ s.mask = Current(t).mask
  BY <1>1, <1>2, CurrentType, MacChanged
<1> HIDE DEF s
<1>4. Sets(t, s)
  BY <1>1, <1>3, Told
<1>5. Onward(t, "returned") /\ Silent
  BY <1>1, Finished DEF Tell, At, devices, call, Onward, Silent, TypedSoFar
<1>6. QED
  BY <1>1, <1>3, <1>4, <1>5

LEMMA SetMaskDoes ==
  ASSUME TypedSoFar, NEW t \in Threads, SetMask(t)
  PROVE  /\ At(t, "setMask") /\ Onward(t, "returned") /\ Silent /\ ifr' = ifr
         /\ TakesMask(Current(t), ifr[t].union)
         /\ \E s \in Settings :
              /\ Sets(t, s) /\ s.flags = Current(t).flags
              /\ s.addr = Current(t).addr /\ s.mask = ifr[t].union
<1> DEFINE s == [Current(t) EXCEPT !.mask = ifr[t].union]
<1>1. /\ Exists(ifr[t].name) /\ Tell(t, s) /\ Finish(t, Done)
      /\ At(t, "setMask") /\ ifr' = ifr /\ TakesMask(Current(t), ifr[t].union)
  BY DEF SetMask
<1>2. ifr[t].union \in Addresses \cup Masks \cup {Zero}
  BY <1>1 DEF TypedSoFar, UnionSound
<1>3. /\ s \in Settings /\ s.flags = Current(t).flags
      /\ s.addr = Current(t).addr /\ s.mask = ifr[t].union
  BY <1>1, <1>2, CurrentType, MaskChanged
<1> HIDE DEF s
<1>4. Sets(t, s)
  BY <1>1, <1>3, Told
<1>5. Onward(t, "returned") /\ Silent
  BY <1>1, Finished DEF Tell, At, devices, call, Onward, Silent, TypedSoFar
<1>6. QED
  BY <1>1, <1>3, <1>4, <1>5

LEMMA SetAddrDoes ==
  ASSUME TypedSoFar, NEW t \in Threads, SetAddr(t)
  PROVE  /\ At(t, "setAddr") /\ Onward(t, "setMask") /\ Silent
         /\ result' = result
         /\ ifr'[t].union = Parse(args[t][2], ifr[t].union)
         /\ ifr'[t].union \in Addresses \cup Masks \cup {Zero}
         /\ \E s \in Settings :
              /\ Sets(t, s) /\ s.flags = Current(t).flags
              /\ s.addr = ifr[t].union
<1>1. PICK s \in WithAddress(Current(t), ifr[t].union) : Tell(t, s)
  BY DEF SetAddr
<1>2. /\ Exists(ifr[t].name) /\ At(t, "setAddr") /\ Goto(t, "setMask")
      /\ result' = result /\ "setMask" \in Pcs
      /\ ifr' = [ifr EXCEPT ![t].union = Parse(args[t][2], @)]
  BY DEF SetAddr, Pcs
<1>3. ifr[t].union \in Addresses \cup {Zero} /\ args[t] \in Given
  BY <1>2 DEF TypedSoFar, UnionSound
<1>4. Parse(args[t][2], ifr[t].union) \in Addresses \cup Masks \cup {Zero}
  <2>1. args[t][2] \in (Masks \ Addresses) \cup {Unparsed}
    BY <1>3 DEF Given
  <2>2. QED
    BY <1>3, <2>1, Parsed
<1>5. Parse(args[t][2], ifr[t].union) \in Union
  BY <1>4 DEF Union
<1>6. s \in Settings /\ s.flags = Current(t).flags /\ s.addr = ifr[t].union
  BY <1>2, <1>3, CurrentType, AddressChanged
<1>7. Sets(t, s)
  BY <1>1, <1>2, <1>6, Told
<1>8. /\ ifr' \in [Threads -> Ifreq] /\ ifr'[t].name = ifr[t].name
      /\ ifr'[t].union = Parse(args[t][2], ifr[t].union)
      /\ \A u \in Threads \ {t} : ifr'[u] = ifr[u]
  <2> DEFINE v == Parse(args[t][2], ifr[t].union)
  <2>1. ifr' = [ifr EXCEPT ![t].union = v]
    BY <1>2
  <2>2. v \in Union
    BY <1>5
  <2> HIDE DEF v
  <2>3. /\ ifr' \in [Threads -> Ifreq] /\ ifr'[t].name = ifr[t].name
        /\ ifr'[t].union = v
        /\ \A u \in Threads \ {t} : ifr'[u] = ifr[u]
    BY <2>1, <2>2, Asked
  <2>4. QED
    BY <2>3 DEF v
<1>9. Onward(t, "setMask") /\ Silent
  BY <1>1, <1>2, <1>8, Moved DEF Tell, At, devices, call, Onward, Silent, TypedSoFar
<1>10. QED
  BY <1>2, <1>4, <1>6, <1>7, <1>8, <1>9

LEMMA ReturnDoes ==
  ASSUME TypedSoFar, NEW t \in Threads, Return(t)
  PROVE  /\ At(t, "returned") /\ pc'[t] = "idle"
         /\ pc' \in [Threads -> Pcs]
         /\ UNCHANGED <<platform, conf, bound, handle, list>>
         /\ obj' \in [Threads -> Objects \cup {NoObject}]
         /\ method' \in [Threads -> Methods \cup {None}]
         /\ DOMAIN args' = Threads /\ ifr' \in [Threads -> Ifreq]
         /\ text' \in [Threads -> Words] /\ DOMAIN result' = Threads
         /\ misled' \in [Threads -> SUBSET Objects]
         /\ obj'[t] = NoObject /\ method'[t] = None /\ result'[t] = None
         /\ buffer' = [buffer EXCEPT ![t] = None]
         /\ \A u \in Threads \ {t} :
              /\ pc'[u] = pc[u] /\ obj'[u] = obj[u] /\ method'[u] = method[u]
              /\ args'[u] = args[u] /\ ifr'[u] = ifr[u]
              /\ text'[u] = text[u] /\ result'[u] = result[u]
              /\ misled'[u] = misled[u]
<1>1. Empty \in Ifreq /\ None \in Words /\ "idle" \in Pcs
  BY DEF Empty, Ifreq, Union, Words, Pcs
<1>2. QED
  BY <1>1 DEF Return, Goto, At, devices, TypedSoFar

LEMMA BeginDoes ==
  ASSUME TypedSoFar, NEW t \in Threads, NEW o \in Objects, NEW what \in Methods,
         NEW first \in Pcs, NEW name \in DeviceNames \cup {NoInterface},
         NEW union \in Union, NEW arg,
         Begin(t, o, what, first, name, union, arg)
  PROVE  /\ At(t, "idle") /\ pc'[t] = first
         /\ pc' \in [Threads -> Pcs]
         /\ UNCHANGED <<platform, conf, bound, handle, list, text, buffer,
                        result>>
         /\ obj' \in [Threads -> Objects \cup {NoObject}]
         /\ method' \in [Threads -> Methods \cup {None}]
         /\ DOMAIN args' = Threads /\ ifr' \in [Threads -> Ifreq]
         /\ obj'[t] = o /\ method'[t] = what /\ args'[t] = arg
         /\ ifr'[t].name = name /\ ifr'[t].union = union
         /\ misled' \in [Threads -> SUBSET Objects]
         /\ misled'[t] = NumberTaken(o)
         /\ IsOpen(o) \/ what \in ClosedCalls[platform]
         /\ what \in SerialCalls[platform] => ~InUse(o)
         /\ what \in AloneCalls[platform] => \A u \in Threads : method[u] # what
         /\ \A u \in Threads \ {t} :
              /\ pc'[u] = pc[u] /\ obj'[u] = obj[u] /\ method'[u] = method[u]
              /\ args'[u] = args[u] /\ ifr'[u] = ifr[u]
              /\ misled'[u] = misled[u]
<1>1. [name |-> name, union |-> union] \in Ifreq
  BY DEF Ifreq
<1>2. /\ ifr' \in [Threads -> Ifreq] /\ ifr'[t].name = name /\ ifr'[t].union = union
      /\ \A u \in Threads \ {t} : ifr'[u] = ifr[u]
  BY <1>1 DEF Begin, TypedSoFar
<1>3. NumberTaken(o) \in SUBSET Objects
  BY DEF NumberTaken
<1>4. /\ misled' \in [Threads -> SUBSET Objects] /\ misled'[t] = NumberTaken(o)
      /\ \A u \in Threads \ {t} : misled'[u] = misled[u]
  BY <1>3 DEF Begin, TypedSoFar
<1>5. QED
  BY <1>2, <1>4 DEF Begin, At, devices, TypedSoFar

LEMMA OpenDoes ==
  ASSUME TypedSoFar, NEW o \in Objects, Open(o)
  PROVE  /\ ~InUse(o) /\ bound[o] = NoInterface
         /\ UNCHANGED <<platform, pc, obj, method, args, ifr, text, buffer,
                        result, misled>>
         /\ conf' \in [Interfaces -> Settings \cup {NoInterface}]
         /\ bound' \in [Objects -> Interfaces \cup {NoInterface}]
         /\ handle' \in [Objects -> Numbers \cup {NoHandle}]
         /\ list' \in [Numbers -> Interfaces \cup {NoInterface}]
         /\ \E i \in Creates(platform, o), n \in Numbers :
              /\ i \in Interfaces /\ ~Exists(i)
              /\ bound'[o] = i /\ conf'[i] # NoInterface
              /\ \A j \in Interfaces \ {i} : conf'[j] = conf[j]
              /\ \A q \in Objects \ {o} : bound'[q] = bound[q]
              /\ \A q \in Objects : IsOpen(q) => handle[q] # n
              /\ handle'[o] = n
              /\ \A q \in Objects \ {o} : handle'[q] = handle[q]
              /\ list'[n] = IF Entry(o, i) = NoInterface THEN list[n] ELSE i
              /\ \A k \in Numbers \ {n} : list'[k] = list[k]
<1>1. PICK i \in Creates(platform, o), s \in Settings, n \in Numbers :
        /\ ~Exists(i)
        /\ \A q \in Objects : IsOpen(q) => handle[q] # n
        /\ conf' = [conf EXCEPT ![i] = s] /\ bound' = [bound EXCEPT ![o] = i]
        /\ handle' = [handle EXCEPT ![o] = n]
        /\ list' = [list EXCEPT ![n] = IF Entry(o, i) = NoInterface THEN @
                                       ELSE Entry(o, i)]
  BY DEF Open
<1>2. i \in Interfaces
  BY CreatesInterfaces DEF TypedSoFar
<1>3. /\ conf' \in [Interfaces -> Settings \cup {NoInterface}]
      /\ conf'[i] # NoInterface
      /\ \A j \in Interfaces \ {i} : conf'[j] = conf[j]
  BY <1>1, <1>2 DEF TypedSoFar
<1>4. /\ bound' \in [Objects -> Interfaces \cup {NoInterface}]
      /\ bound'[o] = i
      /\ \A q \in Objects \ {o} : bound'[q] = bound[q]
  BY <1>1, <1>2 DEF TypedSoFar
<1>5. /\ handle' \in [Objects -> Numbers \cup {NoHandle}]
      /\ handle'[o] = n
      /\ \A q \in Objects \ {o} : handle'[q] = handle[q]
  BY <1>1 DEF TypedSoFar
<1>6. Entry(o, i) \in {i, NoInterface}
  BY DEF Entry
<1>7. /\ list' \in [Numbers -> Interfaces \cup {NoInterface}]
      /\ list'[n] = IF Entry(o, i) = NoInterface THEN list[n] ELSE i
      /\ \A k \in Numbers \ {n} : list'[k] = list[k]
  BY <1>1, <1>2, <1>6 DEF TypedSoFar
<1>8. /\ ~InUse(o) /\ bound[o] = NoInterface
      /\ UNCHANGED <<platform, pc, obj, method, args, ifr, text, buffer,
                     result, misled>>
  BY DEF Open, IsOpen, frame, call
<1>9. QED
  BY <1>1, <1>2, <1>3, <1>4, <1>5, <1>7, <1>8

LEMMA CloseDoes ==
  ASSUME TypedSoFar, NEW o \in Objects, Close(o)
  PROVE  /\ ~InUse(o) /\ bound[o] \in Interfaces
         /\ UNCHANGED <<platform, handle, pc, obj, method, args, ifr, text,
                        buffer, result, misled>>
         /\ conf' \in [Interfaces -> Settings \cup {NoInterface}]
         /\ bound' \in [Objects -> Interfaces \cup {NoInterface}]
         /\ list' \in [Numbers -> Interfaces \cup {NoInterface}]
         /\ bound'[o] = NoInterface /\ conf'[bound[o]] = NoInterface
         /\ \A j \in Interfaces \ {bound[o]} : conf'[j] = conf[j]
         /\ \A q \in Objects \ {o} : bound'[q] = bound[q]
         /\ handle[o] \in Numbers => list'[handle[o]] = NoInterface
         /\ \A k \in Numbers : k # handle[o] => list'[k] = list[k]
<1>1. Release(o) /\ list' = [list EXCEPT ![handle[o]] = NoInterface]
  BY DEF Close
<1>2. /\ list' \in [Numbers -> Interfaces \cup {NoInterface}]
      /\ handle[o] \in Numbers => list'[handle[o]] = NoInterface
      /\ \A k \in Numbers : k # handle[o] => list'[k] = list[k]
  BY <1>1 DEF TypedSoFar
<1>3. QED
  BY <1>1, <1>2 DEF Release, IsOpen, frame, call, TypedSoFar

-----------------------------------------------------------------------------
(* Types                                                                   *)

LEMMA CallsHaveSteps ==
  ASSUME TypedSoFar, NEW t \in Threads, ~At(t, "idle")
  PROVE  /\ obj[t] \in Objects /\ method[t] \in Methods
         /\ pc[t] \in StepsOf[method[t]] \cup {"returned"}
BY DEF TypedSoFar, CallSound

LEMMA OnwardTyped ==
  ASSUME TypedSoFar, NEW t \in Threads, ~At(t, "idle"), NEW step,
         Onward(t, step), step \in StepsOf[method[t]] \cup {"returned"},
         step \in {"setFlags", "copyAddr", "getMask", "copyMask", "setMask",
                   "returned"},
         step = "setFlags" => ifr'[t].union \in SUBSET Flags,
         step = "setMask" =>
           /\ ifr'[t].union \in Addresses \cup Masks \cup {Zero}
           /\ args[t] \in Given,
         conf' \in [Interfaces -> Settings \cup {NoInterface}],
         text' \in [Threads -> Words],
         buffer' \in [Threads \cup {Shared} -> Words]
  PROVE  TypedSoFar'
<1>1. ASSUME NEW u \in Threads PROVE CallSound(u)' /\ UnionSound(u)'
  <2>1. CallSound(u) /\ UnionSound(u)
    BY DEF TypedSoFar
  <2>2. CASE u # t
    <3>1. pc'[u] = pc[u] /\ ifr'[u] = ifr[u] /\ obj' = obj
          /\ method' = method /\ args' = args
      BY <2>2 DEF Onward
    <3>2. CallSound(u)'
      BY <2>1, <3>1 DEF CallSound, At
    <3>3. UnionSound(u)'
      BY <2>1, <3>1 DEF UnionSound, At
    <3>4. QED
      BY <3>2, <3>3
  <2>3. CASE u = t
    <3>1. pc'[t] = step /\ obj' = obj /\ method' = method /\ args' = args
      BY DEF Onward
    <3>2. obj[t] \in Objects /\ method[t] \in Methods
      BY CallsHaveSteps
    <3>3. CallSound(t)'
      BY <3>1, <3>2 DEF CallSound
    <3>4. UnionSound(t)'
      BY <2>1, <2>3, <3>1 DEF UnionSound, At
    <3>5. QED
      BY <2>3, <3>3, <3>4
  <2>4. QED
    BY <2>2, <2>3
<1>2. /\ platform' \in Platforms
      /\ bound' \in [Objects -> Interfaces \cup {NoInterface}]
      /\ pc' \in [Threads -> Pcs]
      /\ obj' \in [Threads -> Objects \cup {NoObject}]
      /\ method' \in [Threads -> Methods \cup {None}]
      /\ DOMAIN args' = Threads
      /\ ifr' \in [Threads -> Ifreq]
      /\ DOMAIN result' = Threads
      /\ handle' \in [Objects -> Numbers \cup {NoHandle}]
      /\ list' \in [Numbers -> Interfaces \cup {NoInterface}]
      /\ misled' \in [Threads -> SUBSET Objects]
  BY DEF Onward, TypedSoFar
<1>3. QED
  BY <1>1, <1>2 DEF TypedSoFar

LEMMA MethodOf ==
  ASSUME TypedSoFar, NEW t \in Threads
  PROVE  /\ At(t, "getFlags") \/ At(t, "setFlags") => method[t] = "setStatus"
         /\ At(t, "getMtu") => method[t] = "getMTU"
         /\ At(t, "setMtu") => method[t] = "setMTU"
         /\ At(t, "getAddr") \/ At(t, "copyAddr") \/ At(t, "getMask")
            \/ At(t, "copyMask") => method[t] = "getIP"
         /\ At(t, "setAddr") \/ At(t, "setMask") => method[t] = "setIP"
         /\ At(t, "getMac") => method[t] = "getMAC"
         /\ At(t, "setMac") => method[t] = "setMAC"
<1>1. CASE At(t, "idle")
  BY <1>1 DEF At
<1>2. CASE ~At(t, "idle")
  <2>1. method[t] \in Methods /\ pc[t] \in StepsOf[method[t]] \cup {"returned"}
    BY <1>2, CallsHaveSteps
  <2>2. QED
    BY <2>1 DEF At, StepsOf, Methods
<1>3. QED
  BY <1>1, <1>2

LEMMA SilentTyped ==
  ASSUME TypedSoFar, Silent
  PROVE  /\ text' \in [Threads -> Words]
         /\ buffer' \in [Threads \cup {Shared} -> Words]
BY DEF TypedSoFar, Silent

LEMMA BufferTyped ==
  ASSUME TypedSoFar, NEW t \in Threads
  PROVE  BufferOf(t) \in Threads \cup {Shared}
BY DEF BufferOf

LEMMA StepTyped ==
  ASSUME TypedSoFar, NEW t \in Threads, Step(t), ~Return(t)
  PROVE  TypedSoFar'
<1>1. conf \in [Interfaces -> Settings \cup {NoInterface}]
      /\ text \in [Threads -> Words]
      /\ buffer \in [Threads \cup {Shared} -> Words]
  BY DEF TypedSoFar
<1>2. CASE Fail(t)
  BY <1>1, <1>2, FailDoes, SilentTyped, OnwardTyped
<1>3. CASE GetFlags(t)
  <2>1. Current(t).flags \in SUBSET Flags
    BY <1>3, GetFlagsDoes, CurrentType, FieldsAreUnions
  <2>2. "setFlags" \in StepsOf[method[t]] /\ ~At(t, "idle")
    BY <1>3, GetFlagsDoes, MethodOf DEF StepsOf, At
  <2>3. QED
    BY <1>1, <1>3, <2>1, <2>2, GetFlagsDoes, SilentTyped, OnwardTyped
<1>4. CASE SetFlags(t)
  <2>1. conf' \in [Interfaces -> Settings \cup {NoInterface}]
    BY <1>4, SetFlagsDoes DEF Sets
  <2>2. Onward(t, "returned") /\ Silent /\ ~At(t, "idle")
    BY <1>4, SetFlagsDoes DEF At
  <2>3. QED
    BY <2>1, <2>2, SilentTyped, OnwardTyped
<1>5. CASE GetMtu(t)
  <2>1. ~At(t, "idle")
    BY <1>5, GetMtuDoes DEF At
  <2>2. QED
    BY <1>1, <1>5, <2>1, GetMtuDoes, SilentTyped, OnwardTyped
<1>6. CASE SetMtu(t)
  <2>1. conf' \in [Interfaces -> Settings \cup {NoInterface}]
    BY <1>6, SetMtuDoes DEF Sets
  <2>2. Onward(t, "returned") /\ Silent /\ ~At(t, "idle")
    BY <1>6, SetMtuDoes DEF At
  <2>3. QED
    BY <2>1, <2>2, SilentTyped, OnwardTyped
<1>7. CASE GetAddr(t)
  <2>1. Current(t).addr \in Words
    BY <1>7, GetAddrDoes, CurrentType, FieldsAreUnions DEF Words
  <2>2. "copyAddr" \in StepsOf[method[t]] /\ ~At(t, "idle")
    BY <1>7, GetAddrDoes, MethodOf DEF StepsOf, At
  <2>3. Onward(t, "copyAddr") /\ conf' = conf /\ text' = text
        /\ buffer' \in [Threads \cup {Shared} -> Words]
    BY <1>1, <1>7, <2>1, GetAddrDoes, BufferTyped
  <2>4. QED
    BY <1>1, <2>2, <2>3, OnwardTyped
<1>8. CASE CopyAddr(t)
  <2>1. buffer[BufferOf(t)] \in Words
    BY <1>1, BufferTyped
  <2>2. "getMask" \in StepsOf[method[t]] /\ ~At(t, "idle")
    BY <1>8, CopyAddrDoes, MethodOf DEF StepsOf, At
  <2>3. Onward(t, "getMask") /\ conf' = conf /\ buffer' = buffer
    BY <1>8, CopyAddrDoes
  <2>4. text' \in [Threads -> Words]
    BY <1>1, <1>8, <2>1 DEF CopyAddr
  <2>5. QED
    BY <1>1, <2>2, <2>3, <2>4, OnwardTyped
<1>9. CASE GetMask(t)
  <2>1. Current(t).mask \in Words
    BY <1>9, GetMaskDoes, CurrentType, FieldsAreUnions DEF Words
  <2>2. "copyMask" \in StepsOf[method[t]] /\ ~At(t, "idle")
    BY <1>9, GetMaskDoes, MethodOf DEF StepsOf, At
  <2>3. Onward(t, "copyMask") /\ conf' = conf /\ text' = text
        /\ buffer' \in [Threads \cup {Shared} -> Words]
    BY <1>1, <1>9, <2>1, GetMaskDoes, BufferTyped
  <2>4. QED
    BY <1>1, <2>2, <2>3, OnwardTyped
<1>10. CASE CopyMask(t)
  <2>1. ~At(t, "idle")
    BY <1>10, CopyMaskDoes DEF At
  <2>2. QED
    BY <1>1, <1>10, <2>1, CopyMaskDoes, SilentTyped, OnwardTyped
<1>11. CASE SetAddr(t)
  <2>1. conf' \in [Interfaces -> Settings \cup {NoInterface}]
    BY <1>11, SetAddrDoes DEF Sets
  <2>2. /\ Onward(t, "setMask") /\ Silent /\ At(t, "setAddr")
        /\ ifr'[t].union \in Addresses \cup Masks \cup {Zero}
    BY <1>11, SetAddrDoes
  <2>3. "setMask" \in StepsOf[method[t]] /\ ~At(t, "idle")
    BY <2>2, MethodOf DEF StepsOf, At
  <2>4. args[t] \in Given
    BY <2>2 DEF TypedSoFar, UnionSound
  <2>5. QED
    BY <2>1, <2>2, <2>3, <2>4, SilentTyped, OnwardTyped
<1>12. CASE SetMask(t)
  <2>1. conf' \in [Interfaces -> Settings \cup {NoInterface}]
    BY <1>12, SetMaskDoes DEF Sets
  <2>2. Onward(t, "returned") /\ Silent /\ ~At(t, "idle")
    BY <1>12, SetMaskDoes DEF At
  <2>3. QED
    BY <2>1, <2>2, SilentTyped, OnwardTyped
<1>13. CASE GetMac(t)
  <2>1. ~At(t, "idle")
    BY <1>13, GetMacDoes DEF At
  <2>2. QED
    BY <1>1, <1>13, <2>1, GetMacDoes, SilentTyped, OnwardTyped
<1>14. CASE SetMac(t)
  <2>1. conf' \in [Interfaces -> Settings \cup {NoInterface}]
    BY <1>14, SetMacDoes DEF Sets
  <2>2. Onward(t, "returned") /\ Silent /\ ~At(t, "idle")
    BY <1>14, SetMacDoes DEF At
  <2>3. QED
    BY <2>1, <2>2, SilentTyped, OnwardTyped
<1>15. QED
  BY <1>2, <1>3, <1>4, <1>5, <1>6, <1>7, <1>8, <1>9, <1>10, <1>11, <1>12,
     <1>13, <1>14 DEF Step

LEMMA ReturnTyped ==
  ASSUME TypedSoFar, NEW t \in Threads, Return(t)
  PROVE  TypedSoFar'
<1>1. ASSUME NEW u \in Threads PROVE CallSound(u)' /\ UnionSound(u)'
  <2>1. CallSound(u) /\ UnionSound(u)
    BY DEF TypedSoFar
  <2>2. CASE u # t
    <3>1. pc'[u] = pc[u] /\ ifr'[u] = ifr[u] /\ obj'[u] = obj[u]
          /\ method'[u] = method[u] /\ args'[u] = args[u]
      BY <2>2, ReturnDoes
    <3>2. CallSound(u)'
      BY <2>1, <3>1 DEF CallSound, At
    <3>3. UnionSound(u)'
      BY <2>1, <3>1 DEF UnionSound, At
    <3>4. QED
      BY <3>2, <3>3
  <2>3. CASE u = t
    <3>1. pc'[t] = "idle" /\ obj'[t] = NoObject /\ method'[t] = None
      BY ReturnDoes
    <3>2. QED
      BY <2>3, <3>1 DEF CallSound, UnionSound, At
  <2>4. QED
    BY <2>2, <2>3
<1>2. buffer' \in [Threads \cup {Shared} -> Words]
  BY ReturnDoes DEF TypedSoFar, Words
<1>3. /\ platform' = platform /\ conf' = conf /\ bound' = bound
      /\ handle' = handle /\ list' = list
      /\ misled' \in [Threads -> SUBSET Objects]
      /\ pc' \in [Threads -> Pcs]
      /\ obj' \in [Threads -> Objects \cup {NoObject}]
      /\ method' \in [Threads -> Methods \cup {None}]
      /\ DOMAIN args' = Threads /\ ifr' \in [Threads -> Ifreq]
      /\ text' \in [Threads -> Words] /\ DOMAIN result' = Threads
  BY ReturnDoes
<1>4. QED
  BY <1>1, <1>2, <1>3 DEF TypedSoFar

(* Every call begins with a name of its object and a union of the right    *)
(* kind.                                                                   *)
Begins(t, o, what, first, name, union, arg) ==
  /\ what \in Methods /\ first \in StepsOf[what]
  /\ name \in DeviceNames \cup {NoInterface} /\ union \in Union
  /\ Begin(t, o, what, first, name, union, arg)
  /\ name = IF what = "getMAC" THEN MacAddressTarget(o)
            ELSE IF what = "setMAC" THEN SetMacTarget(o) ELSE Target(o)
  /\ what \in {"getMAC", "setMAC"} => o \in Taps
  /\ first \notin {"setFlags", "copyAddr", "getMask", "copyMask", "setMask",
                   "returned", "idle"}
  /\ first = "setMtu" => union \in Mtus
  /\ first = "setMac" => union \in Macs
  /\ first = "setAddr" =>
       /\ arg \in Given
       /\ union = Parse(arg[1], Zero)
       /\ Unparsed \notin Strings[platform] => arg[1] # Unparsed /\ arg[2] # Unparsed

LEMMA TargetTypes ==
  ASSUME TypedSoFar, NEW o \in Objects
  PROVE  /\ Target(o) \in DeviceNames \cup {NoInterface}
         /\ MacAddressTarget(o) \in DeviceNames \cup {NoInterface}
         /\ SetMacTarget(o) \in DeviceNames \cup {NoInterface}
<1>1. Cut[NameOf[o]] \in DeviceNames /\ Tap0 \in DeviceNames
  OBVIOUS
<1>2. MacTarget(o) \in DeviceNames
  <2>1. CASE Listed(handle[o])
    <3>1. list[handle[o]] \in DeviceNames
      BY <2>1 DEF Listed, TypedSoFar
    <3>2. QED
      BY <2>1, <3>1 DEF MacTarget
  <2>2. CASE ~Listed(handle[o])
    BY <1>1, <2>2 DEF MacTarget
  <2>3. QED
    BY <2>1, <2>2
<1>3. QED
  BY <1>1, <1>2 DEF Target, LinuxTarget, MacAddressTarget, SetMacTarget

LEMMA CallBegins ==
  ASSUME TypedSoFar, NEW t \in Threads, NEW o \in Objects, Call(t, o)
  PROVE  \E what, first, name, union, arg :
           Begins(t, o, what, first, name, union, arg)
<1> USE TargetTypes DEF Methods, StepsOf
<1>1. None \in Union
  BY DEF Union
<1>2. CASE SetStatus(t, o)
  <2>1. PICK isUp \in BOOLEAN :
          Begin(t, o, "setStatus", "getFlags", Target(o), None, isUp)
    BY <1>2 DEF SetStatus
  <2>2. Begins(t, o, "setStatus", "getFlags", Target(o), None, isUp)
    BY <1>1, <2>1 DEF Begins
  <2>3. QED
    BY <2>2
<1>3. CASE GetMTU(t, o)
  <2>1. Begins(t, o, "getMTU", "getMtu", Target(o), None, None)
    BY <1>1, <1>3 DEF GetMTU, Begins
  <2>2. QED
    BY <2>1
<1>4. CASE SetMTU(t, o)
  <2>1. PICK m \in Mtus : Begin(t, o, "setMTU", "setMtu", Target(o), m, None)
    BY <1>4 DEF SetMTU
  <2>2. m \in Union
    BY DEF Union
  <2>3. Begins(t, o, "setMTU", "setMtu", Target(o), m, None)
    BY <2>1, <2>2 DEF Begins
  <2>4. QED
    BY <2>3
<1>5. CASE GetIPAddress(t, o)
  <2>1. Begins(t, o, "getIP", "getAddr", Target(o), None, None)
    BY <1>1, <1>5 DEF GetIPAddress, Begins
  <2>2. QED
    BY <2>1
<1>6. CASE SetIPAddress(t, o)
  <2>1. PICK a \in Strings[platform] \ Masks, m \in Strings[platform] \ Addresses :
          Begin(t, o, "setIP", "setAddr", Target(o), Parse(a, Zero), <<a, m>>)
    BY <1>6 DEF SetIPAddress
  <2> DEFINE arg == <<a, m>>
  <2>2. a \in (Addresses \ Masks) \cup {Unparsed} /\ m \in (Masks \ Addresses) \cup {Unparsed}
    BY DEF TypedSoFar
  <2>3. arg \in Given /\ arg[1] = a /\ arg[2] = m
    BY <2>2 DEF Given
  <2>4. Parse(a, Zero) \in Union
    BY <2>2, Parsed DEF Union
  <2>5. Unparsed \notin Strings[platform] => a # Unparsed /\ m # Unparsed
    OBVIOUS
  <2>6. Begin(t, o, "setIP", "setAddr", Target(o), Parse(a, Zero), arg)
    BY <2>1
  <2> HIDE DEF arg
  <2>7. Begins(t, o, "setIP", "setAddr", Target(o), Parse(a, Zero), arg)
    BY <2>3, <2>4, <2>5, <2>6 DEF Begins
  <2>8. QED
    BY <2>7
<1>7. CASE GetMACAddress(t, o)
  <2>1. Begins(t, o, "getMAC", "getMac", MacAddressTarget(o), None, None)
    BY <1>1, <1>7 DEF GetMACAddress, Begins
  <2>2. QED
    BY <2>1
<1>8. CASE SetMACAddress(t, o)
  <2>1. PICK m \in Macs : Begin(t, o, "setMAC", "setMac", SetMacTarget(o), m, None)
    BY <1>8 DEF SetMACAddress
  <2>2. m \in Union
    BY DEF Union
  <2>3. Begins(t, o, "setMAC", "setMac", SetMacTarget(o), m, None)
    BY <1>8, <2>1, <2>2 DEF Begins, SetMACAddress
  <2>4. QED
    BY <2>3
<1>9. QED
  BY <1>2, <1>3, <1>4, <1>5, <1>6, <1>7, <1>8 DEF Call

LEMMA BeginsDoes ==
  ASSUME TypedSoFar, NEW t \in Threads, NEW o \in Objects,
         NEW what, NEW first, NEW name, NEW union, NEW arg,
         Begins(t, o, what, first, name, union, arg)
  PROVE  /\ what \in Calls
         /\ At(t, "idle") /\ pc'[t] = first /\ first # "idle"
         /\ pc' \in [Threads -> Pcs]
         /\ UNCHANGED <<platform, conf, bound, handle, list, text, buffer,
                        result>>
         /\ obj' \in [Threads -> Objects \cup {NoObject}]
         /\ method' \in [Threads -> Methods \cup {None}]
         /\ DOMAIN args' = Threads /\ ifr' \in [Threads -> Ifreq]
         /\ obj'[t] = o /\ method'[t] = what /\ args'[t] = arg
         /\ ifr'[t].name = name /\ ifr'[t].union = union
         /\ misled' \in [Threads -> SUBSET Objects]
         /\ misled'[t] = NumberTaken(o)
         /\ IsOpen(o) \/ what \in ClosedCalls[platform]
         /\ what \in SerialCalls[platform] => ~InUse(o)
         /\ what \in AloneCalls[platform] => \A u \in Threads : method[u] # what
         /\ \A u \in Threads \ {t} :
              /\ pc'[u] = pc[u] /\ obj'[u] = obj[u] /\ method'[u] = method[u]
              /\ args'[u] = args[u] /\ ifr'[u] = ifr[u]
              /\ misled'[u] = misled[u]
<1>1. first \in Pcs /\ first # "idle"
  BY DEF Begins, StepsOf, Methods, Pcs
<1>2. /\ what \in Methods /\ name \in DeviceNames \cup {NoInterface}
      /\ union \in Union /\ Begin(t, o, what, first, name, union, arg)
  BY DEF Begins
<1>3. what \in Calls
  BY <1>2 DEF Begin
<1>4. QED
  BY <1>1, <1>2, <1>3, BeginDoes

LEMMA CallTyped ==
  ASSUME TypedSoFar, NEW t \in Threads, NEW o \in Objects, Call(t, o)
  PROVE  TypedSoFar'
<1>1. PICK what, first, name, union, arg :
        Begins(t, o, what, first, name, union, arg)
  BY CallBegins
<1>2. ASSUME NEW u \in Threads PROVE CallSound(u)' /\ UnionSound(u)'
  <2>1. CallSound(u) /\ UnionSound(u)
    BY DEF TypedSoFar
  <2>2. CASE u # t
    <3>1. pc'[u] = pc[u] /\ ifr'[u] = ifr[u] /\ obj'[u] = obj[u]
          /\ method'[u] = method[u] /\ args'[u] = args[u]
      BY <1>1, <2>2, BeginsDoes
    <3>2. CallSound(u)'
      BY <2>1, <3>1 DEF CallSound, At
    <3>3. UnionSound(u)'
      BY <2>1, <3>1 DEF UnionSound, At
    <3>4. QED
      BY <3>2, <3>3
  <2>3. CASE u = t
    <3>1. pc'[t] = first /\ obj'[t] = o /\ method'[t] = what
          /\ args'[t] = arg /\ ifr'[t].union = union
      BY <1>1, BeginsDoes
    <3>2. CallSound(t)'
      BY <1>1, <3>1 DEF Begins, CallSound
    <3>3. first = "setAddr" => arg \in Given /\ union \in Addresses \cup {Zero}
      <4>1. SUFFICES ASSUME first = "setAddr"
                     PROVE arg \in Given /\ union \in Addresses \cup {Zero}
        OBVIOUS
      <4>2. arg \in Given /\ union = Parse(arg[1], Zero)
        BY <1>1, <4>1 DEF Begins
      <4>3. arg[1] \in (Addresses \ Masks) \cup {Unparsed}
        BY <4>2 DEF Given
      <4>4. QED
        BY <4>2, <4>3, Parsed
    <3>4. /\ first \notin {"setFlags", "setMask"}
          /\ first = "setMtu" => union \in Mtus
          /\ first = "setMac" => union \in Macs
      BY <1>1 DEF Begins
    <3>5. UnionSound(t)'
      BY <3>1, <3>3, <3>4 DEF UnionSound, At
    <3>6. QED
      BY <2>3, <3>2, <3>5
  <2>4. QED
    BY <2>2, <2>3
<1>3. /\ platform' = platform /\ conf' = conf /\ bound' = bound
      /\ handle' = handle /\ list' = list
      /\ misled' \in [Threads -> SUBSET Objects]
      /\ pc' \in [Threads -> Pcs]
      /\ obj' \in [Threads -> Objects \cup {NoObject}]
      /\ method' \in [Threads -> Methods \cup {None}]
      /\ DOMAIN args' = Threads /\ ifr' \in [Threads -> Ifreq]
      /\ text' = text /\ buffer' = buffer /\ result' = result
  BY <1>1, BeginsDoes
<1>4. QED
  BY <1>2, <1>3 DEF TypedSoFar

LEMMA InterfacesTyped ==
  ASSUME TypedSoFar, NEW o \in Objects, Open(o) \/ Close(o)
  PROVE  TypedSoFar'
<1>1. /\ UNCHANGED <<platform, pc, obj, method, args, ifr, text, buffer,
                     result, misled>>
      /\ conf' \in [Interfaces -> Settings \cup {NoInterface}]
      /\ bound' \in [Objects -> Interfaces \cup {NoInterface}]
      /\ handle' \in [Objects -> Numbers \cup {NoHandle}]
      /\ list' \in [Numbers -> Interfaces \cup {NoInterface}]
  <2>1. CASE Open(o)
    BY <2>1, OpenDoes
  <2>2. CASE Close(o)
    BY <2>2, CloseDoes DEF TypedSoFar
  <2>3. QED
    BY <2>1, <2>2
<1>2. QED
  BY <1>1 DEF TypedSoFar, CallSound, UnionSound, At

LEMMA TypedInit == Init => TypedSoFar
<1>1. Empty \in Ifreq /\ None \in Words
  BY DEF Empty, Ifreq, Union, Words
<1>2. QED
  BY <1>1 DEF Init, TypedSoFar, CallSound, UnionSound, At, Pcs

LEMMA TypedNext == TypedSoFar /\ [Next]_vars => TypedSoFar'
<1>1. SUFFICES ASSUME TypedSoFar, [Next]_vars PROVE TypedSoFar'
  OBVIOUS
<1>2. ASSUME NEW o \in Objects, Open(o) \/ Close(o) PROVE TypedSoFar'
  BY <1>1, <1>2, InterfacesTyped
<1>3. ASSUME NEW t \in Threads, NEW o \in Objects, Call(t, o) PROVE TypedSoFar'
  BY <1>1, <1>3, CallTyped
<1>4. ASSUME NEW t \in Threads, Step(t) PROVE TypedSoFar'
  BY <1>1, <1>4, StepTyped, ReturnTyped
<1>5. CASE UNCHANGED vars
  BY <1>1, <1>5 DEF vars, devices, frame, call, TypedSoFar, CallSound,
     UnionSound, At
<1>6. QED
  BY <1>1, <1>2, <1>3, <1>4, <1>5 DEF Next

LEMMA TypedIsTypeOK == TypedSoFar => TypeOK
BY DEF TypedSoFar, TypeOK, Words, Ifreq

(* Every variable holds what its comment says, whichever way the calls of  *)
(* any threads interleave, provided that what an ioctl finds in the union  *)
(* of its ifreq is of the kind it takes, which TypedSoFar adds.            *)
THEOREM TypeCorrect == Spec => []TypeOK
<1>1. QED
  BY TypedInit, TypedNext, TypedIsTypeOK, PTL DEF Spec

-----------------------------------------------------------------------------
(* Which interfaces there are, and which calls                             *)

Setters == {"setFlags", "setMtu", "setAddr", "setMask", "setMac"}

LEMMA StepDoes ==
  ASSUME TypedSoFar, NEW t \in Threads, Step(t), ~Return(t)
  PROVE  /\ ~At(t, "idle")
         /\ \E step : step # "idle" /\ Onward(t, step)
         /\ \/ conf' = conf
            \/ pc[t] \in Setters /\ \E s \in Settings : Sets(t, s)
<1> USE DEF At, Setters
<1>1. CASE Fail(t)
  BY <1>1, FailDoes
<1>2. CASE GetFlags(t)
  BY <1>2, GetFlagsDoes
<1>3. CASE SetFlags(t)
  BY <1>3, SetFlagsDoes
<1>4. CASE GetMtu(t)
  BY <1>4, GetMtuDoes
<1>5. CASE SetMtu(t)
  BY <1>5, SetMtuDoes
<1>6. CASE GetAddr(t)
  BY <1>6, GetAddrDoes
<1>7. CASE CopyAddr(t)
  BY <1>7, CopyAddrDoes
<1>8. CASE GetMask(t)
  BY <1>8, GetMaskDoes
<1>9. CASE CopyMask(t)
  BY <1>9, CopyMaskDoes
<1>10. CASE SetAddr(t)
  BY <1>10, SetAddrDoes
<1>11. CASE SetMask(t)
  BY <1>11, SetMaskDoes
<1>12. CASE GetMac(t)
  BY <1>12, GetMacDoes
<1>13. CASE SetMac(t)
  BY <1>13, SetMacDoes
<1>14. QED
  BY <1>1, <1>2, <1>3, <1>4, <1>5, <1>6, <1>7, <1>8, <1>9, <1>10, <1>11,
     <1>12, <1>13 DEF Step

(* No step of a call makes an interface or takes one away.                 *)
LEMMA StepKeepsInterfaces ==
  ASSUME TypedSoFar, NEW t \in Threads, Step(t)
  PROVE  /\ platform' = platform /\ bound' = bound
         /\ handle' = handle /\ list' = list
         /\ \A i \in Interfaces : (conf'[i] = NoInterface) <=> (conf[i] = NoInterface)
<1>1. CASE Return(t)
  BY <1>1, ReturnDoes
<1>2. CASE ~Return(t)
  <2>1. platform' = platform /\ bound' = bound /\ handle' = handle /\ list' = list
    BY <1>2, StepDoes DEF Onward
  <2>2. CASE conf' = conf
    BY <2>1, <2>2
  <2>3. ASSUME NEW s \in Settings, Sets(t, s)
        PROVE \A i \in Interfaces : (conf'[i] = NoInterface) <=> (conf[i] = NoInterface)
    BY <2>3 DEF Sets, Exists
  <2>4. QED
    BY <1>2, <2>1, <2>2, <2>3, StepDoes
<1>3. QED
  BY <1>1, <1>2

LEMMA CallKeepsInterfaces ==
  ASSUME TypedSoFar, NEW t \in Threads, NEW o \in Objects, Call(t, o)
  PROVE  UNCHANGED <<platform, conf, bound, handle, list, text, buffer, result>>
BY CallBegins, BeginsDoes

LEMMA BoundInit == Init => BoundSound
BY DEF Init, BoundSound, Exists

LEMMA BoundNext == TypedSoFar /\ BoundSound /\ [Next]_vars => BoundSound'
<1>1. SUFFICES ASSUME TypedSoFar, BoundSound, [Next]_vars PROVE BoundSound'
  OBVIOUS
<1>2. ASSUME NEW o \in Objects, Open(o) PROVE BoundSound'
  <2>1. PICK i \in Creates(platform, o) :
          /\ i \in Interfaces /\ ~Exists(i)
          /\ bound'[o] = i /\ conf'[i] # NoInterface
          /\ \A j \in Interfaces \ {i} : conf'[j] = conf[j]
          /\ \A q \in Objects \ {o} : bound'[q] = bound[q]
    BY <1>1, <1>2, OpenDoes
  <2>2. platform' = platform
    BY <1>1, <1>2, OpenDoes
  <2>3. \A q \in Objects \ {o} : bound[q] # i
    BY <1>1, <2>1 DEF BoundSound
  <2>4. ASSUME NEW q \in Objects, bound'[q] # NoInterface
        PROVE  /\ bound'[q] \in Creates(platform, q) /\ bound'[q] \in Interfaces
               /\ conf'[bound'[q]] # NoInterface
    <3>1. CASE q = o
      BY <2>1, <3>1
    <3>2. CASE q # o
      <4>1. bound'[q] = bound[q] /\ bound[q] # i
        BY <2>1, <2>3, <3>2
      <4>2. bound[q] \in Creates(platform, q) /\ Exists(bound[q])
        BY <1>1, <2>4, <4>1 DEF BoundSound
      <4>3. QED
        BY <2>1, <4>1, <4>2 DEF Exists
    <3>3. QED
      BY <3>1, <3>2
  <2>5. \A q, r \in Objects : bound'[q] = bound'[r] /\ bound'[q] # NoInterface => q = r
    BY <1>1, <2>1, <2>3 DEF BoundSound
  <2>6. ASSUME NEW j \in Interfaces, conf'[j] # NoInterface
        PROVE \E q \in Objects : bound'[q] = j
    <3>1. CASE j = i
      BY <2>1, <3>1
    <3>2. CASE j # i
      <4>1. Exists(j)
        BY <2>1, <2>6, <3>2 DEF Exists
      <4>2. PICK q \in Objects : bound[q] = j
        BY <1>1, <4>1 DEF BoundSound
      <4>3. q # o
        BY <1>1, <1>2, <4>2, OpenDoes
      <4>4. QED
        BY <2>1, <4>2, <4>3
    <3>3. QED
      BY <3>1, <3>2
  <2>7. QED
    BY <2>2, <2>4, <2>5, <2>6 DEF BoundSound, Exists
<1>3. ASSUME NEW o \in Objects, Close(o) PROVE BoundSound'
  <2>1. /\ bound[o] \in Interfaces /\ platform' = platform
        /\ bound'[o] = NoInterface /\ conf'[bound[o]] = NoInterface
        /\ \A j \in Interfaces \ {bound[o]} : conf'[j] = conf[j]
        /\ \A q \in Objects \ {o} : bound'[q] = bound[q]
    BY <1>1, <1>3, CloseDoes
  <2>2. \A q \in Objects \ {o} : bound[q] # bound[o]
    BY <1>1, <2>1 DEF BoundSound
  <2>3. ASSUME NEW i \in Interfaces, Exists(i)' PROVE \E q \in Objects : bound'[q] = i
    <3>1. i # bound[o] /\ Exists(i)
      BY <2>1, <2>3 DEF Exists
    <3>2. PICK q \in Objects : bound[q] = i
      BY <1>1, <3>1 DEF BoundSound
    <3>3. QED
      BY <2>1, <3>1, <3>2
  <2>4. \A q \in Objects : bound'[q] # NoInterface =>
          bound'[q] \in Creates(platform, q) /\ Exists(bound[q]) /\ conf'[bound[q]] = conf[bound[q]]
                /\ bound'[q] = bound[q]
    BY <1>1, <2>1, <2>2 DEF BoundSound, Exists
  <2>5. \A q, r \in Objects : bound'[q] = bound'[r] /\ bound'[q] # NoInterface => q = r
    BY <1>1, <2>1, <2>4 DEF BoundSound
  <2>6. QED
    BY <2>1, <2>3, <2>4, <2>5 DEF BoundSound, Exists
<1>4. ASSUME platform' = platform, bound' = bound,
             \A i \in Interfaces : (conf'[i] = NoInterface) <=> (conf[i] = NoInterface)
      PROVE BoundSound'
  BY <1>1, <1>4 DEF BoundSound, Exists
<1>5. ASSUME NEW t \in Threads, NEW o \in Objects, Call(t, o) PROVE BoundSound'
  BY <1>1, <1>4, <1>5, CallKeepsInterfaces
<1>6. ASSUME NEW t \in Threads, Step(t) PROVE BoundSound'
  BY <1>1, <1>4, <1>6, StepKeepsInterfaces
<1>7. CASE UNCHANGED vars
  BY <1>4, <1>7 DEF vars, devices, frame, call
<1>8. QED
  BY <1>1, <1>2, <1>3, <1>5, <1>6, <1>7 DEF Next

LEMMA ListInit == Init => ListSound
BY DEF Init, ListSound, IsOpen

LEMMA ListOpen ==
  ASSUME TypedSoFar, ListSound, NEW o \in Objects, Open(o)
  PROVE  ListSound'
<1>1. PICK i \in Creates(platform, o), n \in Numbers :
        /\ i \in Interfaces /\ bound'[o] = i
        /\ \A q \in Objects \ {o} : bound'[q] = bound[q]
        /\ \A q \in Objects : IsOpen(q) => handle[q] # n
        /\ handle'[o] = n
        /\ \A q \in Objects \ {o} : handle'[q] = handle[q]
        /\ list'[n] = IF Entry(o, i) = NoInterface THEN list[n] ELSE i
        /\ \A k \in Numbers \ {n} : list'[k] = list[k]
  BY OpenDoes
<1>2. /\ platform' = platform /\ i # NoInterface
      /\ \A q \in Objects \ {o} : IsOpen(q)' <=> IsOpen(q)
      /\ IsOpen(o)'
  BY <1>1, OpenDoes DEF IsOpen
<1>3. list[n] = NoInterface
  BY <1>1 DEF ListSound
<1>4. Entry(o, i) # NoInterface <=> platform = "macos" /\ o \notin Taps
  BY <1>2 DEF Entry
<1>5. \A q \in Objects : IsOpen(q)' => handle'[q] \in Numbers
  BY <1>1, <1>2 DEF ListSound
<1>6. \A q, r \in Objects :
        IsOpen(q)' /\ IsOpen(r)' /\ handle'[q] = handle'[r] => q = r
  BY <1>1, <1>2 DEF ListSound
<1>7. ASSUME NEW q \in Objects \ Taps, platform = "macos", IsOpen(q)'
      PROVE  list'[handle'[q]] = bound'[q]
  <2>1. CASE q = o
    BY <1>1, <1>4, <1>7, <2>1
  <2>2. CASE q # o
    <3>1. IsOpen(q) /\ handle[q] # n /\ handle'[q] = handle[q] /\ bound'[q] = bound[q]
      BY <1>1, <1>2, <1>7, <2>2
    <3>2. handle[q] \in Numbers /\ list[handle[q]] = bound[q]
      BY <1>7, <3>1 DEF ListSound
    <3>3. QED
      BY <1>1, <3>1, <3>2
  <2>3. QED
    BY <2>1, <2>2
<1>8. ASSUME NEW k \in Numbers, list'[k] # NoInterface
      PROVE  /\ platform = "macos"
             /\ \E q \in Objects \ Taps : IsOpen(q)' /\ handle'[q] = k
  <2>1. CASE k = n
    <3>1. platform = "macos" /\ o \in Objects \ Taps
      BY <1>1, <1>3, <1>4, <1>8, <2>1
    <3>2. QED
      BY <1>1, <1>2, <2>1, <3>1
  <2>2. CASE k # n
    <3>1. list[k] # NoInterface
      BY <1>1, <1>8, <2>2
    <3>2. PICK q \in Objects \ Taps : IsOpen(q) /\ handle[q] = k
      BY <3>1 DEF ListSound
    <3>3. q # o
      BY <3>2, OpenDoes DEF IsOpen
    <3>4. QED
      BY <1>1, <1>2, <3>1, <3>2, <3>3 DEF ListSound
  <2>3. QED
    BY <2>1, <2>2
<1>9. QED
  BY <1>2, <1>5, <1>6, <1>7, <1>8 DEF ListSound

LEMMA ListClose ==
  ASSUME TypedSoFar, ListSound, NEW o \in Objects, Close(o)
  PROVE  ListSound'
<1>1. /\ platform' = platform /\ handle' = handle
      /\ bound'[o] = NoInterface
      /\ \A q \in Objects \ {o} : bound'[q] = bound[q]
      /\ handle[o] \in Numbers => list'[handle[o]] = NoInterface
      /\ \A k \in Numbers : k # handle[o] => list'[k] = list[k]
  BY CloseDoes
<1>2. /\ IsOpen(o) /\ ~IsOpen(o)'
      /\ \A q \in Objects \ {o} : IsOpen(q)' <=> IsOpen(q)
  BY <1>1 DEF IsOpen, Close, Release
<1>3. \A q \in Objects : IsOpen(q)' =>
        /\ IsOpen(q) /\ handle[q] # handle[o] /\ handle[q] \in Numbers
        /\ bound'[q] = bound[q] /\ list'[handle[q]] = list[handle[q]]
  BY <1>1, <1>2 DEF ListSound
<1>4. ASSUME NEW k \in Numbers, list'[k] # NoInterface
      PROVE  /\ platform = "macos"
             /\ \E q \in Objects \ Taps : IsOpen(q)' /\ handle[q] = k
  <2>1. k # handle[o] /\ list[k] # NoInterface
    BY <1>1, <1>4
  <2>2. platform = "macos"
    BY <2>1 DEF ListSound
  <2>3. PICK q \in Objects \ Taps : IsOpen(q) /\ handle[q] = k
    BY <2>1 DEF ListSound
  <2>4. QED
    BY <1>2, <2>1, <2>2, <2>3
<1>5. ASSUME NEW q \in Objects \ Taps, platform = "macos", IsOpen(q)'
      PROVE  list'[handle[q]] = bound'[q]
  <2>1. list[handle[q]] = bound[q]
    BY <1>3, <1>5 DEF ListSound
  <2>2. QED
    BY <1>3, <1>5, <2>1
<1>6. \A q, r \in Objects :
        IsOpen(q)' /\ IsOpen(r)' /\ handle[q] = handle[r] => q = r
  BY <1>3 DEF ListSound
<1>7. QED
  BY <1>1, <1>3, <1>4, <1>5, <1>6 DEF ListSound

LEMMA ListNext == TypedSoFar /\ ListSound /\ [Next]_vars => ListSound'
<1>1. SUFFICES ASSUME TypedSoFar, ListSound, [Next]_vars PROVE ListSound'
  OBVIOUS
<1>2. ASSUME UNCHANGED <<platform, bound, handle, list>> PROVE ListSound'
  BY <1>1, <1>2 DEF ListSound, IsOpen
<1>3. ASSUME NEW o \in Objects, Open(o) \/ Close(o) PROVE ListSound'
  BY <1>1, <1>3, ListOpen, ListClose
<1>4. ASSUME NEW t \in Threads, NEW o \in Objects, Call(t, o) PROVE ListSound'
  BY <1>1, <1>2, <1>4, CallKeepsInterfaces
<1>5. ASSUME NEW t \in Threads, Step(t) PROVE ListSound'
  BY <1>1, <1>2, <1>5, StepKeepsInterfaces
<1>6. CASE UNCHANGED vars
  BY <1>2, <1>6 DEF vars, devices
<1>7. QED
  BY <1>1, <1>3, <1>4, <1>5, <1>6 DEF Next

(* Which call a thread makes changes when it begins and ends only.         *)
LEMMA StepKeepsCalls ==
  ASSUME TypedSoFar, NEW t \in Threads, Step(t)
  PROVE  \A u \in Threads :
           InCall(u)' => /\ InCall(u) /\ obj'[u] = obj[u] /\ method'[u] = method[u]
                         /\ ifr'[u].name = ifr[u].name
                         /\ misled'[u] = misled[u]
<1>1. CASE Return(t)
  BY <1>1, ReturnDoes DEF InCall, At
<1>2. CASE ~Return(t)
  <2>1. PICK step : step # "idle" /\ Onward(t, step)
    BY <1>2, StepDoes
  <2>2. InCall(t)
    BY <1>2, StepDoes DEF InCall
  <2>3. QED
    BY <2>1, <2>2 DEF Onward, InCall, At
<1>3. QED
  BY <1>1, <1>2

LEMMA InterfacesKeepCalls ==
  ASSUME TypedSoFar, NEW o \in Objects, Open(o) \/ Close(o)
  PROVE  /\ ~InUse(o)
         /\ UNCHANGED <<platform, pc, obj, method, args, ifr, text, buffer,
                        result, misled>>
BY OpenDoes, CloseDoes

LEMMA OneCallInit == Init => OneSerialCall /\ OneAsker
BY DEF Init, OneSerialCall, OneAsker, InCall, At

LEMMA OneCallNext ==
  TypedSoFar /\ OneSerialCall /\ OneAsker /\ [Next]_vars
    => OneSerialCall' /\ OneAsker'
<1>1. SUFFICES ASSUME TypedSoFar, OneSerialCall, OneAsker, [Next]_vars
               PROVE OneSerialCall' /\ OneAsker'
  OBVIOUS
<1>2. ASSUME platform' = platform,
             \A u \in Threads :
               InCall(u)' => InCall(u) /\ obj'[u] = obj[u] /\ method'[u] = method[u]
      PROVE OneSerialCall' /\ OneAsker'
  BY <1>1, <1>2 DEF OneSerialCall, OneAsker
<1>3. ASSUME NEW o \in Objects, Open(o) \/ Close(o)
      PROVE OneSerialCall' /\ OneAsker'
  BY <1>1, <1>2, <1>3, InterfacesKeepCalls DEF InCall, At
<1>4. ASSUME NEW t \in Threads, NEW o \in Objects, Call(t, o)
      PROVE OneSerialCall' /\ OneAsker'
  <2>1. PICK what, first, name, union, arg :
          Begins(t, o, what, first, name, union, arg)
    BY <1>1, <1>4, CallBegins
  <2>2. /\ platform' = platform /\ obj'[t] = o /\ method'[t] = what
        /\ what \in SerialCalls[platform] => ~InUse(o)
        /\ what \in AloneCalls[platform] => \A u \in Threads : method[u] # what
        /\ \A u \in Threads \ {t} :
             pc'[u] = pc[u] /\ obj'[u] = obj[u] /\ method'[u] = method[u]
    BY <1>1, <2>1, BeginsDoes
  <2>3. \A u \in Threads \ {t} : obj[u] = o /\ method[u] \in SerialCalls[platform]
          => what \notin SerialCalls[platform]
    BY <2>2 DEF InUse
  <2>4. OneSerialCall'
    BY <1>1, <2>2, <2>3 DEF OneSerialCall, InCall, At
  <2>5. OneAsker'
    BY <1>1, <2>2 DEF OneAsker, InCall, At
  <2>6. QED
    BY <2>4, <2>5
<1>5. ASSUME NEW t \in Threads, Step(t) PROVE OneSerialCall' /\ OneAsker'
  BY <1>1, <1>2, <1>5, StepKeepsCalls, StepKeepsInterfaces
<1>6. CASE UNCHANGED vars
  BY <1>2, <1>6 DEF vars, devices, frame, call, InCall, At
<1>7. QED
  BY <1>1, <1>3, <1>4, <1>5, <1>6 DEF Next

LEMMA NamesInit == Init => \A t \in Threads : NameSound(t)
BY DEF Init, NameSound, InCall, At

(* What the list has for a number is the name of the open utun that has it.*)
LEMMA TargetSound ==
  ASSUME TypedSoFar, BoundSound, ListSound, NEW o \in Objects,
         platform = "macos"
  PROVE  \/ Target(o) = Cut[NameOf[o]] /\ ~(IsOpen(o) /\ o \notin Taps)
         \/ IsOpen(o) /\ o \notin Taps /\ Target(o) = bound[o]
         \/ /\ ~IsOpen(o)
            /\ \E q \in NumberTaken(o) : Target(o) = bound[q]
<1>1. Target(o) = MacTarget(o)
  BY DEF Target
<1>2. CASE Listed(handle[o])
  <2>1. handle[o] \in Numbers /\ list[handle[o]] # NoInterface
    BY <1>2 DEF Listed
  <2>2. PICK q \in Objects \ Taps : IsOpen(q) /\ handle[q] = handle[o]
    BY <2>1 DEF ListSound
  <2>3. list[handle[o]] = bound[q]
    BY <2>2 DEF ListSound
  <2>4. bound[q] \in Interfaces
    BY <2>2 DEF BoundSound, IsOpen, Exists
  <2>5. Target(o) = bound[q]
    BY <1>1, <1>2, <2>3, <2>4 DEF MacTarget
  <2>6. CASE IsOpen(o)
    BY <2>2, <2>5, <2>6 DEF ListSound
  <2>7. CASE ~IsOpen(o)
    <3>1. q \in NumberTaken(o)
      BY <2>2, <2>7 DEF NumberTaken
    <3>2. QED
      BY <2>5, <2>7, <3>1
  <2>8. QED
    BY <2>6, <2>7
<1>3. CASE ~Listed(handle[o])
  <2>1. Target(o) = Cut[NameOf[o]]
    BY <1>1, <1>3 DEF MacTarget
  <2>2. ASSUME IsOpen(o), o \notin Taps PROVE FALSE
    <3>1. handle[o] \in Numbers /\ list[handle[o]] = bound[o]
      BY <2>2 DEF ListSound
    <3>2. QED
      BY <1>3, <2>2, <3>1 DEF Listed, IsOpen
  <2>3. QED
    BY <2>1, <2>2
<1>4. QED
  BY <1>2, <1>3

LEMMA NamesBegin ==
  ASSUME TypedSoFar, BoundSound, ListSound, NEW t \in Threads,
         NEW o \in Objects, Call(t, o)
  PROVE  NameSound(t)'
<1>1. PICK what, first, name, union, arg :
        Begins(t, o, what, first, name, union, arg)
  BY CallBegins
<1>2. /\ platform' = platform /\ obj'[t] = o /\ method'[t] = what
      /\ ifr'[t].name = name /\ misled'[t] = NumberTaken(o)
      /\ IsOpen(o) \/ what \in ClosedCalls[platform]
      /\ what \in Calls
  BY <1>1, BeginsDoes
<1>3. /\ name = IF what = "getMAC" THEN MacAddressTarget(o)
                ELSE IF what = "setMAC" THEN SetMacTarget(o) ELSE Target(o)
      /\ what \in {"getMAC", "setMAC"} => o \in Taps
  BY <1>1 DEF Begins
<1>4. platform \in {"linux", "macos"}
  BY DEF TypedSoFar
<1>5. CASE platform = "linux"
  <2>1. name = Cut[NameOf[o]]
    BY <1>3, <1>5 DEF MacAddressTarget, SetMacTarget, Target, LinuxTarget
  <2>2. QED
    BY <1>2, <1>3, <1>5, <2>1 DEF NameSound, About
<1>6. CASE platform = "macos" /\ what \in {"getMAC", "setMAC"}
  <2>1. name \in About(o, what)
    BY <1>3, <1>6 DEF About, MacAddressTarget, SetMacTarget
  <2>2. QED
    BY <1>2, <1>3, <2>1 DEF NameSound, About
<1>7. CASE platform = "macos" /\ what \notin {"getMAC", "setMAC"}
  <2>1. name = Target(o)
    BY <1>3, <1>7
  <2>2. CASE Target(o) = Cut[NameOf[o]]
    BY <1>2, <1>3, <1>7, <2>1, <2>2 DEF NameSound, About
  <2>3. CASE IsOpen(o) /\ o \notin Taps /\ Target(o) = bound[o]
    <3>1. bound[o] \in Creates(platform, o)
      BY <2>3 DEF BoundSound, IsOpen
    <3>2. QED
      BY <1>2, <1>3, <1>7, <2>1, <2>3, <3>1 DEF NameSound, About
  <2>4. CASE ~IsOpen(o) /\ \E q \in NumberTaken(o) : Target(o) = bound[q]
    <3>1. PICK q \in NumberTaken(o) : name = bound[q]
      BY <2>1, <2>4
    <3>2. bound[q] \in Creates(platform, q)
      BY <3>1 DEF BoundSound, IsOpen, NumberTaken
    <3>3. what \in ClosedCalls["macos"]
      BY <1>2, <1>7, <2>4
    <3>4. Astray(t)'
      BY <1>2, <1>7, <3>1, <3>2, <3>3 DEF Astray
    <3>5. QED
      BY <1>2, <1>3, <3>4 DEF NameSound
  <2>5. QED
    BY <1>7, <2>2, <2>3, <2>4, TargetSound
<1>8. QED
  BY <1>4, <1>5, <1>6, <1>7

LEMMA NamesNext ==
  TypedSoFar /\ BoundSound /\ ListSound /\ (\A t \in Threads : NameSound(t))
    /\ [Next]_vars => \A t \in Threads : NameSound(t)'
<1>1. SUFFICES ASSUME TypedSoFar, BoundSound, ListSound,
                      \A t \in Threads : NameSound(t), [Next]_vars
               PROVE \A t \in Threads : NameSound(t)'
  OBVIOUS
<1>2. ASSUME platform' = platform, NEW u \in Threads,
             InCall(u)' => /\ InCall(u) /\ obj'[u] = obj[u] /\ method'[u] = method[u]
                           /\ ifr'[u].name = ifr[u].name /\ misled'[u] = misled[u]
      PROVE NameSound(u)'
  <2>1. NameSound(u)
    BY <1>1
  <2>2. QED
    BY <1>2, <2>1 DEF NameSound, About, Astray
<1>3. ASSUME NEW o \in Objects, Open(o) \/ Close(o)
      PROVE \A t \in Threads : NameSound(t)'
  BY <1>1, <1>2, <1>3, InterfacesKeepCalls DEF InCall, At
<1>4. ASSUME NEW t \in Threads, NEW o \in Objects, Call(t, o)
      PROVE \A u \in Threads : NameSound(u)'
  <2>1. PICK what, first, name, union, arg :
          Begins(t, o, what, first, name, union, arg)
    BY <1>1, <1>4, CallBegins
  <2>2. /\ platform' = platform
        /\ \A u \in Threads \ {t} :
             /\ pc'[u] = pc[u] /\ obj'[u] = obj[u] /\ method'[u] = method[u]
             /\ ifr'[u] = ifr[u] /\ misled'[u] = misled[u]
    BY <1>1, <2>1, BeginsDoes
  <2>3. ASSUME NEW u \in Threads \ {t} PROVE NameSound(u)'
    BY <1>2, <2>2 DEF InCall, At
  <2>4. NameSound(t)'
    BY <1>1, <1>4, NamesBegin
  <2>5. QED
    BY <2>3, <2>4
<1>5. ASSUME NEW t \in Threads, Step(t) PROVE \A u \in Threads : NameSound(u)'
  BY <1>1, <1>2, <1>5, StepKeepsCalls, StepKeepsInterfaces
<1>6. CASE UNCHANGED vars
  BY <1>2, <1>6 DEF vars, devices, frame, call, InCall, At
<1>7. QED
  BY <1>1, <1>3, <1>4, <1>5, <1>6 DEF Next

LEMMA ReachingNext ==
  TypedSoFar /\ Reaching /\ [Next]_vars => Reaching'
BY BoundNext, ListNext, OneCallNext, NamesNext DEF Reaching

LEMMA ReachingInit == Init => Reaching
BY BoundInit, ListInit, OneCallInit, NamesInit DEF Reaching

-----------------------------------------------------------------------------
(* A call is about the interface its object has.  On macOS a TUN device is *)
(* found in the list when the call begins, and a TAP device is not, though *)
(* its number may have been in the list before; and both stay what they    *)
(* are because the clients take turns.                                     *)

MacSound ==
  \A t \in Threads :
    platform = "macos" /\ InCall(t) /\ IsOpen(obj[t]) =>
      ifr[t].name = bound[obj[t]]

LEMMA MacInit == Init => MacSound
BY DEF Init, MacSound, InCall, At

LEMMA MacBegins ==
  ASSUME OneTap, TypedSoFar, Reaching, platform = "macos",
         NEW t \in Threads, NEW o \in Objects, IsOpen(o),
         NEW what, NEW first, NEW name, NEW union, NEW arg,
         Begins(t, o, what, first, name, union, arg)
  PROVE  name = bound[o]
<1>1. /\ name = IF what = "getMAC" THEN Tap0
                ELSE IF what = "setMAC" THEN Cut[NameOf[o]] ELSE Target(o)
      /\ what \in {"getMAC", "setMAC"} => o \in Taps
  BY DEF Begins, MacAddressTarget, SetMacTarget
<1>2. what \in Calls
  BY BeginsDoes
<1>3. bound[o] \in Creates("macos", o) /\ bound[o] \in Interfaces
  BY DEF Reaching, BoundSound, IsOpen, Exists
<1>4. o \in Taps => bound[o] = NameOf[o] /\ bound[o] = Cut[NameOf[o]]
  BY <1>3 DEF Creates
<1>5. CASE what = "getMAC"
  <2>1. Creates("macos", o) \subseteq {Tap0}
    BY <1>1, <1>2, <1>5 DEF OneTap, TypedSoFar
  <2>2. QED
    BY <1>1, <1>3, <1>5, <2>1
<1>6. CASE what = "setMAC"
  BY <1>1, <1>4, <1>6
<1>7. CASE what \notin {"getMAC", "setMAC"}
  BY <1>1, <1>4, <1>7, TargetSound DEF Reaching
<1>8. QED
  BY <1>5, <1>6, <1>7

LEMMA MacNext ==
  ASSUME OneTap, InTurn, TypedSoFar, Reaching, MacSound, [Next]_vars
  PROVE  MacSound'
<1>1. ASSUME platform' = platform, bound' = bound,
             \A u \in Threads :
               InCall(u)' => /\ InCall(u) /\ obj'[u] = obj[u]
                             /\ ifr'[u].name = ifr[u].name
      PROVE MacSound'
  BY <1>1 DEF MacSound, IsOpen
<1>2. ASSUME NEW o \in Objects, Open(o) \/ Close(o) PROVE MacSound'
  <2>1. /\ ~InUse(o)
        /\ UNCHANGED <<platform, pc, obj, method, args, ifr, text, buffer, result>>
        /\ \A q \in Objects \ {o} : bound'[q] = bound[q]
    BY <1>2, OpenDoes, CloseDoes
  <2>2. ASSUME NEW t \in Threads, platform = "macos", InCall(t)
        PROVE obj[t] \in Objects \ {o}
    <3>1. platform \in Platforms
      BY DEF TypedSoFar
    <3>2. method[t] \in SerialCalls[platform] /\ obj[t] \in Objects
      BY <2>2, <3>1, CallsHaveSteps DEF InTurn, InCall
    <3>3. QED
      BY <2>1, <3>2 DEF InUse
  <2>3. QED
    BY <2>1, <2>2 DEF MacSound, IsOpen, InCall, At
<1>3. ASSUME NEW t \in Threads, NEW o \in Objects, Call(t, o) PROVE MacSound'
  <2>1. PICK what, first, name, union, arg :
          Begins(t, o, what, first, name, union, arg)
    BY <1>3, CallBegins
  <2>2. /\ platform' = platform /\ bound' = bound
        /\ obj'[t] = o /\ ifr'[t].name = name
        /\ \A u \in Threads \ {t} :
             pc'[u] = pc[u] /\ obj'[u] = obj[u] /\ ifr'[u] = ifr[u]
    BY <2>1, BeginsDoes
  <2>3. platform = "macos" /\ IsOpen(o) => name = bound[o]
    BY <2>1, MacBegins
  <2>4. QED
    BY <2>2, <2>3 DEF MacSound, IsOpen, InCall, At
<1>4. ASSUME NEW t \in Threads, Step(t) PROVE MacSound'
  BY <1>1, <1>4, StepKeepsCalls, StepKeepsInterfaces
<1>5. CASE UNCHANGED vars
  BY <1>1, <1>5 DEF vars, devices, frame, call, InCall, At
<1>6. QED
  BY <1>2, <1>3, <1>4, <1>5 DEF Next

LEMMA ReachesOwn ==
  ASSUME OwnName, TypedSoFar, Reaching, MacSound
  PROVE  ConfigReachesOwnInterface
<1>1. SUFFICES ASSUME NEW t \in Threads, InCall(t), IsOpen(obj[t])
               PROVE  ifr[t].name = bound[obj[t]]
  BY DEF ConfigReachesOwnInterface, InCall, At
<1>2. platform \in Platforms /\ platform \in {"linux", "macos"} /\ obj[t] \in Objects
  BY <1>1, CallsHaveSteps DEF TypedSoFar, InCall
<1>3. CASE platform = "linux"
  <2>1. ifr[t].name = Cut[NameOf[obj[t]]]
    BY <1>1, <1>3 DEF Reaching, NameSound, About, Astray
  <2>2. bound[obj[t]] \in Grants[Cut[NameOf[obj[t]]]]
    BY <1>1, <1>2, <1>3 DEF Reaching, BoundSound, IsOpen, Creates
  <2>3. QED
    BY <1>2, <1>3, <2>1, <2>2 DEF OwnName
<1>4. CASE platform = "macos"
  BY <1>1, <1>4 DEF MacSound
<1>5. QED
  BY <1>2, <1>3, <1>4

(* While a device is open, every configuration call on it is about the     *)
(* interface its own open() got.  On Linux: calls and TUNSETIFF cut the    *)
(* name alike, and any calls may overlap.  On macOS: a TUN device has an   *)
(* entry of its own number for as long as it is open, and none is left for *)
(* the number of a TAP device, whoever had the number before and whatever  *)
(* is called on closed devices; there the clients take turns, and tap0 is  *)
(* the only TAP device getMACAddress() can be about.                       *)
THEOREM ReachesOwnInterface ==
  ASSUME OwnName, OneTap, InTurn
  PROVE  Spec => []ConfigReachesOwnInterface
<1> DEFINE Inv == TypedSoFar /\ Reaching /\ MacSound
<1>1. Init => Inv
  BY TypedInit, ReachingInit, MacInit
<1>2. Inv /\ [Next]_vars => Inv'
  BY TypedNext, ReachingNext, MacNext
<1>3. Inv => ConfigReachesOwnInterface
  BY ReachesOwn
<1>4. QED
  BY <1>1, <1>2, <1>3, PTL DEF Spec

-----------------------------------------------------------------------------
(* Devices apart: an ioctl finds the interface of the call's own object,   *)
(* or none, or that of the utun which has the number of its closed device. *)

Misled(t) ==
  /\ platform = "macos" /\ method[t] \in ClosedCalls["macos"]
  /\ \E q \in misled[t] : bound[q] = ifr[t].name

LEMMA Own ==
  ASSUME Apart, TypedSoFar, Reaching, NEW t \in Threads, InCall(t),
         ~(platform = "macos" /\ method[t] = "getMAC"),
         Exists(ifr[t].name)
  PROVE  bound[obj[t]] = ifr[t].name \/ Misled(t)
<1>1. platform \in Platforms /\ obj[t] \in Objects /\ misled[t] \subseteq Objects
  BY CallsHaveSteps DEF TypedSoFar, InCall
<1>2. PICK q \in Objects : bound[q] = ifr[t].name
  BY DEF Reaching, BoundSound, Exists
<1>3. bound[q] \in Creates(platform, q)
  BY <1>2 DEF Reaching, BoundSound, Exists
<1>4. CASE ifr[t].name \in About(obj[t], method[t])
  <2>1. ifr[t].name \in {Cut[NameOf[obj[t]]]} \cup Creates(platform, obj[t])
    BY <1>4 DEF About
  <2>2. q = obj[t]
    BY <1>1, <1>2, <1>3, <2>1 DEF Apart
  <2>3. QED
    BY <1>2, <2>2
<1>5. CASE Astray(t)
  <2>1. PICK r \in misled[t] : ifr[t].name \in Creates("macos", r)
    BY <1>5 DEF Astray
  <2>2. q = r
    BY <1>1, <1>2, <1>3, <1>5, <2>1 DEF Apart, Astray
  <2>3. QED
    BY <1>2, <1>5, <2>1, <2>2 DEF Astray, Misled
<1>6. QED
  BY <1>4, <1>5 DEF Reaching, NameSound

Isolated ==
  \A o \in Objects :
    IsOpen(o) /\ bound'[o] = bound[o] /\ conf'[bound[o]] # conf[bound[o]] =>
      \E t \in Threads : (obj[t] = o \/ o \in misled[t]) /\ pc'[t] # pc[t]

LEMMA StepIsolated ==
  ASSUME Apart, TypedSoFar, Reaching, [Next]_vars
  PROVE  Isolated
<1>1. SUFFICES ASSUME NEW o \in Objects, bound[o] # NoInterface,
                      bound'[o] = bound[o], conf'[bound[o]] # conf[bound[o]]
               PROVE  \E t \in Threads :
                        (obj[t] = o \/ o \in misled[t]) /\ pc'[t] # pc[t]
  BY DEF Isolated, IsOpen
<1>2. bound[o] \in Interfaces /\ Exists(bound[o])
  BY <1>1 DEF Reaching, BoundSound, Exists
<1>3. ASSUME NEW q \in Objects, Open(q) PROVE FALSE
  <2>1. PICK i \in Interfaces :
          ~Exists(i) /\ \A j \in Interfaces \ {i} : conf'[j] = conf[j]
    BY <1>3, OpenDoes
  <2>2. QED
    BY <1>1, <1>2, <2>1
<1>4. ASSUME NEW q \in Objects, Close(q) PROVE FALSE
  <2>1. /\ bound'[q] = NoInterface
        /\ \A j \in Interfaces \ {bound[q]} : conf'[j] = conf[j]
    BY <1>4, CloseDoes
  <2>2. bound[q] = bound[o]
    BY <1>1, <1>2, <2>1
  <2>3. q = o
    BY <1>1, <2>2 DEF Reaching, BoundSound
  <2>4. QED
    BY <1>1, <2>1, <2>3
<1>5. ASSUME NEW t \in Threads, NEW q \in Objects, Call(t, q) PROVE FALSE
  BY <1>1, <1>5, CallKeepsInterfaces
<1>6. ASSUME NEW t \in Threads, Step(t)
      PROVE (obj[t] = o \/ o \in misled[t]) /\ pc'[t] # pc[t]
  <2>1. ~Return(t)
    BY <1>1, <1>6, ReturnDoes
  <2>2. InCall(t) /\ pc'[t] # pc[t]
    BY <1>6, <2>1, StepDoes DEF InCall, Onward
  <2>3. PICK s \in Settings : Sets(t, s) /\ pc[t] \in Setters
    BY <1>1, <1>6, <2>1, StepDoes
  <2>4. method[t] # "getMAC"
    BY <2>3, MethodOf DEF Setters, At
  <2>5. Exists(ifr[t].name) /\ bound[o] = ifr[t].name
    BY <1>1, <1>2, <2>3 DEF Sets
  <2>6. obj[t] \in Objects /\ misled[t] \subseteq Objects
    BY <2>2, CallsHaveSteps DEF InCall, TypedSoFar
  <2>7. bound[obj[t]] = bound[o] \/ \E q \in misled[t] : bound[q] = bound[o]
    BY <2>2, <2>4, <2>5, Own DEF Misled
  <2>8. obj[t] = o \/ o \in misled[t]
    BY <1>1, <2>6, <2>7 DEF Reaching, BoundSound
  <2>9. QED
    BY <2>2, <2>8
<1>7. CASE UNCHANGED vars
  BY <1>1, <1>7 DEF vars, devices, frame, call
<1>8. QED
  BY <1>3, <1>4, <1>5, <1>6, <1>7 DEF Next

(* The settings of the interface of an open device change in calls on this *)
(* device only, whatever calls are made on others, open or not, by any     *)
(* number of threads: with the one exception, on macOS, of calls on a      *)
(* closed device whose deviceHandle was the number of this device when     *)
(* they began.                                                             *)
THEOREM SettingsIsolated ==
  ASSUME Apart
  PROVE  Spec => SettingsAreIsolated
<1> DEFINE Inv == TypedSoFar /\ Reaching
<1>1. Init => Inv
  BY TypedInit, ReachingInit
<1>2. Inv /\ [Next]_vars => Inv'
  BY TypedNext, ReachingNext
<1>3. Inv /\ [Next]_vars =>
        [\A o \in Objects :
           LET i == bound[o]
           IN IsOpen(o) /\ bound'[o] = i /\ conf'[i] # conf[i] =>
                \E t \in Threads :
                  (obj[t] = o \/ o \in misled[t]) /\ pc'[t] # pc[t]]_vars
  BY StepIsolated DEF Isolated
<1>4. QED
  BY <1>1, <1>2, <1>3, PTL DEF Spec, SettingsAreIsolated

-----------------------------------------------------------------------------
(* What others do during a call of several ioctls leaves flags, address    *)
(* and mask of its interface as they are.                                  *)

SameSettings(i) ==
  /\ (conf'[i] = NoInterface) <=> (conf[i] = NoInterface)
  /\ conf[i] # NoInterface =>
       /\ conf'[i].flags = conf[i].flags
       /\ conf'[i].addr = conf[i].addr /\ conf'[i].mask = conf[i].mask

Untouched(t) ==
  /\ platform' = platform
  /\ pc'[t] = pc[t] /\ obj'[t] = obj[t] /\ method'[t] = method[t]
  /\ args'[t] = args[t] /\ ifr'[t] = ifr[t]
  /\ text'[t] = text[t] /\ result'[t] = result[t]
  /\ InCall(t) /\ method[t] \in SeveralIoctls =>
       \A i \in Interfaces : ifr[t].name = i => SameSettings(i)

LEMMA OpenElsewhere ==
  ASSUME Apart, InTurn, OnOpenDevices, TypedSoFar, Reaching, NEW o \in Objects,
         Open(o) \/ Close(o), NEW t \in Threads, InCall(t),
         method[t] \in SeveralIoctls, ifr[t].name \in Interfaces
  PROVE  conf'[ifr[t].name] = conf[ifr[t].name]
<1>1. /\ platform \in Platforms /\ obj[t] \in Objects
      /\ method[t] \in SerialCalls[platform]
  BY CallsHaveSteps DEF TypedSoFar, InCall, InTurn, SeveralIoctls
<1>2. o # obj[t]
  BY <1>1, OpenDoes, CloseDoes DEF InUse
<1>3. ifr[t].name \in {Cut[NameOf[obj[t]]]} \cup Creates(platform, obj[t])
  <2>1. ~Astray(t)
    BY <1>1 DEF Astray, OnOpenDevices
  <2>2. QED
    BY <2>1 DEF Reaching, NameSound, About, SeveralIoctls
<1>4. \A i \in Creates(platform, o) : i # ifr[t].name
  BY <1>1, <1>2, <1>3 DEF Apart
<1>5. CASE Open(o)
  BY <1>4, <1>5, OpenDoes
<1>6. CASE Close(o)
  <2>1. bound[o] # ifr[t].name
    BY <1>4, <1>6, CloseDoes DEF Reaching, BoundSound
  <2>2. QED
    BY <1>6, <2>1, CloseDoes
<1>7. QED
  BY <1>5, <1>6

(* The steps that set anything leave alone what they are not about.        *)
LEMMA SetterDoes ==
  ASSUME TypedSoFar, NEW u \in Threads, Step(u), ~Return(u), conf' # conf
  PROVE  /\ pc[u] \in Setters
         /\ \E s \in Settings :
              /\ Sets(u, s)
              /\ ~At(u, "setFlags") => s.flags = Current(u).flags
              /\ At(u, "setFlags") => s.flags \ {"up"} = ifr[u].union \ {"up"}
              /\ At(u, "setFlags") \/ At(u, "setMtu") \/ At(u, "setMac") =>
                   s.addr = Current(u).addr /\ s.mask = Current(u).mask
<1> USE DEF At, Setters
<1>1. CASE SetFlags(u)
  BY <1>1, SetFlagsDoes
<1>2. CASE SetMtu(u)
  BY <1>2, SetMtuDoes
<1>3. CASE SetAddr(u)
  BY <1>3, SetAddrDoes
<1>4. CASE SetMask(u)
  BY <1>4, SetMaskDoes
<1>5. CASE SetMac(u)
  BY <1>5, SetMacDoes
<1>6. QED
  BY <1>1, <1>2, <1>3, <1>4, <1>5, FailDoes, GetFlagsDoes, GetMtuDoes,
     GetAddrDoes, CopyAddrDoes, GetMaskDoes, CopyMaskDoes, GetMacDoes DEF Step

LEMMA StepElsewhere ==
  ASSUME Apart, InTurn, OnOpenDevices, TypedSoFar, Reaching, NEW u \in Threads, Step(u),
         NEW t \in Threads \ {u}, InCall(t),
         method[t] \in SeveralIoctls, ifr[t].name \in Interfaces
  PROVE  SameSettings(ifr[t].name)
<1>1. CASE Return(u) \/ conf' = conf
  BY <1>1, ReturnDoes DEF SameSettings
<1>2. CASE ~Return(u) /\ conf' # conf
  <2>1. PICK s \in Settings :
          /\ Sets(u, s)
          /\ At(u, "setFlags") \/ At(u, "setMtu") \/ At(u, "setMac") =>
               s.addr = Current(u).addr /\ s.mask = Current(u).mask
          /\ ~At(u, "setFlags") => s.flags = Current(u).flags
    BY <1>2, SetterDoes
  <2>2. pc[u] \in Setters /\ InCall(u)
    BY <1>2, SetterDoes DEF InCall, At, Setters
  <2>3. CASE ifr[u].name # ifr[t].name
    BY <2>1, <2>3 DEF Sets, SameSettings
  <2>4. CASE ifr[u].name = ifr[t].name
    <3>1. Exists(ifr[u].name) /\ Exists(ifr[t].name)
      BY <2>1, <2>4 DEF Sets
    <3>2. method[u] # "getMAC" /\ method[t] # "getMAC"
      BY <2>2, MethodOf DEF Setters, At, SeveralIoctls
    <3>3. platform \in Platforms /\ method[t] \in SerialCalls[platform]
      BY DEF TypedSoFar, InTurn, SeveralIoctls
    <3>4. bound[obj[t]] = ifr[t].name
      BY <3>1, <3>2, <3>3, Own DEF Misled, OnOpenDevices
    <3>5. obj[u] \in Objects /\ obj[t] \in Objects
      BY <2>2, CallsHaveSteps DEF InCall
    <3>6. ASSUME bound[obj[u]] = ifr[t].name PROVE method[u] \notin SeveralIoctls
      <4>1. obj[u] = obj[t]
        BY <3>1, <3>4, <3>5, <3>6 DEF Reaching, BoundSound, Exists
      <4>2. method[u] \notin SerialCalls[platform]
        BY <2>2, <3>3, <4>1 DEF Reaching, OneSerialCall
      <4>3. QED
        BY <3>3, <4>2 DEF InTurn, SeveralIoctls
    <3>7. ASSUME Misled(u) PROVE method[u] \notin SeveralIoctls
      BY <3>3, <3>7 DEF Misled, OnOpenDevices
    <3>8. method[u] \notin SeveralIoctls
      BY <2>2, <2>4, <3>1, <3>2, <3>6, <3>7, Own
    <3>9. At(u, "setMtu") \/ At(u, "setMac")
      BY <2>2, <3>8, MethodOf DEF Setters, At, SeveralIoctls
    <3>10. s.flags = Current(u).flags /\ s.addr = Current(u).addr
           /\ s.mask = Current(u).mask
      BY <2>1, <3>9 DEF At
    <3>11. QED
      BY <2>1, <2>4, <3>1, <3>10 DEF Sets, SameSettings, Current, Exists
  <2>5. QED
    BY <2>3, <2>4
<1>3. QED
  BY <1>1, <1>2

LEMMA OthersLeaveAlone ==
  ASSUME Apart, InTurn, OnOpenDevices, TypedSoFar, Reaching, [Next]_vars, NEW t \in Threads
  PROVE  Untouched(t) \/ Step(t) \/ \E o \in Objects : Call(t, o)
<1>1. ASSUME NEW o \in Objects, Open(o) \/ Close(o) PROVE Untouched(t)
  <2>1. UNCHANGED <<platform, pc, obj, method, args, ifr, text, buffer, result>>
    BY <1>1, OpenDoes, CloseDoes
  <2>2. QED
    BY <1>1, <2>1, OpenElsewhere DEF Untouched, SameSettings
<1>2. ASSUME NEW u \in Threads \ {t}, NEW o \in Objects, Call(u, o)
      PROVE Untouched(t)
  <2>1. PICK what, first, name, union, arg :
          Begins(u, o, what, first, name, union, arg)
    BY <1>2, CallBegins
  <2>2. UNCHANGED <<platform, conf, bound, handle, list, text, buffer, result>>
        /\ pc'[t] = pc[t] /\ obj'[t] = obj[t] /\ method'[t] = method[t]
        /\ args'[t] = args[t] /\ ifr'[t] = ifr[t]
    BY <2>1, BeginsDoes
  <2>3. QED
    BY <2>2 DEF Untouched, SameSettings
<1>3. ASSUME NEW u \in Threads \ {t}, Step(u) PROVE Untouched(t)
  <2>1. /\ platform' = platform
        /\ pc'[t] = pc[t] /\ obj'[t] = obj[t] /\ method'[t] = method[t]
        /\ args'[t] = args[t] /\ ifr'[t] = ifr[t]
        /\ text'[t] = text[t] /\ result'[t] = result[t]
    <3>1. CASE Return(u)
      BY <3>1, ReturnDoes
    <3>2. CASE ~Return(u)
      BY <1>3, <3>2, StepDoes DEF Onward
    <3>3. QED
      BY <3>1, <3>2
  <2>2. QED
    BY <1>3, <2>1, StepElsewhere DEF Untouched
<1>4. CASE UNCHANGED vars
  BY <1>4 DEF vars, devices, frame, call, Untouched, SameSettings
<1>5. QED
  BY <1>1, <1>2, <1>3, <1>4 DEF Next

LEMMA ExistsUntouched ==
  ASSUME TypedSoFar, NEW t \in Threads, Untouched(t), InCall(t),
         method[t] \in SeveralIoctls
  PROVE  /\ Exists(ifr[t].name)' <=> Exists(ifr[t].name)
         /\ Exists(ifr[t].name) =>
              /\ Current(t)'.flags = Current(t).flags
              /\ Current(t)'.addr = Current(t).addr
              /\ Current(t)'.mask = Current(t).mask
BY DEF Untouched, SameSettings, Exists, Current

(* A step on an interface leaves it there.                                 *)
LEMMA NameStays ==
  ASSUME TypedSoFar, NEW t \in Threads, Step(t), ~Return(t)
  PROVE  /\ ifr'[t].name = ifr[t].name
         /\ Exists(ifr[t].name)' <=> Exists(ifr[t].name)
<1>1. ifr'[t].name = ifr[t].name
  BY StepDoes DEF Onward
<1>2. QED
  BY <1>1, StepKeepsInterfaces DEF Exists

(* The one step that leads to a step within a call                         *)
LEMMA LedBy ==
  ASSUME TypedSoFar, NEW t \in Threads, Step(t)
  PROVE  /\ pc'[t] = "setFlags" => GetFlags(t)
         /\ pc'[t] = "copyAddr" => GetAddr(t)
         /\ pc'[t] = "getMask" => CopyAddr(t)
         /\ pc'[t] = "copyMask" => GetMask(t)
         /\ pc'[t] = "setMask" => SetAddr(t)
         /\ pc'[t] # "setAddr"
         /\ pc'[t] = "returned" /\ method[t] = "getIP" => Fail(t) \/ CopyMask(t)
         /\ pc'[t] = "returned" /\ method[t] = "setIP" => Fail(t) \/ SetMask(t)
<1>1. CASE Fail(t)
  BY <1>1, FailDoes DEF Onward
<1>2. CASE GetFlags(t)
  BY <1>2, GetFlagsDoes DEF Onward
<1>3. CASE SetFlags(t)
  BY <1>3, SetFlagsDoes, MethodOf DEF Onward
<1>4. CASE GetMtu(t)
  BY <1>4, GetMtuDoes, MethodOf DEF Onward
<1>5. CASE SetMtu(t)
  BY <1>5, SetMtuDoes, MethodOf DEF Onward
<1>6. CASE GetAddr(t)
  BY <1>6, GetAddrDoes DEF Onward
<1>7. CASE CopyAddr(t)
  BY <1>7, CopyAddrDoes DEF Onward
<1>8. CASE GetMask(t)
  BY <1>8, GetMaskDoes DEF Onward
<1>9. CASE CopyMask(t)
  BY <1>9, CopyMaskDoes, MethodOf DEF Onward
<1>10. CASE SetAddr(t)
  BY <1>10, SetAddrDoes DEF Onward
<1>11. CASE SetMask(t)
  BY <1>11, SetMaskDoes, MethodOf DEF Onward
<1>12. CASE GetMac(t)
  BY <1>12, GetMacDoes, MethodOf DEF Onward
<1>13. CASE SetMac(t)
  BY <1>13, SetMacDoes, MethodOf DEF Onward
<1>14. CASE Return(t)
  BY <1>14, ReturnDoes
<1>15. QED
  BY <1>1, <1>2, <1>3, <1>4, <1>5, <1>6, <1>7, <1>8, <1>9, <1>10, <1>11,
     <1>12, <1>13, <1>14 DEF Step

-----------------------------------------------------------------------------
(* setStatus(): the flags it has read stay current until it writes them.   *)

LEMMA StatusNext ==
  ASSUME Apart, InTurn, OnOpenDevices, TypedSoFar, Reaching, [Next]_vars,
         NEW t \in Threads, StatusSoFar(t)
  PROVE  StatusSoFar(t)'
<1>1. CASE Untouched(t)
  <2>1. SUFFICES ASSUME At(t, "setFlags")', Exists(ifr[t].name)'
                 PROVE  ifr'[t].union \ {"up"} = Current(t)'.flags \ {"up"}
    BY DEF StatusSoFar
  <2>2. At(t, "setFlags") /\ InCall(t) /\ ifr'[t] = ifr[t]
    BY <1>1, <2>1 DEF Untouched, At, InCall
  <2>3. method[t] \in SeveralIoctls
    BY <2>2, MethodOf DEF SeveralIoctls
  <2>4. Exists(ifr[t].name) /\ Current(t)'.flags = Current(t).flags
    BY <1>1, <2>1, <2>2, <2>3, ExistsUntouched
  <2>5. QED
    BY <2>2, <2>4 DEF StatusSoFar
<1>2. ASSUME NEW o \in Objects, Call(t, o) PROVE StatusSoFar(t)'
  <2>1. PICK what, first, name, union, arg :
          Begins(t, o, what, first, name, union, arg)
    BY <1>2, CallBegins
  <2>2. pc'[t] = first
    BY <2>1, BeginsDoes
  <2>3. first # "setFlags"
    BY <2>1 DEF Begins
  <2>4. QED
    BY <2>2, <2>3 DEF StatusSoFar, At
<1>3. CASE Step(t)
  <2>1. CASE GetFlags(t)
    <3>1. /\ Exists(ifr[t].name) /\ ifr'[t].union = Current(t).flags
          /\ ifr'[t].name = ifr[t].name /\ conf' = conf
      BY <2>1, GetFlagsDoes DEF Onward
    <3>2. QED
      BY <3>1 DEF StatusSoFar, Current
  <2>2. CASE ~GetFlags(t)
    <3>1. pc'[t] # "setFlags"
      BY <1>3, <2>2, LedBy
    <3>2. QED
      BY <3>1 DEF StatusSoFar, At
  <2>3. QED
    BY <2>1, <2>2
<1>4. QED
  BY <1>1, <1>2, <1>3, OthersLeaveAlone

FlagsKept ==
  \A i \in Interfaces :
    Exists(i) /\ conf'[i] # NoInterface =>
      conf'[i].flags \ {"up"} = conf[i].flags \ {"up"}

LEMMA StepKeepsFlags ==
  ASSUME TypedSoFar, \A t \in Threads : StatusSoFar(t), [Next]_vars
  PROVE  FlagsKept
<1>1. ASSUME conf' = conf PROVE FlagsKept
  BY <1>1 DEF FlagsKept
<1>2. ASSUME NEW o \in Objects, Open(o) PROVE FlagsKept
  BY <1>2, OpenDoes DEF FlagsKept
<1>3. ASSUME NEW o \in Objects, Close(o) PROVE FlagsKept
  BY <1>3, CloseDoes DEF FlagsKept
<1>4. ASSUME NEW t \in Threads, NEW o \in Objects, Call(t, o) PROVE FlagsKept
  BY <1>1, <1>4, CallKeepsInterfaces
<1>5. ASSUME NEW t \in Threads, Step(t) PROVE FlagsKept
  <2>1. CASE Return(t) \/ conf' = conf
    BY <1>1, <2>1, ReturnDoes
  <2>2. CASE ~Return(t) /\ conf' # conf
    <3>1. PICK s \in Settings :
            /\ Sets(t, s)
            /\ ~At(t, "setFlags") => s.flags = Current(t).flags
            /\ At(t, "setFlags") => s.flags \ {"up"} = ifr[t].union \ {"up"}
      BY <1>5, <2>2, SetterDoes
    <3>2. s.flags \ {"up"} = Current(t).flags \ {"up"}
      BY <3>1 DEF StatusSoFar, Sets
    <3>3. QED
      BY <3>1, <3>2 DEF FlagsKept, Sets, Current
  <2>3. QED
    BY <2>1, <2>2
<1>6. CASE UNCHANGED vars
  BY <1>1, <1>6 DEF vars, devices, frame, call
<1>7. QED
  BY <1>2, <1>3, <1>4, <1>5, <1>6 DEF Next

(* setStatus() reads the flags of the interface and writes them back with  *)
(* IFF_UP changed: no other flag is ever lost, even when setMTU() or       *)
(* setMACAddress() on Linux come in between, as long as calls of several   *)
(* ioctls on one device take turns.                                        *)
THEOREM StatusKeepsFlags ==
  ASSUME Apart, InTurn, OnOpenDevices
  PROVE  Spec => StatusKeepsOtherFlags
<1> DEFINE Inv == TypedSoFar /\ Reaching /\ \A t \in Threads : StatusSoFar(t)
<1>1. Init => Inv
  <2>1. Init => \A t \in Threads : StatusSoFar(t)
    BY DEF Init, StatusSoFar, At
  <2>2. QED
    BY <2>1, TypedInit, ReachingInit
<1>2. Inv /\ [Next]_vars => Inv'
  BY TypedNext, ReachingNext, StatusNext
<1>3. Inv /\ [Next]_vars =>
        [\A i \in Interfaces :
           Exists(i) /\ conf'[i] # NoInterface =>
             conf'[i].flags \ {"up"} = conf[i].flags \ {"up"}]_vars
  BY StepKeepsFlags DEF FlagsKept
<1>4. QED
  BY <1>1, <1>2, <1>3, PTL DEF Spec, StatusKeepsOtherFlags

-----------------------------------------------------------------------------
(* setIPAddress(): the address it has set is still there when it sets the  *)
(* mask, and both when it returns.                                         *)

LEMMA Answers ==
  ASSUME TypedSoFar, NEW t \in Threads, Step(t), pc'[t] # "returned"
  PROVE  result'[t] = None \/ (result'[t] = result[t] /\ pc[t] # "returned")
<1>1. CASE Return(t)
  BY <1>1, ReturnDoes
<1>2. CASE ~Return(t)
  <2>1. GetFlags(t) \/ GetAddr(t) \/ CopyAddr(t) \/ GetMask(t) \/ SetAddr(t)
    BY <1>2, FailDoes, SetFlagsDoes, GetMtuDoes, SetMtuDoes, CopyMaskDoes,
       SetMaskDoes, GetMacDoes, SetMacDoes DEF Step, Onward
  <2>2. QED
    BY <2>1, GetFlagsDoes, GetAddrDoes, CopyAddrDoes, GetMaskDoes,
       SetAddrDoes DEF At
<1>3. QED
  BY <1>1, <1>2

LEMMA SetIPUntouched ==
  ASSUME TypedSoFar, NEW t \in Threads, SetIPSoFar(t), Untouched(t)
  PROVE  SetIPSoFar(t)'
<1>1. /\ platform' = platform /\ pc'[t] = pc[t] /\ method'[t] = method[t]
      /\ args'[t] = args[t] /\ ifr'[t] = ifr[t] /\ result'[t] = result[t]
  BY DEF Untouched
<1>2. At(t, "setMask") \/ (At(t, "returned") /\ method[t] = "setIP")
        => /\ Exists(ifr[t].name)' <=> Exists(ifr[t].name)
           /\ Exists(ifr[t].name) =>
                /\ Current(t)'.addr = Current(t).addr
                /\ Current(t)'.mask = Current(t).mask
  BY MethodOf, ExistsUntouched DEF SeveralIoctls, InCall, At
<1>3. (~At(t, "returned") => result[t] # Done)'
  BY <1>1 DEF SetIPSoFar, At
<1>4. (/\ (At(t, "setAddr") \/ At(t, "setMask")) /\ Unparsed \notin Strings[platform]
            => args[t][2] # Unparsed
       /\ At(t, "setAddr") => ifr[t].union = Parse(args[t][1], Zero))'
  BY <1>1 DEF SetIPSoFar, At
<1>5. (At(t, "setMask") =>
         /\ Exists(ifr[t].name)
         /\ Current(t).addr = Parse(args[t][1], Zero)
         /\ ifr[t].union = Parse(args[t][2], Parse(args[t][1], Zero)))'
  <2>1. SUFFICES ASSUME At(t, "setMask")
                 PROVE  /\ Exists(ifr[t].name)'
                        /\ Current(t)'.addr = Parse(args'[t][1], Zero)
                        /\ ifr'[t].union = Parse(args'[t][2], Parse(args'[t][1], Zero))
    BY <1>1 DEF At
  <2>2. /\ Exists(ifr[t].name)
        /\ Current(t).addr = Parse(args[t][1], Zero)
        /\ ifr[t].union = Parse(args[t][2], Parse(args[t][1], Zero))
    BY <2>1 DEF SetIPSoFar
  <2>3. Exists(ifr[t].name)' /\ Current(t)'.addr = Current(t).addr
    BY <1>2, <2>1, <2>2
  <2>4. QED
    BY <1>1, <2>2, <2>3
<1>6. (method[t] = "setIP" /\ result[t] = Done =>
         /\ At(t, "returned") /\ Exists(ifr[t].name)
         /\ <<Current(t).addr, Current(t).mask>> = args[t])'
  <2>1. SUFFICES ASSUME method[t] = "setIP", result[t] = Done
                 PROVE  /\ At(t, "returned")' /\ Exists(ifr[t].name)'
                        /\ <<Current(t)'.addr, Current(t)'.mask>> = args'[t]
    BY <1>1
  <2>2. /\ At(t, "returned") /\ Exists(ifr[t].name)
        /\ <<Current(t).addr, Current(t).mask>> = args[t]
    BY <2>1 DEF SetIPSoFar
  <2>3. /\ Exists(ifr[t].name)' /\ Current(t)'.addr = Current(t).addr
        /\ Current(t)'.mask = Current(t).mask
    BY <1>2, <2>1, <2>2
  <2>4. QED
    BY <1>1, <2>2, <2>3 DEF At
<1>7. QED
  BY <1>3, <1>4, <1>5, <1>6 DEF SetIPSoFar

LEMMA SetIPBegins ==
  ASSUME TypedSoFar, NEW t \in Threads, SetIPSoFar(t), NEW o \in Objects,
         Call(t, o)
  PROVE  SetIPSoFar(t)'
<1>1. PICK what, first, name, union, arg :
        Begins(t, o, what, first, name, union, arg)
  BY CallBegins
<1>2. /\ At(t, "idle") /\ pc'[t] = first /\ platform' = platform
      /\ result' = result /\ args'[t] = arg /\ ifr'[t].union = union
  BY <1>1, BeginsDoes
<1>3. result'[t] # Done
  BY <1>2 DEF SetIPSoFar, At
<1>4. /\ first # "setMask" /\ first # "returned"
      /\ first = "setAddr" =>
           /\ union = Parse(arg[1], Zero)
           /\ Unparsed \notin Strings[platform] => arg[2] # Unparsed
  BY <1>1 DEF Begins
<1>5. QED
  BY <1>2, <1>3, <1>4 DEF SetIPSoFar, At

LEMMA SetMaskEffective ==
  ASSUME AllParsed, TypedSoFar, NEW t \in Threads, SetIPSoFar(t), SetMask(t)
  PROVE  /\ Exists(ifr[t].name)'
         /\ <<Current(t)'.addr, Current(t)'.mask>> = args'[t]
<1>1. PICK s \in Settings :
        Sets(t, s) /\ s.addr = Current(t).addr /\ s.mask = ifr[t].union
  BY SetMaskDoes
<1>2. /\ At(t, "setMask") /\ args' = args /\ ifr' = ifr
      /\ TakesMask(Current(t), ifr[t].union)
  BY SetMaskDoes DEF Onward
<1>3. /\ Current(t)' = s /\ Exists(ifr[t].name)'
  BY <1>1, <1>2 DEF Sets, Current, Exists
<1>4. /\ Current(t).addr = Parse(args[t][1], Zero)
      /\ ifr[t].union = Parse(args[t][2], Parse(args[t][1], Zero))
      /\ Unparsed \notin Strings[platform] => args[t][2] # Unparsed
  BY <1>2 DEF SetIPSoFar
<1>5. args[t] \in Given
  BY <1>2 DEF TypedSoFar, UnionSound
<1>6. /\ args[t] = <<args[t][1], args[t][2]>>
      /\ args[t][1] \in (Addresses \ Masks) \cup {Unparsed}
  BY <1>5 DEF Given
<1>7. Current(t).addr # Zero /\ (platform = "linux" => ifr[t].union \in Masks)
  BY <1>2 DEF TakesMask, HasAddress
<1>8. args[t][1] # Unparsed /\ Current(t).addr = args[t][1]
  BY <1>4, <1>7 DEF Parse
<1>9. args[t][2] # Unparsed
  <2>1. CASE platform = "linux"
    BY <1>4, <1>6, <1>7, <1>8, <2>1 DEF Parse
  <2>2. CASE platform = "macos"
    BY <1>4, <2>2 DEF AllParsed, TypedSoFar
  <2>3. QED
    BY <2>1, <2>2 DEF TypedSoFar
<1>10. ifr[t].union = args[t][2]
  BY <1>4, <1>9 DEF Parse
<1>11. <<s.addr, s.mask>> = args[t]
  BY <1>1, <1>6, <1>8, <1>10
<1>12. QED
  BY <1>2, <1>3, <1>11

LEMMA SetIPSteps ==
  ASSUME AllParsed, TypedSoFar, NEW t \in Threads, SetIPSoFar(t), Step(t)
  PROVE  SetIPSoFar(t)'
<1>1. (~At(t, "returned") => result[t] # Done)'
  BY Answers DEF SetIPSoFar, At
<1>2. ~At(t, "setAddr")'
  BY LedBy DEF At
<1>3. ASSUME At(t, "setMask")'
      PROVE  /\ (Unparsed \notin Strings[platform])' => args'[t][2] # Unparsed
             /\ Exists(ifr[t].name)'
             /\ Current(t)'.addr = Parse(args'[t][1], Zero)
             /\ ifr'[t].union = Parse(args'[t][2], Parse(args'[t][1], Zero))
  <2>1. SetAddr(t)
    BY <1>3, LedBy DEF At
  <2>2. PICK s \in Settings : Sets(t, s) /\ s.addr = ifr[t].union
    BY <2>1, SetAddrDoes
  <2>3. /\ At(t, "setAddr") /\ args' = args /\ ifr'[t].name = ifr[t].name
        /\ platform' = platform
        /\ ifr'[t].union = Parse(args[t][2], ifr[t].union)
    BY <2>1, SetAddrDoes DEF Onward
  <2>4. /\ ifr[t].union = Parse(args[t][1], Zero)
        /\ Unparsed \notin Strings[platform] => args[t][2] # Unparsed
    BY <2>3 DEF SetIPSoFar
  <2>5. Current(t)' = s /\ Exists(ifr[t].name)'
    BY <2>2, <2>3 DEF Sets, Current, Exists
  <2>6. QED
    BY <2>2, <2>3, <2>4, <2>5
<1>4. ASSUME method'[t] = "setIP", result'[t] = Done
      PROVE  /\ At(t, "returned")' /\ Exists(ifr[t].name)'
             /\ <<Current(t)'.addr, Current(t)'.mask>> = args'[t]
  <2>1. pc'[t] = "returned"
    BY <1>1, <1>4 DEF At
  <2>2. ~Return(t)
    BY <2>1, ReturnDoes
  <2>3. method[t] = "setIP"
    BY <1>4, <2>2, StepDoes DEF Onward
  <2>4. SetMask(t)
    BY <1>4, <2>1, <2>3, LedBy, FailDoes
  <2>5. QED
    BY <2>1, <2>4, SetMaskEffective DEF At
<1>5. QED
  BY <1>1, <1>2, <1>3, <1>4 DEF SetIPSoFar

LEMMA SetIPNext ==
  ASSUME Apart, InTurn, OnOpenDevices, AllParsed, TypedSoFar, Reaching, [Next]_vars,
         NEW t \in Threads, SetIPSoFar(t)
  PROVE  SetIPSoFar(t)'
BY OthersLeaveAlone, SetIPUntouched, SetIPBegins, SetIPSteps

(* A setIPAddress() that returns has set the address and the mask of its   *)
(* arguments, though it looks at neither result of inet_pton(): an address *)
(* that does not parse leaves 0.0.0.0 in the union, and no mask can follow *)
(* it; a mask that does not parse leaves the address there, and Linux does *)
(* not take it for a mask.  On macOS, where the kernel may take it, the    *)
(* theorem is about masks that parse.                                      *)
THEOREM SetIPEffective ==
  ASSUME Apart, InTurn, OnOpenDevices, AllParsed
  PROVE  Spec => []SetIPTakesEffect
<1> DEFINE Inv == TypedSoFar /\ Reaching /\ \A t \in Threads : SetIPSoFar(t)
<1>1. Init => Inv
  <2>1. Init => \A t \in Threads : SetIPSoFar(t)
    BY DEF Init, SetIPSoFar, At
  <2>2. QED
    BY <2>1, TypedInit, ReachingInit
<1>2. Inv /\ [Next]_vars => Inv'
  BY TypedNext, ReachingNext, SetIPNext
<1>3. Inv => SetIPTakesEffect
  BY DEF SetIPSoFar, SetIPTakesEffect
<1>4. QED
  BY <1>1, <1>2, <1>3, PTL DEF Spec

-----------------------------------------------------------------------------
(* getIPAddress(): nobody else writes to the buffer it copies from.        *)

LEMMA BufferStays ==
  ASSUME OneAnswer, TypedSoFar, Reaching, NEW u \in Threads, Step(u),
         NEW t \in Threads \ {u}, InCall(t), method[t] = "getIP"
  PROVE  buffer'[BufferOf(t)] = buffer[BufferOf(t)]
<1>1. BufferOf(t) \in Threads \cup {Shared} /\ BufferOf(t) # u
  BY BufferTyped DEF BufferOf
<1>2. buffer \in [Threads \cup {Shared} -> Words]
  BY DEF TypedSoFar
<1>3. CASE Return(u)
  BY <1>1, <1>2, <1>3, ReturnDoes
<1>4. CASE GetAddr(u) \/ GetMask(u)
  <2>1. InCall(u) /\ method[u] = "getIP"
    BY <1>4, GetAddrDoes, GetMaskDoes, MethodOf DEF InCall, At
  <2>2. platform = "macos" => t = u
    BY <2>1 DEF OneAnswer, Reaching, OneAsker, TypedSoFar
  <2>3. BufferOf(u) # BufferOf(t)
    BY <2>2 DEF BufferOf, TypedSoFar
  <2>4. \E v : buffer' = [buffer EXCEPT ![BufferOf(u)] = v]
    <3>1. CASE GetAddr(u)
      BY <3>1, GetAddrDoes
    <3>2. CASE GetMask(u)
      BY <3>2, GetMaskDoes
    <3>3. QED
      BY <1>4, <3>1, <3>2
  <2>5. QED
    BY <1>1, <1>2, <2>3, <2>4
<1>5. CASE ~Return(u) /\ ~GetAddr(u) /\ ~GetMask(u)
  <2>1. buffer' = buffer
    BY <1>5, FailDoes, GetFlagsDoes, SetFlagsDoes, GetMtuDoes, SetMtuDoes,
       CopyAddrDoes, CopyMaskDoes, SetAddrDoes, SetMaskDoes, GetMacDoes,
       SetMacDoes DEF Step, Silent
  <2>2. QED
    BY <2>1
<1>6. QED
  BY <1>3, <1>4, <1>5

LEMMA BufferLeftAlone ==
  ASSUME OneAnswer, TypedSoFar, Reaching, [Next]_vars, NEW t \in Threads,
         InCall(t), method[t] = "getIP", ~Step(t)
  PROVE  buffer'[BufferOf(t)] = buffer[BufferOf(t)]
<1>1. CASE \E u \in Threads : Step(u)
  BY <1>1, BufferStays
<1>2. CASE ~\E u \in Threads : Step(u)
  <2>1. buffer' = buffer
    BY <1>2, OpenDoes, CloseDoes, CallKeepsInterfaces DEF Next, vars, devices, frame, call
  <2>2. QED
    BY <2>1
<1>3. QED
  BY <1>1, <1>2

LEMMA GetIPUntouched ==
  ASSUME OneAnswer, TypedSoFar, Reaching, [Next]_vars, NEW t \in Threads,
         GetIPSoFar(t), Untouched(t), ~Step(t)
  PROVE  GetIPSoFar(t)'
<1>1. /\ platform' = platform /\ pc'[t] = pc[t] /\ method'[t] = method[t]
      /\ ifr'[t] = ifr[t] /\ text'[t] = text[t] /\ result'[t] = result[t]
  BY DEF Untouched
<1>2. BufferOf(t)' = BufferOf(t)
  BY <1>1 DEF BufferOf
<1>3. At(t, "copyAddr") \/ At(t, "getMask") \/ At(t, "copyMask")
        \/ (At(t, "returned") /\ method[t] = "getIP")
      => /\ Exists(ifr[t].name)' <=> Exists(ifr[t].name)
         /\ Exists(ifr[t].name) =>
              /\ Current(t)'.addr = Current(t).addr
              /\ Current(t)'.mask = Current(t).mask
         /\ buffer'[BufferOf(t)] = buffer[BufferOf(t)]
  BY MethodOf, ExistsUntouched, BufferLeftAlone DEF SeveralIoctls, InCall, At
<1>4. ASSUME At(t, "copyAddr")
      PROVE  Exists(ifr[t].name)' /\ buffer'[BufferOf(t)] = Current(t)'.addr
  BY <1>3, <1>4 DEF GetIPSoFar
<1>5. ASSUME At(t, "getMask")
      PROVE  Exists(ifr[t].name)' /\ text'[t] = Current(t)'.addr
  BY <1>1, <1>3, <1>5 DEF GetIPSoFar
<1>6. ASSUME At(t, "copyMask")
      PROVE  /\ Exists(ifr[t].name)' /\ text'[t] = Current(t)'.addr
             /\ buffer'[BufferOf(t)] = Current(t)'.mask
  BY <1>1, <1>3, <1>6 DEF GetIPSoFar
<1>7. ASSUME At(t, "returned"), method[t] = "getIP", result[t] # Threw
      PROVE  /\ Exists(ifr[t].name)'
             /\ result'[t] = <<Current(t)'.addr, Current(t)'.mask>>
  <2>1. /\ Exists(ifr[t].name)
        /\ result[t] = <<Current(t).addr, Current(t).mask>>
    BY <1>7 DEF GetIPSoFar
  <2>2. QED
    BY <1>1, <1>3, <1>7, <2>1
<1>8. QED
  BY <1>1, <1>2, <1>4, <1>5, <1>6, <1>7 DEF GetIPSoFar, At

LEMMA GetIPBegins ==
  ASSUME TypedSoFar, NEW t \in Threads, NEW o \in Objects, Call(t, o)
  PROVE  GetIPSoFar(t)'
<1>1. PICK what, first, name, union, arg :
        Begins(t, o, what, first, name, union, arg)
  BY CallBegins
<1>2. pc'[t] = first
  BY <1>1, BeginsDoes
<1>3. first \notin {"copyAddr", "getMask", "copyMask", "returned"}
  BY <1>1 DEF Begins
<1>4. QED
  BY <1>2, <1>3 DEF GetIPSoFar, At

LEMMA GetIPSteps ==
  ASSUME TypedSoFar, NEW t \in Threads, GetIPSoFar(t), Step(t)
  PROVE  GetIPSoFar(t)'
<1>1. BufferOf(t) \in Threads \cup {Shared} /\ BufferOf(t)' = BufferOf(t)
  BY BufferTyped, StepKeepsInterfaces DEF BufferOf
<1>2. buffer \in [Threads \cup {Shared} -> Words]
  BY DEF TypedSoFar
<1>3. ASSUME At(t, "copyAddr")'
      PROVE  Exists(ifr[t].name)' /\ buffer'[BufferOf(t)] = Current(t)'.addr
  <2>1. GetAddr(t)
    BY <1>3, LedBy DEF At
  <2>2. /\ Exists(ifr[t].name) /\ ifr'[t].name = ifr[t].name /\ conf' = conf
        /\ buffer' = [buffer EXCEPT ![BufferOf(t)] = Current(t).addr]
    BY <2>1, GetAddrDoes DEF Onward
  <2>3. Current(t)' = Current(t) /\ Exists(ifr[t].name)'
    BY <2>2 DEF Current, Exists
  <2>4. QED
    BY <1>1, <1>2, <2>2, <2>3
<1>4. ASSUME At(t, "getMask")'
      PROVE  Exists(ifr[t].name)' /\ text'[t] = Current(t)'.addr
  <2>1. CopyAddr(t)
    BY <1>4, LedBy DEF At
  <2>2. /\ At(t, "copyAddr") /\ ifr' = ifr /\ conf' = conf
        /\ text'[t] = buffer[BufferOf(t)]
    BY <2>1, CopyAddrDoes
  <2>3. Current(t)' = Current(t) /\ (Exists(ifr[t].name)' <=> Exists(ifr[t].name))
    BY <2>2 DEF Current, Exists
  <2>4. QED
    BY <2>2, <2>3 DEF GetIPSoFar
<1>5. ASSUME At(t, "copyMask")'
      PROVE  /\ Exists(ifr[t].name)' /\ text'[t] = Current(t)'.addr
             /\ buffer'[BufferOf(t)] = Current(t)'.mask
  <2>1. GetMask(t)
    BY <1>5, LedBy DEF At
  <2>2. /\ At(t, "getMask") /\ ifr'[t].name = ifr[t].name /\ conf' = conf
        /\ Exists(ifr[t].name) /\ text' = text
        /\ buffer' = [buffer EXCEPT ![BufferOf(t)] = Current(t).mask]
    BY <2>1, GetMaskDoes DEF Onward
  <2>3. Current(t)' = Current(t) /\ Exists(ifr[t].name)'
    BY <2>2 DEF Current, Exists
  <2>4. text[t] = Current(t).addr
    BY <2>2 DEF GetIPSoFar
  <2>5. QED
    BY <1>1, <1>2, <2>2, <2>3, <2>4
<1>6. ASSUME At(t, "returned")', method'[t] = "getIP", result'[t] # Threw
      PROVE  /\ Exists(ifr[t].name)'
             /\ result'[t] = <<Current(t)'.addr, Current(t)'.mask>>
  <2>1. pc'[t] = "returned" /\ ~Return(t)
    BY <1>6, ReturnDoes DEF At
  <2>2. method[t] = "getIP"
    BY <1>6, <2>1, StepDoes DEF Onward
  <2>3. CopyMask(t)
    BY <1>6, <2>1, <2>2, LedBy, FailDoes
  <2>4. /\ At(t, "copyMask") /\ conf' = conf /\ ifr' = ifr
        /\ result'[t] = <<text[t], buffer[BufferOf(t)]>>
    BY <2>3, CopyMaskDoes
  <2>5. Current(t)' = Current(t) /\ (Exists(ifr[t].name)' <=> Exists(ifr[t].name))
    BY <2>4 DEF Current, Exists
  <2>6. /\ Exists(ifr[t].name) /\ text[t] = Current(t).addr
        /\ buffer[BufferOf(t)] = Current(t).mask
    BY <2>4 DEF GetIPSoFar
  <2>7. QED
    BY <2>4, <2>5, <2>6
<1>7. QED
  BY <1>1, <1>3, <1>4, <1>5, <1>6 DEF GetIPSoFar

LEMMA GetIPNext ==
  ASSUME Apart, InTurn, OnOpenDevices, OneAnswer, TypedSoFar, Reaching, [Next]_vars,
         NEW t \in Threads, GetIPSoFar(t)
  PROVE  GetIPSoFar(t)'
BY OthersLeaveAlone, GetIPUntouched, GetIPBegins, GetIPSteps

(* getIPAddress() asks twice and copies each answer from where inet_ntoa() *)
(* has put it; what it answers is nevertheless the address and the mask of *)
(* its own interface at one moment: on Linux with any number of threads in *)
(* getIPAddress() of different devices, each with a buffer of its own, on  *)
(* macOS if they take turns at the one buffer there is.                    *)
THEOREM GetIPWhole ==
  ASSUME Apart, InTurn, OnOpenDevices, OneAnswer
  PROVE  Spec => []GetIPIsWhole
<1> DEFINE Inv == TypedSoFar /\ Reaching /\ \A t \in Threads : GetIPSoFar(t)
<1>1. Init => Inv
  <2>1. Init => \A t \in Threads : GetIPSoFar(t)
    BY DEF Init, GetIPSoFar, At
  <2>2. QED
    BY <2>1, TypedInit, ReachingInit
<1>2. Inv /\ [Next]_vars => Inv'
  BY TypedNext, ReachingNext, GetIPNext
<1>3. Inv => GetIPIsWhole
  BY DEF GetIPSoFar, GetIPIsWhole, At
<1>4. QED
  BY <1>1, <1>2, <1>3, PTL DEF Spec

==============================================================================
