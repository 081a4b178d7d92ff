----------------------------- MODULE WindowsDevice -----------------------------
(***************************************************************************)
(* A TapDevice on Windows.  Three parts of the system answer its calls:    *)
(* the handle table of the process (open(), close() and whatever uses      *)
(* deviceHandle), the registry (getMTU(), setMTU()) and the IP helper      *)
(* (getIPAddress(), setIPAddress()).  The first finds an adapter by handle, *)
(* the others by deviceName, which is the adapter's GUID.                  *)
(*                                                                         *)
(* The registry has a numbered key for each adapter.  The MTU calls ask    *)
(* how many there are and then for the first, the second and so on, each   *)
(* time anew, while adapters come and go, those of calls in progress, too. *)
(* The process may die in setMTU(); the next one starts afresh.            *)
(*                                                                         *)
(* Discipline is what all clients promise:                                 *)
(*   "serial"    open() and close() of one object do not overlap;          *)
(*   "closeOnce" close() follows an open() that returned, and no other     *)
(*               close() came in between;                                  *)
(*   "config"    MTU and IP calls on one adapter do not overlap.           *)
(*                                                                         *)
(* open() of a TunDevice and setMACAddress() throw before they do anything. *)
(***************************************************************************)
EXTENDS Integers, FiniteSets

CONSTANTS
  Objects, Threads,
  Adapters,    \* the adapters that may be installed
  NameOf,      \* NameOf[o]: the adapter whose GUID is o's deviceName
  Handles,     \* the handle values the process may get
  Slots,       \* the numbers of registry keys
  Foreign,     \* what a key without a NetCfgInstanceId we may read stands for
  Mtus,        \* what clients pass to setMTU(), and
  Short,       \* those of at most four characters
  Default,     \* 1500
  NoMtu,       \* an adapter without the registry value
  Ips, Masks,  \* what clients pass for addresses and masks, and
  Unparsed,    \* a string that is none
  Given,       \* the address that an adapter has from elsewhere (DHCP), if it
  Leased,      \* is one of these
  Usages,      \* sets of methods: the clients of a behaviour use one of them
  Discipline,
  Nobody, Nothing, Threw, Done

Methods == {"open", "close", "use", "getMTU", "setMTU", "getIP", "setIP"}

ASSUME WindowsAssumption ==
  /\ NameOf \in [Objects -> Adapters]
  /\ Slots \subseteq Nat /\ Handles \subseteq Nat
  /\ IsFiniteSet(Slots)
  /\ Foreign \notin Adapters /\ Nothing \notin Adapters \cup {Foreign}
  /\ Nobody \notin Objects
  /\ Short \subseteq Mtus
  /\ Given \notin Ips \X Masks /\ Unparsed \notin Ips \cup Masks
  /\ Nothing \notin (Ips \cup {Unparsed}) \X (Masks \cup {Unparsed})
  /\ Leased \subseteq Adapters
  /\ Usages \subseteq SUBSET Methods
  /\ Discipline \subseteq {"serial", "closeOnce", "config"}

ASSUME MethodAssumption == Nothing \notin Methods

VARIABLES
  usage,         \* the methods in use, the same from start to end
  handleTable,   \* handleTable[h]: the object whose open() made the file
  ref,           \* ref[t]: the file that thread t's I/O in progress holds
  deviceHandle,  \* deviceHandle[o]: the field
  held,          \* the objects whose client has opened and not closed them
  reg,           \* reg[k]: the adapter registry key k is about
  mtu,           \* mtu[g]: the value "MTU" of adapter g's key
  addrs,         \* addrs[g]: the addresses of adapter g
  frame,         \* frame[t]: the call of thread t
  disturbed,     \* the threads whose walk has met keys that came or went, or
                 \* a key that could not be read
  refused,       \* the threads whose write the registry has refused
  moved,         \* the threads during whose call their adapter came, went or
                 \* was written to by a call that meant another
  strayed        \* some getIfIndex() has left its result uninitialised

handles == <<handleTable, ref, deviceHandle, held>>
registry == <<reg, mtu>>
history == <<disturbed, refused, moved, strayed>>
system == <<usage, handles, registry, addrs>>
vars == <<system, frame, history>>

NoHandle == -1
NoKey == -1

Pcs == {"idle", "create", "assign", "closeHandle", "control", "io", "count",
        "enum", "instance", "value", "resolve", "snapshot", "delete",
        "returned"}

(* A thread's next step, method, object and handle; of the walk over the   *)
(* registry the number of keys, the index, the last key's name and whether *)
(* an exception is pending; of an IP call the interface index and the      *)
(* addresses of the adapter list that are left; the result.                *)
Idle == [pc |-> "idle", method |-> Nothing, obj |-> Nobody, arg |-> Nothing,
         handle |-> NoHandle, count |-> 0, i |-> 0, name |-> NoKey,
         pending |-> FALSE, ifIndex |-> Nothing, list |-> {},
         result |-> Nothing]

Addresses == (Ips \X Masks) \cup {Given}

Fresh(g) == IF g \in Leased THEN {Given} ELSE {}

TypeOK ==
  /\ usage \in Usages
  /\ handleTable \in [Handles -> Objects \cup {Nobody}]
  /\ ref \in [Threads -> Objects \cup {Nobody}]
  /\ deviceHandle \in [Objects -> Handles \cup {NoHandle}]
  /\ held \subseteq Objects
  /\ reg \in [Slots -> Adapters \cup {Foreign, Nothing}]
  /\ mtu \in [Adapters -> Short \cup {NoMtu, Nothing}]
  /\ addrs \in [Adapters -> SUBSET Addresses]
  /\ \A t \in Threads :
       LET f == frame[t]
       IN /\ f.pc \in Pcs
          /\ f.obj \in Objects \cup {Nobody}
          /\ f.handle \in Handles \cup {NoHandle}
          /\ f.count \in 0 .. Cardinality(Slots) /\ f.i \in 0 .. f.count
          /\ f.name \in Slots \cup {NoKey}
          /\ f.ifIndex \in Adapters \cup {Nothing}
          /\ f.list \subseteq Addresses
  /\ disturbed \cup refused \cup moved \subseteq Threads

Keys == {k \in Slots : reg[k] # Nothing}

(* A file lives while a handle or an I/O in progress refers to it.         *)
FileExists(o) ==
  o \in {handleTable[h] : h \in Handles} \cup {ref[t] : t \in Threads}

Installed(g) == \E k \in Slots : reg[k] = g

(* Some adapters are installed when the process starts.  Their keys have   *)
(* numbers, and keys that have none come last.                             *)
Init ==
  /\ usage \in Usages
  /\ handleTable = [h \in Handles |-> Nobody]
  /\ ref = [t \in Threads |-> Nobody]
  /\ deviceHandle = [o \in Objects |-> NoHandle]
  /\ held = {}
  /\ reg \in [Slots -> Adapters \cup {Foreign, Nothing}]
  /\ \A j, k \in Slots : reg[j] = reg[k] /\ reg[j] \in Adapters => j = k
  /\ \A j, k \in Slots : reg[j] = Foreign /\ reg[k] # Foreign => k < j
  /\ mtu = [g \in Adapters |-> IF Installed(g) THEN NoMtu ELSE Nothing]
  /\ addrs = [g \in Adapters |-> IF Installed(g) THEN Fresh(g) ELSE {}]
  /\ frame = [t \in Threads |-> Idle]
  /\ disturbed = {} /\ refused = {} /\ moved = {}
  /\ strayed = FALSE

-----------------------------------------------------------------------------
(* The system: adapters come and go.  One with a file stays.               *)

InCall(pcs) == {t \in Threads : frame[t].pc \in pcs}

Configuring == {"getMTU", "setMTU", "getIP", "setIP"}

Concerned(g) ==
  {t \in Threads : frame[t].method \in Configuring /\ NameOf[frame[t].obj] = g}

Moves(g) ==
  /\ disturbed' = disturbed \cup InCall({"enum", "instance", "value"})
  /\ moved' = moved \cup Concerned(g)
  /\ UNCHANGED <<refused, strayed>>

Install(g, k) ==
  /\ ~Installed(g) /\ reg[k] = Nothing
  /\ reg' = [reg EXCEPT ![k] = g]
  /\ mtu' = [mtu EXCEPT ![g] = NoMtu]
  /\ addrs' = [addrs EXCEPT ![g] = Fresh(g)]
  /\ Moves(g)
  /\ UNCHANGED <<usage, handles, frame>>

Uninstall(k) ==
  /\ reg[k] \in Adapters
  /\ \A o \in Objects : FileExists(o) => NameOf[o] # reg[k]
  /\ reg' = [reg EXCEPT ![k] = Nothing]
  /\ mtu' = [mtu EXCEPT ![reg[k]] = Nothing]
  /\ addrs' = [addrs EXCEPT ![reg[k]] = {}]
  /\ Moves(reg[k])
  /\ UNCHANGED <<usage, handles, frame>>

-----------------------------------------------------------------------------
(* Calls and their frames.                                                 *)

At(t, step) == frame[t].pc = step

Goto(t, next) == frame' = [frame EXCEPT ![t].pc = next]

(* The call is over, and with it the variables of the walk.                *)
Finish(t, r) ==
  frame' = [frame EXCEPT ![t].pc = "returned", ![t].count = 0, ![t].i = 0,
                         ![t].name = NoKey, ![t].pending = FALSE,
                         ![t].result = r]

Return(t) ==
  /\ frame' = [frame EXCEPT ![t] = Idle]
  /\ disturbed' = disturbed \ {t} /\ refused' = refused \ {t}
  /\ moved' = moved \ {t} /\ UNCHANGED strayed

(* The native method gets the field deviceHandle and its arguments.        *)
Begin(t, o, what, arg, next) ==
  /\ what \in usage
  /\ At(t, "idle")
  /\ frame' = [frame EXCEPT ![t] =
                 [Idle EXCEPT !.pc = next, !.method = what, !.obj = o,
                              !.arg = arg, !.handle = deviceHandle[o]]]
  /\ UNCHANGED <<usage, handleTable, ref, deviceHandle, registry, addrs,
                history>>

Opening == {frame[t].obj : t \in InCall({"create", "assign"})}
Closing == {frame[t].obj : t \in InCall({"closeHandle"})}

Serial(o) == "serial" \in Discipline => o \notin Opening \cup Closing

MayClose(o) == "closeOnce" \in Discipline => o \in held

MayConfigure(o) == "config" \in Discipline => Concerned(NameOf[o]) = {}

-----------------------------------------------------------------------------
(* open(), close(), and the calls that use the handle.                     *)

CallOpen(t, o) ==
  /\ Serial(o)
  /\ Begin(t, o, "open", Nothing, "create")
  /\ UNCHANGED held

InUse(g) == \E o \in Objects : NameOf[o] = g /\ FileExists(o)

CreateFileShared(t) ==
  LET o == frame[t].obj
  IN /\ At(t, "create")
     /\ Installed(NameOf[o])
     /\ \E h \in Handles :
          /\ handleTable[h] = Nobody
          /\ handleTable' = [handleTable EXCEPT ![h] = o]
          /\ frame' = [frame EXCEPT ![t].pc = "assign", ![t].handle = h]
     /\ UNCHANGED <<usage, ref, deviceHandle, held, registry, addrs, history>>

(* CreateFile() with share mode 0: one file of an adapter at a time        *)
CreateFile(t) ==
  LET o == frame[t].obj
  IN /\ At(t, "create")
     /\ Installed(NameOf[o]) /\ ~InUse(NameOf[o])
     /\ \E h \in Handles :
          /\ handleTable[h] = Nobody
          /\ handleTable' = [handleTable EXCEPT ![h] = o]
          /\ frame' = [frame EXCEPT ![t].pc = "assign", ![t].handle = h]
     /\ UNCHANGED <<usage, ref, deviceHandle, held, registry, addrs, history>>

CreateFailsQuietly(t) ==
  /\ At(t, "create") /\ Return(t)
  /\ deviceHandle' = [deviceHandle EXCEPT ![frame[t].obj] = NoHandle]
  /\ held' = held \cup {frame[t].obj}
  /\ UNCHANGED <<usage, handleTable, ref, registry, addrs>>

(* INVALID_HANDLE_VALUE: the exception keeps it out of the field.          *)
CreateFails(t) ==
  /\ At(t, "create") /\ Return(t)
  /\ UNCHANGED system

Assign(t) ==
  /\ At(t, "assign") /\ Return(t)
  /\ deviceHandle' = [deviceHandle EXCEPT ![frame[t].obj] = frame[t].handle]
  /\ held' = held \cup {frame[t].obj}
  /\ UNCHANGED <<usage, handleTable, ref, registry, addrs>>

CallClose(t, o) ==
  /\ Serial(o) /\ MayClose(o)
  /\ Begin(t, o, "close", Nothing, "closeHandle")
  /\ held' = held \ {o}

CloseHandle(t) ==
  /\ At(t, "closeHandle") /\ Return(t)
  /\ handleTable' = [h \in Handles |-> IF h = frame[t].handle THEN Nobody
                                        ELSE handleTable[h]]
  /\ UNCHANGED <<usage, ref, deviceHandle, held, registry, addrs>>

(* isOpen(), read(), write(), setStatus() and getMACAddress(): one system  *)
(* call on the handle                                                      *)
CallUse(t, o) ==
  /\ Begin(t, o, "use", Nothing, "control")
  /\ UNCHANGED held

ControlFails(t) ==
  /\ At(t, "control") /\ Return(t)
  /\ UNCHANGED system

(* The system call keeps the file, whatever becomes of the handle.         *)
Control(t) ==
  /\ At(t, "control") /\ Goto(t, "io")
  /\ frame[t].handle \in Handles
  /\ handleTable[frame[t].handle] # Nobody
  /\ ref' = [ref EXCEPT ![t] = handleTable[frame[t].handle]]
  /\ UNCHANGED <<usage, handleTable, deviceHandle, held, registry, addrs,
                history>>

ControlReturns(t) ==
  /\ At(t, "io") /\ Return(t)
  /\ ref' = [ref EXCEPT ![t] = Nobody]
  /\ UNCHANGED <<usage, handleTable, deviceHandle, held, registry, addrs>>

-----------------------------------------------------------------------------
(* getMTU() and setMTU(): a walk over the keys of the registry.            *)

(* The process ends, and everything it had with it; the next one starts.   *)
Die ==
  /\ handleTable' = [h \in Handles |-> Nobody]
  /\ ref' = [t \in Threads |-> Nobody]
  /\ deviceHandle' = [o \in Objects |-> NoHandle]
  /\ held' = {}
  /\ frame' = [t \in Threads |-> Idle]
  /\ disturbed' = {} /\ refused' = {} /\ moved' = {}
  /\ UNCHANGED <<usage, registry, addrs, strayed>>

GetMTU(t, o) ==
  /\ MayConfigure(o)
  /\ Begin(t, o, "getMTU", Nothing, "count")
  /\ UNCHANGED held

SetMTU(t, o) ==
  /\ MayConfigure(o)
  /\ \E m \in Mtus : Begin(t, o, "setMTU", m, "count")
  /\ UNCHANGED held

TextCut(m) == IF m \in Short THEN m ELSE CHOOSE cut \in Short : TRUE

(* _itoa_s(mtu, _mtu, 5, 10): room for four characters                     *)
Text(m) == IF m \in Short THEN m ELSE Nothing

Formatted(t) == frame[t].method = "setMTU" => Text(frame[t].arg) # Nothing

(* For a longer number the C runtime ends the process.                     *)
Overflow(t) == At(t, "count") /\ ~Formatted(t) /\ Die

CountKeysButLast(t) ==
  /\ At(t, "count") /\ Formatted(t)
  /\ frame' = [frame EXCEPT ![t].pc = "enum",
                            ![t].count = Cardinality(Keys) - 1]
  /\ UNCHANGED <<system, history>>

(* RegQueryInfoKey(): how many keys there are at this moment               *)
CountKeys(t) ==
  /\ At(t, "count") /\ Formatted(t)
  /\ frame' = [frame EXCEPT ![t].pc = "enum", ![t].count = Cardinality(Keys)]
  /\ UNCHANGED <<system, history>>

(* The i-th key, counted from 0; none when there are not so many.          *)
KeyAt(i) == {k \in Keys : Cardinality({j \in Keys : j < k}) = i}

(* What the buffer for the name may hold: before the first name, anything. *)
LastName(t) ==
  IF frame[t].name = NoKey THEN Slots \cup {NoKey} ELSE {frame[t].name}

EnumKeyPastEnd(t) ==
  /\ At(t, "enum")
  /\ \E k \in KeyAt(frame[t].i) \cup LastName(t) :
       /\ frame' = [frame EXCEPT ![t].pc = "instance", ![t].name = k]
       /\ disturbed' = IF k \in KeyAt(frame[t].i) THEN disturbed
                       ELSE disturbed \cup {t}
  /\ UNCHANGED <<system, refused, moved, strayed>>

(* RegEnumKey(i): its result is not looked at.  When it fails, and where   *)
(* there is no i-th key any more, the buffer stays as it is.               *)
EnumKey(t) ==
  /\ At(t, "enum") /\ frame[t].i < frame[t].count
  /\ \E k \in KeyAt(frame[t].i) \cup LastName(t) :
       /\ frame' = [frame EXCEPT ![t].pc = "instance", ![t].name = k]
       /\ disturbed' = IF k \in KeyAt(frame[t].i) THEN disturbed
                       ELSE disturbed \cup {t}
  /\ UNCHANGED <<system, refused, moved, strayed>>

(* The loop is over: getMTU() answers its default, setMTU() what it has    *)
(* pending.                                                                *)
EnumEnds(t) ==
  /\ At(t, "enum") /\ frame[t].i = frame[t].count
  /\ Finish(t, IF frame[t].pending THEN Threw
               ELSE IF frame[t].method = "getMTU" THEN Default ELSE Done)
  /\ UNCHANGED <<system, history>>

NextKey(t, pending) ==
  frame' = [frame EXCEPT ![t].pc = "enum", ![t].i = @ + 1,
                         ![t].pending = pending]

(* The adapter whose key has the name that was read last.                  *)
Instance(t) == IF frame[t].name \in Slots THEN reg[frame[t].name] ELSE Nothing

(* setMTU() throws and goes on.  To throw with an exception pending is an  *)
(* error of which JNI does not say what comes of it.                       *)
ThrowAndGoOn(t) ==
  \/ NextKey(t, TRUE) /\ UNCHANGED <<system, history>>
  \/ frame[t].pending /\ Die

(* RegGetValue(name, "NetCfgInstanceId") fails, as it may for any key:     *)
(* getMTU() gives up.                                                      *)
Unreadable(t) ==
  /\ At(t, "instance")
  /\ IF frame[t].method = "getMTU"
     THEN Finish(t, Threw) /\ UNCHANGED <<system, history>>
     ELSE ThrowAndGoOn(t)

CompareNothing(t) ==
  /\ At(t, "instance")
  /\ Instance(t) \in Adapters
  /\ Goto(t, "value")
  /\ UNCHANGED <<system, history>>

(* strcmp() with deviceName                                                *)
Compare(t) ==
  /\ At(t, "instance")
  /\ Instance(t) \in Adapters
  /\ IF Instance(t) = NameOf[frame[t].obj]
     THEN Goto(t, "value") ELSE NextKey(t, frame[t].pending)
  /\ UNCHANGED <<system, history>>

(* RegGetValue(name, "MTU"), of the adapter that has the key by now; it    *)
(* may fail, and an adapter may have no such value.                        *)
ReadValue(t) ==
  LET g == Instance(t)
  IN /\ At(t, "value") /\ frame[t].method = "getMTU"
     /\ \/ Finish(t, Threw)
        \/ g \in Adapters /\ mtu[g] # NoMtu /\ Finish(t, mtu[g])
     /\ UNCHANGED <<system, history>>

(* RegOpenKeyEx(name), RegSetValueEx("MTU"), and on with the loop.  Nobody *)
(* looks whether the registry refuses the value.                           *)
WriteValue(t) ==
  LET g == Instance(t)
  IN /\ At(t, "value") /\ frame[t].method = "setMTU"
     /\ g \in Adapters
     /\ NextKey(t, frame[t].pending)
     /\ \/ /\ mtu' = [mtu EXCEPT ![g] = Text(frame[t].arg)]
           /\ moved' = IF g = NameOf[frame[t].obj] THEN moved
                       ELSE moved \cup Concerned(g)
           /\ UNCHANGED refused
        \/ refused' = refused \cup {t} /\ UNCHANGED <<mtu, moved>>
     /\ UNCHANGED <<usage, handles, reg, addrs, disturbed, strayed>>

(* The key cannot be opened for writing, by a user without the right to.   *)
WriteFails(t) ==
  /\ At(t, "value") /\ frame[t].method = "setMTU"
  /\ ThrowAndGoOn(t)

(* RegOpenKey() or RegQueryInfoKey() fails.                                *)
RegistryFails(t) ==
  /\ At(t, "count") /\ Formatted(t)
  /\ Finish(t, Threw)
  /\ UNCHANGED <<system, history>>

-----------------------------------------------------------------------------
(* getIPAddress() and setIPAddress(): the list of adapters, and the        *)
(* addresses of the one with the index of deviceName.                      *)

GetIPAddress(t, o) ==
  /\ MayConfigure(o)
  /\ Begin(t, o, "getIP", Nothing, "resolve")
  /\ UNCHANGED held

SetIPAddress(t, o) ==
  /\ MayConfigure(o)
  /\ \E a \in Ips \cup {Unparsed}, m \in Masks \cup {Unparsed} :
       Begin(t, o, "setIP", <<a, m>>, "resolve")
  /\ UNCHANGED held

IndexOfAny(o) == Adapters \cup {Nothing}

(* getIfIndex() leaves its result uninitialised if there is no adapter of  *)
(* that GUID: it may be the index of any other.                            *)
IndexOf(o) ==
  IF Installed(NameOf[o]) THEN {NameOf[o]} ELSE Adapters \cup {Nothing}

Parses(arg) == arg = Nothing \/ Unparsed \notin {arg[1], arg[2]}

(* The index, and the strings before anything is touched                   *)
Resolve(t) ==
  /\ At(t, "resolve")
  /\ strayed' = (strayed \/ ~Installed(NameOf[frame[t].obj]))
  /\ \E g \in IndexOf(frame[t].obj) :
       IF Parses(frame[t].arg)
       THEN frame' = [frame EXCEPT ![t].pc = "snapshot", ![t].ifIndex = g]
       ELSE Finish(t, Threw)
  /\ UNCHANGED <<usage, handles, registry, addrs, disturbed, refused, moved>>

(* GetAdaptersInfo(): the addresses as they are at this moment.  It fails  *)
(* if the list has grown since its length was asked for.                   *)
GetAdaptersInfo(t) ==
  LET g == frame[t].ifIndex
      list == IF g \in Adapters THEN addrs[g] ELSE {}
  IN /\ At(t, "snapshot")
     /\ \/ Finish(t, Threw)
        \/ /\ frame[t].method = "getIP"
           /\ \E x \in list \cup {Nothing} :
                /\ x = Nothing => list = {}
                /\ Finish(t, x)
        \/ /\ frame[t].method = "setIP"
           /\ frame' = [frame EXCEPT ![t].pc = "delete", ![t].list = list]
     /\ UNCHANGED <<system, history>>

DeleteNothing(t) ==
  /\ At(t, "delete") /\ frame[t].list # {}
  /\ frame' = [frame EXCEPT ![t].list = {}]
  /\ UNCHANGED <<system, history>>

(* DeleteIPAddress(): it fails for an address AddIPAddress() has not made, *)
(* and nobody looks.                                                       *)
DeleteIPAddress(t) ==
  /\ At(t, "delete")
  /\ \E x \in frame[t].list :
       /\ frame' = [frame EXCEPT ![t].list = @ \ {x}]
       /\ addrs' = IF x = Given THEN addrs
                   ELSE [addrs EXCEPT ![frame[t].ifIndex] = @ \ {x}]
  /\ UNCHANGED <<usage, handles, registry, history>>

(* AddIPAddress(): an address is one adapter's at a time.                  *)
AddIPAddress(t) ==
  LET g == frame[t].ifIndex
  IN /\ At(t, "delete") /\ frame[t].list = {}
     /\ \/ Finish(t, Threw) /\ UNCHANGED addrs
        \/ /\ g \in Adapters /\ Installed(g)
           /\ \A x \in (UNION {addrs[q] : q \in Adapters}) \ {Given} :
                x[1] # frame[t].arg[1]
           /\ addrs' = [addrs EXCEPT ![g] = @ \cup {frame[t].arg}]
           /\ Finish(t, Done)
     /\ UNCHANGED <<usage, handles, registry, history>>

(* The method returns or throws.                                           *)
Leave(t) ==
  /\ At(t, "returned") /\ Return(t)
  /\ UNCHANGED system

-----------------------------------------------------------------------------

Call(t, o) ==
  \/ CallOpen(t, o) \/ CallClose(t, o) \/ CallUse(t, o)
  \/ GetMTU(t, o) \/ SetMTU(t, o)
  \/ GetIPAddress(t, o) \/ SetIPAddress(t, o)

Step(t) ==
  \/ CreateFile(t) \/ CreateFails(t) \/ Assign(t) \/ CloseHandle(t)
  \/ Control(t) \/ ControlFails(t) \/ ControlReturns(t)
  \/ Overflow(t) \/ CountKeys(t) \/ RegistryFails(t)
  \/ EnumKey(t) \/ EnumEnds(t) \/ Unreadable(t) \/ Compare(t)
  \/ ReadValue(t) \/ WriteValue(t) \/ WriteFails(t)
  \/ Resolve(t) \/ GetAdaptersInfo(t) \/ DeleteIPAddress(t) \/ AddIPAddress(t)
  \/ Leave(t)

Next ==
  \/ \E t \in Threads, o \in Objects : Call(t, o)
  \/ \E t \in Threads : Step(t)
  \/ \E k \in Slots : Uninstall(k) \/ \E g \in Adapters : Install(g, k)

Spec == Init /\ [][Next]_vars

-----------------------------------------------------------------------------
(* Properties                                                              *)

Owns(o, h) == h \in Handles /\ handleTable[h] = o

(* A call on a device that was opened and is not being closed uses a file  *)
(* of its own adapter, whatever numbers other devices gave back meanwhile. *)
UseReachesOwnAdapter ==
  \A t \in Threads :
    LET o == frame[t].obj
    IN /\ At(t, "control") /\ o \in held /\ deviceHandle[o] = frame[t].handle =>
            Owns(o, frame[t].handle)
       /\ At(t, "closeHandle") => Owns(o, frame[t].handle)

(* The handle an open() has got and not stored yet counts, too.            *)
OpenDevices ==
  {o \in Objects : Owns(o, deviceHandle[o])}
    \cup {frame[t].obj : t \in InCall({"assign"})}

Contract == INSTANCE DeviceContract
              WITH opened <- OpenDevices,
                   opening <- Opening,
                   closing <- Closing

(* open() and close() on Windows keep the promise they keep elsewhere.     *)
ImplementsContract == Contract!Spec

(* The method returned without an exception.                               *)
Answered(t, what) ==
  At(t, "returned") /\ frame[t].method = what /\ frame[t].result # Threw

(* getMTU() answers the value of its own adapter.  Only when the walk has  *)
(* met keys that came or went, or one that could not be read, may it pass  *)
(* the adapter over and answer the default.  It answers the value of       *)
(* another adapter only if its own was removed before it was read.         *)
GetMTUIsOwn ==
  \A t \in Threads \ moved :
    LET g == NameOf[frame[t].obj]
    IN Answered(t, "getMTU") =>
         \/ Installed(g) /\ frame[t].result = mtu[g]
         \/ frame[t].result = Default /\ (~Installed(g) \/ t \in disturbed)

(* A setMTU() that does not throw has set the value of its own adapter,    *)
(* unless the walk has passed it over, there is none, or the registry has  *)
(* refused the value, of which the method says nothing.                    *)
SetMTUTakesEffect ==
  \A t \in Threads \ moved :
    LET g == NameOf[frame[t].obj]
    IN Answered(t, "setMTU") =>
         mtu[g] = frame[t].arg \/ ~Installed(g) \/ t \in disturbed \cup refused

(* The settings of an adapter change in setMTU() and setIPAddress() of its *)
(* own devices only, as long as no getIfIndex() has strayed and a setMTU() *)
(* does not lose its adapter between the comparison and the write.         *)
SettingsAreIsolated ==
  [][\A g \in Adapters :
       LET before == <<Installed(g), mtu[g], addrs[g]>>
       IN Installed(g) /\ Installed(g)' /\ before' # before =>
         \/ strayed
         \/ \E t \in Threads :
              /\ frame'[t] # frame[t]
              /\ NameOf[frame[t].obj] = g \/ t \in moved]_vars

(* getIPAddress() answers an address of its own adapter, or none when it   *)
(* has none.  After a setIPAddress() that does not throw the adapter has   *)
(* the address it was given and none that an earlier call gave it, though  *)
(* the results of the deletions are ignored.  All this as long as the      *)
(* adapter stays.                                                          *)
IPCallsAreAboutOwnAdapter ==
  \A t \in Threads \ moved :
    LET own == addrs[NameOf[frame[t].obj]]
        r == frame[t].result
    IN ~strayed =>
         /\ Answered(t, "getIP") => r \in own \/ (r = Nothing /\ own = {})
         /\ Answered(t, "setIP") => own \ {Given} = {frame[t].arg}

==============================================================================
