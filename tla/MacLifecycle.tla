----------------------------- MODULE MacLifecycle -----------------------------
(***************************************************************************)
(* open(), close() and the interface names of NetworkDevices on macOS.     *)
(*                                                                         *)
(* A TAP device is a file under /dev, opened in one step.  A TUN device is *)
(* a system socket that is connected to a utun unit; the kernel tells the  *)
(* interface's name, and the library keeps it in a linked list keyed by    *)
(* descriptor number.  close() deletes the entry, a configuration call     *)
(* looks the name up.  Nothing guards the list: adding, deleting and       *)
(* looking up are the pointer reads and writes of the C functions, one per *)
(* step.  The stores that fill a new entry may be seen after the store     *)
(* that links it, as on arm64, which the library is built for.             *)
(*                                                                         *)
(* Discipline is what all clients promise:                                 *)
(*   "serial"    open() and close() of one object do not overlap;          *)
(*   "closeOnce" close() follows an open() that returned, and no other     *)
(*               close() came in between;                                  *)
(*   "oneWriter" close() and the open() of a TUN overlap no such call of   *)
(*               any object;                                               *)
(*   "lookups"   a configuration call overlaps no close(), and the open()  *)
(*               of a TUN only if it is made on a TUN that is open.        *)
(*                                                                         *)
(* read(), write() and isOpen() are as in LinuxLifecycle.                  *)
(***************************************************************************)
EXTENDS DescriptorTable

CONSTANTS
  NameOf,      \* NameOf[o]: the interface of the unit, or of the file under
               \* /dev, that o's deviceName stands for
  Taps,        \* the objects of class TapDevice
  NoObject,    \* a thread that is in no call
  Nodes,       \* where malloc() may put a struct utunDevice
  Null,
  Discipline

ASSUME MacAssumption ==
  /\ NameOf \in [Objects -> Names]
  /\ \A o \in Taps, p \in Objects \ Taps : NameOf[o] # NameOf[p]
  /\ Taps \subseteq Objects
  /\ NoObject \notin Objects
  /\ IsFiniteSet(Nodes) /\ Null \notin Nodes
  /\ Discipline \subseteq {"serial", "closeOnce", "oneWriter", "lookups"}

VARIABLES
  handle,      \* handle[o]: the field deviceHandle
  held,        \* the objects whose client has opened and not closed them
  list,        \* the first node of the list
  node,        \* node[x]: the struct at x
  memory,      \* memory[x]: x is free, allocated but not filled, or filled
  frame        \* frame[t]: the call of thread t

client == <<handle, held>>
heap == <<list, node, memory>>
vars == <<fdTable, file, ref, handle, held, list, node, memory, frame>>

NoHandle == -1

Struct == [fd : Fds \cup {NoHandle}, ifName : Names \cup {NoName},
           Next : Nodes \cup {Null}]

Blank == [fd |-> NoHandle, ifName |-> NoName, Next |-> Null]

AddPcs    == {"add", "addWalk", "assign"}
OpenPcs   == {"open", "connect", "name", "undo"} \cup AddPcs
ClosePcs  == {"delete", "delWalk", "unlink", "free", "close"}
LookupPcs == {"lookup", "lookWalk", "copy"}

(* A thread's next step, its object and descriptor number, the node its    *)
(* walk is at and the one before, and the node its open() adds.            *)
Frame == [pc : {"idle"} \cup OpenPcs \cup ClosePcs \cup LookupPcs,
          obj : Objects \cup {NoObject}, fd : Fds \cup {NoHandle},
          item : Nodes \cup {Null}, prev : Nodes \cup {Null},
          device : Nodes \cup {Null}]

Idle == [pc |-> "idle", obj |-> NoObject, fd |-> NoHandle,
         item |-> Null, prev |-> Null, device |-> Null]

TypeOK ==
  /\ KernelTypeOK
  /\ handle \in [Objects -> Fds \cup {NoHandle}]
  /\ held \subseteq Objects
  /\ list \in Nodes \cup {Null}
  /\ node \in [Nodes -> Struct]
  /\ memory \in [Nodes -> {"free", "raw", "filled"}]
  /\ frame \in [Threads -> Frame]

Init ==
  /\ KernelInit
  /\ handle = [o \in Objects |-> NoHandle]
  /\ held = {}
  /\ list = Null
  /\ node = [x \in Nodes |-> Blank]
  /\ memory = [x \in Nodes |-> "free"]
  /\ frame = [t \in Threads |-> Idle]

-----------------------------------------------------------------------------
(* What the client promises.                                               *)

InCall(pcs) == {o \in Objects : \E t \in Threads :
                  frame[t].obj = o /\ frame[t].pc \in pcs}

Opening == InCall(OpenPcs)
Closing == InCall(ClosePcs)
Looking == InCall(LookupPcs)
Writing == Closing \cup (Opening \ Taps)

MayOpen(o) ==
  /\ "serial" \in Discipline => o \notin Opening \cup Closing
  /\ "oneWriter" \in Discipline => o \in Taps \/ Writing = {}
  /\ "lookups" \in Discipline => o \in Taps \/ Looking \subseteq held \ Taps

MayClose(o) ==
  /\ "serial" \in Discipline => o \notin Opening \cup Closing
  /\ "closeOnce" \in Discipline => o \in held
  /\ "oneWriter" \in Discipline => Writing = {}
  /\ "lookups" \in Discipline => Looking = {}

MayLookup(o) ==
  "lookups" \in Discipline =>
    /\ Closing = {}
    /\ Opening \subseteq Taps \/ o \in held \ Taps

-----------------------------------------------------------------------------
(* Steps of a thread.                                                      *)

At(t, step) == frame[t].pc = step

Enter(t, o, n, next) ==
  /\ At(t, "idle")
  /\ frame' = [frame EXCEPT ![t] = [Idle EXCEPT !.pc = next, !.obj = o, !.fd = n]]

Goto(t, next) == frame' = [frame EXCEPT ![t].pc = next]

Return(t) == frame' = [frame EXCEPT ![t] = Idle]

(* item = x; a walk that has come to the end goes on with another step.    *)
Visit(t, x, walk, end) ==
  frame' = [frame EXCEPT ![t].pc = IF x = Null THEN end ELSE walk,
                         ![t].prev = frame[t].item,
                         ![t].item = x]

(* One round of the loop that looks for the thread's number.               *)
Search(t, walk, found, end) ==
  LET x == node[frame[t].item]
  IN /\ At(t, walk)
     /\ IF x.fd = frame[t].fd THEN Goto(t, found) ELSE Visit(t, x.Next, walk, end)

-----------------------------------------------------------------------------
(* open()                                                                  *)

CallOpen(t, o) ==
  /\ MayOpen(o)
  /\ Enter(t, o, NoHandle, "open")
  /\ UNCHANGED <<kernel, client, heap>>

(* A TUN name too short to hold a number, or no descriptor to be had.      *)
OpenFails(t) ==
  /\ At(t, "open")
  /\ Return(t)
  /\ UNCHANGED <<kernel, client, heap>>

(* fd = open("/dev/tap..."): one file at a time                            *)
OpenTap(t) ==
  /\ At(t, "open") /\ frame[t].obj \in Taps
  /\ \E n \in Fds, f \in Files :
       /\ OpenAttached(n, f, frame[t].obj, NameOf[frame[t].obj])
       /\ frame' = [frame EXCEPT ![t].pc = "assign", ![t].fd = n]
  /\ UNCHANGED <<client, heap>>

(* fd = socket(PF_SYSTEM, ...)                                             *)
OpenSocket(t) ==
  /\ At(t, "open") /\ frame[t].obj \notin Taps
  /\ \E n \in Fds, f \in Files :
       /\ OpenFile(n, f, frame[t].obj)
       /\ frame' = [frame EXCEPT ![t].pc = "connect", ![t].fd = n]
  /\ UNCHANGED <<client, heap>>

(* ioctl(fd, CTLIOCGINFO), and connect(), which makes the interface        *)
Connect(t) ==
  /\ At(t, "connect")
  /\ AttachFile(frame[t].fd, NameOf[frame[t].obj])
  /\ Goto(t, "name")
  /\ UNCHANGED <<client, heap>>

(* getsockopt(fd, UTUN_OPT_IFNAME), and malloc() of the entry              *)
GetName(t) ==
  /\ At(t, "name")
  /\ \E x \in Nodes :
       /\ memory[x] = "free"
       /\ memory' = [memory EXCEPT ![x] = "raw"]
       /\ frame' = [frame EXCEPT ![t].pc = "add", ![t].device = x]
  /\ UNCHANGED <<kernel, client, list, node>>

(* Each of the three may fail, connect() in particular when the unit is    *)
(* taken or the number changed hands.                                      *)
BuildFails(t) ==
  /\ At(t, "connect") \/ At(t, "name")
  /\ Goto(t, "undo")
  /\ UNCHANGED <<kernel, client, heap>>

UndoWithoutClose(t) ==
  /\ At(t, "undo") /\ Return(t)
  /\ UNCHANGED <<kernel, client, heap>>

UndoReturning(t, n) ==
  /\ At(t, "undo") /\ CloseFd(frame[t].fd) /\ Return(t)
  /\ handle' = [handle EXCEPT ![frame[t].obj] = n]
  /\ UNCHANGED <<held, heap>>

UndoWithoutThrow(t) == UndoReturning(t, NoHandle)

UndoReturningErrno(t) == UndoReturning(t, -16)

(* close(fd), and an exception that keeps deviceHandle as it is            *)
Undo(t) ==
  /\ At(t, "undo") /\ CloseFd(frame[t].fd) /\ Return(t)
  /\ UNCHANGED <<client, heap>>

(* device->fd, device->ifName and device->Next are stored, for other       *)
(* threads at some time before the call ends.                              *)
Fill(t) ==
  LET x == frame[t].device
  IN /\ frame[t].pc \in AddPcs /\ x # Null
     /\ memory[x] = "raw"
     /\ memory' = [memory EXCEPT ![x] = "filled"]
     /\ node' = [node EXCEPT ![x] = [fd |-> frame[t].fd,
                                     ifName |-> NameOf[frame[t].obj],
                                     Next |-> Null]]
     /\ UNCHANGED <<kernel, client, list, frame>>

(* add(): the first entry, or a walk to the last one                       *)
Add(t) ==
  /\ At(t, "add")
  /\ list' = IF list = Null THEN frame[t].device ELSE list
  /\ Visit(t, list, "addWalk", "assign")
  /\ UNCHANGED <<kernel, client, node, memory>>

AddWalkWithoutBreak(t) ==
  LET item == frame[t].item
      next == IF node[item].Next = Null THEN frame[t].device ELSE node[item].Next
  IN /\ At(t, "addWalk")
     /\ node' = [node EXCEPT ![item].Next = next]
     /\ Visit(t, next, "addWalk", "assign")
     /\ UNCHANGED <<kernel, client, list, memory>>

AddWalk(t) ==
  LET item == frame[t].item
  IN /\ At(t, "addWalk")
     /\ node' = [node EXCEPT ![item].Next = IF @ = Null THEN frame[t].device ELSE @]
     /\ Visit(t, node[item].Next, "addWalk", "assign")
     /\ UNCHANGED <<kernel, client, list, memory>>

(* deviceHandle = open(...)                                                *)
Assign(t) ==
  /\ At(t, "assign")
  /\ frame[t].device # Null => memory[frame[t].device] = "filled"
  /\ handle' = [handle EXCEPT ![frame[t].obj] = frame[t].fd]
  /\ held' = held \cup {frame[t].obj}
  /\ Return(t)
  /\ UNCHANGED <<kernel, heap>>

-----------------------------------------------------------------------------
(* close(): delete(deviceHandle), then close(deviceHandle)                 *)

CloseStartingAt(t, o, step) ==
  /\ MayClose(o)
  /\ Enter(t, o, handle[o], step)
  /\ held' = held \ {o}
  /\ UNCHANGED <<kernel, handle, heap>>

CallCloseSkippingDelete(t, o) == CloseStartingAt(t, o, "close")

CallClose(t, o) == CloseStartingAt(t, o, "delete")

Delete(t) ==
  /\ At(t, "delete")
  /\ Visit(t, list, "delWalk", "close")
  /\ UNCHANGED <<kernel, client, heap>>

DelWalk(t) ==
  /\ Search(t, "delWalk", "unlink", "close")
  /\ UNCHANGED <<kernel, client, heap>>

UnlinkHeadOnly(t) ==
  /\ At(t, "unlink") /\ Goto(t, "free")
  /\ list' = IF frame[t].prev = Null THEN node[frame[t].item].Next ELSE list
  /\ UNCHANGED <<kernel, client, node, memory>>

UnlinkDroppingPrefix(t) ==
  /\ At(t, "unlink") /\ Goto(t, "free")
  /\ list' = node[frame[t].item].Next
  /\ UNCHANGED <<kernel, client, node, memory>>

Unlink(t) ==
  LET prev == frame[t].prev
      next == node[frame[t].item].Next
  IN /\ At(t, "unlink") /\ Goto(t, "free")
     /\ \/ prev = Null /\ list' = next /\ UNCHANGED node
        \/ prev # Null /\ node' = [node EXCEPT ![prev].Next = next] /\ UNCHANGED list
     /\ UNCHANGED <<kernel, client, memory>>

(* Nobody may read a node after this: what free() leaves in it is not told *)
(* apart (FollowsFilledNodes shows that nobody does).                      *)
Free(t) ==
  LET x == frame[t].item
  IN /\ At(t, "free") /\ Goto(t, "close")
     /\ memory' = [memory EXCEPT ![x] = "free"]
     /\ node' = [node EXCEPT ![x] = Blank]
     /\ UNCHANGED <<kernel, client, list>>

DoClose(t) ==
  /\ At(t, "close") /\ CloseFd(frame[t].fd) /\ Return(t)
  /\ UNCHANGED <<client, heap>>

-----------------------------------------------------------------------------
(* The name a configuration call asks about: getDeviceName(deviceHandle),  *)
(* or deviceName when the list has no such number.                         *)

CallLookup(t, o) ==
  /\ MayLookup(o)
  /\ Enter(t, o, handle[o], "lookup")
  /\ UNCHANGED <<kernel, client, heap>>

Lookup(t) ==
  /\ At(t, "lookup")
  /\ Visit(t, list, "lookWalk", "copy")
  /\ UNCHANGED <<kernel, client, heap>>

LookWalk(t) ==
  /\ Search(t, "lookWalk", "copy", "copy")
  /\ UNCHANGED <<kernel, client, heap>>

NameFound(t) ==
  IF frame[t].item = Null THEN NameOf[frame[t].obj] ELSE node[frame[t].item].ifName

(* strncpy() follows the pointer; the ioctls after it are InterfaceConfig's. *)
CopyName(t) ==
  /\ At(t, "copy") /\ Return(t)
  /\ UNCHANGED <<kernel, client, heap>>

-----------------------------------------------------------------------------

Call(t, o) == CallOpen(t, o) \/ CallClose(t, o) \/ CallLookup(t, o)

Step(t) ==
  \/ OpenFails(t) \/ OpenTap(t) \/ OpenSocket(t)
  \/ Connect(t) \/ GetName(t) \/ BuildFails(t) \/ Undo(t)
  \/ Fill(t) \/ Add(t) \/ AddWalk(t) \/ Assign(t)
  \/ Delete(t) \/ DelWalk(t) \/ Unlink(t) \/ Free(t) \/ DoClose(t)
  \/ Lookup(t) \/ LookWalk(t) \/ CopyName(t)

Next ==
  \/ \E t \in Threads, o \in Objects : Call(t, o)
  \/ \E t \in Threads : Step(t)

Spec == Init /\ [][Next]_vars

(* A thread in a call goes on running: no step here waits for another      *)
(* thread.  Whether a client makes a call is its own choice.               *)
FairSpec == Spec /\ \A t \in Threads : WF_vars(Step(t))

-----------------------------------------------------------------------------
(* Properties                                                              *)

Iface(n) == file[fdTable[n]].iface

(* A system socket without an interface is in the frame of an open() in    *)
(* progress: none of the three error paths of open() leaves one behind.    *)
HalfOpenInFlight ==
  \A n \in Fds :
    IsOpenFd(n) /\ Iface(n) = NoName =>
      \E t \in Threads : frame[t].pc \in {"connect", "undo"} /\ frame[t].fd = n

(* The node after k links.                                                 *)
Link[k \in Nat] ==
  IF k = 0 THEN list
  ELSE IF Link[k - 1] = Null THEN Null ELSE node[Link[k - 1]].Next

Entries == {Link[k] : k \in 0 .. Cardinality(Nodes)} \ {Null}

(* While no TUN is being opened and nothing closed, the list holds exactly *)
(* the utun descriptors, each once with the name of its interface, and no  *)
(* allocated node is outside of it: add() and delete() lose no entry, leave *)
(* no stale one and close no circle, over any sequence of calls.           *)
ListIsExact ==
  Writing = {} =>
    /\ Link[Cardinality(Nodes)] = Null
    /\ Entries = {x \in Nodes : memory[x] = "filled"}
    /\ Entries = {x \in Nodes : memory[x] # "free"}
    /\ \A x, y \in Entries : node[x].fd = node[y].fd => x = y
    /\ {<<node[x].fd, node[x].ifName>> : x \in Entries} =
         {<<n, Iface(n)>> : n \in {m \in Fds :
            IsOpenFd(m) /\ \A o \in Taps : Iface(m) # NameOf[o]}}

(* A thread never reads a node that was freed, or whose contents it cannot *)
(* see yet, though lookups of open TUNs run while another is being added.  *)
FollowsFilledNodes ==
  \A t \in Threads :
    LET x == frame[t].item
    IN /\ At(t, "addWalk") \/ At(t, "delWalk") \/ At(t, "unlink")
          \/ At(t, "free") \/ At(t, "lookWalk") \/ (At(t, "copy") /\ x # Null)
            => memory[x] = "filled"
       /\ At(t, "unlink") /\ frame[t].prev # Null
            => memory[frame[t].prev] = "filled"

(* A configuration call on an open device asks about that device's own     *)
(* interface: a TUN is found in the list, a TAP, which has never been in   *)
(* it, does not get the name of a TUN that had its number before.          *)
LookupFindsOwnName ==
  \A t \in Threads :
    LET o == frame[t].obj
    IN At(t, "copy") /\ o \in held /\ handle[o] = frame[t].fd =>
         /\ NameFound(t) = NameOf[o]
         /\ NameFound(t) = Iface(handle[o])
         /\ frame[t].item = Null <=> o \in Taps

(* Number n is a descriptor that o's own open() made and attached, and will *)
(* not give back: until getsockopt() has answered, it still may.           *)
Owns(o, n) ==
  /\ IsOpenFd(n)
  /\ file[fdTable[n]].maker = o
  /\ Iface(n) = NameOf[o]
  /\ \A t \in Threads : frame[t].fd = n => ~At(t, "name") /\ ~At(t, "undo")

Granted == {o \in Objects : \E t \in Threads :
              frame[t].pc \in AddPcs /\ frame[t].obj = o /\ Owns(o, frame[t].fd)}

Contract == INSTANCE DeviceContract
              WITH opened <- {o \in Objects : Owns(o, handle[o])} \cup Granted,
                   opening <- Opening,
                   closing <- Closing

(* The many steps of the macOS open() and close() keep the promise that    *)
(* the few of the Linux ones keep: a device changes state in one step, a   *)
(* failed open() leaves no trace, no call changes another device.          *)
ImplementsContract == Contract!Spec

(* Every call comes to its end: no sequence of opens and closes bends the  *)
(* list into a circle or moves its end ahead of a thread that walks it.    *)
CallsReturn == \A t \in Threads : ~At(t, "idle") ~> At(t, "idle")

==============================================================================
