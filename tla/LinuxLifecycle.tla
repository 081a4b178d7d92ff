---------------------------- MODULE LinuxLifecycle ----------------------------
(***************************************************************************)
(* The life of a NetworkDevice on Linux: open(), read(), write(), close()  *)
(* and isOpen() of the Java class, and the JNI functions they call.        *)
(*                                                                         *)
(* A call is a sequence of steps of its thread.  The Java method reads the *)
(* field deviceHandle (one step), the native code makes its system calls   *)
(* (one step each), and open() finally stores the descriptor in the field  *)
(* (one more).  Between any two of them other threads run: nothing in the  *)
(* library is synchronized.  close() leaves deviceHandle as it was.        *)
(*                                                                         *)
(* What a client may do is a parameter.  Discipline is a set of promises   *)
(* all clients keep; with the empty set any thread calls anything at any   *)
(* time:                                                                   *)
(*   "serial"    open() and close() of one object do not overlap;          *)
(*   "closeOnce" close() follows an open() that returned, and no other     *)
(*               close() came in between.                                  *)
(* The clients of the objects in Quiet promise more: no call overlaps an   *)
(* open() or close() of its object, and none but open() follows close().   *)
(***************************************************************************)
EXTENDS DescriptorTable

CONSTANTS
  NameOf,      \* NameOf[o]: the constructor's deviceName
  NoObject,    \* a thread that is in no call
  Discipline,
  Quiet

ASSUME LifecycleAssumption ==
  /\ NameOf \in [Objects -> Names]
  /\ NoObject \notin Objects
  /\ Discipline \subseteq {"serial", "closeOnce"}
  /\ Quiet \subseteq Objects

VARIABLES
  handle,      \* handle[o]: the field deviceHandle
  held,        \* the objects whose client has opened and not closed them
  jvmFds,      \* the numbers the rest of the JVM believes it owns
  pc,          \* pc[t]: the next step of thread t
  obj,         \* obj[t]: the object whose method t executes
  fd           \* fd[t]: the descriptor number in t's native frame

thread == <<pc, obj, fd>>
vars == <<fdTable, file, ref, handle, held, jvmFds, pc, obj, fd>>

NoHandle == -1

LifecyclePcs == {"setiff", "undo", "assign", "close"}
CallPcs      == {"read", "reading", "write", "isOpen"}

TypeOK ==
  /\ KernelTypeOK
  /\ handle \in [Objects -> Fds \cup {NoHandle}]
  /\ held \subseteq Objects
  /\ jvmFds \subseteq Fds
  /\ pc \in [Threads -> {"idle"} \cup LifecyclePcs \cup CallPcs]
  /\ obj \in [Threads -> Objects \cup {NoObject}]
  /\ fd \in [Threads -> Fds \cup {NoHandle}]

Init ==
  /\ KernelInit
  /\ handle = [o \in Objects |-> NoHandle]
  /\ held = {}
  /\ jvmFds = {}
  /\ pc = [t \in Threads |-> "idle"]
  /\ obj = [t \in Threads |-> NoObject]
  /\ fd = [t \in Threads |-> NoHandle]

-----------------------------------------------------------------------------
(* What the client promises.                                               *)

Busy(o, pcs) == \E t \in Threads : obj[t] = o /\ pc[t] \in pcs

MayOpen(o) ==
  /\ "serial" \in Discipline => ~Busy(o, LifecyclePcs)
  /\ o \in Quiet => ~Busy(o, LifecyclePcs \cup CallPcs)

MayClose(o) ==
  /\ MayOpen(o)
  /\ "closeOnce" \in Discipline => o \in held

MayCall(o) ==
  o \in Quiet =>
    /\ ~Busy(o, LifecyclePcs)
    /\ o \in held \/ handle[o] = NoHandle

-----------------------------------------------------------------------------
(* Steps of a thread: it enters a call, goes on to its next step, returns. *)

Enter(t, o, n, next) ==
  /\ pc[t] = "idle"
  /\ pc' = [pc EXCEPT ![t] = next]
  /\ obj' = [obj EXCEPT ![t] = o]
  /\ fd' = [fd EXCEPT ![t] = n]

Goto(t, next) ==
  /\ pc' = [pc EXCEPT ![t] = next]
  /\ UNCHANGED <<obj, fd>>

Return(t) ==
  /\ pc' = [pc EXCEPT ![t] = "idle"]
  /\ obj' = [obj EXCEPT ![t] = NoObject]
  /\ fd' = [fd EXCEPT ![t] = NoHandle]

-----------------------------------------------------------------------------
(* open()                                                                  *)

(* fd = open("/dev/net/tun").  When that fails the exception leaves        *)
(* everything as it was, which is a stuttering step.                       *)
OpenClone(t, o) ==
  /\ MayOpen(o)
  /\ \E n \in Fds, f \in Files :
       /\ OpenFile(n, f, o)
       /\ Enter(t, o, n, "setiff")
  /\ UNCHANGED <<handle, held, jvmFds>>

(* ioctl(fd, TUNSETIFF) attaches the interface named by the device.        *)
SetIff(t) ==
  /\ pc[t] = "setiff"
  /\ AttachFile(fd[t], NameOf[obj[t]])
  /\ Goto(t, "assign")
  /\ UNCHANGED <<handle, held, jvmFds>>

(* It may fail: always for lack of privilege, and always when the file     *)
(* cannot be attached (a busy name, a number that changed hands).          *)
SetIffFails(t) ==
  /\ pc[t] = "setiff"
  /\ Goto(t, "undo")
  /\ UNCHANGED <<fdTable, file, ref, handle, held, jvmFds>>

UndoOpenWithoutClose(t) ==
  /\ pc[t] = "undo"
  /\ Return(t)
  /\ UNCHANGED <<fdTable, file, ref, handle, held, jvmFds>>

UndoOpenWithoutThrow(t) ==
  /\ pc[t] = "undo"
  /\ CloseFd(fd[t])
  /\ handle' = [handle EXCEPT ![obj[t]] = fd[t]]
  /\ Return(t)
  /\ UNCHANGED <<held, jvmFds>>

UndoOpenReturnsErrno(t) ==
  /\ pc[t] = "undo"
  /\ CloseFd(fd[t])
  /\ handle' = [handle EXCEPT ![obj[t]] = -16]
  /\ Return(t)
  /\ UNCHANGED <<held, jvmFds>>

(* The error path closes the descriptor and throws; with an exception      *)
(* pending the value returned is not stored in deviceHandle.               *)
UndoOpen(t) ==
  /\ pc[t] = "undo"
  /\ CloseFd(fd[t])
  /\ Return(t)
  /\ UNCHANGED <<handle, held, jvmFds>>

(* deviceHandle = open(...): the Java side stores what the native side     *)
(* returned.                                                               *)
Assign(t) ==
  /\ pc[t] = "assign"
  /\ handle' = [handle EXCEPT ![obj[t]] = fd[t]]
  /\ held' = held \cup {obj[t]}
  /\ Return(t)
  /\ UNCHANGED <<fdTable, file, ref, jvmFds>>

-----------------------------------------------------------------------------
(* close()                                                                 *)

(* close(deviceName, deviceHandle): the field is read and never reset.     *)
CallClose(t, o) ==
  /\ MayClose(o)
  /\ Enter(t, o, handle[o], "close")
  /\ held' = held \ {o}
  /\ UNCHANGED <<fdTable, file, ref, handle, jvmFds>>

(* close(deviceHandle), or the exception for a number that is not open.    *)
DoClose(t) ==
  /\ pc[t] = "close"
  /\ CloseFd(fd[t])
  /\ Return(t)
  /\ UNCHANGED <<handle, held, jvmFds>>

-----------------------------------------------------------------------------
(* read(), write() and isOpen()                                            *)

CallRead(t, o) ==
  /\ MayCall(o)
  /\ Enter(t, o, handle[o], "read")
  /\ UNCHANGED <<fdTable, file, ref, handle, held, jvmFds>>

(* read(2) finds the file of the number it is given and waits there for a  *)
(* packet; a number that is not open, or a tun file without interface,     *)
(* throws.                                                                 *)
DoRead(t) ==
  /\ pc[t] = "read"
  /\ \/ /\ CanTransfer(fd[t])
        /\ EnterKernel(t, fd[t])
        /\ Goto(t, "reading")
     \/ /\ ~CanTransfer(fd[t])
        /\ Return(t)
        /\ UNCHANGED kernel
  /\ UNCHANGED <<handle, held, jvmFds>>

(* The packet, or an error, ends the call.                                 *)
ReadReturns(t) ==
  /\ pc[t] = "reading"
  /\ LeaveKernel(t)
  /\ Return(t)
  /\ UNCHANGED <<handle, held, jvmFds>>

CallWrite(t, o) ==
  /\ MayCall(o)
  /\ Enter(t, o, handle[o], "write")
  /\ UNCHANGED <<fdTable, file, ref, handle, held, jvmFds>>

(* write(2) on a tun file does not wait: sent or thrown, it returns.       *)
DoWrite(t) ==
  /\ pc[t] = "write"
  /\ Return(t)
  /\ UNCHANGED <<fdTable, file, ref, handle, held, jvmFds>>

CallIsOpen(t, o) ==
  /\ MayCall(o)
  /\ Enter(t, o, handle[o], "isOpen")
  /\ UNCHANGED <<fdTable, file, ref, handle, held, jvmFds>>

(* fcntl(deviceHandle, F_GETFD) != -1                                      *)
IsOpenAnswer(n) == IsOpenFd(n)

DoIsOpen(t) ==
  /\ pc[t] = "isOpen"
  /\ Return(t)
  /\ UNCHANGED <<fdTable, file, ref, handle, held, jvmFds>>

-----------------------------------------------------------------------------
(* The rest of the JVM opens and closes descriptors of its own.            *)

JvmOpen ==
  /\ \E n \in Fds, f \in Files :
       /\ OpenFile(n, f, Jvm)
       /\ jvmFds' = jvmFds \cup {n}
  /\ UNCHANGED <<handle, held, pc, obj, fd>>

JvmClose ==
  /\ \E n \in jvmFds :
       /\ CloseFd(n)
       /\ jvmFds' = jvmFds \ {n}
  /\ UNCHANGED <<handle, held, pc, obj, fd>>

-----------------------------------------------------------------------------

Next ==
  \/ \E t \in Threads, o \in Objects :
       \/ OpenClone(t, o)
       \/ CallClose(t, o)
       \/ CallRead(t, o)
       \/ CallWrite(t, o)
       \/ CallIsOpen(t, o)
  \/ \E t \in Threads :
       \/ SetIff(t)
       \/ SetIffFails(t)
       \/ UndoOpen(t)
       \/ Assign(t)
       \/ DoClose(t)
       \/ DoRead(t)
       \/ ReadReturns(t)
       \/ DoWrite(t)
       \/ DoIsOpen(t)
  \/ JvmOpen
  \/ JvmClose

Spec == Init /\ [][Next]_vars

-----------------------------------------------------------------------------
(* Properties                                                              *)

IsTun(n) == fdTable[n] # NoFile /\ file[fdTable[n]].maker # Jvm

(* A descriptor of /dev/net/tun that is not attached to an interface is in *)
(* the frame of an open() in progress: no error path of open() leaves one  *)
(* behind, whatever the clients do to each other's descriptors.            *)
HalfOpenInFlight ==
  \A n \in Fds :
    IsTun(n) /\ file[fdTable[n]].iface = NoName =>
      \E t \in Threads : pc[t] \in {"setiff", "undo"} /\ fd[t] = n

(* Every descriptor of an interface can still be closed through the        *)
(* library: it is the deviceHandle of an object of that name, or an open() *)
(* of that name is about to store it.  Losing the last copy of a number    *)
(* would leave the interface up for the life of the process.               *)
NoLostDescriptor ==
  \A n \in Fds :
    IsTun(n) /\ file[fdTable[n]].iface # NoName =>
      LET name == file[fdTable[n]].iface
      IN \/ \E o \in Objects : handle[o] = n /\ NameOf[o] = name
         \/ \E t \in Threads :
              pc[t] = "assign" /\ fd[t] = n /\ NameOf[obj[t]] = name

(* Number n is a descriptor that o's own open() made and attached.         *)
Owns(o, n) ==
  /\ IsOpenFd(n)
  /\ file[fdTable[n]].maker = o
  /\ file[fdTable[n]].iface = NameOf[o]

OpenDevices == {o \in Objects : Owns(o, handle[o])}

Opening == {o \in Objects : Busy(o, {"setiff", "undo", "assign"})}

(* The device an open() has got and not stored yet is open, too.           *)
Granted == {o \in Objects : \E t \in Threads :
              pc[t] = "assign" /\ obj[t] = o /\ Owns(o, fd[t])}

Closing == {o \in Objects : Busy(o, {"close"})}

(* An object that was opened and not closed since is usable: its handle is *)
(* a descriptor of its own interface.  No call on another object, and no   *)
(* failed second open() of this one, takes it away.                        *)
HeldDevicesStayOpen == held \subseteq OpenDevices

(* read(), write() and close() of a device whose client is quiet act on    *)
(* the descriptor its own open() made, never on one that got the same      *)
(* number later, whatever goes on with other devices.                      *)
CallsReachOwnInterface ==
  \A t \in Threads : obj[t] \in Quiet =>
    /\ pc[t] \in {"read", "write", "close"} /\ fd[t] # NoHandle
         => Owns(obj[t], fd[t])
    /\ pc[t] = "reading" => file[ref[t]].maker = obj[t]

(* isOpen() of such a device answers what it is asked: the device is open. *)
IsOpenAccurate ==
  \A t \in Threads :
    obj[t] \in Quiet /\ pc[t] = "isOpen" =>
      (IsOpenAnswer(fd[t]) <=> obj[t] \in OpenDevices)

Contract == INSTANCE DeviceContract
              WITH opened <- OpenDevices \cup Granted,
                   opening <- Opening,
                   closing <- Closing

(* Used as their clients promise to, devices behave as DeviceContract says: *)
(* each step of open() and close() is a step of the contract or changes     *)
(* nothing the contract knows of.                                           *)
ImplementsContract == Contract!Spec

==============================================================================
