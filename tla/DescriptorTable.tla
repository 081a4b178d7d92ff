--------------------------- MODULE DescriptorTable ---------------------------
(***************************************************************************)
(* The kernel side of a NetworkDevice: the descriptor table of the process *)
(* that hosts the JVM, the open files its entries refer to, and the        *)
(* network interface a tun file is attached to.  None of this is code of   *)
(* the repository; it is modelled from how the JNI libraries use it.       *)
(*                                                                         *)
(* Three facts matter to the library.  Descriptor numbers are reused, the  *)
(* lowest free one first.  An interface name has at most one open file     *)
(* attached to it.  A file lives as long as a descriptor or a system call  *)
(* in progress refers to it, so close() does not end a blocked read().     *)
(***************************************************************************)
EXTENDS Integers, FiniteSets

CONSTANTS
  Objects,   \* the NetworkDevice objects of the JVM
  Threads,   \* the Java threads that call them
  Names,     \* interface names
  Fds,       \* descriptor numbers the process may use (bounds the table)
  Files,     \* open file descriptions (bounds the files alive at once)
  NoFile,    \* an unused entry of the table, a thread outside the kernel
  NoName,    \* a file that is not attached to an interface
  Jvm,       \* maker of the files that are none of the library's business
  Nobody     \* maker of a file that does not exist

ASSUME KernelAssumption ==
  /\ Fds \subseteq Nat
  /\ NoFile \notin Files
  /\ NoName \notin Names
  /\ Jvm \notin Objects
  /\ Nobody \notin Objects \cup {Jvm}

VARIABLES
  fdTable,   \* fdTable[n]: the open file descriptor n refers to, or NoFile
  file,      \* file[f]: which object's open() made f, and f's interface
  ref        \* ref[t]: the file thread t's system call in progress holds

kernel == <<fdTable, file, ref>>

FileState == [maker : Objects \cup {Jvm, Nobody}, iface : Names \cup {NoName}]

Unused == [maker |-> Nobody, iface |-> NoName]

Made(m) == [maker |-> m, iface |-> NoName]

KernelTypeOK ==
  /\ fdTable \in [Fds -> Files \cup {NoFile}]
  /\ file \in [Files -> FileState]
  /\ ref \in [Threads -> Files \cup {NoFile}]

KernelInit ==
  /\ fdTable = [n \in Fds |-> NoFile]
  /\ file = [f \in Files |-> Unused]
  /\ ref = [t \in Threads |-> NoFile]

IsOpenFd(n) == n \in Fds /\ fdTable[n] # NoFile

LowestFree(n) ==
  /\ fdTable[n] = NoFile
  /\ \A m \in Fds : fdTable[m] = NoFile => n <= m

Attached(name) == \E f \in Files : file[f].iface = name

(* open(2) and socket(2): a new file, not attached yet, at the lowest      *)
(* free number.                                                            *)
OpenFile(n, f, m) ==
  /\ LowestFree(n)
  /\ file[f] = Unused
  /\ fdTable' = [fdTable EXCEPT ![n] = f]
  /\ file' = [file EXCEPT ![f] = Made(m)]
  /\ UNCHANGED ref

(* open(2) of a device file that stands for one interface and is exclusive. *)
OpenAttached(n, f, m, name) ==
  /\ LowestFree(n)
  /\ file[f] = Unused
  /\ ~Attached(name)
  /\ fdTable' = [fdTable EXCEPT ![n] = f]
  /\ file' = [file EXCEPT ![f] = [maker |-> m, iface |-> name]]
  /\ UNCHANGED ref

(* A network file that has no interface yet takes a name nobody holds.     *)
CanAttach(n, name) ==
  /\ IsOpenFd(n)
  /\ file[fdTable[n]].maker # Jvm
  /\ file[fdTable[n]].iface = NoName
  /\ ~Attached(name)

AttachFile(n, name) ==
  /\ CanAttach(n, name)
  /\ file' = [file EXCEPT ![fdTable[n]].iface = name]
  /\ UNCHANGED <<fdTable, ref>>

(* close(2): frees the number; the file goes with its last reference.  A   *)
(* number that is not open is EBADF and changes nothing.                   *)
CloseFd(n) ==
  IF IsOpenFd(n)
  THEN /\ fdTable' = [fdTable EXCEPT ![n] = NoFile]
       /\ file' = IF \E t \in Threads : ref[t] = fdTable[n]
                  THEN file
                  ELSE [file EXCEPT ![fdTable[n]] = Unused]
       /\ UNCHANGED ref
  ELSE UNCHANGED kernel

(* A tun file carries packets once it has an interface; any other file is   *)
(* the JVM's and takes whatever the caller reads or writes.                *)
CanTransfer(n) ==
  /\ IsOpenFd(n)
  /\ file[fdTable[n]].maker = Jvm \/ file[fdTable[n]].iface # NoName

(* A system call that may block holds the file it was given ...            *)
EnterKernel(t, n) ==
  /\ IsOpenFd(n)
  /\ ref' = [ref EXCEPT ![t] = fdTable[n]]
  /\ UNCHANGED <<fdTable, file>>

(* ... and lets it go when it returns.                                     *)
LeaveKernel(t) ==
  /\ ref' = [ref EXCEPT ![t] = NoFile]
  /\ file' = IF \/ \E n \in Fds : fdTable[n] = ref[t]
                \/ \E u \in Threads \ {t} : ref[u] = ref[t]
             THEN file
             ELSE [file EXCEPT ![ref[t]] = Unused]
  /\ UNCHANGED fdTable

==============================================================================
