------------------------ MODULE DescriptorTableProofs ------------------------
(***************************************************************************)
(* Lemmas about DescriptorTable, for any numbers of descriptors, files and *)
(* threads: what each system call keeps, and what it does to one entry of  *)
(* the table.  The proofs about the lifecycles on Linux and macOS cite     *)
(* them.                                                                   *)
(***************************************************************************)
EXTENDS DescriptorTable, TLAPS

USE KernelAssumption

NoFd == -1

(* What a step of the system may do to the kernel.                         *)
KernelStep ==
  \/ \E n \in Fds, f \in Files, m \in Objects \cup {Jvm} : OpenFile(n, f, m)
  \/ \E n \in Fds, f \in Files, m \in Objects, name \in Names :
       OpenAttached(n, f, m, name)
  \/ \E n \in Fds, name \in Names : AttachFile(n, name)
  \/ \E n \in Fds \cup {NoFd} : CloseFd(n)
  \/ \E t \in Threads, n \in Fds \cup {NoFd} : EnterKernel(t, n)
  \/ \E t \in Threads : LeaveKernel(t)
  \/ UNCHANGED kernel

(* No two numbers share a file, and the table holds none that is unused.   *)
TableSound ==
  /\ \A m, n \in Fds : fdTable[m] = fdTable[n] /\ fdTable[m] # NoFile => m = n
  /\ \A n \in Fds : fdTable[n] # NoFile => file[fdTable[n]] # Unused

(* A name is attached to one file, whether a number or only a system call  *)
(* in progress refers to it.                                               *)
NamesExclusive ==
  \A f, g \in Files :
    file[f].iface = file[g].iface /\ file[f].iface # NoName => f = g

(* A system call in progress keeps the file it was given.                  *)
RefsSound == \A t \in Threads : ref[t] # NoFile => file[ref[t]] # Unused

KernelInv == KernelTypeOK /\ TableSound /\ NamesExclusive /\ RefsSound

-----------------------------------------------------------------------------
(* What one call does to one entry of the table.                           *)

Kept(k) ==
  /\ fdTable'[k] = fdTable[k]
  /\ fdTable[k] # NoFile => file'[fdTable[k]] = file[fdTable[k]]

LEMMA OpenFileEffect ==
  ASSUME KernelTypeOK, TableSound,
         NEW n \in Fds, NEW f \in Files, NEW m, OpenFile(n, f, m)
  PROVE  /\ \A k \in Fds \ {n} : Kept(k)
         /\ fdTable[n] = NoFile
         /\ fdTable'[n] = f /\ file'[f] = Made(m)
BY DEF KernelTypeOK, TableSound, OpenFile, LowestFree, Kept

LEMMA OpenAttachedEffect ==
  ASSUME KernelTypeOK, TableSound,
         NEW n \in Fds, NEW f \in Files, NEW m, NEW name,
         OpenAttached(n, f, m, name)
  PROVE  /\ \A k \in Fds \ {n} : Kept(k)
         /\ fdTable[n] = NoFile
         /\ fdTable'[n] = f /\ file'[f] = [maker |-> m, iface |-> name]
BY DEF KernelTypeOK, TableSound, OpenAttached, LowestFree, Kept

LEMMA AttachFileEffect ==
  ASSUME KernelTypeOK, TableSound,
         NEW n \in Fds, NEW name \in Names, AttachFile(n, name)
  PROVE  /\ \A k \in Fds \ {n} : Kept(k)
         /\ fdTable'[n] = fdTable[n] /\ fdTable[n] \in Files
         /\ file'[fdTable[n]].maker = file[fdTable[n]].maker
         /\ file'[fdTable[n]].iface = name
BY DEF KernelTypeOK, TableSound, AttachFile, CanAttach, IsOpenFd, Kept, FileState

LEMMA CloseFdEffect ==
  ASSUME KernelTypeOK, TableSound, NEW n, CloseFd(n)
  PROVE  /\ \A k \in Fds \ {n} : Kept(k)
         /\ n \in Fds => fdTable'[n] = NoFile
<1>1. CASE IsOpenFd(n)
  <2>1. fdTable' = [fdTable EXCEPT ![n] = NoFile]
    BY <1>1 DEF CloseFd
  <2>2. \A f \in Files : f # fdTable[n] => file'[f] = file[f]
    BY <1>1 DEF CloseFd, KernelTypeOK
  <2>3. \A k \in Fds \ {n} : fdTable[k] # NoFile => fdTable[k] # fdTable[n]
    BY <1>1 DEF TableSound, IsOpenFd
  <2> QED
    BY <2>1, <2>2, <2>3 DEF Kept, KernelTypeOK
<1>2. CASE ~IsOpenFd(n)
  BY <1>2 DEF CloseFd, kernel, Kept, IsOpenFd
<1> QED
  BY <1>1, <1>2

LEMMA TransferEffect ==
  ASSUME KernelTypeOK, NEW t \in Threads,
         \/ \E n \in Fds \cup {NoFd} : EnterKernel(t, n)
         \/ LeaveKernel(t)
         \/ UNCHANGED kernel
  PROVE  \A k \in Fds : Kept(k)
<1>1. CASE (\E n \in Fds \cup {NoFd} : EnterKernel(t, n)) \/ UNCHANGED kernel
  BY <1>1 DEF EnterKernel, kernel, Kept
<1>2. CASE LeaveKernel(t)
  <2> SUFFICES ASSUME NEW k \in Fds, fdTable[k] # NoFile
               PROVE  file'[fdTable[k]] = file[fdTable[k]]
    BY <1>2 DEF LeaveKernel, Kept
  <2>1. CASE fdTable[k] = ref[t]
    BY <1>2, <2>1 DEF LeaveKernel
  <2>2. CASE fdTable[k] # ref[t]
    BY <1>2, <2>2 DEF LeaveKernel, KernelTypeOK
  <2> QED
    BY <2>1, <2>2
<1> QED
  BY <1>1, <1>2

-----------------------------------------------------------------------------
(* What every step of the system keeps.                                    *)

LEMMA KernelKeepsTypes ==
  ASSUME KernelTypeOK, KernelStep
  PROVE  KernelTypeOK'
<1> USE DEF KernelTypeOK, FileState
<1>1. CASE \E n \in Fds, f \in Files, m \in Objects \cup {Jvm} : OpenFile(n, f, m)
  BY <1>1 DEF OpenFile, Made
<1>2. CASE \E n \in Fds, f \in Files, m \in Objects, name \in Names :
             OpenAttached(n, f, m, name)
  BY <1>2 DEF OpenAttached
<1>3. CASE \E n \in Fds, name \in Names : AttachFile(n, name)
  BY <1>3 DEF AttachFile, CanAttach, IsOpenFd
<1>4. CASE \E n \in Fds \cup {NoFd} : CloseFd(n)
  BY <1>4 DEF CloseFd, IsOpenFd, Unused, kernel
<1>5. CASE \E t \in Threads, n \in Fds \cup {NoFd} : EnterKernel(t, n)
  BY <1>5 DEF EnterKernel, IsOpenFd
<1>6. CASE \E t \in Threads : LeaveKernel(t)
  <2> PICK t \in Threads : LeaveKernel(t)
    BY <1>6
  <2>1. Unused \in FileState
    BY DEF Unused
  <2>2. [file EXCEPT ![ref[t]] = Unused] \in [Files -> FileState]
    BY <2>1
  <2>3. file' \in [Files -> FileState]
    BY <2>2 DEF LeaveKernel
  <2> QED
    BY <2>3 DEF LeaveKernel
<1>7. CASE UNCHANGED kernel
  BY <1>7 DEF kernel
<1> QED
  BY <1>1, <1>2, <1>3, <1>4, <1>5, <1>6, <1>7 DEF KernelStep

(* Numbers stay distinct files, and a file in the table stays in use.      *)
LEMMA KernelKeepsTable ==
  ASSUME KernelTypeOK, TableSound, KernelStep
  PROVE  TableSound'
<1> USE DEF KernelTypeOK, TableSound
<1>1. CASE \E n \in Fds, f \in Files, m \in Objects \cup {Jvm} : OpenFile(n, f, m)
  <2> PICK n \in Fds, f \in Files, m \in Objects \cup {Jvm} : OpenFile(n, f, m)
    BY <1>1
  <2>1. \A k \in Fds : fdTable[k] # f
    BY DEF OpenFile
  <2>2. Made(m) # Unused
    BY DEF Made, Unused
  <2> QED
    BY <2>1, <2>2 DEF OpenFile
<1>2. CASE \E n \in Fds, f \in Files, m \in Objects, name \in Names :
             OpenAttached(n, f, m, name)
  <2> PICK n \in Fds, f \in Files, m \in Objects, name \in Names :
             OpenAttached(n, f, m, name)
    BY <1>2
  <2>1. \A k \in Fds : fdTable[k] # f
    BY DEF OpenAttached
  <2>2. [maker |-> m, iface |-> name] # Unused
    BY DEF Unused
  <2> QED
    BY <2>1, <2>2 DEF OpenAttached
<1>3. CASE \E n \in Fds, name \in Names : AttachFile(n, name)
  <2> PICK n \in Fds, name \in Names : AttachFile(n, name)
    BY <1>3
  <2>1. file'[fdTable[n]] # Unused
    BY DEF AttachFile, CanAttach, IsOpenFd, Unused, FileState
  <2>2. \A f \in Files : f # fdTable[n] => file'[f] = file[f]
    BY DEF AttachFile
  <2> QED
    BY <2>1, <2>2 DEF AttachFile
<1>4. CASE \E n \in Fds \cup {NoFd} : CloseFd(n)
  <2> PICK n : CloseFd(n)
    BY <1>4
  <2>1. CASE IsOpenFd(n)
    <3>1. fdTable' = [fdTable EXCEPT ![n] = NoFile]
      BY <2>1 DEF CloseFd
    <3>2. \A f \in Files : f # fdTable[n] => file'[f] = file[f]
      BY <2>1 DEF CloseFd
    <3> QED
      BY <2>1, <3>1, <3>2 DEF IsOpenFd
  <2>2. CASE ~IsOpenFd(n)
    BY <2>2 DEF CloseFd, kernel
  <2> QED
    BY <2>1, <2>2
<1>5. CASE \E t \in Threads, n \in Fds \cup {NoFd} : EnterKernel(t, n)
  BY <1>5 DEF EnterKernel
<1>6. CASE \E t \in Threads : LeaveKernel(t)
  <2> PICK t \in Threads : LeaveKernel(t)
    BY <1>6
  <2>1. fdTable' = fdTable
    BY DEF LeaveKernel
  <2>2. \A n \in Fds : fdTable[n] # NoFile => file'[fdTable[n]] = file[fdTable[n]]
    BY DEF LeaveKernel
  <2> QED
    BY <2>1, <2>2
<1>7. CASE UNCHANGED kernel
  BY <1>7 DEF kernel
<1> QED
  BY <1>1, <1>2, <1>3, <1>4, <1>5, <1>6, <1>7 DEF KernelStep

(* A name that is attached is not granted again.                           *)
LEMMA KernelKeepsNames ==
  ASSUME KernelTypeOK, NamesExclusive, KernelStep
  PROVE  NamesExclusive'
<1> USE DEF KernelTypeOK, NamesExclusive, FileState
<1>1. ASSUME NEW g \in Files,
             \A f \in Files \ {g} : file'[f] = file[f],
             file'[g].iface = NoName \/ ~Attached(file'[g].iface)
      PROVE  NamesExclusive'
  BY <1>1 DEF Attached
<1>2. CASE \E n \in Fds, f \in Files, m \in Objects \cup {Jvm} : OpenFile(n, f, m)
  BY <1>1, <1>2 DEF OpenFile, Made
<1>3. CASE \E n \in Fds, f \in Files, m \in Objects, name \in Names :
             OpenAttached(n, f, m, name)
  BY <1>1, <1>3 DEF OpenAttached
<1>4. CASE \E n \in Fds, name \in Names : AttachFile(n, name)
  BY <1>1, <1>4 DEF AttachFile, CanAttach, IsOpenFd
<1>5. CASE \E n \in Fds \cup {NoFd} : CloseFd(n)
  BY <1>1, <1>5 DEF CloseFd, IsOpenFd, Unused, kernel
<1>6. CASE \E t \in Threads, n \in Fds \cup {NoFd} : EnterKernel(t, n)
  BY <1>6 DEF EnterKernel
<1>7. CASE \E t \in Threads : LeaveKernel(t)
  <2> PICK t \in Threads : LeaveKernel(t)
    BY <1>7
  <2>1. CASE file' = file
    BY <2>1
  <2>2. CASE file' = [file EXCEPT ![ref[t]] = Unused]
    <3>1. CASE ref[t] \in Files
      BY <1>1, <2>2, <3>1 DEF Unused
    <3>2. CASE ref[t] \notin Files
      BY <2>2, <3>2
    <3> QED
      BY <3>1, <3>2
  <2> QED
    BY <2>1, <2>2 DEF LeaveKernel
<1>8. CASE UNCHANGED kernel
  BY <1>8 DEF kernel
<1> QED
  BY <1>2, <1>3, <1>4, <1>5, <1>6, <1>7, <1>8 DEF KernelStep

(* A file that a system call holds stays in use, and its maker's, until    *)
(* the call returns.                                                       *)
LEMMA HeldFileKept ==
  ASSUME KernelTypeOK, KernelStep, NEW t \in Threads,
         ref[t] # NoFile, ref'[t] = ref[t], file[ref[t]] # Unused
  PROVE  file'[ref[t]] # Unused /\ file'[ref[t]].maker = file[ref[t]].maker
<1> USE DEF KernelTypeOK
<1>1. ref[t] \in Files
  OBVIOUS
<1>2. CASE \E n \in Fds, f \in Files, m \in Objects \cup {Jvm} : OpenFile(n, f, m)
  BY <1>1, <1>2 DEF OpenFile
<1>3. CASE \E n \in Fds, f \in Files, m \in Objects, name \in Names :
             OpenAttached(n, f, m, name)
  BY <1>1, <1>3 DEF OpenAttached
<1>4. CASE \E n \in Fds, name \in Names : AttachFile(n, name)
  BY <1>1, <1>4 DEF AttachFile, CanAttach, IsOpenFd, FileState, Unused
<1>5. CASE \E n \in Fds \cup {NoFd} : CloseFd(n)
  BY <1>1, <1>5 DEF CloseFd, IsOpenFd, kernel
<1>6. CASE \E u \in Threads, n \in Fds \cup {NoFd} : EnterKernel(u, n)
  BY <1>6 DEF EnterKernel
<1>7. CASE \E u \in Threads : LeaveKernel(u)
  <2> PICK u \in Threads : LeaveKernel(u)
    BY <1>7
  <2>1. u # t
    BY <1>1 DEF LeaveKernel
  <2>2. CASE ref[u] = ref[t]
    BY <2>1, <2>2 DEF LeaveKernel
  <2>3. CASE ref[u] # ref[t]
    BY <1>1, <2>3 DEF LeaveKernel
  <2> QED
    BY <2>2, <2>3
<1>8. CASE UNCHANGED kernel
  BY <1>8 DEF kernel
<1> QED
  BY <1>2, <1>3, <1>4, <1>5, <1>6, <1>7, <1>8 DEF KernelStep

LEMMA KernelKeepsRefs ==
  ASSUME KernelTypeOK, TableSound, RefsSound, KernelStep
  PROVE  RefsSound'
<1> SUFFICES ASSUME NEW t \in Threads, ref'[t] # NoFile
             PROVE  file'[ref'[t]] # Unused
  BY DEF RefsSound
<1>1. CASE ref'[t] = ref[t]
  BY <1>1, HeldFileKept DEF RefsSound
<1>2. CASE ref'[t] # ref[t]
  <2>1. PICK u \in Threads, n \in Fds \cup {NoFd} :
               EnterKernel(u, n) \/ LeaveKernel(u)
    BY <1>2 DEF KernelStep, OpenFile, OpenAttached, AttachFile, CloseFd, kernel
  <2>2. u = t /\ EnterKernel(u, n)
    BY <1>2, <2>1 DEF EnterKernel, LeaveKernel, KernelTypeOK
  <2> QED
    BY <2>2 DEF EnterKernel, IsOpenFd, TableSound, KernelTypeOK
<1> QED
  BY <1>1, <1>2

LEMMA KernelInvInit == KernelInit => KernelInv
BY DEF KernelInit, KernelInv, KernelTypeOK, FileState, Unused, TableSound,
       NamesExclusive, RefsSound

LEMMA KernelInvKept ==
  ASSUME KernelInv, KernelStep
  PROVE  KernelInv'
BY KernelKeepsTypes, KernelKeepsTable, KernelKeepsNames, KernelKeepsRefs
DEF KernelInv

==============================================================================
