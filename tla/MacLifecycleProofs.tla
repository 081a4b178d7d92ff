-------------------------- MODULE MacLifecycleProofs --------------------------
(***************************************************************************)
(* Theorems about MacLifecycle, for any numbers of objects, threads,       *)
(* names, descriptors, files and nodes:                                    *)
(*   - types are kept, whatever clients do: a walk never takes a step from *)
(*     the end of the list;                                                *)
(*   - no error path of open() leaves a socket behind, whatever clients    *)
(*     do;                                                                 *)
(*   - when open() and close() of an object do not overlap and only what   *)
(*     was opened is closed, open() and close() implement DeviceContract,  *)
(*     in whatever state concurrent calls put the list of names;           *)
(*   - when clients keep the promises about the list too, no walk reads a  *)
(*     node that is free or not filled yet, a configuration call asks      *)
(*     about its own interface, and while nobody changes the list it holds *)
(*     exactly the open utun descriptors.                                  *)
(***************************************************************************)
EXTENDS MacLifecycle, DescriptorTableProofs, FiniteSetTheorems, WellFoundedInduction

USE KernelAssumption, MacAssumption

Pcs == {"idle"} \cup OpenPcs \cup ClosePcs \cup LookupPcs

LifecyclePcs == OpenPcs \cup ClosePcs

(* A thread in a call executes a method of an object; the open() of a TUN  *)
(* has a descriptor number once there is a socket, and who walks the list  *)
(* is at a node.                                                           *)
FrameSound(t) ==
  /\ ~At(t, "idle") => frame[t].obj \in Objects
  /\ frame[t].pc \in {"connect", "name", "undo"} \cup AddPcs => frame[t].fd \in Fds
  /\ frame[t].pc \in {"addWalk", "delWalk", "lookWalk", "unlink", "free"} =>
       frame[t].item # Null

TypedSoFar == TypeOK /\ \A t \in Threads : FrameSound(t)

-----------------------------------------------------------------------------
(* What a step changes in its thread's frame                               *)

OthersStay(t) == \A u \in Threads \ {t} : frame'[u] = frame[u]

LEMMA EnterDoes ==
  ASSUME TypeOK, NEW t \in Threads, NEW o \in Objects, NEW n \in Fds \cup {NoHandle},
         NEW next \in Pcs, Enter(t, o, n, next)
  PROVE  /\ OthersStay(t) /\ frame' \in [Threads -> Frame] /\ At(t, "idle")
         /\ frame'[t].pc = next /\ frame'[t].obj = o /\ frame'[t].fd = n
<1> DEFINE r == [Idle EXCEPT !.pc = next, !.obj = o, !.fd = n]
<1>1. frame' = [frame EXCEPT ![t] = r] /\ At(t, "idle")
  BY DEF Enter
<1>2. Idle \in Frame
  BY DEF Idle, Frame
<1>3. r \in Frame
  BY <1>2 DEF Frame, Pcs
<1>4. r.pc = next /\ r.obj = o /\ r.fd = n
  BY <1>2 DEF Frame
<1> HIDE DEF r
<1>5. QED
  BY <1>1, <1>3, <1>4 DEF TypeOK, OthersStay

LEMMA ReturnDoes ==
  ASSUME TypeOK, NEW t \in Threads, Return(t)
  PROVE  /\ OthersStay(t) /\ frame' \in [Threads -> Frame]
         /\ frame'[t].pc = "idle"
<1>1. Idle \in Frame /\ Idle.pc = "idle"
  BY DEF Idle, Frame
<1>2. QED
  BY <1>1 DEF TypeOK, OthersStay, Return

SameCall(t) ==
  /\ frame'[t].obj = frame[t].obj /\ frame'[t].fd = frame[t].fd

LEMMA GotoDoes ==
  ASSUME TypeOK, NEW t \in Threads, NEW next \in Pcs, Goto(t, next)
  PROVE  /\ OthersStay(t) /\ frame' \in [Threads -> Frame]
         /\ SameCall(t) /\ frame'[t].pc = next
         /\ frame'[t].item = frame[t].item
<1>1. frame[t] \in Frame
  BY DEF TypeOK
<1> DEFINE r == [frame[t] EXCEPT !.pc = next]
<1>2. r \in Frame
  BY <1>1 DEF Frame, Pcs
<1>3. /\ r.pc = next /\ r.obj = frame[t].obj /\ r.fd = frame[t].fd
      /\ r.item = frame[t].item
  BY <1>1 DEF Frame
<1>4. frame' = [frame EXCEPT ![t] = r]
  BY DEF Goto
<1> HIDE DEF r
<1>5. QED
  BY <1>2, <1>3, <1>4 DEF TypeOK, OthersStay, SameCall

LEMMA VisitDoes ==
  ASSUME TypeOK, NEW t \in Threads, NEW x \in Nodes \cup {Null},
         NEW walk \in Pcs, NEW end \in Pcs, Visit(t, x, walk, end)
  PROVE  /\ OthersStay(t) /\ frame' \in [Threads -> Frame]
         /\ SameCall(t) /\ frame'[t].item = x
         /\ frame'[t].pc = IF x = Null THEN end ELSE walk
<1>1. frame[t] \in Frame
  BY DEF TypeOK
<1> DEFINE p == IF x = Null THEN end ELSE walk
           r == [frame[t] EXCEPT !.pc = p, !.prev = frame[t].item, !.item = x]
<1>2. frame' = [frame EXCEPT ![t] = r]
  BY DEF Visit
<1>3. p \in Pcs
  OBVIOUS
<1> HIDE DEF p
<1>4. r \in Frame
  BY <1>1, <1>3 DEF Frame, Pcs
<1>5. /\ r.pc = p /\ r.obj = frame[t].obj /\ r.fd = frame[t].fd
      /\ r.item = x
  BY <1>1 DEF Frame
<1> HIDE DEF r
<1>6. QED
  BY <1>2, <1>4, <1>5 DEF TypeOK, OthersStay, SameCall, p

(* A round of a search goes on, finds the number or comes to the end.      *)
LEMMA SearchDoes ==
  ASSUME TypedSoFar, NEW t \in Threads,
         NEW walk \in {"delWalk", "lookWalk"}, NEW found \in Pcs, NEW end \in Pcs,
         Search(t, walk, found, end)
  PROVE  /\ OthersStay(t) /\ frame' \in [Threads -> Frame]
         /\ SameCall(t) /\ At(t, walk)
         /\ frame'[t].pc \in {walk, found, end}
         /\ frame'[t].pc \in {walk, found} \ {end} => frame'[t].item # Null
<1>1. At(t, walk) /\ frame[t].item \in Nodes
  BY DEF Search, TypedSoFar, FrameSound, At, TypeOK, Frame
<1>2. node[frame[t].item].Next \in Nodes \cup {Null} /\ walk \in Pcs
  BY <1>1 DEF TypedSoFar, TypeOK, Struct, Pcs, ClosePcs, LookupPcs
<1>3. \/ Goto(t, found)
      \/ Visit(t, node[frame[t].item].Next, walk, end)
  BY DEF Search
<1>4. CASE Goto(t, found)
  BY <1>1, <1>4, GotoDoes DEF TypedSoFar
<1>5. CASE Visit(t, node[frame[t].item].Next, walk, end)
  BY <1>1, <1>2, <1>5, VisitDoes DEF TypedSoFar
<1>6. QED
  BY <1>3, <1>4, <1>5

(* open() gets a descriptor.                                               *)
Take(t, next, n) == frame' = [frame EXCEPT ![t].pc = next, ![t].fd = n]

LEMMA TakeDoes ==
  ASSUME TypeOK, NEW t \in Threads, NEW next \in Pcs, NEW n \in Fds,
         Take(t, next, n)
  PROVE  /\ OthersStay(t) /\ frame' \in [Threads -> Frame]
         /\ frame'[t].pc = next /\ frame'[t].obj = frame[t].obj
         /\ frame'[t].fd = n /\ frame'[t].device = frame[t].device
<1>1. frame[t] \in Frame
  BY DEF TypeOK
<1> DEFINE r == [frame[t] EXCEPT !.pc = next, !.fd = n]
<1>2. r \in Frame
  BY <1>1 DEF Frame, Pcs
<1>3. /\ r.pc = next /\ r.obj = frame[t].obj /\ r.fd = n
      /\ r.device = frame[t].device
  BY <1>1 DEF Frame
<1>4. frame' = [frame EXCEPT ![t] = r]
  BY DEF Take
<1> HIDE DEF r
<1>5. QED
  BY <1>2, <1>3, <1>4 DEF TypeOK, OthersStay

(* open() gets the memory for an entry.                                    *)
LEMMA GetNameDoes ==
  ASSUME TypeOK, NEW t \in Threads, GetName(t)
  PROVE  /\ OthersStay(t) /\ frame' \in [Threads -> Frame] /\ SameCall(t)
         /\ At(t, "name") /\ frame'[t].pc = "add"
         /\ memory' \in [Nodes -> {"free", "raw", "filled"}]
<1>1. PICK x \in Nodes :
        /\ memory' = [memory EXCEPT ![x] = "raw"]
        /\ frame' = [frame EXCEPT ![t].pc = "add", ![t].device = x]
  BY DEF GetName
<1>2. frame[t] \in Frame
  BY DEF TypeOK
<1> DEFINE r == [frame[t] EXCEPT !.pc = "add", !.device = x]
<1>3. r \in Frame
  BY <1>2 DEF Frame, OpenPcs, AddPcs
<1>4. r.pc = "add" /\ r.obj = frame[t].obj /\ r.fd = frame[t].fd
  BY <1>2 DEF Frame
<1>5. frame' = [frame EXCEPT ![t] = r]
  BY <1>1
<1> HIDE DEF r
<1>6. memory' \in [Nodes -> {"free", "raw", "filled"}]
  BY <1>1 DEF TypeOK
<1>7. QED
  BY <1>3, <1>4, <1>5, <1>6 DEF TypeOK, OthersStay, SameCall, GetName

-----------------------------------------------------------------------------
(* Steps on the list                                                       *)

HeapTyped ==
  /\ list \in Nodes \cup {Null}
  /\ node \in [Nodes -> Struct]
  /\ memory \in [Nodes -> {"free", "raw", "filled"}]

(* What a step on the list is for everything but the list: it changes no   *)
(* descriptor, no handle and no call's object or number.                   *)
Inner(t) ==
  /\ UNCHANGED <<kernel, client>>
  /\ OthersStay(t) /\ SameCall(t) /\ FrameSound(t)'
  /\ frame' \in [Threads -> Frame]
  /\ HeapTyped'
  /\ \/ frame[t].pc \in AddPcs /\ frame'[t].pc \in AddPcs
     \/ frame[t].pc \in ClosePcs /\ frame'[t].pc \in ClosePcs
     \/ frame[t].pc \in LookupPcs /\ frame'[t].pc \in LookupPcs

(* The frame of a call that goes on                                        *)
LEMMA SoundOnward ==
  ASSUME TypedSoFar, NEW t \in Threads, SameCall(t), frame' \in [Threads -> Frame],
         \/ frame[t].pc \in AddPcs /\ frame'[t].pc \in AddPcs
         \/ frame[t].pc \in ClosePcs /\ frame'[t].pc \in ClosePcs
         \/ frame[t].pc \in LookupPcs /\ frame'[t].pc \in LookupPcs,
         frame'[t].pc \in {"addWalk", "delWalk", "lookWalk", "unlink", "free"} =>
           frame'[t].item # Null
  PROVE  FrameSound(t)'
BY DEF TypedSoFar, FrameSound, SameCall, At, AddPcs, ClosePcs, LookupPcs

LEMMA FillInner ==
  ASSUME TypedSoFar, NEW t \in Threads, Fill(t)
  PROVE  Inner(t)
<1> DEFINE x == frame[t].device
           s == [fd |-> frame[t].fd, ifName |-> NameOf[frame[t].obj], Next |-> Null]
<1>1. /\ frame[t].pc \in AddPcs /\ x # Null
      /\ memory' = [memory EXCEPT ![x] = "filled"]
      /\ node' = [node EXCEPT ![x] = s]
      /\ UNCHANGED <<kernel, client, list, frame>>
  BY DEF Fill
<1>2. frame[t] \in Frame /\ x \in Nodes
  BY <1>1 DEF TypedSoFar, TypeOK, Frame
<1>3. s \in Struct
  <2>1. frame[t].fd \in Fds /\ frame[t].obj \in Objects
    BY <1>1 DEF TypedSoFar, FrameSound, At, AddPcs
  <2>2. QED
    BY <2>1 DEF Struct
<1> HIDE DEF x, s
<1>4. HeapTyped'
  BY <1>1, <1>2, <1>3 DEF HeapTyped, TypedSoFar, TypeOK
<1>5. FrameSound(t)' /\ frame' \in [Threads -> Frame]
  BY <1>1 DEF TypedSoFar, TypeOK, FrameSound, At
<1>6. QED
  BY <1>1, <1>4, <1>5 DEF Inner, OthersStay, SameCall

LEMMA AddInner ==
  ASSUME TypedSoFar, NEW t \in Threads, Add(t)
  PROVE  Inner(t)
<1>1. /\ frame[t].pc = "add"
      /\ list' = IF list = Null THEN frame[t].device ELSE list
      /\ Visit(t, list, "addWalk", "assign")
      /\ UNCHANGED <<kernel, client, node, memory>>
  BY DEF Add, At
<1>2. frame[t].device \in Nodes \cup {Null} /\ list \in Nodes \cup {Null}
  BY DEF TypedSoFar, TypeOK, Frame
<1>3. HeapTyped'
  BY <1>1, <1>2 DEF HeapTyped, TypedSoFar, TypeOK
<1>4. "addWalk" \in Pcs /\ "assign" \in Pcs
  BY DEF Pcs, OpenPcs, AddPcs
<1>5. /\ OthersStay(t) /\ frame' \in [Threads -> Frame]
      /\ SameCall(t) /\ frame'[t].item = list
      /\ frame'[t].pc = IF list = Null THEN "assign" ELSE "addWalk"
  BY <1>1, <1>2, <1>4, VisitDoes DEF TypedSoFar
<1>6. frame[t].pc \in AddPcs /\ frame'[t].pc \in AddPcs
  BY <1>1, <1>5 DEF AddPcs
<1>7. FrameSound(t)'
  BY <1>5, <1>6, SoundOnward
<1>8. QED
  BY <1>1, <1>3, <1>5, <1>6, <1>7 DEF Inner

LEMMA AddWalkInner ==
  ASSUME TypedSoFar, NEW t \in Threads, AddWalk(t)
  PROVE  Inner(t)
<1> DEFINE item == frame[t].item
           x == IF node[item].Next = Null THEN frame[t].device ELSE node[item].Next
<1>1. /\ frame[t].pc = "addWalk"
      /\ node' = [node EXCEPT ![item].Next = x]
      /\ Visit(t, node[item].Next, "addWalk", "assign")
      /\ UNCHANGED <<kernel, client, list, memory>>
  BY DEF AddWalk, At
<1>2. item \in Nodes
  BY <1>1 DEF TypedSoFar, TypeOK, Frame, FrameSound
<1>3. node[item] \in Struct /\ node[item].Next \in Nodes \cup {Null}
  BY <1>2 DEF TypedSoFar, TypeOK, Struct
<1>4. x \in Nodes \cup {Null}
  BY <1>3 DEF TypedSoFar, TypeOK, Frame
<1> HIDE DEF x
<1>5. node' \in [Nodes -> Struct]
  <2>1. [node[item] EXCEPT !.Next = x] \in Struct
    BY <1>3, <1>4 DEF Struct
  <2>2. QED
    BY <1>1, <1>2, <2>1 DEF TypedSoFar, TypeOK
<1>6. HeapTyped'
  BY <1>1, <1>5 DEF HeapTyped, TypedSoFar, TypeOK
<1>7. "addWalk" \in Pcs /\ "assign" \in Pcs
  BY DEF Pcs, OpenPcs, AddPcs
<1>8. /\ OthersStay(t) /\ frame' \in [Threads -> Frame]
      /\ SameCall(t) /\ frame'[t].item = node[item].Next
      /\ frame'[t].pc = IF node[item].Next = Null THEN "assign" ELSE "addWalk"
  BY <1>1, <1>3, <1>7, VisitDoes DEF TypedSoFar
<1>9. frame[t].pc \in AddPcs /\ frame'[t].pc \in AddPcs
  BY <1>1, <1>8 DEF AddPcs
<1>10. FrameSound(t)'
  BY <1>8, <1>9, SoundOnward
<1>11. QED
  BY <1>1, <1>6, <1>8, <1>9, <1>10 DEF Inner

LEMMA WalksInner ==
  ASSUME TypedSoFar, NEW t \in Threads,
         Delete(t) \/ DelWalk(t) \/ Lookup(t) \/ LookWalk(t)
  PROVE  Inner(t)
<1>1. UNCHANGED <<kernel, client, heap>>
  BY DEF Delete, DelWalk, Lookup, LookWalk
<1>2. HeapTyped' /\ list \in Nodes \cup {Null}
  BY <1>1 DEF heap, HeapTyped, TypedSoFar, TypeOK
<1>3. {"delWalk", "lookWalk", "unlink", "close", "copy"} \subseteq Pcs
  BY DEF Pcs, ClosePcs, LookupPcs
<1>4. /\ OthersStay(t) /\ frame' \in [Threads -> Frame] /\ SameCall(t)
      /\ \/ frame[t].pc \in ClosePcs /\ frame'[t].pc \in ClosePcs
         \/ frame[t].pc \in LookupPcs /\ frame'[t].pc \in LookupPcs
      /\ frame'[t].pc \in {"addWalk", "delWalk", "lookWalk", "unlink", "free"} =>
           frame'[t].item # Null
  <2>1. CASE Delete(t)
    <3>1. At(t, "delete") /\ Visit(t, list, "delWalk", "close")
      BY <2>1 DEF Delete
    <3>2. QED
      BY <1>2, <1>3, <3>1, VisitDoes DEF TypedSoFar, At, ClosePcs
  <2>2. CASE Lookup(t)
    <3>1. At(t, "lookup") /\ Visit(t, list, "lookWalk", "copy")
      BY <2>2 DEF Lookup
    <3>2. QED
      BY <1>2, <1>3, <3>1, VisitDoes DEF TypedSoFar, At, LookupPcs
  <2>3. CASE DelWalk(t)
    <3>1. Search(t, "delWalk", "unlink", "close")
      BY <2>3 DEF DelWalk
    <3>2. QED
      BY <1>3, <3>1, SearchDoes DEF At, ClosePcs
  <2>4. CASE LookWalk(t)
    <3>1. Search(t, "lookWalk", "copy", "copy")
      BY <2>4 DEF LookWalk
    <3>2. QED
      BY <1>3, <3>1, SearchDoes DEF At, LookupPcs
  <2>5. QED
    BY <2>1, <2>2, <2>3, <2>4
<1>5. FrameSound(t)'
  BY <1>4, SoundOnward
<1>6. QED
  BY <1>1, <1>2, <1>4, <1>5 DEF Inner

LEMMA UnlinkInner ==
  ASSUME TypedSoFar, NEW t \in Threads, Unlink(t)
  PROVE  Inner(t)
<1> DEFINE prev == frame[t].prev
           next == node[frame[t].item].Next
<1>1. /\ frame[t].pc = "unlink" /\ Goto(t, "free")
      /\ \/ prev = Null /\ list' = next /\ UNCHANGED node
         \/ prev # Null /\ node' = [node EXCEPT ![prev].Next = next] /\ UNCHANGED list
      /\ UNCHANGED <<kernel, client, memory>>
  BY DEF Unlink, At
<1>2. /\ frame[t].item \in Nodes /\ prev \in Nodes \cup {Null}
  BY <1>1 DEF TypedSoFar, TypeOK, Frame, FrameSound
<1>3. next \in Nodes \cup {Null}
  BY <1>2 DEF TypedSoFar, TypeOK, Struct
<1> HIDE DEF next
<1>4. prev # Null => [node[prev] EXCEPT !.Next = next] \in Struct
  BY <1>2, <1>3 DEF TypedSoFar, TypeOK, Struct
<1>5. node' \in [Nodes -> Struct] /\ list' \in Nodes \cup {Null}
  BY <1>1, <1>2, <1>3, <1>4 DEF TypedSoFar, TypeOK
<1>6. HeapTyped'
  BY <1>1, <1>5 DEF HeapTyped, TypedSoFar, TypeOK
<1>7. /\ OthersStay(t) /\ frame' \in [Threads -> Frame]
      /\ SameCall(t) /\ frame'[t].item = frame[t].item
      /\ frame'[t].pc = "free"
  BY <1>1, GotoDoes DEF TypedSoFar, Pcs, ClosePcs
<1>8. frame[t].pc \in ClosePcs /\ frame'[t].pc \in ClosePcs /\ frame'[t].item # Null
  BY <1>1, <1>2, <1>7 DEF ClosePcs
<1>9. FrameSound(t)'
  BY <1>7, <1>8, SoundOnward
<1>10. QED
  BY <1>1, <1>6, <1>7, <1>8, <1>9 DEF Inner

LEMMA FreeInner ==
  ASSUME TypedSoFar, NEW t \in Threads, Free(t)
  PROVE  Inner(t)
<1>1. /\ frame[t].pc = "free" /\ Goto(t, "close")
      /\ memory' = [memory EXCEPT ![frame[t].item] = "free"]
      /\ node' = [node EXCEPT ![frame[t].item] = Blank]
      /\ UNCHANGED <<kernel, client, list>>
  BY DEF Free, At
<1>2. Blank \in Struct
  BY DEF Blank, Struct
<1>3. HeapTyped'
  BY <1>1, <1>2 DEF HeapTyped, TypedSoFar, TypeOK
<1>4. /\ OthersStay(t) /\ frame' \in [Threads -> Frame]
      /\ SameCall(t) /\ frame'[t].pc = "close"
  BY <1>1, GotoDoes DEF TypedSoFar, Pcs, ClosePcs
<1>5. frame[t].pc \in ClosePcs /\ frame'[t].pc \in ClosePcs
  BY <1>1, <1>4 DEF ClosePcs
<1>6. FrameSound(t)'
  BY <1>4, <1>5, SoundOnward
<1>7. QED
  BY <1>1, <1>3, <1>4, <1>5, <1>6 DEF Inner

ListStep(t) ==
  \/ Fill(t) \/ Add(t) \/ AddWalk(t)
  \/ Delete(t) \/ DelWalk(t) \/ Unlink(t) \/ Free(t)
  \/ Lookup(t) \/ LookWalk(t)

LEMMA ListStepInner ==
  ASSUME TypedSoFar, NEW t \in Threads, ListStep(t)
  PROVE  Inner(t)
BY FillInner, AddInner, AddWalkInner, WalksInner, UnlinkInner, FreeInner DEF ListStep

-----------------------------------------------------------------------------
(* What the other steps of open() do                                       *)

LEMMA ConnectDoes ==
  ASSUME TypedSoFar, NEW t \in Threads, Connect(t)
  PROVE  /\ At(t, "connect") /\ frame'[t].pc = "name"
         /\ OthersStay(t) /\ SameCall(t) /\ frame' \in [Threads -> Frame]
         /\ frame[t].fd \in Fds /\ frame[t].obj \in Objects
         /\ NameOf[frame[t].obj] \in Names
         /\ AttachFile(frame[t].fd, NameOf[frame[t].obj])
         /\ UNCHANGED <<client, heap>>
<1>1. /\ At(t, "connect") /\ Goto(t, "name")
      /\ AttachFile(frame[t].fd, NameOf[frame[t].obj])
      /\ UNCHANGED <<client, heap>>
  BY DEF Connect
<1>2. /\ frame[t].fd \in Fds /\ frame[t].obj \in Objects
      /\ NameOf[frame[t].obj] \in Names
  BY <1>1 DEF TypedSoFar, FrameSound, At
<1>3. /\ OthersStay(t) /\ SameCall(t) /\ frame' \in [Threads -> Frame]
      /\ frame'[t].pc = "name"
  BY <1>1, GotoDoes DEF TypedSoFar, Pcs, OpenPcs
<1>4. QED
  BY <1>1, <1>2, <1>3

LEMMA BuildFailsDoes ==
  ASSUME TypedSoFar, NEW t \in Threads, BuildFails(t)
  PROVE  /\ At(t, "connect") \/ At(t, "name")
         /\ frame'[t].pc = "undo"
         /\ OthersStay(t) /\ SameCall(t) /\ frame' \in [Threads -> Frame]
         /\ UNCHANGED <<kernel, client, heap>>
BY GotoDoes DEF BuildFails, TypedSoFar, Pcs, OpenPcs

(* Where open() has got its descriptor: a socket, or the file of a TAP     *)
GotSocket(t, n, f) ==
  /\ At(t, "open") /\ frame'[t].pc = "connect"
  /\ OpenFile(n, f, frame[t].obj)

GotTap(t, n, f) ==
  /\ At(t, "open") /\ frame'[t].pc = "assign"
  /\ OpenAttached(n, f, frame[t].obj, NameOf[frame[t].obj])

LEMMA OpenSocketDoes ==
  ASSUME TypedSoFar, NEW t \in Threads, OpenSocket(t)
  PROVE  /\ OthersStay(t) /\ frame' \in [Threads -> Frame]
         /\ frame[t].obj \in Objects /\ frame'[t].obj = frame[t].obj
         /\ UNCHANGED <<client, heap>>
         /\ \E n \in Fds, f \in Files : frame'[t].fd = n /\ GotSocket(t, n, f)
<1>1. PICK n \in Fds, f \in Files :
        /\ OpenFile(n, f, frame[t].obj)
        /\ Take(t, "connect", n)
  BY DEF OpenSocket, Take
<1>2. At(t, "open") /\ frame[t].obj \in Objects /\ UNCHANGED <<client, heap>>
  BY DEF OpenSocket, TypedSoFar, FrameSound, At
<1>3. "connect" \in Pcs
  BY DEF Pcs, OpenPcs
<1>4. /\ OthersStay(t) /\ frame' \in [Threads -> Frame]
      /\ frame'[t].pc = "connect" /\ frame'[t].obj = frame[t].obj
      /\ frame'[t].fd = n
  BY <1>1, <1>3, TakeDoes DEF TypedSoFar
<1>5. GotSocket(t, n, f)
  BY <1>1, <1>2, <1>4 DEF GotSocket
<1>6. QED
  BY <1>2, <1>4, <1>5

LEMMA OpenTapDoes ==
  ASSUME TypedSoFar, NEW t \in Threads, OpenTap(t)
  PROVE  /\ OthersStay(t) /\ frame' \in [Threads -> Frame]
         /\ frame[t].obj \in Objects /\ frame'[t].obj = frame[t].obj
         /\ UNCHANGED <<client, heap>>
         /\ \E n \in Fds, f \in Files : frame'[t].fd = n /\ GotTap(t, n, f)
<1>1. PICK n \in Fds, f \in Files :
        /\ OpenAttached(n, f, frame[t].obj, NameOf[frame[t].obj])
        /\ Take(t, "assign", n)
  BY DEF OpenTap, Take
<1>2. At(t, "open") /\ frame[t].obj \in Objects /\ UNCHANGED <<client, heap>>
  BY DEF OpenTap, TypedSoFar, FrameSound, At
<1>3. "assign" \in Pcs
  BY DEF Pcs, OpenPcs, AddPcs
<1>4. /\ OthersStay(t) /\ frame' \in [Threads -> Frame]
      /\ frame'[t].pc = "assign" /\ frame'[t].obj = frame[t].obj
      /\ frame'[t].fd = n
  BY <1>1, <1>3, TakeDoes DEF TypedSoFar
<1>5. GotTap(t, n, f)
  BY <1>1, <1>2, <1>4 DEF GotTap
<1>6. QED
  BY <1>2, <1>4, <1>5

LEMMA AssignDoes ==
  ASSUME TypedSoFar, NEW t \in Threads, Assign(t)
  PROVE  /\ At(t, "assign") /\ frame'[t].pc = "idle"
         /\ OthersStay(t) /\ frame' \in [Threads -> Frame]
         /\ frame[t].fd \in Fds /\ frame[t].obj \in Objects
         /\ handle' \in [Objects -> Fds \cup {NoHandle}]
         /\ handle'[frame[t].obj] = frame[t].fd
         /\ \A o \in Objects \ {frame[t].obj} : handle'[o] = handle[o]
         /\ held' = held \cup {frame[t].obj}
         /\ UNCHANGED <<kernel, heap>>
<1>1. At(t, "assign") /\ Return(t) /\ UNCHANGED <<kernel, heap>>
  BY DEF Assign
<1>2. frame[t].fd \in Fds /\ frame[t].obj \in Objects
  BY <1>1 DEF TypedSoFar, FrameSound, At, AddPcs
<1>3. /\ handle' = [handle EXCEPT ![frame[t].obj] = frame[t].fd]
      /\ held' = held \cup {frame[t].obj}
  BY DEF Assign
<1>4. /\ handle' \in [Objects -> Fds \cup {NoHandle}]
      /\ handle'[frame[t].obj] = frame[t].fd
      /\ \A o \in Objects \ {frame[t].obj} : handle'[o] = handle[o]
  BY <1>2, <1>3 DEF TypedSoFar, TypeOK
<1>5. QED
  BY <1>1, <1>2, <1>3, <1>4, ReturnDoes DEF TypedSoFar

-----------------------------------------------------------------------------
(* The steps that begin and end a call                                     *)

(* What a call begins or ends without                                      *)
LEMMA CallDoes ==
  ASSUME TypedSoFar, NEW t \in Threads, NEW o \in Objects, Call(t, o)
  PROVE  /\ At(t, "idle") /\ OthersStay(t) /\ frame' \in [Threads -> Frame]
         /\ frame'[t].obj = o
         /\ UNCHANGED <<kernel, handle, heap>>
         /\ \/ CallOpen(t, o) /\ frame'[t].pc = "open" /\ held' = held
            \/ /\ CallClose(t, o) /\ frame'[t].pc = "delete"
               /\ frame'[t].fd = handle[o] /\ held' = held \ {o}
            \/ /\ CallLookup(t, o) /\ frame'[t].pc = "lookup"
               /\ frame'[t].fd = handle[o] /\ held' = held
<1>1. /\ handle[o] \in Fds \cup {NoHandle} /\ NoHandle \in Fds \cup {NoHandle}
      /\ {"open", "delete", "lookup"} \subseteq Pcs
  BY DEF TypedSoFar, TypeOK, Pcs, OpenPcs, ClosePcs, LookupPcs
<1>2. CASE CallOpen(t, o)
  <2>1. Enter(t, o, NoHandle, "open") /\ UNCHANGED <<kernel, client, heap>>
    BY <1>2 DEF CallOpen
  <2>2. QED
    BY <1>1, <1>2, <2>1, EnterDoes DEF TypedSoFar, client
<1>3. CASE CallClose(t, o)
  <2>1. /\ Enter(t, o, handle[o], "delete") /\ held' = held \ {o}
        /\ UNCHANGED <<kernel, handle, heap>>
    BY <1>3 DEF CallClose, CloseStartingAt
  <2>2. QED
    BY <1>1, <1>3, <2>1, EnterDoes DEF TypedSoFar
<1>4. CASE CallLookup(t, o)
  <2>1. Enter(t, o, handle[o], "lookup") /\ UNCHANGED <<kernel, client, heap>>
    BY <1>4 DEF CallLookup
  <2>2. QED
    BY <1>1, <1>4, <2>1, EnterDoes DEF TypedSoFar, client
<1>5. QED
  BY <1>2, <1>3, <1>4 DEF Call

LEMMA EndDoes ==
  ASSUME TypedSoFar, NEW t \in Threads,
         OpenFails(t) \/ CopyName(t) \/ Undo(t) \/ DoClose(t)
  PROVE  /\ frame'[t].pc = "idle"
         /\ OthersStay(t) /\ frame' \in [Threads -> Frame]
         /\ frame[t].obj \in Objects /\ frame[t].fd \in Fds \cup {NoHandle}
         /\ UNCHANGED <<client, heap>>
         /\ \/ (At(t, "open") \/ At(t, "copy")) /\ UNCHANGED kernel
            \/ (At(t, "undo") \/ At(t, "close")) /\ CloseFd(frame[t].fd)
<1>1. /\ Return(t) /\ UNCHANGED <<client, heap>>
      /\ \/ (At(t, "open") \/ At(t, "copy")) /\ UNCHANGED kernel
         \/ (At(t, "undo") \/ At(t, "close")) /\ CloseFd(frame[t].fd)
  BY DEF OpenFails, CopyName, Undo, DoClose
<1>2. frame[t].obj \in Objects
  BY <1>1 DEF TypedSoFar, FrameSound, At
<1>3. frame[t].fd \in Fds \cup {NoHandle}
  BY DEF TypedSoFar, TypeOK, Frame
<1>4. QED
  BY <1>1, <1>2, <1>3, ReturnDoes DEF TypedSoFar

LEMMA NextCases ==
  ASSUME [Next]_vars
  PROVE  \/ \E t \in Threads, o \in Objects : Call(t, o)
         \/ \E t \in Threads :
              \/ OpenFails(t) \/ CopyName(t) \/ Undo(t) \/ DoClose(t)
              \/ OpenSocket(t) \/ OpenTap(t) \/ Connect(t) \/ GetName(t)
              \/ BuildFails(t) \/ Assign(t)
              \/ ListStep(t)
         \/ UNCHANGED vars
BY DEF Next, Step, ListStep

-----------------------------------------------------------------------------
(* Types                                                                   *)

LEMMA NextIsKernelStep ==
  ASSUME TypedSoFar, [Next]_vars
  PROVE  KernelStep
<1>1. ASSUME NEW t \in Threads, NEW o \in Objects, Call(t, o) PROVE KernelStep
  BY <1>1, CallDoes DEF KernelStep
<1>2. ASSUME NEW t \in Threads,
             OpenFails(t) \/ CopyName(t) \/ Undo(t) \/ DoClose(t)
      PROVE KernelStep
  BY <1>2, EndDoes DEF KernelStep, NoHandle, NoFd
<1>3. ASSUME NEW t \in Threads, OpenSocket(t) PROVE KernelStep
  <2>1. PICK n \in Fds, f \in Files : GotSocket(t, n, f)
    BY <1>3, OpenSocketDoes
  <2>2. frame[t].obj \in Objects
    BY <1>3, OpenSocketDoes
  <2>3. QED
    BY <2>1, <2>2 DEF GotSocket, KernelStep
<1>4. ASSUME NEW t \in Threads, OpenTap(t) PROVE KernelStep
  <2>1. PICK n \in Fds, f \in Files : GotTap(t, n, f)
    BY <1>4, OpenTapDoes
  <2>2. frame[t].obj \in Objects /\ NameOf[frame[t].obj] \in Names
    BY <1>4, OpenTapDoes
  <2>3. QED
    BY <2>1, <2>2 DEF GotTap, KernelStep
<1>5. ASSUME NEW t \in Threads, Connect(t) PROVE KernelStep
  BY <1>5, ConnectDoes DEF KernelStep
<1>6. ASSUME NEW t \in Threads, GetName(t) \/ BuildFails(t) \/ Assign(t)
      PROVE KernelStep
  BY <1>6 DEF GetName, BuildFails, Assign, KernelStep
<1>7. ASSUME NEW t \in Threads, ListStep(t) PROVE KernelStep
  BY <1>7, ListStepInner DEF Inner, KernelStep
<1>8. CASE UNCHANGED vars
  BY <1>8 DEF vars, KernelStep, kernel
<1>9. QED
  BY NextCases, <1>1, <1>2, <1>3, <1>4, <1>5, <1>6, <1>7, <1>8

(* Frames and heap keep their types with everything else.                  *)
LEMMA StepTyped ==
  ASSUME TypedSoFar, KernelTypeOK', NEW t \in Threads, OthersStay(t),
         frame' \in [Threads -> Frame], FrameSound(t)', HeapTyped',
         handle' \in [Objects -> Fds \cup {NoHandle}], held' \subseteq Objects
  PROVE  TypedSoFar'
<1>1. \A u \in Threads \ {t} : FrameSound(u)'
  BY DEF OthersStay, TypedSoFar, FrameSound, At
<1>2. TypeOK'
  BY DEF TypeOK, HeapTyped
<1>3. QED
  BY <1>1, <1>2 DEF TypedSoFar

LEMMA InitTyped == Init => TypedSoFar
<1>1. SUFFICES ASSUME Init PROVE TypedSoFar
  OBVIOUS
<1>2. KernelTypeOK
  BY <1>1, KernelInvInit DEF Init, KernelInv
<1>3. Idle \in Frame /\ Blank \in Struct
  BY DEF Idle, Frame, Blank, Struct
<1>4. TypeOK
  BY <1>1, <1>2, <1>3 DEF Init, TypeOK
<1>5. \A t \in Threads : frame[t].pc = "idle"
  BY <1>1 DEF Init, Idle
<1>6. QED
  BY <1>4, <1>5 DEF TypedSoFar, FrameSound, At, AddPcs

LEMMA NextTyped == TypedSoFar /\ [Next]_vars => TypedSoFar'
<1>1. SUFFICES ASSUME TypedSoFar, [Next]_vars PROVE TypedSoFar'
  OBVIOUS
<1>2. KernelTypeOK'
  BY <1>1, NextIsKernelStep, KernelKeepsTypes DEF TypedSoFar, TypeOK
<1>3. HeapTyped /\ handle \in [Objects -> Fds \cup {NoHandle}] /\ held \subseteq Objects
  BY <1>1 DEF TypedSoFar, TypeOK, HeapTyped
<1>4. UNCHANGED heap => HeapTyped'
  BY <1>3 DEF heap, HeapTyped
<1>5. UNCHANGED client =>
        handle' \in [Objects -> Fds \cup {NoHandle}] /\ held' \subseteq Objects
  BY <1>3 DEF client
<1>6. ASSUME NEW t \in Threads, NEW o \in Objects, Call(t, o) PROVE TypedSoFar'
  <2>1. /\ OthersStay(t) /\ frame' \in [Threads -> Frame] /\ frame'[t].obj = o
        /\ frame'[t].pc \in {"open", "delete", "lookup"}
        /\ handle' = handle /\ UNCHANGED heap /\ held' \subseteq held
    BY <1>1, <1>6, CallDoes
  <2>2. FrameSound(t)'
    BY <2>1 DEF FrameSound, At, AddPcs
  <2>3. QED
    BY <1>1, <1>2, <1>3, <1>4, <2>1, <2>2, StepTyped
<1>7. ASSUME NEW t \in Threads,
             OpenFails(t) \/ CopyName(t) \/ Undo(t) \/ DoClose(t)
      PROVE TypedSoFar'
  <2>1. /\ OthersStay(t) /\ frame' \in [Threads -> Frame]
        /\ frame'[t].pc = "idle" /\ UNCHANGED <<client, heap>>
    BY <1>1, <1>7, EndDoes
  <2>2. FrameSound(t)'
    BY <2>1 DEF FrameSound, At, AddPcs
  <2>3. QED
    BY <1>1, <1>2, <1>4, <1>5, <2>1, <2>2, StepTyped
<1>8. ASSUME NEW t \in Threads, OpenSocket(t) \/ OpenTap(t) PROVE TypedSoFar'
  <2>1. /\ OthersStay(t) /\ frame' \in [Threads -> Frame]
        /\ frame[t].obj \in Objects /\ frame'[t].obj = frame[t].obj
        /\ UNCHANGED <<client, heap>>
        /\ frame'[t].pc \in {"connect", "assign"} /\ frame'[t].fd \in Fds
    BY <1>1, <1>8, OpenSocketDoes, OpenTapDoes DEF GotSocket, GotTap
  <2>2. FrameSound(t)'
    BY <2>1 DEF FrameSound, At
  <2>3. QED
    BY <1>1, <1>2, <1>4, <1>5, <2>1, <2>2, StepTyped
<1>9. ASSUME NEW t \in Threads, Connect(t) \/ BuildFails(t) PROVE TypedSoFar'
  <2>1. /\ OthersStay(t) /\ frame' \in [Threads -> Frame] /\ SameCall(t)
        /\ At(t, "connect") \/ At(t, "name")
        /\ frame'[t].pc \in {"name", "undo"} /\ UNCHANGED <<client, heap>>
    BY <1>1, <1>9, ConnectDoes, BuildFailsDoes
  <2>2. FrameSound(t)'
    BY <1>1, <2>1 DEF TypedSoFar, FrameSound, At, SameCall
  <2>3. QED
    BY <1>1, <1>2, <1>4, <1>5, <2>1, <2>2, StepTyped
<1>10. ASSUME NEW t \in Threads, GetName(t) PROVE TypedSoFar'
  <2>1. /\ OthersStay(t) /\ frame' \in [Threads -> Frame] /\ SameCall(t)
        /\ At(t, "name") /\ frame'[t].pc = "add"
        /\ memory' \in [Nodes -> {"free", "raw", "filled"}]
        /\ UNCHANGED <<client, list, node>>
    BY <1>1, <1>10, GetNameDoes DEF TypedSoFar, GetName
  <2>2. FrameSound(t)'
    BY <1>1, <2>1 DEF TypedSoFar, FrameSound, At, SameCall
  <2>3. HeapTyped'
    BY <1>3, <2>1 DEF HeapTyped
  <2>4. QED
    BY <1>1, <1>2, <1>5, <2>1, <2>2, <2>3, StepTyped
<1>11. ASSUME NEW t \in Threads, Assign(t) PROVE TypedSoFar'
  <2>1. /\ OthersStay(t) /\ frame' \in [Threads -> Frame]
        /\ frame'[t].pc = "idle" /\ frame[t].obj \in Objects
        /\ handle' \in [Objects -> Fds \cup {NoHandle}]
        /\ held' = held \cup {frame[t].obj} /\ UNCHANGED heap
    BY <1>1, <1>11, AssignDoes
  <2>2. FrameSound(t)'
    BY <2>1 DEF FrameSound, At, AddPcs
  <2>3. held' \subseteq Objects
    BY <1>3, <2>1
  <2>4. QED
    BY <1>1, <1>2, <1>4, <2>1, <2>2, <2>3, StepTyped
<1>12. ASSUME NEW t \in Threads, ListStep(t) PROVE TypedSoFar'
  BY <1>1, <1>2, <1>5, <1>12, ListStepInner, StepTyped DEF Inner
<1>13. CASE UNCHANGED vars
  BY <1>1, <1>13 DEF vars, TypedSoFar, TypeOK, KernelTypeOK, FrameSound, At
<1>14. QED
  BY <1>1, NextCases, <1>6, <1>7, <1>8, <1>9, <1>10, <1>11, <1>12, <1>13

LEMMA TypedAlways == Spec => []TypedSoFar
BY InitTyped, NextTyped, PTL DEF Spec

(* Every variable keeps its type, whatever the clients do: the pointers of *)
(* the list lead to a node or to its end, and no walk reads a struct at    *)
(* the null pointer, even while threads change the list under each other.  *)
THEOREM TypeCorrect == Spec => []TypeOK
BY TypedAlways, PTL DEF TypedSoFar

-----------------------------------------------------------------------------
(* The error paths of open()                                               *)

LEMMA KernelAlwaysSound == Spec => []KernelInv
<1>1. Init => KernelInv
  BY KernelInvInit DEF Init
<1>2. TypedSoFar /\ KernelInv /\ [Next]_vars => KernelInv'
  BY NextIsKernelStep, KernelInvKept
<1>3. QED
  BY <1>1, <1>2, TypedAlways, PTL DEF Spec

(* A number that stays half open stays in the frame it was in.             *)
LEMMA HalfOpenKept ==
  ASSUME TypedSoFar, TableSound, HalfOpenInFlight, NEW t \in Threads, OthersStay(t),
         NEW n \in Fds, Kept(n), IsOpenFd(n)', Iface(n)' = NoName,
         \/ frame[t].pc \notin {"connect", "undo"}
         \/ frame[t].fd # n
         \/ frame'[t].pc \in {"connect", "undo"} /\ frame'[t].fd = n
  PROVE  \E u \in Threads :
           frame'[u].pc \in {"connect", "undo"} /\ frame'[u].fd = n
<1>1. IsOpenFd(n) /\ Iface(n) = NoName
  BY DEF Kept, IsOpenFd, Iface
<1>2. PICK u \in Threads : frame[u].pc \in {"connect", "undo"} /\ frame[u].fd = n
  BY <1>1 DEF HalfOpenInFlight
<1>3. CASE u = t
  BY <1>2, <1>3
<1>4. CASE u # t
  BY <1>2, <1>4 DEF OthersStay
<1>5. QED
  BY <1>3, <1>4

LEMMA HalfOpenInductive ==
  TypedSoFar /\ TableSound /\ HalfOpenInFlight /\ [Next]_vars => HalfOpenInFlight'
<1>1. SUFFICES ASSUME TypedSoFar, TableSound, HalfOpenInFlight, [Next]_vars
               PROVE  HalfOpenInFlight'
  OBVIOUS
<1>2. KernelTypeOK
  BY <1>1 DEF TypedSoFar, TypeOK
<1>3. SUFFICES ASSUME NEW n \in Fds, IsOpenFd(n)', Iface(n)' = NoName
               PROVE  \E u \in Threads :
                        frame'[u].pc \in {"connect", "undo"} /\ frame'[u].fd = n
  BY DEF HalfOpenInFlight
<1> DEFINE Goal == \E u \in Threads :
                     frame'[u].pc \in {"connect", "undo"} /\ frame'[u].fd = n
<1>4. UNCHANGED kernel => Kept(n)
  BY DEF kernel, Kept
<1>5. ASSUME NEW t \in Threads, NEW o \in Objects, Call(t, o) PROVE Goal
  <2>1. At(t, "idle") /\ OthersStay(t) /\ UNCHANGED kernel
    BY <1>1, <1>5, CallDoes
  <2>2. QED
    BY <1>1, <1>3, <1>4, <2>1, HalfOpenKept DEF At
<1>6. ASSUME NEW t \in Threads,
             OpenFails(t) \/ CopyName(t) \/ Undo(t) \/ DoClose(t)
      PROVE Goal
  <2>1. OthersStay(t) /\ frame[t].fd \in Fds \cup {NoHandle}
    BY <1>1, <1>6, EndDoes
  <2>2. CASE (At(t, "open") \/ At(t, "copy")) /\ UNCHANGED kernel
    BY <1>1, <1>3, <1>4, <2>1, <2>2, HalfOpenKept DEF At
  <2>3. CASE (At(t, "undo") \/ At(t, "close")) /\ CloseFd(frame[t].fd)
    <3>1. /\ \A k \in Fds \ {frame[t].fd} : Kept(k)
          /\ frame[t].fd \in Fds => fdTable'[frame[t].fd] = NoFile
      BY <1>1, <1>2, <2>3, CloseFdEffect
    <3>2. frame[t].fd # n /\ Kept(n)
      BY <1>3, <3>1 DEF IsOpenFd
    <3>3. QED
      BY <1>1, <1>3, <2>1, <3>2, HalfOpenKept
  <2>4. QED
    BY <1>1, <1>6, <2>2, <2>3, EndDoes
<1>7. ASSUME NEW t \in Threads, OpenSocket(t) PROVE Goal
  <2>1. PICK m \in Fds, f \in Files : frame'[t].fd = m /\ GotSocket(t, m, f)
    BY <1>1, <1>7, OpenSocketDoes
  <2>2. OthersStay(t)
    BY <1>1, <1>7, OpenSocketDoes
  <2>3. \A k \in Fds \ {m} : Kept(k)
    BY <1>1, <1>2, <2>1, OpenFileEffect DEF GotSocket
  <2>4. CASE n = m
    BY <2>1, <2>4 DEF GotSocket
  <2>5. CASE n # m
    <3>1. Kept(n) /\ frame[t].pc \notin {"connect", "undo"}
      BY <2>1, <2>3, <2>5 DEF GotSocket, At
    <3>2. QED
      BY <1>1, <1>3, <2>2, <3>1, HalfOpenKept
  <2>6. QED
    BY <2>4, <2>5
<1>8. ASSUME NEW t \in Threads, OpenTap(t) PROVE Goal
  <2>1. PICK m \in Fds, f \in Files : frame'[t].fd = m /\ GotTap(t, m, f)
    BY <1>1, <1>8, OpenTapDoes
  <2>2. OthersStay(t) /\ frame[t].obj \in Objects
    BY <1>1, <1>8, OpenTapDoes
  <2>3. OpenAttached(m, f, frame[t].obj, NameOf[frame[t].obj])
    BY <2>1 DEF GotTap
  <2>4. /\ \A k \in Fds \ {m} : Kept(k)
        /\ fdTable'[m] = f
        /\ file'[f] = [maker |-> frame[t].obj, iface |-> NameOf[frame[t].obj]]
    BY <1>1, <1>2, <2>3, OpenAttachedEffect
  <2>5. Iface(m)' = NameOf[frame[t].obj] /\ NameOf[frame[t].obj] \in Names
    BY <2>2, <2>4 DEF Iface
  <2>6. Kept(n) /\ frame[t].pc \notin {"connect", "undo"}
    BY <1>3, <2>1, <2>4, <2>5 DEF GotTap, At
  <2>7. QED
    BY <1>1, <1>3, <2>2, <2>6, HalfOpenKept
<1>9. ASSUME NEW t \in Threads, Connect(t) PROVE Goal
  <2>1. /\ OthersStay(t) /\ frame[t].fd \in Fds /\ NameOf[frame[t].obj] \in Names
        /\ AttachFile(frame[t].fd, NameOf[frame[t].obj])
    BY <1>1, <1>9, ConnectDoes
  <2>2. /\ \A k \in Fds \ {frame[t].fd} : Kept(k)
        /\ file'[fdTable'[frame[t].fd]].iface = NameOf[frame[t].obj]
    <3>1. /\ \A k \in Fds \ {frame[t].fd} : Kept(k)
          /\ fdTable'[frame[t].fd] = fdTable[frame[t].fd]
          /\ file'[fdTable[frame[t].fd]].iface = NameOf[frame[t].obj]
      BY <1>1, <1>2, <2>1, AttachFileEffect
    <3>2. QED
      BY <3>1
  <2>3. frame[t].fd # n /\ Kept(n)
    BY <1>3, <2>1, <2>2 DEF Iface
  <2>4. QED
    BY <1>1, <1>3, <2>1, <2>3, HalfOpenKept
<1>10. ASSUME NEW t \in Threads, GetName(t) PROVE Goal
  <2>1. OthersStay(t) /\ At(t, "name") /\ UNCHANGED kernel
    BY <1>1, <1>10, GetNameDoes DEF TypedSoFar, GetName
  <2>2. QED
    BY <1>1, <1>3, <1>4, <2>1, HalfOpenKept DEF At
<1>11. ASSUME NEW t \in Threads, BuildFails(t) PROVE Goal
  BY <1>1, <1>3, <1>4, <1>11, BuildFailsDoes, HalfOpenKept DEF SameCall
<1>12. ASSUME NEW t \in Threads, Assign(t) PROVE Goal
  BY <1>1, <1>3, <1>4, <1>12, AssignDoes, HalfOpenKept DEF At
<1>13. ASSUME NEW t \in Threads, ListStep(t) PROVE Goal
  <2>1. OthersStay(t) /\ UNCHANGED kernel /\ frame[t].pc \notin {"connect", "undo"}
    BY <1>1, <1>13, ListStepInner DEF Inner, AddPcs, ClosePcs, LookupPcs
  <2>2. QED
    BY <1>1, <1>3, <1>4, <2>1, HalfOpenKept
<1>14. CASE UNCHANGED vars
  BY <1>1, <1>3, <1>14 DEF vars, HalfOpenInFlight, IsOpenFd, Iface
<1>15. QED
  BY <1>1, NextCases, <1>5, <1>6, <1>7, <1>8, <1>9, <1>10, <1>11, <1>12, <1>13, <1>14

(* Whatever fails in the open() of a TUN, in whatever order the calls of   *)
(* all clients go: a socket without an interface is always in the hands of *)
(* an open() that will connect or close it.                                *)
THEOREM NoHalfOpenLeak == Spec => []HalfOpenInFlight
<1>1. Init => HalfOpenInFlight
  BY DEF Init, KernelInit, HalfOpenInFlight, IsOpenFd
<1>2. KernelInv => TableSound
  BY DEF KernelInv
<1>3. QED
  BY <1>1, <1>2, HalfOpenInductive, TypedAlways, KernelAlwaysSound, PTL DEF Spec

-----------------------------------------------------------------------------
(* Clients that serialize open() and close() of an object and close only   *)
(* what they opened: every number the library holds is one its object's    *)
(* open() made.                                                            *)

OneLifecycleCall ==
  \A t, u \in Threads :
    /\ frame[t].pc \in LifecyclePcs
    /\ frame[u].pc \in LifecyclePcs
    /\ frame[t].obj = frame[u].obj
    => t = u

(* Number n is a descriptor that o's open() made and has yet to attach, or *)
(* that it made and attached.                                              *)
HalfMade(o, n) == IsOpenFd(n) /\ file[fdTable[n]] = Made(o)

Has(o, n) == IsOpenFd(n) /\ file[fdTable[n]].maker = o /\ Iface(n) = NameOf[o]

HeldOwned == \A o \in held : Has(o, handle[o])

FrameOwns(t) ==
  LET o == frame[t].obj
      n == frame[t].fd
  IN /\ At(t, "connect") => HalfMade(o, n)
     /\ At(t, "name") \/ frame[t].pc \in AddPcs => Has(o, n) /\ o \notin held
     /\ At(t, "undo") => HalfMade(o, n) \/ (Has(o, n) /\ o \notin held)
     /\ frame[t].pc \in ClosePcs =>
          Has(o, n) /\ o \notin held /\ n = handle[o]

FramesOwn == \A t \in Threads : FrameOwns(t)

OwnedSoFar ==
  TypedSoFar /\ KernelInv /\ OneLifecycleCall /\ HeldOwned /\ FramesOwn

NumberedPcs == LifecyclePcs \ {"open"}

LEMMA EntriesKept ==
  ASSUME NEW k, \A n \in Fds \ {k} : Kept(n)
  PROVE  \A o, n : n # k => /\ Has(o, n)' <=> Has(o, n)
                            /\ HalfMade(o, n)' <=> HalfMade(o, n)
<1>1. SUFFICES ASSUME NEW o, NEW n, n # k
               PROVE  /\ Has(o, n)' <=> Has(o, n)
                      /\ HalfMade(o, n)' <=> HalfMade(o, n)
  OBVIOUS
<1>2. CASE n \in Fds
  BY <1>1, <1>2 DEF Has, HalfMade, IsOpenFd, Kept, Iface
<1>3. CASE n \notin Fds
  BY <1>3 DEF Has, HalfMade, IsOpenFd
<1>4. QED
  BY <1>2, <1>3

(* An entry is of one kind, and of one object.                             *)
LEMMA OneOwner ==
  ASSUME NEW o \in Objects, NEW p \in Objects, NEW n
  PROVE  /\ ~(Has(o, n) /\ HalfMade(p, n))
         /\ Has(o, n) /\ Has(p, n) => o = p
         /\ HalfMade(o, n) /\ HalfMade(p, n) => o = p
BY DEF Has, HalfMade, Made, Iface

(* What the number in a call's frame is                                    *)
LEMMA NumberOwned ==
  ASSUME OwnedSoFar, NEW t \in Threads, frame[t].pc \in NumberedPcs
  PROVE  /\ frame[t].obj \in Objects /\ frame[t].fd \in Fds
         /\ HalfMade(frame[t].obj, frame[t].fd) \/ Has(frame[t].obj, frame[t].fd)
<1>1. frame[t].obj \in Objects
  BY DEF OwnedSoFar, TypedSoFar, FrameSound, At, NumberedPcs, LifecyclePcs,
     OpenPcs, ClosePcs, AddPcs
<1>2. FrameOwns(t)
  BY DEF OwnedSoFar, FramesOwn
<1>3. HalfMade(frame[t].obj, frame[t].fd) \/ Has(frame[t].obj, frame[t].fd)
  BY <1>2 DEF FrameOwns, At, NumberedPcs, LifecyclePcs, OpenPcs
<1>4. QED
  BY <1>1, <1>3 DEF HalfMade, Has, IsOpenFd

(* No two of those that may close a number have the same one.              *)
LEMMA NumbersApart ==
  ASSUME OwnedSoFar, NEW t \in Threads, frame[t].pc \in NumberedPcs
  PROVE  /\ \A u \in Threads \ {t} :
              frame[u].pc \in NumberedPcs =>
                frame[u].fd # frame[t].fd /\ frame[u].obj # frame[t].obj
         /\ \A o \in held : handle[o] # frame[t].fd
<1>1. \A u \in Threads : frame[u].pc \in NumberedPcs =>
        /\ frame[u].obj \in Objects
        /\ HalfMade(frame[u].obj, frame[u].fd) \/ Has(frame[u].obj, frame[u].fd)
  BY NumberOwned
<1>2. ASSUME NEW u \in Threads \ {t}, frame[u].pc \in NumberedPcs
      PROVE  frame[u].fd # frame[t].fd /\ frame[u].obj # frame[t].obj
  <2>1. frame[u].obj # frame[t].obj
    BY <1>2 DEF OwnedSoFar, OneLifecycleCall, NumberedPcs
  <2>2. QED
    BY <1>1, <1>2, <2>1, OneOwner
<1>3. ASSUME NEW o \in held PROVE handle[o] # frame[t].fd
  <2>1. Has(o, handle[o]) /\ o \in Objects
    BY DEF OwnedSoFar, HeldOwned, TypedSoFar, TypeOK
  <2>2. HalfMade(frame[t].obj, frame[t].fd) \/ frame[t].obj \notin held
    <3>1. FrameOwns(t)
      BY DEF OwnedSoFar, FramesOwn
    <3>2. QED
      BY <3>1 DEF FrameOwns, At, NumberedPcs, LifecyclePcs, OpenPcs
  <2>3. QED
    BY <1>1, <2>1, <2>2, OneOwner
<1>4. QED
  BY <1>2, <1>3

(* The frame of a thread that does not move stays as it was, when the step *)
(* is about another number and another object.                             *)
LEMMA FrameKept ==
  ASSUME NEW u \in Threads, FrameOwns(u), frame'[u] = frame[u],
         NEW k, \A n \in Fds \ {k} : Kept(n),
         frame[u].pc \in NumberedPcs =>
           /\ frame[u].fd # k
           /\ frame[u].obj \notin held => frame[u].obj \notin held'
           /\ handle'[frame[u].obj] = handle[frame[u].obj]
  PROVE  FrameOwns(u)'
<1> DEFINE o == frame[u].obj
           n == frame[u].fd
<1>1. frame[u].pc \in NumberedPcs =>
        /\ HalfMade(o, n) => HalfMade(frame[u].obj, frame[u].fd)'
        /\ Has(o, n) => Has(frame[u].obj, frame[u].fd)'
  <2>1. \A p, m : m # k => /\ Has(p, m)' <=> Has(p, m)
                           /\ HalfMade(p, m)' <=> HalfMade(p, m)
    BY EntriesKept
  <2>2. \A p, m : p = o /\ m = n =>
          /\ Has(p, m)' => Has(frame[u].obj, frame[u].fd)'
          /\ HalfMade(p, m)' => HalfMade(frame[u].obj, frame[u].fd)'
    BY DEF Has, HalfMade, IsOpenFd, Made, Iface
  <2>3. QED
    BY <2>1, <2>2
<1>2. QED
  BY <1>1 DEF FrameOwns, At, NumberedPcs, LifecyclePcs, OpenPcs, AddPcs, ClosePcs

(* A step that changes number k only, which nobody else has                *)
LEMMA StepOwned ==
  ASSUME OwnedSoFar, NEW t \in Threads, OthersStay(t),
         NEW k, \A n \in Fds \ {k} : Kept(n),
         \A u \in Threads \ {t} : frame[u].pc \in NumberedPcs =>
           /\ frame[u].fd # k
           /\ frame[u].obj \notin held => frame[u].obj \notin held'
           /\ handle'[frame[u].obj] = handle[frame[u].obj],
         FrameOwns(t)',
         \A o \in held' :
           \/ o \in held /\ handle[o] # k /\ handle'[o] = handle[o]
           \/ Has(o, handle[o])'
  PROVE  HeldOwned' /\ FramesOwn'
<1>1. ASSUME NEW u \in Threads \ {t} PROVE FrameOwns(u)'
  BY FrameKept DEF OthersStay, OwnedSoFar, FramesOwn
<1>2. ASSUME NEW o \in held' PROVE Has(o, handle[o])'
  <2>1. CASE o \in held /\ handle[o] # k /\ handle'[o] = handle[o]
    <3>1. Has(o, handle[o])
      BY <2>1 DEF OwnedSoFar, HeldOwned
    <3>2. \A p, m : m # k => (Has(p, m)' <=> Has(p, m))
      BY EntriesKept
    <3>3. QED
      BY <2>1, <3>1, <3>2 DEF Has, Iface
  <2>2. QED
    BY <1>2, <2>1
<1>3. QED
  BY <1>1, <1>2 DEF HeldOwned, FramesOwn

(* A step that changes nothing in the kernel, no handle, and nothing the   *)
(* others know of                                                          *)
LEMMA QuietStepOwned ==
  ASSUME OwnedSoFar, NEW t \in Threads, OthersStay(t), UNCHANGED kernel,
         handle' = handle, held' \subseteq held, FrameOwns(t)'
  PROVE  HeldOwned' /\ FramesOwn'
<1>1. \A n \in Fds \ {NoFd} : Kept(n)
  BY DEF kernel, Kept
<1>2. \A u \in Threads : frame[u].pc \in NumberedPcs => frame[u].fd # NoFd
  BY NumberOwned DEF NoFd
<1>3. \A o \in held' : o \in held /\ handle[o] # NoFd /\ handle'[o] = handle[o]
  BY DEF OwnedSoFar, HeldOwned, Has, IsOpenFd, NoFd
<1>4. QED
  BY <1>1, <1>2, <1>3, StepOwned

LEMMA SameKernel ==
  ASSUME UNCHANGED kernel
  PROVE  \A o, n : /\ Has(o, n)' <=> Has(o, n)
                   /\ HalfMade(o, n)' <=> HalfMade(o, n)
BY DEF kernel, Has, HalfMade, IsOpenFd, Iface

LEMMA CallOwned ==
  ASSUME "closeOnce" \in Discipline, OwnedSoFar,
         NEW t \in Threads, NEW o \in Objects, Call(t, o)
  PROVE  HeldOwned' /\ FramesOwn'
<1>1. /\ OthersStay(t) /\ UNCHANGED kernel /\ handle' = handle
      /\ frame'[t].obj = o /\ held' \subseteq held
      /\ \/ frame'[t].pc \in {"open", "lookup"}
         \/ /\ CallClose(t, o) /\ frame'[t].pc = "delete"
            /\ frame'[t].fd = handle[o] /\ held' = held \ {o}
  BY CallDoes DEF OwnedSoFar
<1>2. FrameOwns(t)'
  <2>1. CASE frame'[t].pc \in {"open", "lookup"}
    BY <2>1 DEF FrameOwns, At, AddPcs, ClosePcs
  <2>2. CASE /\ CallClose(t, o) /\ frame'[t].pc = "delete"
             /\ frame'[t].fd = handle[o] /\ held' = held \ {o}
    <3>1. o \in held
      BY <2>2 DEF CallClose, CloseStartingAt, MayClose
    <3>2. Has(o, handle[o])
      BY <3>1 DEF OwnedSoFar, HeldOwned
    <3>3. \A p, n : Has(p, n)' <=> Has(p, n)
      BY <1>1, SameKernel
    <3>4. Has(frame[t].obj, frame[t].fd)'
      BY <1>1, <2>2, <3>2, <3>3 DEF Has, Iface
    <3>5. QED
      BY <1>1, <2>2, <3>4 DEF FrameOwns, At, AddPcs
  <2>3. QED
    BY <1>1, <2>1, <2>2
<1>3. QED
  BY <1>1, <1>2, QuietStepOwned

LEMMA EndOwned ==
  ASSUME OwnedSoFar, NEW t \in Threads,
         OpenFails(t) \/ CopyName(t) \/ Undo(t) \/ DoClose(t)
  PROVE  HeldOwned' /\ FramesOwn'
<1>1. /\ frame'[t].pc = "idle" /\ OthersStay(t) /\ UNCHANGED client
      /\ \/ UNCHANGED kernel
         \/ (At(t, "undo") \/ At(t, "close")) /\ CloseFd(frame[t].fd)
  BY EndDoes DEF OwnedSoFar
<1>2. FrameOwns(t)'
  BY <1>1 DEF FrameOwns, At, AddPcs, ClosePcs
<1>3. CASE UNCHANGED kernel
  BY <1>1, <1>2, <1>3, QuietStepOwned DEF client
<1>4. CASE (At(t, "undo") \/ At(t, "close")) /\ CloseFd(frame[t].fd)
  <2>1. frame[t].pc \in NumberedPcs
    BY <1>4 DEF At, NumberedPcs, LifecyclePcs, OpenPcs, ClosePcs
  <2>2. \A k \in Fds \ {frame[t].fd} : Kept(k)
    BY <1>4, CloseFdEffect DEF OwnedSoFar, KernelInv
  <2>3. /\ \A u \in Threads \ {t} :
             frame[u].pc \in NumberedPcs => frame[u].fd # frame[t].fd
        /\ \A o \in held : handle[o] # frame[t].fd
    BY <2>1, NumbersApart
  <2>4. handle' = handle /\ held' = held
    BY <1>1 DEF client
  <2>5. QED
    BY <1>1, <1>2, <2>2, <2>3, <2>4, StepOwned
<1>5. QED
  BY <1>1, <1>3, <1>4

(* A number that has just been free is in nobody's hands.                  *)
LEMMA FreshOwned ==
  ASSUME OwnedSoFar, NEW t \in Threads, OthersStay(t), UNCHANGED client,
         NEW n \in Fds, fdTable[n] = NoFile, \A k \in Fds \ {n} : Kept(k),
         FrameOwns(t)'
  PROVE  HeldOwned' /\ FramesOwn'
<1>1. \A u \in Threads : frame[u].pc \in NumberedPcs => frame[u].fd # n
  BY NumberOwned DEF Has, HalfMade, IsOpenFd
<1>2. \A o \in held : handle[o] # n
  BY DEF OwnedSoFar, HeldOwned, Has, IsOpenFd
<1>3. handle' = handle /\ held' = held
  BY DEF client
<1>4. QED
  BY <1>1, <1>2, <1>3, StepOwned

(* A name that a held object has is attached.                              *)
LEMMA HasTakesName ==
  ASSUME KernelTypeOK, NEW o, NEW n, Has(o, n)
  PROVE  Attached(NameOf[o])
BY DEF Has, Iface, IsOpenFd, Attached, KernelTypeOK

LEMMA OpenSocketOwned ==
  ASSUME OwnedSoFar, NEW t \in Threads, OpenSocket(t)
  PROVE  HeldOwned' /\ FramesOwn'
<1>1. PICK n \in Fds, f \in Files : frame'[t].fd = n /\ GotSocket(t, n, f)
  BY OpenSocketDoes DEF OwnedSoFar
<1>2. /\ OthersStay(t) /\ UNCHANGED client
      /\ frame[t].obj \in Objects /\ frame'[t].obj = frame[t].obj
  BY OpenSocketDoes DEF OwnedSoFar
<1>3. /\ \A k \in Fds \ {n} : Kept(k)
      /\ fdTable[n] = NoFile
      /\ fdTable'[n] = f /\ file'[f] = Made(frame[t].obj)
  <2>1. OpenFile(n, f, frame[t].obj) /\ KernelTypeOK /\ TableSound
    BY <1>1 DEF GotSocket, OwnedSoFar, KernelInv
  <2>2. QED
    BY <2>1, OpenFileEffect
<1>4. HalfMade(frame[t].obj, frame[t].fd)'
  BY <1>1, <1>2, <1>3 DEF HalfMade, IsOpenFd
<1>5. FrameOwns(t)'
  BY <1>1, <1>4 DEF FrameOwns, GotSocket, At, AddPcs, ClosePcs
<1>6. QED
  BY <1>2, <1>3, <1>5, FreshOwned

LEMMA OpenTapOwned ==
  ASSUME OwnedSoFar, NEW t \in Threads, OpenTap(t)
  PROVE  HeldOwned' /\ FramesOwn'
<1>1. PICK n \in Fds, f \in Files : frame'[t].fd = n /\ GotTap(t, n, f)
  BY OpenTapDoes DEF OwnedSoFar
<1>2. /\ OthersStay(t) /\ UNCHANGED client
      /\ frame[t].obj \in Objects /\ frame'[t].obj = frame[t].obj
  BY OpenTapDoes DEF OwnedSoFar
<1>3. OpenAttached(n, f, frame[t].obj, NameOf[frame[t].obj]) /\ KernelTypeOK
  BY <1>1 DEF GotTap, OwnedSoFar, KernelInv
<1>4. /\ \A k \in Fds \ {n} : Kept(k)
      /\ fdTable[n] = NoFile
      /\ fdTable'[n] = f
      /\ file'[f] = [maker |-> frame[t].obj, iface |-> NameOf[frame[t].obj]]
  BY <1>3, OpenAttachedEffect DEF OwnedSoFar, KernelInv
<1>5. Has(frame[t].obj, frame[t].fd)'
  BY <1>1, <1>2, <1>4 DEF Has, IsOpenFd, Iface
<1>6. frame[t].obj \notin held
  BY <1>3, HasTakesName DEF OwnedSoFar, HeldOwned, OpenAttached
<1>7. FrameOwns(t)'
  BY <1>1, <1>2, <1>5, <1>6 DEF FrameOwns, GotTap, At, AddPcs, ClosePcs, client
<1>8. QED
  BY <1>2, <1>4, <1>7, FreshOwned

LEMMA ConnectOwned ==
  ASSUME OwnedSoFar, NEW t \in Threads, Connect(t)
  PROVE  HeldOwned' /\ FramesOwn'
<1> DEFINE n == frame[t].fd
           o == frame[t].obj
<1>1. /\ At(t, "connect") /\ frame'[t].pc = "name"
      /\ OthersStay(t) /\ frame'[t].obj = o /\ frame'[t].fd = n
      /\ n \in Fds /\ o \in Objects /\ NameOf[o] \in Names
      /\ AttachFile(n, NameOf[o])
      /\ handle' = handle /\ held' = held
  BY ConnectDoes DEF OwnedSoFar, client, SameCall
<1>2. KernelTypeOK /\ TableSound
  BY DEF OwnedSoFar, KernelInv
<1>3. HalfMade(o, n)
  BY <1>1 DEF OwnedSoFar, FramesOwn, FrameOwns
<1> HIDE DEF n, o
<1>4. /\ \A k \in Fds \ {n} : Kept(k)
      /\ fdTable'[n] = fdTable[n] /\ fdTable[n] \in Files
      /\ file'[fdTable[n]].maker = file[fdTable[n]].maker
      /\ file'[fdTable[n]].iface = NameOf[o]
  <2>1. n \in Fds /\ NameOf[o] \in Names /\ AttachFile(n, NameOf[o])
    BY <1>1
  <2>2. QED
    BY <1>2, <2>1, AttachFileEffect
<1>5. file[fdTable[n]].maker = o
  BY <1>3 DEF HalfMade, Made
<1>6. Has(frame[t].obj, frame[t].fd)'
  BY <1>1, <1>4, <1>5 DEF Has, IsOpenFd, Iface
<1>7. o \notin held
  BY <1>1, <1>2, HasTakesName DEF OwnedSoFar, HeldOwned, AttachFile, CanAttach
<1>8. FrameOwns(t)'
  BY <1>1, <1>6, <1>7 DEF FrameOwns, At, AddPcs, ClosePcs
<1>9. frame[t].pc \in NumberedPcs
  BY <1>1 DEF At, NumberedPcs, LifecyclePcs, OpenPcs
<1>10. /\ \A u \in Threads \ {t} : frame[u].pc \in NumberedPcs => frame[u].fd # n
       /\ \A p \in held : handle[p] # n
  BY <1>9, NumbersApart DEF n
<1>11. /\ OthersStay(t) /\ \A k \in Fds \ {n} : Kept(k)
       /\ \A u \in Threads \ {t} : frame[u].pc \in NumberedPcs =>
            /\ frame[u].fd # n
            /\ frame[u].obj \notin held => frame[u].obj \notin held'
            /\ handle'[frame[u].obj] = handle[frame[u].obj]
       /\ \A p \in held' : p \in held /\ handle[p] # n /\ handle'[p] = handle[p]
  BY <1>1, <1>4, <1>10
<1>12. QED
  BY <1>8, <1>11, StepOwned

(* Steps of a call on its way with the same number                         *)
LEMMA OnwardOwned ==
  ASSUME OwnedSoFar, NEW t \in Threads, GetName(t) \/ BuildFails(t) \/ ListStep(t)
  PROVE  HeldOwned' /\ FramesOwn'
<1>1. /\ OthersStay(t) /\ UNCHANGED <<kernel, client>> /\ SameCall(t)
      /\ \/ At(t, "name") /\ frame'[t].pc = "add"
         \/ (At(t, "connect") \/ At(t, "name")) /\ frame'[t].pc = "undo"
         \/ frame[t].pc \in AddPcs /\ frame'[t].pc \in AddPcs
         \/ frame[t].pc \in ClosePcs /\ frame'[t].pc \in ClosePcs
         \/ frame[t].pc \in LookupPcs /\ frame'[t].pc \in LookupPcs
  <2>1. TypedSoFar /\ TypeOK
    BY DEF OwnedSoFar, TypedSoFar
  <2>2. CASE GetName(t)
    BY <2>1, <2>2, GetNameDoes DEF GetName
  <2>3. CASE BuildFails(t)
    BY <2>1, <2>3, BuildFailsDoes
  <2>4. CASE ListStep(t)
    BY <2>1, <2>4, ListStepInner DEF Inner
  <2>5. QED
    BY <2>2, <2>3, <2>4
<1>2. \A o, n : /\ Has(o, n)' <=> Has(o, n)
                /\ HalfMade(o, n)' <=> HalfMade(o, n)
  BY <1>1, SameKernel
<1> DEFINE o == frame[t].obj
           n == frame[t].fd
<1>3. /\ Has(o, n) => Has(frame[t].obj, frame[t].fd)'
      /\ HalfMade(o, n) => HalfMade(frame[t].obj, frame[t].fd)'
  <2>1. \A p, m : p = o /\ m = n =>
          /\ Has(p, m)' => Has(frame[t].obj, frame[t].fd)'
          /\ HalfMade(p, m)' => HalfMade(frame[t].obj, frame[t].fd)'
    BY <1>1 DEF Has, HalfMade, IsOpenFd, Made, Iface, SameCall
  <2>2. QED
    BY <1>2, <2>1
<1>4. FrameOwns(t)
  BY DEF OwnedSoFar, FramesOwn
<1>5. UNCHANGED <<handle, held>> /\ frame'[t].obj = frame[t].obj /\ frame'[t].fd = frame[t].fd
  BY <1>1 DEF client, SameCall
<1>6. FrameOwns(t)'
  BY <1>1, <1>3, <1>4, <1>5 DEF FrameOwns, At, AddPcs, ClosePcs, LookupPcs
<1>7. QED
  BY <1>1, <1>5, <1>6, QuietStepOwned

LEMMA AssignOwned ==
  ASSUME OwnedSoFar, NEW t \in Threads, Assign(t)
  PROVE  HeldOwned' /\ FramesOwn'
<1> DEFINE n == frame[t].fd
           o == frame[t].obj
<1>1. /\ At(t, "assign") /\ frame'[t].pc = "idle" /\ OthersStay(t)
      /\ o \in Objects /\ handle'[o] = n
      /\ \A p \in Objects \ {o} : handle'[p] = handle[p]
      /\ held' = held \cup {o} /\ UNCHANGED kernel
  BY AssignDoes DEF OwnedSoFar
<1>2. Has(o, n)
  BY <1>1 DEF OwnedSoFar, FramesOwn, FrameOwns, At, AddPcs
<1>3. frame[t].pc \in NumberedPcs
  BY <1>1 DEF At, NumberedPcs, LifecyclePcs, OpenPcs, AddPcs
<1>4. \A u \in Threads \ {t} : frame[u].pc \in NumberedPcs =>
        /\ frame[u].obj \in Objects \ {o} /\ frame[u].fd # NoFd
  BY <1>3, NumbersApart, NumberOwned DEF NoFd
<1> HIDE DEF n, o
<1>5. \A p, m : Has(p, m)' <=> Has(p, m)
  BY <1>1, SameKernel
<1>6. ASSUME NEW p \in held'
      PROVE  \/ p \in held /\ handle[p] # NoFd /\ handle'[p] = handle[p]
             \/ Has(p, handle[p])'
  <2>1. CASE p = o
    BY <1>1, <1>2, <1>5, <2>1 DEF Has, Iface
  <2>2. CASE p # o
    <3>1. p \in held /\ p \in Objects
      BY <1>1, <2>2 DEF OwnedSoFar, TypedSoFar, TypeOK
    <3>2. handle[p] # NoFd
      BY <3>1 DEF OwnedSoFar, HeldOwned, Has, IsOpenFd, NoFd
    <3>3. QED
      BY <1>1, <2>2, <3>1, <3>2
  <2>3. QED
    BY <2>1, <2>2
<1>7. FrameOwns(t)'
  BY <1>1 DEF FrameOwns, At, AddPcs, ClosePcs
<1>8. \A k \in Fds \ {NoFd} : Kept(k)
  BY <1>1 DEF kernel, Kept
<1>9. \A u \in Threads \ {t} : frame[u].pc \in NumberedPcs =>
        /\ frame[u].fd # NoFd
        /\ frame[u].obj \notin held => frame[u].obj \notin held'
        /\ handle'[frame[u].obj] = handle[frame[u].obj]
  BY <1>1, <1>4
<1>10. QED
  BY <1>1, <1>6, <1>7, <1>8, <1>9, StepOwned

LEMMA OwnedNext ==
  ASSUME "closeOnce" \in Discipline, OwnedSoFar, [Next]_vars
  PROVE  HeldOwned' /\ FramesOwn'
<1>1. CASE UNCHANGED vars
  BY <1>1 DEF OwnedSoFar, vars, HeldOwned, FramesOwn, FrameOwns, At, Has,
     HalfMade, IsOpenFd, Iface
<1>2. CASE ~UNCHANGED vars
  BY <1>2, NextCases, CallOwned, EndOwned, OpenSocketOwned, OpenTapOwned,
     ConnectOwned, OnwardOwned, AssignOwned
<1>3. QED
  BY <1>1, <1>2

(* No second open() or close() of an object begins while one goes on.      *)
LEMMA SerialKept ==
  ASSUME OneLifecycleCall, NEW t \in Threads, OthersStay(t),
         frame'[t].pc \in LifecyclePcs =>
           \/ frame[t].pc \in LifecyclePcs /\ frame'[t].obj = frame[t].obj
           \/ \A u \in Threads : frame[u].pc \in LifecyclePcs =>
                frame[u].obj # frame'[t].obj
  PROVE  OneLifecycleCall'
BY DEF OneLifecycleCall, OthersStay

LEMMA SerialNext ==
  ASSUME "serial" \in Discipline, TypedSoFar, OneLifecycleCall, [Next]_vars
  PROVE  OneLifecycleCall'
<1>1. ASSUME NEW t \in Threads, NEW o \in Objects, Call(t, o)
      PROVE  OneLifecycleCall'
  <2>1. /\ OthersStay(t) /\ frame'[t].obj = o
        /\ \/ CallLookup(t, o) /\ frame'[t].pc = "lookup"
           \/ CallOpen(t, o) \/ CallClose(t, o)
    BY <1>1, CallDoes
  <2>2. CASE CallLookup(t, o) /\ frame'[t].pc = "lookup"
    BY <2>1, <2>2, SerialKept DEF LifecyclePcs, OpenPcs, AddPcs, ClosePcs
  <2>3. CASE CallOpen(t, o) \/ CallClose(t, o)
    <3>1. o \notin Opening \cup Closing
      BY <2>3 DEF CallOpen, CallClose, CloseStartingAt, MayOpen, MayClose
    <3>2. \A u \in Threads : frame[u].pc \in LifecyclePcs => frame[u].obj # o
      BY <3>1 DEF Opening, Closing, InCall, LifecyclePcs
    <3>3. QED
      BY <2>1, <3>2, SerialKept
  <2>4. QED
    BY <2>1, <2>2, <2>3
<1>2. ASSUME NEW t \in Threads,
             \/ OpenFails(t) \/ CopyName(t) \/ Undo(t) \/ DoClose(t)
             \/ Assign(t)
      PROVE  OneLifecycleCall'
  <2>1. OthersStay(t) /\ frame'[t].pc = "idle"
    BY <1>2, EndDoes, AssignDoes
  <2>2. QED
    BY <2>1, SerialKept DEF LifecyclePcs, OpenPcs, AddPcs, ClosePcs
<1>3. ASSUME NEW t \in Threads,
             \/ OpenSocket(t) \/ OpenTap(t) \/ Connect(t) \/ GetName(t)
             \/ BuildFails(t)
      PROVE  OneLifecycleCall'
  <2>1. /\ OthersStay(t) /\ frame'[t].obj = frame[t].obj
        /\ At(t, "open") \/ At(t, "connect") \/ At(t, "name")
    <3>1. CASE OpenSocket(t) \/ OpenTap(t)
      BY <3>1, OpenSocketDoes, OpenTapDoes DEF GotSocket, GotTap
    <3>2. CASE Connect(t) \/ BuildFails(t)
      BY <3>2, ConnectDoes, BuildFailsDoes DEF SameCall
    <3>3. CASE GetName(t)
      BY <3>3, GetNameDoes DEF SameCall, TypedSoFar
    <3>4. QED
      BY <1>3, <3>1, <3>2, <3>3
  <2>2. frame[t].pc \in LifecyclePcs
    BY <2>1 DEF At, LifecyclePcs, OpenPcs
  <2>3. QED
    BY <2>1, <2>2, SerialKept
<1>4. ASSUME NEW t \in Threads, ListStep(t) PROVE OneLifecycleCall'
  <2>1. /\ OthersStay(t) /\ frame'[t].obj = frame[t].obj
        /\ \/ frame[t].pc \in AddPcs /\ frame'[t].pc \in AddPcs
           \/ frame[t].pc \in ClosePcs /\ frame'[t].pc \in ClosePcs
           \/ frame[t].pc \in LookupPcs /\ frame'[t].pc \in LookupPcs
    BY <1>4, ListStepInner DEF Inner, SameCall
  <2>2. frame'[t].pc \in LifecyclePcs => frame[t].pc \in LifecyclePcs
    BY <2>1 DEF LifecyclePcs, OpenPcs, AddPcs, ClosePcs, LookupPcs
  <2>3. QED
    BY <2>1, <2>2, SerialKept
<1>5. CASE UNCHANGED vars
  BY <1>5 DEF vars, OneLifecycleCall
<1>6. QED
  BY NextCases, <1>1, <1>2, <1>3, <1>4, <1>5

LEMMA InitOwned == Init => OneLifecycleCall /\ HeldOwned /\ FramesOwn
<1>1. SUFFICES ASSUME Init PROVE OneLifecycleCall /\ HeldOwned /\ FramesOwn
  OBVIOUS
<1>2. \A t \in Threads : frame[t].pc = "idle"
  BY <1>1 DEF Init, Idle
<1>3. held = {}
  BY <1>1 DEF Init
<1>4. QED
  BY <1>2, <1>3 DEF OneLifecycleCall, HeldOwned, FramesOwn, FrameOwns, At,
     LifecyclePcs, OpenPcs, AddPcs, ClosePcs

LEMMA OwnedAlways ==
  ASSUME {"serial", "closeOnce"} \subseteq Discipline
  PROVE  Spec => []OwnedSoFar
<1>1. OwnedSoFar /\ [Next]_vars => OneLifecycleCall' /\ HeldOwned' /\ FramesOwn'
  BY SerialNext, OwnedNext DEF OwnedSoFar
<1>2. QED
  BY <1>1, InitOwned, TypedAlways, KernelAlwaysSound, PTL DEF Spec, OwnedSoFar

-----------------------------------------------------------------------------
(* The refinement of DeviceContract.                                       *)

Opened == {o \in Objects : Owns(o, handle[o])} \cup Granted

(* An open() that may still fail has the number.                           *)
Unsettled(n) == \E t \in Threads : frame[t].fd = n /\ (At(t, "name") \/ At(t, "undo"))

LEMMA OwnsIs ==
  \A o, n : Owns(o, n) <=> Has(o, n) /\ ~Unsettled(n)
BY DEF Owns, Has, Unsettled

(* A step that changes number k only, and leaves all others as settled as  *)
(* they were                                                               *)
LEMMA OwnsKept ==
  ASSUME NEW t \in Threads, OthersStay(t),
         NEW k, \A n \in Fds \ {k} : Kept(n),
         frame[t].pc \in {"name", "undo"} => frame[t].fd = k,
         frame'[t].pc \in {"name", "undo"} => frame'[t].fd = k
  PROVE  \A o, n : n # k => (Owns(o, n)' <=> Owns(o, n))
<1>1. SUFFICES ASSUME NEW o, NEW n, n # k PROVE Owns(o, n)' <=> Owns(o, n)
  OBVIOUS
<1>2. Has(o, n)' <=> Has(o, n)
  BY <1>1, EntriesKept
<1>3. Unsettled(n)' <=> Unsettled(n)
  BY <1>1 DEF Unsettled, OthersStay, At
<1>4. Owns(o, n)' <=> Has(o, n)' /\ ~Unsettled(n)'
  BY DEF Owns, Has, Unsettled
<1>5. QED
  BY <1>2, <1>3, <1>4, OwnsIs

(* A device for which nothing changes stays open or closed.                *)
LEMMA OpenedKept ==
  ASSUME NEW p \in Objects, handle'[p] = handle[p],
         \A n : Owns(p, n)' <=> Owns(p, n),
         \A u \in Threads :
           frame[u].pc \in AddPcs /\ frame[u].obj = p
             <=> frame'[u].pc \in AddPcs /\ frame'[u].obj = p,
         \A u \in Threads :
           frame[u].pc \in AddPcs /\ frame[u].obj = p => frame'[u].fd = frame[u].fd
  PROVE  p \in Opened' <=> p \in Opened
<1>1. Owns(p, handle[p])' <=> Owns(p, handle[p])
  BY DEF Owns, IsOpenFd, Iface
<1>2. \A u \in Threads : frame'[u].fd = frame[u].fd =>
        (Owns(p, frame[u].fd)' <=> Owns(p, frame[u].fd))
  BY DEF Owns, IsOpenFd, Iface
<1>3. p \in Granted' <=> p \in Granted
  BY <1>2 DEF Granted
<1>4. QED
  BY <1>1, <1>3 DEF Opened

(* The calls that a step begins, ends and carries on                       *)
LEMMA SameInCall ==
  ASSUME NEW t \in Threads, OthersStay(t), NEW pcs,
         frame[t].pc \in pcs <=> frame'[t].pc \in pcs,
         frame[t].pc \in pcs => frame'[t].obj = frame[t].obj
  PROVE  InCall(pcs)' = InCall(pcs)
BY DEF InCall, OthersStay

LEMMA BeginsInCall ==
  ASSUME NEW t \in Threads, OthersStay(t), NEW pcs,
         frame[t].pc \notin pcs, frame'[t].pc \in pcs, frame'[t].obj \in Objects
  PROVE  InCall(pcs)' = InCall(pcs) \cup {frame'[t].obj}
BY DEF InCall, OthersStay

LEMMA EndsInCall ==
  ASSUME OwnedSoFar, NEW t \in Threads, OthersStay(t),
         NEW pcs, pcs \subseteq LifecyclePcs,
         frame[t].pc \in pcs, frame'[t].pc \notin pcs, frame[t].obj \in Objects
  PROVE  /\ frame[t].obj \in InCall(pcs)
         /\ InCall(pcs)' = InCall(pcs) \ {frame[t].obj}
<1>1. \A u \in Threads \ {t} : frame[u].pc \in pcs => frame[u].obj # frame[t].obj
  BY DEF OwnedSoFar, OneLifecycleCall
<1>2. QED
  BY <1>1 DEF InCall, OthersStay

(* Opening and Closing are about different steps of a call.                *)
LEMMA PcsApart ==
  /\ OpenPcs \cap ClosePcs = {} /\ AddPcs \subseteq OpenPcs
  /\ LookupPcs \cap LifecyclePcs = {} /\ AddPcs \cap ClosePcs = {}
  /\ "idle" \notin LifecyclePcs \cup LookupPcs
  /\ OpenPcs \subseteq LifecyclePcs /\ ClosePcs \subseteq LifecyclePcs
BY DEF LifecyclePcs, OpenPcs, AddPcs, ClosePcs, LookupPcs

(* A step without effect on numbers and handles, after which a thread is   *)
(* in add() if it was before                                               *)
LEMMA QuietOpened ==
  ASSUME OwnedSoFar, NEW t \in Threads, OthersStay(t),
         NEW k, \A n \in Fds \ {k} : Kept(n),
         frame[t].pc \in {"name", "undo"} => frame[t].fd = k,
         frame'[t].pc \in {"name", "undo"} => frame'[t].fd = k,
         \A p \in Objects : ~Owns(p, k) /\ ~Owns(p, k)',
         handle' = handle,
         frame[t].pc \in AddPcs <=> frame'[t].pc \in AddPcs,
         frame[t].pc \in AddPcs => SameCall(t)
  PROVE  Opened' = Opened
<1>1. \A p \in Objects : \A n : Owns(p, n)' <=> Owns(p, n)
  BY OwnsKept
<1>2. \A u \in Threads : /\ frame[u].pc \in AddPcs <=> frame'[u].pc \in AddPcs
                         /\ frame[u].pc \in AddPcs => SameCall(u)
  BY DEF OthersStay, SameCall
<1>3. ASSUME NEW p \in Objects PROVE p \in Opened' <=> p \in Opened
  <2>1. \A u \in Threads :
          /\ frame[u].pc \in AddPcs /\ frame[u].obj = p
               <=> frame'[u].pc \in AddPcs /\ frame'[u].obj = p
          /\ frame[u].pc \in AddPcs /\ frame[u].obj = p => frame'[u].fd = frame[u].fd
    BY <1>2 DEF SameCall
  <2>2. QED
    BY <1>1, <2>1, OpenedKept
<1>4. QED
  BY <1>3 DEF Opened, Granted

(* The kernel and all calls in add() stay as they are.                     *)
LEMMA SameOpened ==
  ASSUME OwnedSoFar, NEW t \in Threads, OthersStay(t), UNCHANGED kernel,
         handle' = handle,
         frame[t].pc \notin {"name", "undo"}, frame'[t].pc \notin {"name", "undo"},
         frame[t].pc \in AddPcs <=> frame'[t].pc \in AddPcs,
         frame[t].pc \in AddPcs => SameCall(t)
  PROVE  Opened' = Opened
<1>1. \A n \in Fds \ {NoFd} : Kept(n)
  BY DEF kernel, Kept
<1>2. \A p \in Objects : ~Owns(p, NoFd) /\ ~Owns(p, NoFd)'
  BY DEF Owns, IsOpenFd, NoFd
<1>3. QED
  BY <1>1, <1>2, QuietOpened

(* The interface that a device is about to get                             *)
LEMMA OpenedHas ==
  ASSUME NEW p \in Opened
  PROVE  p \in Objects /\ \E n \in Fds : Owns(p, n) /\ Has(p, n)
<1>1. p \in Objects /\ \E n : Owns(p, n)
  BY DEF Opened, Granted
<1>2. \A n : Owns(p, n) => n \in Fds
  BY DEF Owns, IsOpenFd
<1>3. QED
  BY <1>1, <1>2, OwnsIs

LEMMA InitRefines == Init => Contract!Init
<1>1. SUFFICES ASSUME Init PROVE Contract!Init
  OBVIOUS
<1>2. \A t \in Threads : frame[t].pc = "idle"
  BY <1>1 DEF Init, Idle
<1>3. \A n : ~IsOpenFd(n)
  BY <1>1 DEF Init, KernelInit, IsOpenFd
<1>4. Opening = {} /\ Closing = {} /\ Granted = {}
  BY <1>2, PcsApart DEF Opening, Closing, InCall, Granted
<1>5. QED
  BY <1>3, <1>4 DEF Contract!Init, Owns

LEMMA CallRefines ==
  ASSUME {"serial", "closeOnce"} \subseteq Discipline, OwnedSoFar,
         NEW t \in Threads, NEW o \in Objects, Call(t, o)
  PROVE  [Contract!Next]_Contract!contract
<1>1. /\ At(t, "idle") /\ OthersStay(t) /\ UNCHANGED kernel /\ handle' = handle
      /\ frame'[t].obj = o
      /\ \/ CallOpen(t, o) /\ frame'[t].pc = "open"
         \/ CallClose(t, o) /\ frame'[t].pc = "delete"
         \/ CallLookup(t, o) /\ frame'[t].pc = "lookup"
  BY CallDoes DEF OwnedSoFar
<1>2. Opened' = Opened
  <2>1. frame[t].pc \notin AddPcs /\ frame'[t].pc \notin AddPcs
    BY <1>1 DEF At, AddPcs
  <2>2. frame[t].pc \notin {"name", "undo"} /\ frame'[t].pc \notin {"name", "undo"}
    BY <1>1 DEF At
  <2>3. QED
    BY <1>1, <2>1, <2>2, SameOpened
<1>3. frame[t].pc \notin OpenPcs /\ frame[t].pc \notin ClosePcs
  BY <1>1 DEF At, OpenPcs, AddPcs, ClosePcs
<1>4. CASE CallOpen(t, o) /\ frame'[t].pc = "open"
  <2>1. o \notin Opening \cup Closing
    BY <1>4 DEF CallOpen, MayOpen
  <2>2. frame'[t].pc \in OpenPcs /\ frame'[t].pc \notin ClosePcs
    BY <1>4 DEF OpenPcs, ClosePcs
  <2>3. Opening' = Opening \cup {o}
    BY <1>1, <1>3, <2>2, BeginsInCall DEF Opening
  <2>4. Closing' = Closing
    BY <1>1, <1>3, <2>2, SameInCall DEF Closing
  <2>5. Contract!StartOpen(o)
    BY <1>2, <2>1, <2>3, <2>4 DEF Contract!StartOpen, Opened
  <2>6. QED
    BY <2>5 DEF Contract!Next
<1>5. CASE CallClose(t, o) /\ frame'[t].pc = "delete"
  <2>1. o \notin Opening \cup Closing /\ o \in held
    BY <1>5 DEF CallClose, CloseStartingAt, MayClose
  <2>2. frame'[t].pc \in ClosePcs /\ frame'[t].pc \notin OpenPcs
    BY <1>5 DEF OpenPcs, AddPcs, ClosePcs
  <2>3. Closing' = Closing \cup {o}
    BY <1>1, <1>3, <2>2, BeginsInCall DEF Closing
  <2>4. Opening' = Opening
    BY <1>1, <1>3, <2>2, SameInCall DEF Opening
  <2>5. Has(o, handle[o])
    BY <2>1 DEF OwnedSoFar, HeldOwned
  <2>6. ~Unsettled(handle[o])
    <3>1. SUFFICES ASSUME NEW u \in Threads, frame[u].fd = handle[o],
                          At(u, "name") \/ At(u, "undo")
                   PROVE  FALSE
      BY DEF Unsettled
    <3>2. frame[u].pc \in NumberedPcs
      BY <3>1 DEF At, NumberedPcs, LifecyclePcs, OpenPcs
    <3>3. QED
      BY <2>1, <3>1, <3>2, NumbersApart
  <2>7. o \in Opened
    BY <2>5, <2>6, OwnsIs DEF Opened
  <2>8. Contract!StartClose(o)
    BY <1>2, <2>1, <2>3, <2>4, <2>7 DEF Contract!StartClose, Opened
  <2>9. QED
    BY <2>8 DEF Contract!Next
<1>6. CASE CallLookup(t, o) /\ frame'[t].pc = "lookup"
  <2>1. frame'[t].pc \notin OpenPcs /\ frame'[t].pc \notin ClosePcs
    BY <1>6 DEF OpenPcs, AddPcs, ClosePcs
  <2>2. Opening' = Opening /\ Closing' = Closing
    BY <1>1, <1>3, <2>1, SameInCall DEF Opening, Closing
  <2>3. QED
    BY <1>2, <2>2 DEF Contract!contract, Opened
<1>7. QED
  BY <1>1, <1>4, <1>5, <1>6

(* A call that ends without having changed a device                        *)
LEMMA EndsOpening ==
  ASSUME OwnedSoFar, NEW t \in Threads, OthersStay(t),
         frame[t].pc \in OpenPcs, frame'[t].pc = "idle", frame[t].obj \in Objects,
         Opened' = Opened
  PROVE  Contract!Next
<1>1. /\ frame'[t].pc \notin OpenPcs /\ frame[t].pc \notin ClosePcs
      /\ frame'[t].pc \notin ClosePcs /\ OpenPcs \subseteq LifecyclePcs
  BY PcsApart
<1>2. /\ frame[t].obj \in Opening
      /\ Opening' = Opening \ {frame[t].obj}
  BY <1>1, EndsInCall DEF Opening
<1>3. Closing' = Closing
  BY <1>1, SameInCall DEF Closing
<1>4. Contract!EndOpen(frame[t].obj)
  BY <1>2, <1>3 DEF Contract!EndOpen, Opened
<1>5. QED
  BY <1>4 DEF Contract!Next

(* A step within a call that opens and closes nothing                      *)
LEMMA StaysInCall ==
  ASSUME NEW t \in Threads, OthersStay(t), SameCall(t),
         frame[t].pc \in OpenPcs <=> frame'[t].pc \in OpenPcs,
         frame[t].pc \in ClosePcs <=> frame'[t].pc \in ClosePcs
  PROVE  Opening' = Opening /\ Closing' = Closing
BY SameInCall DEF Opening, Closing, SameCall

LEMMA UndoRefines ==
  ASSUME OwnedSoFar, NEW t \in Threads, Undo(t)
  PROVE  Contract!Next
<1>1. /\ frame'[t].pc = "idle" /\ OthersStay(t) /\ handle' = handle
      /\ frame[t].obj \in Objects /\ CloseFd(frame[t].fd) /\ At(t, "undo")
  BY EndDoes DEF OwnedSoFar, Undo, client
<1>2. PICK k \in Fds : k = frame[t].fd
  BY <1>1 DEF OwnedSoFar, TypedSoFar, FrameSound, At
<1>3. /\ \A n \in Fds \ {k} : Kept(n)
      /\ fdTable'[k] = NoFile
  BY <1>1, <1>2, CloseFdEffect DEF OwnedSoFar, KernelInv
<1>4. \A p \in Objects : ~Owns(p, k)
  BY <1>1, <1>2, OwnsIs DEF Unsettled
<1>5. \A p \in Objects : ~Owns(p, k)'
  BY <1>3 DEF Owns, IsOpenFd
<1>6. frame[t].pc \notin AddPcs /\ frame'[t].pc \notin AddPcs /\ frame[t].pc \in OpenPcs
  BY <1>1 DEF At, AddPcs, OpenPcs
<1>7. Opened' = Opened
  <2>1. frame'[t].pc \notin {"name", "undo"}
    BY <1>1
  <2>2. QED
    BY <1>1, <1>2, <1>3, <1>4, <1>5, <1>6, <2>1, QuietOpened
<1>8. QED
  BY <1>1, <1>6, <1>7, EndsOpening

(* The number that is freed is the device's own, and no other device's.    *)
LEMMA DoCloseRefines ==
  ASSUME OwnedSoFar, NEW t \in Threads, DoClose(t)
  PROVE  Contract!Next
<1>1. /\ frame'[t].pc = "idle" /\ OthersStay(t) /\ handle' = handle
      /\ frame[t].obj \in Objects /\ CloseFd(frame[t].fd) /\ At(t, "close")
  BY EndDoes DEF OwnedSoFar, DoClose, client
<1>2. frame[t].pc \in ClosePcs /\ frame[t].pc \in LifecyclePcs
  BY <1>1 DEF At, ClosePcs, LifecyclePcs
<1>3. /\ Has(frame[t].obj, frame[t].fd) /\ frame[t].fd = handle[frame[t].obj]
      /\ frame[t].fd \in Fds
  BY <1>2 DEF OwnedSoFar, FramesOwn, FrameOwns, Has, IsOpenFd
<1>4. PICK k \in Fds : k = frame[t].fd
  BY <1>3
<1>5. PICK o \in Objects : o = frame[t].obj
  BY <1>1
<1>6. \A u \in Threads \ {t} : frame[u].pc \in LifecyclePcs => frame[u].obj # o
  BY <1>2, <1>5 DEF OwnedSoFar, OneLifecycleCall
<1>7. frame[t].pc \notin {"name", "undo"} /\ frame'[t].pc \notin {"name", "undo"}
  BY <1>1 DEF At
<1>8. /\ frame[t].pc \notin OpenPcs /\ frame'[t].pc \notin OpenPcs
      /\ frame'[t].pc \notin ClosePcs /\ ClosePcs \subseteq LifecyclePcs
      /\ frame[t].pc \notin AddPcs /\ frame'[t].pc \notin AddPcs
      /\ AddPcs \subseteq LifecyclePcs
  BY <1>1, <1>2, PcsApart
<1>9. Closing' = Closing \ {o} /\ o \in Closing
  BY <1>1, <1>2, <1>5, <1>8, EndsInCall DEF Closing
<1>10. Opening' = Opening
  BY <1>1, <1>8, SameInCall DEF Opening
<1>11. /\ \A n \in Fds \ {k} : Kept(n)
       /\ fdTable'[k] = NoFile
  BY <1>1, <1>4, CloseFdEffect DEF OwnedSoFar, KernelInv
<1>12. \A p : ~Owns(p, k)'
  BY <1>11 DEF Owns, IsOpenFd
<1>13. \A p, n : n # k => (Owns(p, n)' <=> Owns(p, n))
  BY <1>1, <1>7, <1>11, OwnsKept
<1>14. \A p \in Objects \ {o} : ~Owns(p, k)
  BY <1>3, <1>4, <1>5, OneOwner, OwnsIs
<1>15. o \notin Opened'
  <2>1. handle'[o] = k
    BY <1>1, <1>3, <1>4, <1>5
  <2>2. ~Owns(o, handle[o])'
    BY <1>12, <2>1 DEF Owns, IsOpenFd, Iface
  <2>3. \A u \in Threads : ~(frame'[u].pc \in AddPcs /\ frame'[u].obj = o)
    BY <1>1, <1>6, <1>8 DEF OthersStay
  <2>4. o \notin Granted'
    BY <2>3 DEF Granted
  <2>5. QED
    BY <2>2, <2>4 DEF Opened
<1>16. ASSUME NEW p \in Objects \ {o} PROVE p \in Opened' <=> p \in Opened
  <2>1. \A n : Owns(p, n)' <=> Owns(p, n)
    BY <1>12, <1>13, <1>14
  <2>2. \A u \in Threads :
          /\ frame[u].pc \in AddPcs /\ frame[u].obj = p
               <=> frame'[u].pc \in AddPcs /\ frame'[u].obj = p
          /\ frame[u].pc \in AddPcs /\ frame[u].obj = p => frame'[u].fd = frame[u].fd
    BY <1>1, <1>8 DEF OthersStay
  <2>3. QED
    BY <1>1, <2>1, <2>2, OpenedKept
<1>17. Opened' = Opened \ {o}
  BY <1>15, <1>16 DEF Opened, Granted
<1>18. Contract!EndClose(o)
  BY <1>9, <1>10, <1>17 DEF Contract!EndClose, Opened
<1>19. QED
  BY <1>18 DEF Contract!Next

LEMMA EndRefines ==
  ASSUME OwnedSoFar, NEW t \in Threads, OpenFails(t) \/ CopyName(t)
  PROVE  [Contract!Next]_Contract!contract
<1>1. /\ frame'[t].pc = "idle" /\ OthersStay(t) /\ UNCHANGED client
      /\ frame[t].obj \in Objects
      /\ UNCHANGED kernel
  BY EndDoes DEF OwnedSoFar, OpenFails, CopyName
<1>2. \/ OpenFails(t) /\ At(t, "open")
      \/ CopyName(t) /\ At(t, "copy")
  BY DEF OpenFails, CopyName
<1>3. Opened' = Opened
  <2>1. frame[t].pc \notin AddPcs /\ frame'[t].pc \notin AddPcs
    BY <1>1, <1>2 DEF At, AddPcs
  <2>2. frame[t].pc \notin {"name", "undo"} /\ frame'[t].pc \notin {"name", "undo"}
    BY <1>1, <1>2 DEF At
  <2>3. QED
    BY <1>1, <2>1, <2>2, SameOpened DEF client
<1>4. CASE At(t, "open")
  BY <1>1, <1>3, <1>4, EndsOpening DEF At, OpenPcs
<1>5. CASE At(t, "copy")
  <2>1. /\ frame[t].pc \notin OpenPcs /\ frame'[t].pc \notin OpenPcs
        /\ frame[t].pc \notin ClosePcs /\ frame'[t].pc \notin ClosePcs
    BY <1>1, <1>5 DEF At, OpenPcs, AddPcs, ClosePcs
  <2>2. Opening' = Opening /\ Closing' = Closing
    BY <1>1, <2>1, SameInCall DEF Opening, Closing
  <2>3. QED
    BY <1>3, <2>2 DEF Contract!contract, Opened
<1>6. QED
  BY <1>2, <1>4, <1>5

(* A step within a call, after which the same devices are open             *)
LEMMA Stutters ==
  ASSUME NEW t \in Threads, OthersStay(t), frame'[t].obj = frame[t].obj,
         frame[t].pc \in OpenPcs <=> frame'[t].pc \in OpenPcs,
         frame[t].pc \in ClosePcs <=> frame'[t].pc \in ClosePcs,
         Opened' = Opened
  PROVE  UNCHANGED Contract!contract
<1>1. Opening' = Opening /\ Closing' = Closing
  BY SameInCall DEF Opening, Closing
<1>2. QED
  BY <1>1 DEF Contract!contract, Opened

LEMMA OpenSocketRefines ==
  ASSUME OwnedSoFar, NEW t \in Threads, OpenSocket(t)
  PROVE  UNCHANGED Contract!contract
<1>1. PICK n \in Fds, f \in Files : frame'[t].fd = n /\ GotSocket(t, n, f)
  BY OpenSocketDoes DEF OwnedSoFar
<1>2. /\ OthersStay(t) /\ handle' = handle /\ frame'[t].obj = frame[t].obj
      /\ frame[t].pc = "open" /\ frame'[t].pc = "connect"
  BY <1>1, OpenSocketDoes DEF OwnedSoFar, client, GotSocket, At
<1>3. /\ \A k \in Fds \ {n} : Kept(k)
      /\ fdTable[n] = NoFile
      /\ fdTable'[n] = f /\ file'[f] = Made(frame[t].obj)
  <2>1. OpenFile(n, f, frame[t].obj) /\ KernelTypeOK /\ TableSound
    BY <1>1 DEF GotSocket, OwnedSoFar, KernelInv
  <2>2. QED
    BY <2>1, OpenFileEffect
<1>4. \A p \in Objects : ~Owns(p, n)
  BY <1>3 DEF Owns, IsOpenFd
<1>5. \A p \in Objects : ~Owns(p, n)'
  BY <1>3 DEF Owns, Iface, Made
<1>6. /\ frame[t].pc \notin {"name", "undo"} /\ frame'[t].pc \notin {"name", "undo"}
      /\ frame[t].pc \notin AddPcs /\ frame'[t].pc \notin AddPcs
      /\ frame[t].pc \in OpenPcs /\ frame'[t].pc \in OpenPcs
      /\ frame[t].pc \notin ClosePcs /\ frame'[t].pc \notin ClosePcs
  BY <1>2 DEF AddPcs, OpenPcs, ClosePcs
<1>7. Opened' = Opened
  BY <1>2, <1>3, <1>4, <1>5, <1>6, QuietOpened
<1>8. QED
  BY <1>2, <1>6, <1>7, Stutters

LEMMA ConnectRefines ==
  ASSUME OwnedSoFar, NEW t \in Threads, Connect(t)
  PROVE  UNCHANGED Contract!contract
<1>1. /\ OthersStay(t) /\ handle' = handle /\ frame'[t].obj = frame[t].obj
      /\ frame[t].pc = "connect" /\ frame'[t].pc = "name"
      /\ frame'[t].fd = frame[t].fd
  BY ConnectDoes DEF OwnedSoFar, client, At, SameCall
<1>2. PICK k \in Fds : k = frame[t].fd
  BY ConnectDoes DEF OwnedSoFar
<1>3. PICK o \in Objects : o = frame[t].obj
  BY ConnectDoes DEF OwnedSoFar
<1>4. NameOf[o] \in Names /\ AttachFile(k, NameOf[o])
  BY <1>2, <1>3, ConnectDoes DEF OwnedSoFar
<1>5. \A n \in Fds \ {k} : Kept(n)
  BY <1>4, AttachFileEffect DEF OwnedSoFar, KernelInv
<1>6. \A p \in Objects : ~Owns(p, k)
  BY <1>4 DEF Owns, Iface, AttachFile, CanAttach
<1>7. \A p \in Objects : ~Owns(p, k)'
  BY <1>1, <1>2 DEF Owns, At
<1>8. /\ frame[t].pc \notin {"name", "undo"}
      /\ frame[t].pc \notin AddPcs /\ frame'[t].pc \notin AddPcs
      /\ frame[t].pc \in OpenPcs /\ frame'[t].pc \in OpenPcs
      /\ frame[t].pc \notin ClosePcs /\ frame'[t].pc \notin ClosePcs
  BY <1>1 DEF AddPcs, OpenPcs, ClosePcs
<1>9. Opened' = Opened
  BY <1>1, <1>2, <1>5, <1>6, <1>7, <1>8, QuietOpened
<1>10. QED
  BY <1>1, <1>8, <1>9, Stutters

LEMMA BuildFailsRefines ==
  ASSUME OwnedSoFar, NEW t \in Threads, BuildFails(t)
  PROVE  UNCHANGED Contract!contract
<1>1. /\ OthersStay(t) /\ handle' = handle /\ UNCHANGED kernel
      /\ frame'[t].obj = frame[t].obj /\ frame'[t].fd = frame[t].fd
      /\ frame[t].pc = "connect" \/ frame[t].pc = "name"
      /\ frame'[t].pc = "undo"
  BY BuildFailsDoes DEF OwnedSoFar, client, At, SameCall
<1>2. FrameOwns(t) /\ FrameSound(t)
  BY DEF OwnedSoFar, FramesOwn, TypedSoFar
<1>3. PICK k \in Fds : k = frame[t].fd
  BY <1>1, <1>2 DEF FrameSound
<1>4. \A n \in Fds \ {k} : Kept(n)
  BY <1>1 DEF kernel, Kept
<1>5. \A p \in Objects : ~Owns(p, k)
  <2>1. CASE frame[t].pc = "connect"
    <3>1. HalfMade(frame[t].obj, k)
      BY <1>2, <1>3, <2>1 DEF FrameOwns, At
    <3>2. QED
      BY <3>1 DEF HalfMade, Made, Owns, Iface
  <2>2. CASE frame[t].pc = "name"
    BY <1>3, <2>2 DEF Owns, At
  <2>3. QED
    BY <1>1, <2>1, <2>2
<1>6. \A p \in Objects : ~Owns(p, k)'
  BY <1>1, <1>3 DEF Owns, At
<1>7. /\ frame[t].pc \notin AddPcs /\ frame'[t].pc \notin AddPcs
      /\ frame[t].pc \in OpenPcs /\ frame'[t].pc \in OpenPcs
      /\ frame[t].pc \notin ClosePcs /\ frame'[t].pc \notin ClosePcs
  BY <1>1 DEF AddPcs, OpenPcs, ClosePcs
<1>8. Opened' = Opened
  BY <1>1, <1>3, <1>4, <1>5, <1>6, <1>7, QuietOpened
<1>9. QED
  BY <1>1, <1>7, <1>8, Stutters

LEMMA ListStepRefines ==
  ASSUME OwnedSoFar, NEW t \in Threads, ListStep(t)
  PROVE  UNCHANGED Contract!contract
<1>1. Inner(t)
  BY ListStepInner DEF OwnedSoFar
<1>2. /\ OthersStay(t) /\ SameCall(t) /\ UNCHANGED kernel /\ handle' = handle
      /\ \/ frame[t].pc \in AddPcs /\ frame'[t].pc \in AddPcs
         \/ frame[t].pc \in ClosePcs /\ frame'[t].pc \in ClosePcs
         \/ frame[t].pc \in LookupPcs /\ frame'[t].pc \in LookupPcs
  BY <1>1 DEF Inner, client
<1>3. /\ frame[t].pc \notin {"name", "undo"} /\ frame'[t].pc \notin {"name", "undo"}
      /\ frame[t].pc \in AddPcs <=> frame'[t].pc \in AddPcs
      /\ frame[t].pc \in OpenPcs <=> frame'[t].pc \in OpenPcs
      /\ frame[t].pc \in ClosePcs <=> frame'[t].pc \in ClosePcs
  BY <1>2 DEF OpenPcs, AddPcs, ClosePcs, LookupPcs
<1>4. Opened' = Opened
  BY <1>2, <1>3, SameOpened
<1>5. QED
  BY <1>2, <1>3, <1>4, Stutters DEF SameCall

(* The step of open() after which it cannot fail any more                  *)
LEMMA Grants ==
  ASSUME OwnedSoFar, NEW t \in Threads, OthersStay(t), handle' = handle,
         NEW k \in Fds, \A n \in Fds \ {k} : Kept(n),
         NEW o \in Objects, frame[t].obj = o, frame'[t].obj = o, frame'[t].fd = k,
         frame[t].pc \in OpenPcs \ AddPcs, frame'[t].pc \in AddPcs,
         frame[t].pc \in {"name", "undo"} => frame[t].fd = k,
         \A u \in Threads \ {t} : frame[u].pc \in {"name", "undo"} => frame[u].fd # k,
         \A p \in Objects : ~Owns(p, k),
         Has(o, k)',
         \A p \in Opened : NameOf[p] # NameOf[o]
  PROVE  Contract!Next
<1>1. frame'[t].pc \notin {"name", "undo"} /\ frame[t].pc \notin AddPcs
  BY DEF AddPcs
<1>2. Owns(o, k)'
  BY <1>1 DEF Owns, Has, OthersStay, At
<1>3. \A p \in Objects \ {o} : ~Owns(p, k)'
  BY <1>2 DEF Owns
<1>4. \A p, n : n # k => (Owns(p, n)' <=> Owns(p, n))
  BY <1>1, OwnsKept
<1>5. ASSUME NEW p \in Objects \ {o} PROVE p \in Opened' <=> p \in Opened
  <2>1. \A n : Owns(p, n)' <=> Owns(p, n)
    BY <1>3, <1>4
  <2>2. \A u \in Threads :
          /\ frame[u].pc \in AddPcs /\ frame[u].obj = p
               <=> frame'[u].pc \in AddPcs /\ frame'[u].obj = p
          /\ frame[u].pc \in AddPcs /\ frame[u].obj = p => frame'[u].fd = frame[u].fd
    BY <1>1 DEF OthersStay
  <2>3. QED
    BY <2>1, <2>2, OpenedKept
<1>6. Owns(frame[t].obj, frame[t].fd)'
  BY <1>2 DEF Owns, IsOpenFd, Iface
<1>7. o \in Opened'
  BY <1>6 DEF Opened, Granted
<1>8. Opened' = Opened \cup {o}
  BY <1>5, <1>7 DEF Opened, Granted
<1>9. /\ frame'[t].pc \in OpenPcs /\ frame[t].pc \notin ClosePcs
      /\ frame'[t].pc \notin ClosePcs
  BY PcsApart
<1>10. Opening' = Opening /\ Closing' = Closing
  BY <1>9, SameInCall DEF Opening, Closing
<1>11. o \in Opening
  BY DEF Opening, InCall
<1>12. Contract!Grant(o)
  BY <1>8, <1>10, <1>11 DEF Contract!Grant, Opened
<1>13. QED
  BY <1>12 DEF Contract!Next

LEMMA OpenTapRefines ==
  ASSUME OwnedSoFar, NEW t \in Threads, OpenTap(t)
  PROVE  Contract!Next
<1>1. PICK n \in Fds, f \in Files : frame'[t].fd = n /\ GotTap(t, n, f)
  BY OpenTapDoes DEF OwnedSoFar
<1>2. PICK o \in Objects : o = frame[t].obj
  BY OpenTapDoes DEF OwnedSoFar
<1>3. /\ OthersStay(t) /\ handle' = handle /\ frame'[t].obj = o
      /\ frame[t].pc = "open" /\ frame'[t].pc = "assign"
      /\ OpenAttached(n, f, o, NameOf[o])
  BY <1>1, <1>2, OpenTapDoes DEF OwnedSoFar, client, GotTap, At
<1>4. /\ \A k \in Fds \ {n} : Kept(k)
      /\ fdTable[n] = NoFile
      /\ fdTable'[n] = f
      /\ file'[f] = [maker |-> o, iface |-> NameOf[o]]
  BY <1>3, OpenAttachedEffect DEF OwnedSoFar, KernelInv
<1>5. Has(o, n)'
  BY <1>4 DEF Has, IsOpenFd, Iface
<1>6. \A p \in Objects : ~Owns(p, n)
  BY <1>4 DEF Owns, IsOpenFd
<1>7. \A u \in Threads : frame[u].pc \in {"name", "undo"} => frame[u].fd # n
  <2>1. \A u \in Threads : frame[u].pc \in NumberedPcs => frame[u].fd # n
    BY <1>4, NumberOwned DEF Has, HalfMade, IsOpenFd
  <2>2. QED
    BY <2>1 DEF NumberedPcs, LifecyclePcs, OpenPcs
<1>8. \A p \in Opened : NameOf[p] # NameOf[o]
  <2>1. ~Attached(NameOf[o]) /\ KernelTypeOK
    BY <1>3 DEF OpenAttached, OwnedSoFar, KernelInv
  <2>2. QED
    BY <2>1, OpenedHas, HasTakesName
<1>9. frame[t].pc \in OpenPcs \ AddPcs /\ frame'[t].pc \in AddPcs
  BY <1>3 DEF OpenPcs, AddPcs
<1>10. /\ OthersStay(t) /\ handle' = handle /\ \A k \in Fds \ {n} : Kept(k)
       /\ frame[t].obj = o /\ frame'[t].obj = o /\ frame'[t].fd = n
       /\ frame[t].pc \notin {"name", "undo"}
  BY <1>1, <1>2, <1>3, <1>4
<1>11. \A u \in Threads \ {t} : frame[u].pc \in {"name", "undo"} => frame[u].fd # n
  BY <1>7
<1>12. QED
  BY <1>5, <1>6, <1>8, <1>9, <1>10, <1>11, Grants

LEMMA GetNameRefines ==
  ASSUME OwnedSoFar, NEW t \in Threads, GetName(t)
  PROVE  Contract!Next
<1>1. /\ OthersStay(t) /\ UNCHANGED kernel /\ handle' = handle
      /\ frame'[t].obj = frame[t].obj /\ frame'[t].fd = frame[t].fd
      /\ frame[t].pc = "name" /\ frame'[t].pc = "add"
  BY GetNameDoes DEF OwnedSoFar, TypedSoFar, GetName, client, SameCall, At
<1>2. frame[t].pc \in NumberedPcs
  BY <1>1 DEF NumberedPcs, LifecyclePcs, OpenPcs
<1>3. PICK k \in Fds : k = frame[t].fd
  BY <1>2, NumberOwned
<1>4. PICK o \in Objects : o = frame[t].obj
  BY <1>2, NumberOwned
<1>5. Has(o, k)
  BY <1>1, <1>3, <1>4 DEF OwnedSoFar, FramesOwn, FrameOwns, At
<1>6. Has(o, k)' /\ \A n \in Fds \ {k} : Kept(n)
  BY <1>1, <1>5, SameKernel DEF kernel, Kept
<1>7. \A p \in Objects : ~Owns(p, k)
  BY <1>1, <1>3 DEF Owns, At
<1>8. \A u \in Threads \ {t} : frame[u].pc \in {"name", "undo"} => frame[u].fd # k
  BY <1>2, <1>3, NumbersApart DEF NumberedPcs, LifecyclePcs, OpenPcs
<1>9. ASSUME NEW p \in Opened, NameOf[p] = NameOf[o] PROVE FALSE
  <2>1. PICK m \in Fds : p \in Objects /\ Owns(p, m) /\ Has(p, m)
    BY OpenedHas
  <2>2. /\ file[fdTable[m]].iface = NameOf[p] /\ file[fdTable[k]].iface = NameOf[o]
        /\ fdTable[m] # NoFile /\ fdTable[k] # NoFile
    BY <1>5, <2>1 DEF Has, Iface, IsOpenFd
  <2>3. fdTable[m] \in Files /\ fdTable[k] \in Files
    BY <2>2 DEF OwnedSoFar, KernelInv, KernelTypeOK
  <2>4. NameOf[o] # NoName
    OBVIOUS
  <2>5. fdTable[m] = fdTable[k]
    BY <1>9, <2>2, <2>3, <2>4 DEF OwnedSoFar, KernelInv, NamesExclusive
  <2>6. m = k
    BY <2>2, <2>5 DEF OwnedSoFar, KernelInv, TableSound
  <2>7. QED
    BY <1>7, <2>1, <2>6
<1>10. frame[t].pc \in OpenPcs \ AddPcs /\ frame'[t].pc \in AddPcs
  BY <1>1 DEF OpenPcs, AddPcs
<1>11. QED
  BY <1>1, <1>3, <1>4, <1>6, <1>7, <1>8, <1>9, <1>10, Grants

LEMMA AssignRefines ==
  ASSUME OwnedSoFar, NEW t \in Threads, Assign(t)
  PROVE  Contract!Next
<1>1. PICK k \in Fds : k = frame[t].fd
  BY AssignDoes DEF OwnedSoFar
<1>2. PICK o \in Objects : o = frame[t].obj
  BY AssignDoes DEF OwnedSoFar
<1>3. /\ frame[t].pc = "assign" /\ frame'[t].pc = "idle" /\ OthersStay(t)
      /\ handle'[o] = k /\ UNCHANGED kernel
      /\ \A p \in Objects \ {o} : handle'[p] = handle[p]
  BY <1>1, <1>2, AssignDoes DEF OwnedSoFar, At
<1>4. frame[t].pc \in AddPcs /\ frame[t].pc \in OpenPcs /\ frame'[t].pc \notin AddPcs
  BY <1>3 DEF AddPcs, OpenPcs
<1>5. Has(o, k)
  BY <1>1, <1>2, <1>4 DEF OwnedSoFar, FramesOwn, FrameOwns
<1>6. Owns(o, k)
  <2>1. frame[t].pc \in NumberedPcs
    BY <1>3 DEF NumberedPcs, LifecyclePcs, OpenPcs, AddPcs
  <2>2. \A u \in Threads \ {t} : frame[u].pc \in {"name", "undo"} => frame[u].fd # k
    BY <1>1, <2>1, NumbersApart DEF NumberedPcs, LifecyclePcs, OpenPcs
  <2>3. QED
    BY <1>3, <1>5, <2>2 DEF Owns, Has, At
<1>7. \A p, n : Owns(p, n)' <=> Owns(p, n)
  <2>1. \A n \in Fds \ {NoFd} : Kept(n)
    BY <1>3 DEF kernel, Kept
  <2>2. \A p, n : n # NoFd => (Owns(p, n)' <=> Owns(p, n))
    BY <1>3, <2>1, OwnsKept
  <2>3. \A p : ~Owns(p, NoFd) /\ ~Owns(p, NoFd)'
    BY DEF Owns, IsOpenFd, NoFd
  <2>4. QED
    BY <2>2, <2>3
<1>8. o \in Opened /\ o \in Opened'
  <2>1. o \in Opened
    BY <1>1, <1>2, <1>4, <1>6 DEF Opened, Granted
  <2>2. Owns(o, k)'
    BY <1>6, <1>7
  <2>3. Owns(o, handle[o])'
    BY <1>3, <2>2 DEF Owns, IsOpenFd, Iface
  <2>4. QED
    BY <2>1, <2>3 DEF Opened
<1>9. ASSUME NEW p \in Objects \ {o} PROVE p \in Opened' <=> p \in Opened
  <2>1. \A u \in Threads :
          /\ frame[u].pc \in AddPcs /\ frame[u].obj = p
               <=> frame'[u].pc \in AddPcs /\ frame'[u].obj = p
          /\ frame[u].pc \in AddPcs /\ frame[u].obj = p => frame'[u].fd = frame[u].fd
    BY <1>2, <1>3, <1>4 DEF OthersStay
  <2>2. QED
    BY <1>3, <1>7, <2>1, OpenedKept
<1>10. Opened' = Opened
  BY <1>8, <1>9 DEF Opened, Granted
<1>11. QED
  BY <1>2, <1>3, <1>4, <1>10, EndsOpening

LEMMA NextRefines ==
  ASSUME {"serial", "closeOnce"} \subseteq Discipline, OwnedSoFar, [Next]_vars
  PROVE  [Contract!Next]_Contract!contract
<1>1. ASSUME NEW t \in Threads, NEW o \in Objects, Call(t, o)
      PROVE  [Contract!Next]_Contract!contract
  BY <1>1, CallRefines
<1>2. ASSUME NEW t \in Threads,
             \/ OpenFails(t) \/ CopyName(t) \/ Undo(t) \/ DoClose(t)
             \/ OpenTap(t) \/ GetName(t) \/ Assign(t)
      PROVE  [Contract!Next]_Contract!contract
  BY <1>2, EndRefines, UndoRefines, DoCloseRefines, OpenTapRefines,
     GetNameRefines, AssignRefines
<1>3. ASSUME NEW t \in Threads,
             OpenSocket(t) \/ Connect(t) \/ BuildFails(t) \/ ListStep(t)
      PROVE  [Contract!Next]_Contract!contract
  BY <1>3, OpenSocketRefines, ConnectRefines, BuildFailsRefines, ListStepRefines
<1>4. CASE UNCHANGED vars
  BY <1>4 DEF vars, Contract!contract, Owns, IsOpenFd, Iface, At, Granted,
     Opening, Closing, InCall
<1>5. QED
  BY NextCases, <1>1, <1>2, <1>3, <1>4

(* The steps of the macOS open() and close() implement the contract of     *)
(* DeviceContract: open() takes effect at the open(2) of a TAP and at the  *)
(* malloc() that follows the last call that can fail for a TUN, close() at *)
(* its close(2).  What a step does to the list of names is no part of it,  *)
(* and the clients may call as they like on different objects.             *)
THEOREM MacImplementsContract ==
  ASSUME {"serial", "closeOnce"} \subseteq Discipline
  PROVE  Spec => ImplementsContract
<1>1. OwnedSoFar /\ [Next]_vars => [Contract!Next]_Contract!contract
  BY NextRefines
<1>2. QED
  BY <1>1, InitRefines, OwnedAlways, PTL DEF Spec, ImplementsContract, Contract!Spec

-----------------------------------------------------------------------------
(* The list of utun devices, when clients keep all four promises.  The     *)
(* pointers spell out a set L of nodes in the order of their ranks r: an   *)
(* entry that is added gets the highest rank, one that is deleted leaves   *)
(* the ranks of the others alone.                                          *)

(* The turns clients take                                                  *)

Writes(t) == frame[t].pc \in ClosePcs \/ (frame[t].pc \in OpenPcs /\ frame[t].obj \notin Taps)

Looks(t) == frame[t].pc \in LookupPcs

(* One thread changes the list at a time; while others look something up,  *)
(* it adds an entry, and they look up devices that are held.               *)
Turns ==
  \A t, u \in Threads :
    /\ Writes(t) /\ Writes(u) => t = u
    /\ Looks(t) => frame[u].pc \notin ClosePcs
    /\ Looks(t) /\ Writes(u) => frame[t].obj \in held \ Taps

(* Which calls have an entry of their own, and where a close() begins      *)
FrameShape(t) ==
  /\ frame[t].pc \in OpenPcs \ AddPcs => frame[t].device = Null
  /\ frame[t].pc \in {"connect", "name", "undo", "add", "addWalk"} => frame[t].obj \notin Taps
  /\ frame[t].pc \in {"add", "addWalk"} => frame[t].device # Null
  /\ At(t, "assign") => (frame[t].device = Null <=> frame[t].obj \in Taps)
  /\ At(t, "delete") => frame[t].item = Null

Shapes == \A t \in Threads : FrameShape(t)

InTurn == OwnedSoFar /\ Turns /\ Shapes

-----------------------------------------------------------------------------
(* The list                                                                *)

(* The pointers lead from list through L, in the order of the ranks.       *)
Chain(L, r) ==
  /\ list = Null <=> L = {}
  /\ list # Null => list \in L /\ \A y \in L : r[list] <= r[y]
  /\ \A x, y \in L : r[x] = r[y] => x = y
  /\ \A x \in L :
       /\ node[x].Next = Null => \A y \in L : r[y] <= r[x]
       /\ node[x].Next # Null =>
            /\ node[x].Next \in L /\ r[x] < r[node[x].Next]
            /\ \A y \in L : r[y] <= r[x] \/ r[node[x].Next] <= r[y]
       /\ x = list \/ \E y \in L : node[y].Next = x

Lists(L, m) == \E x \in L : node[x].fd = m

Listable(e) == \E o \in Objects \ Taps : Has(o, e.fd) /\ e.ifName = NameOf[o]

Adds(x) == \E t \in Threads : At(t, "assign") /\ frame[t].device = x

(* An entry is that of a utun descriptor, or is about to be filled; no     *)
(* number is listed twice, and every device that is held is listed.        *)
EntriesSound(L) ==
  /\ \A x \in L : \/ memory[x] = "filled" /\ Listable(node[x])
                  \/ memory[x] = "raw" /\ Adds(x)
  /\ \A x, y \in L : node[x].fd = node[y].fd /\ node[x].fd \in Fds => x = y
  /\ \A x \in Nodes : memory[x] # "filled" => node[x] = Blank

HeldListed(L) == \A o \in held \ Taps : Lists(L, handle[o])

(* Every allocated node is in the list or in the hands of a thread.        *)
NoneLost(L) ==
  \A x \in Nodes : memory[x] # "free" =>
    \/ x \in L
    \/ \E t \in Threads : frame[t].pc \in {"add", "addWalk"} /\ frame[t].device = x
    \/ \E t \in Threads : At(t, "free") /\ frame[t].item = x

(* open(): the entry is not in the list until add() has linked it.         *)
AddSound(L, t) ==
  LET x == frame[t].device
      n == frame[t].fd
  IN /\ frame[t].pc \in {"name", "undo", "add", "addWalk"} => ~Lists(L, n)
     /\ frame[t].pc \in {"add", "addWalk"} => x \notin L
     /\ At(t, "addWalk") => frame[t].item \in L
     /\ At(t, "assign") /\ x # Null =>
          x \in L /\ \A y \in L : y # x => node[y].fd # n
     /\ frame[t].pc \in AddPcs /\ x # Null =>
          /\ memory[x] # "free"
          /\ memory[x] = "filled" =>
               node[x].fd = n /\ node[x].ifName = NameOf[frame[t].obj]
          /\ frame[t].pc \in {"add", "addWalk"} => node[x].Next = Null

(* close(): the entries before the one it is at do not have its number.    *)
DelSound(L, r, t) ==
  LET x == frame[t].item
      prev == frame[t].prev
      n == frame[t].fd
  IN /\ frame[t].pc \in {"delWalk", "unlink"} =>
          /\ x \in L
          /\ \/ prev = Null /\ list = x
             \/ prev \in L /\ node[prev].Next = x
          /\ \A y \in L : r[y] < r[x] => node[y].fd # n
     /\ At(t, "unlink") => node[x].fd = n
     /\ frame[t].pc \in {"free", "close"} => ~Lists(L, n)
     /\ At(t, "free") => memory[x] = "filled" /\ x \notin L

(* A lookup: the entry of a device that is held is still ahead.            *)
LookSound(L, r, t) ==
  LET x == frame[t].item
      o == frame[t].obj
      n == frame[t].fd
  IN /\ frame[t].pc \in LookupPcs /\ o \in held \ Taps => handle[o] = n
     /\ At(t, "lookWalk") =>
          /\ x \in L
          /\ o \in held \ Taps => \E y \in L : r[x] <= r[y] /\ node[y].fd = n
     /\ At(t, "copy") =>
          \/ x = Null /\ o \notin held \ Taps
          \/ x \in L /\ node[x].fd = n

ThreadSound(L, r, t) == AddSound(L, t) /\ DelSound(L, r, t) /\ LookSound(L, r, t)

ListSound(L, r) ==
  /\ Chain(L, r) /\ EntriesSound(L) /\ HeldListed(L) /\ NoneLost(L)
  /\ \A t \in Threads : ThreadSound(L, r, t)

ListInv == \E L \in SUBSET Nodes, r \in [Nodes -> Nat] : ListSound(L, r)

-----------------------------------------------------------------------------
(* What a step changes in the other fields of its thread's frame           *)

LEMMA CallRest ==
  ASSUME TypedSoFar, NEW t \in Threads, NEW o \in Objects, Call(t, o)
  PROVE  frame'[t].item = Null /\ frame'[t].device = Null
<1>1. \E next, n : Enter(t, o, n, next)
  BY DEF Call, CallOpen, CallClose, CloseStartingAt, CallLookup
<1> PICK next, n : Enter(t, o, n, next)
  BY <1>1
<1> DEFINE r == [Idle EXCEPT !.pc = next, !.obj = o, !.fd = n]
<1>2. r.item = Null /\ r.device = Null
  BY DEF Idle
<1>3. frame' = [frame EXCEPT ![t] = r]
  BY DEF Enter
<1> HIDE DEF r
<1>4. QED
  BY <1>2, <1>3 DEF TypedSoFar, TypeOK

LEMMA GotoRest ==
  ASSUME TypeOK, NEW t \in Threads, NEW next, Goto(t, next)
  PROVE  /\ frame'[t].item = frame[t].item /\ frame'[t].prev = frame[t].prev
         /\ frame'[t].device = frame[t].device
<1>1. frame[t] \in Frame
  BY DEF TypeOK
<1> DEFINE r == [frame[t] EXCEPT !.pc = next]
<1>2. /\ r.item = frame[t].item /\ r.prev = frame[t].prev
      /\ r.device = frame[t].device
  BY <1>1 DEF Frame
<1>3. frame' = [frame EXCEPT ![t] = r]
  BY DEF Goto
<1> HIDE DEF r
<1>4. QED
  BY <1>2, <1>3 DEF TypeOK

LEMMA VisitRest ==
  ASSUME TypeOK, NEW t \in Threads, NEW x, NEW walk, NEW end,
         Visit(t, x, walk, end)
  PROVE  /\ frame'[t].item = x /\ frame'[t].prev = frame[t].item
         /\ frame'[t].device = frame[t].device
<1>1. frame[t] \in Frame
  BY DEF TypeOK
<1> DEFINE p == IF x = Null THEN end ELSE walk
           r == [frame[t] EXCEPT !.pc = p, !.prev = frame[t].item, !.item = x]
<1>2. frame' = [frame EXCEPT ![t] = r]
  BY DEF Visit
<1> HIDE DEF p
<1>3. r.item = x /\ r.prev = frame[t].item /\ r.device = frame[t].device
  BY <1>1 DEF Frame
<1> HIDE DEF r
<1>4. QED
  BY <1>2, <1>3 DEF TypeOK

LEMMA GetNameRest ==
  ASSUME TypeOK, NEW t \in Threads, GetName(t)
  PROVE  \E x \in Nodes :
           /\ memory[x] = "free" /\ memory' = [memory EXCEPT ![x] = "raw"]
           /\ frame'[t].device = x
<1>1. PICK x \in Nodes :
        /\ memory[x] = "free"
        /\ memory' = [memory EXCEPT ![x] = "raw"]
        /\ frame' = [frame EXCEPT ![t].pc = "add", ![t].device = x]
  BY DEF GetName
<1>2. frame[t] \in Frame
  BY DEF TypeOK
<1> DEFINE r == [frame[t] EXCEPT !.pc = "add", !.device = x]
<1>3. r.device = x
  BY <1>2 DEF Frame
<1>4. frame' = [frame EXCEPT ![t] = r]
  BY <1>1
<1> HIDE DEF r
<1>5. QED
  BY <1>1, <1>3, <1>4 DEF TypeOK

LEMMA OpenRest ==
  ASSUME TypedSoFar, NEW t \in Threads, OpenSocket(t) \/ OpenTap(t)
  PROVE  /\ frame'[t].device = frame[t].device
         /\ \/ frame'[t].pc = "connect" /\ frame[t].obj \notin Taps
            \/ frame'[t].pc = "assign" /\ frame[t].obj \in Taps
<1>1. \E n \in Fds : \/ Take(t, "connect", n) /\ frame[t].obj \notin Taps
                     \/ Take(t, "assign", n) /\ frame[t].obj \in Taps
  BY DEF OpenSocket, OpenTap, Take
<1>2. "connect" \in Pcs /\ "assign" \in Pcs
  BY DEF Pcs, OpenPcs, AddPcs
<1>3. QED
  BY <1>1, <1>2, TakeDoes DEF TypedSoFar

(* A step on the list keeps the call's own entry.                          *)
LEMMA ListStepRest ==
  ASSUME TypedSoFar, NEW t \in Threads, ListStep(t)
  PROVE  /\ frame'[t].device = frame[t].device
         /\ \/ Fill(t) /\ frame' = frame
            \/ /\ frame[t].pc \in {"add", "addWalk"}
               /\ frame'[t].pc \in {"addWalk", "assign"}
            \/ frame[t].pc \in ClosePcs /\ frame'[t].pc \in ClosePcs \ {"delete"}
            \/ frame[t].pc \in LookupPcs /\ frame'[t].pc \in LookupPcs
<1>1. Inner(t)
  BY ListStepInner
<1>2. CASE Fill(t)
  BY <1>2 DEF Fill
<1>3. CASE Add(t) \/ AddWalk(t) \/ Delete(t) \/ Lookup(t)
  <2>1. \E x : \/ Visit(t, x, "addWalk", "assign") /\ frame[t].pc \in {"add", "addWalk"}
               \/ Visit(t, x, "delWalk", "close") /\ frame[t].pc = "delete"
               \/ Visit(t, x, "lookWalk", "copy") /\ frame[t].pc = "lookup"
    BY <1>3 DEF Add, AddWalk, Delete, Lookup, At
  <2> PICK x : \/ Visit(t, x, "addWalk", "assign") /\ frame[t].pc \in {"add", "addWalk"}
               \/ Visit(t, x, "delWalk", "close") /\ frame[t].pc = "delete"
               \/ Visit(t, x, "lookWalk", "copy") /\ frame[t].pc = "lookup"
    BY <2>1
  <2>2. frame'[t].device = frame[t].device
    BY VisitRest DEF TypedSoFar
  <2>3. \A walk, end : Visit(t, x, walk, end) => frame'[t].pc \in {walk, end}
    <3>1. frame[t] \in Frame
      BY DEF TypedSoFar, TypeOK
    <3>2. QED
      BY <3>1 DEF Visit, TypedSoFar, TypeOK, Frame
  <2>4. QED
    BY <2>2, <2>3 DEF ClosePcs, LookupPcs
<1>4. CASE DelWalk(t)
  <2>1. Search(t, "delWalk", "unlink", "close")
    BY <1>4 DEF DelWalk
  <2>2. /\ At(t, "delWalk")
        /\ \/ Goto(t, "unlink")
           \/ Visit(t, node[frame[t].item].Next, "delWalk", "close")
    BY <2>1 DEF Search
  <2>3. frame'[t].device = frame[t].device
    BY <2>2, GotoRest, VisitRest DEF TypedSoFar
  <2>4. frame'[t].pc \in {"delWalk", "unlink", "close"}
    BY <2>1, SearchDoes DEF Pcs, ClosePcs
  <2>5. QED
    BY <2>2, <2>3, <2>4 DEF ClosePcs, At
<1>5. CASE LookWalk(t)
  <2>1. Search(t, "lookWalk", "copy", "copy")
    BY <1>5 DEF LookWalk
  <2>2. /\ At(t, "lookWalk")
        /\ \/ Goto(t, "copy")
           \/ Visit(t, node[frame[t].item].Next, "lookWalk", "copy")
    BY <2>1 DEF Search
  <2>3. frame'[t].device = frame[t].device
    BY <2>2, GotoRest, VisitRest DEF TypedSoFar
  <2>4. frame'[t].pc \in {"lookWalk", "copy"}
    BY <2>1, SearchDoes DEF Pcs, LookupPcs
  <2>5. QED
    BY <2>2, <2>3, <2>4 DEF LookupPcs, At
<1>6. CASE Unlink(t) \/ Free(t)
  <2>1. \/ Goto(t, "free") /\ frame[t].pc = "unlink"
        \/ Goto(t, "close") /\ frame[t].pc = "free"
    BY <1>6 DEF Unlink, Free, At
  <2>2. "free" \in Pcs /\ "close" \in Pcs
    BY DEF Pcs, ClosePcs
  <2>3. QED
    BY <2>1, <2>2, GotoRest, GotoDoes DEF TypedSoFar, ClosePcs
<1>7. QED
  BY <1>2, <1>3, <1>4, <1>5, <1>6 DEF ListStep

-----------------------------------------------------------------------------
(* Shapes and turns are kept                                               *)

LEMMA ShapesNext ==
  ASSUME TypedSoFar, Shapes, [Next]_vars
  PROVE  Shapes'
<1>1. ASSUME NEW t \in Threads, OthersStay(t), FrameShape(t)' PROVE Shapes'
  BY <1>1 DEF Shapes, FrameShape, OthersStay, At
<1>2. ASSUME NEW t \in Threads, NEW o \in Objects, Call(t, o) PROVE Shapes'
  <2>1. /\ OthersStay(t) /\ frame'[t].pc \in {"open", "delete", "lookup"}
        /\ frame'[t].item = Null /\ frame'[t].device = Null
    BY <1>2, CallDoes, CallRest
  <2>2. FrameShape(t)'
    BY <2>1 DEF FrameShape, At
  <2>3. QED
    BY <1>1, <2>1, <2>2
<1>3. ASSUME NEW t \in Threads,
             \/ OpenFails(t) \/ CopyName(t) \/ Undo(t) \/ DoClose(t)
             \/ Assign(t)
      PROVE  Shapes'
  <2>1. OthersStay(t) /\ frame'[t].pc = "idle"
    BY <1>3, EndDoes, AssignDoes
  <2>2. FrameShape(t)'
    BY <2>1 DEF FrameShape, At, OpenPcs, AddPcs
  <2>3. QED
    BY <1>1, <2>1, <2>2
<1>4. ASSUME NEW t \in Threads, OpenSocket(t) \/ OpenTap(t) PROVE Shapes'
  <2>1. OthersStay(t) /\ frame'[t].obj = frame[t].obj /\ At(t, "open")
    BY <1>4, OpenSocketDoes, OpenTapDoes DEF GotSocket, GotTap
  <2>2. /\ frame'[t].device = frame[t].device
        /\ \/ frame'[t].pc = "connect" /\ frame[t].obj \notin Taps
           \/ frame'[t].pc = "assign" /\ frame[t].obj \in Taps
    BY <1>4, OpenRest
  <2>3. frame[t].device = Null
    BY <2>1 DEF Shapes, FrameShape, At, OpenPcs, AddPcs
  <2>4. FrameShape(t)'
    BY <2>1, <2>2, <2>3 DEF FrameShape, At, AddPcs
  <2>5. QED
    BY <1>1, <2>1, <2>4
<1>5. ASSUME NEW t \in Threads, Connect(t) \/ BuildFails(t) PROVE Shapes'
  <2>1. /\ OthersStay(t) /\ SameCall(t) /\ frame[t].pc \in {"connect", "name"}
        /\ frame'[t].pc \in {"name", "undo"}
    BY <1>5, ConnectDoes, BuildFailsDoes DEF At
  <2>2. frame'[t].device = frame[t].device
    BY <1>5, GotoRest DEF Connect, BuildFails, TypedSoFar
  <2>3. frame[t].device = Null /\ frame[t].obj \notin Taps
    BY <2>1 DEF Shapes, FrameShape, OpenPcs, AddPcs
  <2>4. FrameShape(t)'
    BY <2>1, <2>2, <2>3 DEF FrameShape, At, SameCall
  <2>5. QED
    BY <1>1, <2>1, <2>4
<1>6. ASSUME NEW t \in Threads, GetName(t) PROVE Shapes'
  <2>1. OthersStay(t) /\ SameCall(t) /\ At(t, "name") /\ frame'[t].pc = "add"
    BY <1>6, GetNameDoes DEF TypedSoFar
  <2>2. frame'[t].device # Null
    BY <1>6, GetNameRest DEF TypedSoFar
  <2>3. frame[t].obj \notin Taps
    BY <2>1 DEF Shapes, FrameShape, At
  <2>4. FrameShape(t)'
    BY <2>1, <2>2, <2>3 DEF FrameShape, At, AddPcs, SameCall
  <2>5. QED
    BY <1>1, <2>1, <2>4
<1>7. ASSUME NEW t \in Threads, ListStep(t) PROVE Shapes'
  <2>1. OthersStay(t) /\ SameCall(t)
    BY <1>7, ListStepInner DEF Inner
  <2>2. FrameShape(t)
    BY DEF Shapes
  <2>3. FrameShape(t)'
    <3>1. CASE frame' = frame
      BY <2>2, <3>1 DEF FrameShape, At
    <3>2. CASE frame'[t].pc \in ClosePcs \ {"delete"} \/ frame'[t].pc \in LookupPcs
      BY <3>2 DEF FrameShape, At, OpenPcs, AddPcs, ClosePcs, LookupPcs
    <3>3. CASE /\ frame[t].pc \in {"add", "addWalk"}
               /\ frame'[t].pc \in {"addWalk", "assign"}
               /\ frame'[t].device = frame[t].device
      BY <2>1, <2>2, <3>3 DEF FrameShape, At, AddPcs, SameCall
    <3>4. QED
      BY <1>7, <3>1, <3>2, <3>3, ListStepRest
  <2>4. QED
    BY <1>1, <2>1, <2>3
<1>8. CASE UNCHANGED vars
  BY <1>8 DEF vars, Shapes, FrameShape, At
<1>9. QED
  BY NextCases, <1>2, <1>3, <1>4, <1>5, <1>6, <1>7, <1>8

(* Who neither writes nor looks takes no turn.                             *)
LEMMA TurnsKept ==
  ASSUME Turns, NEW t \in Threads, OthersStay(t), held \subseteq held',
         Writes(t)' => Writes(t),
         Looks(t)' => Looks(t) /\ frame'[t].obj = frame[t].obj,
         frame'[t].pc \in ClosePcs => frame[t].pc \in ClosePcs
  PROVE  Turns'
<1>1. \A u \in Threads : /\ Writes(u)' => Writes(u)
                         /\ Looks(u)' => Looks(u) /\ frame'[u].obj = frame[u].obj
                         /\ frame'[u].pc \in ClosePcs => frame[u].pc \in ClosePcs
  BY DEF OthersStay, Writes, Looks
<1>2. QED
  BY <1>1 DEF Turns

(* What a call waits for, in terms of threads                              *)
LEMMA NobodyWriting ==
  ASSUME TypedSoFar
  PROVE  /\ Writing = {} => \A u \in Threads : ~Writes(u)
         /\ Looking = {} => \A u \in Threads : ~Looks(u)
         /\ Closing = {} => \A u \in Threads : frame[u].pc \notin ClosePcs
         /\ \A u \in Threads : Looks(u) => frame[u].obj \in Looking
         /\ \A u \in Threads : frame[u].pc \in OpenPcs => frame[u].obj \in Opening
<1>1. \A u \in Threads :
        frame[u].pc \in OpenPcs \cup ClosePcs \cup LookupPcs => frame[u].obj \in Objects
  BY DEF TypedSoFar, FrameSound, At, OpenPcs, AddPcs, ClosePcs, LookupPcs
<1>2. QED
  BY <1>1 DEF Writing, Looking, Closing, Opening, InCall, Writes, Looks

LEMMA CallTurns ==
  ASSUME {"oneWriter", "lookups"} \subseteq Discipline, TypedSoFar, Turns,
         NEW t \in Threads, NEW o \in Objects, Call(t, o)
  PROVE  Turns'
<1>1. /\ At(t, "idle") /\ OthersStay(t) /\ frame'[t].obj = o
      /\ \/ CallOpen(t, o) /\ frame'[t].pc = "open" /\ held' = held
         \/ CallClose(t, o) /\ frame'[t].pc = "delete"
         \/ CallLookup(t, o) /\ frame'[t].pc = "lookup" /\ held' = held
  BY CallDoes
<1>2. \A u \in Threads \ {t} :
        /\ Writes(u)' <=> Writes(u)
        /\ Looks(u)' <=> Looks(u)
        /\ frame'[u] = frame[u]
  BY <1>1 DEF OthersStay, Writes, Looks
<1>3. CASE CallOpen(t, o) /\ frame'[t].pc = "open" /\ held' = held
  <2>1. CASE o \in Taps
    <3>1. ~(Writes(t)') /\ ~(Looks(t)') /\ frame'[t].pc \notin ClosePcs
      BY <1>1, <1>3, <2>1 DEF Writes, Looks, ClosePcs, LookupPcs
    <3>2. QED
      BY <1>1, <1>3, <3>1, TurnsKept
  <2>2. CASE o \notin Taps
    <3>1. Writing = {} /\ Looking \subseteq held \ Taps
      BY <1>3, <2>2 DEF CallOpen, MayOpen
    <3>2. \A u \in Threads : ~Writes(u) /\ (Looks(u) => frame[u].obj \in held \ Taps)
      BY <3>1, NobodyWriting
    <3>3. ~(Looks(t)') /\ frame'[t].pc \notin ClosePcs
      BY <1>3 DEF Looks, ClosePcs, LookupPcs
    <3>4. \A u \in Threads : frame'[u].pc \notin ClosePcs
      BY <1>2, <3>2, <3>3 DEF Writes
    <3>5. QED
      BY <1>2, <1>3, <3>2, <3>3, <3>4 DEF Turns
  <2>3. QED
    BY <2>1, <2>2
<1>4. CASE CallClose(t, o) /\ frame'[t].pc = "delete"
  <2>1. Writing = {} /\ Looking = {}
    BY <1>4 DEF CallClose, CloseStartingAt, MayClose
  <2>2. \A u \in Threads : ~Writes(u) /\ ~Looks(u)
    BY <2>1, NobodyWriting
  <2>3. ~(Looks(t)')
    BY <1>4 DEF Looks, LookupPcs
  <2>4. QED
    BY <1>2, <2>2, <2>3 DEF Turns
<1>5. CASE CallLookup(t, o) /\ frame'[t].pc = "lookup" /\ held' = held
  <2>1. Closing = {} /\ (Opening \subseteq Taps \/ o \in held \ Taps)
    BY <1>5 DEF CallLookup, MayLookup
  <2>2. \A u \in Threads : /\ frame[u].pc \notin ClosePcs
                           /\ Writes(u) => o \in held \ Taps
    BY <2>1, NobodyWriting DEF Writes
  <2>3. ~(Writes(t)') /\ frame'[t].pc \notin ClosePcs
    BY <1>5 DEF Writes, OpenPcs, AddPcs, ClosePcs
  <2>4. \A u \in Threads : frame'[u].pc \notin ClosePcs
    BY <1>2, <2>2, <2>3
  <2>5. QED
    BY <1>1, <1>2, <1>5, <2>2, <2>3, <2>4 DEF Turns
<1>6. QED
  BY <1>1, <1>3, <1>4, <1>5

LEMMA TurnsNext ==
  ASSUME {"oneWriter", "lookups"} \subseteq Discipline, TypedSoFar, Turns, [Next]_vars
  PROVE  Turns'
<1>1. ASSUME NEW t \in Threads,
             \/ OpenFails(t) \/ CopyName(t) \/ Undo(t) \/ DoClose(t)
             \/ Assign(t)
      PROVE  Turns'
  <2>1. OthersStay(t) /\ frame'[t].pc = "idle" /\ held \subseteq held'
    BY <1>1, EndDoes, AssignDoes DEF client
  <2>2. ~(Writes(t)') /\ ~(Looks(t)') /\ frame'[t].pc \notin ClosePcs
    BY <2>1 DEF Writes, Looks, ClosePcs, OpenPcs, AddPcs, LookupPcs
  <2>3. QED
    BY <2>1, <2>2, TurnsKept
<1>2. ASSUME NEW t \in Threads,
             \/ OpenSocket(t) \/ OpenTap(t) \/ Connect(t) \/ GetName(t)
             \/ BuildFails(t)
      PROVE  Turns'
  <2>1. /\ OthersStay(t) /\ frame'[t].obj = frame[t].obj
        /\ At(t, "open") \/ At(t, "connect") \/ At(t, "name")
        /\ frame'[t].pc \in {"connect", "assign", "name", "add", "undo"}
    <3>1. CASE OpenSocket(t) \/ OpenTap(t)
      BY <3>1, OpenSocketDoes, OpenTapDoes DEF GotSocket, GotTap
    <3>2. CASE Connect(t) \/ BuildFails(t)
      BY <3>2, ConnectDoes, BuildFailsDoes DEF SameCall
    <3>3. CASE GetName(t)
      BY <3>3, GetNameDoes DEF SameCall, TypedSoFar
    <3>4. QED
      BY <1>2, <3>1, <3>2, <3>3
  <2>2. held' = held
    BY <1>2 DEF OpenSocket, OpenTap, Connect, GetName, BuildFails, client
  <2>3. /\ Writes(t)' => Writes(t)
        /\ ~(Looks(t)') /\ frame'[t].pc \notin ClosePcs
    BY <2>1 DEF Writes, Looks, At, OpenPcs, AddPcs, ClosePcs, LookupPcs
  <2>4. QED
    BY <2>1, <2>2, <2>3, TurnsKept
<1>3. ASSUME NEW t \in Threads, ListStep(t) PROVE Turns'
  <2>1. /\ OthersStay(t) /\ frame'[t].obj = frame[t].obj /\ held' = held
        /\ \/ frame[t].pc \in AddPcs /\ frame'[t].pc \in AddPcs
           \/ frame[t].pc \in ClosePcs /\ frame'[t].pc \in ClosePcs
           \/ frame[t].pc \in LookupPcs /\ frame'[t].pc \in LookupPcs
    BY <1>3, ListStepInner DEF Inner, SameCall, client
  <2>2. /\ Writes(t)' => Writes(t)
        /\ Looks(t)' => Looks(t)
        /\ frame'[t].pc \in ClosePcs => frame[t].pc \in ClosePcs
    BY <2>1 DEF Writes, Looks, OpenPcs, AddPcs, ClosePcs, LookupPcs
  <2>3. QED
    BY <2>1, <2>2, TurnsKept
<1>4. CASE UNCHANGED vars
  BY <1>4 DEF vars, Turns, Writes, Looks
<1>5. QED
  BY NextCases, CallTurns, <1>1, <1>2, <1>3, <1>4

Promised == {"serial", "closeOnce", "oneWriter", "lookups"} \subseteq Discipline

LEMMA InTurnAlways ==
  ASSUME Promised
  PROVE  Spec => []InTurn
<1>1. /\ {"serial", "closeOnce"} \subseteq Discipline
      /\ {"oneWriter", "lookups"} \subseteq Discipline
  BY DEF Promised
<1>2. Init => Turns /\ Shapes
  <2> SUFFICES ASSUME Init PROVE Turns /\ Shapes
    OBVIOUS
  <2>1. \A t \in Threads : frame[t].pc = "idle"
    BY DEF Init, Idle
  <2>2. QED
    BY <2>1 DEF Turns, Shapes, FrameShape, Writes, Looks, At, OpenPcs, AddPcs,
       ClosePcs, LookupPcs
<1>3. OwnedSoFar => TypedSoFar
  BY DEF OwnedSoFar
<1>4. TypedSoFar /\ Turns /\ Shapes /\ [Next]_vars => Turns' /\ Shapes'
  BY <1>1, TurnsNext, ShapesNext
<1>5. Spec => []OwnedSoFar
  BY <1>1, OwnedAlways
<1>6. QED
  BY <1>2, <1>3, <1>4, <1>5, PTL DEF Spec, InTurn

-----------------------------------------------------------------------------
(* Which entries are filled                                                *)

LEMMA Unfilled ==
  ASSUME InTurn, NEW L \in SUBSET Nodes, NEW r \in [Nodes -> Nat], ListSound(L, r),
         NEW x \in L, memory[x] # "filled"
  PROVE  /\ memory[x] = "raw" /\ node[x] = Blank /\ \A y \in L : r[y] <= r[x]
         /\ \E u \in Threads : At(u, "assign") /\ frame[u].device = x /\ Writes(u)
<1>1. /\ memory[x] = "raw" /\ Adds(x) /\ node[x] = Blank
  BY DEF ListSound, EntriesSound
<1>2. \A y \in L : r[y] <= r[x]
  <2>1. node[x].Next = Null
    BY <1>1 DEF Blank
  <2>2. QED
    BY <2>1 DEF ListSound, Chain
<1>3. PICK u \in Threads : At(u, "assign") /\ frame[u].device = x
  BY <1>1 DEF Adds
<1>4. frame[u].obj \notin Taps
  BY <1>3 DEF InTurn, Shapes, FrameShape
<1>5. Writes(u)
  BY <1>3, <1>4 DEF Writes, At, OpenPcs, AddPcs
<1>6. QED
  BY <1>1, <1>2, <1>3, <1>5

LEMMA WriterSeesFilled ==
  ASSUME InTurn, NEW L \in SUBSET Nodes, NEW r \in [Nodes -> Nat], ListSound(L, r),
         NEW t \in Threads, Writes(t), frame[t].pc # "assign"
  PROVE  \A x \in L : memory[x] = "filled" /\ Listable(node[x])
<1>1. ASSUME NEW x \in L, memory[x] # "filled" PROVE FALSE
  <2>1. PICK u \in Threads : At(u, "assign") /\ Writes(u)
    BY <1>1, Unfilled
  <2>2. QED
    BY <2>1 DEF InTurn, Turns, At
<1>2. QED
  BY <1>1 DEF ListSound, EntriesSound

(* The number of a device that is held                                     *)
LEMMA HeldNumber ==
  ASSUME InTurn, NEW o \in held
  PROVE  handle[o] \in Fds /\ handle[o] # NoHandle /\ Has(o, handle[o]) /\ o \in Objects
<1>1. Has(o, handle[o]) /\ o \in Objects
  BY DEF InTurn, OwnedSoFar, HeldOwned, TypedSoFar, TypeOK
<1>2. QED
  BY <1>1 DEF Has, IsOpenFd, NoHandle

(* A lookup of a device that is held stops before the entry that is being  *)
(* added; while it looks up another device, none is added.                 *)
LEMMA LookerSeesFilled ==
  ASSUME InTurn, NEW L \in SUBSET Nodes, NEW r \in [Nodes -> Nat], ListSound(L, r),
         NEW t \in Threads, Looks(t), NEW x \in L,
         frame[t].obj \in held \ Taps =>
           \E y \in L : r[x] <= r[y] /\ node[y].fd = handle[frame[t].obj]
  PROVE  memory[x] = "filled" /\ Listable(node[x])
<1>1. ASSUME memory[x] # "filled" PROVE FALSE
  <2>1. /\ node[x] = Blank /\ \A y \in L : r[y] <= r[x]
        /\ \E u \in Threads : Writes(u)
    BY <1>1, Unfilled
  <2>2. frame[t].obj \in held \ Taps
    BY <2>1 DEF InTurn, Turns
  <2>3. PICK y \in L : r[x] <= r[y] /\ node[y].fd = handle[frame[t].obj]
    BY <2>2
  <2>4. y = x
    <3>1. r[y] <= r[x] /\ r[x] \in Nat /\ r[y] \in Nat
      BY <2>1
    <3>2. QED
      BY <2>3, <3>1 DEF ListSound, Chain
  <2>5. QED
    BY <2>1, <2>2, <2>3, <2>4, HeldNumber DEF Blank, NoHandle
<1>2. QED
  BY <1>1 DEF ListSound, EntriesSound

-----------------------------------------------------------------------------
(* Steps that leave the heap as it is                                      *)

LEMMA ChainStays ==
  ASSUME UNCHANGED heap, NEW L, NEW r, Chain(L, r)
  PROVE  Chain(L, r)'
BY DEF Chain, heap

(* A number that is not listed may change hands, and its name.             *)
LEMMA EntriesStay ==
  ASSUME UNCHANGED heap, NEW L \in SUBSET Nodes, EntriesSound(L),
         NEW k, \A n \in Fds \ {k} : Kept(n), k \in Fds => ~Lists(L, k),
         \A x \in L : memory[x] = "raw" /\ Adds(x) => Adds(x)'
  PROVE  EntriesSound(L)'
<1>1. \A o, n : n # k => (Has(o, n)' <=> Has(o, n))
  BY EntriesKept
<1>2. ASSUME NEW x \in L, Listable(node[x]) PROVE Listable(node[x])'
  <2>1. PICK o \in Objects \ Taps : Has(o, node[x].fd) /\ node[x].ifName = NameOf[o]
    BY <1>2 DEF Listable
  <2>2. PICK n : n = node[x].fd
    OBVIOUS
  <2>3. Has(o, n) /\ n \in Fds /\ n # k
    BY <2>1, <2>2 DEF Has, IsOpenFd, Lists
  <2>4. Has(o, n)'
    BY <1>1, <2>3
  <2>5. Has(o, node[x].fd)' /\ node'[x].ifName = NameOf[o]
    BY <2>1, <2>2, <2>4 DEF Has, IsOpenFd, Iface, heap
  <2>6. QED
    BY <2>5 DEF Listable
<1>3. memory' = memory /\ node' = node
  BY DEF heap
<1>4. QED
  BY <1>2, <1>3 DEF EntriesSound

(* Threads that do not move: a lookup of a device stays one of a device    *)
(* that is held, or of one that is not.                                    *)
LEMMA ThreadStays ==
  ASSUME UNCHANGED heap, NEW L, NEW r, NEW u \in Threads, ThreadSound(L, r, u),
         frame'[u] = frame[u],
         Looks(u) /\ frame[u].obj \in held' \ Taps =>
           frame[u].obj \in held /\ handle'[frame[u].obj] = handle[frame[u].obj]
  PROVE  ThreadSound(L, r, u)'
<1>1. list' = list /\ node' = node /\ memory' = memory
  BY DEF heap
<1>2. AddSound(L, u)'
  BY <1>1 DEF ThreadSound, AddSound, Lists, At
<1>3. DelSound(L, r, u)'
  BY <1>1 DEF ThreadSound, DelSound, Lists, At
<1>4. LookSound(L, r, u)'
  BY <1>1 DEF ThreadSound, LookSound, Looks, LookupPcs, At
<1>5. QED
  BY <1>2, <1>3, <1>4 DEF ThreadSound

LEMMA HeapStays ==
  ASSUME NEW L \in SUBSET Nodes, NEW r \in [Nodes -> Nat], ListSound(L, r),
         UNCHANGED heap, NEW t \in Threads, OthersStay(t),
         NEW k, \A n \in Fds \ {k} : Kept(n), k \in Fds => ~Lists(L, k),
         \A x \in L : memory[x] = "raw" /\ Adds(x) => Adds(x)',
         frame[t].pc \in {"add", "addWalk"} =>
           /\ frame'[t].pc \in {"add", "addWalk"}
           /\ frame'[t].device = frame[t].device,
         frame[t].pc # "free",
         \A u \in Threads \ {t} : Looks(u) /\ frame[u].obj \in held' \ Taps =>
           frame[u].obj \in held /\ handle'[frame[u].obj] = handle[frame[u].obj],
         \A o \in held' \ Taps :
           (o \in held /\ handle'[o] = handle[o]) \/ Lists(L, handle'[o]),
         ThreadSound(L, r, t)'
  PROVE  ListSound(L, r)'
<1>1. list' = list /\ node' = node /\ memory' = memory
  BY DEF heap
<1>2. Chain(L, r)' /\ EntriesSound(L)'
  BY ChainStays, EntriesStay DEF ListSound
<1>3. HeldListed(L)'
  BY <1>1 DEF ListSound, HeldListed, Lists
<1>4. NoneLost(L)'
  BY <1>1 DEF ListSound, NoneLost, OthersStay, At
<1>5. \A u \in Threads \ {t} : ThreadSound(L, r, u)'
  BY ThreadStays DEF ListSound, OthersStay
<1>6. QED
  BY <1>2, <1>3, <1>4, <1>5 DEF ListSound

(* Where nothing in the kernel and no handle changes either, and no device *)
(* becomes held                                                            *)
LEMMA QuietStays ==
  ASSUME NEW L \in SUBSET Nodes, NEW r \in [Nodes -> Nat], ListSound(L, r),
         UNCHANGED heap, NEW t \in Threads, OthersStay(t),
         UNCHANGED <<fdTable, file>>, handle' = handle, held' \subseteq held,
         frame[t].pc \notin {"assign", "free"},
         frame[t].pc \in {"add", "addWalk"} =>
           /\ frame'[t].pc \in {"add", "addWalk"}
           /\ frame'[t].device = frame[t].device,
         ThreadSound(L, r, t)'
  PROVE  ListSound(L, r)'
<1>1. \A n \in Fds \ {NoFd} : Kept(n)
  BY DEF Kept
<1>2. NoFd \notin Fds
  BY DEF NoFd
<1>3. \A x \in L : Adds(x) => Adds(x)'
  BY DEF Adds, At, OthersStay
<1>4. QED
  BY <1>1, <1>2, <1>3, HeapStays

(* A number in the list is that of an attached utun socket.                *)
LEMMA ListedHas ==
  ASSUME NEW L \in SUBSET Nodes, EntriesSound(L), NEW n \in Fds, Lists(L, n)
  PROVE  \E o \in Objects \ Taps : Has(o, n)
<1>1. PICK x \in L : node[x].fd = n
  BY DEF Lists
<1>2. memory[x] = "filled"
  BY <1>1 DEF EntriesSound, Blank, NoHandle
<1>3. QED
  BY <1>1, <1>2 DEF EntriesSound, Listable

LEMMA CallList ==
  ASSUME InTurn, NEW L \in SUBSET Nodes, NEW r \in [Nodes -> Nat], ListSound(L, r),
         NEW t \in Threads, NEW o \in Objects, Call(t, o)
  PROVE  ListSound(L, r)'
<1>1. /\ At(t, "idle") /\ OthersStay(t) /\ frame'[t].obj = o
      /\ UNCHANGED <<kernel, handle, heap>> /\ held' \subseteq held
      /\ \/ frame'[t].pc = "open" \/ frame'[t].pc = "delete"
         \/ frame'[t].pc = "lookup" /\ frame'[t].fd = handle[o]
  BY CallDoes DEF InTurn, OwnedSoFar
<1>2. ThreadSound(L, r, t)'
  <2>1. AddSound(L, t)'
    BY <1>1 DEF AddSound, At, AddPcs
  <2>2. DelSound(L, r, t)'
    BY <1>1 DEF DelSound, At
  <2>3. LookSound(L, r, t)'
    BY <1>1 DEF LookSound, At, LookupPcs
  <2>4. QED
    BY <2>1, <2>2, <2>3 DEF ThreadSound
<1>3. QED
  BY <1>1, <1>2, QuietStays DEF At, kernel

LEMMA EndList ==
  ASSUME InTurn, NEW L \in SUBSET Nodes, NEW r \in [Nodes -> Nat], ListSound(L, r),
         NEW t \in Threads, OpenFails(t) \/ CopyName(t) \/ Undo(t) \/ DoClose(t)
  PROVE  ListSound(L, r)'
<1>1. /\ frame'[t].pc = "idle" /\ OthersStay(t) /\ UNCHANGED <<client, heap>>
      /\ \/ (At(t, "open") \/ At(t, "copy")) /\ UNCHANGED kernel
         \/ (At(t, "undo") \/ At(t, "close")) /\ CloseFd(frame[t].fd)
  BY EndDoes DEF InTurn, OwnedSoFar
<1>2. ThreadSound(L, r, t)'
  BY <1>1 DEF ThreadSound, AddSound, DelSound, LookSound, At, AddPcs, LookupPcs
<1>3. CASE (At(t, "open") \/ At(t, "copy")) /\ UNCHANGED kernel
  BY <1>1, <1>2, <1>3, QuietStays DEF At, kernel, client
<1>4. CASE (At(t, "undo") \/ At(t, "close")) /\ CloseFd(frame[t].fd)
  <2>1. PICK k : k = frame[t].fd
    OBVIOUS
  <2>2. \A n \in Fds \ {k} : Kept(n)
    BY <1>4, <2>1, CloseFdEffect DEF InTurn, OwnedSoFar, KernelInv
  <2>3. ~Lists(L, k)
    BY <1>4, <2>1 DEF ListSound, ThreadSound, AddSound, DelSound, At
  <2>4. \A x \in L : Adds(x) => Adds(x)'
    BY <1>1, <1>4 DEF Adds, At, OthersStay
  <2>5. handle' = handle /\ held' = held /\ frame[t].pc \in {"undo", "close"}
    BY <1>1, <1>4 DEF client, At
  <2>6. \A o \in held' \ Taps : o \in held /\ handle'[o] = handle[o]
    BY <2>5
  <2>7. QED
    BY <1>1, <1>2, <2>2, <2>3, <2>4, <2>5, <2>6, HeapStays
<1>5. QED
  BY <1>1, <1>3, <1>4

LEMMA OpenList ==
  ASSUME InTurn, NEW L \in SUBSET Nodes, NEW r \in [Nodes -> Nat], ListSound(L, r),
         NEW t \in Threads, OpenSocket(t) \/ OpenTap(t)
  PROVE  ListSound(L, r)'
<1>1. /\ OthersStay(t) /\ UNCHANGED <<client, heap>> /\ frame[t].obj \in Objects
      /\ frame'[t].obj = frame[t].obj
      /\ \E n \in Fds, f \in Files : GotSocket(t, n, f) \/ GotTap(t, n, f)
  BY OpenSocketDoes, OpenTapDoes DEF InTurn, OwnedSoFar
<1>2. PICK n \in Fds, f \in Files : GotSocket(t, n, f) \/ GotTap(t, n, f)
  BY <1>1
<1>3. (\A k \in Fds \ {n} : Kept(k)) /\ fdTable[n] = NoFile
  <2>1. KernelTypeOK /\ TableSound
    BY DEF InTurn, OwnedSoFar, KernelInv
  <2>2. CASE OpenFile(n, f, frame[t].obj)
    BY <2>1, <2>2, OpenFileEffect
  <2>3. CASE OpenAttached(n, f, frame[t].obj, NameOf[frame[t].obj])
    BY <2>1, <2>3, OpenAttachedEffect
  <2>4. QED
    BY <1>2, <2>2, <2>3 DEF GotSocket, GotTap
<1>4. ~Lists(L, n)
  <2>1. \A o : ~Has(o, n)
    BY <1>3 DEF Has, IsOpenFd
  <2>2. EntriesSound(L)
    BY DEF ListSound
  <2>3. QED
    BY <2>1, <2>2, ListedHas
<1>5. At(t, "open") /\ frame'[t].pc \in {"connect", "assign"}
  BY <1>2 DEF GotSocket, GotTap
<1>6. frame'[t].device = Null
  <2>1. frame'[t].device = frame[t].device
    BY OpenRest DEF InTurn, OwnedSoFar
  <2>2. frame[t].pc \in OpenPcs \ AddPcs
    BY <1>5 DEF At, OpenPcs, AddPcs
  <2>3. QED
    BY <2>1, <2>2 DEF InTurn, Shapes, FrameShape
<1>7. ThreadSound(L, r, t)'
  BY <1>5, <1>6 DEF ThreadSound, AddSound, DelSound, LookSound, At, LookupPcs
<1>8. \A x \in L : Adds(x) => Adds(x)'
  BY <1>1, <1>5 DEF Adds, At, OthersStay
<1>9. handle' = handle /\ held' = held
  BY <1>1 DEF client
<1>10. \A o \in held' \ Taps : o \in held /\ handle'[o] = handle[o]
  BY <1>9
<1>11. frame[t].pc = "open"
  BY <1>5 DEF At
<1>12. QED
  BY <1>1, <1>3, <1>4, <1>7, <1>8, <1>9, <1>10, <1>11, HeapStays

(* A socket that is not attached is not listed.                            *)
LEMMA HalfMadeUnlisted ==
  ASSUME NEW L \in SUBSET Nodes, EntriesSound(L), NEW o \in Objects, NEW n, HalfMade(o, n)
  PROVE  n \in Fds /\ ~Lists(L, n)
<1>1. n \in Fds
  BY DEF HalfMade, IsOpenFd
<1>2. \A p \in Objects : ~Has(p, n)
  BY OneOwner
<1>3. QED
  BY <1>1, <1>2, ListedHas

LEMMA BuildList ==
  ASSUME InTurn, NEW L \in SUBSET Nodes, NEW r \in [Nodes -> Nat], ListSound(L, r),
         NEW t \in Threads, Connect(t) \/ BuildFails(t)
  PROVE  ListSound(L, r)'
<1>1. /\ OthersStay(t) /\ SameCall(t) /\ UNCHANGED <<client, heap>>
      /\ frame[t].pc \in {"connect", "name"} /\ frame'[t].pc \in {"name", "undo"}
      /\ \/ frame[t].pc = "connect" /\ AttachFile(frame[t].fd, NameOf[frame[t].obj])
         \/ UNCHANGED kernel
  BY ConnectDoes, BuildFailsDoes DEF InTurn, OwnedSoFar, At
<1>2. PICK k : k = frame[t].fd
  OBVIOUS
<1>3. k \in Fds /\ frame[t].obj \in Objects /\ NameOf[frame[t].obj] \in Names
  BY <1>1, <1>2 DEF InTurn, OwnedSoFar, TypedSoFar, FrameSound, At
<1>4. ~Lists(L, k)
  <2>1. CASE frame[t].pc = "connect"
    <3>1. HalfMade(frame[t].obj, k)
      BY <1>2, <2>1 DEF InTurn, OwnedSoFar, FramesOwn, FrameOwns, At
    <3>2. QED
      BY <1>3, <3>1, HalfMadeUnlisted DEF ListSound
  <2>2. CASE frame[t].pc = "name"
    BY <1>2, <2>2 DEF ListSound, ThreadSound, AddSound
  <2>3. QED
    BY <1>1, <2>1, <2>2
<1>5. \A n \in Fds \ {k} : Kept(n)
  <2>1. CASE UNCHANGED kernel
    BY <2>1 DEF kernel, Kept
  <2>2. CASE AttachFile(k, NameOf[frame[t].obj])
    BY <1>3, <2>2, AttachFileEffect DEF InTurn, OwnedSoFar, KernelInv
  <2>3. QED
    BY <1>1, <1>2, <2>1, <2>2
<1>6. ThreadSound(L, r, t)'
  <2>1. ~(Lists(L, frame[t].fd)')
    BY <1>1, <1>2, <1>4 DEF Lists, SameCall, heap
  <2>2. AddSound(L, t)'
    BY <1>1, <2>1 DEF AddSound, At, AddPcs
  <2>3. DelSound(L, r, t)' /\ LookSound(L, r, t)'
    BY <1>1 DEF DelSound, LookSound, At, LookupPcs
  <2>4. QED
    BY <2>2, <2>3 DEF ThreadSound
<1>7. \A x \in L : Adds(x) => Adds(x)'
  BY <1>1 DEF Adds, At, OthersStay
<1>8. handle' = handle /\ held' = held
  BY <1>1 DEF client
<1>9. \A o \in held' \ Taps : o \in held /\ handle'[o] = handle[o]
  BY <1>8
<1>10. UNCHANGED heap /\ frame[t].pc \notin {"add", "addWalk", "free"}
  BY <1>1
<1>11. QED
  BY <1>1, <1>4, <1>5, <1>6, <1>7, <1>8, <1>9, <1>10, HeapStays

(* open() returns: the device is held, and listed if it is a TUN.          *)
LEMMA AssignList ==
  ASSUME InTurn, NEW L \in SUBSET Nodes, NEW r \in [Nodes -> Nat], ListSound(L, r),
         NEW t \in Threads, Assign(t)
  PROVE  ListSound(L, r)'
<1> DEFINE o == frame[t].obj
           x == frame[t].device
<1>1. /\ At(t, "assign") /\ frame'[t].pc = "idle" /\ OthersStay(t)
      /\ o \in Objects /\ handle'[o] = frame[t].fd
      /\ \A p \in Objects \ {o} : handle'[p] = handle[p]
      /\ held' = held \cup {o} /\ UNCHANGED <<kernel, heap>>
  BY AssignDoes DEF InTurn, OwnedSoFar
<1>2. x # Null => memory[x] = "filled"
  BY DEF Assign
<1>3. ThreadSound(L, r, t)'
  BY <1>1 DEF ThreadSound, AddSound, DelSound, LookSound, At, AddPcs, LookupPcs
<1>4. ASSUME NEW y \in L, memory[y] = "raw", Adds(y) PROVE Adds(y)'
  <2>1. PICK u \in Threads : At(u, "assign") /\ frame[u].device = y
    BY <1>4 DEF Adds
  <2>2. u # t
    BY <1>2, <1>4, <2>1
  <2>3. QED
    BY <1>1, <2>1, <2>2 DEF Adds, At, OthersStay
<1>5. ASSUME NEW p \in held' \ Taps
      PROVE  (p \in held /\ handle'[p] = handle[p]) \/ Lists(L, handle'[p])
  <2>1. CASE p = o
    <3>1. x # Null
      BY <1>1, <2>1, <1>5 DEF InTurn, Shapes, FrameShape
    <3>2. x \in L /\ node[x].fd = frame[t].fd
      BY <1>1, <1>2, <3>1 DEF ListSound, ThreadSound, AddSound, At, AddPcs
    <3>3. QED
      BY <1>1, <2>1, <3>2 DEF Lists
  <2>2. CASE p # o
    BY <1>1, <1>5, <2>2 DEF InTurn, OwnedSoFar, TypedSoFar, TypeOK
  <2>3. QED
    BY <2>1, <2>2
<1>6. ASSUME NEW u \in Threads \ {t}, Looks(u), frame[u].obj \in held' \ Taps
      PROVE  frame[u].obj \in held /\ handle'[frame[u].obj] = handle[frame[u].obj]
  <2>1. frame[u].obj # o
    <3>1. SUFFICES ASSUME frame[u].obj = o PROVE FALSE
      OBVIOUS
    <3>2. Writes(t)
      BY <1>1, <1>6, <3>1 DEF Writes, At, OpenPcs, AddPcs
    <3>3. o \in held
      BY <1>6, <3>1, <3>2 DEF InTurn, Turns
    <3>4. o \notin held
      BY <1>1 DEF InTurn, OwnedSoFar, FramesOwn, FrameOwns, At, AddPcs
    <3>5. QED
      BY <3>3, <3>4
  <2>2. QED
    BY <1>1, <1>6, <2>1 DEF InTurn, OwnedSoFar, TypedSoFar, TypeOK
<1>7. (\A n \in Fds \ {NoFd} : Kept(n)) /\ NoFd \notin Fds
  BY <1>1 DEF kernel, Kept, NoFd
<1>8. UNCHANGED heap /\ frame[t].pc = "assign"
  BY <1>1 DEF At
<1>9. QED
  BY <1>1, <1>3, <1>4, <1>5, <1>6, <1>7, <1>8, HeapStays

-----------------------------------------------------------------------------
(* Walks                                                                   *)

LEMMA InList ==
  ASSUME NEW L \in SUBSET Nodes, NEW r \in [Nodes -> Nat], Chain(L, r), NEW x \in L
  PROVE  /\ x \in Nodes /\ x # Null /\ r[x] \in Nat /\ list \in L
         /\ node[x].Next # Null =>
              /\ node[x].Next \in L
              /\ \A y \in L : r[y] < r[node[x].Next] => y = x \/ r[y] < r[x]
              /\ \A y \in L : r[x] <= r[y] /\ y # x => r[node[x].Next] <= r[y]
         /\ node[x].Next = Null =>
              /\ \A y \in L : y = x \/ r[y] < r[x]
              /\ \A y \in L : r[x] <= r[y] => y = x
<1>1. \A y \in L : r[y] \in Nat
  OBVIOUS
<1>2. x \in Nodes /\ x # Null /\ list \in L
  BY DEF Chain
<1>3. ASSUME node[x].Next # Null
      PROVE  /\ node[x].Next \in L
             /\ \A y \in L : r[y] < r[node[x].Next] => y = x \/ r[y] < r[x]
             /\ \A y \in L : r[x] <= r[y] /\ y # x => r[node[x].Next] <= r[y]
  BY <1>1, <1>3 DEF Chain
<1>4. ASSUME node[x].Next = Null
      PROVE  /\ \A y \in L : y = x \/ r[y] < r[x]
             /\ \A y \in L : r[x] <= r[y] => y = x
  BY <1>1, <1>4 DEF Chain
<1>5. QED
  BY <1>1, <1>2, <1>3, <1>4

LEMMA DeleteList ==
  ASSUME InTurn, NEW L \in SUBSET Nodes, NEW r \in [Nodes -> Nat], ListSound(L, r),
         NEW t \in Threads, Delete(t)
  PROVE  ListSound(L, r)'
<1>1. /\ At(t, "delete") /\ Visit(t, list, "delWalk", "close")
      /\ UNCHANGED <<kernel, client, heap>>
  BY DEF Delete
<1>2. /\ OthersStay(t) /\ SameCall(t)
      /\ frame'[t].pc = IF list = Null THEN "close" ELSE "delWalk"
  BY <1>1, VisitDoes
     DEF InTurn, OwnedSoFar, TypedSoFar, TypeOK, Pcs, ClosePcs
<1>3. frame'[t].item = list /\ frame'[t].prev = Null
  BY <1>1, VisitRest DEF InTurn, OwnedSoFar, TypedSoFar, Shapes, FrameShape
<1>4. Chain(L, r) /\ (list = Null => L = {})
  BY DEF ListSound, Chain
<1>5. ASSUME list # Null
      PROVE  list \in L /\ \A y \in L : ~(r[y] < r[list])
  <2>1. list \in L /\ \A y \in L : r[list] <= r[y]
    BY <1>4, <1>5 DEF Chain
  <2>2. r[list] \in Nat /\ \A y \in L : r[y] \in Nat
    BY <2>1
  <2>3. QED
    BY <2>1, <2>2
<1>6. list' = list /\ node' = node
  BY <1>1 DEF heap
<1>7. DelSound(L, r, t)'
  BY <1>2, <1>3, <1>4, <1>5, <1>6 DEF DelSound, At, Lists
<1>8. AddSound(L, t)' /\ LookSound(L, r, t)'
  BY <1>2 DEF AddSound, LookSound, At, AddPcs, LookupPcs
<1>9. ThreadSound(L, r, t)'
  BY <1>7, <1>8 DEF ThreadSound
<1>10. QED
  BY <1>1, <1>2, <1>9, QuietStays DEF At, kernel, client

LEMMA DelWalkList ==
  ASSUME InTurn, NEW L \in SUBSET Nodes, NEW r \in [Nodes -> Nat], ListSound(L, r),
         NEW t \in Threads, DelWalk(t)
  PROVE  ListSound(L, r)'
<1>1. Search(t, "delWalk", "unlink", "close") /\ UNCHANGED <<kernel, client, heap>>
  BY DEF DelWalk
<1>2. At(t, "delWalk")
  BY <1>1 DEF Search
<1> PICK n : n = frame[t].fd
  OBVIOUS
<1>3. PICK x \in L : x = frame[t].item /\ n = frame[t].fd
  BY <1>2 DEF ListSound, ThreadSound, DelSound, At
<1>4. /\ \/ frame[t].prev = Null /\ list = x
         \/ frame[t].prev \in L /\ node[frame[t].prev].Next = x
      /\ \A y \in L : r[y] < r[x] => node[y].fd # n
  BY <1>2, <1>3 DEF ListSound, ThreadSound, DelSound, At
<1>5. list' = list /\ node' = node
  BY <1>1 DEF heap
<1>6. "unlink" \in Pcs /\ "delWalk" \in Pcs /\ "close" \in Pcs
  BY DEF Pcs, ClosePcs
<1>7. OthersStay(t) /\ frame'[t].pc \in {"delWalk", "unlink", "close"} /\ DelSound(L, r, t)'
  <2>1. CASE node[x].fd = n
    <3>1. Goto(t, "unlink")
      BY <1>1, <1>3, <2>1 DEF Search
    <3>2. /\ OthersStay(t) /\ frame'[t].pc = "unlink" /\ frame'[t].fd = n
          /\ frame'[t].item = x /\ frame'[t].prev = frame[t].prev
      BY <1>3, <1>6, <3>1, GotoDoes, GotoRest
         DEF InTurn, OwnedSoFar, TypedSoFar, SameCall
    <3>3. QED
      BY <1>4, <1>5, <2>1, <3>2 DEF DelSound, At
  <2>2. CASE node[x].fd # n
    <3>1. PICK z : z = node[x].Next
      OBVIOUS
    <3>2. Visit(t, z, "delWalk", "close")
      BY <1>1, <1>3, <2>2, <3>1 DEF Search
    <3>3. Chain(L, r)
      BY DEF ListSound
    <3>4. z = Null \/ z \in L
      BY <3>1, <3>3, InList
    <3>5. /\ OthersStay(t) /\ frame'[t].fd = n
          /\ frame'[t].pc = IF z = Null THEN "close" ELSE "delWalk"
      BY <1>3, <1>6, <3>2, <3>4, VisitDoes
         DEF InTurn, OwnedSoFar, TypedSoFar, SameCall
    <3>6. frame'[t].item = z /\ frame'[t].prev = x
      BY <1>3, <3>2, VisitRest DEF InTurn, OwnedSoFar, TypedSoFar
    <3>7. CASE z = Null
      <4>1. \A y \in L : node[y].fd # n
        BY <1>4, <2>2, <3>1, <3>3, <3>7, InList
      <4>2. QED
        BY <1>5, <3>5, <3>7, <4>1 DEF DelSound, At, Lists
    <3>8. CASE z # Null
      <4>1. \A y \in L : r[y] < r[z] => node[y].fd # n
        BY <1>4, <2>2, <3>1, <3>3, <3>8, InList
      <4>2. QED
        BY <1>5, <3>1, <3>4, <3>5, <3>6, <3>8, <4>1 DEF DelSound, At
    <3>9. QED
      BY <3>7, <3>8
  <2>3. QED
    BY <2>1, <2>2
<1>8. AddSound(L, t)' /\ LookSound(L, r, t)'
  BY <1>7 DEF AddSound, LookSound, At, AddPcs, LookupPcs
<1>9. ThreadSound(L, r, t)'
  BY <1>7, <1>8 DEF ThreadSound
<1>10. UNCHANGED <<fdTable, file>> /\ handle' = handle /\ held' \subseteq held
  BY <1>1 DEF kernel, client
<1>11. frame[t].pc = "delWalk" /\ UNCHANGED heap /\ OthersStay(t)
  BY <1>1, <1>2, <1>7 DEF At
<1>12. QED
  BY <1>9, <1>10, <1>11, QuietStays

(* A lookup of a device that is held, where it begins                      *)
LEMMA LookupList ==
  ASSUME InTurn, NEW L \in SUBSET Nodes, NEW r \in [Nodes -> Nat], ListSound(L, r),
         NEW t \in Threads, Lookup(t)
  PROVE  ListSound(L, r)'
<1>1. /\ At(t, "lookup") /\ Visit(t, list, "lookWalk", "copy")
      /\ UNCHANGED <<kernel, client, heap>>
  BY DEF Lookup
<1>2. /\ OthersStay(t) /\ SameCall(t)
      /\ frame'[t].pc = IF list = Null THEN "copy" ELSE "lookWalk"
  BY <1>1, VisitDoes
     DEF InTurn, OwnedSoFar, TypedSoFar, TypeOK, Pcs, LookupPcs
<1>3. frame'[t].item = list
  BY <1>1, VisitRest DEF InTurn, OwnedSoFar, TypedSoFar
<1>4. PICK o, n : o = frame[t].obj /\ n = frame[t].fd
  OBVIOUS
<1>5. frame'[t].obj = o /\ frame'[t].fd = n
  BY <1>2, <1>4 DEF SameCall
<1>6. o \in held \ Taps => handle[o] = n /\ \E y \in L : node[y].fd = n
  BY <1>1, <1>4 DEF ListSound, ThreadSound, LookSound, HeldListed, Lists, At, LookupPcs
<1>7. /\ list = Null => L = {}
      /\ list # Null => list \in L /\ \A y \in L : r[list] <= r[y]
  BY DEF ListSound, Chain
<1>8. list' = list /\ node' = node /\ handle' = handle /\ held' = held
  BY <1>1 DEF heap, client
<1>9. LookSound(L, r, t)'
  BY <1>2, <1>3, <1>5, <1>6, <1>7, <1>8 DEF LookSound, At
<1>10. AddSound(L, t)' /\ DelSound(L, r, t)'
  BY <1>2 DEF AddSound, DelSound, At, AddPcs
<1>11. ThreadSound(L, r, t)'
  BY <1>9, <1>10 DEF ThreadSound
<1>12. QED
  BY <1>1, <1>2, <1>11, QuietStays DEF At, kernel, client

LEMMA LookWalkList ==
  ASSUME InTurn, NEW L \in SUBSET Nodes, NEW r \in [Nodes -> Nat], ListSound(L, r),
         NEW t \in Threads, LookWalk(t)
  PROVE  ListSound(L, r)'
<1>1. Search(t, "lookWalk", "copy", "copy") /\ UNCHANGED <<kernel, client, heap>>
  BY DEF LookWalk
<1>2. At(t, "lookWalk")
  BY <1>1 DEF Search
<1>3. PICK o, n : o = frame[t].obj /\ n = frame[t].fd
  OBVIOUS
<1>4. PICK x \in L : x = frame[t].item
  BY <1>2 DEF ListSound, ThreadSound, LookSound, At
<1>5. o \in held \ Taps => handle[o] = n /\ \E y \in L : r[x] <= r[y] /\ node[y].fd = n
  BY <1>2, <1>3, <1>4 DEF ListSound, ThreadSound, LookSound, At, LookupPcs
<1>6. node' = node /\ handle' = handle /\ held' = held
  BY <1>1 DEF heap, client
<1>7. "copy" \in Pcs /\ "lookWalk" \in Pcs
  BY DEF Pcs, LookupPcs
<1>8. OthersStay(t) /\ frame'[t].pc \in {"lookWalk", "copy"} /\ LookSound(L, r, t)'
  <2>1. CASE node[x].fd = n
    <3>1. Goto(t, "copy")
      BY <1>1, <1>3, <1>4, <2>1 DEF Search
    <3>2. /\ OthersStay(t) /\ frame'[t].pc = "copy" /\ frame'[t].fd = n
          /\ frame'[t].obj = o /\ frame'[t].item = x
      BY <1>3, <1>4, <1>7, <3>1, GotoDoes, GotoRest
         DEF InTurn, OwnedSoFar, TypedSoFar, SameCall
    <3>3. QED
      BY <1>5, <1>6, <2>1, <3>2 DEF LookSound, At
  <2>2. CASE node[x].fd # n
    <3>1. PICK z : z = node[x].Next
      OBVIOUS
    <3>2. Visit(t, z, "lookWalk", "copy")
      BY <1>1, <1>3, <1>4, <2>2, <3>1 DEF Search
    <3>3. Chain(L, r)
      BY DEF ListSound
    <3>4. z = Null \/ z \in L
      BY <3>1, <3>3, InList
    <3>5. /\ OthersStay(t) /\ frame'[t].fd = n /\ frame'[t].obj = o
          /\ frame'[t].pc = IF z = Null THEN "copy" ELSE "lookWalk"
      BY <1>3, <1>7, <3>2, <3>4, VisitDoes
         DEF InTurn, OwnedSoFar, TypedSoFar, SameCall
    <3>6. frame'[t].item = z
      BY <3>2, VisitRest DEF InTurn, OwnedSoFar, TypedSoFar
    <3>7. CASE z = Null
      <4>1. o \notin held \ Taps
        BY <1>5, <2>2, <3>1, <3>3, <3>7, InList
      <4>2. QED
        BY <1>6, <3>5, <3>6, <3>7, <4>1 DEF LookSound, At
    <3>8. CASE z # Null
      <4>1. o \in held \ Taps => \E y \in L : r[z] <= r[y] /\ node[y].fd = n
        BY <1>5, <2>2, <3>1, <3>3, <3>8, InList
      <4>2. QED
        BY <1>5, <1>6, <3>4, <3>5, <3>6, <3>8, <4>1 DEF LookSound, At
    <3>9. QED
      BY <3>7, <3>8
  <2>3. QED
    BY <2>1, <2>2
<1>9. AddSound(L, t)' /\ DelSound(L, r, t)'
  BY <1>8 DEF AddSound, DelSound, At, AddPcs
<1>10. ThreadSound(L, r, t)'
  BY <1>8, <1>9 DEF ThreadSound
<1>11. UNCHANGED <<fdTable, file>> /\ handle' = handle /\ held' \subseteq held
  BY <1>1 DEF kernel, client
<1>12. frame[t].pc = "lookWalk" /\ UNCHANGED heap /\ OthersStay(t)
  BY <1>1, <1>2, <1>8 DEF At
<1>13. QED
  BY <1>10, <1>11, <1>12, QuietStays

-----------------------------------------------------------------------------
(* add()                                                                   *)

LEMMA AddGoesOn ==
  ASSUME InTurn, NEW L \in SUBSET Nodes, NEW r \in [Nodes -> Nat], ListSound(L, r),
         NEW t \in Threads,
         \/ Add(t) /\ list # Null
         \/ AddWalk(t) /\ node[frame[t].item].Next # Null
  PROVE  ListSound(L, r)'
<1>1. frame[t].pc \in {"add", "addWalk"} /\ UNCHANGED <<kernel, client, memory>>
  BY DEF Add, AddWalk, At
<1>2. PICK z \in L : Visit(t, z, "addWalk", "assign") /\ list' = list /\ node' = node
  <2>1. CASE Add(t) /\ list # Null
    BY <2>1 DEF Add, ListSound, Chain
  <2>2. CASE AddWalk(t) /\ node[frame[t].item].Next # Null
    <3>1. PICK x \in L : x = frame[t].item
      BY <2>2 DEF AddWalk, ListSound, ThreadSound, AddSound, At
    <3>2. node[x].Next \in L
      BY <2>2, <3>1, InList DEF ListSound
    <3>3. node' = [node EXCEPT ![x].Next = node[x].Next]
      BY <2>2, <3>1 DEF AddWalk
    <3>4. node[x] \in Struct /\ node \in [Nodes -> Struct]
      BY DEF InTurn, OwnedSoFar, TypedSoFar, TypeOK
    <3>5. [node[x] EXCEPT !.Next = node[x].Next] = node[x]
      BY <3>4 DEF Struct
    <3>6. node' = node
      BY <3>3, <3>4, <3>5
    <3>7. QED
      BY <2>2, <3>1, <3>2, <3>6 DEF AddWalk
  <2>3. QED
    BY <2>1, <2>2
<1>3. z # Null /\ z \in Nodes \cup {Null}
  OBVIOUS
<1>4. OthersStay(t) /\ SameCall(t) /\ frame'[t].pc = "addWalk"
  <2>1. "addWalk" \in Pcs /\ "assign" \in Pcs
    BY DEF Pcs, OpenPcs, AddPcs
  <2>2. QED
    BY <1>2, <1>3, <2>1, VisitDoes DEF InTurn, OwnedSoFar, TypedSoFar
<1>5. frame'[t].item = z /\ frame'[t].device = frame[t].device
  BY <1>2, VisitRest DEF InTurn, OwnedSoFar, TypedSoFar
<1>6. UNCHANGED heap
  BY <1>1, <1>2 DEF heap
<1>7. AddSound(L, t)
  BY DEF ListSound, ThreadSound
<1>8. AddSound(L, t)'
  BY <1>1, <1>2, <1>4, <1>5, <1>7 DEF AddSound, At, AddPcs, Lists, SameCall
<1>9. DelSound(L, r, t)' /\ LookSound(L, r, t)'
  BY <1>4 DEF DelSound, LookSound, At, LookupPcs
<1>10. ThreadSound(L, r, t)'
  BY <1>8, <1>9 DEF ThreadSound
<1>11. UNCHANGED <<fdTable, file>> /\ handle' = handle /\ held' \subseteq held
  BY <1>1 DEF kernel, client
<1>12. QED
  BY <1>1, <1>4, <1>5, <1>6, <1>10, <1>11, QuietStays

(* The frame of a thread that writes nothing says nothing of the list      *)
(* unless it looks something up.                                           *)
LEMMA NonWriterStays ==
  ASSUME InTurn, NEW u \in Threads, ~Writes(u), frame'[u] = frame[u], NEW L, NEW r
  PROVE  AddSound(L, u)' /\ DelSound(L, r, u)'
<1>1. /\ frame[u].pc \notin {"name", "undo", "add", "addWalk"} \cup ClosePcs
      /\ At(u, "assign") => frame[u].device = Null
  BY DEF InTurn, Shapes, FrameShape, Writes, At, OpenPcs, AddPcs
<1>2. QED
  BY <1>1 DEF AddSound, DelSound, At, AddPcs, ClosePcs

(* A lookup goes on while entries are added.                               *)
LEMMA LookerStays ==
  ASSUME InTurn, NEW L, NEW r, NEW u \in Threads, NEW t \in Threads,
         LookSound(L, r, u), frame'[u] = frame[u], Writes(t),
         NEW M, L \subseteq M, NEW q,
         \A y \in L : q[y] = r[y] /\ (node[y].fd \in Fds => node'[y].fd = node[y].fd),
         UNCHANGED client
  PROVE  LookSound(M, q, u)'
<1>1. CASE ~Looks(u)
  BY <1>1 DEF LookSound, Looks, At, LookupPcs
<1>2. CASE Looks(u)
  <2>1. frame[u].obj \in held \ Taps
    BY <1>2 DEF InTurn, Turns
  <2>2. PICK o, n : o = frame[u].obj /\ n = frame[u].fd
    OBVIOUS
  <2>3. handle[o] = n /\ n \in Fds
    BY <1>2, <2>1, <2>2, HeldNumber DEF LookSound, Looks
  <2>4. \A y \in L : node[y].fd = n => node'[y].fd = n
    BY <2>3
  <2>5. handle' = handle /\ held' = held
    BY DEF client
  <2>6. QED
    BY <2>1, <2>2, <2>3, <2>4, <2>5 DEF LookSound, At
<1>3. QED
  BY <1>1, <1>2

(* What an open() does to the list leaves the others their places in it.   *)
LEMMA AdderStep ==
  ASSUME InTurn, NEW L \in SUBSET Nodes, NEW r \in [Nodes -> Nat], ListSound(L, r),
         NEW t \in Threads, Writes(t), OthersStay(t), UNCHANGED client,
         NEW M \in SUBSET Nodes, L \subseteq M, NEW q,
         \A y \in L : q[y] = r[y] /\ (node[y].fd \in Fds => node'[y].fd = node[y].fd),
         Chain(M, q)', EntriesSound(M)', NoneLost(M)', ThreadSound(M, q, t)'
  PROVE  ListSound(M, q)'
<1>1. HeldListed(M)'
  <2>1. ASSUME NEW o \in held \ Taps PROVE \E y \in M : node'[y].fd = handle[o]
    <3>1. PICK y \in L : node[y].fd = handle[o]
      BY DEF ListSound, HeldListed, Lists
    <3>2. handle[o] \in Fds
      BY HeldNumber
    <3>3. QED
      BY <3>1, <3>2
  <2>2. handle' = handle /\ held' = held
    BY DEF client
  <2>3. QED
    BY <2>1, <2>2 DEF HeldListed, Lists
<1>2. ASSUME NEW u \in Threads \ {t} PROVE ThreadSound(M, q, u)'
  <2>1. frame'[u] = frame[u] /\ ~Writes(u)
    BY DEF OthersStay, InTurn, Turns
  <2>2. AddSound(M, u)' /\ DelSound(M, q, u)'
    BY <2>1, NonWriterStays
  <2>3. LookSound(L, r, u)
    BY DEF ListSound, ThreadSound
  <2>4. LookSound(M, q, u)'
    BY <2>1, <2>3, LookerStays
  <2>5. QED
    BY <2>2, <2>4 DEF ThreadSound
<1>3. QED
  BY <1>1, <1>2 DEF ListSound

(* Entries that keep number and name, where nothing in the kernel changes  *)
LEMMA ListableStays ==
  ASSUME UNCHANGED kernel, NEW x, Listable(node[x]),
         node'[x].fd = node[x].fd, node'[x].ifName = node[x].ifName
  PROVE  Listable(node[x])'
<1>1. PICK o \in Objects \ Taps : Has(o, node[x].fd) /\ node[x].ifName = NameOf[o]
  BY DEF Listable
<1>2. PICK n : n = node[x].fd
  OBVIOUS
<1>3. Has(o, n)'
  BY <1>1, <1>2, SameKernel
<1>4. Has(o, node[x].fd)'
  BY <1>2, <1>3 DEF Has, IsOpenFd, Iface
<1>5. QED
  BY <1>1, <1>4 DEF Listable

(* malloc() of an entry: it is not in the list yet.                        *)
LEMMA GetNameList ==
  ASSUME InTurn, NEW L \in SUBSET Nodes, NEW r \in [Nodes -> Nat], ListSound(L, r),
         NEW t \in Threads, GetName(t)
  PROVE  ListSound(L, r)'
<1>1. /\ OthersStay(t) /\ SameCall(t) /\ At(t, "name") /\ frame'[t].pc = "add"
      /\ UNCHANGED <<kernel, client, list, node>>
  BY GetNameDoes DEF InTurn, OwnedSoFar, TypedSoFar, GetName
<1>2. PICK x \in Nodes :
        /\ memory[x] = "free" /\ memory' = [memory EXCEPT ![x] = "raw"]
        /\ frame'[t].device = x
  BY <1>1, GetNameRest DEF InTurn, OwnedSoFar, TypedSoFar
<1>3. x \notin L
  BY <1>2 DEF ListSound, EntriesSound
<1>4. /\ memory'[x] = "raw" /\ \A y \in Nodes \ {x} : memory'[y] = memory[y]
  BY <1>2 DEF InTurn, OwnedSoFar, TypedSoFar, TypeOK
<1>5. Writes(t) /\ frame[t].pc # "assign"
  BY <1>1 DEF Writes, At, OpenPcs, InTurn, Shapes, FrameShape
<1>6. \A y \in L : memory[y] = "filled" /\ Listable(node[y])
  BY <1>5, WriterSeesFilled
<1>7. Chain(L, r)'
  BY <1>1 DEF ListSound, Chain
<1>8. EntriesSound(L)'
  <2>1. \A y \in L : memory'[y] = "filled" /\ Listable(node[y])'
    BY <1>1, <1>3, <1>4, <1>6, ListableStays
  <2>2. \A y \in Nodes : memory'[y] # "filled" => node'[y] = Blank
    BY <1>1, <1>2, <1>4 DEF ListSound, EntriesSound
  <2>3. \A y, z \in L : node'[y].fd = node'[z].fd /\ node'[y].fd \in Fds => y = z
    BY <1>1 DEF ListSound, EntriesSound
  <2>4. QED
    BY <2>1, <2>2, <2>3 DEF EntriesSound
<1>9. NoneLost(L)'
  <2>1. ASSUME NEW y \in Nodes, memory'[y] # "free"
        PROVE  \/ y \in L
               \/ \E u \in Threads : frame'[u].pc \in {"add", "addWalk"} /\ frame'[u].device = y
               \/ \E u \in Threads : frame'[u].pc = "free" /\ frame'[u].item = y
    <3>1. CASE y = x
      BY <1>1, <1>2, <3>1
    <3>2. CASE y # x
      <4>1. \/ y \in L
            \/ \E u \in Threads : frame[u].pc \in {"add", "addWalk"} /\ frame[u].device = y
            \/ \E u \in Threads : frame[u].pc = "free" /\ frame[u].item = y
        BY <1>4, <2>1, <3>2 DEF ListSound, NoneLost, At
      <4>2. QED
        BY <1>1, <4>1 DEF OthersStay, At
    <3>3. QED
      BY <3>1, <3>2
  <2>2. QED
    BY <2>1 DEF NoneLost, At
<1>10. ThreadSound(L, r, t)'
  <2>1. ~(Lists(L, frame[t].fd)')
    BY <1>1 DEF ListSound, ThreadSound, AddSound, Lists, SameCall, At
  <2>2. node'[x].Next = Null
    BY <1>1, <1>2 DEF ListSound, EntriesSound, Blank
  <2>3. AddSound(L, t)'
    BY <1>1, <1>2, <1>3, <1>4, <2>1, <2>2 DEF AddSound, At, AddPcs
  <2>4. DelSound(L, r, t)' /\ LookSound(L, r, t)'
    BY <1>1 DEF DelSound, LookSound, At, LookupPcs
  <2>5. QED
    BY <2>3, <2>4 DEF ThreadSound
<1>11. \A y \in L : r[y] = r[y] /\ (node[y].fd \in Fds => node'[y].fd = node[y].fd)
  BY <1>1
<1>12. QED
  BY <1>1, <1>5, <1>7, <1>8, <1>9, <1>10, <1>11, AdderStep

(* The stores that fill an entry, before or after it is linked             *)
LEMMA FillList ==
  ASSUME InTurn, NEW L \in SUBSET Nodes, NEW r \in [Nodes -> Nat], ListSound(L, r),
         NEW t \in Threads, Fill(t)
  PROVE  ListSound(L, r)'
<1>1. PICK x, n, o : x = frame[t].device /\ n = frame[t].fd /\ o = frame[t].obj
  OBVIOUS
<1>2. /\ frame[t].pc \in AddPcs /\ x # Null /\ memory[x] = "raw"
      /\ memory' = [memory EXCEPT ![x] = "filled"]
      /\ node' = [node EXCEPT ![x] = [fd |-> n, ifName |-> NameOf[o], Next |-> Null]]
      /\ UNCHANGED <<kernel, client, list, frame>>
  BY <1>1 DEF Fill
<1>3. x \in Nodes /\ n \in Fds /\ o \in Objects
  BY <1>1, <1>2 DEF InTurn, OwnedSoFar, TypedSoFar, TypeOK, Frame, FrameSound, At, AddPcs
<1>4. o \notin Taps
  BY <1>1, <1>2 DEF InTurn, Shapes, FrameShape, At, AddPcs
<1>5. Has(o, n)
  BY <1>1, <1>2 DEF InTurn, OwnedSoFar, FramesOwn, FrameOwns
<1>6. /\ node'[x].fd = n /\ node'[x].ifName = NameOf[o] /\ node'[x].Next = Null
      /\ memory'[x] = "filled"
      /\ \A y \in Nodes \ {x} : node'[y] = node[y] /\ memory'[y] = memory[y]
  BY <1>2, <1>3 DEF InTurn, OwnedSoFar, TypedSoFar, TypeOK
<1>7. node[x].Next = Null /\ node[x].fd \notin Fds
  BY <1>2, <1>3 DEF ListSound, EntriesSound, Blank, NoHandle
<1>8. Writes(t) /\ OthersStay(t)
  BY <1>1, <1>2, <1>4 DEF Writes, OpenPcs, OthersStay
<1>9. \A y \in L : node'[y].Next = node[y].Next
  BY <1>6, <1>7
<1>10. Chain(L, r)'
  BY <1>2, <1>9 DEF ListSound, Chain
<1>11. AddSound(L, t)
  BY DEF ListSound, ThreadSound
<1>12. \A y \in L : y # x => node[y].fd # n
  <2>1. CASE At(t, "assign")
    BY <1>1, <1>2, <1>11, <2>1 DEF AddSound
  <2>2. CASE ~At(t, "assign")
    BY <1>1, <1>2, <1>11, <2>2 DEF AddSound, At, AddPcs, Lists
  <2>3. QED
    BY <2>1, <2>2
<1>13. EntriesSound(L)'
  <2>1. Listable(node[x])'
    <3>1. Has(o, n)'
      BY <1>2, <1>5, SameKernel
    <3>2. Has(o, node[x].fd)'
      BY <1>6, <3>1 DEF Has, IsOpenFd, Iface
    <3>3. QED
      BY <1>3, <1>4, <1>6, <3>2 DEF Listable
  <2>2. ASSUME NEW y \in L \ {x}
        PROVE  \/ memory'[y] = "filled" /\ Listable(node[y])'
               \/ memory'[y] = "raw" /\ Adds(y)'
    <3>1. CASE memory[y] = "filled" /\ Listable(node[y])
      BY <1>2, <1>6, <3>1, ListableStays
    <3>2. CASE memory[y] = "raw" /\ Adds(y)
      BY <1>2, <1>6, <3>2 DEF Adds, At
    <3>3. QED
      BY <3>1, <3>2 DEF ListSound, EntriesSound
  <2>3. \A y, z \in L : node'[y].fd = node'[z].fd /\ node'[y].fd \in Fds => y = z
    BY <1>6, <1>12 DEF ListSound, EntriesSound
  <2>4. \A y \in Nodes : memory'[y] # "filled" => node'[y] = Blank
    BY <1>6 DEF ListSound, EntriesSound
  <2>5. QED
    BY <1>6, <2>1, <2>2, <2>3, <2>4 DEF EntriesSound
<1>14. NoneLost(L)'
  <2>1. \A y \in Nodes : memory'[y] # "free" => memory[y] # "free"
    BY <1>2, <1>6
  <2>2. QED
    BY <1>2, <2>1 DEF ListSound, NoneLost, At
<1>15. ThreadSound(L, r, t)'
  <2>1. frame'[t] = frame[t]
    BY <1>2
  <2>2. frame[t].pc \in {"add", "addWalk"} => x \notin L /\ ~Lists(L, n)
    BY <1>1, <1>11 DEF AddSound
  <2>3. \A y \in L : y # x => node'[y].fd # n
    BY <1>6, <1>12
  <2>4. AddSound(L, t)'
    BY <1>1, <1>2, <1>6, <1>11, <2>1, <2>2, <2>3 DEF AddSound, Lists, At, AddPcs
  <2>5. DelSound(L, r, t)' /\ LookSound(L, r, t)'
    BY <1>2, <2>1 DEF DelSound, LookSound, At, LookupPcs, AddPcs
  <2>6. QED
    BY <2>4, <2>5 DEF ThreadSound
<1>16. \A y \in L : r[y] = r[y] /\ (node[y].fd \in Fds => node'[y].fd = node[y].fd)
  BY <1>6, <1>7
<1>17. UNCHANGED client
  BY <1>2
<1>18. QED
  BY <1>8, <1>10, <1>13, <1>14, <1>15, <1>16, <1>17, AdderStep

(* The last pointer of a chain is set to a node that is not in it.         *)
LEMMA Appended ==
  ASSUME NEW L \in SUBSET Nodes, NEW r \in [Nodes -> Nat], Chain(L, r),
         NEW x \in Nodes \ L, node'[x].Next = Null,
         NEW q \in [Nodes -> Nat], \A y \in L : q[y] = r[y] /\ r[y] < q[x],
         \/ L = {} /\ list' = x
         \/ /\ list' = list
            /\ \E z \in L :
                 /\ node[z].Next = Null /\ node'[z].Next = x
                 /\ \A y \in L \ {z} : node'[y].Next = node[y].Next
  PROVE  Chain(L \cup {x}, q)'
<1>1. \A y \in L \cup {x} : q[y] \in Nat /\ y # Null
  OBVIOUS
<1>2. CASE L = {} /\ list' = x
  BY <1>1, <1>2 DEF Chain
<1>3. CASE /\ list' = list
           /\ \E z \in L :
                /\ node[z].Next = Null /\ node'[z].Next = x
                /\ \A y \in L \ {z} : node'[y].Next = node[y].Next
  <2>1. PICK z \in L :
          /\ node[z].Next = Null /\ node'[z].Next = x
          /\ \A y \in L \ {z} : node'[y].Next = node[y].Next
    BY <1>3
  <2>2. list' \in L /\ \A y \in L \cup {x} : q[list'] <= q[y]
    BY <1>1, <1>3 DEF Chain
  <2>3. \A v, y \in L \cup {x} : q[v] = q[y] => v = y
    BY <1>1 DEF Chain
  <2>4. ASSUME NEW y \in L \cup {x}, node'[y].Next = Null
        PROVE  \A v \in L \cup {x} : q[v] <= q[y]
    <3>1. y = x
      BY <1>1, <2>1, <2>4 DEF Chain
    <3>2. QED
      BY <1>1, <3>1
  <2>5. ASSUME NEW y \in L \cup {x}, node'[y].Next # Null
        PROVE  /\ node'[y].Next \in L \cup {x} /\ q[y] < q[node'[y].Next]
               /\ \A v \in L \cup {x} : q[v] <= q[y] \/ q[node'[y].Next] <= q[v]
    <3>1. y \in L
      BY <2>5
    <3>2. CASE y = z
      BY <1>1, <2>1, <3>2 DEF Chain
    <3>3. CASE y # z
      BY <1>1, <2>1, <2>5, <3>1, <3>3 DEF Chain
    <3>4. QED
      BY <3>2, <3>3
  <2>6. ASSUME NEW y \in L \cup {x}
        PROVE  y = list' \/ \E v \in L \cup {x} : node'[v].Next = y
    <3>1. CASE y = x
      BY <2>1, <3>1
    <3>2. CASE y # x /\ y # list
      <4>1. PICK v \in L : node[v].Next = y
        BY <2>6, <3>2 DEF Chain
      <4>2. v # z
        BY <1>1, <2>1, <4>1
      <4>3. QED
        BY <2>1, <4>1, <4>2
    <3>3. QED
      BY <1>3, <3>1, <3>2
  <2>7. QED
    BY <1>1, <2>2, <2>3, <2>4, <2>5, <2>6 DEF Chain
<1>4. QED
  BY <1>2, <1>3

(* What a thread in add() knows of its entry                               *)
LEMMA Adding ==
  ASSUME InTurn, NEW L \in SUBSET Nodes, NEW r \in [Nodes -> Nat], ListSound(L, r),
         NEW t \in Threads, frame[t].pc \in {"add", "addWalk"}
  PROVE  /\ frame[t].device \in Nodes \ L /\ node[frame[t].device].Next = Null
         /\ frame[t].obj \in Objects \ Taps /\ frame[t].fd \in Fds
         /\ Has(frame[t].obj, frame[t].fd) /\ ~Lists(L, frame[t].fd)
         /\ memory[frame[t].device] # "free"
         /\ memory[frame[t].device] = "filled" =>
              /\ node[frame[t].device].fd = frame[t].fd
              /\ node[frame[t].device].ifName = NameOf[frame[t].obj]
         /\ Writes(t) /\ At(t, "addWalk") => frame[t].item \in L
<1>1. frame[t].obj \in Objects /\ frame[t].fd \in Fds /\ Has(frame[t].obj, frame[t].fd)
  BY DEF InTurn, OwnedSoFar, TypedSoFar, FrameSound, FramesOwn, FrameOwns, At, AddPcs
<1>2. frame[t].obj \notin Taps /\ frame[t].device # Null
  BY DEF InTurn, Shapes, FrameShape
<1>3. frame[t].device \in Nodes
  BY <1>2 DEF InTurn, OwnedSoFar, TypedSoFar, TypeOK, Frame
<1>4. AddSound(L, t)
  BY DEF ListSound, ThreadSound
<1>5. QED
  BY <1>1, <1>2, <1>3, <1>4 DEF AddSound, At, AddPcs

(* The entry is linked to the end of the list, filled or not.              *)
LEMMA AddEnds ==
  ASSUME InTurn, NEW L \in SUBSET Nodes, NEW r \in [Nodes -> Nat], ListSound(L, r),
         NEW t \in Threads,
         \/ Add(t) /\ list = Null
         \/ AddWalk(t) /\ node[frame[t].item].Next = Null
  PROVE  ListInv'
<1>1. /\ frame[t].pc \in {"add", "addWalk"} /\ UNCHANGED <<kernel, client, memory>>
      /\ Visit(t, Null, "addWalk", "assign")
  BY DEF Add, AddWalk, At
<1>2. PICK x, n, o : x = frame[t].device /\ n = frame[t].fd /\ o = frame[t].obj
  OBVIOUS
<1>3. /\ x \in Nodes \ L /\ node[x].Next = Null
      /\ o \in Objects \ Taps /\ n \in Fds /\ Has(o, n) /\ ~Lists(L, n)
      /\ memory[x] # "free"
      /\ memory[x] = "filled" => node[x].fd = n /\ node[x].ifName = NameOf[o]
  BY <1>1, <1>2, Adding
<1>4. Writes(t) /\ frame[t].pc # "assign"
  BY <1>1, <1>2, <1>3 DEF Writes, OpenPcs, AddPcs
<1>5. /\ OthersStay(t) /\ SameCall(t) /\ frame'[t].pc = "assign"
      /\ frame'[t].device = frame[t].device
  <2>1. "addWalk" \in Pcs /\ "assign" \in Pcs
    BY DEF Pcs, OpenPcs, AddPcs
  <2>2. QED
    BY <1>1, <2>1, VisitDoes, VisitRest DEF InTurn, OwnedSoFar, TypedSoFar
<1>6. PICK q \in [Nodes -> Nat] :
        /\ \A y \in L : q[y] = r[y] /\ r[y] < q[x]
        /\ \/ L = {} /\ list' = x
           \/ /\ list' = list
              /\ \E z \in L :
                   /\ node[z].Next = Null /\ node'[z].Next = x
                   /\ \A y \in L \ {z} : node'[y].Next = node[y].Next
        /\ \A y \in Nodes : node'[y].fd = node[y].fd /\ node'[y].ifName = node[y].ifName
        /\ \A y \in Nodes \ L : node'[y] = node[y]
  <2>1. CASE Add(t) /\ list = Null
    <3>1. L = {} /\ list' = x /\ node' = node
      BY <1>2, <2>1 DEF Add, ListSound, Chain
    <3>2. QED
      BY <3>1
  <2>2. CASE AddWalk(t) /\ node[frame[t].item].Next = Null
    <3>1. PICK z \in L : z = frame[t].item
      BY <1>4, <2>2, Adding DEF AddWalk, At
    <3>2. node[z] \in Struct /\ node \in [Nodes -> Struct]
      BY DEF InTurn, OwnedSoFar, TypedSoFar, TypeOK
    <3>3. node' = [node EXCEPT ![z].Next = x] /\ list' = list /\ node[z].Next = Null
      BY <1>2, <2>2, <3>1 DEF AddWalk
    <3>4. /\ node'[z].Next = x /\ node'[z].fd = node[z].fd
          /\ node'[z].ifName = node[z].ifName
          /\ \A y \in Nodes \ {z} : node'[y] = node[y]
      BY <3>2, <3>3 DEF Struct
    <3> DEFINE q == [r EXCEPT ![x] = r[z] + 1]
    <3>5. \A y \in L : r[y] \in Nat /\ r[y] <= r[z]
      BY <3>3 DEF ListSound, Chain
    <3>6. q \in [Nodes -> Nat] /\ \A y \in L : q[y] = r[y] /\ r[y] < q[x]
      BY <1>3, <3>5
    <3> HIDE DEF q
    <3>7. QED
      BY <3>3, <3>4, <3>6
  <2>3. QED
    BY <2>1, <2>2
<1> DEFINE M == L \cup {x}
<1>7. M \in SUBSET Nodes /\ L \subseteq M /\ x \in M
  BY <1>3
<1>8. Chain(M, q)'
  <2>1. Chain(L, r) /\ node'[x].Next = Null
    BY <1>3, <1>6 DEF ListSound
  <2>2. QED
    BY <1>3, <1>6, <2>1, Appended
<1>9. \A y \in L : memory[y] = "filled" /\ Listable(node[y])
  BY <1>4, WriterSeesFilled
<1>10. memory' = memory
  BY <1>1
<1>11. memory[x] = "raw" => node[x] = Blank
  BY <1>3 DEF ListSound, EntriesSound
<1>12. EntriesSound(M)'
  <2>1. \A y \in L : memory'[y] = "filled" /\ Listable(node[y])'
    BY <1>1, <1>6, <1>9, <1>10, ListableStays
  <2>2. \/ memory'[x] = "filled" /\ Listable(node[x])'
        \/ memory'[x] = "raw" /\ Adds(x)'
    <3>1. CASE memory[x] = "filled"
      <4>1. Listable(node[x])
        BY <1>3, <3>1 DEF Listable
      <4>2. QED
        BY <1>1, <1>3, <1>6, <1>10, <3>1, <4>1, ListableStays
    <3>2. CASE memory[x] = "raw"
      BY <1>2, <1>5, <1>10, <3>2 DEF Adds, At
    <3>3. QED
      BY <1>3, <3>1, <3>2 DEF InTurn, OwnedSoFar, TypedSoFar, TypeOK
  <2>3. ASSUME NEW y \in M, NEW z \in M, node'[y].fd = node'[z].fd, node'[y].fd \in Fds
        PROVE  y = z
    <3>1. node[y].fd = node[z].fd /\ node[y].fd \in Fds
      BY <1>6, <1>7, <2>3
    <3>2. \A v \in L : node[v].fd # n
      BY <1>3 DEF Lists
    <3>3. node[x].fd = n \/ node[x].fd \notin Fds
      BY <1>3, <1>11, <2>2, <1>10 DEF Blank, NoHandle
    <3>4. CASE y \in L /\ z \in L
      BY <3>1, <3>4 DEF ListSound, EntriesSound
    <3>5. QED
      BY <3>1, <3>2, <3>3, <3>4
  <2>4. \A y \in Nodes : memory'[y] # "filled" => node'[y] = Blank
    BY <1>6, <1>9, <1>10 DEF ListSound, EntriesSound
  <2>5. QED
    BY <2>1, <2>2, <2>3, <2>4 DEF EntriesSound
<1>13. NoneLost(M)'
  <2>1. ASSUME NEW y \in Nodes, memory[y] # "free", y \notin M
        PROVE  \/ \E u \in Threads : frame'[u].pc \in {"add", "addWalk"} /\ frame'[u].device = y
               \/ \E u \in Threads : frame'[u].pc = "free" /\ frame'[u].item = y
    <3>1. \/ \E u \in Threads : frame[u].pc \in {"add", "addWalk"} /\ frame[u].device = y
          \/ \E u \in Threads : frame[u].pc = "free" /\ frame[u].item = y
      BY <2>1 DEF ListSound, NoneLost, At
    <3>2. QED
      BY <1>1, <1>2, <2>1, <3>1 , <1>5 DEF OthersStay
  <2>2. QED
    BY <1>10, <2>1 DEF NoneLost, At
<1>14. ThreadSound(M, q, t)'
  <2>1. \A y \in M : y # x => node'[y].fd # n
    BY <1>3, <1>6 DEF Lists
  <2>2. memory[x] = "filled" => node'[x].fd = n /\ node'[x].ifName = NameOf[o]
    BY <1>3, <1>6
  <2>3. frame'[t].device = x /\ frame'[t].fd = n /\ frame'[t].obj = o
    BY <1>2, <1>5 DEF SameCall
  <2>4. AddSound(M, t)'
    BY <1>3, <1>5, <1>7, <1>10, <2>1, <2>2, <2>3 DEF AddSound, At
  <2>5. DelSound(M, q, t)' /\ LookSound(M, q, t)'
    BY <1>5 DEF DelSound, LookSound, At, LookupPcs
  <2>6. QED
    BY <2>4, <2>5 DEF ThreadSound
<1>15. ListSound(M, q)'
  <2>1. \A y \in L : q[y] = r[y] /\ (node[y].fd \in Fds => node'[y].fd = node[y].fd)
    BY <1>6
  <2>2. UNCHANGED client
    BY <1>1
  <2> HIDE DEF M
  <2>3. QED
    BY <1>4, <1>5, <1>7, <1>8, <1>12, <1>13, <1>14, <2>1, <2>2, AdderStep
<1>16. QED
  BY <1>7, <1>15 DEF ListInv

-----------------------------------------------------------------------------
(* close()                                                                 *)

(* A node is taken out of the chain.                                       *)
LEMMA Unlinked ==
  ASSUME NEW L \in SUBSET Nodes, NEW r \in [Nodes -> Nat], Chain(L, r),
         NEW x \in L, NEW z, z = node[x].Next,
         \/ list = x /\ list' = z /\ \A y \in L : node'[y].Next = node[y].Next
         \/ /\ list' = list
            /\ \E p \in L :
                 /\ node[p].Next = x /\ node'[p].Next = z
                 /\ \A y \in L \ {p} : node'[y].Next = node[y].Next
  PROVE  Chain(L \ {x}, r)'
<1> DEFINE M == L \ {x}
<1>1. \A y \in L : r[y] \in Nat /\ y # Null
  OBVIOUS
<1>2. z # Null => z \in M /\ r[x] < r[z] /\ \A y \in M : r[y] < r[x] \/ r[z] <= r[y]
  BY <1>1 DEF Chain
<1>3. ASSUME z = Null, NEW y \in M PROVE r[y] < r[x]
  <2>1. r[y] <= r[x] /\ r[y] # r[x]
    BY <1>3 DEF Chain
  <2>2. QED
    BY <1>1, <2>1
<1>4. \A v, y \in M : r[v] = r[y] => v = y
  BY DEF Chain
<1>5. CASE list = x /\ list' = z /\ \A y \in L : node'[y].Next = node[y].Next
  <2>1. \A y \in M : ~(r[y] < r[x])
    BY <1>1, <1>5 DEF Chain
  <2>2. (z = Null <=> M = {}) /\ (z # Null => \A y \in M : r[z] <= r[y])
    BY <1>2, <1>3, <2>1
  <2>3. ASSUME NEW y \in M
        PROVE  /\ node'[y].Next = Null => \A v \in M : r[v] <= r[y]
               /\ node'[y].Next # Null =>
                    /\ node'[y].Next \in M /\ r[y] < r[node'[y].Next]
                    /\ \A v \in M : r[v] <= r[y] \/ r[node'[y].Next] <= r[v]
    <3>1. node'[y].Next = node[y].Next
      BY <1>5
    <3>2. node[y].Next # x
      BY <1>1, <2>1 DEF Chain
    <3>3. QED
      BY <3>1, <3>2 DEF Chain
  <2>4. ASSUME NEW y \in M, y # z PROVE \E v \in M : node'[v].Next = y
    <3>1. PICK v \in L : node[v].Next = y
      BY <1>5, <2>4 DEF Chain
    <3>2. QED
      BY <1>5, <2>4, <3>1
  <2>5. QED
    BY <1>2, <1>4, <1>5, <2>2, <2>3, <2>4 DEF Chain
<1>6. CASE /\ list' = list
           /\ \E p \in L :
                /\ node[p].Next = x /\ node'[p].Next = z
                /\ \A y \in L \ {p} : node'[y].Next = node[y].Next
  <2>1. PICK p \in L :
          /\ node[p].Next = x /\ node'[p].Next = z
          /\ \A y \in L \ {p} : node'[y].Next = node[y].Next
    BY <1>6
  <2>2. /\ p \in M /\ r[p] < r[x]
        /\ \A y \in M : r[y] <= r[p] \/ r[x] < r[y]
    BY <1>1, <2>1 DEF Chain
  <2>3. list \in M /\ \A y \in M : r[list] <= r[y]
    BY <1>1, <2>2 DEF Chain
  <2>4. ASSUME NEW y \in M, y # p PROVE node[y].Next # x
    <3>1. SUFFICES ASSUME node[y].Next = x PROVE FALSE
      OBVIOUS
    <3>2. r[y] < r[x] /\ (r[p] <= r[y] \/ r[x] <= r[p])
      BY <1>1, <3>1 DEF Chain
    <3>3. r[y] = r[p]
      BY <1>1, <2>2, <3>2
    <3>4. QED
      BY <1>4, <2>2, <2>4, <3>3
  <2>5. ASSUME NEW y \in M
        PROVE  /\ node'[y].Next = Null => \A v \in M : r[v] <= r[y]
               /\ node'[y].Next # Null =>
                    /\ node'[y].Next \in M /\ r[y] < r[node'[y].Next]
                    /\ \A v \in M : r[v] <= r[y] \/ r[node'[y].Next] <= r[v]
    <3>1. CASE y = p
      BY <1>1, <1>2, <1>3, <2>1, <2>2, <3>1
    <3>2. CASE y # p
      <4>1. node'[y].Next = node[y].Next /\ node[y].Next # x
        BY <2>1, <2>4, <3>2
      <4>2. QED
        BY <4>1 DEF Chain
    <3>3. QED
      BY <3>1, <3>2
  <2>6. ASSUME NEW y \in M, y # list PROVE \E v \in M : node'[v].Next = y
    <3>1. PICK v \in L : node[v].Next = y
      BY <2>6 DEF Chain
    <3>2. CASE v = x
      BY <2>1, <2>2, <3>1, <3>2
    <3>3. CASE v # x
      BY <2>1, <2>6, <3>1, <3>3
    <3>4. QED
      BY <3>2, <3>3
  <2>7. QED
    BY <1>1, <1>4, <1>6, <2>3, <2>5, <2>6 DEF Chain
<1>7. QED
  BY <1>5, <1>6

(* While a thread is in close(), no other looks at the list.               *)
LEMMA CloserAlone ==
  ASSUME InTurn, NEW t \in Threads, frame[t].pc \in ClosePcs, OthersStay(t), NEW L, NEW r
  PROVE  Writes(t) /\ \A u \in Threads \ {t} : ThreadSound(L, r, u)'
<1>1. Writes(t)
  BY DEF Writes
<1>2. ASSUME NEW u \in Threads \ {t} PROVE ThreadSound(L, r, u)'
  <2>1. frame'[u] = frame[u] /\ ~Writes(u) /\ ~Looks(u)
    BY <1>1 DEF OthersStay, InTurn, Turns
  <2>2. AddSound(L, u)' /\ DelSound(L, r, u)'
    BY <2>1, NonWriterStays
  <2>3. LookSound(L, r, u)'
    BY <2>1 DEF LookSound, Looks, LookupPcs, At
  <2>4. QED
    BY <2>2, <2>3 DEF ThreadSound
<1>3. QED
  BY <1>1, <1>2

(* The pointer past the entry is stored where the one to it was.           *)
LEMMA UnlinkList ==
  ASSUME InTurn, NEW L \in SUBSET Nodes, NEW r \in [Nodes -> Nat], ListSound(L, r),
         NEW t \in Threads, Unlink(t)
  PROVE  ListInv'
<1>1. At(t, "unlink") /\ Goto(t, "free") /\ UNCHANGED <<kernel, client, memory>>
  BY DEF Unlink
<1>2. PICK x, n : x = frame[t].item /\ n = frame[t].fd
  OBVIOUS
<1>3. /\ x \in L /\ node[x].fd = n
      /\ \/ frame[t].prev = Null /\ list = x
         \/ frame[t].prev \in L /\ node[frame[t].prev].Next = x
  BY <1>1, <1>2 DEF ListSound, ThreadSound, DelSound, At
<1>4. /\ OthersStay(t) /\ SameCall(t) /\ frame'[t].pc = "free"
      /\ frame'[t].item = x /\ frame'[t].fd = n
  BY <1>1, <1>2, GotoDoes
     DEF InTurn, OwnedSoFar, TypedSoFar, SameCall, Pcs, ClosePcs
<1>5. frame[t].pc \in ClosePcs /\ frame[t].pc \in NumberedPcs /\ frame[t].pc # "assign"
  BY <1>1 DEF At, ClosePcs, NumberedPcs, LifecyclePcs
<1>6. Writes(t)
  BY <1>5 DEF Writes
<1>7. \A y \in L : memory[y] = "filled" /\ Listable(node[y])
  BY <1>5, <1>6, WriterSeesFilled
<1>8. n \in Fds /\ \A o \in held : handle[o] # n
  BY <1>2, <1>5, NumberOwned, NumbersApart DEF InTurn
<1>9. PICK z : z = node[x].Next
  OBVIOUS
<1>10. /\ \/ list = x /\ list' = z /\ \A y \in L : node'[y].Next = node[y].Next
          \/ /\ list' = list
             /\ \E p \in L :
                  /\ node[p].Next = x /\ node'[p].Next = z
                  /\ \A y \in L \ {p} : node'[y].Next = node[y].Next
       /\ \A y \in Nodes : node'[y].fd = node[y].fd /\ node'[y].ifName = node[y].ifName
       /\ \A y \in Nodes \ L : node'[y] = node[y]
  <2>1. CASE frame[t].prev = Null /\ list' = z /\ UNCHANGED node
    <3>1. list = x
      BY <1>3, <2>1
    <3>2. QED
      BY <2>1, <3>1
  <2>2. CASE /\ frame[t].prev # Null /\ UNCHANGED list
             /\ node' = [node EXCEPT ![frame[t].prev].Next = z]
    <3>1. PICK p \in L : p = frame[t].prev /\ node[p].Next = x
      BY <1>3, <2>2
    <3>2. node[p] \in Struct /\ node \in [Nodes -> Struct]
      BY DEF InTurn, OwnedSoFar, TypedSoFar, TypeOK
    <3>3. /\ node'[p].Next = z /\ node'[p].fd = node[p].fd
          /\ node'[p].ifName = node[p].ifName
          /\ \A y \in Nodes \ {p} : node'[y] = node[y]
      BY <2>2, <3>1, <3>2 DEF Struct
    <3>4. QED
      BY <2>2, <3>1, <3>3
  <2>3. QED
    BY <1>2, <1>9, <2>1, <2>2 DEF Unlink
<1>11. Chain(L \ {x}, r)'
  BY <1>3, <1>9, <1>10, Unlinked DEF ListSound
<1> DEFINE M == L \ {x}
<1>12. memory' = memory /\ handle' = handle /\ held' = held
  BY <1>1 DEF client
<1>13. EntriesSound(M)'
  <2>1. \A y \in M : memory'[y] = "filled" /\ Listable(node[y])'
    BY <1>1, <1>7, <1>10, <1>12, ListableStays
  <2>2. \A v, y \in M : node'[v].fd = node'[y].fd /\ node'[v].fd \in Fds => v = y
    BY <1>10 DEF ListSound, EntriesSound
  <2>3. \A y \in Nodes : memory'[y] # "filled" => node'[y] = Blank
    BY <1>7, <1>10, <1>12 DEF ListSound, EntriesSound
  <2>4. QED
    BY <2>1, <2>2, <2>3 DEF EntriesSound
<1>14. HeldListed(M)'
  <2>1. ASSUME NEW o \in held \ Taps PROVE \E y \in M : node'[y].fd = handle[o]
    <3>1. PICK y \in L : node[y].fd = handle[o]
      BY DEF ListSound, HeldListed, Lists
    <3>2. QED
      BY <1>3, <1>8, <1>10, <3>1
  <2>2. QED
    BY <1>12, <2>1 DEF HeldListed, Lists
<1>15. NoneLost(M)'
  <2>1. ASSUME NEW y \in Nodes, memory[y] # "free", y # x
        PROVE  \/ y \in M
               \/ \E u \in Threads : frame'[u].pc \in {"add", "addWalk"} /\ frame'[u].device = y
               \/ \E u \in Threads : frame'[u].pc = "free" /\ frame'[u].item = y
    <3>1. \/ y \in L
          \/ \E u \in Threads : frame[u].pc \in {"add", "addWalk"} /\ frame[u].device = y
          \/ \E u \in Threads : frame[u].pc = "free" /\ frame[u].item = y
      BY <2>1 DEF ListSound, NoneLost, At
    <3>2. QED
      BY <1>1, <1>4, <2>1, <3>1 DEF OthersStay, At
  <2>2. QED
    BY <1>4, <1>12, <2>1 DEF NoneLost, At
<1>16. ThreadSound(M, r, t)'
  <2>1. \A y \in M : node'[y].fd # n
    BY <1>3, <1>8, <1>10 DEF ListSound, EntriesSound
  <2>2. DelSound(M, r, t)'
    BY <1>3, <1>4, <1>7, <1>12, <2>1 DEF DelSound, At, Lists
  <2>3. AddSound(M, t)' /\ LookSound(M, r, t)'
    BY <1>4 DEF AddSound, LookSound, At, AddPcs, LookupPcs
  <2>4. QED
    BY <2>2, <2>3 DEF ThreadSound
<1>17. \A u \in Threads \ {t} : ThreadSound(M, r, u)'
  BY <1>4, <1>5, CloserAlone
<1>18. ListSound(M, r)'
  BY <1>11, <1>13, <1>14, <1>15, <1>16, <1>17 DEF ListSound
<1>19. QED
  BY <1>18 DEF ListInv

(* free() of the entry: nothing leads to it any more.                      *)
LEMMA FreeList ==
  ASSUME InTurn, NEW L \in SUBSET Nodes, NEW r \in [Nodes -> Nat], ListSound(L, r),
         NEW t \in Threads, Free(t)
  PROVE  ListSound(L, r)'
<1>1. PICK x, n : x = frame[t].item /\ n = frame[t].fd
  OBVIOUS
<1>2. /\ At(t, "free") /\ Goto(t, "close") /\ UNCHANGED <<kernel, client, list>>
      /\ memory' = [memory EXCEPT ![x] = "free"]
      /\ node' = [node EXCEPT ![x] = Blank]
  BY <1>1 DEF Free
<1>3. x \notin L /\ ~Lists(L, n)
  BY <1>1, <1>2 DEF ListSound, ThreadSound, DelSound, At
<1>4. x \in Nodes
  BY <1>1, <1>2 DEF InTurn, OwnedSoFar, TypedSoFar, TypeOK, Frame, FrameSound, At
<1>5. /\ memory'[x] = "free" /\ node'[x] = Blank
      /\ \A y \in Nodes \ {x} : memory'[y] = memory[y] /\ node'[y] = node[y]
  BY <1>2, <1>4 DEF InTurn, OwnedSoFar, TypedSoFar, TypeOK
<1>6. OthersStay(t) /\ frame'[t].pc = "close" /\ frame'[t].fd = n
  BY <1>1, <1>2, GotoDoes
     DEF InTurn, OwnedSoFar, TypedSoFar, SameCall, Pcs, ClosePcs
<1>7. frame[t].pc \in ClosePcs /\ frame[t].pc # "assign"
  BY <1>2 DEF At, ClosePcs
<1>8. \A y \in L : memory[y] = "filled" /\ Listable(node[y])
  BY <1>7, WriterSeesFilled DEF Writes
<1>9. \A y \in L : y \in Nodes /\ node'[y] = node[y] /\ memory'[y] = memory[y]
  BY <1>3, <1>5
<1>10. Chain(L, r)'
  BY <1>2, <1>9 DEF ListSound, Chain
<1>11. EntriesSound(L)'
  <2>1. \A y \in L : memory'[y] = "filled" /\ Listable(node[y])'
    BY <1>2, <1>8, <1>9, ListableStays
  <2>2. \A v, y \in L : node'[v].fd = node'[y].fd /\ node'[v].fd \in Fds => v = y
    BY <1>9 DEF ListSound, EntriesSound
  <2>3. \A y \in Nodes : memory'[y] # "filled" => node'[y] = Blank
    BY <1>5 DEF ListSound, EntriesSound
  <2>4. QED
    BY <2>1, <2>2, <2>3 DEF EntriesSound
<1>12. HeldListed(L)'
  <2>1. handle' = handle /\ held' = held
    BY <1>2 DEF client
  <2>2. QED
    BY <1>9, <2>1 DEF ListSound, HeldListed, Lists
<1>13. NoneLost(L)'
  <2>1. ASSUME NEW y \in Nodes, memory'[y] # "free"
        PROVE  \/ y \in L
               \/ \E u \in Threads : frame'[u].pc \in {"add", "addWalk"} /\ frame'[u].device = y
               \/ \E u \in Threads : frame'[u].pc = "free" /\ frame'[u].item = y
    <3>1. y # x /\ memory[y] # "free"
      BY <1>5, <2>1
    <3>2. \/ y \in L
          \/ \E u \in Threads : frame[u].pc \in {"add", "addWalk"} /\ frame[u].device = y
          \/ \E u \in Threads : frame[u].pc = "free" /\ frame[u].item = y
      BY <3>1 DEF ListSound, NoneLost, At
    <3>3. QED
      BY <1>1, <1>2, <1>6, <3>1, <3>2 DEF OthersStay, At
  <2>2. QED
    BY <2>1 DEF NoneLost, At
<1>14. ThreadSound(L, r, t)'
  <2>1. DelSound(L, r, t)'
    BY <1>3, <1>6, <1>9 DEF DelSound, At, Lists
  <2>2. AddSound(L, t)' /\ LookSound(L, r, t)'
    BY <1>6 DEF AddSound, LookSound, At, AddPcs, LookupPcs
  <2>3. QED
    BY <2>1, <2>2 DEF ThreadSound
<1>15. \A u \in Threads \ {t} : ThreadSound(L, r, u)'
  BY <1>6, <1>7, CloserAlone
<1>16. QED
  BY <1>10, <1>11, <1>12, <1>13, <1>14, <1>15 DEF ListSound

-----------------------------------------------------------------------------
(* The list is always sound                                                *)

LEMMA ListNext ==
  ASSUME InTurn, ListInv, [Next]_vars
  PROVE  ListInv'
<1> PICK L \in SUBSET Nodes, r \in [Nodes -> Nat] : ListSound(L, r)
  BY DEF ListInv
<1>1. ListSound(L, r)' => ListInv'
  BY DEF ListInv
<1>2. ASSUME NEW t \in Threads, NEW o \in Objects, Call(t, o) PROVE ListInv'
  BY <1>1, <1>2, CallList
<1>3. ASSUME NEW t \in Threads,
             \/ OpenFails(t) \/ CopyName(t) \/ Undo(t) \/ DoClose(t)
             \/ OpenSocket(t) \/ OpenTap(t) \/ Connect(t) \/ GetName(t)
             \/ BuildFails(t) \/ Assign(t)
      PROVE  ListInv'
  BY <1>1, <1>3, EndList, OpenList, BuildList, GetNameList, AssignList
<1>4. ASSUME NEW t \in Threads, ListStep(t) PROVE ListInv'
  <2>1. CASE Add(t) \/ AddWalk(t)
    BY <1>1, <2>1, AddGoesOn, AddEnds
  <2>2. CASE Fill(t) \/ Delete(t) \/ DelWalk(t) \/ Lookup(t) \/ LookWalk(t)
    BY <1>1, <2>2, FillList, DeleteList, DelWalkList, LookupList, LookWalkList
  <2>3. CASE Unlink(t) \/ Free(t)
    BY <1>1, <2>3, UnlinkList, FreeList
  <2>4. QED
    BY <1>4, <2>1, <2>2, <2>3 DEF ListStep
<1>5. CASE UNCHANGED vars
  <2>1. /\ UNCHANGED <<kernel, client, heap>> /\ frame' = frame
    BY <1>5 DEF vars, kernel, client, heap
  <2>2. Chain(L, r)' /\ NoneLost(L)' /\ HeldListed(L)'
    BY <2>1 DEF ListSound, Chain, NoneLost, HeldListed, Lists, At, heap, client
  <2>3. \A x \in L : Listable(node[x]) => Listable(node[x])'
    BY <2>1, ListableStays DEF heap
  <2>4. EntriesSound(L)'
    BY <2>1, <2>3 DEF ListSound, EntriesSound, Adds, At, heap
  <2>5. \A t \in Threads : ThreadSound(L, r, t)'
    BY <2>1, ThreadStays DEF ListSound, client
  <2>6. QED
    BY <1>1, <2>2, <2>4, <2>5 DEF ListSound
<1>6. QED
  BY NextCases, <1>2, <1>3, <1>4, <1>5

LEMMA ListAlways ==
  ASSUME Promised
  PROVE  Spec => [](InTurn /\ ListInv)
<1>1. Init => ListInv
  <2> SUFFICES ASSUME Init PROVE ListInv
    OBVIOUS
  <2> DEFINE r == [x \in Nodes |-> 0]
  <2>1. /\ list = Null /\ held = {} /\ \A t \in Threads : frame[t].pc = "idle"
        /\ \A x \in Nodes : memory[x] = "free" /\ node[x] = Blank
    BY DEF Init, Idle
  <2>2. Chain({}, r) /\ EntriesSound({}) /\ HeldListed({}) /\ NoneLost({})
    BY <2>1 DEF Chain, EntriesSound, HeldListed, NoneLost
  <2>3. \A t \in Threads : ThreadSound({}, r, t)
    BY <2>1 DEF ThreadSound, AddSound, DelSound, LookSound, At, AddPcs, LookupPcs
  <2>4. ListSound({}, r) /\ r \in [Nodes -> Nat]
    BY <2>2, <2>3 DEF ListSound
  <2>5. QED
    BY <2>4 DEF ListInv
<1>2. InTurn /\ ListInv /\ [Next]_vars => ListInv'
  BY ListNext
<1>3. Spec => []InTurn
  BY InTurnAlways
<1>4. QED
  BY <1>1, <1>2, <1>3, PTL DEF Spec

(* No thread reads a node that was freed, or whose contents it may not see *)
(* yet: not an open() that walks to the end of the list, not a close() and *)
(* not a configuration call, which may walk the list while an entry is     *)
(* being added, for any number of nodes and threads.                       *)
THEOREM WalksFollowFilledNodes ==
  ASSUME Promised
  PROVE  Spec => []FollowsFilledNodes
<1>1. ASSUME InTurn, ListInv PROVE FollowsFilledNodes
  <2> PICK L \in SUBSET Nodes, r \in [Nodes -> Nat] : ListSound(L, r)
    BY <1>1 DEF ListInv
  <2> SUFFICES ASSUME NEW t \in Threads
               PROVE  /\ At(t, "addWalk") \/ At(t, "delWalk") \/ At(t, "unlink")
                         \/ At(t, "free") \/ At(t, "lookWalk")
                         \/ (At(t, "copy") /\ frame[t].item # Null)
                           => memory[frame[t].item] = "filled"
                      /\ At(t, "unlink") /\ frame[t].prev # Null
                           => memory[frame[t].prev] = "filled"
    BY DEF FollowsFilledNodes
  <2>1. AddSound(L, t) /\ DelSound(L, r, t) /\ LookSound(L, r, t)
    BY DEF ListSound, ThreadSound
  <2>2. CASE At(t, "addWalk")
    <3>1. frame[t].item \in L /\ Writes(t)
      BY <1>1, <2>1, <2>2 DEF AddSound, InTurn, Shapes, FrameShape, Writes, At, OpenPcs, AddPcs
    <3>2. QED
      BY <1>1, <2>2, <3>1, WriterSeesFilled DEF At
  <2>3. CASE At(t, "delWalk") \/ At(t, "unlink")
    <3>1. /\ frame[t].item \in L /\ Writes(t) /\ frame[t].pc # "assign"
          /\ frame[t].prev # Null => frame[t].prev \in L
      BY <2>1, <2>3 DEF DelSound, Writes, At, ClosePcs
    <3>2. QED
      BY <1>1, <2>3, <3>1, WriterSeesFilled DEF At
  <2>4. CASE At(t, "free")
    BY <2>1, <2>4 DEF DelSound, At
  <2>5. CASE At(t, "lookWalk") \/ (At(t, "copy") /\ frame[t].item # Null)
    <3>1. Looks(t)
      BY <2>5 DEF Looks, At, LookupPcs
    <3>2. /\ frame[t].item \in L
          /\ frame[t].obj \in held \ Taps =>
               \E y \in L : r[frame[t].item] <= r[y] /\ node[y].fd = handle[frame[t].obj]
      BY <2>1, <2>5, <3>1 DEF LookSound, Looks, At
    <3>3. QED
      BY <1>1, <2>5, <3>1, <3>2, LookerSeesFilled DEF At
  <2>6. QED
    BY <2>2, <2>3, <2>4, <2>5 DEF At
<1>2. QED
  BY <1>1, ListAlways, PTL

(* A configuration call on a device that is held uses the name of that     *)
(* device's interface: the entry of its number is found and is its own,    *)
(* and a TAP has no entry, whatever TUN had its number before.             *)
THEOREM LookupsFindOwnName ==
  ASSUME Promised
  PROVE  Spec => []LookupFindsOwnName
<1>1. ASSUME InTurn, ListInv PROVE LookupFindsOwnName
  <2> PICK L \in SUBSET Nodes, r \in [Nodes -> Nat] : ListSound(L, r)
    BY <1>1 DEF ListInv
  <2> SUFFICES ASSUME NEW t \in Threads, NEW o, o = frame[t].obj,
                      At(t, "copy"), o \in held, handle[o] = frame[t].fd
               PROVE  /\ NameFound(t) = NameOf[o]
                      /\ NameFound(t) = Iface(handle[o])
                      /\ frame[t].item = Null <=> o \in Taps
    BY DEF LookupFindsOwnName
  <2>1. Has(o, handle[o]) /\ o \in Objects /\ Looks(t) /\ handle[o] \in Fds
    BY <1>1, HeldNumber DEF Looks, At, LookupPcs
  <2>2. \/ frame[t].item = Null /\ o \notin held \ Taps
        \/ frame[t].item \in L /\ node[frame[t].item].fd = handle[o]
    BY DEF ListSound, ThreadSound, LookSound
  <2>3. CASE frame[t].item = Null /\ o \notin held \ Taps
    BY <2>1, <2>3 DEF NameFound, Has
  <2>4. CASE frame[t].item \in L /\ node[frame[t].item].fd = handle[o]
    <3>1. PICK x \in L : x = frame[t].item /\ node[x].fd = handle[o]
      BY <2>4
    <3>2. r[x] \in Nat
      OBVIOUS
    <3>3. Listable(node[x])
      BY <1>1, <2>1, <3>1, <3>2, LookerSeesFilled
    <3>4. PICK p \in Objects \ Taps : Has(p, handle[o]) /\ node[x].ifName = NameOf[p]
      BY <3>1, <3>3 DEF Listable
    <3>5. p = o
      BY <2>1, <3>4, OneOwner
    <3>6. NameFound(t) = NameOf[o] /\ Iface(handle[o]) = NameOf[o]
      BY <2>1, <3>1, <3>4, <3>5 DEF NameFound, Has
    <3>7. QED
      BY <3>1, <3>4, <3>5, <3>6
  <2>5. QED
    BY <2>2, <2>3, <2>4
<1>2. QED
  BY <1>1, ListAlways, PTL

-----------------------------------------------------------------------------
(* Every open descriptor is known: it belongs to a device that is held, or *)
(* to an open() or close() in progress.                                    *)

Known(n) ==
  \/ \E o \in held : handle[o] = n
  \/ \E t \in Threads : frame[t].pc \in NumberedPcs /\ frame[t].fd = n

Accounted == \A n \in Fds : IsOpenFd(n) => Known(n)

LEMMA StaysKnown ==
  ASSUME NEW t \in Threads, OthersStay(t), NEW n, Known(n),
         \A o \in held : handle[o] = n =>
           \/ o \in held' /\ handle'[o] = n
           \/ frame'[t].pc \in NumberedPcs /\ frame'[t].fd = n,
         frame[t].pc \in NumberedPcs /\ frame[t].fd = n =>
           \/ \E o \in held' : handle'[o] = n
           \/ frame'[t].pc \in NumberedPcs /\ frame'[t].fd = n
  PROVE  Known(n)'
BY DEF Known, OthersStay

(* A step that gives no device up, and keeps or closes the number of its   *)
(* own call                                                                *)
LEMMA AccountedStays ==
  ASSUME Accounted, NEW t \in Threads, OthersStay(t), UNCHANGED client,
         NEW k, \A n \in Fds \ {k} : fdTable'[n] = fdTable[n],
         frame[t].pc \in NumberedPcs => frame[t].fd = k,
         \/ frame'[t].pc \in NumberedPcs /\ frame'[t].fd = k
         \/ k \in Fds => fdTable'[k] = NoFile
  PROVE  Accounted'
<1>1. handle' = handle /\ held' = held
  BY DEF client
<1>2. ASSUME NEW n \in Fds, fdTable'[n] # NoFile PROVE Known(n)'
  <2>1. CASE n = k
    BY <1>2, <2>1 DEF Known
  <2>2. CASE n # k
    <3>1. Known(n)
      BY <1>2, <2>2 DEF Accounted, IsOpenFd
    <3>2. QED
      BY <1>1, <2>2, <3>1, StaysKnown
  <2>3. QED
    BY <2>1, <2>2
<1>3. QED
  BY <1>2 DEF Accounted, IsOpenFd

LEMMA AccountedNext ==
  ASSUME OwnedSoFar, Accounted, [Next]_vars
  PROVE  Accounted'
<1>1. ASSUME NEW t \in Threads, NEW o \in Objects, Call(t, o) PROVE Accounted'
  <2>1. /\ At(t, "idle") /\ OthersStay(t) /\ fdTable' = fdTable /\ handle' = handle
        /\ \/ held' = held
           \/ frame'[t].pc = "delete" /\ frame'[t].fd = handle[o] /\ held' = held \ {o}
    BY <1>1, CallDoes DEF OwnedSoFar, kernel
  <2>2. frame[t].pc \notin NumberedPcs /\ "delete" \in NumberedPcs
    BY <2>1 DEF At, NumberedPcs, LifecyclePcs, OpenPcs, AddPcs, ClosePcs
  <2>3. ASSUME NEW n \in Fds, Known(n) PROVE Known(n)'
    BY <2>1, <2>2, <2>3, StaysKnown
  <2>4. QED
    BY <2>1, <2>3 DEF Accounted, IsOpenFd
<1>2. ASSUME NEW t \in Threads, OpenFails(t) \/ CopyName(t) \/ Undo(t) \/ DoClose(t)
      PROVE  Accounted'
  <2>1. /\ OthersStay(t) /\ UNCHANGED client
        /\ \/ (At(t, "open") \/ At(t, "copy")) /\ UNCHANGED kernel
           \/ (At(t, "undo") \/ At(t, "close")) /\ CloseFd(frame[t].fd)
    BY <1>2, EndDoes DEF OwnedSoFar
  <2>2. CASE (At(t, "open") \/ At(t, "copy")) /\ UNCHANGED kernel
    <3>1. frame[t].pc \notin NumberedPcs /\ fdTable' = fdTable /\ NoFd \notin Fds
      BY <2>2 DEF At, NumberedPcs, LifecyclePcs, OpenPcs, AddPcs, ClosePcs, kernel, NoFd
    <3>2. QED
      BY <2>1, <3>1, AccountedStays
  <2>3. CASE CloseFd(frame[t].fd)
    <3>1. PICK k : k = frame[t].fd
      OBVIOUS
    <3>2. /\ \A n \in Fds \ {k} : fdTable'[n] = fdTable[n]
          /\ k \in Fds => fdTable'[k] = NoFile
      BY <2>3, <3>1, CloseFdEffect DEF OwnedSoFar, KernelInv, Kept
    <3>3. QED
      BY <2>1, <3>1, <3>2, AccountedStays
  <2>4. QED
    BY <2>1, <2>2, <2>3
<1>3. ASSUME NEW t \in Threads, OpenSocket(t) \/ OpenTap(t) PROVE Accounted'
  <2>1. PICK n \in Fds, f \in Files :
          frame'[t].fd = n /\ (GotSocket(t, n, f) \/ GotTap(t, n, f))
    BY <1>3, OpenSocketDoes, OpenTapDoes DEF OwnedSoFar
  <2>2. \A k \in Fds \ {n} : Kept(k)
    BY <2>1, OpenFileEffect, OpenAttachedEffect
       DEF GotSocket, GotTap, OwnedSoFar, KernelInv
  <2>3. frame[t].pc \notin NumberedPcs /\ frame'[t].pc \in NumberedPcs
    BY <2>1 DEF GotSocket, GotTap, At, NumberedPcs, LifecyclePcs, OpenPcs, AddPcs, ClosePcs
  <2>4. OthersStay(t) /\ UNCHANGED client
    BY <1>3, OpenSocketDoes, OpenTapDoes DEF OwnedSoFar
  <2>5. QED
    BY <2>1, <2>2, <2>3, <2>4, AccountedStays DEF Kept
<1>4. ASSUME NEW t \in Threads, Connect(t) \/ GetName(t) \/ BuildFails(t) \/ ListStep(t)
      PROVE  Accounted'
  <2>1. OthersStay(t) /\ UNCHANGED client /\ SameCall(t) /\ fdTable' = fdTable
    <3>1. CASE Connect(t)
      BY <3>1, ConnectDoes DEF OwnedSoFar, AttachFile
    <3>2. CASE GetName(t)
      BY <3>2, GetNameDoes DEF OwnedSoFar, TypedSoFar, GetName, kernel
    <3>3. CASE BuildFails(t)
      BY <3>3, BuildFailsDoes DEF OwnedSoFar, kernel
    <3>4. CASE ListStep(t)
      BY <3>4, ListStepInner DEF OwnedSoFar, Inner, kernel
    <3>5. QED
      BY <1>4, <3>1, <3>2, <3>3, <3>4
  <2>2. frame[t].pc \in NumberedPcs => frame'[t].pc \in NumberedPcs
    <3>1. CASE Connect(t) \/ GetName(t) \/ BuildFails(t)
      <4>1. frame'[t].pc \in {"name", "add", "undo"}
        BY <3>1, ConnectDoes, GetNameDoes, BuildFailsDoes DEF OwnedSoFar, TypedSoFar
      <4>2. QED
        BY <4>1 DEF NumberedPcs, LifecyclePcs, OpenPcs, AddPcs
    <3>2. CASE ListStep(t)
      <4>1. \/ frame'[t].pc \in AddPcs \cup ClosePcs
            \/ frame[t].pc \in LookupPcs
        BY <3>2, ListStepInner DEF OwnedSoFar, Inner
      <4>2. QED
        BY <4>1 DEF NumberedPcs, LifecyclePcs, OpenPcs, AddPcs, ClosePcs, LookupPcs
    <3>3. QED
      BY <1>4, <3>1, <3>2
  <2>3. handle' = handle /\ held' = held
    BY <2>1 DEF client
  <2>4. ASSUME NEW n \in Fds, Known(n) PROVE Known(n)'
    BY <2>1, <2>2, <2>3, <2>4, StaysKnown DEF SameCall
  <2>5. QED
    BY <2>1, <2>4 DEF Accounted, IsOpenFd
<1>5. ASSUME NEW t \in Threads, Assign(t) PROVE Accounted'
  <2>1. PICK o, k : o = frame[t].obj /\ k = frame[t].fd
    OBVIOUS
  <2>2. /\ At(t, "assign") /\ OthersStay(t) /\ o \in Objects /\ handle'[o] = k
        /\ \A p \in Objects \ {o} : handle'[p] = handle[p]
        /\ held' = held \cup {o} /\ fdTable' = fdTable
    BY <1>5, <2>1, AssignDoes DEF OwnedSoFar, kernel
  <2>3. o \notin held /\ held \subseteq Objects
    BY <2>1, <2>2 DEF OwnedSoFar, FramesOwn, FrameOwns, At, AddPcs, TypedSoFar, TypeOK
  <2>4. ASSUME NEW n \in Fds, Known(n) PROVE Known(n)'
    BY <2>1, <2>2, <2>3, <2>4, StaysKnown
  <2>5. QED
    BY <2>2, <2>4 DEF Accounted, IsOpenFd
<1>6. CASE UNCHANGED vars
  BY <1>6 DEF vars, Accounted, Known, IsOpenFd
<1>7. QED
  BY NextCases, <1>1, <1>2, <1>3, <1>4, <1>5, <1>6

-----------------------------------------------------------------------------
(* The nodes after k links                                                 *)

LEMMA LeastNumber ==
  ASSUME NEW N \in SUBSET Nat, N # {}
  PROVE  \E m \in N : \A k \in N : m <= k
<1> DEFINE T == {0 .. k : k \in N}
           R == StrictSubsetOrdering(Nat)
<1>1. T \subseteq FiniteSubsetsOf(Nat) /\ T # {}
  <2>1. \A k \in N : IsFiniteSet(0 .. k) /\ 0 .. k \in SUBSET Nat
    BY FS_Interval
  <2>2. \A k \in N : 0 .. k \in FiniteSubsetsOf(Nat)
    BY <2>1 DEF FiniteSubsetsOf
  <2>3. ASSUME NEW V \in T PROVE V \in FiniteSubsetsOf(Nat)
    BY <2>2
  <2>4. PICK k \in N : TRUE
    OBVIOUS
  <2>5. 0 .. k \in T
    OBVIOUS
  <2>6. QED
    BY <2>3, <2>5
<1>2. IsWellFoundedOn(R, FiniteSubsetsOf(Nat))
  BY FS_StrictSubsetOrderingWellFounded
<1>3. \E U \in T : \A V \in T : ~(<<V, U>> \in R)
  <2> HIDE DEF R
  <2>1. QED
    BY <1>1, <1>2, WFMin
<1>4. PICK m \in N : \A V \in T : ~(<<V, 0 .. m>> \in R)
  BY <1>3
<1>5. ASSUME NEW k \in N, k < m PROVE FALSE
  <2>1. 0 .. k \in T /\ <<0 .. k, 0 .. m>> \in R
    BY <1>5 DEF StrictSubsetOrdering
  <2>2. QED
    BY <1>4, <2>1
<1>6. QED
  BY <1>5

(* How many entries are before one                                         *)
Before(L, r, x) == {y \in L : r[y] < r[x]}

Place(L, r) == [x \in L |-> Cardinality(Before(L, r, x))]

(* c numbers the entries along the links.                                  *)
Numbers(L, r, c) ==
  /\ \A x \in L : c[x] \in Nat /\ c[x] < Cardinality(Nodes)
  /\ \A x, y \in L : r[x] < r[y] => c[x] < c[y]
  /\ \A x, y \in L : c[x] = c[y] => x = y
  /\ list # Null => c[list] = 0
  /\ \A x \in L : node[x].Next # Null => c[node[x].Next] = c[x] + 1

LEMMA Places ==
  ASSUME NEW L \in SUBSET Nodes, NEW r \in [Nodes -> Nat], Chain(L, r),
         NEW c, c = Place(L, r)
  PROVE  Numbers(L, r, c)
<1> DEFINE B(x) == Before(L, r, x)
<1>1. \A x \in L : c[x] = Cardinality(B(x)) /\ B(x) \in SUBSET L /\ r[x] \in Nat
  BY DEF Place, Before
<1>2. ASSUME NEW S \in SUBSET Nodes
      PROVE  IsFiniteSet(S) /\ Cardinality(S) \in Nat
  BY FS_Subset, FS_CardinalityType
<1>3. ASSUME NEW S \in SUBSET Nodes, NEW T \in SUBSET S, S # T
      PROVE  Cardinality(T) < Cardinality(S)
  <2>1. T \in SUBSET Nodes
    OBVIOUS
  <2>2. Cardinality(T) \in Nat /\ Cardinality(S) \in Nat /\ IsFiniteSet(S)
    BY <1>2, <2>1
  <2>3. Cardinality(T) <= Cardinality(S) /\ Cardinality(S) # Cardinality(T)
    BY <1>3, <2>2, FS_Subset
  <2>4. QED
    BY <2>2, <2>3
<1>4. ASSUME NEW x \in L PROVE c[x] \in Nat /\ c[x] < Cardinality(Nodes)
  <2>1. B(x) \in SUBSET Nodes /\ x \notin B(x) /\ x \in Nodes
    BY <1>1 DEF Before
  <2>2. QED
    BY <1>1, <1>2, <1>3, <2>1
<1>5. ASSUME NEW x \in L, NEW y \in L, r[x] < r[y] PROVE c[x] < c[y]
  <2>1. B(x) \in SUBSET B(y) /\ x \in B(y) /\ x \notin B(x) /\ B(y) \in SUBSET Nodes
    BY <1>1, <1>5 DEF Before
  <2>2. QED
    BY <1>1, <1>3, <2>1
<1>6. ASSUME NEW x \in L, NEW y \in L, c[x] = c[y] PROVE x = y
  <2>1. ~(r[x] < r[y]) /\ ~(r[y] < r[x])
    BY <1>4, <1>5, <1>6
  <2>2. r[x] = r[y]
    BY <1>1, <2>1
  <2>3. QED
    BY <2>2 DEF Chain
<1>7. ASSUME list # Null PROVE c[list] = 0
  <2>1. list \in L /\ \A y \in L : r[list] <= r[y]
    BY <1>7 DEF Chain
  <2>2. B(list) = {}
    BY <1>1, <2>1 DEF Before
  <2>3. QED
    BY <1>1, <2>1, <2>2, FS_EmptySet
<1>8. ASSUME NEW x \in L, NEW z, z = node[x].Next, z # Null PROVE c[z] = c[x] + 1
  <2>1. z \in L /\ r[x] < r[z] /\ \A y \in L : r[y] <= r[x] \/ r[z] <= r[y]
    BY <1>8 DEF Chain
  <2>2. \A y \in L : r[y] < r[z] <=> y = x \/ r[y] < r[x]
    BY <1>1, <2>1 DEF Chain
  <2>3. B(z) = B(x) \cup {x} /\ x \notin B(x)
    BY <1>1, <2>2 DEF Before
  <2>4. IsFiniteSet(B(x))
    BY <1>1, <1>2
  <2>5. QED
    BY <1>1, <2>1, <2>3, <2>4, FS_AddElement
<1>9. QED
  BY <1>4, <1>5, <1>6, <1>7, <1>8 DEF Numbers

(* What Link says of k when it is written out                              *)
Linked(f, k) ==
  IF k = 0 THEN list
  ELSE IF f[k - 1] = Null THEN Null ELSE node[f[k - 1]].Next

(* A function that keeps to the equation of Link is Link.                  *)
LEMMA OneLink ==
  ASSUME NEW w, w = [k \in Nat |-> Linked(w, k)]
  PROVE  \A k \in Nat : Link[k] = w[k]
<1>1. Link = [k \in Nat |-> Linked(Link, k)]
  <2>1. w = [k \in Nat |-> IF k = 0 THEN list
                           ELSE IF w[k - 1] = Null THEN Null ELSE node[w[k - 1]].Next]
    BY DEF Linked
  <2>2. Link = [k \in Nat |-> IF k = 0 THEN list
                              ELSE IF Link[k - 1] = Null THEN Null
                                   ELSE node[Link[k - 1]].Next]
    BY <2>1 DEF Link
  <2>3. QED
    BY <2>2 DEF Linked
<1>2. SUFFICES ASSUME NEW j \in Nat, Link[j] # w[j] PROVE FALSE
  OBVIOUS
<1> DEFINE N == {k \in Nat : Link[k] # w[k]}
<1>3. N \in SUBSET Nat /\ N # {}
  BY <1>2
<1>4. PICK m \in N : \A k \in N : m <= k
  <2> HIDE DEF N
  <2>1. QED
    BY <1>3, LeastNumber
<1>5. m \in Nat /\ Link[m] = Linked(Link, m) /\ w[m] = Linked(w, m)
  BY <1>1, <1>4
<1>6. CASE m = 0
  BY <1>4, <1>5, <1>6 DEF Linked
<1>7. CASE m # 0
  <2>1. m - 1 \in Nat /\ ~(m <= m - 1)
    BY <1>5, <1>7
  <2>2. Link[m - 1] = w[m - 1]
    BY <1>4, <2>1
  <2>3. QED
    BY <1>4, <1>5, <2>2 DEF Linked
<1>8. QED
  BY <1>6, <1>7

(* The entry with k others before it is where k links lead; the list ends  *)
(* after the last one.                                                     *)
LEMMA Links ==
  ASSUME NEW L \in SUBSET Nodes, NEW r \in [Nodes -> Nat], Chain(L, r),
         NEW c, c = Place(L, r)
  PROVE  /\ \A k \in Nat : \/ Link[k] \in L /\ c[Link[k]] = k
                           \/ Link[k] = Null
         /\ \A x \in L : Link[c[x]] = x
<1>1. /\ \A x \in L : c[x] \in Nat /\ x # Null
      /\ \A x, y \in L : r[x] < r[y] => c[x] < c[y]
      /\ \A x, y \in L : c[x] = c[y] => x = y
      /\ list # Null => c[list] = 0
      /\ \A x \in L : node[x].Next # Null => c[node[x].Next] = c[x] + 1
  <2>1. Numbers(L, r, c)
    BY Places
  <2>2. QED
    BY <2>1 DEF Numbers
<1> DEFINE At0(k) == \E x \in L : c[x] = k
           w == [k \in Nat |-> IF At0(k) THEN CHOOSE x \in L : c[x] = k ELSE Null]
<1>2. ASSUME NEW k \in Nat
      PROVE  \/ w[k] \in L /\ c[w[k]] = k
             \/ w[k] = Null /\ \A x \in L : c[x] # k
  OBVIOUS
<1>3. ASSUME NEW x \in L PROVE w[c[x]] = x
  <2>1. w[c[x]] \in L /\ c[w[c[x]]] = c[x]
    BY <1>1, <1>2
  <2>2. QED
    BY <1>1, <2>1
<1> HIDE DEF w
<1>4. ASSUME NEW k \in Nat PROVE w[k] = Linked(w, k)
  <2>1. CASE k = 0
    <3>1. CASE list = Null
      <4>1. L = {}
        BY <3>1 DEF Chain
      <4>2. QED
        BY <1>2, <2>1, <3>1, <4>1 DEF Linked
    <3>2. CASE list # Null
      <4>1. list \in L
        BY <3>2 DEF Chain
      <4>2. QED
        BY <1>1, <1>3, <2>1, <3>2, <4>1 DEF Linked
    <3>3. QED
      BY <3>1, <3>2
  <2>2. CASE k # 0
    <3>1. PICK j \in Nat : j = k - 1 /\ k = j + 1
      BY <2>2
    <3>2. CASE w[j] = Null
      <4>1. ASSUME NEW y \in L, c[y] = k PROVE FALSE
        <5>1. y # list \/ list = Null
          BY <1>1, <2>2, <4>1
        <5>2. PICK x \in L : node[x].Next = y
          BY <1>1, <5>1 DEF Chain
        <5>3. c[x] = j
          BY <1>1, <3>1, <4>1, <5>2
        <5>4. QED
          BY <1>1, <1>2, <3>2, <5>3
      <4>2. QED
        BY <1>2, <2>2, <3>1, <3>2, <4>1 DEF Linked
    <3>3. CASE w[j] # Null
      <4>1. PICK x \in L : x = w[j] /\ c[x] = j
        BY <1>2, <3>3
      <4>2. CASE node[x].Next = Null
        <5>1. ASSUME NEW y \in L, c[y] = k PROVE FALSE
          <6>1. r[y] <= r[x] /\ r[y] \in Nat /\ r[x] \in Nat
            BY <4>2 DEF Chain
          <6>2. r[y] < r[x] \/ r[y] = r[x]
            BY <6>1
          <6>3. c[y] < c[x] \/ y = x
            BY <1>1, <6>2 DEF Chain
          <6>4. QED
            BY <1>1, <3>1, <4>1, <5>1, <6>3
        <5>2. QED
          BY <1>2, <2>2, <3>1, <3>3, <4>1, <4>2, <5>1 DEF Linked
      <4>3. CASE node[x].Next # Null
        <5>1. node[x].Next \in L
          BY <4>3 DEF Chain
        <5>2. c[node[x].Next] = k
          BY <1>1, <3>1, <4>1, <4>3
        <5>3. w[k] = node[x].Next
          BY <1>3, <5>1, <5>2
        <5>4. QED
          BY <2>2, <3>1, <3>3, <4>1, <5>3 DEF Linked
      <4>4. QED
        BY <4>2, <4>3
    <3>4. QED
      BY <3>2, <3>3
  <2>3. QED
    BY <2>1, <2>2
<1>5. w = [k \in Nat |-> Linked(w, k)]
  <2>1. w = [k \in Nat |-> w[k]]
    BY DEF w
  <2>2. QED
    BY <1>4, <2>1
<1>6. \A k \in Nat : Link[k] = w[k]
  BY <1>5, OneLink
<1>7. QED
  BY <1>1, <1>2, <1>3, <1>6

LEMMA EntriesAre ==
  ASSUME NEW L \in SUBSET Nodes, NEW r \in [Nodes -> Nat], Chain(L, r)
  PROVE  Entries = L /\ Link[Cardinality(Nodes)] = Null
<1> PICK c : c = Place(L, r)
  OBVIOUS
<1>1. /\ \A k \in Nat : \/ Link[k] \in L /\ c[Link[k]] = k
                        \/ Link[k] = Null
      /\ \A x \in L : Link[c[x]] = x
  BY Links
<1>2. \A x \in L : c[x] \in Nat /\ c[x] < Cardinality(Nodes) /\ x # Null
  <2>1. Numbers(L, r, c)
    BY Places
  <2>2. QED
    BY <2>1 DEF Numbers
<1>3. Cardinality(Nodes) \in Nat
  BY FS_CardinalityType
<1>4. Link[Cardinality(Nodes)] = Null
  BY <1>1, <1>2, <1>3
<1>5. \A x \in L : c[x] \in 0 .. Cardinality(Nodes)
  BY <1>2, <1>3
<1>6. ASSUME NEW x \in L PROVE x \in Entries
  BY <1>1, <1>2, <1>5 DEF Entries
<1>7. ASSUME NEW x \in Entries PROVE x \in L
  <2>1. PICK k \in 0 .. Cardinality(Nodes) : x = Link[k] /\ x # Null
    BY DEF Entries
  <2>2. QED
    BY <1>1, <1>3, <2>1
<1>8. QED
  BY <1>4, <1>6, <1>7

(* While nothing is changing the list, its entries are those of the open   *)
(* utun sockets.                                                           *)
LEMMA AtRest ==
  ASSUME InTurn, Accounted, Writing = {},
         NEW L \in SUBSET Nodes, NEW r \in [Nodes -> Nat], ListSound(L, r)
  PROVE  /\ \A x \in L : memory[x] = "filled" /\ Listable(node[x])
         /\ \A x \in Nodes : memory[x] # "free" => x \in L
         /\ \A n \in Fds : IsOpenFd(n) /\ (\A o \in Taps : Iface(n) # NameOf[o]) =>
              \E x \in L : node[x].fd = n
<1>1. \A t \in Threads : ~Writes(t)
  BY NobodyWriting DEF InTurn, OwnedSoFar
<1>2. ASSUME NEW x \in L PROVE memory[x] = "filled" /\ Listable(node[x])
  <2>1. memory[x] = "filled"
    BY <1>1, Unfilled
  <2>2. QED
    BY <2>1 DEF ListSound, EntriesSound
<1>3. ASSUME NEW x \in Nodes, memory[x] # "free" PROVE x \in L
  <2>1. \A t \in Threads : frame[t].pc \notin {"add", "addWalk", "free"}
    BY <1>1 DEF InTurn, Shapes, FrameShape, Writes, OpenPcs, AddPcs, ClosePcs
  <2>2. QED
    BY <1>3, <2>1 DEF ListSound, NoneLost, At
<1>4. ASSUME NEW n \in Fds, IsOpenFd(n), \A o \in Taps : Iface(n) # NameOf[o]
      PROVE  \E x \in L : node[x].fd = n
  <2>1. Known(n)
    BY <1>4 DEF Accounted
  <2>2. ASSUME NEW t \in Threads, frame[t].pc \in NumberedPcs, frame[t].fd = n
        PROVE  FALSE
    <3>1. frame[t].pc \in AddPcs /\ frame[t].obj \in Taps
      BY <1>1, <2>2
         DEF InTurn, Shapes, FrameShape, Writes, NumberedPcs, LifecyclePcs, OpenPcs
    <3>2. Has(frame[t].obj, n)
      BY <2>2, <3>1 DEF InTurn, OwnedSoFar, FramesOwn, FrameOwns
    <3>3. QED
      BY <1>4, <3>1, <3>2 DEF Has
  <2>3. PICK o \in held : handle[o] = n
    BY <2>1, <2>2 DEF Known
  <2>4. Has(o, n)
    BY <2>3, HeldNumber
  <2>5. o \notin Taps
    BY <1>4, <2>4 DEF Has
  <2>6. QED
    BY <2>3, <2>5 DEF ListSound, HeldListed, Lists
<1>5. QED
  BY <1>2, <1>3, <1>4

(* While no TUN is being opened and nothing closed, the list ends, and     *)
(* holds exactly the utun descriptors, each once with the name of its      *)
(* interface; no allocated node is outside of it.  add() and delete() lose *)
(* no entry, leave no stale one and close no circle, over any sequence of  *)
(* calls and with any number of devices.                                   *)
THEOREM ListAlwaysExact ==
  ASSUME Promised
  PROVE  Spec => []ListIsExact
<1>1. ASSUME InTurn, Accounted, ListInv PROVE ListIsExact
  <2> SUFFICES ASSUME Writing = {}
               PROVE  /\ Link[Cardinality(Nodes)] = Null
                      /\ Entries = {x \in Nodes : memory[x] = "filled"}
                      /\ Entries = {x \in Nodes : memory[x] # "free"}
                      /\ \A x, y \in Entries : node[x].fd = node[y].fd => x = y
                      /\ {<<node[x].fd, node[x].ifName>> : x \in Entries} =
                           {<<n, Iface(n)>> : n \in {m \in Fds :
                              IsOpenFd(m) /\ \A o \in Taps : Iface(m) # NameOf[o]}}
    BY DEF ListIsExact
  <2> PICK L \in SUBSET Nodes, r \in [Nodes -> Nat] : ListSound(L, r)
    BY <1>1 DEF ListInv
  <2>1. Entries = L /\ Link[Cardinality(Nodes)] = Null
    BY EntriesAre DEF ListSound
  <2>2. /\ \A x \in L : memory[x] = "filled" /\ Listable(node[x])
        /\ \A x \in Nodes : memory[x] # "free" => x \in L
        /\ \A n \in Fds : IsOpenFd(n) /\ (\A o \in Taps : Iface(n) # NameOf[o]) =>
             \E x \in L : node[x].fd = n
    BY <1>1, AtRest
  <2> DEFINE Open == {m \in Fds : IsOpenFd(m) /\ \A o \in Taps : Iface(m) # NameOf[o]}
  <2>3. ASSUME NEW x \in L
        PROVE  node[x].fd \in Open /\ node[x].ifName = Iface(node[x].fd)
    <3>1. PICK o \in Objects \ Taps : Has(o, node[x].fd) /\ node[x].ifName = NameOf[o]
      BY <2>2 DEF Listable
    <3>2. IsOpenFd(node[x].fd) /\ Iface(node[x].fd) = NameOf[o]
      BY <3>1 DEF Has
    <3>3. node[x].fd \in Fds /\ \A p \in Taps : NameOf[o] # NameOf[p]
      BY <3>1, <3>2 DEF IsOpenFd
    <3>4. QED
      BY <3>1, <3>2, <3>3
  <2>4. \A x, y \in L : node[x].fd = node[y].fd => x = y
    BY <2>3 DEF ListSound, EntriesSound
  <2>5. L = {x \in Nodes : memory[x] = "filled"} /\ L = {x \in Nodes : memory[x] # "free"}
    BY <2>2
  <2>6. {<<node[x].fd, node[x].ifName>> : x \in L} = {<<n, Iface(n)>> : n \in Open}
    <3>1. \A n \in Open : \E x \in L : node[x].fd = n
      BY <2>2
    <3> HIDE DEF Open
    <3>2. QED
      BY <2>3, <3>1
  <2>7. QED
    BY <2>1, <2>4, <2>5, <2>6
<1>2. Init => Accounted
  BY DEF Init, KernelInit, Accounted, IsOpenFd
<1>3. OwnedSoFar /\ Accounted /\ [Next]_vars => Accounted'
  BY AccountedNext
<1>4. InTurn => OwnedSoFar
  BY DEF InTurn
<1>5. QED
  BY <1>1, <1>2, <1>3, <1>4, ListAlways, PTL DEF Spec

==============================================================================
