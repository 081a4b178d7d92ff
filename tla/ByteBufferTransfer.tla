-------------------------- MODULE ByteBufferTransfer --------------------------
(***************************************************************************)
(* The data path: read(ByteBuffer) and write(ByteBuffer) of the three JNI  *)
(* libraries.  A buffer is a view of an array (for a direct buffer, of a   *)
(* piece of native memory): it starts at an offset of the array and has a  *)
(* position and a limit.  The native code asks the buffer for its position *)
(* and remaining(), gets at the memory, makes one system call, moves the   *)
(* position, and for a heap buffer gives the array back.  Each of these is *)
(* a step, since the system call may block and other threads run.          *)
(*                                                                         *)
(* Bytes are told apart by where they come from: <<t, i>> is byte i of the *)
(* packet thread t receives, <<a, i>> what array a holds at i at first.    *)
(*                                                                         *)
(* The library in use and whether the JVM copies arrays for JNI or pins    *)
(* them are settled when the JVM starts.                                   *)
(***************************************************************************)
EXTENDS Integers

CONSTANTS
  Platforms,       \* some of "linux", "macos" and "windows"
  Threads,
  Arrays,
  Buffers,
  Length,          \* cells of an array
  ArrayOf,         \* ArrayOf[b]: the array under buffer b
  OffsetOf,        \* OffsetOf[b]: the cell of it where b starts
  Capacity,        \* Capacity[b]: the cells of it that belong to b
  DirectBuffers,   \* the buffers that are direct
  DirectStarts,    \* DirectStarts[p]: the positions at which clients of
                   \* library p start a transfer with a direct buffer
  NoBuffer,
  NoCopy

ASSUME TransferAssumption ==
  /\ Platforms \subseteq {"linux", "macos", "windows"}
  /\ Length \in Nat
  /\ ArrayOf \in [Buffers -> Arrays]
  /\ OffsetOf \in [Buffers -> Nat]
  /\ Capacity \in [Buffers -> Nat]
  /\ \A b \in Buffers : OffsetOf[b] + Capacity[b] <= Length
  /\ DirectBuffers \subseteq Buffers
  /\ \A b, c \in Buffers :
       ArrayOf[b] = ArrayOf[c] => (b \in DirectBuffers <=> c \in DirectBuffers)
  /\ DirectStarts \in [Platforms -> SUBSET Nat]
  /\ NoBuffer \notin Buffers

VARIABLES
  platform,   \* the library in use
  jvmCopies,  \* does GetByteArrayElements copy the array or pin it
  mem,        \* mem[a][i]: the byte in cell i of array a
  position,   \* position[b], limit[b]: the fields of java.nio.Buffer
  limit,
  pc,         \* pc[t]: the next step of thread t's call
  op,         \* op[t]: "read" or "write"
  buf,        \* buf[t]: the buffer of the call
  pos,        \* pos[t], rem[t]: its position and remaining() on entry
  rem,
  copy,       \* copy[t]: the JVM's copy of the array, if it made one
  moved,      \* moved[t]: what the system call returned
  sent        \* sent[t]: the bytes a write handed to the device

host == <<platform, jvmCopies>>
frame == <<op, buf, pos, rem>>
vars == <<platform, jvmCopies, mem, position, limit, pc, op, buf, pos, rem, copy, moved, sent>>

Cells == 0 .. Length - 1
Bytes == (Threads \cup Arrays) \X Cells

Content == [Cells -> Bytes]

ASSUME NoCopyAssumption == NoCopy \notin Content

TypeOK ==
  /\ platform \in Platforms
  /\ jvmCopies \in BOOLEAN
  /\ mem \in [Arrays -> Content]
  /\ position \in [Buffers -> 0 .. Length]
  /\ limit \in [Buffers -> 0 .. Length]
  /\ pc \in [Threads -> {"idle", "access", "syscall", "setpos", "release",
                         "returned"}]
  /\ op \in [Threads -> {"read", "write"}]
  /\ buf \in [Threads -> Buffers \cup {NoBuffer}]
  /\ pos \in [Threads -> 0 .. Length]
  /\ rem \in [Threads -> 0 .. Length]
  /\ \A t \in Threads : copy[t] # NoCopy => copy[t] \in Content
  /\ moved \in [Threads -> -1 .. Length]
  /\ \A t \in Threads : sent[t] # NoCopy =>
       sent[t] \in [0 .. moved[t] - 1 -> Bytes]

Init ==
  /\ platform \in Platforms
  /\ jvmCopies \in BOOLEAN
  /\ mem = [a \in Arrays |-> [i \in Cells |-> <<a, i>>]]
  /\ position = [b \in Buffers |-> 0]
  /\ limit = Capacity
  /\ pc = [t \in Threads |-> "idle"]
  /\ op = [t \in Threads |-> "read"]
  /\ buf = [t \in Threads |-> NoBuffer]
  /\ pos = [t \in Threads |-> 0]
  /\ rem = [t \in Threads |-> 0]
  /\ copy = [t \in Threads |-> NoCopy]
  /\ moved = [t \in Threads |-> 0]
  /\ sent = [t \in Threads |-> NoCopy]

-----------------------------------------------------------------------------
(* The cells of a call, and who may start one.                             *)

ArrayUsed(t) == ArrayOf[buf[t]]

Start(t) == OffsetOf[buf[t]] + pos[t]

Window(t) == Start(t) .. Start(t) + rem[t] - 1

(* A ByteBuffer is not safe for use by several threads, and two calls on   *)
(* the same bytes race in the client.  Beyond that, clients use different  *)
(* parts of one array at a time where that can work: in direct memory and  *)
(* in arrays the JVM pins.                                                 *)
Apart(t, b, cells) ==
  buf[t] # NoBuffer =>
    /\ buf[t] # b
    /\ ArrayUsed(t) = ArrayOf[b] =>
         /\ jvmCopies => b \in DirectBuffers
         /\ Window(t) \cap cells = {}

Starts(b) ==
  IF b \in DirectBuffers THEN DirectStarts[platform] ELSE 0 .. Capacity[b]

-----------------------------------------------------------------------------
(* The steps read() and write() have in common.                            *)

(* The client has set position and limit (clear(), flip(), position(int),  *)
(* limit(int)) and calls; isDirect(), position() and remaining() ask.      *)
Begin(t, b, what) ==
  /\ pc[t] = "idle"
  /\ \E p \in Starts(b), l \in 0 .. Capacity[b] :
       /\ p <= l
       /\ \A u \in Threads :
            Apart(u, b, OffsetOf[b] + p .. OffsetOf[b] + l - 1)
       /\ position' = [position EXCEPT ![b] = p]
       /\ limit' = [limit EXCEPT ![b] = l]
       /\ pos' = [pos EXCEPT ![t] = p]
       /\ rem' = [rem EXCEPT ![t] = l - p]
  /\ op' = [op EXCEPT ![t] = what]
  /\ buf' = [buf EXCEPT ![t] = b]
  /\ pc' = [pc EXCEPT ![t] = "access"]
  /\ UNCHANGED <<host, mem, copy, moved, sent>>

(* GetDirectBufferAddress, or array(), arrayOffset() and                   *)
(* GetByteArrayElements                                                    *)
Access(t) ==
  /\ pc[t] = "access"
  /\ copy' = IF buf[t] \in DirectBuffers \/ ~jvmCopies
             THEN copy
             ELSE [copy EXCEPT ![t] = mem[ArrayUsed(t)]]
  /\ pc' = [pc EXCEPT ![t] = "syscall"]
  /\ UNCHANGED <<host, mem, position, limit, frame, moved, sent>>

(* n bytes of a packet of thread t in the cells from s on                  *)
Overlay(content, t, s, n) ==
  [i \in Cells |-> IF i \in s .. s + n - 1 THEN <<t, i - s>> ELSE content[i]]

(* The system call puts n bytes at address s: into the copy, if there is   *)
(* one, or straight into the array.                                        *)
Receive(t, s, n) ==
  /\ IF copy[t] = NoCopy
     THEN /\ mem' = [mem EXCEPT ![ArrayUsed(t)] = Overlay(@, t, s, n)]
          /\ UNCHANGED copy
     ELSE /\ copy' = [copy EXCEPT ![t] = Overlay(@, t, s, n)]
          /\ UNCHANGED mem
  /\ UNCHANGED sent

(* The system call takes n bytes from address s.                           *)
Send(t, s, n) ==
  LET source == IF copy[t] = NoCopy THEN mem[ArrayUsed(t)] ELSE copy[t]
  IN /\ sent' = [sent EXCEPT ![t] = [i \in 0 .. n - 1 |-> source[s + i]]]
     /\ UNCHANGED <<mem, copy>>

ResultUnchecked(t, n) ==
  /\ moved' = [moved EXCEPT ![t] = n]
  /\ pc' = [pc EXCEPT ![t] = "setpos"]
  /\ UNCHANGED <<host, position, limit, frame>>

(* -1 and an exception, or the number of bytes moved                       *)
Result(t, n) ==
  /\ moved' = [moved EXCEPT ![t] = n]
  /\ pc' = [pc EXCEPT ![t] = IF n >= 0 THEN "setpos"
                             ELSE IF buf[t] \in DirectBuffers THEN "returned"
                             ELSE "release"]
  /\ UNCHANGED <<host, position, limit, frame>>

SystemCall(t, what, s) ==
  /\ pc[t] = "syscall"
  /\ op[t] = what
  /\ \/ \E n \in 0 .. rem[t] :
          /\ IF what = "read" THEN Receive(t, s, n) ELSE Send(t, s, n)
          /\ Result(t, n)
     \/ /\ Result(t, -1)
        /\ UNCHANGED <<mem, copy, sent>>

SetPositionToCount(t) ==
  /\ pc[t] = "setpos"
  /\ position' = [position EXCEPT ![buf[t]] = moved[t]]
  /\ pc' = [pc EXCEPT ![t] = IF buf[t] \in DirectBuffers THEN "returned"
                             ELSE "release"]
  /\ UNCHANGED <<host, mem, limit, frame, copy, moved, sent>>

(* dst.position(position + bytesRead)                                      *)
SetPosition(t) ==
  /\ pc[t] = "setpos"
  /\ position' = [position EXCEPT ![buf[t]] = pos[t] + moved[t]]
  /\ pc' = [pc EXCEPT ![t] = IF buf[t] \in DirectBuffers THEN "returned"
                             ELSE "release"]
  /\ UNCHANGED <<host, mem, limit, frame, copy, moved, sent>>

ReleaseWithoutCopyBack(t) ==
  /\ pc[t] = "release"
  /\ copy' = [copy EXCEPT ![t] = NoCopy]
  /\ pc' = [pc EXCEPT ![t] = "returned"]
  /\ UNCHANGED <<host, mem, position, limit, frame, moved, sent>>

(* ReleaseByteArrayElements(.., 0) copies the whole array back, also after *)
(* an error and also for a write.                                          *)
Release(t) ==
  /\ pc[t] = "release"
  /\ IF copy[t] = NoCopy
     THEN UNCHANGED <<mem, copy>>
     ELSE /\ mem' = [mem EXCEPT ![ArrayUsed(t)] = copy[t]]
          /\ copy' = [copy EXCEPT ![t] = NoCopy]
  /\ pc' = [pc EXCEPT ![t] = "returned"]
  /\ UNCHANGED <<host, position, limit, frame, moved, sent>>

(* The client has its result.  It takes the packet, clears the buffer and  *)
(* puts bytes of its own where the packet was.                             *)
Finish(t) ==
  /\ pc[t] = "returned"
  /\ pc' = [pc EXCEPT ![t] = "idle"]
  /\ op' = [op EXCEPT ![t] = "read"]
  /\ buf' = [buf EXCEPT ![t] = NoBuffer]
  /\ pos' = [pos EXCEPT ![t] = 0]
  /\ rem' = [rem EXCEPT ![t] = 0]
  /\ moved' = [moved EXCEPT ![t] = 0]
  /\ sent' = [sent EXCEPT ![t] = NoCopy]
  /\ position' = [position EXCEPT ![buf[t]] = 0]
  /\ limit' = [limit EXCEPT ![buf[t]] = Capacity[buf[t]]]
  /\ mem' = IF op[t] = "write" THEN mem
            ELSE [mem EXCEPT ![ArrayUsed(t)] =
                    [i \in Cells |-> IF i \in Window(t)
                                    THEN <<ArrayUsed(t), i>> ELSE @[i]]]
  /\ UNCHANGED <<host, copy>>

-----------------------------------------------------------------------------
(* Where the system call of each library finds its bytes.                  *)

HeapAddressWithoutOffset(t) == pos[t]

(* byteArray + arrayOffset + position, alike in all of them                *)
HeapAddress(t) == OffsetOf[buf[t]] + pos[t]

AddressOfStart(t) ==
  IF buf[t] \in DirectBuffers THEN OffsetOf[buf[t]] ELSE HeapAddress(t)

(* _dst and _src: the start of the buffer, whatever its position           *)
LinuxReadAddress(t) ==
  IF buf[t] \in DirectBuffers THEN OffsetOf[buf[t]] ELSE HeapAddress(t)

LinuxWriteAddress(t) ==
  IF buf[t] \in DirectBuffers THEN OffsetOf[buf[t]] ELSE HeapAddress(t)

MacReadAddress(t) ==
  IF buf[t] \in DirectBuffers THEN OffsetOf[buf[t]] ELSE HeapAddress(t)

MacWriteAddress(t) ==
  IF buf[t] \in DirectBuffers THEN OffsetOf[buf[t]] ELSE HeapAddress(t)

(* _dst + position and _src + position                                     *)
WindowsReadAddress(t) ==
  IF buf[t] \in DirectBuffers THEN OffsetOf[buf[t]] + pos[t] ELSE HeapAddress(t)

WindowsWriteAddress(t) ==
  IF buf[t] \in DirectBuffers THEN OffsetOf[buf[t]] + pos[t] ELSE HeapAddress(t)

ReadAddress(t) ==
  CASE platform = "linux"   -> LinuxReadAddress(t)
    [] platform = "macos"   -> MacReadAddress(t)
    [] platform = "windows" -> WindowsReadAddress(t)

WriteAddress(t) ==
  CASE platform = "linux"   -> LinuxWriteAddress(t)
    [] platform = "macos"   -> MacWriteAddress(t)
    [] platform = "windows" -> WindowsWriteAddress(t)

Next ==
  \/ \E t \in Threads, b \in Buffers :
       Begin(t, b, "read") \/ Begin(t, b, "write")
  \/ \E t \in Threads :
       \/ Access(t)
       \/ SystemCall(t, "read", ReadAddress(t))
       \/ SystemCall(t, "write", WriteAddress(t))
       \/ SetPosition(t)
       \/ Release(t)
       \/ Finish(t)

Spec == Init /\ [][Next]_vars

-----------------------------------------------------------------------------
(* Properties                                                              *)

(* When read() returns n, the n bytes of the packet are in the buffer, in  *)
(* order, from the position it had on entry.                               *)
ReadFillsWindow ==
  \A t \in Threads :
    pc[t] = "returned" /\ op[t] = "read" =>
      \A i \in 0 .. moved[t] - 1 : mem[ArrayUsed(t)][Start(t) + i] = <<t, i>>

(* What write() hands to the device are the bytes of the buffer from the   *)
(* position it had on entry.                                               *)
WriteSendsWindow ==
  \A t \in Threads :
    pc[t] = "returned" /\ op[t] = "write" =>
      \A i \in 0 .. moved[t] - 1 :
        sent[t][i] = mem[ArrayUsed(t)][Start(t) + i]

(* After a call the position has moved by what the call returned and not   *)
(* at all when it threw, and it never passes the limit.                    *)
PositionFollowsCount ==
  /\ \A b \in Buffers : position[b] <= limit[b]
  /\ \A t \in Threads :
       pc[t] = "returned" =>
         position[buf[t]] = pos[t] + (IF moved[t] >= 0 THEN moved[t] ELSE 0)

(* A step of a thread changes memory only between position and limit of    *)
(* the buffer it reads into: not the rest of the array, which other        *)
(* buffers may view and other threads may be filling, and nothing at all   *)
(* in a write().                                                           *)
OutsideWindowUntouched ==
  [][\A a \in Arrays, i \in Cells :
       mem'[a][i] # mem[a][i] =>
         \E t \in Threads :
           /\ pc'[t] # pc[t]
           /\ op[t] = "read"
           /\ ArrayUsed(t) = a
           /\ i \in Window(t)]_vars

==============================================================================
