------------------------ MODULE ByteBufferTransferProofs ------------------------
(***************************************************************************)
(* Theorems about ByteBufferTransfer, for any numbers of threads, arrays   *)
(* and buffers on them, of any length.                                     *)
(***************************************************************************)
EXTENDS ByteBufferTransfer, TLAPS

USE TransferAssumption, NoCopyAssumption

-----------------------------------------------------------------------------
(* What the theorems about the bytes ask of the clients.                   *)

(* The direct buffers they pass on Linux and macOS are at position 0.      *)
DirectFromStart ==
  \A p \in Platforms : p # "windows" => DirectStarts[p] \subseteq {0}

-----------------------------------------------------------------------------
(* Types, and the part of its buffer a call is about                       *)

Steps == {"idle", "access", "syscall", "setpos", "release", "returned"}

InCall(t) == pc[t] # "idle"

(* Between Access and Release a call may have a copy of a heap array, and  *)
(* nothing is sent before the system call.                                 *)
CallSound(t) ==
  /\ InCall(t) <=> buf[t] # NoBuffer
  /\ InCall(t) => pos[t] + rem[t] <= Capacity[buf[t]]
  /\ pc[t] \in {"setpos", "release", "returned"} => moved[t] <= rem[t]
  /\ pc[t] = "setpos" => moved[t] >= 0
  /\ copy[t] # NoCopy =>
       /\ copy[t] \in Content
       /\ pc[t] \in {"syscall", "setpos", "release"}
       /\ jvmCopies /\ buf[t] \notin DirectBuffers
  /\ pc[t] \in {"idle", "access", "syscall"} => sent[t] = NoCopy
  /\ sent[t] # NoCopy => sent[t] \in [0 .. moved[t] - 1 -> Bytes]

TypedSoFar ==
  /\ platform \in Platforms
  /\ jvmCopies \in BOOLEAN
  /\ mem \in [Arrays -> Content]
  /\ position \in [Buffers -> 0 .. Length]
  /\ limit \in [Buffers -> 0 .. Length]
  /\ pc \in [Threads -> Steps]
  /\ op \in [Threads -> {"read", "write"}]
  /\ buf \in [Threads -> Buffers \cup {NoBuffer}]
  /\ pos \in [Threads -> 0 .. Length]
  /\ rem \in [Threads -> 0 .. Length]
  /\ DOMAIN copy = Threads
  /\ moved \in [Threads -> -1 .. Length]
  /\ DOMAIN sent = Threads
  /\ \A t \in Threads : CallSound(t)

-----------------------------------------------------------------------------
(* Position and limit                                                      *)

(* Nobody else has the buffer of a call.                                   *)
OwnBuffer ==
  \A t, u \in Threads : InCall(t) /\ InCall(u) /\ buf[t] = buf[u] => t = u

Placed(t) ==
  InCall(t) =>
    /\ limit[buf[t]] = pos[t] + rem[t]
    /\ pc[t] \in {"access", "syscall", "setpos"} => position[buf[t]] = pos[t]
    /\ pc[t] \in {"release", "returned"} =>
         position[buf[t]] = pos[t] + (IF moved[t] >= 0 THEN moved[t] ELSE 0)

PositionsSoFar ==
  /\ OwnBuffer
  /\ \A b \in Buffers : position[b] <= limit[b]
  /\ \A t \in Threads : Placed(t)

-----------------------------------------------------------------------------
(* Memory                                                                  *)

(* Two calls on one array are about different cells, and the array is not  *)
(* one the JVM copies.                                                     *)
OwnCells ==
  \A t, u \in Threads :
    InCall(t) /\ InCall(u) /\ t # u /\ ArrayUsed(t) = ArrayUsed(u) =>
      /\ jvmCopies => buf[t] \in DirectBuffers
      /\ \A i \in Cells : ~(i \in Window(t) /\ i \in Window(u))

(* The bytes as the call has them: in its copy or in the array             *)
Holder(t) == IF copy[t] = NoCopy THEN mem[ArrayUsed(t)] ELSE copy[t]

StartSound(t) ==
  InCall(t) /\ buf[t] \in DirectBuffers => pos[t] \in DirectStarts[platform]

(* A copy differs from its array only where a read has put its packet.     *)
CopySound(t) ==
  copy[t] # NoCopy =>
    \A i \in Cells :
      copy[t][i] # mem[ArrayUsed(t)][i] => op[t] = "read" /\ i \in Window(t)

BytesSound(t) ==
  pc[t] \in {"setpos", "release", "returned"} =>
    \A i \in 0 .. moved[t] - 1 :
      IF op[t] = "read"
      THEN Holder(t)[Start(t) + i] = <<t, i>>
      ELSE sent[t][i] = Holder(t)[Start(t) + i]

-----------------------------------------------------------------------------
(* What each step changes                                                  *)

OthersStay(t) ==
  /\ platform' = platform /\ jvmCopies' = jvmCopies
  /\ pc' \in [Threads -> Steps]
  /\ op' \in [Threads -> {"read", "write"}]
  /\ buf' \in [Threads -> Buffers \cup {NoBuffer}]
  /\ pos' \in [Threads -> 0 .. Length]
  /\ rem' \in [Threads -> 0 .. Length]
  /\ DOMAIN copy' = Threads
  /\ moved' \in [Threads -> -1 .. Length]
  /\ DOMAIN sent' = Threads
  /\ \A u \in Threads \ {t} :
       /\ pc'[u] = pc[u] /\ op'[u] = op[u] /\ buf'[u] = buf[u]
       /\ pos'[u] = pos[u] /\ rem'[u] = rem[u] /\ copy'[u] = copy[u]
       /\ moved'[u] = moved[u] /\ sent'[u] = sent[u]

(* A step within a call                                                    *)
Onward(t) ==
  /\ OthersStay(t)
  /\ InCall(t) /\ InCall(t)'
  /\ pc'[t] # pc[t]
  /\ UNCHANGED <<limit, op, buf, pos, rem>>

LEMMA InCallTypes ==
  ASSUME TypedSoFar, NEW t \in Threads, InCall(t)
  PROVE  /\ buf[t] \in Buffers /\ ArrayUsed(t) \in Arrays
         /\ pos[t] \in Nat /\ rem[t] \in Nat /\ moved[t] \in Int
         /\ OffsetOf[buf[t]] \in Nat /\ Capacity[buf[t]] \in Nat
         /\ pos[t] + rem[t] <= Capacity[buf[t]]
         /\ OffsetOf[buf[t]] + Capacity[buf[t]] <= Length
         /\ Start(t) = OffsetOf[buf[t]] + pos[t] /\ Start(t) \in Nat
         /\ Start(t) + rem[t] <= Length
         /\ Window(t) \subseteq Cells
<1>1. buf[t] \in Buffers /\ pos[t] + rem[t] <= Capacity[buf[t]]
  BY DEF TypedSoFar, CallSound
<1>2. pos[t] \in Nat /\ rem[t] \in Nat /\ moved[t] \in Int
  BY DEF TypedSoFar
<1>3. /\ OffsetOf[buf[t]] \in Nat /\ Capacity[buf[t]] \in Nat
      /\ OffsetOf[buf[t]] + Capacity[buf[t]] <= Length
      /\ ArrayOf[buf[t]] \in Arrays
  BY <1>1
<1>4. /\ Start(t) = OffsetOf[buf[t]] + pos[t] /\ Start(t) \in Nat
      /\ Start(t) + rem[t] <= Length
  BY <1>1, <1>2, <1>3 DEF Start
<1>5. Window(t) \subseteq Cells
  BY <1>2, <1>4 DEF Window, Cells
<1>6. QED
  BY <1>1, <1>2, <1>3, <1>4, <1>5 DEF ArrayUsed

(* The client passes buffer b from p to l.                                 *)
Starting(t, b, what, p, l) ==
  /\ p \in Starts(b) /\ p <= l /\ l <= Capacity[b] /\ l <= Length
  /\ OthersStay(t) /\ UNCHANGED <<mem, copy, moved, sent>>
  /\ ~InCall(t) /\ pc'[t] = "access"
  /\ op'[t] = what /\ buf'[t] = b /\ pos'[t] = p /\ rem'[t] = l - p
  /\ position' \in [Buffers -> 0 .. Length] /\ position'[b] = p
  /\ limit' \in [Buffers -> 0 .. Length] /\ limit'[b] = l
  /\ \A c \in Buffers \ {b} : position'[c] = position[c] /\ limit'[c] = limit[c]
  /\ \A u \in Threads : Apart(u, b, OffsetOf[b] + p .. OffsetOf[b] + l - 1)

LEMMA BeginDoes ==
  ASSUME TypedSoFar, NEW t \in Threads, NEW b \in Buffers,
         NEW what \in {"read", "write"}, Begin(t, b, what)
  PROVE  \E p \in Nat, l \in Nat : Starting(t, b, what, p, l)
<1>1. PICK p \in Starts(b), l \in 0 .. Capacity[b] :
        /\ p <= l
        /\ \A u \in Threads : Apart(u, b, OffsetOf[b] + p .. OffsetOf[b] + l - 1)
        /\ position' = [position EXCEPT ![b] = p]
        /\ limit' = [limit EXCEPT ![b] = l]
        /\ pos' = [pos EXCEPT ![t] = p]
        /\ rem' = [rem EXCEPT ![t] = l - p]
  BY DEF Begin
<1>2. p \in Nat /\ l \in Nat /\ l <= Length
  <2>1. OffsetOf[b] \in Nat /\ Capacity[b] \in Nat /\ OffsetOf[b] + Capacity[b] <= Length
    OBVIOUS
  <2>2. Starts(b) \subseteq Nat
    BY DEF Starts, TypedSoFar
  <2>3. QED
    BY <2>1, <2>2
<1>3. p \in 0 .. Length /\ l \in 0 .. Length /\ l - p \in 0 .. Length
  BY <1>1, <1>2
<1>4. /\ position' \in [Buffers -> 0 .. Length] /\ position'[b] = p
      /\ limit' \in [Buffers -> 0 .. Length] /\ limit'[b] = l
      /\ \A c \in Buffers \ {b} : position'[c] = position[c] /\ limit'[c] = limit[c]
  BY <1>1, <1>3 DEF TypedSoFar
<1>5. /\ pos' \in [Threads -> 0 .. Length] /\ rem' \in [Threads -> 0 .. Length]
      /\ pos'[t] = p /\ rem'[t] = l - p
      /\ \A u \in Threads \ {t} : pos'[u] = pos[u] /\ rem'[u] = rem[u]
  BY <1>1, <1>3 DEF TypedSoFar
<1>6. /\ pc' \in [Threads -> Steps] /\ pc'[t] = "access" /\ ~InCall(t)
      /\ op' \in [Threads -> {"read", "write"}] /\ op'[t] = what
      /\ buf' \in [Threads -> Buffers \cup {NoBuffer}] /\ buf'[t] = b
      /\ \A u \in Threads \ {t} : pc'[u] = pc[u] /\ op'[u] = op[u] /\ buf'[u] = buf[u]
  BY DEF Begin, TypedSoFar, Steps, InCall
<1>7. UNCHANGED <<platform, jvmCopies, mem, copy, moved, sent>>
  BY DEF Begin, host
<1>8. OthersStay(t)
  BY <1>5, <1>6, <1>7 DEF OthersStay, TypedSoFar
<1>9. l <= Capacity[b]
  OBVIOUS
<1>10. Starting(t, b, what, p, l)
  BY <1>1, <1>4, <1>5, <1>6, <1>7, <1>8, <1>9 DEF Starting
<1>11. QED
  BY <1>2, <1>10

LEMMA AccessDoes ==
  ASSUME TypedSoFar, NEW t \in Threads, Access(t)
  PROVE  /\ Onward(t) /\ UNCHANGED <<mem, position, moved, sent>>
         /\ pc[t] = "access" /\ pc'[t] = "syscall"
         /\ copy[t] = NoCopy
         /\ \/ copy'[t] = NoCopy
            \/ /\ jvmCopies /\ buf[t] \notin DirectBuffers
               /\ copy'[t] = mem[ArrayUsed(t)]
<1>1. /\ pc[t] = "access" /\ pc'[t] = "syscall" /\ pc' \in [Threads -> Steps]
      /\ \A u \in Threads \ {t} : pc'[u] = pc[u]
  BY DEF Access, TypedSoFar, Steps
<1>2. copy[t] = NoCopy
  BY <1>1 DEF TypedSoFar, CallSound
<1>3. UNCHANGED <<platform, jvmCopies, mem, position, limit, op, buf, pos, rem, moved, sent>>
  BY DEF Access, host, frame
<1>4. CASE buf[t] \in DirectBuffers \/ ~jvmCopies
  <2>1. copy' = copy
    BY <1>4 DEF Access
  <2>2. QED
    BY <1>1, <1>2, <1>3, <2>1 DEF Onward, OthersStay, InCall, TypedSoFar
<1>5. CASE ~(buf[t] \in DirectBuffers \/ ~jvmCopies)
  <2>1. copy' = [copy EXCEPT ![t] = mem[ArrayUsed(t)]]
    BY <1>5 DEF Access
  <2>2. /\ DOMAIN copy' = Threads /\ copy'[t] = mem[ArrayUsed(t)]
        /\ \A u \in Threads \ {t} : copy'[u] = copy[u]
    BY <2>1 DEF TypedSoFar
  <2>3. jvmCopies /\ buf[t] \notin DirectBuffers
    BY <1>5
  <2>4. QED
    BY <1>1, <1>2, <1>3, <2>2, <2>3 DEF Onward, OthersStay, InCall, TypedSoFar
<1>6. QED
  BY <1>4, <1>5

LEMMA SetPositionDoes ==
  ASSUME TypedSoFar, NEW t \in Threads, SetPosition(t)
  PROVE  /\ Onward(t) /\ UNCHANGED <<mem, copy, moved, sent>>
         /\ pc[t] = "setpos" /\ moved[t] >= 0 /\ moved[t] <= rem[t]
         /\ pc'[t] = IF buf[t] \in DirectBuffers THEN "returned" ELSE "release"
         /\ position' \in [Buffers -> 0 .. Length]
         /\ position'[buf[t]] = pos[t] + moved[t]
         /\ \A b \in Buffers \ {buf[t]} : position'[b] = position[b]
<1>1. /\ pc[t] = "setpos" /\ InCall(t)
      /\ pc' = [pc EXCEPT ![t] = IF buf[t] \in DirectBuffers THEN "returned" ELSE "release"]
      /\ position' = [position EXCEPT ![buf[t]] = pos[t] + moved[t]]
  BY DEF SetPosition, InCall
<1>2. /\ pc'[t] = IF buf[t] \in DirectBuffers THEN "returned" ELSE "release"
      /\ pc' \in [Threads -> Steps]
      /\ \A u \in Threads \ {t} : pc'[u] = pc[u]
  BY <1>1 DEF TypedSoFar, Steps
<1>3. moved[t] >= 0 /\ moved[t] <= rem[t]
  BY <1>1 DEF TypedSoFar, CallSound
<1>4. buf[t] \in Buffers /\ pos[t] + moved[t] \in 0 .. Length
  BY <1>1, <1>3, InCallTypes
<1>5. /\ position' \in [Buffers -> 0 .. Length]
      /\ position'[buf[t]] = pos[t] + moved[t]
      /\ \A b \in Buffers \ {buf[t]} : position'[b] = position[b]
  BY <1>1, <1>4 DEF TypedSoFar
<1>6. UNCHANGED <<platform, jvmCopies, mem, limit, op, buf, pos, rem, copy, moved, sent>>
  BY DEF SetPosition, host, frame
<1>7. Onward(t)
  BY <1>1, <1>2, <1>6 DEF Onward, OthersStay, InCall, TypedSoFar
<1>8. QED
  BY <1>1, <1>2, <1>3, <1>5, <1>6, <1>7

LEMMA ReleaseDoes ==
  ASSUME TypedSoFar, NEW t \in Threads, Release(t)
  PROVE  /\ Onward(t) /\ UNCHANGED <<position, moved, sent>>
         /\ pc[t] = "release" /\ pc'[t] = "returned"
         /\ copy'[t] = NoCopy
         /\ mem' \in [Arrays -> Content]
         /\ mem'[ArrayUsed(t)] = Holder(t)
         /\ \A a \in Arrays \ {ArrayUsed(t)} : mem'[a] = mem[a]
<1>1. /\ pc[t] = "release" /\ pc'[t] = "returned" /\ pc' \in [Threads -> Steps]
      /\ \A u \in Threads \ {t} : pc'[u] = pc[u]
  BY DEF Release, TypedSoFar, Steps
<1>2. UNCHANGED <<platform, jvmCopies, position, limit, op, buf, pos, rem, moved, sent>>
  BY DEF Release, host, frame
<1>3. ArrayUsed(t) \in Arrays /\ mem \in [Arrays -> Content]
  BY <1>1, InCallTypes DEF InCall, TypedSoFar
<1>4. /\ DOMAIN copy' = Threads /\ copy'[t] = NoCopy
      /\ \A u \in Threads \ {t} : copy'[u] = copy[u]
      /\ mem' \in [Arrays -> Content]
      /\ mem'[ArrayUsed(t)] = Holder(t)
      /\ \A a \in Arrays \ {ArrayUsed(t)} : mem'[a] = mem[a]
  <2>1. CASE copy[t] = NoCopy
    BY <1>3, <2>1 DEF Release, Holder, TypedSoFar
  <2>2. CASE copy[t] # NoCopy
    <3>1. copy[t] \in Content
      BY <2>2 DEF TypedSoFar, CallSound
    <3>2. /\ mem' = [mem EXCEPT ![ArrayUsed(t)] = copy[t]]
          /\ copy' = [copy EXCEPT ![t] = NoCopy]
      BY <2>2 DEF Release
    <3>3. QED
      BY <1>3, <2>2, <3>1, <3>2 DEF Holder, TypedSoFar
  <2>3. QED
    BY <2>1, <2>2
<1>5. Onward(t)
  BY <1>1, <1>2, <1>4 DEF Onward, OthersStay, InCall, TypedSoFar
<1>6. QED
  BY <1>1, <1>2, <1>4, <1>5

LEMMA OverlayIs ==
  ASSUME NEW c \in Content, NEW t \in Threads, NEW s \in Nat, NEW n \in Nat
  PROVE  /\ Overlay(c, t, s, n) \in Content
         /\ \A i \in Cells :
              Overlay(c, t, s, n)[i] =
                IF i \in s .. s + n - 1 THEN <<t, i - s>> ELSE c[i]
<1>1. ASSUME NEW i \in Cells, i \in s .. s + n - 1 PROVE <<t, i - s>> \in Bytes
  <2>1. i - s \in Cells
    BY <1>1 DEF Cells
  <2>2. QED
    BY <2>1 DEF Bytes
<1>2. QED
  BY <1>1 DEF Overlay, Content

LEMMA ResultDoes ==
  ASSUME TypedSoFar, NEW t \in Threads, pc[t] = "syscall",
         NEW n \in -1 .. rem[t], Result(t, n)
  PROVE  /\ UNCHANGED <<platform, jvmCopies, position, limit, op, buf, pos, rem>>
         /\ moved' \in [Threads -> -1 .. Length] /\ moved'[t] = n
         /\ pc' \in [Threads -> Steps]
         /\ pc'[t] = IF n >= 0 THEN "setpos"
                     ELSE IF buf[t] \in DirectBuffers THEN "returned" ELSE "release"
         /\ \A u \in Threads \ {t} : pc'[u] = pc[u] /\ moved'[u] = moved[u]
<1>1. n \in -1 .. Length
  BY DEF TypedSoFar
<1>2. QED
  BY <1>1 DEF Result, host, frame, TypedSoFar, Steps

LEMMA ReadDoes ==
  ASSUME TypedSoFar, NEW t \in Threads, NEW s \in Nat, SystemCall(t, "read", s)
  PROVE  /\ Onward(t) /\ UNCHANGED <<position, sent>>
         /\ pc[t] = "syscall" /\ op[t] = "read"
         /\ moved'[t] \in -1 .. rem[t]
         /\ pc'[t] = IF moved'[t] >= 0 THEN "setpos"
                     ELSE IF buf[t] \in DirectBuffers THEN "returned" ELSE "release"
         /\ copy'[t] = NoCopy <=> copy[t] = NoCopy
         /\ copy'[t] # NoCopy => copy'[t] \in Content /\ mem' = mem
         /\ mem' \in [Arrays -> Content]
         /\ \A a \in Arrays \ {ArrayUsed(t)} : mem'[a] = mem[a]
         /\ \A i \in Cells :
              Holder(t)'[i] = IF i \in s .. s + moved'[t] - 1
                              THEN <<t, i - s>> ELSE Holder(t)[i]
<1>1. pc[t] = "syscall" /\ op[t] = "read" /\ InCall(t)
  BY DEF SystemCall, InCall
<1>2. /\ ArrayUsed(t) \in Arrays /\ mem \in [Arrays -> Content]
      /\ rem[t] \in Nat /\ DOMAIN copy = Threads
  BY <1>1, InCallTypes DEF TypedSoFar
<1>3. ASSUME NEW n \in 0 .. rem[t], Receive(t, s, n), Result(t, n)
      PROVE  /\ sent' = sent /\ moved'[t] = n
             /\ DOMAIN copy' = Threads
             /\ copy'[t] = NoCopy <=> copy[t] = NoCopy
             /\ copy'[t] # NoCopy => copy'[t] \in Content /\ mem' = mem
             /\ \A u \in Threads \ {t} : copy'[u] = copy[u]
             /\ mem' \in [Arrays -> Content]
             /\ \A a \in Arrays \ {ArrayUsed(t)} : mem'[a] = mem[a]
             /\ \A i \in Cells :
                  Holder(t)'[i] = IF i \in s .. s + n - 1
                                  THEN <<t, i - s>> ELSE Holder(t)[i]
  <2>1. sent' = sent /\ n \in Nat /\ n \in -1 .. rem[t]
    BY <1>2, <1>3 DEF Receive
  <2>2. moved'[t] = n /\ buf' = buf
    BY <1>1, <1>3, <2>1, ResultDoes
  <2>3. CASE copy[t] = NoCopy
    <3> DEFINE c == mem[ArrayUsed(t)]
    <3>1. /\ mem' = [mem EXCEPT ![ArrayUsed(t)] = Overlay(c, t, s, n)]
          /\ copy' = copy
      BY <1>3, <2>3 DEF Receive
    <3>2. c \in Content
      BY <1>2
    <3>3. /\ Overlay(c, t, s, n) \in Content
          /\ \A i \in Cells :
               Overlay(c, t, s, n)[i] =
                 IF i \in s .. s + n - 1 THEN <<t, i - s>> ELSE c[i]
      <4>1. n \in Nat
        BY <2>1
      <4> HIDE DEF c
      <4>2. QED
        BY <3>2, <4>1, OverlayIs
    <3>4. /\ mem' \in [Arrays -> Content]
          /\ mem'[ArrayUsed(t)] = Overlay(c, t, s, n)
          /\ \A a \in Arrays \ {ArrayUsed(t)} : mem'[a] = mem[a]
      BY <1>2, <3>1, <3>3
    <3>5. Holder(t)' = Overlay(c, t, s, n) /\ Holder(t) = c
      BY <2>2, <2>3, <3>1, <3>4 DEF Holder, ArrayUsed
    <3> HIDE DEF c
    <3>6. QED
      BY <1>2, <2>1, <2>2, <2>3, <3>1, <3>3, <3>4, <3>5
  <2>4. CASE copy[t] # NoCopy
    <3> DEFINE c == copy[t]
    <3>1. copy' = [copy EXCEPT ![t] = Overlay(c, t, s, n)] /\ mem' = mem
      BY <1>3, <2>4 DEF Receive
    <3>2. c \in Content
      BY <2>4 DEF TypedSoFar, CallSound
    <3>3. /\ Overlay(c, t, s, n) \in Content
          /\ \A i \in Cells :
               Overlay(c, t, s, n)[i] =
                 IF i \in s .. s + n - 1 THEN <<t, i - s>> ELSE c[i]
      <4>1. n \in Nat
        BY <2>1
      <4> HIDE DEF c
      <4>2. QED
        BY <3>2, <4>1, OverlayIs
    <3>4. /\ DOMAIN copy' = Threads /\ copy'[t] = Overlay(c, t, s, n)
          /\ \A u \in Threads \ {t} : copy'[u] = copy[u]
      BY <1>2, <3>1
    <3>5. copy'[t] # NoCopy
      BY <3>3, <3>4
    <3>6. Holder(t)' = Overlay(c, t, s, n) /\ Holder(t) = c
      BY <2>4, <3>4, <3>5 DEF Holder
    <3> HIDE DEF c
    <3>7. QED
      BY <1>2, <2>1, <2>2, <2>4, <3>1, <3>3, <3>4, <3>5, <3>6
  <2>5. QED
    BY <2>3, <2>4
<1>4. CASE \E n \in 0 .. rem[t] : Receive(t, s, n) /\ Result(t, n)
  <2>1. PICK n \in 0 .. rem[t] : Receive(t, s, n) /\ Result(t, n)
    BY <1>4
  <2>2. n \in -1 .. rem[t] /\ n >= 0
    BY <1>2
  <2>3. /\ UNCHANGED <<platform, jvmCopies, position, limit, op, buf, pos, rem>>
        /\ moved' \in [Threads -> -1 .. Length] /\ moved'[t] = n
        /\ pc' \in [Threads -> Steps] /\ pc'[t] = "setpos"
        /\ \A u \in Threads \ {t} : pc'[u] = pc[u] /\ moved'[u] = moved[u]
    BY <1>1, <2>1, <2>2, ResultDoes
  <2>4. /\ sent' = sent /\ DOMAIN copy' = Threads
        /\ \A u \in Threads \ {t} : copy'[u] = copy[u]
    BY <1>3, <2>1
  <2>5. Onward(t)
    BY <1>1, <2>3, <2>4 DEF Onward, OthersStay, InCall, TypedSoFar
  <2>6. QED
    BY <1>1, <1>3, <2>1, <2>2, <2>3, <2>5
<1>5. CASE Result(t, -1) /\ UNCHANGED <<mem, copy, sent>>
  <2>1. -1 \in -1 .. rem[t]
    BY <1>2
  <2>2. /\ UNCHANGED <<platform, jvmCopies, position, limit, op, buf, pos, rem>>
        /\ moved' \in [Threads -> -1 .. Length] /\ moved'[t] = -1
        /\ pc' \in [Threads -> Steps]
        /\ pc'[t] = IF buf[t] \in DirectBuffers THEN "returned" ELSE "release"
        /\ \A u \in Threads \ {t} : pc'[u] = pc[u] /\ moved'[u] = moved[u]
    BY <1>1, <1>5, <2>1, ResultDoes
  <2>3. Onward(t)
    BY <1>1, <1>5, <2>2 DEF Onward, OthersStay, InCall, TypedSoFar
  <2>4. \A i \in Cells : i \notin s .. s + moved'[t] - 1
    BY <2>2 DEF Cells
  <2>5. Holder(t)' = Holder(t)
    BY <1>5, <2>2 DEF Holder, ArrayUsed
  <2>6. copy'[t] # NoCopy => copy'[t] \in Content
    BY <1>5 DEF TypedSoFar, CallSound
  <2>7. QED
    BY <1>1, <1>2, <1>5, <2>1, <2>2, <2>3, <2>4, <2>5, <2>6
<1>6. QED
  BY <1>4, <1>5 DEF SystemCall

LEMMA WriteDoes ==
  ASSUME TypedSoFar, NEW t \in Threads, NEW s \in Nat,
         s + rem[t] <= Length, SystemCall(t, "write", s)
  PROVE  /\ Onward(t) /\ UNCHANGED <<position, mem, copy>>
         /\ pc[t] = "syscall" /\ op[t] = "write"
         /\ moved'[t] \in -1 .. rem[t]
         /\ pc'[t] = IF moved'[t] >= 0 THEN "setpos"
                     ELSE IF buf[t] \in DirectBuffers THEN "returned" ELSE "release"
         /\ sent'[t] = NoCopy \/ sent'[t] \in [0 .. moved'[t] - 1 -> Bytes]
         /\ \A i \in 0 .. moved'[t] - 1 : sent'[t][i] = Holder(t)[s + i]
<1>1. pc[t] = "syscall" /\ op[t] = "write" /\ InCall(t)
  BY DEF SystemCall, InCall
<1>2. /\ ArrayUsed(t) \in Arrays /\ mem \in [Arrays -> Content]
      /\ rem[t] \in Nat /\ DOMAIN copy = Threads /\ DOMAIN sent = Threads
  BY <1>1, InCallTypes DEF TypedSoFar
<1>3. Holder(t) \in Content
  BY <1>2 DEF Holder, TypedSoFar, CallSound
<1>4. CASE \E n \in 0 .. rem[t] : Send(t, s, n) /\ Result(t, n)
  <2>1. PICK n \in 0 .. rem[t] : Send(t, s, n) /\ Result(t, n)
    BY <1>4
  <2>2. n \in -1 .. rem[t] /\ n >= 0
    BY <1>2
  <2>3. /\ UNCHANGED <<platform, jvmCopies, position, limit, op, buf, pos, rem>>
        /\ moved' \in [Threads -> -1 .. Length] /\ moved'[t] = n
        /\ pc' \in [Threads -> Steps] /\ pc'[t] = "setpos"
        /\ \A u \in Threads \ {t} : pc'[u] = pc[u] /\ moved'[u] = moved[u]
    BY <1>1, <2>1, <2>2, ResultDoes
  <2>4. /\ sent' = [sent EXCEPT ![t] = [i \in 0 .. n - 1 |-> Holder(t)[s + i]]]
        /\ UNCHANGED <<mem, copy>>
    BY <2>1 DEF Send, Holder
  <2>5. /\ DOMAIN sent' = Threads
        /\ sent'[t] = [i \in 0 .. n - 1 |-> Holder(t)[s + i]]
        /\ \A u \in Threads \ {t} : sent'[u] = sent[u]
    BY <1>2, <2>4
  <2>6. \A i \in 0 .. n - 1 : s + i \in Cells
    BY <1>2, <2>2 DEF Cells
  <2>7. sent'[t] \in [0 .. n - 1 -> Bytes]
    BY <1>3, <2>5, <2>6 DEF Content
  <2>8. Onward(t)
    BY <1>1, <2>3, <2>4, <2>5 DEF Onward, OthersStay, InCall, TypedSoFar
  <2>9. QED
    BY <1>1, <2>2, <2>3, <2>4, <2>5, <2>7, <2>8
<1>5. CASE Result(t, -1) /\ UNCHANGED <<mem, copy, sent>>
  <2>1. -1 \in -1 .. rem[t]
    BY <1>2
  <2>2. /\ UNCHANGED <<platform, jvmCopies, position, limit, op, buf, pos, rem>>
        /\ moved' \in [Threads -> -1 .. Length] /\ moved'[t] = -1
        /\ pc' \in [Threads -> Steps]
        /\ pc'[t] = IF buf[t] \in DirectBuffers THEN "returned" ELSE "release"
        /\ \A u \in Threads \ {t} : pc'[u] = pc[u] /\ moved'[u] = moved[u]
    BY <1>1, <1>5, <2>1, ResultDoes
  <2>3. Onward(t)
    BY <1>1, <1>5, <2>2 DEF Onward, OthersStay, InCall, TypedSoFar
  <2>4. sent'[t] = NoCopy
    BY <1>1, <1>5 DEF TypedSoFar, CallSound
  <2>5. QED
    BY <1>1, <1>5, <2>1, <2>2, <2>3, <2>4
<1>6. QED
  BY <1>4, <1>5 DEF SystemCall

LEMMA FinishDoes ==
  ASSUME TypedSoFar, NEW t \in Threads, Finish(t)
  PROVE  /\ OthersStay(t) /\ copy' = copy
         /\ pc[t] = "returned" /\ pc'[t] = "idle" /\ buf'[t] = NoBuffer
         /\ sent'[t] = NoCopy
         /\ position' \in [Buffers -> 0 .. Length] /\ position'[buf[t]] = 0
         /\ limit' \in [Buffers -> 0 .. Length]
         /\ limit'[buf[t]] = Capacity[buf[t]]
         /\ \A b \in Buffers \ {buf[t]} :
              position'[b] = position[b] /\ limit'[b] = limit[b]
         /\ mem' \in [Arrays -> Content]
         /\ \A a \in Arrays \ {ArrayUsed(t)} : mem'[a] = mem[a]
         /\ \A i \in Cells :
              mem'[ArrayUsed(t)][i] # mem[ArrayUsed(t)][i] =>
                op[t] = "read" /\ i \in Window(t)
<1>1. pc[t] = "returned" /\ InCall(t)
  BY DEF Finish, InCall
<1>2. /\ buf[t] \in Buffers /\ ArrayUsed(t) \in Arrays
      /\ Capacity[buf[t]] \in 0 .. Length /\ 0 \in 0 .. Length
      /\ mem \in [Arrays -> Content] /\ 0 \in -1 .. Length
  BY <1>1, InCallTypes DEF TypedSoFar
<1>3. /\ position' \in [Buffers -> 0 .. Length] /\ position'[buf[t]] = 0
      /\ limit' \in [Buffers -> 0 .. Length]
      /\ limit'[buf[t]] = Capacity[buf[t]]
      /\ \A b \in Buffers \ {buf[t]} :
           position'[b] = position[b] /\ limit'[b] = limit[b]
  BY <1>2 DEF Finish, TypedSoFar
<1>4. /\ pc' \in [Threads -> Steps] /\ pc'[t] = "idle"
      /\ op' \in [Threads -> {"read", "write"}]
      /\ buf' \in [Threads -> Buffers \cup {NoBuffer}] /\ buf'[t] = NoBuffer
      /\ \A u \in Threads \ {t} : pc'[u] = pc[u] /\ op'[u] = op[u] /\ buf'[u] = buf[u]
  BY DEF Finish, TypedSoFar, Steps
<1>5. /\ pos' \in [Threads -> 0 .. Length] /\ rem' \in [Threads -> 0 .. Length]
      /\ moved' \in [Threads -> -1 .. Length]
      /\ \A u \in Threads \ {t} :
           pos'[u] = pos[u] /\ rem'[u] = rem[u] /\ moved'[u] = moved[u]
  BY <1>2 DEF Finish, TypedSoFar
<1>6. /\ DOMAIN sent' = Threads /\ sent'[t] = NoCopy
      /\ \A u \in Threads \ {t} : sent'[u] = sent[u]
      /\ platform' = platform /\ jvmCopies' = jvmCopies /\ copy' = copy
  BY DEF Finish, host, TypedSoFar
<1>7. OthersStay(t)
  BY <1>4, <1>5, <1>6 DEF OthersStay, TypedSoFar
<1>8. /\ mem' \in [Arrays -> Content]
      /\ \A a \in Arrays \ {ArrayUsed(t)} : mem'[a] = mem[a]
      /\ \A i \in Cells :
           mem'[ArrayUsed(t)][i] # mem[ArrayUsed(t)][i] =>
             op[t] = "read" /\ i \in Window(t)
  <2>1. CASE op[t] = "write"
    BY <1>2, <2>1 DEF Finish
  <2>2. CASE op[t] # "write"
    <3> DEFINE c == [i \in Cells |-> IF i \in Window(t) THEN <<ArrayUsed(t), i>>
                                     ELSE mem[ArrayUsed(t)][i]]
    <3>1. mem' = [mem EXCEPT ![ArrayUsed(t)] = c]
      BY <2>2 DEF Finish
    <3>2. \A i \in Cells : <<ArrayUsed(t), i>> \in Bytes
      BY <1>2 DEF Bytes
    <3>3. c \in Content
      BY <1>2, <3>2 DEF Content
    <3>4. \A i \in Cells : i \notin Window(t) => c[i] = mem[ArrayUsed(t)][i]
      OBVIOUS
    <3>5. op[t] = "read"
      BY <2>2 DEF TypedSoFar
    <3> HIDE DEF c
    <3>6. /\ mem' \in [Arrays -> Content]
          /\ mem'[ArrayUsed(t)] = c
          /\ \A a \in Arrays \ {ArrayUsed(t)} : mem'[a] = mem[a]
      BY <1>2, <3>1, <3>3
    <3>7. QED
      BY <3>4, <3>5, <3>6
  <2>3. QED
    BY <2>1, <2>2
<1>9. QED
  BY <1>1, <1>3, <1>4, <1>6, <1>7, <1>8

-----------------------------------------------------------------------------
(* Where the system call finds its bytes                                   *)

(* Never beyond the end of the memory, on any platform.                    *)
LEMMA AddressInMemory ==
  ASSUME TypedSoFar, NEW t \in Threads, InCall(t)
  PROVE  /\ ReadAddress(t) \in Nat /\ ReadAddress(t) + rem[t] <= Length
         /\ WriteAddress(t) \in Nat /\ WriteAddress(t) + rem[t] <= Length
<1>1. platform \in {"linux", "macos", "windows"}
  BY DEF TypedSoFar
<1> DEFINE off == OffsetOf[buf[t]]
           start == OffsetOf[buf[t]] + pos[t]
<1>2. /\ off \in Nat /\ start \in Nat /\ rem[t] \in Nat
      /\ off + rem[t] <= Length /\ start + rem[t] <= Length
  BY InCallTypes
<1>3. ReadAddress(t) \in {off, start} /\ WriteAddress(t) \in {off, start}
  BY <1>1 DEF ReadAddress, WriteAddress, LinuxReadAddress, LinuxWriteAddress,
     MacReadAddress, MacWriteAddress, WindowsReadAddress,
     WindowsWriteAddress, HeapAddress
<1> HIDE DEF off, start
<1>4. QED
  BY <1>2, <1>3

(* The address of the byte at the position: of a heap buffer everywhere,   *)
(* of a direct one on Windows, or when the position is 0.                  *)
LEMMA AddressIsStart ==
  ASSUME DirectFromStart, TypedSoFar, NEW t \in Threads, InCall(t), StartSound(t)
  PROVE  ReadAddress(t) = Start(t) /\ WriteAddress(t) = Start(t)
<1>1. platform \in Platforms /\ platform \in {"linux", "macos", "windows"}
  BY DEF TypedSoFar
<1>2. /\ OffsetOf[buf[t]] \in Nat /\ pos[t] \in Nat
      /\ Start(t) = OffsetOf[buf[t]] + pos[t]
  BY InCallTypes
<1>3. buf[t] \in DirectBuffers /\ platform # "windows" => pos[t] = 0
  BY <1>1 DEF StartSound, DirectFromStart
<1>4. buf[t] \in DirectBuffers /\ platform # "windows" => OffsetOf[buf[t]] = Start(t)
  BY <1>2, <1>3
<1>5. HeapAddress(t) = Start(t)
  BY <1>2 DEF HeapAddress
<1>6. QED
  BY <1>1, <1>2, <1>4, <1>5 DEF ReadAddress, WriteAddress, LinuxReadAddress,
     LinuxWriteAddress, MacReadAddress, MacWriteAddress, WindowsReadAddress,
     WindowsWriteAddress

-----------------------------------------------------------------------------
(* Types                                                                   *)

LEMMA OthersSound ==
  ASSUME TypedSoFar, NEW t \in Threads, OthersStay(t), CallSound(t)',
         mem' \in [Arrays -> Content],
         position' \in [Buffers -> 0 .. Length],
         limit' \in [Buffers -> 0 .. Length]
  PROVE  TypedSoFar'
<1>1. ASSUME NEW u \in Threads \ {t} PROVE CallSound(u)'
  <2>1. /\ pc'[u] = pc[u] /\ op'[u] = op[u] /\ buf'[u] = buf[u]
        /\ pos'[u] = pos[u] /\ rem'[u] = rem[u] /\ copy'[u] = copy[u]
        /\ moved'[u] = moved[u] /\ sent'[u] = sent[u]
        /\ jvmCopies' = jvmCopies
    BY DEF OthersStay
  <2>2. CallSound(u)
    BY DEF TypedSoFar
  <2>3. QED
    BY <2>1, <2>2 DEF CallSound, InCall
<1>2. QED
  BY <1>1 DEF OthersStay, TypedSoFar

LEMMA TypedInit == Init => TypedSoFar
<1>1. SUFFICES ASSUME Init PROVE TypedSoFar
  OBVIOUS
<1>2. 0 \in 0 .. Length /\ 0 \in -1 .. Length
  OBVIOUS
<1>3. mem \in [Arrays -> Content]
  BY <1>1 DEF Init, Content, Bytes
<1>4. \A b \in Buffers : Capacity[b] \in 0 .. Length
  <2>1. ASSUME NEW b \in Buffers PROVE Capacity[b] \in 0 .. Length
    <3>1. OffsetOf[b] \in Nat /\ Capacity[b] \in Nat /\ OffsetOf[b] + Capacity[b] <= Length
      OBVIOUS
    <3>2. QED
      BY <3>1
  <2>2. QED
    BY <2>1
<1>5. limit \in [Buffers -> 0 .. Length]
  BY <1>1, <1>4 DEF Init
<1>6. \A t \in Threads : CallSound(t)
  BY <1>1 DEF Init, CallSound, InCall
<1>7. QED
  BY <1>1, <1>2, <1>3, <1>5, <1>6 DEF Init, TypedSoFar, Steps

LEMMA OnwardSound ==
  ASSUME TypedSoFar, NEW t \in Threads, Onward(t),
         pc'[t] \in {"setpos", "release", "returned"} => moved'[t] <= rem[t],
         pc'[t] = "setpos" => moved'[t] >= 0,
         copy'[t] # NoCopy =>
           /\ copy'[t] \in Content
           /\ pc'[t] \in {"syscall", "setpos", "release"}
           /\ jvmCopies /\ buf[t] \notin DirectBuffers,
         pc'[t] \in {"access", "syscall"} => sent'[t] = NoCopy,
         sent'[t] # NoCopy => sent'[t] \in [0 .. moved'[t] - 1 -> Bytes],
         mem' \in [Arrays -> Content],
         position' \in [Buffers -> 0 .. Length]
  PROVE  TypedSoFar'
<1>1. /\ OthersStay(t) /\ InCall(t) /\ InCall(t)'
      /\ UNCHANGED <<limit, op, buf, pos, rem>> /\ jvmCopies' = jvmCopies
  BY DEF Onward, OthersStay
<1>2. buf[t] \in Buffers /\ pos[t] + rem[t] <= Capacity[buf[t]]
  BY <1>1, InCallTypes
<1>3. CallSound(t)'
  BY <1>1, <1>2 DEF CallSound, InCall
<1>4. limit' \in [Buffers -> 0 .. Length]
  BY <1>1 DEF TypedSoFar
<1>5. QED
  BY <1>1, <1>3, <1>4, OthersSound

LEMMA BeginTyped ==
  ASSUME TypedSoFar, NEW t \in Threads, NEW b \in Buffers,
         NEW what \in {"read", "write"}, Begin(t, b, what)
  PROVE  TypedSoFar'
<1>1. PICK p \in Nat, l \in Nat : Starting(t, b, what, p, l)
  BY BeginDoes
<1>2. copy[t] = NoCopy /\ sent[t] = NoCopy
  BY <1>1 DEF Starting, TypedSoFar, CallSound, InCall
<1>3. p + (l - p) <= Capacity[b]
  BY <1>1 DEF Starting
<1>4. CallSound(t)'
  BY <1>1, <1>2, <1>3 DEF Starting, CallSound, InCall
<1>5. mem' \in [Arrays -> Content]
  BY <1>1 DEF Starting, TypedSoFar
<1>6. QED
  BY <1>1, <1>4, <1>5, OthersSound DEF Starting

LEMMA AccessTyped ==
  ASSUME TypedSoFar, NEW t \in Threads, Access(t)
  PROVE  TypedSoFar'
<1>1. /\ Onward(t) /\ UNCHANGED <<mem, position, moved, sent>>
      /\ pc[t] = "access" /\ pc'[t] = "syscall"
      /\ \/ copy'[t] = NoCopy
         \/ /\ jvmCopies /\ buf[t] \notin DirectBuffers
            /\ copy'[t] = mem[ArrayUsed(t)]
  BY AccessDoes
<1>2. mem[ArrayUsed(t)] \in Content
  BY <1>1, InCallTypes DEF TypedSoFar, Onward
<1>3. sent[t] = NoCopy
  BY <1>1 DEF TypedSoFar, CallSound
<1>4. mem' \in [Arrays -> Content] /\ position' \in [Buffers -> 0 .. Length]
  BY <1>1 DEF TypedSoFar
<1>5. QED
  BY <1>1, <1>2, <1>3, <1>4, OnwardSound

LEMMA ReadTyped ==
  ASSUME TypedSoFar, NEW t \in Threads, SystemCall(t, "read", ReadAddress(t))
  PROVE  TypedSoFar'
<1>1. InCall(t)
  BY DEF SystemCall, InCall
<1>2. ReadAddress(t) \in Nat
  BY <1>1, AddressInMemory
<1>3. /\ Onward(t) /\ UNCHANGED <<position, sent>>
      /\ pc[t] = "syscall" /\ moved'[t] \in -1 .. rem[t]
      /\ pc'[t] = IF moved'[t] >= 0 THEN "setpos"
                  ELSE IF buf[t] \in DirectBuffers THEN "returned" ELSE "release"
      /\ copy'[t] = NoCopy <=> copy[t] = NoCopy
      /\ copy'[t] # NoCopy => copy'[t] \in Content
      /\ mem' \in [Arrays -> Content]
  BY <1>2, ReadDoes
<1>4. /\ sent[t] = NoCopy /\ rem[t] \in Nat
      /\ copy[t] # NoCopy => jvmCopies /\ buf[t] \notin DirectBuffers
  BY <1>3 DEF TypedSoFar, CallSound
<1>5. position' \in [Buffers -> 0 .. Length]
  BY <1>3 DEF TypedSoFar
<1>6. /\ moved'[t] <= rem[t] /\ (pc'[t] = "setpos" => moved'[t] >= 0)
      /\ pc'[t] \in {"setpos", "release", "returned"}
      /\ copy'[t] # NoCopy => pc'[t] \in {"setpos", "release"}
  BY <1>3, <1>4
<1>7. copy'[t] # NoCopy =>
        /\ copy'[t] \in Content
        /\ pc'[t] \in {"syscall", "setpos", "release"}
        /\ jvmCopies /\ buf[t] \notin DirectBuffers
  BY <1>3, <1>4, <1>6
<1>8. Onward(t) /\ sent'[t] = NoCopy /\ mem' \in [Arrays -> Content]
  BY <1>3, <1>4
<1>9. QED
  BY <1>5, <1>6, <1>7, <1>8, OnwardSound

LEMMA WriteTyped ==
  ASSUME TypedSoFar, NEW t \in Threads, SystemCall(t, "write", WriteAddress(t))
  PROVE  TypedSoFar'
<1>1. InCall(t)
  BY DEF SystemCall, InCall
<1>2. WriteAddress(t) \in Nat /\ WriteAddress(t) + rem[t] <= Length
  BY <1>1, AddressInMemory
<1>3. /\ Onward(t) /\ UNCHANGED <<position, mem, copy>>
      /\ pc[t] = "syscall" /\ moved'[t] \in -1 .. rem[t]
      /\ pc'[t] = IF moved'[t] >= 0 THEN "setpos"
                  ELSE IF buf[t] \in DirectBuffers THEN "returned" ELSE "release"
      /\ sent'[t] = NoCopy \/ sent'[t] \in [0 .. moved'[t] - 1 -> Bytes]
  BY <1>2, WriteDoes
<1>4. /\ rem[t] \in Nat
      /\ copy[t] # NoCopy =>
           copy[t] \in Content /\ jvmCopies /\ buf[t] \notin DirectBuffers
  BY <1>3 DEF TypedSoFar, CallSound
<1>5. mem' \in [Arrays -> Content] /\ position' \in [Buffers -> 0 .. Length]
  BY <1>3 DEF TypedSoFar
<1>6. /\ moved'[t] <= rem[t] /\ (pc'[t] = "setpos" => moved'[t] >= 0)
      /\ pc'[t] \in {"setpos", "release", "returned"}
      /\ copy'[t] # NoCopy => pc'[t] \in {"setpos", "release"}
  BY <1>3, <1>4
<1>7. copy'[t] # NoCopy =>
        /\ copy'[t] \in Content
        /\ pc'[t] \in {"syscall", "setpos", "release"}
        /\ jvmCopies /\ buf[t] \notin DirectBuffers
  BY <1>3, <1>4, <1>6
<1>8. /\ Onward(t)
      /\ sent'[t] # NoCopy => sent'[t] \in [0 .. moved'[t] - 1 -> Bytes]
  BY <1>3
<1>9. QED
  BY <1>5, <1>6, <1>7, <1>8, OnwardSound

LEMMA SetPositionTyped ==
  ASSUME TypedSoFar, NEW t \in Threads, SetPosition(t)
  PROVE  TypedSoFar'
<1>1. /\ Onward(t) /\ UNCHANGED <<mem, copy, moved, sent>>
      /\ pc[t] = "setpos" /\ moved[t] >= 0 /\ moved[t] <= rem[t]
      /\ pc'[t] = IF buf[t] \in DirectBuffers THEN "returned" ELSE "release"
      /\ position' \in [Buffers -> 0 .. Length]
  BY SetPositionDoes
<1>2. /\ copy[t] # NoCopy =>
           copy[t] \in Content /\ jvmCopies /\ buf[t] \notin DirectBuffers
      /\ sent[t] # NoCopy => sent[t] \in [0 .. moved[t] - 1 -> Bytes]
  BY DEF TypedSoFar, CallSound
<1>3. mem' \in [Arrays -> Content]
  BY <1>1 DEF TypedSoFar
<1>4. QED
  BY <1>1, <1>2, <1>3, OnwardSound

LEMMA ReleaseTyped ==
  ASSUME TypedSoFar, NEW t \in Threads, Release(t)
  PROVE  TypedSoFar'
<1>1. /\ Onward(t) /\ UNCHANGED <<position, moved, sent>>
      /\ pc[t] = "release" /\ pc'[t] = "returned" /\ copy'[t] = NoCopy
      /\ mem' \in [Arrays -> Content]
  BY ReleaseDoes
<1>2. /\ moved[t] <= rem[t]
      /\ sent[t] # NoCopy => sent[t] \in [0 .. moved[t] - 1 -> Bytes]
  BY <1>1 DEF TypedSoFar, CallSound
<1>3. position' \in [Buffers -> 0 .. Length]
  BY <1>1 DEF TypedSoFar
<1>4. QED
  BY <1>1, <1>2, <1>3, OnwardSound

LEMMA FinishTyped ==
  ASSUME TypedSoFar, NEW t \in Threads, Finish(t)
  PROVE  TypedSoFar'
<1>1. /\ OthersStay(t) /\ copy' = copy
      /\ pc[t] = "returned" /\ pc'[t] = "idle" /\ buf'[t] = NoBuffer
      /\ sent'[t] = NoCopy
      /\ position' \in [Buffers -> 0 .. Length]
      /\ limit' \in [Buffers -> 0 .. Length]
      /\ mem' \in [Arrays -> Content]
  BY FinishDoes
<1>2. copy[t] = NoCopy
  BY <1>1 DEF TypedSoFar, CallSound
<1>3. CallSound(t)'
  BY <1>1, <1>2 DEF CallSound, InCall
<1>4. QED
  BY <1>1, <1>3, OthersSound

LEMMA TypedNext == TypedSoFar /\ [Next]_vars => TypedSoFar'
<1>1. SUFFICES ASSUME TypedSoFar, [Next]_vars PROVE TypedSoFar'
  OBVIOUS
<1>2. CASE UNCHANGED vars
  BY <1>1, <1>2 DEF vars, TypedSoFar, CallSound, InCall
<1>3. CASE Next
  BY <1>1, <1>3, BeginTyped, AccessTyped, ReadTyped, WriteTyped,
     SetPositionTyped, ReleaseTyped, FinishTyped DEF Next
<1>4. QED
  BY <1>1, <1>2, <1>3

LEMMA TypedIsTypeOK == TypedSoFar => TypeOK
BY DEF TypedSoFar, TypeOK, Steps, CallSound

(* No step takes a position beyond the memory of its buffer or a byte from *)
(* outside it, on any platform and wherever a transfer starts.             *)
THEOREM TypeCorrect == Spec => []TypeOK
<1>1. QED
  BY TypedInit, TypedNext, TypedIsTypeOK, PTL DEF Spec

-----------------------------------------------------------------------------
(* The position                                                            *)

LEMMA PositionsInit == Init => PositionsSoFar
<1>1. SUFFICES ASSUME Init PROVE PositionsSoFar
  OBVIOUS
<1>2. ASSUME NEW b \in Buffers PROVE position[b] <= limit[b]
  <2>1. Capacity[b] \in Nat /\ position[b] = 0 /\ limit[b] = Capacity[b]
    BY <1>1 DEF Init
  <2>2. QED
    BY <2>1
<1>3. QED
  BY <1>1, <1>2 DEF Init, PositionsSoFar, OwnBuffer, Placed, InCall

(* A step within a call that leaves all positions alone                    *)
LEMMA PositionsStay ==
  ASSUME TypedSoFar, PositionsSoFar, NEW t \in Threads, Onward(t),
         position' = position, Placed(t)'
  PROVE  PositionsSoFar'
<1>1. /\ UNCHANGED <<limit, buf, pos, rem>>
      /\ \A u \in Threads \ {t} : pc'[u] = pc[u] /\ moved'[u] = moved[u]
      /\ \A u \in Threads : InCall(u)' <=> InCall(u)
  BY DEF Onward, OthersStay, InCall
<1>2. OwnBuffer'
  BY <1>1 DEF PositionsSoFar, OwnBuffer
<1>3. ASSUME NEW u \in Threads \ {t} PROVE Placed(u)'
  BY <1>1 DEF PositionsSoFar, Placed
<1>4. QED
  BY <1>1, <1>2, <1>3 DEF PositionsSoFar

LEMMA PositionsNext == TypedSoFar /\ PositionsSoFar /\ [Next]_vars => PositionsSoFar'
<1>1. SUFFICES ASSUME TypedSoFar, PositionsSoFar, [Next]_vars PROVE PositionsSoFar'
  OBVIOUS
<1>2. ASSUME NEW t \in Threads, NEW b \in Buffers,
             NEW what \in {"read", "write"}, Begin(t, b, what)
      PROVE PositionsSoFar'
  <2>1. PICK p \in Nat, l \in Nat : Starting(t, b, what, p, l)
    BY <1>1, <1>2, BeginDoes
  <2>2. \A u \in Threads : InCall(u) => buf[u] \in Buffers \ {b}
    BY <1>1, <2>1, InCallTypes DEF Starting, Apart, TypedSoFar, CallSound
  <2>3. \A u \in Threads \ {t} :
          /\ InCall(u)' <=> InCall(u)
          /\ pc'[u] = pc[u] /\ buf'[u] = buf[u] /\ pos'[u] = pos[u]
          /\ rem'[u] = rem[u] /\ moved'[u] = moved[u]
    BY <2>1 DEF Starting, OthersStay, InCall
  <2>4. /\ buf'[t] = b /\ ~InCall(t) /\ b \in Buffers
        /\ \A c \in Buffers \ {b} : position'[c] = position[c] /\ limit'[c] = limit[c]
    BY <2>1 DEF Starting
  <2>5. OwnBuffer'
    BY <1>1, <2>2, <2>3, <2>4 DEF PositionsSoFar, OwnBuffer
  <2>6. \A c \in Buffers : position'[c] <= limit'[c]
    <3>1. position'[b] <= limit'[b]
      BY <2>1 DEF Starting
    <3>2. \A c \in Buffers \ {b} : position'[c] <= limit'[c]
      BY <1>1, <2>4 DEF PositionsSoFar
    <3>3. QED
      BY <3>1, <3>2
  <2>7. ASSUME NEW u \in Threads \ {t} PROVE Placed(u)'
    BY <1>1, <2>2, <2>3, <2>4 DEF PositionsSoFar, Placed
  <2>8. Placed(t)'
    BY <2>1 DEF Starting, Placed
  <2>9. QED
    BY <2>5, <2>6, <2>7, <2>8 DEF PositionsSoFar
<1>3. ASSUME NEW t \in Threads, Access(t) PROVE PositionsSoFar'
  <2>1. /\ Onward(t) /\ position' = position
        /\ pc[t] = "access" /\ pc'[t] = "syscall" /\ Placed(t)
    BY <1>1, <1>3, AccessDoes DEF PositionsSoFar
  <2>2. Placed(t)'
    BY <2>1 DEF Placed, Onward
  <2>3. QED
    BY <1>1, <2>1, <2>2, PositionsStay
<1>4. ASSUME NEW t \in Threads,
             \/ SystemCall(t, "read", ReadAddress(t))
             \/ SystemCall(t, "write", WriteAddress(t))
      PROVE PositionsSoFar'
  <2>1. pc[t] = "syscall" /\ InCall(t)
    BY <1>4 DEF SystemCall, InCall
  <2>2. /\ ReadAddress(t) \in Nat
        /\ WriteAddress(t) \in Nat /\ WriteAddress(t) + rem[t] <= Length
    BY <1>1, <2>1, AddressInMemory
  <2>3. /\ Onward(t) /\ position' = position
        /\ moved'[t] \in -1 .. rem[t]
        /\ pc'[t] = IF moved'[t] >= 0 THEN "setpos"
                    ELSE IF buf[t] \in DirectBuffers THEN "returned" ELSE "release"
    BY <1>1, <1>4, <2>2, ReadDoes, WriteDoes
  <2>4. /\ limit[buf[t]] = pos[t] + rem[t] /\ position[buf[t]] = pos[t]
        /\ pos[t] \in Nat
    BY <1>1, <2>1 DEF PositionsSoFar, Placed, TypedSoFar
  <2>5. Placed(t)'
    BY <2>3, <2>4 DEF Placed, Onward
  <2>6. QED
    BY <1>1, <2>3, <2>5, PositionsStay
<1>5. ASSUME NEW t \in Threads, SetPosition(t) PROVE PositionsSoFar'
  <2>1. /\ Onward(t) /\ InCall(t) /\ moved' = moved
        /\ moved[t] >= 0 /\ moved[t] <= rem[t]
        /\ pc'[t] = IF buf[t] \in DirectBuffers THEN "returned" ELSE "release"
        /\ position'[buf[t]] = pos[t] + moved[t]
        /\ \A b \in Buffers \ {buf[t]} : position'[b] = position[b]
    BY <1>1, <1>5, SetPositionDoes DEF Onward
  <2>2. /\ UNCHANGED <<limit, buf, pos, rem>>
        /\ \A u \in Threads \ {t} : pc'[u] = pc[u]
        /\ \A u \in Threads : InCall(u)' <=> InCall(u)
    BY <2>1 DEF Onward, OthersStay, InCall
  <2>3. \A u \in Threads \ {t} : InCall(u) => buf[u] \in Buffers \ {buf[t]}
    BY <1>1, <2>1, InCallTypes DEF PositionsSoFar, OwnBuffer
  <2>4. OwnBuffer'
    BY <1>1, <2>2 DEF PositionsSoFar, OwnBuffer
  <2>5. limit[buf[t]] = pos[t] + rem[t] /\ buf[t] \in Buffers
        /\ pos[t] \in Nat /\ rem[t] \in Nat /\ moved[t] \in Int
    BY <1>1, <2>1, InCallTypes DEF PositionsSoFar, Placed
  <2>6. \A b \in Buffers : position'[b] <= limit'[b]
    BY <1>1, <2>1, <2>2, <2>5 DEF PositionsSoFar
  <2>7. ASSUME NEW u \in Threads \ {t} PROVE Placed(u)'
    BY <1>1, <2>1, <2>2, <2>3 DEF PositionsSoFar, Placed
  <2>8. Placed(t)'
    BY <2>1, <2>2, <2>5 DEF Placed
  <2>9. QED
    BY <2>4, <2>6, <2>7, <2>8 DEF PositionsSoFar
<1>6. ASSUME NEW t \in Threads, Release(t) PROVE PositionsSoFar'
  <2>1. /\ Onward(t) /\ position' = position /\ moved' = moved
        /\ pc[t] = "release" /\ pc'[t] = "returned" /\ Placed(t)
    BY <1>1, <1>6, ReleaseDoes DEF PositionsSoFar
  <2>2. Placed(t)'
    BY <2>1 DEF Placed, Onward
  <2>3. QED
    BY <1>1, <2>1, <2>2, PositionsStay
<1>7. ASSUME NEW t \in Threads, Finish(t) PROVE PositionsSoFar'
  <2>1. /\ OthersStay(t)
        /\ pc[t] = "returned" /\ pc'[t] = "idle" /\ InCall(t)
        /\ position'[buf[t]] = 0 /\ limit'[buf[t]] = Capacity[buf[t]]
        /\ \A b \in Buffers \ {buf[t]} :
             position'[b] = position[b] /\ limit'[b] = limit[b]
    BY <1>1, <1>7, FinishDoes DEF InCall
  <2>2. \A u \in Threads \ {t} :
          /\ InCall(u)' <=> InCall(u)
          /\ pc'[u] = pc[u] /\ buf'[u] = buf[u] /\ pos'[u] = pos[u]
          /\ rem'[u] = rem[u] /\ moved'[u] = moved[u]
    BY <2>1 DEF OthersStay, InCall
  <2>3. ~InCall(t)'
    BY <2>1 DEF InCall
  <2>4. \A u \in Threads \ {t} : InCall(u) => buf[u] \in Buffers \ {buf[t]}
    BY <1>1, <2>1, InCallTypes DEF PositionsSoFar, OwnBuffer
  <2>5. OwnBuffer'
    BY <1>1, <2>2, <2>3 DEF PositionsSoFar, OwnBuffer
  <2>6. Capacity[buf[t]] >= 0
    BY <1>1, <2>1, InCallTypes
  <2>7. \A b \in Buffers : position'[b] <= limit'[b]
    BY <1>1, <2>1, <2>6 DEF PositionsSoFar
  <2>8. ASSUME NEW u \in Threads \ {t} PROVE Placed(u)'
    BY <1>1, <2>1, <2>2, <2>4 DEF PositionsSoFar, Placed
  <2>9. Placed(t)'
    BY <2>3 DEF Placed
  <2>10. QED
    BY <2>5, <2>7, <2>8, <2>9 DEF PositionsSoFar
<1>8. CASE UNCHANGED vars
  BY <1>1, <1>8 DEF vars, PositionsSoFar, OwnBuffer, Placed, InCall
<1>9. QED
  BY <1>1, <1>2, <1>3, <1>4, <1>5, <1>6, <1>7, <1>8 DEF Next

(* A call that returns has moved the position by what it returned, a call  *)
(* that throws not at all, and no call takes it past the limit, with any   *)
(* number of calls on other buffers at once: position() is set after the   *)
(* system call, from the position the call found when it began.            *)
THEOREM PositionFollows == Spec => []PositionFollowsCount
<1> DEFINE Inv == TypedSoFar /\ PositionsSoFar
<1>1. Init => Inv
  BY TypedInit, PositionsInit
<1>2. Inv /\ [Next]_vars => Inv'
  BY TypedNext, PositionsNext
<1>3. Inv => PositionFollowsCount
  BY DEF PositionsSoFar, Placed, InCall, PositionFollowsCount
<1>4. QED
  BY <1>1, <1>2, <1>3, PTL DEF Spec

-----------------------------------------------------------------------------
(* Which cells belong to which call                                        *)

CellsSoFar == OwnCells /\ \A t \in Threads : StartSound(t)

(* The part of memory a call is about stays what it is.                    *)
LEMMA SameCells ==
  ASSUME NEW t \in Threads, buf'[t] = buf[t], pos'[t] = pos[t], rem'[t] = rem[t]
  PROVE  /\ ArrayUsed(t)' = ArrayUsed(t) /\ Start(t)' = Start(t)
         /\ Window(t)' = Window(t)
BY DEF ArrayUsed, Start, Window

LEMMA CellsInit == Init => CellsSoFar
BY DEF Init, CellsSoFar, OwnCells, StartSound, InCall

(* Calls go on or end.                                                     *)
LEMMA CellsStay ==
  ASSUME CellsSoFar, platform' = platform, jvmCopies' = jvmCopies,
         \A u \in Threads :
           InCall(u)' => /\ InCall(u) /\ buf'[u] = buf[u]
                         /\ pos'[u] = pos[u] /\ rem'[u] = rem[u]
  PROVE  CellsSoFar'
<1>1. \A u \in Threads : InCall(u)' =>
        /\ InCall(u) /\ buf'[u] = buf[u] /\ pos'[u] = pos[u]
        /\ ArrayUsed(u)' = ArrayUsed(u) /\ Window(u)' = Window(u)
  BY SameCells
<1>2. OwnCells'
  <2>1. SUFFICES ASSUME NEW t \in Threads, NEW u \in Threads, InCall(t)', InCall(u)',
                        t # u, ArrayUsed(t)' = ArrayUsed(u)'
                 PROVE  /\ jvmCopies => buf[t] \in DirectBuffers
                        /\ \A i \in Cells : ~(i \in Window(t) /\ i \in Window(u))
    BY <1>1 DEF OwnCells
  <2>2. QED
    BY <1>1, <2>1 DEF CellsSoFar, OwnCells
<1>3. \A u \in Threads : StartSound(u)'
  BY <1>1 DEF CellsSoFar, StartSound
<1>4. QED
  BY <1>2, <1>3 DEF CellsSoFar

LEMMA BeginCells ==
  ASSUME TypedSoFar, CellsSoFar, NEW t \in Threads, NEW b \in Buffers,
         NEW what \in {"read", "write"}, Begin(t, b, what)
  PROVE  CellsSoFar'
<1>1. PICK p \in Nat, l \in Nat : Starting(t, b, what, p, l)
  BY BeginDoes
<1>2. /\ ~InCall(t) /\ buf'[t] = b /\ pos'[t] = p /\ rem'[t] = l - p
      /\ platform' = platform /\ jvmCopies' = jvmCopies /\ p \in Starts(b)
      /\ \A u \in Threads \ {t} :
           /\ InCall(u)' <=> InCall(u)
           /\ buf'[u] = buf[u] /\ pos'[u] = pos[u] /\ rem'[u] = rem[u]
  BY <1>1 DEF Starting, OthersStay, InCall
<1>3. \A u \in Threads \ {t} : ArrayUsed(u)' = ArrayUsed(u) /\ Window(u)' = Window(u)
  BY <1>2, SameCells
<1> DEFINE cells == OffsetOf[b] + p .. OffsetOf[b] + l - 1
<1>4. ArrayUsed(t)' = ArrayOf[b] /\ Window(t)' = cells
  <2>1. OffsetOf[b] \in Nat
    OBVIOUS
  <2>2. OffsetOf[b] + p + (l - p) - 1 = OffsetOf[b] + l - 1
    BY <2>1
  <2>3. Window(t)' = OffsetOf[b] + p .. OffsetOf[b] + p + (l - p) - 1
    BY <1>2 DEF Window, Start
  <2>4. QED
    BY <1>2, <2>2, <2>3 DEF ArrayUsed
<1>5. ASSUME NEW u \in Threads \ {t}, InCall(u), ArrayUsed(u) = ArrayOf[b]
      PROVE  /\ jvmCopies => b \in DirectBuffers
             /\ jvmCopies => buf[u] \in DirectBuffers
             /\ \A i \in Cells : ~(i \in Window(u) /\ i \in cells)
  <2>1. buf[u] # NoBuffer /\ buf[u] \in Buffers
    BY <1>5, InCallTypes DEF TypedSoFar, CallSound
  <2>2. /\ jvmCopies => b \in DirectBuffers
        /\ Window(u) \cap cells = {}
    BY <1>1, <1>5, <2>1 DEF Starting, Apart
  <2>3. b \in DirectBuffers <=> buf[u] \in DirectBuffers
    BY <1>5, <2>1 DEF ArrayUsed
  <2>4. QED
    BY <2>2, <2>3
<1> HIDE DEF cells
<1>6. OwnCells'
  <2>1. SUFFICES ASSUME NEW u \in Threads, NEW v \in Threads, InCall(u)', InCall(v)',
                        u # v, ArrayUsed(u)' = ArrayUsed(v)'
                 PROVE  /\ jvmCopies => buf'[u] \in DirectBuffers
                        /\ \A i \in Cells : ~(i \in Window(u)' /\ i \in Window(v)')
    BY <1>2 DEF OwnCells
  <2>2. CASE u = t
    BY <1>2, <1>3, <1>4, <1>5, <2>1, <2>2
  <2>3. CASE v = t
    BY <1>2, <1>3, <1>4, <1>5, <2>1, <2>3
  <2>4. CASE u # t /\ v # t
    BY <1>2, <1>3, <2>1, <2>4 DEF CellsSoFar, OwnCells
  <2>5. QED
    BY <2>2, <2>3, <2>4
<1>7. ASSUME NEW u \in Threads PROVE StartSound(u)'
  <2>1. CASE u = t
    BY <1>2, <2>1 DEF StartSound, Starts
  <2>2. CASE u # t
    BY <1>2, <2>2 DEF CellsSoFar, StartSound
  <2>3. QED
    BY <2>1, <2>2
<1>8. QED
  BY <1>6, <1>7 DEF CellsSoFar

-----------------------------------------------------------------------------
(* What a step changes in memory                                           *)

ChangesOwn(t) ==
  \A a \in Arrays, i \in Cells :
    mem'[a][i] # mem[a][i] =>
      op[t] = "read" /\ ArrayUsed(t) = a /\ i \in Window(t)

BytesSoFar == CellsSoFar /\ \A t \in Threads : CopySound(t) /\ BytesSound(t)

(* Whoever else is in a call keeps its bytes; if it has a copy, it is the  *)
(* only user of the array.                                                 *)
LEMMA OthersKeepBytes ==
  ASSUME TypedSoFar, BytesSoFar, NEW t \in Threads, InCall(t), ChangesOwn(t),
         OthersStay(t), NEW u \in Threads \ {t}
  PROVE  CopySound(u)' /\ BytesSound(u)'
<1>1. /\ pc'[u] = pc[u] /\ op'[u] = op[u] /\ buf'[u] = buf[u]
      /\ pos'[u] = pos[u] /\ rem'[u] = rem[u] /\ copy'[u] = copy[u]
      /\ moved'[u] = moved[u] /\ sent'[u] = sent[u]
      /\ ArrayUsed(u)' = ArrayUsed(u) /\ Start(u)' = Start(u)
      /\ Window(u)' = Window(u)
  BY SameCells DEF OthersStay
<1>2. CASE ~InCall(u)
  BY <1>1, <1>2 DEF CopySound, BytesSound, InCall, TypedSoFar, CallSound
<1>3. CASE InCall(u)
  <2>1. /\ ArrayUsed(u) \in Arrays /\ Window(u) \subseteq Cells
        /\ Start(u) \in Nat /\ rem[u] \in Nat /\ moved[u] \in Int
    BY <1>3, InCallTypes
  <2>2. ArrayUsed(t) = ArrayUsed(u) =>
          /\ jvmCopies => buf[u] \in DirectBuffers
          /\ \A i \in Cells : ~(i \in Window(t) /\ i \in Window(u))
    BY <1>3 DEF BytesSoFar, CellsSoFar, OwnCells
  <2>3. \A i \in Window(u) : mem'[ArrayUsed(u)][i] = mem[ArrayUsed(u)][i]
    BY <2>1, <2>2 DEF ChangesOwn
  <2>4. CASE copy[u] # NoCopy
    <3>1. jvmCopies /\ buf[u] \notin DirectBuffers
      BY <2>4 DEF TypedSoFar, CallSound
    <3>2. ArrayUsed(t) # ArrayUsed(u)
      BY <2>2, <3>1
    <3>3. \A i \in Cells : mem'[ArrayUsed(u)][i] = mem[ArrayUsed(u)][i]
      BY <2>1, <3>2 DEF ChangesOwn
    <3>4. CopySound(u) /\ BytesSound(u)
      BY DEF BytesSoFar
    <3>5. CopySound(u)'
      BY <1>1, <3>3, <3>4 DEF CopySound
    <3>6. Holder(u)' = Holder(u)
      BY <1>1, <2>4 DEF Holder
    <3>7. BytesSound(u)'
      BY <1>1, <3>4, <3>6 DEF BytesSound
    <3>8. QED
      BY <3>5, <3>7
  <2>5. CASE copy[u] = NoCopy
    <3>1. CopySound(u)'
      BY <1>1, <2>5 DEF CopySound
    <3>2. \A i \in Window(u) : Holder(u)'[i] = Holder(u)[i]
      BY <1>1, <2>3, <2>5 DEF Holder
    <3>3. ASSUME pc[u] \in {"setpos", "release", "returned"},
                 NEW i \in 0 .. moved[u] - 1
          PROVE Start(u) + i \in Window(u)
      <4>1. moved[u] <= rem[u]
        BY <3>3 DEF TypedSoFar, CallSound
      <4>2. QED
        BY <2>1, <3>3, <4>1 DEF Window
    <3>4. BytesSound(u)
      BY DEF BytesSoFar
    <3>5. BytesSound(u)'
      BY <1>1, <3>2, <3>3, <3>4 DEF BytesSound
    <3>6. QED
      BY <3>1, <3>5
  <2>6. QED
    BY <2>4, <2>5
<1>4. QED
  BY <1>2, <1>3

LEMMA OnwardBytes ==
  ASSUME TypedSoFar, BytesSoFar, NEW t \in Threads, Onward(t), ChangesOwn(t),
         CopySound(t)', BytesSound(t)'
  PROVE  BytesSoFar'
<1>1. OthersStay(t) /\ InCall(t) /\ UNCHANGED <<op, buf, pos, rem>>
  BY DEF Onward
<1>2. CellsSoFar'
  <2>1. \A u \in Threads : InCall(u)' => /\ InCall(u) /\ buf'[u] = buf[u]
                                         /\ pos'[u] = pos[u] /\ rem'[u] = rem[u]
    BY <1>1 DEF OthersStay, InCall
  <2>2. platform' = platform /\ jvmCopies' = jvmCopies
    BY <1>1 DEF OthersStay
  <2>3. QED
    BY <2>1, <2>2, CellsStay DEF BytesSoFar
<1>3. \A u \in Threads \ {t} : CopySound(u)' /\ BytesSound(u)'
  BY <1>1, OthersKeepBytes
<1>4. QED
  BY <1>2, <1>3 DEF BytesSoFar

LEMMA AccessBytes ==
  ASSUME TypedSoFar, BytesSoFar, NEW t \in Threads, Access(t)
  PROVE  Onward(t) /\ ChangesOwn(t) /\ CopySound(t)' /\ BytesSound(t)'
<1>1. /\ Onward(t) /\ mem' = mem /\ pc'[t] = "syscall"
      /\ copy'[t] = NoCopy \/ copy'[t] = mem[ArrayUsed(t)]
  BY AccessDoes
<1>2. ArrayUsed(t)' = ArrayUsed(t)
  BY <1>1, SameCells DEF Onward
<1>3. CopySound(t)'
  BY <1>1, <1>2 DEF CopySound
<1>4. BytesSound(t)'
  BY <1>1 DEF BytesSound
<1>5. QED
  BY <1>1, <1>3, <1>4 DEF ChangesOwn

LEMMA ReadBytes ==
  ASSUME DirectFromStart, TypedSoFar, BytesSoFar, NEW t \in Threads,
         SystemCall(t, "read", ReadAddress(t))
  PROVE  Onward(t) /\ ChangesOwn(t) /\ CopySound(t)' /\ BytesSound(t)'
<1> DEFINE s == ReadAddress(t)
           n == moved'[t]
<1>1. InCall(t) /\ StartSound(t) /\ CopySound(t)
  BY DEF SystemCall, InCall, BytesSoFar, CellsSoFar
<1>2. s = Start(t) /\ s \in Nat /\ s + rem[t] <= Length /\ rem[t] \in Nat
  BY <1>1, AddressIsStart, AddressInMemory, InCallTypes
<1>3. /\ Onward(t) /\ op[t] = "read" /\ op' = op
      /\ copy'[t] = NoCopy <=> copy[t] = NoCopy
      /\ copy'[t] # NoCopy => mem' = mem
      /\ \A a \in Arrays \ {ArrayUsed(t)} : mem'[a] = mem[a]
  BY <1>2, ReadDoes DEF Onward
<1>4. /\ n \in -1 .. rem[t]
      /\ \A i \in Cells :
           Holder(t)'[i] = IF i \in s .. s + n - 1 THEN <<t, i - s>> ELSE Holder(t)[i]
  BY <1>2, ReadDoes
<1>5. /\ ArrayUsed(t)' = ArrayUsed(t) /\ Start(t)' = Start(t)
      /\ Window(t)' = Window(t)
  BY <1>3, SameCells DEF Onward
<1> HIDE DEF s, n
<1>6. \A i \in Cells : Holder(t)'[i] # Holder(t)[i] => i \in Window(t)
  <2>1. Window(t) = s .. s + rem[t] - 1
    BY <1>2 DEF Window
  <2>2. s .. s + n - 1 \subseteq s .. s + rem[t] - 1
    BY <1>2, <1>4
  <2>3. QED
    BY <1>4, <2>1, <2>2
<1>7. ChangesOwn(t) /\ CopySound(t)'
  <2>1. CASE copy[t] = NoCopy
    <3>1. Holder(t) = mem[ArrayUsed(t)] /\ Holder(t)' = mem'[ArrayUsed(t)]
      BY <1>3, <1>5, <2>1 DEF Holder
    <3>2. ChangesOwn(t)
      BY <1>3, <1>6, <3>1 DEF ChangesOwn
    <3>3. QED
      BY <1>3, <2>1, <3>2 DEF CopySound
  <2>2. CASE copy[t] # NoCopy
    <3>1. Holder(t) = copy[t] /\ Holder(t)' = copy'[t] /\ mem' = mem
      BY <1>3, <2>2 DEF Holder
    <3>2. ASSUME NEW i \in Cells, copy'[t][i] # mem[ArrayUsed(t)][i]
          PROVE  op[t] = "read" /\ i \in Window(t)
      BY <1>1, <1>3, <1>6, <2>2, <3>1, <3>2 DEF CopySound
    <3>3. CopySound(t)'
      BY <1>3, <1>5, <3>1, <3>2 DEF CopySound
    <3>4. QED
      BY <3>1, <3>3 DEF ChangesOwn
  <2>3. QED
    BY <2>1, <2>2
<1>8. BytesSound(t)'
  <2>1. ASSUME NEW i \in 0 .. n - 1 PROVE Holder(t)'[Start(t) + i] = <<t, i>>
    <3>1. s + i \in Cells /\ s + i \in s .. s + n - 1 /\ (s + i) - s = i
      BY <1>2, <1>4 DEF Cells
    <3>2. QED
      BY <1>2, <1>4, <3>1
  <2>2. QED
    BY <1>3, <1>5, <2>1 DEF BytesSound, n
<1>9. QED
  BY <1>3, <1>7, <1>8

LEMMA WriteBytes ==
  ASSUME DirectFromStart, TypedSoFar, BytesSoFar, NEW t \in Threads,
         SystemCall(t, "write", WriteAddress(t))
  PROVE  Onward(t) /\ ChangesOwn(t) /\ CopySound(t)' /\ BytesSound(t)'
<1>1. InCall(t) /\ StartSound(t) /\ CopySound(t)
  BY DEF SystemCall, InCall, BytesSoFar, CellsSoFar
<1>2. /\ WriteAddress(t) = Start(t) /\ WriteAddress(t) \in Nat
      /\ WriteAddress(t) + rem[t] <= Length
  BY <1>1, AddressIsStart, AddressInMemory
<1>3. /\ Onward(t) /\ op' = op /\ op[t] = "write"
      /\ mem' = mem /\ copy' = copy
      /\ \A i \in 0 .. moved'[t] - 1 : sent'[t][i] = Holder(t)[Start(t) + i]
  BY <1>2, WriteDoes DEF Onward
<1>4. /\ ArrayUsed(t)' = ArrayUsed(t) /\ Start(t)' = Start(t)
      /\ Window(t)' = Window(t)
  BY <1>3, SameCells DEF Onward
<1>5. CopySound(t)'
  BY <1>1, <1>3, <1>4 DEF CopySound
<1>6. Holder(t)' = Holder(t)
  BY <1>3, <1>4 DEF Holder
<1>7. BytesSound(t)'
  BY <1>3, <1>4, <1>6 DEF BytesSound
<1>8. QED
  BY <1>3, <1>5, <1>7 DEF ChangesOwn

LEMMA SetPositionBytes ==
  ASSUME TypedSoFar, BytesSoFar, NEW t \in Threads, SetPosition(t)
  PROVE  Onward(t) /\ ChangesOwn(t) /\ CopySound(t)' /\ BytesSound(t)'
<1>1. /\ Onward(t) /\ pc[t] = "setpos" /\ op' = op
      /\ UNCHANGED <<mem, copy, moved, sent>>
  BY SetPositionDoes DEF Onward
<1>2. /\ ArrayUsed(t)' = ArrayUsed(t) /\ Start(t)' = Start(t)
      /\ Window(t)' = Window(t)
  BY <1>1, SameCells DEF Onward
<1>3. Holder(t)' = Holder(t)
  BY <1>1, <1>2 DEF Holder
<1>4. CopySound(t) /\ BytesSound(t)
  BY DEF BytesSoFar
<1>5. CopySound(t)'
  BY <1>1, <1>2, <1>4 DEF CopySound
<1>6. BytesSound(t)'
  BY <1>1, <1>2, <1>3, <1>4 DEF BytesSound
<1>7. QED
  BY <1>1, <1>5, <1>6 DEF ChangesOwn

(* Copying the whole array back changes it only where the packet is.       *)
LEMMA ReleaseBytes ==
  ASSUME TypedSoFar, BytesSoFar, NEW t \in Threads, Release(t)
  PROVE  Onward(t) /\ ChangesOwn(t) /\ CopySound(t)' /\ BytesSound(t)'
<1>1. /\ Onward(t) /\ pc[t] = "release" /\ op' = op
      /\ UNCHANGED <<moved, sent>> /\ copy'[t] = NoCopy
      /\ mem'[ArrayUsed(t)] = Holder(t)
      /\ \A a \in Arrays \ {ArrayUsed(t)} : mem'[a] = mem[a]
  BY ReleaseDoes DEF Onward
<1>2. /\ ArrayUsed(t)' = ArrayUsed(t) /\ Start(t)' = Start(t)
      /\ Window(t)' = Window(t)
  BY <1>1, SameCells DEF Onward
<1>3. Holder(t)' = Holder(t)
  BY <1>1, <1>2 DEF Holder
<1>4. CopySound(t) /\ BytesSound(t)
  BY DEF BytesSoFar
<1>5. CopySound(t)'
  BY <1>1 DEF CopySound
<1>6. BytesSound(t)'
  BY <1>1, <1>2, <1>3, <1>4 DEF BytesSound
<1>7. \A i \in Cells :
        mem'[ArrayUsed(t)][i] # mem[ArrayUsed(t)][i] =>
          op[t] = "read" /\ i \in Window(t)
  BY <1>1, <1>4 DEF Holder, CopySound
<1>8. QED
  BY <1>1, <1>5, <1>6, <1>7 DEF ChangesOwn

LEMMA BeginBytes ==
  ASSUME TypedSoFar, BytesSoFar, NEW t \in Threads, NEW b \in Buffers,
         NEW what \in {"read", "write"}, Begin(t, b, what)
  PROVE  BytesSoFar' /\ mem' = mem
<1>1. PICK p \in Nat, l \in Nat : Starting(t, b, what, p, l)
  BY BeginDoes
<1>2. UNCHANGED <<mem, copy, moved, sent>> /\ OthersStay(t)
      /\ pc'[t] = "access" /\ ~InCall(t)
  BY <1>1 DEF Starting
<1>3. CellsSoFar'
  BY BeginCells DEF BytesSoFar
<1>4. copy[t] = NoCopy
  BY <1>2 DEF TypedSoFar, CallSound, InCall
<1>5. CopySound(t)' /\ BytesSound(t)'
  BY <1>2, <1>4 DEF CopySound, BytesSound
<1>6. ASSUME NEW u \in Threads \ {t} PROVE CopySound(u)' /\ BytesSound(u)'
  <2>1. /\ pc'[u] = pc[u] /\ op'[u] = op[u]
        /\ ArrayUsed(u)' = ArrayUsed(u) /\ Start(u)' = Start(u)
        /\ Window(u)' = Window(u)
    BY <1>2, SameCells DEF OthersStay
  <2>2. Holder(u)' = Holder(u)
    BY <1>2, <2>1 DEF Holder
  <2>3. CopySound(u) /\ BytesSound(u)
    BY DEF BytesSoFar
  <2>4. CopySound(u)'
    BY <1>2, <2>1, <2>3 DEF CopySound
  <2>5. BytesSound(u)'
    BY <1>2, <2>1, <2>2, <2>3 DEF BytesSound
  <2>6. QED
    BY <2>4, <2>5
<1>7. QED
  BY <1>2, <1>3, <1>5, <1>6 DEF BytesSoFar

LEMMA FinishBytes ==
  ASSUME TypedSoFar, BytesSoFar, NEW t \in Threads, Finish(t)
  PROVE  BytesSoFar' /\ ChangesOwn(t) /\ pc'[t] # pc[t]
<1>1. /\ OthersStay(t) /\ copy' = copy /\ InCall(t) /\ ~InCall(t)'
      /\ pc[t] = "returned" /\ pc'[t] = "idle"
      /\ platform' = platform /\ jvmCopies' = jvmCopies
  BY FinishDoes DEF InCall, OthersStay
<1>2. ChangesOwn(t)
  BY FinishDoes DEF ChangesOwn
<1>3. \A u \in Threads : InCall(u)' => /\ InCall(u) /\ buf'[u] = buf[u]
                                       /\ pos'[u] = pos[u] /\ rem'[u] = rem[u]
  BY <1>1 DEF OthersStay, InCall
<1>4. CellsSoFar'
  BY <1>1, <1>3, CellsStay DEF BytesSoFar
<1>5. copy[t] = NoCopy
  BY <1>1 DEF TypedSoFar, CallSound
<1>6. CopySound(t)' /\ BytesSound(t)'
  BY <1>1, <1>5 DEF CopySound, BytesSound
<1>7. \A u \in Threads \ {t} : CopySound(u)' /\ BytesSound(u)'
  BY <1>1, <1>2, OthersKeepBytes
<1>8. QED
  BY <1>1, <1>2, <1>4, <1>6, <1>7 DEF BytesSoFar

(* The steps after which a thread is still in its call or no longer in one *)
LEMMA CallBytes ==
  ASSUME DirectFromStart, TypedSoFar, BytesSoFar, NEW t \in Threads,
         \/ Access(t)
         \/ SystemCall(t, "read", ReadAddress(t))
         \/ SystemCall(t, "write", WriteAddress(t))
         \/ SetPosition(t)
         \/ Release(t)
         \/ Finish(t)
  PROVE  BytesSoFar' /\ ChangesOwn(t) /\ pc'[t] # pc[t]
<1>1. CASE ~Finish(t)
  <2>1. Onward(t) /\ ChangesOwn(t) /\ CopySound(t)' /\ BytesSound(t)'
    BY <1>1, AccessBytes, ReadBytes, WriteBytes, SetPositionBytes, ReleaseBytes
  <2>2. pc'[t] # pc[t]
    BY <2>1 DEF Onward
  <2>3. QED
    BY <2>1, <2>2, OnwardBytes
<1>2. CASE Finish(t)
  BY <1>2, FinishBytes
<1>3. QED
  BY <1>1, <1>2

LEMMA BytesInit == Init => BytesSoFar
<1>1. SUFFICES ASSUME Init PROVE BytesSoFar
  OBVIOUS
<1>2. \A t \in Threads : CopySound(t) /\ BytesSound(t)
  BY <1>1 DEF Init, CopySound, BytesSound
<1>3. QED
  BY <1>1, <1>2, CellsInit DEF BytesSoFar

LEMMA BytesNext ==
  ASSUME DirectFromStart
  PROVE  TypedSoFar /\ BytesSoFar /\ [Next]_vars => BytesSoFar'
<1>1. SUFFICES ASSUME TypedSoFar, BytesSoFar, [Next]_vars PROVE BytesSoFar'
  OBVIOUS
<1>2. ASSUME NEW t \in Threads, NEW b \in Buffers,
             Begin(t, b, "read") \/ Begin(t, b, "write")
      PROVE BytesSoFar'
  BY <1>1, <1>2, BeginBytes
<1>3. ASSUME NEW t \in Threads,
             \/ Access(t)
             \/ SystemCall(t, "read", ReadAddress(t))
             \/ SystemCall(t, "write", WriteAddress(t))
             \/ SetPosition(t)
             \/ Release(t)
             \/ Finish(t)
      PROVE BytesSoFar'
  BY <1>1, <1>3, CallBytes
<1>4. CASE UNCHANGED vars
  BY <1>1, <1>4 DEF vars, BytesSoFar, CellsSoFar, OwnCells, StartSound, CopySound,
     BytesSound, InCall, ArrayUsed, Start, Window, Holder
<1>5. QED
  BY <1>1, <1>2, <1>3, <1>4 DEF Next

-----------------------------------------------------------------------------
(* What the calls do to the bytes                                          *)

LEMMA ReturnedBytes ==
  ASSUME TypedSoFar, BytesSoFar, NEW t \in Threads, pc[t] = "returned"
  PROVE  BytesSound(t) /\ Holder(t) = mem[ArrayUsed(t)]
<1>1. copy[t] = NoCopy
  BY DEF TypedSoFar, CallSound
<1>2. QED
  BY <1>1 DEF BytesSoFar, Holder

(* A read() that returns n has the n bytes of its packet in the buffer, in *)
(* order, from its position on entry, whatever other calls went on in the  *)
(* same array meanwhile and whether the JVM copies arrays or pins them.    *)
THEOREM ReadFills ==
  ASSUME DirectFromStart
  PROVE  Spec => []ReadFillsWindow
<1> DEFINE Inv == TypedSoFar /\ BytesSoFar
<1>1. Init => Inv
  BY TypedInit, BytesInit
<1>2. Inv /\ [Next]_vars => Inv'
  BY TypedNext, BytesNext
<1>3. Inv => ReadFillsWindow
  BY ReturnedBytes DEF BytesSound, ReadFillsWindow
<1>4. QED
  BY <1>1, <1>2, <1>3, PTL DEF Spec

(* A write() has handed the device the bytes of the buffer from its        *)
(* position on entry, and they are still there when it returns.            *)
THEOREM WriteSends ==
  ASSUME DirectFromStart
  PROVE  Spec => []WriteSendsWindow
<1> DEFINE Inv == TypedSoFar /\ BytesSoFar
<1>1. Init => Inv
  BY TypedInit, BytesInit
<1>2. Inv /\ [Next]_vars => Inv'
  BY TypedNext, BytesNext
<1>3. Inv => WriteSendsWindow
  BY ReturnedBytes DEF BytesSound, WriteSendsWindow
<1>4. QED
  BY <1>1, <1>2, <1>3, PTL DEF Spec

(* A step changes memory only between position and limit of the buffer its *)
(* thread reads into, and not at all in a write(), although                *)
(* ReleaseByteArrayElements copies the whole array back after both.        *)
THEOREM OutsideUntouched ==
  ASSUME DirectFromStart
  PROVE  Spec => OutsideWindowUntouched
<1> DEFINE Inv == TypedSoFar /\ BytesSoFar
           Allowed == \A a \in Arrays, i \in Cells :
                        mem'[a][i] # mem[a][i] =>
                          \E t \in Threads :
                            /\ pc'[t] # pc[t]
                            /\ op[t] = "read"
                            /\ ArrayUsed(t) = a
                            /\ i \in Window(t)
<1>1. Init => Inv
  BY TypedInit, BytesInit
<1>2. Inv /\ [Next]_vars => Inv'
  BY TypedNext, BytesNext
<1>3. Inv /\ [Next]_vars => [Allowed]_vars
  <2>1. SUFFICES ASSUME Inv, Next PROVE Allowed
    OBVIOUS
  <2>2. ASSUME NEW t \in Threads, NEW b \in Buffers,
               Begin(t, b, "read") \/ Begin(t, b, "write")
        PROVE Allowed
    BY <2>1, <2>2, BeginBytes
  <2>3. ASSUME NEW t \in Threads,
               \/ Access(t)
               \/ SystemCall(t, "read", ReadAddress(t))
               \/ SystemCall(t, "write", WriteAddress(t))
               \/ SetPosition(t)
               \/ Release(t)
               \/ Finish(t)
        PROVE Allowed
    <3>1. ChangesOwn(t) /\ pc'[t] # pc[t]
      BY <2>1, <2>3, CallBytes
    <3>2. QED
      BY <3>1 DEF ChangesOwn
  <2>4. QED
    BY <2>1, <2>2, <2>3 DEF Next
<1>4. QED
  BY <1>1, <1>2, <1>3, PTL DEF Spec, OutsideWindowUntouched

==============================================================================
