------------------------- MODULE MCByteBufferTransfer -------------------------
(***************************************************************************)
(* Instances of ByteBufferTransfer for TLC: two pieces of memory of two    *)
(* cells, x a Java array and y native memory.  Buffer whole views all of   *)
(* x and tail is a slice of it that starts at cell 1, direct views all of  *)
(* y and slice is a slice of it.                                           *)
(***************************************************************************)
EXTENDS ByteBufferTransfer, TLC

CONSTANTS whole, tail, direct, slice, x, y

MCArrayOf  == [b \in Buffers |-> IF b \in {whole, tail} THEN x ELSE y]
MCOffsetOf == [b \in Buffers |-> IF b \in {tail, slice} THEN 1 ELSE 0]
MCCapacity == [b \in Buffers |-> IF b \in {tail, slice} THEN 1 ELSE 2]

(* What works: on Linux and macOS a direct buffer that was cleared.        *)
Cleared  == [p \in Platforms |-> IF p = "windows" THEN {0, 1} ELSE {0}]

(* What the API offers: a direct buffer at any position.                   *)
Anywhere == [p \in Platforms |-> {0, 1}]

Symmetry == Permutations(Threads)

==============================================================================
