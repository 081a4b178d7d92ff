------------------------ MODULE LibraryExtractionProofs ------------------------
(***************************************************************************)
(* Theorems about LibraryExtraction, for any number of processes and       *)
(* versions and libraries of any length.                                   *)
(***************************************************************************)
EXTENDS LibraryExtraction, TLAPS

USE ExtractionAssumption

LEMMA LibraryIsContent ==
  ASSUME NEW v \in Versions
  PROVE  Library(v) \in Content
BY DEF Library, Content, Chunks

LEMMA TypesKept == TypeOK /\ [Next]_vars => TypeOK'
<1> SUFFICES ASSUME TypeOK, [Next]_vars PROVE TypeOK'
  OBVIOUS
<1> USE DEF TypeOK, Goto
<1>1. ASSUME NEW p \in Processes, OpenStream(p)
      PROVE  TypeOK'
  BY <1>1 DEF OpenStream, EmptyFile, Content, Disturb
<1>2. ASSUME NEW p \in Processes, CopyChunk(p)
      PROVE  TypeOK'
  <2> DEFINE v == VersionOf[p]
             i == offset[p]
  <2>1. v \in Versions /\ i \in Positions /\ i + 1 \in 0 .. MaxLength
    BY <1>2 DEF CopyChunk, Positions
  <2>2. <<v, i>> \in Chunks
    BY <2>1 DEF Chunks
  <2>3. file' \in Content
    BY <1>2, <2>2 DEF CopyChunk, Content
  <2> QED
    BY <1>2, <2>1, <2>3 DEF CopyChunk, Disturb
<1>3. ASSUME NEW p \in Processes,
             OpenStreamFails(p) \/ CopyEnds(p) \/ CopyFails(p) \/ Load(p)
      PROVE  TypeOK'
  <2>1. CASE OpenStreamFails(p)
    BY <2>1 DEF OpenStreamFails
  <2>2. CASE CopyEnds(p)
    BY <2>2 DEF CopyEnds
  <2>3. CASE CopyFails(p)
    BY <2>3 DEF CopyFails
  <2>4. CASE Load(p)
    BY <2>4 DEF Load
  <2> QED
    BY <1>3, <2>1, <2>2, <2>3, <2>4
<1>4. ASSUME NEW p \in Processes, Restart(p)
      PROVE  TypeOK'
  BY <1>4 DEF Restart, EmptyFile, Content
<1>5. CASE UNCHANGED vars
  BY <1>5 DEF vars
<1> QED
  BY <1>1, <1>2, <1>3, <1>4, <1>5 DEF Next

(* Every chunk a stream writes is one of its library, at a position within *)
(* it, whatever other processes do to the file; types are kept.            *)
THEOREM TypeCorrect == Spec => []TypeOK
<1>1. Init => TypeOK
  BY LibraryIsContent DEF Init, TypeOK, EmptyFile, Content
<1> QED
  BY <1>1, TypesKept, PTL DEF Spec

-----------------------------------------------------------------------------
(* A copy nobody disturbs.                                                 *)

(* The chunks of version v up to position n, and nothing after them        *)
Prefix(v, n) == [i \in Positions |-> IF i < n THEN <<v, i>> ELSE Hole]

(* As long as p is clean the file is what p's own stream made of it.       *)
CleanSound ==
  \A p \in Processes :
    clean[p] =>
      /\ pc[p] # "start"
      /\ pc[p] = "copy" => file = Prefix(VersionOf[p], offset[p])
      /\ pc[p] = "load" => file = Library(VersionOf[p])
      /\ pc[p] = "loaded" => loaded[p] = Library(VersionOf[p])

LEMMA CleanKept == TypeOK /\ CleanSound /\ [Next]_vars => CleanSound'
<1> SUFFICES ASSUME TypeOK, CleanSound, [Next]_vars PROVE CleanSound'
  OBVIOUS
<1> USE DEF CleanSound, TypeOK, Goto
<1>1. ASSUME NEW p \in Processes, OpenStream(p)
      PROVE  CleanSound'
  <2>1. \A q \in Processes : clean'[q] => q = p
    BY <1>1 DEF OpenStream, Disturb
  <2>2. pc'[p] = "copy" /\ offset'[p] = 0 /\ file' = EmptyFile
    BY <1>1 DEF OpenStream
  <2>3. EmptyFile = Prefix(VersionOf[p], 0)
    BY DEF EmptyFile, Prefix, Positions
  <2> QED
    BY <2>1, <2>2, <2>3
<1>2. ASSUME NEW p \in Processes, CopyChunk(p)
      PROVE  CleanSound'
  <2>1. \A q \in Processes : clean'[q] => q = p /\ clean[p]
    BY <1>2 DEF CopyChunk, Disturb
  <2>2. /\ pc[p] = "copy" /\ pc'[p] = "copy"
        /\ offset'[p] = offset[p] + 1
        /\ file' = [file EXCEPT ![offset[p]] = <<VersionOf[p], offset[p]>>]
    BY <1>2 DEF CopyChunk
  <2>3. file = Prefix(VersionOf[p], offset[p])
          => file' = Prefix(VersionOf[p], offset[p] + 1)
    <3> SUFFICES ASSUME file = Prefix(VersionOf[p], offset[p])
                 PROVE  \A i \in Positions :
                          file'[i] = IF i < offset[p] + 1
                                     THEN <<VersionOf[p], i>> ELSE Hole
      BY <2>2 DEF Prefix, Content
    <3> TAKE i \in Positions
    <3>1. CASE i = offset[p]
      BY <2>2, <3>1 DEF Positions, Content
    <3>2. CASE i # offset[p]
      <4>1. i < offset[p] + 1 <=> i < offset[p]
        BY <3>2 DEF Positions
      <4>2. file'[i] = file[i]
        BY <2>2, <3>2 DEF Content
      <4> QED
        BY <4>1, <4>2 DEF Prefix
    <3> QED
      BY <3>1, <3>2
  <2> QED
    BY <2>1, <2>2, <2>3
<1>3. ASSUME NEW p \in Processes, CopyEnds(p)
      PROVE  CleanSound'
  <2>1. offset[p] = Length[VersionOf[p]] /\ pc[p] = "copy" /\ pc'[p] = "load"
    BY <1>3 DEF CopyEnds
  <2>2. Prefix(VersionOf[p], offset[p]) = Library(VersionOf[p])
    BY <2>1 DEF Prefix, Library
  <2> QED
    BY <1>3, <2>1, <2>2 DEF CopyEnds
<1>4. ASSUME NEW p \in Processes, OpenStreamFails(p) \/ CopyFails(p) \/ Restart(p)
      PROVE  CleanSound'
  BY <1>4 DEF OpenStreamFails, CopyFails, Restart
<1>5. ASSUME NEW p \in Processes, Load(p)
      PROVE  CleanSound'
  BY <1>5 DEF Load
<1>6. CASE UNCHANGED vars
  BY <1>6 DEF vars
<1> QED
  BY <1>1, <1>2, <1>3, <1>4, <1>5, <1>6 DEF Next

(* What a JVM loads after a copy that nobody disturbed is the library of   *)
(* its own jar, chunk for chunk, whatever file earlier runs left behind.   *)
THEOREM OwnLibraryLoaded == Spec => []UndisturbedLoadIsOwn
<1>1. Init => CleanSound
  BY DEF Init, CleanSound
<1>2. CleanSound => UndisturbedLoadIsOwn
  BY DEF CleanSound, UndisturbedLoadIsOwn
<1> QED
  BY <1>1, <1>2, CleanKept, TypeCorrect, PTL DEF Spec

-----------------------------------------------------------------------------
(* Concurrent copies of one version                                        *)

OneVersion(v) == \A p \in Processes : VersionOf[p] = v

(* No stream is beyond the end of the library, and once any has been       *)
(* opened the file has nothing beyond it either.                           *)
NothingBeyond(v) ==
  /\ \A p \in Processes : offset[p] <= Length[v]
  /\ (\E p \in Processes : pc[p] # "start") =>
       \A i \in Positions : i >= Length[v] => file[i] = Hole

LEMMA BeyondKept ==
  ASSUME NEW v \in Versions, OneVersion(v), TypeOK, NothingBeyond(v),
         Failures = FALSE, [Next]_vars
  PROVE  NothingBeyond(v)'
<1> USE DEF OneVersion, TypeOK, Goto, NothingBeyond, Positions
<1>1. ASSUME NEW p \in Processes, OpenStream(p)
      PROVE  NothingBeyond(v)'
  BY <1>1 DEF OpenStream, EmptyFile
<1>2. ASSUME NEW p \in Processes, CopyChunk(p)
      PROVE  NothingBeyond(v)'
  BY <1>2 DEF CopyChunk, Content
<1>3. ASSUME NEW p \in Processes,
             OpenStreamFails(p) \/ CopyEnds(p) \/ CopyFails(p) \/ Load(p)
      PROVE  NothingBeyond(v)'
  BY <1>3 DEF OpenStreamFails, CopyEnds, CopyFails, Load
<1>4. ASSUME NEW p \in Processes, Restart(p)
      PROVE  NothingBeyond(v)'
  BY <1>4 DEF Restart
<1>5. CASE UNCHANGED vars
  BY <1>5 DEF vars
<1> QED
  BY <1>1, <1>2, <1>3, <1>4, <1>5 DEF Next

LEMMA MissingKept ==
  ASSUME NEW v \in Versions, OneVersion(v), TypeOK, NothingBeyond(v),
         MissingChunksAreComing(v), Failures = FALSE, [Next]_vars
  PROVE  MissingChunksAreComing(v)'
<1> USE DEF OneVersion, TypeOK, Goto, MissingChunksAreComing
<1>1. ASSUME NEW p \in Processes, OpenStream(p)
      PROVE  MissingChunksAreComing(v)'
  BY <1>1 DEF OpenStream, Positions
<1>2. ASSUME NEW p \in Processes, CopyChunk(p)
      PROVE  MissingChunksAreComing(v)'
  <2> SUFFICES ASSUME NEW i \in Positions
               PROVE  \/ file'[i] = Library(v)[i]
                      \/ \E q \in Processes : pc'[q] = "copy" /\ offset'[q] <= i
    BY DEF Library
  <2>1. /\ pc[p] = "copy" /\ pc' = pc /\ offset[p] < Length[v]
        /\ offset' = [offset EXCEPT ![p] = @ + 1]
        /\ file' = [file EXCEPT ![offset[p]] = <<v, offset[p]>>]
    BY <1>2 DEF CopyChunk
  <2>2. CASE i = offset[p]
    BY <2>1, <2>2 DEF Library, Content
  <2>3. CASE i # offset[p] /\ file[i] = Library(v)[i]
    BY <2>1, <2>3 DEF Content
  <2>4. CASE i # offset[p] /\ \E q \in Processes : pc[q] = "copy" /\ offset[q] <= i
    <3> PICK q \in Processes : pc[q] = "copy" /\ offset[q] <= i
      BY <2>4
    <3>1. offset'[q] <= i
      BY <2>1, <2>4 DEF Positions
    <3> QED
      BY <2>1, <3>1
  <2> QED
    BY <2>1, <2>2, <2>3, <2>4
<1>3. ASSUME NEW p \in Processes, CopyEnds(p)
      PROVE  MissingChunksAreComing(v)'
  <2> SUFFICES ASSUME NEW i \in Positions
               PROVE  \/ file[i] = Library(v)[i]
                      \/ \E q \in Processes : pc'[q] = "copy" /\ offset[q] <= i
    BY <1>3 DEF CopyEnds, Library
  <2>1. pc[p] = "copy" /\ offset[p] = Length[v]
    BY <1>3 DEF CopyEnds
  <2>2. CASE i >= Length[v]
    BY <2>1, <2>2 DEF NothingBeyond, Library, Positions
  <2>3. CASE i < Length[v]
    BY <1>3, <2>1, <2>3 DEF CopyEnds, Positions
  <2> QED
    BY <2>2, <2>3 DEF Positions
<1>4. ASSUME NEW p \in Processes,
             OpenStreamFails(p) \/ CopyFails(p) \/ Load(p) \/ Restart(p)
      PROVE  MissingChunksAreComing(v)'
  BY <1>4 DEF OpenStreamFails, CopyFails, Load, Restart, Library
<1>5. CASE UNCHANGED vars
  BY <1>5 DEF vars, Library
<1> QED
  BY <1>1, <1>2, <1>3, <1>4, <1>5 DEF Next

(* JVMs that copy the same version at the same time, none failing, leave a *)
(* complete file once they are done: a chunk that one of them cut away or  *)
(* skipped is always still ahead of another.                               *)
THEOREM ConcurrentCopiesComplete ==
  ASSUME Failures = FALSE
  PROVE  Spec => []FileGetsComplete
<1> DEFINE Inv == \A v \in Versions :
                    OneVersion(v) => NothingBeyond(v) /\ MissingChunksAreComing(v)
<1>1. Init => Inv
  BY DEF Init, NothingBeyond, MissingChunksAreComing
<1>2. TypeOK /\ Inv /\ [Next]_vars => Inv'
  BY BeyondKept, MissingKept DEF OneVersion
<1>3. Inv => FileGetsComplete
  BY DEF FileGetsComplete, OneVersion
<1> HIDE DEF Inv
<1> QED
  BY <1>1, <1>2, <1>3, TypeCorrect, PTL DEF Spec

==============================================================================
