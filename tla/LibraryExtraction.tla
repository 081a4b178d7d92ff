--------------------------- MODULE LibraryExtraction ---------------------------
(***************************************************************************)
(* The static initializer of NetworkDevice: a JVM copies the native        *)
(* library out of its jar to one fixed path in java.io.tmpdir and loads    *)
(* the file it finds there.  All JVMs of a machine share the path, the     *)
(* jars may be of different versions, nothing locks the file, and an       *)
(* exception while copying is swallowed: the load comes next regardless.   *)
(*                                                                         *)
(* A library is a row of chunks; <<v, i>> is chunk i of version v.         *)
(***************************************************************************)
EXTENDS Integers

CONSTANTS
  Processes,
  Versions,
  MaxLength,   \* the chunks of the longest version
  Length,      \* Length[v]: the chunks of version v
  VersionOf,   \* VersionOf[p]: the version in p's jar
  NoResource,  \* a jar without a library for this platform
  Failures,    \* may opening or writing the file fail, may a JVM be killed
  Hole         \* a chunk that was skipped or is beyond the end

ASSUME ExtractionAssumption ==
  /\ MaxLength \in Nat
  /\ Length \in [Versions -> 1 .. MaxLength]
  /\ VersionOf \in [Processes -> Versions \cup {NoResource}]
  /\ NoResource \notin Versions
  /\ Failures \in BOOLEAN
  /\ Hole \notin Versions \X Nat

VARIABLES
  file,        \* file[i]: chunk i of the file at the shared path
  pc,          \* pc[p]: the next step of process p
  offset,      \* offset[p]: the chunk its stream writes next
  loaded,      \* loaded[p]: what it mapped with System.load
  clean        \* clean[p]: its copy went through and nobody interfered

vars == <<file, pc, offset, loaded, clean>>

Positions == 0 .. MaxLength - 1

Chunks == {<<v, i>> : v \in Versions, i \in Positions}

Content == [Positions -> Chunks \cup {Hole}]

EmptyFile == [i \in Positions |-> Hole]

Library(v) == [i \in Positions |-> IF i < Length[v] THEN <<v, i>> ELSE Hole]

TypeOK ==
  /\ file \in Content
  /\ pc \in [Processes -> {"start", "copy", "load", "loaded"}]
  /\ offset \in [Processes -> 0 .. MaxLength]
  /\ loaded \in [Processes -> Content]
  /\ clean \in [Processes -> BOOLEAN]

(* What earlier runs left in the file is anything they could write.        *)
Init ==
  /\ file \in {EmptyFile} \cup {Library(v) : v \in Versions}
  /\ pc = [p \in Processes |-> "start"]
  /\ offset = [p \in Processes |-> 0]
  /\ loaded = [p \in Processes |-> EmptyFile]
  /\ clean = [p \in Processes |-> FALSE]

Goto(p, step) == pc' = [pc EXCEPT ![p] = step]

(* Whoever changes the file disturbs every other process: those that copy  *)
(* or are about to load, and those that have the file mapped.              *)
Disturb(p, own) == clean' = [q \in Processes |-> q = p /\ own]

-----------------------------------------------------------------------------

OpenStreamInPlace(p) ==
  /\ pc[p] = "start"
  /\ UNCHANGED file
  /\ offset' = [offset EXCEPT ![p] = 0]
  /\ Disturb(p, TRUE)
  /\ Goto(p, "copy")
  /\ UNCHANGED loaded

(* new FileOutputStream(file): creates the file or cuts it to nothing.     *)
OpenStream(p) ==
  /\ pc[p] = "start"
  /\ file' = EmptyFile
  /\ offset' = [offset EXCEPT ![p] = 0]
  /\ Disturb(p, TRUE)
  /\ Goto(p, "copy")
  /\ UNCHANGED loaded

(* The file may belong to another user or be in use.                       *)
OpenStreamFails(p) ==
  /\ Failures
  /\ pc[p] = "start"
  /\ clean' = [clean EXCEPT ![p] = FALSE]
  /\ Goto(p, "load")
  /\ UNCHANGED <<file, offset, loaded>>

CopyChunkAtEnd(p) ==
  /\ pc[p] = "copy"
  /\ VersionOf[p] # NoResource
  /\ offset[p] < Length[VersionOf[p]]
  /\ \E i \in Positions :
       /\ \A j \in Positions : (file[j] = Hole) <=> (j >= i)
       /\ file' = [file EXCEPT ![i] = <<VersionOf[p], offset[p]>>]
  /\ offset' = [offset EXCEPT ![p] = @ + 1]
  /\ Disturb(p, clean[p])
  /\ UNCHANGED <<pc, loaded>>

CopyChunkPastEnd(p) ==
  /\ pc[p] = "copy"
  /\ VersionOf[p] # NoResource
  /\ offset[p] <= Length[VersionOf[p]]
  /\ file' = [file EXCEPT ![offset[p]] = <<VersionOf[p], offset[p]>>]
  /\ offset' = [offset EXCEPT ![p] = @ + 1]
  /\ Disturb(p, clean[p])
  /\ UNCHANGED <<pc, loaded>>

(* is.transferTo(os): one chunk after the other, each at the offset of     *)
(* this stream, wherever the file ends by now.                             *)
CopyChunk(p) ==
  /\ pc[p] = "copy"
  /\ VersionOf[p] # NoResource
  /\ offset[p] < Length[VersionOf[p]]
  /\ file' = [file EXCEPT ![offset[p]] = <<VersionOf[p], offset[p]>>]
  /\ offset' = [offset EXCEPT ![p] = @ + 1]
  /\ Disturb(p, clean[p])
  /\ UNCHANGED <<pc, loaded>>

CopyEnds(p) ==
  /\ pc[p] = "copy"
  /\ VersionOf[p] # NoResource
  /\ offset[p] = Length[VersionOf[p]]
  /\ Goto(p, "load")
  /\ UNCHANGED <<file, offset, loaded, clean>>

(* catch (Exception e) {}: a full disk, or no resource to copy from, which *)
(* shows only after the file was cut.                                      *)
CopyFails(p) ==
  /\ pc[p] = "copy"
  /\ Failures \/ VersionOf[p] = NoResource
  /\ clean' = [clean EXCEPT ![p] = FALSE]
  /\ Goto(p, "load")
  /\ UNCHANGED <<file, offset, loaded>>

(* System.load(file): it maps the file, or throws for one that is no       *)
(* library; the class is not initialized in that case.                     *)
Load(p) ==
  /\ pc[p] = "load"
  /\ loaded' = [loaded EXCEPT ![p] = file]
  /\ Goto(p, "loaded")
  /\ UNCHANGED <<file, offset, clean>>

(* The JVM ends, or is killed half way, and another one starts later.      *)
Restart(p) ==
  /\ pc[p] = "loaded" \/ Failures
  /\ Goto(p, "start")
  /\ offset' = [offset EXCEPT ![p] = 0]
  /\ loaded' = [loaded EXCEPT ![p] = EmptyFile]
  /\ clean' = [clean EXCEPT ![p] = FALSE]
  /\ UNCHANGED file

Next ==
  \E p \in Processes :
    \/ OpenStream(p)
    \/ OpenStreamFails(p)
    \/ CopyChunk(p)
    \/ CopyEnds(p)
    \/ CopyFails(p)
    \/ Load(p)
    \/ Restart(p)

Spec == Init /\ [][Next]_vars

-----------------------------------------------------------------------------
(* Properties                                                              *)

(* A process whose copy went through and was not disturbed loads exactly   *)
(* the library of its own jar, whatever versions, failures and crashes     *)
(* went before.                                                            *)
UndisturbedLoadIsOwn ==
  \A p \in Processes :
    pc[p] = "loaded" /\ clean[p] => loaded[p] = Library(VersionOf[p])

(* Concurrent copies of one version by processes that do not fail repair   *)
(* each other's damage: each chunk that is missing from the file is still  *)
(* ahead of some copy in progress, so once nobody copies the file is       *)
(* complete.                                                               *)
MissingChunksAreComing(v) ==
  (\E p \in Processes : pc[p] # "start") =>
    \A i \in Positions :
      \/ file[i] = Library(v)[i]
      \/ \E p \in Processes : pc[p] = "copy" /\ offset[p] <= i

FileGetsComplete ==
  \A v \in Versions :
    (\A p \in Processes : VersionOf[p] = v) => MissingChunksAreComing(v)

==============================================================================
