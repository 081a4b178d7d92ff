--------------------------- MODULE MCLinuxLifecycle ---------------------------
(***************************************************************************)
(* Instances of LinuxLifecycle for TLC: objects a and b, which have the    *)
(* same name in some runs and different names in others.                   *)
(***************************************************************************)
EXTENDS LinuxLifecycle, TLC

CONSTANTS a, b, tun0, tun1

SameName  == [o \in Objects |-> tun0]
OwnName   == [o \in Objects |-> IF o = a THEN tun0 ELSE tun1]

Symmetry == Permutations(Files) \cup Permutations(Threads)

==============================================================================
