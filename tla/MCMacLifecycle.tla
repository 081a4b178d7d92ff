---------------------------- MODULE MCMacLifecycle ----------------------------
(***************************************************************************)
(* Instances of MacLifecycle for TLC: some of the TUN objects u, v and w    *)
(* and the TAP object p, each with an interface of its own.                *)
(***************************************************************************)
EXTENDS MacLifecycle, TLC

CONSTANTS u, v, w, p, utun0, utun1, utun2, tap0

Unit == (u :> utun0) @@ (v :> utun1) @@ (w :> utun2) @@ (p :> tap0)

OwnName == [o \in Objects |-> Unit[o]]

(* Two TUN objects may change places if their interfaces do.               *)
Swap(o, q) == (o :> q) @@ (q :> o) @@
              (Unit[o] :> Unit[q]) @@ (Unit[q] :> Unit[o])

Symmetry ==
  {Swap(u, v), Swap(v, w)}
    \cup Permutations(Files) \cup Permutations(Threads) \cup Permutations(Nodes)

==============================================================================
