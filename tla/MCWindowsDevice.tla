--------------------------- MODULE MCWindowsDevice ---------------------------
(***************************************************************************)
(* An instance of WindowsDevice for TLC: objects a and b of one adapter,   *)
(* c of another.                                                           *)
(***************************************************************************)
EXTENDS WindowsDevice, TLC

CONSTANTS a, b, c, g1, g2

OneAndOther == (a :> g1) @@ (b :> g1) @@ (c :> g2)

(* Handles, MTU values and addresses have nothing to do with each other:   *)
(* clients use one of the three at a time.                                 *)
OneConcernEach ==
  {{"open", "close", "use"}, {"getMTU", "setMTU"}, {"getIP", "setIP"}}

Symmetry ==
  Permutations(Threads) \cup Permutations({a, b}) \cup Permutations(Ips)
    \cup Permutations(Short)

==============================================================================
