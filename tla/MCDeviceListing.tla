--------------------------- MODULE MCDeviceListing ---------------------------
(***************************************************************************)
(* An instance of DeviceListing for TLC: two devices of one kind and one   *)
(* of another, which may be an ordinary interface; all listings there are. *)
(***************************************************************************)
EXTENDS DeviceListing, TLC

CONSTANTS d1, d2, d3, t1, t2

TwoAndOther(kind, other) == (d1 :> kind) @@ (d2 :> kind) @@ (d3 :> other)

MCKinds == {TwoAndOther("tap", "tun"), TwoAndOther("tap", "ether"),
            TwoAndOther("tun", "ppp")}

(* Windows has no TUN devices and answers the empty list.                  *)
MCListings == ({"linux", "macos"} \X {"tun", "tap"}) \cup {<<"windows", "tap">>}

(* A second lister is no more to the first than another user is.           *)
MCListers == [linux |-> {t1}, macos |-> {t1, t2}, windows |-> {t1}]

Symmetry == Permutations({d1, d2})

==============================================================================
