---------------------------- MODULE DeviceContract ----------------------------
(***************************************************************************)
(* What open() and close() promise to clients that do not overlap them on  *)
(* one device, whatever the platform.  An open() that is granted takes the *)
(* interface at one moment of the call, one that is not leaves no trace.   *)
(* A device that is open stays open until its own close(), an interface    *)
(* belongs to one device at a time, and no call changes the state of       *)
(* another device.                                                         *)
(***************************************************************************)
CONSTANTS
  Objects,   \* the NetworkDevice objects
  NameOf     \* the interface each of them stands for

VARIABLES
  opened,    \* the devices that are open
  opening,   \* the devices with an open() in progress
  closing    \* the devices with a close() in progress

contract == <<opened, opening, closing>>

Init ==
  /\ opened = {}
  /\ opening = {}
  /\ closing = {}

StartOpen(o) ==
  /\ o \notin opening \cup closing
  /\ opening' = opening \cup {o}
  /\ UNCHANGED <<opened, closing>>

Grant(o) ==
  /\ o \in opening
  /\ \A p \in opened : NameOf[p] # NameOf[o]
  /\ opened' = opened \cup {o}
  /\ UNCHANGED <<opening, closing>>

EndOpen(o) ==
  /\ o \in opening
  /\ opening' = opening \ {o}
  /\ UNCHANGED <<opened, closing>>

StartClose(o) ==
  /\ o \in opened \ (opening \cup closing)
  /\ closing' = closing \cup {o}
  /\ UNCHANGED <<opened, opening>>

EndClose(o) ==
  /\ o \in closing
  /\ closing' = closing \ {o}
  /\ opened' = opened \ {o}
  /\ UNCHANGED opening

Next ==
  \E o \in Objects :
    \/ StartOpen(o)
    \/ Grant(o)
    \/ EndOpen(o)
    \/ StartClose(o)
    \/ EndClose(o)

Spec == Init /\ [][Next]_contract

==============================================================================
