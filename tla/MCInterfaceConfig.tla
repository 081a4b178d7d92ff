-------------------------- MODULE MCInterfaceConfig --------------------------
(***************************************************************************)
(* Instances of InterfaceConfig for TLC.  Object tap is a                  *)
(* TapDevice("tap0"), second a TapDevice("tap1").  Object tun is a         *)
(* TunDevice("lengthy_tunnel_name"), which is not the name of its          *)
(* interface: on Linux it is cut to IFNAMSIZ, on macOS it leads to utun0,  *)
(* for atoi("thy_tunnel_name") is 0.                                       *)
(***************************************************************************)
EXTENDS InterfaceConfig, TLC

CONSTANTS tap, tun, second, tap0, tap1, cutName, longName, utun0

MCDeviceNames == Interfaces \cup {longName, cutName}

MCNameOf == [o \in Objects |-> IF o = tap THEN tap0
                               ELSE IF o = second THEN tap1 ELSE longName]

MCCut == [n \in DeviceNames |-> IF n = longName THEN cutName ELSE n]

MCGrants == [n \in DeviceNames |-> {n} \cap Interfaces]

MCConnects == [n \in DeviceNames |->
  IF n = longName THEN {utun0} \cap Interfaces ELSE {}]

(* On macOS what takes several ioctls is called on open devices only.      *)
MCClosedCalls == [p \in Platforms |->
  IF p = "linux" THEN Methods ELSE {"getMTU", "setMTU", "getMAC", "setMAC"}]

(* On Linux a single ioctl may overlap anything.                           *)
MCSerialCalls == [p \in Platforms |->
  IF p = "linux" THEN {"setStatus", "getIP", "setIP"} ELSE Methods]

(* On macOS inet_ntoa() has one buffer.                                    *)
MCAloneCalls == [p \in Platforms |-> IF p = "linux" THEN {} ELSE {"getIP"}]

(* What macOS makes of a mask that does not parse is not known.            *)
MCStrings == [p \in Platforms |->
  Addresses \cup Masks \cup (IF p = "linux" THEN {Unparsed} ELSE {})]

Symmetry ==
  Permutations(Threads) \cup Permutations(Numbers) \cup Permutations(Mtus)

==============================================================================
