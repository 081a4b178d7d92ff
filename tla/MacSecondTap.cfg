CONSTANTS
  tap = tap
  tun = tun
  second = second
  tap0 = tap0
  tap1 = tap1
  cutName = cutName
  longName = longName
  utun0 = utun0
  NoInterface = NoInterface
  NoObject = NoObject
  None = None
  Threw = Threw
  Done = Done
  Zero = Zero
  Unparsed = Unparsed
  Platforms = {"macos"}
  Objects = {tap, second}
  Threads = {t1, t2}
  Interfaces = {tap0, tap1}
  DeviceNames <- MCDeviceNames
  NameOf <- MCNameOf
  Cut <- MCCut
  Grants <- MCGrants
  Connects <- MCConnects
  Numbers = {n1, n2}
  NoHandle = NoHandle
  Taps = {tap, second}
  Tap0 = tap0
  Calls = {"getMAC", "getMTU"}
  ClosedCalls <- MCClosedCalls
  SerialCalls <- MCSerialCalls
  AloneCalls <- MCAloneCalls
  Shared = Shared
  Mtus = {mtu1}
  Macs = {mac1}
  Addresses = {ip1}
  Masks = {m8, m24}
  ClassMask = m8
  Strings <- MCStrings
SPECIFICATION Spec
SYMMETRY Symmetry
INVARIANT
  ConfigReachesOwnInterface
