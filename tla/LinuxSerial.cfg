CONSTANTS
  a = a
  b = b
  tun0 = tun0
  tun1 = tun1
  Objects = {a, b}
  Threads = {t1, t2}
  Names = {tun0, tun1}
  Fds = {0, 1}
  Files = {f1, f2, f3, f4}
  NoFile = NoFile
  NoName = NoName
  Jvm = Jvm
  Nobody = Nobody
  NoObject = NoObject
  NameOf <- SameName
  Discipline = {"serial"}
  Quiet = {}
SPECIFICATION Spec
SYMMETRY Symmetry
INVARIANTS
  TypeOK
  HalfOpenInFlight
  NoLostDescriptor
