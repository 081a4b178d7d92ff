CONSTANTS
  u = u
  v = v
  w = w
  p = p
  utun0 = utun0
  utun1 = utun1
  utun2 = utun2
  tap0 = tap0
  Objects = {u, v, p}
  Taps = {p}
  Threads = {t1, t2}
  Names = {utun0, utun1, tap0}
  Fds = {0, 1}
  Files = {f1, f2}
  Nodes = {x1, x2}
  Null = Null
  NoFile = NoFile
  NoName = NoName
  Jvm = Jvm
  Nobody = Nobody
  NoObject = NoObject
  NameOf <- OwnName
  Discipline = {"serial", "closeOnce", "oneWriter", "lookups"}
SPECIFICATION FairSpec
PROPERTY
  CallsReturn
