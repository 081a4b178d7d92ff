CONSTANTS
  a = a
  b = b
  c = c
  g1 = g1
  g2 = g2
  Objects = {a, b, c}
  Threads = {t1, t2}
  Adapters = {g1, g2}
  NameOf <- OneAndOther
  Handles = {4, 8}
  Slots = {0, 1}
  Foreign = Foreign
  Mtus = {m1400, m1500, m10000}
  Short = {m1400, m1500}
  Default = Default
  NoMtu = NoMtu
  Ips = {ip1, ip2}
  Masks = {m24}
  Leased = {g1}
  Unparsed = Unparsed
  Given = Given
  Usages <- OneConcernEach
  Discipline = {"serial", "closeOnce", "config"}
  Nobody = Nobody
  Nothing = Nothing
  Threw = Threw
  Done = Done
SPECIFICATION Spec
SYMMETRY Symmetry
INVARIANTS
  TypeOK
  UseReachesOwnAdapter
  GetMTUIsOwn
  SetMTUTakesEffect
  IPCallsAreAboutOwnAdapter
PROPERTIES
  ImplementsContract
  SettingsAreIsolated
