CONSTANTS
  whole = whole
  tail = tail
  direct = direct
  slice = slice
  x = x
  y = y
  Platforms = {"linux", "macos", "windows"}
  Threads = {t1, t2}
  Arrays = {x, y}
  Buffers = {whole, tail, direct, slice}
  Length = 2
  ArrayOf <- MCArrayOf
  OffsetOf <- MCOffsetOf
  Capacity <- MCCapacity
  DirectBuffers = {direct, slice}
  DirectStarts <- Cleared
  NoBuffer = NoBuffer
  NoCopy = NoCopy
SPECIFICATION Spec
SYMMETRY Symmetry
INVARIANTS
  TypeOK
  ReadFillsWindow
  WriteSendsWindow
  PositionFollowsCount
PROPERTY
  OutsideWindowUntouched
