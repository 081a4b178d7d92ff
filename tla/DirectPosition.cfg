CONSTANTS
  whole = whole
  tail = tail
  direct = direct
  slice = slice
  x = x
  y = y
  Platforms = {"linux"}
  Threads = {t1, t2}
  Arrays = {x, y}
  Buffers = {direct}
  Length = 2
  ArrayOf <- MCArrayOf
  OffsetOf <- MCOffsetOf
  Capacity <- MCCapacity
  DirectBuffers = {direct}
  DirectStarts <- Anywhere
  NoBuffer = NoBuffer
  NoCopy = NoCopy
SPECIFICATION Spec
SYMMETRY Symmetry
INVARIANT
  ReadFillsWindow
