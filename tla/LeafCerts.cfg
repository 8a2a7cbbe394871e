SPECIFICATION LeafSpec
CONSTANTS
  x = x
  y = y
  z = z
  Handlers = {h1, h2, h3}
  Hosts = {x, y, z}
  FileOf <- MCFileOf
SYMMETRY HandlerSymmetry
INVARIANT LoadedIsCurrent
INVARIANT UndisturbedIsServed
CHECK_DEADLOCK FALSE
