SPECIFICATION ScanSpec
SYMMETRY Symmetry
CONSTANTS
  Roots = {r1, r2}
  Packages <- MCPackages
  NoRoot = NoRoot
  MaxScans = 2
  MaxLines = 1
INVARIANT FreshRunIsOwn
INVARIANT NoStaleOwnFile
INVARIANT ToolsSeeThisScan
INVARIANT OrderIsStable
CHECK_DEADLOCK FALSE
