SPECIFICATION Spec
CONSTANTS
  t1 = t1
  t2 = t2
  Main = Main
  Threads <- MCThreads
  MAX = 2
  MaxProbes = 3
  MaxLines = 3
SYMMETRY Symmetry
INVARIANTS
  NothingInherited
