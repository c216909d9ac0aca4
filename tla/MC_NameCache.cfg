CONSTANTS
  t1 = t1
  t2 = t2
  Threads <- MCThreads
SYMMETRY MCSymmetry
SPECIFICATION Spec
INVARIANTS
  NamesAreReal
