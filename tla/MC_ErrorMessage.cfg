\* The macOS, iOS and Android build, whose buffer is one static for the process.
CONSTANTS
  t1 = t1
  t2 = t2
  EACCES = EACCES
  EINVAL = EINVAL
  Threads <- MCThreads
  Codes <- MCCodes
  Platforms <- MCPlatforms
SYMMETRY MCSymmetry
SPECIFICATION Spec
INVARIANTS
  MessageMatchesCode
