--------------------------- MODULE MC_ErrorMessage ---------------------------
(* Two threads and two codes: the least that lets one thread's message     *)
(* overwrite another's.  The threads are interchangeable.                  *)
EXTENDS ErrorMessage, TLC

CONSTANTS t1, t2, EACCES, EINVAL

MCThreads == {t1, t2}
MCCodes == {EACCES, EINVAL}
MCPlatforms == {"apple"}
MCSymmetry == Permutations(MCThreads)
=============================================================================
