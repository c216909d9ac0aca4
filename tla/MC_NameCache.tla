---------------------------- MODULE MC_NameCache ----------------------------
(* Two threads asking for the host and login names for the first time.     *)
EXTENDS NameCache, TLC

CONSTANTS t1, t2

MCThreads == {t1, t2}
MCSymmetry == Permutations(MCThreads)
=============================================================================
