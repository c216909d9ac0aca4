-------------------------- MODULE MC_ErrorContext --------------------------
(* Model-checking instance of ErrorContext.  The register and the context  *)
(* are thread-local, so one thread shows every behaviour of the context;   *)
(* the concurrent test harness (MC_ErrorTest) runs several.  Two frames and *)
(* a depth limit of 2 (the nesting the tests use) with up to four           *)
(* outstanding pushes: two overflows, evictions, and pops of an evicted     *)
(* stack all happen, and repeated frames make a reordering visible.         *)
EXTENDS ErrorContext, TLC

CONSTANTS t1, ACCESS_DENIED, INVALID_VALUE, f1, f2

MCThreads == {t1}
MCCodes == {ACCESS_DENIED, INVALID_VALUE}
MCFrames == {f1, f2}
=============================================================================
