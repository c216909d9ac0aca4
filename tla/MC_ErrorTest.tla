---------------------------- MODULE MC_ErrorTest ----------------------------
(* The (error, thread) test with three threads (32 in the code) and two    *)
(* passes each (512 in the code): a second pass starts from the state the  *)
(* first left behind, which is where a missing reset would show.  The      *)
(* threads are interchangeable, but liveness is checked, so no symmetry is declared.               *)
EXTENDS ErrorTest, TLC

CONSTANTS t1, t2, t3, f1, f2

MCThreads == {t1, t2, t3}
MCCodes == {ErrorAccessDenied, ErrorInvalidValue}
MCFrames == {f1, f2}
=============================================================================
