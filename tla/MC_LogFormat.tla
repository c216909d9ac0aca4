---------------------------- MODULE MC_LogFormat ----------------------------
(* _output_logf for headers of 0 and 86 characters (the empty header and   *)
(* about the longest the format can produce) and every message length up   *)
(* to 1600: messages that fit the stack buffer, fill it to the last byte,  *)
(* miss it by one, and need one or two doublings of the legacy libc.       *)
EXTENDS LogFormat

MCHeaderLens == {0, 86}
MCMsgLens == 0 .. 1600
=============================================================================
