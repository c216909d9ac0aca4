----------------------------- MODULE MC_LogSink -----------------------------
(* One logging thread and one callback: the race needs only the logger and *)
(* a concurrent log_set_callback(0).                                        *)
EXTENDS LogSink

CONSTANTS l1, cb1

MCLoggers == {l1}
MCCallbacks == {cb1}
=============================================================================
