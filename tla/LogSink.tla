------------------------------- MODULE LogSink -------------------------------
(***************************************************************************)
(* The sinks of _output_logf (src/src/log.c) and the two globals that      *)
(* choose them, _log_stdout and _log_callback, set by log_stdout() and     *)
(* log_set_callback() from any thread with no lock.                        *)
(*                                                                         *)
(* A logging thread that has its line ready prints it when _log_stdout is  *)
(* set, then runs `if (_log_callback) _log_callback(severity, buffer)'.    *)
(* The test and the call each name the global; the reads are a data race   *)
(* with log_set_callback, so the build may load the pointer once or load   *)
(* it again for the call: the call uses either value.                      *)
(***************************************************************************)
EXTENDS Naturals

CONSTANTS
  Loggers,     \* threads that log
  Callbacks,   \* the callbacks a program installs
  Null         \* the null function pointer

\* Null is a model value, not one of Callbacks.

VARIABLES
  logStdout,   \* _log_stdout
  logCallback, \* _log_callback
  pc,          \* pc[t]: "print", "test", "call" or "done"
  tested,      \* tested[t]: the pointer value the test read
  printed,     \* loggers whose line went to stdout
  called       \* <<t, cb>>: logger t called callback cb

vars == <<logStdout, logCallback, pc, tested, printed, called>>

Init ==
  /\ logStdout = TRUE
  /\ logCallback = Null
  /\ pc = [t \in Loggers |-> "print"]
  /\ tested = [t \in Loggers |-> Null]
  /\ printed = {}
  /\ called = {}

\* log_stdout(enable).
LogStdout(b) ==
  /\ logStdout' = b
  /\ UNCHANGED <<logCallback, pc, tested, printed, called>>

\* log_set_callback(callback).
LogSetCallback(cb) ==
  /\ logCallback' = cb
  /\ UNCHANGED <<logStdout, pc, tested, printed, called>>

\* if (_log_stdout && std) fprintf(std, "%s", buffer);
WriteStd(t) ==
  /\ pc[t] = "print"
  /\ printed' = IF logStdout THEN printed \cup {t} ELSE printed
  /\ pc' = [pc EXCEPT ![t] = "test"]
  /\ UNCHANGED <<logStdout, logCallback, tested, called>>

\* if (_log_callback): skip the call when the pointer read is null.
TestCallback(t) ==
  /\ pc[t] = "test"
  /\ tested' = [tested EXCEPT ![t] = logCallback]
  /\ pc' = [pc EXCEPT ![t] = IF logCallback = Null THEN "done" ELSE "call"]
  /\ UNCHANGED <<logStdout, logCallback, printed, called>>

\* _log_callback(severity, buffer): through the value tested, or a reload.
CallCallback(t) ==
  /\ pc[t] = "call"
  /\ \E cb \in {tested[t], logCallback} :
       called' = called \cup {<<t, cb>>}
  /\ pc' = [pc EXCEPT ![t] = "done"]
  /\ UNCHANGED <<logStdout, logCallback, tested, printed>>

Next ==
  \/ \E b \in BOOLEAN : LogStdout(b)
  \/ \E cb \in Callbacks \cup {Null} : LogSetCallback(cb)
  \/ \E t \in Loggers : WriteStd(t) \/ TestCallback(t) \/ CallCallback(t)

Spec == Init /\ [][Next]_vars

-----------------------------------------------------------------------------
\* The guard `if (_log_callback)' is there so that a logging thread never
\* calls through a null pointer, even while another thread clears the
\* callback with log_set_callback(0).
NoNullCallbackCall == \A c \in called : c[2] # Null
=============================================================================
