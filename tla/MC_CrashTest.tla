---------------------------- MODULE MC_CrashTest ----------------------------
(* The crash tests under every answer of the environment: a debugger or  *)
(* not (Windows), a dump directory writable or not, and either scope of   *)
(* a crash_guard_set registration, and both readings of thread_terminate. *)
EXTENDS CrashTest

MCDebuggerValues == {FALSE, TRUE}

MCDumpOutcomes == {FALSE, TRUE}

MCScopes == {"process", "thread"}

MCTerminateModes == {"forced", "cooperative"}

\* POSIX (system_debugger_attached returns false), a writable dump file and
\* the process-wide registration the test relies on.
MCPosixDebugger == {FALSE}

MCWritable == {TRUE}

MCProcessScope == {"process"}

MCForced == {"forced"}
=============================================================================
