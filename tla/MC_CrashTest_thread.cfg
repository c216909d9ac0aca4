\* The crash_thread test on POSIX with a writable dump file and a
\* process-wide registration, and a thread_terminate that kills: its EXPECT after a 100 ms sleep.
CONSTANTS
  DebuggerValues <- MCPosixDebugger
  DumpOutcomes <- MCWritable
  Scopes <- MCProcessScope
  TerminateModes <- MCForced
SPECIFICATION Spec
CHECK_DEADLOCK FALSE
INVARIANT ThreadTestPasses
