\* Both tests under every environment answer.
CONSTANTS
  DebuggerValues <- MCDebuggerValues
  DumpOutcomes <- MCDumpOutcomes
  Scopes <- MCScopes
  TerminateModes <- MCTerminateModes
SPECIFICATION Spec
\* The test program ends (or dies on an unguarded fault): no step is left.
CHECK_DEADLOCK FALSE
INVARIANT ThreadTestPassesCooperative
