------------------------------- MODULE LogLine -------------------------------
(***************************************************************************)
(* What a call of _output_logf (src/src/log.c) promises its caller, with   *)
(* the buffers hidden: for a header and a message of the given lengths, it *)
(* hands the whole line, header followed by message, to the sinks once,    *)
(* and returns.                                                            *)
(***************************************************************************)
EXTENDS Integers, Sequences

CONSTANTS HeaderLens, MsgLens

VARIABLES
  header,     \* the length of the header
  message,    \* the length of the formatted message
  delivered,  \* the lengths of the lines handed to the sinks, in order
  returned    \* the call has returned

vars == <<header, message, delivered, returned>>

Init ==
  /\ header \in HeaderLens
  /\ message \in MsgLens
  /\ delivered = << >>
  /\ returned = FALSE

\* Format the line, hand it to the sinks and return.
Emit ==
  /\ ~returned
  /\ delivered' = Append(delivered, header + message)
  /\ returned' = TRUE
  /\ UNCHANGED <<header, message>>

SafetySpec == Init /\ [][Emit]_vars

\* The calling thread does not stop inside the call.
Spec == SafetySpec /\ WF_vars(Emit)
=============================================================================
