----------------------------- MODULE ErrorMessage -----------------------------
(***************************************************************************)
(* system_error_message(code) (src/src/log.c, the system.c part).          *)
(*                                                                         *)
(* POSIX: a zero code means errno; a zero errno gives "<no error>";        *)
(* otherwise strerror_r writes the text into a 256-byte static buffer and  *)
(* the function returns that buffer, which the caller reads afterwards.    *)
(* On Linux the buffer is THREADLOCAL; on macOS, iOS and Android it is one *)
(* buffer for the process ("//TODO: Thread safety").                       *)
(*                                                                         *)
(* Windows: a zero code means GetLastError(); a zero last error gives "";  *)
(* otherwise the THREADLOCAL buffer is cleared, FormatMessageA writes the  *)
(* text and string_strip trims it in place.                                *)
(*                                                                         *)
(* A text is its code; the OS copies it in two steps, so a reader may see  *)
(* it half written ("torn").  errno and the last error are per thread.     *)
(***************************************************************************)
EXTENDS Naturals

CONSTANTS
  Threads,        \* threads calling system_error_message
  Codes,          \* nonzero error codes (none with bit 30 set)
  Platforms       \* builds: "linux", "apple" (macOS / iOS / Android), "windows"

\* Codes are nonzero; Platforms is a nonempty subset of the three builds.

\* The answer for "no error" of each build.
NoErrorPosix == "<no error>"

NoErrorWindows == ""

VARIABLES
  platform, \* the build
  errno,    \* errno[t] (GetLastError() on Windows)
  buf,      \* buf[b]: the text in buffer b, "torn", or "" before any write
  pc,       \* pc[t]: "call", "write", "read" or "done"
  code,     \* code[t]: the code the call resolved
  shown     \* shown[t]: the text the caller read from the returned pointer

vars == <<platform, errno, buf, pc, code, shown>>

NoError == IF platform = "windows" THEN NoErrorWindows ELSE NoErrorPosix

\* A thread-local buffer per thread, or the one static buffer.
BufferOf(t) == IF platform = "apple" THEN "shared" ELSE t

Buffers == Threads \cup {"shared"}

Init ==
  /\ platform \in Platforms
  /\ errno \in [Threads -> Codes \cup {0}]
  /\ buf = [b \in Buffers |-> ""]
  /\ pc = [t \in Threads |-> "call"]
  /\ code = [t \in Threads |-> 0]
  /\ shown = [t \in Threads |-> ""]

\* Entry (both builds): resolve the code; answer the "no error" text when
\* there is none, else start writing the message into the buffer.  On
\* POSIX strerror_r starts the copy; on Windows errmsg[0] = 0 and
\* FormatMessageA starts.  Either way the buffer is not yet the message.
Call(t, c) ==
  LET k == IF c = 0 THEN errno[t] ELSE c IN
  /\ pc[t] \in {"call", "done"}
  /\ code' = [code EXCEPT ![t] = k]
  /\ IF k = 0
       THEN /\ shown' = [shown EXCEPT ![t] = NoError]
            /\ pc' = [pc EXCEPT ![t] = "done"]
            /\ UNCHANGED buf
       ELSE /\ buf' = [buf EXCEPT ![BufferOf(t)] = "torn"]
            /\ pc' = [pc EXCEPT ![t] = "write"]
            /\ UNCHANGED shown
  /\ UNCHANGED <<platform, errno>>

\* POSIX: strerror_r finishes the copy; the function returns the buffer.
Finish(t) ==
  /\ platform # "windows"
  /\ pc[t] = "write"
  /\ buf' = [buf EXCEPT ![BufferOf(t)] = code[t]]
  /\ pc' = [pc EXCEPT ![t] = "read"]
  /\ UNCHANGED <<platform, errno, code, shown>>

\* Windows: FormatMessageA finishes, string_strip trims the text in place
\* and the function returns the buffer.
FinishWindows(t) ==
  /\ platform = "windows"
  /\ pc[t] = "write"
  /\ buf' = [buf EXCEPT ![BufferOf(t)] = code[t]]
  /\ pc' = [pc EXCEPT ![t] = "read"]
  /\ UNCHANGED <<platform, errno, code, shown>>

\* The caller reads the string it was given.
Read(t) ==
  /\ pc[t] = "read"
  /\ shown' = [shown EXCEPT ![t] = buf[BufferOf(t)]]
  /\ pc' = [pc EXCEPT ![t] = "done"]
  /\ UNCHANGED <<platform, errno, buf, code>>

Next ==
  \E t \in Threads :
    \/ \E c \in Codes \cup {0} : Call(t, c)
    \/ Finish(t)
    \/ FinishWindows(t)
    \/ Read(t)

\* Every thread calls again and again.
Spec == Init /\ [][Next]_vars

-----------------------------------------------------------------------------
\* The text a caller reads from the returned pointer is the message of the
\* code it asked about (or the build's "no error" text), whatever other
\* threads ask meanwhile: no message of another code and no half-written one.
MessageMatchesCode ==
  \A t \in Threads :
    pc[t] = "done" => shown[t] = IF code[t] = 0 THEN NoError ELSE code[t]
=============================================================================
