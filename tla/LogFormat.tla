------------------------------ MODULE LogFormat ------------------------------
(***************************************************************************)
(* The buffer loop of _output_logf (src/src/log.c): format the header      *)
(* "[time] <tid:hw> prefix" with snprintf, append the caller's message     *)
(* with vsnprintf, and when the two do not fit, grow the buffer and try    *)
(* again.  The first attempt uses a 384-byte stack buffer with size 383;   *)
(* every later one a heap buffer of size + 1 bytes.                        *)
(*                                                                         *)
(* Only lengths matter here: the header and the message are their lengths, *)
(* and the formatting calls are modelled by what they return.  C99 libcs   *)
(* return the length the text needs; the Windows build (snprintf defined   *)
(* as _snprintf_s with _TRUNCATE, and the legacy MSVC vsnprintf) return -1 *)
(* on truncation.                                                          *)
(***************************************************************************)
EXTENDS Naturals, Integers

CONSTANTS
  HeaderLens,     \* lengths of "[%.3f] <%llx:%d> %s" (under 90 characters)
  MsgLens,        \* lengths of the formatted message
  InitialSize,    \* size = 383
  LocalBytes      \* sizeof local_buffer = 384

ASSUME FormatAssumption ==
  /\ HeaderLens \subseteq Nat /\ MsgLens \subseteq Nat
  /\ InitialSize \in Nat \ {0} /\ LocalBytes \in Nat
  /\ \A h \in HeaderLens : h < InitialSize
  /\ InitialSize < LocalBytes

VARIABLES
  hdr,       \* the length of this call's header
  msg,       \* the length of this call's message
  c99,       \* the libc returns needed lengths (TRUE) or -1 on truncation
  size,      \* size
  buffer,    \* "local" (local_buffer) or "heap"
  heapLive,  \* heap buffers allocated and not yet deallocated
  writes,    \* <<index, capacity>> of the '\n' and terminator writes
  line,      \* length of the line handed to the sinks, or -1 while none
  done       \* the function has returned

vars == <<hdr, msg, c99, size, buffer, heapLive, writes, line, done>>

-----------------------------------------------------------------------------
\* snprintf(buf, n, ...) / vsnprintf for a text of `len' characters.
Snprintf(len, n) == IF c99 \/ len < n THEN len ELSE -1

\* A vsnprintf that returns the count it wrote (n - 1) when it truncates.
VsnprintfWritten(len, n) == IF len < n THEN len ELSE n - 1

\* The legacy MSVC vsnprintf returns the count when the text fills the buffer
\* exactly (without a terminator) and -1 only beyond it.
Vsnprintf(len, n) == IF c99 \/ len <= n THEN len ELSE -1

\* The size of the next attempt, when the texts did not fit.
NextSizeNoSlack(need, more, sz) ==
  IF more > -1 /\ need > -1 THEN more + need ELSE sz * 2

NextSize(need, more, sz) ==
  IF more > -1 /\ need > -1 THEN more + need + 1 ELSE sz * 2

\* memory_allocate(size + 1, ...): the bytes of a heap buffer.
AllocBytesExact(sz) == sz

AllocBytes(sz) == sz + 1

\* The bytes of the buffer in use.
Capacity == IF buffer = "local" THEN LocalBytes ELSE AllocBytes(size)

\* if (buffer != local_buffer) memory_deallocate(buffer): live heap buffers after.
ReleaseNever(buf, live) == live

\* The same without the buffer != local_buffer check (frees the stack buffer).
ReleaseUnchecked(buf, live) == live - 1

Release(buf, live) == IF buf = "local" THEN live ELSE live - 1

Init ==
  /\ hdr \in HeaderLens
  /\ msg \in MsgLens
  /\ c99 \in BOOLEAN
  /\ size = InitialSize
  /\ buffer = "local"
  /\ heapLive = 0
  /\ writes = {}
  /\ line = -1
  /\ done = FALSE

(***************************************************************************)
(* One iteration of while(1).  When the message fits, terminate the line,  *)
(* hand it to the sinks, break and free a heap buffer; otherwise compute   *)
(* the new size, free a heap buffer and allocate the next one.             *)
(***************************************************************************)
Attempt ==
  LET need   == Snprintf(hdr, size)
      remain == size - need
      more   == Vsnprintf(msg, remain)
  IN
  /\ ~done
  /\ IF more > -1 /\ more < remain
       THEN /\ writes' = writes \cup {<<need + more, Capacity>>, <<need + more + 1, Capacity>>}
            /\ line' = need + more
            /\ done' = TRUE
            /\ heapLive' = Release(buffer, heapLive)
            /\ UNCHANGED <<hdr, msg, c99, size, buffer>>
       ELSE /\ size' = NextSize(need, more, size)
            /\ heapLive' = Release(buffer, heapLive) + 1
            /\ buffer' = "heap"
            /\ UNCHANGED <<hdr, msg, c99>>
            /\ UNCHANGED <<writes, line, done>>

Next == Attempt

\* The calling thread runs the loop to its end; once it has returned no step
\* is left (the runs do not check deadlock).
Spec == Init /\ [][Next]_vars /\ WF_vars(Attempt)

-----------------------------------------------------------------------------
\* Every variable holds a value of its type; at most one heap buffer is
\* live at a time.
TypeOK ==
  /\ hdr \in HeaderLens /\ msg \in MsgLens /\ c99 \in BOOLEAN
  /\ size \in Nat \ {0}
  /\ buffer \in {"local", "heap"}
  /\ heapLive \in 0 .. 1
  /\ line \in Int
  /\ done \in BOOLEAN

\* Every byte the loop writes after formatting (the '\n' at need + more and
\* the terminator after it) lies inside the buffer in use: the stack buffer
\* has one byte more than `size', each heap buffer size + 1 bytes.
WritesInBounds == \A w \in writes : 0 <= w[1] /\ w[1] < w[2]

\* When _output_logf returns, after any number of retries, every heap buffer
\* it allocated has been freed (and the stack buffer never was).
ReturnsFreed == done => heapLive = 0

\* The lines the sinks have received: none until the attempt that fits.
Delivered == IF line = -1 THEN << >> ELSE << line >>

LL == INSTANCE LogLine
        WITH header <- hdr, message <- msg, delivered <- Delivered, returned <- done

\* The buffer loop implements the abstract call of LogLine: every retry is
\* invisible to the caller (a stutter of the header, the message, the lines
\* delivered and the return), the one successful attempt hands the whole
\* line to the sinks, once, and under the loop's fairness the call returns,
\* because the size computed after a failed attempt is large enough in the
\* end.
LogLineSpec == LL!Spec

\* Every attempt that does not fit retries with a strictly larger size, for
\* both libcs: the size recomputed from the lengths snprintf and vsnprintf
\* return (or doubled after a -1) never repeats or shrinks the last one, so
\* the loop cannot spin on one size.
RetryGrows == [][~done' => size' > size]_vars
=============================================================================
