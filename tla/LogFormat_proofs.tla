--------------------------- MODULE LogFormat_proofs ---------------------------
(***************************************************************************)
(* Proofs about the buffer loop of _output_logf, for every header length   *)
(* below the initial size, every message length and both kinds of libc.    *)
(***************************************************************************)
EXTENDS LogFormat, Sequences, TLAPS

\* The lengths that one attempt computes (the LET of Attempt).
Need   == Snprintf(hdr, size)
Remain == size - Need
More   == Vsnprintf(msg, Remain)
Fits   == More > -1 /\ More < Remain

\* The inductive invariant: the size never drops below the initial one, the
\* stack buffer is only used with the initial size, exactly one heap buffer
\* is live while the loop runs on a heap buffer, and a returned call handed
\* over the whole line.
IInv ==
  /\ TypeOK
  /\ size >= InitialSize
  /\ buffer = "local" => size = InitialSize
  /\ heapLive = IF buffer = "heap" /\ ~done THEN 1 ELSE 0
  /\ done => line = hdr + msg
  /\ ~done => line = -1
  /\ WritesInBounds

\* The initial state satisfies the invariant.
LEMMA InitIInv == Init => IInv
<1> SUFFICES ASSUME Init PROVE IInv
  OBVIOUS
<1>1. hdr \in HeaderLens /\ msg \in MsgLens /\ c99 \in BOOLEAN /\ done \in BOOLEAN
  BY Zenon DEF Init
<1>2. size \in Nat \ {0} /\ heapLive \in 0 .. 1 /\ line \in Int /\ size >= InitialSize
  BY FormatAssumption DEF Init
<1>3. buffer \in {"local", "heap"} /\ heapLive = 0 /\ ~done /\ buffer # "heap"
  BY Zenon DEF Init
<1>4. WritesInBounds
  BY DEF Init, WritesInBounds
<1>. QED
  BY <1>1, <1>2, <1>3, <1>4 DEF Init, IInv, TypeOK

\* The header always fits: snprintf returns its length.
LEMMA NeedIsHeader == IInv => Need = hdr
BY FormatAssumption DEF IInv, TypeOK, Need, Snprintf

\* Attempt, with its LET unfolded.
LEMMA AttemptUnfolded ==
  Attempt <=>
    /\ ~done
    /\ IF Fits
         THEN /\ writes' = writes \cup {<<Need + More, Capacity>>, <<Need + More + 1, Capacity>>}
              /\ line' = Need + More
              /\ done' = TRUE
              /\ heapLive' = Release(buffer, heapLive)
              /\ UNCHANGED <<hdr, msg, c99, size, buffer>>
         ELSE /\ size' = NextSize(Need, More, size)
              /\ heapLive' = Release(buffer, heapLive) + 1
              /\ buffer' = "heap"
              /\ UNCHANGED <<hdr, msg, c99>>
              /\ UNCHANGED <<writes, line, done>>
BY DEF Attempt, Need, Remain, More, Fits

\* Every attempt preserves the invariant.
LEMMA NextIInv == IInv /\ [Next]_vars => IInv'
<1> SUFFICES ASSUME IInv, [Next]_vars PROVE IInv'
  OBVIOUS
<1>1. Need = hdr
  BY NeedIsHeader
<1>2. CASE UNCHANGED vars
  BY <1>2 DEF vars, IInv, TypeOK, WritesInBounds
<1>3. CASE Attempt /\ Fits
  <2>1. More = msg
    BY <1>3 DEF Fits, More, Vsnprintf
  <2>2. /\ writes' = writes \cup {<<hdr + msg, Capacity>>, <<hdr + msg + 1, Capacity>>}
        /\ line' = hdr + msg /\ done' = TRUE /\ ~done
        /\ heapLive' = Release(buffer, heapLive)
        /\ UNCHANGED <<hdr, msg, c99, size, buffer>>
    BY <1>1, <1>3, <2>1, AttemptUnfolded
  <2>3. hdr + msg < size
    BY <1>1, <1>3, <2>1, FormatAssumption DEF Fits, Remain, IInv, TypeOK
  <2>4. hdr + msg + 1 < Capacity
    BY <2>2, <2>3, FormatAssumption DEF Capacity, AllocBytes, IInv, TypeOK
  <2>5. WritesInBounds'
    <3> SUFFICES ASSUME NEW w \in writes' PROVE 0 <= w[1] /\ w[1] < w[2]
      BY DEF WritesInBounds
    <3>1. CASE w \in writes
      BY <3>1 DEF IInv, WritesInBounds
    <3>2. CASE w = <<hdr + msg, Capacity>>
      BY <3>2, <2>3, <2>4, FormatAssumption DEF IInv, TypeOK, Capacity, AllocBytes
    <3>3. CASE w = <<hdr + msg + 1, Capacity>>
      BY <3>3, <2>4, FormatAssumption DEF IInv, TypeOK
    <3>. QED
      BY <2>2, <3>1, <3>2, <3>3
  <2>6. heapLive' = 0
    BY <2>2 DEF Release, IInv, TypeOK
  <2>7. TypeOK'
    BY <2>2, <2>6 DEF IInv, TypeOK
  <2>. QED
    BY <2>2, <2>5, <2>6, <2>7 DEF IInv
<1>4. CASE Attempt /\ ~Fits
  <2>1. /\ size' = NextSize(hdr, More, size)
        /\ heapLive' = Release(buffer, heapLive) + 1
        /\ buffer' = "heap" /\ ~done
        /\ UNCHANGED <<hdr, msg, c99, writes, line, done>>
    BY <1>1, <1>4, AttemptUnfolded
  <2>2. More \in Int
    BY FormatAssumption DEF More, Vsnprintf, Remain, Need, Snprintf, IInv, TypeOK
  <2>3. size' \in Nat /\ size' >= InitialSize
    BY <1>1, <1>4, <2>1, <2>2, FormatAssumption DEF Fits, Remain, NextSize, IInv, TypeOK
  <2>4. heapLive' = 1
    BY <2>1 DEF Release, IInv, TypeOK
  <2>5. TypeOK'
    BY <2>1, <2>3, <2>4, FormatAssumption DEF IInv, TypeOK
  <2>. QED
    BY <2>1, <2>3, <2>4, <2>5 DEF IInv, WritesInBounds
<1>. QED
  BY <1>2, <1>3, <1>4 DEF Next

\* The invariant holds in every state of every behaviour.
LEMMA AlwaysIInv == Spec => []IInv
BY InitIInv, NextIInv, PTL DEF Spec

\* Every variable of the loop keeps its type, and at most one heap buffer
\* is allocated at any time.
THEOREM TypeCorrect == Spec => []TypeOK
BY AlwaysIInv, PTL DEF IInv

\* The '\n' and the terminator that _output_logf writes always lie inside
\* the buffer in use, for every header and message length.
THEOREM BoundsSafe == Spec => []WritesInBounds
BY AlwaysIInv, PTL DEF IInv

\* When _output_logf returns, after any number of retries, it has freed
\* every heap buffer it allocated.
THEOREM FreedOnReturn == Spec => []ReturnsFreed
<1>1. IInv => ReturnsFreed
  BY DEF IInv, ReturnsFreed
<1>. QED
  BY AlwaysIInv, <1>1, PTL

\* Every attempt that does not fit retries with a strictly larger size:
\* the recomputed size exceeds the last one because vsnprintf's answer was
\* at least what remained, and a doubled size exceeds it because it is
\* positive.
THEOREM RetriesGrow == Spec => RetryGrows
<1>1. IInv /\ [Next]_vars => [~done' => size' > size]_vars
  <2> SUFFICES ASSUME IInv, [Next]_vars PROVE [~done' => size' > size]_vars
    OBVIOUS
  <2>1. CASE Attempt /\ Fits
    BY <2>1, AttemptUnfolded
  <2>2. CASE Attempt /\ ~Fits
    <3>1. size' = NextSize(hdr, More, size)
      BY <2>2, NeedIsHeader, AttemptUnfolded
    <3>2. More \in Int
      BY FormatAssumption DEF More, Vsnprintf, Remain, Need, Snprintf, IInv, TypeOK
    <3>3. size' > size
      BY <2>2, <3>1, <3>2, NeedIsHeader, FormatAssumption DEF Fits, Remain, NextSize, IInv, TypeOK
    <3>. QED
      BY <3>3
  <2>3. CASE UNCHANGED vars
    BY <2>3
  <2>. QED
    BY <2>1, <2>2, <2>3 DEF Next
<1>. QED
  BY <1>1, AlwaysIInv, PTL DEF Spec, RetryGrows

\* The safety part of the refinement: the loop's initial states are the
\* abstract call's, each failed attempt is a stutter of hdr, msg, line and
\* done, and the attempt that fits is the abstract Emit.
THEOREM ImplementsLogLineSafety == Spec => LL!SafetySpec
<1>1. Init => LL!Init
  BY DEF Init, LL!Init, Delivered
<1>2. IInv /\ [Next]_vars => [LL!Emit]_LL!vars
  <2> SUFFICES ASSUME IInv, [Next]_vars PROVE [LL!Emit]_LL!vars
    OBVIOUS
  <2>1. CASE Attempt /\ Fits
    <3>1. More = msg
      BY <2>1 DEF Fits, More, Vsnprintf
    <3>2. line = -1 /\ line' = hdr + msg /\ ~done /\ done'
      BY <2>1, <3>1, NeedIsHeader, AttemptUnfolded DEF IInv
    <3>3. Delivered = << >> /\ Delivered' = << hdr + msg >>
      BY <3>2, FormatAssumption DEF Delivered, IInv, TypeOK
    <3>. QED
      BY <2>1, <3>2, <3>3, AttemptUnfolded DEF LL!Emit
  <2>2. CASE Attempt /\ ~Fits
    BY <2>2, AttemptUnfolded DEF LL!vars, Delivered
  <2>3. CASE UNCHANGED vars
    BY <2>3 DEF vars, LL!vars, Delivered
  <2>. QED
    BY <2>1, <2>2, <2>3 DEF Next
<1>. QED
  BY <1>1, <1>2, AlwaysIInv, PTL DEF Spec, LL!SafetySpec
=============================================================================
