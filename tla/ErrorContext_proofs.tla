------------------------- MODULE ErrorContext_proofs -------------------------
(***************************************************************************)
(* Proofs about ErrorContext for every value of the constants.            *)
(*                                                                         *)
(* Neither TypeOK nor ContextIsNewestSuffix is inductive alone: a log call *)
(* types its lines only if the slots below depth hold frames, which        *)
(* ContextIsNewestSuffix gives; and a push in a build without the context  *)
(* keeps ContextIsNewestSuffix only because depth is then 0, which         *)
(* ContextShape gives.  IInv is their conjunction.                         *)
(***************************************************************************)
EXTENDS ErrorContext, SequenceTheorems, TLAPS

IInv == TypeOK /\ ContextIsNewestSuffix /\ ContextShape

USE ConstantsAssumption DEF Levels, Calls, Line

LEMMA InitIInv == Init => IInv
BY DEF Init, IInv, TypeOK, ContextIsNewestSuffix, ContextShape, Slots, Line

\* Each action keeps IInv; one lemma per action that touches the context.

LEMMA PushIInv ==
  ASSUME IInv, NEW t \in Threads, NEW f \in Frames, ContextPush(t, f)
  PROVE  IInv'
<1>1. /\ depth[t] \in 0 .. MaxDepth
      /\ logical[t] \in Seq(Frames)
      /\ depth[t] <= Len(logical[t])
      /\ \A i \in 1 .. depth[t] : slot[t][i] = logical[t][Len(logical[t]) - depth[t] + i]
      /\ slot[t] \in [Slots -> Frames \cup {NoFrame}]
      /\ Len(logical[t]) \in Nat
  BY LenProperties DEF IInv, TypeOK, ContextIsNewestSuffix
<1>2. /\ logical' = [logical EXCEPT ![t] = Append(logical[t], f)]
      /\ UNCHANGED <<err, lastCall>>
  BY DEF ContextPush
<1>3. /\ logical' \in [Threads -> Seq(Frames)]
      /\ Len(logical'[t]) = Len(logical[t]) + 1
      /\ \A i \in 1 .. Len(logical[t]) : logical'[t][i] = logical[t][i]
      /\ logical'[t][Len(logical[t]) + 1] = f
  BY <1>1, <1>2 DEF IInv, TypeOK
<1>4. CASE ContextEnabled /\ depth[t] < MaxDepth
  <2>1. /\ alloc' = [alloc EXCEPT ![t] = TRUE]
        /\ depth' = [depth EXCEPT ![t] = depth[t] + 1]
        /\ slot' = [slot EXCEPT ![t][depth[t] + 1] = f]
    BY <1>4 DEF ContextPush, PushFrame
  <2>2. TypeOK'
    <3>2. alloc' \in [Threads -> BOOLEAN]
      BY <2>1 DEF IInv, TypeOK
    <3>3. depth' \in [Threads -> 0 .. MaxDepth]
      BY <1>1, <1>4, <2>1 DEF IInv, TypeOK
    <3>4. slot'[t] \in [Slots -> Frames \cup {NoFrame}]
      BY <1>1, <2>1 DEF IInv, TypeOK
    <3>5. slot' \in [Threads -> [Slots -> Frames \cup {NoFrame}]]
      BY <2>1, <3>4 DEF IInv, TypeOK
    <3>6. QED BY <1>2, <1>3, <3>2, <3>3, <3>5 DEF IInv, TypeOK
  <2>3. ContextShape'
    BY <1>4, <2>1 DEF IInv, TypeOK, ContextShape
  <2>4. ContextIsNewestSuffix'
    <3> SUFFICES ASSUME NEW u \in Threads
                 PROVE  /\ depth'[u] <= Len(logical'[u])
                        /\ \A i \in 1 .. depth'[u] :
                              slot'[u][i] = logical'[u][Len(logical'[u]) - depth'[u] + i]
      BY DEF ContextIsNewestSuffix
    <3>1. CASE u # t
      <4>1. /\ depth'[u] = depth[u]
            /\ slot'[u] = slot[u]
            /\ logical'[u] = logical[u]
        BY <1>2, <2>1, <3>1 DEF IInv, TypeOK
      <4>2. QED BY <4>1 DEF IInv, ContextIsNewestSuffix
    <3>2. CASE u = t
      <4>1. depth'[t] = depth[t] + 1 /\ slot'[t] = [slot[t] EXCEPT ![depth[t] + 1] = f]
        BY <2>1 DEF IInv, TypeOK
      <4>2. ASSUME NEW i \in 1 .. depth[t] + 1
            PROVE  slot'[t][i] = logical'[t][Len(logical[t]) + 1 - (depth[t] + 1) + i]
        <5>1. CASE i = depth[t] + 1
          <6>1. depth[t] + 1 \in DOMAIN slot[t]
            BY <1>1, <1>4 DEF Slots
          <6>2. slot'[t][depth[t] + 1] = f
            BY <4>1, <6>1
          <6>3. Len(logical[t]) + 1 - (depth[t] + 1) + i = Len(logical[t]) + 1
            BY <1>1, <5>1
          <6>4. QED BY <1>3, <5>1, <6>2, <6>3
        <5>2. CASE i # depth[t] + 1
          <6>1. i \in 1 .. depth[t]
            BY <1>1, <5>2
          <6>2. slot'[t][i] = slot[t][i]
            BY <1>1, <4>1, <5>2, <6>1 DEF Slots
          <6>3. /\ Len(logical[t]) + 1 - (depth[t] + 1) + i = Len(logical[t]) - depth[t] + i
                /\ Len(logical[t]) - depth[t] + i \in 1 .. Len(logical[t])
            BY <1>1, <6>1
          <6>4. QED BY <1>1, <1>3, <6>1, <6>2, <6>3
        <5>3. QED BY <5>1, <5>2
      <4>3. depth'[t] <= Len(logical'[t])
        BY <1>1, <1>3, <4>1
      <4>4. ASSUME NEW i \in 1 .. depth'[t]
            PROVE  slot'[t][i] = logical'[t][Len(logical'[t]) - depth'[t] + i]
        <5>1. i \in 1 .. depth[t] + 1
          BY <4>1
        <5>2. Len(logical'[t]) - depth'[t] + i = Len(logical[t]) + 1 - (depth[t] + 1) + i
          <6>1. Len(logical'[t]) = Len(logical[t]) + 1
            BY <1>3
          <6>2. depth'[t] = depth[t] + 1
            BY <4>1
          <6>3. depth[t] \in Nat /\ Len(logical[t]) \in Nat
            BY <1>1
          <6>4. QED BY <6>1, <6>2, <6>3
        <5>3. QED BY <4>2, <5>1, <5>2
      <4>5. QED BY <3>2, <4>3, <4>4
    <3>3. QED BY <3>1, <3>2
  <2>5. QED BY <2>2, <2>3, <2>4 DEF IInv
<1>5. CASE ContextEnabled /\ ~(depth[t] < MaxDepth)
  <2>1. /\ alloc' = [alloc EXCEPT ![t] = TRUE]
        /\ UNCHANGED depth
        /\ slot' = [slot EXCEPT ![t] = [i \in Slots |->
                      IF i < MaxDepth THEN slot[t][i + 1] ELSE f]]
    BY <1>5 DEF ContextPush, PushFrame
  <2>0. depth[t] = MaxDepth
    BY <1>1, <1>5
  <2>2. TypeOK'
    <3>2. alloc' \in [Threads -> BOOLEAN]
      BY <2>1 DEF IInv, TypeOK
    <3>3. depth' \in [Threads -> 0 .. MaxDepth]
      BY <2>1 DEF IInv, TypeOK
    <3>4. slot'[t] \in [Slots -> Frames \cup {NoFrame}]
      <4>1. \A i \in Slots : i < MaxDepth => i + 1 \in Slots
        BY DEF Slots
      <4>2. QED BY <1>1, <2>1, <4>1 DEF IInv, TypeOK
    <3>5. slot' \in [Threads -> [Slots -> Frames \cup {NoFrame}]]
      BY <2>1, <3>4 DEF IInv, TypeOK
    <3>6. QED BY <1>2, <1>3, <3>2, <3>3, <3>5 DEF IInv, TypeOK
  <2>3. ContextShape'
    BY <1>5, <2>1 DEF IInv, TypeOK, ContextShape
  <2>4. ContextIsNewestSuffix'
    <3> SUFFICES ASSUME NEW u \in Threads
                 PROVE  /\ depth'[u] <= Len(logical'[u])
                        /\ \A i \in 1 .. depth'[u] :
                              slot'[u][i] = logical'[u][Len(logical'[u]) - depth'[u] + i]
      BY DEF ContextIsNewestSuffix
    <3>1. CASE u # t
      <4>1. /\ depth'[u] = depth[u]
            /\ slot'[u] = slot[u]
            /\ logical'[u] = logical[u]
        BY <1>2, <2>1, <3>1 DEF IInv, TypeOK
      <4>2. QED BY <4>1 DEF IInv, ContextIsNewestSuffix
    <3>2. CASE u = t
      <4>0. /\ depth'[t] = MaxDepth
            /\ slot'[t] = [i \in Slots |-> IF i < MaxDepth THEN slot[t][i + 1] ELSE f]
        BY <2>0, <2>1 DEF IInv, TypeOK
      <4>1. ASSUME NEW i \in 1 .. MaxDepth
            PROVE  slot'[t][i] = logical'[t][Len(logical[t]) + 1 - MaxDepth + i]
        <5>1. CASE i = MaxDepth
          <6>1. slot'[t][i] = f
            BY <4>0, <5>1 DEF Slots
          <6>2. Len(logical[t]) + 1 - MaxDepth + i = Len(logical[t]) + 1
            BY <1>1, <5>1
          <6>3. QED BY <1>3, <6>1, <6>2
        <5>2. CASE i < MaxDepth
          <6>1. slot'[t][i] = slot[t][i + 1]
            BY <4>0, <5>2 DEF Slots
          <6>2. i + 1 \in 1 .. depth[t]
            BY <2>0, <5>2
          <6>3. slot[t][i + 1] = logical[t][Len(logical[t]) - depth[t] + (i + 1)]
            BY <1>1, <6>2
          <6>4. /\ Len(logical[t]) - depth[t] + (i + 1) = Len(logical[t]) + 1 - MaxDepth + i
                /\ Len(logical[t]) + 1 - MaxDepth + i \in 1 .. Len(logical[t])
            <7>1. depth[t] <= Len(logical[t]) /\ Len(logical[t]) \in Nat
              BY <1>1
            <7>2. logical \in [Threads -> Seq(Frames)]
              BY DEF IInv, TypeOK
            <7>3. QED BY <2>0, <5>2, <7>1, <7>2
          <6>5. logical'[t][Len(logical[t]) + 1 - MaxDepth + i]
                  = logical[t][Len(logical[t]) + 1 - MaxDepth + i]
            BY <1>3, <6>4
          <6>6. QED BY <6>1, <6>3, <6>4, <6>5
        <5>3. QED BY <5>1, <5>2
      <4>2. depth'[t] <= Len(logical'[t])
        BY <1>1, <1>3, <2>0, <4>0
      <4>3. ASSUME NEW i \in 1 .. depth'[t]
            PROVE  slot'[t][i] = logical'[t][Len(logical'[t]) - depth'[t] + i]
        <5>1. i \in 1 .. MaxDepth
          BY <4>0
        <5>2. Len(logical'[t]) - depth'[t] + i = Len(logical[t]) + 1 - MaxDepth + i
          BY <1>3, <4>0
        <5>3. QED BY <4>1, <5>1, <5>2
      <4>4. QED BY <3>2, <4>2, <4>3
    <3>3. QED BY <3>1, <3>2
  <2>5. QED BY <2>2, <2>3, <2>4 DEF IInv
<1>6. CASE ~ContextEnabled
  <2>1. UNCHANGED <<alloc, depth, slot>>
    BY <1>6 DEF ContextPush
  <2>2. depth[t] = 0
    BY <1>1, <1>6 DEF IInv, ContextShape
  <2>3. TypeOK'
    BY <1>2, <1>3, <2>1 DEF IInv, TypeOK
  <2>4. ContextIsNewestSuffix'
    <3> SUFFICES ASSUME NEW u \in Threads
                 PROVE  /\ depth'[u] <= Len(logical'[u])
                        /\ \A i \in 1 .. depth'[u] :
                              slot'[u][i] = logical'[u][Len(logical'[u]) - depth'[u] + i]
      BY DEF ContextIsNewestSuffix
    <3>1. CASE u # t
      <4>1. logical'[u] = logical[u]
        BY <1>2, <3>1 DEF IInv, TypeOK
      <4>2. QED BY <2>1, <4>1 DEF IInv, ContextIsNewestSuffix
    <3>2. CASE u = t
      <4>1. depth'[t] = 0
        BY <2>1, <2>2
      <4>2. QED BY <1>3, <3>2, <4>1
    <3>3. QED BY <3>1, <3>2
  <2>5. ContextShape'
    BY <2>1 DEF IInv, ContextShape
  <2>6. QED BY <2>3, <2>4, <2>5 DEF IInv
<1>7. QED BY <1>4, <1>5, <1>6

LEMMA PopIInv ==
  ASSUME IInv, NEW t \in Threads, ContextPop(t)
  PROVE  IInv'
<1>1. /\ depth[t] \in 0 .. MaxDepth
      /\ logical[t] \in Seq(Frames)
      /\ depth[t] <= Len(logical[t])
      /\ \A i \in 1 .. depth[t] : slot[t][i] = logical[t][Len(logical[t]) - depth[t] + i]
  BY DEF IInv, TypeOK, ContextIsNewestSuffix
<1>2. /\ UNCHANGED <<err, alloc, slot, lastCall>>
      /\ depth' = [depth EXCEPT ![t] = IF depth[t] > 0 THEN depth[t] - 1 ELSE depth[t]]
  BY DEF ContextPop
<1>3. CASE logical[t] = << >>
  <2>1. depth[t] = 0
    BY <1>1, <1>3
  <2>2. logical' = [logical EXCEPT ![t] = logical[t]]
    BY <1>3 DEF ContextPop
  <2>3. logical' = logical
    BY <2>2 DEF IInv, TypeOK
  <2>4. depth' = [depth EXCEPT ![t] = depth[t]]
    BY <1>2, <2>1
  <2>5. depth' = depth
    BY <2>4 DEF IInv, TypeOK
  <2>6. QED BY <1>2, <2>3, <2>5 DEF IInv, TypeOK, ContextIsNewestSuffix, ContextShape
<1>4. CASE logical[t] # << >>
  <2>1. logical' = [logical EXCEPT ![t] = SubSeq(logical[t], 1, Len(logical[t]) - 1)]
    BY <1>4 DEF ContextPop, DropLast
  <2>2. /\ Len(logical[t]) > 0
        /\ logical'[t] \in Seq(Frames)
        /\ Len(logical'[t]) = Len(logical[t]) - 1
        /\ \A i \in 1 .. Len(logical[t]) - 1 : logical'[t][i] = logical[t][i]
    <3>1. Len(logical[t]) \in Nat \ {0}
      BY <1>1, <1>4, EmptySeq
    <3>2. \A i \in 1 .. Len(logical[t]) - 1 : logical[t][i] \in Frames
      BY <1>1, <3>1, ElementOfSeq
    <3>3. /\ SubSeq(logical[t], 1, Len(logical[t]) - 1) \in Seq(Frames)
          /\ Len(SubSeq(logical[t], 1, Len(logical[t]) - 1)) = Len(logical[t]) - 1
          /\ \A i \in 1 .. Len(logical[t]) - 1 :
               SubSeq(logical[t], 1, Len(logical[t]) - 1)[i] = logical[t][i]
      BY <3>1, <3>2, SubSeqProperties
    <3>4. logical'[t] = SubSeq(logical[t], 1, Len(logical[t]) - 1)
      BY <2>1 DEF IInv, TypeOK
    <3>5. QED BY <3>1, <3>3, <3>4
  <2>3. TypeOK'
    <3>1. logical' \in [Threads -> Seq(Frames)]
      BY <2>1, <2>2 DEF IInv, TypeOK
    <3>2. depth' \in [Threads -> 0 .. MaxDepth]
      BY <1>1, <1>2 DEF IInv, TypeOK
    <3>3. QED BY <1>2, <3>1, <3>2 DEF IInv, TypeOK
  <2>4. ContextShape'
    <3>1. \A u \in Threads : depth'[u] > 0 => depth[u] > 0
      BY <1>2 DEF IInv, TypeOK
    <3>2. QED BY <1>2, <3>1 DEF IInv, ContextShape
  <2>5. ContextIsNewestSuffix'
    <3> SUFFICES ASSUME NEW u \in Threads
                 PROVE  /\ depth'[u] <= Len(logical'[u])
                        /\ \A i \in 1 .. depth'[u] :
                              slot'[u][i] = logical'[u][Len(logical'[u]) - depth'[u] + i]
      BY DEF ContextIsNewestSuffix
    <3>1. CASE u # t
      <4>1. /\ depth'[u] = depth[u]
            /\ logical'[u] = logical[u]
        BY <1>2, <2>1, <3>1 DEF IInv, TypeOK
      <4>2. QED BY <1>2, <4>1 DEF IInv, ContextIsNewestSuffix
    <3>2. CASE u = t /\ depth[t] = 0
      <4>1. depth'[t] = 0
        BY <1>2, <3>2 DEF IInv, TypeOK
      <4>2. QED BY <2>2, <3>2, <4>1
    <3>3. CASE u = t /\ depth[t] > 0
      <4>1. depth'[t] = depth[t] - 1
        BY <1>2, <3>3 DEF IInv, TypeOK
      <4>2. ASSUME NEW i \in 1 .. depth[t] - 1
            PROVE  slot'[t][i] = logical'[t][Len(logical[t]) - 1 - (depth[t] - 1) + i]
        <5>1. i \in 1 .. depth[t]
          BY <1>1, <3>3
        <5>2. slot[t][i] = logical[t][Len(logical[t]) - depth[t] + i]
          BY <1>1, <5>1
        <5>3. /\ Len(logical[t]) - 1 - (depth[t] - 1) + i = Len(logical[t]) - depth[t] + i
              /\ Len(logical[t]) - depth[t] + i \in 1 .. Len(logical[t]) - 1
          BY <1>1, <3>3
        <5>4. QED BY <1>2, <2>2, <5>2, <5>3
      <4>3. depth'[t] <= Len(logical'[t])
        BY <1>1, <2>2, <4>1
      <4>4. \A i \in 1 .. depth'[t] :
              slot'[t][i] = logical'[t][Len(logical'[t]) - depth'[t] + i]
        BY <2>2, <4>1, <4>2
      <4>5. QED BY <3>3, <4>3, <4>4
    <3>4. QED BY <1>1, <3>1, <3>2, <3>3
  <2>6. QED BY <2>3, <2>4, <2>5 DEF IInv
<1>5. QED BY <1>3, <1>4

\* The slots below depth hold frames, not NoFrame.
LEMMA ViewFrames ==
  ASSUME IInv, NEW t \in Threads
  PROVE  \A i \in 1 .. depth[t] : slot[t][i] \in Frames
<1>1. /\ logical[t] \in Seq(Frames)
      /\ depth[t] \in 0 .. MaxDepth
      /\ depth[t] <= Len(logical[t])
      /\ \A i \in 1 .. depth[t] : slot[t][i] = logical[t][Len(logical[t]) - depth[t] + i]
  BY DEF IInv, TypeOK, ContextIsNewestSuffix
<1>2. ASSUME NEW i \in 1 .. depth[t]
      PROVE  Len(logical[t]) - depth[t] + i \in 1 .. Len(logical[t])
  BY <1>1
<1>3. QED BY <1>1, <1>2, ElementOfSeq

LEMMA LogIInv ==
  ASSUME IInv, NEW t \in Threads,
         \/ DebugLogf(t)
         \/ InfoLogf(t)
         \/ WarnLogf(t)
         \/ \E l \in ReportLevels, c \in Codes : ErrorLogf(t, l, c)
  PROVE  IInv'
<1>0. \A i \in 1 .. depth[t] : slot[t][i] \in Frames
  BY ViewFrames
<1>1. ASSUME NEW l \in Levels PROVE ErrorLogContext(t, l) \in Seq(Line)
  <2>1. depth[t] \in Nat
    BY DEF IInv, TypeOK
  <2>2. [i \in 1 .. depth[t] |-> OutputLogf(l, slot[t][i])] \in Seq(Line)
    <3>0. \A i \in 1 .. depth[t] : OutputLogf(l, slot[t][i]) \in Line
      BY <1>0 DEF OutputLogf, Line
    <3>1. [i \in 1 .. depth[t] |-> OutputLogf(l, slot[t][i])] \in [1 .. depth[t] -> Line]
      BY <3>0, Zenon
    <3>2. \E n \in Nat : [i \in 1 .. depth[t] |-> OutputLogf(l, slot[t][i])] \in [1 .. n -> Line]
      BY <2>1, <3>1
    <3>3. [i \in 1 .. depth[t] |-> OutputLogf(l, slot[t][i])] \in UNION {[1 .. n -> Line] : n \in Nat}
      BY <3>2
    <3>4. QED BY <3>3, SeqDef
  <2>3. << >> \in Seq(Line)
    OBVIOUS
  <2>4. QED BY <2>2, <2>3 DEF ErrorLogContext
<1>2. ASSUME NEW l \in Levels
      PROVE  ErrorLogContext(t, l) \o << OutputLogf(l, Msg) >> \in Seq(Line)
  <2>1. OutputLogf(l, Msg) \in Line
    BY DEF OutputLogf, Line
  <2>2. QED BY <1>1, <2>1
<1>3. LevelDebug \in Levels /\ LevelInfo \in Levels /\ LevelWarning \in Levels /\ LevelError \in Levels
  BY DEF Levels
<1>4. lastCall \in [Threads -> [op : Calls, level : Levels, lines : Seq(Line)]]
  BY DEF IInv, TypeOK
<1>5. CASE InfoLogf(t)
  <2>1. << OutputLogf(LevelInfo, Msg) >> \in Seq(Line)
    BY <1>3 DEF OutputLogf, Line
  <2>2. lastCall' \in [Threads -> [op : Calls, level : Levels, lines : Seq(Line)]]
    BY <1>3, <1>4, <1>5, <2>1 DEF InfoLogf
  <2>3. QED BY <1>5, <2>2 DEF InfoLogf, IInv, TypeOK, ContextIsNewestSuffix, ContextShape
<1>6. CASE WarnLogf(t)
  <2>1. lastCall' \in [Threads -> [op : Calls, level : Levels, lines : Seq(Line)]]
    BY <1>2, <1>3, <1>4, <1>6 DEF WarnLogf
  <2>2. QED BY <1>6, <2>1 DEF WarnLogf, IInv, TypeOK, ContextIsNewestSuffix, ContextShape
<1>7. CASE \E l \in ReportLevels, c \in Codes : ErrorLogf(t, l, c)
  <2>1. PICK l \in ReportLevels, c \in Codes : ErrorLogf(t, l, c)
    BY <1>7
  <2>2. l \in Levels
    BY DEF ReportLevels, Levels
  <2>3. lastCall' \in [Threads -> [op : Calls, level : Levels, lines : Seq(Line)]]
    BY <1>2, <1>3, <1>4, <2>1, <2>2 DEF ErrorLogf
  <2>4. err' \in [Threads -> Codes \cup {NONE}]
    BY <2>1 DEF ErrorLogf, IInv, TypeOK
  <2>5. QED BY <2>1, <2>3, <2>4 DEF ErrorLogf, IInv, TypeOK, ContextIsNewestSuffix, ContextShape
<1>9. CASE DebugLogf(t)
  <2>1. << OutputLogf(LevelDebug, Msg) >> \in Seq(Line)
    BY <1>3 DEF OutputLogf, Line
  <2>2. lastCall' \in [Threads -> [op : Calls, level : Levels, lines : Seq(Line)]]
    BY <1>3, <1>4, <1>9, <2>1 DEF DebugLogf, Calls
  <2>3. QED BY <1>9, <2>2 DEF DebugLogf, IInv, TypeOK, ContextIsNewestSuffix, ContextShape
<1>8. QED BY <1>5, <1>6, <1>7, <1>9

LEMMA NextIInv == IInv /\ [Next]_vars => IInv'
<1> SUFFICES ASSUME IInv, [Next]_vars PROVE IInv'
  OBVIOUS
<1>1. ASSUME NEW t \in Threads, ErrorRead(t) PROVE IInv'
  BY <1>1 DEF ErrorRead, IInv, TypeOK, ContextIsNewestSuffix, ContextShape
<1>2. ASSUME NEW t \in Threads, NEW l \in ReportLevels, NEW c \in Codes,
             ErrorReport(t, l, c)
      PROVE IInv'
  BY <1>2 DEF ErrorReport, IInv, TypeOK, ContextIsNewestSuffix, ContextShape
<1>3. CASE UNCHANGED vars
  BY <1>3 DEF vars, IInv, TypeOK, ContextIsNewestSuffix, ContextShape
<1>4. QED BY <1>1, <1>2, <1>3, PushIInv, PopIInv, LogIInv DEF Next

\* ErrorContext keeps every variable in its type, depth in
\* 0 .. BUILD_SIZE_ERROR_CONTEXT_DEPTH included.
THEOREM TypeCorrect == Spec => []TypeOK
<1>1. Spec => []IInv BY InitIInv, NextIInv, PTL DEF Spec
<1>2. QED BY <1>1, PTL DEF IInv

\* For every depth limit, thread set and bound, the frames that
\* error_context() shows are the newest outstanding pushes, oldest first.
THEOREM NewestSuffix == Spec => []ContextIsNewestSuffix
<1>1. Spec => []IInv BY InitIInv, NextIInv, PTL DEF Spec
<1>2. QED BY <1>1, PTL DEF IInv
=============================================================================
