---------------------------- MODULE ErrorTest_proofs ----------------------------
(***************************************************************************)
(* Proofs about the error test suite: whatever the interleaving of the    *)
(* threads and however many passes they run, no EXPECT of                  *)
(* error_test_thread fails, when the context holds the two frames the      *)
(* test nests.                                                             *)
(***************************************************************************)
EXTENDS ErrorTest, ErrorContext_proofs, SequenceTheorems

\* The register of a running thread before step k of the script: the two
\* reads that follow a report see its code, every other read ERROR_NONE.
ErrAt(k) ==
  CASE k = 4 -> ErrorAccessDenied
    [] k = 7 -> ErrorInvalidValue
    [] OTHER -> NONE

\* The frames the thread has pushed and not popped before step k.
LogicalAt(k) ==
  CASE k \in {11, 12, 15, 18, 19} -> << FrameErrorTest >>
    [] k \in {16, 17} -> << FrameErrorTest, FrameAnotherTest >>
    [] OTHER -> << >>

\* A running thread's own state is the one its position in the script
\* dictates; the bounded context holds all its frames.
AtScript(t) ==
  /\ err[t] = ErrAt(pc[t])
  /\ logical[t] = LogicalAt(pc[t])
  /\ depth[t] = IF ContextEnabled THEN Len(logical[t]) ELSE 0
  /\ ContextEnabled /\ (pass[t] > 0 \/ pc[t] >= 11) => alloc[t]

TestIInv ==
  /\ IInv
  /\ TestTypeOK
  /\ NoExpectFails
  /\ \A t \in Threads : result[t] = "running" => AtScript(t)

USE ConstantsAssumption, TestAssumption

\* error_test_thread's script, step by step.
LEMMA ScriptIs ==
  Script = << Read(NONE), Read(NONE),
              Report(LevelWarning, ErrorAccessDenied), Read(ErrorAccessDenied), Read(NONE),
              Report(LevelError, ErrorInvalidValue), Read(ErrorInvalidValue), Read(NONE),
              Ctx0, Push(FrameErrorTest), Ctx(<< FrameErrorTest >>), Pop, Ctx(<< >>),
              Push(FrameErrorTest), Push(FrameAnotherTest),
              Ctx(<< FrameErrorTest, FrameAnotherTest >>), Pop, Ctx(<< FrameErrorTest >>), Pop >>
<1> DEFINE Steps == { Read(NONE), Read(ErrorAccessDenied), Read(ErrorInvalidValue),
                      Report(LevelWarning, ErrorAccessDenied), Report(LevelError, ErrorInvalidValue),
                      Ctx0, Push(FrameErrorTest), Push(FrameAnotherTest), Pop,
                      Ctx(<< FrameErrorTest >>), Ctx(<< >>),
                      Ctx(<< FrameErrorTest, FrameAnotherTest >>) }
<1>1. RegisterScript \in Seq(Steps) /\ Len(RegisterScript) = 8
  BY DEF RegisterScript
<1>2. ContextScript \in Seq(Steps) /\ Len(ContextScript) = 11
  BY DEF ContextScript
<1> HIDE DEF Steps, RegisterScript, ContextScript
<1>3. /\ RegisterScript \o ContextScript \in Seq(Steps)
      /\ Len(RegisterScript \o ContextScript) = Len(RegisterScript) + Len(ContextScript)
      /\ \A i \in 1 .. Len(RegisterScript) + Len(ContextScript) :
           (RegisterScript \o ContextScript)[i] =
             IF i <= Len(RegisterScript) THEN RegisterScript[i]
             ELSE ContextScript[i - Len(RegisterScript)]
  BY <1>1, <1>2, ConcatProperties
<1>4. /\ Script \in Seq(Steps) /\ Len(Script) = 19
      /\ \A i \in 1 .. 19 : Script[i] = IF i <= 8 THEN RegisterScript[i] ELSE ContextScript[i - 8]
  <2>1. Script = RegisterScript \o ContextScript
    BY DEF Script
  <2>2. Script \in Seq(Steps)
    BY <1>3, <2>1
  <2>3. Len(Script) = 19
    BY <1>1, <1>2, <1>3, <2>1
  <2>4. ASSUME NEW i \in 1 .. 19
        PROVE  Script[i] = IF i <= 8 THEN RegisterScript[i] ELSE ContextScript[i - 8]
    <3>1. i \in 1 .. Len(RegisterScript) + Len(ContextScript)
      BY <1>1, <1>2
    <3>2. (RegisterScript \o ContextScript)[i] =
            IF i <= Len(RegisterScript) THEN RegisterScript[i]
            ELSE ContextScript[i - Len(RegisterScript)]
      BY <1>3, <3>1
    <3>. QED
      BY <3>2, <2>1, <1>1
  <2>. QED
    BY <2>2, <2>3, <2>4
<1>5. DOMAIN Script = 1 .. 19
  BY <1>4
<1>. QED
  BY <1>4, <1>5 DEF RegisterScript, ContextScript

\* A step of thread t changes only t's register, context and script
\* position.
LEMMA StepLocal ==
  ASSUME TypeOK, TestTypeOK, NEW t \in Threads, TestStep(t), NEW u \in Threads, u # t
  PROVE  /\ err'[u] = err[u] /\ alloc'[u] = alloc[u] /\ depth'[u] = depth[u]
         /\ slot'[u] = slot[u] /\ logical'[u] = logical[u]
         /\ pc'[u] = pc[u] /\ pass'[u] = pass[u] /\ result'[u] = result[u]
<1>1. /\ err'[u] = err[u] /\ alloc'[u] = alloc[u] /\ depth'[u] = depth[u]
      /\ slot'[u] = slot[u] /\ logical'[u] = logical[u]
  BY DEF TypeOK, TestStep, ErrorRead, ErrorReport, ContextPush, PushFrame, ContextPop, vars
<1>2. /\ pc'[u] = pc[u] /\ pass'[u] = pass[u] /\ result'[u] = result[u]
  BY DEF TestTypeOK, TestStep, Expect, Continue, EndOfPass
<1>. QED
  BY <1>1, <1>2

\* One step forward in the script of a running thread: the next step, or
\* at the end of a pass the first step of the next pass or the return.
LEMMA ContinueStep ==
  ASSUME TestTypeOK, NEW t \in Threads, result[t] = "running", Continue(t)
  PROVE  /\ pc' \in [Threads -> 1 .. Len(Script)]
         /\ pass' \in [Threads -> 0 .. Passes - 1]
         /\ result' \in [Threads -> {"running", "FAILED_TEST", "0"}]
         /\ result'[t] \in {"running", "0"}
         /\ result'[t] = "running" =>
              \/ pc[t] < Len(Script) /\ pc'[t] = pc[t] + 1 /\ pass'[t] = pass[t]
              \/ pc[t] = Len(Script) /\ pc'[t] = 1 /\ pass'[t] = pass[t] + 1
<1>1. Len(Script) = 19
  BY ScriptIs
<1>. QED
  BY <1>1 DEF TestTypeOK, Continue, EndOfPass

\* The script position after step k: the next step, or the first of the
\* next pass.
NextPc(k) == IF k = 19 THEN 1 ELSE k + 1

\* A running thread that goes on after step k with the register and the
\* stack the script expects before the next step is again at its script
\* (or has returned 0).
LEMMA Advance ==
  ASSUME TestTypeOK, NEW t \in Threads, result[t] = "running", Continue(t),
         NEW k \in 1 .. 19, pc[t] = k,
         err'[t] = ErrAt(NextPc(k)),
         logical'[t] = LogicalAt(NextPc(k)),
         depth'[t] = IF ContextEnabled THEN Len(logical'[t]) ELSE 0,
         ContextEnabled /\ (pass[t] > 0 \/ k + 1 >= 11) => alloc'[t]
  PROVE  /\ TestTypeOK'
         /\ result'[t] # "FAILED_TEST"
         /\ result'[t] = "running" => AtScript(t)'
<1>1. Len(Script) = 19
  BY ScriptIs
<1>2. /\ pc' \in [Threads -> 1 .. Len(Script)]
      /\ pass' \in [Threads -> 0 .. Passes - 1]
      /\ result' \in [Threads -> {"running", "FAILED_TEST", "0"}]
      /\ result'[t] \in {"running", "0"}
      /\ result'[t] = "running" =>
           \/ pc[t] < Len(Script) /\ pc'[t] = pc[t] + 1 /\ pass'[t] = pass[t]
           \/ pc[t] = Len(Script) /\ pc'[t] = 1 /\ pass'[t] = pass[t] + 1
  BY ContinueStep
<1>3. result'[t] = "running" => pc'[t] = NextPc(k) /\ (pass'[t] > 0 \/ pc'[t] >= 11 => pass[t] > 0 \/ k + 1 >= 11)
  BY <1>1, <1>2 DEF NextPc, TestTypeOK
<1>. QED
  BY <1>1, <1>2, <1>3 DEF TestTypeOK, AtScript

\* What one step of a running thread does to that thread: it is a step of
\* the error API (or leaves it alone), its EXPECT holds, and the thread is
\* again at its script.
SelfOK(t) ==
  /\ [Next]_vars
  /\ TestTypeOK'
  /\ result'[t] # "FAILED_TEST"
  /\ result'[t] = "running" => AtScript(t)'

\* Each step of a running thread's script is one of the error API's steps,
\* passes its EXPECT and leaves the thread at its script (step by step:
\* read, report, push, pop, error_context checks).
LEMMA StepSelf ==
  ASSUME TestIInv, MaxDepth >= 2, NEW t \in Threads, TestStep(t)
  PROVE  SelfOK(t)
<1> DEFINE k == pc[t]  s == Script[pc[t]]
<1>1. /\ result[t] = "running" /\ AtScript(t) /\ k \in 1 .. 19
      /\ TestTypeOK /\ IInv
  BY ScriptIs DEF TestStep, TestIInv, TestTypeOK
<1>2. CASE k \in {1, 2, 4, 5, 7, 8}
  <2>1. s.op = "read" /\ s.code = ErrAt(k)
    <3>1. CASE k = 1
      BY <3>1, ScriptIs DEF Read, ErrAt
    <3>2. CASE k = 2
      BY <3>2, ScriptIs DEF Read, ErrAt
    <3>3. CASE k = 4
      BY <3>3, ScriptIs DEF Read, ErrAt
    <3>4. CASE k = 5
      BY <3>4, ScriptIs DEF Read, ErrAt
    <3>5. CASE k = 7
      BY <3>5, ScriptIs DEF Read, ErrAt
    <3>6. CASE k = 8
      BY <3>6, ScriptIs DEF Read, ErrAt
    <3>. QED
      BY <1>2, <3>1, <3>2, <3>3, <3>4, <3>5, <3>6
  <2>2. ErrorRead(t) /\ Expect(t, err[t] = s.code)
    BY <2>1 DEF TestStep
  <2>3. Continue(t)
    BY <1>1, <2>1, <2>2 DEF Expect, AtScript
  <2>4. [Next]_vars
    BY <2>2 DEF Next
  <2>5. /\ err'[t] = ErrAt(NextPc(k))
        /\ logical'[t] = LogicalAt(NextPc(k))
        /\ depth'[t] = IF ContextEnabled THEN Len(logical'[t]) ELSE 0
        /\ ContextEnabled /\ (pass[t] > 0 \/ k + 1 >= 11) => alloc'[t]
    <3>1. err'[t] = NONE /\ UNCHANGED << alloc, depth, logical >>
      BY <1>1, <2>2 DEF ErrorRead, IInv, TypeOK
    <3>2. ErrAt(NextPc(k)) = NONE /\ LogicalAt(NextPc(k)) = LogicalAt(k) /\ k + 1 < 11
      <4>1. NextPc(k) \in {2, 3, 5, 6, 8, 9} /\ k + 1 < 11
        BY <1>2 DEF NextPc
      <4>2. \A j \in 1 .. 10 : LogicalAt(j) = << >>
        BY DEF LogicalAt
      <4>3. \A j \in {2, 3, 5, 6, 8, 9} : ErrAt(j) = NONE
        BY DEF ErrAt
      <4>. QED
        BY <1>2, <4>1, <4>2, <4>3
    <3>. QED
      BY <1>1, <3>1, <3>2 DEF AtScript
  <2>. QED
    BY <1>1, <2>3, <2>4, <2>5, Advance DEF SelfOK
<1>3. CASE k \in {3, 6}
  <2>1. /\ s.op = "report" /\ s.code = ErrAt(NextPc(k))
        /\ s.level \in ReportLevels /\ s.code \in Codes
    BY <1>3, ScriptIs DEF Report, ErrAt, NextPc, ReportLevels
  <2>2. ErrorReport(t, s.level, s.code) /\ Continue(t)
    BY <2>1 DEF TestStep
  <2>3. [Next]_vars
    BY <2>1, <2>2 DEF Next
  <2>4. /\ err'[t] = ErrAt(NextPc(k))
        /\ logical'[t] = LogicalAt(NextPc(k))
        /\ depth'[t] = IF ContextEnabled THEN Len(logical'[t]) ELSE 0
        /\ ContextEnabled /\ (pass[t] > 0 \/ k + 1 >= 11) => alloc'[t]
    <3>1. err'[t] = s.code /\ UNCHANGED << alloc, depth, logical >>
      BY <1>1, <2>2 DEF ErrorReport, IInv, TypeOK
    <3>2. LogicalAt(NextPc(k)) = LogicalAt(k) /\ k + 1 < 11
      <4>1. NextPc(k) \in {4, 7} /\ k + 1 < 11
        BY <1>3 DEF NextPc
      <4>2. \A j \in 1 .. 10 : LogicalAt(j) = << >>
        BY DEF LogicalAt
      <4>. QED
        BY <1>3, <4>1, <4>2
    <3>. QED
      BY <1>1, <2>1, <3>1, <3>2 DEF AtScript
  <2>. QED
    BY <1>1, <2>2, <2>3, <2>4, Advance DEF SelfOK
<1>4. CASE k \in {10, 14, 15}
  <2> DEFINE f == s.frames[1]
  <2>1. /\ s.op = "push" /\ f \in Frames
        /\ LogicalAt(NextPc(k)) = Append(LogicalAt(k), f)
    <3>1. CASE k = 10
      BY <3>1, ScriptIs DEF Push, LogicalAt, NextPc
    <3>2. CASE k = 14
      BY <3>2, ScriptIs DEF Push, LogicalAt, NextPc
    <3>3. CASE k = 15
      BY <3>3, ScriptIs DEF Push, LogicalAt, NextPc
    <3>. QED
      BY <1>4, <3>1, <3>2, <3>3
  <2>2. ContextPush(t, f) /\ Continue(t)
    BY <2>1 DEF TestStep
  <2>3. [Next]_vars
    BY <2>1, <2>2 DEF Next
  <2>4. logical[t] = LogicalAt(k) /\ Len(logical[t]) <= 1 /\ err[t] = NONE
    BY <1>1, <1>4 DEF AtScript, LogicalAt, ErrAt
  <2>5. depth[t] = IF ContextEnabled THEN Len(logical[t]) ELSE 0
    BY <1>1 DEF AtScript
  <2>6. /\ logical'[t] = Append(logical[t], f)
        /\ err'[t] = err[t]
        /\ ContextEnabled => alloc'[t] /\ depth'[t] = depth[t] + 1
        /\ ~ContextEnabled => depth'[t] = depth[t]
    BY <1>1, <2>2, <2>4, <2>5 DEF ContextPush, PushFrame, IInv, TypeOK
  <2>7. /\ err'[t] = ErrAt(NextPc(k))
        /\ logical'[t] = LogicalAt(NextPc(k))
        /\ depth'[t] = IF ContextEnabled THEN Len(logical'[t]) ELSE 0
        /\ ContextEnabled /\ (pass[t] > 0 \/ k + 1 >= 11) => alloc'[t]
    BY <1>1, <1>4, <2>1, <2>4, <2>5, <2>6 DEF ErrAt, NextPc, LogicalAt
  <2>. QED
    BY <1>1, <2>2, <2>3, <2>7, Advance DEF SelfOK
<1>5. CASE k \in {12, 17, 19}
  <2>1. /\ s.op = "pop"
        /\ LogicalAt(NextPc(k)) = DropLast(LogicalAt(k))
        /\ LogicalAt(k) # << >>
    <3>1. CASE k = 12
      BY <3>1, ScriptIs DEF Pop, LogicalAt, NextPc, DropLast
    <3>2. CASE k = 17
      BY <3>2, ScriptIs DEF Pop, LogicalAt, NextPc, DropLast
    <3>3. CASE k = 19
      BY <3>3, ScriptIs DEF Pop, LogicalAt, NextPc, DropLast
    <3>. QED
      BY <1>5, <3>1, <3>2, <3>3
  <2>2. ContextPop(t) /\ Continue(t)
    BY <2>1 DEF TestStep
  <2>3. [Next]_vars
    BY <2>2 DEF Next
  <2>4. /\ logical[t] = LogicalAt(k) /\ err[t] = NONE
        /\ depth[t] = IF ContextEnabled THEN Len(logical[t]) ELSE 0
        /\ ContextEnabled => alloc[t]
    BY <1>1, <1>5 DEF AtScript, ErrAt
  <2>5. /\ logical'[t] = DropLast(logical[t])
        /\ err'[t] = err[t] /\ alloc'[t] = alloc[t]
        /\ depth'[t] = IF depth[t] > 0 THEN depth[t] - 1 ELSE depth[t]
    BY <1>1, <2>1, <2>2, <2>4 DEF ContextPop, IInv, TypeOK
  <2>6. Len(DropLast(logical[t])) = Len(logical[t]) - 1
    BY <2>1, <2>4 DEF DropLast, LogicalAt
  <2>7. /\ err'[t] = ErrAt(NextPc(k))
        /\ logical'[t] = LogicalAt(NextPc(k))
        /\ depth'[t] = IF ContextEnabled THEN Len(logical'[t]) ELSE 0
        /\ ContextEnabled /\ (pass[t] > 0 \/ k + 1 >= 11) => alloc'[t]
    BY <1>5, <2>1, <2>4, <2>5, <2>6 DEF ErrAt, NextPc, LogicalAt
  <2>. QED
    BY <1>1, <2>2, <2>3, <2>7, Advance DEF SelfOK
<1>6. CASE k \in {11, 13, 16, 18}
  <2>1. s.op = "ctx" /\ s.frames = LogicalAt(k) /\ LogicalAt(NextPc(k)) = LogicalAt(k)
    <3>1. CASE k = 11
      BY <3>1, ScriptIs DEF Ctx, LogicalAt, NextPc
    <3>2. CASE k = 13
      BY <3>2, ScriptIs DEF Ctx, LogicalAt, NextPc
    <3>3. CASE k = 16
      BY <3>3, ScriptIs DEF Ctx, LogicalAt, NextPc
    <3>4. CASE k = 18
      BY <3>4, ScriptIs DEF Ctx, LogicalAt, NextPc
    <3>. QED
      BY <1>6, <3>1, <3>2, <3>3, <3>4
  <2>2. UNCHANGED vars /\ Expect(t, ContextMatches(t, LogicalAt(k)))
    BY <2>1 DEF TestStep
  <2>3. ContextMatches(t, LogicalAt(k))
    <3>1. /\ logical[t] = LogicalAt(k) /\ logical[t] \in Seq(Frames)
          /\ depth[t] = IF ContextEnabled THEN Len(logical[t]) ELSE 0
          /\ ContextEnabled => alloc[t]
      BY <1>1, <1>6 DEF AtScript, IInv, TypeOK
    <3>2. CASE ContextEnabled
      <4>1. \A i \in 1 .. depth[t] : slot[t][i] = logical[t][i]
        BY <1>1, <3>1, <3>2 DEF IInv, ContextIsNewestSuffix
      <4>2. View(t) = logical[t]
        BY <3>1, <3>2, <4>1 DEF View
      <4>. QED
        BY <3>1, <3>2, <4>2 DEF ContextMatches
    <3>3. CASE ~ContextEnabled
      BY <1>1, <3>3 DEF ContextMatches, IInv, ContextShape
    <3>. QED
      BY <3>2, <3>3
  <2>4. Continue(t)
    BY <2>2, <2>3 DEF Expect
  <2>5. /\ err'[t] = ErrAt(NextPc(k))
        /\ logical'[t] = LogicalAt(NextPc(k))
        /\ depth'[t] = IF ContextEnabled THEN Len(logical'[t]) ELSE 0
        /\ ContextEnabled /\ (pass[t] > 0 \/ k + 1 >= 11) => alloc'[t]
    BY <1>1, <1>6, <2>1, <2>2 DEF vars, AtScript, ErrAt, NextPc
  <2>. QED
    BY <1>1, <2>2, <2>4, <2>5, Advance DEF SelfOK
<1>7. CASE k = 9
  <2>1. s.op = "ctx0"
    BY <1>7, ScriptIs DEF Ctx0
  <2>2. UNCHANGED vars /\ Expect(t, alloc[t] => depth[t] = 0)
    BY <2>1 DEF TestStep
  <2>3. depth[t] = 0
    BY <1>1, <1>7 DEF AtScript, LogicalAt
  <2>4. Continue(t)
    BY <2>2, <2>3 DEF Expect
  <2>5. /\ err'[t] = ErrAt(NextPc(k))
        /\ logical'[t] = LogicalAt(NextPc(k))
        /\ depth'[t] = IF ContextEnabled THEN Len(logical'[t]) ELSE 0
        /\ ContextEnabled /\ (pass[t] > 0 \/ k + 1 >= 11) => alloc'[t]
    BY <1>1, <1>7, <2>2 DEF vars, AtScript, ErrAt, NextPc, LogicalAt
  <2>. QED
    BY <1>1, <2>2, <2>4, <2>5, Advance DEF SelfOK
<1>. QED
  BY <1>1, <1>2, <1>3, <1>4, <1>5, <1>6, <1>7

\* The invariant holds when every thread starts its first pass.
LEMMA TestInitIInv == TestInit => TestIInv
<1> SUFFICES ASSUME TestInit PROVE TestIInv
  OBVIOUS
<1>1. IInv
  BY InitIInv DEF TestInit
<1>2. TestTypeOK
  BY ScriptIs DEF TestInit, TestTypeOK
<1>3. NoExpectFails
  BY DEF TestInit, NoExpectFails
<1>4. ASSUME NEW t \in Threads PROVE AtScript(t)
  BY DEF TestInit, Init, AtScript, ErrAt, LogicalAt
<1>. QED
  BY <1>1, <1>2, <1>3, <1>4 DEF TestIInv

\* Every step of any thread keeps the invariant: its own state follows the
\* script and the other threads' state is untouched.
LEMMA TestNextIInv ==
  ASSUME MaxDepth >= 2
  PROVE  TestIInv /\ [TestNext]_allVars => TestIInv'
<1> SUFFICES ASSUME TestIInv, [TestNext]_allVars PROVE TestIInv'
  OBVIOUS
<1>1. CASE UNCHANGED allVars
  <2>1. IInv'
    BY <1>1, NextIInv DEF TestIInv, allVars
  <2>2. (TestTypeOK /\ NoExpectFails /\ \A t \in Threads : result[t] = "running" => AtScript(t))'
    BY <1>1 DEF TestIInv, allVars, vars, testVars, TestTypeOK, NoExpectFails, AtScript
  <2>. QED
    BY <2>1, <2>2 DEF TestIInv
<1>2. ASSUME NEW t \in Threads, TestStep(t) PROVE TestIInv'
  <2>1. SelfOK(t)
    BY <1>2, StepSelf
  <2>2. IInv'
    BY <2>1, NextIInv DEF TestIInv, SelfOK
  <2>3. ASSUME NEW u \in Threads, u # t
        PROVE  /\ result'[u] # "FAILED_TEST"
               /\ result'[u] = "running" => AtScript(u)'
    <3>1. /\ err'[u] = err[u] /\ alloc'[u] = alloc[u] /\ depth'[u] = depth[u]
          /\ logical'[u] = logical[u]
          /\ pc'[u] = pc[u] /\ pass'[u] = pass[u] /\ result'[u] = result[u]
      BY <1>2, <2>3, StepLocal DEF TestIInv, IInv
    <3>. QED
      BY <3>1 DEF TestIInv, NoExpectFails, AtScript
  <2>. QED
    BY <2>1, <2>2, <2>3 DEF SelfOK, TestIInv, NoExpectFails
<1>. QED
  BY <1>1, <1>2 DEF TestNext

\* With a context at least two frames deep, as the test's nesting needs, no
\* EXPECT of error_test_thread ever fails on any thread, for every number of
\* threads and passes: each thread's error register and context are its own.
THEOREM NoFailedExpects ==
  ASSUME MaxDepth >= 2
  PROVE  TestSpec => []NoExpectFails
<1>1. TestSpec => []TestIInv
  BY TestInitIInv, TestNextIInv, PTL DEF TestSpec
<1>. QED
  BY <1>1, PTL DEF TestIInv

\* Under the same hypothesis the harness keeps its type: every thread's
\* script position is a step of the script and error_thread never starts
\* more than Passes passes.
THEOREM TestTypeCorrect ==
  ASSUME MaxDepth >= 2
  PROVE  TestSpec => []TestTypeOK
<1>1. TestSpec => []TestIInv
  BY TestInitIInv, TestNextIInv, PTL DEF TestSpec
<1>. QED
  BY <1>1, PTL DEF TestIInv
=============================================================================
