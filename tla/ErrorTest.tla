------------------------------ MODULE ErrorTest ------------------------------
(***************************************************************************)
(* The error test suite (src/test/crash/main.c, second file: the "error"  *)
(* tests) run against the ErrorContext model.  Every thread of the         *)
(* (error, thread) test runs error_thread: `Passes' passes of               *)
(* error_test_thread, a fixed script of error(), error_report,             *)
(* error_context_push / _pop and error_context() calls whose EXPECT checks *)
(* end the thread with FAILED_TEST at the first mismatch.  The main thread *)
(* starts all threads, waits for them and expects every result to be 0.    *)
(***************************************************************************)
EXTENDS ErrorContext

CONSTANTS
  ErrorAccessDenied,   \* ERROR_ACCESS_DENIED
  ErrorInvalidValue,   \* ERROR_INVALID_VALUE
  FrameErrorTest,      \* ("error test", "data")
  FrameAnotherTest,    \* ("another test", "more data")
  Passes               \* passes of error_test_thread per thread (512 in the code)

ASSUME TestAssumption ==
  /\ {ErrorAccessDenied, ErrorInvalidValue} \subseteq Codes
  /\ {FrameErrorTest, FrameAnotherTest} \subseteq Frames
  /\ FrameErrorTest # FrameAnotherTest
  /\ Passes \in Nat \ {0}
  /\ MaxOutstanding >= 2

VARIABLES
  pc,      \* pc[t]: the next step of error_test_thread
  pass,    \* pass[t]: ipass of error_thread
  result   \* result[t]: "running", or the thread's return value

testVars == <<pc, pass, result>>
allVars == <<vars, testVars>>

(***************************************************************************)
(* The script of error_test_thread.  A step is a call and, for error() and *)
(* error_context(), what the EXPECTs that follow it require.  "ctx" checks *)
(* are the #if BUILD_ENABLE_ERROR_CONTEXT blocks: with the feature the     *)
(* context exists and shows `frames'; without it the context is absent.    *)
(* "ctx0" is `if (context) EXPECT_EQ(context->depth, 0)'.                  *)
(***************************************************************************)
Read(code) == [op |-> "read", code |-> code, level |-> LevelInfo, frames |-> << >>]
Report(l, c) == [op |-> "report", code |-> c, level |-> l, frames |-> << >>]
Push(f) == [op |-> "push", code |-> NONE, level |-> LevelInfo, frames |-> <<f>>]
Pop == [op |-> "pop", code |-> NONE, level |-> LevelInfo, frames |-> << >>]
Ctx(fs) == [op |-> "ctx", code |-> NONE, level |-> LevelInfo, frames |-> fs]
Ctx0 == [op |-> "ctx0", code |-> NONE, level |-> LevelInfo, frames |-> << >>]

\* The body of DECLARE_TEST(error, error): the register is read-once.
RegisterScript ==
  << Read(NONE), Read(NONE),
     Report(LevelWarning, ErrorAccessDenied), Read(ErrorAccessDenied), Read(NONE),
     Report(LevelError, ErrorInvalidValue), Read(ErrorInvalidValue), Read(NONE) >>

\* The body of DECLARE_TEST(error, context): two levels of nesting.
ContextScript ==
  << Ctx0,
     Push(FrameErrorTest), Ctx(<<FrameErrorTest>>),
     Pop, Ctx(<< >>),
     Push(FrameErrorTest), Push(FrameAnotherTest),
     Ctx(<<FrameErrorTest, FrameAnotherTest>>),
     Pop, Ctx(<<FrameErrorTest>>),
     Pop >>

\* error_test_thread runs the two bodies one after the other.
Script == RegisterScript \o ContextScript

\* What error_context() shows t, and whether it meets a "ctx" step.
ContextMatches(t, fs) ==
  IF ContextEnabled THEN alloc[t] /\ View(t) = fs ELSE ~alloc[t]

\* The end of one pass of error_thread's loop: another pass, or return 0.
EndOfPassNoIncrement(t) ==
  /\ pc' = [pc EXCEPT ![t] = 1]
  /\ UNCHANGED <<pass, result>>

\* The same with the loop bound off by one (ipass <= 512).
EndOfPassOffByOne(t) ==
  IF pass[t] = Passes
    THEN /\ result' = [result EXCEPT ![t] = "0"]
         /\ UNCHANGED <<pc, pass>>
    ELSE /\ pass' = [pass EXCEPT ![t] = @ + 1]
         /\ pc' = [pc EXCEPT ![t] = 1]
         /\ UNCHANGED result

EndOfPass(t) ==
  IF pass[t] + 1 = Passes
    THEN /\ result' = [result EXCEPT ![t] = "0"]
         /\ UNCHANGED <<pc, pass>>
    ELSE /\ pass' = [pass EXCEPT ![t] = @ + 1]
         /\ pc' = [pc EXCEPT ![t] = 1]
         /\ UNCHANGED result

\* Go on after a step whose EXPECTs held.
Continue(t) ==
  IF pc[t] = Len(Script)
    THEN EndOfPass(t)
    ELSE /\ pc' = [pc EXCEPT ![t] = @ + 1]
         /\ UNCHANGED <<pass, result>>

\* EXPECT: go on when `ok', otherwise return FAILED_TEST.
Expect(t, ok) ==
  IF ok THEN Continue(t)
        ELSE /\ result' = [result EXCEPT ![t] = "FAILED_TEST"]
             /\ UNCHANGED <<pc, pass>>

TestInit ==
  /\ Init
  /\ pc = [t \in Threads |-> 1]
  /\ pass = [t \in Threads |-> 0]
  /\ result = [t \in Threads |-> "running"]

\* One step of error_test_thread on thread t.
TestStep(t) ==
  LET s == Script[pc[t]] IN
  /\ result[t] = "running"
  /\ \/ /\ s.op = "read"
        /\ ErrorRead(t)
        /\ Expect(t, err[t] = s.code)
     \/ /\ s.op = "report"
        /\ ErrorReport(t, s.level, s.code)
        /\ Continue(t)
     \/ /\ s.op = "push"
        /\ ContextPush(t, s.frames[1])
        /\ Continue(t)
     \/ /\ s.op = "pop"
        /\ ContextPop(t)
        /\ Continue(t)
     \/ /\ s.op = "ctx"
        /\ UNCHANGED vars
        /\ Expect(t, ContextMatches(t, s.frames))
     \/ /\ s.op = "ctx0"
        /\ UNCHANGED vars
        /\ Expect(t, alloc[t] => depth[t] = 0)

TestNext == \E t \in Threads : TestStep(t)

\* Threads are OS threads that never block in this code: each one that can
\* take a step eventually takes it.
TestSpec == TestInit /\ [][TestNext]_allVars /\ \A t \in Threads : WF_allVars(TestStep(t))

-----------------------------------------------------------------------------
\* No EXPECT of error_test_thread fails on any thread, whatever the
\* interleaving of the threads: each thread sees only its own register and
\* its own context, read-once, in push order.
NoExpectFails == \A t \in Threads : result[t] # "FAILED_TEST"

\* The (error, thread) test's final check: every thread finishes all its
\* passes and returns 0.
AllThreadsReturnZero == <>(\A t \in Threads : result[t] = "0")

\* Every variable of the harness holds a value of its type; in particular
\* error_thread never runs more than its 512 (here Passes) passes.
TestTypeOK ==
  /\ pc \in [Threads -> 1 .. Len(Script)]
  /\ pass \in [Threads -> 0 .. Passes - 1]
  /\ result \in [Threads -> {"running", "FAILED_TEST", "0"}]
=============================================================================
