------------------------------ MODULE CrashTest ------------------------------
(***************************************************************************)
(* The crash test suite (src/test/crash/main.c, first file) run against    *)
(* the crash guard engine.  The engine (crash.c) is not in the source      *)
(* tree: crash_guard, crash_guard_set and the fault handler follow the     *)
(* design document (4.4).  A guard is armed at a checkpoint; a fault under *)
(* an armed guard disarms it, writes a dump, calls the dump callback and   *)
(* jumps back to the checkpoint, where crash_guard returns                 *)
(* CRASH_DUMP_GENERATED (CRASH_DUMP_FAILED when no dump could be written); *)
(* a fault with no armed guard terminates the process.  crash_guard_set    *)
(* registers a callback that guards the body of threads started later     *)
(* (process scope), or only the calling thread (thread scope).            *)
(*                                                                         *)
(* The main thread runs DECLARE_TEST(crash, crash_guard) and then          *)
(* DECLARE_TEST(crash, crash_thread); the second starts a thread that      *)
(* crashes, sleeps 100 ms, terminates it and expects the callback to have  *)
(* run.  Time is not modelled: the sleep bounds nothing, and any order of  *)
(* the two threads' steps is possible.                                     *)
(***************************************************************************)
CONSTANTS
  DebuggerValues,  \* what system_debugger_attached() may return ({FALSE} on POSIX)
  DumpOutcomes,    \* whether the engine can write a dump file
  Scopes,          \* "process": crash_guard_set guards threads started later;
                   \* "thread": only the calling thread
  TerminateModes   \* "forced": thread_terminate kills the thread where it is;
                   \* "cooperative": it only asks the thread to stop

ASSUME CrashAssumption ==
  /\ DebuggerValues \subseteq BOOLEAN /\ DebuggerValues # {}
  /\ DumpOutcomes \subseteq BOOLEAN /\ DumpOutcomes # {}
  /\ Scopes \subseteq {"process", "thread"} /\ Scopes # {}
  /\ TerminateModes \subseteq {"forced", "cooperative"} /\ TerminateModes # {}

VARIABLES
  debugger,   \* system_debugger_attached()
  dumpOk,     \* a dump file can be written
  scope,      \* the scope of a crash_guard_set registration
  termMode,   \* what thread_terminate does
  mpc,        \* the main thread's place in the two tests
  cpc,        \* the crashing thread: "none", "run", "handler", "resume", "exited", "killed"
  armed,      \* armed[th]: a guard is armed on thread th ("main" or "child")
  registered, \* crash_guard_set has registered test_crash_callback
  flag,       \* _crash_callback_called
  result,     \* what crash_guard returned to the crash_guard test
  failures,   \* the tests with a failed EXPECT
  dead        \* the process was terminated by an unguarded fault

vars == <<debugger, dumpOk, scope, termMode, mpc, cpc, armed, registered, flag, result, failures, dead>>

Live == ~dead

DumpResult == IF dumpOk THEN "DUMP_GENERATED" ELSE "DUMP_FAILED"

Init ==
  /\ debugger \in DebuggerValues
  /\ dumpOk \in DumpOutcomes
  /\ scope \in Scopes
  /\ termMode \in TerminateModes
  /\ mpc = "guard_start"
  /\ cpc = "none"
  /\ armed = [th \in {"main", "child"} |-> FALSE]
  /\ registered = FALSE
  /\ flag = FALSE
  /\ result = "none"
  /\ failures = {}
  /\ dead = FALSE

(***************************************************************************)
(* The engine.                                                             *)
(***************************************************************************)
\* A fault on thread th (crash_debug_break): to the handler when a guard is
\* armed there, which disarms it first; otherwise the process dies.
Fault(th, handlerPc) ==
  IF armed[th]
    THEN /\ armed' = [armed EXCEPT ![th] = FALSE]
         /\ UNCHANGED dead
         /\ handlerPc
    ELSE /\ dead' = TRUE
         /\ UNCHANGED <<armed, mpc, cpc>>

\* crash_guard entry: capture the checkpoint and arm the guard on th.
GuardEnter(th) == armed' = [armed EXCEPT ![th] = TRUE]

(***************************************************************************)
(* DECLARE_TEST(crash, crash_guard) on the main thread.                    *)
(***************************************************************************)
\* The debugger test, _crash_callback_called = false, crash_guard(instant_crash,
\* ...) arms the guard and calls instant_crash, which faults at once.
GuardTestStart ==
  /\ Live /\ mpc = "guard_start"
  /\ IF debugger
       THEN /\ mpc' = "thread_start"
            /\ UNCHANGED <<armed, flag>>
       ELSE /\ flag' = FALSE
            /\ GuardEnter("main")
            /\ mpc' = "guard_fault"
  /\ UNCHANGED <<debugger, dumpOk, scope, termMode, cpc, registered, result, failures, dead>>

GuardTestFault ==
  /\ Live /\ mpc = "guard_fault"
  /\ Fault("main", mpc' = "guard_callback")
  /\ UNCHANGED <<debugger, dumpOk, scope, termMode, cpc, registered, flag, result, failures>>

\* The handler calls test_crash_callback: log the path, set the flag.
GuardTestCallback ==
  /\ Live /\ mpc = "guard_callback"
  /\ flag' = TRUE
  /\ mpc' = "guard_resume"
  /\ UNCHANGED <<debugger, dumpOk, scope, termMode, cpc, armed, registered, result, failures, dead>>

\* The jump back to the checkpoint: crash_guard returns; then the EXPECTs.
GuardTestReturn ==
  /\ Live /\ mpc = "guard_resume"
  /\ result' = DumpResult
  /\ failures' = IF DumpResult = "DUMP_GENERATED" /\ flag THEN failures
                 ELSE failures \cup {"crash_guard"}
  /\ mpc' = "thread_start"
  /\ UNCHANGED <<debugger, dumpOk, scope, termMode, cpc, armed, registered, flag, dead>>

(***************************************************************************)
(* DECLARE_TEST(crash, crash_thread): main thread and crashing thread.     *)
(***************************************************************************)
\* The debugger test, the flag reset and crash_guard_set(test_crash_callback, ...).
ThreadTestStart ==
  /\ Live /\ mpc = "thread_start"
  /\ IF debugger
       THEN /\ mpc' = "end"
            /\ UNCHANGED <<flag, registered>>
       ELSE /\ flag' = FALSE
            /\ registered' = TRUE
            /\ mpc' = "thread_create"
  /\ UNCHANGED <<debugger, dumpOk, scope, termMode, cpc, armed, result, failures, dead>>

\* thread_create and thread_start: the thread body runs under the registered
\* guard when the registration is process wide.
ThreadTestCreate ==
  /\ Live /\ mpc = "thread_create"
  /\ cpc' = "run"
  /\ armed' = [armed EXCEPT !["child"] = registered /\ scope = "process"]
  /\ mpc' = "thread_sleep"
  /\ UNCHANGED <<debugger, dumpOk, scope, termMode, registered, flag, result, failures, dead>>

\* thread_sleep(100).
ThreadTestSleep ==
  /\ Live /\ mpc = "thread_sleep"
  /\ mpc' = "thread_terminate"
  /\ UNCHANGED <<debugger, dumpOk, scope, termMode, cpc, armed, registered, flag, result, failures, dead>>

\* thread_terminate: a forced termination kills a thread still running
\* where it is; a cooperative one leaves it running.
ThreadTestTerminate ==
  /\ Live /\ mpc = "thread_terminate"
  /\ cpc' = IF termMode = "forced" /\ cpc # "exited" THEN "killed" ELSE cpc
  /\ mpc' = "thread_wait"
  /\ UNCHANGED <<debugger, dumpOk, scope, termMode, armed, registered, flag, result, failures, dead>>

\* The same without the wait loop: on to the EXPECT at once.
ThreadTestWaitNoLoop ==
  /\ Live /\ mpc = "thread_wait"
  /\ mpc' = "thread_expect"
  /\ UNCHANGED <<debugger, dumpOk, scope, termMode, cpc, armed, registered, flag, result, failures, dead>>

\* thread_destroy, `while (thread_is_thread(thread)) thread_yield()' and
\* thread_sleep(100): the object lives on while its thread runs.
ThreadTestWait ==
  /\ Live /\ mpc = "thread_wait"
  /\ cpc \in {"exited", "killed"}
  /\ mpc' = "thread_expect"
  /\ UNCHANGED <<debugger, dumpOk, scope, termMode, cpc, armed, registered, flag, result, failures, dead>>

\* EXPECT_TRUE(_crash_callback_called).
ThreadTestExpect ==
  /\ Live /\ mpc = "thread_expect"
  /\ failures' = IF flag THEN failures ELSE failures \cup {"crash_thread"}
  /\ mpc' = "end"
  /\ UNCHANGED <<debugger, dumpOk, scope, termMode, cpc, armed, registered, flag, result, dead>>

\* thread_crash -> instant_crash -> crash_debug_break on the new thread.
ChildFault ==
  /\ Live /\ cpc = "run"
  /\ Fault("child", cpc' = "handler")
  /\ UNCHANGED <<debugger, dumpOk, scope, termMode, mpc, registered, flag, result, failures>>

\* The handler calls test_crash_callback on the crashing thread.
ChildCallback ==
  /\ Live /\ cpc = "handler"
  /\ flag' = TRUE
  /\ cpc' = "resume"
  /\ UNCHANGED <<debugger, dumpOk, scope, termMode, mpc, armed, registered, result, failures, dead>>

\* Back at the checkpoint the thread body returns and the thread exits.
ChildExit ==
  /\ Live /\ cpc = "resume"
  /\ cpc' = "exited"
  /\ UNCHANGED <<debugger, dumpOk, scope, termMode, mpc, armed, registered, flag, result, failures, dead>>

Next ==
  \/ GuardTestStart \/ GuardTestFault \/ GuardTestCallback \/ GuardTestReturn
  \/ ThreadTestStart \/ ThreadTestCreate \/ ThreadTestSleep
  \/ ThreadTestTerminate \/ ThreadTestWait \/ ThreadTestExpect
  \/ ChildFault \/ ChildCallback \/ ChildExit

Spec == Init /\ [][Next]_vars

-----------------------------------------------------------------------------
\* DECLARE_TEST(crash, crash_thread) passes when the registration guards
\* the new thread and thread_terminate lets it finish: the wait for the
\* thread object to go away then also waits for the callback.
ThreadTestPassesCooperative ==
  scope = "process" /\ termMode = "cooperative" =>
    "crash_thread" \notin failures /\ Live

\* DECLARE_TEST(crash, crash_thread) passes: the process survives the crash
\* of the thread and the callback has run when the test checks the flag.
ThreadTestPasses == Live /\ "crash_thread" \notin failures
=============================================================================
