--------------------------- MODULE CrashTest_proofs ---------------------------
(***************************************************************************)
(* Proofs about the crash tests run against the crash guard engine, for   *)
(* every set of environment answers.                                       *)
(***************************************************************************)
EXTENDS CrashTest, TLAPS

MainPcs == {"guard_start", "guard_fault", "guard_callback", "guard_resume",
            "thread_start", "thread_create", "thread_sleep", "thread_terminate",
            "thread_wait", "thread_expect", "end"}

ChildPcs == {"none", "run", "handler", "resume", "exited", "killed"}

\* The main thread is still inside DECLARE_TEST(crash, crash_guard).
GuardPhase == mpc \in {"guard_start", "guard_fault", "guard_callback", "guard_resume"}

\* The crashing thread has not been created yet.
BeforeThread == GuardPhase \/ mpc \in {"thread_start", "thread_create"}

TypeOK ==
  /\ debugger \in BOOLEAN /\ dumpOk \in BOOLEAN
  /\ scope \in Scopes /\ termMode \in TerminateModes
  /\ mpc \in MainPcs /\ cpc \in ChildPcs
  /\ armed \in [{"main", "child"} -> BOOLEAN]
  /\ registered \in BOOLEAN /\ flag \in BOOLEAN
  /\ result \in {"none", "DUMP_GENERATED", "DUMP_FAILED"}
  /\ failures \subseteq {"crash_guard", "crash_thread"}
  /\ dead \in BOOLEAN

\* What holds under the registration and termination the test relies on:
\* the new thread is guarded until it faults, the callback has run once it
\* is past the handler, and the wait ends only after it has exited.
CooperativeInv ==
  scope = "process" /\ termMode = "cooperative" =>
    /\ ~dead
    /\ cpc # "killed"
    /\ mpc = "thread_create" => registered
    /\ cpc = "run" => armed["child"]
    /\ cpc \in {"resume", "exited"} => flag
    /\ mpc = "thread_expect" => cpc = "exited"
    /\ "crash_thread" \notin failures

\* The inductive invariant: the crash_guard test runs before the thread
\* exists, its guard is armed when it faults, the callback has run when it
\* resumes, and its verdict is settled once, from the dump outcome.
IInv ==
  /\ TypeOK
  /\ BeforeThread => cpc = "none"
  /\ GuardPhase => result = "none" /\ "crash_guard" \notin failures
  /\ mpc = "guard_fault" => armed["main"]
  /\ mpc = "guard_resume" => flag
  /\ cpc = "none" => ~dead
  /\ result # "none" => result = DumpResult /\ ("crash_guard" \in failures) = ~dumpOk
  /\ "crash_guard" \in failures => result # "none"
  /\ CooperativeInv

\* The initial states satisfy the invariant.
LEMMA InitIInv == Init => IInv
<1> SUFFICES ASSUME Init PROVE IInv
  OBVIOUS
<1>1. TypeOK
  BY CrashAssumption DEF Init, TypeOK, MainPcs, ChildPcs
<1>. QED
  BY <1>1 DEF Init, IInv, BeforeThread, GuardPhase, CooperativeInv

\* Every step of the two tests and of the crashing thread preserves it.
LEMMA NextIInv == IInv /\ [Next]_vars => IInv'
<1> SUFFICES ASSUME IInv, [Next]_vars PROVE IInv'
  OBVIOUS
<1> USE DEF IInv, TypeOK, BeforeThread, GuardPhase, CooperativeInv, MainPcs, ChildPcs, DumpResult, Live
<1>1. CASE GuardTestStart
  BY <1>1 DEF GuardTestStart, GuardEnter
<1>2. CASE GuardTestFault
  BY <1>2 DEF GuardTestFault, Fault
<1>3. CASE GuardTestCallback
  BY <1>3 DEF GuardTestCallback
<1>4. CASE GuardTestReturn
  BY <1>4 DEF GuardTestReturn
<1>5. CASE ThreadTestStart
  BY <1>5 DEF ThreadTestStart
<1>6. CASE ThreadTestCreate
  BY <1>6 DEF ThreadTestCreate
<1>7. CASE ThreadTestSleep
  BY <1>7 DEF ThreadTestSleep
<1>8. CASE ThreadTestTerminate
  BY <1>8 DEF ThreadTestTerminate
<1>9. CASE ThreadTestWait
  BY <1>9 DEF ThreadTestWait
<1>10. CASE ThreadTestExpect
  BY <1>10 DEF ThreadTestExpect
<1>11. CASE ChildFault
  BY <1>11 DEF ChildFault, Fault
<1>12. CASE ChildCallback
  BY <1>12 DEF ChildCallback
<1>13. CASE ChildExit
  BY <1>13 DEF ChildExit
<1>14. CASE UNCHANGED vars
  BY <1>14 DEF vars
<1>. QED
  BY <1>1, <1>2, <1>3, <1>4, <1>5, <1>6, <1>7, <1>8, <1>9, <1>10, <1>11, <1>12, <1>13, <1>14 DEF Next

LEMMA AlwaysIInv == Spec => []IInv
BY InitIInv, NextIInv, PTL DEF Spec

\* With the process-wide registration and a cooperative thread_terminate,
\* crash_thread never fails and the process survives the thread's crash,
\* whatever the order of the two threads' steps.
THEOREM CooperativePasses == Spec => []ThreadTestPassesCooperative
<1>1. IInv => ThreadTestPassesCooperative
  BY DEF IInv, CooperativeInv, ThreadTestPassesCooperative, Live
<1>. QED
  BY <1>1, AlwaysIInv, PTL
=============================================================================
