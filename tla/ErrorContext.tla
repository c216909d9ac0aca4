---------------------------- MODULE ErrorContext ----------------------------
(***************************************************************************)
(* The per-thread error state of the foundation library and the logging   *)
(* calls of log.c that read it.                                            *)
(*                                                                         *)
(* Every thread owns an error register (error_report / error()) and a     *)
(* bounded stack of diagnostic frames (error_context_push / _pop /         *)
(* error_context()).  Both live in thread-local storage, so each is a      *)
(* function of the thread here.  The implementation of the register and   *)
(* of the stack (error.c) is not in the source tree; those actions follow  *)
(* the design document.  debug_logf, info_logf, warn_logf, error_logf and  *)
(* error_log_context are translated from src/src/log.c.                    *)
(*                                                                         *)
(* The ghost variable `logical' is the stack as the callers see it: every *)
(* push appends to it and every pop removes its newest frame, whatever the *)
(* bounded stack did with the frame.                                       *)
(***************************************************************************)
EXTENDS Naturals, Sequences

CONSTANTS
  Threads,         \* the threads that use the error API
  Codes,           \* error codes other than ERROR_NONE
  NONE,            \* ERROR_NONE, the rest value of the register
  Frames,          \* the (name, data) pairs a caller may push
  Msg,             \* marks the message line of a log call
  NoFrame,         \* the content of a frame slot never written
  LevelDebug,      \* ERRORLEVEL_DEBUG
  LevelInfo,       \* ERRORLEVEL_INFO
  LevelWarning,    \* ERRORLEVEL_WARNING
  LevelError,      \* ERRORLEVEL_ERROR
  MaxDepth,        \* BUILD_SIZE_ERROR_CONTEXT_DEPTH
  ContextEnabled,  \* BUILD_ENABLE_ERROR_CONTEXT
  MaxOutstanding   \* model bound: frames a thread may have pushed and not popped

ASSUME ConstantsAssumption ==
  /\ NONE \notin Codes
  /\ Msg \notin Frames
  /\ NoFrame \notin Frames
  /\ MaxDepth \in Nat \ {0}
  /\ MaxOutstanding \in Nat
  /\ ContextEnabled \in BOOLEAN

Levels == {LevelDebug, LevelInfo, LevelWarning, LevelError}

\* error_logf is called with any severity; the register does not care.
ReportLevels == {LevelWarning, LevelError}

Calls == {"none", "debug", "info", "warn", "error"}

Line == [level : Levels, what : Frames \cup {Msg}]

VARIABLES
  err,       \* err[t]: the thread's error register
  alloc,     \* alloc[t]: the thread's error_context_t has been allocated
  depth,     \* depth[t]: context->depth
  slot,      \* slot[t][i]: context->frame[i-1]; NoFrame where never written
  logical,   \* ghost: logical[t] is the stack of outstanding pushes
  lastCall   \* lastCall[t]: the most recent log call of t and the lines it emitted

vars == <<err, alloc, depth, slot, logical, lastCall>>

-----------------------------------------------------------------------------
(***************************************************************************)
(* Helpers.                                                                *)
(***************************************************************************)

Slots == 1 .. MaxDepth

\* What error_context() exposes of t's context: frame[0 .. depth-1].
View(t) == [i \in 1 .. depth[t] |-> slot[t][i]]

\* The sequence s without its last element.
DropLast(s) == SubSeq(s, 1, Len(s) - 1)

\* One call of _output_logf: it emits one line at the given severity.  The
\* text it formats (timestamp, thread id, prefix) is abstracted away.
OutputLogf(level, what) == [level |-> level, what |-> what]

\* error_log_context(level): one line per frame of error_context(), from
\* frame[0] to frame[depth-1]; nothing when the context is absent.
ErrorLogContext(t, level) ==
  IF alloc[t]
    THEN [i \in 1 .. depth[t] |-> OutputLogf(level, slot[t][i])]
    ELSE << >>

-----------------------------------------------------------------------------
(***************************************************************************)
(* Operations.                                                             *)
(***************************************************************************)

Init ==
  /\ err = [t \in Threads |-> NONE]
  /\ alloc = [t \in Threads |-> FALSE]
  /\ depth = [t \in Threads |-> 0]
  /\ slot = [t \in Threads |-> [i \in Slots |-> NoFrame]]
  /\ logical = [t \in Threads |-> << >>]
  /\ lastCall = [t \in Threads |-> [op |-> "none", level |-> LevelInfo, lines |-> << >>]]

\* A read that returns the register without resetting it.
ErrorReadNoReset(t) ==
  /\ UNCHANGED <<err, alloc, depth, slot, logical, lastCall>>

\* error(): return the register and reset it to ERROR_NONE.
ErrorRead(t) ==
  /\ err' = [err EXCEPT ![t] = NONE]
  /\ UNCHANGED <<alloc, depth, slot, logical, lastCall>>

\* error_report(level, err): store the code in the register.
ErrorReport(t, level, code) ==
  /\ err' = [err EXCEPT ![t] = code]
  /\ UNCHANGED <<alloc, depth, slot, logical, lastCall>>

\* A push that overwrites the top frame when the context is full.
PushFrameOverwriteTop(t, f) ==
  IF depth[t] < MaxDepth
    THEN /\ slot' = [slot EXCEPT ![t][depth[t] + 1] = f]
         /\ depth' = [depth EXCEPT ![t] = @ + 1]
    ELSE /\ slot' = [slot EXCEPT ![t][MaxDepth] = f]
         /\ UNCHANGED depth

\* A push whose bound check is off by one.
PushFrameOffByOne(t, f) ==
  IF depth[t] <= MaxDepth
    THEN /\ slot' = [slot EXCEPT ![t][depth[t] + 1] = f]
         /\ depth' = [depth EXCEPT ![t] = @ + 1]
    ELSE /\ slot' = [slot EXCEPT ![t] = [i \in Slots |->
                        IF i < MaxDepth THEN @[i + 1] ELSE f]]
         /\ UNCHANGED depth

\* Store frame f on t's allocated context: in frame[depth] when there is room,
\* otherwise shift frame[1 ..] down over the oldest frame and store f last.
PushFrame(t, f) ==
  IF depth[t] < MaxDepth
    THEN /\ slot' = [slot EXCEPT ![t][depth[t] + 1] = f]
         /\ depth' = [depth EXCEPT ![t] = @ + 1]
    ELSE /\ slot' = [slot EXCEPT ![t] = [i \in Slots |->
                        IF i < MaxDepth THEN @[i + 1] ELSE f]]
         /\ UNCHANGED depth

\* error_context_push(name, data): allocate the context on first use, then
\* push; a no-op when the feature is compiled out.
ContextPush(t, f) ==
  /\ Len(logical[t]) < MaxOutstanding
  /\ logical' = [logical EXCEPT ![t] = Append(@, f)]
  /\ IF ContextEnabled
       THEN /\ alloc' = [alloc EXCEPT ![t] = TRUE]
            /\ PushFrame(t, f)
       ELSE UNCHANGED <<alloc, depth, slot>>
  /\ UNCHANGED <<err, lastCall>>

\* error_context_pop(): drop the newest frame by decrementing depth (the
\* slot keeps its stale frame); popping an empty or absent context does
\* nothing.
ContextPop(t) ==
  /\ logical' = [logical EXCEPT ![t] = IF @ = << >> THEN @ ELSE DropLast(@)]
  /\ depth' = [depth EXCEPT ![t] = IF @ > 0 THEN @ - 1 ELSE @]
  /\ UNCHANGED <<err, alloc, slot, lastCall>>

\* debug_logf (BUILD_ENABLE_DEBUG_LOG): one message line at ERRORLEVEL_DEBUG,
\* with no context and no report.
DebugLogf(t) ==
  /\ lastCall' = [lastCall EXCEPT ![t] =
        [op |-> "debug", level |-> LevelDebug,
         lines |-> << OutputLogf(LevelDebug, Msg) >>]]
  /\ UNCHANGED <<err, alloc, depth, slot, logical>>

\* info_logf: one message line at ERRORLEVEL_INFO.
InfoLogf(t) ==
  /\ lastCall' = [lastCall EXCEPT ![t] =
        [op |-> "info", level |-> LevelInfo,
         lines |-> << OutputLogf(LevelInfo, Msg) >>]]
  /\ UNCHANGED <<err, alloc, depth, slot, logical>>

\* warn_logf: the context at ERRORLEVEL_WARNING, then the message.
WarnLogf(t) ==
  /\ lastCall' = [lastCall EXCEPT ![t] =
        [op |-> "warn", level |-> LevelWarning,
         lines |-> ErrorLogContext(t, LevelWarning)
                   \o << OutputLogf(LevelWarning, Msg) >>]]
  /\ UNCHANGED <<err, alloc, depth, slot, logical>>

\* error_logf(level, err, ...): the context and the message, both at
\* ERRORLEVEL_ERROR whatever `level' is, then error_report(level, err).
ErrorLogf(t, level, code) ==
  /\ lastCall' = [lastCall EXCEPT ![t] =
        [op |-> "error", level |-> level,
         lines |-> ErrorLogContext(t, LevelError)
                   \o << OutputLogf(LevelError, Msg) >>]]
  /\ err' = [err EXCEPT ![t] = code]
  /\ UNCHANGED <<alloc, depth, slot, logical>>

Next ==
  \E t \in Threads :
    \/ ErrorRead(t)
    \/ \E l \in ReportLevels, c \in Codes : ErrorReport(t, l, c)
    \/ \E f \in Frames : ContextPush(t, f)
    \/ ContextPop(t)
    \/ DebugLogf(t)
    \/ InfoLogf(t)
    \/ WarnLogf(t)
    \/ \E l \in ReportLevels, c \in Codes : ErrorLogf(t, l, c)

Spec == Init /\ [][Next]_vars

-----------------------------------------------------------------------------
(***************************************************************************)
(* Properties.                                                             *)
(***************************************************************************)

\* Every variable holds a value of its type; in particular depth never
\* leaves 0 .. BUILD_SIZE_ERROR_CONTEXT_DEPTH.
TypeOK ==
  /\ err \in [Threads -> Codes \cup {NONE}]
  /\ alloc \in [Threads -> BOOLEAN]
  /\ depth \in [Threads -> 0 .. MaxDepth]
  /\ slot \in [Threads -> [Slots -> Frames \cup {NoFrame}]]
  /\ logical \in [Threads -> Seq(Frames)]
  /\ lastCall \in [Threads -> [op : Calls, level : Levels, lines : Seq(Line)]]

\* After any sequence of pushes, pops and overflows, the frames that
\* error_context() shows (frame[0 .. depth-1]) are the newest outstanding
\* pushes of the thread, oldest first: frame[i-1] is the push that is
\* depth-i below the top of the caller's stack.  An overflow must evict the
\* oldest frame and keep the order of the rest, and a pop must never leave a
\* frame the caller has already popped in view.
ContextIsNewestSuffix ==
  \A t \in Threads :
    /\ depth[t] <= Len(logical[t])
    /\ \A i \in 1 .. depth[t] :
         slot[t][i] = logical[t][Len(logical[t]) - depth[t] + i]

\* The context is allocated only when the feature is compiled in, and has
\* frames only once allocated.
ContextShape ==
  \A t \in Threads :
    /\ alloc[t] => ContextEnabled
    /\ depth[t] > 0 => alloc[t]

\* The design document (section 4.3): reporting an error at a severity logs
\* each context frame "at the given severity".  Every context line that
\* error_logf emitted is at the severity error_logf was called with.
ContextLinesAtCallLevel ==
  \A t \in Threads :
    lastCall[t].op = "error" =>
      \A i \in 1 .. Len(lastCall[t].lines) :
        lastCall[t].lines[i].what \in Frames =>
          lastCall[t].lines[i].level = lastCall[t].level

=============================================================================
